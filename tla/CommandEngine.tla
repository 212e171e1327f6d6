---------------------------- MODULE CommandEngine ----------------------------
(***************************************************************************)
(* Codec commands of the HDA driver: Controller::verb_raw with its         *)
(* fall-back (hda/src/controller.rs), the CORB and RIRB rings              *)
(* (hda/src/corb.rs) and the immediate-command registers, against a        *)
(* controller that fetches, executes and answers commands whenever it      *)
(* likes, or never.  A verb is told apart by its number: 1 is the first    *)
(* one issued.  The codec executes a verb when it reaches the link; what   *)
(* may be late or lost is the response.                                    *)
(***************************************************************************)
EXTENDS Integers, Sequences, FiniteSets

CONSTANTS
  Count,             (* entries of each ring (2, 16 or 256 in the code)    *)
  Cads,              (* codec addresses                                    *)
  CorbTimeoutLimit,  (* CORB_TIMEOUT_LIMIT                                 *)
  MaxVerbs,          (* bound: verbs issued                                *)
  MaxUnsol           (* bound: unsolicited entries                         *)

ASSUME EngineAssumption ==
  /\ Count \in Nat \ {0, 1} /\ CorbTimeoutLimit \in Nat \ {0}
  /\ MaxVerbs \in Nat /\ MaxUnsol \in Nat

VARIABLES
  engine, corb_timeouts, pio_fallback_done,   (* Controller                *)
  sw_rp, pending,                             (* CorbRing                  *)
  corb, corb_wp, corb_rp,                     (* CORB, its two registers   *)
  rirb, hw_wp,                                (* RIRB, RIRBWP              *)
  flight,                                     (* responses on the link     *)
  ic, ir, busy, valid,                        (* IC, IR and the IRS bits   *)
  call, cad,                                  (* the call under way        *)
  result,                                     (* Ok's response, or Err      *)
  issued, unsols,                             (* counts behind the bounds  *)
  executed,                                   (* last verb the codec ran   *)
  times,                                      (* and how often             *)
  timed_out,                                  (* some CORB wait timed out  *)
  failures                                    (* CORB timeouts in a row    *)
                                              (* that callers were told of *)

software == <<engine, corb_timeouts, pio_fallback_done, sw_rp, pending>>
rings == <<corb, corb_wp, corb_rp, rirb, hw_wp, flight>>
pio == <<ic, ir, busy, valid>>
caller == <<call, cad, result, issued>>
history == <<executed, times, timed_out, failures>>
vars == <<engine, corb_timeouts, pio_fallback_done, sw_rp, pending, corb, corb_wp, corb_rp,
          rirb, hw_wp, flight, ic, ir, busy, valid, call, cad, result, issued, unsols,
          executed, times, timed_out, failures>>

Err == -1
Entries == 0 .. Count - 1

(* The entry after i, round the ring.                                      *)
Succ(i) == (i + 1) % Count

(* CorbRing::init, and the registers after a link reset.                   *)
Init ==
  /\ engine = "corb" /\ corb_timeouts = 0 /\ pio_fallback_done = FALSE
  /\ sw_rp = 0 /\ pending = <<>>
  /\ corb = [i \in Entries |-> [verb |-> 0, cad |-> 0]] /\ corb_wp = 0 /\ corb_rp = 0
  /\ rirb = [i \in Entries |-> [verb |-> 0, cad |-> 0, unsol |-> FALSE]] /\ hw_wp = 0
  /\ flight = <<>>
  /\ ic = 0 /\ ir = 0 /\ busy = FALSE /\ valid = FALSE
  /\ call = "idle" /\ cad = 0 /\ result = Err /\ issued = 0 /\ unsols = 0
  /\ executed = 0 /\ times = 0 /\ timed_out = FALSE /\ failures = 0

-----------------------------------------------------------------------------
(* cmd: the next verb, to some codec, by the engine in force.              *)
Issue(c) ==
  /\ call = "idle" /\ issued < MaxVerbs
  /\ issued' = issued + 1
  /\ cad' = c
  /\ call' = IF engine = "corb" THEN "send" ELSE "pio"
  /\ UNCHANGED <<software, rings, pio, result, unsols, history>>

Return(r) == call' = "idle" /\ result' = r /\ UNCHANGED <<cad, issued>>

(* Mutant of Degrade: the verb goes through the rings again.               *)
RetryOnRings ==
  /\ corb_timeouts' = 0 /\ pending' = <<>>
  /\ call' = "send"
  /\ UNCHANGED <<engine, pio_fallback_done, sw_rp, cad, result, issued>>

(* degrade_to_pio; the verb under way is issued again.                     *)
Degrade ==
  /\ engine' = "pio" /\ corb_timeouts' = 0 /\ pio_fallback_done' = TRUE
  /\ pending' = <<>>
  /\ call' = "pio"
  /\ UNCHANGED <<sw_rp, cad, result, issued>>

(* What verb_raw makes of an error that is no timeout.                     *)
HardError ==
  IF pio_fallback_done
  THEN Return(Err) /\ UNCHANGED software
  ELSE Degrade

(* send: publish the verb, unless the ring is full.                        *)
CorbFull == Succ(corb_wp) = corb_rp

Send ==
  /\ call = "send" /\ ~CorbFull
  /\ corb' = [corb EXCEPT ![Succ(corb_wp)] = [verb |-> issued, cad |-> cad]]
  /\ corb_wp' = Succ(corb_wp)
  /\ call' = "wait"
  /\ UNCHANGED <<software, corb_rp, rirb, hw_wp, flight, pio, cad, result, issued, unsols, history>>

SendFull ==
  /\ call = "send" /\ CorbFull
  /\ HardError
  /\ UNCHANGED <<rings, pio, unsols, history>>

-----------------------------------------------------------------------------
(* wait_response.                                                          *)

(* verb_raw after an Ok: the count of timeouts starts again.               *)
Succeed(queue) ==
  /\ Return(Head(queue))
  /\ pending' = Tail(queue)
  /\ corb_timeouts' = 0
  /\ failures' = 0

TakePending ==
  /\ call = "wait" /\ pending # <<>>
  /\ Succeed(pending)
  /\ UNCHANGED <<engine, pio_fallback_done, sw_rp, rings, pio, unsols, executed, times, timed_out>>

(* collect_entries: from the software read pointer, exclusive, to the      *)
(* hardware write pointer, inclusive, round the ring.                      *)
NewEntries ==
  LET n == (hw_wp + Count - sw_rp) % Count IN
  [k \in 1 .. n |-> rirb[(sw_rp + k) % Count]]

(* Mutant of Solicited: the unsolicited bit is not looked at.              *)
SolicitedByCad(e) == e.cad = cad

(* route_entry                                                             *)
Solicited(e) == ~e.unsol /\ e.cad = cad

(* The places among the new entries that are the caller's, and what those  *)
(* entries say, in the order of the ring.                                  *)
Mine == {k \in DOMAIN NewEntries : Solicited(NewEntries[k])}

Nth(i) == CHOOSE k \in Mine : Cardinality({j \in Mine : j <= k}) = i

Arrived == [i \in 1 .. Cardinality(Mine) |-> NewEntries[Nth(i)].verb]

Poll ==
  /\ call = "wait" /\ pending = <<>>
  /\ sw_rp' = hw_wp
  /\ IF Arrived # <<>>
     THEN Succeed(Arrived)
     ELSE /\ call' = "deadline"
          /\ UNCHANGED <<pending, corb_timeouts, failures, cad, result, issued>>
  /\ UNCHANGED <<engine, pio_fallback_done, rings, pio, unsols, executed, times, timed_out>>

(* RIRBWP reads as something outside the ring.                             *)
PollOutOfRange ==
  /\ call = "wait" /\ pending = <<>>
  /\ HardError
  /\ UNCHANGED <<rings, pio, unsols, history>>

KeepPolling ==
  /\ call = "deadline"
  /\ call' = "wait"
  /\ UNCHANGED <<software, rings, pio, cad, result, issued, unsols, history>>

(* Mutant of AtLimit: one timeout too many.                                *)
BeyondLimit == corb_timeouts + 1 > CorbTimeoutLimit /\ ~pio_fallback_done

AtLimit == corb_timeouts + 1 >= CorbTimeoutLimit /\ ~pio_fallback_done

(* The 10 ms are over: an error, or the switch at the limit.               *)
TimedOut ==
  /\ call = "deadline"
  /\ timed_out' = TRUE
  /\ IF AtLimit
     THEN Degrade /\ failures' = 0
     ELSE /\ corb_timeouts' = corb_timeouts + 1
          /\ failures' = failures + 1
          /\ Return(Err)
          /\ UNCHANGED <<engine, pio_fallback_done, sw_rp, pending>>
  /\ UNCHANGED <<rings, pio, unsols, executed, times>>

-----------------------------------------------------------------------------
(* pio_verb.                                                               *)
PioBusy ==
  /\ call = "pio" /\ busy
  /\ Return(Err)
  /\ UNCHANGED <<software, rings, pio, unsols, history>>

PioIssue ==
  /\ call = "pio" /\ ~busy
  /\ ic' = issued /\ busy' = TRUE /\ valid' = FALSE
  /\ call' = "pio_wait"
  /\ UNCHANGED <<software, rings, ir, cad, result, issued, unsols, history>>

PioRead ==
  /\ call = "pio_wait" /\ valid
  /\ Return(ir)
  /\ UNCHANGED <<software, rings, pio, unsols, history>>

(* Mutant of PioTimedOut: there is no deadline.                            *)
PioWaitsOn == call = "pio_wait" /\ ~valid /\ UNCHANGED vars

PioTimedOut ==
  /\ call = "pio_wait" /\ ~valid
  /\ Return(Err)
  /\ UNCHANGED <<software, rings, pio, unsols, history>>

-----------------------------------------------------------------------------
(* The hardware.                                                           *)

Execute(v) ==
  /\ executed' = v
  /\ times' = IF v = executed THEN times + 1 ELSE 1
  /\ UNCHANGED <<timed_out, failures>>

(* Mutant of CorbRunning: degrade_to_pio leaves the engines on.            *)
CorbNeverStops == TRUE

(* The CORB DMA runs until degrade_to_pio shuts it down.                   *)
CorbRunning == engine = "corb"

Fetch ==
  /\ CorbRunning /\ corb_rp # corb_wp
  /\ corb_rp' = Succ(corb_rp)
  /\ flight' = Append(flight, corb[Succ(corb_rp)])
  /\ Execute(corb[Succ(corb_rp)].verb)
  /\ UNCHANGED <<software, corb, corb_wp, rirb, hw_wp, pio, caller, unsols>>

(* An entry goes into the RIRB whether or not there is room.               *)
WriteRirb(e) ==
  /\ CorbRunning
  /\ rirb' = [rirb EXCEPT ![Succ(hw_wp)] = e]
  /\ hw_wp' = Succ(hw_wp)
  /\ UNCHANGED <<software, corb, corb_wp, corb_rp, pio, caller, history>>

Respond ==
  /\ flight # <<>>
  /\ WriteRirb([verb |-> Head(flight).verb, cad |-> Head(flight).cad, unsol |-> FALSE])
  /\ flight' = Tail(flight)
  /\ UNCHANGED unsols

Unsolicited(c) ==
  /\ unsols < MaxUnsol /\ unsols' = unsols + 1
  /\ WriteRirb([verb |-> 0, cad |-> c, unsol |-> TRUE])
  /\ UNCHANGED flight

LoseResponse ==
  /\ flight # <<>>
  /\ flight' = Tail(flight)
  /\ UNCHANGED <<software, corb, corb_wp, corb_rp, rirb, hw_wp, pio, caller, unsols, history>>

PioRespond ==
  /\ busy
  /\ ir' = ic /\ valid' = TRUE /\ busy' = FALSE
  /\ Execute(ic)
  /\ UNCHANGED <<software, rings, ic, caller, unsols>>

-----------------------------------------------------------------------------
Wait == TakePending \/ Poll \/ PollOutOfRange
Deadline == KeepPolling \/ TimedOut
Pio == PioBusy \/ PioIssue \/ PioRead \/ PioTimedOut
Hardware == \/ Fetch \/ Respond \/ LoseResponse \/ PioRespond
            \/ \E c \in Cads : Unsolicited(c)

Next == \/ \E c \in Cads : Issue(c)
        \/ Send \/ SendFull \/ Wait \/ Deadline \/ Pio \/ Hardware

Spec == Init /\ [][Next]_vars

(* The thread runs and its clock too, so that the deadline is not put off  *)
(* for ever; nothing is asked of the hardware.                             *)
FairSpec == /\ Spec
            /\ WF_vars(Send \/ SendFull \/ Wait \/ Deadline \/ Pio)
            /\ SF_vars(TimedOut)

-----------------------------------------------------------------------------
Commands == 0 .. MaxVerbs

(* pending and result, which the rings' contents decide, are left out.     *)
TypeOK ==
  /\ engine \in {"corb", "pio"} /\ pio_fallback_done \in BOOLEAN
  /\ corb_timeouts \in 0 .. CorbTimeoutLimit - 1
  /\ sw_rp \in Entries /\ corb_wp \in Entries /\ corb_rp \in Entries /\ hw_wp \in Entries
  /\ corb \in [Entries -> [verb : Commands, cad : Cads \cup {0}]]
  /\ rirb \in [Entries -> [verb : Commands, cad : Cads \cup {0}, unsol : BOOLEAN]]
  /\ flight \in Seq([verb : Commands, cad : Cads \cup {0}])
  /\ ic \in Commands /\ ir \in Commands /\ busy \in BOOLEAN /\ valid \in BOOLEAN
  /\ call \in {"idle", "send", "wait", "deadline", "pio", "pio_wait"}
  /\ cad \in Cads \cup {0}
  /\ issued \in Commands /\ unsols \in 0 .. MaxUnsol
  /\ executed \in Commands /\ times \in Nat
  /\ timed_out \in BOOLEAN /\ failures \in Nat

(* The codec runs the verbs in the order they were issued, whatever timed  *)
(* out on the way, and one that is issued again has nothing between its    *)
(* two runs: that is what makes "re-issuing a timed out verb through PIO"  *)
(* safe (controller.rs, degrade_to_pio).                                   *)
ExecutedInOrder == [][executed' >= executed]_vars
AtMostTwice == times <= 2

(* A caller that is given a response is given its own, through unsolicited *)
(* and foreign entries, an RIRB that overruns and the switch of engines,   *)
(* as long as no CORB wait has timed out; and again once PIO has replaced  *)
(* the rings.                                                              *)
Answered == call = "idle" /\ result # Err
OwnResponse == Answered /\ (~timed_out \/ engine = "pio") => result = issued

(* Callers are never told of CORB_TIMEOUT_LIMIT timeouts in a row.         *)
TimeoutsBounded == failures < CorbTimeoutLimit

(* A verb comes back, with a response or an error, even from hardware that *)
(* has stopped altogether: the mixer thread and STATUS wait for it.        *)
VerbReturns == call # "idle" ~> call = "idle"

(* "Wait for the solicited response to the verb last sent to codec `cad`." *)
(* (corb.rs, wait_response.)                                               *)
ResponseMatches == Answered => result = issued

=============================================================================
