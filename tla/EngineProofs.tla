----------------------------- MODULE EngineProofs -----------------------------
(***************************************************************************)
(* For rings of any size, any number of codecs and verbs and any limit:    *)
(* callers are told of fewer timeouts in a row than the limit; the codec   *)
(* executes verbs in the order of issue, and none more than twice; a       *)
(* response that is returned is the caller's own until a wait times out.   *)
(*                                                                         *)
(* The order rests on the CORB being a queue of ever later verbs, all of   *)
(* them later than the last one executed (Ordered); that a verb is not     *)
(* executed a third time, on the switch of engines leaving nothing busy    *)
(* and on the verb under way being issued at most once afterwards (Once);  *)
(* that a response is the caller's, on one command at a time being queued, *)
(* on the link or answered until one is given up (Exchange).               *)
(***************************************************************************)
EXTENDS CommandEngine, FiniteSetTheorems, TLAPS

(* The engine in force, what has been tried, and the call it serves.       *)
InForce ==
  /\ engine \in {"corb", "pio"} /\ (engine = "corb" => ~pio_fallback_done)
  /\ call \in {"idle", "send", "wait", "deadline", "pio", "pio_wait"}
  /\ call \in {"send", "wait", "deadline"} => engine = "corb"
  /\ call \in {"pio", "pio_wait"} => engine = "pio"

(* While the rings are in force, callers have been told of each timeout    *)
(* since the last success.                                                 *)
Told ==
  /\ corb_timeouts \in 0 .. CorbTimeoutLimit - 1 /\ failures \in 0 .. CorbTimeoutLimit - 1
  /\ engine = "corb" => failures = corb_timeouts

LEMMA EngineSwitches ==
  ASSUME InForce, Told, [Next]_vars
  PROVE  InForce' /\ Told'
<1> USE EngineAssumption DEF InForce, Told, software, caller, history, Return
<1>1. ASSUME NEW c \in Cads, Issue(c) PROVE InForce' /\ Told'
  BY <1>1 DEF Issue
<1>2. CASE Send
  BY <1>2 DEF Send
<1>3. CASE SendFull
  <2>1. ~pio_fallback_done
    BY <1>3 DEF SendFull
  <2> QED
    BY <2>1, <1>3 DEF SendFull, HardError, Degrade
<1>4. CASE TakePending
  BY <1>4 DEF TakePending, Succeed
<1>5. CASE Poll
  BY <1>5 DEF Poll, Succeed
<1>6. CASE PollOutOfRange
  <2>1. ~pio_fallback_done
    BY <1>6 DEF PollOutOfRange
  <2> QED
    BY <2>1, <1>6 DEF PollOutOfRange, HardError, Degrade
<1>7. CASE KeepPolling
  BY <1>7 DEF KeepPolling
<1>8. CASE TimedOut
  <2>1. ~pio_fallback_done
    BY <1>8 DEF TimedOut
  <2>2. CASE AtLimit
    BY <2>2, <1>8 DEF TimedOut, Degrade
  <2>3. CASE ~AtLimit
    BY <2>1, <2>3, <1>8 DEF TimedOut, AtLimit
  <2> QED
    BY <2>2, <2>3
<1>9. CASE Pio
  BY <1>9 DEF Pio, PioBusy, PioIssue, PioRead, PioTimedOut
<1>10. CASE Hardware
  BY <1>10 DEF Hardware, Fetch, Respond, LoseResponse, PioRespond, Unsolicited, WriteRirb, Execute
<1>11. CASE UNCHANGED vars
  BY <1>11 DEF vars
<1> QED
  BY <1>1, <1>2, <1>3, <1>4, <1>5, <1>6, <1>7, <1>8, <1>9, <1>10, <1>11 DEF Next, Wait, Deadline

LEMMA EngineInForce == Spec => [](InForce /\ Told)
<1>1. Init => InForce /\ Told
  BY EngineAssumption DEF Init, InForce, Told
<1> QED
  BY <1>1, EngineSwitches, PTL DEF Spec

(* "Consecutive CORB response timeouts tolerated before the sticky degrade *)
(* to PIO trips" (controller.rs): callers are told of fewer than the limit.*)
THEOREM TimeoutsAreBounded == Spec => []TimeoutsBounded
<1>1. InForce /\ Told => TimeoutsBounded
  BY EngineAssumption DEF Told, TimeoutsBounded
<1> QED
  BY EngineInForce, <1>1, PTL

-----------------------------------------------------------------------------
(* Types, by the kind of value.                                            *)
Command == [verb : Commands, cad : Cads \cup {0}]
Response == [verb : Commands, cad : Cads \cup {0}, unsol : BOOLEAN]

Registers ==
  /\ sw_rp \in Entries /\ corb_wp \in Entries /\ corb_rp \in Entries /\ hw_wp \in Entries
  /\ ic \in Commands /\ ir \in Commands
  /\ issued \in Commands /\ unsols \in 0 .. MaxUnsol
  /\ executed \in Commands /\ times \in Nat

Buffers ==
  /\ corb \in [Entries -> Command] /\ rirb \in [Entries -> Response]
  /\ flight \in Seq(Command) /\ cad \in Cads \cup {0}

Bits == busy \in BOOLEAN /\ valid \in BOOLEAN /\ timed_out \in BOOLEAN /\ pio_fallback_done \in BOOLEAN

Typed == Registers /\ Buffers /\ Bits

LEMMA SuccInEntries == \A i \in Entries : Succ(i) \in Entries
BY EngineAssumption DEF Entries, Succ

LEMMA TypedInit == Init => Typed
<1> SUFFICES ASSUME Init PROVE Typed
  OBVIOUS
<1>1. Registers
  BY EngineAssumption DEF Init, Registers, Entries, Commands
<1>2. Buffers
  BY EngineAssumption DEF Init, Buffers, Command, Response, Commands
<1>3. Bits
  BY DEF Init, Bits
<1> QED
  BY <1>1, <1>2, <1>3 DEF Typed

LEMMA RegistersKept ==
  ASSUME Registers, Buffers, [Next]_vars
  PROVE  Registers'
<1> USE EngineAssumption, SuccInEntries DEF Registers, software, rings, pio, caller, history, Return
<1>0. 0 \in Commands /\ \A i \in Entries : corb[i].verb \in Commands
  BY DEF Buffers, Command, Commands
<1>1. ASSUME NEW c \in Cads, Issue(c) PROVE Registers'
  BY <1>1 DEF Issue, Commands
<1>2. CASE Send
  BY <1>2 DEF Send
<1>3. CASE SendFull \/ PollOutOfRange
  BY <1>3 DEF SendFull, PollOutOfRange, HardError, Degrade
<1>4. CASE TakePending \/ Poll
  BY <1>4 DEF TakePending, Poll, Succeed
<1>5. CASE Deadline
  BY <1>5 DEF Deadline, KeepPolling, TimedOut, Degrade
<1>6. CASE Pio
  BY <1>6 DEF Pio, PioBusy, PioIssue, PioRead, PioTimedOut
<1>7. CASE Fetch
  BY <1>0, <1>7 DEF Fetch, Execute
<1>8. CASE Respond \/ LoseResponse
  BY <1>8 DEF Respond, LoseResponse, WriteRirb
<1>9. ASSUME NEW c \in Cads, Unsolicited(c) PROVE Registers'
  BY <1>9 DEF Unsolicited, WriteRirb
<1>10. CASE PioRespond
  BY <1>10 DEF PioRespond, Execute
<1>11. CASE UNCHANGED vars
  BY <1>11 DEF vars
<1> QED
  BY <1>1, <1>2, <1>3, <1>4, <1>5, <1>6, <1>7, <1>8, <1>9, <1>10, <1>11 DEF Next, Wait, Hardware

LEMMA BuffersKept ==
  ASSUME Registers, Buffers, [Next]_vars
  PROVE  Buffers'
<1> USE DEF Buffers, software, rings, caller, Return
<1>1. CASE UNCHANGED <<corb, rirb, flight, cad>>
  BY <1>1
<1>2. ASSUME NEW c \in Cads, Issue(c) PROVE Buffers'
  BY <1>2 DEF Issue
<1>3. CASE Send
  <2>1. [verb |-> issued, cad |-> cad] \in Command
    BY DEF Registers, Command
  <2> QED
    BY <2>1, <1>3 DEF Send
<1>4. CASE Fetch
  <2>1. corb[Succ(corb_rp)] \in Command
    BY SuccInEntries DEF Registers
  <2> QED
    BY <2>1, <1>4 DEF Fetch
<1>5. ASSUME NEW e \in Response, WriteRirb(e) PROVE rirb' \in [Entries -> Response]
  BY <1>5 DEF WriteRirb
<1>6. CASE Respond
  <2>1. Head(flight) \in Command /\ Tail(flight) \in Seq(Command)
    BY <1>6 DEF Respond
  <2>2. [verb |-> Head(flight).verb, cad |-> Head(flight).cad, unsol |-> FALSE] \in Response
    BY <2>1 DEF Command, Response
  <2> QED
    BY <2>1, <2>2, <1>5, <1>6 DEF Respond, WriteRirb
<1>7. ASSUME NEW c \in Cads, Unsolicited(c) PROVE Buffers'
  <2>1. [verb |-> 0, cad |-> c, unsol |-> TRUE] \in Response
    BY EngineAssumption DEF Response, Commands
  <2> QED
    BY <2>1, <1>5, <1>7 DEF Unsolicited, WriteRirb
<1>8. CASE LoseResponse
  BY <1>8 DEF LoseResponse
<1>9. CASE SendFull \/ Wait \/ Deadline
  BY <1>1, <1>9
  DEF SendFull, Wait, TakePending, Poll, Succeed, PollOutOfRange, HardError, Degrade, Deadline,
      KeepPolling, TimedOut
<1>10. CASE Pio \/ PioRespond \/ UNCHANGED vars
  BY <1>1, <1>10 DEF Pio, PioBusy, PioIssue, PioRead, PioTimedOut, PioRespond, vars
<1> QED
  BY <1>2, <1>3, <1>4, <1>6, <1>7, <1>8, <1>9, <1>10 DEF Next, Hardware

LEMMA BitsKept ==
  ASSUME Bits, [Next]_vars
  PROVE  Bits'
<1> USE DEF Bits, software, pio, history, Return
<1>1. CASE UNCHANGED <<busy, valid, timed_out, pio_fallback_done>>
  BY <1>1
<1>2. CASE SendFull \/ PollOutOfRange
  BY <1>2 DEF SendFull, PollOutOfRange, HardError, Degrade
<1>3. CASE TimedOut
  BY <1>3 DEF TimedOut, Degrade
<1>4. CASE PioIssue
  BY <1>4 DEF PioIssue
<1>5. CASE PioRespond
  BY <1>5 DEF PioRespond, Execute
<1>6. CASE Send \/ TakePending \/ Poll \/ KeepPolling \/ \E c \in Cads : Issue(c)
  BY <1>1, <1>6 DEF Send, TakePending, Poll, Succeed, KeepPolling, Issue
<1>7. CASE PioBusy \/ PioRead \/ PioTimedOut \/ UNCHANGED vars
  BY <1>1, <1>7 DEF PioBusy, PioRead, PioTimedOut, vars
<1>8. CASE Fetch \/ Respond \/ LoseResponse \/ \E c \in Cads : Unsolicited(c)
  BY <1>1, <1>8 DEF Fetch, Execute, Respond, LoseResponse, Unsolicited, WriteRirb
<1> QED
  BY <1>2, <1>3, <1>4, <1>5, <1>6, <1>7, <1>8 DEF Next, Wait, Deadline, Pio, Hardware

LEMMA EngineTyped == Spec => []Typed
<1>1. Typed /\ [Next]_vars => Typed'
  BY RegistersKept, BuffersKept, BitsKept DEF Typed
<1> QED
  BY TypedInit, <1>1, PTL DEF Spec

(* Pointers stay within the rings, whose entries are commands and          *)
(* responses, and every count within its range.                            *)
THEOREM EngineTypeCorrect == Spec => []TypeOK
<1>1. InForce /\ Told /\ Typed => TypeOK
  BY EngineAssumption
  DEF InForce, Told, Typed, Registers, Buffers, Bits, Command, Response, TypeOK
<1> QED
  BY EngineInForce, EngineTyped, <1>1, PTL

-----------------------------------------------------------------------------
(* The k-th entry from the CORB read pointer.                              *)
Slot(k) == (corb_rp + k) % Count

LEMMA SlotFacts ==
  ASSUME corb_rp \in Entries
  PROVE  /\ Slot(0) = corb_rp
         /\ \A k \in 0 .. Count - 1 : Slot(k) \in Entries /\ Succ(Slot(k)) = Slot(k + 1)
         /\ \A j, k \in 0 .. Count - 1 : Slot(j) = Slot(k) => j = k
         /\ Slot(Count) = corb_rp
BY EngineAssumption DEF Slot, Entries, Succ

(* q verbs are queued in the CORB, each later than the one before it and   *)
(* the first later than the last one executed; the verb about to be sent   *)
(* is later than all of them.                                              *)
Ordered(q) ==
  /\ q \in 0 .. Count - 1 /\ corb_wp = Slot(q)
  /\ \A k \in 1 .. q : corb[Slot(k)].verb > executed /\ corb[Slot(k)].verb <= issued
  /\ \A j, k \in 1 .. q : j < k => corb[Slot(j)].verb < corb[Slot(k)].verb
  /\ call = "send" => /\ executed < issued
                      /\ \A k \in 1 .. q : corb[Slot(k)].verb < issued

(* Under PIO a verb is run a second time only if it had been run once when *)
(* the engines were switched.                                              *)
Once ==
  /\ executed <= issued /\ times <= 2
  /\ engine = "corb" => times <= 1 /\ ~busy
  /\ call = "pio" /\ executed = issued => times <= 1
  /\ call = "pio" /\ busy => ic < issued
  /\ busy => ic >= executed /\ ic <= issued /\ (ic = executed => times <= 1)

OInv == Once /\ (engine = "corb" => \E q \in Nat : Ordered(q))

LEMMA OrderInit == Init => OInv
<1> SUFFICES ASSUME Init PROVE OInv
  OBVIOUS
<1>1. Ordered(0)
  BY EngineAssumption DEF Init, Ordered, Slot
<1>2. Once
  BY DEF Init, Once
<1> QED
  BY <1>1, <1>2 DEF OInv

LEMMA SendKeepsOrder ==
  ASSUME Registers, Buffers, InForce, OInv, Send
  PROVE  OInv'
<1> USE DEF Registers
<1>1. PICK q \in Nat : Ordered(q)
  BY DEF Send, InForce, OInv
<1>2. q \in 0 .. Count - 1 /\ q + 1 \in Nat /\ Count \in Nat
  BY <1>1, EngineAssumption DEF Ordered
<1>3. Succ(corb_wp) = Slot(q + 1) /\ Slot(0) = corb_rp
  BY <1>1, <1>2, SlotFacts DEF Ordered
<1>4. q + 1 # Count
  BY <1>3, SlotFacts DEF Send, CorbFull
<1>5. q + 1 \in 0 .. Count - 1
  BY <1>2, <1>4
<1>6. \A k \in 1 .. q : Slot(k) # Slot(q + 1) /\ Slot(k) \in Entries
  BY <1>2, <1>5, SlotFacts
<1>7. Slot(q + 1) \in Entries
  BY <1>5, SlotFacts
<1>8. /\ corb' = [corb EXCEPT ![Slot(q + 1)] = [verb |-> issued, cad |-> cad]]
      /\ corb_wp' = Slot(q + 1) /\ corb_rp' = corb_rp /\ call' = "wait" /\ call = "send"
      /\ UNCHANGED <<engine, executed, times, issued, busy, ic>>
  BY <1>3 DEF Send, software, pio, history
<1>9. corb'[Slot(q + 1)].verb = issued /\ \A k \in 1 .. q : corb'[Slot(k)] = corb[Slot(k)]
  BY <1>6, <1>7, <1>8 DEF Buffers
<1>10. \A k : Slot(k)' = Slot(k)
  BY <1>8 DEF Slot
<1>11. \A k \in 1 .. q + 1 : k \in 1 .. q \/ k = q + 1
  BY <1>2
<1>12. \A k \in 1 .. q : corb[Slot(k)].verb > executed /\ corb[Slot(k)].verb < issued
                       /\ corb[Slot(k)].verb \in Commands
  BY <1>1, <1>6, <1>8 DEF Ordered, Buffers, Command
<1>13. executed < issued
  BY <1>1, <1>8 DEF Ordered
<1>14. \A k \in 1 .. q + 1 : corb'[Slot(k)].verb > executed /\ corb'[Slot(k)].verb <= issued
  BY <1>9, <1>11, <1>12, <1>13 DEF Commands
<1>15. \A j, k \in 1 .. q + 1 : j < k => corb'[Slot(j)].verb < corb'[Slot(k)].verb
  <2> SUFFICES ASSUME NEW j \in 1 .. q + 1, NEW k \in 1 .. q + 1, j < k
               PROVE  corb'[Slot(j)].verb < corb'[Slot(k)].verb
    OBVIOUS
  <2>1. j \in 1 .. q
    BY <1>2
  <2>2. CASE k = q + 1
    BY <2>1, <2>2, <1>9, <1>12
  <2>3. CASE k \in 1 .. q
    BY <2>1, <2>3, <1>1, <1>9 DEF Ordered
  <2> QED
    BY <2>2, <2>3, <1>11
<1>16. Ordered(q + 1)'
  BY <1>5, <1>8, <1>10, <1>14, <1>15 DEF Ordered
<1>17. Once'
  BY <1>8 DEF Once, OInv
<1> QED
  BY <1>2, <1>16, <1>17 DEF OInv

LEMMA FetchRunsNext ==
  ASSUME Registers, Buffers, OInv, Fetch
  PROVE  OInv' /\ executed' > executed /\ times' = 1
<1> USE DEF Registers
<1>1. engine = "corb"
  BY DEF Fetch, CorbRunning
<1>2. PICK q \in Nat : Ordered(q)
  BY <1>1 DEF OInv
<1>3. q \in 0 .. Count - 1 /\ Count \in Nat /\ corb_wp = Slot(q)
  BY <1>2, EngineAssumption DEF Ordered
<1>4. Slot(0) = corb_rp /\ Succ(corb_rp) = Slot(1) /\ Slot(1) \in Entries
  BY EngineAssumption, SlotFacts, SuccInEntries
<1>5. q >= 1
  BY <1>3, <1>4 DEF Fetch
<1>6. /\ corb_rp' = Slot(1) /\ executed' = corb[Slot(1)].verb
      /\ times' = IF executed' = executed THEN times + 1 ELSE 1
      /\ UNCHANGED <<corb, corb_wp, call, issued, engine, busy, ic>>
  BY <1>4 DEF Fetch, Execute, software, pio, caller
<1>7. executed' > executed /\ executed' <= issued
  BY <1>2, <1>3, <1>5, <1>6 DEF Ordered
<1>8. times' = 1
  BY <1>6, <1>7 DEF Commands
<1>9. \A k \in 0 .. Count - 2 : Slot(k)' = Slot(k + 1)
  BY <1>6, EngineAssumption DEF Slot, Entries
<1>10. q - 1 \in 0 .. Count - 1 /\ q - 1 \in Nat /\ q - 1 \in 0 .. Count - 2
       /\ \A k \in 1 .. q - 1 : k + 1 \in 1 .. q /\ k \in 0 .. Count - 2
  BY <1>3, <1>5
<1>11. corb_wp' = Slot(q - 1)'
  BY <1>3, <1>6, <1>9, <1>10
<1>12. \A k \in 1 .. q - 1 : corb'[Slot(k)'].verb = corb[Slot(k + 1)].verb
  BY <1>6, <1>9, <1>10
<1>13. \A k \in 1 .. q - 1 : corb[Slot(k + 1)].verb > executed' /\ corb[Slot(k + 1)].verb <= issued
  BY <1>2, <1>5, <1>6, <1>10 DEF Ordered
<1>14. \A j, k \in 1 .. q - 1 : j < k => corb[Slot(j + 1)].verb < corb[Slot(k + 1)].verb
  BY <1>2, <1>10 DEF Ordered
<1>15. call = "send" => executed' < issued /\ \A k \in 1 .. q - 1 : corb[Slot(k + 1)].verb < issued
  BY <1>2, <1>5, <1>6, <1>10 DEF Ordered
<1>16. Ordered(q - 1)'
  BY <1>6, <1>10, <1>11, <1>12, <1>13, <1>14, <1>15 DEF Ordered
<1>17. Once'
  BY <1>1, <1>6, <1>7, <1>8 DEF Once, OInv
<1> QED
  BY <1>7, <1>8, <1>10, <1>16, <1>17 DEF OInv

LEMMA IssueKeepsOrder ==
  ASSUME Registers, Buffers, InForce, OInv, NEW c \in Cads, Issue(c)
  PROVE  OInv'
<1> USE DEF Registers, Commands
<1>1. /\ issued' = issued + 1 /\ call = "idle"
      /\ call' = IF engine = "corb" THEN "send" ELSE "pio"
      /\ UNCHANGED <<engine, corb, corb_wp, corb_rp, executed, times, busy, ic>>
  BY DEF Issue, software, rings, pio, history
<1>2. Once'
  BY <1>1 DEF OInv, Once
<1>3. ASSUME NEW q \in Nat, Ordered(q) PROVE Ordered(q)'
  <2>1. \A k : Slot(k)' = Slot(k)
    BY <1>1 DEF Slot
  <2>2. \A k \in 1 .. q : corb[Slot(k)].verb \in Nat
    <3>1. \A k \in 1 .. q : k \in 0 .. Count - 1
      BY <1>3, EngineAssumption DEF Ordered
    <3>2. \A k \in 1 .. q : Slot(k) \in Entries
      BY <3>1, SlotFacts
    <3> QED
      BY <3>2 DEF Buffers, Command
  <2>3. executed < issued'
    BY <1>1 DEF OInv, Once
  <2> QED
    BY <1>1, <1>3, <2>1, <2>2, <2>3 DEF Ordered
<1> QED
  BY <1>1, <1>2, <1>3 DEF OInv

(* A step that leaves the CORB, its pointers and the counts alone.         *)
LEMMA OthersKeepOrder ==
  ASSUME OInv, UNCHANGED <<corb, corb_wp, corb_rp, executed, times, issued>>,
         engine' = "corb" => engine = "corb" /\ (call' = "send" => call = "send"),
         Once'
  PROVE  OInv'
<1>1. ASSUME NEW q \in Nat, Ordered(q), engine' = "corb" PROVE Ordered(q)'
  BY <1>1 DEF Ordered, Slot
<1> QED
  BY <1>1 DEF OInv

LEMMA OrderKept ==
  ASSUME Registers, Buffers, InForce, OInv, [Next]_vars
  PROVE  OInv' /\ executed' >= executed
<1> USE DEF Registers
<1>1. ASSUME NEW c \in Cads, Issue(c) PROVE OInv' /\ executed' >= executed
  BY <1>1, IssueKeepsOrder DEF Issue, history, Commands
<1>2. CASE Send
  BY <1>2, SendKeepsOrder DEF Send, history, Commands
<1>3. CASE Fetch
  <2>1. executed' \in Commands
    BY RegistersKept
  <2> QED
    BY <1>3, <2>1, FetchRunsNext DEF Commands
<1>4. CASE /\ UNCHANGED <<corb, corb_wp, corb_rp, executed, times, issued, busy, ic, engine>>
           /\ call' \in {"idle", "wait", "deadline"}
  BY <1>4, OthersKeepOrder DEF OInv, Once, Commands
<1>5. CASE /\ UNCHANGED <<corb, corb_wp, corb_rp, executed, times, issued, busy, ic, call, engine>>
  BY <1>5, OthersKeepOrder DEF OInv, Once, Commands
<1>6. CASE /\ Degrade /\ engine = "corb"
           /\ UNCHANGED <<corb, corb_wp, corb_rp, executed, times, busy, ic>>
  <2>1. Once'
    BY <1>6 DEF Degrade, OInv, Once
  <2> QED
    BY <1>6, <2>1, OthersKeepOrder DEF Degrade, Commands
<1>7. CASE SendFull \/ PollOutOfRange
  BY <1>4, <1>6, <1>7 DEF SendFull, PollOutOfRange, HardError, Return, InForce, rings, pio, history, software
<1>8. CASE TakePending \/ Poll
  BY <1>4, <1>8 DEF TakePending, Poll, Succeed, Return, rings, pio
<1>9. CASE KeepPolling
  BY <1>4, <1>9 DEF KeepPolling, software, rings, pio, history
<1>10. CASE TimedOut
  BY <1>4, <1>6, <1>10 DEF TimedOut, Return, InForce, rings, pio
<1>11. CASE PioBusy \/ PioRead \/ PioTimedOut
  BY <1>4, <1>11 DEF PioBusy, PioRead, PioTimedOut, Return, software, rings, pio, history
<1>12. CASE PioIssue
  <2>1. /\ ic' = issued /\ call = "pio" /\ call' = "pio_wait"
        /\ UNCHANGED <<corb, corb_wp, corb_rp, executed, times, issued, engine>>
    BY <1>12 DEF PioIssue, software, rings, history
  <2>2. engine # "corb" /\ Once'
    BY <2>1 DEF OInv, Once, InForce, Commands
  <2> QED
    BY <2>1, <2>2, OthersKeepOrder DEF Commands
<1>13. CASE PioRespond
  <2>1. /\ busy /\ ~busy' /\ executed' = ic
        /\ times' = IF ic = executed THEN times + 1 ELSE 1
        /\ UNCHANGED <<issued, engine, call>>
    BY <1>13 DEF PioRespond, Execute, software, caller
  <2>2. engine # "corb" /\ executed' >= executed
    BY <2>1 DEF OInv, Once
  <2>3. Once'
    BY <2>1, <2>2 DEF OInv, Once, InForce, Commands
  <2> QED
    BY <2>1, <2>2, <2>3 DEF OInv
<1>14. CASE Respond \/ LoseResponse \/ \E c \in Cads : Unsolicited(c)
  BY <1>5, <1>14 DEF Respond, LoseResponse, Unsolicited, WriteRirb, software, pio, caller, history
<1>15. CASE UNCHANGED vars
  BY <1>5, <1>15 DEF vars
<1> QED
  BY <1>1, <1>2, <1>3, <1>7, <1>8, <1>9, <1>10, <1>11, <1>12, <1>13, <1>14, <1>15
  DEF Next, Wait, Deadline, Pio, Hardware

LEMMA EngineOrdered == Spec => [](InForce /\ Typed /\ OInv)
<1>1. InForce /\ Typed /\ OInv /\ [Next]_vars => OInv'
  BY OrderKept DEF Typed
<1> QED
  BY EngineInForce, EngineTyped, OrderInit, <1>1, PTL DEF Spec

(* Whatever timed out, was lost or overran, the codec never runs a verb    *)
(* after a later one.                                                      *)
THEOREM VerbsInOrder == Spec => ExecutedInOrder
<1>1. InForce /\ Typed /\ OInv /\ [Next]_vars => [executed' >= executed]_vars
  BY OrderKept DEF Typed
<1> QED
  BY EngineOrdered, <1>1, PTL DEF Spec, ExecutedInOrder

(* "Verbs are idempotent single round-trips, so re-issuing a timed out     *)
(* verb through PIO is safe" (controller.rs): once, at most.               *)
THEOREM VerbsAtMostTwice == Spec => []AtMostTwice
<1>1. OInv => AtMostTwice
  BY DEF OInv, Once, AtMostTwice
<1> QED
  BY EngineOrdered, <1>1, PTL

-----------------------------------------------------------------------------
(* How many entries are new, and where the k-th of them is.                *)
News == (hw_wp + Count - sw_rp) % Count
Place(k) == (sw_rp + k) % Count

LEMMA PlaceFacts ==
  ASSUME sw_rp \in Entries, hw_wp \in Entries
  PROVE  /\ News \in 0 .. Count - 1 /\ Place(News) = hw_wp
         /\ \A k \in 0 .. Count - 1 : Place(k) \in Entries /\ Succ(Place(k)) = Place(k + 1)
         /\ \A j, k \in 0 .. Count - 1 : Place(j) = Place(k) => j = k
         /\ Place(Count) = sw_rp
         /\ \A k \in 0 .. Count - 1 : (Place(k) + Count - sw_rp) % Count = k
BY EngineAssumption DEF Place, News, Entries, Succ

LEMMA NewEntriesAt ==
  DOMAIN NewEntries = 1 .. News /\ \A k \in 1 .. News : NewEntries[k] = rirb[Place(k)]
BY DEF NewEntries, News, Place

(* An entry that is written joins the new ones at their end, or the ring   *)
(* has gone round and none seems new.                                      *)
LEMMA WriteJoins ==
  ASSUME Registers, Buffers, NEW e \in Response, WriteRirb(e)
  PROVE  \/ DOMAIN NewEntries' = {}
         \/ /\ DOMAIN NewEntries' = 1 .. News + 1 /\ NewEntries'[News + 1] = e
            /\ \A k \in 1 .. News : NewEntries'[k] = NewEntries[k]
<1> USE DEF Registers
<1>0. sw_rp \in Entries /\ hw_wp \in Entries /\ Count \in Nat \ {0, 1}
  BY EngineAssumption
<1>1. /\ rirb' = [rirb EXCEPT ![Succ(hw_wp)] = e] /\ hw_wp' = Succ(hw_wp) /\ sw_rp' = sw_rp
  BY DEF WriteRirb, software
<1>2. News \in 0 .. Count - 1 /\ Succ(hw_wp) = Place(News + 1)
  BY <1>0, PlaceFacts
<1>3. \A k : Place(k)' = Place(k)
  BY <1>1 DEF Place
<1>4. DOMAIN NewEntries' = 1 .. News' /\ \A k \in 1 .. News' : NewEntries'[k] = rirb'[Place(k)]
  BY <1>1 DEF NewEntries, News, Place
<1>5. CASE News = Count - 1
  <2>1. hw_wp' = sw_rp
    BY <1>0, <1>1, <1>2, <1>5, PlaceFacts
  <2>2. News' = 0
    BY <1>0, <1>1, <2>1 DEF News, Entries
  <2> QED
    BY <1>4, <2>2
<1>6. CASE News # Count - 1
  <2>1. News + 1 \in 0 .. Count - 1
    BY <1>0, <1>2, <1>6
  <2>2. News' = News + 1
    BY <1>0, <1>1, <1>2, <2>1, PlaceFacts DEF News
  <2>3. Place(News + 1) \in Entries
    BY <1>0, <2>1, PlaceFacts
  <2>4. \A k \in 1 .. News : Place(k) # Place(News + 1) /\ Place(k) \in Entries
    BY <1>0, <1>2, <2>1, PlaceFacts
  <2>5. rirb'[Place(News + 1)] = e /\ \A k \in 1 .. News : rirb'[Place(k)] = rirb[Place(k)]
    BY <1>1, <1>2, <2>3, <2>4 DEF Buffers
  <2>6. \A k \in 1 .. News : k \in 1 .. News + 1
    BY <1>2
  <2>7. News + 1 \in 1 .. News + 1
    BY <1>2
  <2> QED
    BY <1>2, <1>4, <2>2, <2>5, <2>6, <2>7, NewEntriesAt
<1> QED
  BY <1>5, <1>6

(* The only new entry that is the caller's is what a poll returns.         *)
LEMMA OneArrives ==
  ASSUME \A k \in DOMAIN NewEntries :
           ~NewEntries[k].unsol => NewEntries[k].verb = issued /\ NewEntries[k].cad = cad,
         \A j, k \in DOMAIN NewEntries : ~NewEntries[j].unsol /\ ~NewEntries[k].unsol => j = k,
         Arrived # <<>>
  PROVE  Head(Arrived) = issued /\ Tail(Arrived) = <<>>
<1>1. CASE Mine = {}
  <2>1. Cardinality(Mine) = 0
    BY <1>1, FS_EmptySet
  <2>2. Arrived = <<>>
    BY <2>1 DEF Arrived
  <2> QED
    BY <2>2
<1>2. CASE Mine # {}
  <2>1. PICK m \in Mine : TRUE
    BY <1>2
  <2>2. Mine = {m}
    BY <2>1 DEF Mine, Solicited
  <2>3. m \in 1 .. News
    BY <2>1, NewEntriesAt DEF Mine
  <2>4. {j \in Mine : j <= m} = {m}
    BY <2>2, <2>3
  <2>5. Cardinality(Mine) = 1 /\ Cardinality({j \in Mine : j <= m}) = 1
    BY <2>2, <2>4, FS_Singleton
  <2>6. Nth(1) = m
    BY <2>1, <2>2, <2>5 DEF Nth
  <2>7. NewEntries[m].verb = issued
    BY <2>1 DEF Mine, Solicited
  <2>8. Arrived = [i \in 1 .. 1 |-> NewEntries[Nth(i)].verb]
    BY <2>5 DEF Arrived
  <2>9. Arrived = <<issued>>
    BY <2>6, <2>7, <2>8
  <2> QED
    BY <2>9
<1> QED
  BY <1>1, <1>2

(* The command under way, as it is queued and as it is answered.           *)
Asked == [verb |-> issued, cad |-> cad]

NoneQueued == corb_rp = corb_wp
NoneFlies == flight = <<>>
NoneNew == \A k \in DOMAIN NewEntries : NewEntries[k].unsol

(* At most one of the new entries is a response, and it is the caller's.   *)
OneNew ==
  /\ \A k \in DOMAIN NewEntries :
       ~NewEntries[k].unsol => NewEntries[k].verb = issued /\ NewEntries[k].cad = cad
  /\ \A j, k \in DOMAIN NewEntries : ~NewEntries[j].unsol /\ ~NewEntries[k].unsol => j = k

(* Nothing of an earlier command is on its way.                            *)
Quiet == NoneQueued /\ NoneFlies /\ NoneNew

(* The command is queued, or its response on the link, or in the RIRB, or  *)
(* lost.                                                                   *)
Owed ==
  \/ Succ(corb_rp) = corb_wp /\ corb[corb_wp] = Asked /\ NoneFlies /\ NoneNew
  \/ NoneQueued /\ flight = <<Asked>> /\ NoneNew
  \/ NoneQueued /\ NoneFlies /\ OneNew

(* One command at a time, as long as none has been given up.               *)
Exchange ==
  engine = "corb" /\ ~timed_out =>
    /\ pending = <<>>
    /\ call \in {"idle", "send"} => Quiet
    /\ call \in {"wait", "deadline"} => Owed

(* The immediate registers hold the verb that is waited for, or its        *)
(* response.                                                               *)
Immediate ==
  call = "pio_wait" => \/ busy /\ ~valid /\ ic = issued
                       \/ ~busy /\ valid /\ ir = issued

OwnInv == Exchange /\ Immediate /\ OwnResponse

LEMMA OwnInit == Init => OwnInv
<1> SUFFICES ASSUME Init PROVE OwnInv
  OBVIOUS
<1>1. hw_wp + Count - sw_rp = Count /\ Count % Count = 0
  BY EngineAssumption DEF Init
<1>2. DOMAIN NewEntries = {}
  BY <1>1 DEF NewEntries
<1> QED
  BY <1>2
  DEF Init, OwnInv, Exchange, Immediate, OwnResponse, Answered, Quiet, NoneQueued, NoneFlies, NoneNew

(* What the software alone changes: nothing, of the rings.                 *)
LEMMA SameEntries ==
  ASSUME UNCHANGED <<rirb, hw_wp, sw_rp>>
  PROVE  NewEntries' = NewEntries
BY DEF NewEntries

LEMMA IssueOwn ==
  ASSUME InForce, OwnInv, NEW c \in Cads, Issue(c)
  PROVE  OwnInv'
<1>1. /\ call = "idle" /\ call' = IF engine = "corb" THEN "send" ELSE "pio"
      /\ UNCHANGED <<software, rings, timed_out>>
  BY DEF Issue, history
<1>2. NewEntries' = NewEntries
  BY <1>1, SameEntries DEF rings, software
<1>3. engine = "corb" /\ ~timed_out => Quiet'
  BY <1>1, <1>2 DEF rings, software, OwnInv, Exchange, Quiet, NoneQueued, NoneFlies, NoneNew
<1> QED
  BY <1>1, <1>3 DEF software, OwnInv, Exchange, Immediate, OwnResponse, Answered

LEMMA SendOwn ==
  ASSUME Registers, Buffers, InForce, OwnInv, Send
  PROVE  OwnInv'
<1>1. /\ call = "send" /\ engine = "corb" /\ call' = "wait"
      /\ corb' = [corb EXCEPT ![Succ(corb_wp)] = Asked] /\ corb_wp' = Succ(corb_wp)
      /\ UNCHANGED <<software, corb_rp, rirb, hw_wp, flight, timed_out, issued, cad>>
  BY DEF Send, InForce, history, Asked
<1>2. NewEntries' = NewEntries
  BY <1>1, SameEntries DEF software
<1>3. Succ(corb_wp) \in Entries
  BY SuccInEntries DEF Registers
<1>4. corb'[corb_wp'] = Asked'
  BY <1>1, <1>3 DEF Buffers, Asked
<1>5. Succ(corb_rp)' = Succ(corb_rp')
  BY DEF Succ
<1>6. ~timed_out => Owed'
  BY <1>1, <1>2, <1>4, <1>5
  DEF OwnInv, Exchange, Quiet, NoneQueued, NoneFlies, NoneNew, Owed, Succ
<1> QED
  BY <1>1, <1>6 DEF software, OwnInv, Exchange, Immediate, OwnResponse, Answered

(* The engines are switched: what the rings hold matters no longer.        *)
LEMMA DegradeOwn ==
  ASSUME Degrade
  PROVE  OwnInv'
BY DEF Degrade, OwnInv, Exchange, Immediate, OwnResponse, Answered

(* A response to the caller, once no other can come.                       *)
LEMMA PollOwn ==
  ASSUME Registers, InForce, OwnInv, Poll
  PROVE  OwnInv'
<1>1. /\ call = "wait" /\ engine = "corb" /\ engine' = "corb" /\ sw_rp' = hw_wp /\ pending = <<>>
      /\ UNCHANGED <<rings, timed_out>>
  BY DEF Poll, InForce
<1>2. News' = 0
  <2>1. hw_wp + Count - hw_wp = Count /\ Count % Count = 0
    BY EngineAssumption DEF Registers, Entries
  <2> QED
    BY <1>1, <2>1 DEF News, rings
<1>3. DOMAIN NewEntries' = {}
  BY <1>2 DEF NewEntries, News
<1>4. NoneNew' /\ OneNew'
  BY <1>3 DEF NoneNew, OneNew
<1>5. CASE timed_out
  <2>1. call' # "pio_wait" /\ timed_out'
    BY <1>1, <1>5 DEF Poll, Succeed, Return
  <2> QED
    BY <1>1, <2>1 DEF OwnInv, Exchange, Immediate, OwnResponse
<1>6. CASE ~timed_out /\ Arrived # <<>>
  <2>1. Owed
    BY <1>1, <1>6 DEF OwnInv, Exchange
  <2>2. Mine # {}
    <3>1. Mine = {} => Cardinality(Mine) = 0
      BY FS_EmptySet
    <3>2. Cardinality(Mine) = 0 => Arrived = <<>>
      BY DEF Arrived
    <3> QED
      BY <1>6, <3>1, <3>2
  <2>3. ~NoneNew
    BY <2>2 DEF Mine, Solicited, NoneNew
  <2>4. NoneQueued /\ NoneFlies /\ OneNew
    BY <2>1, <2>3 DEF Owed
  <2>5. Head(Arrived) = issued /\ Tail(Arrived) = <<>>
    BY <1>6, <2>4, OneArrives DEF OneNew
  <2>6. /\ call' = "idle" /\ result' = issued /\ pending' = <<>> /\ UNCHANGED issued
    BY <1>6, <2>5 DEF Poll, Succeed, Return
  <2>7. Quiet'
    BY <1>1, <1>4, <2>4 DEF Quiet, NoneQueued, NoneFlies, rings
  <2> QED
    BY <2>6, <2>7 DEF OwnInv, Exchange, Immediate, OwnResponse
<1>7. CASE ~timed_out /\ Arrived = <<>>
  <2>1. call' = "deadline" /\ UNCHANGED <<pending, cad, issued>>
    BY <1>7 DEF Poll
  <2>2. Owed'
    BY <1>1, <1>4, <1>7, <2>1
    DEF OwnInv, Exchange, Owed, NoneQueued, NoneFlies, Asked, Succ, rings
  <2> QED
    BY <1>1, <2>1, <2>2 DEF OwnInv, Exchange, Immediate, OwnResponse, Answered
<1> QED
  BY <1>5, <1>6, <1>7

LEMMA FetchOwn ==
  ASSUME Registers, InForce, OwnInv, Fetch
  PROVE  OwnInv'
<1>1. /\ engine = "corb" /\ corb_rp # corb_wp
      /\ corb_rp' = Succ(corb_rp) /\ flight' = Append(flight, corb[Succ(corb_rp)])
      /\ UNCHANGED <<software, corb, corb_wp, rirb, hw_wp, pio, caller, timed_out>>
  BY DEF Fetch, CorbRunning, Execute
<1>2. NewEntries' = NewEntries
  BY <1>1, SameEntries DEF software
<1>3. CASE ~timed_out /\ call \in {"wait", "deadline"}
  <2>1. Succ(corb_rp) = corb_wp /\ corb[corb_wp] = Asked /\ flight = <<>> /\ NoneNew
    BY <1>1, <1>3 DEF OwnInv, Exchange, Owed, NoneQueued, NoneFlies
  <2>2. flight' = <<Asked>>
    BY <1>1, <2>1
  <2>3. Owed'
    BY <1>1, <1>2, <2>1, <2>2 DEF Owed, NoneQueued, NoneNew, Asked, caller
  <2> QED
    BY <1>1, <1>3, <2>3 DEF OwnInv, Exchange, Immediate, OwnResponse, Answered, caller, software
<1>4. CASE timed_out
  BY <1>1, <1>4 DEF OwnInv, Exchange, Immediate, OwnResponse, Answered, caller, software, InForce
<1>5. CASE ~timed_out /\ call \in {"idle", "send"}
  BY <1>1, <1>5 DEF OwnInv, Exchange, Quiet, NoneQueued
<1>6. call \notin {"pio", "pio_wait"}
  BY <1>1 DEF InForce
<1> QED
  BY <1>3, <1>4, <1>5, <1>6 DEF InForce

(* An entry that is no response changes nothing for the caller.            *)
LEMMA UnsolicitedOwn ==
  ASSUME Registers, Buffers, InForce, OwnInv, NEW c \in Cads, Unsolicited(c)
  PROVE  OwnInv'
<1> DEFINE e == [verb |-> 0, cad |-> c, unsol |-> TRUE]
<1>1. /\ engine = "corb" /\ WriteRirb(e)
      /\ UNCHANGED <<software, corb, corb_wp, corb_rp, flight, pio, caller, timed_out>>
  BY DEF Unsolicited, WriteRirb, CorbRunning, history
<1>2. e \in Response
  BY EngineAssumption DEF Response, Commands
<1>3. \/ DOMAIN NewEntries' = {}
      \/ /\ DOMAIN NewEntries' = 1 .. News + 1 /\ NewEntries'[News + 1] = e
         /\ \A k \in 1 .. News : NewEntries'[k] = NewEntries[k]
  BY <1>1, <1>2, WriteJoins
<1>4. News \in Nat /\ DOMAIN NewEntries = 1 .. News
  BY PlaceFacts, NewEntriesAt DEF Registers
<1>5. \A k \in 1 .. News + 1 : k \in 1 .. News \/ k = News + 1
  BY <1>4
<1>6. e.unsol
  OBVIOUS
<1>7. \A k \in DOMAIN NewEntries' :
        ~NewEntries'[k].unsol => k \in DOMAIN NewEntries /\ NewEntries'[k] = NewEntries[k]
  <2> HIDE DEF e
  <2> QED
    BY <1>3, <1>4, <1>5, <1>6
<1>8. (NoneNew => NoneNew') /\ (OneNew => OneNew')
  BY <1>1, <1>7 DEF NoneNew, OneNew, caller
<1>9. (Quiet => Quiet') /\ (Owed => Owed')
  BY <1>1, <1>8 DEF Quiet, Owed, NoneQueued, NoneFlies, Asked, Succ, caller
<1> QED
  BY <1>1, <1>9 DEF OwnInv, Exchange, Immediate, OwnResponse, Answered, software, caller, pio

(* The response on the link becomes the one new response.                  *)
LEMMA RespondOwn ==
  ASSUME Registers, Buffers, InForce, OwnInv, Respond
  PROVE  OwnInv'
<1> DEFINE e == [verb |-> Head(flight).verb, cad |-> Head(flight).cad, unsol |-> FALSE]
<1>1. /\ engine = "corb" /\ WriteRirb(e) /\ flight # <<>> /\ flight' = Tail(flight)
      /\ UNCHANGED <<software, corb, corb_wp, corb_rp, pio, caller, timed_out>>
  BY DEF Respond, WriteRirb, CorbRunning, history
<1>2. call \notin {"pio", "pio_wait"}
  BY <1>1 DEF InForce
<1>3. CASE timed_out
  BY <1>1, <1>2, <1>3 DEF OwnInv, Exchange, Immediate, OwnResponse, software, caller
<1>4. CASE ~timed_out /\ call \in {"idle", "send"}
  BY <1>1, <1>4 DEF OwnInv, Exchange, Quiet, NoneFlies
<1>5. CASE ~timed_out /\ call \in {"wait", "deadline"}
  <2>1. NoneQueued /\ flight = <<Asked>> /\ NoneNew
    BY <1>1, <1>5 DEF OwnInv, Exchange, Owed, NoneFlies
  <2>2. e.verb = issued /\ e.cad = cad /\ flight' = <<>>
    BY <1>1, <2>1 DEF Asked
  <2>3. e \in Response
    BY <2>2 DEF Response, Registers, Buffers
  <2>4. \/ DOMAIN NewEntries' = {}
        \/ /\ DOMAIN NewEntries' = 1 .. News + 1 /\ NewEntries'[News + 1] = e
           /\ \A k \in 1 .. News : NewEntries'[k] = NewEntries[k]
    BY <1>1, <2>3, WriteJoins
  <2>5. News \in Nat /\ DOMAIN NewEntries = 1 .. News
    BY PlaceFacts, NewEntriesAt DEF Registers
  <2>6. \A k \in 1 .. News + 1 : k \in 1 .. News \/ k = News + 1
    BY <2>5
  <2>7. \A k \in DOMAIN NewEntries' : ~NewEntries'[k].unsol => k = News + 1 /\ NewEntries'[k] = e
    <3> HIDE DEF e
    <3> QED
      BY <2>1, <2>4, <2>5, <2>6 DEF NoneNew
  <2>8. OneNew'
    <3> HIDE DEF e
    <3> QED
      BY <1>1, <2>2, <2>7 DEF OneNew, caller
  <2>9. Owed'
    BY <1>1, <2>1, <2>2, <2>8 DEF Owed, NoneQueued, NoneFlies
  <2> QED
    BY <1>1, <1>5, <2>9 DEF OwnInv, Exchange, Immediate, OwnResponse, Answered, caller, software
<1> QED
  BY <1>2, <1>3, <1>4, <1>5 DEF InForce

LEMMA LoseOwn ==
  ASSUME InForce, OwnInv, LoseResponse
  PROVE  OwnInv'
<1>1. /\ flight # <<>> /\ flight' = Tail(flight)
      /\ UNCHANGED <<software, corb, corb_wp, corb_rp, rirb, hw_wp, pio, caller, timed_out>>
  BY DEF LoseResponse, history
<1>2. NewEntries' = NewEntries
  BY <1>1, SameEntries DEF software
<1>3. CASE engine = "corb" /\ ~timed_out /\ call \in {"wait", "deadline"}
  <2>1. NoneQueued /\ flight = <<Asked>> /\ NoneNew
    BY <1>1, <1>3 DEF OwnInv, Exchange, Owed, NoneFlies
  <2>2. flight' = <<>> /\ OneNew'
    BY <1>1, <1>2, <2>1 DEF NoneNew, OneNew
  <2>3. Owed'
    BY <1>1, <2>1, <2>2 DEF Owed, NoneQueued, NoneFlies
  <2> QED
    BY <1>1, <1>3, <2>3 DEF OwnInv, Exchange, Immediate, OwnResponse, Answered, caller, software
<1>4. CASE engine = "corb" /\ ~timed_out /\ call \in {"idle", "send"}
  BY <1>1, <1>4 DEF OwnInv, Exchange, Quiet, NoneFlies
<1>5. CASE ~(engine = "corb" /\ ~timed_out)
  BY <1>1, <1>5 DEF OwnInv, Exchange, Immediate, OwnResponse, Answered, caller, software, pio
<1> QED
  BY <1>3, <1>4, <1>5 DEF InForce

LEMMA PioOwn ==
  ASSUME InForce, OwnInv, Pio \/ PioRespond
  PROVE  OwnInv'
<1>1. CASE PioBusy \/ PioTimedOut
  BY <1>1 DEF PioBusy, PioTimedOut, Return, OwnInv, Exchange, Immediate, OwnResponse, Answered,
              InForce, software
<1>2. CASE PioIssue
  BY <1>2 DEF PioIssue, OwnInv, Exchange, Immediate, OwnResponse, Answered, InForce, software
<1>3. CASE PioRead
  BY <1>3 DEF PioRead, Return, OwnInv, Exchange, Immediate, OwnResponse, Answered, InForce, software
<1>4. CASE PioRespond
  <2>1. /\ busy /\ ir' = ic /\ valid' /\ ~busy'
        /\ UNCHANGED <<software, rings, caller, timed_out>>
    BY <1>4 DEF PioRespond, Execute
  <2>2. Immediate'
    BY <2>1 DEF OwnInv, Immediate, caller
  <2>3. NewEntries' = NewEntries
    BY <2>1, SameEntries DEF software, rings
  <2>4. (Quiet => Quiet') /\ (Owed => Owed')
    BY <2>1, <2>3
    DEF Quiet, Owed, NoneQueued, NoneFlies, NoneNew, OneNew, Asked, Succ, rings, caller
  <2>5. Exchange'
    BY <2>1, <2>4 DEF OwnInv, Exchange, software, caller
  <2> QED
    BY <2>1, <2>2, <2>5 DEF OwnInv, OwnResponse, Answered, software, caller
<1> QED
  BY <1>1, <1>2, <1>3, <1>4 DEF Pio

LEMMA OwnKept ==
  ASSUME Registers, Buffers, InForce, OwnInv, [Next]_vars
  PROVE  OwnInv'
<1>1. ASSUME NEW c \in Cads, Issue(c) PROVE OwnInv'
  BY <1>1, IssueOwn
<1>2. CASE Send
  BY <1>2, SendOwn
<1>3. CASE SendFull \/ PollOutOfRange
  <2>1. engine = "corb"
    BY <1>3 DEF SendFull, PollOutOfRange, InForce
  <2>2. Degrade
    BY <1>3, <2>1 DEF SendFull, PollOutOfRange, HardError, InForce
  <2> QED
    BY <2>2, DegradeOwn
<1>4. CASE TakePending
  <2>1. engine = "corb" /\ timed_out
    BY <1>4 DEF TakePending, InForce, OwnInv, Exchange
  <2>2. UNCHANGED <<engine, timed_out>> /\ call' = "idle"
    BY <1>4 DEF TakePending, Succeed, Return
  <2> QED
    BY <2>1, <2>2 DEF OwnInv, Exchange, Immediate, OwnResponse
<1>5. CASE Poll
  BY <1>5, PollOwn
<1>6. CASE KeepPolling
  <2>1. /\ call = "deadline" /\ call' = "wait"
        /\ UNCHANGED <<software, rings, cad, issued, timed_out>>
    BY <1>6 DEF KeepPolling, history
  <2>2. NewEntries' = NewEntries
    BY <2>1, SameEntries DEF software, rings
  <2>3. Owed => Owed'
    BY <2>1, <2>2 DEF Owed, NoneQueued, NoneFlies, NoneNew, OneNew, Asked, Succ, rings
  <2> QED
    BY <2>1, <2>3 DEF OwnInv, Exchange, Immediate, OwnResponse, Answered, software
<1>7. CASE TimedOut
  <2>1. CASE AtLimit
    BY <1>7, <2>1, DegradeOwn DEF TimedOut
  <2>2. CASE ~AtLimit
    BY <1>7, <2>2
    DEF TimedOut, Return, InForce, OwnInv, Exchange, Immediate, OwnResponse, Answered
  <2> QED
    BY <2>1, <2>2
<1>8. CASE Fetch
  BY <1>8, FetchOwn
<1>9. CASE Respond
  BY <1>9, RespondOwn
<1>10. CASE LoseResponse
  BY <1>10, LoseOwn
<1>11. ASSUME NEW c \in Cads, Unsolicited(c) PROVE OwnInv'
  BY <1>11, UnsolicitedOwn
<1>12. CASE Pio \/ PioRespond
  BY <1>12, PioOwn
<1>13. CASE UNCHANGED vars
  <2>1. UNCHANGED <<software, rings, pio, caller, timed_out>>
    BY <1>13 DEF vars, software, rings, pio, caller
  <2>2. NewEntries' = NewEntries
    BY <2>1, SameEntries DEF software, rings
  <2>3. (Quiet => Quiet') /\ (Owed => Owed')
    BY <2>1, <2>2
    DEF Quiet, Owed, NoneQueued, NoneFlies, NoneNew, OneNew, Asked, Succ, rings, caller
  <2> QED
    BY <2>1, <2>3 DEF OwnInv, Exchange, Immediate, OwnResponse, Answered, software, pio, caller
<1> QED
  BY <1>1, <1>2, <1>3, <1>4, <1>5, <1>6, <1>7, <1>8, <1>9, <1>10, <1>11, <1>12, <1>13
  DEF Next, Wait, Deadline, Hardware

(* A caller that is given a response is given its own: through unsolicited *)
(* and foreign entries, an RIRB that overruns and the switch of engines,   *)
(* as long as no CORB wait has timed out, and again under PIO.             *)
THEOREM ResponsesAreOwn == Spec => []OwnResponse
<1>1. InForce /\ Typed /\ OwnInv /\ [Next]_vars => OwnInv'
  BY OwnKept DEF Typed
<1>2. OwnInv => OwnResponse
  BY DEF OwnInv
<1> QED
  BY EngineInForce, EngineTyped, OwnInit, <1>1, <1>2, PTL DEF Spec

=============================================================================
