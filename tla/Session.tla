------------------------------- MODULE Session -------------------------------
(***************************************************************************)
(* The lives of a process that plays through the HDA controller, one after *)
(* the other over the same hardware: Controller::open, HdaPlayback::open   *)
(* and Codec bring the link up (hda/src/controller.rs, lib.rs, codec.rs,   *)
(* pcicfg.rs); the mixer (IdlePlayback) or a file player (HdaStream and    *)
(* server/src/player.rs) plays; the process ends, in order or not, and     *)
(* what the registers hold stays.  A verb is one step, carried out by the  *)
(* engine that CommandEngine models: here it is answered, goes without an  *)
(* answer, or is answered with the reply of a verb before it.              *)
(***************************************************************************)
EXTENDS IdlePlayback, Codec

CONSTANTS Cads,         (* addresses on the link (4 in the code)           *)
          Boards,       (* what the slot may hold, see IsBoard             *)
          MaxLate,      (* bound: replies outstanding at one time          *)
          MixRate,      (* mix_rate of the server's configuration          *)
          FileRates     (* rates of the files and streams that are played  *)

CodecType == [vendor : {"zero", "realtek", "intel"}, id : [Ids -> Replies],
              layout : [Path -> {"OUT", "MIX", "SEL", "PIN"}]]
(* Whether GCAP counts any stream, how many capture, and the codecs.       *)
IsBoard(b) ==
  /\ b.streams \in BOOLEAN /\ b.capture \in 0 .. 14
  /\ DOMAIN b.codec \subseteq Cads /\ \A c \in DOMAIN b.codec : b.codec[c] \in CodecType

ASSUME SessionAssumption ==
  /\ Cads \subseteq 0 .. 3 /\ \A b \in Boards : IsBoard(b)
  /\ FileRates \cup {MixRate} \subseteq Nat \ {0} /\ MaxLate \in Nat

VARIABLES
  board,       (* the hardware in the slot                                 *)
  pci,         (* config bits set: snooping, bus master                    *)
  sd,          (* the stream descriptor: tag, format, whose pages          *)
  reg,         (* what verbs have set, per codec, node and verb; from the  *)
               (* first that is misheard on, what they were to set         *)
  late,        (* replies still to reach the RIRB, oldest first            *)
  pending,     (* CorbRing.pending: replies taken from it and not yet used *)
  misheard,    (* since the last link reset a verb got another's reply     *)
  phase,       (* how far the process has come                             *)
  skip_reset,  (* --skip-reset                                             *)
  rate,        (* the rate the hardware is asked for                       *)
  engine,      (* the command engine in use                                *)
  codec_mask,  (* codecs present, by STATESTS                              *)
  slot,        (* the address being probed                                 *)
  pick,        (* probe's `realtek` and `fallback`                         *)
  cad,         (* Controller.cad                                           *)
  todo,        (* verbs still to be issued by the function under way       *)
  muted,       (* STATE.muted                                              *)
  hw_mute, muted_applied,  (* Player's                                     *)
  mute_failed  (* a set_mute of this player has failed                     *)

hardware == <<board, pci, sd, reg, late, pending, misheard>>
probing == <<codec_mask, slot, pick, cad>>
muting == <<muted, hw_mute, muted_applied, mute_failed>>
idleVars == <<queued, flush, dry_since, stopped, mixed, quiet, waited>>
sessionVars == <<hardware, phase, skip_reset, rate, engine, probing, todo, muting, hdaVars, idleVars>>

NoStream == [tag |-> 0, fmt |-> 0, pages |-> "none"]
NoPick == [realtek |-> None, fallback |-> None]
Failed == "error"

SessionInit ==
  /\ Init
  /\ board \in Boards /\ pci = {}
  /\ sd = NoStream /\ reg = <<>> /\ late = <<>> /\ pending = <<>> /\ misheard = FALSE
  /\ phase = "off" /\ skip_reset = FALSE /\ rate = 0 /\ engine = "pio"
  /\ codec_mask = {} /\ slot = 0 /\ pick = NoPick /\ cad = 0 /\ todo = <<>>
  /\ muted = FALSE /\ hw_mute = FALSE /\ muted_applied = FALSE /\ mute_failed = FALSE

-----------------------------------------------------------------------------
(* A process starts, as the server or as a player of a file or of stdin;   *)
(* Backend::open settles the rate.                                         *)
Launch ==
  /\ phase = "off" /\ phase' = "pci"
  /\ caller' \in {"mixer", "play"}
  /\ skip_reset' \in BOOLEAN
  /\ \E r \in IF caller' = "mixer" THEN {MixRate} ELSE FileRates : rate' = HardwareRate(r)
  /\ UNCHANGED <<hardware, engine, probing, todo, muting, idleVars, ringVars, dacVars>>
  /\ UNCHANGED <<lpib, dma, running, left>>

(* A process ends: on an error, on a signal, killed, or played out.        *)
(* Nothing stops the DMA then, and its pages go back to the kernel.        *)
Exit ==
  /\ phase # "off" /\ phase' = "off" /\ skip_reset' = FALSE /\ rate' = 0
  /\ sd' = IF sd.pages = "ours" THEN [sd EXCEPT !.pages = "freed"] ELSE sd
  /\ engine' = "pio" /\ late' = <<>> /\ pending' = <<>>
  /\ codec_mask' = {} /\ slot' = 0 /\ pick' = NoPick /\ cad' = 0 /\ todo' = <<>>
  /\ muted' = FALSE /\ hw_mute' = FALSE /\ muted_applied' = FALSE /\ mute_failed' = FALSE
  /\ caller' = "mixer" /\ write_pos' = 0 /\ lpib' = 0 /\ running' = FALSE /\ left' = 0
  /\ cell' = [i \in Positions |-> "silent"] /\ dac' = "silent"
  /\ owed' = 0 /\ lap' = 0 /\ overtaken' = FALSE
  /\ queued' = 0 /\ flush' = FALSE /\ dry_since' = None /\ stopped' = FALSE
  /\ mixed' = FALSE /\ quiet' = 0 /\ waited' = 0
  /\ UNCHANGED <<board, pci, reg, misheard, dma>>

-----------------------------------------------------------------------------
(* Controller::open.  What fails leaves the process to Exit.               *)

(* BAR 0 is mapped and the vendor read; set_snoop, then set_master; each   *)
(* of these may fail.                                                      *)
ConfigurePci ==
  /\ phase = "pci"
  /\ \/ phase' = "fence" /\ pci' = pci \cup {"snoop", "master"}
     \/ phase' = "failed" /\ pci' \in {pci, pci \cup {"snoop"}}
  /\ UNCHANGED <<board, sd, reg, late, pending, misheard, skip_reset, rate, engine, probing, todo, muting>>
  /\ UNCHANGED <<hdaVars, idleVars>>

(* The hard fence: GCAP must advertise a stream.                           *)
Fence ==
  /\ phase = "fence"
  /\ phase' = IF board.streams THEN "link" ELSE "failed"
  /\ UNCHANGED <<hardware, skip_reset, rate, engine, probing, todo, muting, hdaVars, idleVars>>

(* The link is up, or there is no codec; RIRB starts anew; init_cmd_engine *)
(* takes the rings, or PIO if told to (--cmd-engine=pio) or if the rings   *)
(* do not come up.                                                         *)
LinkUp(mask) ==
  /\ codec_mask' = mask
  /\ IF mask = {}
     THEN phase' = "failed" /\ UNCHANGED <<slot, engine, todo>>
     ELSE /\ phase' = "probe"
          /\ slot' = CHOOSE c \in mask : \A d \in mask : c <= d
          /\ engine' \in {"corb", "pio"}
          /\ todo' = <<Verb(0, "vendor", 0)>>

Present == DOMAIN board.codec

(* Mutant of ResetLink: RESET is released without having been asserted.    *)
ReleaseLink ==
  /\ phase = "link" /\ ~skip_reset
  /\ late' = <<>> /\ pending' = <<>>
  /\ \E mask \in SUBSET Present : LinkUp(mask)
  /\ UNCHANGED <<board, pci, sd, reg, misheard, skip_reset, rate, pick, cad, muting, hdaVars, idleVars>>

(* reset_link: the controller and the codecs start anew, and the codecs    *)
(* that are ready in time are in STATESTS; none if a wait timed out, for   *)
(* the assertion of RESET (ResetStuck) or for its release.                 *)
ResetStuck ==
  /\ phase = "link" /\ phase' = "failed"
  /\ UNCHANGED <<hardware, skip_reset, rate, engine, probing, todo, muting, hdaVars, idleVars>>

ResetLink ==
  /\ phase = "link" /\ ~skip_reset
  /\ late' = <<>> /\ pending' = <<>>
  /\ dma' = FALSE /\ sd' = NoStream /\ reg' = <<>> /\ misheard' = FALSE
  /\ \E mask \in SUBSET Present : LinkUp(mask)
  /\ UNCHANGED <<board, pci, skip_reset, rate, pick, cad, muting, idleVars, ringVars, dacVars>>
  /\ UNCHANGED <<caller, lpib, running, left>>

(* --skip-reset: address 0 is taken for granted.  The immediate-command    *)
(* interface may be stuck, which fails as in ResetStuck.                   *)
SkipReset ==
  /\ phase = "link" /\ skip_reset
  /\ late' = <<>> /\ pending' = <<>>
  /\ LinkUp({0})
  /\ UNCHANGED <<board, pci, sd, reg, misheard, skip_reset, rate, pick, cad, muting, hdaVars, idleVars>>

-----------------------------------------------------------------------------
(* Controller::cmd: verb v to codec c comes back with the reply r.         *)

Own(c, v) == Answer(board.codec[c], v)

(* The codec carries the verb out, if it is there.                         *)
Execute(c, v) ==
  reg' = IF c \in Present /\ v.op \in Setting
         THEN [k \in DOMAIN reg \cup {<<c, v.nid, v.op>>} |->
                 IF k = <<c, v.nid, v.op>> THEN v.value ELSE reg[k]]
         ELSE reg

(* pio_verb                                                                *)
ByPio(c, v, r) ==
  \/ c \in Present /\ Execute(c, v) /\ r = Own(c, v)
  \/ r = Failed /\ (Execute(c, v) \/ UNCHANGED reg)

(* What is to come once v has been sent: its reply too, unless it is lost. *)
Sent(c, v) == {late} \cup {Append(late, [cad |-> d, reply |-> Own(d, v)]) : d \in {c} \cap Present}

(* wait_response gets the reply to v: no reply of this codec was to come   *)
(* before it, and those of other codecs are dropped on the way.            *)
InTime(c, v, r) ==
  /\ c \in Present /\ pending = <<>> /\ \A i \in 1 .. Len(late) : late[i].cad # c
  /\ Execute(c, v) /\ r = Own(c, v)
  /\ late' = <<>> /\ pending' = <<>>
  /\ UNCHANGED misheard

(* It gets the reply of an earlier verb: the oldest in pending, whichever  *)
(* codec it is of, or else the first of this codec's to arrive.  Those     *)
(* that have arrived behind it by then stay in pending.  (One of another   *)
(* codec among these may as well be dropped later.)  Nobody can tell then  *)
(* whether v itself has been carried out: reg has it as if it were, and    *)
(* the properties that read reg leave these histories aside.               *)
Mishears(c, v, r) ==
  /\ \E out \in Sent(c, v) :
       \/ /\ pending # <<>> /\ r = Head(pending)
          /\ pending' = Tail(pending) /\ late' = out
       \/ /\ pending = <<>>
          /\ \E j \in 1 .. Len(late) : \E m \in j .. Len(out) :
               /\ \A i \in 1 .. m : out[i].cad = c <=> i >= j
               /\ r = out[j].reply
               /\ pending' = [i \in 1 .. m - j |-> out[j + i].reply]
               /\ late' = SubSeq(out, m + 1, Len(out))
  /\ Execute(c, v) /\ misheard' = TRUE

(* Nothing of this codec within 10 ms; what the verb has left to come is   *)
(* still to come.                                                          *)
TimesOut(c, v, r) ==
  /\ pending = <<>> /\ r = Failed
  /\ \E out \in Sent(c, v) : \E m \in 0 .. Len(late) :
       /\ Execute(c, v) \/ (out = late /\ UNCHANGED reg)
       /\ \A i \in 1 .. m : late[i].cad # c
       /\ late' = SubSeq(out, m + 1, Len(out)) /\ Len(late') <= MaxLate
  /\ UNCHANGED <<pending, misheard>>

Cmd(c, v, r) ==
  \/ engine = "pio" /\ ByPio(c, v, r) /\ UNCHANGED <<engine, late, pending, misheard>>
  \/ engine = "corb" /\ (InTime(c, v, r) \/ Mishears(c, v, r) \/ TimesOut(c, v, r)) /\ UNCHANGED engine
  \/ engine = "corb" /\ engine' = "pio" /\ late' = <<>> /\ pending' = <<>> /\ ByPio(c, v, r) /\ UNCHANGED misheard

Outcomes == Replies \cup {Failed}

-----------------------------------------------------------------------------
(* Codec::probe: the vendor of each codec in turn, and more of one that    *)
(* has a vendor; an error is no more than an answer that is missing.       *)
Picked(r) ==
  IF r = "realtek" /\ pick.realtek = None THEN [pick EXCEPT !.realtek = slot]
  ELSE IF pick.fallback = None THEN [pick EXCEPT !.fallback = slot] ELSE pick

NextSlot ==
  LET rest == {c \in codec_mask : c > slot} IN
  IF rest = {}
  THEN phase' = "select" /\ todo' = <<>> /\ UNCHANGED slot
  ELSE /\ slot' = CHOOSE c \in rest : \A d \in rest : c <= d
       /\ todo' = <<Verb(0, "vendor", 0)>> /\ UNCHANGED phase

ProbeVendor ==
  /\ phase = "probe" /\ Head(todo).op = "vendor"
  /\ \E r \in Outcomes :
       /\ Cmd(slot, Head(todo), r)
       /\ IF r # Failed /\ IsVendor(r)
          THEN /\ pick' = Picked(r)
               /\ todo' = <<Verb(0, "subsystem", 0), Verb(0, "revision", 0)>>
               /\ UNCHANGED <<phase, slot>>
          ELSE NextSlot /\ UNCHANGED pick
  /\ UNCHANGED <<board, pci, sd, skip_reset, rate, codec_mask, cad, muting, hdaVars, idleVars>>

ProbeMore ==
  /\ phase = "probe" /\ Head(todo).op # "vendor"
  /\ \E r \in Outcomes :
       /\ Cmd(slot, Head(todo), r)
       /\ IF Head(todo).op = "subsystem" /\ r \in {Failed, "zero"}
          THEN /\ todo' = Append(Tail(todo), Verb(AFG, "subsystem_afg", 0))
               /\ UNCHANGED <<phase, slot>>
          ELSE IF Len(todo) > 1 THEN todo' = Tail(todo) /\ UNCHANGED <<phase, slot>>
          ELSE NextSlot
  /\ UNCHANGED <<board, pci, sd, skip_reset, rate, codec_mask, pick, cad, muting>>
  /\ UNCHANGED <<hdaVars, idleVars>>

(* The Realtek codec if there is one, or else the first that answered.     *)
Select ==
  /\ phase = "select"
  /\ IF pick = NoPick THEN phase' = "failed" /\ UNCHANGED cad
     ELSE /\ phase' = "stream"
          /\ cad' = IF pick.realtek # None THEN pick.realtek ELSE pick.fallback
  /\ pick' = NoPick /\ slot' = 0
  /\ UNCHANGED <<hardware, skip_reset, rate, engine, codec_mask, todo, muting>>
  /\ UNCHANGED <<hdaVars, idleVars>>

-----------------------------------------------------------------------------
(* HdaPlayback::open.                                                      *)

(* sd0_tag, and what setup puts into the stream descriptor.                *)
Tag == board.capture + 1
Setup == [tag |-> Tag, fmt |-> FormatVal(rate), pages |-> "ours"]

(* DmaBuffer::new: memory that cannot be had or pinned, or whose physical  *)
(* address is not to be found, ends the attempt before the srst.           *)
PinFails ==
  /\ phase = "stream" /\ phase' = "failed"
  /\ UNCHANGED <<hardware, skip_reset, rate, engine, probing, todo, muting, hdaVars, idleVars>>

(* Pinned memory for ring and BDL, srst, setup.                            *)
OpenStream ==
  /\ phase = "stream"
  /\ sd' = Setup /\ dma' = FALSE
  /\ phase' = "codec" /\ todo' = InitPlayback(FormatVal(rate), Tag)
  /\ UNCHANGED <<board, pci, reg, late, pending, misheard, skip_reset, rate, engine, probing, muting, idleVars>>
  /\ UNCHANGED <<ringVars, dacVars, caller, lpib, running, left>>

(* Mutant of Accepts: only the converters are checked.                     *)
AcceptsAnyPath(v, r) == r # Failed /\ (v.op = "caps" /\ v.nid \in Dacs => WidgetType(r) \in Expected(v.nid))

Accepts(v, r) == r # Failed /\ (v.op = "caps" => WidgetType(r) \in Expected(v.nid))

(* init_playback, verb by verb; the first that is not accepted ends it.    *)
InitVerb ==
  /\ phase = "codec"
  /\ \E r \in Outcomes :
       /\ Cmd(cad, Head(todo), r)
       /\ IF ~Accepts(Head(todo), r) THEN phase' = "failed" /\ todo' = <<>>
          ELSE /\ todo' = Tail(todo)
               /\ phase' = IF Len(todo) = 1 THEN "opened" ELSE phase
  /\ UNCHANGED <<board, pci, sd, skip_reset, rate, probing, muting, hdaVars, idleVars>>

-----------------------------------------------------------------------------
(* The backend is open: the mixer goes into its loop, Player::open senses  *)
(* the jack and unmutes both converters.  From here on no reply decides    *)
(* anything, and what only bring-up reads is forgotten.                    *)
Ready ==
  /\ phase = "opened" /\ phase' = "ready"
  /\ todo' = IF caller = "play" THEN SetMute(FALSE) ELSE <<>>
  /\ engine' = "pio" /\ late' = <<>> /\ pending' = <<>>
  /\ codec_mask' = {} /\ skip_reset' = FALSE
  /\ UNCHANGED <<board, pci, sd, reg, misheard, rate, slot, pick, cad, muting>>
  /\ UNCHANGED <<hdaVars, idleVars>>

(* Playing.  start is srst, setup and RUN; stop_immediate stops and resets *)
(* the descriptor; what else they do is HdaStream's.                       *)
Descriptor ==
  sd' = IF running' /\ ~running THEN Setup
        ELSE IF stopped' /\ ~stopped THEN NoStream
        ELSE sd

Mix ==
  /\ phase = "ready" /\ caller = "mixer"
  /\ Next /\ Descriptor
  /\ UNCHANGED <<board, pci, reg, late, pending, misheard, phase, skip_reset, rate, engine, probing, todo, muting>>

Played ==
  /\ UNCHANGED <<board, pci, reg, late, pending, misheard, phase, skip_reset, rate, engine, probing, todo>>
  /\ UNCHANGED <<muting, idleVars>>
  /\ Descriptor

(* Player::play; without a hardware mute a muted player drops or waits.    *)
Play ==
  /\ phase = "ready" /\ caller = "play" /\ todo = <<>>
  /\ hw_mute \/ ~muted
  /\ Begin \/ Feed \/ WriteRest
  /\ Played

PlayerRead ==
  /\ phase \in {"ready", "drain"} /\ caller = "play"
  /\ Read
  /\ Played

(* A control client; its socket is there once Player::open has returned.   *)
ToggleMute ==
  /\ phase = "ready" /\ caller = "play" /\ (hw_mute \/ todo = <<>>)
  /\ muted' = ~muted
  /\ UNCHANGED <<hardware, phase, skip_reset, rate, engine, probing, todo, hw_mute, muted_applied>>
  /\ UNCHANGED <<mute_failed, hdaVars, idleVars>>

(* sync_muted, before each chunk.                                          *)
SyncMuted ==
  /\ phase = "ready" /\ caller = "play" /\ left = 0 /\ todo = <<>>
  /\ muted # muted_applied
  /\ IF hw_mute
     THEN todo' = SetMute(muted) /\ UNCHANGED muted_applied
     ELSE muted_applied' = muted /\ UNCHANGED todo
  /\ UNCHANGED <<hardware, phase, skip_reset, rate, engine, probing, muted, hw_mute, mute_failed>>
  /\ UNCHANGED <<hdaVars, idleVars>>

(* Mutant of Applied: the change counts as applied after the first verb.   *)
AppliedHalf(v) == todo' = <<>> /\ hw_mute' = TRUE /\ muted_applied' = (v.value >= AmpMute)

(* A verb of set_mute has gone well; the last one makes the change.        *)
Applied(v) ==
  /\ todo' = Tail(todo)
  /\ IF Len(todo) > 1 THEN UNCHANGED <<hw_mute, muted_applied>>
     ELSE hw_mute' = TRUE /\ muted_applied' = (v.value >= AmpMute)

(* Codec::set_mute, for Player::open and for sync_muted, which tries again *)
(* only if the wish still differs from what it last applied in full.       *)
MuteVerb ==
  /\ phase = "ready" /\ todo # <<>>
  /\ \/ Execute(cad, Head(todo)) /\ Applied(Head(todo)) /\ UNCHANGED mute_failed
     \/ /\ Execute(cad, Head(todo)) \/ UNCHANGED reg
        /\ todo' = <<>> /\ mute_failed' = TRUE
        /\ UNCHANGED <<hw_mute, muted_applied>>
  /\ UNCHANGED <<board, pci, sd, late, pending, misheard, phase, skip_reset, rate, engine>>
  /\ UNCHANGED <<probing, muted, hdaVars, idleVars>>

(* The file is at its end.                                                 *)
EndOfFile ==
  /\ phase = "ready" /\ caller = "play" /\ left = 0 /\ todo = <<>>
  /\ phase' = "drain"
  /\ UNCHANGED <<hardware, skip_reset, rate, engine, probing, todo, muting, hdaVars, idleVars>>

(* Mutant of Drained: the ring is taken for empty one frame early.         *)
DrainedEarly ==
  /\ phase = "drain" /\ DelayFrames <= 1
  /\ phase' = "drained"
  /\ dma' = FALSE /\ running' = FALSE
  /\ UNCHANGED <<hardware, skip_reset, rate, engine, probing, todo, muting, idleVars, ringVars, dacVars>>
  /\ UNCHANGED <<caller, lpib, left>>

(* drain: a poll that finds a delay of 0 stops the DMA.                    *)
Drained ==
  /\ phase = "drain" /\ DelayFrames = 0
  /\ phase' = "drained"
  /\ dma' = FALSE /\ running' = FALSE
  /\ UNCHANGED <<hardware, skip_reset, rate, engine, probing, todo, muting, idleVars, ringVars, dacVars>>
  /\ UNCHANGED <<caller, lpib, left>>

SessionNext ==
  \/ Launch \/ Exit
  \/ ConfigurePci \/ Fence \/ ResetStuck \/ ResetLink \/ SkipReset
  \/ ProbeVendor \/ ProbeMore \/ Select \/ PinFails \/ OpenStream \/ InitVerb \/ Ready
  \/ Mix \/ Play \/ PlayerRead \/ ToggleMute \/ SyncMuted \/ MuteVerb
  \/ EndOfFile \/ Drained

SessionSpec == SessionInit /\ [][SessionNext]_sessionVars

-----------------------------------------------------------------------------
Opened == phase \in {"ready", "drain", "drained"}

RegIs(c, nid, op, value) ==
  LET k == <<c, nid, op>> IN k \in DOMAIN reg /\ reg[k] = value

(* While a process plays, both halves of the path lead from this stream to *)
(* a pin: the converters listen to its tag in its format, which is that of *)
(* the rate asked for, every node is awake and the pins are enabled and    *)
(* unmuted.  The codec is programmed once; the descriptor anew each time   *)
(* the mixer has reset it, and both by any process that came before.       *)
(* (Not known if a verb got another's reply: it may have been lost.)       *)
PathMatches ==
  Opened /\ dma /\ ~misheard =>
    /\ sd.pages = "ours" /\ RateOf(sd.fmt) = rate /\ pci = {"snoop", "master"}
    /\ \A nid \in Path \cup {AFG} : RegIs(cad, nid, "power", D0)
    /\ \A nid \in Dacs : RegIs(cad, nid, "stream", sd.tag) /\ RegIs(cad, nid, "format", sd.fmt)
    /\ \A nid \in Muxes : RegIs(cad, nid, "select", nid - 12)
    /\ \A nid \in Pins : /\ \E on \in {PinOut, PinOut + PinHp} : RegIs(cad, nid, "pin", on)
                         /\ RegIs(cad, nid, "eapd", Eapd) /\ RegIs(cad, nid, "out_amp", 0)

(* "Controller::open's link reset also halts stale DMA left behind by a    *)
(* SIGKILLed previous instance" (server/src/main.rs, run_server): from the *)
(* reset on, or under --skip-reset from the srst of the stream on, a DMA   *)
(* that runs reads this process's pages.                                   *)
NoForeignDma ==
  dma /\ sd.pages # "ours" =>
    \/ phase \in {"off", "pci", "fence", "link", "failed"}
    \/ skip_reset /\ ~Opened

(* "On a different codec where these NIDs mean something else we fail      *)
(* loudly instead of programming wrong widgets with wrong verbs"           *)
(* (codec.rs, init_playback), whichever codec was picked and whatever the  *)
(* processes before have left, unless a verb got another's reply.          *)
OnlyExpectedLayout ==
  ~misheard => \A k \in DOMAIN reg :
    k[2] # AFG /\ k[3] # "out_amp" => ExpectedLayout(board.codec[k[1]].layout)

(* Each check, but for the first MaxLate, would be content with what the   *)
(* layout answers to some check up to MaxLate before it.                   *)
EarlyLayout(layout) ==
  \A i \in MaxLate + 1 .. Len(Checks) :
    \E n \in 1 .. MaxLate : layout[Checks[i - n].nid] \in Expected(Checks[i].nid)

(* A codec that is programmed while replies are still outstanding, so that *)
(* none of the six checks has heard its own, has the expected widgets, but *)
(* in the wrong place: each as many checks early as replies may be late.   *)
(* On any other codec the replies that are late when the checks begin do   *)
(* not get past them.                                                      *)
ChecksResynchronise ==
  phase = "codec" /\ Head(todo).op # "caps" /\ Len(todo) <= Len(Programming(0, 0)) =>
    (late = <<>> /\ pending = <<>>) \/ EarlyLayout(board.codec[cad].layout)

(* As long as no set_mute has failed and no verb got another's reply, a    *)
(* player's two amplifiers are muted together and as it believes.          *)
MuteAsBelieved ==
  Opened /\ hw_mute /\ todo = <<>> /\ ~mute_failed /\ ~misheard =>
    \A nid \in Dacs : RegIs(cad, nid, "out_amp", DefaultGain + (IF muted_applied THEN AmpMute ELSE 0))

(* A pause shorter than Idle never stops the stream, however many of them  *)
(* there are: each one starts the timer anew.  Only a flush stops it early.*)
HaltNotEarly ==
  [][phase = "ready" /\ caller = "mixer" /\ dma /\ ~dma' => quiet >= Idle \/ flush]_sessionVars

(* drain stops the DMA only when all that was handed over has been played. *)
DrainPlaysOut == phase = "drained" /\ ~overtaken => owed = 0

=============================================================================
