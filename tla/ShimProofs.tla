------------------------------ MODULE ShimProofs ------------------------------
(***************************************************************************)
(* The shim's safety properties hold for all sizes of writes, ring, drain  *)
(* chunk and socket buffer, and any number of crashes, handles and calls.  *)
(* The strengthenings: a write under way keeps its room under the          *)
(* counter's bound (RoomKept), the socket buffer has a place left for the  *)
(* header that is resent without waiting (PlaceKept), the drain thread has *)
(* something to send when it sends (Carries), and when it is about to      *)
(* sleep in pop, or carries a flush, no chunk has been popped over a       *)
(* pending one (NoneAhead).                                                *)
(***************************************************************************)
EXTENDS Shim, TLAPS

(* TypeOK by the kind of value.                                            *)
Flags ==
  /\ configured \in BOOLEAN /\ header \in BOOLEAN
  /\ flush_cmd \in BOOLEAN /\ last_silent \in BOOLEAN
  /\ sock \in BOOLEAN /\ stale_fd \in BOOLEAN /\ alive \in BOOLEAN /\ up \in BOOLEAN

Names ==
  /\ app \in {"closed", "idle", "stash", "commit", "announce", "push", "count", "join"}
  /\ state \in {"OPEN", "SETUP", "PREPARED", "RUNNING", "PAUSED"}
  /\ mute_cmd \in Mutes \cup {"none"} /\ announced \in Mutes
  /\ drain \in {"none", "top", "flush", "pop", "send", "connect", "resend", "exit"}
  /\ taken \in Items \cup {Nothing}
  /\ session \in {"header", "streaming", "garbled"}
  /\ heard \in Mutes \cup {"flush", "none"}

Counts ==
  /\ total_pushed \in 0 .. MaxPushed /\ queued \in 0 .. RingFrames
  /\ writing \in Writes \cup {0} /\ ahead \in 0 .. 2

Wire == wire \in Seq(Items) /\ Len(wire) <= SockItems + 1

RoomKept == app \in {"announce", "push", "count"} => total_pushed + writing <= MaxPushed

PlaceKept == drain = "resend" => Len(wire) <= SockItems

Carries == drain \in {"send", "connect"} => taken \in Items

NoneAhead == drain = "pop" \/ taken.first = "flush" => ahead = 0

LEMMA TypeParts == TypeOK <=> Flags /\ Names /\ Counts /\ Wire
BY DEF TypeOK, Flags, Names, Counts, Wire

-----------------------------------------------------------------------------
LEMMA FlagsKept ==
  ASSUME Flags, [Next]_vars
  PROVE  Flags'
<1> USE DEF Flags, handle, statics, conn
<1>1. ASSUME NEW n \in Writes, NEW silent \in BOOLEAN, Writei(n, silent) PROVE Flags'
  BY <1>1 DEF Writei
<1>2. CASE Open \/ Commit \/ Stash \/ CommitSend \/ CommitFail
  BY <1>2 DEF Open, Commit, Stash, CommitSend, CommitFail
<1>3. CASE Drop
  BY <1>3 DEF Drop
<1>4. CASE AnnounceSilence \/ Push \/ Count \/ Pause \/ Start \/ Prepare
  BY <1>4 DEF AnnounceSilence, Push, Count, Pause, Start, Prepare
<1>5. CASE Close \/ Joined
  BY <1>5 DEF Close, Joined, HangUp
<1>6. CASE Top \/ TakeFlush \/ Pop \/ PopInterrupted
  BY <1>6 DEF Top, TakeFlush, Pop, PopInterrupted
<1>7. CASE SendFrame \/ Reconnect \/ Resend
  BY <1>7 DEF SendFrame, Reconnect, Connected, Resend
<1>11. CASE SendFails
  <2> DEFINE loaded == app \in {"stash", "commit"}
  <2>1. loaded \in BOOLEAN /\ stale_fd' = loaded
    BY <1>11 DEF SendFails
  <2> QED
    BY <2>1, <1>11 DEF SendFails
<1>8. CASE Session \/ Refuse
  BY <1>8 DEF Session, ReadHeader, BadHeader, ReadFrame, Refuse, HangUp
<1>9. CASE Crash \/ Restart
  BY <1>9 DEF Crash, Restart, HangUp
<1>10. CASE UNCHANGED vars
  BY <1>10 DEF vars
<1> QED
  BY <1>1, <1>2, <1>3, <1>4, <1>5, <1>6, <1>7, <1>8, <1>9, <1>10, <1>11
  DEF Next, AppStep, Application, Drain

(* What travels is an item.                                                *)
LEMMA ItemsTravel ==
  /\ Header \in Items
  /\ \A op \in Mutes \cup {"flush"} : Control(op) \in Items /\ Control(op).first = op
  /\ \A n \in 1 .. DrainFrames : Pcm(n) \in Items /\ Pcm(n).first = "pcm"
BY DEF Items, Control, Pcm

LEMMA NothingIsNone == Nothing.first = "none"
BY DEF Nothing

(* No item has length 0: what the server would take for a command.         *)
LEMMA NoItemIsCommand == \A item \in Items : item.len # 0
<1>1. \A n \in 1 .. DrainFrames : n * FrameBytes # 0
  BY ShimAssumption
<1> QED
  BY <1>1 DEF Items, Header, Control, Pcm

LEMMA NamesKept ==
  ASSUME Names, Carries, Counts, Wire, [Next]_vars
  PROVE  Names' /\ Carries'
<1> USE DEF Names, Carries, Mutes, handle, statics, conn, Call, DrainStep
<1>a. Continue \in {"flush", "pop", "top"}
  BY DEF Continue
<1>1. ASSUME NEW n \in Writes, NEW silent \in BOOLEAN, Writei(n, silent) PROVE Names' /\ Carries'
  BY <1>1 DEF Writei
<1>2. CASE Open \/ Commit \/ Stash \/ CommitSend \/ CommitFail
  BY <1>2 DEF Open, Commit, Stash, CommitSend, CommitFail
<1>3. CASE Drop \/ AnnounceSilence \/ Push \/ Count \/ Pause \/ Start \/ Prepare
  BY <1>3 DEF Drop, AnnounceSilence, Wanted, Push, Count, Pause, Start, Prepare
<1>4. CASE Close \/ Joined
  BY <1>4 DEF Close, Joined, HangUp
<1>5. CASE Top
  BY <1>5, ItemsTravel DEF Top
<1>6. CASE TakeFlush
  BY <1>6, ItemsTravel DEF TakeFlush
<1>7. CASE Pop
  <2>1. MinOf(queued, DrainFrames) \in 1 .. DrainFrames
    BY <1>7, ShimAssumption DEF Pop, MinOf, Counts
  <2>2. Pcm(MinOf(queued, DrainFrames)) \in Items
    BY <2>1, ItemsTravel
  <2> QED
    BY <2>2, <1>7 DEF Pop
<1>8. CASE PopInterrupted \/ SendFrame \/ SendFails
  BY <1>8, <1>a DEF PopInterrupted, SendFrame, SendFails
<1>9. CASE Reconnect \/ Resend
  BY <1>9, <1>a DEF Reconnect, Connected, Resend
<1>10. CASE ReadFrame
  <2>1. wire # <<>> /\ wire \in Seq(Items)
    BY <1>10 DEF ReadFrame, Wire
  <2>2. Head(wire) \in Items
    BY <2>1
  <2>3. heard' = heard
    BY <2>2, <1>10, NoItemIsCommand DEF ReadFrame
  <2> QED
    BY <2>3, <1>10 DEF ReadFrame
<1>11. CASE ReadHeader \/ BadHeader \/ Refuse \/ Crash \/ Restart
  BY <1>11 DEF ReadHeader, BadHeader, Refuse, Crash, Restart, HangUp
<1>12. CASE UNCHANGED vars
  BY <1>12 DEF vars
<1> QED
  BY <1>1, <1>2, <1>3, <1>4, <1>5, <1>6, <1>7, <1>8, <1>9, <1>10, <1>11, <1>12
  DEF Next, AppStep, Application, Drain, Session

-----------------------------------------------------------------------------
LEMMA CountsKept ==
  ASSUME Counts, RoomKept, [Next]_vars
  PROVE  Counts' /\ RoomKept'
<1> USE ShimAssumption DEF Counts, RoomKept, handle, statics, Call
<1>1. ASSUME NEW n \in Writes, NEW silent \in BOOLEAN, Writei(n, silent)
      PROVE  Counts' /\ RoomKept'
  BY <1>1 DEF Writei
<1>2. CASE Open
  BY <1>2 DEF Open
<1>3. CASE Commit \/ Stash \/ CommitSend \/ CommitFail \/ AnnounceSilence
  BY <1>3 DEF Commit, Stash, CommitSend, CommitFail, AnnounceSilence
<1>4. CASE Push
  BY <1>4 DEF Push, Fits
<1>5. CASE Count
  BY <1>5 DEF Count
<1>6. CASE Drop \/ Pause \/ Start \/ Prepare \/ Close
  BY <1>6 DEF Drop, Pause, Start, Prepare, Close
<1>7. CASE Joined
  BY <1>7 DEF Joined
<1>8. CASE Top \/ TakeFlush \/ PopInterrupted \/ SendFrame \/ SendFails \/ Reconnect
  BY <1>8 DEF Top, TakeFlush, PopInterrupted, SendFrame, SendFails, Reconnect
<1>9. CASE Pop
  BY <1>9 DEF Pop, MinOf
<1>10. CASE Resend
  BY <1>10 DEF Resend
<1>11. CASE Session \/ Refuse \/ Crash \/ Restart
  BY <1>11 DEF Session, ReadHeader, BadHeader, ReadFrame, Refuse, Crash, Restart
<1>12. CASE UNCHANGED vars
  BY <1>12 DEF vars
<1> QED
  BY <1>1, <1>2, <1>3, <1>4, <1>5, <1>6, <1>7, <1>8, <1>9, <1>10, <1>11, <1>12
  DEF Next, AppStep, Application, Drain

LEMMA WireKept ==
  ASSUME Carries, Wire, PlaceKept, [Next]_vars
  PROVE  Wire' /\ PlaceKept'
<1> USE ShimAssumption DEF Wire, PlaceKept, conn, DrainStep
<1>a. <<>> \in Seq(Items) /\ Len(<<>>) = 0 /\ Header \in Items
  BY ItemsTravel
<1>b. Continue # "resend"
  BY DEF Continue
<1>1. CASE wire' = <<>>
  BY <1>a, <1>1
<1>2. CASE UNCHANGED <<wire, drain>>
  BY <1>2
<1>3. CASE CommitSend
  BY <1>a, <1>3 DEF CommitSend, Room
<1>4. CASE wire' = wire /\ drain' # "resend"
  BY <1>4
<1>5. CASE SendFrame
  <2>1. taken \in Items
    BY <1>5 DEF SendFrame, Carries
  <2> QED
    BY <2>1, <1>b, <1>5 DEF SendFrame, Room
<1>6. CASE Resend
  BY <1>a, <1>b, <1>6 DEF Resend
<1>7. CASE wire # <<>> /\ wire' = Tail(wire) /\ drain' = drain
  BY <1>7
<1>8. CASE AppStep \/ Application
  BY <1>1, <1>2, <1>3, <1>4, <1>8
  DEF AppStep, Application, Open, Commit, Stash, CommitFail, AnnounceSilence, Push, Count, Drop,
      Pause, Start, Prepare, Close, Joined, Writei, HangUp
<1>9. CASE Drain
  BY <1>1, <1>4, <1>5, <1>6, <1>9
  DEF Drain, Top, TakeFlush, Pop, PopInterrupted, SendFails, Reconnect, Connected
<1>10. CASE Session \/ Refuse \/ Crash \/ Restart
  BY <1>1, <1>2, <1>7, <1>10
  DEF Session, ReadHeader, BadHeader, ReadFrame, Refuse, Crash, Restart, HangUp, Arrived
<1>11. CASE UNCHANGED vars
  BY <1>2, <1>11 DEF vars
<1> QED
  BY <1>8, <1>9, <1>10, <1>11 DEF Next

-----------------------------------------------------------------------------
TInv == Flags /\ Names /\ Carries /\ Counts /\ Wire /\ RoomKept /\ PlaceKept

LEMMA TypeInit == Init => TInv
<1> SUFFICES ASSUME Init PROVE TInv
  OBVIOUS
<1>1. Flags
  BY DEF Init, Flags
<1>2. Names /\ Carries
  BY DEF Init, Names, Carries, Mutes
<1>3. Counts /\ Wire /\ RoomKept /\ PlaceKept
  BY ShimAssumption DEF Init, Counts, Wire, RoomKept, PlaceKept
<1> QED
  BY <1>1, <1>2, <1>3 DEF TInv

LEMMA ShimTyped == Spec => []TInv
<1>1. TInv /\ [Next]_vars => TInv'
  BY FlagsKept, NamesKept, CountsKept, WireKept DEF TInv
<1> QED
  BY TypeInit, <1>1, PTL DEF Spec

(* Every field keeps its range, the ring holds no more than its size, and  *)
(* the socket buffer no more than a resent header beyond its own.          *)
THEOREM ShimTypeCorrect == Spec => []TypeOK
<1>1. TInv => TypeOK
  BY TypeParts DEF TInv
<1> QED
  BY ShimTyped, <1>1, PTL

-----------------------------------------------------------------------------
(* Only the drain thread and writei touch the pending command.             *)
LEMMA SilenceKept ==
  ASSUME SilenceAnnounced, Names, [Next]_vars
  PROVE  SilenceAnnounced'
<1> USE DEF SilenceAnnounced, Wanted
<1>1. CASE UNCHANGED <<mute_cmd, announced, last_silent>> /\ app # "announce"
  BY <1>1
<1>7. CASE UNCHANGED <<mute_cmd, announced, last_silent, app>>
  BY <1>7
<1>8. CASE AnnounceSilence
  BY <1>8 DEF AnnounceSilence
<1>2. ASSUME NEW n \in Writes, NEW silent \in BOOLEAN, Writei(n, silent)
      PROVE  SilenceAnnounced'
  <2>1. CASE silent = last_silent
    BY <1>2, <2>1 DEF Writei, Call
  <2>2. CASE silent # last_silent
    BY <1>2, <2>2 DEF Writei, Call
  <2> QED
    BY <2>1, <2>2
<1>3. CASE Top
  BY <1>3 DEF Top, Names, Mutes
<1>4. CASE AppStep \/ Application
  BY <1>1, <1>2, <1>4, <1>8
  DEF AppStep, Application, Open, Commit, Stash, CommitSend, CommitFail, Push, Count, Drop, Pause,
      Start, Prepare, Close, Joined, Call, statics
<1>5. CASE Drain
  BY <1>3, <1>5, <1>7
  DEF Drain, TakeFlush, Pop, PopInterrupted, SendFrame, SendFails, Reconnect, Resend, statics
<1>6. CASE Session \/ Refuse \/ Crash \/ Restart \/ UNCHANGED vars
  BY <1>6, <1>7
  DEF Session, ReadHeader, BadHeader, ReadFrame, Refuse, Crash, Restart, statics, vars
<1> QED
  BY <1>4, <1>5, <1>6 DEF Next

(* However writei and the drain thread interleave, across handles and      *)
(* crashes, the mute command left to be taken, or else the last one the    *)
(* drain thread took, is that of the last transition from or to silence.   *)
(* That it then reaches the server this does not say: see NothingIsHeard.  *)
THEOREM SilenceIsAnnounced == Spec => []SilenceAnnounced
<1>1. Init => SilenceAnnounced
  BY DEF Init, SilenceAnnounced, Wanted
<1>2. TInv /\ SilenceAnnounced /\ [Next]_vars => SilenceAnnounced'
  BY SilenceKept DEF TInv
<1> QED
  BY <1>1, <1>2, ShimTyped, PTL DEF Spec

(* Whatever a shim sends, the server it talks to never takes any of it for *)
(* a command: send_frame announces each by the length of its payload, which*)
(* is not 0 for a command either.                                          *)
THEOREM NothingIsHeard == Spec => [](heard = "none")
<1> DEFINE Unheard == heard = "none"
<1>1. Init => Unheard
  BY DEF Init
<1>2. ASSUME Wire, Unheard, [Next]_vars PROVE Unheard'
  <2>1. CASE heard' = heard
    BY <1>2, <2>1
  <2>2. CASE ReadFrame
    <3>1. Head(wire) \in Items
      BY <1>2, <2>2 DEF ReadFrame, Wire
    <3> QED
      BY <1>2, <2>2, <3>1, NoItemIsCommand DEF ReadFrame
  <2>3. CASE AppStep \/ Application
    BY <2>1, <2>3
    DEF AppStep, Application, Open, Commit, Stash, CommitSend, CommitFail, AnnounceSilence, Push,
        Count, Drop, Pause, Start, Prepare, Close, Joined, Writei
  <2>4. CASE Drain
    BY <2>1, <2>4
    DEF Drain, Top, TakeFlush, Pop, PopInterrupted, SendFrame, SendFails, Reconnect, Resend
  <2>5. CASE Session \/ Refuse \/ Crash \/ Restart \/ UNCHANGED vars
    BY <2>1, <2>2, <2>5 DEF Session, ReadHeader, BadHeader, Refuse, Crash, Restart, vars
  <2> QED
    BY <1>2, <2>3, <2>4, <2>5 DEF Next
<1>3. TInv /\ Unheard /\ [Next]_vars => Unheard'
  BY <1>2 DEF TInv
<1> QED
  BY <1>1, <1>3, ShimTyped, PTL DEF Spec

-----------------------------------------------------------------------------
FInv == NoneAhead /\ FlushOvertakenOnce

LEMMA FlushKept ==
  ASSUME FInv, Names, Counts, [Next]_vars
  PROVE  FInv'
<1> USE NothingIsNone DEF FInv, NoneAhead, FlushOvertakenOnce, Counts, DrainStep
<1>1. CASE UNCHANGED <<drain, taken, ahead>>
  BY <1>1
<1>2. CASE drain' # "pop" /\ taken'.first # "flush" /\ ahead' = ahead
  BY <1>2
<1>3. CASE ahead' = 0
  BY <1>3
<1>4. CASE Top
  <2>1. mute_cmd # "none" => Control(mute_cmd).first # "flush"
    BY ItemsTravel DEF Names, Mutes
  <2> QED
    BY <2>1, <1>1, <1>2, <1>4 DEF Top
<1>5. CASE Pop
  <2>1. taken'.first = "pcm" /\ drain' = "send" /\ ahead = 0
    BY <1>5 DEF Pop, Pcm
  <2> QED
    BY <2>1, <1>5 DEF Pop, MinOf
<1>6. CASE SendFrame \/ Resend
  BY <1>6 DEF SendFrame, Resend, Continue, statics
<1>7. CASE PopInterrupted \/ SendFails \/ Reconnect
  BY <1>7 DEF PopInterrupted, SendFails, Reconnect, Connected, statics
<1>8. CASE AppStep \/ Application
  BY <1>1, <1>2, <1>8
  DEF AppStep, Application, Open, Commit, Stash, CommitSend, CommitFail, AnnounceSilence, Push,
      Count, Drop, Pause, Start, Prepare, Close, Joined, Writei, statics
<1>9. CASE Drain
  BY <1>3, <1>4, <1>5, <1>6, <1>7, <1>9 DEF Drain, TakeFlush
<1>10. CASE Session \/ Refuse \/ Crash \/ Restart \/ UNCHANGED vars
  BY <1>1, <1>10
  DEF Session, ReadHeader, BadHeader, ReadFrame, Refuse, Crash, Restart, statics, vars
<1> QED
  BY <1>8, <1>9, <1>10 DEF Next

(* At most one chunk of audio gets ahead of a pending flush: the one that  *)
(* wakes the drain thread from the pop it was asleep in.                   *)
THEOREM FlushIsOvertakenOnce == Spec => []FlushOvertakenOnce
<1>1. Init => FInv
  BY DEF Init, FInv, NoneAhead, FlushOvertakenOnce
<1>2. TInv /\ FInv /\ [Next]_vars => FInv'
  BY FlushKept DEF TInv
<1>3. FInv => FlushOvertakenOnce
  BY DEF FInv
<1> QED
  BY <1>1, <1>2, <1>3, ShimTyped, PTL DEF Spec

-----------------------------------------------------------------------------
LEMMA CoveredKept ==
  ASSUME Counts, Next, Covered, drain # "resend"
  PROVE  Covered'
<1> USE ShimAssumption DEF Counts, Covered, Call, handle
<1>1. CASE queued' = 0 /\ total_pushed' = 0 /\ app' # "count"
  BY <1>1
<1>2. CASE /\ queued' = queued /\ total_pushed' = total_pushed /\ writing' = writing
           /\ app' = "count" <=> app = "count"
  BY <1>2
<1>3. CASE Push
  BY <1>3 DEF Push, Fits
<1>4. CASE Count
  BY <1>4 DEF Count
<1>5. CASE Pop
  BY <1>5 DEF Pop, MinOf
<1>6. CASE \E n \in Writes, silent \in BOOLEAN : Writei(n, silent)
  BY <1>6 DEF Writei
<1>7. CASE AppStep \/ Application
  BY <1>1, <1>2, <1>3, <1>4, <1>6, <1>7
  DEF AppStep, Application, Open, Commit, Stash, CommitSend, CommitFail, AnnounceSilence, Drop,
      Pause, Start, Prepare, Close, Joined
<1>8. CASE Drain
  BY <1>2, <1>5, <1>8
  DEF Drain, Top, TakeFlush, PopInterrupted, SendFrame, SendFails, Reconnect, Resend, DrainStep
<1>9. CASE Session \/ Refuse \/ Crash \/ Restart
  BY <1>2, <1>9 DEF Session, ReadHeader, BadHeader, ReadFrame, Refuse, Crash, Restart
<1> QED
  BY <1>7, <1>8, <1>9 DEF Next

(* No call of the application, no failure and no other step of the drain   *)
(* thread than the end of a reconnect brings the playhead's counter below  *)
(* what is still in the ring.  (`delay` is that counter less a clock, which*)
(* is not part of Shim.)                                                   *)
THEOREM ReconnectAloneUncovers == Spec => OnlyReconnectUncovers
<1>1. TInv /\ [Next]_vars => [Covered /\ drain # "resend" => Covered']_vars
  BY CoveredKept DEF TInv
<1> QED
  BY <1>1, ShimTyped, PTL DEF Spec, OnlyReconnectUncovers

=============================================================================
