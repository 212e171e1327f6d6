-------------------------------- MODULE Shim --------------------------------
(***************************************************************************)
(* The client library (shim/src/lib.rs): the application thread calling    *)
(* snd_pcm_*, the drain thread it feeds through the ring, the reconnect    *)
(* loop, and the server's end of the connection as far as the protocol     *)
(* goes.  The application has one handle open at a time; MUTE_CMD,         *)
(* LAST_SILENT and FLUSH_CMD belong to the process and outlive it.         *)
(*                                                                         *)
(* The ring is a count of frames (Ring shows that it is a FIFO).  pop is   *)
(* one step that is enabled while there is data or an interrupt, so a      *)
(* wakeup lost to interrupt(), which Ring exhibits, does not occur here.   *)
(* total_written, which is only logged, and play_start, the playhead's     *)
(* clock, are left out; the poll timer paces the application, which is     *)
(* free here.                                                              *)
(***************************************************************************)
EXTENDS Integers, Sequences

CONSTANTS
  Writes,       (* frames a writei may be given                            *)
  RingFrames,   (* shim.ring_buffer_size                                   *)
  DrainFrames,  (* DRAIN_CHUNK: most a pop takes                           *)
  FrameBytes,
  SockItems,    (* frames the socket buffer holds before send blocks       *)
  MaxPushed     (* bound: frames pushed between two drops                  *)

ASSUME ShimAssumption ==
  /\ RingFrames \in Nat \ {0} /\ DrainFrames \in Nat \ {0} /\ SockItems \in Nat \ 0 .. 2
  /\ FrameBytes \in Nat \ {0, 1} /\ MaxPushed \in Nat
  /\ Writes \subseteq 1 .. RingFrames

VARIABLES
  app,            (* what the application thread is doing                  *)
  configured, state, header, total_pushed,  (* fields of snd_pcm_t         *)
  queued,         (* frames in the ring                                    *)
  writing,        (* frames of the writei under way                        *)
  flush_cmd, mute_cmd, last_silent,  (* the statics                        *)
  announced,      (* history: the last mute command the drain thread took  *)
  ahead,          (* history: chunks popped while a flush was pending      *)
  drain,          (* what the drain thread is doing                        *)
  taken,          (* the payload it is sending                             *)
  sock,           (* the fd is >= 0                                        *)
  stale_fd,       (* that connection was replaced since a commit loaded it *)
  alive,          (* the server has not closed its end                     *)
  wire,           (* sent and not yet read                                 *)
  session,        (* what the server takes the next bytes for              *)
  up,             (* the server is running                                 *)
  heard           (* the last control command the server recognised        *)

handle == <<configured, state, header, total_pushed, queued, writing>>
statics == <<flush_cmd, mute_cmd, last_silent, announced, ahead>>
conn == <<sock, stale_fd, alive, wire, session>>
vars == <<app, handle, statics, drain, taken, conn, up, heard>>

Mutes == {"mute", "unmute"}
Control(op) == [len |-> 1, first |-> op]
Pcm(n) == [len |-> n * FrameBytes, first |-> "pcm"]
Header == [len |-> 12, first |-> "header"]
Nothing == [len |-> 0, first |-> "none"]

Init ==
  /\ app = "closed"
  /\ configured = FALSE /\ state = "OPEN" /\ header = FALSE
  /\ total_pushed = 0 /\ queued = 0 /\ writing = 0
  /\ flush_cmd = FALSE /\ mute_cmd = "none" /\ last_silent = FALSE /\ announced = "unmute"
  /\ ahead = 0
  /\ drain = "none" /\ taken = Nothing
  /\ sock = FALSE /\ stale_fd = FALSE /\ alive = FALSE /\ wire = <<>> /\ session = "header"
  /\ up = TRUE /\ heard = "none"

(* drain_stop: set by close and by nothing else.                           *)
stop == app = "join"

Room == Len(wire) < SockItems

(* The connection is gone, and what was in it.                             *)
HangUp == alive' = FALSE /\ wire' = <<>> /\ session' = "header"

-----------------------------------------------------------------------------
(* The application thread: snd_pcm_*.                                      *)

Call(from, to) == app = from /\ app' = to

(* connect_audiod succeeds and the drain thread is spawned.                *)
Open ==
  /\ up /\ Call("closed", "idle")
  /\ sock' = TRUE /\ alive' = TRUE /\ wire' = <<>> /\ session' = "header"
  /\ stale_fd' = FALSE
  /\ configured' = FALSE /\ state' = "SETUP" /\ header' = FALSE
  /\ total_pushed' = 0 /\ queued' = 0 /\ writing' = 0
  /\ drain' = "top" /\ taken' = Nothing
  /\ UNCHANGED <<statics, up, heard>>

(* commit_configured loads the fd, ...                                     *)
Commit ==
  /\ ~configured /\ sock /\ Call("idle", "stash")
  /\ stale_fd' = FALSE
  /\ UNCHANGED <<handle, statics, drain, taken, sock, alive, wire, session, up, heard>>

(* ... and stashes the header, for the drain thread to send again; one     *)
(* that reconnects in between has none yet.                                *)
Stash ==
  /\ Call("stash", "commit")
  /\ header' = TRUE
  /\ UNCHANGED <<configured, state, total_pushed, queued, writing,
                 statics, drain, taken, conn, up, heard>>

(* It sends the header: on the connection whose fd it loaded, or, if that  *)
(* was closed meanwhile and its number given out again, on the new one.    *)
CommitSend ==
  /\ Call("commit", "idle")
  /\ alive /\ sock /\ Room
  /\ wire' = Append(wire, Header)
  /\ configured' = TRUE /\ state' = "PREPARED" /\ stale_fd' = FALSE
  /\ UNCHANGED <<header, total_pushed, queued, writing, statics, drain, taken,
                 sock, alive, session, up, heard>>

(* EIO; the stashed header stays.                                          *)
CommitFail ==
  /\ Call("commit", "idle")
  /\ ~alive \/ stale_fd
  /\ stale_fd' = FALSE
  /\ UNCHANGED <<handle, statics, drain, taken, sock, alive, wire, session, up, heard>>

(* What the last audio written calls for.                                  *)
Wanted == IF last_silent THEN "mute" ELSE "unmute"

(* LAST_SILENT.swap                                                        *)
Writei(n, silent) ==
  /\ configured /\ Call("idle", IF silent = last_silent THEN "push" ELSE "announce")
  /\ total_pushed + n <= MaxPushed
  /\ writing' = n /\ last_silent' = silent
  /\ UNCHANGED <<configured, state, header, total_pushed, queued, flush_cmd, mute_cmd, announced,
                 ahead, drain, taken, conn, up, heard>>

(* Mutant of AnnounceSilence: a command still pending is not overwritten.  *)
AnnounceOnce ==
  /\ Call("announce", "push")
  /\ mute_cmd' = IF mute_cmd = "none" THEN Wanted ELSE mute_cmd
  /\ UNCHANGED <<handle, flush_cmd, last_silent, announced, ahead, drain, taken, conn, up, heard>>

(* A transition from or to silence is left for the drain thread            *)
(* (MUTE_CMD.store), in place of one it has not taken yet.                 *)
AnnounceSilence ==
  /\ Call("announce", "push")
  /\ mute_cmd' = Wanted
  /\ UNCHANGED <<handle, flush_cmd, last_silent, announced, ahead, drain, taken, conn, up, heard>>

Fits == queued + writing <= RingFrames

(* ring.push returns.                                                      *)
Push ==
  /\ Fits /\ Call("push", "count")
  /\ queued' = queued + writing
  /\ UNCHANGED <<configured, state, header, total_pushed, writing,
                 statics, drain, taken, conn, up, heard>>

Count ==
  /\ Call("count", "idle")
  /\ total_pushed' = total_pushed + writing /\ writing' = 0
  /\ UNCHANGED <<configured, state, header, queued,
                 statics, drain, taken, conn, up, heard>>

(* Mutant of Drop: the ring is not cleared.                                *)
DropKeepsRing ==
  /\ Call("idle", "idle")
  /\ total_pushed' = 0 /\ state' = "PREPARED"
  /\ flush_cmd' = (flush_cmd \/ state = "RUNNING" \/ configured)
  /\ UNCHANGED <<configured, header, queued, writing, mute_cmd, last_silent, announced, ahead,
                 drain, taken, conn, up, heard>>

Drop ==
  /\ Call("idle", "idle")
  /\ queued' = 0 /\ total_pushed' = 0 /\ state' = "PREPARED"
  /\ flush_cmd' = (flush_cmd \/ state = "RUNNING" \/ configured)
  /\ UNCHANGED <<configured, header, writing, mute_cmd, last_silent, announced, ahead,
                 drain, taken, conn, up, heard>>

(* pause(1).                                                               *)
Pause ==
  /\ Call("idle", "idle")
  /\ state' = "PAUSED" /\ flush_cmd' = TRUE
  /\ UNCHANGED <<configured, header, total_pushed, queued, writing, mute_cmd,
                 last_silent, announced, ahead, drain, taken, conn, up, heard>>

(* start, and pause(0).                                                    *)
Start ==
  /\ Call("idle", "idle")
  /\ state' = "RUNNING"
  /\ UNCHANGED <<configured, header, total_pushed, queued, writing,
                 statics, drain, taken, conn, up, heard>>

(* prepare (its reset of the playhead aside), and drain ("let existing     *)
(* data drain naturally").                                                 *)
Prepare ==
  /\ Call("idle", "idle")
  /\ state' = "PREPARED"
  /\ UNCHANGED <<configured, header, total_pushed, queued, writing,
                 statics, drain, taken, conn, up, heard>>

(* close: stop, interrupt, join ...                                        *)
Close ==
  /\ Call("idle", "join")
  /\ UNCHANGED <<handle, statics, drain, taken, conn, up, heard>>

(* ... and close the socket.                                               *)
Joined ==
  /\ drain = "exit" /\ Call("join", "closed")
  /\ drain' = "none" /\ sock' = FALSE /\ HangUp
  /\ configured' = FALSE /\ state' = "OPEN" /\ header' = FALSE
  /\ total_pushed' = 0 /\ queued' = 0 /\ writing' = 0
  /\ UNCHANGED <<statics, taken, stale_fd, up, heard>>

-----------------------------------------------------------------------------
(* The drain thread.                                                       *)

DrainStep(from, to) == drain = from /\ drain' = to

(* Top of the loop: the stop flag, then MUTE_CMD.swap(0).                  *)
Top ==
  /\ drain = "top"
  /\ IF stop THEN drain' = "exit" /\ UNCHANGED <<mute_cmd, announced, taken>>
     ELSE IF mute_cmd = "none" THEN drain' = "flush" /\ UNCHANGED <<mute_cmd, announced, taken>>
     ELSE /\ drain' = "send" /\ taken' = Control(mute_cmd)
          /\ mute_cmd' = "none" /\ announced' = mute_cmd
  /\ UNCHANGED <<app, handle, flush_cmd, last_silent, ahead, conn, up, heard>>

(* FLUSH_CMD.swap(false)                                                   *)
TakeFlush ==
  /\ DrainStep("flush", IF flush_cmd THEN "send" ELSE "pop")
  /\ flush_cmd' = FALSE /\ ahead' = 0
  /\ taken' = IF flush_cmd THEN Control("flush") ELSE taken
  /\ UNCHANGED <<app, handle, mute_cmd, last_silent, announced, conn, up, heard>>

MinOf(a, b) == IF a < b THEN a ELSE b

Pop ==
  /\ queued > 0 /\ DrainStep("pop", "send")
  /\ taken' = Pcm(MinOf(queued, DrainFrames))
  /\ queued' = queued - MinOf(queued, DrainFrames)
  /\ ahead' = IF flush_cmd THEN MinOf(ahead + 1, 2) ELSE ahead
  /\ UNCHANGED <<app, configured, state, header, total_pushed, writing,
                 flush_cmd, mute_cmd, last_silent, announced, conn, up, heard>>

PopInterrupted ==
  /\ stop /\ DrainStep("pop", "top")
  /\ UNCHANGED <<app, handle, statics, taken, conn, up, heard>>

(* Mutant of Continue: it pops until the ring is empty.                    *)
ContinuePopping == CASE taken.first \in Mutes -> "flush"
                     [] taken.first = "flush" \/ queued > 0 -> "pop"
                     [] OTHER -> "top"

(* Where the loop goes on once the payload was sent or given up.           *)
Continue == CASE taken.first \in Mutes -> "flush"
              [] taken.first = "flush" -> "pop"
              [] OTHER -> "top"

(* send_frame: the length of the payload, then the payload.                *)
SendFrame ==
  /\ alive /\ Room /\ DrainStep("send", Continue)
  /\ wire' = Append(wire, taken) /\ taken' = Nothing
  /\ UNCHANGED <<app, handle, statics, sock, stale_fd, alive, session, up, heard>>

(* EPIPE: reconnect_audiod closes the socket; what was taken is lost.      *)
SendFails ==
  /\ ~alive /\ DrainStep("send", "connect")
  /\ sock' = FALSE /\ stale_fd' = (app \in {"stash", "commit"})
  /\ UNCHANGED <<app, handle, statics, taken, alive, wire, session, up, heard>>

Connected ==
  /\ drain' = "resend"
  /\ sock' = TRUE /\ alive' = TRUE /\ wire' = <<>> /\ session' = "header"

(* Mutants of Reconnect: the stop flag is not looked at; one failed try is *)
(* enough to give up.                                                      *)
ReconnectUnstoppable ==
  /\ drain = "connect" /\ up /\ Connected
  /\ UNCHANGED <<app, handle, statics, taken, stale_fd, up, heard>>

ReconnectOnce ==
  /\ drain = "connect"
  /\ IF stop \/ ~up THEN drain' = "exit" /\ taken' = Nothing /\ UNCHANGED <<sock, alive, wire, session>>
     ELSE Connected /\ UNCHANGED taken
  /\ UNCHANGED <<app, handle, statics, stale_fd, up, heard>>

(* Until stop is set; a try that fails changes nothing.                    *)
Reconnect ==
  /\ drain = "connect"
  /\ IF stop THEN drain' = "exit" /\ taken' = Nothing /\ UNCHANGED <<sock, alive, wire, session>>
     ELSE up /\ Connected /\ UNCHANGED taken
  /\ UNCHANGED <<app, handle, statics, stale_fd, up, heard>>

(* Mutant of Resend: the header is not sent.                               *)
ResendSkipped ==
  /\ DrainStep("resend", Continue)
  /\ total_pushed' = 0 /\ taken' = Nothing
  /\ UNCHANGED <<app, configured, state, header, queued, writing, statics, conn, up, heard>>

(* The stashed header again; a failure is only logged.  Then the counters. *)
Resend ==
  /\ DrainStep("resend", Continue)
  /\ wire' = IF header /\ alive THEN Append(wire, Header) ELSE wire
  /\ total_pushed' = 0 /\ taken' = Nothing
  /\ UNCHANGED <<app, configured, state, header, queued, writing, statics,
                 sock, stale_fd, alive, session, up, heard>>

-----------------------------------------------------------------------------
(* The server: its accept loop, then reader_client.                        *)

Arrived(item) == alive /\ wire # <<>> /\ item = Head(wire)

ReadHeader ==
  /\ session = "header" /\ Arrived(Header)
  /\ session' = "streaming" /\ wire' = Tail(wire)
  /\ UNCHANGED <<app, handle, statics, drain, taken, sock, stale_fd, alive, up, heard>>

(* max_clients is reached: the connection is closed.                       *)
Refuse ==
  /\ session = "header" /\ Arrived(Header) /\ HangUp
  /\ UNCHANGED <<app, handle, statics, drain, taken, sock, stale_fd, up, heard>>

(* Twelve bytes are there and start with a control frame: read as a header *)
(* it has rate 1 and, its opcode being the low byte of `channels`, more    *)
(* than 8 channels, so parse_header refuses it.  Control frames are 5      *)
(* bytes long, anything else at least 12.                                  *)
BadHeader ==
  /\ session = "header" /\ alive /\ wire # <<>> /\ Head(wire) # Header
  /\ Len(wire) > 2 \/ \E i \in 1 .. Len(wire) : wire[i].len > 1
  /\ HangUp
  /\ UNCHANGED <<app, handle, statics, drain, taken, sock, stale_fd, up, heard>>

(* A length of zero announces a command.  Any other length is PCM; of a    *)
(* payload that is not whole frames nothing is kept.  A second header read *)
(* as a length swallows what follows it.                                   *)
ReadFrame ==
  /\ session # "header" /\ alive /\ wire # <<>>
  /\ wire' = Tail(wire)
  /\ session' = IF Head(wire) = Header THEN "garbled" ELSE session
  /\ heard' = IF session = "streaming" /\ Head(wire).len = 0 THEN Head(wire).first ELSE heard
  /\ UNCHANGED <<app, handle, statics, drain, taken, sock, stale_fd, alive, up>>

Crash ==
  /\ up /\ up' = FALSE /\ HangUp
  /\ UNCHANGED <<app, handle, statics, drain, taken, sock, stale_fd, heard>>

Restart ==
  /\ ~up /\ up' = TRUE
  /\ UNCHANGED <<app, handle, statics, drain, taken, conn, heard>>

-----------------------------------------------------------------------------
AppStep == Stash \/ CommitSend \/ CommitFail \/ AnnounceSilence \/ Push \/ Count \/ Joined
Application == \/ Open \/ Commit \/ Drop \/ Pause \/ Start \/ Prepare \/ Close
               \/ \E n \in Writes, silent \in BOOLEAN : Writei(n, silent)
Drain == Top \/ TakeFlush \/ Pop \/ PopInterrupted \/ SendFrame \/ SendFails \/ Reconnect \/ Resend
Session == ReadHeader \/ BadHeader \/ ReadFrame

Next == AppStep \/ Application \/ Drain \/ Session \/ Refuse \/ Crash \/ Restart

Spec == Init /\ [][Next]_vars

(* A call that has begun goes on, the drain thread runs and a running      *)
(* server reads.  What the application calls is its own affair, and a      *)
(* server that died need not come back.                                    *)
FairSpec == Spec /\ WF_vars(AppStep) /\ WF_vars(Drain) /\ WF_vars(Session)

-----------------------------------------------------------------------------
Items == {Header} \cup {Control(op) : op \in Mutes \cup {"flush"}} \cup {Pcm(n) : n \in 1 .. DrainFrames}

TypeOK ==
  /\ app \in {"closed", "idle", "stash", "commit", "announce", "push", "count", "join"}
  /\ state \in {"OPEN", "SETUP", "PREPARED", "RUNNING", "PAUSED"}
  /\ configured \in BOOLEAN /\ header \in BOOLEAN
  /\ total_pushed \in 0 .. MaxPushed /\ queued \in 0 .. RingFrames
  /\ writing \in Writes \cup {0}
  /\ flush_cmd \in BOOLEAN /\ mute_cmd \in Mutes \cup {"none"} /\ last_silent \in BOOLEAN
  /\ announced \in Mutes /\ ahead \in 0 .. 2
  /\ drain \in {"none", "top", "flush", "pop", "send", "connect", "resend", "exit"}
  /\ taken \in Items \cup {Nothing}
  /\ sock \in BOOLEAN /\ stale_fd \in BOOLEAN /\ alive \in BOOLEAN /\ up \in BOOLEAN
  /\ wire \in Seq(Items) /\ Len(wire) <= SockItems + 1
  /\ session \in {"header", "streaming", "garbled"}
  /\ heard \in Mutes \cup {"flush", "none"}

(* The mute command left for the drain thread, or else the last one it took*)
(* to send, is that of the last transition writei saw, however the two     *)
(* threads interleave and across handles: none is put off for good, and no *)
(* outdated one is left pending.  What becomes of a command that was taken *)
(* is another matter: it is lost if the server has just gone, a reconnect  *)
(* does not repeat it, and the server recognises none (ControlsRecognised).*)
SilenceAnnounced ==
  app # "announce" => (IF mute_cmd = "none" THEN announced ELSE mute_cmd) = Wanted

(* The counter the playhead starts from (total_pushed) is no less than what*)
(* is in the ring, until a reconnect zeroes it: no call does that, drop    *)
(* included.  Of `delay`, which subtracts the time since the first write as*)
(* well, this says nothing: while the server stalls or is gone the clock   *)
(* runs on, and what is in the ring is left out (Playhead has the clock).  *)
Covered == queued <= total_pushed + (IF app = "count" THEN writing ELSE 0)
OnlyReconnectUncovers == [][Covered /\ drain # "resend" => Covered']_vars

(* "writei must push into the ring and block on ring-full (real ALSA       *)
(* backpressure) until the drain reconnects and frees space": it does      *)
(* return, if the server comes back for good.                              *)
WriteReturns == <>[]up => (app = "push" ~> app # "push")

(* close gets the drain thread out of the reconnect loop even if the       *)
(* server never comes back.                                                *)
CloseEndsReconnect == stop /\ drain = "connect" ~> drain # "connect"

(* A configured stream that lost its server is taken up again by the next  *)
(* one: the stashed header comes first and is accepted, whatever command   *)
(* or chunk the failure was found with, unless that server goes as well.   *)
ReconnectResumes ==
  <>[]up => (drain = "connect" /\ configured
               ~> session = "streaming" \/ app \in {"join", "closed"} \/ (~alive /\ drain # "connect"))

(* "Set when the app dropped/paused the stream; the drain thread forwards  *)
(* a MSG_FLUSH so the server can stop the HDA DMA ring" (FLUSH_CMD).  The  *)
(* drain thread may sleep in pop when a flush is asked for and then hears  *)
(* of it only with the next audio, or never if there is none; but no more  *)
(* than one chunk of that audio gets ahead of the flush, however calls and *)
(* reconnects interleave.  Ahead of its being taken, that is: one that was *)
(* taken and met a server just gone is lost.                               *)
FlushOvertakenOnce == ahead <= 1

(* "Control opcodes can also travel inline on a PCM connection as          *)
(* zero-length frames -- this is how shim-side snd_pcm_drop/pause sends    *)
(* FLUSH" (docs/protocol.md): a command the server reads is recognised.    *)
ControlsRecognised ==
  [][alive /\ session = "streaming" /\ wire # <<>> /\ wire' = Tail(wire)
       => \A op \in Mutes \cup {"flush"} : Head(wire).first = op => heard' = op]_vars

=============================================================================
