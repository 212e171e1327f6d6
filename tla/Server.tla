------------------------------- MODULE Server -------------------------------
(***************************************************************************)
(* The server's main thread and the threads it spawns (server/src/main.rs):*)
(* run_server accepts connections, reads each one's header itself, hands   *)
(* it to a control or a PCM thread, and on SIGTERM joins the PCM threads.  *)
(* Commands of either kind of client change the mute state and its LED.    *)
(* A PCM client's audio is followed to the end of the resampler; Mixer     *)
(* takes it from there, and has the rings, flushes and the client limit.   *)
(*                                                                         *)
(* Clients come, send as much as they like of what they should, read what  *)
(* they are answered or leave it, and go.  What volume stores and status   *)
(* loads is left out, but not that status is answered: the reply is written*)
(* to a socket that blocks while the client has not read the ones before.  *)
(***************************************************************************)
EXTENDS Resampler, Sequences

CONSTANTS Clients,
          ClientFrame,  (* bytes of a frame in the clients' format         *)
          Lens,         (* payload lengths                                 *)
          SockReplies,  (* replies a client's socket holds unread          *)
          MaxFrames     (* bound: frames a connection sends                *)

ASSUME ServerAssumption ==
  /\ ClientFrame \in Nat \ {0} /\ Lens \subseteq Nat \ {0}
  /\ SockReplies \in Nat \ {0} /\ MaxFrames \in Nat

VARIABLES
  main,       (* the accept loop                                           *)
  current,    (* the connection whose header it reads                      *)
  backlog,    (* connections not accepted yet                              *)
  sock,       (* each client's connection                                  *)
  kind,       (* what the header it sends is: of a "pcm" or a "control"    *)
              (* client, or "bad"                                          *)
  sent,       (* it has sent all of the header                             *)
  gone,       (* the client has closed its end                             *)
  unread,     (* replies it has not read yet                               *)
  thread,     (* the connection's thread                                   *)
  resampler,  (* its Resampler                                             *)
  received,   (* history: whole frames it has read                         *)
  produced,   (* history: frames the resampler has made of them            *)
  shutdown,   (* SHUTDOWN                                                  *)
  muted,      (* STATE.muted                                               *)
  led,        (* the mute LED is lit                                       *)
  settled     (* history: this process has applied a command for mute, and *)
              (* none while another was being applied since                *)

header == <<kind, sent>>
peer == <<gone, unread>>
stream == <<resampler, received, produced>>
mute == <<muted, led, settled>>
vars == <<main, current, backlog, sock, header, peer, thread, stream, shutdown, mute>>

None == "none"
Open(c) == sock[c] # None

(* run_server, its listener bound.  The LED is as the last process left it.*)
Init ==
  /\ main = "check" /\ shutdown = FALSE
  /\ muted = FALSE /\ led \in BOOLEAN /\ settled = FALSE
  /\ current = None /\ backlog = <<>>
  /\ sock = [c \in Clients |-> None] /\ thread = [c \in Clients |-> None]
  /\ kind = [c \in Clients |-> None] /\ sent = [c \in Clients |-> FALSE]
  /\ gone = [c \in Clients |-> FALSE] /\ unread = [c \in Clients |-> 0]
  /\ resampler = [c \in Clients |-> NewResampler]
  /\ received = [c \in Clients |-> 0] /\ produced = [c \in Clients |-> 0]

(* The connection of c is closed and what belongs to it dropped.           *)
Close(c) ==
  /\ sock' = [sock EXCEPT ![c] = None]
  /\ kind' = [kind EXCEPT ![c] = None] /\ sent' = [sent EXCEPT ![c] = FALSE]
  /\ gone' = [gone EXCEPT ![c] = FALSE] /\ unread' = [unread EXCEPT ![c] = 0]
  /\ thread' = [thread EXCEPT ![c] = None]
  /\ resampler' = [resampler EXCEPT ![c] = NewResampler]
  /\ received' = [received EXCEPT ![c] = 0] /\ produced' = [produced EXCEPT ![c] = 0]

-----------------------------------------------------------------------------
(* The main thread.                                                        *)

CheckShutdown ==
  /\ main = "check" /\ main' = IF shutdown THEN "join" ELSE "accept"
  /\ UNCHANGED <<current, backlog, sock, header, peer, thread, stream, shutdown, mute>>

(* accept(), and the 50 ms sleep if there is nobody.                       *)
Accept ==
  /\ main = "accept"
  /\ IF backlog = <<>>
     THEN main' = "check" /\ UNCHANGED <<current, backlog, sock>>
     ELSE /\ main' = "header" /\ current' = Head(backlog) /\ backlog' = Tail(backlog)
          /\ sock' = [sock EXCEPT ![Head(backlog)] = "open"]
  /\ UNCHANGED <<header, peer, thread, stream, shutdown, mute>>

NextClient == main' = "check" /\ current' = None

(* The header is complete: its thread is spawned, or it is dropped.        *)
Dispatch ==
  /\ main = "header" /\ sent[current]
  /\ NextClient
  /\ IF kind[current] = "bad"
     THEN Close(current)
     ELSE /\ thread' = [thread EXCEPT ![current] = "start"]
          /\ UNCHANGED <<sock, header, peer, stream>>
  /\ UNCHANGED <<backlog, shutdown, mute>>

(* Mutant of HeaderFails: nothing more to read is taken for not yet.       *)
HeaderAwaited == main = "header" /\ gone[current] /\ sent[current] /\ UNCHANGED vars

(* The client left before its header was complete.  The accepted socket    *)
(* blocks, so the 2 s deadline of read_header_tolerant is never looked at. *)
HeaderFails ==
  /\ main = "header" /\ gone[current] /\ ~sent[current]
  /\ NextClient /\ Close(current)
  /\ UNCHANGED <<backlog, shutdown, mute>>

(* Mutant of Joined: the control threads are joined too.                   *)
AllEnded == \A c \in Clients : thread[c] = None

(* handles: the PCM threads, finished ones dropped.                        *)
Joined == \A c \in Clients : kind[c] = "pcm" => thread[c] = None

(* The process ends, and with it every thread and connection, a command    *)
(* half applied included.                                                  *)
Gone ==
  /\ main' = "down" /\ current' = None /\ backlog' = <<>>
  /\ sock' = [c \in Clients |-> None] /\ thread' = [c \in Clients |-> None]
  /\ kind' = [c \in Clients |-> None] /\ sent' = [c \in Clients |-> FALSE]
  /\ gone' = [c \in Clients |-> FALSE] /\ unread' = [c \in Clients |-> 0]
  /\ resampler' = [c \in Clients |-> NewResampler]
  /\ received' = [c \in Clients |-> 0] /\ produced' = [c \in Clients |-> 0]
  /\ settled' = FALSE
  /\ UNCHANGED <<shutdown, muted, led>>

Exit == main = "join" /\ Joined /\ Gone

Main == CheckShutdown \/ Accept \/ Dispatch \/ HeaderFails \/ Exit

-----------------------------------------------------------------------------
(* The threads of the connections.                                         *)

To(c, from, to) == thread[c] = from /\ thread' = [thread EXCEPT ![c] = to]
others == <<main, current, backlog, shutdown>>

(* peer_allowed, and for PCM the client limit.                             *)
Admit(c) ==
  /\ To(c, "start", "idle")
  /\ UNCHANGED <<others, sock, header, peer, stream, mute>>
Refuse(c) ==
  /\ thread[c] = "start" /\ Close(c)
  /\ UNCHANGED <<others, mute>>

(* A PCM thread polls and sees SHUTDOWN; a control thread sits in a read.  *)
SeeShutdown(c) ==
  /\ thread[c] = "idle" /\ kind[c] = "pcm" /\ shutdown /\ Close(c)
  /\ UNCHANGED <<others, mute>>

(* End of file, wherever it reads.                                         *)
EndOfFile(c) ==
  /\ thread[c] \in {"idle", "reading"} /\ gone[c]
  /\ kind[c] = "pcm" /\ thread[c] = "idle" => ~shutdown
  /\ Close(c)
  /\ UNCHANGED <<others, mute>>

(* STATE.muted first and the LED then.                                     *)
ApplyingMute(c) == thread[c] \in {"mute", "unmute"}
Store(c, on) ==
  /\ thread[c] = "reading"
  /\ thread' = [thread EXCEPT ![c] = IF on THEN "mute" ELSE "unmute"]
  /\ muted' = on
  /\ settled' = ~\E d \in Clients : ApplyingMute(d)
  /\ UNCHANGED <<others, sock, header, peer, stream, led>>

(* Mutant of WriteLed: it is lit and never cleared.                        *)
LightLed(c) ==
  /\ ApplyingMute(c) /\ thread' = [thread EXCEPT ![c] = "idle"]
  /\ led' = (led \/ thread[c] = "mute")
  /\ UNCHANGED <<others, sock, header, peer, stream, muted, settled>>

WriteLed(c) ==
  /\ ApplyingMute(c) /\ thread' = [thread EXCEPT ![c] = "idle"]
  /\ led' = (thread[c] = "mute")
  /\ UNCHANGED <<others, sock, header, peer, stream, muted, settled>>

(* An opcode that is none, or audio on a control connection.               *)
BadCommand(c) ==
  /\ thread[c] = "reading" /\ Close(c)
  /\ UNCHANGED <<others, mute>>

(* STATUS: the thread goes on to write the reply, ...                      *)
Status(c) ==
  /\ To(c, "reading", "reply")
  /\ UNCHANGED <<others, sock, header, peer, stream, mute>>

(* ... which it does once there is room, however long that takes; if the   *)
(* client has left that fails, and nobody looks.                           *)
Reply(c) ==
  /\ To(c, "reply", "idle")
  /\ gone[c] \/ unread[c] < SockReplies
  /\ unread' = IF gone[c] THEN unread ELSE [unread EXCEPT ![c] = @ + 1]
  /\ UNCHANGED <<others, sock, header, gone, stream, mute>>

(* Any other command: volume, or a flush, of which Mixer has the rest.     *)
OtherCommand(c) ==
  /\ To(c, "reading", "idle")
  /\ UNCHANGED <<others, sock, header, peer, stream, mute>>

(* A payload is complete: whole frames of it are folded to stereo and go   *)
(* through the resampler.                                                  *)
Payload(c, len) ==
  LET frames == len \div ClientFrame IN
  /\ kind[c] = "pcm" /\ To(c, "reading", "idle")
  /\ received[c] + frames <= MaxFrames
  /\ resampler' = [resampler EXCEPT ![c] = Resample(@, frames)]
  /\ received' = [received EXCEPT ![c] = @ + frames]
  /\ produced' = [produced EXCEPT ![c] = @ + Outputs(resampler[c], frames)]
  /\ UNCHANGED <<others, sock, header, peer, mute>>

Thread(c) == Admit(c) \/ Refuse(c) \/ SeeShutdown(c) \/ EndOfFile(c) \/ WriteLed(c) \/ Reply(c)

-----------------------------------------------------------------------------
(* Clients, signals, and whoever starts the server again.                  *)

Connect(c) ==
  /\ ~Open(c) /\ main # "down"
  /\ sock' = [sock EXCEPT ![c] = "queued"] /\ backlog' = Append(backlog, c)
  /\ \E k \in {"pcm", "control", "bad"} : kind' = [kind EXCEPT ![c] = k]
  /\ UNCHANGED <<main, current, sent, peer, thread, stream, shutdown, mute>>

(* The rest of the header arrives; a part of it is of no use to anybody.   *)
SendHeader(c) ==
  /\ Open(c) /\ ~gone[c] /\ ~sent[c]
  /\ sent' = [sent EXCEPT ![c] = TRUE]
  /\ UNCHANGED <<others, sock, kind, peer, thread, stream, mute>>

(* The first bytes of a frame arrive; the rest is up to the client.        *)
StartFrame(c) ==
  /\ ~gone[c] /\ To(c, "idle", "reading")
  /\ kind[c] = "pcm" => ~shutdown
  /\ UNCHANGED <<others, sock, header, peer, stream, mute>>

FinishFrame(c) ==
  /\ ~gone[c]
  /\ \/ \E on \in BOOLEAN : Store(c, on)
     \/ Status(c) \/ OtherCommand(c) \/ BadCommand(c)
     \/ \E len \in Lens : Payload(c, len)

ReadReply(c) ==
  /\ ~gone[c] /\ unread[c] > 0
  /\ unread' = [unread EXCEPT ![c] = @ - 1]
  /\ UNCHANGED <<others, sock, header, gone, thread, stream, mute>>

(* The client closes its end, and what it has not read is gone with it.    *)
Leave(c) ==
  /\ Open(c) /\ ~gone[c] /\ gone' = [gone EXCEPT ![c] = TRUE]
  /\ unread' = [unread EXCEPT ![c] = 0]
  /\ UNCHANGED <<others, sock, header, thread, stream, mute>>

Sigterm ==
  /\ ~shutdown /\ main # "down" /\ shutdown' = TRUE
  /\ UNCHANGED <<main, current, backlog, sock, header, peer, thread, stream, mute>>

Crash == main # "down" /\ Gone

Restart ==
  /\ main = "down" /\ main' = "check"
  /\ shutdown' = FALSE /\ muted' = FALSE
  /\ UNCHANGED <<current, backlog, sock, header, peer, thread, stream, led, settled>>

Next ==
  \/ Main \/ Sigterm \/ Crash \/ Restart
  \/ \E c \in Clients : Thread(c) \/ Connect(c) \/ SendHeader(c) \/ StartFrame(c)
                        \/ FinishFrame(c) \/ ReadReply(c) \/ Leave(c)

Spec == Init /\ [][Next]_vars

(* The server's threads run; clients and signals come as they will.        *)
FairSpec == Spec /\ WF_vars(Main) /\ \A c \in Clients : WF_vars(Thread(c))

-----------------------------------------------------------------------------
(* What the main thread and, at shutdown, the reader it joins may wait for *)
(* a client to do: send the rest of a header or of a frame, and read the   *)
(* replies it asked for.                                                   *)
Withholds(c) ==
  /\ ~gone[c]
  /\ \/ main = "header" /\ current = c /\ ~sent[c]
     \/ kind[c] = "pcm" /\ thread[c] = "reading"
     \/ kind[c] = "pcm" /\ thread[c] = "reply" /\ unread[c] = SockReplies
Cooperative == \A c \in Clients : []<>~Withholds(c)

(* Every connection is taken off the backlog, whatever the ones before it  *)
(* are and however they end, as long as each sends its header or leaves:   *)
(* the accept loop has a single thread and no time limit.                  *)
Served == Cooperative => \A c \in Clients : sock[c] = "queued" ~> sock[c] # "queued" \/ shutdown

(* SIGTERM ends the server though clients stay connected and say nothing   *)
(* ("so SIGTERM shutdown isn't stuck behind a silent client"), unless one  *)
(* stops within a header, or one of PCM within a frame or with its socket  *)
(* full of replies to STATUS that it does not read.                        *)
Terminates == Cooperative => (shutdown ~> main = "down")

(* "audiod ... writes it so the LED matches the real mute state": once a   *)
(* command of this process was applied and none overlapped with another.   *)
LedTruthful ==
  settled /\ (\A c \in Clients : ~ApplyingMute(c)) => led = muted

(* "feeding the same total input in different chunk sizes produces         *)
(* bit-identical output": as many frames as from one chunk, and the next   *)
(* is read from where its position in the stream says.                     *)
OutputsExact == \A c \in Clients :
  LET next == produced[c] * StepNum IN
  /\ produced[c] = Producible(0, received[c])
  /\ Base(resampler[c].pos) + (received[c] - resampler[c].hist) = Base(next)
  /\ Rem(resampler[c].pos) = Rem(next)

=============================================================================
