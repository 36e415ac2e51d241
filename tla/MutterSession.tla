--------------------------- MODULE MutterSession ---------------------------
(***************************************************************************)
(* MutterSession (flux-capture/src/mutter.rs): the thread that opens a     *)
(* ScreenCast and RemoteDesktop session over D-Bus, forwards input and     *)
(* synchronises the clipboard, with the clipboard wiring of flux-server    *)
(* (clipboard.rs).  Mutter, the applications and the D-Bus daemon are      *)
(* external.  Signals of different kinds come through separate streams,    *)
(* and select! takes any that is ready.                                    *)
(*                                                                         *)
(* A session is its number, counted from 1.  A text is a number too, in    *)
(* the order in which client and host came up with them, and 0 is none.    *)
(***************************************************************************)
EXTENDS Integers, Sequences, FiniteSets

CONSTANTS
  Capacity,      \* of the clipboard event channel (16 in the code)
  MaxSessions    \* bound: sessions started

VARIABLES
  session,       \* sessions started so far
  owner,         \* the capture loop: "none", "starting", "up", "dropping"
  task,          \* the session's thread
  cmds,          \* the command channel, an unbounded queue
  closed,        \* the session's closed flag
  remote,        \* the sessions Mutter has
  orphans,       \* those among them whose connection is gone
  clipboardOn,   \* EnableClipboard succeeded
  closedSignal,  \* a Closed signal is in its stream
  changes,       \* the SelectionOwnerChanged stream: "own", "text", "other"
  transfers,     \* the SelectionTransfer stream: the texts asked for
  selection,     \* the host's clipboard, [own, text]
  pending, last, \* ClipboardState
  reads,         \* clipboard reads in progress: the text read, 0 before
  writes,        \* clipboard writes in progress
  attached,      \* the session ClipboardSink and InputSink point to
  events,        \* each session's broadcast channel, as its forwarder sees it
  forwarders,    \* the forwarder threads running
  texts,         \* texts so far
  overtaken,     \* a read was in progress when the clipboard changed again
  missed,        \* the last change was not read
  budget         \* bound: clipboard, input and close events to come

clipVars == <<changes, transfers, selection, pending, last, reads, writes,
              texts, overtaken, missed>>
sinkVars == <<attached, events, forwarders>>
loopVars == <<session, owner, task, cmds, closed, remote, orphans,
              clipboardOn, closedSignal>>
mutterVars == <<loopVars, clipVars, sinkVars, budget>>

Sessions == 1..MaxSessions
InputCmd == 0
ShutdownCmd == -1       \* and SetClipboard is its text

ASSUME SessionsAssumption == MaxSessions \in Nat \ {0}

(* The queue without its i-th element. *)
Without(queue, i) ==
  [j \in 1..Len(queue) - 1 |-> queue[IF j < i THEN j ELSE j + 1]]

Event == budget > 0 /\ budget' = budget - 1

(* The selection of a session that ends is gone with it. *)
Released(ended) ==
  selection' = IF selection.own \in ended THEN [own |-> 0, text |-> 0]
               ELSE selection

MutterInit ==
  /\ owner = "none"
  /\ task = "gone"
  /\ cmds = <<>>
  /\ closed = FALSE
  /\ remote = {} /\ orphans = {}
  /\ clipboardOn = FALSE
  /\ closedSignal = FALSE
  /\ changes = <<>> /\ transfers = <<>>
  /\ selection = [own |-> 0, text |-> 0]
  /\ pending = 0 /\ last = 0
  /\ reads = <<>> /\ writes = <<>>
  /\ attached = 0
  /\ events = [s \in Sessions |-> <<>>]
  /\ forwarders = {}
  /\ texts = 0
  /\ overtaken = FALSE /\ missed = FALSE

-----------------------------------------------------------------------------
(* Starting and ending a session.                                          *)

(* MutterSession::start spawns the thread and waits for the handshake. *)
StartSession ==
  /\ owner = "none"
  /\ session < MaxSessions
  /\ session' = session + 1
  /\ owner' = "starting"
  /\ task' = "connect"
  /\ closed' = FALSE
  /\ clipboardOn' = FALSE
  /\ missed' = (selection.text # 0)
  /\ UNCHANGED <<cmds, remote, orphans, closedSignal, changes, transfers,
                 selection, pending, last, reads, writes, texts, overtaken,
                 sinkVars, budget>>

(* The calls of the handshake, each of which may fail: the two sessions    *)
(* and the recorded stream, the signals, Start, the best-effort            *)
(* EnableClipboard, and the stream's node, waited for for 10 seconds.      *)
Handshake ==
  \/ /\ task = "connect"
     /\ remote' = remote \cup {session}
     /\ task' = "enable"
     /\ UNCHANGED <<owner, clipboardOn>>
  \/ /\ task = "enable"
     /\ clipboardOn' \in {FALSE, (session \in remote)}
     /\ task' = "node"
     /\ UNCHANGED <<owner, remote>>
  \/ /\ task = "node"
     /\ task' = "loop"
     /\ owner' = "up"
     /\ UNCHANGED <<remote, clipboardOn>>

(* A call failed or the node did not come: start returns the error, and    *)
(* the dropped connection leaves to Mutter what was created.               *)
HandshakeFails ==
  /\ task \in {"connect", "enable", "node"}
  /\ task' = "gone"
  /\ remote' \in IF task = "connect" THEN {remote, remote \cup {session}}
                 ELSE {remote}
  /\ orphans' = orphans \cup (remote' \cap {session})
  /\ owner' = "none"
  /\ closedSignal' = FALSE
  /\ changes' = <<>>
  /\ UNCHANGED clipboardOn

Handshaking ==
  /\ \/ Handshake /\ UNCHANGED <<orphans, closedSignal, changes>>
     \/ HandshakeFails
  /\ UNCHANGED <<session, cmds, closed, transfers, selection, pending, last,
                 reads, writes, texts, overtaken, missed, sinkVars, budget>>

(* CaptureStarter::start: input and clipboard go through the new session,  *)
(* and a forwarder is spawned for its events.                              *)
Attach ==
  /\ owner = "up"
  /\ attached # session
  /\ attached' = session
  /\ forwarders' = forwarders \cup {session}
  /\ UNCHANGED <<loopVars, clipVars, events, budget>>

(* Drop: Shutdown goes through the channel, and the thread is joined. *)
Drop ==
  /\ owner = "up"
  /\ attached = session
  /\ owner' = "dropping"
  /\ cmds' = IF task = "gone" THEN cmds ELSE Append(cmds, ShutdownCmd)
  /\ UNCHANGED <<session, task, closed, remote, orphans, clipboardOn,
                 closedSignal, clipVars, sinkVars, budget>>

ThreadJoined ==
  /\ owner = "dropping"
  /\ task = "gone"
  /\ owner' = "none"
  /\ UNCHANGED <<session, task, cmds, closed, remote, orphans, clipboardOn,
                 closedSignal, clipVars, sinkVars, budget>>

-----------------------------------------------------------------------------
(* Input and clipboard from the client.                                    *)

(* MutterInput and MutterClipboard drop what comes for a closed session;   *)
(* with the thread gone send fails.                                        *)
Send(cmd) ==
  /\ attached = session /\ session > 0
  /\ Event
  /\ cmds' = IF closed \/ task = "gone" THEN cmds ELSE Append(cmds, cmd)
  /\ UNCHANGED <<session, owner, task, closed, remote, orphans, clipboardOn,
                 closedSignal, changes, transfers, selection, pending, last,
                 reads, writes, overtaken, missed, sinkVars>>

SendInput == Send(InputCmd) /\ UNCHANGED texts
SendText == texts' = texts + 1 /\ Send(texts')

-----------------------------------------------------------------------------
(* forward_commands: the loop of the thread.                               *)

Taken == task = "loop" /\ cmds # <<>> /\ cmds' = Tail(cmds)

(* Mutant: every error of a call is logged only. *)
CallEndsLogged == UNCHANGED <<task, closed>>

(* A call for an object that is gone: UnknownObject. *)
CallEnds ==
  IF session \in remote THEN UNCHANGED <<task, closed>>
  ELSE task' = "ended" /\ closed' = TRUE

(* A Notify call: motion, button, axis or key. *)
ForwardInput ==
  /\ Taken
  /\ Head(cmds) = InputCmd
  /\ CallEnds
  /\ UNCHANGED <<session, owner, remote, orphans, clipboardOn,
                 closedSignal, clipVars, sinkVars, budget>>

(* SetClipboard: the text is kept for the transfers to come and announced  *)
(* with SetSelection; Mutter answers with an owner change of our own.      *)
SetClipboard ==
  /\ Taken
  /\ Head(cmds) > 0
  /\ IF ~clipboardOn
     THEN UNCHANGED <<task, closed, pending, last, selection, changes,
                      overtaken, missed>>
     ELSE /\ last' = Head(cmds)
          /\ pending' = Head(cmds)
          /\ overtaken' = (overtaken \/ reads # <<>>)
          /\ missed' = FALSE
          /\ CallEnds
          /\ IF session \in remote
             THEN /\ selection' = [own |-> session, text |-> Head(cmds)]
                  /\ changes' = Append(changes, "own")
             ELSE UNCHANGED <<selection, changes>>
  /\ UNCHANGED <<session, owner, remote, orphans, clipboardOn, closedSignal,
                 transfers, reads, writes, texts, sinkVars, budget>>

(* clipboard_events.receiver_count() # 0 *)
Listeners == session \in forwarders

(* owner_changed_params, best_text_mime: another's selection, with a text  *)
(* type among its types.                                                   *)
HasText(change) == change = "text"

(* Mutant: a change is not read once the client has set a text. *)
OwnerChangedAfterPaste ==
  /\ task = "loop" /\ changes # <<>>
  /\ changes' = Tail(changes)
  /\ IF HasText(Head(changes)) /\ clipboardOn /\ Listeners
     THEN /\ reads' = IF pending = 0 THEN Append(reads, 0) ELSE reads
          /\ overtaken' = (overtaken \/ reads # <<>>)
          /\ missed' = FALSE
     ELSE /\ missed' = (missed \/ HasText(Head(changes)))
          /\ UNCHANGED <<reads, overtaken>>
  /\ UNCHANGED <<loopVars, transfers, selection, pending, last, writes,
                 texts, sinkVars, budget>>

(* SelectionOwnerChanged: our own is skipped, as is one without text or    *)
(* that nobody would hear of; any other is read by a task of its own.      *)
OwnerChanged ==
  /\ task = "loop" /\ changes # <<>>
  /\ changes' = Tail(changes)
  /\ IF HasText(Head(changes)) /\ clipboardOn /\ Listeners
     THEN /\ reads' = Append(reads, 0)
          /\ overtaken' = (overtaken \/ reads # <<>>)
          /\ missed' = FALSE
     ELSE /\ missed' = (missed \/ HasText(Head(changes)))
          /\ UNCHANGED <<reads, overtaken>>
  /\ UNCHANGED <<loopVars, transfers, selection, pending, last, writes,
                 texts, sinkVars, budget>>

(* SelectionTransfer: the pending text is written by a task of its own. *)
Transfer ==
  /\ task = "loop" /\ transfers # <<>>
  /\ transfers' = Tail(transfers)
  /\ writes' = IF pending = 0 THEN writes
               ELSE Append(writes, [asked |-> Head(transfers),
                                    text |-> pending, pipe |-> FALSE])
  /\ UNCHANGED <<loopVars, changes, selection, pending, last, reads, texts,
                 overtaken, missed, sinkVars, budget>>

(* The Closed signal of either session: mark_closed. *)
ClosedByMutter ==
  /\ task = "loop"
  /\ closedSignal
  /\ task' = "ended"
  /\ closed' = TRUE
  /\ UNCHANGED <<session, owner, cmds, remote, orphans, clipboardOn,
                 closedSignal, clipVars, sinkVars, budget>>

EndLoop ==
  /\ Taken
  /\ Head(cmds) = ShutdownCmd
  /\ task' = "ended"
  /\ UNCHANGED <<session, owner, closed, remote, orphans, clipboardOn,
                 closedSignal, clipVars, sinkVars, budget>>

(* The end of run_thread: Stop unless closed.  When it fails, dropping the *)
(* connection leaves the session to Mutter.                                *)
Stop ==
  /\ task = "ended"
  /\ task' = "runtime"
  /\ closed' = TRUE
  /\ \/ /\ ~closed
        /\ remote' = remote \ {session}
        /\ Released({session})
        /\ UNCHANGED orphans
     \/ /\ orphans' = orphans \cup (remote \cap {session})
        /\ UNCHANGED <<remote, selection>>
  /\ UNCHANGED <<session, owner, cmds, clipboardOn, closedSignal, changes,
                 transfers, pending, last, reads, writes, texts, overtaken,
                 missed, sinkVars, budget>>

(* Dropping the runtime cancels the tasks, but a write to the pipe, on a   *)
(* blocking thread, is waited for.                                         *)
RuntimeDrop ==
  /\ task = "runtime"
  /\ \A i \in DOMAIN writes : ~writes[i].pipe
  /\ task' = "gone"
  /\ cmds' = <<>> /\ closedSignal' = FALSE
  /\ changes' = <<>> /\ transfers' = <<>>
  /\ pending' = 0 /\ last' = 0
  /\ reads' = <<>> /\ writes' = <<>>
  /\ overtaken' = FALSE /\ missed' = FALSE
  /\ UNCHANGED <<session, owner, closed, remote, orphans, clipboardOn,
                 selection, texts, sinkVars, budget>>

-----------------------------------------------------------------------------
(* The tasks, which run while the thread awaits.                           *)

Running == task \in {"loop", "ended"}

(* SelectionRead opens a pipe for the selection of the moment; Mutter      *)
(* refuses it for the session's own.                                       *)
SelectionRead ==
  /\ Running
  /\ \E i \in DOMAIN reads :
       /\ reads[i] = 0
       /\ reads' = IF selection.own = session \/ selection.text = 0
                     \/ session \notin remote
                   THEN Without(reads, i)
                   ELSE [reads EXCEPT ![i] = selection.text]
  /\ UNCHANGED <<loopVars, changes, transfers, selection, pending, last,
                 writes, texts, overtaken, missed, sinkVars, budget>>

(* The call or the read fails, or times out after ten seconds. *)
ReadFails ==
  /\ Running
  /\ \E i \in DOMAIN reads : reads' = Without(reads, i)
  /\ missed' = TRUE
  /\ UNCHANGED <<loopVars, changes, transfers, selection, pending, last,
                 writes, texts, overtaken, sinkVars, budget>>

Broadcast(text) ==
  events' = IF Listeners THEN [events EXCEPT ![session] = Append(@, text)]
            ELSE events

(* The text is there: a repeat of the last one is dropped. *)
ReadDone ==
  /\ Running
  /\ \E i \in DOMAIN reads :
       /\ reads[i] # 0
       /\ reads' = Without(reads, i)
       /\ IF reads[i] = last THEN UNCHANGED <<last, events>>
          ELSE last' = reads[i] /\ Broadcast(reads[i])
  /\ UNCHANGED <<loopVars, changes, transfers, selection, pending, writes,
                 texts, overtaken, missed, attached, forwarders, budget>>

(* write_clipboard: SelectionWrite gives the pipe, and spawn_blocking the  *)
(* thread that writes to it.                                               *)
SelectionWrite ==
  /\ Running
  /\ \E i \in DOMAIN writes :
       /\ ~writes[i].pipe
       /\ \/ writes' = [writes EXCEPT ![i].pipe = TRUE]
          \/ writes' = Without(writes, i)
  /\ UNCHANGED <<loopVars, changes, transfers, selection, pending, last,
                 reads, texts, overtaken, missed, sinkVars, budget>>

(* The application has read the text from the pipe, or Mutter closed it. *)
WriteDone ==
  /\ \E i \in DOMAIN writes :
       writes[i].pipe /\ writes' = Without(writes, i)
  /\ UNCHANGED <<loopVars, changes, transfers, selection, pending, last,
                 reads, texts, overtaken, missed, sinkVars, budget>>

(* The forwarder of a session sends its events to the viewers, and ends    *)
(* when every sender is gone: the session's and, until another session is  *)
(* attached, the sink's.  A receiver that lags by more than the channel    *)
(* holds gets an error, which ends it too.                                 *)
Forward ==
  \E s \in forwarders :
    /\ IF events[s] # <<>> /\ Len(events[s]) <= Capacity
       THEN /\ events' = [events EXCEPT ![s] = Tail(@)]
            /\ UNCHANGED forwarders
       ELSE /\ events[s] # <<>> \/ (attached # s /\ s # session)
            /\ forwarders' = forwarders \ {s}
            /\ events' = [events EXCEPT ![s] = <<>>]
    /\ UNCHANGED <<loopVars, clipVars, attached, budget>>

-----------------------------------------------------------------------------
(* Mutter and the applications.                                            *)

(* An application takes the selection: with a new text, with the text the  *)
(* clipboard already has, as a clipboard manager does, or with no text.    *)
HostCopies ==
  /\ Event
  /\ session > 0
  /\ \/ texts' = texts + 1 /\ selection' = [own |-> 0, text |-> texts']
     \/ /\ selection' \in {[own |-> 0, text |-> selection.text],
                           [own |-> 0, text |-> 0]}
        /\ UNCHANGED texts
  /\ IF session \in remote \ orphans /\ clipboardOn /\ task # "runtime"
     THEN /\ changes' = Append(changes, IF selection'.text = 0 THEN "other"
                                        ELSE "text")
          /\ UNCHANGED missed
     ELSE missed' = TRUE /\ UNCHANGED changes
  /\ UNCHANGED <<loopVars, transfers, pending, last, reads, writes,
                 overtaken, sinkVars>>

(* An application pastes what the session announced. *)
HostPastes ==
  /\ Event
  /\ session \in remote \ orphans
  /\ selection.own = session
  /\ transfers' = Append(transfers, selection.text)
  /\ UNCHANGED <<loopVars, changes, selection, pending, last, reads, writes,
                 texts, overtaken, missed, sinkVars>>

(* Sharing is stopped on the host, which Mutter signals, or Mutter ends    *)
(* without a signal.                                                       *)
MutterCloses ==
  /\ Event
  /\ session \in remote
  /\ remote' = remote \ {session}
  /\ orphans' = orphans \ {session}
  /\ Released({session})
  /\ closedSignal' \in {FALSE, (session \notin orphans)}
  /\ UNCHANGED <<session, owner, task, cmds, closed, clipboardOn, changes,
                 transfers, pending, last, reads, writes, texts, overtaken,
                 missed, sinkVars>>

(* Mutter ends the sessions of a connection that is gone. *)
MutterReaps ==
  /\ orphans # {}
  /\ remote' = remote \ orphans
  /\ orphans' = {}
  /\ Released(orphans)
  /\ UNCHANGED <<session, owner, task, cmds, closed, clipboardOn,
                 closedSignal, changes, transfers, pending, last, reads,
                 writes, texts, overtaken, missed, sinkVars, budget>>

-----------------------------------------------------------------------------
Loop ==
  \/ ForwardInput \/ SetClipboard \/ OwnerChanged \/ Transfer
  \/ ClosedByMutter \/ EndLoop

Tasks == SelectionRead \/ ReadFails \/ ReadDone \/ SelectionWrite

Client == SendInput \/ SendText

External == HostCopies \/ HostPastes \/ MutterCloses \/ MutterReaps

MutterNext ==
  \/ StartSession \/ Handshaking \/ Attach \/ Drop \/ ThreadJoined
  \/ Loop \/ Stop \/ RuntimeDrop
  \/ Tasks \/ WriteDone \/ Forward
  \/ Client \/ External

-----------------------------------------------------------------------------
(* The state of the thread, the clipboard and the sinks; a text is one     *)
(* that client or host came up with.                                       *)
MutterTypeOK ==
  /\ session \in 0..MaxSessions
  /\ owner \in {"none", "starting", "up", "dropping"}
  /\ task \in {"connect", "enable", "node", "loop", "ended", "runtime",
               "gone"}
  /\ cmds \in Seq({ShutdownCmd, InputCmd} \cup 1..texts)
  /\ orphans \subseteq remote /\ remote \subseteq 1..session
  /\ selection \in [own : 0..session, text : 0..texts]
  /\ pending \in 0..texts /\ last \in 0..texts
  /\ reads \in Seq(0..texts)
  /\ attached \in 0..session /\ forwarders \subseteq 1..session

(* Mutter never has two sessions of ours, except one whose connection is   *)
(* gone already, and has none once MutterSession is dropped or failed to   *)
(* start: the session that recovery starts next is alone.                  *)
OneRemoteSession ==
  /\ remote \ orphans \subseteq {session}
  /\ owner = "none" => remote \subseteq orphans

(* When the clipboard has come to rest, the last text seen in either       *)
(* direction is the text the host's clipboard has: nothing the user copied *)
(* or pasted was passed over.  Two things may break it: a change that was  *)
(* not read, because the read failed or no forwarder listened, and a read  *)
(* in progress while the clipboard changed again, whose text, older, is    *)
(* then taken for the newest.                                              *)
ClipboardAgrees ==
  /\ task = "loop" /\ session \in remote /\ clipboardOn
  /\ changes = <<>> /\ reads = <<>> /\ ~overtaken /\ ~missed
  => selection.text \in {0, last}

(* What a paste on the host gets is what it asked for or something newer:  *)
(* the write uses the text of the last SetClipboard.                       *)
PasteIsFresh == \A i \in DOMAIN writes : writes[i].text >= writes[i].asked

(* One session at a time speaks for the machine, and its clipboard is the    *)
(* user's.                                                                   *)
MutterSafe == MutterTypeOK /\ OneRemoteSession /\ ClipboardAgrees /\ PasteIsFresh

(* A Closed signal, or an input event for a session Mutter has closed,     *)
(* marks the session closed, however busy its thread is, so that the       *)
(* capture loop comes to know and starts another.                          *)
CloseIsNoticed ==
  /\ task = "loop" /\ session \notin remote
  /\ closedSignal \/ \E i \in DOMAIN cmds : cmds[i] = InputCmd
  ~> closed

(* Dropping a session returns: the thread ends, though reads hang and a    *)
(* blocking write is waited for.                                           *)
DropReturns == owner = "dropping" ~> owner # "dropping"

(* "A LocalSet lets clipboard read/write handlers spawn tasks ... without  *)
(* stalling input forwarding" (run_thread): the commands are taken from    *)
(* the channel whatever the clipboard's tasks wait for.                    *)
InputIsNotStalled == cmds # <<>> ~> cmds = <<>> \/ closed

(* Only the forwarder of the session attached stays: those of sessions     *)
(* that were replaced come to an end.                                      *)
OldForwardersEnd ==
  \A s \in Sessions : s \in forwarders /\ s < attached ~> s \notin forwarders

(* Nothing of a session waits for ever: its end is noticed, dropping it      *)
(* returns, its input is taken and its forwarder goes with it.               *)
SessionsEnd == CloseIsNoticed /\ DropReturns /\ InputIsNotStalled /\ OldForwardersEnd
=============================================================================
