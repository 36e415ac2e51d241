---------------------------- MODULE LinuxCapture ----------------------------
(***************************************************************************)
(* A capture on Linux (flux-capture/src/backend/pipewire.rs): the session  *)
(* of MutterSession, or of the portal (portal.rs), with the stream of      *)
(* PipewireSource, started, lost and started again by the capture loop.    *)
(***************************************************************************)
EXTENDS PipewireSource, MutterSession

CONSTANTS
  Apis,          \* the ways to capture considered
  StreamSize,    \* the size captures start with
  MaxPaints,     \* bound: buffers the compositor sends and sizes asked for
  MaxEvents      \* bound: clipboard, input and close events

ASSUME CaptureAssumption ==
  /\ StreamSize \in Sizes
  /\ MaxPaints \in Nat /\ MaxEvents \in Nat

VARIABLE
  part           \* what a behaviour is about: "session" or "capture"

(* Mutter's sessions are looked at in detail without the stream, with      *)
(* which they share the closed flag only; where the stream is looked at,   *)
(* they start, are closed and are dropped each in one step.  A behaviour   *)
(* with all MaxPaints has one capture, one with two fewer has MaxSessions. *)
LinuxInit ==
  /\ PipewireInit /\ MutterInit
  /\ \/ /\ part = "session"
        /\ api = "virtual"
        /\ session = 0
        /\ budget = MaxEvents /\ paints = 0
     \/ /\ part = "capture"
        /\ api \in Apis
        /\ budget = 0
        /\ \/ session = 0 /\ paints = MaxPaints - 2
           \/ session = MaxSessions - 1 /\ paints = MaxPaints

OfMutter == api # "portal"

Mutter(A) == A /\ UNCHANGED <<part, pipewireVars>>

(* A step of the stream. *)
Stream(A) == part = "capture" /\ A /\ UNCHANGED <<part, mutterVars>>

(* A step of the capture session: mutterVars that change are session,      *)
(* owner, closed and attached.                                             *)
Session(A) ==
  /\ part = "capture"
  /\ A
  /\ UNCHANGED <<part, task, cmds, remote, orphans, clipboardOn,
                 closedSignal, clipVars, events, forwarders, budget>>

(* start_mutter_capture and start_portal_capture: the session, then the    *)
(* stream of its node; CaptureStarter::start attaches the sinks.  One that *)
(* fails leaves nothing.                                                   *)
StartCapture ==
  /\ owner = "none" /\ session < MaxSessions
  /\ session' = session + 1
  /\ owner' = "up"
  /\ attached' = session'
  /\ closed' = FALSE
  /\ Spawn(StreamSize)

SessionCloses ==
  /\ OfMutter /\ owner = "up"
  /\ closed' = TRUE
  /\ UNCHANGED <<session, owner, attached, pipewireVars>>

(* next_frame_timeout finds the session closed, session_lost_if_closed,    *)
(* and the capture loop releases it: stop disconnects the stream.  Nothing *)
(* tells that the stream itself has ended.                                 *)
Lose ==
  /\ OfMutter /\ owner = "up" /\ closed
  /\ Stream(SendQuit)

(* The capture loop ends, or changes display. *)
StopCapture == owner = "up" /\ Stream(SendQuit)

(* The fields of the session are dropped in order: the stream, then the    *)
(* Mutter or portal session.                                               *)
DropSession ==
  /\ pw = "none" /\ owner = "up"
  /\ owner' = "none"
  /\ UNCHANGED <<session, closed, attached, pipewireVars>>

CaptureNext ==
  \/ Session(StartCapture) \/ Session(SessionCloses)
  \/ Session(DropSession)
  \/ Lose \/ StopCapture \/ Stream(PipewireJoined)
  \/ Stream(PipewireStep)
  \/ Stream(Recv) \/ Stream(Release) \/ Stream(RequestSize)

LinuxNext ==
  \/ part = "session" /\ Mutter(MutterNext)
  \/ CaptureNext

linuxVars == <<part, pipewireVars, mutterVars>>

LinuxSpec == LinuxInit /\ [][LinuxNext]_linuxVars

(* The threads are scheduled, and select! picks at random among the ready  *)
(* streams, so that none is passed over for ever.  An application may      *)
(* leave a read unanswered, but a pipe Mutter has closed ends a write.     *)
(* The compositor answers an offer of formats.                             *)
LinuxFairness ==
  /\ WF_linuxVars(Mutter(Handshaking \/ Stop \/ RuntimeDrop \/ ThreadJoined))
  /\ SF_linuxVars(Mutter(ForwardInput \/ SetClipboard \/ EndLoop))
  /\ SF_linuxVars(Mutter(ClosedByMutter))
  /\ WF_linuxVars(Mutter(session \notin remote /\ WriteDone))
  /\ WF_linuxVars(Mutter(MutterReaps))
  /\ WF_linuxVars(Mutter(Forward))
  /\ WF_linuxVars(Stream(PipewireThread \/ PipewireJoined))
  /\ WF_linuxVars(Stream(ParamChanged))
  /\ WF_linuxVars(Lose \/ Session(DropSession))

LinuxFairSpec == LinuxSpec /\ LinuxFairness

-----------------------------------------------------------------------------
(* A session that Mutter closed is given up, and with it its stream,       *)
(* whatever the stream's thread is doing.                                  *)
LossIsNoticed ==
  part = "capture" /\ OfMutter /\ closed /\ owner = "up" ~> owner # "up"

(* The stream moves on: to newer frames, to the size asked for last, and to  *)
(* another session once its own is closed.                                   *)
StreamKeepsUp == FramesAdvance /\ LastSizeWins /\ LossIsNoticed
=============================================================================
