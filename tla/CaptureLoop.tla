---------------------------- MODULE CaptureLoop ----------------------------
(***************************************************************************)
(* The capture thread of flux-server (CaptureLoop::run in                  *)
(* flux-server/src/capture_loop.rs): one iteration takes at most one mode  *)
(* request, serves an IDR request, asks the capture session for a frame    *)
(* and hands it to an encoder that it builds, rebuilds and retries as the  *)
(* frames' size changes.  Beside it run the frame servers that queue the   *)
(* requests and the compositor or driver that owns the display.            *)
(*                                                                         *)
(* A resolution is a number in 1..MaxSize ordered by size; 0 is the code's *)
(* Resolution::new(0, 0) and every None.  The host the thread runs on is   *)
(* one of Hosts, chosen in Init:                                           *)
(*   kind     "dxgi" (Windows), "virtual" (a Mutter virtual monitor) or    *)
(*            "monitor" (a real monitor under Mutter or the portal)        *)
(*   plug     the flux virtual display is plugged in (Windows)             *)
(*   native   the display's size at start                                  *)
(*   limit    the largest size the encoder opens                           *)
(*   scaler   the GPU can scale captured frames (Windows)                  *)
(*   flaky    the encoder sometimes fails to open                          *)
(***************************************************************************)
EXTENDS Integers, Sequences

CONSTANTS MaxSize,      \* the resolutions are 1..MaxSize
          Requestable,  \* the sizes validate_mode_request accepts
          Hosts,        \* the hosts Init chooses from
          MaxQueue,     \* bound: mode requests waiting
          MaxEvents     \* bound: requests, losses and display changes

Sizes == 1..MaxSize
SizeOrNone == 0..MaxSize

HostType == [kind : {"dxgi", "virtual", "monitor"}, plug : BOOLEAN,
             native : Sizes, limit : Sizes, scaler : BOOLEAN,
             flaky : BOOLEAN]

ASSUME ConstantsAssumption ==
  /\ MaxSize \in Nat \ {0}
  /\ Requestable \subseteq Sizes
  /\ Hosts \subseteq HostType
  /\ MaxQueue \in Nat
  /\ MaxEvents \in Nat

VARIABLES
  host,        \* where the thread runs; never changes
  queue,       \* resolution_rx
  idr,         \* a request waits in idr_rx
  pc,          \* where the iteration is
  primary,     \* primary.native_resolution
  screen,      \* the size the display really has
  asked,       \* the mode request_size handed to the compositor, unapplied
  session,     \* the size the capture session was started at, or released
  alive,       \* the capture session has not been closed or lost
  slot,        \* the size of the frame in the bridge, latest wins
  frame,       \* the size of the frame the iteration works on
  enc,         \* the size of encode_session
  force,       \* encode_session owes a keyframe it was asked for
  captureRes,  \* capture_resolution
  encodeRes,   \* encode_resolution
  backoff,     \* encoder_retry is not due
  pending,     \* pending_mode.requested
  target,      \* the request transition_resolution is working on
  latest,      \* status_tracker.latest_started
  success,     \* status_tracker.pending_success
  recovering,  \* status_tracker.recovering
  status,      \* the last ResolutionStatus published
  packet,      \* what the last encode sent to h264_tx
  owed,        \* an IDR request was taken and no keyframe sent since
  events       \* environment events left

here == <<host, frame>>
loopVars == <<queue, idr>>
displayVars == <<primary, screen, asked, session, alive, slot>>
encoderVars == <<enc, force, captureRes, encodeRes, backoff>>
trackerVars == <<latest, success, recovering>>
vars == <<host, loopVars, pc, displayVars, encoderVars, frame, pending,
          target, trackerVars, status, packet, owed, events>>

StatusType == [state : {"none", "succeeded", "failed", "recovering"},
               size : SizeOrNone, encode : SizeOrNone]

Windows == host.kind = "dxgi"

Smaller(a, b) == IF a < b THEN a ELSE b

-----------------------------------------------------------------------------
(* Helpers of the loop.                                                    *)

(* scale::fit_within at the level of sizes: the largest the encoder takes.  *)
Fit(size) == Smaller(size, host.limit)

(* ScreenCapture::start_capture on a display of size `display`: a DXGI     *)
(* session delivers the requested size if it is smaller than the desktop   *)
(* and the desktop's size otherwise, a virtual monitor takes the requested *)
(* size as its mode, and a real monitor keeps its own.                     *)
StartCapture(display, size) ==
  /\ session' = IF Windows THEN Smaller(size, display) ELSE size
  /\ screen' = IF host.kind = "virtual" THEN size ELSE display
  /\ asked' = 0
  /\ alive' = TRUE
  /\ slot' = 0

(* The size of the frames a session delivers. *)
FrameSize == IF Windows THEN session ELSE screen

(* release_capture_session, after the encoder was dropped. *)
ReleaseCapture ==
  /\ session' = 0
  /\ alive' = FALSE
  /\ slot' = 0

DropEncoder ==
  /\ enc' = 0
  /\ force' = FALSE
  /\ captureRes' = 0
  /\ encodeRes' = 0

Publish(state, size, encode) ==
  status' = [state |-> state, size |-> size, encode |-> encode]

(* ResolutionStatusTracker::on_transition_started. *)
Started(size) == latest' = size /\ success' = 0

(* ResolutionStatusTracker::on_transition_applied and _failed. *)
Applied(size) == IF latest = size THEN size ELSE success
Failed(size) == IF latest = size THEN 0 ELSE success

-----------------------------------------------------------------------------
Init ==
  /\ host \in Hosts
  /\ queue = <<>>
  /\ idr = FALSE
  /\ pc = "top"
  /\ primary = host.native
  /\ screen = host.native
  /\ asked = 0
  /\ session = host.native
  /\ alive = TRUE
  /\ slot = 0
  /\ frame = 0
  /\ enc = 0
  /\ force = FALSE
  /\ captureRes = 0
  /\ encodeRes = 0
  /\ backoff = FALSE
  /\ pending = 0
  /\ target = 0
  /\ latest = 0
  /\ success = 0
  /\ recovering = 0
  /\ status = [state |-> "none", size |-> 0, encode |-> 0]
  /\ packet = "none"
  /\ owed = FALSE
  /\ events = MaxEvents

-----------------------------------------------------------------------------
(* The environment: viewers, the compositor and time.                      *)

(* A frame server queues a mode request that read_command validated. *)
AskMode ==
  /\ events > 0
  /\ Len(queue) < MaxQueue
  /\ \E size \in Requestable : queue' = Append(queue, size)
  /\ events' = events - 1
  /\ UNCHANGED <<here, idr, pc, displayVars, encoderVars, pending, target,
                 trackerVars, status, packet, owed>>

(* A frame server queues an IDR request. *)
AskKeyframe ==
  /\ ~idr
  /\ idr' = TRUE
  /\ UNCHANGED <<here, queue, pc, displayVars, encoderVars, pending, target,
                 trackerVars, status, packet, owed, events>>

(* The session pushes a frame into the bridge, over one not yet taken. *)
FrameArrives ==
  /\ alive
  /\ slot # FrameSize
  /\ slot' = FrameSize
  /\ UNCHANGED <<here, loopVars, pc, primary, screen, asked, session, alive,
                 encoderVars, pending, target, trackerVars, status, packet,
                 owed, events>>

(* The compositor applies the mode a virtual monitor was asked for. *)
CompositorApplies ==
  /\ asked # 0
  /\ screen' = asked
  /\ asked' = 0
  /\ UNCHANGED <<here, loopVars, pc, primary, session, alive, slot,
                 encoderVars, pending, target, trackerVars, status, packet,
                 owed, events>>

(* The session is closed by the compositor, or the duplication is lost. *)
CaptureCloses ==
  /\ events > 0
  /\ alive
  /\ alive' = FALSE
  /\ events' = events - 1
  /\ UNCHANGED <<here, loopVars, pc, primary, screen, asked, session, slot,
                 encoderVars, pending, target, trackerVars, status, packet,
                 owed>>

(* The user changes a real display's mode; DXGI loses its duplication. *)
DisplayChanges ==
  /\ events > 0
  /\ host.kind # "virtual"
  /\ session # 0
  /\ screen' \in Sizes \ {screen}
  /\ alive' = (alive /\ ~Windows)
  /\ events' = events - 1
  /\ UNCHANGED <<here, loopVars, pc, primary, asked, session, slot,
                 encoderVars, pending, target, trackerVars, status, packet,
                 owed>>

(* EncoderRetry::due turns true. *)
RetryDue ==
  /\ backoff
  /\ backoff' = FALSE
  /\ UNCHANGED <<here, loopVars, pc, displayVars, enc, force, captureRes,
                 encodeRes, pending, target, trackerVars, status, packet,
                 owed, events>>

-----------------------------------------------------------------------------
(* Mode requests.                                                          *)

NoRequest ==
  /\ pc = "top"
  /\ queue = <<>>
  /\ pc' = "serve"
  /\ UNCHANGED <<here, loopVars, displayVars, encoderVars, pending, target,
                 trackerVars, status, packet, owed, events>>

(* on_transition_started, then Windows: ignored without a virtual display, *)
(* a no-op at the current mode, or the start of transition_resolution.     *)
TakeRequestWindows ==
  /\ pc = "top"
  /\ Windows
  /\ queue # <<>>
  /\ queue' = Tail(queue)
  /\ Started(Head(queue))
  /\ \/ /\ ~host.plug
        /\ pc' = "serve"
        /\ UNCHANGED <<displayVars, encoderVars, target, status>>
     \/ /\ host.plug
        /\ Head(queue) = primary
        /\ Publish("succeeded", Head(queue), 0)
        /\ pc' = "serve"
        /\ UNCHANGED <<displayVars, encoderVars, target>>
     \/ /\ host.plug
        /\ Head(queue) # primary
        /\ target' = Head(queue)
        /\ DropEncoder
        /\ ReleaseCapture
        /\ pc' = "replug"
        /\ UNCHANGED <<backoff, primary, screen, asked, status>>
  /\ UNCHANGED <<here, idr, pending, recovering, packet, owed, events>>

(* The same on Linux: a no-op, a request the session passes to the         *)
(* compositor, or one it refuses (request_mode of a real monitor, or of a  *)
(* session that was closed).                                               *)
TakeRequestLinux ==
  /\ pc = "top"
  /\ ~Windows
  /\ queue # <<>>
  /\ queue' = Tail(queue)
  /\ Started(Head(queue))
  /\ \/ /\ Head(queue) = primary
        /\ pending' = 0
        /\ Publish("succeeded", Head(queue), 0)
        /\ UNCHANGED asked
     \/ /\ Head(queue) # primary
        /\ host.kind = "virtual"
        /\ alive
        /\ asked' = Head(queue)
        /\ pending' = Head(queue)
        /\ UNCHANGED status
     \/ /\ Head(queue) # primary
        /\ host.kind = "monitor" \/ ~alive
        /\ Publish("failed", Head(queue), 0)
        /\ UNCHANGED <<asked, pending>>
  /\ pc' = "serve"
  /\ UNCHANGED <<here, idr, primary, screen, session, alive, slot,
                 encoderVars, target, recovering, packet, owed, events>>

(* replug_capture succeeds at `mode`: the display comes back at it, input  *)
(* is pointed at it and capture restarts on it.                            *)
Replugged(mode) ==
  /\ primary' = mode
  /\ StartCapture(mode, mode)
  /\ target' = 0
  /\ pc' = "serve"

(* transition_resolution: the requested mode applies. *)
TransitionSucceeds ==
  /\ pc = "replug"
  /\ Replugged(target)
  /\ success' = Applied(target)
  /\ UNCHANGED <<here, loopVars, encoderVars, pending, latest, recovering,
                 status, packet, owed, events>>

(* It does not; the thread goes on to roll back. *)
TransitionFails ==
  /\ pc = "replug"
  /\ pc' = "rollback"
  /\ UNCHANGED <<here, loopVars, displayVars, encoderVars, pending, target,
                 trackerVars, status, packet, owed, events>>

(* The rollback to the old mode, which primary still names, succeeds or is *)
(* left to the retry loop; either way the request is reported failed.      *)
Rollback ==
  /\ pc = "rollback"
  /\ success' = Failed(target)
  /\ Publish("failed", target, 0)
  /\ \/ Replugged(primary)
     \/ /\ pc' = "retry"
        /\ UNCHANGED <<displayVars, target>>
  /\ UNCHANGED <<here, loopVars, encoderVars, pending, latest, recovering,
                 packet, owed, events>>

(* A turn of the retry loop that restores capture. *)
RollbackRetry ==
  /\ pc = "retry"
  /\ Replugged(primary)
  /\ UNCHANGED <<here, loopVars, encoderVars, pending, trackerVars, status,
                 packet, owed, events>>

-----------------------------------------------------------------------------
(* The IDR request: one per iteration, passed to an encoder if there is    *)
(* one.  A later encoder starts with a keyframe of its own.                *)
ServeKeyframe ==
  /\ pc = "serve"
  /\ pc' = "capture"
  /\ idr' = FALSE
  /\ owed' = (owed \/ idr)
  /\ force' = (force \/ (idr /\ enc # 0))
  /\ UNCHANGED <<here, queue, displayVars, enc, captureRes, encodeRes,
                 backoff, pending, target, trackerVars, status, packet,
                 events>>

-----------------------------------------------------------------------------
(* Capture.                                                                *)

(* settle_pending_mode with the size of the frame at hand, 0 if none: the  *)
(* mode is adopted, times out, or waits on.                                *)
SettlePendingMode(seen) ==
  \/ /\ pending = 0
     /\ UNCHANGED <<primary, pending, success, status>>
  \/ /\ pending # 0
     /\ seen = pending
     /\ primary' = pending
     /\ success' = Applied(pending)
     /\ pending' = 0
     /\ UNCHANGED status
  \/ /\ pending # 0
     /\ seen # pending
     /\ success' = Failed(pending)
     /\ Publish("failed", pending, 0)
     /\ pending' = 0
     /\ UNCHANGED primary
  \/ /\ pending # 0
     /\ seen # pending
     /\ UNCHANGED <<primary, pending, success, status>>

(* next_frame_timeout returns Ok(None): an idle Linux desktop. *)
NoFrame ==
  /\ pc = "capture"
  /\ ~Windows
  /\ alive
  /\ slot = 0
  /\ SettlePendingMode(0)
  /\ pc' = "top"
  /\ UNCHANGED <<here, loopVars, screen, asked, session, alive, slot,
                 encoderVars, target, latest, recovering, packet, owed,
                 events>>

(* An error that is not the loss of the session: wait and go round. *)
CaptureError ==
  /\ pc = "capture"
  /\ alive
  /\ pc' = "top"
  /\ UNCHANGED <<here, loopVars, displayVars, encoderVars, pending, target,
                 trackerVars, status, packet, owed, events>>

(* CaptureSessionLost: drop the encoder, release the session. *)
CaptureLost ==
  /\ pc = "capture"
  /\ ~alive
  /\ DropEncoder
  /\ ReleaseCapture
  /\ pc' = "recover"
  /\ UNCHANGED <<here, loopVars, primary, screen, asked, backoff, pending,
                 target, trackerVars, status, packet, owed, events>>

(* recover_lost_capture finds the display again and restarts on it; a      *)
(* virtual monitor is recreated at the mode it was last running at.        *)
RecoverLostCapture ==
  /\ pc = "recover"
  /\ LET display == IF host.kind = "virtual" THEN primary ELSE screen
     IN  /\ primary' = display
         /\ StartCapture(display, display)
  /\ pending' = 0
  /\ pc' = "top"
  /\ UNCHANGED <<here, loopVars, encoderVars, target, trackerVars, status,
                 packet, owed, events>>

(* A frame the pacer skips is recycled. *)
SkipFrame ==
  /\ pc = "capture"
  /\ alive
  /\ slot # 0
  /\ SettlePendingMode(slot)
  /\ slot' = 0
  /\ pc' = "top"
  /\ UNCHANGED <<here, loopVars, screen, asked, session, alive, encoderVars,
                 target, latest, recovering, packet, owed, events>>

-----------------------------------------------------------------------------
(* Encode.                                                                 *)

(* A frame the pacer accepts goes on to the encoder. *)
AcceptFrame ==
  /\ pc = "capture"
  /\ alive
  /\ slot # 0
  /\ SettlePendingMode(slot)
  /\ frame' = slot
  /\ slot' = 0
  /\ pc' = "frame"
  /\ UNCHANGED <<host, loopVars, screen, asked, session, alive, encoderVars,
                 target, latest, recovering, packet, owed, events>>

(* Mutant: a change of the frames' size goes unnoticed. *)
RebuildIfMissing == enc = 0 /\ ~backoff

(* Mutant: an encoder that failed to open is not tried again. *)
RebuildOnChange == captureRes # frame

(* The frames changed size, or there is no encoder and its retry is due. *)
RebuildNeeded == captureRes # frame \/ (enc = 0 /\ ~backoff)

(* The encoder at hand, or none while the retry waits. *)
KeepEncoder ==
  /\ pc = "frame"
  /\ ~RebuildNeeded
  /\ pc' = "encode"
  /\ UNCHANGED <<host, loopVars, displayVars, encoderVars, frame, pending,
                 target, trackerVars, status, packet, owed, events>>

(* build_encode_session_for opens no encoder: retry later, tell viewers. *)
RebuildFails ==
  /\ pc = "frame"
  /\ host.flaky
  /\ RebuildNeeded
  /\ enc' = 0
  /\ force' = FALSE
  /\ captureRes' = frame
  /\ encodeRes' = frame
  /\ backoff' = TRUE
  /\ recovering' = frame
  /\ Publish("recovering", frame, 0)
  /\ pc' = "encode"
  /\ UNCHANGED <<host, loopVars, displayVars, frame, pending, target, latest,
                 success, packet, owed, events>>

(* It opens one at the frame's size, asked for a keyframe first. *)
RebuildFits ==
  /\ pc = "frame"
  /\ RebuildNeeded
  /\ Fit(frame) = frame
  /\ enc' = frame
  /\ force' = TRUE
  /\ captureRes' = frame
  /\ encodeRes' = frame
  /\ backoff' = FALSE
  /\ pc' = "encode"
  /\ UNCHANGED <<host, loopVars, displayVars, frame, pending, target,
                 trackerVars, status, packet, owed, events>>

(* It opens one below the frame's size: the encoder is dropped again and   *)
(* capture restarted at the encode size (restart_for_downscale).  With GPU *)
(* scaling the iteration ends there; without, capture restarts at the      *)
(* display's size and this frame goes on to the CPU downscale; if neither  *)
(* starts the thread returns.                                              *)
RebuildDownscales ==
  /\ pc = "frame"
  /\ RebuildNeeded
  /\ Fit(frame) # frame
  /\ enc' = 0
  /\ force' = FALSE
  /\ captureRes' = 0
  /\ encodeRes' = Fit(frame)
  /\ backoff' = FALSE
  /\ \/ /\ Windows => host.scaler
        /\ StartCapture(screen, Fit(frame))
        /\ frame' = 0
        /\ pc' = "top"
     \/ /\ Windows /\ ~host.scaler
        /\ StartCapture(screen, primary)
        /\ frame' = frame
        /\ pc' = "encode"
     \/ /\ ReleaseCapture
        /\ frame' = 0
        /\ pc' = "done"
        /\ UNCHANGED <<screen, asked>>
  /\ UNCHANGED <<host, loopVars, primary, pending, target, trackerVars,
                 status, packet, owed, events>>

(* on_packet_emitted: the success of the latest transition, or that the    *)
(* encoder recovered.                                                      *)
OnPacketEmitted ==
  LET done == IF success # 0 /\ latest = success THEN success ELSE recovering
  IN  /\ success' = 0
      /\ recovering' = 0
      /\ IF done = 0 THEN UNCHANGED status
                     ELSE Publish("succeeded", done, encodeRes)

(* The frame is downscaled if the encoder's size differs, then encoded.    *)
(* A frame yields no packet while the encoder buffers, a delta frame or,   *)
(* always within a GOP and sooner if one was asked for, a keyframe.        *)
EmitPacket ==
  /\ pc = "encode"
  /\ enc # 0
  /\ \/ /\ packet' = "delta"
        /\ UNCHANGED <<force, owed>>
     \/ /\ packet' = "key"
        /\ force' = FALSE
        /\ owed' = FALSE
  /\ OnPacketEmitted
  /\ frame' = 0
  /\ pc' = "top"
  /\ UNCHANGED <<host, loopVars, displayVars, enc, captureRes, encodeRes,
                 backoff, pending, target, latest, events>>

(* No encoder, a packet still inside it, or a failed downscale. *)
NoPacket ==
  /\ pc = "encode"
  /\ packet' = "none"
  /\ frame' = 0
  /\ pc' = "top"
  /\ UNCHANGED <<host, loopVars, displayVars, encoderVars, pending, target,
                 trackerVars, status, owed, events>>

(* encode returns an error; the keyframe asked for may be gone with it. *)
EncodeError ==
  /\ pc = "encode"
  /\ enc # 0
  /\ force' \in {FALSE, force}
  /\ owed' = FALSE
  /\ packet' = "none"
  /\ frame' = 0
  /\ pc' = "top"
  /\ UNCHANGED <<host, loopVars, displayVars, enc, captureRes, encodeRes,
                 backoff, pending, target, trackerVars, status, events>>

-----------------------------------------------------------------------------
Environment ==
  \/ AskMode
  \/ AskKeyframe
  \/ FrameArrives
  \/ CompositorApplies
  \/ CaptureCloses
  \/ DisplayChanges
  \/ RetryDue

Loop ==
  \/ NoRequest
  \/ TakeRequestWindows
  \/ TakeRequestLinux
  \/ TransitionSucceeds
  \/ TransitionFails
  \/ Rollback
  \/ RollbackRetry
  \/ ServeKeyframe
  \/ NoFrame
  \/ CaptureError
  \/ CaptureLost
  \/ RecoverLostCapture
  \/ SkipFrame
  \/ AcceptFrame
  \/ KeepEncoder
  \/ RebuildFails
  \/ RebuildFits
  \/ RebuildDownscales
  \/ EmitPacket
  \/ NoPacket
  \/ EncodeError

Next == Environment \/ Loop

Spec == Init /\ [][Next]_vars

(* The loop runs, the compositor applies what it was asked, a retry's time *)
(* comes, and a desktop in use keeps producing frames.  Whatever can fail  *)
(* does not fail every time it is tried.                                   *)
Fairness ==
  /\ WF_vars(Loop)
  /\ WF_vars(FrameArrives)
  /\ WF_vars(RetryDue)
  /\ SF_vars(TransitionSucceeds)
  /\ SF_vars(RollbackRetry)
  /\ SF_vars(AcceptFrame)
  /\ SF_vars(RebuildFits)
  /\ SF_vars(RebuildDownscales /\ pc' # "done")
  /\ SF_vars(EmitPacket)

FairSpec == Spec /\ Fairness

-----------------------------------------------------------------------------
(* The loop's locals, the display, the encoder and the tracker of mode   *)
(* requests have their types.                                            *)
TypeOK ==
  /\ host \in Hosts
  /\ queue \in Seq(Requestable) /\ Len(queue) <= MaxQueue
  /\ idr \in BOOLEAN
  /\ pc \in {"top", "serve", "capture", "recover", "replug", "rollback",
             "retry", "frame", "encode", "done"}
  /\ primary \in Sizes
  /\ screen \in Sizes
  /\ asked \in SizeOrNone
  /\ session \in SizeOrNone
  /\ alive \in BOOLEAN
  /\ slot \in SizeOrNone
  /\ frame \in SizeOrNone
  /\ enc \in SizeOrNone
  /\ force \in BOOLEAN
  /\ captureRes \in SizeOrNone
  /\ encodeRes \in SizeOrNone
  /\ backoff \in BOOLEAN
  /\ pending \in SizeOrNone
  /\ target \in SizeOrNone
  /\ latest \in SizeOrNone
  /\ success \in SizeOrNone
  /\ recovering \in SizeOrNone
  /\ status \in StatusType
  /\ packet \in {"none", "delta", "key"}
  /\ owed \in BOOLEAN
  /\ events \in 0..MaxEvents

(* "so the encoder dimensions always match the frames it receives"         *)
(* (capture_loop.rs, above the rebuild): whatever the order of mode        *)
(* requests, restarts, losses and encoder failures, a frame is only handed *)
(* to an encoder of its own size.                                          *)
EncoderMatchesFrames ==
  pc = "encode" /\ enc # 0 => enc = frame /\ encodeRes = frame

(* An IDR request taken from the channel is never lost: until a keyframe   *)
(* is sent either the encoder at hand owes one or there is no encoder, and *)
(* the next one starts with a keyframe.                                    *)
KeyframeOwed == owed => enc = 0 \/ force

(* The success waiting for a packet (ResolutionStatusTracker) is that of   *)
(* the latest request, however requests, timeouts, rollbacks and losses    *)
(* interleave, and on Linux it names the mode the loop adopted.            *)
SuccessIsLatest ==
  success # 0 => success = latest /\ (~Windows => success = primary)

(* The inductive invariant behind the three.  The open encoder is that of  *)
(* the current capture size, a request waiting for the compositor has no   *)
(* success of its own yet, and only the platform a stage belongs to is     *)
(* ever in it.                                                             *)
IInv ==
  /\ TypeOK
  /\ EncoderMatchesFrames
  /\ KeyframeOwed
  /\ SuccessIsLatest
  /\ enc # 0 => captureRes = enc /\ encodeRes = enc
  /\ pending # 0 => host.kind = "virtual" /\ success = 0
  /\ success # 0 => host.kind # "monitor"
  /\ pc \in {"replug", "rollback", "retry"} => Windows /\ target # 0
  /\ pc \in {"replug", "rollback", "retry", "recover"} => enc = 0

(* The host never needs the CPU downscale: every size fits the encoder, a  *)
(* virtual monitor takes the encode size as its mode, or the GPU scales.   *)
NeedsNoCpuDownscale ==
  \/ host.limit = MaxSize
  \/ host.kind = "virtual"
  \/ Windows /\ host.scaler

(* On such a host frames keep becoming packets: no order of requests,      *)
(* timeouts, replugs, rollbacks, losses and encoder failures leaves the    *)
(* loop without an encoder for good, unless capture could not be restarted *)
(* and the thread returned.                                                *)
StreamFlows ==
  NeedsNoCpuDownscale => []<>(packet # "none" \/ pc = "done")
=============================================================================
