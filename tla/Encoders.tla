------------------------------ MODULE Encoders ------------------------------
(***************************************************************************)
(* build_encode_session_for (flux-server/src/encoder.rs) over the encoders *)
(* of a Linux host: the candidates are tried in order until one gives a    *)
(* session, and that session is then used and dropped.  Of the backends,   *)
(* Vulkan's is VulkanSession, the others are EncoderThread's.              *)
(***************************************************************************)
EXTENDS VulkanSession, EncoderThread

CONSTANT Candidates   \* what encoder_backend_candidates returns, by build

ASSUME CandidatesAssumption ==
  \A c \in Candidates : c # <<>> /\ c \in Seq({"ffmpeg", "software", "vaapi", "vulkan"})

VARIABLE candidates   \* those left to try, the one in use first

encoderVars == <<vars, threadVars, candidates>>

EncodersInit ==
  /\ VulkanInit
  /\ ThreadInit
  /\ candidates \in Candidates
  /\ backend = Head(candidates)

(* Mutant: the next candidate is tried while the one before still runs. *)
NextBackendEager ==
  /\ IF backend = "vulkan" THEN pc \in {"refused", "failed"}
                           ELSE caller = "refused"
  /\ Len(candidates) > 1
  /\ candidates' = Tail(candidates)
  /\ backend' = Head(Tail(candidates))
  /\ caller' = "idle"
  /\ faults' = MaxFaults
  /\ UNCHANGED <<vars, thread, channelVars, objectVars, enc, inside,
                 countVars, encodes>>

(* create_encode_session gave None. *)
Refused == IF backend = "vulkan" THEN pc = "failed" ELSE caller = "refused"

(* Try the next candidate, if any. *)
NextBackend ==
  /\ Refused
  /\ Len(candidates) > 1
  /\ candidates' = Tail(candidates)
  /\ backend' = Head(Tail(candidates))
  /\ caller' = "idle"
  /\ faults' = MaxFaults
  /\ UNCHANGED <<vars, thread, channelVars, objectVars, enc, inside,
                 countVars, encodes>>

VulkanStep(A) == backend = "vulkan" /\ A /\ UNCHANGED <<threadVars, candidates>>
ThreadStep(A) == backend # "vulkan" /\ A /\ UNCHANGED <<vars, candidates>>

EncodersNext ==
  \/ NextBackend
  \/ VulkanStep(VulkanNext)
  \/ ThreadStep(ThreadNext)

EncodersSpec == EncodersInit /\ [][EncodersNext]_encoderVars

(* A call in progress goes on: the caller's thread and the encode thread   *)
(* are scheduled, and the GPU runs what it was given.                      *)
CallInProgress ==
  \/ NewEncoder \/ NewEncoderFails \/ Spawn \/ ReportFailure \/ Spawned
  \/ EncodeReturned \/ Reclaim \/ Joined

-----------------------------------------------------------------------------
Streaming == IF backend = "vulkan" THEN pc = "ready" ELSE caller = "ready"

(* Only the backend in use holds anything of the GPU: a candidate that was *)
(* given up has closed its device and destroyed what it made, whichever    *)
(* step failed, except the surface pool of FFmpeg and the one view of      *)
(* Vulkan that their guards miss.                                          *)
OneBackendHolds ==
  /\ backend # "vulkan" => live \subseteq {"dpb_view0"}
  /\ backend = "vulkan" => device = {} /\ pool \subseteq {"leak"}

(* What goes into an encoder comes out of it: each packet is its frame's,    *)
(* none is lost, and the next one refers to a picture the viewer has.        *)
EncodersSafe ==
  /\ VulkanTypeOK /\ ThreadTypeOK
  /\ ReferenceIsDelivered /\ PacketIsOfItsFrame /\ NoPictureLost

(* Nobody keeps what is not theirs: a frame whose call returned, an answer   *)
(* to another call, or the GPU's objects after a failure or a drop.          *)
OwnershipIsClear ==
  /\ FrameIsReclaimable /\ OneCallAtATime
  /\ NothingLeaks /\ SessionLeavesNothing /\ OneBackendHolds
=============================================================================
