------------------------------ MODULE HostVideo -----------------------------
(***************************************************************************)
(* The two halves of the host's way out for video, which meet in the       *)
(* broadcast channel of encoded frames: the encoder sessions that fill it  *)
(* and the relay connections that empty it.  Neither waits for the other,  *)
(* so a behaviour is one of either half, with the other half idle.         *)
(***************************************************************************)
EXTENDS Encoders, FrameSender

VARIABLE half

hostVideoVars == <<half, encoderVars, senderVars>>

Encoding(A) == half = "encoders" /\ A /\ UNCHANGED <<half, senderVars>>
Sending(A) == half = "sender" /\ A /\ UNCHANGED <<half, encoderVars>>

HostVideoInit ==
  /\ half \in {"encoders", "sender"}
  /\ EncodersInit /\ SenderInit
  /\ half = "encoders" => transport = "quic"
  /\ half = "sender" =>
       /\ host = CHOOSE h \in Hosts : TRUE
       /\ bitrate = CHOOSE r \in Rates : TRUE
       /\ candidates = CHOOSE c \in Candidates : TRUE

HostVideoNext == Encoding(EncodersNext) \/ Sending(SenderNext)

(* A call in progress goes on: the caller's thread and the encode thread   *)
(* are scheduled, and the GPU runs what it was given.  The connection's    *)
(* task is scheduled, and the transport takes what it is given.            *)
HostVideoFairness ==
  /\ WF_hostVideoVars(Encoding(NextBackend))
  /\ WF_hostVideoVars(Encoding(VulkanStep(Gpu)))
  /\ WF_hostVideoVars(Encoding(VulkanStep(Creation \/ DropContext)))
  /\ WF_hostVideoVars(Encoding(VulkanStep(pc # "ready" /\ Encode)))
  /\ WF_hostVideoVars(Encoding(ThreadStep(Thread)))
  /\ WF_hostVideoVars(Encoding(ThreadStep(CallInProgress)))
  /\ WF_hostVideoVars(Sending(SenderStep))

HostVideoSpec == HostVideoInit /\ [][HostVideoNext]_hostVideoVars /\ HostVideoFairness

-----------------------------------------------------------------------------
(* build_encode_session_for returns: with a session, or after the last     *)
(* candidate failed.                                                       *)
BuildSettles ==
  <>(\/ half = "sender"
     \/ Streaming
     \/ Len(candidates) = 1 /\ (caller = "refused" \/ pc = "failed"))

(* The capture loop is never held up for good in its encoder: building one,  *)
(* encoding and dropping it all return.                                      *)
CallsReturn == EncodeReturns /\ CallReturns /\ BuildSettles
=============================================================================
