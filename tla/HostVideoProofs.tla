-------------------------- MODULE HostVideoProofs --------------------------
(***************************************************************************)
(* What is proved of HostVideo, for every size of its channels, pools and  *)
(* bounds, every set of machines and every list of candidates: of the      *)
(* sender SenderSafe, and of the encoders EncodersSafe, OwnershipIsClear,  *)
(* StreamIsDecodable and PicturesInOrder.  Each part has an inductive      *)
(* invariant of its own, the encode thread's in MediaThreadProofs;         *)
(* OneInUse says that of the encoders only one moves.                      *)
(***************************************************************************)
EXTENDS HostVideo, MediaThreadProofs

(* A leaf that does not name its prover is first tried with Zenon; the leaves *)
(* that need arithmetic, or more than Zenon knows of sequences and records,    *)
(* name SMT.                                                                   *)
USE ZenonT(30), SMTT(30)

(* The sender.                                                             *)

(* The fields of every variable. *)
SenderShape ==
  /\ transport \in {"quic", "tcp"}
  /\ encoded \in Seq(BOOLEAN) /\ idrAsked \in BOOLEAN
  /\ side \in [cursor : Nat, status : Nat] /\ seen \in [cursor : Nat, status : Nat]
  /\ at \in {"closed", "loop", "write", "message"}
  /\ rx \in Nat /\ writing \in Nat /\ pending_frame \in Nat /\ connects \in Nat
  /\ dropped_frames \in BOOLEAN /\ cooling \in BOOLEAN
  /\ message \in [kind : {"cursor", "status"}, version : Nat]
  /\ arrived \in [frame : Nat, cursor : Nat, status : Nat]
  /\ loss \in {"none", "owed", "asked", "silent"}

(* What was taken from the channel was in it. *)
TakenInOrder ==
  /\ 1 <= rx /\ rx <= Newest + 1 /\ pending_frame < rx
  /\ at = "write" => 1 <= writing /\ writing < rx

(* What the relay has is older than what is written, and that is older than  *)
(* what is pending.                                                          *)
SentInOrder ==
  at # "closed" =>
    /\ arrived.frame < rx
    /\ pending_frame # 0 => arrived.frame < pending_frame
    /\ at = "write" => /\ arrived.frame < writing
                       /\ pending_frame # 0 => writing < pending_frame

(* A request is owed only while a frame is written over QUIC. *)
OwedWhileWriting == loss = "owed" => at \in {"write", "closed"} /\ transport = "quic"

(* The inductive invariant of the frame sender. *)
SenderIInv == SenderShape /\ TakenInOrder /\ SentInOrder /\ OwedWhileWriting

(* The numbers the steps calculate with. *)
LEMMA SenderNumbers ==
  ASSUME SenderShape
  PROVE  /\ Capacity \in Nat /\ Capacity >= 1 /\ MaxConnects \in Nat
         /\ Newest \in Nat /\ rx \in Nat /\ writing \in Nat /\ pending_frame \in Nat
         /\ arrived.frame \in Nat
BY SenderAssumption, SMTT(30) DEF SenderShape, Newest

(* A frame encoded, into a channel that may overflow. *)
LEMMA EncodedInv ==
  ASSUME SenderIInv, Encoded  PROVE SenderIInv'
<1> USE DEF SenderIInv
<1> DEFINE idr == idrAsked \/ encoded = <<>>
<1>1. idr \in BOOLEAN  OBVIOUS
<1>a. encoded \in Seq(BOOLEAN) /\ encoded' = Append(encoded, idr) /\ idrAsked' = FALSE
  BY DEF Encoded, SenderShape
<1> HIDE DEF idr
<1>2. encoded' \in Seq(BOOLEAN) /\ Newest' = Newest + 1 /\ idrAsked' \in BOOLEAN
  BY <1>1, <1>a, AppendProperties DEF Newest
<1>3. UNCHANGED <<transport, side, rx, at, writing, pending_frame, dropped_frames,
                  cooling, seen, message, arrived, loss, connects>>
  BY DEF Encoded, connectionVars, callVars
<1>4. SenderShape'  BY <1>2, <1>3 DEF SenderShape
<1>5. TakenInOrder'  BY <1>2, <1>3, SenderNumbers, SMTT(30) DEF TakenInOrder
<1> QED  BY <1>3, <1>4, <1>5 DEF SentInOrder, OwedWhileWriting

(* A message for the side, or the encoder asked for an IDR. *)
LEMMA SideChangesInv ==
  ASSUME SenderIInv, NEW kind \in {"cursor", "status"}, SideChanges(kind)  PROVE SenderIInv'
<1> USE DEF SenderIInv
<1>1. UNCHANGED <<transport, encoded, idrAsked, rx, at, writing, pending_frame, dropped_frames,
                  cooling, seen, message, arrived, loss, connects>>
  BY DEF SideChanges, connectionVars, callVars
<1>2. side' \in [cursor : Nat, status : Nat]
  <2>1. CASE kind = "cursor"  BY <2>1, SMTT(30) DEF SideChanges, SenderShape
  <2>2. CASE kind = "status"  BY <2>2, SMTT(30) DEF SideChanges, SenderShape
  <2> QED  BY <2>1, <2>2
<1>3. SenderShape'  BY <1>1, <1>2 DEF SenderShape
<1> QED  BY <1>1, <1>3 DEF TakenInOrder, SentInOrder, OwedWhileWriting, Newest

(* A connection begins at the end of the channel. *)
LEMMA SubscribeInv ==
  ASSUME SenderIInv, Subscribe  PROVE SenderIInv'
<1> USE DEF SenderIInv
<1>0. /\ connects' = connects - 1 /\ connects > 0 /\ rx' = Newest + 1 /\ seen' = side
      /\ at' = "message" /\ message' = [kind |-> "cursor", version |-> side.cursor]
      /\ cooling' = FALSE /\ writing' = 0 /\ pending_frame' = 0 /\ loss' = "asked" /\ idrAsked' = TRUE
      /\ arrived' = [frame |-> Newest, cursor |-> 0, status |-> side.status]
      /\ UNCHANGED <<transport, encoded, side, dropped_frames>>
  BY DEF Subscribe
<1>1. /\ connects' \in Nat /\ rx' \in Nat /\ writing' \in Nat /\ pending_frame' \in Nat
      /\ message' \in [kind : {"cursor", "status"}, version : Nat]
      /\ arrived' \in [frame : Nat, cursor : Nat, status : Nat] /\ arrived'.frame = Newest
  BY <1>0, SenderNumbers, SMTT(30) DEF SenderShape
<1>2. SenderShape'  BY <1>0, <1>1 DEF SenderShape
<1>3. TakenInOrder'  BY <1>0, SenderNumbers, SMTT(30) DEF TakenInOrder, Newest
<1>4. SentInOrder'  BY <1>0, <1>1, SenderNumbers, SMTT(30) DEF SentInOrder
<1> QED  BY <1>0, <1>2, <1>3, <1>4 DEF OwedWhileWriting

(* The task takes a frame, or learns how many it missed. *)
LEMMA RecvFrameInv ==
  ASSUME SenderIInv, RecvFrame  PROVE SenderIInv'
<1> USE DEF SenderIInv
<1>0. /\ at = "loop" /\ pending_frame = 0 /\ rx <= Newest
      /\ UNCHANGED <<transport, encoded, idrAsked, side, cooling, seen, message, arrived, connects>>
  BY DEF RecvFrame, queueVars
<1>a. Newest' = Newest  BY <1>0 DEF Newest
<1>1. CASE Lagged
  <2>1. /\ rx' = Oldest /\ loss' = "silent"
        /\ UNCHANGED <<at, writing, pending_frame, dropped_frames>>
    BY <1>1 DEF RecvFrame, Lost, callVars
  <2>2. rx' \in Nat /\ rx < rx' /\ rx' <= Newest  BY <1>0, <1>1, <2>1, SenderNumbers, SMTT(30) DEF Oldest, Lagged
  <2>3. SenderShape'  BY <1>0, <2>1, <2>2 DEF SenderShape
  <2>4. TakenInOrder' /\ SentInOrder'
    BY <1>0, <1>a, <2>1, <2>2, SenderNumbers, SMTT(30) DEF TakenInOrder, SentInOrder
  <2> QED  BY <2>1, <2>3, <2>4 DEF OwedWhileWriting
<1>2. CASE ~Lagged
  <2>1. /\ at' = "write" /\ writing' = rx /\ pending_frame' = 0 /\ dropped_frames' = FALSE
        /\ rx' = rx + 1 /\ loss' = loss
    BY <1>2 DEF RecvFrame, Begin
  <2>2. rx' \in Nat  BY <2>1, SenderNumbers, SMTT(30)
  <2>3. SenderShape'  BY <1>0, <2>1, <2>2, SenderNumbers DEF SenderShape
  <2>4. TakenInOrder' /\ SentInOrder'
    BY <1>0, <1>a, <2>1, SenderNumbers, SMTT(30) DEF TakenInOrder, SentInOrder
  <2> QED  BY <1>0, <2>1, <2>3, <2>4 DEF OwedWhileWriting
<1> QED  BY <1>1, <1>2

(* The pending frame is written next. *)
LEMMA TakePendingInv ==
  ASSUME SenderIInv, TakePending  PROVE SenderIInv'
<1> USE DEF SenderIInv
<1>0. /\ at = "loop" /\ pending_frame # 0
      /\ at' = "write" /\ writing' = pending_frame /\ pending_frame' = 0 /\ dropped_frames' = FALSE
      /\ UNCHANGED <<transport, encoded, idrAsked, side, rx, cooling, seen, message, arrived,
                     loss, connects>>
  BY DEF TakePending, Begin, queueVars
<1>1. SenderShape'  BY <1>0 DEF SenderShape
<1>2. TakenInOrder' /\ SentInOrder'
  BY <1>0, SenderNumbers, SMTT(30) DEF TakenInOrder, SentInOrder, Newest
<1> QED  BY <1>0, <1>1, <1>2 DEF OwedWhileWriting

(* A newer frame waits for the write in progress. *)
LEMMA NewerFramesInv ==
  ASSUME SenderIInv, NewerFrames  PROVE SenderIInv'
<1> USE DEF SenderIInv
<1>0. /\ at = "write" /\ transport = "quic" /\ rx <= Newest /\ rx' = Newest + 1
      /\ pending_frame' = Newest /\ at' \in {"loop", "write"} /\ writing' = writing
      /\ UNCHANGED <<transport, encoded, side, seen, message, arrived, connects>>
  BY DEF NewerFrames, Interruptible
<1>1. dropped_frames' \in BOOLEAN /\ cooling' \in BOOLEAN /\ idrAsked' \in BOOLEAN
  BY DEF NewerFrames, SenderShape
<1>2. /\ loss' \in {"none", "owed", "asked", "silent"} /\ (at' = "loop" => loss' = "asked")
  BY <1>0 DEF NewerFrames, SenderShape, Lost
<1>3. rx' \in Nat /\ pending_frame' \in Nat  BY <1>0, SenderNumbers, SMTT(30)
<1>4. SenderShape'  BY <1>0, <1>1, <1>2, <1>3 DEF SenderShape
<1>5. TakenInOrder' /\ SentInOrder'
  BY <1>0, SenderNumbers, SMTT(30) DEF TakenInOrder, SentInOrder, Newest
<1> QED  BY <1>0, <1>2, <1>4, <1>5 DEF OwedWhileWriting

(* should_request_idr settles what was owed. *)
LEMMA RequestFacts ==
  ASSUME SenderShape, RequestIfCool
  PROVE  idrAsked' \in BOOLEAN /\ cooling' \in BOOLEAN /\ loss' \in {"asked", "silent"}
BY DEF SenderShape, RequestIfCool, Lost

(* The task learns during a write that it missed frames. *)
LEMMA LaggedWhileWritingInv ==
  ASSUME SenderIInv, LaggedWhileWriting  PROVE SenderIInv'
<1> USE DEF SenderIInv
<1>0. /\ at = "write" /\ rx <= Newest /\ rx' = Oldest /\ Lagged /\ dropped_frames' = TRUE
      /\ UNCHANGED <<transport, encoded, side, at, writing, pending_frame, seen, message, arrived,
                     connects>>
  BY DEF LaggedWhileWriting, Interruptible
<1>1. idrAsked' \in BOOLEAN /\ cooling' \in BOOLEAN /\ loss' \in {"asked", "silent"}
  BY RequestFacts DEF LaggedWhileWriting
<1>2. rx' \in Nat /\ rx < rx' /\ rx' <= Newest  BY <1>0, SenderNumbers, SMTT(30) DEF Oldest, Lagged
<1>3. SenderShape'  BY <1>0, <1>1, <1>2 DEF SenderShape
<1>4. TakenInOrder' /\ SentInOrder'
  BY <1>0, <1>2, SenderNumbers, SMTT(30) DEF TakenInOrder, SentInOrder, Newest
<1> QED  BY <1>1, <1>3, <1>4 DEF OwedWhileWriting

(* The write ends. *)
LEMMA FinishInv ==
  ASSUME SenderIInv, Finish \/ FinishTcp  PROVE SenderIInv'
<1> USE DEF SenderIInv
<1>0. /\ at = "write" /\ at' = "loop" /\ arrived' = [arrived EXCEPT !.frame = writing]
      /\ UNCHANGED <<transport, encoded, side, rx, writing, pending_frame, dropped_frames, seen,
                     message, connects>>
  BY DEF Finish, FinishTcp, callVars, queueVars
<1>1. /\ idrAsked' \in BOOLEAN /\ cooling' \in BOOLEAN
      /\ loss' \in {"none", "asked", "silent"}
  <2>1. CASE Finish
    <3>1. CASE pending_frame # 0 /\ dropped_frames  BY <2>1, <3>1, RequestFacts DEF Finish
    <3>2. CASE ~(pending_frame # 0 /\ dropped_frames)
      BY <2>1, <3>2 DEF Finish, Lost, SenderShape
    <3> QED  BY <3>1, <3>2
  <2>2. CASE FinishTcp  BY <2>2 DEF FinishTcp, Lost, queueVars, SenderShape, OwedWhileWriting
  <2> QED  BY <2>1, <2>2
<1>2. arrived' \in [frame : Nat, cursor : Nat, status : Nat] /\ arrived'.frame = writing
  BY <1>0 DEF SenderShape
<1>3. SenderShape'  BY <1>0, <1>1, <1>2 DEF SenderShape
<1>4. TakenInOrder' /\ SentInOrder'
  BY <1>0, <1>2, SenderNumbers DEF TakenInOrder, SentInOrder, Newest
<1> QED  BY <1>1, <1>3, <1>4 DEF OwedWhileWriting

(* A message of the side goes out, *)
LEMMA TakeMessageInv ==
  ASSUME SenderIInv, NEW kind \in {"cursor", "status"}, TakeMessage(kind)  PROVE SenderIInv'
<1> USE DEF SenderIInv
<1>0. /\ at = "loop" /\ at' = "message"
      /\ seen' = [seen EXCEPT ![kind] = IF kind = "cursor" THEN side.cursor ELSE @ + 1]
      /\ message' = [kind |-> kind, version |-> seen'[kind]]
      /\ UNCHANGED <<transport, encoded, idrAsked, side, rx, writing, pending_frame, dropped_frames,
                     cooling, arrived, loss, connects>>
  BY DEF TakeMessage, callVars, queueVars
<1>1. /\ seen' \in [cursor : Nat, status : Nat]
      /\ message' \in [kind : {"cursor", "status"}, version : Nat]
  <2>1. CASE kind = "cursor"  BY <1>0, <2>1 DEF SenderShape
  <2>2. CASE kind = "status"  BY <1>0, <2>2, SMTT(30) DEF SenderShape
  <2> QED  BY <2>1, <2>2
<1>2. SenderShape'  BY <1>0, <1>1 DEF SenderShape
<1> QED  BY <1>0, <1>2 DEF TakenInOrder, SentInOrder, OwedWhileWriting, Newest

(* and has gone. *)
LEMMA MessageSentInv ==
  ASSUME SenderIInv, MessageSent  PROVE SenderIInv'
<1> USE DEF SenderIInv
<1>0. /\ at = "message" /\ at' = "loop"
      /\ arrived' = [arrived EXCEPT ![message.kind] = message.version]
      /\ UNCHANGED <<transport, encoded, idrAsked, side, rx, writing, pending_frame, dropped_frames,
                     cooling, seen, message, loss, connects>>
  BY DEF MessageSent, callVars, queueVars
<1>1. arrived' \in [frame : Nat, cursor : Nat, status : Nat] /\ arrived'.frame = arrived.frame
  <2>1. CASE message.kind = "cursor"  BY <1>0, <2>1 DEF SenderShape
  <2>2. CASE message.kind = "status"  BY <1>0, <2>2 DEF SenderShape
  <2> QED  BY <2>1, <2>2 DEF SenderShape
<1>2. SenderShape'  BY <1>0, <1>1 DEF SenderShape
<1> QED  BY <1>0, <1>1, <1>2 DEF TakenInOrder, SentInOrder, OwedWhileWriting, Newest

(* The inductive invariant of the frame sender holds throughout: see         *)
(* SenderIInv.                                                               *)
THEOREM SenderInvariant == SenderSpec => []SenderIInv
<1>1. SenderInit => SenderIInv
  <2> SUFFICES ASSUME SenderInit PROVE SenderIInv  OBVIOUS
  <2>a. encoded \in Seq(BOOLEAN)  BY SMTT(30) DEF SenderInit
  <2>b. /\ side \in [cursor : Nat, status : Nat] /\ seen \in [cursor : Nat, status : Nat]
        /\ message \in [kind : {"cursor", "status"}, version : Nat]
        /\ arrived \in [frame : Nat, cursor : Nat, status : Nat] /\ connects \in Nat
    BY SenderAssumption DEF SenderInit, NoSide
  <2>1. SenderShape  BY <2>a, <2>b DEF SenderInit, SenderShape
  <2> QED  BY <2>1, SMTT(30) DEF SenderInit, SenderIInv, TakenInOrder, SentInOrder, OwedWhileWriting, Newest
<1>2. SenderIInv /\ [SenderNext]_senderVars => SenderIInv'
  <2> SUFFICES ASSUME SenderIInv, [SenderNext]_senderVars PROVE SenderIInv'  OBVIOUS
  <2>1. CASE CooldownEnds \/ UNCHANGED senderVars
    BY <2>1 DEF CooldownEnds, senderVars, connectionVars, queueVars, callVars, SenderIInv, SenderShape,
                TakenInOrder, SentInOrder, OwedWhileWriting, Newest
  <2>2. CASE Disconnect \/ ReaderEnds
    BY <2>2 DEF ReaderEnds, Disconnect, queueVars, callVars, SenderIInv, SenderShape,
                TakenInOrder, SentInOrder, OwedWhileWriting, Newest
  <2>3. CASE SenderStep
    BY <2>3, RecvFrameInv, TakePendingInv, FinishInv, MessageSentInv, TakeMessageInv DEF SenderStep
  <2> QED  BY <2>1, <2>2, <2>3, EncodedInv, SideChangesInv, SubscribeInv, NewerFramesInv,
              LaggedWhileWritingInv DEF SenderNext, Accept, AcceptTcp
<1> QED  BY <1>1, <1>2, PTL DEF SenderSpec

(* SenderSafe for every capacity, threshold and number of frames: frames     *)
(* leave in order and none twice, however resets, drains, lags and the       *)
(* pending frame interleave, and no request is still owed when the loop goes *)
(* on.                                                                       *)
THEOREM SenderIsSafe == SenderSpec => []SenderSafe
<1>1. SenderIInv => SenderSafe
  <2> SUFFICES ASSUME SenderIInv PROVE SenderSafe  OBVIOUS
  <2> USE DEF SenderIInv
  <2>1. /\ rx \in 1 .. Newest + 1 /\ pending_frame \in 0 .. rx - 1
        /\ at = "write" => writing \in 1 .. rx - 1
    BY SenderNumbers, SMTT(30) DEF TakenInOrder
  <2>2. SenderTypeOK  BY <2>1 DEF SenderTypeOK, SenderShape
  <2>3. FramesInOrder  BY SenderNumbers DEF FramesInOrder, SentInOrder
  <2> QED  BY <2>2, <2>3 DEF SenderSafe, LossIsAnswered, OwedWhileWriting
<1> QED  BY <1>1, SenderInvariant, PTL

-----------------------------------------------------------------------------
(* The Vulkan session.                                                     *)

(* What new has made so far is in the guard's list, the context apart; after *)
(* a failure only the context, and the view the guard missed, remain.        *)
ObjectsGuarded ==
  /\ pc = "probe" => live = {}
  /\ pc \in NewSteps => live \subseteq guard \cup {"instance", Preferred(host).name}
  /\ pc = "refused" => live \subseteq {"instance", Preferred(host).name, "dpb_view0"}
  /\ NothingLeaks

(* The encode of the frame in progress has run. *)
Ran == pc = "readback" \/ (pc = "wait" /\ fence)

(* As long as no fence was left signalled there is at most one job, of the   *)
(* call in progress, and the fence tells when it has run.                    *)
OneJob ==
  "fence" \notin leftover =>
    /\ pc # "wait" => jobs = <<>> /\ ~fence
    /\ pc = "wait" => \/ fence /\ jobs = <<>>
                      \/ ~fence /\ jobs = <<[state |-> State, setup |-> setup_slot,
                                             rate |-> RecordedRate]>>

(* Nor does the GPU differ from what the host believes of it: the slots, the *)
(* rate control and the packet of a job that has run.                        *)
GpuAgrees ==
  "fence" \notin leftover =>
    /\ prev_frame = packet.state
    /\ prev_frame # NoState => dpb[1 - setup_slot] = packet.frame
    /\ ~first_op /\ ~rc_dirty => gpuRate = bitrate
    /\ Ran => /\ bitstream.state = State /\ bitstream.frame = dpb[setup_slot]
              /\ ~IsIdr => bitstream.ref = dpb[1 - setup_slot]
              /\ gpuRate = bitrate /\ bitstream.rate = bitrate

InCall == pc \in {"upload", "record", "wait", "readback"}

(* The numbers of the next picture follow from those of the last. *)
Numbering ==
  /\ owed => idr_requested
  /\ InCall /\ IsIdr => frame_num = 0
  /\ IsIdr \/ frame_num = (prev_frame.frame_num + 1) % 2^FrameNumBits
  /\ prev_frame.is_idr => idr_pic_id # prev_frame.idr_pic_id

(* As long as no call failed half way, the picture in the input image is the *)
(* call's own when the encode runs.                                          *)
UploadInOrder ==
  leftover = {} =>
    /\ pc \notin {"record", "wait"} => copies = 0 /\ ~upload_done
    /\ pc = "record" \/ (pc = "wait" /\ ~fence) =>
         \/ copies = 1 /\ ~upload_done /\ staging = frame
         \/ copies = 0 /\ upload_done /\ image = frame
    /\ Ran => copies = 0 /\ ~upload_done /\ bitstream.frame = frame

(* The inductive invariant of the Vulkan session. *)
VulkanIInv ==
  /\ VulkanTypeOK /\ ObjectsGuarded /\ OneJob /\ GpuAgrees /\ Numbering
  /\ UploadInOrder /\ PacketIsOfItsFrame

Pcs == NewSteps \cup {"probe", "disarm", "ready", "upload", "record",
                      "wait", "readback", "refused", "failed", "dropped"}

(* A step of new or of a drop, outside of any call, leaves the session's     *)
(* state and the GPU's alone.                                                *)
LEMMA OutsideCalls ==
  ASSUME VulkanIInv, ~InCall, ~InCall', pc' \in Pcs, host' = host,
         UNCHANGED <<stateVars, bitrate, frame, gpuVars, leftover, callerVars>>
  PROVE  /\ VulkanTypeOK' /\ OneJob' /\ GpuAgrees' /\ Numbering' /\ UploadInOrder'
         /\ PacketIsOfItsFrame'
<1> USE DEF VulkanIInv, stateVars, gpuVars, callerVars
<1>1. VulkanTypeOK'  BY DEF VulkanTypeOK, Pcs
<1>2. OneJob'  BY DEF OneJob, InCall
<1>3. GpuAgrees'  BY DEF GpuAgrees, Ran, InCall
<1>4. Numbering'  BY DEF Numbering, InCall, IsIdr
<1>5. UploadInOrder'  BY DEF UploadInOrder, Ran, InCall
<1> QED  BY <1>1, <1>2, <1>3, <1>4, <1>5 DEF PacketIsOfItsFrame

(* The probe made nothing yet. *)
LEMMA ProbeInv ==
  ASSUME VulkanIInv, Probe  PROVE VulkanIInv'
<1>1. ~InCall /\ ~InCall' /\ pc' \in Pcs  BY DEF Probe, InCall, Pcs, NewSteps
<1>2. ObjectsGuarded'
  BY DEF VulkanIInv, Probe, ObjectsGuarded, NothingLeaks, NewSteps, probeVars
<1> QED  BY <1>1, <1>2, OutsideCalls DEF Probe, VulkanIInv

(* An object made is an object the guard knows of. *)
LEMMA CreateInv ==
  ASSUME VulkanIInv, NEW from \in NewSteps, NEW objects, NEW to \in NewSteps \cup {"disarm"},
         Create(from, objects, to)
  PROVE  VulkanIInv'
<1>1. ~InCall /\ ~InCall' /\ pc' \in Pcs  BY DEF Create, InCall, Pcs, NewSteps
<1>2. ObjectsGuarded'
  <2>1. pc \in NewSteps /\ pc' = to /\ live' = live \cup objects /\ guard' = guard \cup objects
        /\ host' = host
    BY DEF Create
  <2>2. to \notin {"probe", "refused", "failed", "dropped"}  BY DEF NewSteps
  <2> QED  BY <2>1, <2>2 DEF VulkanIInv, ObjectsGuarded, NothingLeaks
<1> QED  BY <1>1, <1>2, OutsideCalls DEF Create, VulkanIInv

(* Every step of new, *)
LEMMA CreateStepsInv ==
  ASSUME VulkanIInv,
         \/ CreateVideoSession \/ CreateParameters \/ CreateImages \/ CreateViews
         \/ CreateBuffers \/ CreateCommands
  PROVE  VulkanIInv'
<1> DEFINE All == NewSteps \cup {"disarm"}
<1>0. /\ {"session", "memory", "params", "input_image", "dpb_image", "views", "dpb_views",
          "staging_buffer", "bitstream_buffer", "query_pool", "transfer_pool", "encode_pool",
          "semaphore", "fence"} \subseteq NewSteps
      /\ "disarm" \in All /\ NewSteps \subseteq All
  BY DEF NewSteps
<1>1. CASE CreateVideoSession \/ CreateParameters
  BY <1>0, <1>1, CreateInv DEF CreateVideoSession, CreateParameters
<1>2. CASE CreateImages \/ CreateBuffers
  BY <1>0, <1>2, CreateInv DEF CreateImages, CreateImage, CreateBuffers, CreateBuffer
<1>3. CASE CreateViews  BY <1>0, <1>3, CreateInv DEF CreateViews
<1>4. CASE CreateCommands  BY <1>0, <1>4, CreateInv DEF CreateCommands, CreatePool
<1> QED  BY <1>1, <1>2, <1>3, <1>4

(* the failure of any of them, *)
LEMMA CreateFailsInv ==
  ASSUME VulkanIInv, CreateFails  PROVE VulkanIInv'
<1>0. PICK unguarded \in {{}, {"dpb_view0"}} : GuardDrop(unguarded)  BY DEF CreateFails
<1>1. ~InCall /\ ~InCall' /\ pc' \in Pcs
  BY <1>0 DEF CreateFails, GuardDrop, InCall, Pcs, NewSteps
<1>2. ObjectsGuarded'
  <2>1. /\ pc \in NewSteps /\ pc' = "refused" /\ host' = host
        /\ live' = (live \cup unguarded) \ guard
    BY <1>0 DEF CreateFails, GuardDrop
  <2> QED  BY <1>0, <2>1 DEF VulkanIInv, ObjectsGuarded, NothingLeaks, NewSteps
<1> QED  BY <1>0, <1>1, <1>2, OutsideCalls DEF GuardDrop, VulkanIInv

(* and the end of new, which disarms the guard. *)
LEMMA CreatedInv ==
  ASSUME VulkanIInv, Created  PROVE VulkanIInv'
<1>1. ~InCall /\ ~InCall' /\ pc' \in Pcs  BY DEF Created, InCall, Pcs
<1>2. ObjectsGuarded'  BY DEF VulkanIInv, Created, ObjectsGuarded, NothingLeaks, NewSteps
<1> QED  BY <1>1, <1>2, OutsideCalls DEF Created, VulkanIInv

(* Drop of the session and of its context. *)
LEMMA DropInv ==
  ASSUME VulkanIInv, DropSession \/ DropContext  PROVE VulkanIInv'
<1>1. ~InCall /\ ~InCall' /\ pc' \in Pcs  BY DEF DropSession, DropContext, InCall, Pcs
<1>2. ObjectsGuarded'
  BY DEF VulkanIInv, DropSession, DropContext, ObjectsGuarded, NothingLeaks, NewSteps
<1> QED  BY <1>1, <1>2, OutsideCalls DEF DropSession, DropContext, VulkanIInv

(* While a session lives its objects stay. *)
LEMMA ObjectsStay ==
  ASSUME VulkanIInv, UNCHANGED probeVars, pc' = "ready" \/ InCall'
  PROVE  ObjectsGuarded'
BY DEF ObjectsGuarded, NothingLeaks, NewSteps, InCall

(* The wrap of frame_num. *)
LEMMA WrapFacts ==
  /\ 2^FrameNumBits \in Nat /\ 2^FrameNumBits > 1 /\ 0 \in FrameNums
  /\ \A n \in FrameNums : (n + 1) % 2^FrameNumBits \in FrameNums
<1> DEFINE N == 2^FrameNumBits
<1>1. N \in Nat /\ N > 1  BY VulkanAssumption
<1> HIDE DEF N
<1>2. 0 \in 0..(N - 1) /\ \A n \in 0..(N - 1) : (n + 1) % N \in 0..(N - 1)  BY <1>1, SMTT(30)
<1> QED  BY <1>1, <1>2 DEF N, FrameNums

(* A call begins: the picture is numbered. *)
LEMMA BeginEncodeInv ==
  ASSUME VulkanIInv, BeginEncode  PROVE VulkanIInv'
<1> USE DEF VulkanIInv
<1>0. /\ pc = "ready" /\ frame' = frame + 1 /\ frame < MaxFrames
      /\ \/ pc' = "upload" /\ frame_num' = IF IsIdr THEN 0 ELSE frame_num
         \/ pc' = "ready" /\ frame_num' = frame_num
      /\ UNCHANGED <<host, live, guard, frame_counter, idr_pic_id, idr_requested, rc_dirty, first_op,
                     setup_slot, prev_frame, bitrate, staging, copies, image, upload_done, dpb, jobs,
                     gpuRate, bitstream, fence, leftover, packet, last, owed, requests>>
  BY DEF BeginEncode, probeVars, gpuVars, callerVars
<1>1. frame' \in Frames  BY <1>0, VulkanAssumption, SMTT(30) DEF VulkanTypeOK, Frames
<1>2. VulkanTypeOK'  BY <1>0, <1>1, WrapFacts, SMTT(30) DEF VulkanTypeOK
<1>3. ObjectsGuarded'  BY <1>0, ObjectsStay DEF probeVars, InCall
<1>4. OneJob'  BY <1>0 DEF OneJob
<1>5. GpuAgrees'  BY <1>0 DEF GpuAgrees, Ran
<1>6. Numbering'  BY <1>0 DEF Numbering, InCall, IsIdr
<1>7. UploadInOrder'  BY <1>0 DEF UploadInOrder, Ran
<1>8. PacketIsOfItsFrame'  BY <1>0 DEF PacketIsOfItsFrame
<1> QED  BY <1>2, <1>3, <1>4, <1>5, <1>6, <1>7, <1>8

(* The frame is put into the staging buffer and its copy submitted. *)
LEMMA UploadInputInv ==
  ASSUME VulkanIInv, UploadInput  PROVE VulkanIInv'
<1> USE DEF VulkanIInv
<1>0. /\ pc = "upload" /\ pc' = "record" /\ staging' = frame /\ copies' = copies + 1
      /\ UNCHANGED <<host, live, guard, frame_counter, frame_num, idr_pic_id, idr_requested, rc_dirty,
                     first_op, setup_slot, prev_frame, bitrate, frame, image, upload_done, dpb, jobs,
                     gpuRate, bitstream, fence, leftover, packet, last, owed, requests>>
  BY DEF UploadInput, probeVars, stateVars, callerVars
<1>1. copies' \in Nat  BY <1>0, SMTT(30) DEF VulkanTypeOK
<1>2. VulkanTypeOK'  BY <1>0, <1>1 DEF VulkanTypeOK
<1>3. ObjectsGuarded'  BY <1>0, ObjectsStay DEF probeVars, InCall
<1>4. OneJob'  BY <1>0 DEF OneJob
<1>5. GpuAgrees'  BY <1>0 DEF GpuAgrees, Ran
<1>6. Numbering'  BY <1>0 DEF Numbering, InCall, IsIdr
<1>7. UploadInOrder'  BY <1>0, SMTT(30) DEF UploadInOrder, Ran
<1>8. PacketIsOfItsFrame'  BY <1>0 DEF PacketIsOfItsFrame
<1> QED  BY <1>2, <1>3, <1>4, <1>5, <1>6, <1>7, <1>8

(* A call that fails leaves what it has submitted, and is told so. *)
LEMMA CallFailsInv ==
  ASSUME VulkanIInv, UploadFails \/ SubmitFails \/ ReadBackFails  PROVE VulkanIInv'
<1> USE DEF VulkanIInv
<1>0. /\ pc' = "ready" /\ pc \in {"upload", "record", "readback"} /\ staging' \in {staging, frame}
      /\ leftover' \in {leftover, leftover \cup {"upload"}}
      /\ pc = "record" => "upload" \in leftover'
      /\ UNCHANGED <<host, live, guard, frame_counter, frame_num, idr_pic_id, idr_requested, rc_dirty,
                     first_op, setup_slot, prev_frame, bitrate, frame, copies, image, upload_done, dpb,
                     jobs, gpuRate, bitstream, fence, packet, last, owed, requests>>
  BY DEF UploadFails, SubmitFails, ReadBackFails, EncodeFails, probeVars, stateVars, gpuVars,
         callerVars
<1>1. leftover' \subseteq {"upload", "fence"} /\ ("fence" \notin leftover' => "fence" \notin leftover)
      /\ (leftover' = {} => leftover = {} /\ pc # "record")
  BY <1>0 DEF VulkanTypeOK
<1>2. VulkanTypeOK'
  <2>1. staging' \in Frames  BY <1>0 DEF VulkanTypeOK
  <2> QED  BY <1>0, <1>1, <2>1 DEF VulkanTypeOK
<1>3. ObjectsGuarded'  BY <1>0, ObjectsStay DEF probeVars, InCall
<1>4. OneJob'  BY <1>0, <1>1 DEF OneJob
<1>5. GpuAgrees'  BY <1>0, <1>1 DEF GpuAgrees, Ran
<1>6. Numbering'  BY <1>0 DEF Numbering, InCall, IsIdr
<1>7. UploadInOrder'  BY <1>0, <1>1 DEF UploadInOrder, Ran
<1>8. PacketIsOfItsFrame'  BY <1>0, <1>1 DEF PacketIsOfItsFrame
<1> QED  BY <1>2, <1>3, <1>4, <1>5, <1>6, <1>7, <1>8

(* The frame in progress has a state and a rate. *)
LEMMA StateFacts ==
  ASSUME VulkanTypeOK
  PROVE  /\ State \in StateType /\ State # NoState /\ RecordedRate \in Rates \cup {0}
         /\ State.is_idr = IsIdr /\ State.frame_num = frame_num /\ State.idr_pic_id = idr_pic_id
<1>1. IsIdr \in BOOLEAN  BY DEF IsIdr
<1>2. State \in StateType  BY <1>1 DEF VulkanTypeOK, State, StateType
<1>3. State.frame_num # -1  BY VulkanAssumption, SMTT(30) DEF State, VulkanTypeOK, FrameNums
<1>4. State # NoState  BY <1>3, SMTT(30) DEF NoState
<1>5. RecordedRate \in Rates \cup {0}  BY DEF RecordedRate, VulkanTypeOK
<1> QED  BY <1>2, <1>4, <1>5 DEF State

(* The encode is submitted behind the copy. *)
LEMMA SubmitEncodeInv ==
  ASSUME VulkanIInv, SubmitEncode  PROVE VulkanIInv'
<1> USE DEF VulkanIInv
<1> DEFINE job == [state |-> State, setup |-> setup_slot, rate |-> RecordedRate]
<1>0. /\ pc = "record" /\ pc' = "wait" /\ jobs' = Append(jobs, job)
      /\ UNCHANGED <<host, live, guard, frame_counter, frame_num, idr_pic_id, idr_requested, rc_dirty,
                     first_op, setup_slot, prev_frame, bitrate, frame, staging, copies, image,
                     upload_done, dpb, gpuRate, bitstream, fence, leftover, packet, last, owed,
                     requests>>
  BY DEF SubmitEncode, probeVars, stateVars, callerVars
<1>1. job \in JobType  BY StateFacts DEF JobType, VulkanTypeOK
<1>2. job' = job  BY <1>0 DEF State, IsIdr, RecordedRate
<1> HIDE DEF job
<1>3. jobs' \in Seq(JobType) /\ (jobs = <<>> => jobs' = <<job>>)
  <2>1. jobs \in Seq(JobType)  BY DEF VulkanTypeOK
  <2>2. jobs' \in Seq(JobType)  BY <1>0, <1>1, <2>1, AppendProperties
  <2>3. Append(<<>>, job) = <<job>>  BY SMTT(30)
  <2> QED  BY <1>0, <2>2, <2>3
<1>4. VulkanTypeOK'  BY <1>0, <1>3 DEF VulkanTypeOK
<1>5. ObjectsGuarded'  BY <1>0, ObjectsStay DEF probeVars, InCall
<1>6. OneJob'  BY <1>0, <1>2, <1>3 DEF OneJob, job
<1>7. GpuAgrees'  BY <1>0, <1>6 DEF GpuAgrees, Ran, OneJob
<1>8. Numbering'  BY <1>0 DEF Numbering, InCall, IsIdr
<1>9. UploadInOrder'
  <2>1. leftover = {} => ~fence  BY <1>0 DEF OneJob
  <2> QED  BY <1>0, <2>1 DEF UploadInOrder, Ran
<1>10. PacketIsOfItsFrame'  BY <1>0 DEF PacketIsOfItsFrame
<1> QED  BY <1>4, <1>5, <1>6, <1>7, <1>8, <1>9, <1>10

(* The fence wait ends when the encode has run. *)
LEMMA AwaitFenceInv ==
  ASSUME VulkanIInv, AwaitFence  PROVE VulkanIInv'
<1> USE DEF VulkanIInv
<1>0. /\ pc = "wait" /\ fence
      /\ \/ fence' = FALSE /\ pc' = "readback" /\ leftover' = leftover
         \/ pc' = "ready" /\ leftover' = leftover \cup {"fence"} /\ fence' = fence
      /\ UNCHANGED <<host, live, guard, frame_counter, frame_num, idr_pic_id, idr_requested, rc_dirty,
                     first_op, setup_slot, prev_frame, bitrate, frame, staging, copies, image,
                     upload_done, dpb, jobs, gpuRate, bitstream, packet, last, owed, requests>>
  BY DEF AwaitFence, probeVars, stateVars, callerVars
<1>2. VulkanTypeOK'  BY <1>0 DEF VulkanTypeOK
<1>3. ObjectsGuarded'  BY <1>0, ObjectsStay DEF probeVars, InCall
<1>4. OneJob'  BY <1>0 DEF OneJob
<1>5. GpuAgrees'  BY <1>0 DEF GpuAgrees, Ran, State, IsIdr
<1>6. Numbering'  BY <1>0 DEF Numbering, InCall, IsIdr
<1>7. UploadInOrder'  BY <1>0 DEF UploadInOrder, Ran
<1>8. PacketIsOfItsFrame'  BY <1>0 DEF PacketIsOfItsFrame
<1> QED  BY <1>2, <1>3, <1>4, <1>5, <1>6, <1>7, <1>8

(* The end of encode: the packet is returned, and what the next one follows  *)
(* is what this one was.                                                     *)
LEMMA ReadBackInv ==
  ASSUME VulkanIInv, ReadBack  PROVE VulkanIInv'
<1> USE DEF VulkanIInv
<1>0. /\ pc = "readback" /\ pc' = "ready" /\ packet' = bitstream
      /\ last' = [frame |-> frame, rate |-> bitrate] /\ owed' = FALSE
      /\ frame_counter' = frame_counter + 1
      /\ frame_num' = (frame_num + 1) % 2^FrameNumBits
      /\ idr_pic_id' = IF IsIdr THEN (idr_pic_id + 1) % 2 ELSE idr_pic_id
      /\ idr_requested' = FALSE /\ rc_dirty' = FALSE /\ first_op' = FALSE
      /\ setup_slot' = 1 - setup_slot /\ prev_frame' = State
      /\ UNCHANGED <<host, live, guard, bitrate, frame, staging, copies, image, upload_done, dpb, jobs,
                     gpuRate, bitstream, fence, leftover, requests>>
  BY DEF ReadBack, Advance, probeVars, gpuVars
<1>1. /\ frame_counter' \in Nat /\ frame_num' \in FrameNums /\ idr_pic_id' \in 0..1
      /\ setup_slot' \in 0..1 /\ 1 - setup_slot' = setup_slot
      /\ IsIdr => idr_pic_id' # idr_pic_id
  <2>1. frame_counter \in Nat /\ frame_num \in FrameNums /\ idr_pic_id \in 0..1 /\ setup_slot \in 0..1
    BY DEF VulkanTypeOK
  <2>2. frame_num' \in FrameNums  BY <1>0, <2>1, WrapFacts
  <2> QED  BY <1>0, <2>1, <2>2, SMTT(30)
<1>2. VulkanTypeOK'
  <2>1. last' \in [frame : Frames, rate : Rates \cup {0}]  BY <1>0 DEF VulkanTypeOK
  <2>2. prev_frame' \in StateType \cup {NoState}  BY <1>0, StateFacts
  <2> QED  BY <1>0, <1>1, <2>1, <2>2 DEF VulkanTypeOK
<1>3. ObjectsGuarded'  BY <1>0, ObjectsStay DEF probeVars, InCall
<1>4. OneJob'  BY <1>0 DEF OneJob
<1>5. GpuAgrees'  BY <1>0, <1>1 DEF GpuAgrees, Ran
<1>6. Numbering'
  <2>1. /\ prev_frame'.is_idr = IsIdr /\ prev_frame'.frame_num = frame_num
        /\ prev_frame'.idr_pic_id = idr_pic_id
    BY <1>0, StateFacts
  <2> QED  BY <1>0, <1>1, <2>1 DEF Numbering, InCall
<1>7. UploadInOrder'  BY <1>0 DEF UploadInOrder, Ran
<1>8. PacketIsOfItsFrame'  BY <1>0 DEF PacketIsOfItsFrame, UploadInOrder, GpuAgrees, Ran
<1> QED  BY <1>2, <1>3, <1>4, <1>5, <1>6, <1>7, <1>8

(* request_idr between calls. *)
LEMMA RequestIdrInv ==
  ASSUME VulkanIInv, RequestIdr  PROVE VulkanIInv'
<1> USE DEF VulkanIInv
<1>0. /\ pc = "ready" /\ pc' = "ready" /\ requests > 0 /\ requests' = requests - 1
      /\ idr_requested' = TRUE /\ owed' = TRUE
      /\ UNCHANGED <<host, live, guard, frame_counter, frame_num, idr_pic_id, rc_dirty, first_op,
                     setup_slot, prev_frame, bitrate, frame, staging, copies, image, upload_done, dpb,
                     jobs, gpuRate, bitstream, fence, leftover, packet, last>>
  BY DEF RequestIdr, probeVars, gpuVars
<1>1. requests' \in Nat  BY <1>0, SMTT(30) DEF VulkanTypeOK
<1>2. VulkanTypeOK'  BY <1>0, <1>1 DEF VulkanTypeOK
<1>3. ObjectsGuarded'  BY <1>0, ObjectsStay DEF probeVars, InCall
<1>4. OneJob'  BY <1>0 DEF OneJob
<1>5. GpuAgrees'  BY <1>0 DEF GpuAgrees, Ran
<1>6. Numbering'  BY <1>0 DEF Numbering, InCall, IsIdr
<1>7. UploadInOrder'  BY <1>0 DEF UploadInOrder, Ran
<1>8. PacketIsOfItsFrame'  BY <1>0 DEF PacketIsOfItsFrame
<1> QED  BY <1>2, <1>3, <1>4, <1>5, <1>6, <1>7, <1>8

(* set_bitrate between calls. *)
LEMMA SetBitrateInv ==
  ASSUME VulkanIInv, SetBitrate  PROVE VulkanIInv'
<1> USE DEF VulkanIInv
<1>0. /\ pc = "ready" /\ pc' = "ready" /\ requests > 0 /\ requests' = requests - 1
      /\ bitrate' \in Rates /\ rc_dirty' = TRUE
      /\ UNCHANGED <<host, live, guard, frame_counter, frame_num, idr_pic_id, idr_requested, first_op,
                     setup_slot, prev_frame, frame, staging, copies, image, upload_done, dpb,
                     jobs, gpuRate, bitstream, fence, leftover, packet, last, owed>>
  BY DEF SetBitrate, probeVars, gpuVars
<1>1. requests' \in Nat  BY <1>0, SMTT(30) DEF VulkanTypeOK
<1>2. VulkanTypeOK'  BY <1>0, <1>1 DEF VulkanTypeOK
<1>3. ObjectsGuarded'  BY <1>0, ObjectsStay DEF probeVars, InCall
<1>4. OneJob'  BY <1>0 DEF OneJob
<1>5. GpuAgrees'  BY <1>0 DEF GpuAgrees, Ran
<1>6. Numbering'  BY <1>0 DEF Numbering, InCall, IsIdr
<1>7. UploadInOrder'  BY <1>0 DEF UploadInOrder, Ran
<1>8. PacketIsOfItsFrame'  BY <1>0 DEF PacketIsOfItsFrame
<1> QED  BY <1>2, <1>3, <1>4, <1>5, <1>6, <1>7, <1>8

(* The transfer queue runs a copy. *)
LEMMA CopyRunsInv ==
  ASSUME VulkanIInv, CopyRuns  PROVE VulkanIInv'
<1> USE DEF VulkanIInv
<1>0. /\ copies > 0 /\ copies' = copies - 1 /\ image' = staging /\ upload_done' = TRUE
      /\ UNCHANGED <<host, live, guard, pc, frame_counter, frame_num, idr_pic_id, idr_requested,
                     rc_dirty, first_op, setup_slot, prev_frame, bitrate, frame, staging, dpb, jobs,
                     gpuRate, bitstream, fence, leftover, packet, last, owed, requests>>
  BY DEF CopyRuns, probeVars, stateVars, callerVars
<1>1. copies' \in Nat /\ copies # 0  BY <1>0, SMTT(30) DEF VulkanTypeOK
<1>2. VulkanTypeOK'  BY <1>0, <1>1, SMTT(30) DEF VulkanTypeOK
<1>3. ObjectsGuarded'  BY <1>0 DEF ObjectsGuarded, NothingLeaks
<1>4. OneJob'  BY <1>0 DEF OneJob, State, IsIdr, RecordedRate
<1>5. GpuAgrees'  BY <1>0 DEF GpuAgrees, Ran, State, IsIdr
<1>6. Numbering'  BY <1>0 DEF Numbering, InCall, IsIdr
<1>7. UploadInOrder'  BY <1>0, <1>1, SMTT(30) DEF UploadInOrder, Ran
<1>8. PacketIsOfItsFrame'  BY <1>0 DEF PacketIsOfItsFrame
<1> QED  BY <1>2, <1>3, <1>4, <1>5, <1>6, <1>7, <1>8

(* The encode queue runs a job. *)
LEMMA EncodeRunsInv ==
  ASSUME VulkanIInv, EncodeRuns  PROVE VulkanIInv'
<1> USE DEF VulkanIInv
<1> DEFINE job == Head(jobs)
           rate == IF job.rate # 0 THEN job.rate ELSE gpuRate
<1>0. /\ jobs # <<>> /\ upload_done /\ jobs' = Tail(jobs) /\ upload_done' = FALSE /\ fence' = TRUE
      /\ gpuRate' = rate
      /\ bitstream' = [frame |-> image,
                       ref |-> IF job.state.is_idr THEN 0 ELSE dpb[1 - job.setup],
                       rate |-> rate, state |-> job.state]
      /\ dpb' = [dpb EXCEPT ![job.setup] = image]
      /\ UNCHANGED <<host, live, guard, pc, frame_counter, frame_num, idr_pic_id, idr_requested,
                     rc_dirty, first_op, setup_slot, prev_frame, bitrate, frame, staging, copies, image,
                     leftover, packet, last, owed, requests>>
  BY DEF EncodeRuns, probeVars, stateVars, callerVars
<1>1. job \in JobType /\ jobs' \in Seq(JobType)  BY <1>0, HeadTailProperties DEF VulkanTypeOK
<1>2. /\ job.state \in StateType /\ job.setup \in 0..1 /\ rate \in Rates \cup {0}
      /\ 1 - job.setup \in 0..1 /\ 1 - job.setup # job.setup
  BY <1>1, SMTT(30) DEF JobType, VulkanTypeOK
<1>a. "fence" \notin leftover =>
        /\ pc = "wait" /\ ~fence /\ job.state = State /\ job.setup = setup_slot
        /\ job.rate = RecordedRate /\ jobs' = <<>>
  <2> DEFINE j == [state |-> State, setup |-> setup_slot, rate |-> RecordedRate]
  <2>1. j.state = State /\ j.setup = setup_slot /\ j.rate = RecordedRate  OBVIOUS
  <2>2. "fence" \notin leftover => pc = "wait" /\ ~fence /\ jobs = <<j>>  BY <1>0 DEF OneJob
  <2> HIDE DEF j
  <2>3. Head(<<j>>) = j /\ Tail(<<j>>) = <<>>  BY SMTT(30)
  <2> QED  BY <1>0, <2>1, <2>2, <2>3
<1> HIDE DEF job
<1>3. bitstream' \in PacketType
  <2>1. dpb[1 - job.setup] \in Frames /\ image \in Frames /\ 0 \in Frames
    BY <1>2, VulkanAssumption, SMTT(30) DEF VulkanTypeOK, Frames
  <2>2. (IF job.state.is_idr THEN 0 ELSE dpb[1 - job.setup]) \in Frames  BY <2>1
  <2> HIDE DEF rate
  <2> QED  BY <1>0, <1>2, <2>1, <2>2 DEF PacketType
<1>4. VulkanTypeOK'
  <2>1. dpb' \in [0..1 -> Frames]  BY <1>0, <1>2 DEF VulkanTypeOK
  <2>2. gpuRate' \in Rates \cup {0}  BY <1>0, <1>2
  <2> QED  BY <1>0, <1>1, <1>3, <2>1, <2>2 DEF VulkanTypeOK
<1>5. "fence" \notin leftover => rate = bitrate
  <2>1. bitrate # 0  BY VulkanAssumption DEF VulkanTypeOK
  <2> QED  BY <1>a, <2>1 DEF GpuAgrees, RecordedRate
<1>6. ObjectsGuarded'  BY <1>0 DEF ObjectsGuarded, NothingLeaks
<1>7. OneJob'  BY <1>0, <1>a DEF OneJob
<1>8. State' = State /\ IsIdr' = IsIdr /\ State.is_idr = IsIdr
  BY <1>0, StateFacts DEF State, IsIdr
<1>9. GpuAgrees'
  <2>1. /\ dpb'[job.setup] = image /\ dpb'[1 - job.setup] = dpb[1 - job.setup]
    BY <1>0, <1>2 DEF VulkanTypeOK
  <2>2. /\ bitstream'.state = job.state /\ bitstream'.frame = image /\ bitstream'.rate = rate
        /\ ~job.state.is_idr => bitstream'.ref = dpb[1 - job.setup]
    BY <1>0
  <2> HIDE DEF rate
  <2> QED  BY <1>0, <1>a, <1>5, <1>8, <2>1, <2>2 DEF GpuAgrees, Ran
<1>10. Numbering'  BY <1>0 DEF Numbering, InCall, IsIdr
<1>11. UploadInOrder'
  <2>1. leftover = {} => pc = "wait" /\ ~fence  BY <1>a
  <2> QED  BY <1>0, <2>1 DEF UploadInOrder, Ran
<1>12. PacketIsOfItsFrame'  BY <1>0 DEF PacketIsOfItsFrame
<1> QED  BY <1>4, <1>6, <1>7, <1>9, <1>10, <1>11, <1>12

(* The session before its probe. *)
LEMMA VulkanInitInv ==
  ASSUME VulkanInit  PROVE VulkanIInv
<1>1. VulkanTypeOK
  <2>1. 0 \in Frames /\ 0 \in FrameNums  BY VulkanAssumption, WrapFacts, SMTT(30) DEF Frames
  <2>2. NoPacket \in PacketType  BY <2>1 DEF NoPacket, PacketType
  <2>3. last \in [frame : Frames, rate : Rates \cup {0}] /\ dpb \in [0..1 -> Frames]
    BY <2>1 DEF VulkanInit
  <2>4. jobs \in Seq(JobType)  BY SMTT(30) DEF VulkanInit
  <2>5. /\ idr_requested \in BOOLEAN /\ rc_dirty \in BOOLEAN /\ first_op \in BOOLEAN
        /\ upload_done \in BOOLEAN /\ fence \in BOOLEAN /\ owed \in BOOLEAN
        /\ requests \in Nat /\ leftover \subseteq {"upload", "fence"}
    BY VulkanAssumption DEF VulkanInit
  <2>6. pc \in Pcs /\ prev_frame \in StateType \cup {NoState}  BY DEF VulkanInit, Pcs
  <2> QED  BY <2>1, <2>2, <2>3, <2>4, <2>5, <2>6, SMTT(30) DEF VulkanInit, VulkanTypeOK, Pcs
<1>2. packet.state = NoState /\ NoState.is_idr = FALSE  BY DEF VulkanInit, NoPacket, NoState
<1>3. ObjectsGuarded  BY DEF VulkanInit, ObjectsGuarded, NothingLeaks, NewSteps
<1>4. GpuAgrees /\ OneJob  BY <1>2 DEF VulkanInit, GpuAgrees, OneJob, Ran
<1>5. Numbering  BY <1>2 DEF VulkanInit, Numbering, InCall, IsIdr
<1> QED  BY <1>1, <1>3, <1>4, <1>5 DEF VulkanInit, VulkanIInv, UploadInOrder, Ran, PacketIsOfItsFrame

(* Every step of the Vulkan encoder keeps the invariant, *)
LEMMA VulkanStepInv ==
  ASSUME VulkanIInv, VulkanNext  PROVE VulkanIInv'
<1>1. CASE Creation  BY <1>1, ProbeInv, CreateStepsInv, CreateFailsInv, CreatedInv DEF Creation
<1>2. CASE Encode
  BY <1>2, BeginEncodeInv, UploadInputInv, CallFailsInv, SubmitEncodeInv, AwaitFenceInv, ReadBackInv
     DEF Encode
<1> QED  BY <1>1, <1>2, CopyRunsInv, EncodeRunsInv, RequestIdrInv, SetBitrateInv, DropInv
         DEF VulkanNext, Gpu

(* and so does a step of something else. *)
LEMMA VulkanStutterInv ==
  ASSUME VulkanIInv, UNCHANGED vars  PROVE VulkanIInv'
<1> USE DEF VulkanIInv
<1>0. UNCHANGED <<host, live, guard, pc, frame_counter, frame_num, idr_pic_id, idr_requested, rc_dirty,
                  first_op, setup_slot, prev_frame, bitrate, frame, staging, copies, image, upload_done,
                  dpb, jobs, gpuRate, bitstream, fence, leftover, packet, last, owed, requests>>
  BY DEF vars, probeVars, stateVars, gpuVars, callerVars
<1>1. VulkanTypeOK'  BY <1>0, SMTT(30) DEF VulkanTypeOK
<1>2. ObjectsGuarded'  BY <1>0 DEF ObjectsGuarded, NothingLeaks
<1>3. State' = State /\ (IsIdr' <=> IsIdr) /\ RecordedRate' = RecordedRate
  BY <1>0 DEF State, IsIdr, RecordedRate
<1>4. OneJob'  BY <1>0, <1>3 DEF OneJob
<1>5. GpuAgrees'  BY <1>0, <1>3 DEF GpuAgrees, Ran
<1>6. Numbering'  BY <1>0, <1>3 DEF Numbering, InCall
<1>7. UploadInOrder'  BY <1>0 DEF UploadInOrder, Ran
<1>8. PacketIsOfItsFrame'  BY <1>0 DEF PacketIsOfItsFrame
<1> QED  BY <1>1, <1>2, <1>4, <1>5, <1>6, <1>7, <1>8

(* One step of the stream: see StreamIsDecodable. *)
LEMMA StreamStep ==
  ASSUME VulkanIInv, VulkanNext, packet' # packet, "fence" \notin leftover
  PROVE  LET s == packet'.state
         IN  IF s.is_idr
             THEN s.frame_num = 0 /\ (packet.state.is_idr => s.idr_pic_id # packet.state.idr_pic_id)
             ELSE /\ packet'.ref = packet.frame
                  /\ s.frame_num = (packet.state.frame_num + 1) % 2^FrameNumBits
                  /\ ~owed
<1> USE DEF VulkanIInv
<1>1. ReadBack
  <2>1. ~Creation
    BY DEF Creation, Probe, CreateVideoSession, CreateParameters, CreateImages, CreateImage, CreateViews,
           CreateBuffers, CreateBuffer, CreateCommands, CreatePool, Create, CreateFails, GuardDrop,
           Created, callerVars
  <2>2. Encode => ReadBack
    BY DEF Encode, BeginEncode, UploadInput, UploadFails, SubmitEncode, SubmitFails, AwaitFence,
           ReadBackFails, EncodeFails, callerVars
  <2>3. ~Gpu /\ ~RequestIdr /\ ~SetBitrate /\ ~DropSession /\ ~DropContext
    BY DEF Gpu, CopyRuns, EncodeRuns, RequestIdr, SetBitrate, DropSession, DropContext, callerVars
  <2> QED  BY <2>1, <2>2, <2>3 DEF VulkanNext
<1>2. Ran /\ InCall /\ packet' = bitstream  BY <1>1 DEF ReadBack, Ran, InCall
<1>3. /\ packet'.state = State /\ (~IsIdr => packet'.ref = dpb[1 - setup_slot])
      /\ prev_frame = packet.state /\ (prev_frame # NoState => dpb[1 - setup_slot] = packet.frame)
  BY <1>2 DEF GpuAgrees
<1>4. State.is_idr = IsIdr /\ State.frame_num = frame_num /\ State.idr_pic_id = idr_pic_id
  BY StateFacts
<1>5. ~IsIdr => prev_frame # NoState /\ ~idr_requested  BY DEF IsIdr
<1> QED  BY <1>2, <1>3, <1>4, <1>5 DEF Numbering

-----------------------------------------------------------------------------
(* The encoders together.                                                  *)

(* Of the candidates only the one in use is beyond its first or last state.  *)
OneInUse ==
  /\ candidates # <<>> /\ candidates \in Seq({"ffmpeg", "software", "vaapi", "vulkan"})
  /\ backend = Head(candidates)
  /\ backend = "vulkan" => caller = "idle"
  /\ backend # "vulkan" => pc \in {"probe", "failed"}

(* The inductive invariant of the encoders. *)
EncodersIInv == VulkanIInv /\ ThreadIInv /\ OneInUse

(* The next candidate is the first of those that are left. *)
LEMMA NextBackendInv ==
  ASSUME EncodersIInv, NextBackend  PROVE EncodersIInv'
<1> USE DEF EncodersIInv
<1>1. caller \in {"idle", "refused"} /\ (backend = "vulkan" => pc = "failed")
  BY DEF NextBackend, Refused, OneInUse
<1>2. ThreadIInv'  BY <1>1, NextCandidateInv DEF NextBackend
<1>3. VulkanIInv' /\ pc' = pc  BY VulkanStutterInv DEF NextBackend, vars
<1>4. OneInUse'
  <2>1. candidates' \in Seq({"ffmpeg", "software", "vaapi", "vulkan"})
        /\ Len(candidates') = Len(candidates) - 1
    BY HeadTailProperties DEF NextBackend, OneInUse
  <2>2. candidates' # <<>>
    <3>1. Len(candidates) > 1 /\ Len(candidates) \in Nat  BY LenProperties DEF NextBackend, OneInUse
    <3>2. Len(candidates') # 0  BY <2>1, <3>1, SMTT(30)
    <3> QED  BY <3>2, SMTT(30)
  <2>3. backend' = Head(candidates') /\ caller' = "idle"  BY DEF NextBackend
  <2> QED  BY <1>1, <1>3, <2>1, <2>2, <2>3 DEF OneInUse
<1> QED  BY <1>2, <1>3, <1>4

(* The thread and its caller stay with their backend. *)
LEMMA ThreadKeepsBackend ==
  ASSUME ThreadNext  PROVE backend' = backend
BY DEF ThreadNext, Caller, Thread, NewEncoder, NewEncoderFails, Spawn, ReportFailure, Spawned,
       CallEncode, EncodeReturned, Reclaim, CallRequestIdr, CallSetBitrate, CallDrop, Joined,
       AllocPool, AllocPoolFails, Open, OpenFails, EncodeRefused, Send, SendFails, Drain, ApplyIdr,
       ApplyBitrate, Stop, Panic, Unwound

(* The inductive invariant of the encoders holds throughout: see             *)
(* VulkanIInv, ThreadIInv and OneInUse.                                      *)
THEOREM EncodersInvariant == EncodersSpec => []EncodersIInv
<1>1. EncodersInit => EncodersIInv
  <2> SUFFICES ASSUME EncodersInit PROVE EncodersIInv  OBVIOUS
  <2>1. OneInUse  BY CandidatesAssumption DEF EncodersInit, VulkanInit, ThreadInit, OneInUse
  <2> QED  BY <2>1, VulkanInitInv, ThreadInitInv DEF EncodersInit, EncodersIInv
<1>2. EncodersIInv /\ [EncodersNext]_encoderVars => EncodersIInv'
  <2> SUFFICES ASSUME EncodersIInv, [EncodersNext]_encoderVars PROVE EncodersIInv'  OBVIOUS
  <2>1. CASE VulkanStep(VulkanNext)
    <3>1. ThreadIInv'  BY <2>1, ThreadStutterInv DEF VulkanStep, EncodersIInv
    <3>2. UNCHANGED <<caller, backend, candidates>>  BY <2>1 DEF VulkanStep, threadVars
    <3>3. OneInUse'  BY <2>1, <3>2 DEF VulkanStep, EncodersIInv, OneInUse
    <3> QED  BY <2>1, <3>1, <3>3, VulkanStepInv DEF VulkanStep, EncodersIInv
  <2>2. CASE ThreadStep(ThreadNext)
    <3>1. VulkanIInv'  BY <2>2, VulkanStutterInv DEF ThreadStep, EncodersIInv
    <3>2. UNCHANGED <<pc, backend, candidates>>  BY <2>2, ThreadKeepsBackend DEF ThreadStep, vars
    <3>3. OneInUse'  BY <2>2, <3>2 DEF ThreadStep, EncodersIInv, OneInUse
    <3> QED  BY <2>2, <3>1, <3>3, ThreadStepInv DEF ThreadStep, EncodersIInv
  <2>3. CASE UNCHANGED encoderVars
    <3>1. UNCHANGED <<vars, threadVars, candidates, pc, caller, backend>>
      BY <2>3 DEF encoderVars, vars, threadVars
    <3> QED  BY <3>1, VulkanStutterInv, ThreadStutterInv DEF EncodersIInv, OneInUse
  <2> QED  BY <2>1, <2>2, <2>3, NextBackendInv DEF EncodersNext
<1> QED  BY <1>1, <1>2, PTL DEF EncodersSpec

(* EncodersSafe for every machine, pool, wrap of frame_num and list of       *)
(* candidates: the packet encode returns is its own frame's, the reference   *)
(* of the next is a picture the decoder has, and a picture taken is in the   *)
(* codec, with the caller, or was lost with a drain that failed.             *)
THEOREM EncodersAreSafe == EncodersSpec => []EncodersSafe
<1>1. EncodersIInv => EncodersSafe
  <2> SUFFICES ASSUME EncodersIInv PROVE EncodersSafe  OBVIOUS
  <2> USE DEF EncodersIInv
  <2>1. Len(reply) <= 1
    <3>1. CASE reply = <<>>  BY <3>1, SMTT(30)
    <3>2. CASE reply = <<"ok">>  BY <3>2, SMTT(30)
    <3>3. CASE \E p \in Seq(Nat) : reply = <<[packets |-> p]>>
      <4>1. PICK p \in Seq(Nat) : reply = <<[packets |-> p]>>  BY <3>3
      <4> QED  BY <4>1, SMTT(30)
    <3> QED  BY <3>1, <3>2, <3>3 DEF ThreadIInv, ReplyIsAwaited
  <2>2. backend \in {"ffmpeg", "software", "vaapi", "vulkan"}
    BY HeadTailProperties DEF OneInUse
  <2>3. ThreadTypeOK  BY <2>1, <2>2 DEF ThreadIInv, ThreadShape, ThreadTypeOK
  <2>4. ReferenceIsDelivered  BY DEF ReferenceIsDelivered, VulkanIInv, GpuAgrees
  <2>5. NoPictureLost
    <3>1. Len(Packets) = IF reply # <<>> /\ caller = "waiting" THEN Len(reply[1].packets) ELSE 0
      BY DEF Packets
    <3> QED  BY <3>1 DEF NoPictureLost, ThreadIInv, PicturesCounted
  <2> QED  BY <2>3, <2>4, <2>5 DEF EncodersSafe, VulkanIInv
<1> QED  BY <1>1, EncodersInvariant, PTL

(* OwnershipIsClear likewise: no clone of a frame outlives its call, no call *)
(* is answered with another's answer, and of a session that failed or was    *)
(* dropped, and of a candidate given up, only the two known leaks remain.    *)
THEOREM OwnershipStaysClear == EncodersSpec => []OwnershipIsClear
<1>1. EncodersIInv => OwnershipIsClear
  <2> SUFFICES ASSUME EncodersIInv PROVE OwnershipIsClear  OBVIOUS
  <2> USE DEF EncodersIInv, ThreadIInv
  <2>1. FrameIsReclaimable
    <3>1. Queued => caller = "waiting"  BY QueuedFacts DEF ThreadShape, LastInChannel
    <3> QED  BY <3>1 DEF FrameIsReclaimable, FrameIsThreads, InStep
  <2>2. OneCallAtATime  BY DEF OneCallAtATime, ReplyIsAwaited, InStep, Alive
  <2>3. NothingLeaks  BY DEF VulkanIInv, ObjectsGuarded
  <2>4. SessionLeavesNothing  BY DEF SessionLeavesNothing, ObjectsHeld, InStep
  <2>5. OneBackendHolds
    BY <2>3 DEF OneBackendHolds, NothingLeaks, OneInUse, VulkanIInv, ObjectsGuarded, ObjectsHeld, InStep
  <2> QED  BY <2>1, <2>2, <2>3, <2>4, <2>5 DEF OwnershipIsClear
<1> QED  BY <1>1, EncodersInvariant, PTL

(* StreamIsDecodable: whatever calls fail, and however far they came, the    *)
(* packets of a Vulkan session are a legal sequence to a decoder.            *)
THEOREM StreamStaysDecodable == EncodersSpec => StreamIsDecodable
<1>1. ASSUME EncodersIInv, [EncodersNext]_encoderVars, packet' # packet, "fence" \notin leftover
      PROVE  LET s == packet'.state
             IN  IF s.is_idr
                 THEN s.frame_num = 0 /\ (packet.state.is_idr => s.idr_pic_id # packet.state.idr_pic_id)
                 ELSE /\ packet'.ref = packet.frame
                      /\ s.frame_num = (packet.state.frame_num + 1) % 2^FrameNumBits
                      /\ ~owed
  <2>1. ~UNCHANGED vars  BY <1>1 DEF vars, callerVars
  <2>2. VulkanNext
    BY <1>1, <2>1 DEF EncodersNext, NextBackend, ThreadStep, VulkanStep, encoderVars
  <2> QED  BY <1>1, <2>2, StreamStep DEF EncodersIInv
<1> QED  BY <1>1, EncodersInvariant, PTL DEF EncodersSpec, StreamIsDecodable

(* PicturesInOrder: a requested IDR is the next picture the codec takes, and *)
(* the numbers of the packets the caller gets increase.                      *)
THEOREM PicturesStayInOrder == EncodersSpec => PicturesInOrder
<1>1. ASSUME EncodersIInv, [EncodersNext]_encoderVars
      PROVE  /\ taken' > taken /\ idrOwed => inside'[Len(inside')].idr
             /\ got' > got => received' > received
  <2> USE DEF EncodersIInv
  <2>0. taken \in Nat /\ got \in Nat  BY <1>1 DEF ThreadIInv, ThreadShape
  <2>1. CASE UNCHANGED <<taken, got>>  BY <2>0, <2>1, SMTT(30)
  <2>2. CASE Send
    <3>1. idrOwed => inside'[Len(inside')].idr  BY <1>1, <2>2, SendInv
    <3> QED  BY <2>0, <2>2, <3>1, SMTT(30) DEF Send
  <2>3. CASE EncodeReturned
    <3>1. taken' = taken /\ caller = "waiting"  BY <2>3 DEF EncodeReturned
    <3>2. CASE ReplyDropped /\ UNCHANGED <<reply, got, received>>  BY <2>0, <3>1, <3>2, SMTT(30)
    <3>3. CASE reply # <<>> /\ got' = got + Len(reply[1].packets)
               /\ received' = IF reply[1].packets = <<>> THEN received
                              ELSE reply[1].packets[Len(reply[1].packets)]
      <4>1. Packets \in Seq(Nat) /\ Packets = reply[1].packets  BY <1>1, <3>1, <3>3, AnswerFacts
      <4> DEFINE p == Packets
      <4>2. p \in Seq(Nat) /\ got' = got + Len(p) /\ received' = IF p = <<>> THEN received ELSE p[Len(p)]
        BY <3>3, <4>1
      <4>3. \A k \in 1..Len(p) : received < p[k]  BY <1>1 DEF ThreadIInv, NumbersIncrease
      <4> HIDE DEF p
      <4>4. Len(p) \in Nat /\ (p # <<>> => Len(p) >= 1 /\ Len(p) \in 1..Len(p))
        BY <4>2, LenProperties, EmptySeq, SMTT(30)
      <4>5. p # <<>> => p[Len(p)] \in Nat /\ received < p[Len(p)]  BY <4>2, <4>3, <4>4, ElementOfSeq
      <4>6. received \in Int  BY <1>1 DEF ThreadIInv, ThreadShape
      <4>7. p = <<>> => got' = got  BY <2>0, <4>2, SMTT(30)
      <4> QED  BY <2>0, <3>1, <4>2, <4>5, <4>6, <4>7, SMTT(30)
    <3> QED  BY <2>3, <3>2, <3>3 DEF EncodeReturned
  <2>4. ThreadNext => UNCHANGED <<taken, got>> \/ Send \/ EncodeReturned
    BY DEF ThreadNext, Caller, Thread, NewEncoder, NewEncoderFails, Spawn, ReportFailure, Spawned,
           CallEncode, Reclaim, CallRequestIdr, CallSetBitrate, CallDrop, Joined, AllocPool,
           AllocPoolFails, Open, OpenFails, EncodeRefused, SendFails, Drain, ApplyIdr, ApplyBitrate,
           Stop, Panic, Unwound, countVars
  <2>5. [EncodersNext]_encoderVars => UNCHANGED <<taken, got>> \/ ThreadNext
    BY DEF EncodersNext, NextBackend, VulkanStep, ThreadStep, encoderVars, threadVars, countVars
  <2> QED  BY <1>1, <2>1, <2>2, <2>3, <2>4, <2>5
<1> QED  BY <1>1, EncodersInvariant, PTL DEF EncodersSpec, PicturesInOrder

(* The two halves run side by side as each would alone, so all of the above  *)
(* holds of the host's way out for video as a whole.                         *)
THEOREM HalvesAreIndependent == HostVideoSpec => EncodersSpec /\ SenderSpec
<1>1. HostVideoInit => EncodersInit /\ SenderInit  BY DEF HostVideoInit
<1>2. [HostVideoNext]_hostVideoVars => [EncodersNext]_encoderVars /\ [SenderNext]_senderVars
  BY DEF HostVideoNext, Encoding, Sending, hostVideoVars
<1> QED  BY <1>1, <1>2, PTL DEF HostVideoSpec, EncodersSpec, SenderSpec
=============================================================================
