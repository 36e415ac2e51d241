--------------------------- MODULE VulkanSession ---------------------------
(***************************************************************************)
(* The Vulkan Video H.264 encoder (flux-encode/src/backend/vulkan): the    *)
(* device probe, VulkanVideoSession::new with the SessionGuard that undoes *)
(* it, the encode call, which spreads one frame over the host and two GPU  *)
(* queues, and Drop.  Every Vulkan call may fail.                          *)
(*                                                                         *)
(* A frame is its sequence number, 0 is none, and a picture is the frame   *)
(* its pixels come from.  The GPU is external: a queue runs what was       *)
(* submitted to it some time later, in order.                              *)
(***************************************************************************)
EXTENDS Integers, Sequences

CONSTANTS
  Hosts,         \* the machines Init chooses from: sets of physical devices
  Interval,      \* idr_interval
  FrameNumBits,  \* log2_max_frame_num (16 in the code)
  Rates,         \* bitrates; every source of one has a positive minimum
  MaxFrames,     \* bound: frames handed to encode
  MaxRequests    \* bound: IDR requests and bitrate changes

ASSUME VulkanAssumption ==
  /\ Interval \in Nat \ {0}
  /\ FrameNumBits \in Nat
  /\ 2^FrameNumBits \in Nat /\ 2^FrameNumBits > 1
  /\ Rates # {} /\ 0 \notin Rates
  /\ MaxFrames \in Nat
  /\ MaxRequests \in Nat

Frames == 0..MaxFrames
FrameNums == 0..(2^FrameNumBits - 1)
NoState == [is_idr |-> FALSE, frame_num |-> -1, idr_pic_id |-> 0]
StateType == [is_idr : BOOLEAN, frame_num : FrameNums, idr_pic_id : 0..1]
NoPacket == [frame |-> 0, ref |-> 0, rate |-> 0, state |-> NoState]
PacketType == [frame : Frames, ref : Frames, rate : Rates \cup {0},
               state : StateType \cup {NoState}]

VARIABLES
  host,          \* the physical devices
  pc,            \* where the encoder or the call in progress is
  live,          \* Vulkan objects created and not destroyed
  guard,         \* those SessionGuard destroys when new fails
  frame_counter, frame_num, idr_pic_id, idr_requested, rc_dirty, first_op,
  setup_slot, prev_frame,
  bitrate,       \* config.bitrate_kbps
  frame,         \* the frame encode works on
  staging,       \* the frame in the staging buffer
  copies,        \* copies submitted to the transfer queue and not run
  image,         \* the picture in the input image
  upload_done,   \* the semaphore is signalled
  dpb,           \* the pictures in the two DPB slots
  jobs,          \* encodes submitted to the encode queue and not run
  gpuRate,       \* the bitrate the device's rate control has
  bitstream,     \* the packet in the bitstream buffer
  fence,         \* the fence is signalled
  leftover,      \* what a failed call left signalled: "upload", "fence"
  packet,        \* the last packet encode returned
  last,          \* the frame that packet was asked for, and its bitrate
  owed,          \* request_idr was called and no packet returned since
  requests

probeVars == <<host, live, guard>>
stateVars == <<frame_counter, frame_num, idr_pic_id, idr_requested, rc_dirty,
               first_op, setup_slot, prev_frame>>
gpuVars == <<staging, copies, image, upload_done, dpb, jobs, gpuRate,
             bitstream, fence>>
callerVars == <<packet, last, owed, requests>>
vars == <<probeVars, pc, stateVars, bitrate, frame, gpuVars, leftover,
          callerVars>>

JobType == [state : StateType, setup : 0..1, rate : Rates \cup {0}]

-----------------------------------------------------------------------------
(* The probe.  A physical device is a record of its type's rank, of        *)
(* whether it has Vulkan 1.3 and the extensions, of whether it encodes     *)
(* NV12 as H.264, of its DPB slots, and of its queue families, each a set  *)
(* of the capabilities the code tests.                                     *)

(* find_queue_families: a device without an H.264 encode family is no use; *)
(* which family copies does not matter here, for the two queues' work is   *)
(* ordered by the semaphore alone even if they are one queue.              *)
EncodeFamilies(d) == {i \in DOMAIN d.families : "encode" \in d.families[i]}

(* query_h264_caps *)
H264Caps(d) == d.h264

(* try_init_device skips a device without what the code needs. *)
Suitable(d) == d.extensions /\ EncodeFamilies(d) # {} /\ H264Caps(d)

(* validate_config refuses a driver whose DPB cannot hold a reference. *)
Valid(d) == d.slots >= 2

Preferred(devices) ==
  CHOOSE d \in {x \in devices : Suitable(x)} :
    \A x \in devices : Suitable(x) => d.rank <= x.rank

VulkanInit ==
  /\ host \in Hosts
  /\ pc = "probe"
  /\ live = {} /\ guard = {}
  /\ frame_counter = 0 /\ frame_num = 0 /\ idr_pic_id = 0
  /\ idr_requested = TRUE /\ rc_dirty = TRUE /\ first_op = TRUE
  /\ setup_slot = 0 /\ prev_frame = NoState
  /\ bitrate \in Rates
  /\ frame = 0 /\ staging = 0 /\ copies = 0 /\ image = 0
  /\ upload_done = FALSE
  /\ dpb = [s \in 0..1 |-> 0]
  /\ jobs = <<>>
  /\ gpuRate = 0
  /\ bitstream = NoPacket
  /\ fence = FALSE
  /\ leftover = {}
  /\ packet = NoPacket
  /\ last = [frame |-> 0, rate |-> 0]
  /\ owed = FALSE
  /\ requests = MaxRequests

(* VulkanVideoEncoder::new: vkCreateInstance, then a device with a queue   *)
(* of each family, or the instance is destroyed.                           *)
Probe ==
  /\ pc = "probe"
  /\ \/ /\ \E d \in host : Suitable(d)
        /\ live' = {"instance", Preferred(host).name}
        /\ pc' = "session"
     \/ /\ live' = {}
        /\ pc' = "failed"
  /\ UNCHANGED <<host, guard, stateVars, bitrate, frame, gpuVars, leftover,
                 callerVars>>

-----------------------------------------------------------------------------
(* VulkanVideoSession::new.                                                *)

Create(from, objects, to) ==
  /\ pc = from
  /\ live' = live \cup objects
  /\ guard' = guard \cup objects
  /\ pc' = to
  /\ UNCHANGED <<host, stateVars, bitrate, frame, gpuVars, leftover,
                 callerVars>>

(* `?` in new: the guard's drop destroys what it was told of. *)
GuardDrop(unguarded) ==
  /\ live' = (live \cup unguarded) \ guard
  /\ guard' = {}
  /\ pc' = "refused"
  /\ UNCHANGED <<host, stateVars, bitrate, frame, gpuVars, leftover,
                 callerVars>>

(* create_image, create_buffer and create_pool_and_cmd undo their own      *)
(* first half, so each adds all of its objects or none.                    *)
MemoryOf(name) == name \o "_memory"
CreateImage(from, name, to) == Create(from, {name, MemoryOf(name)}, to)
CreateBuffer(from, name, to) == Create(from, {name, MemoryOf(name)}, to)
CreatePool(from, name, to) == Create(from, {name}, to)

CreateVideoSession ==
  \/ /\ pc = "session"
     /\ Valid(Preferred(host))
     /\ Create("session", {"video_session"}, "memory")
  \/ Create("memory", {"session_memory"}, "params")
CreateParameters == Create("params", {"session_params"}, "input_image")
CreateImages ==
  \/ CreateImage("input_image", "input", "dpb_image")
  \/ CreateImage("dpb_image", "dpb", "views")
CreateViews ==
  \/ Create("views", {"input_view"}, "dpb_views")
  \/ Create("dpb_views", {"dpb_view0", "dpb_view1"}, "staging_buffer")
CreateBuffers ==
  \/ CreateBuffer("staging_buffer", "staging", "bitstream_buffer")
  \/ CreateBuffer("bitstream_buffer", "bitstream", "query_pool")
CreateCommands ==
  \/ Create("query_pool", {"query_pool"}, "transfer_pool")
  \/ CreatePool("transfer_pool", "transfer_pool", "encode_pool")
  \/ CreatePool("encode_pool", "encode_pool", "semaphore")
  \/ Create("semaphore", {"upload_done"}, "fence")
  \/ Create("fence", {"fence"}, "disarm")

NewSteps == {"session", "memory", "params", "input_image", "dpb_image",
             "views", "dpb_views", "staging_buffer", "bitstream_buffer",
             "query_pool", "transfer_pool", "encode_pool", "semaphore",
             "fence"}

(* A step of new fails.  The two DPB views are made in one array literal,  *)
(* so the first is not in the guard's list when making the second fails.   *)
CreateFails ==
  /\ pc \in NewSteps
  /\ \/ GuardDrop({})
     \/ pc = "dpb_views" /\ GuardDrop({"dpb_view0"})

(* guard.disarm: the session owns everything. *)
Created ==
  /\ pc = "disarm"
  /\ guard' = {}
  /\ pc' = "ready"
  /\ UNCHANGED <<host, live, stateVars, bitrate, frame, gpuVars, leftover,
                 callerVars>>

-----------------------------------------------------------------------------
(* encode.                                                                 *)

(* `?` in encode: the call returns, and only what was assigned stays. *)
EncodeFails ==
  /\ pc' = "ready"
  /\ UNCHANGED <<probeVars, stateVars, bitrate, frame, callerVars>>

IsIdr ==
  \/ idr_requested
  \/ prev_frame = NoState
  \/ frame_counter % Interval = 0

(* Up to the upload: convert the frame, decide on an IDR, which restarts   *)
(* frame_num.  A frame frame_to_nv12 refuses changes nothing.              *)
BeginEncode ==
  /\ pc = "ready"
  /\ frame < MaxFrames
  /\ frame' = frame + 1
  /\ \/ /\ pc' = "upload"
        /\ frame_num' = IF IsIdr THEN 0 ELSE frame_num
     \/ UNCHANGED <<pc, frame_num>>
  /\ UNCHANGED <<probeVars, frame_counter, idr_pic_id, idr_requested,
                 rc_dirty, first_op, setup_slot, prev_frame, bitrate,
                 gpuVars, leftover, callerVars>>

(* h264::FrameState of the frame in progress. *)
State == [is_idr |-> IsIdr, frame_num |-> frame_num,
          idr_pic_id |-> idr_pic_id]

(* upload_input: the staging buffer is overwritten, then the copy and the  *)
(* signal of upload_done are submitted to the transfer queue, with no      *)
(* fence.                                                                  *)
UploadInput ==
  /\ pc = "upload"
  /\ staging' = frame
  /\ copies' = copies + 1
  /\ pc' = "record"
  /\ UNCHANGED <<probeVars, stateVars, bitrate, frame, image, upload_done,
                 dpb, jobs, gpuRate, bitstream, fence, leftover, callerVars>>

UploadFails ==
  /\ pc = "upload"
  /\ staging' \in {staging, frame}
  /\ EncodeFails
  /\ UNCHANGED <<copies, image, upload_done, dpb, jobs, gpuRate, bitstream,
                 fence, leftover>>

(* record_rate_control, 0 when there is nothing to record. *)
RecordedRate == IF first_op \/ rc_dirty THEN bitrate ELSE 0

(* Record the coding scope and submit it, to wait for upload_done and to   *)
(* signal the fence.                                                       *)
SubmitEncode ==
  /\ pc = "record"
  /\ jobs' = Append(jobs, [state |-> State, setup |-> setup_slot,
                           rate |-> RecordedRate])
  /\ pc' = "wait"
  /\ UNCHANGED <<probeVars, stateVars, bitrate, frame, staging, copies,
                 image, upload_done, dpb, gpuRate, bitstream, fence,
                 leftover, callerVars>>

(* Recording or the submission fails after the upload was submitted. *)
SubmitFails ==
  /\ pc = "record"
  /\ leftover' = leftover \cup {"upload"}
  /\ EncodeFails
  /\ UNCHANGED gpuVars

(* wait_for_fences without a timeout, then reset_fences. *)
AwaitFence ==
  /\ pc = "wait"
  /\ fence
  /\ \/ /\ fence' = FALSE
        /\ pc' = "readback"
        /\ UNCHANGED leftover
     \/ /\ pc' = "ready"
        /\ leftover' = leftover \cup {"fence"}
        /\ UNCHANGED fence
  /\ UNCHANGED <<probeVars, stateVars, bitrate, frame, staging, copies,
                 image, upload_done, dpb, jobs, gpuRate, bitstream,
                 callerVars>>

(* Mutant: the slots stop alternating after an IDR. *)
AdvanceSameSlot ==
  /\ frame_counter' = frame_counter + 1
  /\ frame_num' = (frame_num + 1) % 2^FrameNumBits
  /\ idr_pic_id' = IF IsIdr THEN (idr_pic_id + 1) % 2 ELSE idr_pic_id
  /\ idr_requested' = FALSE
  /\ rc_dirty' = FALSE
  /\ first_op' = FALSE
  /\ setup_slot' = IF IsIdr THEN setup_slot ELSE 1 - setup_slot
  /\ prev_frame' = State

(* The end of encode; idr_pic_id only matters as to whether two successive *)
(* ones differ.                                                            *)
Advance ==
  /\ frame_counter' = frame_counter + 1
  /\ frame_num' = (frame_num + 1) % 2^FrameNumBits
  /\ idr_pic_id' = IF IsIdr THEN (idr_pic_id + 1) % 2 ELSE idr_pic_id
  /\ idr_requested' = FALSE
  /\ rc_dirty' = FALSE
  /\ first_op' = FALSE
  /\ setup_slot' = 1 - setup_slot
  /\ prev_frame' = State

(* Query the feedback, copy the bitstream out, reset the command buffers   *)
(* and return the packet.                                                  *)
ReadBack ==
  /\ pc = "readback"
  /\ Advance
  /\ packet' = bitstream
  /\ last' = [frame |-> frame, rate |-> bitrate]
  /\ owed' = FALSE
  /\ pc' = "ready"
  /\ UNCHANGED <<probeVars, bitrate, frame, gpuVars, leftover, requests>>

ReadBackFails ==
  /\ pc = "readback"
  /\ EncodeFails
  /\ UNCHANGED <<gpuVars, leftover>>

-----------------------------------------------------------------------------
(* The other calls, between encodes.                                       *)

RequestIdr ==
  /\ pc = "ready"
  /\ requests > 0
  /\ requests' = requests - 1
  /\ idr_requested' = TRUE
  /\ owed' = TRUE
  /\ UNCHANGED <<probeVars, pc, frame_counter, frame_num, idr_pic_id,
                 rc_dirty, first_op, setup_slot, prev_frame, bitrate, frame,
                 gpuVars, leftover, packet, last>>

SetBitrate ==
  /\ pc = "ready"
  /\ requests > 0
  /\ requests' = requests - 1
  /\ bitrate' \in Rates \ {bitrate}
  /\ rc_dirty' = TRUE
  /\ UNCHANGED <<probeVars, pc, frame_counter, frame_num, idr_pic_id,
                 idr_requested, first_op, setup_slot, prev_frame, frame,
                 gpuVars, leftover, packet, last, owed>>

(* Drop: vkDeviceWaitIdle, then every object of the session; the last Arc  *)
(* of the context destroys the device and the instance.                    *)
DropSession ==
  /\ pc = "ready"
  /\ copies = 0 /\ jobs = <<>>
  /\ live' = {}
  /\ pc' = "dropped"
  /\ UNCHANGED <<host, guard, stateVars, bitrate, frame, gpuVars, leftover,
                 callerVars>>

(* After a failed new the encoder, and with it the context, is dropped. *)
DropContext ==
  /\ pc = "refused"
  /\ live' = live \ {"instance", Preferred(host).name}
  /\ pc' = "failed"
  /\ UNCHANGED <<host, guard, stateVars, bitrate, frame, gpuVars, leftover,
                 callerVars>>

-----------------------------------------------------------------------------
(* The GPU.                                                                *)

(* The transfer queue copies what the staging buffer holds by then. *)
CopyRuns ==
  /\ copies > 0
  /\ copies' = copies - 1
  /\ image' = staging
  /\ upload_done' = TRUE
  /\ UNCHANGED <<probeVars, pc, stateVars, bitrate, frame, staging, dpb, jobs,
                 gpuRate, bitstream, fence, leftover, callerVars>>

(* The encode queue waits for upload_done, applies the rate control,       *)
(* encodes against the other slot, writes the setup slot and the           *)
(* bitstream, and signals the fence.                                       *)
EncodeRuns ==
  /\ jobs # <<>>
  /\ upload_done
  /\ LET job == Head(jobs)
         rate == IF job.rate # 0 THEN job.rate ELSE gpuRate
     IN  /\ gpuRate' = rate
         /\ bitstream' = [frame |-> image,
                          ref |-> IF job.state.is_idr THEN 0
                                  ELSE dpb[1 - job.setup],
                          rate |-> rate, state |-> job.state]
         /\ dpb' = [dpb EXCEPT ![job.setup] = image]
  /\ jobs' = Tail(jobs)
  /\ upload_done' = FALSE
  /\ fence' = TRUE
  /\ UNCHANGED <<probeVars, pc, stateVars, bitrate, frame, staging, copies,
                 image, leftover, callerVars>>

-----------------------------------------------------------------------------
Creation ==
  \/ Probe
  \/ CreateVideoSession
  \/ CreateParameters
  \/ CreateImages
  \/ CreateViews
  \/ CreateBuffers
  \/ CreateCommands
  \/ CreateFails
  \/ Created

Encode ==
  \/ BeginEncode
  \/ UploadInput
  \/ UploadFails
  \/ SubmitEncode
  \/ SubmitFails
  \/ AwaitFence
  \/ ReadBack
  \/ ReadBackFails

Gpu == CopyRuns \/ EncodeRuns

VulkanNext ==
  \/ Creation
  \/ Encode
  \/ Gpu
  \/ RequestIdr
  \/ SetBitrate
  \/ DropSession
  \/ DropContext

VulkanSpec == VulkanInit /\ [][VulkanNext]_vars

-----------------------------------------------------------------------------
\* The session's state, the GPU's jobs and the packets have their types; frame
\* numbers stay below the wrap of the header's field.
VulkanTypeOK ==
  /\ host \in Hosts
  /\ pc \in NewSteps \cup {"probe", "disarm", "ready", "upload", "record",
                         "wait", "readback", "refused", "failed", "dropped"}
  /\ frame_counter \in Nat
  /\ frame_num \in FrameNums
  /\ idr_pic_id \in 0..1
  /\ idr_requested \in BOOLEAN
  /\ rc_dirty \in BOOLEAN
  /\ first_op \in BOOLEAN
  /\ setup_slot \in 0..1
  /\ prev_frame \in StateType \cup {NoState}
  /\ bitrate \in Rates
  /\ frame \in Frames
  /\ staging \in Frames
  /\ copies \in Nat
  /\ image \in Frames
  /\ upload_done \in BOOLEAN
  /\ dpb \in [0..1 -> Frames]
  /\ jobs \in Seq(JobType)
  /\ gpuRate \in Rates \cup {0}
  /\ bitstream \in PacketType
  /\ fence \in BOOLEAN
  /\ leftover \subseteq {"upload", "fence"}
  /\ packet \in PacketType
  /\ last \in [frame : Frames, rate : Rates \cup {0}]
  /\ owed \in BOOLEAN
  /\ requests \in Nat

(* "State of the previous frame, which slot `1 - setup_slot` holds"        *)
(* (real.rs, prev_frame): between calls the slot the next P frame will     *)
(* refer to holds the picture of the last packet the caller got, whatever  *)
(* calls failed in between and how far they came, so that a decoder has    *)
(* it.  A fence left signalled is the exception: the next call reads back  *)
(* before its own encode has run.                                          *)
ReferenceIsDelivered ==
  pc = "ready" /\ prev_frame # NoState /\ "fence" \notin leftover =>
    /\ dpb[1 - setup_slot] = packet.frame
    /\ prev_frame = packet.state

(* The packet encode returns is its own frame's, at the bitrate last set,  *)
(* though the copy and the encode run on two queues: only upload_done and  *)
(* the fence order them, so it holds until a failed call leaves one of     *)
(* them signalled.                                                         *)
PacketIsOfItsFrame ==
  leftover = {} /\ packet # NoPacket =>
    packet.frame = last.frame /\ packet.rate = last.rate

(* The stream a decoder sees is a legal H.264 sequence: an IDR restarts    *)
(* frame_num and changes idr_pic_id, any other packet follows the one      *)
(* before it with no gap in frame_num and refers to its picture, and a     *)
(* packet after request_idr is an IDR even if calls failed meanwhile.      *)
StreamIsDecodable ==
  [][packet' # packet /\ "fence" \notin leftover =>
       LET s == packet'.state
       IN  IF s.is_idr
           THEN s.frame_num = 0 /\
                (packet.state.is_idr =>
                   s.idr_pic_id # packet.state.idr_pic_id)
           ELSE /\ packet'.ref = packet.frame
                /\ s.frame_num =
                     (packet.state.frame_num + 1) % 2^FrameNumBits
                /\ ~owed]_vars

(* Whatever step of new fails, and after Drop, nothing is left on the      *)
(* device, except the one view SessionGuard is not told of.                *)
NothingLeaks ==
  pc \in {"failed", "dropped"} => live \subseteq {"dpb_view0"}

(* encode returns: the GPU always reaches the submitted work, and the      *)
(* fence wait, which has no timeout, ends.                                 *)
EncodeReturns == pc = "wait" /\ leftover = {} ~> pc # "wait"
=============================================================================
