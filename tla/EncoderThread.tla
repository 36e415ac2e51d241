--------------------------- MODULE EncoderThread ---------------------------
(***************************************************************************)
(* The Linux encoders that run on a thread of their own: ThreadedSession   *)
(* (flux-encode/src/session_thread.rs) around the FFmpeg encoder, VA-API   *)
(* or software, and around the cros-codecs VA-API encoder.  The capture    *)
(* loop's thread sends commands and waits for the replies; the encode      *)
(* thread owns the codec.                                                  *)
(*                                                                         *)
(* The codec is external: it takes a picture or refuses it, and gives its  *)
(* packets back in order, sooner or later.                                 *)
(***************************************************************************)
EXTENDS Integers, Sequences

CONSTANTS
  PoolSize,    \* surfaces in the pool (20 and 16 in the code)
  MaxEncodes,  \* bound: encode calls
  MaxFaults    \* bound: calls that fail or panic, and control commands, for
               \*   each backend tried

VARIABLES
  backend,     \* "ffmpeg", "software", "vaapi" or "vulkan"
  caller,      \* what the capture loop's thread is doing
  thread,      \* what the encode thread is doing
  cmds,        \* the command channel
  reply,       \* the reply channel of the call in progress
  clones,      \* who holds the frame: "caller", "command"
  device,      \* who holds the VA-API device: "encoder", "session"
  pool,        \* who holds the surface pool: "state", "codec", "leak"
  enc,         \* the thread's force_idr and pts
  inside,      \* the pictures in the codec
  received,    \* the pts of the last packet the caller got
  idrOwed,     \* request_idr was sent and no picture taken since
  taken, got, lostPackets,
  encodes, faults

channelVars == <<cmds, reply, clones>>
objectVars == <<device, pool>>
countVars == <<received, idrOwed, taken, got, lostPackets>>
threadVars == <<backend, caller, thread, channelVars, objectVars, enc,
                inside, countVars, encodes, faults>>

EncInit == [force_idr |-> TRUE, pts |-> 0]
Fault == faults > 0 /\ faults' = faults - 1

ThreadInit ==
  /\ caller = "idle"
  /\ thread = "none"
  /\ cmds = <<>>
  /\ reply = <<>>
  /\ clones = {}
  /\ device = {} /\ pool = {}
  /\ enc = EncInit
  /\ inside = <<>>
  /\ received = -1
  /\ idrOwed = FALSE
  /\ taken = 0 /\ got = 0 /\ lostPackets = 0
  /\ encodes = 0
  /\ faults = MaxFaults

-----------------------------------------------------------------------------
(* Creating a session.                                                     *)

(* create_encoder: FfmpegVaapiEncoder::new opens a device and keeps it;    *)
(* VaapiEncoder::new opens one to probe and closes it.                     *)
NewEncoder ==
  /\ caller = "idle"
  /\ device' = IF backend = "ffmpeg" THEN {"encoder"} ELSE {}
  /\ caller' = "encoder"
  /\ UNCHANGED <<backend, thread, channelVars, pool, enc, inside,
                 countVars, encodes, faults>>

(* HwDevice::open tried every render node and the libva default, and none  *)
(* opened; or the codec is not in the build.                               *)
NewEncoderFails ==
  /\ caller = "idle"
  /\ caller' = "refused"
  /\ UNCHANGED <<backend, thread, channelVars, objectVars, enc, inside,
                 countVars, encodes, faults>>

(* create_session: the thread is spawned with a reference to the device,   *)
(* and the caller waits on ready_rx.                                       *)
Spawn ==
  /\ caller = "encoder"
  /\ thread' = "init"
  /\ device' = IF backend = "ffmpeg" THEN {"encoder", "session"} ELSE {}
  /\ caller' = "spawning"
  /\ UNCHANGED <<backend, channelVars, pool, enc, inside, countVars,
                 encodes, faults>>

(* create_hw_frames_ctx makes a pool that FFmpeg's codec context shares;   *)
(* cros-codecs opens its own display and makes its own.                    *)
HwFrames == {"state", "codec"}
VaSurfaces == {"state"}

(* EncoderState::new up to opening the codec; into_raw takes FFmpeg's pool *)
(* out of its guard.                                                       *)
AllocPool ==
  /\ thread = "init"
  /\ device' = IF backend = "vaapi" THEN {"session"} ELSE device
  /\ pool' = pool \cup CASE backend = "ffmpeg" -> HwFrames
                         [] backend = "vaapi" -> VaSurfaces
                         [] OTHER -> {}
  /\ thread' = "open"
  /\ UNCHANGED <<backend, caller, channelVars, enc, inside,
                 countVars, encodes, faults>>

AllocPoolFails ==
  /\ thread = "init"
  /\ Fault
  /\ thread' = "failed"
  /\ device' = device \ {"session"}
  /\ UNCHANGED <<backend, caller, channelVars, pool, enc, inside,
                 countVars, encodes>>

(* The codec opens and the thread reports that it is ready. *)
Open ==
  /\ thread = "open"
  /\ thread' = "recv"
  /\ enc' = EncInit
  /\ reply' = <<"ok">>
  /\ UNCHANGED <<backend, caller, cmds, clones, objectVars, inside,
                 countVars, encodes, faults>>

(* The codec fails to open.  FFmpeg's pool is no longer in the guard and   *)
(* not yet in an EncoderState, so only the codec's reference is dropped.   *)
OpenFails ==
  /\ thread = "open"
  /\ Fault
  /\ thread' = "failed"
  /\ device' = device \ {"session"}
  /\ pool' = IF backend = "ffmpeg" THEN {"leak"} ELSE pool \cap {"leak"}
  /\ UNCHANGED <<backend, caller, channelVars, enc, inside, countVars,
                 encodes>>

(* The thread sends the error, or panicked and drops ready_tx, and is      *)
(* joined.                                                                 *)
ReportFailure ==
  /\ thread = "failed"
  /\ caller = "spawning"
  /\ thread' = "none"
  /\ device' = {}
  /\ caller' = "refused"
  /\ UNCHANGED <<backend, channelVars, pool, enc, inside, countVars,
                 encodes, faults>>

(* The session is handed to the capture loop; the encoder that made it is  *)
(* dropped.                                                                *)
Spawned ==
  /\ caller = "spawning"
  /\ reply # <<>>
  /\ reply' = <<>>
  /\ device' = device \ {"encoder"}
  /\ caller' = "ready"
  /\ UNCHANGED <<backend, thread, cmds, clones, pool, enc, inside,
                 countVars, encodes, faults>>

-----------------------------------------------------------------------------
(* The caller's side.                                                      *)

Alive == thread \notin {"none", "gone"}

(* Mutant: the caller keeps a sender of its own, so recv never fails. *)
ReplyHeld == FALSE

(* Neither answered nor to be: the thread unwinds from it or has gone. *)
Queued == \E i \in DOMAIN cmds : cmds[i] = "encode"
ReplyDropped == reply = <<>> /\ ~Queued /\ thread \in {"unwinding", "gone"}

(* encode: request sends the command with a clone of the frame and waits;  *)
(* with the thread gone the command, and the clone in it, is dropped.      *)
CallEncode ==
  /\ caller = "ready"
  /\ encodes < MaxEncodes
  /\ encodes' = encodes + 1
  /\ IF Alive
     THEN /\ cmds' = Append(cmds, "encode")
          /\ clones' = {"caller", "command"}
          /\ caller' = "waiting"
     ELSE UNCHANGED <<cmds, clones, caller>>
  /\ UNCHANGED <<backend, thread, reply, objectVars, enc, inside,
                 countVars, faults>>

(* The reply came, or its sender was dropped with the thread. *)
EncodeReturned ==
  /\ caller = "waiting"
  /\ \/ /\ reply # <<>>
        /\ reply' = <<>>
        /\ got' = got + Len(reply[1].packets)
        /\ received' = IF reply[1].packets = <<>> THEN received
                       ELSE reply[1].packets[Len(reply[1].packets)]
     \/ /\ ReplyDropped
        /\ UNCHANGED <<reply, got, received>>
  /\ caller' = "returned"
  /\ UNCHANGED <<backend, thread, cmds, clones, objectVars, enc,
                 inside, idrOwed, taken, lostPackets, encodes, faults>>

(* The capture loop reclaims the frame's buffer with Arc::try_unwrap. *)
Reclaim ==
  /\ caller = "returned"
  /\ clones' = clones \ {"caller"}
  /\ caller' = "ready"
  /\ UNCHANGED <<backend, thread, cmds, reply, objectVars, enc, inside,
                 countVars, encodes, faults>>

(* request_idr and set_bitrate do not wait. *)
CallRequestIdr ==
  /\ caller = "ready"
  /\ Fault
  /\ cmds' = IF Alive THEN Append(cmds, "idr") ELSE cmds
  /\ idrOwed' = TRUE
  /\ UNCHANGED <<backend, caller, thread, reply, clones, objectVars,
                 enc, inside, received, taken, got, lostPackets, encodes>>

CallSetBitrate ==
  /\ caller = "ready"
  /\ Fault
  /\ cmds' = IF Alive THEN Append(cmds, "bitrate") ELSE cmds
  /\ UNCHANGED <<backend, caller, thread, reply, clones, objectVars,
                 enc, inside, countVars, encodes>>

(* Drop sends Stop and joins the thread. *)
CallDrop ==
  /\ caller = "ready"
  /\ cmds' = IF Alive THEN Append(cmds, "stop") ELSE cmds
  /\ caller' = "joining"
  /\ UNCHANGED <<backend, thread, reply, clones, objectVars, enc,
                 inside, countVars, encodes, faults>>

Joined ==
  /\ caller = "joining"
  /\ thread = "gone"
  /\ thread' = "none"
  /\ cmds' = <<>>
  /\ caller' = "dropped"
  /\ UNCHANGED <<backend, reply, clones, objectVars, enc, inside,
                 countVars, encodes, faults>>

-----------------------------------------------------------------------------
(* The encode thread.                                                      *)

Receive(cmd) == thread = "recv" /\ cmds # <<>> /\ Head(cmds) = cmd

(* Answer the call, after the clone in the command was dropped. *)
Answer(packets) ==
  /\ clones' = clones \ {"command"}
  /\ reply' = <<[packets |-> packets]>>

(* alloc_hw_frame, get_surface: every surface of the pool is in the codec. *)
NoSurface == backend # "software" /\ Len(inside) >= PoolSize

(* Up to the codec: conversion and, with a pool, a free surface to upload  *)
(* to.  What fails here changes nothing.                                   *)
EncodeRefused ==
  /\ Receive("encode")
  /\ (NoSurface /\ UNCHANGED faults) \/ Fault
  /\ cmds' = Tail(cmds)
  /\ Answer(<<>>)
  /\ UNCHANGED <<backend, caller, thread, objectVars, enc, inside,
                 countVars, encodes>>

(* force_idr is taken before the codec is called; FFmpeg's pts counts the  *)
(* frames handed to it, VA-API's timestamp those it took.                  *)
AfterSend(ok) ==
  [enc EXCEPT !.force_idr = FALSE,
              !.pts = IF ok \/ backend # "vaapi" THEN @ + 1 ELSE @]

(* The codec takes the picture. *)
Send ==
  /\ Receive("encode")
  /\ ~NoSurface
  /\ inside' = Append(inside, [pts |-> enc.pts, idr |-> enc.force_idr])
  /\ enc' = AfterSend(TRUE)
  /\ taken' = taken + 1
  /\ idrOwed' = FALSE
  /\ thread' = "drain"
  /\ cmds' = Tail(cmds)
  /\ UNCHANGED <<backend, caller, reply, clones, objectVars, received,
                 got, lostPackets, encodes, faults>>

(* It refuses it: with the frame goes the IDR that was asked for. *)
SendFails ==
  /\ Receive("encode")
  /\ Fault
  /\ enc' = AfterSend(FALSE)
  /\ idrOwed' = FALSE
  /\ cmds' = Tail(cmds)
  /\ Answer(<<>>)
  /\ UNCHANGED <<backend, caller, thread, objectVars, inside, received,
                 taken, got, lostPackets, encodes>>

(* Mutant: one packet a call, of all the codec had. *)
DrainOne ==
  /\ thread = "drain"
  /\ \E n \in 0..Len(inside) :
       /\ inside' = SubSeq(inside, n + 1, Len(inside))
       /\ Answer([i \in 1..(IF n > 0 THEN 1 ELSE 0) |-> inside[i].pts])
  /\ thread' = "recv"
  /\ UNCHANGED <<backend, caller, cmds, objectVars, enc, received, idrOwed,
                 taken, got, lostPackets, encodes, faults>>

(* drain and collect: what the codec has ready, which is a prefix of what  *)
(* is inside.  An error part way loses what was collected.                 *)
Drain ==
  /\ thread = "drain"
  /\ \E n \in 0..Len(inside) :
       /\ inside' = SubSeq(inside, n + 1, Len(inside))
       /\ \/ /\ Answer([i \in 1..n |-> inside[i].pts])
             /\ UNCHANGED <<lostPackets, faults>>
          \/ /\ Fault
             /\ Answer(<<>>)
             /\ lostPackets' = lostPackets + n
  /\ thread' = "recv"
  /\ UNCHANGED <<backend, caller, cmds, objectVars, enc, received,
                 idrOwed, taken, got, encodes>>

(* Mutant: a request is answered only while nothing is in the codec. *)
ApplyIdrWhenEmpty ==
  /\ Receive("idr")
  /\ enc' = [enc EXCEPT !.force_idr = (inside = <<>>)]
  /\ cmds' = Tail(cmds)
  /\ UNCHANGED <<backend, caller, thread, reply, clones, objectVars,
                 inside, countVars, encodes, faults>>

ApplyIdr ==
  /\ Receive("idr")
  /\ enc' = [enc EXCEPT !.force_idr = TRUE]
  /\ cmds' = Tail(cmds)
  /\ UNCHANGED <<backend, caller, thread, reply, clones, objectVars,
                 inside, countVars, encodes, faults>>

(* A bitrate the codec does not take is only logged. *)
ApplyBitrate ==
  /\ Receive("bitrate")
  /\ cmds' = Tail(cmds)
  /\ UNCHANGED <<backend, caller, thread, reply, clones, objectVars, enc,
                 inside, countVars, encodes, faults>>

(* Stop, and the state, with the pool and the device, is dropped. *)
Stop ==
  /\ Receive("stop")
  /\ thread' = "gone"
  /\ device' = device \ {"session"}
  /\ pool' = pool \cap {"leak"}
  /\ inside' = <<>>
  /\ UNCHANGED <<backend, caller, channelVars, enc, countVars, encodes,
                 faults>>

(* The codec panics in an encode call: unwinding drops the reply's sender  *)
(* first and the frame after it,                                           *)
Panic ==
  /\ thread = "drain"
  /\ Fault
  /\ thread' = "unwinding"
  /\ UNCHANGED <<backend, caller, channelVars, objectVars, enc, inside,
                 countVars, encodes>>

(* and then the state and the commands still queued. *)
Unwound ==
  /\ thread = "unwinding"
  /\ thread' = "gone"
  /\ device' = device \ {"session"}
  /\ pool' = pool \cap {"leak"}
  /\ inside' = <<>>
  /\ cmds' = <<>>
  /\ clones' = clones \ {"command"}
  /\ UNCHANGED <<backend, caller, reply, enc, countVars, encodes, faults>>

-----------------------------------------------------------------------------
Caller ==
  \/ NewEncoder \/ NewEncoderFails \/ Spawn \/ ReportFailure \/ Spawned
  \/ CallEncode \/ EncodeReturned \/ Reclaim
  \/ CallRequestIdr \/ CallSetBitrate
  \/ CallDrop \/ Joined

Thread ==
  \/ AllocPool \/ AllocPoolFails \/ Open \/ OpenFails
  \/ EncodeRefused \/ Send \/ SendFails \/ Drain
  \/ ApplyIdr \/ ApplyBitrate \/ Stop \/ Panic \/ Unwound

ThreadNext == Caller \/ Thread

-----------------------------------------------------------------------------
\* The caller, the thread, the channels between them and the codec's objects have
\* their types.
ThreadTypeOK ==
  /\ backend \in {"ffmpeg", "software", "vaapi", "vulkan"}
  /\ caller \in {"idle", "encoder", "refused", "spawning", "ready",
                 "waiting", "returned", "joining", "dropped"}
  /\ thread \in {"none", "init", "open", "failed", "recv", "drain",
                 "unwinding", "gone"}
  /\ clones \subseteq {"caller", "command"}
  /\ device \subseteq {"encoder", "session"}
  /\ pool \subseteq {"state", "codec", "leak"}
  /\ enc \in [force_idr : BOOLEAN, pts : Nat]
  /\ Len(reply) <= 1

(* "Implementations must release every clone before returning so the       *)
(* caller can reclaim the frame with `Arc::try_unwrap`" (traits.rs,        *)
(* encode): when encode returns, the thread has let go of the frame,       *)
(* whether it encoded it, failed or was already gone.  Only a panic lets   *)
(* the caller return while the unwinding thread still holds it.            *)
FrameIsReclaimable ==
  caller = "returned" /\ thread # "unwinding" => "command" \notin clones

(* A call never returns with another call's answer, and no command but the *)
(* one waited for is unanswered: the caller waits exactly as long as the   *)
(* frame is in the channel, with the thread, or answered.                  *)
OneCallAtATime ==
  /\ reply # <<>> => caller \in {"waiting", "spawning"}
  /\ caller = "waiting" /\ Alive =>
       \/ reply # <<>>
       \/ thread \in {"drain", "unwinding"}
       \/ Queued

(* request_idr goes through the channel in front of the next frame: the    *)
(* next picture the codec takes is an IDR, unless an encode call failed in *)
(* between and took the request with it.  "Monotonically increasing frame  *)
(* index" (frame.rs, EncodedPacket): the packets' numbers increase over    *)
(* the life of a session, though calls fail before and after the codec     *)
(* took the frame.                                                         *)
PicturesInOrder ==
  [][/\ taken' > taken /\ idrOwed => inside'[Len(inside')].idr
     /\ got' > got => received' > received]_threadVars

(* Every picture taken is inside the codec, on its way in the reply, with  *)
(* the caller, or was lost with a drain that failed.                       *)
NoPictureLost ==
  Alive =>
    taken = got + lostPackets + Len(inside) +
            IF reply # <<>> /\ caller = "waiting"
            THEN Len(reply[1].packets) ELSE 0

(* When creation has failed, and after Drop, the device is closed and the  *)
(* pool freed; the pool a failed open leaves behind is the exception.      *)
SessionLeavesNothing ==
  caller \in {"refused", "dropped"} => device = {} /\ pool \subseteq {"leak"}

(* Every call of the caller returns, though the thread may fail, panic or  *)
(* be gone: nothing waits for ever on a reply or on the join.              *)
CallReturns ==
  caller \in {"spawning", "waiting", "joining"} ~>
    caller \in {"ready", "returned", "refused", "dropped"}
=============================================================================
