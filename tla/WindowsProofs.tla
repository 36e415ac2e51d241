--------------------------- MODULE WindowsProofs ----------------------------
(***************************************************************************)
(* What is proved of the Windows components, for every bound: a frame goes *)
(* from capture to encoder unchanged through the ring of shared textures,  *)
(* and the virtual monitor's driver and the servers that use it keep to    *)
(* one plug-in at a time.                                                  *)
(***************************************************************************)
EXTENDS WindowsVideo, IddMonitor, SequenceTheorems, TLAPS

(* A leaf that does not name its prover is first tried with Zenon; the leaves *)
(* that need arithmetic, or more than Zenon knows of sequences and records,    *)
(* name SMT.                                                                   *)
USE ZenonT(30), SMTT(30)

(* WindowsVideo.                                                           *)

Texture == [session : Nat, handle : Nat]
Surface == [tex : Texture, picture : Nat, idr : BOOLEAN]
Cached == [handle : Nat, tex : Texture]

(* A session has its ring: textures of its own, each with another handle. *)
RingShape ==
  /\ ring = <<>> <=> phase \in {"lost", "found"}
  /\ ring # <<>> =>
       /\ ring \in [Slots -> Texture]
       /\ \A s \in Slots : ring[s] \in DOMAIN picture /\ ring[s].session = sessions
       /\ \A r, s \in Slots : ring[r].handle = ring[s].handle => r = s

(* The fields of the capture.  A slot that waits to be delivered is none of  *)
(* those delivered, and once there was a copy there is a slot to repeat.     *)
CaptureShape ==
  /\ inventory \in Inventories
  /\ phase \in {"lost", "found", "running", "acquired", "encode"}
  /\ pending \in Slots \cup {None}
  /\ delivered \in [1..2 -> Slots \cup {None}]
  /\ scaler \in {"none", "direct", "fallback"}
  /\ has_copied_frame \in BOOLEAN /\ sessions \in Nat /\ desktop \in Nat
  /\ picture \in [DOMAIN picture -> Nat]
  /\ pending # None => pending # delivered[1] /\ pending # delivered[2]
  /\ ring # <<>> /\ has_copied_frame /\ pending = None => delivered[1] # None
  /\ RingShape

(* The frame that was returned is the slot delivered last, as it is now. *)
FrameIsDelivered ==
  phase = "encode" =>
    /\ delivered[1] # None
    /\ frame = [tex |-> ring[delivered[1]], picture |-> picture[ring[delivered[1]]]]

(* What the sink was told, whether or not an update waits. *)
SinkAgrees ==
  /\ update \in [present : BOOLEAN, pointer : BOOLEAN, shape : BOOLEAN]
  /\ update.shape => update.pointer
  /\ ~update.pointer /\ sink.visible => pointer.visible
  /\ cursor_bitmap # None /\ ~sink.missed => sink.shape = cursor_bitmap

CaptureIInv == CaptureShape /\ FrameIsDelivered /\ SinkAgrees

Building == {"none", "context", "dx11", "component"}
InCall == {"surface", "submit", "retry", "poll"}

(* The fields of the AMF session, and where it has pictures and packets. *)
AmfShape ==
  /\ amf \in Building \cup {"ready", "dropping"} \cup InCall
  /\ cached_shared_textures \in Seq(Cached) /\ Len(cached_shared_textures) <= CacheSize
  /\ inflight \in Seq(Surface)
  /\ outputs \in Nat /\ packets \in Nat /\ accepted \in Nat /\ returned \in Nat
  /\ failed \subseteq {"encode", "bitrate"}
  /\ pending_idr_trigger \in BOOLEAN /\ owed \in BOOLEAN
  /\ Len(inflight) + outputs <= InputDepth
  /\ amf \in {"surface", "submit", "retry"} => surface \in Surface
  /\ amf \in Building \cup {"dropping"} => inflight = <<>>
  /\ amf \notin {"retry", "poll"} => packets = 0

(* The objects of each stage; Drop goes through them in order. *)
ObjectsInOrder ==
  /\ amf_live \subseteq {"context", "component", "device", "capture_device"}
  /\ amf # "none" => "capture_device" \in amf_live
  /\ "context" \in amf_live => "capture_device" \in amf_live

(* Every picture taken is in AMF, in the call's packets or was returned. *)
PicturesCounted ==
  "encode" \notin failed => accepted = returned + packets + Len(inflight) + outputs

(* A request not yet answered is with the session or with the surface that   *)
(* goes in next.                                                             *)
RequestIsNext ==
  owed => \/ amf = "ready" /\ pending_idr_trigger
          \/ amf \in {"surface", "submit", "retry"} /\ surface.idr

AmfIInv ==
  AmfShape /\ ObjectsInOrder /\ PicturesCounted /\ RequestIsNext /\ RateControlAgrees

(* encode is called between two frames only, with the frame returned. *)
CallHasTheFrame ==
  /\ phase # "encode" => amf \in {"none", "ready"}
  /\ amf \in {"surface", "submit", "retry"} =>
       surface.tex = frame.tex /\ surface.picture = frame.picture

(* No texture is of a session to come, and the cache knows those of the ring *)
(* by their own handles.                                                     *)
HandlesAgree ==
  /\ \A i \in 1..Len(inflight) :
       inflight[i].tex \in DOMAIN picture /\ inflight[i].tex.session <= sessions
  /\ \A i \in 1..Len(cached_shared_textures) :
       /\ cached_shared_textures[i].handle = cached_shared_textures[i].tex.handle
       /\ cached_shared_textures[i].tex.session <= sessions
       /\ ring # <<>> => \A s \in Slots :
            cached_shared_textures[i].handle = ring[s].handle => cached_shared_textures[i].tex = ring[s]

InRing(t) == ring # <<>> /\ t.session = sessions
InSlot(t, k) == delivered[k] # None /\ t = ring[delivered[k]]
Settled == phase # "encode" \/ amf = "poll"

(* What AMF reads of the present ring is what was delivered last, but for    *)
(* the frame that was returned and is not in AMF yet.                        *)
ReadsDelivered ==
  "encode" \notin failed =>
    \A i \in 1..Len(inflight) : InRing(inflight[i].tex) =>
      /\ \/ InSlot(inflight[i].tex, 1) \/ InSlot(inflight[i].tex, 2)
         \/ ~Settled /\ i < Len(inflight)
      /\ Settled /\ i = Len(inflight) => InSlot(inflight[i].tex, 1)

SharedIInv == CallHasTheFrame /\ HandlesAgree /\ ReadsDelivered /\ InFlightIsStable

(* The inductive invariant of capture and encoder. *)
VideoIInv == CaptureIInv /\ AmfIInv /\ SharedIInv

-----------------------------------------------------------------------------
(* Steps that leave a half alone.                                          *)

(* A step of the encoder leaves the capture as it was. *)
LEMMA CaptureKept ==
  ASSUME CaptureIInv, UNCHANGED captureVars
  PROVE  CaptureIInv'
<1>0. UNCHANGED <<inventory, phase, pending, delivered, scaler, has_copied_frame, sessions, desktop,
                  picture, ring, frame, update, sink, pointer, cursor_bitmap>>
  BY DEF captureVars, inventoryVars, ringVars, cursorVars, systemVars
<1>1. CaptureShape'  BY <1>0 DEF CaptureIInv, CaptureShape, RingShape
<1>2. FrameIsDelivered'  BY <1>0 DEF CaptureIInv, FrameIsDelivered
<1>3. SinkAgrees'  BY <1>0 DEF CaptureIInv, SinkAgrees
<1> QED  BY <1>1, <1>2, <1>3 DEF CaptureIInv

(* A step of the capture leaves the encoder as it was. *)
LEMMA AmfKept ==
  ASSUME AmfIInv, UNCHANGED amfVars
  PROVE  AmfIInv'
<1>0. UNCHANGED <<amf, amf_live, frame_index, pending_idr_trigger, cached_shared_textures, surface,
                  packets, inflight, outputs, properties, bitrate_kbps, framerate, accepted, returned,
                  owed, failed, calls>>
  BY DEF amfVars, sessionVars, rateVars
<1>1. AmfShape'  BY <1>0 DEF AmfIInv, AmfShape
<1>2. ObjectsInOrder' /\ PicturesCounted' /\ RequestIsNext'
  BY <1>0 DEF AmfIInv, ObjectsInOrder, PicturesCounted, RequestIsNext
<1>3. RateControlAgrees'  BY <1>0 DEF AmfIInv, RateControlAgrees
<1> QED  BY <1>1, <1>2, <1>3 DEF AmfIInv

(* What capture and encoder share is as it was while no frame is at hand. *)
LEMMA SharedKept ==
  ASSUME SharedIInv, UNCHANGED <<ring, picture, delivered, sessions, amf, surface, inflight,
                                 cached_shared_textures, failed>>,
         phase # "encode", phase' # "encode", amf \in {"none", "ready"}
  PROVE  SharedIInv'
<1>1. CallHasTheFrame'  BY DEF CallHasTheFrame
<1>2. HandlesAgree'  BY DEF SharedIInv, HandlesAgree
<1>3. Settled /\ Settled'  BY DEF Settled
<1>4. ReadsDelivered'  BY <1>3 DEF SharedIInv, ReadsDelivered, InRing, InSlot
<1>5. InFlightIsStable'  BY DEF SharedIInv, InFlightIsStable
<1> QED  BY <1>1, <1>2, <1>4, <1>5 DEF SharedIInv

-----------------------------------------------------------------------------
(* Steps of the capture.                                                   *)

(* Finding a display, or failing to start on it, changes no texture. *)
LEMMA FindDisplayInv ==
  ASSUME VideoIInv, UNCHANGED amfVars, FindDisplay \/ StartFails
  PROVE  VideoIInv'
<1>0. /\ phase \in {"lost", "found"} /\ phase' \in {"lost", "found"}
      /\ UNCHANGED <<inventory, pending, delivered, scaler, has_copied_frame, sessions, desktop,
                     picture, ring, frame, update, sink, pointer, cursor_bitmap>>
  BY DEF FindDisplay, StartFails, ringVars, cursorVars, systemVars
<1>1. AmfIInv'  BY AmfKept DEF VideoIInv
<1>2. CaptureShape'  BY <1>0 DEF VideoIInv, CaptureIInv, CaptureShape, RingShape
<1>3. FrameIsDelivered' /\ SinkAgrees'
  BY <1>0 DEF VideoIInv, CaptureIInv, FrameIsDelivered, SinkAgrees
<1>4. SharedIInv'
  BY <1>0, SharedKept DEF VideoIInv, SharedIInv, CallHasTheFrame, amfVars, sessionVars
<1> QED  BY <1>1, <1>2, <1>3, <1>4 DEF VideoIInv, CaptureIInv

(* The pointer's part of AcquireNextFrame. *)
LEMMA AcquireInv ==
  ASSUME VideoIInv, UNCHANGED amfVars, Acquire
  PROVE  VideoIInv'
<1>0. /\ phase = "running" /\ phase' = "acquired" /\ PointerUpdate
      /\ update' = [update EXCEPT !.pointer = FALSE, !.shape = FALSE]
      /\ UNCHANGED <<inventory, pending, delivered, scaler, has_copied_frame, sessions, desktop,
                     picture, ring, frame, pointer>>
  BY DEF Acquire, ringVars
<1>1. AmfIInv'  BY AmfKept DEF VideoIInv
<1>2. CaptureShape'  BY <1>0 DEF VideoIInv, CaptureIInv, CaptureShape, RingShape
<1>3. FrameIsDelivered'  BY <1>0 DEF FrameIsDelivered
<1>4. SinkAgrees'
  <2>1. /\ update' \in [present : BOOLEAN, pointer : BOOLEAN, shape : BOOLEAN]
        /\ ~update'.shape /\ ~update'.pointer
    BY <1>0 DEF VideoIInv, CaptureIInv, SinkAgrees
  <2>2. sink'.visible => pointer'.visible
    BY <1>0 DEF VideoIInv, CaptureIInv, SinkAgrees, PointerUpdate
  <2>3. cursor_bitmap' # None /\ ~sink'.missed => sink'.shape = cursor_bitmap'
    BY <1>0 DEF VideoIInv, CaptureIInv, SinkAgrees, PointerUpdate
  <2> QED  BY <2>1, <2>2, <2>3 DEF SinkAgrees
<1>5. SharedIInv'
  BY <1>0, SharedKept DEF VideoIInv, SharedIInv, CallHasTheFrame, amfVars, sessionVars
<1> QED  BY <1>1, <1>2, <1>3, <1>4, <1>5 DEF VideoIInv, CaptureIInv

(* A frame that is skipped, and what the system does: the ring is untouched. *)
LEMMA SkipFrameInv ==
  ASSUME VideoIInv, UNCHANGED amfVars, SkipFrame \/ SystemChanges \/ Present \/ PointerChanges
  PROVE  VideoIInv'
<1>0. /\ phase # "encode" /\ phase' # "encode" /\ inventory' \in Inventories
      /\ phase' \in {"lost", "found"} <=> phase \in {"lost", "found"}
      /\ phase' \in {"lost", "found", "running", "acquired", "encode"} /\ desktop' \in Nat
      /\ UNCHANGED <<pending, delivered, scaler, has_copied_frame, sessions,
                     picture, ring, frame, sink, cursor_bitmap>>
  BY SMTT(30) DEF VideoIInv, CaptureIInv, CaptureShape, SkipFrame, SystemChanges, Present, PointerChanges,
         ringVars, cursorVars, systemVars
<1>1. AmfIInv'  BY AmfKept DEF VideoIInv
<1>2. CaptureShape'  BY <1>0 DEF VideoIInv, CaptureIInv, CaptureShape, RingShape
<1>3. FrameIsDelivered'  BY <1>0 DEF FrameIsDelivered
<1>4. SinkAgrees'
  <2>1. CASE SkipFrame \/ SystemChanges
    BY <2>1, <1>0 DEF VideoIInv, CaptureIInv, SinkAgrees, SkipFrame, SystemChanges, systemVars
  <2>2. CASE Present
    BY <2>2, <1>0 DEF VideoIInv, CaptureIInv, SinkAgrees, Present
  <2>3. CASE PointerChanges
    BY <2>3, <1>0 DEF VideoIInv, CaptureIInv, SinkAgrees, PointerChanges
  <2> QED  BY <2>1, <2>2, <2>3
<1>5. SharedIInv'
  BY <1>0, SharedKept DEF VideoIInv, SharedIInv, CallHasTheFrame, amfVars, sessionVars
<1> QED  BY <1>1, <1>2, <1>3, <1>4, <1>5 DEF VideoIInv, CaptureIInv

(* spare_slot: of three slots one is not among the two delivered last. *)
LEMMA SpareSlotFacts ==
  ASSUME CaptureShape
  PROVE  /\ SpareSlot \in Slots
         /\ SpareSlot # delivered[1] /\ SpareSlot # delivered[2]
<1>1. delivered \in [1..2 -> Slots \cup {None}] /\ Slots = {1, 2, 3} /\ None = 0
  BY SMTT(30) DEF CaptureShape, Slots, RING_SIZE, None
<1>2. Range(delivered) = {delivered[1], delivered[2]}  BY <1>1, SMTT(30) DEF Range
<1>3. CASE pending # None  BY <1>3, <1>1 DEF CaptureShape, SpareSlot
<1>4. CASE pending = None
  <2>1. \E s \in Slots : /\ s \notin Range(delivered)
                         /\ \A r \in Slots : r \notin Range(delivered) => s <= r
    BY <1>1, <1>2, SMTT(30)
  <2> QED  BY <2>1, <1>2, <1>4 DEF SpareSlot
<1> QED  BY <1>3, <1>4

(* The desktop goes into a slot that AMF does not read. *)
LEMMA CopyInv ==
  ASSUME VideoIInv, UNCHANGED amfVars, Copy \/ CopyFails
  PROVE  VideoIInv'
<1>0. /\ phase = "acquired" /\ phase' = "running"
      /\ update' = [update EXCEPT !.present = FALSE]
      /\ CopyDesktop \/ UNCHANGED <<picture, scaler, pending, has_copied_frame>>
      /\ UNCHANGED <<inventory, ring, delivered, sessions, desktop, frame, sink, pointer, cursor_bitmap>>
  BY DEF Copy, CopyFails, cursorVars
<1>1. AmfIInv'  BY AmfKept DEF VideoIInv
<1>2. SinkAgrees'  BY <1>0 DEF VideoIInv, CaptureIInv, SinkAgrees
<1>3. FrameIsDelivered'  BY <1>0 DEF FrameIsDelivered
<1>4. CASE UNCHANGED <<picture, scaler, pending, has_copied_frame>>
  <2>1. CaptureShape'  BY <1>0, <1>4 DEF VideoIInv, CaptureIInv, CaptureShape, RingShape
  <2>2. SharedIInv'
    BY <1>0, <1>4, SharedKept DEF VideoIInv, SharedIInv, CallHasTheFrame, amfVars, sessionVars
  <2> QED  BY <1>1, <1>2, <1>3, <2>1, <2>2 DEF VideoIInv, CaptureIInv
<1>5. CASE CopyDesktop
  <2> DEFINE w == SpareSlot
  <2>1. CaptureShape /\ SharedIInv  BY DEF VideoIInv, CaptureIInv
  <2>2. w \in Slots /\ w # delivered[1] /\ w # delivered[2]  BY <2>1, SpareSlotFacts
  <2>3. /\ picture' = [picture EXCEPT ![ring[w]] = desktop] /\ pending' = w /\ has_copied_frame' = TRUE
        /\ scaler' \in {scaler, "fallback"}
    BY <1>5 DEF CopyDesktop
  <2> HIDE DEF w
  <2>4. ring # <<>> /\ ring \in [Slots -> Texture]  BY <1>0, <2>1 DEF CaptureShape, RingShape
  <2>5. DOMAIN picture' = DOMAIN picture /\ picture' \in [DOMAIN picture -> Nat]
    BY <2>1, <2>3 DEF CaptureShape
  <2>6. w # None  BY <2>2, SMTT(30) DEF Slots, None
  <2>7. CaptureShape'
    BY <1>0, <2>1, <2>2, <2>3, <2>5, <2>6 DEF CaptureShape, RingShape
  <2>8. UNCHANGED <<amf, inflight, failed, cached_shared_textures, surface>>  BY DEF amfVars, sessionVars
  <2>9. CallHasTheFrame'  BY <1>0, <2>1, <2>8 DEF SharedIInv, CallHasTheFrame
  <2>10. HandlesAgree'  BY <1>0, <2>1, <2>5, <2>8 DEF SharedIInv, HandlesAgree
  <2>11. ReadsDelivered'
    BY <1>0, <2>1, <2>8 DEF SharedIInv, ReadsDelivered, InRing, InSlot, Settled
  <2>12. InFlightIsStable'
    <3> SUFFICES ASSUME "encode" \notin failed, NEW i \in 1..Len(inflight)
                 PROVE  picture'[inflight[i].tex] = inflight[i].picture
      BY <2>8, SMTT(30) DEF InFlightIsStable, VideoIInv, AmfIInv, AmfShape
    <3> DEFINE t == inflight[i].tex
    <3>1. t \in DOMAIN picture /\ picture[t] = inflight[i].picture
      BY <2>1, SMTT(30) DEF SharedIInv, HandlesAgree, InFlightIsStable, VideoIInv, AmfIInv, AmfShape
    <3>2. InRing(t) => InSlot(t, 1) \/ InSlot(t, 2)
      BY <2>1, <1>0 DEF SharedIInv, ReadsDelivered, Settled
    <3> HIDE DEF t
    <3>3. t # ring[w]
      BY <2>1, <2>2, <2>4, <2>6, <3>2, SMTT(30) DEF InRing, InSlot, CaptureShape, RingShape
    <3>4. picture'[t] = picture[t]  BY <2>3, <2>1, <3>1, <3>3 DEF CaptureShape
    <3> QED  BY <3>1, <3>4 DEF t
  <2> QED  BY <1>1, <1>2, <1>3, <2>7, <2>9, <2>10, <2>11, <2>12 DEF VideoIInv, CaptureIInv, SharedIInv
<1> QED  BY <1>0, <1>4, <1>5

(* next_frame returns a slot, the one that waits or the last one again. *)
LEMMA DeliverInv ==
  ASSUME VideoIInv, UNCHANGED amfVars, Deliver \/ Heartbeat
  PROVE  VideoIInv'
<1> DEFINE d == delivered'[1]
<1>0. /\ phase = "running" /\ phase' = "encode" /\ pending' = None
      /\ UNCHANGED <<inventory, ring, scaler, picture, has_copied_frame, sessions, desktop, sink,
                     pointer, cursor_bitmap, update>>
  BY DEF Deliver, Heartbeat, ringVars, cursorVars, systemVars
<1>1. CaptureShape /\ SharedIInv /\ AmfIInv /\ SinkAgrees  BY DEF VideoIInv, CaptureIInv
<1>2. /\ delivered' \in [1..2 -> Slots \cup {None}] /\ d \in Slots
      /\ frame' = [tex |-> ring[d], picture |-> picture[ring[d]]]
      /\ delivered'[1] = delivered[1] \/ delivered'[2] = delivered[1]
  <2>1. CASE Deliver
    <3>1. pending \in Slots /\ delivered' = <<pending, delivered[1]>>
      BY <2>1, <1>1 DEF Deliver, CaptureShape
    <3>2. delivered'[1] = pending /\ delivered'[2] = delivered[1]  BY <3>1
    <3>3. delivered' \in [1..2 -> Slots \cup {None}]  BY <3>1, <1>1, SMTT(30) DEF CaptureShape
    <3>4. frame' = [tex |-> ring[pending], picture |-> picture[ring[pending]]]
      BY <2>1 DEF Deliver, Frame
    <3> QED  BY <3>1, <3>2, <3>3, <3>4
  <2>2. CASE Heartbeat
    <3>1. delivered' = delivered /\ has_copied_frame /\ pending = None  BY <2>2 DEF Heartbeat, ringVars
    <3>2. delivered[1] \in Slots  BY <3>1, <1>0, <1>1, SMTT(30) DEF CaptureShape, RingShape
    <3>3. frame' = [tex |-> ring[delivered[1]], picture |-> picture[ring[delivered[1]]]]
      BY <2>2 DEF Heartbeat, Frame
    <3> QED  BY <3>1, <3>2, <3>3, <1>1 DEF CaptureShape
  <2> QED  BY <2>1, <2>2
<1>3. d # None  BY <1>2, SMTT(30) DEF Slots, None
<1>4. CaptureShape'  BY <1>0, <1>1, <1>2, <1>3 DEF CaptureShape, RingShape
<1>5. FrameIsDelivered' /\ SinkAgrees'  BY <1>0, <1>1, <1>2, <1>3 DEF FrameIsDelivered, SinkAgrees
<1>6. UNCHANGED <<amf, inflight, failed, cached_shared_textures, surface>>  BY DEF amfVars, sessionVars
<1>7. CallHasTheFrame'  BY <1>0, <1>1, <1>6 DEF SharedIInv, CallHasTheFrame
<1>8. HandlesAgree' /\ InFlightIsStable'
  BY <1>0, <1>1, <1>6 DEF SharedIInv, HandlesAgree, InFlightIsStable
<1>9. ReadsDelivered'
  <2> SUFFICES ASSUME "encode" \notin failed, NEW i \in 1..Len(inflight), InRing(inflight[i].tex)
               PROVE  /\ \/ InSlot(inflight[i].tex, 1)' \/ InSlot(inflight[i].tex, 2)'
                         \/ i < Len(inflight)
    BY <1>0, <1>1, <1>6 DEF ReadsDelivered, InRing, Settled, SharedIInv, CallHasTheFrame
  <2>1. CASE i = Len(inflight)
    <3>1. InSlot(inflight[i].tex, 1)
      BY <2>1, <1>0, <1>1 DEF SharedIInv, ReadsDelivered, Settled
    <3> QED  BY <3>1, <1>0, <1>2, <1>6 DEF InSlot
  <2>2. CASE i # Len(inflight)
    <3>1. Len(inflight) \in Nat  BY <1>1, SMTT(30) DEF AmfIInv, AmfShape
    <3> QED  BY <2>2, <3>1, SMTT(30)
  <2> QED  BY <2>1, <2>2
<1>10. AmfIInv'  BY AmfKept DEF VideoIInv
<1> QED  BY <1>4, <1>5, <1>7, <1>8, <1>9, <1>10 DEF VideoIInv, CaptureIInv, SharedIInv

(* The session is given up, and with it its ring; AMF keeps its textures. *)
LEMMA LoseInv ==
  ASSUME VideoIInv, UNCHANGED amfVars, Lose
  PROVE  VideoIInv'
<1>0. /\ phase # "encode" /\ phase' = "lost" /\ ring' = <<>> /\ delivered' = <<None, None>>
      /\ pending' = None
      /\ UNCHANGED <<inventory, scaler, picture, has_copied_frame, sessions, desktop, sink,
                     pointer, cursor_bitmap, update, frame>>
  BY DEF Lose, cursorVars, systemVars
<1>1. CaptureShape /\ SharedIInv /\ SinkAgrees  BY DEF VideoIInv, CaptureIInv
<1>2. delivered' \in [1..2 -> Slots \cup {None}]  BY <1>0, SMTT(30)
<1>3. CaptureShape'  BY <1>0, <1>1, <1>2 DEF CaptureShape, RingShape
<1>4. FrameIsDelivered' /\ SinkAgrees'  BY <1>0, <1>1 DEF FrameIsDelivered, SinkAgrees
<1>5. UNCHANGED <<amf, inflight, failed, cached_shared_textures, surface>>  BY DEF amfVars, sessionVars
<1>6. CallHasTheFrame'  BY <1>0, <1>1, <1>5 DEF SharedIInv, CallHasTheFrame
<1>7. HandlesAgree' /\ InFlightIsStable'
  BY <1>0, <1>1, <1>5 DEF SharedIInv, HandlesAgree, InFlightIsStable
<1>8. ReadsDelivered'  BY <1>0 DEF ReadsDelivered, InRing
<1>9. AmfIInv'  BY AmfKept DEF VideoIInv
<1> QED  BY <1>3, <1>4, <1>6, <1>7, <1>8, <1>9 DEF VideoIInv, CaptureIInv, SharedIInv

(* A new session: its textures are of no session before, and have handles of *)
(* their own.                                                                *)
LEMMA StartCaptureInv ==
  ASSUME VideoIInv, UNCHANGED amfVars, StartCapture(Textures)
  PROVE  VideoIInv'
<1>0. /\ phase = "found" /\ phase' = "running" /\ delivered' = <<None, None>> /\ pending' = None
      /\ has_copied_frame' = FALSE /\ cursor_bitmap' = None /\ sessions' = sessions + 1
      /\ UNCHANGED <<inventory, desktop, sink, pointer, update, frame>>
      /\ picture' = [t \in Textures \cup {ring'[s] : s \in Slots} |->
                       IF t \in DOMAIN picture THEN picture[t] ELSE None]
      /\ scaler' \in {"none", "direct"}
  BY DEF StartCapture, NewScaler, systemVars
<1>1. CaptureShape /\ SharedIInv /\ SinkAgrees /\ AmfShape  BY DEF VideoIInv, CaptureIInv, AmfIInv
<1>2. PICK hs \in FreeHandles(Textures) :
        ring' = [s \in Slots |-> [session |-> sessions + 1, handle |-> hs[s]]]
  BY DEF StartCapture
<1>3. /\ \A s \in Slots : hs[s] \in Nat /\ \A t \in Textures : hs[s] # t.handle
      /\ \A r, s \in Slots : hs[r] = hs[s] => r = s
  <2>1. \A s \in Slots : \A t \in Textures : hs[s] # t.handle  BY <1>2 DEF FreeHandles
  <2>2. \A s \in Slots : hs[s] \in Int /\ hs[s] >= 1
    <3> DEFINE n == Cardinality({t.handle : t \in Textures}) + RING_SIZE
    <3>1. \A x \in 1..n : x \in Int /\ x >= 1  BY SMTT(30)
    <3> HIDE DEF n
    <3>2. hs \in [Slots -> 1..n]  BY <1>2 DEF FreeHandles, n
    <3> QED  BY <3>1, <3>2
  <2>3. \A r, s \in Slots : r < s => hs[r] < hs[s]
    <3> SUFFICES ASSUME NEW r \in Slots, NEW s \in Slots, r < s PROVE hs[r] < hs[s]  OBVIOUS
    <3>1. r \in 1..(s - 1)  BY SMTT(30) DEF Slots, RING_SIZE
    <3> QED  BY <3>1, <1>2 DEF FreeHandles
  <2>4. \A r, s \in Slots : r = s \/ r < s \/ s < r  BY SMTT(30) DEF Slots, RING_SIZE
  <2> QED  BY <2>1, <2>2, <2>3, <2>4, SMTT(30)
<1>4. ring' \in [Slots -> Texture] /\ ring' # <<>>
  <2>1. sessions + 1 \in Nat  BY <1>1, SMTT(30) DEF CaptureShape
  <2>2. ring' \in [Slots -> Texture]  BY <1>2, <1>3, <2>1 DEF Texture
  <2>3. 1 \in Slots  BY SMTT(30) DEF Slots, RING_SIZE
  <2> QED  BY <2>2, <2>3, SMTT(30)
<1>5. /\ \A s \in Slots : ring'[s].session = sessions' /\ ring'[s].handle = hs[s]
      /\ \A r, s \in Slots : ring'[r].handle = ring'[s].handle => r = s
  BY <1>0, <1>2, <1>3
<1>6. UNCHANGED <<amf, inflight, failed, cached_shared_textures, surface>>  BY DEF amfVars, sessionVars
<1>7. /\ \A i \in 1..Len(inflight) : inflight[i].tex \in Textures
      /\ \A i \in 1..Len(cached_shared_textures) : cached_shared_textures[i].tex \in Textures
  BY <1>1, SMTT(30) DEF Textures, Range, AmfShape
<1>8. /\ DOMAIN picture' = Textures \cup {ring'[s] : s \in Slots}
      /\ picture' \in [DOMAIN picture' -> Nat]
      /\ \A t \in DOMAIN picture' : t \in DOMAIN picture => picture'[t] = picture[t]
  BY <1>0, <1>1 DEF CaptureShape, None
<1>9. ASSUME NEW i \in 1..Len(inflight)
       PROVE  inflight[i].tex.session <= sessions' /\ inflight[i].tex.session # sessions'
  <2>1. inflight[i] \in Surface  BY <1>1, ElementOfSeq DEF AmfShape
  <2>2. inflight[i].tex.session \in Nat /\ sessions \in Nat
    BY <1>1, <2>1 DEF Surface, Texture, CaptureShape
  <2>3. inflight[i].tex.session <= sessions  BY <1>1 DEF SharedIInv, HandlesAgree
  <2> QED  BY <2>2, <2>3, <1>0, SMTT(30)
<1>10. CaptureShape'
  <2>1. delivered' \in [1..2 -> Slots \cup {None}]  BY <1>0, SMTT(30)
  <2>2. RingShape'  BY <1>0, <1>4, <1>5, <1>8 DEF RingShape
  <2>3. pending' = None /\ sessions' \in Nat /\ desktop' \in Nat /\ inventory' \in Inventories
    BY <1>0, <1>1, SMTT(30) DEF CaptureShape
  <2> QED  BY <2>1, <2>2, <2>3, <1>0, <1>8 DEF CaptureShape
<1>11. FrameIsDelivered' /\ SinkAgrees'  BY <1>0, <1>1 DEF FrameIsDelivered, SinkAgrees
<1>12. CallHasTheFrame'  BY <1>0, <1>1, <1>6 DEF SharedIInv, CallHasTheFrame
<1>13. HandlesAgree'
  <2>1. \A i \in 1..Len(inflight) :
          inflight[i].tex \in DOMAIN picture' /\ inflight[i].tex.session <= sessions'
    BY <1>7, <1>8, <1>9
  <2>2. ASSUME NEW i \in 1..Len(cached_shared_textures)
        PROVE  /\ cached_shared_textures[i].handle = cached_shared_textures[i].tex.handle
               /\ cached_shared_textures[i].tex.session <= sessions'
               /\ \A s \in Slots : cached_shared_textures[i].handle # ring'[s].handle
    <3>1. cached_shared_textures[i] \in Cached  BY <1>1, SMTT(30) DEF AmfShape
    <3>2. /\ cached_shared_textures[i].handle = cached_shared_textures[i].tex.handle
          /\ cached_shared_textures[i].tex.session <= sessions
      BY <1>1 DEF SharedIInv, HandlesAgree
    <3>3. \A s \in Slots : hs[s] # cached_shared_textures[i].tex.handle  BY <1>3, <1>7
    <3>4. cached_shared_textures[i].tex.session <= sessions'
      BY <1>0, <1>1, <3>1, <3>2, SMTT(30) DEF Cached, Texture, CaptureShape
    <3> QED  BY <3>2, <3>3, <3>4, <1>5
  <2> QED  BY <1>6, <2>1, <2>2 DEF HandlesAgree
<1>14. ReadsDelivered'
  BY <1>6, <1>9 DEF ReadsDelivered, InRing
<1>15. InFlightIsStable'
  <2> SUFFICES ASSUME "encode" \notin failed, NEW i \in 1..Len(inflight)
               PROVE  picture'[inflight[i].tex] = inflight[i].picture
    BY <1>1, <1>6, SMTT(30) DEF InFlightIsStable, AmfShape
  <2>1. inflight[i].tex \in DOMAIN picture /\ picture[inflight[i].tex] = inflight[i].picture
    BY <1>1, SMTT(30) DEF SharedIInv, HandlesAgree, InFlightIsStable, AmfShape
  <2>2. inflight[i].tex \in DOMAIN picture'  BY <1>7, <1>8
  <2> QED  BY <2>1, <2>2, <1>8
<1>16. AmfIInv'  BY AmfKept DEF VideoIInv
<1> QED  BY <1>10, <1>11, <1>12, <1>13, <1>14, <1>15, <1>16 DEF VideoIInv, CaptureIInv, SharedIInv

-----------------------------------------------------------------------------
(* Steps of the encoder.                                                   *)

(* Creating a session, the steps that fail included: there are no pictures   *)
(* in AMF.                                                                   *)
LEMMA RebuildInv ==
  ASSUME VideoIInv, UNCHANGED captureVars, phase = "encode",
         CreateContext \/ GetDx11Device \/ CreateComponent \/ SetProperties \/ CreateFails
  PROVE  VideoIInv'
<1>1. AmfIInv /\ SharedIInv  BY DEF VideoIInv
<1>2. CaptureIInv'  BY CaptureKept DEF VideoIInv
<1>3. /\ amf \in Building /\ amf' \in Building \cup {"ready"}
      /\ UNCHANGED <<frame_index, pending_idr_trigger, cached_shared_textures, surface, packets,
                     inflight, outputs, bitrate_kbps, framerate, accepted, returned, owed, failed>>
      /\ properties' \in {properties, Rated(bitrate_kbps, framerate)}
  BY DEF CreateContext, GetDx11Device, CreateComponent, SetProperties, CreateFails, CreateStep,
         sessionVars, rateVars, Building
<1>4. inflight = <<>> /\ ~owed
  BY <1>1, <1>3 DEF AmfIInv, AmfShape, RequestIsNext, Building
<1>5. AmfShape'  BY <1>1, <1>3, <1>4 DEF AmfIInv, AmfShape, Building, InCall
<1>6. ObjectsInOrder'
  BY <1>1 DEF AmfIInv, ObjectsInOrder, CreateContext, GetDx11Device, CreateComponent, SetProperties,
              CreateFails, CreateStep
<1>7. PicturesCounted' /\ RequestIsNext'  BY <1>1, <1>3, <1>4 DEF AmfIInv, PicturesCounted, RequestIsNext
<1>8. RateControlAgrees'  BY <1>1, <1>3 DEF AmfIInv, RateControlAgrees
<1>9. UNCHANGED <<phase, ring, picture, sessions, frame>>
  BY DEF captureVars, ringVars
<1>10. CallHasTheFrame'  BY <1>3, <1>9 DEF CallHasTheFrame, Building
<1>11. HandlesAgree'  BY <1>1, <1>3, <1>9 DEF SharedIInv, HandlesAgree
<1>12. ReadsDelivered' /\ InFlightIsStable'  BY <1>3, <1>4, SMTT(30) DEF ReadsDelivered, InFlightIsStable
<1> QED  BY <1>2, <1>5, <1>6, <1>7, <1>8, <1>10, <1>11, <1>12 DEF VideoIInv, AmfIInv, SharedIInv

(* Drop takes the first object there is; the capture device goes last. *)
LEMMA DropFirstInv ==
  ASSUME VideoIInv, UNCHANGED captureVars, phase = "encode", DropFirst
  PROVE  VideoIInv'
<1>1. AmfIInv /\ SharedIInv  BY DEF VideoIInv
<1>2. CaptureIInv'  BY CaptureKept DEF VideoIInv
<1>3. /\ amf' \in {"none", "dropping"} /\ amf \in {"ready", "dropping"}
      /\ pending_idr_trigger' = FALSE /\ cached_shared_textures' = <<>> /\ packets' = 0
      /\ inflight' = <<>> /\ outputs' = 0 /\ accepted' = 0 /\ returned' = 0 /\ owed' = FALSE
      /\ failed' = {} /\ properties' = Rated(bitrate_kbps, framerate)
      /\ UNCHANGED <<bitrate_kbps, framerate>>
  BY DEF DropFirst
<1>4. InputDepth \in Nat /\ CacheSize \in Nat  BY WindowsAssumption, SMTT(30) DEF IN_FLIGHT_DEPTH
<1>5. AmfShape'
  <2>1. /\ cached_shared_textures' \in Seq(Cached) /\ Len(cached_shared_textures') = 0
        /\ inflight' \in Seq(Surface) /\ Len(inflight') = 0
    BY <1>3, SMTT(30)
  <2>2. Len(inflight') + outputs' <= InputDepth /\ Len(cached_shared_textures') <= CacheSize
    BY <1>3, <1>4, <2>1, SMTT(30)
  <2>3. pending_idr_trigger' \in BOOLEAN /\ owed' \in BOOLEAN  BY <1>3
  <2> QED  BY <1>3, <2>1, <2>2, <2>3 DEF AmfShape, Building, InCall
<1>6. ObjectsInOrder'
  <2> DEFINE First(n) == /\ DropOrder[n] \in amf_live
                         /\ \A k \in 1..(n - 1) : DropOrder[k] \notin amf_live
  <2>1. /\ DropOrder[1] = "context" /\ DropOrder[2] = "component" /\ DropOrder[3] = "device"
        /\ DropOrder[4] = "capture_device"
    BY DEF DropOrder
  <2>2. DropOrder[4] \in amf_live  BY <1>1, <1>3, <2>1 DEF AmfIInv, ObjectsInOrder
  <2>3. \E n \in 1..4 : First(n)
    <3>1. CASE DropOrder[1] \in amf_live  BY <3>1, SMTT(30)
    <3>2. CASE DropOrder[1] \notin amf_live /\ DropOrder[2] \in amf_live  BY <3>2, SMTT(30)
    <3>3. CASE DropOrder[1] \notin amf_live /\ DropOrder[2] \notin amf_live /\ DropOrder[3] \in amf_live
      BY <3>3, SMTT(30)
    <3>4. CASE DropOrder[1] \notin amf_live /\ DropOrder[2] \notin amf_live /\ DropOrder[3] \notin amf_live
      BY <2>2, <3>4, SMTT(30)
    <3> QED  BY <3>1, <3>2, <3>3, <3>4
  <2>4. PICK i \in 1..4 : /\ First(i) /\ amf_live' = amf_live \ {DropOrder[i]}
                          /\ amf' = IF i = 4 THEN "none" ELSE "dropping"
    BY <2>3 DEF DropFirst
  <2>5. i \in {1, 2, 3, 4}  BY SMTT(30)
  <2>6. amf_live' \subseteq {"context", "component", "device", "capture_device"}
    BY <1>1, <2>4 DEF AmfIInv, ObjectsInOrder
  <2>7. CASE i = 4
    <3>1. "context" \notin amf_live  BY <2>1, <2>4, <2>7, SMTT(30)
    <3> QED  BY <3>1, <2>4, <2>6, <2>7 DEF ObjectsInOrder
  <2>8. CASE i # 4
    <3>1. DropOrder[i] # "capture_device"  BY <2>1, <2>5, <2>8
    <3> QED  BY <3>1, <2>1, <2>2, <2>4, <2>6 DEF ObjectsInOrder
  <2> QED  BY <2>7, <2>8
<1>7. PicturesCounted' /\ RequestIsNext'  BY <1>3, SMTT(30) DEF PicturesCounted, RequestIsNext
<1>8. RateControlAgrees'  BY <1>3 DEF RateControlAgrees
<1>9. UNCHANGED phase  BY DEF captureVars
<1>10. CallHasTheFrame' /\ HandlesAgree'  BY <1>3, <1>9, SMTT(30) DEF CallHasTheFrame, HandlesAgree
<1>11. ReadsDelivered' /\ InFlightIsStable'  BY <1>3, SMTT(30) DEF ReadsDelivered, InFlightIsStable
<1> QED  BY <1>2, <1>5, <1>6, <1>7, <1>8, <1>10, <1>11 DEF VideoIInv, AmfIInv, SharedIInv

(* What capture and encoder share is as it was when a call neither opens a   *)
(* texture nor submits.                                                      *)
LEMMA CallKeepsShared ==
  ASSUME SharedIInv, phase = "encode", phase' = "encode", amf # "poll", amf' # "poll",
         UNCHANGED <<ring, picture, delivered, sessions, frame, inflight, cached_shared_textures>>,
         "encode" \in failed' <=> "encode" \in failed, CallHasTheFrame'
  PROVE  SharedIInv'
<1>1. HandlesAgree' /\ InFlightIsStable'  BY DEF SharedIInv, HandlesAgree, InFlightIsStable
<1>2. ~Settled /\ ~Settled'  BY DEF Settled
<1>3. ReadsDelivered'  BY <1>2 DEF SharedIInv, ReadsDelivered, InRing, InSlot
<1> QED  BY <1>1, <1>3 DEF SharedIInv

(* encode begins with the frame that was returned. *)
LEMMA HandOverInv ==
  ASSUME VideoIInv, HandOver
  PROVE  VideoIInv'
<1>1. AmfIInv /\ SharedIInv /\ FrameIsDelivered /\ CaptureShape  BY DEF VideoIInv, CaptureIInv
<1>2. CaptureIInv'  BY CaptureKept DEF VideoIInv, HandOver
<1>3. /\ phase = "encode" /\ amf = "ready" /\ amf' = "surface"
      /\ surface' = [tex |-> frame.tex, picture |-> frame.picture,
                     idr |-> \/ pending_idr_trigger
                             \/ (frame_index + 1) % IdrInterval = 1]
      /\ pending_idr_trigger' = FALSE
      /\ UNCHANGED <<amf_live, cached_shared_textures, packets, inflight, outputs, properties,
                     bitrate_kbps, framerate, accepted, returned, owed, failed>>
      /\ UNCHANGED <<phase, ring, picture, delivered, sessions, frame>>
  BY DEF HandOver, Encode, captureVars, ringVars, rateVars
<1>4. surface' \in Surface
  <2>1. /\ ring \in [Slots -> Texture] /\ delivered[1] \in Slots
        /\ \A s \in Slots : ring[s] \in DOMAIN picture /\ picture[ring[s]] \in Nat
    BY <1>1, <1>3, SMTT(30) DEF CaptureShape, RingShape, FrameIsDelivered
  <2>2. frame.tex \in Texture /\ frame.picture \in Nat
    BY <2>1, <1>1, <1>3, SMTT(30) DEF FrameIsDelivered
  <2>3. (pending_idr_trigger \/ (frame_index + 1) % IdrInterval = 1) \in BOOLEAN
    BY <1>1 DEF AmfIInv, AmfShape
  <2> QED  BY <1>3, <2>2, <2>3 DEF Surface
<1>5. AmfShape'  BY <1>1, <1>3, <1>4 DEF AmfIInv, AmfShape, Building, InCall
<1>6. ObjectsInOrder' /\ PicturesCounted' /\ RateControlAgrees'
  BY <1>1, <1>3 DEF AmfIInv, ObjectsInOrder, PicturesCounted, RateControlAgrees
<1>7. RequestIsNext'  BY <1>1, <1>3 DEF AmfIInv, RequestIsNext
<1>8. CallHasTheFrame'  BY <1>3 DEF CallHasTheFrame
<1>9. SharedIInv'  BY <1>1, <1>3, <1>8, CallKeepsShared
<1> QED  BY <1>2, <1>5, <1>6, <1>7, <1>9 DEF VideoIInv, AmfIInv

(* A texture opened: the cache has it under its handle, and no other of the  *)
(* ring.                                                                     *)
LEMMA OpenFacts ==
  ASSUME VideoIInv, phase = "encode", amf = "surface", OpenSharedTexture(surface.tex)
  PROVE  /\ cached_shared_textures' \in Seq(Cached) /\ Len(cached_shared_textures') <= CacheSize
         /\ \A i \in 1..Len(cached_shared_textures') :
              /\ cached_shared_textures'[i].handle = cached_shared_textures'[i].tex.handle
              /\ cached_shared_textures'[i].tex.session <= sessions
              /\ \A s \in Slots : cached_shared_textures'[i].handle = ring[s].handle
                                    => cached_shared_textures'[i].tex = ring[s]
         /\ \E i \in 1..Len(cached_shared_textures') : cached_shared_textures'[i].handle = surface.tex.handle
<1> DEFINE c == cached_shared_textures
           t == surface.tex
           e == [handle |-> t.handle, tex |-> t]
<1>1. c \in Seq(Cached) /\ Len(c) <= CacheSize /\ CacheSize \in Nat \ {0}
  BY WindowsAssumption DEF VideoIInv, AmfIInv, AmfShape
<1>2. /\ ring # <<>> /\ ring \in [Slots -> Texture] /\ sessions \in Nat
      /\ \A r, s \in Slots : ring[r].handle = ring[s].handle => r = s
      /\ \A s \in Slots : ring[s].session = sessions
      /\ delivered[1] \in Slots /\ t = ring[delivered[1]]
  BY SMTT(30) DEF VideoIInv, CaptureIInv, CaptureShape, RingShape, FrameIsDelivered, SharedIInv, CallHasTheFrame
<1>3. t \in Texture /\ e \in Cached /\ e.handle = t.handle /\ e.tex = t  BY <1>2, ZenonT(40) DEF Texture, Cached
<1>4. \A i \in 1..Len(c) :
        /\ c[i].handle = c[i].tex.handle /\ c[i].tex.session <= sessions
        /\ \A s \in Slots : c[i].handle = ring[s].handle => c[i].tex = ring[s]
  BY <1>2, ZenonT(40) DEF VideoIInv, SharedIInv, HandlesAgree
<1>5. CASE \E x \in Range(c) : x.handle = t.handle
  <2>1. c' = c  BY <1>5 DEF OpenSharedTexture
  <2>2. \E i \in 1..Len(c) : c[i].handle = t.handle  BY <1>1, <1>5, SMTT(30) DEF Range
  <2> QED  BY <2>1, <2>2, <1>1, <1>4
<1>6. CASE ~\E x \in Range(c) : x.handle = t.handle
  <2> DEFINE q == Append(c, e)
  <2>1. c' = IF Len(q) > CacheSize THEN Tail(q) ELSE q  BY <1>6, ZenonT(40) DEF OpenSharedTexture
  <2> HIDE DEF e, c, t
  <2>2. /\ q \in Seq(Cached) /\ Len(q) = Len(c) + 1 /\ q # <<>>
        /\ \A i \in 1..Len(c) : q[i] = c[i]
        /\ q[Len(q)] = e
    BY <1>1, <1>3, AppendProperties, SMTT(30)
  <2> HIDE DEF q
  <2>3. Len(c) \in Nat  BY <1>1, LenProperties
  <2>4. \A i \in 1..Len(q) :
          /\ q[i].handle = q[i].tex.handle /\ q[i].tex.session <= sessions
          /\ \A s \in Slots : q[i].handle = ring[s].handle => q[i].tex = ring[s]
    <3> SUFFICES ASSUME NEW i \in 1..Len(q)
                 PROVE  /\ q[i].handle = q[i].tex.handle /\ q[i].tex.session <= sessions
                        /\ \A s \in Slots : q[i].handle = ring[s].handle => q[i].tex = ring[s]
      OBVIOUS
    <3>1. CASE i \in 1..Len(c)  BY <3>1, <2>2, <1>4, SMTT(30)
    <3>2. CASE i = Len(q)  BY <3>2, <2>2, <1>2, <1>3, SMTT(30)
    <3> QED  BY <3>1, <3>2, <2>2, <2>3, SMTT(30)
  <2>5. CASE Len(q) > CacheSize
    <3>0. c' = Tail(q)  BY <2>1, <2>5 DEF c
    <3>1. /\ c' \in Seq(Cached) /\ Len(c') = Len(q) - 1
          /\ \A i \in 1..Len(c') : c'[i] = q[i + 1]
      BY <3>0, <2>2, HeadTailProperties
    <3>2. Len(c') \in 1..Len(c') /\ Len(c') <= CacheSize  BY <3>1, <2>2, <2>3, <2>5, <1>1, SMTT(30)
    <3>3. c'[Len(c')] = e  BY <3>1, <3>2, <2>2, <2>3, SMTT(30)
    <3>4. \A i \in 1..Len(c') : i + 1 \in 1..Len(q)  BY <3>1, <2>2, <2>3, SMTT(30)
    <3> QED  BY <3>1, <3>2, <3>3, <3>4, <2>4, <1>3, SMTT(30) DEF c, t
  <2>6. CASE ~(Len(q) > CacheSize)
    <3>1. c' = q  BY <2>1, <2>6 DEF c
    <3>2. Len(q) \in 1..Len(q) /\ Len(q) <= CacheSize  BY <2>2, <2>3, <2>6, <1>1, SMTT(30)
    <3> QED  BY <3>1, <3>2, <2>2, <2>4, <1>3 DEF c, t
  <2> QED  BY <2>5, <2>6
<1> QED  BY <1>5, <1>6

(* CreateSurfaceFromDX11Native: the texture found is the frame's own. *)
LEMMA CreateSurfaceInv ==
  ASSUME VideoIInv, UNCHANGED captureVars, CreateSurface
  PROVE  VideoIInv'
<1> DEFINE c == cached_shared_textures
<1>1. AmfIInv /\ SharedIInv /\ FrameIsDelivered /\ CaptureShape  BY DEF VideoIInv, CaptureIInv
<1>2. CaptureIInv'  BY CaptureKept DEF VideoIInv
<1>3. /\ amf = "surface" /\ amf' = "submit" /\ OpenSharedTexture(surface.tex)
      /\ surface' = [surface EXCEPT !.tex = Opened(surface.tex)]
      /\ UNCHANGED <<amf_live, pending_idr_trigger, packets, inflight, outputs, properties,
                     bitrate_kbps, framerate, accepted, returned, owed, failed>>
      /\ UNCHANGED <<phase, ring, picture, delivered, sessions, frame>>
  BY DEF CreateSurface, captureVars, ringVars, rateVars
<1>4. phase = "encode" /\ phase' = "encode"  BY <1>1, <1>3 DEF SharedIInv, CallHasTheFrame
<1>5. /\ c' \in Seq(Cached) /\ Len(c') <= CacheSize
      /\ \A i \in 1..Len(c') :
           /\ c'[i].handle = c'[i].tex.handle /\ c'[i].tex.session <= sessions
           /\ \A s \in Slots : c'[i].handle = ring[s].handle => c'[i].tex = ring[s]
      /\ \E i \in 1..Len(c') : c'[i].handle = surface.tex.handle
  BY <1>3, <1>4, OpenFacts
<1>6. Opened(surface.tex) = surface.tex
  <2>1. delivered[1] \in Slots /\ surface.tex = ring[delivered[1]]
    BY <1>1, <1>3, <1>4, SMTT(30) DEF SharedIInv, CallHasTheFrame, FrameIsDelivered, CaptureShape
  <2>2. \A x \in Range(c') : x.handle = surface.tex.handle => x.tex = surface.tex
    BY <1>5, <2>1, LenProperties, SMTT(30) DEF Range
  <2>3. \E x \in Range(c') : x.handle = surface.tex.handle  BY <1>5, LenProperties DEF Range
  <2> QED  BY <2>2, <2>3 DEF Opened
<1>7. surface \in Surface  BY <1>1, <1>3 DEF AmfIInv, AmfShape
<1>8. surface' = surface  BY <1>3, <1>6, <1>7 DEF Surface
<1>9. AmfShape'
  BY <1>1, <1>3, <1>5, <1>7, <1>8 DEF AmfIInv, AmfShape, Building, InCall
<1>10. ObjectsInOrder' /\ PicturesCounted' /\ RateControlAgrees'
  BY <1>1, <1>3 DEF AmfIInv, ObjectsInOrder, PicturesCounted, RateControlAgrees
<1>11. RequestIsNext'  BY <1>1, <1>3, <1>8 DEF AmfIInv, RequestIsNext
<1>12. CallHasTheFrame'  BY <1>1, <1>3, <1>4, <1>8 DEF SharedIInv, CallHasTheFrame
<1>13. HandlesAgree'  BY <1>1, <1>3, <1>5 DEF SharedIInv, HandlesAgree
<1>14. ReadsDelivered' /\ InFlightIsStable'
  BY <1>1, <1>3, <1>4 DEF SharedIInv, ReadsDelivered, InFlightIsStable, InRing, InSlot, Settled
<1> QED  BY <1>2, <1>9, <1>10, <1>11, <1>12, <1>13, <1>14 DEF VideoIInv, AmfIInv, SharedIInv

(* SubmitInput takes the frame only when at most one picture is before it,   *)
(* so that AMF reads the two slots delivered last.                           *)
LEMMA SubmitInv ==
  ASSUME VideoIInv, UNCHANGED captureVars, Submit
  PROVE  /\ VideoIInv'
         /\ owed => inflight'[Len(inflight')].idr
<1>1. AmfIInv /\ SharedIInv /\ FrameIsDelivered /\ CaptureShape  BY DEF VideoIInv, CaptureIInv
<1>2. CaptureIInv'  BY CaptureKept DEF VideoIInv
<1>3. /\ amf \in {"submit", "retry"} /\ amf' = "poll" /\ ~Full
      /\ inflight' = Append(inflight, surface) /\ accepted' = accepted + 1 /\ owed' = FALSE
      /\ UNCHANGED <<amf_live, pending_idr_trigger, cached_shared_textures, packets, outputs,
                     properties, bitrate_kbps, framerate, returned, failed>>
      /\ UNCHANGED <<phase, ring, picture, delivered, sessions, frame>>
  BY DEF Submit, captureVars, ringVars, rateVars, sessionVars
<1>4. phase = "encode" /\ phase' = "encode"  BY <1>1, <1>3 DEF SharedIInv, CallHasTheFrame
<1>5. surface \in Surface /\ inflight \in Seq(Surface)  BY <1>1, <1>3 DEF AmfIInv, AmfShape
<1>6. /\ inflight' \in Seq(Surface) /\ Len(inflight') = Len(inflight) + 1
      /\ \A i \in 1..Len(inflight) : inflight'[i] = inflight[i]
      /\ inflight'[Len(inflight')] = surface
  BY <1>3, <1>5, AppendProperties, SMTT(30)
<1>7. /\ Len(inflight) \in Nat /\ outputs \in Nat /\ accepted \in Nat /\ returned \in Nat
      /\ packets \in Nat /\ InputDepth \in {1, 2}
      /\ Len(inflight) + outputs < InputDepth
  <2>1. Len(inflight) \in Nat /\ outputs \in Nat  BY <1>1, <1>5, LenProperties DEF AmfIInv, AmfShape
  <2>2. InputDepth \in {1, 2}  BY WindowsAssumption, SMTT(30) DEF IN_FLIGHT_DEPTH
  <2> QED  BY <1>1, <1>3, <2>1, <2>2, SMTT(30) DEF AmfIInv, AmfShape, Full
<1>8. AmfShape'
  <2>1. Len(inflight') + outputs' <= InputDepth  BY <1>3, <1>6, <1>7, SMTT(30)
  <2>2. accepted' \in Nat  BY <1>3, <1>7, SMTT(30)
  <2>3. owed' \in BOOLEAN /\ pending_idr_trigger' \in BOOLEAN  BY <1>1, <1>3 DEF AmfIInv, AmfShape
  <2> QED  BY <1>1, <1>3, <1>6, <2>1, <2>2, <2>3 DEF AmfIInv, AmfShape, Building, InCall
<1>9. PicturesCounted'
  <2>1. "encode" \notin failed => accepted = returned + packets + Len(inflight) + outputs
    BY <1>1 DEF AmfIInv, PicturesCounted
  <2> QED  BY <2>1, <1>3, <1>6, <1>7, SMTT(30) DEF PicturesCounted
<1>10. ObjectsInOrder' /\ RateControlAgrees' /\ RequestIsNext'
  BY <1>1, <1>3 DEF AmfIInv, ObjectsInOrder, RateControlAgrees, RequestIsNext
<1>11. owed => inflight'[Len(inflight')].idr  BY <1>1, <1>3, <1>6 DEF AmfIInv, RequestIsNext
<1>12. CallHasTheFrame'  BY <1>3, <1>4 DEF CallHasTheFrame
<1>13. /\ delivered[1] # None /\ surface.tex = ring[delivered[1]] /\ ring # <<>>
       /\ surface.tex \in DOMAIN picture /\ surface.tex.session = sessions
       /\ picture[surface.tex] = surface.picture
  BY <1>1, <1>3, <1>4, SMTT(30) DEF SharedIInv, CallHasTheFrame, FrameIsDelivered, CaptureShape, RingShape
<1>14. \A i \in 1..Len(inflight') : i \in 1..Len(inflight) \/ i = Len(inflight')  BY <1>6, <1>7, SMTT(30)
<1>15. HandlesAgree'
  <2>1. sessions <= sessions  BY <1>1, SMTT(30) DEF CaptureShape
  <2> QED  BY <1>1, <1>3, <1>6, <1>13, <1>14, <2>1 DEF SharedIInv, HandlesAgree
<1>16. InFlightIsStable'
  <2> SUFFICES ASSUME "encode" \notin failed, NEW i \in 1..Len(inflight')
               PROVE  picture[inflight'[i].tex] = inflight'[i].picture
    BY <1>3, <1>6, SMTT(30) DEF InFlightIsStable
  <2>1. CASE i \in 1..Len(inflight)
    BY <2>1, <1>1, <1>5, <1>6, LenProperties DEF SharedIInv, InFlightIsStable
  <2>2. CASE i = Len(inflight')  BY <2>2, <1>6, <1>13
  <2> QED  BY <2>1, <2>2, <1>14
<1>17. ReadsDelivered'
  <2> SUFFICES ASSUME "encode" \notin failed, NEW i \in 1..Len(inflight'), InRing(inflight'[i].tex)
               PROVE  /\ InSlot(inflight'[i].tex, 1) \/ InSlot(inflight'[i].tex, 2)
                      /\ i = Len(inflight') => InSlot(inflight'[i].tex, 1)
    BY <1>3 DEF ReadsDelivered, InRing, InSlot
  <2>1. CASE i \in 1..Len(inflight)
    <3>1. i = Len(inflight) /\ i # Len(inflight')  BY <2>1, <1>6, <1>7, SMTT(30)
    <3> QED  BY <2>1, <3>1, <1>1, <1>6, SMTT(30) DEF SharedIInv, ReadsDelivered
  <2>2. CASE i = Len(inflight')  BY <2>2, <1>6, <1>13 DEF InSlot
  <2> QED  BY <2>1, <2>2, <1>14
<1> QED  BY <1>2, <1>8, <1>9, <1>10, <1>11, <1>12, <1>15, <1>16, <1>17 DEF VideoIInv, AmfIInv, SharedIInv

(* AMF_INPUT_FULL: the call keeps what it drained. *)
LEMMA SubmitFullInv ==
  ASSUME VideoIInv, UNCHANGED captureVars, SubmitFull
  PROVE  VideoIInv'
<1>1. AmfIInv /\ SharedIInv  BY DEF VideoIInv
<1>2. CaptureIInv'  BY CaptureKept DEF VideoIInv
<1>3. /\ amf = "submit" /\ amf' = "retry" /\ packets' = packets + outputs /\ outputs' = 0
      /\ UNCHANGED <<amf_live, pending_idr_trigger, cached_shared_textures, surface, inflight,
                     properties, bitrate_kbps, framerate, accepted, returned, owed, failed>>
      /\ UNCHANGED <<phase, ring, picture, delivered, sessions, frame>>
  BY DEF SubmitFull, Drained, captureVars, ringVars, rateVars, sessionVars
<1>4. phase = "encode" /\ phase' = "encode"  BY <1>1, <1>3 DEF SharedIInv, CallHasTheFrame
<1>5. Len(inflight) \in Nat /\ outputs \in Nat /\ packets \in Nat /\ accepted \in Nat /\ returned \in Nat
      /\ InputDepth \in Nat /\ Len(inflight) + outputs <= InputDepth
  BY <1>1, LenProperties, WindowsAssumption, SMTT(30) DEF AmfIInv, AmfShape, IN_FLIGHT_DEPTH
<1>6. AmfShape'
  <2>1. packets' \in Nat /\ outputs' \in Nat /\ Len(inflight') + outputs' <= InputDepth  BY <1>3, <1>5, SMTT(30)
  <2> QED  BY <1>1, <1>3, <2>1 DEF AmfIInv, AmfShape, Building, InCall
<1>7. PicturesCounted'
  <2>1. "encode" \notin failed => accepted = returned + packets + Len(inflight) + outputs
    BY <1>1 DEF AmfIInv, PicturesCounted
  <2> QED  BY <2>1, <1>3, <1>5, SMTT(30) DEF PicturesCounted
<1>8. ObjectsInOrder' /\ RateControlAgrees' /\ RequestIsNext'
  BY <1>1, <1>3 DEF AmfIInv, ObjectsInOrder, RateControlAgrees, RequestIsNext
<1>9. CallHasTheFrame'  BY <1>1, <1>3, <1>4 DEF SharedIInv, CallHasTheFrame
<1>10. SharedIInv'  BY <1>1, <1>3, <1>4, <1>9, CallKeepsShared
<1> QED  BY <1>2, <1>6, <1>7, <1>8, <1>10 DEF VideoIInv, AmfIInv

(* The loop goes on to the next frame. *)
LEMMA CaptureGoesOn ==
  ASSUME CaptureIInv, phase = "encode", phase' = "running",
         UNCHANGED <<inventoryVars, ringVars, cursorVars, systemVars, display, frame, sessions>>
  PROVE  CaptureIInv'
<1>0. UNCHANGED <<inventory, pending, delivered, scaler, has_copied_frame, sessions, desktop,
                  picture, ring, frame, update, sink, pointer, cursor_bitmap>>
  BY DEF inventoryVars, ringVars, cursorVars, systemVars
<1>1. CaptureShape'  BY <1>0 DEF CaptureIInv, CaptureShape, RingShape
<1>2. FrameIsDelivered'  BY DEF FrameIsDelivered
<1>3. SinkAgrees'  BY <1>0 DEF CaptureIInv, SinkAgrees
<1> QED  BY <1>1, <1>2, <1>3 DEF CaptureIInv

(* encode returns its packets. *)
LEMMA PollInv ==
  ASSUME VideoIInv, SubmitReturns, Poll
  PROVE  VideoIInv'
<1>1. AmfIInv /\ SharedIInv  BY DEF VideoIInv
<1>3. /\ amf = "poll" /\ amf' = "ready" /\ packets' = 0 /\ outputs' = 0
      /\ returned' = returned + (packets + outputs) /\ phase' = "running"
      /\ UNCHANGED <<amf_live, pending_idr_trigger, cached_shared_textures, surface, inflight,
                     properties, bitrate_kbps, framerate, accepted, owed, failed>>
      /\ UNCHANGED <<ring, picture, delivered, sessions, frame>>
  BY DEF SubmitReturns, Poll, Drained, ringVars, rateVars, sessionVars
<1>4. phase = "encode"  BY <1>1, <1>3 DEF SharedIInv, CallHasTheFrame
<1>2. CaptureIInv'  BY <1>3, <1>4, CaptureGoesOn DEF VideoIInv, SubmitReturns
<1>5. Len(inflight) \in Nat /\ outputs \in Nat /\ packets \in Nat /\ accepted \in Nat /\ returned \in Nat
      /\ InputDepth \in Nat /\ Len(inflight) + outputs <= InputDepth
  BY <1>1, LenProperties, WindowsAssumption, SMTT(30) DEF AmfIInv, AmfShape, IN_FLIGHT_DEPTH
<1>6. AmfShape'
  <2>1. returned' \in Nat /\ packets' \in Nat /\ outputs' \in Nat
        /\ Len(inflight') + outputs' <= InputDepth
    BY <1>3, <1>5, SMTT(30)
  <2> QED  BY <1>1, <1>3, <2>1 DEF AmfIInv, AmfShape, Building, InCall
<1>7. PicturesCounted'
  <2>1. "encode" \notin failed => accepted = returned + packets + Len(inflight) + outputs
    BY <1>1 DEF AmfIInv, PicturesCounted
  <2> QED  BY <2>1, <1>3, <1>5, SMTT(30) DEF PicturesCounted
<1>8. ObjectsInOrder' /\ RateControlAgrees' /\ RequestIsNext'
  BY <1>1, <1>3 DEF AmfIInv, ObjectsInOrder, RateControlAgrees, RequestIsNext
<1>9. CallHasTheFrame'  BY <1>3 DEF CallHasTheFrame
<1>10. HandlesAgree' /\ InFlightIsStable'
  BY <1>1, <1>3 DEF SharedIInv, HandlesAgree, InFlightIsStable
<1>11. Settled /\ Settled'  BY <1>3 DEF Settled
<1>12. ReadsDelivered'  BY <1>1, <1>3, <1>11 DEF SharedIInv, ReadsDelivered, InRing, InSlot
<1> QED  BY <1>2, <1>6, <1>7, <1>8, <1>9, <1>10, <1>12 DEF VideoIInv, AmfIInv, SharedIInv

(* encode returns an error: the call's packets and requests are gone. *)
LEMMA EncodeFailsInv ==
  ASSUME VideoIInv, SubmitReturns, CreateSurfaceFails \/ SubmitFails
  PROVE  VideoIInv'
<1>1. AmfIInv /\ SharedIInv  BY DEF VideoIInv
<1>3. /\ amf \in {"surface", "submit", "retry"} /\ amf' = "ready" /\ packets' = 0 /\ owed' = FALSE
      /\ failed' = failed \cup {"encode"} /\ phase' = "running"
      /\ UNCHANGED <<amf_live, pending_idr_trigger, inflight, outputs,
                     properties, bitrate_kbps, framerate, accepted, returned>>
      /\ UNCHANGED <<ring, picture, delivered, sessions, frame>>
      /\ \/ UNCHANGED cached_shared_textures
         \/ amf = "surface" /\ OpenSharedTexture(surface.tex)
  BY DEF SubmitReturns, CreateSurfaceFails, SubmitFails, EncodeFails, ringVars, rateVars, sessionVars
<1>4. phase = "encode"  BY <1>1, <1>3 DEF SharedIInv, CallHasTheFrame
<1>2. CaptureIInv'  BY <1>3, <1>4, CaptureGoesOn DEF VideoIInv, SubmitReturns
<1>5. /\ cached_shared_textures' \in Seq(Cached) /\ Len(cached_shared_textures') <= CacheSize
      /\ \A i \in 1..Len(cached_shared_textures') :
           /\ cached_shared_textures'[i].handle = cached_shared_textures'[i].tex.handle
           /\ cached_shared_textures'[i].tex.session <= sessions
           /\ ring # <<>> => \A s \in Slots : cached_shared_textures'[i].handle = ring[s].handle
                                => cached_shared_textures'[i].tex = ring[s]
  <2>1. CASE UNCHANGED cached_shared_textures
    BY <2>1, <1>1 DEF AmfIInv, AmfShape, SharedIInv, HandlesAgree
  <2>2. CASE amf = "surface" /\ OpenSharedTexture(surface.tex)  BY <2>2, <1>4, OpenFacts, ZenonT(40)
  <2> QED  BY <2>1, <2>2, <1>3, ZenonT(40)
<1>6. AmfShape'
  <2>1. owed' \in BOOLEAN /\ pending_idr_trigger' \in BOOLEAN  BY <1>1, <1>3 DEF AmfIInv, AmfShape
  <2>2. failed' \subseteq {"encode", "bitrate"}  BY <1>1, <1>3 DEF AmfIInv, AmfShape
  <2> QED  BY <1>1, <1>3, <1>5, <2>1, <2>2 DEF AmfIInv, AmfShape, Building, InCall
<1>7. ObjectsInOrder' /\ PicturesCounted' /\ RequestIsNext' /\ RateControlAgrees'
  BY <1>1, <1>3 DEF AmfIInv, ObjectsInOrder, PicturesCounted, RequestIsNext, RateControlAgrees
<1>8. CallHasTheFrame'  BY <1>3 DEF CallHasTheFrame
<1>9. HandlesAgree'  BY <1>1, <1>3, <1>5 DEF SharedIInv, HandlesAgree
<1>10. ReadsDelivered' /\ InFlightIsStable'  BY <1>3 DEF ReadsDelivered, InFlightIsStable
<1> QED  BY <1>2, <1>6, <1>7, <1>8, <1>9, <1>10 DEF VideoIInv, AmfIInv, SharedIInv

(* No encoder: the frame is dropped. *)
LEMMA DropFrameInv ==
  ASSUME VideoIInv, DropFrame
  PROVE  VideoIInv'
<1>1. AmfIInv /\ SharedIInv /\ CaptureIInv  BY DEF VideoIInv
<1>2. CaptureIInv'  BY <1>1, CaptureGoesOn DEF DropFrame
<1>3. AmfIInv'  BY <1>1, AmfKept DEF DropFrame
<1>4. /\ phase = "encode" /\ phase' = "running" /\ amf = "none"
      /\ UNCHANGED <<amf, surface, inflight, cached_shared_textures, failed>>
      /\ UNCHANGED <<ring, picture, delivered, sessions, frame>>
  BY DEF DropFrame, ringVars, amfVars, sessionVars
<1>5. inflight = <<>>  BY <1>1, <1>4 DEF AmfIInv, AmfShape, Building
<1>6. CallHasTheFrame'  BY <1>4 DEF CallHasTheFrame
<1>7. HandlesAgree' /\ InFlightIsStable'  BY <1>1, <1>4 DEF SharedIInv, HandlesAgree, InFlightIsStable
<1>8. ReadsDelivered'  BY <1>4, <1>5, SMTT(30) DEF ReadsDelivered
<1> QED  BY <1>2, <1>3, <1>6, <1>7, <1>8 DEF VideoIInv, SharedIInv

(* request_idr and the rate calls touch neither pictures nor textures. *)
LEMMA ControlInv ==
  ASSUME VideoIInv, UNCHANGED captureVars, phase = "encode", RequestIdr \/ Control
  PROVE  VideoIInv'
<1>1. AmfIInv /\ SharedIInv  BY DEF VideoIInv
<1>2. CaptureIInv'  BY CaptureKept DEF VideoIInv
<1>3. UNCHANGED <<phase, ring, picture, delivered, sessions, frame>>  BY DEF captureVars, ringVars
<1>4. /\ amf = "ready" /\ amf' = "ready"
      /\ UNCHANGED <<amf_live, cached_shared_textures, surface, packets, inflight, outputs, accepted,
                     returned>>
  BY DEF RequestIdr, Control, sessionVars
<1>5. CASE RequestIdr
  <2>1. /\ pending_idr_trigger' = TRUE /\ owed' = TRUE
        /\ UNCHANGED <<properties, bitrate_kbps, framerate, failed>>
    BY <1>5 DEF RequestIdr, rateVars
  <2>2. owed' \in BOOLEAN /\ pending_idr_trigger' \in BOOLEAN  BY <2>1
  <2>3. AmfShape'  BY <1>1, <1>4, <2>1, <2>2 DEF AmfIInv, AmfShape, Building, InCall
  <2>4. ObjectsInOrder' /\ PicturesCounted' /\ RequestIsNext' /\ RateControlAgrees'
    BY <1>1, <1>4, <2>1 DEF AmfIInv, ObjectsInOrder, PicturesCounted, RequestIsNext, RateControlAgrees
  <2>5. CallHasTheFrame'  BY <1>3, <1>4 DEF CallHasTheFrame
  <2>6. SharedIInv'  BY <1>1, <1>3, <1>4, <2>1, <2>5, CallKeepsShared
  <2> QED  BY <1>2, <2>3, <2>4, <2>6 DEF VideoIInv, AmfIInv
<1>6. CASE Control
  <2>1. /\ UNCHANGED <<pending_idr_trigger, owed>>
        /\ \E r \in Rates \ {bitrate_kbps} : SetBitrate(r)
    BY <1>6 DEF Control, sessionVars
  <2>2. \/ properties' = Rated(bitrate_kbps', framerate') /\ failed' = failed \ {"bitrate"}
        \/ failed' = failed \cup {"bitrate"}
    BY <2>1 DEF SetBitrate
  <2>3. AmfShape'
    <3>1. failed' \subseteq {"encode", "bitrate"}  BY <1>1, <2>2 DEF AmfIInv, AmfShape
    <3>2. owed' \in BOOLEAN /\ pending_idr_trigger' \in BOOLEAN
      BY <1>1, <2>1 DEF AmfIInv, AmfShape
    <3> QED  BY <1>1, <1>4, <3>1, <3>2 DEF AmfIInv, AmfShape, Building, InCall
  <2>4. "encode" \in failed' <=> "encode" \in failed  BY <2>2
  <2>5. ObjectsInOrder' /\ PicturesCounted' /\ RequestIsNext'
    BY <1>1, <1>4, <2>1, <2>4 DEF AmfIInv, ObjectsInOrder, PicturesCounted, RequestIsNext
  <2>6. RateControlAgrees'  BY <2>2 DEF RateControlAgrees
  <2>7. CallHasTheFrame'  BY <1>3, <1>4 DEF CallHasTheFrame
  <2>8. SharedIInv'  BY <1>1, <1>3, <1>4, <2>4, <2>7, CallKeepsShared
  <2> QED  BY <1>2, <2>3, <2>5, <2>6, <2>8 DEF VideoIInv, AmfIInv
<1> QED  BY <1>5, <1>6

(* AMF finishes the oldest picture. *)
LEMMA AmfEncodesInv ==
  ASSUME VideoIInv, UNCHANGED captureVars, AmfEncodes
  PROVE  VideoIInv'
<1>1. AmfIInv /\ SharedIInv  BY DEF VideoIInv
<1>2. CaptureIInv'  BY CaptureKept DEF VideoIInv
<1>3. /\ inflight # <<>> /\ outputs' = outputs + 1 /\ inflight' = Tail(inflight)
      /\ UNCHANGED <<amf, amf_live, pending_idr_trigger, cached_shared_textures, surface, packets,
                     properties, bitrate_kbps, framerate, accepted, returned, owed, failed>>
      /\ UNCHANGED <<phase, ring, picture, delivered, sessions, frame>>
  BY DEF AmfEncodes, captureVars, ringVars, rateVars, sessionVars
<1>4. inflight \in Seq(Surface)  BY <1>1 DEF AmfIInv, AmfShape
<1>5. /\ inflight' \in Seq(Surface) /\ Len(inflight') = Len(inflight) - 1
      /\ \A i \in 1..Len(inflight') : inflight'[i] = inflight[i + 1]
  BY <1>3, <1>4, HeadTailProperties
<1>6. /\ Len(inflight) \in Nat /\ Len(inflight') \in Nat /\ outputs \in Nat /\ packets \in Nat
      /\ accepted \in Nat /\ returned \in Nat
      /\ InputDepth \in Nat /\ Len(inflight) + outputs <= InputDepth
  BY <1>1, <1>4, <1>5, LenProperties, WindowsAssumption, SMTT(30) DEF AmfIInv, AmfShape, IN_FLIGHT_DEPTH
<1>7. \A i \in 1..Len(inflight') : /\ i + 1 \in 1..Len(inflight)
                                   /\ i = Len(inflight') <=> i + 1 = Len(inflight)
                                   /\ i + 1 < Len(inflight) => i < Len(inflight')
  BY <1>5, <1>6, SMTT(30)
<1>8. AmfShape'
  <2>1. outputs' \in Nat /\ Len(inflight') + outputs' <= InputDepth  BY <1>3, <1>5, <1>6, SMTT(30)
  <2> QED  BY <1>1, <1>3, <1>5, <2>1 DEF AmfIInv, AmfShape
<1>9. PicturesCounted'
  <2>1. "encode" \notin failed => accepted = returned + packets + Len(inflight) + outputs
    BY <1>1 DEF AmfIInv, PicturesCounted
  <2> QED  BY <2>1, <1>3, <1>5, <1>6, SMTT(30) DEF PicturesCounted
<1>10. ObjectsInOrder' /\ RateControlAgrees' /\ RequestIsNext'
  BY <1>1, <1>3 DEF AmfIInv, ObjectsInOrder, RateControlAgrees, RequestIsNext
<1>11. CallHasTheFrame'  BY <1>1, <1>3 DEF SharedIInv, CallHasTheFrame
<1>12. HandlesAgree'  BY <1>1, <1>3, <1>5, <1>7 DEF SharedIInv, HandlesAgree
<1>13. InFlightIsStable'
  <2>1. DOMAIN inflight = 1..Len(inflight) /\ DOMAIN inflight' = 1..Len(inflight')
    BY <1>4, <1>5, LenProperties
  <2> SUFFICES ASSUME "encode" \notin failed, NEW i \in 1..Len(inflight')
               PROVE  picture[inflight'[i].tex] = inflight'[i].picture
    BY <1>3, <2>1 DEF InFlightIsStable
  <2>2. i + 1 \in DOMAIN inflight  BY <1>7, <2>1
  <2>3. picture[inflight[i + 1].tex] = inflight[i + 1].picture
    BY <1>1, <2>2 DEF SharedIInv, InFlightIsStable
  <2> QED  BY <1>5, <2>3
<1>14. ReadsDelivered'
  <2> SUFFICES ASSUME "encode" \notin failed, NEW i \in 1..Len(inflight'), InRing(inflight'[i].tex)
               PROVE  /\ \/ InSlot(inflight'[i].tex, 1) \/ InSlot(inflight'[i].tex, 2)
                         \/ ~Settled /\ i < Len(inflight')
                      /\ Settled /\ i = Len(inflight') => InSlot(inflight'[i].tex, 1)
    BY <1>3 DEF ReadsDelivered, InRing, InSlot, Settled
  <2> QED  BY <1>1, <1>5, <1>7 DEF SharedIInv, ReadsDelivered
<1> QED  BY <1>2, <1>8, <1>9, <1>10, <1>11, <1>12, <1>13, <1>14 DEF VideoIInv, AmfIInv, SharedIInv

-----------------------------------------------------------------------------
(* The theorems.                                                           *)

(* The capture loop starts with nothing captured and no encoder. *)
LEMMA VideoStarts ==
  ASSUME WindowsInit
  PROVE  VideoIInv
<1>1. /\ phase = "lost" /\ ring = <<>> /\ delivered = <<None, None>> /\ pending = None
      /\ has_copied_frame = FALSE /\ scaler = "none" /\ picture = <<>> /\ desktop = 1 /\ sessions = 0
      /\ inventory \in Inventories
      /\ update = [present |-> TRUE, pointer |-> FALSE, shape |-> FALSE]
      /\ cursor_bitmap = None /\ sink = [visible |-> FALSE, shape |-> None, missed |-> FALSE]
  BY DEF WindowsInit
<1>2. /\ amf = "none" /\ amf_live = {} /\ pending_idr_trigger = FALSE /\ cached_shared_textures = <<>>
      /\ packets = 0 /\ inflight = <<>> /\ outputs = 0 /\ accepted = 0 /\ returned = 0
      /\ owed = FALSE /\ failed = {} /\ properties = Rated(bitrate_kbps, framerate)
  BY DEF WindowsInit, AmfInit
<1>3. InputDepth \in Nat /\ CacheSize \in Nat  BY WindowsAssumption, SMTT(30) DEF IN_FLIGHT_DEPTH
<1>4. CaptureShape
  <2>1. has_copied_frame \in BOOLEAN  BY <1>1
  <2>2. delivered \in [1..2 -> Slots \cup {None}]  BY <1>1, SMTT(30)
  <2>3. picture \in [DOMAIN picture -> Nat]  BY <1>1, SMTT(30)
  <2> QED  BY <1>1, <2>1, <2>2, <2>3 DEF CaptureShape, RingShape
<1>5. FrameIsDelivered  BY <1>1 DEF FrameIsDelivered
<1>6. SinkAgrees
  <2>1. update \in [present : BOOLEAN, pointer : BOOLEAN, shape : BOOLEAN]  BY <1>1
  <2> QED  BY <1>1, <2>1 DEF SinkAgrees
<1>7. AmfShape
  <2>1. pending_idr_trigger \in BOOLEAN /\ owed \in BOOLEAN  BY <1>2
  <2>2. /\ cached_shared_textures \in Seq(Cached) /\ Len(cached_shared_textures) = 0
        /\ inflight \in Seq(Surface) /\ Len(inflight) = 0
    BY <1>2, SMTT(30)
  <2> QED  BY <1>2, <1>3, <2>1, <2>2, SMTT(30) DEF AmfShape, Building, InCall
<1>8. ObjectsInOrder /\ PicturesCounted /\ RequestIsNext /\ RateControlAgrees
  BY <1>2, SMTT(30) DEF ObjectsInOrder, PicturesCounted, RequestIsNext, RateControlAgrees
<1>9. CallHasTheFrame /\ HandlesAgree /\ ReadsDelivered /\ InFlightIsStable
  BY <1>1, <1>2, SMTT(30) DEF CallHasTheFrame, HandlesAgree, ReadsDelivered, InFlightIsStable
<1> QED  BY <1>4, <1>5, <1>6, <1>7, <1>8, <1>9 DEF VideoIInv, CaptureIInv, AmfIInv, SharedIInv

(* VideoIInv is an invariant of capture and encoder, for every number of     *)
(* adapters, displays, frames and calls.                                     *)
THEOREM VideoInvariant == WindowsSpec => []VideoIInv
<1>1. WindowsInit => VideoIInv  BY VideoStarts
<1>2. VideoIInv /\ [WindowsNext]_vars => VideoIInv'
  <2> SUFFICES ASSUME VideoIInv, [WindowsNext]_vars PROVE VideoIInv'  OBVIOUS
  <2>1. CASE Recovery /\ UNCHANGED amfVars
    BY <2>1, FindDisplayInv, StartCaptureInv DEF Recovery
  <2>2. CASE (Deliver \/ Heartbeat) /\ UNCHANGED amfVars  BY <2>2, DeliverInv
  <2>3. CASE Capturing /\ UNCHANGED amfVars
    BY <2>3, AcquireInv, CopyInv, SkipFrameInv, LoseInv DEF Capturing
  <2>4. CASE System /\ UNCHANGED amfVars  BY <2>4, SkipFrameInv DEF System
  <2>5. CASE HandOver  BY <2>5, HandOverInv
  <2>6. CASE DropFrame  BY <2>6, DropFrameInv
  <2>7. CASE EncodeCall /\ UNCHANGED captureVars
    BY <2>7, CreateSurfaceInv, SubmitInv, SubmitFullInv DEF EncodeCall
  <2>8. CASE SubmitReturns  BY <2>8, PollInv, EncodeFailsInv DEF SubmitReturns
  <2>9. CASE (Rebuild \/ RequestIdr \/ Control) /\ phase = "encode" /\ UNCHANGED captureVars
    BY <2>9, RebuildInv, DropFirstInv, ControlInv DEF Rebuild
  <2>10. CASE AmfEncodes /\ UNCHANGED captureVars  BY <2>10, AmfEncodesInv
  <2>11. CASE UNCHANGED vars
    <3>1. UNCHANGED captureVars /\ UNCHANGED amfVars  BY <2>11 DEF vars
    <3>2. CaptureIInv' /\ AmfIInv'  BY <3>1, CaptureKept, AmfKept DEF VideoIInv
    <3>3. UNCHANGED <<phase, frame, ring, picture, delivered, sessions, amf, surface, inflight,
                      cached_shared_textures, failed>>
      BY <3>1 DEF captureVars, ringVars, amfVars, sessionVars
    <3>4. SharedIInv /\ CallHasTheFrame'  BY <3>3 DEF VideoIInv, SharedIInv, CallHasTheFrame
    <3>5. HandlesAgree' /\ InFlightIsStable' /\ ReadsDelivered'
      BY <3>3, <3>4 DEF SharedIInv, HandlesAgree, InFlightIsStable, ReadsDelivered, InRing, InSlot, Settled
    <3> QED  BY <3>2, <3>4, <3>5 DEF VideoIInv, SharedIInv
  <2> QED  BY <2>1, <2>2, <2>3, <2>4, <2>5, <2>6, <2>7, <2>8, <2>9, <2>10, <2>11 DEF WindowsNext
<1> QED  BY <1>1, <1>2, PTL DEF WindowsSpec

(* WindowsSafe: AMF encodes each picture as it was handed over although the  *)
(* ring is written behind it, encode submits the frame's own texture, no     *)
(* packet is lost, the rate control agrees with the session's rates, the     *)
(* device outlives the context, and the sink knows the pointer.              *)
THEOREM WindowsIsSafe == WindowsSpec => []WindowsSafe
<1>1. VideoIInv => WindowsSafe
  <2> SUFFICES ASSUME VideoIInv PROVE WindowsSafe  OBVIOUS
  <2>1. CaptureShape /\ SinkAgrees /\ AmfIInv /\ SharedIInv  BY DEF VideoIInv, CaptureIInv
  <2>2. WindowsTypeOK
    <3>1. ring # <<>> => ring \in [Slots -> DOMAIN picture]  BY <2>1 DEF CaptureShape, RingShape
    <3>2. ring = <<>> <=> phase \in {"lost", "found"}  BY <2>1 DEF CaptureShape, RingShape
    <3>3. amf \in {"none", "context", "dx11", "component", "ready", "dropping",
                   "surface", "submit", "retry", "poll"}
      BY <2>1 DEF AmfIInv, AmfShape, Building, InCall
    <3> QED  BY <2>1, <3>1, <3>2, <3>3 DEF WindowsTypeOK, CaptureShape, AmfIInv, AmfShape
  <2>3. InFlightIsStable /\ RateControlAgrees  BY <2>1 DEF SharedIInv, AmfIInv
  <2>4. SubmitsItsTexture  BY <2>1 DEF SharedIInv, CallHasTheFrame, SubmitsItsTexture
  <2>5. NoPacketLost
    <3>1. Len(inflight) \in Nat /\ outputs \in Nat /\ packets \in Nat /\ returned \in Nat
      BY <2>1, LenProperties DEF AmfIInv, AmfShape
    <3>2. amf = "ready" => packets = 0  BY <2>1 DEF AmfIInv, AmfShape
    <3> QED  BY <2>1, <3>1, <3>2, SMTT(30) DEF AmfIInv, PicturesCounted, NoPacketLost
  <2>6. DeviceOutlivesContext  BY <2>1 DEF AmfIInv, ObjectsInOrder, DeviceOutlivesContext
  <2>7. SinkIsCurrent  BY <2>1 DEF SinkAgrees, SinkIsCurrent
  <2> QED  BY <2>2, <2>3, <2>4, <2>5, <2>6, <2>7 DEF WindowsSafe
<1> QED  BY <1>1, VideoInvariant, PTL

(* RequestedIdrIsNext: the first picture AMF takes after request_idr is an   *)
(* IDR, whatever full inputs and retries come between, unless a call fails.  *)
THEOREM RequestIsAnswered == WindowsSpec => RequestedIdrIsNext
<1>1. ASSUME VideoIInv, [WindowsNext]_vars
      PROVE  accepted' > accepted /\ owed => inflight'[Len(inflight')].idr
  <2>1. accepted \in Nat  BY <1>1 DEF VideoIInv, AmfIInv, AmfShape
  <2>2. CASE Submit /\ UNCHANGED captureVars  BY <2>2, <1>1, SubmitInv
  <2>3. CASE DropFirst
    <3>1. accepted' = 0  BY <2>3 DEF DropFirst
    <3> QED  BY <2>1, <3>1, SMTT(30)
  <2>4. CASE UNCHANGED accepted  BY <2>1, <2>4, SMTT(30)
  <2>5. UNCHANGED amfVars => UNCHANGED accepted  BY DEF amfVars
  <2>6. (Submit /\ UNCHANGED captureVars) \/ DropFirst \/ UNCHANGED accepted
    <3>1. HandOver => UNCHANGED accepted  BY DEF HandOver, Encode
    <3>2. DropFrame => UNCHANGED accepted  BY <2>5 DEF DropFrame
    <3>3. CreateSurface \/ SubmitFull => UNCHANGED accepted  BY DEF CreateSurface, SubmitFull
    <3>4. SubmitReturns => UNCHANGED accepted
      BY DEF SubmitReturns, Poll, CreateSurfaceFails, SubmitFails
    <3>5. Rebuild => DropFirst \/ UNCHANGED accepted
      BY DEF Rebuild, CreateContext, GetDx11Device, CreateComponent, SetProperties, CreateFails,
             CreateStep
    <3>6. RequestIdr \/ Control \/ AmfEncodes => UNCHANGED accepted  BY DEF RequestIdr, Control, AmfEncodes
    <3>7. UNCHANGED vars => UNCHANGED accepted  BY <2>5 DEF vars
    <3> QED  BY <1>1, <2>5, <3>1, <3>2, <3>3, <3>4, <3>5, <3>6, <3>7 DEF WindowsNext, EncodeCall
  <2> QED  BY <2>2, <2>3, <2>4, <2>6
<1> QED  BY <1>1, VideoInvariant, PTL DEF WindowsSpec, RequestedIdrIsNext

-----------------------------------------------------------------------------
(* IddMonitor.                                                             *)

MaybeMode == Modes \cup {0}

Driver == [plugged: BOOLEAN, busy: BOOLEAN, preferred: MaybeMode]
PlugCall == [op: {"none", "plugIn", "plugOut"},
         step: {"none", "create", "arrive", "arrived", "join"},
         mode: MaybeMode, old: MaybeMode, thread: 0 .. MaxChains, answered: BOOLEAN]
Server == [pc: {"off", "plug", "plugging", "status", "unplug", "unplugging", "vanish",
                "replug", "replugging", "appear", "configure", "running", "drop",
                "dropping"},
           mode: MaybeMode, old: MaybeMode, owns: BOOLEAN, starting: BOOLEAN]

IddRecords ==
    /\ adapter \in [pending: BOOLEAN, ready: BOOLEAN]
    /\ driver \in Driver
    /\ call \in PlugCall
    /\ monitor \in [mode: MaybeMode, offered: MaybeMode]
    /\ objects \in 0 .. 1
    /\ server \in Server
    /\ server.pc # "off" => server.mode \in Modes /\ server.old \in Modes

\* The call under way, the flags DriverState keeps and the monitor of Windows
\* go together.
DriverShape ==
    /\ driver.busy <=> call.op # "none"
    /\ call.op = "none" => call.step = "none"
    /\ call.op = "plugIn" =>
          /\ ~driver.plugged
          /\ call.step \in {"create", "arrive", "arrived"}
          /\ call.mode \in Modes /\ driver.preferred = call.mode
    /\ call.op = "plugOut" => driver.plugged /\ call.step = "join"
    /\ monitor # NoMonitor <=> driver.plugged \/ call.step = "arrived"
    /\ monitor # NoMonitor =>
          monitor.mode = driver.preferred /\ monitor.offered \in {0, monitor.mode}
    /\ MonitorNotLeaked

\* A call that still has its caller is the one the server waits for; a server
\* past its plug-in has the monitor, and no call is left that could take it.
ServerShape ==
    /\ call.op = "plugIn" /\ call.answered =>
          server.pc \in {"plugging", "replugging"} /\ call.mode = server.mode
    /\ call.op = "plugOut" /\ call.answered => server.pc \in {"unplugging", "dropping"}
    /\ server.pc \in {"appear", "configure", "running"} =>
          driver.plugged /\ ~driver.busy /\ monitor.mode = server.mode

MonitorIInv == IddRecords /\ DriverShape /\ ServerShape

\* The swap chains and their threads.
Callback == [op: {"none", "assign", "unassign"}, step: {"none", "join", "store"},
             thread: 0 .. MaxChains, chain: 0 .. MaxChains]
Budget == [wakes: Nat, starts: Nat, requests: Nat, chains: Nat, faults: Nat]

\* While an assign callback runs DriverState holds no processor, so that storing
\* the new one forgets none, and the thread of a new chain has not been started.
ChainIInv ==
    /\ iddBudget \in Budget
    /\ {chain, processor} \subseteq 0 .. MaxChains
    /\ threads \in [1 .. MaxChains -> {"none", "running", "told", "ended"}]
    /\ callback \in Callback
    /\ callback.op = "assign" => processor = 0 /\ callback.chain \in 1 .. iddBudget.chains
    /\ callback.op = "assign" /\ callback.step = "join" => threads[callback.chain] # "running"
    /\ \A c \in 1 .. MaxChains: c > iddBudget.chains => threads[c] # "running"
    /\ ThreadIsOwned

-----------------------------------------------------------------------------
(* The swap chains *)

\* Using up a bound leaves numbers.
LEMMA SpendIsBudget ==
    ASSUME iddBudget \in Budget, NEW what \in {"wakes", "starts", "requests", "chains", "faults"},
           NEW bound, Spend(what, bound)
    PROVE  iddBudget' \in Budget /\ iddBudget'.chains >= iddBudget.chains
  BY SMTT(30) DEF Budget, Spend

\* A thread that is told to end no longer runs; the others are as they were.
LEMMA TellStops ==
    ASSUME ChainIInv, threads' = Tell(processor), callback.op # "assign"
    PROVE  /\ threads' \in [1 .. MaxChains -> {"none", "running", "told", "ended"}]
           /\ \A c \in 1 .. MaxChains: threads'[c] # "running"
  BY IddAssumption, SMTT(30) DEF ChainIInv, Tell, ThreadIsOwned

\* Nothing of the swap chains changes but a bound.
LEMMA ChainUntouched ==
    ASSUME ChainIInv, UNCHANGED chainVars, iddBudget' \in Budget,
           iddBudget'.chains >= iddBudget.chains
    PROVE  ChainIInv'
  BY SMTT(30) DEF ChainIInv, chainVars, ThreadIsOwned, Budget

\* The callbacks of IddCx and the threads.
LEMMA SwapChainsInv == ASSUME ChainIInv, SwapChains PROVE ChainIInv'
<1>1. CASE AssignSwapChain
  <2>1. callback.op = "none"
    BY <1>1 DEF AssignSwapChain, NoCallback
  <2>2. /\ iddBudget' \in Budget
        /\ iddBudget'.chains = iddBudget.chains + 1
        /\ iddBudget.chains + 1 \in 1 .. MaxChains
    BY <1>1, IddAssumption, SMTT(30) DEF AssignSwapChain, Spend, ChainIInv, Budget
  <2>3. callback' \in Callback /\ callback'.chain = iddBudget.chains + 1
    BY <1>1, <2>2, SMTT(30) DEF AssignSwapChain, ChainIInv, Callback
  <2>4. /\ threads' \in [1 .. MaxChains -> {"none", "running", "told", "ended"}]
        /\ \A c \in 1 .. MaxChains: threads'[c] # "running"
    BY <1>1, <2>1, TellStops DEF AssignSwapChain
  <2>5. processor' = 0 /\ chain' = chain /\ iddBudget.chains \in Nat
    BY <1>1 DEF AssignSwapChain, ChainIInv, Budget
  <2>. QED
    BY <2>2, <2>3, <2>4, <2>5, IddAssumption, SMTT(30) DEF ChainIInv, ThreadIsOwned
<1>2. CASE StartProcessor
  <2>1. CASE threads' = [threads EXCEPT ![callback.chain] = "running"]
             /\ callback' = [callback EXCEPT !.step = "store"] /\ UNCHANGED iddBudget
    <3>1. /\ callback' \in Callback
          /\ callback'.op = "assign" /\ callback'.chain = callback.chain
          /\ callback'.step = "store"
      BY <1>2, <2>1 DEF StartProcessor, ChainIInv, Callback
    <3>. QED
      BY <1>2, <2>1, <3>1, SMTT(30) DEF StartProcessor, ChainIInv, Callback, ThreadIsOwned, Budget
  <2>2. CASE DriverFault /\ callback' = NoCallback /\ UNCHANGED threads
    <3>1. callback' \in Callback /\ callback'.op = "none"
      BY <2>2, IddAssumption, SMTT(30) DEF NoCallback, Callback
    <3>2. iddBudget' \in Budget /\ iddBudget'.chains >= iddBudget.chains
      BY <2>2, SpendIsBudget DEF DriverFault, ChainIInv
    <3>. QED
      BY <1>2, <2>2, <3>1, <3>2, SMTT(30) DEF StartProcessor, ChainIInv, Callback, ThreadIsOwned, Budget
  <2>. QED BY <1>2, <2>1, <2>2 DEF StartProcessor
<1>3. CASE StoreProcessor \/ Unassigned
  <2>1. callback' \in Callback /\ callback'.op = "none"
    BY <1>3, IddAssumption, SMTT(30) DEF StoreProcessor, Unassigned, NoCallback, Callback
  <2>. QED
    BY <1>3, <2>1, IddAssumption, SMTT(30) DEF StoreProcessor, Unassigned, ChainIInv, Callback, ThreadIsOwned
<1>4. CASE UnassignSwapChain
  <2>1. callback.op = "none"
    BY <1>4 DEF UnassignSwapChain, NoCallback
  <2>2. callback' \in Callback /\ callback'.op = "unassign"
    BY <1>4 DEF UnassignSwapChain, ChainIInv, Callback
  <2>. QED
    BY <1>4, <2>1, <2>2, TellStops, IddAssumption, SMTT(30) DEF UnassignSwapChain, ChainIInv, ThreadIsOwned
<1>5. ASSUME NEW c \in 1 .. MaxChains, ThreadEnds(c) PROVE ChainIInv'
  BY <1>5, SMTT(30) DEF ThreadEnds, ChainIInv, ThreadIsOwned
<1>. QED BY <1>1, <1>2, <1>3, <1>4, <1>5 DEF SwapChains

\* The driver's own calls let go of the processor, never of its thread.
LEMMA CallChainInv ==
    ASSUME ChainIInv, DriverCall \/ ServerStep
    PROVE  ChainIInv'
<1>1. CASE ArrivalFails
  <2>1. iddBudget' \in Budget /\ iddBudget'.chains >= iddBudget.chains
    BY <1>1, SpendIsBudget DEF ArrivalFails, DriverFault, ChainIInv
  <2>2. /\ threads' \in [1 .. MaxChains -> {"none", "running", "told", "ended"}]
        /\ \A c \in 1 .. MaxChains:
              threads'[c] = "running" => threads[c] = "running" /\ c # processor
    BY <1>1 DEF ArrivalFails, ChainIInv
  <2>3. processor' = 0 /\ UNCHANGED <<chain, callback>>
    BY <1>1 DEF ArrivalFails
  <2>4. ThreadIsOwned'
    BY <2>2, <2>3 DEF ChainIInv, ThreadIsOwned
  <2>5. iddBudget.chains \in Nat /\ iddBudget'.chains \in Nat
    BY <2>1 DEF ChainIInv, Budget
  <2>6. callback'.op = "assign" => callback'.chain \in 1 .. iddBudget'.chains
    BY <2>1, <2>3, <2>5, SMTT(30) DEF ChainIInv
  <2>7. \A c \in 1 .. MaxChains: c > iddBudget'.chains => threads'[c] # "running"
    BY <2>1, <2>2, <2>5, IddAssumption, SMTT(30) DEF ChainIInv
  <2>8. callback'.op = "assign" /\ callback'.step = "join" => threads'[callback'.chain] # "running"
    <3>1. callback.op = "assign" => callback.chain \in 1 .. MaxChains
      BY <2>5, IddAssumption, SMTT(30) DEF ChainIInv, Callback
    <3>. QED BY <2>2, <2>3, <3>1 DEF ChainIInv
  <2>9. {chain', processor'} \subseteq 0 .. MaxChains
    BY <2>3, IddAssumption, SMTT(30) DEF ChainIInv
  <2>. QED
    BY <2>1, <2>2, <2>3, <2>4, <2>6, <2>7, <2>8, <2>9 DEF ChainIInv
<1>2. CASE IssuePlugOut /\ PlugOutMonitor
  <2>1. /\ threads' = Tell(processor) /\ processor' = 0
        /\ UNCHANGED <<chain, callback, iddBudget>>
    BY <1>2 DEF IssuePlugOut, PlugOutMonitor
  <2>. QED BY <2>1, IddAssumption, SMTT(30) DEF ChainIInv, ThreadIsOwned, Tell, Budget
<1>3. CASE UNCHANGED chainVars
  <2>1. iddBudget' = iddBudget \/ DriverFault
    BY <1>3 DEF DriverCall, ServerStep, MonitorCreate, MonitorArrival, ArrivalFails, PlugInDone,
       MonitorDeparture, IssuePlugIn, IssuePlugOut, Adopt, OutputVanishes, OutputAppears, Configure
  <2>2. iddBudget' \in Budget /\ iddBudget'.chains >= iddBudget.chains
    BY <2>1, SpendIsBudget, SMTT(30) DEF DriverFault, ChainIInv, Budget
  <2>. QED BY <1>3, <2>2, ChainUntouched
<1>4. DriverCall \/ ServerStep => UNCHANGED chainVars \/ ArrivalFails \/ (IssuePlugOut /\ PlugOutMonitor)
  BY DEF DriverCall, ServerStep, MonitorCreate, MonitorArrival, PlugInDone, MonitorDeparture,
     IssuePlugIn, IssuePlugOut, Adopt, OutputVanishes, OutputAppears, Configure, chainVars, serverOnly
<1>. QED BY <1>1, <1>2, <1>3, <1>4

\* Every step keeps the swap chains and their threads in order.
LEMMA ChainStep == ChainIInv /\ [IddNext]_iddVars => ChainIInv'
<1>. SUFFICES ASSUME ChainIInv, [IddNext]_iddVars PROVE ChainIInv'
  OBVIOUS
<1>1. CASE SwapChains
  BY <1>1, SwapChainsInv
<1>2. CASE DriverCall \/ ServerStep
  BY <1>2, CallChainInv
<1>3. CASE \/ Adapter \/ QueryModes \/ StartServer \/ RequestMode \/ ServerEnds
           \/ UNCHANGED iddVars
  <2>1. UNCHANGED chainVars
    BY <1>3 DEF Adapter, D0Entry, AdapterInitFinished, QueryModes, StartServer, RequestMode,
       ServerEnds, iddVars, serverOnly
  <2>2. \/ iddBudget' = iddBudget \/ Spend("wakes", MaxWakes) \/ Spend("starts", MaxStarts)
        \/ Spend("requests", MaxRequests)
    BY <1>3 DEF Adapter, D0Entry, AdapterInitFinished, QueryModes, StartServer, RequestMode,
       ServerEnds, iddVars
  <2>3. iddBudget' \in Budget /\ iddBudget'.chains >= iddBudget.chains
    BY <2>2, SpendIsBudget, SMTT(30) DEF ChainIInv, Budget
  <2>. QED BY <2>1, <2>3, ChainUntouched
<1>. QED BY <1>1, <1>2, <1>3 DEF IddNext

-----------------------------------------------------------------------------
(* The server and the driver's calls *)

\* Where a server goes on that failed, or was refused.
LEMMA FailureIsServer ==
    ASSUME NEW s \in Server, s.mode \in Modes, s.old \in Modes
    PROVE  /\ AfterFailure(s) \in Server
           /\ AfterFailure(s).pc \in {"unplug", "drop", "off"}
           /\ AfterFailure(s).pc # "off" =>
                 AfterFailure(s).mode \in Modes /\ AfterFailure(s).old \in Modes
           /\ AfterRefusal(s) \in Server
           /\ AfterRefusal(s).pc \in {"unplug", "drop", "off", "status"}
           /\ AfterRefusal(s).pc # "off" =>
                 AfterRefusal(s).mode \in Modes /\ AfterRefusal(s).old \in Modes
<1>1. Off \in Server /\ Off.pc = "off"
  BY DEF Off, Server, MaybeMode
<1>2. /\ AfterFailure(s) \in Server
      /\ AfterFailure(s).pc \in {"unplug", "drop", "off"}
      /\ AfterFailure(s).pc # "off" =>
            AfterFailure(s).mode \in Modes /\ AfterFailure(s).old \in Modes
  <2>1. CASE ~s.starting
    BY <2>1 DEF AfterFailure, Server, MaybeMode
  <2>2. CASE s.starting /\ s.owns
    BY <2>2 DEF AfterFailure, Server, MaybeMode
  <2>3. CASE s.starting /\ ~s.owns
    BY <2>3, <1>1 DEF AfterFailure
  <2>. QED BY <2>1, <2>2, <2>3
<1>3. CASE s.pc \in {"plug", "plugging"}
  BY <1>2, <1>3 DEF AfterRefusal, Server, MaybeMode
<1>4. CASE s.pc \notin {"plug", "plugging"}
  BY <1>2, <1>4 DEF AfterRefusal
<1>. QED BY <1>2, <1>3, <1>4

\* A server that is not waiting for a call, and not past its plug-in, goes to
\* another such place.
Elsewhere == {"off", "plug", "status", "unplug", "vanish", "replug", "drop"}

\* While nothing happens in the driver the server moves freely among them.
LEMMA ServerMoves ==
    ASSUME MonitorIInv, UNCHANGED <<adapter, driver, call, monitor, objects>>,
           call.op = "none" \/ ~call.answered,
           server' \in Server, server'.pc \in Elsewhere,
           server'.pc # "off" => server'.mode \in Modes /\ server'.old \in Modes
    PROVE  MonitorIInv'
  BY DEF MonitorIInv, IddRecords, DriverShape, ServerShape, MonitorNotLeaked, Elsewhere

\* Only a server that waits has a call that will be answered.
LEMMA NotWaiting ==
    ASSUME MonitorIInv,
           server.pc \notin {"plugging", "replugging", "unplugging", "dropping"}
    PROVE  call.op = "none" \/ ~call.answered
  BY DEF MonitorIInv, ServerShape, IddRecords, PlugCall

\* The steps of the server that make no call.
LEMMA ServerInv ==
    ASSUME MonitorIInv,
           Adopt \/ OutputVanishes \/ OutputAppears \/ Configure \/ StartServer \/ RequestMode
    PROVE  MonitorIInv'
<1>0. /\ UNCHANGED <<adapter, driver, call, monitor, objects>>
      /\ call.op = "none" \/ ~call.answered
  <2>1. UNCHANGED <<adapter, driver, call, monitor, objects>>
    BY DEF Adopt, OutputVanishes, OutputAppears, Configure, StartServer, RequestMode,
       serverOnly, driverVars
  <2>2. Off.pc = "off"
    BY DEF Off
  <2>3. server.pc \in {"status", "vanish", "appear", "configure", "off", "running"}
    BY <2>2 DEF Adopt, OutputVanishes, OutputAppears, Configure, StartServer, RequestMode
  <2>. QED BY <2>1, <2>3, NotWaiting
<1>1. Off \in Server /\ Off.pc = "off" /\ Off.pc \in Elsewhere
  BY DEF Off, Server, MaybeMode, Elsewhere
<1>2. CASE Fails /\ server.pc # "off"
  BY <1>0, <1>2, FailureIsServer, ServerMoves DEF Fails, MonitorIInv, IddRecords, Elsewhere
<1>3. CASE Adopt
  BY <1>0, <1>1, <1>3, ServerMoves DEF Adopt, MonitorIInv, IddRecords, Server, Elsewhere
<1>4. CASE server.pc = "vanish" /\ server' = [server EXCEPT !.pc = "replug"]
  BY <1>0, <1>4, ServerMoves DEF MonitorIInv, IddRecords, Server, Elsewhere
<1>5. CASE server.pc = "appear" /\ server' = [server EXCEPT !.pc = "configure"]
  BY <1>0, <1>5 DEF MonitorIInv, IddRecords, Server, DriverShape, ServerShape, MonitorNotLeaked
<1>6. CASE /\ server.pc = "configure"
           /\ server' = [server EXCEPT !.pc = "running", !.starting = FALSE, !.old = server.mode]
  BY <1>0, <1>6 DEF MonitorIInv, IddRecords, Server, DriverShape, ServerShape, MonitorNotLeaked
<1>7. CASE StartServer
  <2>1. PICK m \in Modes: server' = [Off EXCEPT !.pc = "plug", !.mode = m, !.old = m]
    BY <1>7 DEF StartServer
  <2>2. server' \in Server /\ server'.pc = "plug" /\ server'.mode = m /\ server'.old = m
    BY <2>1 DEF Off, Server, MaybeMode
  <2>. QED BY <1>0, <2>2, ServerMoves DEF Elsewhere
<1>8. CASE RequestMode
  <2>1. PICK m \in Modes: server' = [server EXCEPT !.pc = "unplug", !.mode = m]
    BY <1>8 DEF RequestMode
  <2>. QED
    BY <1>0, <1>8, <2>1, ServerMoves
    DEF RequestMode, MonitorIInv, IddRecords, Server, MaybeMode, Elsewhere
<1>. QED
  BY <1>2, <1>3, <1>4, <1>5, <1>6, <1>7, <1>8 DEF OutputVanishes, OutputAppears, Configure

\* A plug-in that is refused changes nothing; one that is accepted is the
\* server's, since a driver that is not busy has no other.
LEMMA IssuePlugInInv == ASSUME MonitorIInv, IssuePlugIn PROVE MonitorIInv'
<1>0. /\ server \in Server /\ server.pc \in {"plug", "replug"}
      /\ server.mode \in Modes /\ server.old \in Modes
      /\ UNCHANGED <<adapter, monitor, objects>>
  BY DEF IssuePlugIn, MonitorIInv, IddRecords
<1>1. CASE server' = AfterRefusal(server) /\ UNCHANGED <<driver, call>>
  BY <1>0, <1>1, FailureIsServer, ServerMoves, NotWaiting DEF Elsewhere
<1>2. CASE /\ ~Refused
           /\ driver' = [driver EXCEPT !.busy = TRUE, !.preferred = server.mode]
           /\ call' = [op |-> "plugIn", step |-> "create", mode |-> server.mode,
                       old |-> driver.preferred, thread |-> 0, answered |-> TRUE]
           /\ server' = [server EXCEPT !.pc = IF server.pc = "plug" THEN "plugging"
                                              ELSE "replugging"]
  <2>1. /\ call.op = "none" /\ call.step = "none" /\ ~driver.plugged
        /\ monitor = NoMonitor /\ objects = 0
    BY <1>2 DEF Refused, MonitorIInv, DriverShape, MonitorNotLeaked
  <2>2. /\ driver' \in Driver /\ driver'.busy /\ ~driver'.plugged
        /\ driver'.preferred = server.mode
    BY <1>0, <1>2, <2>1 DEF MonitorIInv, IddRecords, Driver, MaybeMode
  <2>3. /\ call' \in PlugCall /\ call'.op = "plugIn" /\ call'.step = "create"
        /\ call'.mode = server.mode
    BY <1>0, <1>2, IddAssumption, SMTT(30) DEF MonitorIInv, IddRecords, Driver, PlugCall, MaybeMode
  <2>4. /\ server' \in Server /\ server'.pc \in {"plugging", "replugging"}
        /\ server'.mode = server.mode /\ server'.old = server.old
    BY <1>0, <1>2 DEF Server
  <2>. QED
    BY <1>0, <2>1, <2>2, <2>3, <2>4
    DEF MonitorIInv, IddRecords, DriverShape, ServerShape, MonitorNotLeaked
<1>. QED BY <1>1, <1>2 DEF IssuePlugIn, PlugInMonitor

\* The same of a plug-out.
LEMMA IssuePlugOutInv == ASSUME MonitorIInv, ChainIInv, IssuePlugOut PROVE MonitorIInv'
<1>0. /\ server \in Server /\ server.pc \in {"unplug", "drop"}
      /\ server.mode \in Modes /\ server.old \in Modes
      /\ UNCHANGED <<adapter, monitor, objects>>
  BY DEF IssuePlugOut, MonitorIInv, IddRecords
<1>1. CASE /\ server' = IF server.pc = "drop" THEN Off ELSE AfterFailure(server)
           /\ UNCHANGED <<driver, call>>
  <2>1. Off \in Server /\ Off.pc = "off"
    BY DEF Off, Server, MaybeMode
  <2>. QED BY <1>0, <1>1, <2>1, FailureIsServer, ServerMoves, NotWaiting DEF Elsewhere
<1>2. CASE /\ PlugOutMonitor
           /\ server' = [server EXCEPT !.pc = IF @ = "drop" THEN "dropping" ELSE "unplugging"]
  <2>1. call.op = "none" /\ call.step = "none" /\ driver.plugged
    BY <1>2 DEF PlugOutMonitor, MonitorIInv, DriverShape
  <2>2. /\ driver' \in Driver /\ driver'.busy /\ driver'.plugged
        /\ driver'.preferred = driver.preferred
    BY <1>2, <2>1 DEF PlugOutMonitor, MonitorIInv, IddRecords, Driver
  <2>3. call' \in PlugCall /\ call'.op = "plugOut" /\ call'.step = "join"
    BY <1>2 DEF PlugOutMonitor, NoCall, PlugCall, MaybeMode, ChainIInv
  <2>4. /\ server' \in Server /\ server'.pc \in {"unplugging", "dropping"}
        /\ server'.mode = server.mode /\ server'.old = server.old
    BY <1>0, <1>2 DEF Server
  <2>. QED
    BY <1>0, <2>1, <2>2, <2>3, <2>4
    DEF MonitorIInv, IddRecords, DriverShape, ServerShape, MonitorNotLeaked
<1>. QED BY <1>1, <1>2 DEF IssuePlugOut

\* A call that fails leaves no server that believes it has the monitor.
LEMMA AnswerFails ==
    ASSUME MonitorIInv,
           \/ call.op = "plugIn" /\ AnswerPlugIn(FALSE)
           \/ call.op = "plugOut" /\ AnswerPlugOut(FALSE)
           \/ call.op = "plugOut" /\ AnswerPlugOut(TRUE)
    PROVE  /\ server' \in Server
           /\ server'.pc \notin {"appear", "configure", "running"}
           /\ server'.pc # "off" => server'.mode \in Modes /\ server'.old \in Modes
<1>0. /\ server \in Server
      /\ server.pc # "off" => server.mode \in Modes /\ server.old \in Modes
      /\ server.pc \notin {"appear", "configure", "running"}
  BY DEF MonitorIInv, IddRecords, DriverShape, ServerShape
<1>1. CASE ~call.answered
  BY <1>0, <1>1 DEF AnswerPlugIn, AnswerPlugOut
<1>2. CASE call.answered
  <2>1. server.pc \in {"plugging", "replugging", "unplugging", "dropping"}
    BY <1>2 DEF MonitorIInv, ServerShape
  <2>2. Off \in Server /\ Off.pc = "off"
    BY DEF Off, Server, MaybeMode
  <2>3. CASE server' \in {AfterRefusal(server), AfterFailure(server), Off}
    BY <1>0, <2>1, <2>2, <2>3, FailureIsServer
  <2>4. CASE server' = [server EXCEPT !.pc = "vanish", !.owns = FALSE]
    BY <1>0, <2>1, <2>4 DEF Server
  <2>. QED BY <1>2, <2>3, <2>4 DEF AnswerPlugIn, AnswerPlugOut
<1>. QED BY <1>1, <1>2

\* No call.
LEMMA NoCallIsCall == NoCall \in PlugCall /\ NoCall.op = "none" /\ NoCall.step = "none"
  BY IddAssumption, SMTT(30) DEF NoCall, PlugCall, MaybeMode

\* A plug-in that fails, before or after the monitor object was created.
LEMMA PlugInFailsInv ==
    ASSUME MonitorIInv, call.op = "plugIn", call.step \in {"create", "arrive"},
           PlugInFailed, AnswerPlugIn(FALSE), call' = NoCall, objects' = 0,
           UNCHANGED <<adapter, monitor>>
    PROVE  MonitorIInv'
<1>1. /\ driver' \in Driver /\ ~driver'.busy /\ ~driver'.plugged
  BY DEF PlugInFailed, MonitorIInv, IddRecords, DriverShape, Driver, PlugCall
<1>2. monitor = NoMonitor
  BY DEF MonitorIInv, DriverShape
<1>. QED
  BY <1>1, <1>2, AnswerFails, NoCallIsCall, SMTT(30)
  DEF MonitorIInv, IddRecords, DriverShape, ServerShape, MonitorNotLeaked

\* The driver's steps of a plug-in.
LEMMA PlugInInv ==
    ASSUME MonitorIInv, MonitorCreate \/ MonitorArrival \/ ArrivalFails \/ PlugInDone
    PROVE  MonitorIInv'
<1>0. call.op = "plugIn" /\ call \in PlugCall /\ driver \in Driver
  BY DEF MonitorCreate, MonitorArrival, ArrivalFails, PlugInDone, MonitorIInv, IddRecords
<1>1. CASE MonitorCreate /\ call' = NoCall
  <2>1. objects' = 0
    BY <1>1, NoCallIsCall DEF MonitorCreate, MonitorIInv, DriverShape, MonitorNotLeaked, PlugCall
  <2>2. PlugInFailed /\ AnswerPlugIn(FALSE)
    <3>1. [call EXCEPT !.step = "arrive"].step = "arrive"
      BY <1>0 DEF PlugCall
    <3>. QED BY <1>1, <3>1, NoCallIsCall DEF MonitorCreate
  <2>. QED BY <1>0, <1>1, <2>1, <2>2, PlugInFailsInv DEF MonitorCreate
<1>2. CASE ArrivalFails
  <2>1. objects' = 0
    BY <1>2, SMTT(30) DEF ArrivalFails, MonitorIInv, DriverShape, MonitorNotLeaked
  <2>. QED BY <1>2, <2>1, PlugInFailsInv DEF ArrivalFails
<1>3. CASE /\ MonitorCreate /\ objects' = objects + 1
           /\ call' = [call EXCEPT !.step = "arrive"]
           /\ UNCHANGED <<driver, server>>
  <2>1. /\ call' \in PlugCall /\ call'.op = "plugIn" /\ call'.step = "arrive"
        /\ call'.mode = call.mode /\ call'.answered = call.answered
    BY <1>0, <1>3 DEF PlugCall
  <2>2. call.step = "create" /\ monitor = NoMonitor /\ objects = 0 /\ UNCHANGED <<adapter, monitor>>
    BY <1>3 DEF MonitorCreate, MonitorIInv, DriverShape, MonitorNotLeaked
  <2>. QED
    BY <1>0, <1>3, <2>1, <2>2, SMTT(30)
    DEF MonitorIInv, IddRecords, DriverShape, ServerShape, MonitorNotLeaked
<1>4. CASE MonitorArrival
  <2>1. /\ call' \in PlugCall /\ call'.op = "plugIn" /\ call'.step = "arrived"
        /\ call'.mode = call.mode /\ call'.answered = call.answered
    BY <1>0, <1>4 DEF MonitorArrival, PlugCall
  <2>2. call.mode \in Modes /\ objects = 1
    BY <1>0, <1>4 DEF MonitorArrival, MonitorIInv, DriverShape, MonitorNotLeaked
  <2>3. /\ monitor' \in [mode: MaybeMode, offered: MaybeMode]
        /\ monitor'.mode = call.mode /\ monitor'.offered = 0
        /\ monitor' # NoMonitor
    BY <1>4, <2>2, IddAssumption DEF MonitorArrival, NoMonitor, MaybeMode
  <2>. QED
    BY <1>0, <1>4, <2>1, <2>2, <2>3
    DEF MonitorArrival, MonitorIInv, IddRecords, DriverShape, ServerShape, MonitorNotLeaked
<1>5. CASE PlugInDone
  <2>1. /\ driver' \in Driver /\ driver'.plugged /\ ~driver'.busy
        /\ driver'.preferred = driver.preferred
    BY <1>0, <1>5 DEF PlugInDone, Driver
  <2>2. /\ monitor # NoMonitor /\ monitor.mode = call.mode /\ objects = 1
        /\ UNCHANGED <<adapter, monitor, objects>> /\ call' = NoCall
    BY <1>0, <1>5 DEF PlugInDone, MonitorIInv, DriverShape, MonitorNotLeaked
  <2>3. /\ server' \in Server
        /\ server'.pc # "off" => server'.mode \in Modes /\ server'.old \in Modes
        /\ server'.pc \in {"appear", "configure", "running"} => server'.mode = call.mode
    <3>1. CASE ~call.answered
      BY <1>0, <1>5, <3>1 DEF PlugInDone, AnswerPlugIn, MonitorIInv, IddRecords, DriverShape, ServerShape
    <3>2. CASE call.answered
      BY <1>0, <1>5, <3>2
      DEF PlugInDone, AnswerPlugIn, MonitorIInv, IddRecords, ServerShape, Server
    <3>. QED BY <3>1, <3>2
  <2>. QED
    BY <2>1, <2>2, <2>3, NoCallIsCall
    DEF MonitorIInv, IddRecords, DriverShape, ServerShape, MonitorNotLeaked
<1>. QED BY <1>1, <1>2, <1>3, <1>4, <1>5 DEF MonitorCreate

\* The departure, which a failure leaves as it was before the call.
LEMMA DepartureInv == ASSUME MonitorIInv, MonitorDeparture PROVE MonitorIInv'
<1>0. /\ call.op = "plugOut" /\ call.step = "join" /\ driver \in Driver /\ driver.plugged
      /\ monitor # NoMonitor /\ objects = 1 /\ call' = NoCall /\ UNCHANGED adapter
  BY DEF MonitorDeparture, MonitorIInv, IddRecords, DriverShape, MonitorNotLeaked
<1>1. CASE /\ monitor' = NoMonitor /\ objects' = objects - 1
           /\ driver' = [driver EXCEPT !.busy = FALSE, !.plugged = FALSE]
           /\ AnswerPlugOut(TRUE)
  <2>1. driver' \in Driver /\ ~driver'.busy /\ ~driver'.plugged
    BY <1>0, <1>1 DEF Driver
  <2>2. monitor' \in [mode: MaybeMode, offered: MaybeMode]
    BY <1>1 DEF NoMonitor, MaybeMode
  <2>. QED
    BY <1>0, <1>1, <2>1, <2>2, AnswerFails, NoCallIsCall, SMTT(30)
    DEF MonitorIInv, IddRecords, DriverShape, ServerShape, MonitorNotLeaked
<1>2. CASE /\ driver' = [driver EXCEPT !.busy = FALSE]
           /\ AnswerPlugOut(FALSE) /\ UNCHANGED <<monitor, objects>>
  <2>1. driver' \in Driver /\ ~driver'.busy /\ driver'.plugged /\ driver'.preferred = driver.preferred
    BY <1>0, <1>2 DEF Driver
  <2>. QED
    BY <1>0, <1>2, <2>1, AnswerFails, NoCallIsCall
    DEF MonitorIInv, IddRecords, DriverShape, ServerShape, MonitorNotLeaked
<1>. QED BY <1>1, <1>2 DEF MonitorDeparture

\* Windows offers the preferred mode, the one of the monitor it has.
LEMMA IddQueryInv == ASSUME MonitorIInv, QueryModes PROVE MonitorIInv'
<1>1. /\ monitor' \in [mode: MaybeMode, offered: MaybeMode]
      /\ monitor'.mode = monitor.mode /\ monitor'.offered = driver.preferred
      /\ driver.preferred = monitor.mode /\ monitor # NoMonitor
  BY DEF QueryModes, MonitorIInv, IddRecords, DriverShape, Driver
<1>2. monitor.mode # 0
  <2>1. monitor.mode = 0 => monitor.offered = 0
    BY DEF QueryModes, MonitorIInv, DriverShape
  <2>2. monitor = [mode |-> monitor.mode, offered |-> monitor.offered]
    BY DEF MonitorIInv, IddRecords
  <2>. QED BY <1>1, <2>1, <2>2 DEF NoMonitor
<1>3. monitor' # NoMonitor
  BY <1>1, <1>2, SMTT(30) DEF NoMonitor
<1>. QED
  BY <1>1, <1>3
  DEF QueryModes, MonitorIInv, IddRecords, DriverShape, ServerShape, MonitorNotLeaked

\* A server that dies leaves its call to run on without it.
LEMMA ServerEndsInv == ASSUME MonitorIInv, ServerEnds PROVE MonitorIInv'
<1>1. server' \in Server /\ server'.pc = "off"
  BY DEF ServerEnds, Off, Server, MaybeMode
<1>2. /\ call' \in PlugCall /\ call'.op = call.op /\ call'.step = call.step
      /\ call'.mode = call.mode /\ ~call'.answered
  BY DEF ServerEnds, MonitorIInv, IddRecords, PlugCall
<1>. QED
  BY <1>1, <1>2
  DEF ServerEnds, MonitorIInv, IddRecords, DriverShape, ServerShape, MonitorNotLeaked

\* Every step keeps the driver, the monitor and the server in order.
LEMMA MonitorStep == MonitorIInv /\ ChainIInv /\ [IddNext]_iddVars => MonitorIInv'
<1>. SUFFICES ASSUME MonitorIInv, ChainIInv, [IddNext]_iddVars PROVE MonitorIInv'
  OBVIOUS
<1>1. CASE Adapter
  <2>1. adapter' \in [pending: BOOLEAN, ready: BOOLEAN]
    BY <1>1 DEF Adapter, D0Entry, AdapterInitFinished, MonitorIInv, IddRecords
  <2>. QED
    BY <1>1, <2>1, ZenonT(40)
    DEF Adapter, D0Entry, AdapterInitFinished, MonitorIInv, IddRecords, DriverShape, ServerShape,
        MonitorNotLeaked
<1>2. CASE SwapChains \/ UNCHANGED iddVars
  <2>1. UNCHANGED <<driverVars, server>>
    BY <1>2
    DEF SwapChains, AssignSwapChain, StartProcessor, StoreProcessor, UnassignSwapChain, Unassigned,
        ThreadEnds, iddVars
  <2>. QED
    BY <2>1 DEF driverVars, MonitorIInv, IddRecords, DriverShape, ServerShape, MonitorNotLeaked
<1>3. CASE DriverCall
  BY <1>3, PlugInInv, DepartureInv DEF DriverCall
<1>4. CASE ServerStep \/ StartServer \/ RequestMode
  BY <1>4, ServerInv, IssuePlugInInv, IssuePlugOutInv DEF ServerStep
<1>. QED BY <1>1, <1>2, <1>3, <1>4, IddQueryInv, ServerEndsInv DEF IddNext

-----------------------------------------------------------------------------
(* The theorems *)

\* The two inductive invariants hold of every behaviour.
THEOREM IddInvariant == IddSpec => [](MonitorIInv /\ ChainIInv)
<1>1. IddInit => MonitorIInv
  <2>. SUFFICES ASSUME IddInit PROVE MonitorIInv
    OBVIOUS
  <2>1. /\ server \in Server /\ server.pc = "off"
        /\ driver \in Driver /\ ~driver.plugged /\ ~driver.busy
        /\ monitor = NoMonitor /\ NoMonitor \in [mode: MaybeMode, offered: MaybeMode]
        /\ adapter \in [pending: BOOLEAN, ready: BOOLEAN]
        /\ call = NoCall /\ objects = 0
    BY DEF IddInit, Off, Server, Driver, MaybeMode, NoMonitor
  <2>. QED
    BY <2>1, NoCallIsCall, SMTT(30) DEF MonitorIInv, IddRecords, DriverShape, ServerShape, MonitorNotLeaked
<1>2. IddInit => ChainIInv
  <2>. SUFFICES ASSUME IddInit PROVE ChainIInv
    OBVIOUS
  <2>1. callback \in Callback /\ callback.op = "none"
    BY IddAssumption, SMTT(30) DEF IddInit, NoCallback, Callback
  <2>2. iddBudget \in Budget
    BY DEF IddInit, Budget
  <2>. QED BY <2>1, <2>2, IddAssumption, SMTT(30) DEF IddInit, ChainIInv, ThreadIsOwned
<1>. QED BY <1>1, <1>2, ChainStep, MonitorStep, PTL DEF IddSpec

\* A server that streams has its own monitor, plugged in at the mode it asked
\* for, whatever earlier servers left running in the driver when they died.
THEOREM RunningAlwaysHasItsMonitor == IddSpec => []RunningHasItsMonitor
<1>1. MonitorIInv => RunningHasItsMonitor
  BY DEF MonitorIInv, ServerShape, RunningHasItsMonitor
<1>. QED BY <1>1, IddInvariant, PTL

\* The preferred mode Windows is offered is the mode of the plug-in call that
\* created the monitor.
THEOREM OfferedIsAlwaysRequested == IddSpec => []OfferedIsRequested
<1>1. MonitorIInv => OfferedIsRequested
  BY SMTT(30) DEF MonitorIInv, IddRecords, DriverShape, OfferedIsRequested, NoMonitor
<1>. QED BY <1>1, IddInvariant, PTL

\* A monitor object exists exactly while the driver creates it or Windows has it.
THEOREM MonitorNeverLeaks == IddSpec => []MonitorNotLeaked
<1>1. MonitorIInv => MonitorNotLeaked
  BY DEF MonitorIInv, DriverShape
<1>. QED BY <1>1, IddInvariant, PTL

\* A processor thread that runs is held by DriverState, or is about to be.
THEOREM ThreadIsAlwaysOwned == IddSpec => []ThreadIsOwned
<1>1. ChainIInv => ThreadIsOwned
  BY DEF ChainIInv
<1>. QED BY <1>1, IddInvariant, PTL

\* Every part of the driver's and the server's state has its type.
THEOREM IddTypeCorrect == IddSpec => []IddTypeOK
<1>1. MonitorIInv /\ ChainIInv => IddTypeOK
  BY DEF MonitorIInv, ChainIInv, IddRecords, Driver, PlugCall, Server, MaybeMode, IddTypeOK
<1>. QED BY <1>1, IddInvariant, PTL
=============================================================================
