---------------------------- MODULE WindowsVideo ----------------------------
(***************************************************************************)
(* Desktop Duplication and AMF together, as the capture loop drives them   *)
(* on Windows: the frame next_frame returns names a texture of the ring,   *)
(* encode hands it to AMF, and AMF goes on reading it while the capture    *)
(* takes the next frames.                                                  *)
(***************************************************************************)
EXTENDS DxgiCapture, AmfSession

(* The capture counts on AMF reading no more than the slots delivered last   *)
(* (IN_FLIGHT_DEPTH); the cache of shared textures holds one at least.       *)
ASSUME WindowsAssumption ==
  /\ InputDepth \in 1..IN_FLIGHT_DEPTH
  /\ CacheSize \in Nat \ {0}

vars == <<captureVars, amfVars>>

(* The capture loop has chosen a display and is about to start on it. *)
WindowsInit ==
  /\ inventory \in Inventories
  /\ inventory_key = <<>> /\ displays = {} /\ targets = {}
  /\ \E p \in Outputs(inventory) :
       /\ inventory[p[1]].outputs[p[2]].attached
       /\ display = [NoDisplay EXCEPT !.luid = inventory[p[1]].luid,
            !.name = inventory[p[1]].outputs[p[2]].name]
  /\ duplicable = {display.name}
  /\ phase = "lost"
  /\ ring = <<>>
  /\ delivered = <<None, None>>
  /\ pending = None
  /\ has_copied_frame = FALSE
  /\ scaler = "none"
  /\ picture = <<>>
  /\ desktop = 1
  /\ update = [present |-> TRUE, pointer |-> FALSE, shape |-> FALSE]
  /\ pointer = [visible |-> TRUE, shape |-> 1]
  /\ cursor_bitmap = None
  /\ sink = [visible |-> FALSE, shape |-> None, missed |-> FALSE]
  /\ frame = <<>>
  /\ sessions = 0
  /\ events = MaxEvents
  /\ AmfInit

Recovery == FindDisplay \/ StartCapture(Textures) \/ StartFails
Capturing == Acquire \/ Copy \/ SkipFrame \/ CopyFails \/ Lose
System == Present \/ PointerChanges \/ SystemChanges

(* next_frame returned; the frame is encoded, or dropped for want of an    *)
(* encoder, and the loop asks for the next.                                *)
HandOver ==
  /\ phase = "encode"
  /\ Encode(frame)
  /\ UNCHANGED captureVars

DropFrame ==
  /\ phase = "encode"
  /\ amf = "none"
  /\ phase' = "running"
  /\ UNCHANGED <<inventoryVars, ringVars, cursorVars, systemVars, display,
                 frame, sessions, events, amfVars>>

EncodeCall == CreateSurface \/ Submit \/ SubmitFull
SubmitReturns ==
  /\ Poll \/ CreateSurfaceFails \/ SubmitFails
  /\ phase' = "running"
  /\ UNCHANGED <<inventoryVars, ringVars, cursorVars, systemVars, display,
                 frame, sessions, events>>

Rebuild ==
  \/ CreateContext \/ GetDx11Device \/ CreateComponent \/ SetProperties
  \/ CreateFails \/ DropFirst

WindowsNext ==
  \/ (Recovery \/ Deliver \/ Heartbeat \/ Capturing \/ System)
     /\ UNCHANGED amfVars
  \/ HandOver
  \/ DropFrame
  \/ EncodeCall /\ UNCHANGED captureVars
  \/ SubmitReturns
  \/ (Rebuild \/ RequestIdr \/ Control) /\ phase = "encode" /\ UNCHANGED captureVars
  \/ AmfEncodes /\ UNCHANGED captureVars

WindowsSpec == WindowsInit /\ [][WindowsNext]_vars

-----------------------------------------------------------------------------
(* Every variable has its type; a ring exists exactly while there is a     *)
(* capture session, the cache of shared textures keeps to its size, and    *)
(* encode never puts more pictures into AMF than it takes.                 *)
WindowsTypeOK ==
  /\ inventory \in Inventories
  /\ phase \in {"lost", "found", "running", "acquired", "encode"}
  /\ pending \in Slots \cup {None}
  /\ delivered \in [1..2 -> Slots \cup {None}]
  /\ scaler \in {"none", "direct", "fallback"}
  /\ ring # <<>> => ring \in [Slots -> DOMAIN picture]
  /\ ring = <<>> <=> phase \in {"lost", "found"}
  /\ amf \in {"none", "context", "dx11", "component", "ready", "dropping",
              "surface", "submit", "retry", "poll"}
  /\ Len(cached_shared_textures) <= CacheSize
  /\ Len(inflight) + outputs <= InputDepth
  /\ failed \subseteq {"encode", "bitrate"}

(* "Most recently delivered ring slots that may still be read by the async *)
(* encoder and must not be rewritten" (dxgi.rs, IN_FLIGHT_DEPTH): AMF      *)
(* encodes each picture as it was when the frame was handed over, although *)
(* the capture fills the ring behind it.  A frame that encode refuses      *)
(* still takes a place among the delivered slots, so it holds up to the    *)
(* first call that fails.                                                  *)
InFlightIsStable ==
  "encode" \notin failed =>
    \A i \in DOMAIN inflight : picture[inflight[i].tex] = inflight[i].picture

(* The texture encode submits is the one the frame names, though the cache *)
(* knows it by a handle the system may give to another texture once the    *)
(* session that made it is gone.                                           *)
SubmitsItsTexture ==
  amf \in {"submit", "retry"} => surface.tex = frame.tex

(* No packet is lost inside a session: each picture AMF took is still in   *)
(* AMF or was returned, also when AMF_INPUT_FULL makes encode drain first. *)
(* An encode call that fails after it has drained loses what it drained.   *)
NoPacketLost ==
  "encode" \notin failed /\ amf = "ready" =>
    accepted = returned + Len(inflight) + outputs

(* "Keep the VBV formula identical between session setup and bitrate       *)
(* updates" (vbv_buffer_size): the component's rate control agrees with    *)
(* the configured bitrate and frame rate, also when set_framerate was      *)
(* rejected before set_bitrate, unless the last set_bitrate was refused.   *)
RateControlAgrees ==
  "bitrate" \notin failed => properties = Rated(bitrate_kbps, framerate)

(* "`AmfSession` keeps the capture device alive for as long as it owns     *)
(* this context" (init_dx11), through a failing new and through Drop.      *)
DeviceOutlivesContext ==
  "context" \in amf_live => "capture_device" \in amf_live

(* The next picture AMF takes after request_idr is an IDR, if no encode    *)
(* call fails in between.                                                  *)
RequestedIdrIsNext ==
  [][accepted' > accepted /\ owed => inflight'[Len(inflight')].idr]_vars

(* Pointer updates reach the sink whether or not they come with a frame:   *)
(* when nothing is left to acquire, it knows if the pointer is visible,    *)
(* and it has the shape converted last, unless that shape came with an     *)
(* update that hid the pointer.                                            *)
SinkIsCurrent ==
  phase = "running" /\ ~update.pointer =>
    /\ sink.visible => pointer.visible
    /\ sink.visible /\ cursor_bitmap # None /\ ~sink.missed =>
         sink.shape = cursor_bitmap

(* Capture and encoder share textures, devices and the pointer without a     *)
(* lock, and neither loses or mistakes what the other handed over.           *)
WindowsSafe ==
  /\ WindowsTypeOK
  /\ InFlightIsStable /\ SubmitsItsTexture /\ NoPacketLost
  /\ RateControlAgrees /\ DeviceOutlivesContext /\ SinkIsCurrent
=============================================================================
