----------------------------- MODULE AmfSession -----------------------------
(***************************************************************************)
(* The AMD AMF encoder (flux-encode/src/backend/amf/encoder.rs): creating  *)
(* a session, encode with its cache of shared textures and its answer to   *)
(* AMF_INPUT_FULL, the calls that change a session, and Drop.              *)
(*                                                                         *)
(* AMF is external: it takes up to InputDepth pictures, encodes them in    *)
(* order after SubmitInput has returned, and reads a picture's texture     *)
(* until it is done.  A frame is the texture it names and the picture that *)
(* was in it when it was handed over.                                      *)
(***************************************************************************)
EXTENDS Integers, Sequences, Functions

CONSTANTS
  InputDepth,    \* pictures AMF holds before it answers AMF_INPUT_FULL
  CacheSize,     \* MAX_CACHED_SHARED_TEXTURES
  IdrInterval,   \* idr_interval
  Rates,         \* bitrates
  Framerates,    \* frame rates
  MaxFrames,     \* bound: encode calls
  MaxCalls       \* bound: other calls, and calls into AMF that fail

VARIABLES
  amf,           \* where the session, or the call in progress, is
  amf_live,      \* the objects the session holds
  frame_index, pending_idr_trigger,
  cached_shared_textures,
  surface,       \* the input of the encode call in progress
  packets,       \* the number of packets the call has collected
  inflight,      \* pictures AMF has taken and not encoded
  outputs,       \* the number of packets AMF has ready
  properties,    \* the component's target, peak and VBV bitrate
  bitrate_kbps, framerate,    \* of config
  accepted, returned,    \* pictures taken and packets returned
  owed,          \* request_idr was called and no picture taken since
  failed,        \* calls that failed: "encode", "bitrate"
  calls

sessionVars == <<frame_index, pending_idr_trigger, cached_shared_textures>>
rateVars == <<properties, bitrate_kbps, framerate>>
amfVars == <<amf, amf_live, sessionVars, surface, packets, inflight, outputs,
             rateVars, accepted, returned, owed, failed, calls>>

NoSurface == <<>>
Call == calls > 0 /\ calls' = calls - 1

(* The properties a bitrate is turned into: vbv_buffer_size, in frames, is *)
(* a function of the frame rate too.                                       *)
Rated(r, f) == [target |-> r, peak |-> r, vbv |-> <<r, f>>]

Textures == {e.tex : e \in Range(cached_shared_textures)} \cup
            {p.tex : p \in Range(inflight)}

AmfInit ==
  /\ amf = "none"
  /\ amf_live = {}
  /\ frame_index = 0
  /\ pending_idr_trigger = FALSE
  /\ cached_shared_textures = <<>>
  /\ surface = NoSurface
  /\ packets = 0
  /\ inflight = <<>>
  /\ outputs = 0
  /\ bitrate_kbps = CHOOSE r \in Rates : TRUE
  /\ framerate = CHOOSE f \in Framerates : TRUE
  /\ properties = Rated(bitrate_kbps, framerate)
  /\ accepted = 0 /\ returned = 0
  /\ owed = FALSE
  /\ failed = {}
  /\ calls = MaxCalls

-----------------------------------------------------------------------------
(* AmfSession::new: the context on the capture device, the D3D11 device it *)
(* uses, the component, its properties and Init.                           *)

CreateStep(from, objects, to) ==
  /\ amf = from
  /\ amf' = to
  /\ amf_live' = amf_live \cup objects
  /\ UNCHANGED <<sessionVars, surface, packets, inflight, outputs,
                 bitrate_kbps, framerate, accepted, returned, owed, failed,
                 calls>>

CreateContext ==
  /\ CreateStep("none", {"capture_device", "context"}, "context")
  /\ UNCHANGED properties
GetDx11Device ==
  CreateStep("context", {"device"}, "dx11") /\ UNCHANGED properties
CreateComponent ==
  CreateStep("dx11", {"component"}, "component") /\ UNCHANGED properties
SetProperties ==
  /\ CreateStep("component", {}, "ready")
  /\ properties' = Rated(bitrate_kbps, framerate)

(* `?` in new: what was made is dropped, the last first. *)
CreateFails ==
  /\ amf \in {"none", "context", "dx11", "component"}
  /\ Call
  /\ amf' = "none"
  /\ amf_live' = {}
  /\ UNCHANGED <<sessionVars, surface, packets, inflight, outputs, rateVars,
                 accepted, returned, owed, failed>>

(* Drop runs over the fields in the order they are declared. *)
DropOrder == <<"context", "component", "device", "capture_device">>

DropFirst ==
  /\ amf \in {"ready", "dropping"}
  /\ amf = "ready" => Call
  /\ amf = "dropping" => UNCHANGED calls
  /\ LET i == CHOOSE n \in 1..4 :
                /\ DropOrder[n] \in amf_live
                /\ \A k \in 1..(n - 1) : DropOrder[k] \notin amf_live
     IN  /\ amf_live' = amf_live \ {DropOrder[i]}
         /\ amf' = IF i = 4 THEN "none" ELSE "dropping"
  /\ frame_index' = 0
  /\ pending_idr_trigger' = FALSE
  /\ cached_shared_textures' = <<>>
  /\ surface' = NoSurface
  /\ packets' = 0
  /\ inflight' = <<>>
  /\ outputs' = 0
  /\ properties' = Rated(bitrate_kbps, framerate)
  /\ accepted' = 0 /\ returned' = 0
  /\ owed' = FALSE
  /\ failed' = {}
  /\ UNCHANGED <<bitrate_kbps, framerate>>

-----------------------------------------------------------------------------
(* encode.                                                                 *)

(* Mutant: a request is only looked at when the periodic IDR is not due. *)
EncodePeriodic(f) ==
  /\ amf = "ready"
  /\ frame_index < MaxFrames
  /\ frame_index' = frame_index + 1
  /\ surface' = [tex |-> f.tex, picture |-> f.picture,
                 idr |-> (frame_index + 1) % IdrInterval = 1]
  /\ pending_idr_trigger' = FALSE
  /\ amf' = "surface"
  /\ UNCHANGED <<amf_live, cached_shared_textures, packets, inflight,
                 outputs, rateVars, accepted, returned, owed, failed, calls>>

(* The frame is counted, and the IDR trigger, requested or periodic, is    *)
(* taken before anything can fail.                                         *)
Encode(f) ==
  /\ amf = "ready"
  /\ frame_index < MaxFrames
  /\ frame_index' = frame_index + 1
  /\ surface' = [tex |-> f.tex, picture |-> f.picture,
                 idr |-> \/ pending_idr_trigger
                         \/ (frame_index + 1) % IdrInterval = 1]
  /\ pending_idr_trigger' = FALSE
  /\ amf' = "surface"
  /\ UNCHANGED <<amf_live, cached_shared_textures, packets, inflight,
                 outputs, rateVars, accepted, returned, owed, failed, calls>>

(* open_shared_texture: the cache is looked up by handle; past its size    *)
(* the oldest entry goes.                                                  *)
OpenSharedTexture(t) ==
  IF \E e \in Range(cached_shared_textures) : e.handle = t.handle
  THEN UNCHANGED cached_shared_textures
  ELSE LET pushed == Append(cached_shared_textures,
                            [handle |-> t.handle, tex |-> t])
       IN  cached_shared_textures' =
             IF Len(pushed) > CacheSize THEN Tail(pushed) ELSE pushed

Opened(t) ==
  (CHOOSE e \in Range(cached_shared_textures') : e.handle = t.handle).tex

CreateSurface ==
  /\ amf = "surface"
  /\ OpenSharedTexture(surface.tex)
  /\ surface' = [surface EXCEPT !.tex = Opened(surface.tex)]
  /\ amf' = "submit"
  /\ UNCHANGED <<amf_live, frame_index, pending_idr_trigger, packets,
                 inflight, outputs, rateVars, accepted, returned, owed,
                 failed, calls>>

(* `?` in encode: everything taken or collected so far is gone. *)
EncodeFails ==
  /\ amf' = "ready"
  /\ surface' = NoSurface
  /\ packets' = 0
  /\ owed' = FALSE
  /\ failed' = failed \cup {"encode"}

CreateSurfaceFails ==
  /\ amf = "surface"
  /\ Call
  /\ \/ OpenSharedTexture(surface.tex)
     \/ UNCHANGED cached_shared_textures
  /\ EncodeFails
  /\ UNCHANGED <<amf_live, frame_index, pending_idr_trigger, inflight,
                 outputs, rateVars, accepted, returned>>

Full == Len(inflight) + outputs >= InputDepth

(* SubmitInput, at once or after the outputs were drained. *)
Submit ==
  /\ amf \in {"submit", "retry"}
  /\ ~Full
  /\ inflight' = Append(inflight, surface)
  /\ accepted' = accepted + 1
  /\ owed' = FALSE
  /\ surface' = NoSurface
  /\ amf' = "poll"
  /\ UNCHANGED <<amf_live, sessionVars, packets, outputs, rateVars, returned,
                 failed, calls>>

(* drain_output: what AMF has ready, after what the call has already. *)
Drained == packets + outputs

(* AMF_INPUT_FULL: the outputs are drained before one more try. *)
SubmitFull ==
  /\ amf = "submit"
  /\ Full
  /\ packets' = Drained
  /\ outputs' = 0
  /\ amf' = "retry"
  /\ UNCHANGED <<amf_live, sessionVars, surface, inflight, rateVars, accepted,
                 returned, owed, failed, calls>>

(* SubmitInput fails, or is still full at the second try. *)
SubmitFails ==
  /\ \/ amf = "submit" /\ Call
     \/ amf = "retry" /\ Full /\ UNCHANGED calls
  /\ EncodeFails
  /\ UNCHANGED <<amf_live, sessionVars, inflight, outputs, rateVars, accepted,
                 returned>>

(* drain_output and return. *)
Poll ==
  /\ amf = "poll"
  /\ returned' = returned + Drained
  /\ packets' = 0
  /\ outputs' = 0
  /\ amf' = "ready"
  /\ UNCHANGED <<amf_live, sessionVars, surface, inflight, rateVars, accepted,
                 owed, failed, calls>>

(* AMF is done with the oldest picture and no longer reads its texture. *)
AmfEncodes ==
  /\ inflight # <<>>
  /\ outputs' = outputs + 1
  /\ inflight' = Tail(inflight)
  /\ UNCHANGED <<amf, amf_live, sessionVars, surface, packets, rateVars,
                 accepted, returned, owed, failed, calls>>

-----------------------------------------------------------------------------
(* The other calls.                                                        *)

(* request_idr and request_idr_for_rebuild *)
RequestIdr ==
  /\ amf = "ready"
  /\ Call
  /\ pending_idr_trigger' = TRUE
  /\ owed' = TRUE
  /\ UNCHANGED <<amf, amf_live, frame_index, cached_shared_textures, surface,
                 packets, inflight, outputs, rateVars, accepted, returned,
                 failed>>

(* set_bitrate sets the target, the peak and the VBV size, and keeps what  *)
(* it has set when a later one is refused.                                 *)
SetBitrate(r) ==
  \/ /\ bitrate_kbps' = r
     /\ properties' = Rated(r, framerate')
     /\ failed' = failed \ {"bitrate"}
  \/ /\ properties' \in {properties, [properties EXCEPT !.target = r],
                         [Rated(r, framerate') EXCEPT !.vbv = properties.vbv]}
     /\ failed' = failed \cup {"bitrate"}
     /\ UNCHANGED bitrate_kbps

(* set_framerate, which may be rejected and leaves the VBV to set_bitrate. *)
SetFramerate(f) == framerate' \in {f, framerate}

(* A new bitrate; or a quality request, whose handler calls set_bitrate    *)
(* whatever set_framerate returned.                                        *)
Control ==
  /\ amf = "ready"
  /\ Call
  /\ \/ UNCHANGED framerate
     \/ \E f \in Framerates \ {framerate} : SetFramerate(f)
  /\ \E r \in Rates \ {bitrate_kbps} : SetBitrate(r)
  /\ UNCHANGED <<amf, amf_live, sessionVars, surface, packets, inflight,
                 outputs, accepted, returned, owed>>
=============================================================================
