---------------------------- MODULE DxgiCapture ----------------------------
(***************************************************************************)
(* Desktop Duplication capture on Windows (flux-capture/src/backend/       *)
(* dxgi.rs): the cached display inventory, start_capture, the ring of      *)
(* shared textures, next_frame, the pointer, and the capture loop's search *)
(* for a display it lost.  Time is left out: whether a frame is due and    *)
(* whether the heartbeat interval has passed are free choices.             *)
(*                                                                         *)
(* The system is external: the desktop shows picture after picture, an     *)
(* inventory replaces another, outputs can be duplicated or not, access is *)
(* lost, and a call may fail, all out of the budget events.                *)
(***************************************************************************)
EXTENDS Integers, Sequences, FiniteSets, Functions

CONSTANTS
  Inventories,   \* sequences of adapters, each with a sequence of outputs
  Sizes,         \* the resolutions asked of start_capture
  MaxSessions,   \* bound: capture sessions
  MaxEvents      \* bound: what the system does and calls that fail

RING_SIZE == 3         \* DXGI_SHARED_TEXTURE_RING_SIZE
IN_FLIGHT_DEPTH == 2
Slots == 1..RING_SIZE
None == 0
NoDisplay == [id |-> <<>>, luid |-> 0, name |-> "", size |-> 0,
              capture_supported |-> FALSE]

VARIABLES
  inventory,     \* what a fresh factory enumerates
  duplicable,    \* the outputs DuplicateOutput succeeds on
  inventory_key, displays, targets,    \* DxgiState
  phase,         \* "lost", "found", "running", "acquired" or "encode"
  display,       \* the display captured or looked for
  ring,          \* surfaces: a texture for each slot, <<>> with no session
  delivered, pending, has_copied_frame,
  scaler,        \* "none", "direct" or, once it had to copy, "fallback"
  picture,       \* the picture in each texture
  desktop,       \* the picture on the desktop
  update,        \* what AcquireNextFrame will report
  pointer,       \* the pointer's shape and whether it is visible
  cursor_bitmap,
  sink,          \* what the cursor sink has been told
  frame,         \* the frame next_frame returned
  sessions, events

inventoryVars == <<inventory_key, displays, targets>>
ringVars == <<ring, delivered, pending, has_copied_frame, scaler, picture>>
cursorVars == <<cursor_bitmap, sink>>
systemVars == <<inventory, duplicable, desktop, update, pointer>>
captureVars == <<inventoryVars, ringVars, cursorVars, systemVars, phase,
                 display, frame, sessions, events>>

Fault == events > 0 /\ events' = events - 1

-----------------------------------------------------------------------------
(* The display inventory.                                                  *)

(* inventory_key: everything about the adapters, and about the outputs of  *)
(* those that are hardware.  That an output can be duplicated is not in it.*)
Key(inv) ==
  [a \in DOMAIN inv |->
     IF inv[a].software THEN [inv[a] EXCEPT !.outputs = <<>>] ELSE inv[a]]

(* The attached outputs of hardware adapters.  An output passes the test   *)
(* if its adapter made a device and DuplicateOutput succeeds now.          *)
Outputs(inv) == UNION {{a} \X (DOMAIN inv[a].outputs) : a \in DOMAIN inv}
Enumerated(devices) ==
  LET Adapter(p) == inventory[p[1]]
      Output(p) == Adapter(p).outputs[p[2]]
  IN  {[id |-> p, luid |-> Adapter(p).luid, name |-> Output(p).name,
        size |-> Output(p).size,
        capture_supported |->
          p[1] \in devices /\ Output(p).name \in duplicable] :
       p \in {q \in Outputs(inventory) :
                ~Adapter(q).software /\ Output(q).attached}}

(* enumerate_displays_internal: the cached displays and targets are kept   *)
(* while the key is the same.                                              *)
Enumerate(devices) ==
  IF inventory_key = Key(inventory)
  THEN UNCHANGED inventoryVars
  ELSE /\ inventory_key' = Key(inventory)
       /\ displays' = Enumerated(devices)
       /\ targets' = {d \in Enumerated(devices) : d.id[1] \in devices}

(* One round of recover_lost_capture finds the lost display among those    *)
(* enumerated, by name and adapter, or waits another second.  D3D11 fails  *)
(* to make a device for an adapter, or the enumeration fails as a whole.   *)
FindDisplay ==
  /\ phase = "lost"
  /\ \/ /\ \/ Enumerate(DOMAIN inventory) /\ UNCHANGED events
           \/ Fault /\ \E a \in DOMAIN inventory :
                         Enumerate(DOMAIN inventory \ {a})
        /\ LET same == {d \in displays' :
                          d.name = display.name /\ d.luid = display.luid}
           IN  \/ /\ same = {}
                  /\ UNCHANGED <<phase, display>>
               \/ /\ display' \in same
                  /\ phase' = "found"
     \/ Fault /\ UNCHANGED <<inventoryVars, phase, display>>
  /\ UNCHANGED <<ringVars, cursorVars, systemVars, frame, sessions>>

-----------------------------------------------------------------------------
(* Textures.  A texture is named by its session and its shared handle.     *)
(* The system gives a new one the lowest handle no live texture has.       *)

FreeHandles(live) ==
  LET used == {t.handle : t \in live}
  IN  {hs \in [Slots -> 1..(Cardinality(used) + RING_SIZE)] :
         \A s \in Slots :
           /\ hs[s] \notin used
           /\ \A r \in 1..(s - 1) : hs[r] < hs[s]
           /\ \A h \in 1..(hs[s] - 1) : h \in used \/ \E r \in 1..(s - 1) : hs[r] = h}

(* start_capture: the target, if enumerated, must have passed the test. *)
Target == \E t \in targets : t.id = display.id /\ t.capture_supported

(* A smaller size gets a GpuScaler. *)
NewScaler(size) ==
  IF size > 0 /\ size < display.size THEN "direct" ELSE "none"

(* DxgiCaptureSession::new, which duplicates the output again. *)
StartCapture(live) ==
  /\ phase = "found"
  /\ sessions < MaxSessions
  /\ Target
  /\ display.name \in duplicable
  /\ \E hs \in FreeHandles(live) :
       ring' = [s \in Slots |-> [session |-> sessions + 1, handle |-> hs[s]]]
  /\ picture' = [t \in live \cup {ring'[s] : s \in Slots} |->
                   IF t \in DOMAIN picture THEN picture[t] ELSE None]
  /\ \E size \in Sizes : scaler' = NewScaler(size)
  /\ delivered' = <<None, None>>
  /\ pending' = None
  /\ has_copied_frame' = FALSE
  /\ cursor_bitmap' = None
  /\ sessions' = sessions + 1
  /\ phase' = "running"
  /\ UNCHANGED <<inventoryVars, systemVars, display, sink, frame, events>>

(* start_capture fails and recover_lost_capture goes back to looking. *)
StartFails ==
  /\ phase = "found"
  /\ \/ ~(Target /\ display.name \in duplicable) /\ UNCHANGED events
     \/ Fault
  /\ phase' = "lost"
  /\ UNCHANGED <<inventoryVars, ringVars, cursorVars, systemVars, display,
                 frame, sessions>>

-----------------------------------------------------------------------------
(* next_frame.                                                             *)

(* Mutant: only the last slot delivered is spared. *)
SpareSlotShallow ==
  IF pending # None THEN pending
  ELSE CHOOSE s \in Slots : s # delivered[1] /\
         \A r \in Slots : r # delivered[1] => s <= r

(* spare_slot *)
SpareSlot ==
  IF pending # None THEN pending
  ELSE CHOOSE s \in Slots :
         /\ s \notin Range(delivered)
         /\ \A r \in Slots : r \notin Range(delivered) => s <= r

Frame(slot) == [tex |-> ring[slot], picture |-> picture[ring[slot]]]

(* deliver, once the pacer says so; next_frame returns the frame. *)
Deliver ==
  /\ phase = "running"
  /\ pending # None
  /\ frame' = Frame(pending)
  /\ delivered' = <<pending, delivered[1]>>
  /\ pending' = None
  /\ phase' = "encode"
  /\ UNCHANGED <<inventoryVars, ring, has_copied_frame, scaler, picture,
                 cursorVars, systemVars, display, sessions, events>>

(* AcquireNextFrame times out after the heartbeat interval with nothing    *)
(* pending: make_heartbeat_frame repeats the last frame.                   *)
Heartbeat ==
  /\ phase = "running"
  /\ has_copied_frame
  /\ pending = None
  /\ frame' = Frame(delivered[1])
  /\ phase' = "encode"
  /\ UNCHANGED <<inventoryVars, ringVars, cursorVars, systemVars, display,
                 sessions, events>>

(* process_pointer_update, before the frame is looked at.  A shape may be  *)
(* refused or fail to convert; the sink is given it only if visible.       *)
PointerUpdate ==
  /\ cursor_bitmap' \in IF update.shape THEN {pointer.shape, cursor_bitmap}
                        ELSE {cursor_bitmap}
  /\ sink' = IF ~update.pointer THEN sink
             ELSE [visible |-> pointer.visible,
                   shape |-> IF update.shape /\ pointer.visible /\
                                cursor_bitmap' # None
                             THEN cursor_bitmap' ELSE sink.shape,
                   missed |-> IF update.shape THEN ~pointer.visible
                              ELSE sink.missed]

(* AcquireNextFrame reports what changed, and the frame is held. *)
Acquire ==
  /\ phase = "running"
  /\ update.pointer \/ update.present
  /\ PointerUpdate
  /\ update' = [update EXCEPT !.pointer = FALSE, !.shape = FALSE]
  /\ phase' = "acquired"
  /\ UNCHANGED <<inventoryVars, ringVars, inventory, duplicable, desktop,
                 pointer, display, frame, sessions, events>>

(* The desktop goes into the spare slot, through the scaler if there is    *)
(* one, which falls back to an intermediate copy when it must.             *)
CopyDesktop ==
  /\ picture' = [picture EXCEPT ![ring[SpareSlot]] = desktop]
  /\ scaler' \in IF scaler = "direct" THEN {"direct", "fallback"}
                 ELSE {scaler}
  /\ pending' = SpareSlot
  /\ has_copied_frame' = TRUE

(* The frame is copied and released, be it that the desktop changed or     *)
(* that the heartbeat is due.                                              *)
Copy ==
  /\ phase = "acquired"
  /\ CopyDesktop
  /\ update' = [update EXCEPT !.present = FALSE]
  /\ phase' = "running"
  /\ UNCHANGED <<inventoryVars, ring, delivered, cursorVars, inventory,
                 duplicable, desktop, pointer, display, frame, sessions,
                 events>>

(* Only the pointer changed: the frame is released. *)
SkipFrame ==
  /\ phase = "acquired"
  /\ ~update.present
  /\ phase' = "running"
  /\ UNCHANGED <<inventoryVars, ringVars, cursorVars, systemVars, display,
                 frame, sessions, events>>

(* A step after the acquisition fails, with the copy made or not.  The     *)
(* guard releases the frame and the capture loop tries again.              *)
CopyFails ==
  /\ phase = "acquired"
  /\ Fault
  /\ CopyDesktop \/ UNCHANGED <<picture, scaler, pending, has_copied_frame>>
  /\ update' = [update EXCEPT !.present = FALSE]
  /\ phase' = "running"
  /\ UNCHANGED <<inventoryVars, ring, delivered, cursorVars, inventory,
                 duplicable, desktop, pointer, display, frame, sessions>>

(* CaptureSessionLost, from AcquireNextFrame or ReleaseFrame: the capture  *)
(* loop releases the session and looks for the display again.              *)
Lose ==
  /\ phase \in {"running", "acquired"}
  /\ Fault
  /\ phase' = "lost"
  /\ ring' = <<>>
  /\ delivered' = <<None, None>>
  /\ pending' = None
  /\ UNCHANGED <<inventoryVars, has_copied_frame, scaler, picture, cursorVars,
                 systemVars, display, frame, sessions>>

-----------------------------------------------------------------------------
(* The system.  What it does to the desktop and the pointer is not seen    *)
(* before the next AcquireNextFrame, so it is enough that it does it then. *)

Present ==
  /\ phase = "running"
  /\ Fault
  /\ desktop' = desktop + 1
  /\ update' = [update EXCEPT !.present = TRUE]
  /\ UNCHANGED <<inventoryVars, ringVars, cursorVars, inventory, duplicable,
                 pointer, phase, display, frame, sessions>>

PointerChanges ==
  /\ phase = "running"
  /\ Fault
  /\ \/ /\ pointer' = [pointer EXCEPT !.visible = ~@]
        /\ update' = [update EXCEPT !.pointer = TRUE]
     \/ /\ pointer' = [pointer EXCEPT !.shape = @ + 1]
        /\ update' = [update EXCEPT !.pointer = TRUE, !.shape = TRUE]
  /\ UNCHANGED <<inventoryVars, ringVars, cursorVars, inventory, duplicable,
                 desktop, phase, display, frame, sessions>>

(* A display comes, goes or changes its mode; the secure desktop, or       *)
(* another duplication, comes or goes.                                     *)
SystemChanges ==
  /\ Fault
  /\ phase \in {"lost", "found"}
  /\ \/ inventory' \in Inventories \ {inventory} /\ UNCHANGED duplicable
     \/ duplicable' = (IF duplicable = {} THEN {display.name} ELSE {})
        /\ UNCHANGED inventory
  /\ UNCHANGED <<inventoryVars, ringVars, cursorVars, desktop, update,
                 pointer, phase, display, frame, sessions>>
=============================================================================
