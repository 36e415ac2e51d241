--------------------------- MODULE PipewireSource ---------------------------
(***************************************************************************)
(* The PipeWire stream of a Linux capture (flux-capture/src):              *)
(* pipewire_source.rs, whose thread runs the stream's callbacks; bridge.rs *)
(* between it and the consumer; session.rs and cursor.rs.  The compositor  *)
(* that paints into the stream's buffers is external.                      *)
(*                                                                         *)
(* A picture is its number, counted from 1, with the size it was painted   *)
(* at.  A size, a cursor position and a cursor shape are numbers, and 0 is *)
(* none, or hidden.                                                        *)
(***************************************************************************)
EXTENDS Integers, Sequences, FiniteSets

CONSTANTS
  Sizes,         \* sizes a client may ask for
  Buffers,       \* the buffers of the stream
  MaxFree        \* MAX_FREE_BUFFERS

VARIABLES
  api,           \* "virtual" or "monitor" of Mutter, or "portal"
  pw,            \* its thread: "none", "starting", "running", "exited"
  pwCmds,        \* its commands: a size, or QuitCmd
  offered,       \* prefs.resolution
  negotiated,    \* SharedFormat, 0 before the first
  kind,          \* BufferKind negotiated
  memory,        \* the picture in each buffer of the stream
  queued,        \* buffers for the next process callbacks
  painted,       \* pictures painted so far
  paints,        \* bound: buffers sent and sizes asked for, still to come
  cursor,        \* the compositor's cursor, [pos, shape, sent]
  sequence, lastCursor,
  building,      \* the frame the process callback has built
  sunk,          \* the cursor as the cursor sink was told
  slot, free,    \* the bridge's frame, and idle buffers
  bridgeClosed,
  held,          \* the frame the consumer has
  received,      \* the picture and sequence number of the last one it took
  wanted         \* the size asked for last

ASSUME StreamAssumption ==
  /\ Sizes \subseteq Nat \ {0} /\ Buffers \subseteq Nat \ {0}
  /\ MaxFree \in Nat

None == [seq |-> 0]
QuitCmd == 0
Black == [n |-> 0, size |-> 0]

compositorVars == <<memory, painted, paints, cursor>>
threadVars == <<pw, offered, negotiated, kind, sequence, lastCursor, sunk,
                building>>
bridgeVars == <<slot, free, bridgeClosed>>
consumerVars == <<held, received, wanted>>
pipewireVars == <<api, pwCmds, queued, compositorVars, threadVars,
                  bridgeVars, consumerVars>>

PipewireInit ==
  /\ pw = "none"
  /\ pwCmds = <<>> /\ queued = <<>>
  /\ offered = 0 /\ negotiated = 0 /\ kind = "shm"
  /\ memory = [b \in Buffers |-> Black]
  /\ painted = 0
  /\ cursor = [pos |-> 1, shape |-> 1, sent |-> 0]
  /\ building = None
  /\ sequence = 0 /\ lastCursor = 0 /\ sunk = [pos |-> 0, shape |-> 0]
  /\ slot = None /\ free = 0 /\ bridgeClosed = FALSE
  /\ held = None
  /\ received = [n |-> 0, seq |-> 0]
  /\ wanted = 0

-----------------------------------------------------------------------------
(* The consumer: FrameSourceSession over PipewireStreamSource.             *)

(* spawn, by connect or connect_local, with a new bridge. *)
Spawn(size) ==
  /\ pw = "none"
  /\ pw' = "starting"
  /\ offered' = size /\ wanted' = size
  /\ negotiated' = 0
  /\ sequence' = 0 /\ lastCursor' = 0
  /\ slot' = None /\ free' = 0 /\ bridgeClosed' = FALSE
  /\ cursor' = [cursor EXCEPT !.sent = 0]
  /\ received' = [n |-> received.n, seq |-> 0]
  /\ UNCHANGED <<api, pwCmds, queued, memory, painted, paints, kind, sunk,
                 building, held>>

(* What the picture of a frame is now: a copy, or what its buffer has. *)
Picture(f) == IF f.buf \in Buffers THEN memory[f.buf] ELSE f.copy

(* FrameSource::recv *)
Recv ==
  /\ pw # "none"
  /\ held = None /\ slot # None
  /\ held' = slot /\ slot' = None
  /\ received' = [n |-> Picture(slot).n, seq |-> slot.seq]
  /\ UNCHANGED <<api, pwCmds, queued, compositorVars, threadVars, free,
                 bridgeClosed, wanted>>

(* Slot::recycle, for the frames that have a CPU buffer. *)
Recycled(f, n) == IF f # None /\ f.buf = 0 /\ n < MaxFree THEN n + 1 ELSE n

(* recycle_frame, or the frame is dropped. *)
Release ==
  /\ held # None
  /\ held' = None
  /\ \/ free' = IF pw = "none" THEN free ELSE Recycled(held, free)
     \/ UNCHANGED free
  /\ UNCHANGED <<api, pwCmds, queued, compositorVars, threadVars, slot,
                 bridgeClosed, received, wanted>>

(* request_mode: only the mode of a virtual monitor follows the stream.    *)
(* The session may be closed right after it was found open.                *)
RequestSize ==
  /\ api = "virtual"
  /\ pw \in {"starting", "running"}
  /\ paints > 0 /\ paints' = paints - 1
  /\ \E s \in Sizes \ {wanted} :
       wanted' = s /\ pwCmds' = Append(pwCmds, s)
  /\ UNCHANGED <<api, queued, memory, painted, cursor, threadVars,
                 bridgeVars, held, received>>

(* disconnect: Quit, and the thread is joined. *)
SendQuit ==
  /\ pw # "none"
  /\ ~\E i \in DOMAIN pwCmds : pwCmds[i] = QuitCmd
  /\ pwCmds' = Append(pwCmds, QuitCmd)
  /\ UNCHANGED <<api, queued, compositorVars, threadVars, bridgeVars,
                 consumerVars>>

Disconnecting == \E i \in DOMAIN pwCmds : pwCmds[i] = QuitCmd

PipewireJoined ==
  /\ pw = "exited"
  /\ Disconnecting
  /\ pw' = "none"
  /\ pwCmds' = <<>>
  /\ slot' = None /\ free' = 0
  /\ UNCHANGED <<api, queued, compositorVars, offered, negotiated, kind,
                 sequence, lastCursor, sunk, building, bridgeClosed,
                 consumerVars>>

-----------------------------------------------------------------------------
(* run_stream.                                                             *)

(* Between two callbacks. *)
Looping == pw = "running" /\ building = None

Exits ==
  /\ pw' = "exited"
  /\ bridgeClosed' = TRUE
  /\ queued' = <<>>
  /\ UNCHANGED <<api, compositorVars, offered, negotiated, kind, sequence,
                 lastCursor, sunk, building, slot, free, consumerVars>>

(* The loop, the context, the core and the stream are made and connected,  *)
(* or one of them is not and the thread ends.                              *)
StreamConnects ==
  /\ pw = "starting"
  /\ \/ /\ pw' = "running"
        /\ UNCHANGED <<api, queued, compositorVars, offered, negotiated,
                       kind, sequence, lastCursor, sunk, building,
                       bridgeVars, consumerVars>>
     \/ Exits
  /\ UNCHANGED pwCmds

(* Mutant: the formats offered again are the first ones. *)
SetSizeStale ==
  /\ Looping /\ pwCmds # <<>> /\ Head(pwCmds) # QuitCmd
  /\ pwCmds' = Tail(pwCmds)
  /\ UNCHANGED <<api, queued, compositorVars, threadVars, bridgeVars,
                 consumerVars>>

(* StreamCmd::SetSize: the formats are offered again at the new size. *)
SetSize ==
  /\ Looping /\ pwCmds # <<>> /\ Head(pwCmds) # QuitCmd
  /\ pwCmds' = Tail(pwCmds)
  /\ offered' = Head(pwCmds)
  /\ UNCHANGED <<api, queued, compositorVars, pw, negotiated, kind, sequence,
                 lastCursor, sunk, building, bridgeVars, consumerVars>>

Quit ==
  /\ Looping /\ pwCmds # <<>> /\ Head(pwCmds) = QuitCmd
  /\ UNCHANGED pwCmds
  /\ Exits

(* A frame whose buffer goes with the stream's buffers: the duplicated     *)
(* descriptors keep its memory.                                            *)
Kept(f) == IF f.seq > 0 /\ f.buf \in Buffers
           THEN [f EXCEPT !.copy = memory[f.buf], !.buf = -1] ELSE f

(* build_format_params: the size asked for only, with exact_size, or any. *)
Formats == IF api = "virtual" THEN {offered} ELSE Sizes

(* param_changed: the compositor fixated a format, of the size offered for *)
(* a virtual monitor, and allocated the stream's buffers anew.  The cursor *)
(* goes with the first buffer again.                                       *)
ParamChanged ==
  /\ Looping
  /\ negotiated' \in Formats
  /\ negotiated = 0 \/ (negotiated' # negotiated /\ api = "virtual")
  /\ kind' \in {"shm", "dmabuf"}
  /\ queued' = <<>>
  /\ memory' = [b \in Buffers |-> Black]
  /\ cursor' = [cursor EXCEPT !.sent = 0]
  /\ slot' = Kept(slot) /\ held' = Kept(held)
  /\ UNCHANGED <<api, pwCmds, painted, paints, pw, offered, sequence,
                 lastCursor, sunk, building, free, bridgeClosed, received,
                 wanted>>

(* cursor_changed *)
CursorChanged(update) ==
  update.shape # 0 \/ lastCursor = 0 \/ lastCursor # update.pos + 1

(* chunk_has_frame *)
HasFrame(buffer) == buffer.frame

(* Mutant: the frame has the size asked for. *)
FrameOfferedSize(buffer) ==
  [seq |-> sequence + 1, size |-> offered, copy |-> memory[buffer.buf],
   buf |-> IF kind = "dmabuf" THEN buffer.buf ELSE 0]

(* build_frame: the planes' descriptors, or a copy of the pixels. *)
Frame(buffer) ==
  [seq |-> sequence + 1, size |-> negotiated, copy |-> memory[buffer.buf],
   buf |-> IF kind = "dmabuf" THEN buffer.buf ELSE 0]

(* take_buffer: the buffers left idle, by a frame of shared memory. *)
TakeBuffer == IF kind = "shm" /\ free > 0 THEN free - 1 ELSE free

(* process: the cursor metadata goes to the sink, the frame is built and   *)
(* the buffer returned.                                                    *)
ProcessBuffer ==
  /\ Looping /\ queued # <<>>
  /\ LET buffer == Head(queued) IN
       /\ queued' = Tail(queued)
       /\ IF api # "portal" /\ CursorChanged(buffer)
          THEN /\ lastCursor' = buffer.pos + 1
               /\ sunk' = [pos |-> buffer.pos,
                           shape |-> IF buffer.shape = 0 THEN sunk.shape
                                     ELSE buffer.shape]
          ELSE UNCHANGED <<lastCursor, sunk>>
       /\ IF negotiated # 0 /\ HasFrame(buffer)
          THEN /\ sequence' = sequence + 1
               /\ building' = Frame(buffer)
               /\ free' = TakeBuffer
          ELSE UNCHANGED <<sequence, building, free>>
  /\ UNCHANGED <<api, pwCmds, compositorVars, pw, offered, negotiated, kind,
                 slot, bridgeClosed, consumerVars>>

(* FrameSink::push: over the frame that was not taken. *)
Push ==
  /\ building # None
  /\ building' = None
  /\ slot' = building
  /\ free' = Recycled(slot, free)
  /\ UNCHANGED <<api, pwCmds, queued, compositorVars, pw, offered,
                 negotiated, kind, sequence, lastCursor, sunk, bridgeClosed,
                 consumerVars>>

-----------------------------------------------------------------------------
FreeBuffers == Buffers \ {queued[i].buf : i \in DOMAIN queued}

(* The compositor paints a picture, or moves or changes the cursor, and    *)
(* sends the buffer it has had longest.  The shape goes with it when it    *)
(* has changed.                                                            *)
Paint ==
  /\ pw = "running" /\ negotiated # 0
  /\ paints > 0 /\ paints' = paints - 1
  /\ \E b \in FreeBuffers, frame \in BOOLEAN, pos \in 0..1, shape \in 1..2 :
       /\ \A c \in FreeBuffers : memory[b].n <= memory[c].n
       /\ frame => pos = cursor.pos /\ shape = cursor.shape
       /\ pos = 0 => shape = cursor.shape
       /\ painted' = painted + (IF frame THEN 1 ELSE 0)
       /\ memory' = IF frame
                    THEN [memory EXCEPT ![b] = [n |-> painted',
                                                size |-> negotiated]]
                    ELSE memory
       /\ cursor' = [pos |-> pos, shape |-> shape,
                     sent |-> IF pos = 0 THEN cursor.sent ELSE shape]
       /\ queued' = Append(queued, [buf |-> b, frame |-> frame, pos |-> pos,
                      shape |-> IF pos = 0 \/ shape = cursor.sent THEN 0
                                ELSE shape])
  /\ UNCHANGED <<api, pwCmds, threadVars, bridgeVars, consumerVars>>

-----------------------------------------------------------------------------
PipewireThread == StreamConnects \/ SetSize \/ Quit \/ ProcessBuffer \/ Push
PipewireStep == PipewireThread \/ ParamChanged \/ Paint
Consumer == Recv \/ Release \/ RequestSize

-----------------------------------------------------------------------------
(* The state of the stream's thread and of the bridge. *)
PipewireTypeOK ==
  /\ pw \in {"none", "starting", "running", "exited"}
  /\ offered \in Sizes \cup {0} /\ negotiated \in Sizes \cup {0}
  /\ \A f \in {slot, held} \ {None} :
       f.size \in Sizes /\ f.buf \in Buffers \cup {-1, 0}
  /\ free \in 0..MaxFree
  /\ pw = "exited" => bridgeClosed

(* The size a frame says it has is the size of its picture, also while the *)
(* size of a virtual monitor changes.                                      *)
FrameSizeIsItsPictures ==
  \A f \in {building, slot, held} \ {None} : Picture(f).size = f.size

(* A cursor that only moved gives no frame, and a picture is never taken   *)
(* twice or after a later one: what the consumer gets has a new sequence   *)
(* number and, unless its buffer has been painted again, a new picture.    *)
FramesAdvance ==
  [][held = None /\ held' # None
     => /\ received'.seq > received.seq
        /\ received'.n > received.n \/ held'.buf # 0]_pipewireVars

(* The CPU buffers of a frame. *)
Copies(f) == IF f # None /\ f.buf = 0 THEN 1 ELSE 0

(* The bridge does not grow with a consumer that is slow or drops frames:  *)
(* the frame being built, the one in the slot, the one held and the idle   *)
(* buffers are never more than three, since a copy takes an idle buffer    *)
(* before it allocates one.                                                *)
BuffersAreReused ==
  free + Copies(building) + Copies(slot) + Copies(held) <= 3

(* The cursor the viewers are told of is the compositor's once the buffers *)
(* are processed, whether they had a frame or not.                         *)
CursorFollows ==
  pw = "running" /\ queued = <<>> /\ api # "portal" /\ cursor.sent # 0
    => /\ sunk.pos = cursor.pos
       /\ cursor.pos # 0 => sunk.shape = cursor.shape

(* A frame is what it says it is, the bridge stays small, and the cursor is  *)
(* the compositor's.                                                         *)
PipewireSafe ==
  PipewireTypeOK /\ FrameSizeIsItsPictures /\ BuffersAreReused /\ CursorFollows

(* The size asked for last is the size of the stream in the end, as long   *)
(* as it runs, however many requests came one after the other.             *)
LastSizeWins ==
  pw = "running" /\ api = "virtual" /\ wanted # negotiated
    ~> wanted = negotiated \/ pw # "running"
=============================================================================
