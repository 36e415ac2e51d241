---------------------------- MODULE LinuxProofs -----------------------------
(***************************************************************************)
(* What is proved of a capture on Linux, for every bound: the frames of a  *)
(* PipeWire stream are what they say they are and never go back, and       *)
(* Mutter's sessions are one at a time, with the user's clipboard.  The    *)
(* two share no variable that either invariant is about.                   *)
(***************************************************************************)
EXTENDS LinuxCapture, SequenceTheorems, TLAPS

(* A leaf that does not name its prover is first tried with Zenon; the leaves *)
(* that need arithmetic, or more than Zenon knows of sequences and records,    *)
(* name SMT.                                                                   *)
USE ZenonT(30), SMTT(30)

(* The stream.                                                             *)

PaintedPicture == [n : Nat, size : Sizes \cup {0}]
StreamFrame == [seq : Nat \ {0}, size : Sizes, copy : PaintedPicture, buf : Buffers \cup {-1, 0}]
StreamBuffer == [buf : Buffers, frame : BOOLEAN, pos : 0..1, shape : 0..2]

(* The fields of the stream, the bridge and the consumer.  Only a stream     *)
(* that runs has buffers waiting or a frame being built.                     *)
StreamShape ==
  /\ pw \in {"none", "starting", "running", "exited"}
  /\ pwCmds \in Seq(Sizes \cup {QuitCmd})
  /\ offered \in Sizes \cup {0} /\ negotiated \in Sizes \cup {0}
  /\ pw # "none" => offered \in Sizes
  /\ kind \in {"shm", "dmabuf"}
  /\ memory \in [Buffers -> PaintedPicture] /\ painted \in Nat
  /\ queued \in Seq(StreamBuffer)
  /\ building \in StreamFrame \cup {None}
  /\ slot \in StreamFrame \cup {None}
  /\ held \in StreamFrame \cup {None}
  /\ free \in 0..MaxFree
  /\ pw = "exited" => bridgeClosed
  /\ pw # "running" => queued = <<>> /\ building = None
  /\ pw = "none" => slot = None

(* A frame has its picture's size; in a buffer of the stream it has the size *)
(* negotiated, which the next picture painted there has too.                 *)
HasItsSize(f) ==
  f # None =>
    /\ Picture(f).size = f.size
    /\ f.buf \in Buffers /\ negotiated # 0 => f.size = negotiated

SizesAgree ==
  /\ \A i \in 1..Len(queued) :
       queued[i].frame => memory[queued[i].buf].size = negotiated
  /\ HasItsSize(building) /\ HasItsSize(slot) /\ HasItsSize(held)

(* The compositor's cursor is what the sink will know once the buffers that  *)
(* wait are processed.                                                       *)
ShapeIsLast ==
  \/ sunk.shape = cursor.sent /\ \A i \in 1..Len(queued) : queued[i].shape = 0
  \/ \E i \in 1..Len(queued) :
       /\ queued[i].shape = cursor.sent
       /\ \A j \in 1..Len(queued) : j > i => queued[j].shape = 0

CursorIsSent ==
  /\ cursor \in [pos : 0..1, shape : 1..2, sent : 0..2]
  /\ sunk \in [pos : 0..1, shape : 0..2]
  /\ lastCursor \in 0..2
  /\ lastCursor # 0 => sunk.pos = lastCursor - 1
  /\ cursor.sent # 0 /\ cursor.pos # 0 => cursor.shape = cursor.sent
  /\ pw = "starting" => cursor.sent = 0
  /\ pw = "running" /\ api # "portal" /\ cursor.sent # 0 =>
       /\ queued = <<>> => sunk.pos = cursor.pos
       /\ queued # <<>> => queued[Len(queued)].pos = cursor.pos
       /\ ShapeIsLast

(* Sequence numbers grow from the consumer's last frame to the one built. *)
SequenceGrows ==
  /\ sequence \in Nat /\ received \in [n : Nat, seq : Nat]
  /\ received.seq <= sequence
  /\ slot # None => received.seq < slot.seq /\ slot.seq <= sequence
  /\ building # None =>
       /\ received.seq < building.seq /\ building.seq <= sequence
       /\ slot # None => slot.seq < building.seq

(* So do the pictures of the frames that are copies, and of the buffers that *)
(* will be copied.  No picture is one to come.                               *)
PaintedBefore ==
  /\ received.n <= painted
  /\ \A b \in Buffers : memory[b].n <= painted
  /\ slot # None => slot.copy.n <= painted
  /\ building # None => building.copy.n <= painted

CopiesGrow ==
  /\ slot # None /\ slot.buf = 0 => received.n < slot.copy.n
  /\ building # None /\ building.buf = 0 =>
       /\ received.n < building.copy.n
       /\ slot # None => Picture(slot).n < building.copy.n

QueueGrows ==
  /\ \A i, j \in 1..Len(queued) : i < j => queued[i].buf # queued[j].buf
  /\ building # None => (building.buf = 0 <=> kind = "shm")
  /\ kind = "shm" =>
       /\ slot # None => slot.buf \notin Buffers
       /\ \A i \in 1..Len(queued) : queued[i].frame =>
            /\ received.n < memory[queued[i].buf].n
            /\ slot # None => Picture(slot).n < memory[queued[i].buf].n
            /\ building # None => building.copy.n < memory[queued[i].buf].n
       /\ \A i, j \in 1..Len(queued) :
            i < j /\ queued[i].frame /\ queued[j].frame
              => memory[queued[i].buf].n < memory[queued[j].buf].n

PicturesGrow == PaintedBefore /\ CopiesGrow /\ QueueGrows

StreamIInv ==
  StreamShape /\ SizesAgree /\ BuffersAreReused /\ CursorIsSent /\ SequenceGrows /\ PicturesGrow


(* A frame is told from None by its sequence number. *)
LEMMA FrameIsNotNone == ASSUME NEW f \in StreamFrame PROVE f # None
  BY SMTT(30) DEF StreamFrame, None

(* A step that touches no frame, no picture and no format keeps the sizes. *)
LEMMA SizesKept ==
  ASSUME SizesAgree, UNCHANGED <<queued, memory, negotiated, building, slot, held>>
  PROVE  SizesAgree'
  BY DEF SizesAgree, HasItsSize, Picture

(* Nothing of the pictures' order depends on the commands, the cursor or the *)
(* thread's state.                                                           *)
LEMMA OrderKept ==
  ASSUME SequenceGrows, PicturesGrow,
         UNCHANGED <<queued, memory, painted, kind, building, slot, sequence, received>>
  PROVE  SequenceGrows' /\ PicturesGrow'
  BY DEF SequenceGrows, PicturesGrow, PaintedBefore, CopiesGrow, QueueGrows, Picture

(* request_mode, disconnect and StreamCmd::SetSize only touch the commands   *)
(* and the size offered.                                                     *)
LEMMA CommandsInv ==
  ASSUME StreamIInv, RequestSize \/ SendQuit \/ SetSize
  PROVE  StreamIInv'
<1>0. UNCHANGED <<api, pw, negotiated, kind, memory, queued, painted, cursor, sequence, lastCursor,
                  building, sunk, slot, free, bridgeClosed, held, received>>
  BY DEF RequestSize, SendQuit, SetSize, compositorVars, threadVars, bridgeVars, consumerVars
<1>1. pwCmds' \in Seq(Sizes \cup {QuitCmd}) /\ offered' \in Sizes \cup {0}
      /\ (pw # "none" => offered' \in Sizes)
  <2> USE DEF StreamIInv, StreamShape
  <2>1. CASE RequestSize
    <3>1. PICK s \in Sizes : pwCmds' = Append(pwCmds, s)  BY <2>1 DEF RequestSize
    <3>2. offered' = offered  BY <2>1 DEF RequestSize, threadVars
    <3> QED  BY <3>1, <3>2, SMTT(30)
  <2>2. CASE SendQuit
    BY <2>2, SMTT(30) DEF SendQuit, threadVars
  <2>3. CASE SetSize
    <3>1. pwCmds # <<>> /\ pwCmds' = Tail(pwCmds) /\ offered' = Head(pwCmds) /\ Head(pwCmds) # QuitCmd
      BY <2>3 DEF SetSize
    <3>2. pwCmds' \in Seq(Sizes \cup {QuitCmd}) /\ Head(pwCmds) \in Sizes \cup {QuitCmd}
      BY <3>1, HeadTailProperties
    <3> QED  BY <3>1, <3>2
  <2> QED  BY <2>1, <2>2, <2>3
<1>2. StreamShape'  BY <1>0, <1>1 DEF StreamIInv, StreamShape
<1>3. SizesAgree'  BY <1>0, SizesKept DEF StreamIInv
<1>4. BuffersAreReused'  BY <1>0 DEF StreamIInv, BuffersAreReused, Copies
<1>5. CursorIsSent'  BY <1>0 DEF StreamIInv, CursorIsSent, ShapeIsLast
<1>6. SequenceGrows' /\ PicturesGrow'  BY <1>0, OrderKept DEF StreamIInv
<1> QED  BY <1>2, <1>3, <1>4, <1>5, <1>6 DEF StreamIInv

(* spawn: a new bridge, and a stream that has nothing yet. *)
LEMMA SpawnInv ==
  ASSUME StreamIInv, Spawn(StreamSize)
  PROVE  StreamIInv'
<1>0. /\ pw = "none" /\ pw' = "starting" /\ offered' = StreamSize /\ negotiated' = 0
      /\ sequence' = 0 /\ lastCursor' = 0 /\ slot' = None /\ free' = 0
      /\ cursor' = [cursor EXCEPT !.sent = 0] /\ received' = [n |-> received.n, seq |-> 0]
      /\ UNCHANGED <<api, pwCmds, queued, memory, painted, kind, sunk, building, held>>
  BY DEF Spawn
<1>1. queued = <<>> /\ building = None  BY <1>0 DEF StreamIInv, StreamShape
<1>2. StreamShape'
  BY <1>0, <1>1, StreamAssumption, CaptureAssumption, SMTT(30) DEF StreamIInv, StreamShape
<1>3. SizesAgree'
  BY <1>0, <1>1, SMTT(30) DEF StreamIInv, SizesAgree, HasItsSize, Picture
<1>4. BuffersAreReused'
  BY <1>0, <1>1, SMTT(30) DEF StreamIInv, BuffersAreReused, Copies, StreamShape
<1>5. CursorIsSent'
  BY <1>0, SMTT(30) DEF StreamIInv, CursorIsSent
<1>6. SequenceGrows'
  BY <1>0, <1>1, SMTT(30) DEF StreamIInv, SequenceGrows
<1>7. PicturesGrow'
  BY <1>0, <1>1, SMTT(30) DEF StreamIInv, PicturesGrow, PaintedBefore, CopiesGrow, QueueGrows, SequenceGrows
<1> QED  BY <1>2, <1>3, <1>4, <1>5, <1>6, <1>7 DEF StreamIInv

(* recv: the frame of the slot goes to the consumer. *)
LEMMA RecvInv ==
  ASSUME StreamIInv, Recv
  PROVE  StreamIInv'
<1>0. /\ held = None /\ slot # None /\ held' = slot /\ slot' = None
      /\ received' = [n |-> Picture(slot).n, seq |-> slot.seq]
      /\ UNCHANGED <<api, pw, pwCmds, queued, memory, painted, cursor, offered, negotiated, kind,
                     sequence, lastCursor, sunk, building, free, bridgeClosed>>
  BY DEF Recv, compositorVars, threadVars
<1>1. slot \in StreamFrame  BY <1>0 DEF StreamIInv, StreamShape
<1>2. StreamShape'  BY <1>0 DEF StreamIInv, StreamShape
<1>3. SizesAgree'  BY <1>0 DEF StreamIInv, SizesAgree, HasItsSize, Picture
<1>4. BuffersAreReused'  BY <1>0, SMTT(30) DEF StreamIInv, BuffersAreReused, Copies, StreamShape
<1>5. CursorIsSent'  BY <1>0 DEF StreamIInv, CursorIsSent, ShapeIsLast
<1>6. Picture(slot) \in PaintedPicture /\ Picture(slot).n <= painted
  BY <1>0, <1>1 DEF StreamIInv, StreamShape, StreamFrame, Picture, PicturesGrow, PaintedBefore
<1>7. SequenceGrows'
  BY <1>0, <1>1, <1>6 DEF StreamIInv, SequenceGrows, StreamFrame, PaintedPicture
<1>8. PaintedBefore' /\ CopiesGrow'
  BY <1>0, <1>6 DEF StreamIInv, PicturesGrow, PaintedBefore, CopiesGrow
<1>9. QueueGrows'
  BY <1>0, <1>6 DEF StreamIInv, PicturesGrow, QueueGrows
<1> QED  BY <1>2, <1>3, <1>4, <1>5, <1>7, <1>8, <1>9 DEF StreamIInv, PicturesGrow

(* recycle_frame, or dropping a frame. *)
LEMMA ReleaseInv ==
  ASSUME StreamIInv, Release
  PROVE  StreamIInv'
<1>0. /\ held # None /\ held' = None
      /\ free' \in {free, Recycled(held, free)}
      /\ UNCHANGED <<api, pw, pwCmds, queued, memory, painted, cursor, offered, negotiated, kind,
                     sequence, lastCursor, sunk, building, slot, bridgeClosed, received>>
  BY DEF Release, compositorVars, threadVars
<1>1. free' \in 0..MaxFree /\ free' <= free + Copies(held)
  <2>1. free \in 0..MaxFree /\ MaxFree \in Nat
    BY StreamAssumption DEF StreamIInv, StreamShape
  <2>2. Recycled(held, free) = IF held.buf = 0 /\ free < MaxFree THEN free + 1 ELSE free
    BY <1>0 DEF Recycled
  <2>3. Copies(held) = IF held.buf = 0 THEN 1 ELSE 0  BY <1>0 DEF Copies
  <2> QED  BY <1>0, <2>1, <2>2, <2>3, SMTT(30)
<1>2. StreamShape'  BY <1>0, <1>1 DEF StreamIInv, StreamShape
<1>3. SizesAgree'  BY <1>0 DEF StreamIInv, SizesAgree, HasItsSize, Picture
<1>4. BuffersAreReused'
  <2>1. Copies(building) \in Nat /\ Copies(slot) \in Nat /\ Copies(held) \in Nat  BY DEF Copies
  <2>2. Copies(building)' = Copies(building) /\ Copies(slot)' = Copies(slot) /\ Copies(held)' = 0
    BY <1>0 DEF Copies
  <2>3. free \in Nat /\ free' \in Nat  BY <1>1, StreamAssumption, SMTT(30) DEF StreamIInv, StreamShape
  <2> QED  BY <1>1, <2>1, <2>2, <2>3, SMTT(30) DEF StreamIInv, BuffersAreReused
<1>5. CursorIsSent'  BY <1>0 DEF StreamIInv, CursorIsSent, ShapeIsLast
<1>6. SequenceGrows' /\ PicturesGrow'  BY <1>0, OrderKept DEF StreamIInv
<1> QED  BY <1>2, <1>3, <1>4, <1>5, <1>6 DEF StreamIInv

(* The thread was joined: the source is dropped, and with it its bridge. *)
LEMMA PipewireJoinedInv ==
  ASSUME StreamIInv, PipewireJoined
  PROVE  StreamIInv'
<1>0. /\ pw = "exited" /\ pw' = "none" /\ pwCmds' = <<>> /\ slot' = None /\ free' = 0
      /\ UNCHANGED <<api, queued, memory, painted, cursor, offered, negotiated, kind, sequence,
                     lastCursor, sunk, building, bridgeClosed, held, received>>
  BY DEF PipewireJoined, compositorVars, consumerVars
<1>1. queued = <<>> /\ building = None  BY <1>0 DEF StreamIInv, StreamShape
<1>2. StreamShape'  BY <1>0, <1>1, StreamAssumption, SMTT(30) DEF StreamIInv, StreamShape
<1>3. SizesAgree'  BY <1>0 DEF StreamIInv, SizesAgree, HasItsSize, Picture
<1>4. BuffersAreReused'  BY <1>0, <1>1, SMTT(30) DEF StreamIInv, BuffersAreReused, Copies
<1>5. CursorIsSent'  BY <1>0 DEF StreamIInv, CursorIsSent
<1>6. SequenceGrows'  BY <1>0, <1>1 DEF StreamIInv, SequenceGrows
<1>7. PicturesGrow'
  BY <1>0, <1>1, SMTT(30) DEF StreamIInv, PicturesGrow, PaintedBefore, CopiesGrow, QueueGrows
<1> QED  BY <1>2, <1>3, <1>4, <1>5, <1>6, <1>7 DEF StreamIInv

(* run_stream returns: the buffers go with the stream. *)
LEMMA ExitsInv ==
  ASSUME StreamIInv, Exits, building = None, UNCHANGED pwCmds, pw # "none"
  PROVE  StreamIInv'
<1>0. /\ pw' = "exited" /\ bridgeClosed' = TRUE /\ queued' = <<>>
      /\ UNCHANGED <<api, pwCmds, memory, painted, cursor, offered, negotiated, kind, sequence,
                     lastCursor, sunk, building, slot, free, held, received>>
  BY DEF Exits, compositorVars, consumerVars
<1>1. StreamShape'  BY <1>0, SMTT(30) DEF StreamIInv, StreamShape
<1>2. SizesAgree'  BY <1>0, SMTT(30) DEF StreamIInv, SizesAgree, HasItsSize, Picture
<1>3. BuffersAreReused'  BY <1>0 DEF StreamIInv, BuffersAreReused, Copies
<1>4. CursorIsSent'  BY <1>0 DEF StreamIInv, CursorIsSent
<1>5. SequenceGrows'  BY <1>0 DEF StreamIInv, SequenceGrows
<1>6. PicturesGrow'
  BY <1>0, SMTT(30) DEF StreamIInv, PicturesGrow, PaintedBefore, CopiesGrow, QueueGrows, Picture
<1> QED  BY <1>1, <1>2, <1>3, <1>4, <1>5, <1>6 DEF StreamIInv

(* The stream is connected, or run_stream fails. *)
LEMMA StreamConnectsInv ==
  ASSUME StreamIInv, StreamConnects
  PROVE  StreamIInv'
<1>1. CASE Exits
  <2>1. building = None /\ pw # "none" /\ UNCHANGED pwCmds
    BY DEF StreamConnects, StreamIInv, StreamShape
  <2> QED  BY <1>1, <2>1, ExitsInv
<1>2. CASE ~Exits
  <2>0. /\ pw = "starting" /\ pw' = "running"
        /\ UNCHANGED <<api, pwCmds, queued, memory, painted, cursor, offered, negotiated, kind,
                       sequence, lastCursor, sunk, building, slot, free, bridgeClosed, held, received>>
    BY <1>2 DEF StreamConnects, compositorVars, bridgeVars, consumerVars
  <2>1. StreamShape'  BY <2>0 DEF StreamIInv, StreamShape
  <2>2. SizesAgree'  BY <2>0, SizesKept DEF StreamIInv
  <2>3. BuffersAreReused'  BY <2>0 DEF StreamIInv, BuffersAreReused, Copies
  <2>4. CursorIsSent'  BY <2>0 DEF StreamIInv, CursorIsSent
  <2>5. SequenceGrows' /\ PicturesGrow'  BY <2>0, OrderKept DEF StreamIInv
  <2> QED  BY <2>1, <2>2, <2>3, <2>4, <2>5 DEF StreamIInv
<1> QED  BY <1>1, <1>2

(* StreamCmd::Quit *)
LEMMA QuitInv ==
  ASSUME StreamIInv, Quit
  PROVE  StreamIInv'
<1>1. Exits /\ building = None /\ UNCHANGED pwCmds /\ pw # "none"  BY DEF Quit, Looping
<1> QED  BY <1>1, ExitsInv

(* A frame keeps its size and its picture when the stream's buffers go, and  *)
(* is in none of them any more.                                              *)
LEMMA KeptFacts ==
  ASSUME StreamShape, NEW f \in StreamFrame \cup {None}, HasItsSize(f)
  PROVE  /\ Kept(f) \in StreamFrame \cup {None}
         /\ Kept(f) = None <=> f = None
         /\ f # None => /\ Kept(f).buf \notin Buffers /\ Kept(f).seq = f.seq
                        /\ Kept(f).size = f.size
                        /\ Kept(f).copy = Picture(f) /\ Kept(f).copy.size = f.size
                        /\ Kept(f).buf = 0 <=> f.buf = 0
                        /\ Kept(f).buf = 0 => Kept(f) = f
<1>1. CASE f = None
  BY <1>1 DEF Kept, None
<1>2. CASE f # None
  <2>1. f \in StreamFrame /\ f.seq > 0  BY <1>2, SMTT(30) DEF StreamFrame
  <2>2. CASE f.buf \in Buffers
    <3>1. Kept(f) = [f EXCEPT !.copy = memory[f.buf], !.buf = -1]  BY <2>1, <2>2 DEF Kept
    <3>2. memory[f.buf] \in PaintedPicture  BY <2>2 DEF StreamShape
    <3>3. Kept(f) \in StreamFrame  BY <2>1, <3>1, <3>2 DEF StreamFrame
    <3>4. Kept(f).seq = f.seq /\ Kept(f).size = f.size /\ Kept(f).copy = memory[f.buf] /\ Kept(f).buf = -1
      BY <2>1, <3>1 DEF StreamFrame
    <3>5. -1 \notin Buffers /\ 0 \notin Buffers  BY StreamAssumption, SMTT(30)
    <3> QED  BY <1>2, <2>2, <3>3, <3>4, <3>5, FrameIsNotNone, SMTT(30) DEF HasItsSize, Picture
  <2>3. CASE f.buf \notin Buffers
    <3>1. Kept(f) = f  BY <2>3 DEF Kept
    <3> QED  BY <1>2, <2>1, <2>3, <3>1 DEF HasItsSize, Picture
  <2> QED  BY <2>2, <2>3
<1> QED  BY <1>1, <1>2

(* param_changed: new buffers, and no frame is in one of the old. *)
LEMMA ParamChangedInv ==
  ASSUME StreamIInv, ParamChanged
  PROVE  StreamIInv'
<1>0. /\ pw = "running" /\ building = None
      /\ negotiated' \in Formats /\ kind' \in {"shm", "dmabuf"} /\ queued' = <<>>
      /\ memory' = [b \in Buffers |-> Black]
      /\ cursor' = [cursor EXCEPT !.sent = 0]
      /\ slot' = Kept(slot) /\ held' = Kept(held)
      /\ UNCHANGED <<api, pw, pwCmds, painted, offered, sequence, lastCursor, sunk, building, free,
                     bridgeClosed, received>>
  BY DEF ParamChanged, Looping
<1>1. negotiated' \in Sizes  BY <1>0 DEF Formats, StreamIInv, StreamShape
<1>2. StreamShape /\ slot \in StreamFrame \cup {None} /\ held \in StreamFrame \cup {None}
      /\ HasItsSize(slot) /\ HasItsSize(held)
  BY DEF StreamIInv, StreamShape, SizesAgree
<1>3. /\ slot' \in StreamFrame \cup {None}
      /\ slot' = None <=> slot = None
      /\ slot # None => /\ slot'.buf \notin Buffers /\ slot'.seq = slot.seq /\ slot'.size = slot.size
                        /\ slot'.copy = Picture(slot) /\ slot'.copy.size = slot.size
                        /\ slot'.buf = 0 <=> slot.buf = 0
                        /\ slot'.buf = 0 => slot' = slot
  BY <1>0, <1>2, KeptFacts
<1>4. /\ held' \in StreamFrame \cup {None}
      /\ held' = None <=> held = None
      /\ held # None => /\ held'.buf \notin Buffers /\ held'.size = held.size
                        /\ held'.copy.size = held.size
                        /\ held'.buf = 0 <=> held.buf = 0
  BY <1>0, <1>2, KeptFacts
<1>5. memory' \in [Buffers -> PaintedPicture]  BY <1>0 DEF Black, PaintedPicture
<1>6. StreamShape'
  BY <1>0, <1>1, <1>3, <1>4, <1>5, SMTT(30) DEF StreamIInv, StreamShape
<1>7. SizesAgree'
  <2>1. HasItsSize(slot)'  BY <1>3 DEF HasItsSize, Picture
  <2>2. HasItsSize(held)'  BY <1>4 DEF HasItsSize, Picture
  <2>3. HasItsSize(building)'  BY <1>0 DEF HasItsSize
  <2> QED  BY <1>0, <2>1, <2>2, <2>3, SMTT(30) DEF SizesAgree
<1>8. BuffersAreReused'
  BY <1>0, <1>3, <1>4 DEF StreamIInv, BuffersAreReused, Copies
<1>9. CursorIsSent'
  BY <1>0, SMTT(30) DEF StreamIInv, CursorIsSent
<1>10. SequenceGrows'
  BY <1>0, <1>3 DEF StreamIInv, SequenceGrows
<1>11. PaintedBefore'
  <2>1. slot # None => Picture(slot).n <= painted
    BY <1>2 DEF StreamIInv, PicturesGrow, PaintedBefore, Picture
  <2>2. \A b \in Buffers : memory'[b].n = 0  BY <1>0 DEF Black
  <2>3. painted \in Nat  BY DEF StreamIInv, StreamShape
  <2> QED  BY <1>0, <1>3, <2>1, <2>2, <2>3, SMTT(30) DEF StreamIInv, PicturesGrow, PaintedBefore
<1>12. CopiesGrow'
  BY <1>0, <1>3 DEF StreamIInv, PicturesGrow, CopiesGrow
<1>13. QueueGrows'
  BY <1>0, <1>3, SMTT(30) DEF QueueGrows
<1> QED  BY <1>6, <1>7, <1>8, <1>9, <1>10, <1>11, <1>12, <1>13 DEF StreamIInv, PicturesGrow

(* push: the frame built replaces the one in the slot. *)
LEMMA PushInv ==
  ASSUME StreamIInv, Push
  PROVE  StreamIInv'
<1>0. /\ building # None /\ building' = None /\ slot' = building
      /\ free' = Recycled(slot, free)
      /\ UNCHANGED <<api, pwCmds, queued, memory, painted, cursor, pw, offered, negotiated, kind,
                     sequence, lastCursor, sunk, bridgeClosed, held, received>>
  BY DEF Push, compositorVars, consumerVars
<1>1. pw = "running"  BY <1>0 DEF StreamIInv, StreamShape
<1>2. free' \in 0..MaxFree /\ free' <= free + Copies(slot)
  BY <1>0, StreamAssumption, SMTT(30) DEF StreamIInv, StreamShape, Recycled, Copies
<1>3. StreamShape'  BY <1>0, <1>1, <1>2 DEF StreamIInv, StreamShape
<1>4. SizesAgree'  BY <1>0 DEF StreamIInv, SizesAgree, HasItsSize, Picture
<1>5. BuffersAreReused'  BY <1>0, <1>2, SMTT(30) DEF StreamIInv, BuffersAreReused, Copies, StreamShape
<1>6. CursorIsSent'  BY <1>0 DEF StreamIInv, CursorIsSent, ShapeIsLast
<1>7. SequenceGrows'  BY <1>0 DEF StreamIInv, SequenceGrows
<1>8. PaintedBefore'  BY <1>0 DEF StreamIInv, PicturesGrow, PaintedBefore
<1>9. CopiesGrow'  BY <1>0 DEF StreamIInv, PicturesGrow, CopiesGrow
<1>10. QueueGrows'
  <2>1. kind = "shm" => building.buf = 0 /\ building.buf \notin Buffers
    BY <1>0, StreamAssumption, ZenonT(40) DEF StreamIInv, PicturesGrow, QueueGrows
  <2>2. kind = "shm" => Picture(slot)' = building.copy  BY <1>0, <2>1 DEF Picture
  <2> QED  BY <1>0, <2>1, <2>2, ZenonT(40) DEF StreamIInv, PicturesGrow, QueueGrows
<1> QED  BY <1>3, <1>4, <1>5, <1>6, <1>7, <1>8, <1>9, <1>10 DEF StreamIInv, PicturesGrow

(* What is left once the first of a queue of buffers is taken. *)
LEMMA QueueTail ==
  ASSUME queued \in Seq(StreamBuffer), queued # <<>>, queued' = Tail(queued)
  PROVE  /\ queued' \in Seq(StreamBuffer) /\ Head(queued) = queued[1] /\ queued[1] \in StreamBuffer
         /\ Len(queued) \in Nat \ {0} /\ Len(queued') = Len(queued) - 1
         /\ \A i \in 1..Len(queued') : queued'[i] = queued[i + 1] /\ i + 1 \in 1..Len(queued)
<1>1. Len(queued) \in Nat \ {0}  BY EmptySeq, LenProperties
<1>2. queued' \in Seq(StreamBuffer) /\ Len(queued') = Len(queued) - 1
      /\ \A i \in 1..Len(queued') : queued'[i] = queued[i + 1]
  BY HeadTailProperties
<1>3. Head(queued) = queued[1] /\ queued[1] \in StreamBuffer  BY <1>1, ElementOfSeq, SMTT(30)
<1> QED  BY <1>1, <1>2, <1>3, SMTT(30)

(* The cursor metadata of a buffer: what the sink knows of the shape is the  *)
(* last one sent, once it is processed.                                      *)
LEMMA CursorProcessed ==
  ASSUME StreamShape, CursorIsSent, queued # <<>>, queued' = Tail(queued),
         pw = "running", UNCHANGED <<pw, api, cursor>>,
         IF api # "portal" /\ CursorChanged(queued[1])
         THEN /\ lastCursor' = queued[1].pos + 1
              /\ sunk' = [pos |-> queued[1].pos,
                          shape |-> IF queued[1].shape = 0 THEN sunk.shape ELSE queued[1].shape]
         ELSE UNCHANGED <<lastCursor, sunk>>
  PROVE  CursorIsSent'
<1>0. queued \in Seq(StreamBuffer)  BY DEF StreamShape
<1>1. /\ queued' \in Seq(StreamBuffer) /\ queued[1] \in StreamBuffer
      /\ Len(queued) \in Nat \ {0} /\ Len(queued') = Len(queued) - 1
      /\ \A i \in 1..Len(queued') : queued'[i] = queued[i + 1] /\ i + 1 \in 1..Len(queued)
  BY <1>0, QueueTail
<1>2. /\ sunk' \in [pos : 0..1, shape : 0..2] /\ lastCursor' \in 0..2
      /\ lastCursor' # 0 => sunk'.pos = lastCursor' - 1
  BY <1>1, SMTT(30) DEF CursorIsSent, StreamBuffer
<1>3. ASSUME api # "portal", cursor.sent # 0
      PROVE  /\ queued' = <<>> => sunk'.pos = cursor.pos
             /\ queued' # <<>> => queued'[Len(queued')].pos = cursor.pos
             /\ ShapeIsLast'
  <2>1. queued[Len(queued)].pos = cursor.pos /\ ShapeIsLast  BY <1>3 DEF CursorIsSent
  <2>2. sunk'.pos = queued[1].pos /\ sunk'.shape = IF queued[1].shape = 0 THEN sunk.shape ELSE queued[1].shape
    BY <1>3, <1>1, SMTT(30) DEF CursorIsSent, CursorChanged, StreamBuffer
  <2>3. queued' = <<>> => sunk'.pos = cursor.pos
    <3>1. queued' = <<>> => Len(queued') = 0  OBVIOUS
    <3>2. queued' = <<>> => Len(queued) = 1  BY <1>1, <3>1, SMTT(30)
    <3> QED  BY <2>1, <2>2, <3>2
  <2>4. queued' # <<>> => queued'[Len(queued')].pos = cursor.pos
    <3>1. queued' # <<>> => Len(queued') \in 1..Len(queued')  BY <1>1, EmptySeq, SMTT(30)
    <3> QED  BY <1>1, <2>1, <3>1, SMTT(30)
  <2>5. ShapeIsLast'
    <3>1. CASE sunk.shape = cursor.sent /\ \A i \in 1..Len(queued) : queued[i].shape = 0
      <4>1. sunk'.shape = cursor.sent  BY <1>1, <2>2, <3>1, SMTT(30)
      <4>2. \A i \in 1..Len(queued') : queued'[i].shape = 0  BY <1>1, <3>1
      <4> QED  BY <4>1, <4>2 DEF ShapeIsLast
    <3>2. CASE \E i \in 1..Len(queued) :
                 /\ queued[i].shape = cursor.sent
                 /\ \A j \in 1..Len(queued) : j > i => queued[j].shape = 0
      <4>1. PICK i \in 1..Len(queued) :
                 /\ queued[i].shape = cursor.sent
                 /\ \A j \in 1..Len(queued) : j > i => queued[j].shape = 0
        BY <3>2
      <4>2. CASE i = 1
        <5>1. sunk'.shape = cursor.sent  BY <1>3, <2>2, <4>1, <4>2
        <5>2. \A k \in 1..Len(queued') : queued'[k].shape = 0  BY <1>1, <4>1, <4>2, SMTT(30)
        <5> QED  BY <5>1, <5>2 DEF ShapeIsLast
      <4>3. CASE i # 1
        <5>1. i - 1 \in 1..Len(queued') /\ queued'[i - 1] = queued[i]  BY <1>1, <4>3, SMTT(30)
        <5>2. \A k \in 1..Len(queued') : k > i - 1 => queued'[k].shape = 0  BY <1>1, <4>1, SMTT(30)
        <5>3. queued'[i - 1].shape = cursor.sent  BY <4>1, <5>1
        <5> QED  BY <5>1, <5>2, <5>3 DEF ShapeIsLast
      <4> QED  BY <4>2, <4>3
    <3> QED  BY <2>1, <3>1, <3>2 DEF ShapeIsLast
  <2> QED  BY <2>3, <2>4, <2>5
<1>4. /\ cursor' \in [pos : 0..1, shape : 1..2, sent : 0..2]
      /\ cursor'.sent # 0 /\ cursor'.pos # 0 => cursor'.shape = cursor'.sent
      /\ pw' # "starting"
  BY DEF CursorIsSent
<1> QED  BY <1>2, <1>3, <1>4 DEF CursorIsSent

(* build_frame: the frame of a buffer that has one. *)
LEMMA FrameBuilt ==
  ASSUME StreamIInv, negotiated # 0, queued # <<>>, queued[1].frame, queued[1] \in StreamBuffer,
         1 \in 1..Len(queued)
  PROVE  LET f == Frame(queued[1]) IN
         /\ f \in StreamFrame /\ f # None
         /\ f.seq = sequence + 1 /\ f.size = negotiated /\ f.copy = memory[queued[1].buf]
         /\ f.buf = (IF kind = "dmabuf" THEN queued[1].buf ELSE 0)
         /\ HasItsSize(f)
<1> DEFINE f == Frame(queued[1])
<1>1. f.seq = sequence + 1 /\ f.size = negotiated /\ f.copy = memory[queued[1].buf]
      /\ f.buf = (IF kind = "dmabuf" THEN queued[1].buf ELSE 0)
  BY DEF Frame
<1>2. f \in StreamFrame
  <2>1. sequence + 1 \in Nat \ {0}  BY SMTT(30) DEF StreamIInv, SequenceGrows
  <2>2. negotiated \in Sizes /\ memory[queued[1].buf] \in PaintedPicture
    BY DEF StreamIInv, StreamShape, StreamBuffer
  <2>3. (IF kind = "dmabuf" THEN queued[1].buf ELSE 0) \in Buffers \cup {-1, 0}  BY DEF StreamBuffer
  <2> QED  BY <2>1, <2>2, <2>3 DEF Frame, StreamFrame
<1>3. memory[queued[1].buf].size = negotiated  BY DEF StreamIInv, SizesAgree
<1> HIDE DEF f
<1>4. HasItsSize(f)
  <2>1. Picture(f) = memory[queued[1].buf]  BY <1>1, StreamAssumption DEF Picture, StreamBuffer
  <2> QED  BY <1>1, <1>3, <2>1 DEF HasItsSize
<1> QED  BY <1>1, <1>2, <1>4, FrameIsNotNone DEF f

(* process: the first buffer's cursor and its frame. *)
LEMMA ProcessInv ==
  ASSUME StreamIInv, ProcessBuffer
  PROVE  StreamIInv'
<1> DEFINE f == Frame(queued[1])
<1>0. /\ pw = "running" /\ building = None /\ queued # <<>> /\ queued' = Tail(queued)
      /\ queued \in Seq(StreamBuffer)
      /\ UNCHANGED <<api, pwCmds, memory, painted, cursor, pw, offered, negotiated, kind, slot,
                     bridgeClosed, held, received>>
  BY DEF ProcessBuffer, Looping, compositorVars, consumerVars, StreamIInv, StreamShape
<1>1. /\ queued' \in Seq(StreamBuffer) /\ Head(queued) = queued[1] /\ queued[1] \in StreamBuffer
      /\ Len(queued) \in Nat \ {0} /\ Len(queued') = Len(queued) - 1
      /\ \A i \in 1..Len(queued') : queued'[i] = queued[i + 1] /\ i + 1 \in 1..Len(queued)
  BY <1>0, QueueTail
<1>2. CursorIsSent'
  <2>1. IF api # "portal" /\ CursorChanged(queued[1])
        THEN /\ lastCursor' = queued[1].pos + 1
             /\ sunk' = [pos |-> queued[1].pos,
                         shape |-> IF queued[1].shape = 0 THEN sunk.shape ELSE queued[1].shape]
        ELSE UNCHANGED <<lastCursor, sunk>>
    BY <1>1 DEF ProcessBuffer
  <2> QED  BY <1>0, <2>1, CursorProcessed DEF StreamIInv
<1>3. /\ IF negotiated # 0 /\ queued[1].frame
         THEN sequence' = sequence + 1 /\ building' = f /\ free' = TakeBuffer
         ELSE UNCHANGED <<sequence, building, free>>
  BY <1>1 DEF ProcessBuffer, HasFrame
<1>4. CASE ~(negotiated # 0 /\ queued[1].frame)
  <2>0. UNCHANGED <<sequence, building, free>>  BY <1>3, <1>4
  <2>1. StreamShape'  BY <1>0, <1>1, <2>0 DEF StreamIInv, StreamShape
  <2>2. SizesAgree'  BY <1>0, <1>1, <2>0, SMTT(30) DEF StreamIInv, SizesAgree, HasItsSize, Picture
  <2>3. BuffersAreReused'  BY <1>0, <2>0 DEF StreamIInv, BuffersAreReused, Copies
  <2>4. SequenceGrows'  BY <1>0, <2>0 DEF StreamIInv, SequenceGrows
  <2>5. PaintedBefore' /\ CopiesGrow'
    BY <1>0, <2>0 DEF StreamIInv, PicturesGrow, PaintedBefore, CopiesGrow, Picture
  <2>6. QueueGrows'
    BY <1>0, <1>1, <2>0, SMTT(30) DEF StreamIInv, PicturesGrow, QueueGrows, Picture
  <2> QED  BY <1>2, <2>1, <2>2, <2>3, <2>4, <2>5, <2>6 DEF StreamIInv, PicturesGrow
<1>5. CASE negotiated # 0 /\ queued[1].frame
  <2> HIDE DEF f
  <2>0. sequence' = sequence + 1 /\ building' = f /\ free' = TakeBuffer  BY <1>3, <1>5
  <2>1. /\ f \in StreamFrame /\ f # None
        /\ f.seq = sequence + 1 /\ f.size = negotiated /\ f.copy = memory[queued[1].buf]
        /\ f.buf = (IF kind = "dmabuf" THEN queued[1].buf ELSE 0)
        /\ HasItsSize(f)
    BY <1>0, <1>1, <1>5, FrameBuilt, SMTT(30) DEF f
  <2>2. free' \in 0..MaxFree
        /\ free' + Copies(f) <= (IF free = 0 THEN 1 ELSE free)
    <3>1. kind = "dmabuf" => f.buf # 0  BY <1>1, <2>1, StreamAssumption DEF StreamBuffer
    <3> QED  BY <2>0, <2>1, <3>1, StreamAssumption, SMTT(30) DEF StreamIInv, StreamShape, TakeBuffer, Copies
  <2>3. StreamShape'  BY <1>0, <1>1, <2>0, <2>1, <2>2 DEF StreamIInv, StreamShape
  <2>4. SizesAgree'
    <3>1. HasItsSize(building)'  BY <1>0, <2>0, <2>1 DEF HasItsSize, Picture
    <3>2. HasItsSize(slot)' /\ HasItsSize(held)'
      BY <1>0 DEF StreamIInv, SizesAgree, HasItsSize, Picture
    <3> QED  BY <1>0, <1>1, <3>1, <3>2, SMTT(30) DEF StreamIInv, SizesAgree
  <2>5. BuffersAreReused'
    <3>1. Copies(slot) \in 0..1 /\ Copies(held) \in 0..1 /\ Copies(building) = 0 /\ Copies(f) \in 0..1
      BY <1>0, SMTT(30) DEF Copies
    <3>2. Copies(building)' = Copies(f) /\ Copies(slot)' = Copies(slot) /\ Copies(held)' = Copies(held)
      BY <1>0, <2>0 DEF Copies
    <3> QED  BY <2>2, <3>1, <3>2, SMTT(30) DEF StreamIInv, BuffersAreReused, StreamShape
  <2>6. SequenceGrows'
    BY <1>0, <2>0, <2>1, SMTT(30) DEF StreamIInv, SequenceGrows, StreamShape, StreamFrame
  <2>7. PaintedBefore'
    BY <1>0, <1>1, <2>0, <2>1, ZenonT(40) DEF StreamIInv, PicturesGrow, PaintedBefore, StreamBuffer
  <2>8. kind = "shm" =>
          /\ received.n < memory[queued[1].buf].n
          /\ slot # None => Picture(slot).n < memory[queued[1].buf].n
    BY <1>1, <1>5, SMTT(30) DEF StreamIInv, PicturesGrow, QueueGrows
  <2>9. f.buf = 0 => kind = "shm"
    BY <1>1, <2>1, StreamAssumption DEF StreamIInv, StreamShape, StreamBuffer
  <2>10. Picture(slot)' = Picture(slot)  BY <1>0 DEF Picture
  <2>11. CopiesGrow'
    BY <1>0, <2>0, <2>1, <2>8, <2>9, <2>10, ZenonT(40) DEF StreamIInv, PicturesGrow, CopiesGrow
  <2>12. QueueGrows'
    <3>1. \A i, j \in 1..Len(queued') : i < j => queued'[i].buf # queued'[j].buf
      BY <1>1, SMTT(30) DEF StreamIInv, PicturesGrow, QueueGrows
    <3>2. /\ kind = "shm" /\ slot # None => slot.buf \notin Buffers
          /\ f.buf = 0 <=> kind = "shm"
      BY <2>1, <2>9 DEF StreamIInv, PicturesGrow, QueueGrows, StreamShape
    <3>3. ASSUME kind = "shm", NEW i \in 1..Len(queued'), queued'[i].frame
          PROVE  /\ received.n < memory[queued'[i].buf].n
                 /\ slot # None => Picture(slot).n < memory[queued'[i].buf].n
                 /\ f.copy.n < memory[queued'[i].buf].n
      <4>1. queued'[i] = queued[i + 1] /\ i + 1 \in 1..Len(queued) /\ 1 < i + 1 /\ 1 \in 1..Len(queued)
        BY <1>1, SMTT(30)
      <4> QED  BY <1>5, <2>1, <3>3, <4>1 DEF StreamIInv, PicturesGrow, QueueGrows
    <3>4. ASSUME kind = "shm", NEW i \in 1..Len(queued'), NEW j \in 1..Len(queued'),
                 i < j, queued'[i].frame, queued'[j].frame
          PROVE  memory[queued'[i].buf].n < memory[queued'[j].buf].n
      <4>1. /\ queued'[i] = queued[i + 1] /\ i + 1 \in 1..Len(queued)
            /\ queued'[j] = queued[j + 1] /\ j + 1 \in 1..Len(queued)
        BY <1>1
      <4>2. i + 1 < j + 1  BY <3>4, SMTT(30)
      <4> QED  BY <3>4, <4>1, <4>2 DEF StreamIInv, PicturesGrow, QueueGrows
    <3> QED  BY <1>0, <2>0, <2>10, <3>1, <3>2, <3>3, <3>4, ZenonT(40) DEF QueueGrows
  <2> QED  BY <1>2, <2>3, <2>4, <2>5, <2>6, <2>7, <2>11, <2>12 DEF StreamIInv, PicturesGrow
<1> QED  BY <1>4, <1>5

(* A buffer is sent behind those that wait. *)
LEMMA QueueAppend ==
  ASSUME queued \in Seq(StreamBuffer), NEW e \in StreamBuffer, queued' = Append(queued, e)
  PROVE  /\ queued' \in Seq(StreamBuffer) /\ queued' # <<>>
         /\ Len(queued) \in Nat /\ Len(queued') = Len(queued) + 1
         /\ \A i \in 1..Len(queued) : queued'[i] = queued[i]
         /\ queued'[Len(queued) + 1] = e
         /\ \A i \in 1..Len(queued') : i \in 1..Len(queued) \/ i = Len(queued) + 1
<1>1. Len(queued) \in Nat  BY LenProperties
<1>2. queued' \in Seq(StreamBuffer) /\ Len(queued') = Len(queued) + 1
      /\ (\A i \in 1..Len(queued) : queued'[i] = queued[i]) /\ queued'[Len(queued) + 1] = e
  BY AppendProperties, SMTT(30)
<1> QED  BY <1>1, <1>2, EmptySeq, SMTT(30)

(* The cursor goes with the buffer sent. *)
LEMMA CursorPainted ==
  ASSUME CursorIsSent, queued \in Seq(StreamBuffer), pw = "running",
         NEW b \in Buffers, NEW frame \in BOOLEAN, NEW pos \in 0..1, NEW shape \in 1..2,
         pos = 0 => shape = cursor.shape,
         cursor' = [pos |-> pos, shape |-> shape, sent |-> IF pos = 0 THEN cursor.sent ELSE shape],
         queued' = Append(queued, [buf |-> b, frame |-> frame, pos |-> pos,
                     shape |-> IF pos = 0 \/ shape = cursor.sent THEN 0 ELSE shape]),
         UNCHANGED <<pw, api, sunk, lastCursor>>
  PROVE  CursorIsSent'
<1> DEFINE sh == IF pos = 0 \/ shape = cursor.sent THEN 0 ELSE shape
           e == [buf |-> b, frame |-> frame, pos |-> pos, shape |-> sh]
<1>1. e \in StreamBuffer /\ e.pos = pos /\ e.shape = sh  BY SMTT(30) DEF StreamBuffer
<1> HIDE DEF e
<1>2. queued' = Append(queued, e)  BY DEF e
<1>3. /\ queued' # <<>> /\ Len(queued) \in Nat /\ Len(queued') = Len(queued) + 1
      /\ \A i \in 1..Len(queued) : queued'[i] = queued[i]
      /\ queued'[Len(queued) + 1] = e
      /\ \A i \in 1..Len(queued') : i \in 1..Len(queued) \/ i = Len(queued) + 1
  BY <1>1, <1>2, QueueAppend
<1>4. cursor'.pos = pos /\ cursor'.shape = shape /\ cursor'.sent = (IF pos = 0 THEN cursor.sent ELSE shape)
      /\ cursor' \in [pos : 0..1, shape : 1..2, sent : 0..2]
  BY SMTT(30) DEF CursorIsSent
<1>5. cursor'.sent # 0 /\ cursor'.pos # 0 => cursor'.shape = cursor'.sent  BY <1>4
<1>6. ASSUME api # "portal", cursor'.sent # 0
      PROVE  ShapeIsLast'
  <2>1. CASE sh # 0
    <3>1. queued'[Len(queued) + 1].shape = cursor'.sent  BY <1>1, <1>3, <1>4, <2>1
    <3>2. \A j \in 1..Len(queued') : ~(j > Len(queued) + 1)  BY <1>3, SMTT(30)
    <3>3. Len(queued) + 1 \in 1..Len(queued')  BY <1>3, SMTT(30)
    <3> QED  BY <3>1, <3>2, <3>3 DEF ShapeIsLast
  <2>2. CASE sh = 0
    <3>1. cursor'.sent = cursor.sent /\ cursor.sent # 0  BY <1>4, <1>6, <2>2, ZenonT(40)
    <3>2. ShapeIsLast  BY <1>6, <3>1 DEF CursorIsSent
    <3>3. CASE sunk.shape = cursor.sent /\ \A i \in 1..Len(queued) : queued[i].shape = 0
      <4>1. \A i \in 1..Len(queued') : queued'[i].shape = 0  BY <1>1, <1>3, <2>2, <3>3
      <4> QED  BY <3>1, <3>3, <4>1 DEF ShapeIsLast
    <3>4. CASE \E i \in 1..Len(queued) :
                 /\ queued[i].shape = cursor.sent
                 /\ \A j \in 1..Len(queued) : j > i => queued[j].shape = 0
      <4>1. PICK i \in 1..Len(queued) :
                 /\ queued[i].shape = cursor.sent
                 /\ \A j \in 1..Len(queued) : j > i => queued[j].shape = 0
        BY <3>4
      <4>2. i \in 1..Len(queued') /\ queued'[i].shape = cursor'.sent  BY <1>3, <3>1, <4>1, SMTT(30)
      <4>3. \A j \in 1..Len(queued') : j > i => queued'[j].shape = 0  BY <1>1, <1>3, <2>2, <4>1
      <4> QED  BY <4>2, <4>3, ZenonT(40) DEF ShapeIsLast
    <3> QED  BY <3>2, <3>3, <3>4, ZenonT(40) DEF ShapeIsLast
  <2> QED  BY <2>1, <2>2
<1>7. queued'[Len(queued')].pos = cursor'.pos  BY <1>1, <1>3, <1>4
<1>8. lastCursor' \in 0..2 /\ sunk' \in [pos : 0..1, shape : 0..2]
      /\ (lastCursor' # 0 => sunk'.pos = lastCursor' - 1) /\ pw' # "starting"
  BY DEF CursorIsSent
<1> QED  BY <1>3, <1>4, <1>5, <1>6, <1>7, <1>8 DEF CursorIsSent

(* A picture in the buffer that is sent, or the buffer as it was. *)
Painted(b, e) ==
  /\ e \in StreamBuffer /\ e.buf = b
  /\ b \in Buffers /\ \A i \in 1..Len(queued) : queued[i].buf # b
  /\ queued' \in Seq(StreamBuffer) /\ Len(queued) \in Nat /\ Len(queued') = Len(queued) + 1
  /\ \A i \in 1..Len(queued) : queued'[i] = queued[i]
  /\ queued'[Len(queued) + 1] = e
  /\ painted \in Nat /\ painted' \in Nat /\ painted <= painted'
  /\ memory' \in [Buffers -> PaintedPicture]
  /\ \A c \in Buffers : c # b => memory'[c] = memory[c]
  /\ e.frame => painted' = painted + 1 /\ memory'[b].n = painted' /\ memory'[b].size = negotiated
  /\ ~e.frame => memory' = memory
  /\ \A i \in 1..Len(queued) : queued[i].buf \in Buffers /\ memory'[queued[i].buf] = memory[queued[i].buf]

PaintKeeps ==
  UNCHANGED <<api, pwCmds, pw, offered, negotiated, kind, sequence, lastCursor, sunk, building, slot,
              free, bridgeClosed, held, received>>

(* What a paint step does, and that the cursor goes with the buffer. *)
LEMMA PaintFacts ==
  ASSUME StreamIInv, Paint
  PROVE  /\ pw = "running" /\ negotiated # 0 /\ PaintKeeps
         /\ CursorIsSent'
         /\ \E b, e : Painted(b, e)
<1>0. pw = "running" /\ negotiated # 0 /\ PaintKeeps
  BY DEF Paint, PaintKeeps, threadVars, bridgeVars, consumerVars
<1>1. PICK b \in FreeBuffers, frame \in BOOLEAN, pos \in 0..1, shape \in 1..2 :
       /\ pos = 0 => shape = cursor.shape
       /\ painted' = painted + (IF frame THEN 1 ELSE 0)
       /\ memory' = IF frame
                    THEN [memory EXCEPT ![b] = [n |-> painted', size |-> negotiated]]
                    ELSE memory
       /\ cursor' = [pos |-> pos, shape |-> shape,
                     sent |-> IF pos = 0 THEN cursor.sent ELSE shape]
       /\ queued' = Append(queued, [buf |-> b, frame |-> frame, pos |-> pos,
                      shape |-> IF pos = 0 \/ shape = cursor.sent THEN 0
                                ELSE shape])
  BY ZenonT(40) DEF Paint
<1>2. queued \in Seq(StreamBuffer) /\ painted \in Nat /\ memory \in [Buffers -> PaintedPicture]
      /\ negotiated \in Sizes
  BY <1>0 DEF StreamIInv, StreamShape
<1>3. b \in Buffers /\ \A i \in 1..Len(queued) : queued[i].buf # b
  BY <1>2, LenProperties DEF FreeBuffers
<1>4. CursorIsSent'
  <2>1. UNCHANGED <<api, pw, lastCursor, sunk>>  BY <1>0 DEF PaintKeeps
  <2>2. CursorIsSent  BY DEF StreamIInv
  <2> QED  BY <1>0, <1>1, <1>2, <1>3, <2>1, <2>2, CursorPainted
<1> DEFINE e == [buf |-> b, frame |-> frame, pos |-> pos,
                 shape |-> IF pos = 0 \/ shape = cursor.sent THEN 0 ELSE shape]
<1>5. e \in StreamBuffer /\ e.buf = b /\ e.frame = frame
  BY <1>3, SMTT(30) DEF StreamBuffer
<1>6. queued' = Append(queued, e)  BY <1>1
<1> HIDE DEF e
<1>7. /\ queued' \in Seq(StreamBuffer) /\ Len(queued) \in Nat /\ Len(queued') = Len(queued) + 1
      /\ \A i \in 1..Len(queued) : queued'[i] = queued[i]
      /\ queued'[Len(queued) + 1] = e
  BY <1>2, <1>5, <1>6, QueueAppend
<1>8. /\ painted' \in Nat /\ painted <= painted' /\ memory' \in [Buffers -> PaintedPicture]
      /\ \A c \in Buffers : c # b => memory'[c] = memory[c]
      /\ e.frame => painted' = painted + 1 /\ memory'[b].n = painted' /\ memory'[b].size = negotiated
      /\ ~e.frame => memory' = memory
  BY <1>1, <1>2, <1>3, <1>5, SMTT(30) DEF PaintedPicture
<1>9. \A i \in 1..Len(queued) : queued[i].buf \in Buffers /\ memory'[queued[i].buf] = memory[queued[i].buf]
  <2>1. \A i \in 1..Len(queued) : queued[i] \in StreamBuffer  BY <1>2, ElementOfSeq
  <2>2. \A i \in 1..Len(queued) : queued[i].buf \in Buffers  BY <2>1 DEF StreamBuffer
  <2> QED  BY <1>3, <1>8, <2>2
<1>10. Painted(b, e)  BY <1>2, <1>3, <1>5, <1>7, <1>8, <1>9, ZenonT(40) DEF Painted
<1> QED  BY <1>0, <1>4, <1>10

(* The frames keep their sizes: what is painted has the size negotiated. *)
LEMMA PaintSizes ==
  ASSUME StreamIInv, negotiated # 0, PaintKeeps, NEW b, NEW e, Painted(b, e)
  PROVE  SizesAgree'
<1>0. UNCHANGED <<negotiated, building, slot, held>>  BY DEF PaintKeeps
<1>1. /\ \A c \in Buffers : memory'[c] = memory[c] \/ memory'[c].size = negotiated
      /\ Len(queued) \in Nat /\ Len(queued') = Len(queued) + 1
  BY ZenonT(40) DEF Painted
<1>2. ASSUME NEW f, HasItsSize(f)
      PROVE  f # None => /\ (IF f.buf \in Buffers THEN memory'[f.buf] ELSE f.copy).size = f.size
                         /\ f.buf \in Buffers => f.size = negotiated
  BY <1>1, <1>2 DEF HasItsSize, Picture
<1>3. HasItsSize(building) /\ HasItsSize(slot) /\ HasItsSize(held)  BY DEF StreamIInv, SizesAgree
<1>4. HasItsSize(building)' /\ HasItsSize(slot)' /\ HasItsSize(held)'
  BY <1>0, <1>2, <1>3 DEF HasItsSize, Picture
<1>5. ASSUME NEW i \in 1..Len(queued'), queued'[i].frame
      PROVE  memory'[queued'[i].buf].size = negotiated
  <2>1. CASE i \in 1..Len(queued)
    <3>1. queued'[i] = queued[i] /\ memory'[queued[i].buf] = memory[queued[i].buf]  BY <2>1 DEF Painted
    <3>2. queued[i].frame => memory[queued[i].buf].size = negotiated  BY <2>1 DEF StreamIInv, SizesAgree
    <3> QED  BY <1>5, <3>1, <3>2
  <2>2. CASE i = Len(queued) + 1  BY <1>5, <2>2 DEF Painted
  <2> QED  BY <1>1, <2>1, <2>2, SMTT(30)
<1> QED  BY <1>0, <1>4, <1>5 DEF SizesAgree

(* Nothing painted is one to come. *)
LEMMA PaintedSoFar ==
  ASSUME StreamIInv, PaintKeeps, NEW b, NEW e, Painted(b, e)
  PROVE  /\ PaintedBefore'
         /\ received.n \in Nat /\ received.n <= painted
         /\ building # None => building.copy.n \in Nat /\ building.copy.n <= painted
         /\ slot # None => slot.copy.n \in Nat /\ slot.copy.n <= painted
         /\ \A c \in Buffers : memory[c].n <= painted /\ memory[c].n \in Nat
<1>1. \A c \in Buffers : memory[c].n <= painted /\ memory[c].n \in Nat
  BY DEF StreamIInv, StreamShape, PicturesGrow, PaintedBefore, PaintedPicture
<1>2. received.n \in Nat /\ received.n <= painted
  BY DEF StreamIInv, SequenceGrows, PicturesGrow, PaintedBefore
<1>3. /\ building # None => building.copy.n \in Nat /\ building.copy.n <= painted
      /\ slot # None => slot.copy.n \in Nat /\ slot.copy.n <= painted
  BY DEF StreamIInv, StreamShape, PicturesGrow, PaintedBefore, StreamFrame, PaintedPicture
<1>4. painted \in Nat /\ painted' \in Nat /\ painted <= painted'  BY DEF Painted
<1>5. \A c \in Buffers : memory'[c].n <= painted'  BY <1>1, <1>4, SMTT(30) DEF Painted
<1>6. UNCHANGED <<received, building, slot>>  BY DEF PaintKeeps
<1>7. PaintedBefore'  BY <1>2, <1>3, <1>4, <1>5, <1>6, SMTT(30) DEF PaintedBefore
<1> QED  BY <1>1, <1>2, <1>3, <1>7

(* A picture painted for a copy is newer than those that wait. *)
LEMMA PaintGrows ==
  ASSUME StreamIInv, PaintKeeps, NEW b, NEW e, Painted(b, e)
  PROVE  QueueGrows' /\ CopiesGrow'
<1>0. UNCHANGED <<kind, building, slot, received>>  BY DEF PaintKeeps
<1>1. /\ received.n \in Nat /\ received.n <= painted
      /\ building # None => building.copy.n \in Nat /\ building.copy.n <= painted
      /\ slot # None => slot.copy.n \in Nat /\ slot.copy.n <= painted
      /\ \A c \in Buffers : memory[c].n <= painted /\ memory[c].n \in Nat
  BY PaintedSoFar
<1>2. \A i \in 1..Len(queued') : i \in 1..Len(queued) \/ i = Len(queued) + 1  BY SMTT(30) DEF Painted
<1>3. \A i, j \in 1..Len(queued') : i < j => i \in 1..Len(queued) /\ queued'[i] = queued[i]
  BY SMTT(30) DEF Painted
<1>4. ASSUME NEW i \in 1..Len(queued'), NEW j \in 1..Len(queued'), i < j
      PROVE  queued'[i].buf # queued'[j].buf
  <2>1. i \in 1..Len(queued) /\ queued'[i] = queued[i]  BY <1>3, <1>4
  <2>2. CASE j \in 1..Len(queued)
    BY <1>4, <2>1, <2>2, SMTT(30) DEF Painted, StreamIInv, PicturesGrow, QueueGrows
  <2>3. CASE j = Len(queued) + 1  BY <2>1, <2>3 DEF Painted
  <2> QED  BY <1>2, <2>2, <2>3
<1>5. ASSUME kind = "shm", slot # None
      PROVE  /\ Picture(slot)' = Picture(slot) /\ slot.buf \notin Buffers
             /\ Picture(slot).n <= painted /\ Picture(slot).n \in Nat
  <2>1. slot.buf \notin Buffers  BY <1>5 DEF StreamIInv, PicturesGrow, QueueGrows
  <2> QED  BY <1>0, <1>1, <1>5, <2>1 DEF Picture
<1>6. ASSUME kind = "shm", NEW i \in 1..Len(queued'), queued'[i].frame
      PROVE  /\ received.n < memory'[queued'[i].buf].n
             /\ slot # None => Picture(slot).n < memory'[queued'[i].buf].n
             /\ building # None => building.copy.n < memory'[queued'[i].buf].n
  <2>1. CASE i \in 1..Len(queued)
    BY <1>6, <2>1, ZenonT(40) DEF Painted, StreamIInv, PicturesGrow, QueueGrows
  <2>2. CASE i = Len(queued) + 1
    <3>1. memory'[queued'[i].buf].n = painted + 1 /\ painted \in Nat  BY <1>6, <2>2 DEF Painted
    <3> QED  BY <1>1, <1>5, <1>6, <3>1, SMTT(30)
  <2> QED  BY <1>2, <2>1, <2>2
<1>7. ASSUME kind = "shm", NEW i \in 1..Len(queued'), NEW j \in 1..Len(queued'),
             i < j, queued'[i].frame, queued'[j].frame
      PROVE  memory'[queued'[i].buf].n < memory'[queued'[j].buf].n
  <2>1. i \in 1..Len(queued) /\ queued'[i] = queued[i]  BY <1>3, <1>7
  <2>2. CASE j \in 1..Len(queued)
    BY <1>7, <2>1, <2>2, SMTT(30) DEF Painted, StreamIInv, PicturesGrow, QueueGrows
  <2>3. CASE j = Len(queued) + 1
    <3>1. memory'[queued'[j].buf].n = painted + 1 /\ painted \in Nat  BY <1>7, <2>3 DEF Painted
    <3>2. memory'[queued'[i].buf].n <= painted /\ memory'[queued'[i].buf].n \in Nat
      BY <1>1, <2>1 DEF Painted
    <3> QED  BY <3>1, <3>2, SMTT(30)
  <2> QED  BY <1>2, <2>2, <2>3
<1>8. building # None => (building.buf = 0 <=> kind = "shm")  BY ZenonT(40) DEF StreamIInv, PicturesGrow, QueueGrows
<1>9. QueueGrows'  BY <1>0, <1>4, <1>5, <1>6, <1>7, <1>8, ZenonT(40) DEF QueueGrows
<1>10. CopiesGrow'  BY <1>0, <1>5, <1>8 DEF StreamIInv, PicturesGrow, CopiesGrow
<1> QED  BY <1>9, <1>10

(* The compositor paints into a buffer and sends it. *)
LEMMA PaintInv ==
  ASSUME StreamIInv, Paint
  PROVE  StreamIInv'
<1>0. pw = "running" /\ negotiated # 0 /\ PaintKeeps /\ CursorIsSent'  BY PaintFacts
<1>1. PICK b, e : Painted(b, e)  BY PaintFacts
<1>2. StreamShape'  BY <1>0, <1>1 DEF StreamIInv, StreamShape, PaintKeeps, Painted
<1>3. SizesAgree'  BY <1>0, <1>1, PaintSizes
<1>4. BuffersAreReused'  BY <1>0 DEF StreamIInv, BuffersAreReused, Copies, PaintKeeps
<1>5. SequenceGrows'  BY <1>0 DEF StreamIInv, SequenceGrows, PaintKeeps
<1>6. PaintedBefore'  BY <1>0, <1>1, PaintedSoFar
<1>7. QueueGrows' /\ CopiesGrow'  BY <1>0, <1>1, PaintGrows
<1> QED  BY <1>0, <1>2, <1>3, <1>4, <1>5, <1>6, <1>7 DEF StreamIInv, PicturesGrow

(* Steps of the session leave the stream alone. *)
LEMMA StreamKept == ASSUME StreamIInv, UNCHANGED pipewireVars PROVE StreamIInv'
<1>0. UNCHANGED <<api, pw, pwCmds, offered, negotiated, kind, memory, queued, painted, cursor,
                  sequence, lastCursor, building, sunk, slot, free, bridgeClosed, held, received>>
  BY DEF pipewireVars, compositorVars, threadVars, bridgeVars, consumerVars
<1>1. StreamShape'  BY <1>0 DEF StreamIInv, StreamShape
<1>2. SizesAgree'  BY <1>0, SizesKept DEF StreamIInv
<1>3. BuffersAreReused'  BY <1>0 DEF StreamIInv, BuffersAreReused, Copies
<1>4. CursorIsSent'  BY <1>0 DEF StreamIInv, CursorIsSent, ShapeIsLast
<1>5. SequenceGrows' /\ PicturesGrow'  BY <1>0, OrderKept DEF StreamIInv
<1> QED  BY <1>1, <1>2, <1>3, <1>4, <1>5 DEF StreamIInv

(* A capture starts without a stream. *)
LEMMA StreamInitInv == ASSUME LinuxInit PROVE StreamIInv
<1>1. StreamShape
  <2>1. Black \in PaintedPicture  BY DEF Black, PaintedPicture
  <2> QED  BY <2>1, StreamAssumption, EmptySeq, SMTT(30) DEF LinuxInit, PipewireInit, StreamShape
<1>2. Len(queued) = 0 /\ queued = <<>>  BY EmptySeq DEF LinuxInit, PipewireInit
<1>3. SizesAgree /\ BuffersAreReused
  BY <1>2, SMTT(30) DEF LinuxInit, PipewireInit, SizesAgree, HasItsSize, BuffersAreReused, Copies
<1>4. CursorIsSent  BY SMTT(30) DEF LinuxInit, PipewireInit, CursorIsSent
<1>5. SequenceGrows  BY SMTT(30) DEF LinuxInit, PipewireInit, SequenceGrows
<1>6. PaintedBefore /\ CopiesGrow
  BY SMTT(30) DEF LinuxInit, PipewireInit, PaintedBefore, CopiesGrow, Black
<1>7. QueueGrows  BY <1>2, SMTT(30) DEF LinuxInit, PipewireInit, QueueGrows
<1> QED  BY <1>1, <1>3, <1>4, <1>5, <1>6, <1>7 DEF StreamIInv, PicturesGrow

(* Every step of a capture keeps the stream's invariant. *)
LEMMA StreamNextInv == ASSUME StreamIInv, [LinuxNext]_linuxVars PROVE StreamIInv'
<1>1. CASE UNCHANGED pipewireVars  BY <1>1, StreamKept
<1>2. CASE Spawn(StreamSize)  BY <1>2, SpawnInv
<1>3. CASE RequestSize \/ SendQuit \/ SetSize  BY <1>3, CommandsInv
<1>4. CASE PipewireJoined  BY <1>4, PipewireJoinedInv
<1>5. CASE Recv  BY <1>5, RecvInv
<1>6. CASE Release  BY <1>6, ReleaseInv
<1>7. CASE StreamConnects  BY <1>7, StreamConnectsInv
<1>8. CASE Quit  BY <1>8, QuitInv
<1>9. CASE ProcessBuffer  BY <1>9, ProcessInv
<1>10. CASE Push  BY <1>10, PushInv
<1>11. CASE ParamChanged  BY <1>11, ParamChangedInv
<1>12. CASE Paint  BY <1>12, PaintInv
<1>13. CASE PipewireStep
  BY <1>3, <1>7, <1>8, <1>9, <1>10, <1>11, <1>12, <1>13 DEF PipewireStep, PipewireThread
<1>14. \/ UNCHANGED pipewireVars \/ Spawn(StreamSize) \/ SendQuit \/ PipewireJoined \/ PipewireStep
       \/ Recv \/ Release \/ RequestSize
  <2>1. CASE LinuxNext
    BY <2>1 DEF LinuxNext, CaptureNext, Mutter, Session, StartCapture, SessionCloses, DropSession,
       Lose, StopCapture, Stream
  <2>2. CASE UNCHANGED linuxVars  BY <2>2 DEF linuxVars
  <2> QED  BY <2>1, <2>2
<1> QED  BY <1>1, <1>2, <1>3, <1>4, <1>5, <1>6, <1>13, <1>14

(* The inductive invariant of the stream, its bridge and its consumer. *)
THEOREM StreamInvariant == LinuxSpec => []StreamIInv
<1>1. LinuxInit => StreamIInv  BY StreamInitInv
<1>2. StreamIInv /\ [LinuxNext]_linuxVars => StreamIInv'  BY StreamNextInv
<1> QED  BY <1>1, <1>2, PTL DEF LinuxSpec

(* A frame is what it says it is, the bridge stays small, and the cursor is  *)
(* the compositor's: for every set of sizes and of buffers, and any number   *)
(* of pictures and captures.                                                 *)
THEOREM PipewireIsSafe == LinuxSpec => []PipewireSafe
<1>1. ASSUME StreamIInv  PROVE PipewireSafe
  <2>1. PipewireTypeOK
    BY <1>1 DEF StreamIInv, StreamShape, PipewireTypeOK, StreamFrame
  <2>2. FrameSizeIsItsPictures
    BY <1>1, SMTT(30) DEF StreamIInv, SizesAgree, HasItsSize, FrameSizeIsItsPictures
  <2>3. BuffersAreReused  BY <1>1 DEF StreamIInv
  <2>4. CursorFollows
    <3>1. SUFFICES ASSUME pw = "running", queued = <<>>, api # "portal", cursor.sent # 0
                   PROVE  sunk.pos = cursor.pos /\ (cursor.pos # 0 => sunk.shape = cursor.shape)
      BY DEF CursorFollows
    <3>2. CursorIsSent /\ Len(queued) = 0  BY <1>1, <3>1, EmptySeq DEF StreamIInv
    <3> QED  BY <3>1, <3>2, SMTT(30) DEF CursorIsSent, ShapeIsLast
  <2> QED  BY <2>1, <2>2, <2>3, <2>4 DEF PipewireSafe
<1> QED  BY <1>1, StreamInvariant, PTL

(* What the consumer takes is always newer than what it took before: its     *)
(* sequence number and, for a copied frame, its picture.                     *)
THEOREM FramesAlwaysAdvance == LinuxSpec => FramesAdvance
<1> DEFINE Advances == held = None /\ held' # None
                         => /\ received'.seq > received.seq
                            /\ received'.n > received.n \/ held'.buf # 0
<1>1. ASSUME StreamIInv, [LinuxNext]_linuxVars  PROVE [Advances]_pipewireVars
  <2>1. SUFFICES ASSUME held = None, held' # None
                 PROVE  /\ received'.seq > received.seq
                        /\ received'.n > received.n \/ held'.buf # 0
    OBVIOUS
  <2>2. Kept(None) = None  BY DEF Kept, None
  <2>3. Recv
    <3>1. UNCHANGED pipewireVars => held' = held  BY DEF pipewireVars, consumerVars
    <3>2. StartCapture => held' = held  BY DEF StartCapture, Spawn
    <3>3. SendQuit \/ PipewireJoined \/ RequestSize => held' = held
      BY DEF SendQuit, PipewireJoined, RequestSize, consumerVars
    <3>4. Release => held' = None  BY DEF Release
    <3>5. PipewireStep => held' = held
      BY <2>1, <2>2 DEF PipewireStep, PipewireThread, StreamConnects, Exits, SetSize, Quit, ProcessBuffer,
         Push, ParamChanged, Paint, consumerVars
    <3>6. LinuxNext => Recv
      BY <2>1, <3>1, <3>2, <3>3, <3>4, <3>5 DEF LinuxNext, CaptureNext, Mutter, Session, SessionCloses,
         DropSession, Lose, StopCapture, Stream
    <3>7. UNCHANGED linuxVars => held' = held  BY <3>1 DEF linuxVars
    <3> QED  BY <1>1, <2>1, <3>6, <3>7
  <2>4. slot # None /\ held' = slot /\ received' = [n |-> Picture(slot).n, seq |-> slot.seq]
    BY <2>3 DEF Recv
  <2>5. received.seq < slot.seq /\ (slot.buf = 0 => received.n < slot.copy.n)
    BY <1>1, <2>4 DEF StreamIInv, SequenceGrows, PicturesGrow, CopiesGrow
  <2>6. received.seq \in Nat /\ received.n \in Nat /\ slot.seq \in Nat /\ slot.copy.n \in Nat
    BY <1>1, <2>4 DEF StreamIInv, SequenceGrows, StreamShape, StreamFrame, PaintedPicture
  <2>7. slot.buf = 0 => Picture(slot) = slot.copy  BY StreamAssumption DEF Picture
  <2> QED  BY <2>4, <2>5, <2>6, <2>7
<1>2. LinuxSpec => [][Advances]_pipewireVars
  BY <1>1, StreamInvariant, PTL DEF LinuxSpec
<1> QED  BY <1>2 DEF FramesAdvance

-----------------------------------------------------------------------------
(* The session.                                                            *)

BeforeLoop == {"connect", "enable", "node"}
Write == [asked : Nat, text : Nat, pipe : BOOLEAN]

(* The fields of the session; before its loop and once it is gone it has no  *)
(* queues, tasks or texts.                                                   *)
SessionShape ==
  /\ session \in 0..MaxSessions
  /\ owner \in {"none", "starting", "up", "dropping"}
  /\ task \in BeforeLoop \cup {"loop", "ended", "runtime", "gone"}
  /\ owner = "none" => task = "gone"
  /\ owner = "starting" <=> task \in BeforeLoop
  /\ task # "gone" => session > 0
  /\ attached \in 0..session /\ forwarders \subseteq 1..session
  /\ task \in BeforeLoop => attached # session
  /\ overtaken \in BOOLEAN /\ missed \in BOOLEAN /\ clipboardOn \in BOOLEAN

(* The queues and the texts in them. *)
QueueShape ==
  /\ texts \in Nat
  /\ cmds \in Seq({ShutdownCmd, InputCmd} \cup 1..texts)
  /\ changes \in Seq({"own", "text", "other"})
  /\ transfers \in Seq(Nat)
  /\ reads \in Seq(0..texts) /\ writes \in Seq(Write)
  /\ pending \in 0..texts /\ last \in 0..texts
  /\ task \in BeforeLoop \cup {"gone"} =>
       /\ cmds = <<>> /\ transfers = <<>> /\ reads = <<>> /\ writes = <<>>
       /\ pending = 0 /\ last = 0 /\ ~overtaken
  /\ task = "gone" => changes = <<>>

(* Mutter has the session as long as its thread does, or as an orphan; the   *)
(* host's clipboard is of a session Mutter has.                              *)
RemoteShape ==
  /\ orphans \subseteq remote /\ remote \subseteq 1..session
  /\ remote \ orphans \subseteq {session}
  /\ task \in {"gone", "runtime", "connect"} => remote \subseteq orphans
  /\ task \notin {"gone", "runtime"} => session \notin orphans
  /\ selection \in [own : 0..session, text : 0..texts]
  /\ selection.own \in remote \cup {0}
  /\ task \in BeforeLoop => selection.own # session

(* The clipboard is being followed. *)
Following ==
  \/ task = "connect"
  \/ task \in {"enable", "node", "loop"} /\ session \in remote

NoTextAhead == changes = <<>> \/ changes[Len(changes)] # "text"

(* What was seen last is what the clipboard has, will be when the read in    *)
(* progress is done, or is about to be read.                                 *)
ClipboardFollowed ==
  Following /\ ~overtaken =>
    /\ Len(reads) <= 1
    /\ selection.own = session =>
         selection.text = last /\ \A i \in 1..Len(reads) : reads[i] = 0
    /\ ~missed /\ NoTextAhead =>
         /\ reads = <<>> => selection.text \in {0, last}
         /\ reads # <<>> /\ reads[1] # 0 => selection.text \in {0, reads[1]}

(* The texts of the client come in order, and the pending one is no older    *)
(* than any that was announced.                                              *)
TextsInOrder ==
  /\ \A i \in 1..Len(cmds) : cmds[i] > 0 => pending < cmds[i]
  /\ \A i, j \in 1..Len(cmds) : i < j /\ cmds[i] > 0 /\ cmds[j] > 0 => cmds[i] < cmds[j]
  /\ selection.own = session /\ task # "gone" => selection.text <= pending
  /\ \A i \in 1..Len(transfers) : transfers[i] <= pending
  /\ \A i \in 1..Len(writes) : writes[i].asked <= writes[i].text

ClipboardIInv ==
  SessionShape /\ QueueShape /\ RemoteShape /\ ClipboardFollowed /\ TextsInOrder

(* Where the stream is looked at, the session's thread is not. *)
SessionIInv ==
  ClipboardIInv /\ (part = "capture" => task = "gone" /\ remote = {})


(* A queue without one of its elements. *)
LEMMA WithoutFacts ==
  ASSUME NEW S, NEW q \in Seq(S), NEW i \in 1..Len(q)
  PROVE  /\ Without(q, i) \in Seq(S) /\ Len(Without(q, i)) = Len(q) - 1
         /\ Len(q) = 1 => Without(q, i) = <<>>
         /\ \A j \in 1..Len(Without(q, i)) : \E k \in 1..Len(q) : Without(q, i)[j] = q[k]
<1>1. Len(q) \in Nat \ {0} /\ \A k \in 1..Len(q) : q[k] \in S
  BY LenProperties, ElementOfSeq, SMTT(30)
<1> DEFINE n == Len(q) - 1
           at(j) == IF j < i THEN j ELSE j + 1
<1>2. n \in Nat /\ \A j \in 1..n : at(j) \in 1..Len(q)  BY <1>1, SMTT(30)
<1>3. Without(q, i) = [j \in 1..n |-> q[at(j)]]  BY DEF Without
<1>4. Without(q, i) \in [1..n -> S]  BY <1>1, <1>2, <1>3
<1>5. Without(q, i) \in Seq(S) /\ Len(Without(q, i)) = n
  BY <1>2, <1>4, SeqDef, LenProperties, SMTT(30)
<1>6. \A j \in 1..n : Without(q, i)[j] = q[at(j)]  BY <1>3
<1>7. Len(q) = 1 => Without(q, i) = <<>>  BY <1>5, EmptySeq, SMTT(30)
<1> QED  BY <1>2, <1>5, <1>6, <1>7

(* A queue of some texts is one of more texts. *)
LEMMA SeqGrows ==
  ASSUME NEW S, NEW T, S \subseteq T, NEW q \in Seq(S)
  PROVE  q \in Seq(T)
  BY SeqDef, SMTT(30)

(* Nothing that the clipboard is followed by has changed. *)
LEMMA FollowedKept ==
  ASSUME ClipboardFollowed, Following' => Following,
         UNCHANGED <<session, changes, selection, last, reads, overtaken, missed>>
  PROVE  ClipboardFollowed'
  BY DEF ClipboardFollowed, NoTextAhead

(* A step of the thread's loop or of a task, or the end of the loop. *)
LEMMA LoopStep ==
  ASSUME SessionShape, RemoteShape, task \in {"loop", "ended"}, task' \in {"loop", "ended"},
         UNCHANGED <<session, owner, attached, forwarders, clipboardOn, remote, orphans, selection, texts>>,
         overtaken' \in BOOLEAN, missed' \in BOOLEAN
  PROVE  SessionShape' /\ RemoteShape'
<1>1. SessionShape'  BY DEF SessionShape, BeforeLoop
<1>2. RemoteShape'  BY DEF RemoteShape, BeforeLoop
<1> QED  BY <1>1, <1>2

(* MutterSession::start *)
LEMMA StartSessionInv ==
  ASSUME ClipboardIInv, StartSession
  PROVE  ClipboardIInv'
<1>0. /\ owner = "none" /\ session < MaxSessions /\ session' = session + 1
      /\ owner' = "starting" /\ task' = "connect" /\ clipboardOn' = FALSE
      /\ missed' = (selection.text # 0)
      /\ UNCHANGED <<cmds, remote, orphans, changes, transfers, selection, pending, last, reads,
                     writes, texts, overtaken, attached, forwarders>>
  BY DEF StartSession, sinkVars
<1>1. task = "gone" /\ session \in Nat /\ attached <= session /\ attached \in Nat
      /\ forwarders \subseteq 1..session
  BY <1>0, SessionsAssumption, SMTT(30) DEF ClipboardIInv, SessionShape
<1>2. missed' \in BOOLEAN  BY <1>0
<1>3. 1..session \subseteq 1..session' /\ session' > 0 /\ session' \in 0..MaxSessions
      /\ attached \in 0..session' /\ attached # session'
  BY <1>0, <1>1, SessionsAssumption, SMTT(30)
<1>4. SessionShape'
  BY <1>0, <1>1, <1>2, <1>3 DEF ClipboardIInv, SessionShape, BeforeLoop
<1>5. QueueShape'
  BY <1>0, <1>1 DEF ClipboardIInv, QueueShape, BeforeLoop
<1>6. RemoteShape'
  <2>1. remote \subseteq orphans /\ orphans \subseteq remote /\ remote \subseteq 1..session
        /\ session' \notin remote
    BY <1>0, <1>1, SMTT(30) DEF ClipboardIInv, RemoteShape
  <2>2. selection \in [own : 0..session, text : 0..texts] /\ selection.own \in remote \cup {0}
    BY DEF ClipboardIInv, RemoteShape
  <2>3. selection \in [own : 0..session', text : 0..texts] /\ selection.own # session'
    BY <1>1, <1>0, <2>1, <2>2, SMTT(30)
  <2> QED  BY <1>0, <1>3, <2>1, <2>2, <2>3 DEF RemoteShape
<1>7. ClipboardFollowed'
  <2>1. reads = <<>> /\ changes = <<>> /\ last = 0 /\ Len(reads) = 0
    BY <1>1, EmptySeq DEF ClipboardIInv, QueueShape
  <2>2. selection.own # session'  BY <1>0, <1>6 DEF RemoteShape, BeforeLoop
  <2>3. ~missed' => selection'.text = 0  BY <1>0
  <2>4. reads' = <<>> /\ Len(reads') = 0 /\ selection'.own # session'  BY <1>0, <2>1, <2>2
  <2> QED  BY <2>3, <2>4, SMTT(30) DEF ClipboardFollowed
<1>8. TextsInOrder'
  <2>1. selection.own # session'  BY <1>0, <1>6 DEF RemoteShape, BeforeLoop
  <2> QED  BY <1>0, <2>1 DEF ClipboardIInv, TextsInOrder
<1> QED  BY <1>4, <1>5, <1>6, <1>7, <1>8 DEF ClipboardIInv

(* The handshake of a session, or its failure. *)
LEMMA HandshakingInv ==
  ASSUME ClipboardIInv, Handshaking
  PROVE  ClipboardIInv'
<1>0. UNCHANGED <<session, cmds, transfers, selection, pending, last, reads, writes, texts,
                  overtaken, missed, attached, forwarders>>
  BY DEF Handshaking, sinkVars
<1>1. CASE Handshake /\ UNCHANGED <<orphans, changes>>
  <2>1. \/ /\ task = "connect" /\ task' = "enable" /\ remote' = remote \cup {session}
           /\ UNCHANGED <<owner, clipboardOn>>
        \/ /\ task = "enable" /\ task' = "node" /\ UNCHANGED <<owner, remote>>
           /\ clipboardOn' \in {FALSE, (session \in remote)}
        \/ /\ task = "node" /\ task' = "loop" /\ owner' = "up"
           /\ UNCHANGED <<remote, clipboardOn>>
    BY <1>1 DEF Handshake
  <2>2. task \in BeforeLoop /\ session \in 1..session
    <3>1. task \in BeforeLoop /\ task # "gone"  BY <2>1 DEF BeforeLoop
    <3>2. session > 0 /\ session \in 0..MaxSessions  BY <3>1 DEF ClipboardIInv, SessionShape
    <3> QED  BY <3>1, <3>2, SessionsAssumption, SMTT(30)
  <2>3. clipboardOn' \in BOOLEAN
    <3>1. clipboardOn \in BOOLEAN  BY DEF ClipboardIInv, SessionShape
    <3>2. (session \in remote) \in BOOLEAN  BY SMTT(30)
    <3>3. clipboardOn' \in {clipboardOn, FALSE, (session \in remote)}  BY <2>1
    <3> QED  BY <3>1, <3>2, <3>3
  <2>4. SessionShape'  BY <1>0, <2>1, <2>3 DEF ClipboardIInv, SessionShape, BeforeLoop
  <2>5. QueueShape'  BY <1>0, <1>1, <2>1, <2>2 DEF ClipboardIInv, QueueShape, BeforeLoop
  <2>6. RemoteShape'  BY <1>0, <1>1, <2>1, <2>2 DEF ClipboardIInv, RemoteShape, BeforeLoop
  <2>7. Following' => Following  BY <1>0, <2>1 DEF Following
  <2>8. ClipboardFollowed'  BY <1>0, <1>1, <2>7, FollowedKept DEF ClipboardIInv
  <2>9. TextsInOrder'  BY <1>0, <2>1 DEF ClipboardIInv, TextsInOrder
  <2> QED  BY <2>4, <2>5, <2>6, <2>8, <2>9 DEF ClipboardIInv
<1>2. CASE HandshakeFails
  <2>1. /\ task \in BeforeLoop /\ task' = "gone" /\ owner' = "none" /\ changes' = <<>>
        /\ remote' \in {remote, remote \cup {session}}
        /\ orphans' = orphans \cup (remote' \cap {session})
        /\ clipboardOn' = clipboardOn
    BY <1>2 DEF HandshakeFails, BeforeLoop
  <2>2. session \in 1..session  BY <2>1, SMTT(30) DEF ClipboardIInv, SessionShape, BeforeLoop
  <2>3. SessionShape'  BY <1>0, <2>1 DEF ClipboardIInv, SessionShape, BeforeLoop
  <2>4. QueueShape'  BY <1>0, <2>1, SMTT(30) DEF ClipboardIInv, QueueShape
  <2>5. RemoteShape'  BY <1>0, <2>1, <2>2 DEF ClipboardIInv, RemoteShape, BeforeLoop
  <2>6. ClipboardFollowed'  BY <2>1 DEF ClipboardFollowed, Following
  <2>7. TextsInOrder'  BY <1>0, <2>1 DEF ClipboardIInv, TextsInOrder
  <2> QED  BY <2>3, <2>4, <2>5, <2>6, <2>7 DEF ClipboardIInv
<1> QED  BY <1>1, <1>2 DEF Handshaking

(* The capture loop attaches the sinks to a session, and gives it up. *)
LEMMA OwnerInv ==
  ASSUME ClipboardIInv, Attach \/ ThreadJoined \/ Forward
  PROVE  ClipboardIInv'
<1>0. UNCHANGED <<session, task, cmds, remote, orphans, clipboardOn, changes, transfers, selection,
                  pending, last, reads, writes, texts, overtaken, missed>>
  BY DEF Attach, ThreadJoined, Forward, loopVars, clipVars
<1>1. SessionShape'
  <2>1. CASE Attach
    <3>1. owner = "up" /\ owner' = owner /\ attached' = session /\ forwarders' = forwarders \cup {session}
      BY <2>1 DEF Attach, loopVars
    <3>2. session > 0 /\ session \in Nat /\ task \notin BeforeLoop
      <4>1. attached # session /\ attached \in 0..session /\ session \in 0..MaxSessions
        BY <2>1 DEF Attach, ClipboardIInv, SessionShape
      <4> QED  BY <3>1, <4>1, SessionsAssumption, SMTT(30) DEF ClipboardIInv, SessionShape
    <3> QED  BY <1>0, <3>1, <3>2, SMTT(30) DEF ClipboardIInv, SessionShape
  <2>2. CASE ThreadJoined
    <3>1. owner = "dropping" /\ task = "gone" /\ owner' = "none" /\ UNCHANGED <<attached, forwarders>>
      BY <2>2 DEF ThreadJoined, sinkVars
    <3> QED  BY <1>0, <3>1 DEF ClipboardIInv, SessionShape, BeforeLoop
  <2>3. CASE Forward
    <3>1. UNCHANGED <<owner, attached>> /\ forwarders' \subseteq forwarders
      BY <2>3 DEF Forward, loopVars
    <3> QED  BY <1>0, <3>1 DEF ClipboardIInv, SessionShape
  <2> QED  BY <2>1, <2>2, <2>3
<1>2. QueueShape'  BY <1>0 DEF ClipboardIInv, QueueShape
<1>3. RemoteShape'  BY <1>0 DEF ClipboardIInv, RemoteShape
<1>4. Following' => Following  BY <1>0 DEF Following
<1>5. ClipboardFollowed'  BY <1>0, <1>4, FollowedKept DEF ClipboardIInv
<1>6. TextsInOrder'  BY <1>0 DEF ClipboardIInv, TextsInOrder
<1> QED  BY <1>1, <1>2, <1>3, <1>5, <1>6 DEF ClipboardIInv

(* A command behind those that wait. *)
LEMMA CmdsAppend ==
  ASSUME NEW S, cmds \in Seq(S), NEW c \in S, cmds' = Append(cmds, c)
  PROVE  /\ cmds' \in Seq(S)
         /\ Len(cmds) \in Nat /\ Len(cmds') = Len(cmds) + 1
         /\ \A i \in 1..Len(cmds) : cmds'[i] = cmds[i] /\ cmds[i] \in S
         /\ cmds'[Len(cmds) + 1] = c
         /\ \A i \in 1..Len(cmds') : i \in 1..Len(cmds) \/ i = Len(cmds) + 1
<1>1. Len(cmds) \in Nat  BY LenProperties
<1>2. cmds' \in Seq(S) /\ Len(cmds') = Len(cmds) + 1
      /\ (\A i \in 1..Len(cmds) : cmds'[i] = cmds[i]) /\ cmds'[Len(cmds) + 1] = c
  BY AppendProperties, SMTT(30)
<1> QED  BY <1>1, <1>2, ElementOfSeq, SMTT(30)

(* Drop: the session is given up, and its thread told. *)
LEMMA DropInv ==
  ASSUME ClipboardIInv, Drop
  PROVE  ClipboardIInv'
<1>0. /\ owner = "up" /\ owner' = "dropping"
      /\ cmds' = IF task = "gone" THEN cmds ELSE Append(cmds, ShutdownCmd)
      /\ UNCHANGED <<session, task, remote, orphans, clipboardOn, changes, transfers, selection,
                     pending, last, reads, writes, texts, overtaken, missed, attached, forwarders>>
  BY DEF Drop, clipVars, sinkVars
<1>1. SessionShape'  BY <1>0 DEF ClipboardIInv, SessionShape, BeforeLoop
<1>2. task \notin BeforeLoop  BY <1>0 DEF ClipboardIInv, SessionShape
<1>3. RemoteShape'  BY <1>0 DEF ClipboardIInv, RemoteShape
<1>4. Following' => Following  BY <1>0 DEF Following
<1>5. ClipboardFollowed'  BY <1>0, <1>4, FollowedKept DEF ClipboardIInv
<1>6. CASE task = "gone"
  <2>1. QueueShape' /\ TextsInOrder'  BY <1>0, <1>6 DEF ClipboardIInv, QueueShape, TextsInOrder
  <2> QED  BY <1>1, <1>3, <1>5, <2>1 DEF ClipboardIInv
<1>7. CASE task # "gone"
  <2> DEFINE S == {ShutdownCmd, InputCmd} \cup 1..texts
  <2>1. cmds \in Seq(S) /\ ShutdownCmd \in S /\ cmds' = Append(cmds, ShutdownCmd)
    BY <1>0, <1>7 DEF ClipboardIInv, QueueShape
  <2> HIDE DEF S
  <2>2. /\ cmds' \in Seq(S)
        /\ Len(cmds) \in Nat /\ Len(cmds') = Len(cmds) + 1
        /\ \A i \in 1..Len(cmds) : cmds'[i] = cmds[i] /\ cmds[i] \in S
        /\ cmds'[Len(cmds) + 1] = ShutdownCmd
        /\ \A i \in 1..Len(cmds') : i \in 1..Len(cmds) \/ i = Len(cmds) + 1
    BY <2>1, CmdsAppend
  <2>3. QueueShape'  BY <1>0, <1>2, <1>7, <2>2 DEF ClipboardIInv, QueueShape, S
  <2>4. \A i \in 1..Len(cmds') : cmds'[i] > 0 => i \in 1..Len(cmds)
    BY <2>2, SMTT(30) DEF ShutdownCmd
  <2>5. TextsInOrder'
    <3>1. \A i \in 1..Len(cmds') : cmds'[i] > 0 => pending < cmds'[i]
      BY <2>2, <2>4 DEF ClipboardIInv, TextsInOrder
    <3>2. \A i, j \in 1..Len(cmds') : i < j /\ cmds'[i] > 0 /\ cmds'[j] > 0 => cmds'[i] < cmds'[j]
      BY <2>2, <2>4 DEF ClipboardIInv, TextsInOrder
    <3> QED  BY <1>0, <3>1, <3>2 DEF ClipboardIInv, TextsInOrder
  <2> QED  BY <1>1, <1>3, <1>5, <2>3, <2>5 DEF ClipboardIInv
<1> QED  BY <1>6, <1>7

(* Input and texts of the client go behind the commands that wait. *)
LEMMA ClientInv ==
  ASSUME ClipboardIInv, Client
  PROVE  ClipboardIInv'
<1>0. /\ attached = session /\ session > 0 /\ texts \in Nat
      /\ \E c : /\ (c = InputCmd /\ texts' = texts) \/ (c = texts + 1 /\ texts' = texts + 1)
                /\ cmds' \in {cmds, Append(cmds, c)}
                /\ task = "gone" => cmds' = cmds
      /\ UNCHANGED <<session, owner, task, remote, orphans, clipboardOn, changes, transfers,
                     selection, pending, last, reads, writes, overtaken, missed, attached, forwarders>>
  BY DEF Client, SendInput, SendText, Send, sinkVars, ClipboardIInv, QueueShape
<1>1. PICK c : /\ (c = InputCmd /\ texts' = texts) \/ (c = texts + 1 /\ texts' = texts + 1)
               /\ cmds' \in {cmds, Append(cmds, c)}
               /\ task = "gone" => cmds' = cmds
  BY <1>0
<1>2. SessionShape'  BY <1>0 DEF ClipboardIInv, SessionShape
<1>3. task \notin BeforeLoop  BY <1>0 DEF ClipboardIInv, SessionShape
<1>4. 0..texts \subseteq 0..texts' /\ 1..texts \subseteq 1..texts' /\ texts' \in Nat  BY <1>0, <1>1, SMTT(30)
<1>5. RemoteShape'
  <2>1. selection \in [own : 0..session, text : 0..texts']  BY <1>4 DEF ClipboardIInv, RemoteShape
  <2> QED  BY <1>0, <2>1 DEF ClipboardIInv, RemoteShape
<1>6. Following' => Following  BY <1>0 DEF Following
<1>7. ClipboardFollowed'  BY <1>0, <1>6, FollowedKept DEF ClipboardIInv
<1> DEFINE S == {ShutdownCmd, InputCmd} \cup 1..texts
           T == {ShutdownCmd, InputCmd} \cup 1..texts'
<1>8. cmds \in Seq(S) /\ cmds \in Seq(T) /\ reads \in Seq(0..texts') /\ c \in T
  <2>1. cmds \in Seq(S) /\ reads \in Seq(0..texts)  BY DEF ClipboardIInv, QueueShape
  <2>2. S \subseteq T  BY <1>4
  <2>3. c \in T  BY <1>0, <1>1, SMTT(30)
  <2> QED  BY <1>4, <2>1, <2>2, <2>3, SeqGrows
<1>9. \A i \in 1..Len(cmds) : cmds[i] \in S  BY <1>8, ElementOfSeq
<1>10. CASE cmds' = cmds
  <2>1. QueueShape'  BY <1>0, <1>3, <1>4, <1>8, <1>10 DEF ClipboardIInv, QueueShape
  <2>2. TextsInOrder'  BY <1>0, <1>10 DEF ClipboardIInv, TextsInOrder
  <2> QED  BY <1>2, <1>5, <1>7, <2>1, <2>2 DEF ClipboardIInv
<1>11. CASE cmds' = Append(cmds, c) /\ task # "gone"
  <2>1. \A i \in 1..Len(cmds) : cmds[i] > 0 => cmds[i] < texts + 1
    BY <1>0, <1>9, SMTT(30) DEF InputCmd, ShutdownCmd
  <2>2. c > 0 => c = texts + 1  BY <1>1, SMTT(30) DEF InputCmd
  <2> HIDE DEF T, S
  <2>3. /\ cmds' \in Seq(T)
        /\ Len(cmds) \in Nat /\ Len(cmds') = Len(cmds) + 1
        /\ \A i \in 1..Len(cmds) : cmds'[i] = cmds[i] /\ cmds[i] \in T
        /\ cmds'[Len(cmds) + 1] = c
        /\ \A i \in 1..Len(cmds') : i \in 1..Len(cmds) \/ i = Len(cmds) + 1
    BY <1>8, <1>11, CmdsAppend
  <2>4. QueueShape'  BY <1>0, <1>3, <1>4, <1>8, <1>11, <2>3 DEF ClipboardIInv, QueueShape, T
  <2>5. pending < texts + 1  BY <1>0, SMTT(30) DEF ClipboardIInv, QueueShape
  <2>6. \A i \in 1..Len(cmds') : cmds'[i] > 0 => pending < cmds'[i]
    BY <2>2, <2>3, <2>5 DEF ClipboardIInv, TextsInOrder
  <2>7. \A i, j \in 1..Len(cmds') : i < j /\ cmds'[i] > 0 /\ cmds'[j] > 0 => cmds'[i] < cmds'[j]
    <3>1. SUFFICES ASSUME NEW i \in 1..Len(cmds'), NEW j \in 1..Len(cmds'), i < j, cmds'[i] > 0, cmds'[j] > 0
                   PROVE  cmds'[i] < cmds'[j]
      OBVIOUS
    <3>2. i \in 1..Len(cmds) /\ cmds'[i] = cmds[i]  BY <2>3, <3>1, SMTT(30)
    <3>3. CASE j \in 1..Len(cmds)  BY <2>3, <3>1, <3>2, <3>3 DEF ClipboardIInv, TextsInOrder
    <3>4. CASE j = Len(cmds) + 1  BY <2>1, <2>2, <2>3, <3>1, <3>2, <3>4
    <3> QED  BY <2>3, <3>3, <3>4
  <2>8. TextsInOrder'  BY <1>0, <2>6, <2>7 DEF ClipboardIInv, TextsInOrder
  <2> QED  BY <1>2, <1>5, <1>7, <2>4, <2>8 DEF ClipboardIInv
<1> QED  BY <1>1, <1>10, <1>11

(* The loop takes the first command; the others keep their order. *)
LEMMA TakenFacts ==
  ASSUME ClipboardIInv, Taken
  PROVE  /\ task = "loop" /\ cmds' \in Seq({ShutdownCmd, InputCmd} \cup 1..texts)
         /\ Head(cmds) \in {ShutdownCmd, InputCmd} \cup 1..texts
         /\ Head(cmds) > 0 => pending < Head(cmds)
         /\ \A i \in 1..Len(cmds') : cmds'[i] > 0 =>
              pending < cmds'[i] /\ (Head(cmds) > 0 => Head(cmds) < cmds'[i])
         /\ \A i, j \in 1..Len(cmds') : i < j /\ cmds'[i] > 0 /\ cmds'[j] > 0 => cmds'[i] < cmds'[j]
<1> DEFINE S == {ShutdownCmd, InputCmd} \cup 1..texts
<1>1. task = "loop" /\ cmds # <<>> /\ cmds' = Tail(cmds) /\ cmds \in Seq(S)
  BY DEF Taken, ClipboardIInv, QueueShape
<1> HIDE DEF S
<1>2. Len(cmds) \in Nat \ {0}  BY <1>1, EmptySeq, LenProperties
<1>3. cmds' \in Seq(S) /\ Len(cmds') = Len(cmds) - 1 /\ \A i \in 1..Len(cmds') : cmds'[i] = cmds[i + 1]
  BY <1>1, HeadTailProperties
<1>4. Head(cmds) = cmds[1] /\ cmds[1] \in S /\ 1 \in 1..Len(cmds)  BY <1>1, <1>2, ElementOfSeq, SMTT(30)
<1>5. \A i \in 1..Len(cmds') : cmds'[i] = cmds[i + 1] /\ i + 1 \in 1..Len(cmds) /\ 1 < i + 1
  BY <1>2, <1>3, SMTT(30)
<1>6. Head(cmds) > 0 => pending < Head(cmds)  BY <1>4 DEF ClipboardIInv, TextsInOrder
<1>7. \A i \in 1..Len(cmds') : cmds'[i] > 0 =>
        pending < cmds'[i] /\ (Head(cmds) > 0 => Head(cmds) < cmds'[i])
  BY <1>4, <1>5 DEF ClipboardIInv, TextsInOrder
<1>8. \A i, j \in 1..Len(cmds') : i < j /\ cmds'[i] > 0 /\ cmds'[j] > 0 => cmds'[i] < cmds'[j]
  <2>1. \A i, j \in 1..Len(cmds') : i < j => i + 1 < j + 1  BY <1>2, <1>3, SMTT(30)
  <2> QED  BY <1>5, <2>1 DEF ClipboardIInv, TextsInOrder
<1> QED  BY <1>1, <1>3, <1>4, <1>6, <1>7, <1>8 DEF S

(* Input, a Closed signal and Shutdown leave the clipboard alone. *)
LEMMA PlainLoopInv ==
  ASSUME ClipboardIInv, ForwardInput \/ ClosedByMutter \/ EndLoop
  PROVE  ClipboardIInv'
<1>0. /\ task = "loop" /\ task' \in {"loop", "ended"}
      /\ Taken \/ cmds' = cmds
      /\ UNCHANGED <<session, owner, remote, orphans, clipboardOn, changes, transfers, selection,
                     pending, last, reads, writes, texts, overtaken, missed, attached, forwarders>>
  BY DEF ForwardInput, ClosedByMutter, EndLoop, CallEnds, Taken, clipVars, sinkVars
<1>1. SessionShape' /\ RemoteShape'
  <2>1. overtaken' \in BOOLEAN /\ missed' \in BOOLEAN  BY <1>0 DEF ClipboardIInv, SessionShape
  <2> QED  BY <1>0, <2>1, LoopStep DEF ClipboardIInv
<1>2. cmds' \in Seq({ShutdownCmd, InputCmd} \cup 1..texts)
      /\ (\A i \in 1..Len(cmds') : cmds'[i] > 0 => pending < cmds'[i])
      /\ (\A i, j \in 1..Len(cmds') : i < j /\ cmds'[i] > 0 /\ cmds'[j] > 0 => cmds'[i] < cmds'[j])
  <2>1. CASE Taken  BY <2>1, TakenFacts
  <2>2. CASE cmds' = cmds  BY <2>2 DEF ClipboardIInv, QueueShape, TextsInOrder
  <2> QED  BY <1>0, <2>1, <2>2
<1>3. QueueShape'  BY <1>0, <1>2 DEF ClipboardIInv, QueueShape, BeforeLoop
<1>4. Following' => Following  BY <1>0 DEF Following
<1>5. ClipboardFollowed'  BY <1>0, <1>4, FollowedKept DEF ClipboardIInv
<1>6. TextsInOrder'  BY <1>0, <1>2 DEF ClipboardIInv, TextsInOrder
<1> QED  BY <1>1, <1>3, <1>5, <1>6 DEF ClipboardIInv

(* SetClipboard: the text is the last seen, the pending one and, if Mutter   *)
(* has the session, the host's.                                              *)
LEMMA SetClipboardInv ==
  ASSUME ClipboardIInv, SetClipboard
  PROVE  ClipboardIInv'
<1> DEFINE h == Head(cmds)
<1>0. /\ Taken /\ h > 0 /\ task = "loop"
      /\ UNCHANGED <<session, owner, remote, orphans, clipboardOn, transfers, reads, writes, texts,
                     attached, forwarders>>
  BY DEF SetClipboard, sinkVars, Taken
<1>1. /\ cmds' \in Seq({ShutdownCmd, InputCmd} \cup 1..texts) /\ h \in 1..texts /\ pending < h
      /\ \A i \in 1..Len(cmds') : cmds'[i] > 0 => pending < cmds'[i] /\ h < cmds'[i]
      /\ \A i, j \in 1..Len(cmds') : i < j /\ cmds'[i] > 0 /\ cmds'[j] > 0 => cmds'[i] < cmds'[j]
  BY <1>0, TakenFacts, SMTT(30) DEF ShutdownCmd, InputCmd
<1> HIDE DEF h
<1>2. CASE ~clipboardOn
  <2>1. UNCHANGED <<task, pending, last, selection, changes, overtaken, missed>>
    BY <1>2 DEF SetClipboard
  <2>2. SessionShape' /\ RemoteShape'
    <3>1. overtaken' \in BOOLEAN /\ missed' \in BOOLEAN  BY <2>1 DEF ClipboardIInv, SessionShape
    <3> QED  BY <1>0, <2>1, <3>1, LoopStep DEF ClipboardIInv
  <2>3. QueueShape'  BY <1>0, <1>1, <2>1 DEF ClipboardIInv, QueueShape, BeforeLoop
  <2>4. Following' => Following  BY <1>0, <2>1 DEF Following
  <2>5. ClipboardFollowed'  BY <1>0, <2>1, <2>4, FollowedKept DEF ClipboardIInv
  <2>6. TextsInOrder'  BY <1>0, <1>1, <2>1 DEF ClipboardIInv, TextsInOrder
  <2> QED  BY <2>2, <2>3, <2>5, <2>6 DEF ClipboardIInv
<1>3. CASE clipboardOn
  <2>1. /\ last' = h /\ pending' = h /\ overtaken' = (overtaken \/ reads # <<>>) /\ missed' = FALSE
        /\ IF session \in remote
           THEN /\ task' = task /\ selection' = [own |-> session, text |-> h]
                /\ changes' = Append(changes, "own")
           ELSE task' = "ended" /\ UNCHANGED <<selection, changes>>
    BY <1>3 DEF SetClipboard, CallEnds, h
  <2>2. overtaken' \in BOOLEAN /\ missed' \in BOOLEAN  BY <2>1
  <2>3. SessionShape'  BY <1>0, <2>1, <2>2 DEF ClipboardIInv, SessionShape, BeforeLoop
  <2>4. changes' \in Seq({"own", "text", "other"})
    <3>1. changes \in Seq({"own", "text", "other"})  BY DEF ClipboardIInv, QueueShape
    <3> QED  BY <2>1, <3>1, SMTT(30)
  <2>5. task' \in {"loop", "ended"}  BY <1>0, <2>1
  <2>6. h \in 0..texts  BY <1>1, SMTT(30)
  <2>7. QueueShape'  BY <1>0, <1>1, <2>1, <2>4, <2>5, <2>6 DEF ClipboardIInv, QueueShape, BeforeLoop
  <2>8. RemoteShape'
    <3>1. CASE session \in remote
      <4>1. selection' = [own |-> session, text |-> h] /\ session \in 0..session
        BY <2>1, <3>1, SMTT(30) DEF ClipboardIInv, SessionShape, RemoteShape
      <4>2. selection' \in [own : 0..session, text : 0..texts] /\ selection'.own = session
        BY <2>6, <4>1
      <4> QED  BY <1>0, <2>5, <3>1, <4>2 DEF ClipboardIInv, RemoteShape, BeforeLoop
    <3>2. CASE session \notin remote
      BY <1>0, <2>1, <3>2 DEF ClipboardIInv, RemoteShape, BeforeLoop
    <3> QED  BY <3>1, <3>2
  <2>9. ClipboardFollowed'
    <3>1. SUFFICES ASSUME Following', ~overtaken'  PROVE ClipboardFollowed'
      BY DEF ClipboardFollowed
    <3>2. session \in remote  BY <1>0, <2>1, <3>1 DEF Following
    <3>3. reads' = <<>> /\ Len(reads') = 0  BY <1>0, <2>1, <3>1, EmptySeq
    <3>4. selection'.text = last' /\ selection'.own = session  BY <2>1, <3>2, SMTT(30)
    <3> QED  BY <3>3, <3>4, SMTT(30) DEF ClipboardFollowed
  <2>10. TextsInOrder'
    <3>1. pending \in Nat /\ h \in Nat  BY <1>1, SMTT(30) DEF ClipboardIInv, QueueShape
    <3>2. \A i \in 1..Len(transfers) : transfers[i] \in Nat
      BY ElementOfSeq DEF ClipboardIInv, QueueShape
    <3>3. \A i \in 1..Len(transfers) : transfers[i] <= h
      BY <1>1, <3>1, <3>2, SMTT(30) DEF ClipboardIInv, TextsInOrder
    <3>4. selection'.own = session => selection'.text <= h
      <4>1. CASE session \in remote  BY <2>1, <3>1, <4>1, SMTT(30)
      <4>2. CASE session \notin remote
        <5>1. selection.own # session
          BY <1>0, <4>2, SMTT(30) DEF ClipboardIInv, RemoteShape, SessionShape
        <5> QED  BY <2>1, <4>2, <5>1
      <4> QED  BY <4>1, <4>2
    <3> QED  BY <1>0, <1>1, <2>1, <3>3, <3>4 DEF ClipboardIInv, TextsInOrder
  <2> QED  BY <2>3, <2>7, <2>8, <2>9, <2>10 DEF ClipboardIInv
<1> QED  BY <1>2, <1>3

(* A change that is taken from its stream: if the last one waiting is no     *)
(* text, it was none before, or the change taken was the last.               *)
LEMMA ChangeTaken ==
  ASSUME changes \in Seq({"own", "text", "other"}), changes # <<>>, changes' = Tail(changes)
  PROVE  /\ changes' \in Seq({"own", "text", "other"})
         /\ NoTextAhead' => NoTextAhead \/ Head(changes) = "text"
<1> DEFINE S == {"own", "text", "other"}
<1> HIDE DEF S
<1>1. changes \in Seq(S)  BY DEF S
<1>2. Len(changes) \in Nat \ {0}  BY <1>1, EmptySeq, LenProperties
<1>3. changes' \in Seq(S) /\ Len(changes') = Len(changes) - 1
      /\ \A i \in 1..Len(changes') : changes'[i] = changes[i + 1]
  BY <1>1, HeadTailProperties
<1>4. Head(changes) = changes[1]  BY <1>1, SMTT(30)
<1>5. changes' = <<>> => Len(changes) = 1
  <2>1. changes' = <<>> => Len(changes') = 0  OBVIOUS
  <2> QED  BY <1>2, <1>3, <2>1, SMTT(30)
<1>6. changes' # <<>> => changes'[Len(changes')] = changes[Len(changes)]
  <2>1. changes' # <<>> => Len(changes') \in 1..Len(changes')  BY <1>2, <1>3, EmptySeq, SMTT(30)
  <2> QED  BY <1>2, <1>3, <2>1, SMTT(30)
<1> QED  BY <1>3, <1>4, <1>5, <1>6 DEF NoTextAhead, S

(* SelectionOwnerChanged: a text is read, if someone listens. *)
LEMMA OwnerChangedInv ==
  ASSUME ClipboardIInv, OwnerChanged
  PROVE  ClipboardIInv'
<1>0. /\ task = "loop" /\ changes # <<>> /\ changes' = Tail(changes)
      /\ \/ /\ Head(changes) = "text" /\ reads' = Append(reads, 0)
            /\ overtaken' = (overtaken \/ reads # <<>>) /\ missed' = FALSE
         \/ /\ missed' = (missed \/ Head(changes) = "text") /\ UNCHANGED <<reads, overtaken>>
      /\ UNCHANGED <<session, owner, task, cmds, remote, orphans, clipboardOn, transfers, selection,
                     pending, last, writes, texts, attached, forwarders>>
  BY DEF OwnerChanged, HasText, loopVars, sinkVars
<1>1. overtaken' \in BOOLEAN /\ missed' \in BOOLEAN  BY <1>0 DEF ClipboardIInv, SessionShape
<1>2. SessionShape' /\ RemoteShape'  BY <1>0, <1>1, LoopStep DEF ClipboardIInv
<1>3. reads \in Seq(0..texts) /\ 0 \in 0..texts /\ changes \in Seq({"own", "text", "other"})
  BY SMTT(30) DEF ClipboardIInv, QueueShape
<1>4. changes' \in Seq({"own", "text", "other"}) /\ (NoTextAhead' => NoTextAhead \/ Head(changes) = "text")
  BY <1>0, <1>3, ChangeTaken
<1>5. reads' \in Seq(0..texts)
  <2>1. Append(reads, 0) \in Seq(0..texts)  BY <1>3, AppendProperties
  <2> QED  BY <1>0, <1>3, <2>1
<1>6. QueueShape'  BY <1>0, <1>4, <1>5 DEF ClipboardIInv, QueueShape, BeforeLoop
<1>7. TextsInOrder'  BY <1>0 DEF ClipboardIInv, TextsInOrder
<1>8. ClipboardFollowed'
  <2>1. SUFFICES ASSUME Following', ~overtaken'  PROVE ClipboardFollowed'
    BY DEF ClipboardFollowed
  <2>2. Following /\ ~overtaken
    <3>1. ~overtaken  BY <1>0, <2>1
    <3> QED  BY <1>0, <2>1, <3>1 DEF Following
  <2>3. CASE Head(changes) = "text" /\ reads' = Append(reads, 0) /\ reads = <<>>
    <3>1. Len(reads') = 1 /\ reads'[1] = 0 /\ reads' # <<>>  BY <2>3, SMTT(30)
    <3>2. selection'.own = session' => selection'.text = last'
      BY <1>0, <2>2 DEF ClipboardIInv, ClipboardFollowed
    <3> QED  BY <3>1, <3>2, SMTT(30) DEF ClipboardFollowed
  <2>4. CASE missed' = (missed \/ Head(changes) = "text") /\ UNCHANGED <<reads, overtaken>>
    <3>1. ~missed' /\ NoTextAhead' => ~missed /\ NoTextAhead  BY <1>4, <2>4
    <3> QED  BY <1>0, <2>2, <2>4, <3>1 DEF ClipboardIInv, ClipboardFollowed
  <2> QED  BY <1>0, <2>1, <2>3, <2>4
<1> QED  BY <1>2, <1>6, <1>7, <1>8 DEF ClipboardIInv

(* SelectionTransfer: the pending text is no older than the one asked for. *)
LEMMA TransferInv ==
  ASSUME ClipboardIInv, Transfer
  PROVE  ClipboardIInv'
<1> DEFINE w == [asked |-> Head(transfers), text |-> pending, pipe |-> FALSE]
<1>0. /\ task = "loop" /\ transfers # <<>> /\ transfers' = Tail(transfers)
      /\ writes' \in {writes, Append(writes, w)}
      /\ UNCHANGED <<session, owner, task, cmds, remote, orphans, clipboardOn, changes, selection,
                     pending, last, reads, texts, overtaken, missed, attached, forwarders>>
  BY DEF Transfer, loopVars, sinkVars
<1>1. SessionShape' /\ RemoteShape'
  <2>1. overtaken' \in BOOLEAN /\ missed' \in BOOLEAN  BY <1>0 DEF ClipboardIInv, SessionShape
  <2> QED  BY <1>0, <2>1, LoopStep DEF ClipboardIInv
<1>2. transfers \in Seq(Nat) /\ writes \in Seq(Write) /\ pending \in Nat
  BY SMTT(30) DEF ClipboardIInv, QueueShape
<1>3. Len(transfers) \in Nat \ {0}  BY <1>0, <1>2, EmptySeq, LenProperties
<1>4. /\ transfers' \in Seq(Nat) /\ Head(transfers) = transfers[1] /\ transfers[1] \in Nat
      /\ \A i \in 1..Len(transfers') : transfers'[i] = transfers[i + 1] /\ i + 1 \in 1..Len(transfers)
  <2>1. transfers' \in Seq(Nat) /\ Len(transfers') = Len(transfers) - 1
        /\ \A i \in 1..Len(transfers') : transfers'[i] = transfers[i + 1]
    BY <1>0, <1>2, HeadTailProperties
  <2>2. Head(transfers) = transfers[1] /\ transfers[1] \in Nat  BY <1>2, <1>3, ElementOfSeq, SMTT(30)
  <2> QED  BY <1>3, <2>1, <2>2, SMTT(30)
<1>5. transfers[1] <= pending  BY <1>3, SMTT(30) DEF ClipboardIInv, TextsInOrder
<1>6. w \in Write /\ w.asked <= w.text  BY <1>2, <1>4, <1>5 DEF Write
<1> HIDE DEF w
<1>7. writes' \in Seq(Write) /\ \A i \in 1..Len(writes') : writes'[i].asked <= writes'[i].text
  <2>1. \A i \in 1..Len(writes) : writes[i].asked <= writes[i].text  BY DEF ClipboardIInv, TextsInOrder
  <2>2. CASE writes' = writes  BY <1>2, <2>1, <2>2
  <2>3. CASE writes' = Append(writes, w)
    <3>1. writes' \in Seq(Write) /\ Len(writes') = Len(writes) + 1 /\ Len(writes) \in Nat
          /\ (\A i \in 1..Len(writes) : writes'[i] = writes[i]) /\ writes'[Len(writes) + 1] = w
      BY <1>2, <1>6, <2>3, AppendProperties, LenProperties, SMTT(30)
    <3>2. \A i \in 1..Len(writes') : i \in 1..Len(writes) \/ i = Len(writes) + 1  BY <3>1, SMTT(30)
    <3> QED  BY <1>6, <2>1, <3>1, <3>2
  <2> QED  BY <1>0, <2>2, <2>3, ZenonT(40)
<1>8. QueueShape'  BY <1>0, <1>4, <1>7 DEF ClipboardIInv, QueueShape, BeforeLoop
<1>9. Following' => Following  BY <1>0 DEF Following
<1>10. ClipboardFollowed'  BY <1>0, <1>9, FollowedKept DEF ClipboardIInv
<1>11. \A i \in 1..Len(transfers') : transfers'[i] <= pending  BY <1>4 DEF ClipboardIInv, TextsInOrder
<1>12. TextsInOrder'  BY <1>0, <1>7, <1>11 DEF ClipboardIInv, TextsInOrder
<1> QED  BY <1>1, <1>8, <1>10, <1>12 DEF ClipboardIInv

(* A session that ended takes its selection with it, if it had it. *)
LEMMA ReleasedFacts ==
  ASSUME RemoteShape, NEW ended, Released(ended), texts \in Nat, session \in Nat
  PROVE  /\ selection' \in [own : 0..session, text : 0..texts]
         /\ selection' = selection \/ (selection'.own = 0 /\ selection'.text = 0)
         /\ selection'.own \in (remote \ ended) \cup {0}
<1>1. CASE selection.own \in ended
  <2>1. selection' = [own |-> 0, text |-> 0]  BY <1>1 DEF Released
  <2> QED  BY <2>1, SMTT(30)
<1>2. CASE selection.own \notin ended
  <2>1. selection' = selection  BY <1>2 DEF Released
  <2> QED  BY <1>2, <2>1 DEF RemoteShape
<1> QED  BY <1>1, <1>2

(* The end of run_thread: Stop, or a session left to Mutter. *)
LEMMA StopInv ==
  ASSUME ClipboardIInv, Stop
  PROVE  ClipboardIInv'
<1>0. /\ task = "ended" /\ task' = "runtime"
      /\ \/ /\ remote' = remote \ {session} /\ Released({session}) /\ UNCHANGED orphans
         \/ /\ orphans' = orphans \cup (remote \cap {session}) /\ UNCHANGED <<remote, selection>>
      /\ UNCHANGED <<session, owner, cmds, clipboardOn, changes, transfers, pending, last, reads,
                     writes, texts, overtaken, missed, attached, forwarders>>
  BY DEF Stop, sinkVars
<1>1. session \in Nat /\ session > 0 /\ texts \in Nat
  BY <1>0, SessionsAssumption, SMTT(30) DEF ClipboardIInv, SessionShape, QueueShape
<1>2. SessionShape'  BY <1>0 DEF ClipboardIInv, SessionShape, BeforeLoop
<1>3. QueueShape'  BY <1>0 DEF ClipboardIInv, QueueShape, BeforeLoop
<1>4. ClipboardFollowed'  BY <1>0 DEF ClipboardFollowed, Following
<1>5. CASE remote' = remote \ {session} /\ Released({session}) /\ UNCHANGED orphans
  <2>1. /\ selection' \in [own : 0..session, text : 0..texts]
        /\ selection' = selection \/ (selection'.own = 0 /\ selection'.text = 0)
        /\ selection'.own \in remote' \cup {0}
    BY <1>1, <1>5, ReleasedFacts DEF ClipboardIInv
  <2>2. RemoteShape'
    BY <1>0, <1>5, <2>1 DEF ClipboardIInv, RemoteShape, BeforeLoop
  <2>3. selection'.own # session  BY <1>1, <1>5, <2>1, SMTT(30)
  <2>4. TextsInOrder'  BY <1>0, <2>3 DEF ClipboardIInv, TextsInOrder
  <2> QED  BY <1>2, <1>3, <1>4, <2>2, <2>4 DEF ClipboardIInv
<1>6. CASE orphans' = orphans \cup (remote \cap {session}) /\ UNCHANGED <<remote, selection>>
  <2>1. RemoteShape'  BY <1>0, <1>6, ZenonT(40) DEF ClipboardIInv, RemoteShape, BeforeLoop
  <2>2. TextsInOrder'  BY <1>0, <1>6 DEF ClipboardIInv, TextsInOrder
  <2> QED  BY <1>2, <1>3, <1>4, <2>1, <2>2 DEF ClipboardIInv
<1> QED  BY <1>0, <1>5, <1>6

(* Dropping the runtime. *)
LEMMA RuntimeDropInv ==
  ASSUME ClipboardIInv, RuntimeDrop
  PROVE  ClipboardIInv'
<1>0. /\ task = "runtime" /\ task' = "gone" /\ cmds' = <<>> /\ changes' = <<>> /\ transfers' = <<>>
      /\ pending' = 0 /\ last' = 0 /\ reads' = <<>> /\ writes' = <<>>
      /\ overtaken' = FALSE /\ missed' = FALSE
      /\ UNCHANGED <<session, owner, remote, orphans, clipboardOn, selection, texts, attached, forwarders>>
  BY DEF RuntimeDrop, sinkVars
<1>1. SessionShape'  BY <1>0 DEF ClipboardIInv, SessionShape, BeforeLoop
<1>2. QueueShape'  BY <1>0, EmptySeq, SMTT(30) DEF ClipboardIInv, QueueShape
<1>3. RemoteShape'  BY <1>0 DEF ClipboardIInv, RemoteShape, BeforeLoop
<1>4. ClipboardFollowed'  BY <1>0 DEF ClipboardFollowed, Following
<1>5. TextsInOrder'  BY <1>0, EmptySeq, SMTT(30) DEF TextsInOrder
<1> QED  BY <1>1, <1>2, <1>3, <1>4, <1>5 DEF ClipboardIInv

(* SelectionRead: the text of the moment, unless it is our own. *)
LEMMA SelectionReadInv ==
  ASSUME ClipboardIInv, SelectionRead
  PROVE  ClipboardIInv'
<1>0. /\ task \in {"loop", "ended"}
      /\ UNCHANGED <<session, owner, task, cmds, remote, orphans, clipboardOn, changes, transfers,
                     selection, pending, last, writes, texts, overtaken, missed, attached, forwarders>>
  BY DEF SelectionRead, Running, loopVars, sinkVars
<1>1. PICK i \in DOMAIN reads :
       /\ reads[i] = 0
       /\ reads' = IF selection.own = session \/ selection.text = 0 \/ session \notin remote
                   THEN Without(reads, i)
                   ELSE [reads EXCEPT ![i] = selection.text]
  BY DEF SelectionRead
<1>2. reads \in Seq(0..texts) /\ selection.text \in 0..texts /\ DOMAIN reads = 1..Len(reads) /\ Len(reads) \in Nat
  BY LenProperties DEF ClipboardIInv, QueueShape, RemoteShape
<1>3. /\ Without(reads, i) \in Seq(0..texts)
      /\ Len(reads) = 1 => Without(reads, i) = <<>>
  BY <1>1, <1>2, WithoutFacts, SMTT(30)
<1>4. /\ [reads EXCEPT ![i] = selection.text] \in Seq(0..texts)
      /\ Len([reads EXCEPT ![i] = selection.text]) = Len(reads)
  BY <1>1, <1>2, ExceptSeq, SMTT(30)
<1>5. reads' \in Seq(0..texts)  BY <1>1, <1>3, <1>4
<1>6. SessionShape' /\ RemoteShape'
  <2>1. overtaken' \in BOOLEAN /\ missed' \in BOOLEAN  BY <1>0 DEF ClipboardIInv, SessionShape
  <2> QED  BY <1>0, <2>1, LoopStep DEF ClipboardIInv
<1>7. QueueShape'  BY <1>0, <1>5 DEF ClipboardIInv, QueueShape, BeforeLoop
<1>8. TextsInOrder'  BY <1>0 DEF ClipboardIInv, TextsInOrder
<1>9. ClipboardFollowed'
  <2>1. SUFFICES ASSUME Following', ~overtaken'  PROVE ClipboardFollowed'
    BY DEF ClipboardFollowed
  <2>2. Following /\ ~overtaken /\ session \in remote  BY <1>0, <2>1 DEF Following
  <2>3. Len(reads) = 1 /\ i = 1  BY <1>1, <1>2, <2>2, SMTT(30) DEF ClipboardIInv, ClipboardFollowed
  <2>4. selection.own = session => selection.text = last
    BY <2>2 DEF ClipboardIInv, ClipboardFollowed
  <2>5. CASE selection.own = session \/ selection.text = 0
    <3>1. reads' = <<>> /\ Len(reads') = 0  BY <1>1, <1>3, <2>3, <2>5, EmptySeq
    <3> QED  BY <1>0, <2>4, <2>5, <3>1, SMTT(30) DEF ClipboardFollowed
  <2>6. CASE ~(selection.own = session \/ selection.text = 0)
    <3>1. reads' = [reads EXCEPT ![i] = selection.text]  BY <1>1, <2>2, <2>6
    <3>2. Len(reads') = 1 /\ reads'[1] = selection.text  BY <1>2, <1>4, <2>3, <3>1
    <3> QED  BY <1>0, <2>6, <3>2, SMTT(30) DEF ClipboardFollowed
  <2> QED  BY <2>5, <2>6
<1> QED  BY <1>6, <1>7, <1>8, <1>9 DEF ClipboardIInv

(* A read ends, with its text or without. *)
LEMMA ReadEndsInv ==
  ASSUME ClipboardIInv, ReadFails \/ ReadDone
  PROVE  ClipboardIInv'
<1>0. /\ task \in {"loop", "ended"}
      /\ UNCHANGED <<session, owner, task, cmds, remote, orphans, clipboardOn, changes, transfers,
                     selection, pending, writes, texts, overtaken, attached, forwarders>>
  BY DEF ReadFails, ReadDone, Running, loopVars, sinkVars
<1>1. PICK i \in DOMAIN reads :
        /\ reads' = Without(reads, i)
        /\ \/ missed' = TRUE /\ last' = last
           \/ reads[i] # 0 /\ missed' = missed /\ last' = reads[i]
  BY DEF ReadFails, ReadDone
<1>2. reads \in Seq(0..texts) /\ DOMAIN reads = 1..Len(reads) /\ Len(reads) \in Nat /\ reads[i] \in 0..texts
  BY <1>1, LenProperties, ElementOfSeq DEF ClipboardIInv, QueueShape
<1>3. /\ reads' \in Seq(0..texts)
      /\ Len(reads) = 1 => reads' = <<>>
  BY <1>1, <1>2, WithoutFacts
<1>4. missed' \in BOOLEAN /\ overtaken' \in BOOLEAN  BY <1>0, <1>1 DEF ClipboardIInv, SessionShape
<1>5. SessionShape' /\ RemoteShape'  BY <1>0, <1>4, LoopStep DEF ClipboardIInv
<1>6. last' \in 0..texts  BY <1>1, <1>2 DEF ClipboardIInv, QueueShape
<1>7. QueueShape'  BY <1>0, <1>3, <1>6 DEF ClipboardIInv, QueueShape, BeforeLoop
<1>8. TextsInOrder'  BY <1>0 DEF ClipboardIInv, TextsInOrder
<1>9. ClipboardFollowed'
  <2>1. SUFFICES ASSUME Following', ~overtaken'  PROVE ClipboardFollowed'
    BY DEF ClipboardFollowed
  <2>2. Following /\ ~overtaken  BY <1>0, <2>1 DEF Following
  <2>3. Len(reads) = 1 /\ i = 1  BY <1>1, <1>2, <2>2, SMTT(30) DEF ClipboardIInv, ClipboardFollowed
  <2>4. reads' = <<>> /\ Len(reads') = 0 /\ reads # <<>>  BY <1>3, <2>3, EmptySeq, SMTT(30)
  <2>5. CASE missed' = TRUE /\ last' = last
    <3>1. selection.own = session => selection.text = last
      BY <2>2 DEF ClipboardIInv, ClipboardFollowed
    <3> QED  BY <1>0, <2>4, <2>5, <3>1, SMTT(30) DEF ClipboardFollowed
  <2>6. CASE reads[i] # 0 /\ missed' = missed /\ last' = reads[i]
    <3>1. selection.own # session  BY <1>2, <2>2, <2>3, <2>6 DEF ClipboardIInv, ClipboardFollowed
    <3>2. ~missed /\ NoTextAhead => selection.text \in {0, reads[1]}
      BY <2>2, <2>3, <2>4, <2>6 DEF ClipboardIInv, ClipboardFollowed
    <3>3. NoTextAhead' <=> NoTextAhead  BY <1>0 DEF NoTextAhead
    <3> QED  BY <1>0, <2>3, <2>4, <2>6, <3>1, <3>2, <3>3, SMTT(30) DEF ClipboardFollowed
  <2> QED  BY <1>1, <2>5, <2>6
<1> QED  BY <1>5, <1>7, <1>8, <1>9 DEF ClipboardIInv

(* A write gets its pipe, fails or ends. *)
LEMMA WriteInv ==
  ASSUME ClipboardIInv, SelectionWrite \/ WriteDone
  PROVE  ClipboardIInv'
<1>0. UNCHANGED <<session, owner, task, cmds, remote, orphans, clipboardOn, changes, transfers,
                  selection, pending, last, reads, texts, overtaken, missed, attached, forwarders>>
  BY DEF SelectionWrite, WriteDone, loopVars, sinkVars
<1>1. PICK i \in DOMAIN writes :
        writes' = Without(writes, i) \/ writes' = [writes EXCEPT ![i].pipe = TRUE]
  BY DEF SelectionWrite, WriteDone
<1>2. writes \in Seq(Write) /\ DOMAIN writes = 1..Len(writes) /\ Len(writes) \in Nat
      /\ \A k \in 1..Len(writes) : writes[k] \in Write /\ writes[k].asked <= writes[k].text
  BY LenProperties, ElementOfSeq DEF ClipboardIInv, QueueShape, TextsInOrder
<1>3. task \notin BeforeLoop \cup {"gone"}
  <2>1. writes # <<>>  BY <1>1, <1>2, EmptySeq, SMTT(30)
  <2> QED  BY <2>1 DEF ClipboardIInv, QueueShape
<1>4. writes' \in Seq(Write) /\ \A k \in 1..Len(writes') : writes'[k].asked <= writes'[k].text
  <2>1. CASE writes' = Without(writes, i)
    <3>1. /\ writes' \in Seq(Write)
          /\ \A j \in 1..Len(writes') : \E k \in 1..Len(writes) : writes'[j] = writes[k]
      BY <1>1, <1>2, <2>1, WithoutFacts, ZenonT(40)
    <3> QED  BY <1>2, <3>1
  <2>2. CASE writes' = [writes EXCEPT ![i].pipe = TRUE]
    <3> DEFINE v == [writes[i] EXCEPT !.pipe = TRUE]
    <3>1. v \in Write /\ v.asked = writes[i].asked /\ v.text = writes[i].text
      BY <1>1, <1>2 DEF Write
    <3>2. writes' = [writes EXCEPT ![i] = v]  BY <2>2
    <3> HIDE DEF v
    <3>3. writes' \in Seq(Write) /\ Len(writes') = Len(writes)
          /\ \A k \in 1..Len(writes) : writes'[k] = IF k = i THEN v ELSE writes[k]
      BY <1>1, <1>2, <3>1, <3>2, ExceptSeq
    <3> QED  BY <1>1, <1>2, <3>1, <3>3
  <2> QED  BY <1>1, <2>1, <2>2
<1>5. SessionShape'  BY <1>0 DEF ClipboardIInv, SessionShape
<1>6. RemoteShape'  BY <1>0 DEF ClipboardIInv, RemoteShape
<1>7. QueueShape'  BY <1>0, <1>3, <1>4 DEF ClipboardIInv, QueueShape
<1>8. Following' => Following  BY <1>0 DEF Following
<1>9. ClipboardFollowed'  BY <1>0, <1>8, FollowedKept DEF ClipboardIInv
<1>10. TextsInOrder'  BY <1>0, <1>4 DEF ClipboardIInv, TextsInOrder
<1> QED  BY <1>5, <1>6, <1>7, <1>9, <1>10 DEF ClipboardIInv

(* An application takes the selection. *)
LEMMA HostCopiesInv ==
  ASSUME ClipboardIInv, HostCopies
  PROVE  ClipboardIInv'
<1>0. /\ session > 0
      /\ UNCHANGED <<session, owner, task, cmds, remote, orphans, clipboardOn, transfers, pending,
                     last, reads, writes, overtaken, attached, forwarders>>
  BY DEF HostCopies, loopVars, sinkVars
<1>1. /\ texts \in Nat /\ texts' \in {texts, texts + 1}
      /\ selection' \in [own : {0}, text : 0..texts']
  BY SMTT(30) DEF HostCopies, ClipboardIInv, QueueShape, RemoteShape
<1>2. \/ /\ changes' = Append(changes, IF selection'.text = 0 THEN "other" ELSE "text")
         /\ missed' = missed /\ session \in remote \ orphans
      \/ /\ missed' = TRUE /\ changes' = changes
  BY DEF HostCopies
<1>3. missed' \in BOOLEAN  BY <1>2 DEF ClipboardIInv, SessionShape
<1>4. SessionShape'  BY <1>0, <1>3 DEF ClipboardIInv, SessionShape
<1>5. 0..texts \subseteq 0..texts' /\ 1..texts \subseteq 1..texts' /\ texts' \in Nat  BY <1>1, SMTT(30)
<1>6. changes \in Seq({"own", "text", "other"}) /\ changes' \in Seq({"own", "text", "other"})
      /\ Len(changes) \in Nat
  <2>1. changes \in Seq({"own", "text", "other"})  BY DEF ClipboardIInv, QueueShape
  <2>2. Append(changes, "other") \in Seq({"own", "text", "other"})  BY <2>1, SMTT(30)
  <2>3. Append(changes, "text") \in Seq({"own", "text", "other"})  BY <2>1, SMTT(30)
  <2> QED  BY <1>2, <2>1, <2>2, <2>3, LenProperties
<1>7. cmds \in Seq({ShutdownCmd, InputCmd} \cup 1..texts') /\ reads \in Seq(0..texts')
  <2>1. cmds \in Seq({ShutdownCmd, InputCmd} \cup 1..texts) /\ reads \in Seq(0..texts)
    BY DEF ClipboardIInv, QueueShape
  <2>2. ({ShutdownCmd, InputCmd} \cup 1..texts) \subseteq ({ShutdownCmd, InputCmd} \cup 1..texts')
    BY <1>5
  <2> QED  BY <1>5, <2>1, <2>2, SeqGrows
<1>8. task = "gone" => changes' = <<>>
  BY <1>2 DEF ClipboardIInv, RemoteShape, QueueShape
<1>9. QueueShape'  BY <1>0, <1>5, <1>6, <1>7, <1>8 DEF ClipboardIInv, QueueShape
<1>10. selection' \in [own : 0..session, text : 0..texts'] /\ selection'.own = 0 /\ session # 0
  BY <1>0, <1>1, SessionsAssumption, SMTT(30) DEF ClipboardIInv, SessionShape
<1>11. RemoteShape'  BY <1>0, <1>10 DEF ClipboardIInv, RemoteShape
<1>12. TextsInOrder'  BY <1>0, <1>10 DEF ClipboardIInv, TextsInOrder
<1>13. ClipboardFollowed'
  <2>1. SUFFICES ASSUME Following', ~overtaken'  PROVE ClipboardFollowed'
    BY DEF ClipboardFollowed
  <2>2. Len(reads) <= 1  BY <1>0, <2>1 DEF Following, ClipboardIInv, ClipboardFollowed
  <2>3. ~missed' /\ NoTextAhead' => selection'.text = 0
    <3>1. CASE missed' = TRUE  BY <3>1
    <3>2. CASE changes' = Append(changes, IF selection'.text = 0 THEN "other" ELSE "text")
      <4> DEFINE e == IF selection'.text = 0 THEN "other" ELSE "text"
      <4>1. changes' # <<>> /\ changes'[Len(changes')] = e
        BY <1>6, <3>2, AppendProperties, EmptySeq, SMTT(30)
      <4> QED  BY <4>1 DEF NoTextAhead
    <3> QED  BY <1>2, <3>1, <3>2
  <2> QED  BY <1>0, <1>10, <2>2, <2>3 DEF ClipboardFollowed
<1> QED  BY <1>4, <1>9, <1>11, <1>12, <1>13 DEF ClipboardIInv

(* An application pastes what the session announced. *)
LEMMA HostPastesInv ==
  ASSUME ClipboardIInv, HostPastes
  PROVE  ClipboardIInv'
<1>0. /\ session \in remote \ orphans /\ selection.own = session
      /\ transfers' = Append(transfers, selection.text)
      /\ UNCHANGED <<session, owner, task, cmds, remote, orphans, clipboardOn, changes, selection,
                     pending, last, reads, writes, texts, overtaken, missed, attached, forwarders>>
  BY DEF HostPastes, loopVars, sinkVars
<1>1. task \notin BeforeLoop \cup {"gone"}  BY <1>0 DEF ClipboardIInv, RemoteShape
<1>2. selection.text \in Nat /\ selection.text <= pending /\ transfers \in Seq(Nat) /\ Len(transfers) \in Nat
  BY <1>0, <1>1, LenProperties, SMTT(30) DEF ClipboardIInv, RemoteShape, TextsInOrder, QueueShape
<1>3. transfers' \in Seq(Nat) /\ Len(transfers') = Len(transfers) + 1
      /\ (\A i \in 1..Len(transfers) : transfers'[i] = transfers[i])
      /\ transfers'[Len(transfers) + 1] = selection.text
  <2> DEFINE t == selection.text
  <2>1. t \in Nat /\ transfers \in Seq(Nat) /\ transfers' = Append(transfers, t)  BY <1>0, <1>2
  <2> HIDE DEF t
  <2>2. transfers' \in Seq(Nat) /\ Len(transfers') = Len(transfers) + 1
        /\ (\A i \in 1..Len(transfers) : transfers'[i] = transfers[i])
        /\ transfers'[Len(transfers) + 1] = t
    BY <2>1, AppendProperties, SMTT(30)
  <2> QED  BY <2>2 DEF t
<1>4. \A i \in 1..Len(transfers') : transfers'[i] <= pending
  <2>1. \A i \in 1..Len(transfers') : i \in 1..Len(transfers) \/ i = Len(transfers) + 1  BY <1>2, <1>3, SMTT(30)
  <2> QED  BY <1>2, <1>3, <2>1 DEF ClipboardIInv, TextsInOrder
<1>5. SessionShape'  BY <1>0 DEF ClipboardIInv, SessionShape
<1>6. RemoteShape'  BY <1>0 DEF ClipboardIInv, RemoteShape
<1>7. QueueShape'  BY <1>0, <1>1, <1>3 DEF ClipboardIInv, QueueShape
<1>8. Following' => Following  BY <1>0 DEF Following
<1>9. ClipboardFollowed'  BY <1>0, <1>8, FollowedKept DEF ClipboardIInv
<1>10. TextsInOrder'  BY <1>0, <1>4 DEF ClipboardIInv, TextsInOrder
<1> QED  BY <1>5, <1>6, <1>7, <1>9, <1>10 DEF ClipboardIInv

(* Mutter ends the session, or those that are orphans. *)
LEMMA MutterEndsInv ==
  ASSUME ClipboardIInv, MutterCloses \/ MutterReaps
  PROVE  ClipboardIInv'
<1>0. UNCHANGED <<session, owner, task, cmds, clipboardOn, changes, transfers, pending, last, reads,
                  writes, texts, overtaken, missed, attached, forwarders>>
  BY DEF MutterCloses, MutterReaps, sinkVars
<1>1. PICK ended : /\ ended \subseteq remote /\ ended \in {{session}, orphans}
                   /\ remote' = remote \ ended /\ orphans' = orphans \ ended /\ Released(ended)
  <2>1. CASE MutterCloses  BY <2>1 DEF MutterCloses
  <2>2. CASE MutterReaps  BY <2>2 DEF MutterReaps, ClipboardIInv, RemoteShape
  <2> QED  BY <2>1, <2>2
<1>2. session \in Nat /\ texts \in Nat /\ remote \subseteq 1..session
  BY SessionsAssumption, SMTT(30) DEF ClipboardIInv, SessionShape, QueueShape, RemoteShape
<1>3. /\ selection' \in [own : 0..session, text : 0..texts]
      /\ selection' = selection \/ (selection'.own = 0 /\ selection'.text = 0)
      /\ selection'.own \in remote' \cup {0}
  BY <1>1, <1>2, ReleasedFacts DEF ClipboardIInv
<1>4. SessionShape'  BY <1>0 DEF ClipboardIInv, SessionShape
<1>5. QueueShape'  BY <1>0 DEF ClipboardIInv, QueueShape
<1>6. task # "gone" => session # 0  BY <1>2, SMTT(30) DEF ClipboardIInv, SessionShape
<1>7. RemoteShape'
  BY <1>0, <1>1, <1>3, <1>6 DEF ClipboardIInv, RemoteShape, BeforeLoop
<1>8. ClipboardFollowed'
  <2>1. Following' => Following /\ session # 0
    BY <1>0, <1>1, <1>6 DEF Following
  <2>2. NoTextAhead' <=> NoTextAhead  BY <1>0 DEF NoTextAhead
  <2>3. selection'.own = session /\ session # 0 => selection' = selection  BY <1>3
  <2>4. selection'.text = selection.text \/ selection'.text = 0  BY <1>3
  <2> QED  BY <1>0, <2>1, <2>2, <2>3, <2>4 DEF ClipboardIInv, ClipboardFollowed
<1>9. TextsInOrder'
  <2>1. selection'.own = session /\ task # "gone" => selection' = selection  BY <1>3, <1>6
  <2> QED  BY <1>0, <2>1 DEF ClipboardIInv, TextsInOrder
<1> QED  BY <1>4, <1>5, <1>7, <1>8, <1>9 DEF ClipboardIInv

(* Every step of the session, its thread and what is around them. *)
LEMMA MutterNextInv ==
  ASSUME ClipboardIInv, MutterNext
  PROVE  ClipboardIInv'
<1>1. CASE Loop
  BY <1>1, PlainLoopInv, SetClipboardInv, OwnerChangedInv, TransferInv DEF Loop
<1>2. CASE Tasks
  BY <1>2, SelectionReadInv, ReadEndsInv, WriteInv DEF Tasks
<1>3. CASE External
  BY <1>3, HostCopiesInv, HostPastesInv, MutterEndsInv DEF External
<1>4. CASE \/ StartSession \/ Handshaking \/ Attach \/ Drop \/ ThreadJoined
           \/ Stop \/ RuntimeDrop \/ WriteDone \/ Forward \/ Client
  BY <1>4, StartSessionInv, HandshakingInv, OwnerInv, DropInv, StopInv, RuntimeDropInv, WriteInv,
     ClientInv
<1> QED  BY <1>1, <1>2, <1>3, <1>4 DEF MutterNext

(* Where the stream is looked at, a session starts, is closed and is dropped *)
(* in one step.                                                              *)
LEMMA CaptureSessionInv ==
  ASSUME SessionIInv, Session(StartCapture) \/ Session(SessionCloses) \/ Session(DropSession)
  PROVE  ClipboardIInv'
<1>0. /\ task = "gone" /\ remote = {}
      /\ UNCHANGED <<part, task, cmds, remote, orphans, clipboardOn, changes, transfers, selection,
                     pending, last, reads, writes, texts, overtaken, missed, forwarders>>
      /\ session' \in {session, session + 1} /\ session' \in 0..MaxSessions
      /\ owner' \in {"none", "up"}
      /\ attached' \in {attached, session'}
  BY SessionsAssumption, SMTT(30) DEF SessionIInv, Session, StartCapture, SessionCloses, DropSession, clipVars,
     ClipboardIInv, SessionShape
<1>1. session \in Nat /\ attached \in 0..session' /\ 1..session \subseteq 1..session'
      /\ 0..session \subseteq 0..session'
  BY <1>0, SessionsAssumption, SMTT(30) DEF SessionIInv, ClipboardIInv, SessionShape
<1>2. attached' \in 0..session'  BY <1>0, <1>1, SMTT(30)
<1>3. SessionShape'
  BY <1>0, <1>1, <1>2 DEF SessionIInv, ClipboardIInv, SessionShape, BeforeLoop
<1>4. QueueShape'  BY <1>0 DEF SessionIInv, ClipboardIInv, QueueShape
<1>5. RemoteShape'
  <2>1. selection \in [own : 0..session', text : 0..texts]
    BY <1>1 DEF SessionIInv, ClipboardIInv, RemoteShape
  <2> QED  BY <1>0, <2>1 DEF SessionIInv, ClipboardIInv, RemoteShape, BeforeLoop
<1>6. ClipboardFollowed'  BY <1>0 DEF ClipboardFollowed, Following
<1>7. TextsInOrder'  BY <1>0 DEF SessionIInv, ClipboardIInv, TextsInOrder
<1> QED  BY <1>3, <1>4, <1>5, <1>6, <1>7 DEF ClipboardIInv

(* Steps of the stream leave the session alone. *)
LEMMA ClipboardKept == ASSUME ClipboardIInv, UNCHANGED mutterVars PROVE ClipboardIInv'
<1>0. UNCHANGED <<session, owner, task, cmds, remote, orphans, clipboardOn, changes, transfers,
                  selection, pending, last, reads, writes, texts, overtaken, missed, attached,
                  forwarders>>
  BY DEF mutterVars, loopVars, clipVars, sinkVars
<1>1. SessionShape'  BY <1>0 DEF ClipboardIInv, SessionShape
<1>2. QueueShape'  BY <1>0 DEF ClipboardIInv, QueueShape
<1>3. RemoteShape'  BY <1>0 DEF ClipboardIInv, RemoteShape
<1>4. Following' => Following  BY <1>0 DEF Following
<1>5. ClipboardFollowed'  BY <1>0, <1>4, FollowedKept DEF ClipboardIInv
<1>6. TextsInOrder'  BY <1>0 DEF ClipboardIInv, TextsInOrder
<1> QED  BY <1>1, <1>2, <1>3, <1>5, <1>6 DEF ClipboardIInv

(* A capture starts without a session and without a text. *)
LEMMA SessionInitInv == ASSUME LinuxInit PROVE SessionIInv
<1>1. session \in 0..MaxSessions /\ session \in Nat  BY SessionsAssumption, SMTT(30) DEF LinuxInit
<1>2. SessionShape
  <2>1. overtaken \in BOOLEAN /\ missed \in BOOLEAN /\ clipboardOn \in BOOLEAN
    BY DEF LinuxInit, MutterInit
  <2>2. owner = "none" /\ task = "gone" /\ attached = 0 /\ forwarders = {}
    BY DEF LinuxInit, MutterInit
  <2> QED  BY <1>1, <2>1, <2>2, SMTT(30) DEF SessionShape, BeforeLoop
<1>3. QueueShape  BY EmptySeq, SMTT(30) DEF LinuxInit, MutterInit, QueueShape
<1>4. RemoteShape  BY <1>1, SMTT(30) DEF LinuxInit, MutterInit, RemoteShape, BeforeLoop
<1>5. ClipboardFollowed  BY DEF LinuxInit, MutterInit, ClipboardFollowed, Following
<1>6. TextsInOrder  BY EmptySeq, SMTT(30) DEF LinuxInit, MutterInit, TextsInOrder
<1>7. task = "gone" /\ remote = {}  BY DEF LinuxInit, MutterInit
<1> QED  BY <1>2, <1>3, <1>4, <1>5, <1>6, <1>7 DEF SessionIInv, ClipboardIInv

(* Every step of a capture keeps the session's invariant. *)
LEMMA SessionNextInv == ASSUME SessionIInv, [LinuxNext]_linuxVars PROVE SessionIInv'
<1>1. CASE part = "session" /\ Mutter(MutterNext)
  <2>1. ClipboardIInv'  BY <1>1, MutterNextInv DEF Mutter, SessionIInv
  <2>2. part' = "session"  BY <1>1 DEF Mutter
  <2> QED  BY <2>1, <2>2 DEF SessionIInv
<1>2. CASE Session(StartCapture) \/ Session(SessionCloses) \/ Session(DropSession)
  <2>1. ClipboardIInv'  BY <1>2, CaptureSessionInv
  <2>2. task' = "gone" /\ remote' = {}  BY <1>2 DEF Session, SessionIInv
  <2> QED  BY <2>1, <2>2 DEF SessionIInv
<1>3. CASE UNCHANGED <<part, mutterVars>>
  <2>1. UNCHANGED <<part, task, remote>>  BY <1>3 DEF mutterVars, loopVars
  <2> QED  BY <1>3, <2>1, ClipboardKept DEF SessionIInv
<1>4. \/ part = "session" /\ Mutter(MutterNext)
      \/ Session(StartCapture) \/ Session(SessionCloses) \/ Session(DropSession)
      \/ UNCHANGED <<part, mutterVars>>
  <2>1. CASE LinuxNext  BY <2>1 DEF LinuxNext, CaptureNext, Lose, StopCapture, Stream
  <2>2. CASE UNCHANGED linuxVars  BY <2>2 DEF linuxVars
  <2> QED  BY <2>1, <2>2
<1> QED  BY <1>1, <1>2, <1>3, <1>4

(* The inductive invariant of the session and the clipboard. *)
THEOREM SessionInvariant == LinuxSpec => []SessionIInv
<1>1. LinuxInit => SessionIInv  BY SessionInitInv
<1>2. SessionIInv /\ [LinuxNext]_linuxVars => SessionIInv'  BY SessionNextInv
<1> QED  BY <1>1, <1>2, PTL DEF LinuxSpec

(* One session at a time speaks for the machine, and its clipboard is the    *)
(* user's: for any number of sessions, texts and events.                     *)
THEOREM MutterIsSafe == LinuxSpec => []MutterSafe
<1>1. ASSUME SessionIInv  PROVE MutterSafe
  <2>1. MutterTypeOK
    BY <1>1 DEF SessionIInv, ClipboardIInv, SessionShape, QueueShape, RemoteShape, MutterTypeOK, BeforeLoop
  <2>2. OneRemoteSession
    BY <1>1 DEF SessionIInv, ClipboardIInv, SessionShape, RemoteShape, OneRemoteSession
  <2>3. ClipboardAgrees
    BY <1>1 DEF SessionIInv, ClipboardIInv, ClipboardFollowed, Following, NoTextAhead, ClipboardAgrees
  <2>4. PasteIsFresh
    <3>1. \A i \in 1..Len(writes) : writes[i].asked <= writes[i].text
          /\ writes[i].asked \in Nat /\ writes[i].text \in Nat
      <4>1. \A i \in 1..Len(writes) : writes[i] \in Write
        BY <1>1, ElementOfSeq DEF SessionIInv, ClipboardIInv, QueueShape
      <4> QED  BY <1>1, <4>1 DEF SessionIInv, ClipboardIInv, TextsInOrder, Write
    <3>2. DOMAIN writes = 1..Len(writes)  BY <1>1, LenProperties DEF SessionIInv, ClipboardIInv, QueueShape
    <3> QED  BY <3>1, <3>2 DEF PasteIsFresh
  <2> QED  BY <2>1, <2>2, <2>3, <2>4 DEF MutterSafe
<1> QED  BY <1>1, SessionInvariant, PTL
=============================================================================
