------------------------- MODULE MediaThreadProofs -------------------------
(***************************************************************************)
(* What is proved of the two threads of a host that encode, each on its    *)
(* own.  Of EncoderThread the inductive invariant, for every pool, bound   *)
(* and number of faults: what a session's caller and its encode thread     *)
(* know of each other, who holds the frame and the codec's objects, and    *)
(* that the pictures are counted and numbered; HostVideoProofs draws its   *)
(* theorems from it.  Of AudioPipeline, for every size of buffers and      *)
(* frames and every queue: samples keep their order and their times from   *)
(* PipeWire to the encoder, and packets are numbered.                      *)
(***************************************************************************)
EXTENDS EncoderThread, AudioPipeline, SequenceTheorems, TLAPS

(* A leaf that does not name its prover is first tried with Zenon; the leaves *)
(* that need arithmetic, or more than Zenon knows of sequences and records,    *)
(* name SMT.                                                                   *)
USE ZenonT(30), SMTT(30)

(* EncoderThread.                                                          *)

Commands == {"encode", "idr", "bitrate", "stop"}
Picture == [pts : Nat, idr : BOOLEAN]

(* The packets on their way to the caller. *)
Packets == IF reply # <<>> /\ caller = "waiting" THEN reply[1].packets ELSE <<>>

Creating == caller \in {"idle", "encoder", "refused", "spawning"}

(* The fields of every variable. *)
ThreadShape ==
  /\ caller \in {"idle", "encoder", "refused", "spawning", "ready",
                 "waiting", "returned", "joining", "dropped"}
  /\ thread \in {"none", "init", "open", "failed", "recv", "drain", "unwinding", "gone"}
  /\ clones \subseteq {"caller", "command"}
  /\ device \subseteq {"encoder", "session"}
  /\ pool \subseteq {"state", "codec", "leak"}
  /\ enc \in [force_idr : BOOLEAN, pts : Nat]
  /\ cmds \in Seq(Commands) /\ inside \in Seq(Picture)
  /\ received \in Int /\ idrOwed \in BOOLEAN
  /\ taken \in Nat /\ got \in Nat /\ lostPackets \in Nat

(* An answer is to the caller who waits, and nothing is queued behind it. *)
ReplyIsAwaited ==
  \/ reply = <<>>
  \/ caller = "spawning" /\ thread = "recv" /\ reply = <<"ok">>
  \/ /\ caller = "waiting" /\ thread = "recv" /\ cmds = <<>>
     /\ \E p \in Seq(Nat) : reply = <<[packets |-> p]>>

(* Where the thread may be while the caller is where it is. *)
InStep ==
  /\ caller \in {"idle", "encoder", "refused", "dropped"} => thread = "none"
  /\ caller = "spawning" => /\ thread \in {"init", "open", "failed", "recv"}
                            /\ thread = "recv" => reply # <<>>
  /\ caller \in {"ready", "returned", "joining"} => thread \in {"recv", "unwinding", "gone"}
  /\ caller = "waiting" => /\ thread \in {"recv", "drain", "unwinding", "gone"}
                           /\ thread = "recv" => reply # <<>> \/ Queued
  /\ thread = "drain" => caller = "waiting" /\ cmds = <<>> /\ ~idrOwed

(* Until there is a session nothing has gone through it. *)
NothingYet ==
  Creating => /\ cmds = <<>> /\ clones = {} /\ inside = <<>> /\ received = -1 /\ ~idrOwed
              /\ taken = 0 /\ got = 0 /\ lostPackets = 0

(* A call that waits, and the drop, are the last thing in the channel. *)
LastInChannel ==
  \A i \in 1..Len(cmds) :
    /\ cmds[i] = "encode" => i = Len(cmds) /\ caller = "waiting"
    /\ cmds[i] = "stop" => i = Len(cmds) /\ caller = "joining"

(* The frame is the thread's only while it is in the channel or encoded. *)
FrameIsThreads ==
  "command" \in clones => (thread = "recv" /\ Queued) \/ thread \in {"drain", "unwinding"}

(* Who has the device and the pool. *)
ObjectsHeld ==
  /\ caller \in {"idle", "refused", "dropped"} \/ thread = "gone" => device = {}
  /\ caller \in {"ready", "waiting", "returned", "joining"} => device \subseteq {"session"}
  /\ thread \in {"none", "init", "failed", "gone"} => pool \subseteq {"leak"}

(* A request is on its way to the thread, in front of the next frame. *)
RequestIsAhead ==
  idrOwed /\ thread = "recv" => enc.force_idr \/ \E i \in 1..Len(cmds) : cmds[i] = "idr"

(* Every picture taken is somewhere. *)
PicturesCounted == Alive => taken = got + lostPackets + Len(inside) + Len(Packets)

(* The numbers of the pictures increase, from the last received on. *)
NumbersIncrease ==
  /\ received < enc.pts
  /\ \A i \in 1..Len(inside) : received < inside[i].pts /\ inside[i].pts < enc.pts
  /\ \A i, j \in 1..Len(inside) : i < j => inside[i].pts < inside[j].pts
  /\ \A k \in 1..Len(Packets) :
       /\ received < Packets[k] /\ Packets[k] < enc.pts
       /\ \A i \in 1..Len(inside) : Packets[k] < inside[i].pts

(* The inductive invariant of the encode thread and its caller. *)
ThreadIInv ==
  /\ ThreadShape /\ ReplyIsAwaited /\ InStep /\ NothingYet /\ LastInChannel /\ FrameIsThreads
  /\ ObjectsHeld /\ RequestIsAhead /\ PicturesCounted /\ NumbersIncrease

(* A step of the creation of a session, before anything goes through it. *)
LEMMA CreationKeeps ==
  ASSUME ThreadIInv, Creating, UNCHANGED <<cmds, clones, inside, countVars>>,
         Creating' \/ (caller' = "ready" /\ reply' = <<>>), enc' = enc \/ enc' = EncInit,
         ThreadShape', ReplyIsAwaited', InStep', ObjectsHeld'
  PROVE  ThreadIInv'
<1> USE DEF ThreadIInv, countVars
<1>0. /\ cmds' = <<>> /\ clones' = {} /\ inside' = <<>> /\ received' = -1 /\ ~idrOwed'
      /\ taken' = 0 /\ got' = 0 /\ lostPackets' = 0 /\ Len(<<>>) = 0
  BY DEF NothingYet
<1>1. Packets' = <<>>  BY DEF Packets, Creating
<1>2. enc'.pts \in Nat  BY DEF ThreadShape
<1>3. PicturesCounted'  BY <1>0, <1>1, SMTT(30) DEF PicturesCounted
<1>4. NumbersIncrease'  BY <1>0, <1>1, <1>2, SMTT(30) DEF NumbersIncrease
<1>5. LastInChannel'  BY <1>0, SMTT(30) DEF LastInChannel
<1> QED  BY <1>0, <1>3, <1>4, <1>5 DEF NothingYet, FrameIsThreads, RequestIsAhead

(* The encoder is made, or is not. *)
LEMMA NewEncoderInv ==
  ASSUME ThreadIInv, NewEncoder \/ NewEncoderFails  PROVE ThreadIInv'
<1>0. /\ caller = "idle" /\ caller' \in {"encoder", "refused"} /\ device' \in {{}, {"encoder"}, device}
      /\ caller' = "refused" => device' = device
      /\ UNCHANGED <<thread, cmds, reply, clones, pool, enc, inside, countVars>>
  BY DEF NewEncoder, NewEncoderFails, channelVars, objectVars
<1>1. Creating /\ Creating'  BY <1>0 DEF Creating
<1>2. ThreadShape'
  <2>1. device' \subseteq {"encoder", "session"}  BY <1>0 DEF ThreadIInv, ThreadShape
  <2> QED  BY <1>0, <2>1 DEF ThreadIInv, ThreadShape, countVars
<1>3. ReplyIsAwaited'  BY <1>0 DEF ThreadIInv, ReplyIsAwaited
<1>4. InStep'  BY <1>0 DEF ThreadIInv, InStep
<1>5. ObjectsHeld'  BY <1>0 DEF ThreadIInv, ObjectsHeld, InStep
<1> QED  BY <1>0, <1>1, <1>2, <1>3, <1>4, <1>5, CreationKeeps

(* The thread is spawned. *)
LEMMA SpawnInv ==
  ASSUME ThreadIInv, Spawn  PROVE ThreadIInv'
<1>0. /\ caller = "encoder" /\ caller' = "spawning" /\ thread' = "init"
      /\ device' \in {{}, {"encoder", "session"}}
      /\ UNCHANGED <<cmds, reply, clones, pool, enc, inside, countVars>>
  BY DEF Spawn, channelVars
<1>1. Creating /\ Creating'  BY <1>0 DEF Creating
<1>2. ThreadShape'
  <2>1. device' \subseteq {"encoder", "session"}  BY <1>0
  <2> QED  BY <1>0, <2>1 DEF ThreadIInv, ThreadShape, countVars
<1>3. reply = <<>>  BY <1>0 DEF ThreadIInv, ReplyIsAwaited
<1>4. ReplyIsAwaited' /\ InStep'  BY <1>0, <1>3 DEF ReplyIsAwaited, InStep
<1>5. ObjectsHeld'  BY <1>0 DEF ThreadIInv, ObjectsHeld, InStep
<1> QED  BY <1>0, <1>1, <1>2, <1>4, <1>5, CreationKeeps

(* The thread's side of the creation. *)
LEMMA AllocInv ==
  ASSUME ThreadIInv, AllocPool \/ AllocPoolFails \/ OpenFails  PROVE ThreadIInv'
<1>0. /\ thread \in {"init", "open"} /\ thread' \in {"open", "failed"}
      /\ device' \in {device, {"session"}, device \ {"session"}}
      /\ pool' \subseteq {"state", "codec", "leak"}
      /\ thread' = "failed" => pool' \subseteq {"leak"}
      /\ UNCHANGED <<caller, cmds, reply, clones, enc, inside, countVars>>
  <2>1. pool \subseteq {"state", "codec", "leak"} /\ (thread = "init" => pool \subseteq {"leak"})
    BY DEF ThreadIInv, ThreadShape, ObjectsHeld
  <2>2. CASE AllocPool
    <3>1. pool' \subseteq {"state", "codec", "leak"}
      BY <2>1, <2>2 DEF AllocPool, HwFrames, VaSurfaces
    <3> QED  BY <2>2, <3>1 DEF AllocPool, channelVars
  <2>3. CASE AllocPoolFails  BY <2>1, <2>3 DEF AllocPoolFails, channelVars
  <2>4. CASE OpenFails  BY <2>1, <2>4 DEF OpenFails, channelVars
  <2> QED  BY <2>2, <2>3, <2>4
<1>1. caller = "spawning"  BY <1>0 DEF ThreadIInv, InStep, ThreadShape
<1>2. ThreadShape'
  <2>1. device' \subseteq {"encoder", "session"}  BY <1>0 DEF ThreadIInv, ThreadShape
  <2> QED  BY <1>0, <2>1 DEF ThreadIInv, ThreadShape, countVars
<1>3. reply = <<>>  BY <1>0, <1>1 DEF ThreadIInv, ReplyIsAwaited
<1>4. ReplyIsAwaited' /\ InStep'  BY <1>0, <1>1, <1>3 DEF ReplyIsAwaited, InStep
<1>5. ObjectsHeld'  BY <1>0, <1>1 DEF ObjectsHeld
<1>6. Creating /\ Creating'  BY <1>0, <1>1 DEF Creating
<1> QED  BY <1>0, <1>2, <1>4, <1>5, <1>6, CreationKeeps

(* The codec opens and the thread answers. *)
LEMMA OpenInv ==
  ASSUME ThreadIInv, Open  PROVE ThreadIInv'
<1>0. /\ thread = "open" /\ thread' = "recv" /\ enc' = EncInit /\ reply' = <<"ok">>
      /\ UNCHANGED <<caller, cmds, clones, device, pool, inside, countVars>>
  BY DEF Open, objectVars
<1>1. caller = "spawning"  BY <1>0 DEF ThreadIInv, InStep, ThreadShape
<1>2. ThreadShape'
  <2>1. enc' \in [force_idr : BOOLEAN, pts : Nat]  BY <1>0 DEF EncInit
  <2> QED  BY <1>0, <2>1 DEF ThreadIInv, ThreadShape, countVars
<1>3. reply' # <<>>  BY <1>0
<1>4. ReplyIsAwaited' /\ InStep'  BY <1>0, <1>1, <1>3 DEF ReplyIsAwaited, InStep
<1>5. ObjectsHeld'  BY <1>0, <1>1 DEF ObjectsHeld
<1>6. Creating /\ Creating'  BY <1>0, <1>1 DEF Creating
<1> QED  BY <1>0, <1>2, <1>4, <1>5, <1>6, CreationKeeps

(* The failed thread is joined. *)
LEMMA ReportFailureInv ==
  ASSUME ThreadIInv, ReportFailure  PROVE ThreadIInv'
<1>0. /\ thread = "failed" /\ caller = "spawning" /\ thread' = "none" /\ device' = {}
      /\ caller' = "refused"
      /\ UNCHANGED <<cmds, reply, clones, pool, enc, inside, countVars>>
  BY DEF ReportFailure, channelVars
<1>2. ThreadShape'  BY <1>0 DEF ThreadIInv, ThreadShape, countVars
<1>3. reply = <<>>  BY <1>0 DEF ThreadIInv, ReplyIsAwaited
<1>4. ReplyIsAwaited' /\ InStep'  BY <1>0, <1>3 DEF ReplyIsAwaited, InStep
<1>5. ObjectsHeld'  BY <1>0 DEF ThreadIInv, ObjectsHeld
<1>6. Creating /\ Creating'  BY <1>0 DEF Creating
<1> QED  BY <1>0, <1>2, <1>4, <1>5, <1>6, CreationKeeps

(* The session is handed over. *)
LEMMA SpawnedInv ==
  ASSUME ThreadIInv, Spawned  PROVE ThreadIInv'
<1>0. /\ caller = "spawning" /\ reply # <<>> /\ reply' = <<>> /\ device' = device \ {"encoder"}
      /\ caller' = "ready"
      /\ UNCHANGED <<thread, cmds, clones, pool, enc, inside, countVars>>
  BY DEF Spawned
<1>1. thread = "recv"  BY <1>0 DEF ThreadIInv, ReplyIsAwaited
<1>2. ThreadShape'  BY <1>0 DEF ThreadIInv, ThreadShape, countVars
<1>4. ReplyIsAwaited' /\ InStep'  BY <1>0, <1>1 DEF ReplyIsAwaited, InStep
<1>5. ObjectsHeld'  BY <1>0, <1>1 DEF ThreadIInv, ObjectsHeld, ThreadShape
<1>6. Creating  BY <1>0 DEF Creating
<1> QED  BY <1>0, <1>2, <1>4, <1>5, <1>6, CreationKeeps

(* What is in the channel. *)
LEMMA QueuedFacts ==
  ASSUME cmds \in Seq(Commands)
  PROVE  /\ Queued <=> \E i \in 1..Len(cmds) : cmds[i] = "encode"
         /\ Len(cmds) \in Nat /\ (cmds # <<>> => Len(cmds) >= 1)
<1>1. DOMAIN cmds = 1..Len(cmds) /\ Len(cmds) \in Nat  BY LenProperties
<1>2. cmds # <<>> => Len(cmds) >= 1  BY EmptySeq, SMTT(30)
<1> QED  BY <1>1, <1>2 DEF Queued

(* A command is put behind the others. *)
LEMMA EnqueueFacts ==
  ASSUME cmds \in Seq(Commands), NEW c \in Commands, cmds' = Append(cmds, c)
  PROVE  /\ cmds' \in Seq(Commands) /\ Len(cmds') = Len(cmds) + 1 /\ cmds'[Len(cmds) + 1] = c
         /\ \A i \in 1..Len(cmds) : cmds'[i] = cmds[i]
         /\ \A i \in 1..Len(cmds') : i = Len(cmds) + 1 \/ i \in 1..Len(cmds)
         /\ Len(cmds) + 1 \in 1..Len(cmds') /\ 1..Len(cmds) \subseteq 1..Len(cmds')
         /\ Queued' <=> Queued \/ c = "encode"
<1>1. /\ cmds' \in Seq(Commands) /\ Len(cmds') = Len(cmds) + 1 /\ cmds'[Len(cmds) + 1] = c
      /\ \A i \in 1..Len(cmds) : cmds'[i] = cmds[i]
  BY AppendProperties, SMTT(30)
<1>2. Len(cmds) \in Nat  BY LenProperties
<1>3. /\ \A i \in 1..Len(cmds') : i = Len(cmds) + 1 \/ i \in 1..Len(cmds)
      /\ Len(cmds) + 1 \in 1..Len(cmds') /\ 1..Len(cmds) \subseteq 1..Len(cmds')
  BY <1>1, <1>2, SMTT(30)
<1>4. Queued' <=> \E i \in 1..Len(cmds') : cmds'[i] = "encode"
  <2>1. DOMAIN (cmds') = 1..Len(cmds')  BY <1>1, LenProperties
  <2> QED  BY <2>1 DEF Queued
<1>5. Queued <=> \E i \in 1..Len(cmds) : cmds[i] = "encode"  BY QueuedFacts
<1>6. Queued' <=> Queued \/ c = "encode"  BY <1>1, <1>3, <1>4, <1>5
<1> QED  BY <1>1, <1>3, <1>6

(* The first command is taken. *)
LEMMA DequeueFacts ==
  ASSUME cmds \in Seq(Commands), cmds # <<>>, cmds' = Tail(cmds)
  PROVE  /\ cmds' \in Seq(Commands) /\ Head(cmds) = cmds[1] /\ 1 \in 1..Len(cmds)
         /\ Len(cmds') = Len(cmds) - 1 /\ Len(cmds) \in Nat
         /\ \A i \in 1..Len(cmds') : cmds'[i] = cmds[i + 1] /\ i + 1 \in 1..Len(cmds)
         /\ \A i \in 1..Len(cmds) : i # 1 => i - 1 \in 1..Len(cmds') /\ cmds'[i - 1] = cmds[i]
         /\ Queued' => Queued
         /\ Head(cmds) # "encode" => (Queued' <=> Queued)
         /\ Len(cmds) = 1 => cmds' = <<>>
<1>1. /\ cmds' \in Seq(Commands) /\ Len(cmds') = Len(cmds) - 1
      /\ \A i \in 1..Len(cmds') : cmds'[i] = cmds[i + 1]
  BY HeadTailProperties
<1>2. Len(cmds) \in Nat /\ Len(cmds) >= 1  BY QueuedFacts
<1>3. Head(cmds) = cmds[1]  BY SMTT(30)
<1>4. /\ \A i \in 1..Len(cmds') : i + 1 \in 1..Len(cmds)
      /\ \A i \in 1..Len(cmds) : i # 1 => i - 1 \in 1..Len(cmds')
  BY <1>1, <1>2, SMTT(30)
<1>5. \A i \in 1..Len(cmds) : i # 1 => cmds'[i - 1] = cmds[i]
  <2>1. ASSUME NEW i \in 1..Len(cmds), i # 1 PROVE cmds'[i - 1] = cmds[i]
    <3>1. i - 1 \in 1..Len(cmds') /\ (i - 1) + 1 = i  BY <1>2, <1>4, <2>1, SMTT(30)
    <3> QED  BY <1>1, <3>1
  <2> QED  BY <2>1
<1>6. Queued' <=> \E i \in 1..Len(cmds') : cmds'[i] = "encode"
  <2>1. DOMAIN (cmds') = 1..Len(cmds')  BY <1>1, LenProperties
  <2> QED  BY <2>1 DEF Queued
<1>7. Queued <=> \E i \in 1..Len(cmds) : cmds[i] = "encode"  BY QueuedFacts
<1>8. Queued' => Queued  BY <1>1, <1>4, <1>6, <1>7
<1>9. Head(cmds) # "encode" /\ Queued => Queued'  BY <1>3, <1>4, <1>5, <1>6, <1>7
<1>10. Len(cmds) = 1 => cmds' = <<>>  BY <1>1, EmptySeq, SMTT(30)
<1> QED  BY <1>1, <1>2, <1>3, <1>4, <1>5, <1>8, <1>9, <1>10, SMTT(30)

(* A step that neither takes, drains nor receives a picture. *)
LEMMA PicturesStay ==
  ASSUME ThreadIInv, UNCHANGED <<inside, received, taken, got, lostPackets>>, enc'.pts = enc.pts,
         Packets' = Packets, Alive' => Alive
  PROVE  PicturesCounted' /\ NumbersIncrease'
BY DEF ThreadIInv, PicturesCounted, NumbersIncrease

(* Between calls nothing is awaited. *)
LEMMA ReadyFacts ==
  ASSUME ThreadIInv, caller = "ready"
  PROVE  /\ reply = <<>> /\ ~Queued /\ thread \in {"recv", "unwinding", "gone"}
         /\ \A i \in 1..Len(cmds) : cmds[i] # "encode" /\ cmds[i] # "stop"
         /\ Alive <=> thread # "gone"
<1>1. reply = <<>>  BY DEF ThreadIInv, ReplyIsAwaited
<1>2. thread \in {"recv", "unwinding", "gone"}  BY DEF ThreadIInv, InStep
<1>3. \A i \in 1..Len(cmds) : cmds[i] # "encode" /\ cmds[i] # "stop"
  BY DEF ThreadIInv, LastInChannel
<1>4. ~Queued  BY <1>3, QueuedFacts DEF ThreadIInv, ThreadShape
<1> QED  BY <1>1, <1>2, <1>3, <1>4 DEF Alive

(* encode puts its frame behind what is in the channel. *)
LEMMA CallEncodeInv ==
  ASSUME ThreadIInv, CallEncode  PROVE ThreadIInv'
<1> USE DEF ThreadIInv
<1>0. /\ caller = "ready"
      /\ UNCHANGED <<thread, reply, device, pool, enc, inside, received, idrOwed, taken, got,
                     lostPackets>>
  BY DEF CallEncode, objectVars, countVars
<1>1. /\ reply = <<>> /\ ~Queued /\ thread \in {"recv", "unwinding", "gone"}
      /\ \A i \in 1..Len(cmds) : cmds[i] # "encode" /\ cmds[i] # "stop"
      /\ Alive <=> thread # "gone"
  BY <1>0, ReadyFacts
<1>2. CASE thread = "gone"
  <2>1. UNCHANGED <<cmds, clones, caller>>  BY <1>1, <1>2 DEF CallEncode
  <2>2. Packets' = Packets /\ (Alive' <=> Alive)  BY <1>0, <2>1 DEF Packets, Alive
  <2>3. PicturesCounted' /\ NumbersIncrease'  BY <1>0, <2>2, PicturesStay
  <2> QED  BY <1>0, <2>1, <2>3 DEF ThreadShape, ReplyIsAwaited, InStep, Queued, NothingYet, Creating,
                                   LastInChannel, FrameIsThreads, ObjectsHeld, RequestIsAhead
<1>3. CASE thread # "gone"
  <2>1. cmds' = Append(cmds, "encode") /\ clones' = {"caller", "command"} /\ caller' = "waiting"
    BY <1>1, <1>3 DEF CallEncode
  <2>2. /\ cmds' \in Seq(Commands) /\ Len(cmds') = Len(cmds) + 1 /\ cmds'[Len(cmds) + 1] = "encode"
        /\ \A i \in 1..Len(cmds) : cmds'[i] = cmds[i]
        /\ \A i \in 1..Len(cmds') : i = Len(cmds) + 1 \/ i \in 1..Len(cmds)
        /\ 1..Len(cmds) \subseteq 1..Len(cmds') /\ Queued'
    BY <2>1, EnqueueFacts DEF ThreadShape, Commands
  <2>3. Packets' = Packets /\ (Alive' <=> Alive)  BY <1>0, <1>1 DEF Packets, Alive
  <2>4. PicturesCounted' /\ NumbersIncrease'  BY <1>0, <2>3, PicturesStay
  <2>5. ThreadShape'  BY <1>0, <2>1, <2>2 DEF ThreadShape
  <2>6. InStep'  BY <1>0, <1>1, <2>1, <2>2 DEF InStep
  <2>7. LastInChannel'  BY <1>1, <2>1, <2>2 DEF LastInChannel
  <2>8. FrameIsThreads'  BY <1>0, <1>1, <1>3, <2>2 DEF FrameIsThreads
  <2>9. RequestIsAhead'  BY <1>0, <2>2 DEF RequestIsAhead
  <2> QED  BY <1>0, <1>1, <1>3, <2>1, <2>4, <2>5, <2>6, <2>7, <2>8, <2>9
           DEF ReplyIsAwaited, NothingYet, Creating, ObjectsHeld
<1> QED  BY <1>2, <1>3

(* The caller lets go of its frame. *)
LEMMA ReclaimInv ==
  ASSUME ThreadIInv, Reclaim  PROVE ThreadIInv'
<1> USE DEF ThreadIInv
<1>0. /\ caller = "returned" /\ caller' = "ready" /\ clones' = clones \ {"caller"}
      /\ UNCHANGED <<thread, cmds, reply, device, pool, enc, inside, received, idrOwed, taken, got,
                     lostPackets>>
  BY DEF Reclaim, objectVars, countVars
<1>1. Packets' = Packets /\ (Alive' <=> Alive)  BY <1>0 DEF Packets, Alive
<1>2. PicturesCounted' /\ NumbersIncrease'  BY <1>0, <1>1, PicturesStay
<1>3. ThreadShape'  BY <1>0 DEF ThreadShape
<1> QED  BY <1>0, <1>2, <1>3 DEF ReplyIsAwaited, InStep, Queued, NothingYet, Creating,
                                 LastInChannel, FrameIsThreads, ObjectsHeld, RequestIsAhead

(* The answer the caller waits for. *)
LEMMA AnswerFacts ==
  ASSUME ThreadIInv, caller = "waiting", reply # <<>>
  PROVE  /\ thread = "recv" /\ cmds = <<>> /\ ~Queued
         /\ Packets \in Seq(Nat) /\ Packets = reply[1].packets
         /\ Len(reply) = 1
<1>1. thread = "recv" /\ cmds = <<>>  BY DEF ThreadIInv, ReplyIsAwaited
<1>2. PICK p \in Seq(Nat) : reply = <<[packets |-> p]>>  BY DEF ThreadIInv, ReplyIsAwaited
<1>3. reply[1] = [packets |-> p] /\ Len(reply) = 1  BY <1>2
<1>4. reply[1].packets = p  BY <1>3, SMTT(30)
<1>5. Packets = reply[1].packets  BY DEF Packets
<1>6. ~Queued
  <2>1. Len(cmds) = 0  BY <1>1, EmptySeq
  <2> QED  BY <2>1, QueuedFacts, SMTT(30) DEF ThreadIInv, ThreadShape
<1> QED  BY <1>1, <1>2, <1>3, <1>4, <1>5, <1>6

(* The caller has its answer, or learns that there will be none. *)
LEMMA EncodeReturnedInv ==
  ASSUME ThreadIInv, EncodeReturned  PROVE ThreadIInv'
<1> USE DEF ThreadIInv
<1>0. /\ caller = "waiting" /\ caller' = "returned"
      /\ UNCHANGED <<thread, cmds, clones, device, pool, enc, inside, idrOwed, taken, lostPackets>>
  BY DEF EncodeReturned, objectVars
<1>1. ~Queued
  <2>1. CASE reply # <<>>  BY <1>0, <2>1, AnswerFacts
  <2>2. CASE ReplyDropped  BY <2>2 DEF ReplyDropped
  <2> QED  BY <2>1, <2>2 DEF EncodeReturned
<1>2. \A i \in 1..Len(cmds) : cmds[i] # "encode" /\ cmds[i] # "stop"
  BY <1>0, <1>1, QueuedFacts DEF ThreadShape, LastInChannel
<1>3. thread \in {"recv", "unwinding", "gone"}
  BY <1>0, AnswerFacts DEF EncodeReturned, ReplyDropped
<1>4. reply' = <<>>  BY DEF EncodeReturned, ReplyDropped
<1>5. Packets' = <<>> /\ Len(<<>>) = 0  BY <1>0 DEF Packets
<1>6. (Alive' <=> Alive) /\ (Queued' <=> Queued)  BY <1>0 DEF Alive, Queued
<1>7. received' \in Int /\ got' \in Nat /\ PicturesCounted' /\ NumbersIncrease'
  <2>1. CASE reply # <<>> /\ got' = got + Len(reply[1].packets)
             /\ received' = IF reply[1].packets = <<>> THEN received
                            ELSE reply[1].packets[Len(reply[1].packets)]
    <3>1. Packets \in Seq(Nat) /\ Packets = reply[1].packets  BY <1>0, <2>1, AnswerFacts
    <3> DEFINE p == Packets
    <3>2. /\ p \in Seq(Nat) /\ got' = got + Len(p)
          /\ received' = IF p = <<>> THEN received ELSE p[Len(p)]
      BY <2>1, <3>1
    <3>3. Len(p) \in Nat /\ (p # <<>> => Len(p) >= 1 /\ Len(p) \in 1..Len(p))
      BY <3>2, LenProperties, EmptySeq, SMTT(30)
    <3>4. p # <<>> => p[Len(p)] \in Nat  BY <3>2, <3>3, ElementOfSeq
    <3>5. /\ Alive => taken = got + lostPackets + Len(inside) + Len(p)
          /\ received < enc.pts
          /\ \A i \in 1..Len(inside) : received < inside[i].pts /\ inside[i].pts < enc.pts
          /\ \A i, j \in 1..Len(inside) : i < j => inside[i].pts < inside[j].pts
          /\ \A k \in 1..Len(p) :
               /\ received < p[k] /\ p[k] < enc.pts
               /\ \A i \in 1..Len(inside) : p[k] < inside[i].pts
      BY DEF PicturesCounted, NumbersIncrease
    <3> HIDE DEF p
    <3>6. received' \in Int /\ got' \in Nat  BY <3>2, <3>3, <3>4, SMTT(30) DEF ThreadShape
    <3>7. Len(inside) \in Nat  BY LenProperties DEF ThreadShape
    <3>8. PicturesCounted'
      <4>1. Alive => taken = (got + Len(p)) + lostPackets + Len(inside) + 0
        BY <3>3, <3>5, <3>7, SMTT(30) DEF ThreadShape
      <4> QED  BY <1>0, <1>5, <1>6, <3>2, <4>1 DEF PicturesCounted
    <3>9. /\ received' < enc.pts /\ \A i \in 1..Len(inside) : received' < inside[i].pts
      BY <3>2, <3>3, <3>5
    <3>10. NumbersIncrease'  BY <1>0, <1>5, <3>5, <3>9, SMTT(30) DEF NumbersIncrease
    <3> QED  BY <3>6, <3>8, <3>10
  <2>2. CASE ReplyDropped /\ UNCHANGED <<reply, got, received>>
    <3>1. Packets = <<>>  BY <2>2 DEF Packets, ReplyDropped
    <3>2. PicturesCounted' /\ NumbersIncrease'
      BY <1>0, <1>5, <1>6, <2>2, <3>1, PicturesStay
    <3> QED  BY <2>2, <3>2 DEF ThreadShape
  <2> QED  BY <2>1, <2>2 DEF EncodeReturned
<1>8. ThreadShape'  BY <1>0, <1>7 DEF ThreadShape
<1>9. InStep'  BY <1>0, <1>3 DEF InStep
<1>10. LastInChannel'  BY <1>0, <1>2 DEF LastInChannel
<1> QED  BY <1>0, <1>4, <1>6, <1>7, <1>8, <1>9, <1>10
         DEF ReplyIsAwaited, NothingYet, Creating, FrameIsThreads, ObjectsHeld, RequestIsAhead

(* request_idr, set_bitrate and Drop put a command in the channel. *)
LEMMA CommandInv ==
  ASSUME ThreadIInv, caller = "ready", NEW c \in {"idr", "bitrate", "stop"},
         cmds' = IF Alive THEN Append(cmds, c) ELSE cmds,
         caller' = (IF c = "stop" THEN "joining" ELSE "ready"),
         idrOwed' = (IF c = "idr" THEN TRUE ELSE idrOwed),
         UNCHANGED <<thread, reply, clones, device, pool, enc, inside, received, taken, got, lostPackets>>
  PROVE  ThreadIInv'
<1> USE DEF ThreadIInv
<1>1. /\ reply = <<>> /\ ~Queued /\ thread \in {"recv", "unwinding", "gone"}
      /\ \A i \in 1..Len(cmds) : cmds[i] # "encode" /\ cmds[i] # "stop"
      /\ Alive <=> thread # "gone"
  BY ReadyFacts
<1>2. Packets' = Packets /\ (Alive' <=> Alive)  BY <1>1 DEF Packets, Alive
<1>3. PicturesCounted' /\ NumbersIncrease'  BY <1>2, PicturesStay
<1>4. idrOwed' \in BOOLEAN  BY DEF ThreadShape
<1>5. CASE Alive
  <2>1. c \in Commands /\ cmds' = Append(cmds, c)  BY <1>5 DEF Commands
  <2>2. /\ cmds' \in Seq(Commands) /\ Len(cmds') = Len(cmds) + 1 /\ cmds'[Len(cmds) + 1] = c
        /\ \A i \in 1..Len(cmds) : cmds'[i] = cmds[i]
        /\ \A i \in 1..Len(cmds') : i = Len(cmds) + 1 \/ i \in 1..Len(cmds)
        /\ Len(cmds) + 1 \in 1..Len(cmds') /\ 1..Len(cmds) \subseteq 1..Len(cmds')
        /\ Queued' <=> Queued \/ c = "encode"
    BY <2>1, EnqueueFacts DEF ThreadShape
  <2>3. ~Queued'  BY <1>1, <2>2
  <2>4. ThreadShape'  BY <1>4, <2>2 DEF ThreadShape
  <2>5. InStep'  BY <1>1 DEF InStep
  <2>6. LastInChannel'  BY <1>1, <2>2 DEF LastInChannel
  <2>7. RequestIsAhead'
    <3>1. CASE c = "idr"  BY <2>2, <3>1 DEF RequestIsAhead
    <3>2. CASE c # "idr"  BY <2>2, <3>2 DEF RequestIsAhead
    <3> QED  BY <3>1, <3>2
  <2>8. FrameIsThreads'  BY <1>1, <2>3 DEF FrameIsThreads
  <2> QED  BY <1>1, <1>3, <2>4, <2>5, <2>6, <2>7, <2>8
           DEF ReplyIsAwaited, NothingYet, Creating, ObjectsHeld
<1>6. CASE ~Alive
  <2>1. cmds' = cmds /\ thread = "gone"  BY <1>1, <1>6
  <2>2. ThreadShape'  BY <1>4, <2>1 DEF ThreadShape
  <2>3. LastInChannel'  BY <1>1, <2>1 DEF LastInChannel
  <2>4. FrameIsThreads'  BY <1>1, <2>1 DEF FrameIsThreads
  <2> QED  BY <1>1, <1>3, <2>1, <2>2, <2>3, <2>4
           DEF ReplyIsAwaited, NothingYet, Creating, ObjectsHeld, InStep, RequestIsAhead
<1> QED  BY <1>5, <1>6

(* The calls that do not wait for an answer. *)
LEMMA CallsInv ==
  ASSUME ThreadIInv, CallRequestIdr \/ CallSetBitrate \/ CallDrop  PROVE ThreadIInv'
<1> USE DEF objectVars, countVars
<1>1. CASE CallRequestIdr  BY <1>1, CommandInv DEF CallRequestIdr
<1>2. CASE CallSetBitrate  BY <1>2, CommandInv DEF CallSetBitrate
<1>3. CASE CallDrop  BY <1>3, CommandInv DEF CallDrop
<1> QED  BY <1>1, <1>2, <1>3

(* The dropped session has joined its thread. *)
LEMMA JoinedInv ==
  ASSUME ThreadIInv, Joined  PROVE ThreadIInv'
<1> USE DEF ThreadIInv
<1>0. /\ caller = "joining" /\ thread = "gone" /\ thread' = "none" /\ cmds' = <<>> /\ caller' = "dropped"
      /\ UNCHANGED <<reply, clones, device, pool, enc, inside, received, idrOwed, taken, got, lostPackets>>
  BY DEF Joined, objectVars, countVars
<1>1. reply = <<>>  BY <1>0 DEF ReplyIsAwaited
<1>2. Packets' = Packets /\ ~Alive'  BY <1>0, <1>1 DEF Packets, Alive
<1>3. PicturesCounted' /\ NumbersIncrease'  BY <1>0, <1>2, PicturesStay
<1>4. cmds' \in Seq(Commands) /\ Len(cmds') = 0  BY <1>0, SMTT(30)
<1>5. ThreadShape'  BY <1>0, <1>4 DEF ThreadShape
<1>6. LastInChannel'  BY <1>4, SMTT(30) DEF LastInChannel
<1> QED  BY <1>0, <1>1, <1>3, <1>5, <1>6
         DEF ReplyIsAwaited, NothingYet, Creating, ObjectsHeld, InStep, RequestIsAhead, FrameIsThreads

(* A command taken from the channel. *)
LEMMA ReceiveFacts ==
  ASSUME ThreadIInv, NEW c, Receive(c)
  PROVE  /\ reply = <<>> /\ thread = "recv" /\ caller \in {"ready", "waiting", "returned", "joining"}
         /\ cmds \in Seq(Commands) /\ cmds # <<>> /\ Head(cmds) = c
         /\ c = "encode" => caller = "waiting" /\ Len(cmds) = 1
<1> USE DEF ThreadIInv
<1>1. thread = "recv" /\ cmds # <<>> /\ Head(cmds) = c  BY DEF Receive
<1>2. cmds \in Seq(Commands)  BY DEF ThreadShape
<1>3. caller \in {"ready", "waiting", "returned", "joining"}
  BY <1>1 DEF ThreadShape, InStep, NothingYet, Creating
<1>4. reply = <<>>  BY <1>1, <1>3 DEF ReplyIsAwaited
<1>5. c = "encode" => caller = "waiting" /\ Len(cmds) = 1
  <2>1. 1 \in 1..Len(cmds) /\ Head(cmds) = cmds[1]  BY <1>1, <1>2, QueuedFacts, SMTT(30)
  <2> QED  BY <1>1, <2>1 DEF LastInChannel
<1> QED  BY <1>1, <1>2, <1>3, <1>4, <1>5

(* Apart from an encode, a command leaves what was queued behind it. *)
LEMMA AppliedInv ==
  ASSUME ThreadIInv, ApplyIdr \/ ApplyBitrate  PROVE ThreadIInv'
<1> USE DEF ThreadIInv
<1>0. PICK c \in {"idr", "bitrate"} :
        /\ Receive(c) /\ cmds' = Tail(cmds)
        /\ enc' = (IF c = "idr" THEN [enc EXCEPT !.force_idr = TRUE] ELSE enc)
        /\ UNCHANGED <<caller, thread, reply, clones, device, pool, inside, received, idrOwed, taken,
                       got, lostPackets>>
  BY DEF ApplyIdr, ApplyBitrate, objectVars, countVars
<1>1. /\ reply = <<>> /\ thread = "recv" /\ caller \in {"ready", "waiting", "returned", "joining"}
      /\ cmds \in Seq(Commands) /\ cmds # <<>> /\ Head(cmds) = c
  BY <1>0, ReceiveFacts
<1>2. /\ cmds' \in Seq(Commands) /\ cmds[1] = c /\ Len(cmds') = Len(cmds) - 1 /\ Len(cmds) \in Nat
      /\ \A i \in 1..Len(cmds') : cmds'[i] = cmds[i + 1] /\ i + 1 \in 1..Len(cmds)
      /\ \A i \in 1..Len(cmds) : i # 1 => i - 1 \in 1..Len(cmds') /\ cmds'[i - 1] = cmds[i]
      /\ Queued' <=> Queued
  BY <1>0, <1>1, DequeueFacts
<1>3. /\ enc' \in [force_idr : BOOLEAN, pts : Nat] /\ enc'.pts = enc.pts
      /\ c = "idr" => enc'.force_idr
      /\ c # "idr" => enc'.force_idr = enc.force_idr
  BY <1>0 DEF ThreadShape
<1>4. Packets' = Packets /\ (Alive' <=> Alive)  BY <1>0, <1>1 DEF Packets, Alive
<1>5. PicturesCounted' /\ NumbersIncrease'  BY <1>0, <1>3, <1>4, PicturesStay
<1>6. ThreadShape'  BY <1>0, <1>2, <1>3 DEF ThreadShape
<1>7. InStep'  BY <1>0, <1>1, <1>2 DEF InStep
<1>8. LastInChannel'
  <2>1. ASSUME NEW i \in 1..Len(cmds')
        PROVE  /\ cmds'[i] = "encode" => i = Len(cmds') /\ caller' = "waiting"
               /\ cmds'[i] = "stop" => i = Len(cmds') /\ caller' = "joining"
    <3>1. cmds'[i] = cmds[i + 1] /\ i + 1 \in 1..Len(cmds)  BY <1>2
    <3>2. /\ cmds[i + 1] = "encode" => i + 1 = Len(cmds) /\ caller = "waiting"
          /\ cmds[i + 1] = "stop" => i + 1 = Len(cmds) /\ caller = "joining"
      BY <3>1 DEF LastInChannel
    <3> QED  BY <1>0, <1>2, <3>1, <3>2, SMTT(30)
  <2> QED  BY <2>1 DEF LastInChannel
<1>9. RequestIsAhead'
  <2>1. CASE c = "idr"  BY <1>3, <2>1 DEF RequestIsAhead
  <2>2. CASE c # "idr"
    <3>1. ASSUME NEW i \in 1..Len(cmds), cmds[i] = "idr"
          PROVE  i - 1 \in 1..Len(cmds') /\ cmds'[i - 1] = "idr"
      BY <1>2, <2>2, <3>1
    <3> QED  BY <1>0, <1>3, <2>2, <3>1 DEF RequestIsAhead
  <2> QED  BY <2>1, <2>2
<1>10. FrameIsThreads'  BY <1>0, <1>1, <1>2 DEF FrameIsThreads
<1> QED  BY <1>0, <1>1, <1>5, <1>6, <1>7, <1>8, <1>9, <1>10
         DEF ReplyIsAwaited, NothingYet, Creating, ObjectsHeld

(* Stop is the last command of all. *)
LEMMA StopInv ==
  ASSUME ThreadIInv, Stop  PROVE ThreadIInv'
<1> USE DEF ThreadIInv
<1>0. /\ Receive("stop") /\ thread' = "gone" /\ device' = device \ {"session"}
      /\ pool' = pool \cap {"leak"} /\ inside' = <<>>
      /\ UNCHANGED <<caller, cmds, reply, clones, enc, received, idrOwed, taken, got, lostPackets>>
  BY DEF Stop, channelVars, countVars
<1>1. /\ reply = <<>> /\ thread = "recv" /\ caller \in {"ready", "waiting", "returned", "joining"}
      /\ cmds \in Seq(Commands) /\ cmds # <<>> /\ Head(cmds) = "stop"
  BY <1>0, ReceiveFacts
<1>2. 1 \in 1..Len(cmds) /\ cmds[1] = "stop" /\ Len(cmds) \in Nat  BY <1>1, QueuedFacts, SMTT(30)
<1>3. caller = "joining" /\ Len(cmds) = 1  BY <1>2 DEF LastInChannel
<1>4. ~Queued
  <2>1. \A i \in 1..Len(cmds) : i = 1  BY <1>3, SMTT(30)
  <2> QED  BY <1>1, <1>2, <2>1, QueuedFacts
<1>5. "command" \notin clones  BY <1>1, <1>4 DEF FrameIsThreads
<1>6. device' = {}  BY <1>0, <1>3 DEF ObjectsHeld
<1>7. inside' \in Seq(Picture) /\ Len(inside') = 0  BY <1>0, SMTT(30)
<1>8. ThreadShape'  BY <1>0, <1>6, <1>7 DEF ThreadShape
<1>9. ~Alive'  BY <1>0 DEF Alive
<1>10. Packets' = <<>> /\ Packets = <<>> /\ Len(<<>>) = 0  BY <1>0, <1>1 DEF Packets
<1>11. PicturesCounted'  BY <1>9 DEF PicturesCounted
<1>12. NumbersIncrease'  BY <1>0, <1>7, <1>10, SMTT(30) DEF NumbersIncrease
<1>13. LastInChannel'  BY <1>0 DEF LastInChannel
<1> QED  BY <1>0, <1>1, <1>3, <1>5, <1>6, <1>8, <1>11, <1>12, <1>13
         DEF ReplyIsAwaited, NothingYet, Creating, ObjectsHeld, InStep, RequestIsAhead, FrameIsThreads

(* A panic begins while the frame is with the thread, *)
LEMMA PanicInv ==
  ASSUME ThreadIInv, Panic  PROVE ThreadIInv'
<1> USE DEF ThreadIInv
<1>0. /\ thread = "drain" /\ thread' = "unwinding"
      /\ UNCHANGED <<caller, cmds, reply, clones, device, pool, enc, inside, received, idrOwed, taken,
                     got, lostPackets>>
  BY DEF Panic, channelVars, objectVars, countVars
<1>1. caller = "waiting" /\ reply = <<>>  BY <1>0 DEF InStep, ReplyIsAwaited
<1>2. Packets' = Packets /\ (Alive' <=> Alive)  BY <1>0 DEF Packets, Alive
<1>3. PicturesCounted' /\ NumbersIncrease'  BY <1>0, <1>2, PicturesStay
<1>4. ThreadShape'  BY <1>0 DEF ThreadShape
<1> QED  BY <1>0, <1>1, <1>3, <1>4
         DEF ReplyIsAwaited, NothingYet, Creating, ObjectsHeld, InStep, RequestIsAhead, FrameIsThreads,
             LastInChannel

(* and ends with everything of the thread dropped. *)
LEMMA UnwoundInv ==
  ASSUME ThreadIInv, Unwound  PROVE ThreadIInv'
<1> USE DEF ThreadIInv
<1>0. /\ thread = "unwinding" /\ thread' = "gone" /\ device' = device \ {"session"}
      /\ pool' = pool \cap {"leak"} /\ inside' = <<>> /\ cmds' = <<>> /\ clones' = clones \ {"command"}
      /\ UNCHANGED <<caller, reply, enc, received, idrOwed, taken, got, lostPackets>>
  BY DEF Unwound, countVars
<1>1. caller \in {"ready", "waiting", "returned", "joining"} /\ reply = <<>>
  BY <1>0 DEF InStep, ReplyIsAwaited, ThreadShape
<1>2. device' = {}  BY <1>0, <1>1 DEF ObjectsHeld
<1>3. cmds' \in Seq(Commands) /\ Len(cmds') = 0 /\ inside' \in Seq(Picture) /\ Len(inside') = 0
  BY <1>0, SMTT(30)
<1>4. ThreadShape'  BY <1>0, <1>2, <1>3 DEF ThreadShape
<1>5. ~Alive'  BY <1>0 DEF Alive
<1>6. Packets' = <<>> /\ Len(<<>>) = 0  BY <1>0, <1>1 DEF Packets
<1>7. PicturesCounted'  BY <1>5 DEF PicturesCounted
<1>8. NumbersIncrease'  BY <1>0, <1>3, <1>6, SMTT(30) DEF NumbersIncrease
<1>9. LastInChannel'  BY <1>3, SMTT(30) DEF LastInChannel
<1> QED  BY <1>0, <1>1, <1>2, <1>4, <1>7, <1>8, <1>9
         DEF ReplyIsAwaited, NothingYet, Creating, ObjectsHeld, InStep, RequestIsAhead, FrameIsThreads

(* The thread's number after it handed a frame to the codec. *)
LEMMA AfterSendFacts ==
  ASSUME ThreadShape, NEW ok \in BOOLEAN
  PROVE  /\ AfterSend(ok) \in [force_idr : BOOLEAN, pts : Nat]
         /\ AfterSend(ok).pts \in {enc.pts, enc.pts + 1}
         /\ ok => AfterSend(ok).pts = enc.pts + 1
         /\ enc.pts \in Nat
<1>1. enc \in [force_idr : BOOLEAN, pts : Nat]  BY DEF ThreadShape
<1>2. enc.pts \in Nat  BY <1>1
<1> DEFINE q == IF ok \/ backend # "vaapi" THEN enc.pts + 1 ELSE enc.pts
<1>3. AfterSend(ok) = [enc EXCEPT !.force_idr = FALSE, !.pts = q]  BY <1>1 DEF AfterSend
<1>4. q \in Nat /\ q \in {enc.pts, enc.pts + 1} /\ (ok => q = enc.pts + 1)  BY <1>2, SMTT(30)
<1> HIDE DEF q
<1> QED  BY <1>1, <1>2, <1>3, <1>4

(* The pictures in the codec are numbered. *)
LEMMA InsideFacts ==
  ASSUME ThreadShape
  PROVE  Len(inside) \in Nat /\ \A i \in 1..Len(inside) : inside[i].pts \in Nat
<1>1. inside \in Seq(Picture)  BY DEF ThreadShape
<1>2. Len(inside) \in Nat  BY <1>1, LenProperties
<1>3. ASSUME NEW i \in 1..Len(inside) PROVE inside[i].pts \in Nat
  <2>1. inside[i] \in Picture  BY <1>1, ElementOfSeq
  <2> QED  BY <2>1 DEF Picture
<1> QED  BY <1>2, <1>3

(* An encode call taken from the channel was the last command in it. *)
LEMMA EncodeTaken ==
  ASSUME ThreadIInv, Receive("encode"), cmds' = Tail(cmds)
  PROVE  /\ reply = <<>> /\ thread = "recv" /\ caller = "waiting" /\ cmds' = <<>>
         /\ Packets = <<>> /\ Len(<<>>) = 0 /\ cmds' \in Seq(Commands) /\ Len(cmds') = 0
         /\ \A i \in 1..Len(cmds) : cmds[i] = "encode"
<1>1. /\ reply = <<>> /\ thread = "recv" /\ caller = "waiting" /\ Len(cmds) = 1
      /\ cmds \in Seq(Commands) /\ cmds # <<>> /\ Head(cmds) = "encode"
  BY ReceiveFacts
<1>2. cmds' = <<>> /\ Head(cmds) = cmds[1]  BY <1>1, DequeueFacts
<1>3. \A i \in 1..Len(cmds) : i = 1  BY <1>1, SMTT(30)
<1> QED  BY <1>1, <1>2, <1>3, SMTT(30) DEF Packets

(* A frame that the codec did not take is answered with nothing. *)
LEMMA RefusedInv ==
  ASSUME ThreadIInv, EncodeRefused \/ SendFails  PROVE ThreadIInv'
<1> USE DEF ThreadIInv
<1>0. /\ Receive("encode") /\ cmds' = Tail(cmds)
      /\ clones' = clones \ {"command"} /\ reply' = <<[packets |-> <<>>]>>
      /\ enc' = enc \/ enc' = AfterSend(FALSE)
      /\ idrOwed' = FALSE \/ (idrOwed' = idrOwed /\ enc' = enc)
      /\ UNCHANGED <<caller, thread, device, pool, inside, received, taken, got, lostPackets>>
  BY DEF EncodeRefused, SendFails, Answer, objectVars, countVars
<1>1. /\ reply = <<>> /\ thread = "recv" /\ caller = "waiting" /\ cmds' = <<>>
      /\ Packets = <<>> /\ Len(<<>>) = 0 /\ cmds' \in Seq(Commands) /\ Len(cmds') = 0
      /\ \A i \in 1..Len(cmds) : cmds[i] = "encode"
  BY <1>0, EncodeTaken
<1>2. enc' \in [force_idr : BOOLEAN, pts : Nat] /\ enc'.pts \in {enc.pts, enc.pts + 1}
  BY <1>0, AfterSendFacts DEF ThreadShape
<1>3. Packets' = <<>>
  <2>1. reply'[1] = [packets |-> <<>>]  BY <1>0
  <2> QED  BY <1>0, <1>1, <2>1 DEF Packets
<1>4. (Alive' <=> Alive)  BY <1>0 DEF Alive
<1>5. PicturesCounted'  BY <1>0, <1>1, <1>3, <1>4 DEF PicturesCounted
<1>6. NumbersIncrease'
  <2>1. \A i \in 1..Len(inside) : inside[i].pts \in Nat
    BY InsideFacts
  <2>2. received \in Int /\ enc.pts \in Nat  BY DEF ThreadShape
  <2> QED  BY <1>0, <1>1, <1>2, <1>3, <2>1, <2>2, SMTT(30) DEF NumbersIncrease
<1>7. ThreadShape'
  <2>1. idrOwed' \in BOOLEAN  BY <1>0 DEF ThreadShape
  <2> QED  BY <1>0, <1>1, <1>2, <2>1 DEF ThreadShape
<1>8. ReplyIsAwaited'
  <2>1. <<>> \in Seq(Nat)  BY SMTT(30)
  <2> QED  BY <1>0, <1>1, <2>1 DEF ReplyIsAwaited
<1>9. reply' # <<>>  BY <1>0
<1>10. InStep'  BY <1>0, <1>1, <1>9 DEF InStep
<1>11. RequestIsAhead'  BY <1>0, <1>1 DEF RequestIsAhead
<1>12. LastInChannel'  BY <1>1, SMTT(30) DEF LastInChannel
<1> QED  BY <1>0, <1>1, <1>5, <1>6, <1>7, <1>8, <1>10, <1>11, <1>12
         DEF NothingYet, Creating, ObjectsHeld, FrameIsThreads

(* A picture handed to the codec is behind those that are in it. *)
LEMMA SendInv ==
  ASSUME ThreadIInv, Send
  PROVE  /\ ThreadIInv'
         /\ idrOwed => inside'[Len(inside')].idr
<1> USE DEF ThreadIInv
<1> DEFINE pic == [pts |-> enc.pts, idr |-> enc.force_idr]
<1>0. /\ Receive("encode") /\ cmds' = Tail(cmds) /\ inside' = Append(inside, pic)
      /\ enc' = AfterSend(TRUE) /\ taken' = taken + 1 /\ idrOwed' = FALSE /\ thread' = "drain"
      /\ UNCHANGED <<caller, reply, clones, device, pool, received, got, lostPackets>>
  BY DEF Send, objectVars
<1>1. /\ reply = <<>> /\ thread = "recv" /\ caller = "waiting" /\ cmds' = <<>>
      /\ Packets = <<>> /\ Len(<<>>) = 0 /\ cmds' \in Seq(Commands) /\ Len(cmds') = 0
      /\ \A i \in 1..Len(cmds) : cmds[i] = "encode"
  BY <1>0, EncodeTaken
<1>2. /\ enc' \in [force_idr : BOOLEAN, pts : Nat] /\ enc'.pts = enc.pts + 1
      /\ enc.pts \in Nat /\ received \in Int
  BY <1>0, AfterSendFacts DEF ThreadShape
<1>3. pic \in Picture /\ pic.pts = enc.pts /\ pic.idr = enc.force_idr  BY DEF ThreadShape, Picture
<1> HIDE DEF pic
<1>4. /\ inside' \in Seq(Picture) /\ Len(inside') = Len(inside) + 1 /\ inside'[Len(inside) + 1] = pic
      /\ \A i \in 1..Len(inside) : inside'[i] = inside[i]
  BY <1>0, <1>3, AppendProperties, SMTT(30) DEF ThreadShape
<1>5. Len(inside) \in Nat  BY LenProperties DEF ThreadShape
<1>6. \A i \in 1..Len(inside') : i = Len(inside) + 1 \/ (i \in 1..Len(inside) /\ i < Len(inside) + 1)
  BY <1>4, <1>5, SMTT(30)
<1>7. \A i \in 1..Len(inside) : inside[i].pts \in Nat
  BY InsideFacts
<1>8. Packets' = <<>>  BY <1>0, <1>1 DEF Packets
<1>9. Alive /\ Alive'  BY <1>0, <1>1 DEF Alive
<1>10. PicturesCounted'
  BY <1>0, <1>1, <1>4, <1>5, <1>8, <1>9, SMTT(30) DEF PicturesCounted, ThreadShape
<1>11. NumbersIncrease'
  <2>0. received' = received  BY <1>0
  <2>1. received' < enc'.pts  BY <1>2, <2>0, SMTT(30) DEF NumbersIncrease
  <2>2. ASSUME NEW i \in 1..Len(inside')
        PROVE  received' < inside'[i].pts /\ inside'[i].pts < enc'.pts
    <3>1. CASE i = Len(inside) + 1
      BY <1>2, <1>3, <1>4, <2>0, <3>1, SMTT(30) DEF NumbersIncrease
    <3>2. CASE i \in 1..Len(inside)
      BY <1>2, <1>4, <1>7, <2>0, <3>2, SMTT(30) DEF NumbersIncrease
    <3> QED  BY <1>6, <3>1, <3>2
  <2>3. ASSUME NEW i \in 1..Len(inside'), NEW j \in 1..Len(inside'), i < j
        PROVE  inside'[i].pts < inside'[j].pts
    <3>1. i \in 1..Len(inside)  BY <1>4, <1>5, <2>3, SMTT(30)
    <3>2. CASE j = Len(inside) + 1
      BY <1>3, <1>4, <3>1, <3>2 DEF NumbersIncrease
    <3>3. CASE j \in 1..Len(inside)
      BY <1>4, <2>3, <3>1, <3>3 DEF NumbersIncrease
    <3> QED  BY <1>6, <3>2, <3>3
  <2> QED  BY <1>1, <1>8, <2>1, <2>2, <2>3, SMTT(30) DEF NumbersIncrease
<1>12. ThreadShape'
  <2>1. idrOwed' \in BOOLEAN  BY <1>0
  <2>2. taken' \in Nat  BY <1>0, SMTT(30) DEF ThreadShape
  <2> QED  BY <1>0, <1>1, <1>2, <1>4, <2>1, <2>2 DEF ThreadShape
<1>13. ~idrOwed'  BY <1>0
<1>14. InStep'  BY <1>0, <1>1, <1>13 DEF InStep
<1>15. LastInChannel'  BY <1>1, SMTT(30) DEF LastInChannel
<1>16. idrOwed => inside'[Len(inside')].idr
  BY <1>1, <1>3, <1>4 DEF RequestIsAhead
<1> QED  BY <1>0, <1>1, <1>10, <1>11, <1>12, <1>13, <1>14, <1>15, <1>16
         DEF NothingYet, Creating, ObjectsHeld, FrameIsThreads, ReplyIsAwaited, RequestIsAhead

(* What the codec gives back is the front of what was in it. *)
LEMMA FrontFacts ==
  ASSUME ThreadShape, NEW n \in 0..Len(inside)
  PROVE  LET rest == SubSeq(inside, n + 1, Len(inside))
             out == [i \in 1..n |-> inside[i].pts]
         IN  /\ rest \in Seq(Picture) /\ Len(rest) = Len(inside) - n
             /\ \A i \in 1..Len(rest) : rest[i] = inside[n + i] /\ n + i \in 1..Len(inside)
             /\ out \in Seq(Nat) /\ Len(out) = n /\ n \in Nat
             /\ \A k \in 1..n : out[k] = inside[k].pts /\ k \in 1..Len(inside)
<1> DEFINE rest == SubSeq(inside, n + 1, Len(inside))
<1> DEFINE out == [i \in 1..n |-> inside[i].pts]
<1>1. Len(inside) \in Nat /\ \A i \in 1..Len(inside) : inside[i].pts \in Nat  BY InsideFacts
<1>2. inside \in Seq(Picture)  BY DEF ThreadShape
<1>3. n \in Nat /\ n <= Len(inside)  BY <1>1, SMTT(30)
<1>4. \A k \in 1..n : k \in 1..Len(inside)  BY <1>1, <1>3, SMTT(30)
<1>5. out \in [1..n -> Nat]  BY <1>1, <1>4
<1>6. out \in Seq(Nat) /\ Len(out) = n  BY <1>3, <1>5, SMTT(30)
<1>7. rest \in Seq(Picture) /\ Len(rest) = Len(inside) - n
      /\ \A i \in 1..Len(rest) : rest[i] = inside[n + i]
  <2>1. n + 1 \in 1..(Len(inside) + 1) /\ Len(inside) \in n..Len(inside)  BY <1>1, <1>3, SMTT(30)
  <2>2. CASE n = Len(inside)
    <3>1. rest = <<>>  BY <1>1, <1>2, <2>2, SubSeqProperties, SMTT(30)
    <3> QED  BY <1>1, <2>2, <3>1, SMTT(30)
  <2>3. CASE n < Len(inside)
    BY <1>1, <1>2, <1>3, <2>3, SubSeqProperties, SMTT(30)
  <2> QED  BY <1>1, <1>3, <2>2, <2>3, SMTT(30)
<1>8. \A i \in 1..Len(rest) : n + i \in 1..Len(inside)
  <2> HIDE DEF rest
  <2> QED  BY <1>1, <1>3, <1>7, SMTT(30)
<1> QED  BY <1>3, <1>4, <1>6, <1>7, <1>8

(* The answer takes its pictures out of the codec. *)
LEMMA DrainInv ==
  ASSUME ThreadIInv, Drain  PROVE ThreadIInv'
<1> USE DEF ThreadIInv
<1>0. /\ thread = "drain" /\ thread' = "recv"
      /\ UNCHANGED <<caller, cmds, device, pool, enc, received, idrOwed, taken, got>>
  BY DEF Drain, objectVars
<1>1. PICK n \in 0..Len(inside) :
        /\ inside' = SubSeq(inside, n + 1, Len(inside))
        /\ \/ /\ Answer([i \in 1..n |-> inside[i].pts])
              /\ UNCHANGED lostPackets
           \/ /\ Answer(<<>>)
              /\ lostPackets' = lostPackets + n
  BY DEF Drain
<1> DEFINE out == [i \in 1..n |-> inside[i].pts]
<1>2. /\ inside' \in Seq(Picture) /\ Len(inside') = Len(inside) - n
      /\ \A i \in 1..Len(inside') : inside'[i] = inside[n + i] /\ n + i \in 1..Len(inside)
      /\ out \in Seq(Nat) /\ Len(out) = n /\ n \in Nat
      /\ \A k \in 1..n : out[k] = inside[k].pts /\ k \in 1..Len(inside)
  BY <1>1, FrontFacts
<1> HIDE DEF out
<1>3. PICK p \in {<<>>, out} :
        /\ reply' = <<[packets |-> p]>> /\ clones' = clones \ {"command"}
        /\ (p = out /\ lostPackets' = lostPackets) \/ (p = <<>> /\ lostPackets' = lostPackets + n)
  BY <1>1 DEF Answer, out
<1>4. caller = "waiting" /\ cmds = <<>> /\ ~idrOwed /\ reply = <<>>
  BY <1>0 DEF InStep, ReplyIsAwaited
<1>5. <<>> \in Seq(Nat) /\ Len(<<>>) = 0  BY SMTT(30)
<1>6. p \in Seq(Nat)  BY <1>2, <1>3, <1>5
<1>7. Packets' = p /\ Packets = <<>>
  <2>1. reply'[1] = [packets |-> p] /\ reply' # <<>>  BY <1>3
  <2>2. reply'[1].packets = p  BY <2>1, SMTT(30)
  <2> QED  BY <1>0, <1>4, <2>1, <2>2 DEF Packets
<1>8. Len(inside) \in Nat /\ \A i \in 1..Len(inside) : inside[i].pts \in Nat  BY InsideFacts
<1>9. lostPackets \in Nat /\ lostPackets' \in Nat /\ taken \in Nat /\ got \in Nat
  BY <1>2, <1>3, SMTT(30) DEF ThreadShape
<1>10. PicturesCounted'
  <2>1. Alive  BY <1>0 DEF Alive
  <2>2. taken = got + lostPackets + Len(inside) + 0  BY <1>5, <1>7, <2>1 DEF PicturesCounted
  <2>3. lostPackets' + Len(p) = lostPackets + n  BY <1>2, <1>3, <1>5, <1>9, SMTT(30)
  <2>4. Len(p) \in Nat  BY <1>6, LenProperties
  <2>5. taken = got + lostPackets' + Len(inside') + Len(p)
    <3>1. Len(inside') = Len(inside) - n /\ n \in Nat  BY <1>2
    <3>3. Len(inside) \in Nat  BY <1>8
    <3>4. got + lostPackets + Len(inside) + 0 = got + lostPackets' + (Len(inside) - n) + Len(p)
      BY <1>9, <2>3, <2>4, <3>1, <3>3, SMTT(30)
    <3> QED  BY <2>2, <3>1, <3>4
  <2> QED  BY <1>0, <1>7, <2>5 DEF PicturesCounted
<1>11. \A i \in 1..Len(inside') : inside'[i].pts = inside[n + i].pts /\ n + i \in 1..Len(inside)
  BY <1>2
<1>12. \A k \in 1..Len(p) : p[k] = inside[k].pts /\ k \in 1..Len(inside) /\ k <= n
  BY <1>2, <1>3, <1>5, SMTT(30)
<1>13. NumbersIncrease'
  <2>0. received' = received /\ enc' = enc  BY <1>0
  <2>1. \A i \in 1..Len(inside') : received' < inside'[i].pts /\ inside'[i].pts < enc'.pts
    BY <1>11, <2>0 DEF NumbersIncrease
  <2>2. ASSUME NEW i \in 1..Len(inside'), NEW j \in 1..Len(inside'), i < j
        PROVE  inside'[i].pts < inside'[j].pts
    <3>1. n + i < n + j  BY <1>2, <1>8, <2>2, SMTT(30)
    <3> QED  BY <1>11, <3>1 DEF NumbersIncrease
  <2>3. ASSUME NEW k \in 1..Len(p)
        PROVE  /\ received' < p[k] /\ p[k] < enc'.pts
               /\ \A i \in 1..Len(inside') : p[k] < inside'[i].pts
    <3>1. p[k] = inside[k].pts /\ k \in 1..Len(inside) /\ k <= n  BY <1>12
    <3>2. \A i \in 1..Len(inside') : k < n + i  BY <1>2, <1>8, <3>1, SMTT(30)
    <3>3. \A i \in 1..Len(inside') : inside[k].pts < inside[n + i].pts
      BY <1>11, <3>1, <3>2 DEF NumbersIncrease
    <3> QED  BY <1>11, <2>0, <3>1, <3>3 DEF NumbersIncrease
  <2> QED  BY <1>7, <2>0, <2>1, <2>2, <2>3 DEF NumbersIncrease
<1>14. ThreadShape'  BY <1>0, <1>2, <1>3, <1>9 DEF ThreadShape
<1>15. ReplyIsAwaited'  BY <1>0, <1>3, <1>4, <1>6 DEF ReplyIsAwaited
<1>16. reply' # <<>>  BY <1>3
<1>17. InStep'  BY <1>0, <1>4, <1>16 DEF InStep
<1> QED  BY <1>0, <1>3, <1>4, <1>10, <1>13, <1>14, <1>15, <1>17
         DEF NothingYet, Creating, ObjectsHeld, FrameIsThreads, RequestIsAhead, LastInChannel

(* Nothing was created. *)
LEMMA ThreadInitInv ==
  ASSUME ThreadInit  PROVE ThreadIInv
<1> USE DEF ThreadInit
<1>1. cmds \in Seq(Commands) /\ inside \in Seq(Picture) /\ Len(cmds) = 0 /\ Len(inside) = 0  BY SMTT(30)
<1>2. enc \in [force_idr : BOOLEAN, pts : Nat] /\ enc.pts = 0  BY DEF EncInit
<1>3. ThreadShape
  <2>1. idrOwed \in BOOLEAN  OBVIOUS
  <2>2. received \in Int /\ taken \in Nat /\ got \in Nat /\ lostPackets \in Nat  BY SMTT(30)
  <2> QED  BY <1>1, <1>2, <2>1, <2>2 DEF ThreadShape
<1>4. Packets = <<>> /\ Len(<<>>) = 0  BY DEF Packets
<1>5. NumbersIncrease  BY <1>1, <1>2, <1>4, SMTT(30) DEF NumbersIncrease
<1>6. PicturesCounted /\ LastInChannel  BY <1>1, SMTT(30) DEF PicturesCounted, Alive, LastInChannel
<1>7. ~idrOwed  OBVIOUS
<1> QED  BY <1>3, <1>5, <1>6, <1>7
         DEF ThreadIInv, ReplyIsAwaited, InStep, NothingYet, FrameIsThreads, ObjectsHeld, RequestIsAhead

(* The steps of the thread and its caller keep the invariant. *)
LEMMA ThreadStepInv ==
  ASSUME ThreadIInv, ThreadNext  PROVE ThreadIInv'
BY NewEncoderInv, SpawnInv, AllocInv, OpenInv, ReportFailureInv, SpawnedInv, CallEncodeInv, ReclaimInv,
   EncodeReturnedInv, CallsInv, JoinedInv, AppliedInv, StopInv, PanicInv, UnwoundInv, RefusedInv,
   SendInv, DrainInv
   DEF ThreadNext, Caller, Thread

(* A step of the Vulkan encoder is none of the thread. *)
LEMMA ThreadStutterInv ==
  ASSUME ThreadIInv, UNCHANGED threadVars  PROVE ThreadIInv'
<1>0. UNCHANGED <<caller, thread, cmds, reply, clones, device, pool, enc, inside, received, idrOwed,
                  taken, got, lostPackets>>
  BY DEF threadVars, channelVars, objectVars, countVars
<1> QED  BY <1>0, ZenonT(40) DEF ThreadIInv, ThreadShape, ReplyIsAwaited, InStep, NothingYet, LastInChannel,
                     FrameIsThreads, ObjectsHeld, RequestIsAhead, PicturesCounted, NumbersIncrease,
                     Creating, Queued, Alive, Packets

(* The next candidate starts where the one before gave up. *)
LEMMA NextCandidateInv ==
  ASSUME ThreadIInv, caller \in {"idle", "refused"}, caller' = "idle",
         UNCHANGED <<thread, channelVars, objectVars, enc, inside, countVars>>
  PROVE  ThreadIInv'
<1>1. Creating /\ Creating'  BY DEF Creating
<1>2. ThreadShape'  BY DEF ThreadIInv, ThreadShape, channelVars, objectVars, countVars
<1>3. reply = <<>>  BY DEF ThreadIInv, ReplyIsAwaited
<1>4. ReplyIsAwaited' /\ InStep' /\ ObjectsHeld'
  BY <1>3 DEF ThreadIInv, ReplyIsAwaited, InStep, ObjectsHeld, channelVars, objectVars, countVars
<1> QED  BY <1>1, <1>2, <1>4, CreationKeeps DEF channelVars

-----------------------------------------------------------------------------
(* AudioPipeline.                                                          *)

(* A buffer the PipeWire thread filled: samples in a row from its time on. *)
IsBuffer(b) == b.ts > 0 /\ \A k \in 1..Len(b.data) : b.data[k] = b.ts + k - 1
AudioData == [data : Seq(Nat), ts : Nat]
BufferEnd(b) == b.ts + Len(b.data)
HasBuffer == stream.pc \in {"send", "drain"}

AudioShape ==
  /\ stream \in [pc : {"none", "spawned", "run", "send", "drain", "ended"},
                 pos : 0..MaxSamples, buf : AudioData, quit : BOOLEAN]
  /\ queue \in Seq(AudioData) /\ Len(queue) <= QueueCap
  /\ audio \in [pc : {"create", "encoder", "recv", "encode", "stop", "done"},
                chunks : Seq(AudioData)]
  /\ audio.pc = "encode" <=> audio.chunks # <<>>
  /\ audio.pc = "create" => stream.pc = "none"
  /\ framer \in [pending : Seq(Nat), start : Nat]
  /\ encoder \in Nat
  /\ sent \in [sequence : {encoder}, ts : Nat]

(* Sample x was captured before all that the framer has not seen. *)
Earlier(x) ==
  /\ x <= stream.pos
  /\ HasBuffer => x < stream.buf.ts
  /\ \A j \in 1..Len(queue) : x < queue[j].ts

(* The buffers follow each other, up to the samples played so far. *)
BuffersInOrder ==
  /\ HasBuffer => IsBuffer(stream.buf) /\ BufferEnd(stream.buf) = stream.pos + 1
  /\ ~HasBuffer => stream.buf = NoBuffer
  /\ \A i \in 1..Len(queue) :
       /\ IsBuffer(queue[i])
       /\ BufferEnd(queue[i]) <= stream.pos + 1
       /\ HasBuffer => BufferEnd(queue[i]) <= stream.buf.ts
       /\ \A j \in 1..Len(queue) : i < j => BufferEnd(queue[i]) <= queue[j].ts

(* A framer's samples rise, are too few for a frame, and the first has its   *)
(* start.                                                                    *)
IsFramer(f) ==
  /\ Len(f.pending) < FrameSamples
  /\ f.start = 0 <=> f.pending = <<>>
  /\ f.pending # <<>> => f.start = f.pending[1]
  /\ Rises(f.pending)

(* Frames that are complete, one after the other and before what pends. *)
AreChunks(chunks, pending) ==
  \A i \in 1..Len(chunks) :
    /\ Len(chunks[i].data) = FrameSamples
    /\ chunks[i].ts = chunks[i].data[1]
    /\ Rises(chunks[i].data) /\ Before(chunks[i].data, pending)
    /\ \A j \in 1..Len(chunks) : i < j => Before(chunks[i].data, chunks[j].data)

(* They are all later than the last packet, and earlier than the queue. *)
ChunksInOrder ==
  /\ IsFramer(framer) /\ AreChunks(audio.chunks, framer.pending)
  /\ Earlier(sent.ts)
  /\ \A k \in 1..Len(framer.pending) :
       sent.ts < framer.pending[k] /\ Earlier(framer.pending[k])
  /\ \A i \in 1..Len(audio.chunks) : \A k \in 1..Len(audio.chunks[i].data) :
       sent.ts < audio.chunks[i].data[k] /\ Earlier(audio.chunks[i].data[k])

AudioIInv == AudioShape /\ BuffersInOrder /\ ChunksInOrder

-----------------------------------------------------------------------------
(* Whole frames of a number of samples. *)
LEMMA WholeFrames ==
  ASSUME NEW a \in Nat
  PROVE  LET n == a \div FrameSamples IN
         n \in Nat /\ n * FrameSamples <= a /\ a < n * FrameSamples + FrameSamples
  BY AudioAssumption, SMTT(30)

(* The i-th frame of n lies within them. *)
LEMMA FramePlace ==
  ASSUME NEW n \in Nat, NEW i \in 1..n
  PROVE  /\ (i - 1) * FrameSamples \in Nat
         /\ i * FrameSamples = (i - 1) * FrameSamples + FrameSamples
         /\ i * FrameSamples <= n * FrameSamples
         /\ i > 1 => FrameSamples <= (i - 1) * FrameSamples
<1>1. FrameSamples \in Nat \ {0}  BY AudioAssumption
<1>2. (i - 1) * FrameSamples \in Nat  BY <1>1, SMTT(30)
<1>3. i * FrameSamples = (i - 1) * FrameSamples + FrameSamples  BY <1>1, SMTT(30)
<1>4. i * FrameSamples <= n * FrameSamples  BY <1>1, SMTT(30)
<1>5. i > 1 => FrameSamples <= (i - 1) * FrameSamples  BY <1>1, SMTT(30)
<1> QED  BY <1>2, <1>3, <1>4, <1>5

(* So do two of them, one after the other. *)
LEMMA FramesApart ==
  ASSUME NEW n \in Nat, NEW i \in 1..n, NEW j \in 1..n, i < j
  PROVE  i * FrameSamples <= (j - 1) * FrameSamples
<1>1. FrameSamples \in Nat \ {0}  BY AudioAssumption
<1> QED  BY <1>1, SMTT(30)

(* What the framer has once it has taken a buffer. *)
LEMMA AllFacts ==
  ASSUME NEW f \in [pending : Seq(Nat), start : Nat], NEW b \in AudioData,
         IsFramer(f), IsBuffer(b), \A k \in 1..Len(f.pending) : f.pending[k] < b.ts
  PROVE  LET all == f.pending \o b.data IN
         /\ all \in Seq(Nat) /\ Len(all) = Len(f.pending) + Len(b.data)
         /\ \A k \in 1..Len(all) :
              /\ all[k] \in Nat
              /\ k <= Len(f.pending) => all[k] = f.pending[k]
              /\ k > Len(f.pending) => all[k] = b.ts + (k - Len(f.pending)) - 1
         /\ Rises(all)
<1> DEFINE all == f.pending \o b.data
           m == Len(f.pending)
<1>1. f.pending \in Seq(Nat) /\ b.data \in Seq(Nat) /\ b.ts \in Nat  BY DEF AudioData
<1>2. m \in Nat /\ Len(b.data) \in Nat  BY <1>1, LenProperties
<1>3. /\ all \in Seq(Nat) /\ Len(all) = m + Len(b.data)
      /\ \A k \in 1..m + Len(b.data) : all[k] = IF k <= m THEN f.pending[k] ELSE b.data[k - m]
  BY <1>1, ConcatProperties
<1>4. \A k \in 1..Len(all) : all[k] \in Nat  BY <1>3, ElementOfSeq
<1>5. \A k \in 1..Len(all) : k > m => all[k] = b.ts + (k - m) - 1
  BY <1>2, <1>3, SMTT(30) DEF IsBuffer
<1>6. \A k \in 1..Len(all) : k <= m => k \in 1..m /\ all[k] = f.pending[k]
  BY <1>2, <1>3, SMTT(30)
<1>7. Rises(all)
  <2> SUFFICES ASSUME NEW i \in 1..Len(all), NEW j \in 1..Len(all), i < j
               PROVE  all[i] < all[j]
    BY DEF Rises
  <2>1. CASE j <= m  BY <1>2, <1>6, <2>1, SMTT(30) DEF IsFramer, Rises
  <2>2. CASE i <= m /\ j > m
    <3>1. all[i] < b.ts  BY <1>6, <2>2
    <3>2. all[j] >= b.ts  BY <1>1, <1>2, <1>5, <2>2, SMTT(30)
    <3>3. all[i] \in Nat /\ all[j] \in Nat  BY <1>4
    <3> HIDE DEF all
    <3> QED  BY <1>1, <3>1, <3>2, <3>3, SMTT(30)
  <2>3. CASE i > m /\ j > m  BY <1>1, <1>2, <1>5, <2>3, SMTT(30)
  <2> QED  BY <1>2, <2>1, <2>2, <2>3, SMTT(30)
<1> QED  BY <1>3, <1>4, <1>5, <1>6, <1>7

(* The time of the i-th frame is that of its first sample. *)
LEMMA StartFacts ==
  ASSUME NEW f \in [pending : Seq(Nat), start : Nat], NEW b \in AudioData,
         IsFramer(f), IsBuffer(b), \A k \in 1..Len(f.pending) : f.pending[k] < b.ts,
         NEW n \in Nat, NEW i \in 1..n,
         (i - 1) * FrameSamples + 1 <= Len(f.pending) + Len(b.data)
  PROVE  StartOf(f, b, i) = (f.pending \o b.data)[(i - 1) * FrameSamples + 1]
<1> DEFINE all == f.pending \o b.data
           p == (i - 1) * FrameSamples
           m == Len(f.pending)
<1>1. FrameSamples \in Nat \ {0} /\ f.start \in Nat /\ b.ts \in Nat /\ f.pending \in Seq(Nat)
  BY AudioAssumption DEF AudioData
<1>2. p \in Nat /\ (i > 1 => FrameSamples <= p)  BY FramePlace
<1>3. m \in Nat /\ m < FrameSamples  BY <1>1, LenProperties DEF IsFramer
<1>4. /\ Len(all) = m + Len(b.data)
      /\ \A k \in 1..Len(all) : /\ k <= m => all[k] = f.pending[k]
                                /\ k > m => all[k] = b.ts + (k - m) - 1
  BY AllFacts
<1>5. p + 1 \in 1..Len(all)  BY <1>2, <1>4, SMTT(30)
<1>6. CASE i = 1 /\ f.start # 0
  <2>1. p = 0 /\ f.pending # <<>> /\ f.start = f.pending[1]  BY <1>1, <1>6, SMTT(30) DEF IsFramer
  <2>2. m >= 1  BY <1>1, <2>1, EmptySeq, SMTT(30)
  <2>3. all[1] = f.pending[1]  BY <1>3, <1>4, <1>5, <2>1, <2>2, SMTT(30)
  <2> QED  BY <1>6, <2>1, <2>3, SMTT(30) DEF StartOf
<1>7. CASE ~(i = 1 /\ f.start # 0)
  <2>1. p + 1 > m
    <3>1. CASE i = 1
      <4>1. f.pending = <<>>  BY <1>7, <3>1 DEF IsFramer
      <4>2. m = 0  BY <4>1, EmptySeq
      <4> HIDE DEF p, m
      <4> QED  BY <1>2, <4>2, SMTT(30)
    <3>2. CASE i > 1
      <4> HIDE DEF p, m
      <4> QED  BY <1>1, <1>2, <1>3, <3>2, SMTT(30)
    <3> QED  BY <3>1, <3>2, SMTT(30)
  <2>2. all[p + 1] = b.ts + p - m  BY <1>1, <1>2, <1>3, <1>4, <1>5, <2>1, SMTT(30)
  <2>3. StartOf(f, b, i) = b.ts + p - m  BY <1>7 DEF StartOf
  <2> QED  BY <2>2, <2>3
<1> QED  BY <1>6, <1>7

(* What push makes of a framer and a buffer: frames and a framer, whose      *)
(* samples are those there were.                                             *)
LEMMA PushFacts ==
  ASSUME NEW f \in [pending : Seq(Nat), start : Nat], NEW b \in AudioData,
         IsFramer(f), IsBuffer(b),
         \A k \in 1..Len(f.pending) : 0 < f.pending[k] /\ f.pending[k] < b.ts
  PROVE  LET p == Push(f, b)
             all == f.pending \o b.data
         IN /\ p.chunks \in Seq(AudioData)
            /\ p.framer \in [pending : Seq(Nat), start : Nat]
            /\ IsFramer(p.framer) /\ AreChunks(p.chunks, p.framer.pending)
            /\ \A k \in 1..Len(p.framer.pending) :
                 \E q \in 1..Len(all) : p.framer.pending[k] = all[q]
            /\ \A i \in 1..Len(p.chunks) : \A k \in 1..Len(p.chunks[i].data) :
                 \E q \in 1..Len(all) : p.chunks[i].data[k] = all[q]
<1> DEFINE all == f.pending \o b.data
           n == Len(all) \div FrameSamples
           at(i) == (i - 1) * FrameSamples
           to(i) == i * FrameSamples
           data(i) == SubSeq(all, at(i) + 1, to(i))
           chunk(i) == [data |-> data(i), ts |-> StartOf(f, b, i)]
           chunks == [i \in 1..n |-> chunk(i)]
           whole == n * FrameSamples
           rest == SubSeq(all, whole + 1, Len(all))
<1>1. FrameSamples \in Nat \ {0}  BY AudioAssumption
<1>2. /\ all \in Seq(Nat) /\ Len(all) = Len(f.pending) + Len(b.data)
      /\ \A k \in 1..Len(all) : all[k] \in Nat
      /\ Rises(all)
  BY AllFacts
<1>3. Len(all) \in Nat  BY <1>2, LenProperties
<1>4. n \in Nat /\ whole <= Len(all) /\ Len(all) < whole + FrameSamples
  BY <1>3, WholeFrames
<1>5. whole \in Nat
  <2> HIDE DEF n
  <2> QED  BY <1>1, <1>4, SMTT(30)
<1>6. \A k \in 1..Len(all) : all[k] > 0
  <2> SUFFICES ASSUME NEW k \in 1..Len(all) PROVE all[k] > 0  OBVIOUS
  <2>1. f.pending \in Seq(Nat) /\ b.ts \in Nat /\ b.ts > 0  BY DEF AudioData, IsBuffer
  <2>2. Len(f.pending) \in Nat  BY <2>1, LenProperties
  <2>3. CASE k <= Len(f.pending)
    <3>1. all[k] = f.pending[k] /\ k \in 1..Len(f.pending)  BY <2>2, <2>3, AllFacts, SMTT(30)
    <3> QED  BY <3>1
  <2>4. CASE k > Len(f.pending)
    <3>1. all[k] = b.ts + (k - Len(f.pending)) - 1  BY <2>4, AllFacts
    <3> QED  BY <2>1, <2>2, <2>4, <3>1, SMTT(30)
  <2> QED  BY <2>2, <2>3, <2>4, SMTT(30)
(* The frames. *)
<1>7. ASSUME NEW i \in 1..n
      PROVE  /\ at(i) \in Nat /\ at(i) + FrameSamples = to(i) /\ to(i) <= whole
             /\ \A j \in 1..n : i < j => to(i) <= at(j)
  <2> HIDE DEF n
  <2> QED  BY <1>4, FramePlace, FramesApart
<1>8. ASSUME NEW i \in 1..n
      PROVE  /\ data(i) \in Seq(Nat) /\ Len(data(i)) = FrameSamples
             /\ \A k \in 1..FrameSamples :
                  at(i) + k \in 1..Len(all) /\ data(i)[k] = all[at(i) + k]
  <2> DEFINE lo == at(i) + 1
             hi == to(i)
  <2> HIDE DEF n, at, to, whole
  <2>1. at(i) \in Nat /\ lo \in Nat /\ hi \in Nat /\ hi = at(i) + FrameSamples /\ hi <= Len(all)
    BY <1>1, <1>3, <1>4, <1>5, <1>7, SMTT(30)
  <2>2. \A k \in lo..hi : all[k] \in Nat  BY <1>2, <1>3, <2>1, SMTT(30)
  <2> HIDE DEF all, lo, hi
  <2>3. /\ SubSeq(all, lo, hi) \in Seq(Nat)
        /\ Len(SubSeq(all, lo, hi)) = IF lo <= hi THEN hi - lo + 1 ELSE 0
        /\ \A k \in 1..hi - lo + 1 : SubSeq(all, lo, hi)[k] = all[lo + k - 1]
    BY <2>1, <2>2, SubSeqProperties, SMTT(30)
  <2>4. lo <= hi /\ hi - lo + 1 = FrameSamples  BY <1>1, <2>1, SMTT(30) DEF lo
  <2>5. \A k \in 1..FrameSamples : lo + k - 1 = at(i) + k /\ at(i) + k \in 1..Len(all)
    BY <1>1, <1>3, <2>1, SMTT(30) DEF lo
  <2>6. data(i) = SubSeq(all, lo, hi)  BY DEF lo, hi
  <2> QED  BY <2>3, <2>4, <2>5, <2>6
<1>9. ASSUME NEW i \in 1..n PROVE StartOf(f, b, i) = data(i)[1]
  <2>1. 1 \in 1..FrameSamples  BY <1>1, SMTT(30)
  <2>2. at(i) + 1 \in 1..Len(all) /\ data(i)[1] = all[at(i) + 1]  BY <1>8, <2>1
  <2>3. at(i) + 1 <= Len(f.pending) + Len(b.data)  BY <1>2, <2>2, SMTT(30)
  <2> QED  BY <1>4, <2>2, <2>3, StartFacts
<1>10. ASSUME NEW i \in 1..n PROVE data(i)[1] \in Nat /\ chunk(i) \in AudioData
  <2>1. 1 \in 1..FrameSamples  BY <1>1, SMTT(30)
  <2>2. data(i)[1] \in Nat  BY <1>2, <1>8, <2>1
  <2> QED  BY <1>8, <1>9, <2>2 DEF AudioData
<1>11. chunks \in Seq(AudioData) /\ Len(chunks) = n
  <2> HIDE DEF n, chunk
  <2> QED  BY <1>4, <1>10, SMTT(30)
(* What stays. *)
<1>12. /\ rest \in Seq(Nat) /\ Len(rest) = Len(all) - whole
       /\ \A k \in 1..Len(rest) : whole + k \in 1..Len(all)
                                  /\ rest[k] = all[whole + k]
  <2> DEFINE lo == whole + 1
             hi == Len(all)
  <2> HIDE DEF whole
  <2>1. lo \in Nat /\ hi \in Nat /\ lo >= 1 /\ lo <= hi + 1  BY <1>3, <1>4, <1>5, SMTT(30)
  <2>2. \A k \in lo..hi : all[k] \in Nat  BY <1>2, <1>3, <2>1, SMTT(30)
  <2>3. rest = SubSeq(all, lo, hi)  OBVIOUS
  <2> HIDE DEF all, lo, hi
  <2>4. /\ SubSeq(all, lo, hi) \in Seq(Nat)
        /\ Len(SubSeq(all, lo, hi)) = IF lo <= hi THEN hi - lo + 1 ELSE 0
        /\ \A k \in 1..hi - lo + 1 : SubSeq(all, lo, hi)[k] = all[lo + k - 1]
    BY <2>1, <2>2, SubSeqProperties, SMTT(30)
  <2>5. Len(SubSeq(all, lo, hi)) = hi - lo + 1  BY <2>1, <2>4, SMTT(30)
  <2>6. hi - lo + 1 = Len(all) - whole  BY <1>3, <1>5, SMTT(30) DEF lo, hi
  <2>7. \A k \in 1..hi - lo + 1 : lo + k - 1 = whole + k /\ lo + k - 1 \in 1..hi
    BY <1>5, <2>1, SMTT(30) DEF lo
  <2> QED  BY <2>3, <2>4, <2>5, <2>6, <2>7 DEF hi
<1>13. Len(rest) \in Nat /\ Len(rest) < FrameSamples
  <2> HIDE DEF n, whole, rest, all
  <2> QED  BY <1>1, <1>3, <1>4, <1>5, <1>12, SMTT(30)
<1>14. rest # <<>> => StartOf(f, b, n + 1) = rest[1] /\ rest[1] > 0 /\ rest[1] \in Nat
  <2> SUFFICES ASSUME rest # <<>>
               PROVE  StartOf(f, b, n + 1) = rest[1] /\ rest[1] > 0 /\ rest[1] \in Nat
    OBVIOUS
  <2>1. 1 \in 1..Len(rest)  BY <1>12, <1>13, EmptySeq, SMTT(30)
  <2>2. whole + 1 \in 1..Len(all) /\ rest[1] = all[whole + 1]
    BY <1>12, <2>1
  <2>3. n + 1 \in 1..n + 1 /\ n + 1 \in Nat /\ (n + 1) - 1 = n  BY <1>4, SMTT(30)
  <2>4. ((n + 1) - 1) * FrameSamples + 1 <= Len(f.pending) + Len(b.data)
    BY <1>2, <2>2, <2>3, SMTT(30)
  <2>5. StartOf(f, b, n + 1) = all[((n + 1) - 1) * FrameSamples + 1]
    BY <2>3, <2>4, StartFacts
  <2> QED  BY <1>2, <1>6, <2>2, <2>3, <2>5
<1> DEFINE after == [pending |-> rest, start |-> IF rest = <<>> THEN 0 ELSE StartOf(f, b, n + 1)]
<1>15. after \in [pending : Seq(Nat), start : Nat]  BY <1>12, <1>14
<1>16. \A q, r \in 1..Len(all) : q < r => all[q] < all[r]  BY <1>2 DEF Rises
<1>17. IsFramer(after)
  <2>1. Rises(rest)
    <3> SUFFICES ASSUME NEW i \in 1..Len(rest), NEW j \in 1..Len(rest), i < j
                 PROVE  rest[i] < rest[j]
      BY DEF Rises
    <3> HIDE DEF whole, rest, all
    <3>1. whole + i < whole + j  BY <1>5, <1>13, SMTT(30)
    <3> QED  BY <1>12, <1>16, <3>1
  <2> HIDE DEF rest, n
  <2>2. after.pending = rest /\ after.start = IF rest = <<>> THEN 0 ELSE StartOf(f, b, n + 1)
    OBVIOUS
  <2>3. (after.start = 0 <=> rest = <<>>) /\ (rest # <<>> => after.start = rest[1])
    BY <1>14, <2>2, SMTT(30)
  <2> HIDE DEF after
  <2> QED  BY <1>13, <2>1, <2>2, <2>3 DEF IsFramer
<1>18. AreChunks(chunks, rest)
  <2> SUFFICES ASSUME NEW i \in 1..n
               PROVE  /\ Len(data(i)) = FrameSamples /\ StartOf(f, b, i) = data(i)[1]
                      /\ Rises(data(i)) /\ Before(data(i), rest)
                      /\ \A j \in 1..n : i < j => Before(data(i), data(j))
    BY <1>11 DEF AreChunks
  <2>1. Rises(data(i))
    <3> SUFFICES ASSUME NEW k \in 1..FrameSamples, NEW l \in 1..FrameSamples, k < l
                 PROVE  data(i)[k] < data(i)[l]
      BY <1>8 DEF Rises
    <3> HIDE DEF n, at, to, whole, all, data
    <3>1. at(i) + k < at(i) + l  BY <1>1, <1>7, SMTT(30)
    <3> QED  BY <1>8, <1>16, <3>1
  <2>2. Before(data(i), rest)
    <3> SUFFICES ASSUME NEW k \in 1..FrameSamples, NEW l \in 1..Len(rest)
                 PROVE  data(i)[k] < rest[l]
      BY <1>8 DEF Before
    <3> HIDE DEF n, at, to, whole, rest, all, data
    <3>1. at(i) + k < whole + l  BY <1>1, <1>5, <1>7, <1>13, SMTT(30)
    <3> QED  BY <1>8, <1>12, <1>16, <3>1
  <2>3. ASSUME NEW j \in 1..n, i < j PROVE Before(data(i), data(j))
    <3> SUFFICES ASSUME NEW k \in 1..FrameSamples, NEW l \in 1..FrameSamples
                 PROVE  data(i)[k] < data(j)[l]
      BY <1>8 DEF Before
    <3> HIDE DEF n, at, to, whole, all, data
    <3>1. at(i) \in Nat /\ at(j) \in Nat /\ at(i) + FrameSamples <= at(j)  BY <1>7, <2>3
    <3>2. at(i) + k < at(j) + l  BY <1>1, <3>1, SMTT(30)
    <3> QED  BY <1>8, <1>16, <3>2
  <2> QED  BY <1>8, <1>9, <2>1, <2>2, <2>3
<1>19. \A k \in 1..Len(rest) : \E q \in 1..Len(all) : rest[k] = all[q]  BY <1>12
<1>20. \A i \in 1..n : \A k \in 1..Len(data(i)) : \E q \in 1..Len(all) : data(i)[k] = all[q]
  BY <1>8
<1>21. Push(f, b) = [chunks |-> chunks, framer |-> after]  BY DEF Push, Pending
<1> QED
  <2>1. after.pending = rest  OBVIOUS
  <2>2. \A i \in 1..n : chunks[i].data = data(i)  OBVIOUS
  <2> HIDE DEF chunks, after, rest, n, data, all
  <2>3. Push(f, b).chunks = chunks /\ Push(f, b).framer = after  BY <1>21, SMTT(30)
  <2>4. \A i \in 1..Len(chunks) : \A k \in 1..Len(chunks[i].data) :
          \E q \in 1..Len(all) : chunks[i].data[k] = all[q]
    <3> TAKE i \in 1..Len(chunks)
    <3> TAKE k \in 1..Len(chunks[i].data)
    <3>1. i \in 1..n /\ chunks[i].data = data(i)  BY <1>11, <2>2
    <3> QED  BY <1>20, <3>1, ZenonT(40)
  <2> QED  BY <1>11, <1>15, <1>17, <1>18, <1>19, <2>1, <2>3, <2>4 DEF all

-----------------------------------------------------------------------------
(* The samples in the framer and in its frames are numbers. *)
LEMMA SampleTypes ==
  ASSUME AudioShape
  PROVE  /\ sent.ts \in Nat
         /\ \A k \in 1..Len(framer.pending) : framer.pending[k] \in Nat
         /\ \A i \in 1..Len(audio.chunks) : \A k \in 1..Len(audio.chunks[i].data) :
              audio.chunks[i].data[k] \in Nat
         /\ \A j \in 1..Len(queue) :
              queue[j] \in AudioData /\ queue[j].ts \in Nat /\ Len(queue[j].data) \in Nat
         /\ stream.pos \in Nat /\ stream.buf \in AudioData
         /\ stream.buf.ts \in Nat /\ Len(stream.buf.data) \in Nat
<1>1. framer.pending \in Seq(Nat) /\ audio.chunks \in Seq(AudioData) /\ queue \in Seq(AudioData)
  BY DEF AudioShape
<1>2. \A k \in 1..Len(framer.pending) : framer.pending[k] \in Nat  BY <1>1, ElementOfSeq
<1>3. ASSUME NEW i \in 1..Len(audio.chunks), NEW k \in 1..Len(audio.chunks[i].data)
      PROVE  audio.chunks[i].data[k] \in Nat
  <2>1. audio.chunks[i] \in AudioData  BY <1>1, ElementOfSeq
  <2>2. audio.chunks[i].data \in Seq(Nat)  BY <2>1 DEF AudioData
  <2> QED  BY <2>2, ElementOfSeq
<1>4. ASSUME NEW b \in AudioData PROVE b.ts \in Nat /\ Len(b.data) \in Nat
  <2>1. b.ts \in Nat /\ b.data \in Seq(Nat)  BY DEF AudioData
  <2> QED  BY <2>1, LenProperties
<1>5. \A j \in 1..Len(queue) : queue[j] \in AudioData  BY <1>1, ElementOfSeq
<1>6. sent.ts \in Nat /\ stream.pos \in Nat /\ stream.buf \in AudioData
  BY AudioAssumption, SMTT(30) DEF AudioShape
<1> QED  BY <1>2, <1>3, <1>4, <1>5, <1>6

(* A step that leaves the framer, its frames and the packets alone, and after *)
(* which what was earlier still is.                                          *)
LEMMA FramesKept ==
  ASSUME AudioShape, ChunksInOrder, UNCHANGED <<framer, audio.chunks, sent>>,
         \A x \in Nat : Earlier(x) => Earlier(x)'
  PROVE  ChunksInOrder'
<1>1. IsFramer(framer)' /\ AreChunks(audio.chunks, framer.pending)'
  BY DEF ChunksInOrder, IsFramer, AreChunks, Rises, Before
<1>2. Earlier(sent.ts)'
  <2>1. Earlier(sent.ts)  BY DEF ChunksInOrder
  <2>2. sent.ts \in Nat /\ sent'.ts = sent.ts  BY SampleTypes
  <2> QED  BY <2>1, <2>2 DEF Earlier, HasBuffer
<1>3. \A k \in 1..Len(framer'.pending) :
        sent'.ts < framer'.pending[k] /\ Earlier(framer.pending[k])'
  <2> SUFFICES ASSUME NEW k \in 1..Len(framer.pending)
               PROVE  sent.ts < framer.pending[k] /\ Earlier(framer.pending[k])'
    OBVIOUS
  <2>1. sent.ts < framer.pending[k] /\ Earlier(framer.pending[k])  BY DEF ChunksInOrder
  <2> DEFINE x == framer.pending[k]
  <2>2. x \in Nat /\ x' = x  BY SampleTypes
  <2> QED  BY <2>1, <2>2 DEF Earlier, HasBuffer
<1>4. \A i \in 1..Len(audio'.chunks) : \A k \in 1..Len(audio'.chunks[i].data) :
        sent'.ts < audio'.chunks[i].data[k] /\ Earlier(audio.chunks[i].data[k])'
  <2> SUFFICES ASSUME NEW i \in 1..Len(audio.chunks), NEW k \in 1..Len(audio.chunks[i].data)
               PROVE  sent.ts < audio.chunks[i].data[k] /\ Earlier(audio.chunks[i].data[k])'
    OBVIOUS
  <2> DEFINE x == audio.chunks[i].data[k]
  <2>1. sent.ts < x /\ Earlier(x)  BY DEF ChunksInOrder
  <2>2. x \in Nat /\ x' = x  BY SampleTypes
  <2> QED  BY <2>1, <2>2 DEF Earlier, HasBuffer
<1> QED  BY <1>1, <1>2, <1>3, <1>4 DEF ChunksInOrder

(* A step of a thread that moves no samples. *)
LEMMA NoSamplesMove ==
  ASSUME AudioIInv, AudioShape', HasBuffer' = HasBuffer,
         UNCHANGED <<stream.pos, stream.buf, queue, audio.chunks, framer, sent>>
  PROVE  AudioIInv'
<1>1. BuffersInOrder'  BY DEF AudioIInv, BuffersInOrder, IsBuffer, BufferEnd, NoBuffer
<1>2. \A x \in Nat : Earlier(x) => Earlier(x)'  BY DEF Earlier
<1>3. ChunksInOrder'  BY <1>2, FramesKept DEF AudioIInv
<1> QED  BY <1>1, <1>3 DEF AudioIInv

(* The audio starts with no samples anywhere. *)
LEMMA AudioInitInv == AudioInit => AudioIInv
<1> SUFFICES ASSUME AudioInit PROVE AudioIInv  OBVIOUS
<1>1. /\ <<>> \in Seq(AudioData) /\ <<>> \in Seq(Nat) /\ Len(<<>>) = 0
  BY EmptySeq
<1>2. NoBuffer \in AudioData  BY <1>1 DEF NoBuffer, AudioData
<1>3. AudioShape
  <2>1. /\ audio.chunks = <<>> /\ audio.pc # "encode"
        /\ audio \in [pc : {"create", "encoder", "recv", "encode", "stop", "done"},
                      chunks : Seq(AudioData)]
    BY <1>1 DEF AudioInit
  <2>2. /\ stream.pc = "none" /\ queue = <<>>
        /\ stream \in [pc : {"none", "spawned", "run", "send", "drain", "ended"},
                       pos : 0..MaxSamples, buf : AudioData, quit : BOOLEAN]
    BY <1>2, AudioAssumption, SMTT(30) DEF AudioInit
  <2>3. /\ framer \in [pending : Seq(Nat), start : Nat] /\ encoder \in Nat
        /\ sent \in [sequence : {encoder}, ts : Nat]
    BY <1>1 DEF AudioInit
  <2> QED  BY <1>1, <2>1, <2>2, <2>3, AudioAssumption, SMTT(30) DEF AudioShape
<1>4. BuffersInOrder  BY <1>1, SMTT(30) DEF AudioInit, BuffersInOrder, HasBuffer
<1>5. ChunksInOrder
  BY <1>1, AudioAssumption, SMTT(30) DEF AudioInit, ChunksInOrder, IsFramer, AreChunks, Rises, Earlier, HasBuffer
<1> QED  BY <1>3, <1>4, <1>5 DEF AudioIInv

(* Starting, stopping and the coming and going of clients. *)
LEMMA QuietInv ==
  ASSUME AudioIInv,
         \/ StreamConnects \/ StreamQuits \/ AudioCreates \/ EncoderCreates \/ StopCapture
         \/ ClientsChange
  PROVE  AudioIInv'
<1>0. AudioShape  BY DEF AudioIInv
<1>1. CASE StreamConnects
  <2>1. AudioShape'  BY <1>0, <1>1 DEF AudioShape, StreamConnects
  <2> QED  BY <1>0, <1>1, <2>1, NoSamplesMove, SMTT(30) DEF AudioShape, StreamConnects, HasBuffer
<1>2. CASE StreamQuits
  <2>1. AudioShape'  BY <1>0, <1>2 DEF AudioShape, StreamQuits
  <2> QED  BY <1>0, <1>2, <2>1, NoSamplesMove, SMTT(30) DEF AudioShape, StreamQuits, HasBuffer
<1>3. CASE AudioCreates
  <2>1. AudioShape'  BY <1>0, <1>3 DEF AudioShape, AudioCreates
  <2> QED  BY <1>0, <1>3, <2>1, NoSamplesMove, SMTT(30) DEF AudioShape, AudioCreates, HasBuffer
<1>4. CASE EncoderCreates
  <2>1. AudioShape'  BY <1>0, <1>4 DEF AudioShape, EncoderCreates
  <2> QED  BY <1>0, <1>4, <2>1, NoSamplesMove DEF AudioShape, EncoderCreates, HasBuffer
<1>5. CASE StopCapture
  <2>1. AudioShape'  BY <1>0, <1>5 DEF AudioShape, StopCapture
  <2> QED  BY <1>0, <1>5, <2>1, NoSamplesMove DEF AudioShape, StopCapture, HasBuffer
<1>6. CASE ClientsChange
  <2>1. AudioShape'  BY <1>0, <1>6 DEF AudioShape, ClientsChange
  <2> QED  BY <1>0, <1>6, <2>1, NoSamplesMove DEF AudioShape, ClientsChange, HasBuffer
<1> QED  BY <1>1, <1>2, <1>3, <1>4, <1>5, <1>6

(* A buffer is read: it begins where the samples played so far end. *)
LEMMA ProcessInv == ASSUME AudioIInv, Process PROVE AudioIInv'
<1>0. AudioShape  BY DEF AudioIInv
<1>1. PICK n \in BufferSizes :
        /\ stream.pos + n <= MaxSamples
        /\ stream' = [stream EXCEPT !.pc = "send", !.pos = stream.pos + n, !.buf = ReadBuffer(n)]
  BY DEF Process
<1>2. n \in Nat /\ stream.pos \in Nat /\ MaxSamples \in Nat  BY <1>0, AudioAssumption, SampleTypes
<1> DEFINE b == ReadBuffer(n)
           data == [k \in 1..n |-> stream.pos + k]
<1>3. data \in Seq(Nat) /\ Len(data) = n  BY <1>2, SMTT(30)
<1>4. b = [data |-> data, ts |-> stream.pos + 1]  BY DEF ReadBuffer
<1>5. b \in AudioData /\ b.ts = stream.pos + 1 /\ BufferEnd(b) = stream.pos + n + 1
  <2> HIDE DEF data, b
  <2> QED  BY <1>2, <1>3, <1>4, SMTT(30) DEF AudioData, BufferEnd
<1>6. IsBuffer(b)
  <2>1. \A k \in 1..Len(data) : data[k] = stream.pos + 1 + k - 1  BY <1>2, <1>3, SMTT(30)
  <2> HIDE DEF data, b
  <2> QED  BY <1>2, <1>4, <2>1, SMTT(30) DEF IsBuffer
<1>7. stream' = [stream EXCEPT !.pc = "send", !.pos = stream.pos + n, !.buf = b]  BY <1>1
<1> HIDE DEF b, data
<1>8. stream.pos + n \in 0..MaxSamples  BY <1>1, <1>2, SMTT(30)
<1>9. /\ stream'.pc = "send" /\ stream'.pos = stream.pos + n /\ stream'.buf = b
      /\ stream' \in [pc : {"none", "spawned", "run", "send", "drain", "ended"},
                      pos : 0..MaxSamples, buf : AudioData, quit : BOOLEAN]
  BY <1>0, <1>5, <1>7, <1>8 DEF AudioShape
<1>10. stream.pc = "run" /\ UNCHANGED <<queue, audio, framer, encoder, clients, sent>>
  BY DEF Process
<1>11. AudioShape'  BY <1>0, <1>9, <1>10 DEF AudioShape
<1>12. ~HasBuffer /\ HasBuffer'  BY <1>9, <1>10 DEF HasBuffer
<1>13. BuffersInOrder'
  <2>1. \A i \in 1..Len(queue) : BufferEnd(queue[i]) \in Nat /\ BufferEnd(queue[i]) <= stream.pos + 1
    BY <1>0, SampleTypes, SMTT(30) DEF AudioIInv, BuffersInOrder, BufferEnd
  <2>2. (IsBuffer(stream.buf) /\ BufferEnd(stream.buf) = stream.pos + 1)'
    BY <1>2, <1>5, <1>6, <1>9 DEF IsBuffer, BufferEnd
  <2>3. ASSUME NEW i \in 1..Len(queue)
        PROVE  /\ BufferEnd(queue[i]) <= stream'.pos + 1 /\ BufferEnd(queue[i]) <= stream'.buf.ts
    BY <1>2, <1>5, <1>9, <2>1, SMTT(30)
  <2> QED
    BY <1>10, <1>12, <2>2, <2>3 DEF AudioIInv, BuffersInOrder, IsBuffer, BufferEnd
<1>14. \A x \in Nat : Earlier(x) => Earlier(x)'
  BY <1>2, <1>5, <1>9, <1>10, SMTT(30) DEF Earlier
<1>15. ChunksInOrder'  BY <1>0, <1>10, <1>14, FramesKept DEF AudioIInv
<1> QED  BY <1>11, <1>13, <1>15 DEF AudioIInv

(* The buffer goes to the end of the queue, or the queue is found full. *)
LEMMA TrySendInv == ASSUME AudioIInv, TrySend PROVE AudioIInv'
<1>0. AudioShape  BY DEF AudioIInv
<1>1. HasBuffer /\ UNCHANGED <<audio, framer, encoder, clients, sent>>  BY DEF TrySend, HasBuffer
<1>2. CASE Len(queue) < QueueCap
  <2>1. /\ queue' = Append(queue, stream.buf)
        /\ stream' = [stream EXCEPT !.pc = "run", !.buf = NoBuffer]
    BY <1>2 DEF TrySend
  <2>2. queue \in Seq(AudioData) /\ Len(queue) \in Nat /\ stream.buf \in AudioData /\ QueueCap \in Nat
    BY <1>0, LenProperties, AudioAssumption DEF AudioShape
  <2>3. /\ queue' \in Seq(AudioData) /\ Len(queue') = Len(queue) + 1
        /\ \A i \in 1..Len(queue) : queue'[i] = queue[i]
        /\ queue'[Len(queue) + 1] = stream.buf
    BY <2>1, <2>2, AppendProperties, SMTT(30)
  <2>4. NoBuffer \in AudioData  BY EmptySeq DEF NoBuffer, AudioData
  <2>5. /\ stream'.pc = "run" /\ stream'.pos = stream.pos /\ stream'.buf = NoBuffer
        /\ stream' \in [pc : {"none", "spawned", "run", "send", "drain", "ended"},
                        pos : 0..MaxSamples, buf : AudioData, quit : BOOLEAN]
    BY <1>0, <2>1, <2>4 DEF AudioShape
  <2>6. audio.pc # "create"  BY <1>0, <1>1 DEF AudioShape, HasBuffer
  <2>7. AudioShape'  BY <1>0, <1>1, <1>2, <2>2, <2>3, <2>5, <2>6, SMTT(30) DEF AudioShape
  <2>8. ~HasBuffer'  BY <2>5 DEF HasBuffer
  <2>9. \A i \in 1..Len(queue') : i \in 1..Len(queue) \/ i = Len(queue) + 1  BY <2>2, <2>3, SMTT(30)
  <2>10. IsBuffer(stream.buf) /\ BufferEnd(stream.buf) = stream.pos + 1
    BY <1>1 DEF AudioIInv, BuffersInOrder
  <2>11. BuffersInOrder'
    <3>1. ASSUME NEW i \in 1..Len(queue') PROVE IsBuffer(queue'[i]) /\ BufferEnd(queue'[i]) <= stream.pos + 1
      <4>1. CASE i \in 1..Len(queue)  BY <2>3, <4>1 DEF AudioIInv, BuffersInOrder
      <4>2. CASE i = Len(queue) + 1
        <5>1. stream.pos + 1 \in Nat  BY <1>0, SampleTypes, SMTT(30)
        <5> QED  BY <2>3, <2>10, <4>2, <5>1, SMTT(30)
      <4> QED  BY <2>9, <4>1, <4>2
    <3>2. ASSUME NEW i \in 1..Len(queue'), NEW j \in 1..Len(queue'), i < j
          PROVE  BufferEnd(queue'[i]) <= queue'[j].ts
      <4>1. i \in 1..Len(queue)  BY <2>2, <2>3, <3>2, SMTT(30)
      <4>2. CASE j \in 1..Len(queue)  BY <2>3, <3>2, <4>1, <4>2 DEF AudioIInv, BuffersInOrder
      <4>3. CASE j = Len(queue) + 1  BY <1>1, <2>3, <4>1, <4>3 DEF AudioIInv, BuffersInOrder
      <4> QED  BY <2>9, <4>2, <4>3
    <3> QED  BY <2>5, <2>8, <3>1, <3>2 DEF BuffersInOrder, IsBuffer, BufferEnd, NoBuffer
  <2>12. \A x \in Nat : Earlier(x) => Earlier(x)'
    <3> SUFFICES ASSUME NEW x \in Nat, Earlier(x) PROVE Earlier(x)'  OBVIOUS
    <3>1. \A j \in 1..Len(queue') : x < queue'[j].ts  BY <1>1, <2>3, <2>9 DEF Earlier
    <3> QED  BY <2>5, <2>8, <3>1 DEF Earlier
  <2>13. ChunksInOrder'  BY <1>0, <1>1, <2>12, FramesKept DEF AudioIInv
  <2> QED  BY <2>7, <2>11, <2>13 DEF AudioIInv
<1>3. CASE ~(Len(queue) < QueueCap)
  <2>1. stream' = [stream EXCEPT !.pc = "drain"] /\ UNCHANGED queue  BY <1>3 DEF TrySend
  <2>2. AudioShape'  BY <1>0, <1>1, <2>1 DEF AudioShape, HasBuffer
  <2> QED  BY <1>0, <1>1, <2>1, <2>2, NoSamplesMove DEF AudioShape, HasBuffer
<1> QED  BY <1>2, <1>3

(* The queue without its oldest buffer. *)
LEMMA TailFacts ==
  ASSUME AudioIInv, queue # <<>>, queue' = Tail(queue)
  PROVE  /\ queue' \in Seq(AudioData) /\ Len(queue') = Len(queue) - 1 /\ Len(queue) \in Nat
         /\ Head(queue) = queue[1] /\ 1 \in 1..Len(queue)
         /\ \A i \in 1..Len(queue') : i + 1 \in 1..Len(queue) /\ queue'[i] = queue[i + 1]
<1>1. queue \in Seq(AudioData) /\ Len(queue) \in Nat \ {0}
  BY EmptySeq DEF AudioIInv, AudioShape
<1>2. /\ queue' \in Seq(AudioData) /\ Len(queue') = Len(queue) - 1
      /\ \A i \in 1..Len(queue') : queue'[i] = queue[i + 1]
  BY <1>1, HeadTailProperties
<1>3. Head(queue) = queue[1]  BY <1>1, SMTT(30)
<1> QED  BY <1>1, <1>2, <1>3, SMTT(30)

(* A full queue loses its oldest buffer; one that was emptied, this one. *)
LEMMA DropOldestInv == ASSUME AudioIInv, DropOldest PROVE AudioIInv'
<1>0. AudioShape  BY DEF AudioIInv
<1>1. HasBuffer /\ UNCHANGED <<audio, framer, encoder, clients, sent>>  BY DEF DropOldest, HasBuffer
<1>2. audio.pc # "create"  BY <1>0, <1>1 DEF AudioShape, HasBuffer
<1>3. CASE queue = <<>>
  <2>1. stream' = [stream EXCEPT !.pc = "run", !.buf = NoBuffer] /\ UNCHANGED queue
    BY <1>3 DEF DropOldest
  <2>2. NoBuffer \in AudioData  BY EmptySeq DEF NoBuffer, AudioData
  <2>3. AudioShape'  BY <1>0, <1>1, <1>2, <2>1, <2>2 DEF AudioShape
  <2>4. stream'.pc = "run" /\ stream'.pos = stream.pos /\ stream'.buf = NoBuffer /\ ~HasBuffer'
    BY <1>0, <2>1 DEF AudioShape, HasBuffer
  <2>5. BuffersInOrder'
    BY <2>1, <2>4 DEF AudioIInv, BuffersInOrder, IsBuffer, BufferEnd, NoBuffer
  <2>6. \A x \in Nat : Earlier(x) => Earlier(x)'  BY <2>1, <2>4 DEF Earlier
  <2>7. ChunksInOrder'  BY <1>0, <1>1, <2>6, FramesKept DEF AudioIInv
  <2> QED  BY <2>3, <2>5, <2>7 DEF AudioIInv
<1>4. CASE queue # <<>>
  <2>1. stream' = [stream EXCEPT !.pc = "send"] /\ queue' = Tail(queue)  BY <1>4 DEF DropOldest
  <2>2. /\ queue' \in Seq(AudioData) /\ Len(queue') = Len(queue) - 1 /\ Len(queue) \in Nat
        /\ \A i \in 1..Len(queue') : i + 1 \in 1..Len(queue) /\ queue'[i] = queue[i + 1]
    BY <1>4, <2>1, TailFacts
  <2>3. AudioShape'
    <3>1. Len(queue') <= QueueCap  BY <1>0, <2>2, AudioAssumption, SMTT(30) DEF AudioShape
    <3> QED  BY <1>0, <1>1, <1>2, <2>1, <2>2, <3>1 DEF AudioShape
  <2>4. stream'.pos = stream.pos /\ stream'.buf = stream.buf /\ HasBuffer'
    BY <1>0, <2>1 DEF AudioShape, HasBuffer
  <2>5. BuffersInOrder'
    <3>1. ASSUME NEW i \in 1..Len(queue')
          PROVE  /\ IsBuffer(queue'[i]) /\ BufferEnd(queue'[i]) <= stream.pos + 1
                 /\ BufferEnd(queue'[i]) <= stream.buf.ts
      BY <1>1, <2>2 DEF AudioIInv, BuffersInOrder
    <3>2. ASSUME NEW i \in 1..Len(queue'), NEW j \in 1..Len(queue'), i < j
          PROVE  BufferEnd(queue'[i]) <= queue'[j].ts
      <4>1. i + 1 < j + 1  BY <2>2, <3>2, SMTT(30)
      <4> QED  BY <2>2, <4>1 DEF AudioIInv, BuffersInOrder
    <3>3. IsBuffer(stream.buf) /\ BufferEnd(stream.buf) = stream.pos + 1
      BY <1>1 DEF AudioIInv, BuffersInOrder
    <3> QED  BY <2>4, <3>1, <3>2, <3>3 DEF BuffersInOrder, IsBuffer, BufferEnd
  <2>6. \A x \in Nat : Earlier(x) => Earlier(x)'  BY <1>1, <2>2, <2>4 DEF Earlier
  <2>7. ChunksInOrder'  BY <1>0, <1>1, <2>6, FramesKept DEF AudioIInv
  <2> QED  BY <2>3, <2>5, <2>7 DEF AudioIInv
<1> QED  BY <1>3, <1>4

(* The oldest buffer goes through the framer. *)
LEMMA NextSamplesInv == ASSUME AudioIInv, NextSamples PROVE AudioIInv'
<1>0. AudioShape  BY DEF AudioIInv
<1>1. audio.pc = "recv" /\ UNCHANGED <<stream, encoder, clients, sent>>  BY DEF NextSamples
<1>2. CASE queue = <<>>
  <2>1. audio' = [audio EXCEPT !.pc = "stop"] /\ UNCHANGED <<queue, framer>>
    BY <1>2 DEF NextSamples
  <2>2. AudioShape'  BY <1>0, <1>1, <2>1 DEF AudioShape
  <2> QED  BY <1>0, <1>1, <2>1, <2>2, NoSamplesMove DEF AudioShape, HasBuffer
<1>3. CASE queue # <<>>
  <2> DEFINE b == queue[1]
             p == Push(framer, b)
             all == framer.pending \o b.data
  <2>1. /\ queue' = Tail(queue)
        /\ framer' = Push(framer, Head(queue)).framer
        /\ audio' = [pc |-> IF Push(framer, Head(queue)).chunks = <<>> THEN "recv" ELSE "encode",
                     chunks |-> Push(framer, Head(queue)).chunks]
    BY <1>3 DEF NextSamples
  <2>2. /\ queue' \in Seq(AudioData) /\ Len(queue') = Len(queue) - 1 /\ Len(queue) \in Nat
        /\ Head(queue) = b /\ 1 \in 1..Len(queue)
        /\ \A i \in 1..Len(queue') : i + 1 \in 1..Len(queue) /\ queue'[i] = queue[i + 1]
    BY <1>3, <2>1, TailFacts
  <2>3. /\ b \in AudioData /\ IsBuffer(b) /\ b.ts \in Nat /\ Len(b.data) \in Nat
        /\ BufferEnd(b) <= stream.pos + 1 /\ (HasBuffer => BufferEnd(b) <= stream.buf.ts)
        /\ \A j \in 1..Len(queue') : BufferEnd(b) <= queue'[j].ts
    <3>1. \A j \in 1..Len(queue') : 1 < j + 1  BY <2>2, SMTT(30)
    <3> QED  BY <1>0, <2>2, <3>1, SampleTypes DEF AudioIInv, BuffersInOrder
  <2>4. /\ framer \in [pending : Seq(Nat), start : Nat] /\ IsFramer(framer)
        /\ \A k \in 1..Len(framer.pending) :
             /\ framer.pending[k] \in Nat /\ sent.ts < framer.pending[k]
             /\ 0 < framer.pending[k] /\ framer.pending[k] < b.ts
        /\ sent.ts < b.ts /\ sent.ts \in Nat
    <3>1. /\ framer \in [pending : Seq(Nat), start : Nat] /\ sent.ts \in Nat
          /\ \A k \in 1..Len(framer.pending) : framer.pending[k] \in Nat
      BY <1>0, SampleTypes DEF AudioShape
    <3>2. IsFramer(framer) /\ sent.ts < b.ts  BY <2>2 DEF AudioIInv, ChunksInOrder, Earlier
    <3>3. \A k \in 1..Len(framer.pending) : sent.ts < framer.pending[k] /\ framer.pending[k] < b.ts
      BY <2>2 DEF AudioIInv, ChunksInOrder, Earlier
    <3> QED  BY <3>1, <3>2, <3>3, SMTT(30)
  <2> HIDE DEF b
  <2>5. /\ p.chunks \in Seq(AudioData)
        /\ p.framer \in [pending : Seq(Nat), start : Nat]
        /\ IsFramer(p.framer) /\ AreChunks(p.chunks, p.framer.pending)
        /\ \A k \in 1..Len(p.framer.pending) :
             \E q \in 1..Len(all) : p.framer.pending[k] = all[q]
        /\ \A i \in 1..Len(p.chunks) : \A k \in 1..Len(p.chunks[i].data) :
             \E q \in 1..Len(all) : p.chunks[i].data[k] = all[q]
    BY <2>3, <2>4, PushFacts
  <2>6. framer' = p.framer /\ audio'.chunks = p.chunks
        /\ audio' = [pc |-> IF p.chunks = <<>> THEN "recv" ELSE "encode", chunks |-> p.chunks]
    BY <2>1, <2>2
  <2>7. \A q \in 1..Len(all) : all[q] \in Nat /\ sent.ts < all[q] /\ all[q] < BufferEnd(b)
    <3> TAKE q \in 1..Len(all)
    <3>1. /\ all[q] \in Nat /\ Len(all) = Len(framer.pending) + Len(b.data)
          /\ q <= Len(framer.pending) => all[q] = framer.pending[q]
          /\ q > Len(framer.pending) => all[q] = b.ts + (q - Len(framer.pending)) - 1
      BY <2>3, <2>4, AllFacts
    <3>2. Len(framer.pending) \in Nat /\ BufferEnd(b) = b.ts + Len(b.data)
      BY <2>4, LenProperties DEF BufferEnd
    <3> HIDE DEF all
    <3>3. CASE q <= Len(framer.pending)
      <4>1. q \in 1..Len(framer.pending)  BY <3>1, <3>2, <3>3, SMTT(30)
      <4> QED  BY <2>3, <2>4, <3>1, <3>2, <3>3, <4>1, SMTT(30)
    <3>4. CASE q > Len(framer.pending)  BY <2>3, <2>4, <3>1, <3>2, <3>4, SMTT(30)
    <3> QED  BY <3>1, <3>2, <3>3, <3>4, SMTT(30)
  <2> HIDE DEF p, all
  <2>8. AudioShape'
    <3>1. Len(queue') <= QueueCap  BY <1>0, <2>2, AudioAssumption, SMTT(30) DEF AudioShape
    <3> QED  BY <1>0, <1>1, <2>2, <2>5, <2>6, <3>1 DEF AudioShape
  <2>9. BuffersInOrder'
    <3>1. ASSUME NEW i \in 1..Len(queue')
          PROVE  /\ IsBuffer(queue'[i]) /\ BufferEnd(queue'[i]) <= stream.pos + 1
                 /\ HasBuffer => BufferEnd(queue'[i]) <= stream.buf.ts
      BY <2>2 DEF AudioIInv, BuffersInOrder
    <3>2. ASSUME NEW i \in 1..Len(queue'), NEW j \in 1..Len(queue'), i < j
          PROVE  BufferEnd(queue'[i]) <= queue'[j].ts
      <4>1. i + 1 < j + 1  BY <2>2, <3>2, SMTT(30)
      <4> QED  BY <2>2, <4>1 DEF AudioIInv, BuffersInOrder
    <3>3. HasBuffer => IsBuffer(stream.buf) /\ BufferEnd(stream.buf) = stream.pos + 1
      BY DEF AudioIInv, BuffersInOrder
    <3>4. ~HasBuffer => stream.buf = NoBuffer  BY DEF AudioIInv, BuffersInOrder
    <3> QED
      BY <1>1, <3>1, <3>2, <3>3, <3>4 DEF BuffersInOrder, IsBuffer, BufferEnd, HasBuffer, NoBuffer
  <2> DEFINE earlier(x) == /\ x <= stream'.pos
                           /\ HasBuffer' => x < stream'.buf.ts
                           /\ \A j \in 1..Len(queue') : x < queue'[j].ts
  <2>10. \A q \in 1..Len(all) : earlier(all[q])
    <3> TAKE q \in 1..Len(all)
    <3>1. all[q] \in Nat /\ all[q] < BufferEnd(b) /\ BufferEnd(b) \in Nat
      BY <2>3, <2>7, SMTT(30) DEF BufferEnd
    <3>2. /\ stream.pos \in Nat /\ stream.buf.ts \in Nat
          /\ \A j \in 1..Len(queue') : queue'[j].ts \in Nat
      BY <1>0, <2>2, SampleTypes
    <3>3. all[q] <= stream.pos /\ (HasBuffer => all[q] < stream.buf.ts)  BY <2>3, <3>1, <3>2, SMTT(30)
    <3>4. \A j \in 1..Len(queue') : all[q] < queue'[j].ts  BY <2>3, <3>1, <3>2, SMTT(30)
    <3> QED  BY <1>1, <3>3, <3>4 DEF HasBuffer
  <2>11. ChunksInOrder'
    <3>1. Earlier(sent.ts)'
      BY <1>1, <2>2 DEF AudioIInv, ChunksInOrder, Earlier, HasBuffer
    <3> HIDE DEF earlier
    <3>2. \A k \in 1..Len(framer'.pending) :
            sent'.ts < framer'.pending[k] /\ earlier(framer'.pending[k])
      BY <1>1, <2>5, <2>6, <2>7, <2>10
    <3>3. \A i \in 1..Len(audio'.chunks) : \A k \in 1..Len(audio'.chunks[i].data) :
            sent'.ts < audio'.chunks[i].data[k] /\ earlier(audio'.chunks[i].data[k])
      BY <1>1, <2>5, <2>6, <2>7, <2>10, SMTT(30)
    <3>4. IsFramer(framer')  BY <2>5, <2>6
    <3>5. AreChunks(audio'.chunks, framer'.pending)  BY <2>5, <2>6
    <3>6. IsFramer(framer)'  BY <3>4 DEF IsFramer, Rises
    <3>7. AreChunks(audio.chunks, framer.pending)'  BY <3>5 DEF AreChunks, Rises, Before
    <3> QED  BY <3>1, <3>2, <3>3, <3>6, <3>7 DEF ChunksInOrder, Earlier, earlier
  <2> QED  BY <2>8, <2>9, <2>11 DEF AudioIInv
<1> QED  BY <1>2, <1>3

(* The first frame goes; its packet, if there is one, has its time. *)
LEMMA EncodeFrameFacts ==
  ASSUME AudioIInv, EncodeFrame
  PROVE  /\ audio'.chunks = Tail(audio.chunks) /\ audio'.chunks \in Seq(AudioData)
         /\ audio.chunks \in Seq(AudioData) /\ Len(audio.chunks) \in Nat \ {0}
         /\ Len(audio'.chunks) = Len(audio.chunks) - 1
         /\ \A i \in 1..Len(audio'.chunks) :
              i + 1 \in 1..Len(audio.chunks) /\ audio'.chunks[i] = audio.chunks[i + 1]
         /\ \/ encoder' = encoder /\ sent' = sent
            \/ encoder' = encoder + 1
               /\ sent' = [sequence |-> encoder + 1, ts |-> audio.chunks[1].data[1]]
         /\ Len(audio.chunks[1].data) = FrameSamples /\ 1 \in 1..Len(audio.chunks[1].data)
<1>1. audio.chunks \in Seq(AudioData) /\ audio.chunks # <<>>  BY DEF AudioIInv, AudioShape, EncodeFrame
<1>2. Len(audio.chunks) \in Nat \ {0} /\ Head(audio.chunks) = audio.chunks[1]  BY <1>1, EmptySeq, SMTT(30)
<1>3. audio'.chunks = Tail(audio.chunks)  BY DEF EncodeFrame
<1>4. /\ audio'.chunks \in Seq(AudioData) /\ Len(audio'.chunks) = Len(audio.chunks) - 1
      /\ \A i \in 1..Len(audio'.chunks) : audio'.chunks[i] = audio.chunks[i + 1]
  BY <1>1, <1>3, HeadTailProperties, SMTT(30)
<1>5. 1 \in 1..Len(audio.chunks)  BY <1>2, SMTT(30)
<1>6. /\ Len(audio.chunks[1].data) = FrameSamples
      /\ audio.chunks[1].ts = audio.chunks[1].data[1]
  BY <1>5 DEF AudioIInv, ChunksInOrder, AreChunks
<1>7. 1 \in 1..Len(audio.chunks[1].data)  BY <1>6, AudioAssumption, SMTT(30)
<1>8. \/ encoder' = encoder /\ sent' = sent
      \/ encoder' = encoder + 1
         /\ sent' = [sequence |-> encoder + 1, ts |-> Head(audio.chunks).ts]
  BY DEF EncodeFrame
<1>9. \A i \in 1..Len(audio'.chunks) : i + 1 \in 1..Len(audio.chunks)  BY <1>2, <1>4, SMTT(30)
<1> QED  BY <1>1, <1>2, <1>3, <1>4, <1>6, <1>7, <1>8, <1>9

(* What is left is later than the frame that went. *)
LEMMA EncodeFrameInv == ASSUME AudioIInv, EncodeFrame PROVE AudioIInv'
<1>0. AudioShape  BY DEF AudioIInv
<1>1. UNCHANGED <<stream, queue, framer, clients>>  BY DEF EncodeFrame
<1>2. /\ audio'.chunks \in Seq(AudioData) /\ Len(audio.chunks) \in Nat \ {0}
      /\ Len(audio'.chunks) = Len(audio.chunks) - 1
      /\ \A i \in 1..Len(audio'.chunks) :
           i + 1 \in 1..Len(audio.chunks) /\ audio'.chunks[i] = audio.chunks[i + 1]
      /\ \/ encoder' = encoder /\ sent' = sent
         \/ encoder' = encoder + 1
            /\ sent' = [sequence |-> encoder + 1, ts |-> audio.chunks[1].data[1]]
      /\ 1 \in 1..Len(audio.chunks[1].data)
  BY EncodeFrameFacts
<1> DEFINE first == audio.chunks[1].data[1]
<1>3. 1 \in 1..Len(audio.chunks)  BY <1>2, SMTT(30)
<1>4. first \in Nat  BY <1>0, <1>2, <1>3, SampleTypes
<1>5. AudioShape'
  <2>1. audio' = [pc |-> IF audio'.chunks = <<>> THEN "recv" ELSE "encode", chunks |-> audio'.chunks]
    BY DEF EncodeFrame
  <2>2. audio' \in [pc : {"create", "encoder", "recv", "encode", "stop", "done"}, chunks : Seq(AudioData)]
        /\ (audio'.pc = "encode" <=> audio'.chunks # <<>>) /\ audio'.pc # "create"
    BY <1>2, <2>1, SMTT(30)
  <2>3. encoder' \in Nat /\ sent' \in [sequence : {encoder'}, ts : Nat]
    BY <1>0, <1>2, <1>4, SMTT(30) DEF AudioShape
  <2> QED  BY <1>0, <1>1, <2>2, <2>3 DEF AudioShape
<1>6. BuffersInOrder'
  BY <1>1 DEF AudioIInv, BuffersInOrder, IsBuffer, BufferEnd, HasBuffer, NoBuffer
<1>7. sent'.ts \in {sent.ts, first}  BY <1>2, SMTT(30)
<1>8. Earlier(sent.ts)'
  <2>1. Earlier(sent.ts) /\ Earlier(first)  BY <1>2, <1>3 DEF AudioIInv, ChunksInOrder
  <2> QED  BY <1>1, <1>7, <2>1 DEF Earlier, HasBuffer
<1>9. \A k \in 1..Len(framer.pending) : sent'.ts < framer.pending[k]
  BY <1>2, <1>3, <1>7 DEF AudioIInv, ChunksInOrder, AreChunks, Before
<1>10. \A i \in 1..Len(audio'.chunks) : \A k \in 1..Len(audio'.chunks[i].data) :
         sent'.ts < audio'.chunks[i].data[k]
  <2> TAKE i \in 1..Len(audio'.chunks)
  <2> TAKE k \in 1..Len(audio'.chunks[i].data)
  <2>1. i + 1 \in 1..Len(audio.chunks) /\ 1 < i + 1 /\ audio'.chunks[i] = audio.chunks[i + 1]
    BY <1>2, SMTT(30)
  <2>2. sent.ts < audio.chunks[i + 1].data[k]  BY <2>1 DEF AudioIInv, ChunksInOrder
  <2>3. first < audio.chunks[i + 1].data[k]
    BY <1>2, <1>3, <2>1 DEF AudioIInv, ChunksInOrder, AreChunks, Before
  <2> QED  BY <1>7, <2>1, <2>2, <2>3
<1>11. ChunksInOrder'
  <2>1. IsFramer(framer)'  BY <1>1 DEF AudioIInv, ChunksInOrder, IsFramer, Rises
  <2>2. AreChunks(audio'.chunks, framer.pending)
    <3>1. AreChunks(audio.chunks, framer.pending)  BY DEF AudioIInv, ChunksInOrder
    <3>2. \A i, j \in 1..Len(audio'.chunks) : i < j => i + 1 < j + 1  BY <1>2, SMTT(30)
    <3> QED  BY <1>2, <3>1, <3>2, ZenonT(40) DEF AreChunks
  <2>3. AreChunks(audio.chunks, framer.pending)'  BY <1>1, <2>2 DEF AreChunks, Rises, Before
  <2>4. \A k \in 1..Len(framer.pending) : Earlier(framer.pending[k])  BY DEF AudioIInv, ChunksInOrder
  <2>5. \A i \in 1..Len(audio'.chunks) : \A k \in 1..Len(audio'.chunks[i].data) :
          Earlier(audio'.chunks[i].data[k])
    BY <1>2 DEF AudioIInv, ChunksInOrder
  <2> QED
    BY <1>1, <1>8, <1>9, <1>10, <2>1, <2>3, <2>4, <2>5 DEF ChunksInOrder, Earlier, HasBuffer
<1> QED  BY <1>5, <1>6, <1>11 DEF AudioIInv

(* Every step keeps the invariant. *)
LEMMA AudioNextInv == AudioIInv /\ [AudioNext]_audioVars => AudioIInv'
<1> SUFFICES ASSUME AudioIInv, [AudioNext]_audioVars PROVE AudioIInv'  OBVIOUS
<1>1. CASE AudioNext
  BY <1>1, QuietInv, ProcessInv, TrySendInv, DropOldestInv, NextSamplesInv, EncodeFrameInv DEF AudioNext
<1>2. CASE UNCHANGED audioVars
  BY <1>2, SMTT(30) DEF audioVars, AudioIInv, AudioShape, BuffersInOrder, ChunksInOrder, IsBuffer,
     BufferEnd, HasBuffer, NoBuffer, IsFramer, AreChunks, Rises, Before, Earlier
<1> QED  BY <1>1, <1>2

(* The inductive invariant of the audio. *)
THEOREM AudioInvariant == AudioSpec => []AudioIInv
<1> QED  BY AudioInitInv, AudioNextInv, PTL DEF AudioSpec

(* Where the samples of the line are. *)
LEMMA LineFacts ==
  ASSUME AudioShape
  PROVE  LET c == Len(audio.chunks)
             q == Len(queue)
         IN /\ c \in Nat /\ q \in Nat /\ Len(Line) = c + q + 2
            /\ \A i \in 1..c : Line[i] = audio.chunks[i].data
            /\ Line[c + 1] = framer.pending
            /\ \A i \in 1..q : Line[c + 1 + i] = queue[i].data
            /\ Line[c + q + 2] = stream.buf.data
<1> DEFINE c == Len(audio.chunks)
           q == Len(queue)
           chunked == [i \in 1..c |-> audio.chunks[i].data]
           queued == [i \in 1..q |-> queue[i].data]
           L1 == chunked \o <<framer.pending>>
           L2 == L1 \o queued
           L3 == L2 \o <<stream.buf.data>>
<1>1. audio.chunks \in Seq(AudioData) /\ queue \in Seq(AudioData) /\ framer.pending \in Seq(Nat)
      /\ stream.buf.data \in Seq(Nat)
  BY DEF AudioShape, AudioData
<1>2. c \in Nat /\ q \in Nat  BY <1>1, LenProperties
<1>3. ASSUME NEW i \in 1..c PROVE audio.chunks[i].data \in Seq(Nat)
  <2>1. audio.chunks[i] \in AudioData  BY <1>1, ElementOfSeq
  <2> QED  BY <2>1 DEF AudioData
<1>4. ASSUME NEW i \in 1..q PROVE queue[i].data \in Seq(Nat)
  <2>1. queue[i] \in AudioData  BY <1>1, ElementOfSeq
  <2> QED  BY <2>1 DEF AudioData
<1>5. chunked \in Seq(Seq(Nat)) /\ Len(chunked) = c /\ \A i \in 1..c : chunked[i] = audio.chunks[i].data
  <2> HIDE DEF c
  <2> QED  BY <1>2, <1>3, SMTT(30)
<1>6. queued \in Seq(Seq(Nat)) /\ Len(queued) = q /\ \A i \in 1..q : queued[i] = queue[i].data
  <2> HIDE DEF q
  <2> QED  BY <1>2, <1>4, SMTT(30)
<1>7. Line = L3  BY DEF Line
<1> HIDE DEF chunked, queued, c, q
<1>8. ASSUME NEW s \in Seq(Nat)
      PROVE  <<s>> \in Seq(Seq(Nat)) /\ Len(<<s>>) = 1 /\ <<s>>[1] = s
  BY SMTT(30)
<1>9. /\ L1 \in Seq(Seq(Nat)) /\ Len(L1) = c + 1
      /\ \A i \in 1..c + 1 : L1[i] = IF i <= c THEN chunked[i] ELSE <<framer.pending>>[i - c]
  <2>1. <<framer.pending>> \in Seq(Seq(Nat)) /\ Len(<<framer.pending>>) = 1  BY <1>1, <1>8
  <2> QED  BY <1>5, <2>1, ConcatProperties
<1>10. L1[c + 1] = framer.pending
  <2>1. c + 1 \in 1..c + 1 /\ ~(c + 1 <= c) /\ (c + 1) - c = 1  BY <1>2, SMTT(30)
  <2>2. L1[c + 1] = <<framer.pending>>[1]  BY <1>9, <2>1
  <2> QED  BY <1>1, <1>8, <2>2
<1> HIDE DEF L1
<1>11. /\ L2 \in Seq(Seq(Nat)) /\ Len(L2) = c + 1 + q
       /\ \A i \in 1..c + 1 + q : L2[i] = IF i <= c + 1 THEN L1[i] ELSE queued[i - (c + 1)]
  <2>1. /\ L2 \in Seq(Seq(Nat)) /\ Len(L2) = Len(L1) + Len(queued)
        /\ \A i \in 1..Len(L1) + Len(queued) : L2[i] = IF i <= Len(L1) THEN L1[i] ELSE queued[i - Len(L1)]
    BY <1>6, <1>9, ConcatProperties
  <2> HIDE DEF L2
  <2> QED  BY <1>6, <1>9, <2>1
<1> HIDE DEF L2
<1>12. /\ L3 \in Seq(Seq(Nat)) /\ Len(L3) = c + 1 + q + 1
       /\ \A i \in 1..c + 1 + q + 1 :
            L3[i] = IF i <= c + 1 + q THEN L2[i] ELSE <<stream.buf.data>>[i - (c + 1 + q)]
  <2>1. <<stream.buf.data>> \in Seq(Seq(Nat)) /\ Len(<<stream.buf.data>>) = 1  BY <1>1, <1>8
  <2> QED  BY <1>11, <2>1, ConcatProperties, SMTT(30)
<1> HIDE DEF L3
<1>13. \A i \in 1..c : L3[i] = audio.chunks[i].data  BY <1>2, <1>5, <1>9, <1>11, <1>12, SMTT(30)
<1>14. L3[c + 1] = framer.pending  BY <1>2, <1>10, <1>11, <1>12, SMTT(30)
<1>15. \A i \in 1..q : L3[c + 1 + i] = queue[i].data
  <2> TAKE i \in 1..q
  <2> DEFINE m == c + 1 + i
  <2>1. /\ m \in 1..c + 1 + q /\ m \in 1..c + 1 + q + 1 /\ m <= c + 1 + q
        /\ ~(m <= c + 1) /\ m - (c + 1) = i
    BY <1>2, SMTT(30)
  <2> HIDE DEF m
  <2>2. L3[m] = L2[m]  BY <1>12, <2>1
  <2>3. L2[m] = queued[m - (c + 1)]  BY <1>11, <2>1
  <2> QED  BY <1>6, <2>1, <2>2, <2>3 DEF m
<1>16. L3[c + q + 2] = stream.buf.data
  <2> DEFINE m == c + q + 2
  <2>1. m \in 1..c + 1 + q + 1 /\ ~(m <= c + 1 + q) /\ m - (c + 1 + q) = 1  BY <1>2, SMTT(30)
  <2> HIDE DEF m
  <2>2. L3[m] = <<stream.buf.data>>[m - (c + 1 + q)]  BY <1>12, <2>1
  <2> QED  BY <1>1, <1>8, <2>1, <2>2 DEF m
<1>17. Len(L3) = c + q + 2  BY <1>2, <1>12, SMTT(30)
<1> QED  BY <1>2, <1>7, <1>13, <1>14, <1>15, <1>16, <1>17 DEF c, q

(* The samples of a buffer lie between its time and its end. *)
LEMMA BufferRises ==
  ASSUME NEW b \in AudioData, IsBuffer(b)
  PROVE  /\ Rises(b.data)
         /\ \A k \in 1..Len(b.data) : b.data[k] \in Nat /\ b.ts <= b.data[k] /\ b.data[k] < BufferEnd(b)
<1>1. b.ts \in Nat /\ b.data \in Seq(Nat)  BY DEF AudioData
<1>2. Len(b.data) \in Nat  BY <1>1, LenProperties
<1> QED  BY <1>1, <1>2, SMTT(30) DEF IsBuffer, Rises, BufferEnd

(* What is earlier comes before every buffer. *)
LEMMA EarlierFacts ==
  ASSUME AudioIInv, NEW x \in Nat, Earlier(x)
  PROVE  /\ \A j \in 1..Len(queue) : \A k \in 1..Len(queue[j].data) : x < queue[j].data[k]
         /\ \A k \in 1..Len(stream.buf.data) : x < stream.buf.data[k]
<1>0. AudioShape  BY DEF AudioIInv
<1>1. ASSUME NEW j \in 1..Len(queue), NEW k \in 1..Len(queue[j].data)
      PROVE  x < queue[j].data[k]
  <2>1. queue[j] \in AudioData /\ queue[j].ts \in Nat  BY <1>0, SampleTypes
  <2>2. IsBuffer(queue[j]) /\ x < queue[j].ts  BY DEF AudioIInv, BuffersInOrder, Earlier
  <2>3. queue[j].data[k] \in Nat /\ queue[j].ts <= queue[j].data[k]  BY <2>1, <2>2, BufferRises
  <2> QED  BY <2>1, <2>2, <2>3, SMTT(30)
<1>2. ASSUME NEW k \in 1..Len(stream.buf.data) PROVE x < stream.buf.data[k]
  <2>1. CASE HasBuffer
    <3>1. stream.buf \in AudioData /\ stream.buf.ts \in Nat  BY <1>0, SampleTypes
    <3>2. IsBuffer(stream.buf) /\ x < stream.buf.ts  BY <2>1 DEF AudioIInv, BuffersInOrder, Earlier
    <3>3. stream.buf.data[k] \in Nat /\ stream.buf.ts <= stream.buf.data[k]  BY <3>1, <3>2, BufferRises
    <3> QED  BY <3>1, <3>2, <3>3, SMTT(30)
  <2>2. CASE ~HasBuffer
    <3>1. stream.buf.data = <<>>  BY <2>2, SMTT(30) DEF AudioIInv, BuffersInOrder, NoBuffer
    <3>2. Len(stream.buf.data) = 0  BY <3>1, EmptySeq
    <3> QED  BY <3>2, SMTT(30)
  <2> QED  BY <2>1, <2>2
<1> QED  BY <1>1, <1>2

(* The buffers of the queue come before the one that waits. *)
LEMMA BufferFacts ==
  ASSUME AudioIInv
  PROVE  /\ Rises(stream.buf.data)
         /\ \A i \in 1..Len(queue) :
              /\ Rises(queue[i].data) /\ Before(queue[i].data, stream.buf.data)
              /\ \A j \in 1..Len(queue) : i < j => Before(queue[i].data, queue[j].data)
<1>0. AudioShape  BY DEF AudioIInv
<1>1. HasBuffer => Rises(stream.buf.data) /\ \A i \in 1..Len(queue) : Before(queue[i].data, stream.buf.data)
  <2> SUFFICES ASSUME HasBuffer
               PROVE  Rises(stream.buf.data) /\ \A i \in 1..Len(queue) : Before(queue[i].data, stream.buf.data)
    OBVIOUS
  <2>1. stream.buf \in AudioData /\ IsBuffer(stream.buf) /\ stream.buf.ts \in Nat
    BY <1>0, SampleTypes DEF AudioIInv, BuffersInOrder
  <2>2. \A k \in 1..Len(stream.buf.data) :
          stream.buf.data[k] \in Nat /\ stream.buf.ts <= stream.buf.data[k]
    BY <2>1, BufferRises
  <2>3. ASSUME NEW i \in 1..Len(queue) PROVE Before(queue[i].data, stream.buf.data)
    <3>1. queue[i] \in AudioData /\ IsBuffer(queue[i]) /\ BufferEnd(queue[i]) <= stream.buf.ts
          /\ queue[i].ts \in Nat /\ Len(queue[i].data) \in Nat
      BY <1>0, SampleTypes DEF AudioIInv, BuffersInOrder
    <3>2. \A k \in 1..Len(queue[i].data) : queue[i].data[k] \in Nat /\ queue[i].data[k] < BufferEnd(queue[i])
      BY <3>1, BufferRises
    <3>3. BufferEnd(queue[i]) \in Nat  BY <3>1, SMTT(30) DEF BufferEnd
    <3> QED  BY <2>1, <2>2, <3>1, <3>2, <3>3, SMTT(30) DEF Before
  <2>4. Rises(stream.buf.data)  BY <2>1, BufferRises
  <2> QED  BY <2>3, <2>4
<1>2. ~HasBuffer => Len(stream.buf.data) = 0  BY EmptySeq, SMTT(30) DEF AudioIInv, BuffersInOrder, NoBuffer
<1>3. ASSUME NEW i \in 1..Len(queue)
      PROVE  /\ Rises(queue[i].data)
             /\ \A j \in 1..Len(queue) : i < j => Before(queue[i].data, queue[j].data)
  <2>1. queue[i] \in AudioData /\ IsBuffer(queue[i]) /\ queue[i].ts \in Nat /\ Len(queue[i].data) \in Nat
    BY <1>0, SampleTypes DEF AudioIInv, BuffersInOrder
  <2>2. /\ Rises(queue[i].data)
        /\ \A k \in 1..Len(queue[i].data) : queue[i].data[k] \in Nat /\ queue[i].data[k] < BufferEnd(queue[i])
    BY <2>1, BufferRises
  <2>3. ASSUME NEW j \in 1..Len(queue), i < j PROVE Before(queue[i].data, queue[j].data)
    <3>1. queue[j] \in AudioData /\ IsBuffer(queue[j]) /\ queue[j].ts \in Nat
          /\ BufferEnd(queue[i]) <= queue[j].ts
      BY <1>0, <2>3, SampleTypes DEF AudioIInv, BuffersInOrder
    <3>2. \A k \in 1..Len(queue[j].data) : queue[j].data[k] \in Nat /\ queue[j].ts <= queue[j].data[k]
      BY <3>1, BufferRises
    <3>3. BufferEnd(queue[i]) \in Nat  BY <2>1, SMTT(30) DEF BufferEnd
    <3> QED  BY <2>2, <3>1, <3>2, <3>3, SMTT(30) DEF Before
  <2> QED  BY <2>2, <2>3
<1> QED  BY <1>1, <1>2, <1>3, SMTT(30) DEF Rises, Before

(* Every two places of the line are in order. *)
LEMMA LineInOrder == AudioIInv => SamplesInOrder
<1> SUFFICES ASSUME AudioIInv PROVE SamplesInOrder  OBVIOUS
<1>0. AudioShape  BY DEF AudioIInv
<1> DEFINE c == Len(audio.chunks)
           q == Len(queue)
<1>1. /\ c \in Nat /\ q \in Nat /\ Len(Line) = c + q + 2
      /\ \A i \in 1..c : Line[i] = audio.chunks[i].data
      /\ Line[c + 1] = framer.pending
      /\ \A i \in 1..q : Line[c + 1 + i] = queue[i].data
      /\ Line[c + q + 2] = stream.buf.data
  BY <1>0, LineFacts
<1>2. ASSUME NEW i \in 1..c
      PROVE  /\ Rises(audio.chunks[i].data) /\ Before(audio.chunks[i].data, framer.pending)
             /\ \A j \in 1..c : i < j => Before(audio.chunks[i].data, audio.chunks[j].data)
             /\ Before(audio.chunks[i].data, stream.buf.data)
             /\ \A j \in 1..q : Before(audio.chunks[i].data, queue[j].data)
  <2>1. \A k \in 1..Len(audio.chunks[i].data) :
          audio.chunks[i].data[k] \in Nat /\ Earlier(audio.chunks[i].data[k])
    BY <1>0, SampleTypes DEF AudioIInv, ChunksInOrder
  <2>2. Before(audio.chunks[i].data, stream.buf.data)  BY <2>1, EarlierFacts DEF Before
  <2>3. \A j \in 1..q : Before(audio.chunks[i].data, queue[j].data)  BY <2>1, EarlierFacts DEF Before
  <2> QED  BY <2>2, <2>3 DEF AudioIInv, ChunksInOrder, AreChunks
<1>3. /\ Rises(framer.pending) /\ Before(framer.pending, stream.buf.data)
      /\ \A j \in 1..q : Before(framer.pending, queue[j].data)
  <2>1. \A k \in 1..Len(framer.pending) : framer.pending[k] \in Nat /\ Earlier(framer.pending[k])
    BY <1>0, SampleTypes DEF AudioIInv, ChunksInOrder
  <2>2. Rises(framer.pending)  BY DEF AudioIInv, ChunksInOrder, IsFramer
  <2> QED  BY <2>1, <2>2, EarlierFacts DEF Before
<1>4. /\ Rises(stream.buf.data)
      /\ \A i \in 1..q :
           /\ Rises(queue[i].data) /\ Before(queue[i].data, stream.buf.data)
           /\ \A j \in 1..q : i < j => Before(queue[i].data, queue[j].data)
  BY BufferFacts
<1> HIDE DEF c, q
<1>5. ASSUME NEW i \in 1..c + q + 2
      PROVE  \/ i \in 1..c
             \/ i = c + 1
             \/ \E k \in 1..q : i = c + 1 + k
             \/ i = c + q + 2
  <2>1. CASE i > c + 1 /\ i < c + q + 2
    <3>1. i - (c + 1) \in 1..q /\ i = c + 1 + (i - (c + 1))  BY <1>1, <2>1, SMTT(30)
    <3> QED  BY <3>1
  <2> QED  BY <1>1, <2>1, SMTT(30)
<1>6. ASSUME NEW i \in 1..c + q + 2, NEW j \in 1..c + q + 2, i < j
      PROVE  Before(Line[i], Line[j])
  <2>1. CASE i \in 1..c
    <3>1. CASE j \in 1..c  BY <1>1, <1>2, <1>6, <2>1, <3>1
    <3>2. CASE j = c + 1  BY <1>1, <1>2, <2>1, <3>2
    <3>3. CASE \E k \in 1..q : j = c + 1 + k  BY <1>1, <1>2, <2>1, <3>3
    <3>4. CASE j = c + q + 2  BY <1>1, <1>2, <2>1, <3>4
    <3> QED  BY <1>5, <3>1, <3>2, <3>3, <3>4
  <2>2. CASE i = c + 1
    <3>1. CASE \E k \in 1..q : j = c + 1 + k  BY <1>1, <1>3, <2>2, <3>1
    <3>2. CASE j = c + q + 2  BY <1>1, <1>3, <2>2, <3>2
    <3>3. ~(j \in 1..c \/ j = c + 1)  BY <1>1, <1>6, <2>2, SMTT(30)
    <3> QED  BY <1>5, <3>1, <3>2, <3>3
  <2>3. CASE \E k \in 1..q : i = c + 1 + k
    <3>1. PICK k \in 1..q : i = c + 1 + k  BY <2>3
    <3>2. CASE \E l \in 1..q : j = c + 1 + l
      <4>1. PICK l \in 1..q : j = c + 1 + l  BY <3>2
      <4>2. k < l  BY <1>1, <1>6, <3>1, <4>1, SMTT(30)
      <4> QED  BY <1>1, <1>4, <3>1, <4>1, <4>2
    <3>3. CASE j = c + q + 2  BY <1>1, <1>4, <3>1, <3>3
    <3>4. ~(j \in 1..c \/ j = c + 1)  BY <1>1, <1>6, <3>1, SMTT(30)
    <3> QED  BY <1>5, <3>2, <3>3, <3>4
  <2>4. ~(i = c + q + 2)  BY <1>1, <1>6, SMTT(30)
  <2> QED  BY <1>5, <2>1, <2>2, <2>3, <2>4
<1>7. ASSUME NEW i \in 1..c + q + 2 PROVE Rises(Line[i])
  <2>1. CASE i \in 1..c  BY <1>1, <1>2, <2>1
  <2>2. CASE i = c + 1  BY <1>1, <1>3, <2>2
  <2>3. CASE \E k \in 1..q : i = c + 1 + k  BY <1>1, <1>4, <2>3
  <2>4. CASE i = c + q + 2  BY <1>1, <1>4, <2>4
  <2> QED  BY <1>5, <2>1, <2>2, <2>3, <2>4
<1> QED  BY <1>1, <1>6, <1>7 DEF SamplesInOrder

(* The sound that reaches the encoder is what was captured, in order and at  *)
(* the times it was captured: for any sizes of buffers and of frames, any    *)
(* queue, and however many buffers were dropped.                             *)
THEOREM AudioIsSafe == AudioSpec => []AudioSafe
<1>1. AudioIInv => AudioSafe
  <2> SUFFICES ASSUME AudioIInv PROVE AudioSafe  OBVIOUS
  <2>1. queue \in Seq(AudioData) /\ framer.pending \in Seq(Nat)  BY DEF AudioIInv, AudioShape
  <2>2. Len(queue) \in Nat /\ Len(framer.pending) \in Nat  BY <2>1, LenProperties
  <2>3. Len(queue) \in 0..QueueCap /\ Len(framer.pending) \in 0..FrameSamples - 1
    BY <2>2, AudioAssumption, SMTT(30) DEF AudioIInv, AudioShape, ChunksInOrder, IsFramer
  <2>4. AudioTypeOK  BY <2>3 DEF AudioTypeOK, AudioIInv, AudioShape, ChunksInOrder, IsFramer
  <2>5. FrameTimeIsItsStart  BY DEF FrameTimeIsItsStart, AudioIInv, ChunksInOrder, AreChunks
  <2>6. SamplesInOrder  BY LineInOrder
  <2> QED  BY <2>4, <2>5, <2>6 DEF AudioSafe
<1> QED  BY <1>1, AudioInvariant, PTL

(* Packets are numbered without a gap and their times rise. *)
THEOREM PacketsStayNumbered == AudioSpec => PacketsAreNumbered
<1> DEFINE Numbered ==
      sent' # sent => sent'.sequence = sent.sequence + 1 /\ sent'.ts > sent.ts
<1>1. AudioIInv /\ [AudioNext]_audioVars => [Numbered]_sent
  <2> SUFFICES ASSUME AudioIInv, [AudioNext]_audioVars, sent' # sent
               PROVE  sent'.sequence = sent.sequence + 1 /\ sent'.ts > sent.ts
    OBVIOUS
  <2>1. EncodeFrame
    BY DEF AudioNext, audioVars, StreamConnects, Process, TrySend, DropOldest, StreamQuits,
       AudioCreates, EncoderCreates, NextSamples, StopCapture, ClientsChange
  <2>2. /\ sent' = [sequence |-> encoder + 1, ts |-> audio.chunks[1].data[1]]
        /\ 1 \in 1..Len(audio.chunks[1].data) /\ Len(audio.chunks) \in Nat \ {0}
    BY <2>1, EncodeFrameFacts
  <2>3. 1 \in 1..Len(audio.chunks)  BY <2>2, SMTT(30)
  <2>4. sent.ts < audio.chunks[1].data[1]  BY <2>2, <2>3 DEF AudioIInv, ChunksInOrder
  <2>5. sent.sequence = encoder  BY DEF AudioIInv, AudioShape
  <2>6. sent.ts \in Nat /\ audio.chunks[1].data[1] \in Nat
    BY <2>2, <2>3, SampleTypes DEF AudioIInv
  <2> QED  BY <2>2, <2>4, <2>5, <2>6
<1>2. AudioSpec => [][Numbered]_sent  BY <1>1, AudioInvariant, PTL DEF AudioSpec
<1> QED  BY <1>2, PTL DEF PacketsAreNumbered
=============================================================================
