--------------------------- MODULE EndpointProofs ---------------------------
(***************************************************************************)
(* What is proved of what a direct endpoint has beside its sessions, each  *)
(* part on its own, for every bound: the audit forwarder loses no event    *)
(* silently; a ticket is good for one admission in its time, and the keys  *)
(* only move on; and the certificates rotate without a browser being sent  *)
(* one that is no longer served.                                           *)
(***************************************************************************)
EXTENDS AuditForward, DirectTickets, CertRotation, TLAPS

(* A leaf that does not name its prover is first tried with Zenon; the leaves *)
(* that need arithmetic, or more than Zenon knows of sequences and records,    *)
(* name SMT.                                                                   *)
USE ZenonT(30), SMTT(30)

(* AuditForward.  What is deleted from the durable queue is at the relay, was *)
(* counted as dropped, or is past the retention window.                       *)

(* An answered batch is accounted for before its rows are deleted: a success *)
(* means the relay has it, and a permanent rejection is counted.             *)
BatchAccounted ==
    /\ reply # "none" => pc = "post"
    /\ pc = "post" /\ reply = "ok" => Range(batch) \subseteq delivered
    /\ pc = "acked" => Range(batch) \subseteq delivered \cup dropped

(* The inductive invariant.                                                  *)
AuditIInv ==
    /\ made \in Nat /\ old \in Nat
    /\ NothingLost
    /\ BatchAccounted

(* A step that records nothing new, forgets nothing delivered or dropped and *)
(* takes from the disk only what is accounted for loses nothing.             *)
LEMMA KeepsAll ==
    ASSUME AuditIInv, made' = made, old' = old, delivered \subseteq delivered',
           dropped \subseteq dropped', unsaved' = unsaved,
           disk \subseteq disk' \cup delivered' \cup dropped' \cup 1..old
    PROVE  NothingLost'
  BY SMTT(30) DEF AuditIInv, NothingLost

(* A statement on the store either succeeds or leaves the disk as it was.    *)
LEMMA StoredKeeps ==
    ASSUME NEW kept, Stored(kept) PROVE disk' = kept \/ disk' = disk
  BY DEF Stored

(* Nobody but the forwarder's own steps touches an answered batch.           *)
LEMMA BatchKept ==
    ASSUME AuditIInv, UNCHANGED <<pc, batch, reply>>, delivered \subseteq delivered',
           dropped \subseteq dropped'
    PROVE  BatchAccounted'
  BY DEF AuditIInv, BatchAccounted

(* enqueue: the event dropped to make room is counted, the new one is on     *)
(* disk or its persist failed.                                               *)
LEMMA EnqueueInv == AuditIInv /\ Enqueue => AuditIInv'
<1>. SUFFICES ASSUME AuditIInv, Enqueue PROVE AuditIInv'
  OBVIOUS
<1>1. /\ made' = made + 1 /\ old' = old /\ delivered' = delivered
      /\ dropped' = dropped \cup Oldest(queue, Room)
      /\ UNCHANGED <<pc, batch, reply>>
  BY DEF Enqueue, relayVars
<1>2. /\ disk \subseteq disk' \cup Oldest(queue, Room)
      /\ unsaved \subseteq unsaved'
      /\ made' \in disk' \cup unsaved' \cup Oldest(queue, Room)
  BY DEF Enqueue
<1>3. NothingLost'
  <2>1. ASSUME NEW e \in (old + 1)..(made + 1)
        PROVE  e \in delivered' \cup dropped' \cup disk' \cup unsaved'
    <3>1. CASE e \in (old + 1)..made
      BY <1>1, <1>2, <3>1 DEF AuditIInv, NothingLost
    <3>2. CASE e = made'
      BY <1>1, <1>2, <3>2
    <3>. QED
      BY <1>1, <3>1, <3>2, SMTT(30) DEF AuditIInv
  <2>. QED
    BY <1>1, <2>1 DEF NothingLost
<1>. QED
  BY <1>1, <1>3, BatchKept, SMTT(30) DEF AuditIInv

(* nextBatch: what expires is counted before it is deleted.                  *)
LEMMA NextBatchInv == AuditIInv /\ NextBatch => AuditIInv'
<1>. SUFFICES ASSUME AuditIInv, NextBatch PROVE AuditIInv'
  OBVIOUS
<1>. DEFINE expired == Range(queue) \ Range(Fresh(queue))
<1>1. /\ UNCHANGED <<made, old, delivered, unsaved, reply>>
      /\ dropped' = dropped \cup expired /\ Stored(disk \ expired)
      /\ pc = "next" /\ pc' \in {"empty", "post"}
  BY DEF NextBatch, relayVars
<1>2. disk \subseteq disk' \cup dropped'
  BY <1>1, StoredKeeps
<1>3. NothingLost'
  BY <1>1, <1>2, KeepsAll
<1>4. BatchAccounted'
  BY <1>1 DEF AuditIInv, BatchAccounted
<1>. QED
  BY <1>1, <1>3, <1>4 DEF AuditIInv

(* completeBatch: an answer other than success or rejection never gets here, *)
(* and what is deleted after the unlock was delivered or counted.            *)
LEMMA CompleteInv == AuditIInv /\ (CompleteBatch \/ DeleteAcked) => AuditIInv'
<1>1. ASSUME AuditIInv, CompleteBatch PROVE AuditIInv'
  <2>1. /\ UNCHANGED <<made, old, disk, delivered, unsaved, batch>>
        /\ reply \in {"ok", "rejected"} /\ pc = "post" /\ reply' = "none" /\ pc' = "acked"
        /\ dropped' = IF reply = "rejected" THEN dropped \cup Range(batch) ELSE dropped
    BY <1>1 DEF CompleteBatch
  <2>2. NothingLost'
    BY <1>1, <2>1, KeepsAll
  <2>3. BatchAccounted'
    BY <1>1, <2>1 DEF AuditIInv, BatchAccounted
  <2>. QED
    BY <1>1, <2>1, <2>2, <2>3 DEF AuditIInv
<1>2. ASSUME AuditIInv, DeleteAcked PROVE AuditIInv'
  <2>1. /\ UNCHANGED <<made, old, delivered, dropped, unsaved, reply>>
        /\ pc = "acked" /\ pc' = "next" /\ Stored(disk \ Range(batch))
    BY <1>2 DEF DeleteAcked, relayVars, historyVars
  <2>2. disk \subseteq disk' \cup delivered' \cup dropped'
    BY <1>2, <2>1, StoredKeeps DEF AuditIInv, BatchAccounted
  <2>3. NothingLost'
    BY <1>2, <2>1, <2>2, KeepsAll
  <2>4. BatchAccounted'
    BY <1>2, <2>1 DEF AuditIInv, BatchAccounted
  <2>. QED
    BY <1>2, <2>1, <2>3, <2>4 DEF AuditIInv
<1>. QED
  BY <1>1, <1>2

(* Steps of the goroutine, the network and the relay that leave the disk and *)
(* the counters alone.                                                       *)
LEMMA DiskUntouchedInv ==
    ASSUME AuditIInv,
           \/ Sleep \/ Wake \/ PostUnavailable \/ PostFails \/ BackoffEnds
           \/ RelayAccepts \/ RelayRefuses \/ LateArrives \/ PurgeRows
    PROVE  AuditIInv'
<1>1. /\ UNCHANGED <<made, old, disk, dropped, unsaved>>
      /\ delivered \subseteq delivered'
  BY DEF Sleep, Wake, PostUnavailable, PostFails, BackoffEnds, RelayAccepts, RelayRefuses,
      LateArrives, PurgeRows, InsertForwarded, relayVars, historyVars
<1>2. NothingLost'
  BY <1>1, KeepsAll
<1>3. BatchAccounted'
  <2>1. CASE LateArrives \/ PurgeRows
    BY <1>1, <2>1, BatchKept DEF LateArrives, PurgeRows, forwarderVars
  <2>2. CASE RelayAccepts
    BY <2>2 DEF AuditIInv, BatchAccounted, RelayAccepts, InsertForwarded, forwarderVars
  <2>3. CASE RelayRefuses
    BY <2>3 DEF AuditIInv, BatchAccounted, RelayRefuses, forwarderVars
  <2>4. CASE PostUnavailable \/ PostFails
    BY <2>4 DEF AuditIInv, BatchAccounted, PostUnavailable, PostFails, RetryBatch
  <2>5. CASE Sleep \/ Wake \/ BackoffEnds
    BY <2>5 DEF AuditIInv, BatchAccounted, Sleep, Wake, BackoffEnds, relayVars
  <2>. QED
    BY <2>1, <2>2, <2>3, <2>4, <2>5
<1>. QED
  BY <1>1, <1>2, <1>3 DEF AuditIInv

(* A crash forgets what is in memory only; a start keeps what it can read,   *)
(* and counts what it drops of it.                                           *)
LEMMA RestartInv ==
    ASSUME AuditIInv, Crash \/ Restart \/ RestartUnread PROVE AuditIInv'
<1>1. CASE Crash
  <2>1. /\ UNCHANGED <<made, old, disk, delivered, dropped, unsaved>>
        /\ reply' = "none" /\ pc' = "down"
    BY <1>1 DEF Crash, historyVars
  <2>. QED
    BY <2>1, KeepsAll DEF AuditIInv, BatchAccounted
<1>2. CASE Restart
  <2>1. PICK kept : /\ dropped' = dropped \cup (disk \ Range(kept))
                    /\ Stored(Range(kept))
    BY <1>2 DEF Restart
  <2>2. UNCHANGED <<made, old, delivered, unsaved, reply>> /\ pc = "down" /\ pc' = "next"
    BY <1>2 DEF Restart, relayVars
  <2>3. disk \subseteq disk' \cup dropped'
    BY <2>1, StoredKeeps
  <2>4. NothingLost'
    BY <2>1, <2>2, <2>3, KeepsAll
  <2>. QED
    BY <2>2, <2>4 DEF AuditIInv, BatchAccounted
<1>3. CASE RestartUnread
  <2>1. /\ UNCHANGED <<made, old, disk, delivered, dropped, unsaved, reply>>
        /\ pc = "down" /\ pc' = "next"
    BY <1>3 DEF RestartUnread, relayVars
  <2>. QED
    BY <2>1, KeepsAll DEF AuditIInv, BatchAccounted
<1>. QED
  BY <1>1, <1>2, <1>3

(* Time moves the window, and the purge deletes what is behind it.           *)
LEMMA TimeInv == ASSUME AuditIInv, Age \/ PurgeQueue PROVE AuditIInv'
<1>1. CASE Age
  <2>1. /\ old' = old + 1
        /\ UNCHANGED <<made, disk, delivered, dropped, unsaved, pc, batch, reply>>
    BY <1>1 DEF Age, forwarderVars, relayVars, historyVars
  <2>2. NothingLost'
    BY <2>1, SMTT(30) DEF AuditIInv, NothingLost
  <2>. QED
    BY <2>1, <2>2, BatchKept, SMTT(30) DEF AuditIInv
<1>2. CASE PurgeQueue
  <2>1. /\ disk' = {e \in disk : ~Expired(e)}
        /\ UNCHANGED <<made, old, delivered, dropped, unsaved, pc, batch, reply>>
    BY <1>2 DEF PurgeQueue, forwarderVars, relayVars, historyVars
  <2>2. ASSUME NEW e \in (old + 1)..made
        PROVE  e \in delivered' \cup dropped' \cup disk' \cup unsaved'
    <3>1. ~Expired(e)
      BY SMTT(30) DEF AuditIInv, Expired
    <3>. QED
      BY <2>1, <3>1 DEF AuditIInv, NothingLost
  <2>3. NothingLost'
    BY <2>1, <2>2 DEF NothingLost
  <2>. QED
    BY <2>1, <2>3, BatchKept DEF AuditIInv
<1>. QED
  BY <1>1, <1>2

(* The invariant holds in every reachable state. *)
THEOREM AuditInvariant == Spec => []AuditIInv
<1>1. Init => AuditIInv
  BY SMTT(30) DEF Init, AuditIInv, NothingLost, BatchAccounted
<1>2. AuditIInv /\ [Next]_vars => AuditIInv'
  <2>. SUFFICES ASSUME AuditIInv, [Next]_vars PROVE AuditIInv'
    OBVIOUS
  <2>1. CASE Next
    BY <2>1, EnqueueInv, NextBatchInv, CompleteInv, DiskUntouchedInv, RestartInv, TimeInv
       DEF Next, ForwarderStep
  <2>2. CASE UNCHANGED vars
    <3>1. UNCHANGED <<made, old, disk, delivered, dropped, unsaved, pc, batch, reply>>
      BY <2>2 DEF vars, forwarderVars, relayVars, historyVars
    <3>. QED
      BY <3>1, KeepsAll, BatchKept DEF AuditIInv
  <2>. QED
    BY <2>1, <2>2
<1>. QED
  BY <1>1, <1>2, PTL DEF Spec

(* Every recorded event whose row was written and whose time is not over is  *)
(* at the relay, counted by auditForwardDropped, or on disk: crashes, failed *)
(* statements, lost and late answers, overflow and restarts in any number    *)
(* and order lose none silently.                                             *)
THEOREM NothingIsLost == Spec => []NothingLost
<1>1. AuditIInv => NothingLost
  BY DEF AuditIInv
<1>. QED
  BY <1>1, AuditInvariant, PTL

-----------------------------------------------------------------------------
(* DirectTickets.                                                          *)

(* The types of the verifier's and the refreshers' state.                    *)
Verification == [ticket : Tickets, now : Nat]
Goroutine == [pc : {"idle", "fetch", "write", "store"}, key : Nat]

TicketShape ==
  /\ time \in Nat /\ time <= MaxTime /\ relayKey \in Keys
  /\ issued \in [Tickets -> {Unsigned} \cup [key : Keys, expires : Nat]]
  /\ endpoint \in [pc : {"loading"}, key : {NoKey}] \cup [pc : {"serving"}, key : Keys]
  /\ cache \in Keys \cup {NoKey} /\ uncached \in BOOLEAN /\ pinned \in BOOLEAN
  /\ nonces \subseteq Tickets /\ admitted \in [Tickets -> Nat]
  /\ verifying \in [Handlers -> {Idle} \cup Verification]
  /\ refresher \in [Goroutines -> Goroutine]
  /\ refreshMu \in Goroutines \cup {"free"}
  /\ lastAsked \in {Never} \cup Nat /\ lastAsked <= time
  /\ ticketFaults \in Nat /\ ticketFaults <= MaxTicketFaults

(* A ticket admitted is remembered as long as it is good: whoever forgets    *)
(* expired nonces goes by a time that was read in the past.                  *)
NoncesRemembered ==
  /\ AdmittedOnce
  /\ \A t \in Tickets : admitted[t] > 0 /\ time <= GoodUntil(t) => t \in nonces
  /\ \A t \in Tickets : issued[t] = Unsigned => admitted[t] = 0
  /\ \A t \in Tickets : issued[t] # Unsigned => issued[t].key <= relayKey
  /\ \A h \in Handlers : verifying[h] # Idle =>
        verifying[h].now <= time /\ issued[verifying[h].ticket] # Unsigned

(* A refresher that has fetched a key holds the lock, and has a key that is  *)
(* not older than the one in use.                                            *)
RefreshersAgree ==
  /\ endpoint.key <= relayKey /\ cache <= relayKey
  /\ CacheHasTheKey
  /\ \A g \in Goroutines :
        /\ (refresher[g].pc \in {"write", "store"}) <=> (refreshMu = g)
        /\ refresher[g].pc = "idle" => refresher[g] = Resting
        /\ refresher[g].pc # "idle" => Serving /\ ~pinned
        /\ refresher[g].pc \in {"write", "store"} =>
              endpoint.key <= refresher[g].key /\ refresher[g].key \in 1..relayKey
        /\ refresher[g].pc = "store" /\ ~uncached => cache >= refresher[g].key
  /\ refresher["failure"].pc # "idle" => time - lastAsked < Cooldown

TicketIInv == TicketShape /\ NoncesRemembered /\ RefreshersAgree
-----------------------------------------------------------------------------
(* What the verifier remembers does not depend on the keys.                  *)
LEMMA VerifierFrame ==
  ASSUME TicketIInv, UNCHANGED <<time, issued, nonces, verifying, admitted>>,
         relayKey' \in Keys, relayKey <= relayKey'
  PROVE  NoncesRemembered'
<1>1. relayKey \in Nat /\ relayKey' \in Nat
  BY TicketAssumption, SMTT(30) DEF TicketIInv, TicketShape, Keys
<1>2. ASSUME NEW t \in Tickets, issued[t] # Unsigned PROVE issued[t].key <= relayKey'
  <2>1. issued[t].key \in Nat
    BY <1>2, TicketAssumption, SMTT(30) DEF TicketIInv, TicketShape, Keys
  <2>. QED BY <1>1, <1>2, <2>1, SMTT(30) DEF TicketIInv, NoncesRemembered
<1>. QED BY <1>2 DEF TicketIInv, NoncesRemembered, AdmittedOnce, GoodUntil

(* The refreshers do not look at tickets.                                    *)
LEMMA RefreshFrame ==
  ASSUME TicketIInv, UNCHANGED <<time, relayKey, keyVars>>
  PROVE  RefreshersAgree'
  BY DEF TicketIInv, RefreshersAgree, CacheHasTheKey, keyVars, Serving

(* Nobody refreshes, and the process has not got its key yet.                *)
LEMMA RestingIsGoroutine ==
  /\ Resting \in Goroutine /\ Resting.pc = "idle" /\ Resting.key = NoKey
  BY DEF Resting, Goroutine, NoKey

(* A relay that is set up anew has a newer key than any endpoint.            *)
LEMMA RekeyInv == ASSUME TicketIInv, Rekey PROVE TicketIInv'
<1>1. relayKey \in Nat /\ relayKey' = relayKey + 1 /\ relayKey' \in Keys
  BY TicketAssumption, SMTT(30) DEF Rekey, TicketIInv, TicketShape, Keys
<1>2. UNCHANGED <<time, issued, keyVars, verifierVars, ticketFaults>>
  BY DEF Rekey
<1>3. TicketShape'
  BY <1>1, <1>2 DEF TicketIInv, TicketShape, keyVars, verifierVars
<1>4. NoncesRemembered'
  BY <1>1, <1>2, VerifierFrame, SMTT(30) DEF verifierVars
<1>5. /\ endpoint.key \in Nat /\ cache \in Nat
      /\ \A g \in Goroutines : refresher[g].key \in Nat
  BY TicketAssumption, SMTT(30) DEF TicketIInv, TicketShape, Goroutine, Keys, NoKey
<1>6. RefreshersAgree'
  BY <1>1, <1>2, <1>5, SMTT(30) DEF TicketIInv, RefreshersAgree, CacheHasTheKey, keyVars, Serving
<1>. QED BY <1>3, <1>4, <1>6 DEF TicketIInv

(* A ticket is signed with the relay's key of that moment.                   *)
LEMMA SignInv == ASSUME TicketIInv, NEW t \in Tickets, Sign(t) PROVE TicketIInv'
<1>. DEFINE signed == [key |-> relayKey, expires |-> time + TicketTTL]
<1>1. /\ issued[t] = Unsigned /\ issued' = [issued EXCEPT ![t] = signed]
      /\ UNCHANGED <<time, relayKey, keyVars, verifierVars, ticketFaults>>
  BY DEF Sign
<1>2. /\ signed \in [key : Keys, expires : Nat] /\ signed # Unsigned
      /\ signed.key = relayKey /\ relayKey \in Nat
  BY TicketAssumption, SMTT(30) DEF TicketIInv, TicketShape, Unsigned, Keys, NoKey
<1>3. issued' \in [Tickets -> {Unsigned} \cup [key : Keys, expires : Nat]]
  BY <1>1, <1>2 DEF TicketIInv, TicketShape
<1>4. issued'[t] = signed /\ \A u \in Tickets \ {t} : issued'[u] = issued[u]
  BY <1>1 DEF TicketIInv, TicketShape
<1>5. TicketShape'
  BY <1>1, <1>3 DEF TicketIInv, TicketShape, keyVars, verifierVars
<1>6. admitted[t] = 0
  BY <1>1 DEF TicketIInv, NoncesRemembered
<1>7. NoncesRemembered'
  <2>1. ASSUME NEW u \in Tickets
        PROVE  /\ admitted'[u] > 0 /\ time' <= GoodUntil(u)' => u \in nonces'
               /\ issued'[u] = Unsigned => admitted'[u] = 0
               /\ issued'[u] # Unsigned => issued'[u].key <= relayKey'
    BY <1>1, <1>2, <1>4, <1>6, SMTT(30) DEF TicketIInv, NoncesRemembered, GoodUntil, verifierVars
  <2>2. ASSUME NEW h \in Handlers, verifying'[h] # Idle
        PROVE  verifying'[h].now <= time' /\ issued'[verifying'[h].ticket] # Unsigned
    <3>1. /\ verifying[h] # Idle /\ verifying[h].ticket \in Tickets
          /\ verifying[h].now <= time /\ issued[verifying[h].ticket] # Unsigned
      BY <1>1, <2>2 DEF TicketIInv, TicketShape, NoncesRemembered, Verification, verifierVars
    <3>. QED BY <1>1, <1>2, <1>4, <3>1 DEF verifierVars
  <2>. QED BY <1>1, <2>1, <2>2 DEF TicketIInv, NoncesRemembered, AdmittedOnce, verifierVars
<1>8. RefreshersAgree'
  BY <1>1, RefreshFrame
<1>. QED BY <1>5, <1>7, <1>8 DEF TicketIInv

(* The verifier is made: no goroutine refreshes yet.                         *)
LEMMA LoadInv == ASSUME TicketIInv, Load PROVE TicketIInv'
<1>1. /\ endpoint.pc = "loading"
      /\ UNCHANGED <<time, relayKey, issued, pinned, verifierVars, refresher, refreshMu, lastAsked>>
  BY DEF Load
<1>2. PICK k \in Keys :
        /\ endpoint' = [pc |-> "serving", key |-> k] /\ k <= relayKey
        /\ \/ pinned /\ cache' = cache /\ uncached' = uncached
           \/ uncached' = TRUE /\ cache' \in {cache, NoKey}
           \/ uncached' = FALSE /\ cache' = k
  <2>1. 1 \in Keys /\ 1 <= relayKey /\ relayKey \in Keys /\ relayKey <= relayKey
    BY TicketAssumption, SMTT(30) DEF Keys, TicketIInv, TicketShape
  <2>2. cache # NoKey => cache \in Keys /\ cache <= relayKey
    BY DEF TicketIInv, TicketShape, RefreshersAgree
  <2>. QED BY <2>1, <2>2 DEF Load
<1>3. /\ k \in Nat /\ relayKey \in Nat /\ endpoint'.pc = "serving" /\ endpoint'.key = k
      /\ endpoint' \in [pc : {"serving"}, key : Keys]
  BY <1>2, TicketAssumption, SMTT(30) DEF Keys, TicketIInv, TicketShape
<1>4. /\ cache' \in Keys \cup {NoKey} /\ uncached' \in BOOLEAN /\ cache' <= relayKey
      /\ ~pinned /\ ~uncached' => cache' >= k
  <2>1. cache \in Keys \cup {NoKey} /\ cache <= relayKey /\ NoKey <= relayKey
        /\ uncached \in BOOLEAN
    BY <1>3, SMTT(30) DEF TicketIInv, TicketShape, RefreshersAgree, NoKey
  <2>2. CASE pinned /\ cache' = cache /\ uncached' = uncached
    BY <2>1, <2>2
  <2>3. CASE uncached' = TRUE /\ cache' \in {cache, NoKey}
    BY <2>1, <2>3
  <2>4. CASE uncached' = FALSE /\ cache' = k
    <3>1. uncached' \in BOOLEAN
      BY <2>4
    <3>2. cache' \in Keys \cup {NoKey} /\ cache' <= relayKey /\ cache' >= k
      BY <1>2, <1>3, <2>4, SMTT(30)
    <3>. QED BY <3>1, <3>2
  <2>. QED BY <1>2, <2>2, <2>3, <2>4
<1>5. ticketFaults' \in Nat /\ ticketFaults' <= MaxTicketFaults
  BY TicketAssumption, SMTT(30) DEF Load, TicketFault, TicketIInv, TicketShape
<1>6. TicketShape'
  BY <1>1, <1>3, <1>4, <1>5 DEF TicketIInv, TicketShape, verifierVars
<1>7. \A g \in Goroutines : refresher[g].pc = "idle"
  BY <1>1 DEF TicketIInv, RefreshersAgree, Serving
<1>8. RefreshersAgree'
  BY <1>1, <1>2, <1>3, <1>4, <1>7
  DEF TicketIInv, RefreshersAgree, CacheHasTheKey, Goroutines, Serving
<1>9. NoncesRemembered'
  BY <1>1, <1>3, VerifierFrame, SMTT(30) DEF TicketIInv, TicketShape, verifierVars
<1>. QED BY <1>6, <1>8, <1>9 DEF TicketIInv

(* A restart begins with nothing remembered and nothing admitted.            *)
LEMMA EndpointCrashInv == ASSUME TicketIInv, EndpointCrash PROVE TicketIInv'
<1>1. /\ endpoint' = [pc |-> "loading", key |-> NoKey]
      /\ nonces' = {} /\ verifying' = [h \in Handlers |-> Idle]
      /\ admitted' = [t \in Tickets |-> 0]
      /\ refresher' = [g \in Goroutines |-> Resting]
      /\ refreshMu' = "free" /\ lastAsked' = Never
      /\ UNCHANGED <<time, relayKey, issued, pinned, cache, uncached>>
  BY DEF EndpointCrash
<1>2. endpoint'.pc = "loading" /\ endpoint'.key = NoKey
      /\ endpoint' \in [pc : {"loading"}, key : {NoKey}]
  BY <1>1
<1>3. ticketFaults' \in Nat /\ ticketFaults' <= MaxTicketFaults
  BY TicketAssumption, SMTT(30) DEF EndpointCrash, TicketFault, TicketIInv, TicketShape
<1>4. Never <= time
  BY TicketAssumption, SMTT(30) DEF Never, TicketIInv, TicketShape
<1>5. TicketShape'
  BY <1>1, <1>2, <1>3, <1>4, RestingIsGoroutine DEF TicketIInv, TicketShape
<1>6. NoncesRemembered'
  BY <1>1, SMTT(30) DEF TicketIInv, NoncesRemembered, AdmittedOnce
<1>7. NoKey <= relayKey
  BY TicketAssumption, SMTT(30) DEF TicketIInv, TicketShape, NoKey, Keys
<1>8. RefreshersAgree'
  BY <1>1, <1>2, <1>7, RestingIsGoroutine
  DEF TicketIInv, RefreshersAgree, CacheHasTheKey, Serving, Goroutines
<1>. QED BY <1>5, <1>6, <1>8 DEF TicketIInv
-----------------------------------------------------------------------------
(* A refresh starts: the goroutine was at rest and is not the lock's holder. *)
LEMMA StartsFetch ==
  ASSUME TicketIInv, NEW g \in Goroutines, refresher[g].pc = "idle", Serving, ~pinned,
         refresher' = [refresher EXCEPT ![g].pc = "fetch"],
         lastAsked' \in {lastAsked, time}, g = "failure" => lastAsked' = time,
         UNCHANGED <<time, relayKey, issued, pinned, endpoint, cache, uncached, verifierVars,
                     refreshMu, ticketFaults>>
  PROVE  TicketIInv'
<1>1. /\ refresher' \in [Goroutines -> Goroutine] /\ refresher'[g].pc = "fetch"
      /\ \A o \in Goroutines \ {g} : refresher'[o] = refresher[o]
  BY DEF TicketIInv, TicketShape, Goroutine
<1>2. /\ time \in Nat /\ lastAsked \in Int /\ lastAsked <= time
      /\ lastAsked' \in {Never} \cup Nat /\ lastAsked' <= time
  BY TicketAssumption, SMTT(30) DEF TicketIInv, TicketShape, Never
<1>3. TicketShape'
  BY <1>1, <1>2 DEF TicketIInv, TicketShape, verifierVars
<1>4. NoncesRemembered'
  BY VerifierFrame, SMTT(30) DEF TicketIInv, TicketShape, verifierVars, Keys
<1>5. ASSUME NEW o \in Goroutines
      PROVE  /\ (refresher'[o].pc \in {"write", "store"}) <=> (refreshMu' = o)
             /\ refresher'[o].pc = "idle" => refresher'[o] = Resting
             /\ refresher'[o].pc # "idle" => Serving' /\ ~pinned'
             /\ refresher'[o].pc \in {"write", "store"} =>
                   endpoint'.key <= refresher'[o].key /\ refresher'[o].key \in 1..relayKey'
             /\ refresher'[o].pc = "store" /\ ~uncached' => cache' >= refresher'[o].key
  BY <1>1 DEF TicketIInv, RefreshersAgree, Serving
<1>6. refresher'["failure"].pc # "idle" => time' - lastAsked' < Cooldown
  <2>1. CASE lastAsked' = time
    BY <1>2, <2>1, TicketAssumption, SMTT(30)
  <2>2. CASE lastAsked' = lastAsked /\ g # "failure"
    BY <1>1, <2>2 DEF TicketIInv, RefreshersAgree, Goroutines
  <2>. QED BY <2>1, <2>2
<1>7. RefreshersAgree'
  BY <1>5, <1>6 DEF TicketIInv, RefreshersAgree, CacheHasTheKey, Serving
<1>. QED BY <1>3, <1>4, <1>7 DEF TicketIInv

(* The ticker.                                                               *)
LEMMA PeriodicInv == ASSUME TicketIInv, PeriodicRefresh PROVE TicketIInv'
  BY StartsFetch, RestingIsGoroutine DEF PeriodicRefresh, Goroutines

(* A failed signature asks for the key at most once in the cooldown, so the  *)
(* goroutine it starts is not under way.                                     *)
LEMMA WrongSignatureInv ==
  ASSUME TicketIInv, NEW t \in Tickets, WrongSignature(t) PROVE TicketIInv'
<1>1. CASE UNCHANGED <<refresher, lastAsked>>
  <2>1. UNCHANGED <<time, relayKey, issued, keyVars, verifierVars, ticketFaults>>
    BY <1>1 DEF WrongSignature, keyVars
  <2>2. TicketShape'
    BY <2>1 DEF TicketIInv, TicketShape, keyVars, verifierVars
  <2>3. relayKey' \in Keys /\ relayKey <= relayKey'
    BY <2>1, SMTT(30) DEF TicketIInv, TicketShape, Keys
  <2>. QED BY <2>1, <2>2, <2>3, VerifierFrame, RefreshFrame DEF TicketIInv, verifierVars
<1>2. CASE /\ ~pinned /\ ~(time - lastAsked < Cooldown)
           /\ refresher' = [refresher EXCEPT !["failure"].pc = "fetch"]
           /\ lastAsked' = time
  <2>1. refresher["failure"].pc = "idle"
    BY <1>2 DEF TicketIInv, RefreshersAgree
  <2>. QED BY <1>2, <2>1, StartsFetch DEF WrongSignature, Goroutines
<1>. QED BY <1>1, <1>2 DEF WrongSignature, AskForKey

(* A refresher's step other than its start: g goes to rest, or goes on with  *)
(* the lock; nobody else has it.                                             *)
LEMMA RefresherMoves ==
  ASSUME TicketIInv, NEW g \in Goroutines, NEW to \in Goroutine,
         refresher' = [refresher EXCEPT ![g] = to],
         refreshMu \in {g, "free"}, refresher[g].pc # "idle",
         \/ to = Resting /\ refreshMu' = "free"
         \/ /\ to.pc \in {"write", "store"} /\ refreshMu' = g
            /\ to.key \in 1..relayKey /\ endpoint'.key <= to.key
            /\ to.pc = "store" /\ ~uncached' => cache' >= to.key,
         endpoint' \in [pc : {"serving"}, key : Keys], endpoint'.key <= relayKey,
         cache' \in Keys \cup {NoKey}, uncached' \in BOOLEAN, cache' <= relayKey,
         ~uncached' => cache' >= endpoint'.key,
         ticketFaults' \in Nat, ticketFaults' <= MaxTicketFaults,
         UNCHANGED <<time, relayKey, issued, pinned, verifierVars, lastAsked>>
  PROVE  TicketIInv'
<1>1. /\ refresher' \in [Goroutines -> Goroutine] /\ refresher'[g] = to
      /\ \A o \in Goroutines \ {g} : refresher'[o] = refresher[o]
  BY DEF TicketIInv, TicketShape
<1>2. TicketShape'
  BY <1>1 DEF TicketIInv, TicketShape, verifierVars
<1>3. NoncesRemembered'
  BY VerifierFrame, SMTT(30) DEF TicketIInv, TicketShape, verifierVars, Keys
<1>4. \A o \in Goroutines \ {g} : refresher[o].pc \notin {"write", "store"} /\ o # "free"
  BY DEF TicketIInv, RefreshersAgree, Goroutines
<1>5. Serving' /\ Serving /\ ~pinned
  BY DEF TicketIInv, RefreshersAgree, Serving
<1>6. to = Resting => to.pc = "idle"
  BY RestingIsGoroutine
<1>7. ASSUME NEW o \in Goroutines
      PROVE  /\ (refresher'[o].pc \in {"write", "store"}) <=> (refreshMu' = o)
             /\ refresher'[o].pc = "idle" => refresher'[o] = Resting
             /\ refresher'[o].pc # "idle" => Serving' /\ ~pinned'
             /\ refresher'[o].pc \in {"write", "store"} =>
                   endpoint'.key <= refresher'[o].key /\ refresher'[o].key \in 1..relayKey'
             /\ refresher'[o].pc = "store" /\ ~uncached' => cache' >= refresher'[o].key
  <2>1. CASE o = g
    BY <1>1, <1>5, <1>6, <2>1 DEF Goroutines
  <2>2. CASE o # g
    BY <1>1, <1>4, <1>5, <2>2 DEF TicketIInv, RefreshersAgree
  <2>. QED BY <2>1, <2>2
<1>8. refresher'["failure"].pc # "idle" => time' - lastAsked' < Cooldown
  BY <1>1 DEF TicketIInv, RefreshersAgree, Goroutines
<1>9. RefreshersAgree'
  BY <1>7, <1>8 DEF RefreshersAgree, CacheHasTheKey
<1>. QED BY <1>2, <1>3, <1>9 DEF TicketIInv

(* refresh: the key fetched under the lock is never older than the one in    *)
(* use, and it is in the file before the verifier has it.                    *)
LEMMA RefreshInv == ASSUME TicketIInv, Refresh PROVE TicketIInv'
<1>1. PICK g \in Goroutines : RefreshFetches(g) \/ RefreshWrites(g) \/ RefreshStores(g)
  BY DEF Refresh
<1>2. /\ refresher[g].pc # "idle" /\ Serving /\ ~pinned
      /\ UNCHANGED <<time, relayKey, issued, pinned, verifierVars, lastAsked>>
  BY <1>1 DEF RefreshFetches, RefreshWrites, RefreshStores, TicketIInv, RefreshersAgree
<1>3. /\ relayKey \in Nat /\ endpoint.key \in Nat /\ cache \in Nat /\ refresher[g].key \in Nat
      /\ relayKey \in Keys /\ relayKey \in 1..relayKey /\ cache <= relayKey
      /\ endpoint.key <= relayKey /\ refresher[g] \in Goroutine
      /\ endpoint \in [pc : {"serving"}, key : Keys]
      /\ cache \in Keys \cup {NoKey} /\ uncached \in BOOLEAN
      /\ ~uncached => cache >= endpoint.key
  BY <1>2, TicketAssumption, SMTT(30)
  DEF TicketIInv, TicketShape, RefreshersAgree, CacheHasTheKey, Keys, Goroutine, NoKey, Serving
<1>4. ticketFaults' \in Nat /\ ticketFaults' <= MaxTicketFaults
  BY <1>1, TicketAssumption, SMTT(30) DEF RefreshFetches, RefreshWrites, RefreshStores, TicketFault,
     TicketIInv, TicketShape
<1>5. CASE RefreshFetches(g)
  <2>1. refreshMu = "free" /\ UNCHANGED <<endpoint, cache, uncached>>
    BY <1>5 DEF RefreshFetches
  <2>2. CASE /\ refreshMu' = g
             /\ refresher' = [refresher EXCEPT ![g] = [pc |-> "write", key |-> relayKey]]
    <3>. DEFINE to == [pc |-> "write", key |-> relayKey]
    <3>1. to \in Goroutine /\ to.pc = "write" /\ to.key = relayKey
      BY <1>3 DEF Goroutine
    <3>. HIDE DEF to
    <3>2. refresher' = [refresher EXCEPT ![g] = to]
      BY <2>2 DEF to
    <3>. QED BY <1>2, <1>3, <1>4, <2>1, <2>2, <3>1, <3>2, RefresherMoves
  <2>3. CASE refresher' = [refresher EXCEPT ![g] = Resting] /\ UNCHANGED refreshMu
    BY <1>2, <1>3, <1>4, <2>1, <2>3, RestingIsGoroutine, RefresherMoves
  <2>. QED BY <1>5, <2>2, <2>3 DEF RefreshFetches
<1>6. ASSUME refresher[g].pc \in {"write", "store"}
      PROVE  /\ refreshMu = g /\ endpoint.key <= refresher[g].key
             /\ refresher[g].key \in 1..relayKey /\ refresher[g].key \in Keys
             /\ refresher[g].pc = "store" /\ ~uncached => cache >= refresher[g].key
  BY <1>3, <1>6, TicketAssumption, SMTT(30) DEF TicketIInv, TicketShape, RefreshersAgree, Keys
<1>7. CASE RefreshWrites(g)
  <2>1. UNCHANGED endpoint /\ refresher[g].pc = "write"
    BY <1>7 DEF RefreshWrites
  <2>2. CASE /\ cache' = refresher[g].key /\ uncached' = FALSE
             /\ refresher' = [refresher EXCEPT ![g].pc = "store"]
             /\ UNCHANGED refreshMu
    <3>. DEFINE to == [refresher[g] EXCEPT !.pc = "store"]
    <3>1. to \in Goroutine /\ to.pc = "store" /\ to.key = refresher[g].key
      BY <1>3 DEF Goroutine
    <3>2. refresher' = [refresher EXCEPT ![g] = to]
      BY <2>2
    <3>. HIDE DEF to
    <3>3. cache' >= to.key /\ cache' <= relayKey /\ cache' >= endpoint.key /\ cache' \in Keys
      BY <1>3, <1>6, <2>1, <2>2, <3>1, SMTT(30)
    <3>. QED BY <1>2, <1>3, <1>4, <1>6, <2>1, <2>2, <3>1, <3>2, <3>3, RefresherMoves
  <2>3. CASE /\ refresher' = [refresher EXCEPT ![g] = Resting] /\ refreshMu' = "free"
             /\ UNCHANGED <<cache, uncached>>
    BY <1>2, <1>3, <1>4, <1>6, <2>1, <2>3, RestingIsGoroutine, RefresherMoves
  <2>. QED BY <1>7, <2>2, <2>3 DEF RefreshWrites
<1>8. CASE RefreshStores(g)
  <2>1. /\ refresher[g].pc = "store"
        /\ endpoint' = [endpoint EXCEPT !.key = refresher[g].key]
        /\ refresher' = [refresher EXCEPT ![g] = Resting] /\ refreshMu' = "free"
        /\ UNCHANGED <<cache, uncached>>
    BY <1>8 DEF RefreshStores
  <2>2. /\ endpoint' \in [pc : {"serving"}, key : Keys] /\ endpoint'.key = refresher[g].key
    BY <1>3, <1>6, <2>1
  <2>3. endpoint'.key <= relayKey /\ (~uncached => cache >= endpoint'.key)
    BY <1>3, <1>6, <2>1, <2>2, SMTT(30)
  <2>. QED BY <1>2, <1>3, <1>4, <1>6, <2>1, <2>2, <2>3, RestingIsGoroutine, RefresherMoves
<1>. QED BY <1>1, <1>5, <1>7, <1>8
-----------------------------------------------------------------------------
(* verify up to the lock.                                                    *)
LEMMA CheckTicketInv ==
  ASSUME TicketIInv, NEW h \in Handlers, NEW t \in Tickets, CheckTicket(h, t)
  PROVE  TicketIInv'
<1>. DEFINE v == [ticket |-> t, now |-> time]
<1>1. /\ issued[t] # Unsigned /\ verifying' = [verifying EXCEPT ![h] = v]
      /\ UNCHANGED <<time, relayKey, issued, keyVars, nonces, admitted, ticketFaults>>
  BY DEF CheckTicket
<1>2. v \in Verification /\ v.ticket = t /\ v.now = time
  BY DEF TicketIInv, TicketShape, Verification
<1>. HIDE DEF v
<1>3. /\ verifying' \in [Handlers -> {Idle} \cup Verification] /\ verifying'[h] = v
      /\ \A o \in Handlers \ {h} : verifying'[o] = verifying[o]
  BY <1>1, <1>2 DEF TicketIInv, TicketShape
<1>4. TicketShape'
  BY <1>1, <1>3 DEF TicketIInv, TicketShape, keyVars
<1>5. ASSUME NEW o \in Handlers, verifying'[o] # Idle
      PROVE  verifying'[o].now <= time' /\ issued'[verifying'[o].ticket] # Unsigned
  <2>1. CASE o = h
    BY <1>1, <1>2, <1>3, <2>1, SMTT(30) DEF TicketIInv, TicketShape
  <2>2. CASE o # h
    BY <1>1, <1>3, <1>5, <2>2 DEF TicketIInv, NoncesRemembered
  <2>. QED BY <2>1, <2>2
<1>6. NoncesRemembered'
  BY <1>1, <1>5 DEF TicketIInv, NoncesRemembered, AdmittedOnce, GoodUntil
<1>. QED BY <1>1, <1>4, <1>6, RefreshFrame DEF TicketIInv

(* verify under the lock: what is forgotten had expired by a time that is    *)
(* past, so a ticket that is still good and was admitted is refused.         *)
LEMMA RecordNonceInv ==
  ASSUME TicketIInv, NEW h \in Handlers, RecordNonce(h) PROVE TicketIInv'
<1>. DEFINE t == verifying[h].ticket
            kept == {u \in nonces : verifying[h].now <= GoodUntil(u)}
<1>1. /\ verifying[h] # Idle /\ Recorded(t, kept)
      /\ verifying' = [verifying EXCEPT ![h] = Idle]
      /\ UNCHANGED <<time, relayKey, issued, keyVars, ticketFaults>>
  BY DEF RecordNonce
<1>2. /\ t \in Tickets /\ verifying[h].now \in Nat /\ verifying[h].now <= time
      /\ issued[t] # Unsigned /\ time \in Nat
  BY <1>1 DEF TicketIInv, TicketShape, Verification, NoncesRemembered
<1>3. \A u \in Tickets : GoodUntil(u) \in Int /\ admitted[u] \in Nat
  BY TicketAssumption, SMTT(30) DEF TicketIInv, TicketShape, GoodUntil, Unsigned
<1>4. ASSUME NEW u \in Tickets, admitted[u] > 0, time <= GoodUntil(u) PROVE u \in kept
  BY <1>2, <1>3, <1>4, SMTT(30) DEF TicketIInv, NoncesRemembered
<1>. HIDE DEF t, kept
<1>5. /\ nonces' = kept \cup {t} /\ kept \subseteq Tickets
      /\ \A u \in Tickets \ {t} : admitted'[u] = admitted[u]
      /\ admitted' \in [Tickets -> Nat]
      /\ admitted'[t] = IF t \notin kept /\ time <= GoodUntil(t) THEN admitted[t] + 1
                        ELSE admitted[t]
  BY <1>1, <1>2, <1>3, SMTT(30) DEF Recorded, TicketIInv, TicketShape, kept
<1>6. admitted'[t] <= 1
  <2>1. CASE t \notin kept /\ time <= GoodUntil(t)
    BY <1>2, <1>3, <1>4, <1>5, <2>1, SMTT(30)
  <2>2. CASE ~(t \notin kept /\ time <= GoodUntil(t))
    BY <1>2, <1>5, <2>2 DEF TicketIInv, NoncesRemembered, AdmittedOnce
  <2>. QED BY <2>1, <2>2
<1>7. /\ verifying' \in [Handlers -> {Idle} \cup Verification]
      /\ \A o \in Handlers : verifying'[o] # Idle => verifying'[o] = verifying[o]
  BY <1>1 DEF TicketIInv, TicketShape
<1>8. TicketShape'
  BY <1>1, <1>2, <1>5, <1>7 DEF TicketIInv, TicketShape, keyVars
<1>9. ASSUME NEW u \in Tickets
      PROVE  /\ admitted'[u] <= 1
             /\ admitted'[u] > 0 /\ time' <= GoodUntil(u)' => u \in nonces'
             /\ issued'[u] = Unsigned => admitted'[u] = 0
             /\ issued'[u] # Unsigned => issued'[u].key <= relayKey'
  BY <1>1, <1>2, <1>4, <1>5, <1>6 DEF TicketIInv, NoncesRemembered, AdmittedOnce, GoodUntil
<1>10. NoncesRemembered'
  BY <1>1, <1>7, <1>9 DEF TicketIInv, NoncesRemembered, AdmittedOnce
<1>. QED BY <1>1, <1>8, <1>10, RefreshFrame DEF TicketIInv

(* Time only takes the reasons to remember away.                             *)
LEMMA PassTimeInv == ASSUME TicketIInv, PassTime PROVE TicketIInv'
<1>1. /\ time' = time + 1 /\ time < MaxTime /\ time \in Nat /\ lastAsked \in Int
      /\ refresher["failure"] # Resting => time + 1 - lastAsked < Cooldown
      /\ UNCHANGED <<relayKey, issued, keyVars, verifierVars, ticketFaults>>
  BY TicketAssumption, SMTT(30) DEF PassTime, TicketIInv, TicketShape, Never
<1>2. TicketShape'
  BY <1>1, TicketAssumption, SMTT(30) DEF TicketIInv, TicketShape, keyVars, verifierVars, Never
<1>3. \A t \in Tickets : GoodUntil(t) \in Int
  BY TicketAssumption, SMTT(30) DEF TicketIInv, TicketShape, GoodUntil, Unsigned
<1>4. \A t \in Tickets : time + 1 <= GoodUntil(t) => time <= GoodUntil(t)
  BY <1>1, <1>3, SMTT(30)
<1>5. \A h \in Handlers : verifying[h] # Idle => verifying[h].now \in Nat
  BY DEF TicketIInv, TicketShape, Verification
<1>0. NoncesRemembered /\ UNCHANGED <<issued, relayKey, nonces, verifying, admitted>>
  BY <1>1 DEF TicketIInv, verifierVars
<1>6. NoncesRemembered'
  <2>1. AdmittedOnce'
    BY <1>0 DEF NoncesRemembered, AdmittedOnce
  <2>2. ASSUME NEW t \in Tickets PROVE admitted'[t] > 0 /\ time' <= GoodUntil(t)' => t \in nonces'
    BY <1>0, <1>1, <1>4 DEF NoncesRemembered, GoodUntil
  <2>3. ASSUME NEW h \in Handlers, verifying[h] # Idle PROVE verifying[h].now <= time'
    BY <1>0, <1>1, <1>5, <2>3, SMTT(30) DEF NoncesRemembered
  <2>. QED BY <1>0, <2>1, <2>2, <2>3 DEF NoncesRemembered
<1>7. RefreshersAgree'
  BY <1>1, RestingIsGoroutine, SMTT(30)
  DEF TicketIInv, RefreshersAgree, CacheHasTheKey, keyVars, Serving
<1>. QED BY <1>2, <1>6, <1>7 DEF TicketIInv

-----------------------------------------------------------------------------
(* The invariant of the tickets and their keys holds in every reachable      *)
(* state.                                                                    *)
THEOREM TicketInvariant == TicketSpec => []TicketIInv
<1>1. TicketInit => TicketIInv
  <2>. SUFFICES ASSUME TicketInit PROVE TicketIInv
    OBVIOUS
  <2>1. endpoint.pc = "loading" /\ endpoint.key = NoKey
        /\ endpoint \in [pc : {"loading"}, key : {NoKey}]
    BY DEF TicketInit
  <2>2. 0 <= MaxTime /\ 1 \in Keys /\ 0 <= MaxTicketFaults /\ Never <= 0 /\ NoKey <= 1
    BY TicketAssumption, SMTT(30) DEF Keys, Never, NoKey
  <2>3. TicketShape
    BY <2>1, <2>2, RestingIsGoroutine DEF TicketInit, TicketShape
  <2>4. NoncesRemembered
    BY SMTT(30) DEF TicketInit, NoncesRemembered, AdmittedOnce
  <2>5. RefreshersAgree
    BY <2>1, <2>2, RestingIsGoroutine
    DEF TicketInit, RefreshersAgree, CacheHasTheKey, Serving, Goroutines
  <2>. QED BY <2>3, <2>4, <2>5 DEF TicketIInv
<1>2. TicketIInv /\ [TicketNext]_ticketVars => TicketIInv'
  <2>. SUFFICES ASSUME TicketIInv, [TicketNext]_ticketVars PROVE TicketIInv'
    OBVIOUS
  <2>1. CASE UNCHANGED ticketVars
    <3>1. UNCHANGED <<time, relayKey, issued, keyVars, verifierVars, ticketFaults>>
      BY <2>1 DEF ticketVars, keyVars, verifierVars
    <3>2. TicketShape'
      BY <3>1 DEF TicketIInv, TicketShape, keyVars, verifierVars
    <3>3. relayKey' \in Keys /\ relayKey <= relayKey'
      BY <3>1, SMTT(30) DEF TicketIInv, TicketShape, Keys
    <3>. QED BY <3>1, <3>2, <3>3, VerifierFrame, RefreshFrame DEF TicketIInv, verifierVars
  <2>2. CASE TicketNext
    BY <2>2, RekeyInv, SignInv, LoadInv, EndpointCrashInv, PeriodicInv, WrongSignatureInv,
       RefreshInv, CheckTicketInv, RecordNonceInv, PassTimeInv DEF TicketNext
  <2>. QED BY <2>1, <2>2
<1>. QED BY <1>1, <1>2, PTL DEF TicketSpec

(* One run of an endpoint admits a ticket once, for any number of tickets,   *)
(* requests, keys and faults, and a cache that was written is not older      *)
(* than the key in use.                                                      *)
THEOREM TicketsAreSafe == TicketSpec => []TicketsSafe
<1>1. TicketIInv => TicketsSafe
  <2>. SUFFICES ASSUME TicketIInv PROVE TicketsSafe
    OBVIOUS
  <2>1. \A t \in Tickets : issued[t] = Unsigned \/ issued[t].key \in 1..relayKey
    <3>. SUFFICES ASSUME NEW t \in Tickets, issued[t] # Unsigned
                  PROVE  issued[t].key \in 1..relayKey
      OBVIOUS
    <3>1. issued[t].key \in Keys /\ relayKey \in Keys
      BY DEF TicketIInv, TicketShape
    <3>2. issued[t].key <= relayKey
      BY DEF TicketIInv, NoncesRemembered
    <3>. QED BY <3>1, <3>2, TicketAssumption, SMTT(30) DEF Keys
  <2>2. \A h \in Handlers : verifying[h] = Idle \/ verifying[h].ticket \in Tickets
    BY DEF TicketIInv, TicketShape, Verification
  <2>3. lastAsked \in {Never} \cup 0..time /\ time \in 0..MaxTime
        /\ ticketFaults \in 0..MaxTicketFaults
    BY TicketAssumption, SMTT(30) DEF TicketIInv, TicketShape, Never
  <2>4. TicketTypeOK
    BY <2>1, <2>2, <2>3 DEF TicketIInv, TicketShape, RefreshersAgree, TicketTypeOK
  <2>. QED BY <2>4 DEF TicketIInv, NoncesRemembered, RefreshersAgree, TicketsSafe
<1>. QED BY <1>1, TicketInvariant, PTL

(* A refresh never brings an older key back, though the periodic one and the *)
(* one a failed signature asked for overlap: both fetch and store under      *)
(* directTicketKeyRefresher.mu.                                              *)
THEOREM KeyNeverGoesBack == TicketSpec => KeyNeverStepsBack
<1>1. TicketIInv /\ [TicketNext]_ticketVars
        => [Serving /\ endpoint'.pc = "serving" => endpoint'.key >= endpoint.key]_ticketVars
  <2>. SUFFICES ASSUME TicketIInv, TicketNext, Serving, endpoint'.pc = "serving"
                PROVE  endpoint'.key >= endpoint.key
    OBVIOUS
  <2>1. endpoint.key \in Int
    BY TicketAssumption, SMTT(30) DEF TicketIInv, TicketShape, Keys, NoKey
  <2>2. CASE UNCHANGED endpoint
    BY <2>1, <2>2, SMTT(30)
  <2>3. ASSUME NEW g \in Goroutines, RefreshStores(g) PROVE endpoint'.key >= endpoint.key
    <3>1. endpoint'.key = refresher[g].key
      BY <2>3 DEF RefreshStores, TicketIInv, TicketShape
    <3>2. endpoint.key <= refresher[g].key /\ refresher[g].key \in Int
      BY <2>3, SMTT(30) DEF RefreshStores, TicketIInv, RefreshersAgree
    <3>. QED BY <2>1, <3>1, <3>2
  <2>4. ~Load /\ ~EndpointCrash
    BY SMTT(30) DEF Load, EndpointCrash, Serving
  <2>. QED
    BY <2>2, <2>3, <2>4
    DEF TicketNext, Rekey, PeriodicRefresh, Refresh, RefreshFetches, RefreshWrites, PassTime,
        Sign, WrongSignature, RecordNonce, CheckTicket, keyVars
<1>. QED BY <1>1, TicketInvariant, PTL DEF TicketSpec, KeyNeverStepsBack

-----------------------------------------------------------------------------
(* CertRotation.                                                           *)

(* The types, and how far each message of the pipeline lies from the clock.  *)
Certificate == [serial : Serials, made : Nat]
Known == 1..manager.next.serial

CertShape ==
  /\ clock \in Nat /\ clock <= MaxClock
  /\ manager \in [active : Certificate, next : Certificate, rotationAt : Nat, first : Serials]
  /\ manager.next.serial = manager.active.serial + 1
  /\ manager.first <= manager.active.serial
  /\ manager.active.made <= manager.next.made /\ manager.next.made <= clock
  /\ manager.rotationAt = manager.next.made + Rotation
  /\ rotation \in [pc : {"overlap", "wait", "publish", "down"}, retryAt : Nat]
  /\ rotation.retryAt <= clock + 1
  /\ missed \in BOOLEAN /\ certFaults \in Nat /\ certFaults <= MaxCertFaults

PipelineShape ==
  /\ statusFile \subseteq Known
  /\ beat \in [hashes : SUBSET Known, sent : Int]
  /\ beat # NoBeat => /\ 0 <= beat.sent /\ beat.sent <= clock
                      /\ clock <= beat.sent + HeartbeatDelay
  /\ record \in [hashes : SUBSET Known, seen : Int]
  /\ -(RecordExpiry + 1) <= record.seen /\ record.seen <= clock
  /\ page \in [hashes : SUBSET Known, until : Int]
  /\ page # NoPage => clock <= page.until /\ page.until <= clock + TicketLife

(* A rotation is late by its failures only: the ones before it and the ones  *)
(* after it are different ones.                                              *)
RotationInTime ==
  Running =>
    /\ rotation.pc = "overlap" => clock <= manager.rotationAt - Overlap
    /\ rotation.pc = "publish" => clock = manager.next.made
    /\ \A at \in {clock, rotation.retryAt} :
          /\ at <= manager.rotationAt + certFaults
          /\ at <= manager.active.made + 2 * Rotation + certFaults
    /\ manager.rotationAt <= manager.active.made + 2 * Rotation + certFaults

(* Hashes of this run of the endpoint.                                       *)
Current(hashes) == \E h \in hashes : h >= manager.first
Names(hashes) == manager.active.serial \in hashes
Announces(hashes) == manager.next.serial \in hashes

(* Hashes on their way name the certificate served, and the next one too     *)
(* unless they were read before the overlap, which is longer than they can   *)
(* be of use.  A record too old for discovery is of no use.                  *)
PinsAgree ==
  Running /\ ~missed =>
    /\ statusFile = CASE rotation.pc = "overlap" -> {manager.active.serial}
                      [] rotation.pc = "wait" -> {manager.active.serial, manager.next.serial}
                      [] OTHER -> {manager.active.serial - 1, manager.active.serial}
    /\ Current(beat.hashes) =>
          /\ Names(beat.hashes)
          /\ Announces(beat.hashes) \/ beat.sent <= manager.rotationAt - Overlap
    /\ Current(record.hashes) =>
          /\ Names(record.hashes) \/ clock - record.seen > RecordExpiry
          /\ \/ Announces(record.hashes)
             \/ record.seen <= manager.rotationAt - Overlap + HeartbeatDelay
    /\ Current(page.hashes) =>
          /\ Names(page.hashes)
          /\ \/ Announces(page.hashes)
             \/ page.until <= manager.rotationAt - Overlap + HeartbeatDelay + RecordExpiry
                                + TicketLife

CertIInv == CertShape /\ PipelineShape /\ RotationInTime /\ PinsAgree
-----------------------------------------------------------------------------
(* The numbers the invariant speaks of.                                      *)
LEMMA CertNumbers ==
  ASSUME CertShape
  PROVE  /\ {clock, manager.active.serial, manager.next.serial, manager.first,
             manager.active.made, manager.next.made, manager.rotationAt,
             rotation.retryAt, certFaults} \subseteq Nat
         /\ manager.active.serial >= 1 /\ manager.first >= 1
  BY SMTT(30) DEF CertShape, Certificate, Serials

(* The times of the constants.                                               *)
LEMMA CertConstants ==
  /\ {Lifetime, Rotation, HeartbeatDelay, RecordExpiry, TicketLife, MaxClock, MaxCertFaults,
      Overlap} \subseteq Nat
  /\ 1 <= Overlap /\ Overlap < Rotation
  /\ Overlap > HeartbeatDelay + RecordExpiry + TicketLife
  /\ Lifetime >= 2 * Rotation + MaxCertFaults
  BY CertAssumption, SMTT(30)

(* A fault counts.                                                           *)
LEMMA FaultCounts ==
  ASSUME CertShape, CertFault \/ UNCHANGED certFaults
  PROVE  /\ certFaults' \in Nat /\ certFaults' <= MaxCertFaults
         /\ certFaults <= certFaults' /\ (CertFault => certFaults' = certFaults + 1)
  BY CertConstants, SMTT(30) DEF CertShape, CertFault

(* What is known of hashes and times does not depend on the endpoint's       *)
(* program counter, nor on faults.                                           *)
LEMMA PinsFrame ==
  ASSUME CertIInv, UNCHANGED <<clock, manager, beat, record, page>>,
         Running' => Running, Running' /\ ~missed' => ~missed,
         Running' /\ ~missed' =>
            statusFile' = CASE rotation'.pc = "overlap" -> {manager.active.serial}
                            [] rotation'.pc = "wait" ->
                                  {manager.active.serial, manager.next.serial}
                            [] OTHER -> {manager.active.serial - 1, manager.active.serial}
  PROVE  PinsAgree'
  BY DEF CertIInv, PinsAgree, Current, Names, Announces

(* The parts of the pipeline that an action of the endpoint leaves alone.    *)
LEMMA PipelineFrame ==
  ASSUME CertIInv, UNCHANGED <<clock, manager, beat, record, page>>,
         statusFile' \subseteq Known
  PROVE  PipelineShape'
  BY DEF CertIInv, PipelineShape, Known

(* writeDirectStatus names the certificate served, and the next in the       *)
(* overlap.                                                                  *)
LEMMA WriteNames ==
  ASSUME CertIInv, WriteDirectStatus
  PROVE  /\ statusFile' \subseteq Known
         /\ ~missed' => ~missed /\ statusFile' = CertificateHashes
         /\ missed' \in BOOLEAN
         /\ CertFault \/ UNCHANGED certFaults
<1>1. CertificateHashes \subseteq Known
  BY CertNumbers, SMTT(30) DEF CertIInv, CertShape, CertificateHashes, Known
<1>2. CASE statusFile' = CertificateHashes /\ UNCHANGED <<missed, certFaults>>
  BY <1>1, <1>2 DEF CertIInv, CertShape
<1>3. CASE CertFault /\ missed' = TRUE /\ UNCHANGED statusFile
  BY <1>3 DEF CertIInv, PipelineShape
<1>. QED BY <1>2, <1>3 DEF WriteDirectStatus

(* The overlap starts in time, and the file then names both certificates.    *)
LEMMA OverlapStartsInv == ASSUME CertIInv, OverlapStarts PROVE CertIInv'
<1>1. /\ rotation.pc = "overlap" /\ clock >= manager.rotationAt - Overlap
      /\ rotation' = [rotation EXCEPT !.pc = "wait"]
      /\ WriteDirectStatus /\ UNCHANGED <<clock, manager, beat, record, page>>
  BY DEF OverlapStarts
<1>2. /\ rotation' \in [pc : {"overlap", "wait", "publish", "down"}, retryAt : Nat]
      /\ rotation'.pc = "wait" /\ rotation'.retryAt = rotation.retryAt
  BY <1>1 DEF CertIInv, CertShape
<1>3. /\ certFaults' \in Nat /\ certFaults' <= MaxCertFaults /\ certFaults <= certFaults'
  BY <1>1, WriteNames, FaultCounts DEF CertIInv
<1>4. CertShape'
  BY <1>1, <1>2, <1>3, WriteNames DEF CertIInv, CertShape
<1>5. CertificateHashes = {manager.active.serial, manager.next.serial}
  BY <1>1, CertNumbers, CertConstants, SMTT(30) DEF CertificateHashes, CertIInv
<1>6. PinsAgree'
  BY <1>1, <1>2, <1>5, WriteNames, PinsFrame DEF Running
<1>7. RotationInTime'
  BY <1>1, <1>2, <1>3, CertNumbers, CertConstants, SMTT(30) DEF CertIInv, RotationInTime, Running
<1>. QED BY <1>1, <1>4, <1>6, <1>7, WriteNames, PipelineFrame DEF CertIInv

(* After a rotation the file names the certificate served only.              *)
LEMMA PublishInv == ASSUME CertIInv, Publish PROVE CertIInv'
<1>1. /\ rotation.pc = "publish" /\ rotation' = [rotation EXCEPT !.pc = "overlap"]
      /\ WriteDirectStatus /\ UNCHANGED <<clock, manager, beat, record, page>>
  BY DEF Publish
<1>2. /\ rotation' \in [pc : {"overlap", "wait", "publish", "down"}, retryAt : Nat]
      /\ rotation'.pc = "overlap" /\ rotation'.retryAt = rotation.retryAt
  BY <1>1 DEF CertIInv, CertShape
<1>3. /\ certFaults' \in Nat /\ certFaults' <= MaxCertFaults /\ certFaults <= certFaults'
  BY <1>1, WriteNames, FaultCounts DEF CertIInv
<1>4. CertShape'
  BY <1>1, <1>2, <1>3, WriteNames DEF CertIInv, CertShape
<1>5. manager.rotationAt = clock + Rotation
  BY <1>1 DEF CertIInv, CertShape, RotationInTime, Running
<1>6. CertificateHashes = {manager.active.serial}
  BY <1>5, CertNumbers, CertConstants, SMTT(30) DEF CertificateHashes, CertIInv
<1>7. PinsAgree'
  BY <1>1, <1>2, <1>6, WriteNames, PinsFrame DEF Running
<1>8. RotationInTime'
  BY <1>1, <1>2, <1>3, <1>5, CertNumbers, CertConstants, SMTT(30)
  DEF CertIInv, RotationInTime, Running
<1>. QED BY <1>1, <1>4, <1>7, <1>8, WriteNames, PipelineFrame DEF CertIInv

(* A failed rotation is one fault and one unit of time.                      *)
LEMMA RotateFailsInv == ASSUME CertIInv, RotateFails PROVE CertIInv'
<1>1. /\ Rotating /\ CertFault /\ rotation' = [rotation EXCEPT !.retryAt = clock + 1]
      /\ UNCHANGED <<clock, manager, statusFile, missed, beat, record, page>>
  BY DEF RotateFails
<1>2. /\ rotation' \in [pc : {"overlap", "wait", "publish", "down"}, retryAt : Nat]
      /\ rotation'.pc = rotation.pc /\ rotation.pc = "wait" /\ rotation'.retryAt = clock + 1
  BY <1>1, SMTT(30) DEF CertIInv, CertShape, Rotating
<1>3. certFaults' \in Nat /\ certFaults' <= MaxCertFaults /\ certFaults' = certFaults + 1
  BY <1>1, FaultCounts DEF CertIInv
<1>4. CertShape'
  BY <1>1, <1>2, <1>3, CertNumbers, SMTT(30) DEF CertIInv, CertShape
<1>5. RotationInTime'
  BY <1>1, <1>2, <1>3, CertNumbers, CertConstants, SMTT(30) DEF CertIInv, RotationInTime, Running
<1>6. PinsAgree'
  BY <1>1, <1>2, PinsFrame DEF Running, CertIInv, PinsAgree
<1>. QED BY <1>1, <1>4, <1>5, <1>6, PipelineFrame DEF CertIInv, PipelineShape

(* The endpoint dies; what is on its way stays.                              *)
LEMMA EndpointDiesInv == ASSUME CertIInv, EndpointDies PROVE CertIInv'
<1>1. /\ CertFault /\ rotation' = [pc |-> "down", retryAt |-> 0]
      /\ UNCHANGED <<clock, manager, statusFile, missed, beat, record, page>>
  BY DEF EndpointDies
<1>2. /\ rotation' \in [pc : {"overlap", "wait", "publish", "down"}, retryAt : Nat]
      /\ rotation'.pc = "down" /\ rotation'.retryAt = 0
  BY <1>1
<1>3. certFaults' \in Nat /\ certFaults' <= MaxCertFaults
  BY <1>1, FaultCounts DEF CertIInv
<1>4. CertShape'
  BY <1>1, <1>2, <1>3, CertNumbers, SMTT(30) DEF CertIInv, CertShape
<1>5. RotationInTime' /\ PinsAgree'
  BY <1>2 DEF RotationInTime, PinsAgree, Running
<1>. QED BY <1>1, <1>4, <1>5, PipelineFrame DEF CertIInv, PipelineShape
(* A new run has serials nobody has heard of.                                *)
LEMMA EndpointStartsInv == ASSUME CertIInv, EndpointStarts PROVE CertIInv'
<1>. DEFINE serial == manager.next.serial + 1
<1>1. /\ manager' = NewManager(serial)
      /\ rotation' = [pc |-> "overlap", retryAt |-> 0]
      /\ statusFile' = {manager'.active.serial} /\ missed' = FALSE
      /\ UNCHANGED <<clock, beat, record, page, certFaults>>
  BY DEF EndpointStarts
<1>2. serial \in Serials /\ serial \in Nat /\ clock \in Nat /\ serial + 1 \in Serials
  BY CertNumbers, SMTT(30) DEF CertIInv, Serials
<1>. HIDE DEF serial
<1>3. /\ manager' = [active |-> [serial |-> serial, made |-> clock],
                     next |-> [serial |-> serial + 1, made |-> clock],
                     rotationAt |-> clock + Rotation, first |-> serial]
      /\ manager' \in [active : Certificate, next : Certificate, rotationAt : Nat,
                       first : Serials]
  <2>1. manager' = [active |-> [serial |-> serial, made |-> clock],
                    next |-> [serial |-> serial + 1, made |-> clock],
                    rotationAt |-> clock + Rotation, first |-> serial]
    BY <1>1 DEF NewManager
  <2>2. clock + Rotation \in Nat
    BY <1>2, CertConstants, SMTT(30)
  <2>3. /\ [serial |-> serial, made |-> clock] \in Certificate
        /\ [serial |-> serial + 1, made |-> clock] \in Certificate
    BY <1>2 DEF Certificate
  <2>. QED BY <1>2, <2>1, <2>2, <2>3
<1>4. /\ manager'.active.serial = serial /\ manager'.next.serial = serial + 1
      /\ manager'.first = serial /\ manager'.rotationAt = clock + Rotation
      /\ manager'.active.made = clock /\ manager'.next.made = clock
  BY <1>3
<1>5. /\ rotation' \in [pc : {"overlap", "wait", "publish", "down"}, retryAt : Nat]
      /\ rotation'.pc = "overlap" /\ rotation'.retryAt = 0
  BY <1>1
<1>5a. missed' \in BOOLEAN
  BY <1>1, ZenonT(40)
<1>6. CertShape'
  BY <1>1, <1>2, <1>3, <1>4, <1>5, <1>5a, CertNumbers, SMTT(30) DEF CertIInv, CertShape
<1>7. Known \subseteq Known' /\ \A h \in Known : ~(h >= manager'.first)
  BY <1>2, <1>4, CertNumbers, SMTT(30) DEF Known, CertIInv, serial
<1>8. PipelineShape'
  <2>1. statusFile' \subseteq Known'
    BY <1>1, <1>2, <1>4, SMTT(30) DEF Known, Serials
  <2>2. /\ beat' \in [hashes : SUBSET Known', sent : Int]
        /\ record' \in [hashes : SUBSET Known', seen : Int]
        /\ page' \in [hashes : SUBSET Known', until : Int]
    BY <1>1, <1>7 DEF CertIInv, PipelineShape
  <2>. QED BY <1>1, <2>1, <2>2 DEF CertIInv, PipelineShape
<1>9. RotationInTime'
  BY <1>1, <1>2, <1>4, <1>5, CertNumbers, CertConstants, SMTT(30) DEF CertIInv, RotationInTime, Running
<1>10. /\ ~Current(beat.hashes)' /\ ~Current(record.hashes)' /\ ~Current(page.hashes)'
  <2>1. beat.hashes \subseteq Known /\ record.hashes \subseteq Known /\ page.hashes \subseteq Known
    BY DEF CertIInv, PipelineShape
  <2>. QED BY <1>1, <1>7, <2>1 DEF Current
<1>11. PinsAgree'
  BY <1>1, <1>5, <1>10 DEF PinsAgree
<1>. QED BY <1>6, <1>8, <1>9, <1>11 DEF CertIInv

(* When the next certificate is served, whatever can still be used names it: *)
(* what does not was read before the overlap.                                *)
LEMMA RotateInv == ASSUME CertIInv, Rotate PROVE CertIInv'
<1>1. /\ Rotating
      /\ manager' = [manager EXCEPT !.active = manager.next,
                                    !.next = [serial |-> manager.next.serial + 1, made |-> clock],
                                    !.rotationAt = clock + Rotation]
      /\ rotation' = [rotation EXCEPT !.pc = "publish"]
      /\ UNCHANGED <<clock, statusFile, missed, beat, record, page, certFaults>>
  BY DEF Rotate
<1>2. /\ rotation.pc = "wait" /\ clock >= manager.rotationAt /\ clock >= rotation.retryAt
      /\ rotation' \in [pc : {"overlap", "wait", "publish", "down"}, retryAt : Nat]
      /\ rotation'.pc = "publish" /\ rotation'.retryAt = rotation.retryAt
  BY <1>1 DEF Rotating, CertIInv, CertShape
<1>3. /\ [serial |-> manager.next.serial + 1, made |-> clock] \in Certificate
      /\ clock + Rotation \in Nat
  BY CertNumbers, CertConstants, SMTT(30) DEF CertIInv, Certificate, Serials
<1>4. /\ manager'.active = manager.next /\ manager'.first = manager.first
      /\ manager'.next = [serial |-> manager.next.serial + 1, made |-> clock]
      /\ manager'.rotationAt = clock + Rotation
      /\ manager' \in [active : Certificate, next : Certificate, rotationAt : Nat,
                       first : Serials]
  BY <1>1, <1>3 DEF CertIInv, CertShape
<1>5. /\ manager'.active.serial = manager.active.serial + 1
      /\ manager'.next.serial = manager.active.serial + 2
      /\ manager'.active.made = manager.next.made /\ manager'.next.made = clock
  BY <1>4, CertNumbers, SMTT(30) DEF CertIInv, CertShape
<1>6. CertShape'
  BY <1>1, <1>2, <1>4, <1>5, CertNumbers, SMTT(30) DEF CertIInv, CertShape
<1>7. Known \subseteq Known'
  BY <1>5, CertNumbers, SMTT(30) DEF Known, CertIInv, CertShape
<1>8. PipelineShape'
  <2>1. /\ beat' \in [hashes : SUBSET Known', sent : Int]
        /\ record' \in [hashes : SUBSET Known', seen : Int]
        /\ page' \in [hashes : SUBSET Known', until : Int]
    BY <1>1, <1>7 DEF CertIInv, PipelineShape
  <2>. QED BY <1>1, <1>7, <2>1 DEF CertIInv, PipelineShape
<1>9. RotationInTime'
  <2>1. clock <= manager.rotationAt + certFaults
    BY <1>2 DEF CertIInv, RotationInTime, Running
  <2>. QED
    BY <1>1, <1>2, <1>4, <1>5, <2>1, CertNumbers, CertConstants, SMTT(30)
    DEF CertIInv, CertShape, RotationInTime, Running
<1>10. PinsAgree'
  <2>. SUFFICES ASSUME ~missed PROVE PinsAgree'
    BY <1>1 DEF PinsAgree
  <2>1. Running /\ statusFile = {manager.active.serial, manager.next.serial}
    BY <1>2 DEF CertIInv, PinsAgree, Running
  <2>2. statusFile' = {manager'.active.serial - 1, manager'.active.serial}
    BY <1>1, <1>5, <2>1, CertNumbers, SMTT(30) DEF CertIInv, CertShape
  <2>3. \A hashes : /\ Current(hashes)' <=> Current(hashes)
                    /\ Names(hashes)' <=> Announces(hashes)
    BY <1>4 DEF Current, Names, Announces
  <2>4. Current(beat.hashes) =>
          Announces(beat.hashes) /\ beat.sent <= manager'.rotationAt - Overlap
    <3>. SUFFICES ASSUME Current(beat.hashes)
                  PROVE  Announces(beat.hashes) /\ beat.sent <= manager'.rotationAt - Overlap
      OBVIOUS
    <3>1. beat # NoBeat
      BY SMTT(30) DEF Current, NoBeat
    <3>2. /\ beat.sent \in Int /\ beat.sent <= clock /\ clock <= beat.sent + HeartbeatDelay
      BY <3>1 DEF CertIInv, PipelineShape
    <3>3. Announces(beat.hashes) \/ beat.sent <= manager.rotationAt - Overlap
      BY <2>1 DEF CertIInv, PinsAgree
    <3>. QED BY <1>2, <1>4, <3>2, <3>3, CertNumbers, CertConstants, SMTT(30) DEF CertIInv
  <2>5. Current(record.hashes) =>
          /\ Announces(record.hashes) \/ clock - record.seen > RecordExpiry
          /\ record.seen <= manager'.rotationAt - Overlap + HeartbeatDelay
    <3>1. record.seen \in Int /\ record.seen <= clock
      BY DEF CertIInv, PipelineShape
    <3>2. Current(record.hashes) =>
            \/ Announces(record.hashes)
            \/ record.seen <= manager.rotationAt - Overlap + HeartbeatDelay
      BY <2>1 DEF CertIInv, PinsAgree
    <3>. QED BY <1>2, <1>4, <3>1, <3>2, CertNumbers, CertConstants, SMTT(30) DEF CertIInv
  <2>6. Current(page.hashes) =>
          /\ Announces(page.hashes)
          /\ page.until <= manager'.rotationAt - Overlap + HeartbeatDelay + RecordExpiry
                             + TicketLife
    <3>. SUFFICES ASSUME Current(page.hashes)
                  PROVE  /\ Announces(page.hashes)
                         /\ page.until <= manager'.rotationAt - Overlap + HeartbeatDelay
                                            + RecordExpiry + TicketLife
      OBVIOUS
    <3>1. page # NoPage
      BY SMTT(30) DEF Current, NoPage
    <3>2. /\ page.until \in Int /\ clock <= page.until /\ page.until <= clock + TicketLife
      BY <3>1 DEF CertIInv, PipelineShape
    <3>3. \/ Announces(page.hashes)
          \/ page.until <= manager.rotationAt - Overlap + HeartbeatDelay + RecordExpiry
                             + TicketLife
      BY <2>1 DEF CertIInv, PinsAgree
    <3>. QED BY <1>2, <1>4, <3>2, <3>3, CertNumbers, CertConstants, SMTT(30) DEF CertIInv
  <2>. QED
    BY <1>1, <1>2, <2>2, <2>3, <2>4, <2>5, <2>6 DEF PinsAgree
<1>. QED BY <1>6, <1>8, <1>9, <1>10 DEF CertIInv
-----------------------------------------------------------------------------
(* The endpoint's own state is left alone by hostd, the relay and a browser. *)
LEMMA EndpointFrame ==
  ASSUME CertIInv, UNCHANGED <<clock, manager, rotation, missed, certFaults>>
  PROVE  CertShape' /\ RotationInTime'
  BY DEF CertIInv, CertShape, RotationInTime, Running

(* What the heartbeat reads names the certificate served, and the next one   *)
(* unless the overlap has not begun.                                         *)
LEMMA HeartbeatReadsInv == ASSUME CertIInv, HeartbeatReads PROVE CertIInv'
<1>1. /\ beat' = [hashes |-> statusFile, sent |-> clock]
      /\ UNCHANGED <<clock, manager, rotation, statusFile, missed, record, page, certFaults>>
  BY DEF HeartbeatReads
<1>2. beat'.hashes = statusFile /\ beat'.sent = clock
      /\ beat' \in [hashes : SUBSET Known, sent : Int]
  BY <1>1, CertNumbers, SMTT(30) DEF CertIInv, PipelineShape
<1>3. PipelineShape'
  BY <1>1, <1>2, CertNumbers, CertConstants, SMTT(30) DEF CertIInv, PipelineShape, Known
<1>4. Running /\ ~missed =>
        /\ manager.active.serial \in statusFile
        /\ manager.next.serial \in statusFile \/ clock <= manager.rotationAt - Overlap
  <2>. SUFFICES ASSUME Running, ~missed
                PROVE  /\ manager.active.serial \in statusFile
                       /\ \/ manager.next.serial \in statusFile
                          \/ clock <= manager.rotationAt - Overlap
    OBVIOUS
  <2>1. CASE rotation.pc = "overlap"
    BY <2>1 DEF CertIInv, PinsAgree, RotationInTime
  <2>2. CASE rotation.pc = "wait"
    BY <2>2 DEF CertIInv, PinsAgree
  <2>3. CASE rotation.pc = "publish"
    <3>1. clock = manager.next.made /\ manager.rotationAt = manager.next.made + Rotation
      BY <2>3 DEF CertIInv, RotationInTime, CertShape
    <3>2. manager.active.serial \in statusFile
      BY <2>3 DEF CertIInv, PinsAgree
    <3>. QED BY <3>1, <3>2, CertNumbers, CertConstants, SMTT(30) DEF CertIInv
  <2>. QED BY <2>1, <2>2, <2>3 DEF CertIInv, CertShape, Running
<1>5. PinsAgree'
  BY <1>1, <1>2, <1>4 DEF CertIInv, PinsAgree, Current, Names, Announces, Running
<1>. QED BY <1>1, <1>3, <1>5, EndpointFrame DEF CertIInv

(* The record takes over what the heartbeat read a while ago.                *)
LEMMA HeartbeatEndsInv ==
  ASSUME CertIInv, HeartbeatArrives \/ HeartbeatLost PROVE CertIInv'
<1>1. NoBeat.hashes = {} /\ NoBeat.sent = -1 /\ NoBeat \in [hashes : SUBSET Known, sent : Int]
  <2>1. -1 \in Int
    BY SMTT(30)
  <2>. QED BY <2>1 DEF NoBeat
<1>2. /\ beat # NoBeat /\ beat' = NoBeat
      /\ UNCHANGED <<clock, manager, rotation, statusFile, missed, page, certFaults>>
  BY DEF HeartbeatArrives, HeartbeatLost
<1>3. ~Current(beat.hashes)'
  BY <1>1, <1>2 DEF Current
<1>4. /\ beat.sent \in Int /\ beat.sent <= clock /\ clock <= beat.sent + HeartbeatDelay
      /\ beat.hashes \subseteq Known
  BY <1>2 DEF CertIInv, PipelineShape
<1>5. CASE HeartbeatArrives
  <2>1. /\ record' = [hashes |-> beat.hashes, seen |-> clock]
        /\ record'.hashes = beat.hashes /\ record'.seen = clock
        /\ record' \in [hashes : SUBSET Known, seen : Int]
    BY <1>4, <1>5, CertNumbers, SMTT(30) DEF HeartbeatArrives, CertIInv
  <2>2. PipelineShape'
    BY <1>1, <1>2, <2>1, CertNumbers, CertConstants, SMTT(30) DEF CertIInv, PipelineShape, Known
  <2>3. Running /\ ~missed /\ Current(beat.hashes) =>
          /\ Names(beat.hashes)
          /\ \/ Announces(beat.hashes)
             \/ clock <= manager.rotationAt - Overlap + HeartbeatDelay
    BY <1>4, CertNumbers, CertConstants, SMTT(30) DEF CertIInv, PinsAgree
  <2>4. PinsAgree'
    BY <1>2, <1>3, <2>1, <2>3 DEF CertIInv, PinsAgree, Current, Names, Announces, Running
  <2>. QED BY <1>2, <2>2, <2>4, EndpointFrame DEF CertIInv
<1>6. CASE HeartbeatLost
  <2>1. UNCHANGED record
    BY <1>6 DEF HeartbeatLost
  <2>2. PipelineShape'
    BY <1>1, <1>2, <2>1 DEF CertIInv, PipelineShape, Known
  <2>3. PinsAgree'
    BY <1>2, <1>3, <2>1 DEF CertIInv, PinsAgree, Current, Names, Announces, Running
  <2>. QED BY <1>2, <2>2, <2>3, EndpointFrame DEF CertIInv
<1>. QED BY <1>5, <1>6

(* Discovery gives out a record that is not too old.                         *)
LEMMA DiscoverInv == ASSUME CertIInv, Discover PROVE CertIInv'
<1>1. /\ clock - record.seen <= RecordExpiry
      /\ page' = [hashes |-> record.hashes, until |-> clock + TicketLife]
      /\ UNCHANGED <<clock, manager, rotation, statusFile, missed, beat, record, certFaults>>
  BY DEF Discover
<1>2. record.hashes \subseteq Known /\ record.seen \in Int /\ record.seen <= clock
  BY DEF CertIInv, PipelineShape
<1>3. /\ page'.hashes = record.hashes /\ page'.until = clock + TicketLife
      /\ page' \in [hashes : SUBSET Known, until : Int]
  BY <1>1, <1>2, CertNumbers, CertConstants, SMTT(30) DEF CertIInv
<1>4. PipelineShape'
  BY <1>1, <1>3, CertNumbers, CertConstants, SMTT(30) DEF CertIInv, PipelineShape, Known
<1>5. Running /\ ~missed /\ Current(record.hashes) =>
        /\ Names(record.hashes)
        /\ \/ Announces(record.hashes)
           \/ clock + TicketLife <= manager.rotationAt - Overlap + HeartbeatDelay
                                      + RecordExpiry + TicketLife
  BY <1>1, <1>2, CertNumbers, CertConstants, SMTT(30) DEF CertIInv, PinsAgree
<1>6. PinsAgree'
  BY <1>1, <1>3, <1>5 DEF CertIInv, PinsAgree, Current, Names, Announces, Running
<1>. QED BY <1>1, <1>4, <1>6, EndpointFrame DEF CertIInv

(* Time passes up to the next timer: a late rotation has failed once for     *)
(* every unit it is late.                                                    *)
LEMMA PassInv == ASSUME CertIInv, Pass PROVE CertIInv'
<1>1. /\ clock < MaxClock /\ rotation.pc # "publish"
      /\ rotation.pc = "overlap" => clock < manager.rotationAt - Overlap
      /\ ~Rotating
      /\ beat # NoBeat => clock < beat.sent + HeartbeatDelay
      /\ clock' = clock + 1 /\ page' = IF page.until < clock' THEN NoPage ELSE page
      /\ UNCHANGED <<manager, rotation, statusFile, missed, beat, record, certFaults>>
  BY DEF Pass
<1>2. CertShape'
  BY <1>1, CertNumbers, CertConstants, SMTT(30) DEF CertIInv, CertShape
<1>3. NoPage.hashes = {} /\ NoPage \in [hashes : SUBSET Known, until : Int]
  BY SMTT(30) DEF NoPage
<1>4. /\ beat.sent \in Int /\ record.seen \in Int /\ page.until \in Int
  BY DEF CertIInv, PipelineShape
<1>5. \/ page' = NoPage
      \/ page' = page /\ clock + 1 <= page.until
  BY <1>1, <1>4, CertNumbers, SMTT(30) DEF CertIInv
<1>6. PipelineShape'
  <2>1. /\ page' \in [hashes : SUBSET Known, until : Int]
        /\ page' # NoPage => clock' <= page'.until /\ page'.until <= clock' + TicketLife
    BY <1>1, <1>3, <1>4, <1>5, CertNumbers, CertConstants, SMTT(30) DEF CertIInv, PipelineShape
  <2>2. beat # NoBeat => beat.sent <= clock' /\ clock' <= beat.sent + HeartbeatDelay
    BY <1>1, <1>4, CertNumbers, CertConstants, SMTT(30) DEF CertIInv, PipelineShape
  <2>3. record.seen <= clock'
    BY <1>1, <1>4, CertNumbers, SMTT(30) DEF CertIInv, PipelineShape
  <2>. QED BY <1>1, <2>1, <2>2, <2>3 DEF CertIInv, PipelineShape, Known
<1>7. RotationInTime'
  <2>. SUFFICES ASSUME Running PROVE RotationInTime'
    BY <1>1 DEF RotationInTime, Running
  <2>1. clock + 1 <= manager.rotationAt \/ clock + 1 <= rotation.retryAt
    BY <1>1, CertNumbers, CertConstants, SMTT(30) DEF CertIInv, CertShape, Rotating, Running
  <2>. QED
    BY <1>1, <2>1, CertNumbers, CertConstants, SMTT(30) DEF CertIInv, RotationInTime, Running
<1>8. PinsAgree'
  <2>. SUFFICES ASSUME Running, ~missed PROVE PinsAgree'
    BY <1>1 DEF PinsAgree, Running
  <2>3. UNCHANGED <<manager, rotation, statusFile, missed, beat, record>> /\ clock' = clock + 1
    BY <1>1
  <2>4. statusFile' = CASE rotation'.pc = "overlap" -> {manager'.active.serial}
                         [] rotation'.pc = "wait" -> {manager'.active.serial, manager'.next.serial}
                         [] OTHER -> {manager'.active.serial - 1, manager'.active.serial}
    BY <2>3 DEF CertIInv, PinsAgree
  <2>5. Current(beat.hashes)' =>
          /\ Names(beat.hashes)'
          /\ Announces(beat.hashes)' \/ beat'.sent <= manager'.rotationAt - Overlap
    BY <2>3 DEF CertIInv, PinsAgree, Current, Names, Announces
  <2>6. Current(record.hashes)' =>
          /\ Names(record.hashes)' \/ clock' - record'.seen > RecordExpiry
          /\ \/ Announces(record.hashes)'
             \/ record'.seen <= manager'.rotationAt - Overlap + HeartbeatDelay
    <3>1. clock' - record'.seen = clock - record.seen + 1 /\ clock - record.seen \in Int
      BY <1>4, <2>3, CertNumbers, SMTT(30) DEF CertIInv
    <3>2. clock - record.seen > RecordExpiry => clock' - record'.seen > RecordExpiry
      BY <3>1, CertConstants, SMTT(30)
    <3>. QED BY <2>3, <3>2 DEF CertIInv, PinsAgree, Current, Names, Announces
  <2>7. Current(page.hashes)' =>
          /\ Names(page.hashes)'
          /\ \/ Announces(page.hashes)'
             \/ page'.until <= manager'.rotationAt - Overlap + HeartbeatDelay + RecordExpiry
                                 + TicketLife
    BY <1>3, <1>5, <2>3 DEF CertIInv, PinsAgree, Current, Names, Announces
  <2>. QED BY <2>4, <2>5, <2>6, <2>7 DEF PinsAgree
<1>. QED BY <1>2, <1>6, <1>7, <1>8 DEF CertIInv

-----------------------------------------------------------------------------
(* The invariant of the certificate and of the way of its hash holds in      *)
(* every reachable state.                                                    *)
THEOREM CertInvariant == CertSpec => []CertIInv
<1>1. CertInit => CertIInv
  <2>. SUFFICES ASSUME CertInit PROVE CertIInv
    OBVIOUS
  <2>1. /\ manager = [active |-> [serial |-> 1, made |-> 0], next |-> [serial |-> 2, made |-> 0],
                      rotationAt |-> Rotation, first |-> 1]
        /\ manager \in [active : Certificate, next : Certificate, rotationAt : Nat,
                        first : Serials]
    BY CertConstants, SMTT(30) DEF CertInit, NewManager, Certificate, Serials
  <2>2. /\ manager.active.serial = 1 /\ manager.next.serial = 2 /\ manager.first = 1
        /\ manager.active.made = 0 /\ manager.next.made = 0 /\ manager.rotationAt = Rotation
    BY <2>1
  <2>3. /\ rotation \in [pc : {"overlap", "wait", "publish", "down"}, retryAt : Nat]
        /\ rotation.pc = "overlap" /\ rotation.retryAt = 0 /\ missed \in BOOLEAN
    BY ZenonT(40) DEF CertInit
  <2>4. CertShape
    BY <2>1, <2>2, <2>3, CertConstants, SMTT(30) DEF CertInit, CertShape
  <2>5. /\ beat.hashes = {} /\ beat \in [hashes : SUBSET Known, sent : Int]
        /\ page.hashes = {} /\ page \in [hashes : SUBSET Known, until : Int]
        /\ record.hashes = {} /\ record.seen = -RecordExpiry - 1
        /\ record \in [hashes : SUBSET Known, seen : Int]
    <3>1. {} \in SUBSET Known /\ -1 \in Int /\ -RecordExpiry - 1 \in Int  BY CertConstants, SMTT(30)
    <3>2. beat.hashes = {} /\ beat \in [hashes : SUBSET Known, sent : Int]
      BY <3>1 DEF CertInit, NoBeat
    <3>3. page.hashes = {} /\ page \in [hashes : SUBSET Known, until : Int]
      BY <3>1 DEF CertInit, NoPage
    <3>4. /\ record.hashes = {} /\ record.seen = -RecordExpiry - 1
          /\ record \in [hashes : SUBSET Known, seen : Int]
      BY <3>1 DEF CertInit
    <3>. QED BY <3>2, <3>3, <3>4
  <2>6. PipelineShape
    BY <2>2, <2>5, CertConstants, SMTT(30) DEF CertInit, PipelineShape, Known
  <2>7. RotationInTime
    BY <2>2, <2>3, CertConstants, SMTT(30) DEF CertInit, RotationInTime
  <2>8. PinsAgree
    BY <2>2, <2>3, <2>5 DEF CertInit, PinsAgree, Current
  <2>. QED BY <2>4, <2>6, <2>7, <2>8 DEF CertIInv
<1>2. CertIInv /\ [CertNext]_certVars => CertIInv'
  <2>. SUFFICES ASSUME CertIInv, [CertNext]_certVars PROVE CertIInv'
    OBVIOUS
  <2>1. CASE UNCHANGED certVars
    BY <2>1 DEF certVars, CertIInv, CertShape, PipelineShape, Known, RotationInTime, PinsAgree,
       Current, Names, Announces, Running
  <2>2. CASE CertNext
    BY <2>2, OverlapStartsInv, RotateInv, RotateFailsInv, PublishInv, EndpointDiesInv,
       EndpointStartsInv, HeartbeatReadsInv, HeartbeatEndsInv, DiscoverInv, PassInv
    DEF CertNext
  <2>. QED BY <2>1, <2>2
<1>. QED BY <1>1, <1>2, PTL DEF CertSpec

(* A browser finds a certificate it pinned, and one that has not expired,    *)
(* for any lifetimes in the relation the constants of certificate.go have:   *)
(* an overlap longer than a hash is on its way, and a lifetime of two        *)
(* rotations and their failures.                                             *)
THEOREM CertIsSafe == CertSpec => []CertSafe
<1>1. CertIInv => CertSafe
  <2>. SUFFICES ASSUME CertIInv PROVE CertSafe
    OBVIOUS
  <2>1. /\ {clock, manager.active.made, manager.next.made, manager.rotationAt,
            rotation.retryAt} \subseteq Times
        /\ clock \in 0..MaxClock /\ certFaults \in 0..MaxCertFaults
    BY CertNumbers, CertConstants, SMTT(30) DEF CertIInv, CertShape, Times
  <2>2. manager \in [active : [serial : Serials, made : Times],
                     next : [serial : Serials, made : Times], rotationAt : Times, first : Serials]
    BY <2>1 DEF CertIInv, CertShape, Certificate
  <2>3. rotation \in [pc : {"overlap", "wait", "publish", "down"}, retryAt : Times]
    BY <2>1 DEF CertIInv, CertShape
  <2>4. Known \subseteq Serials
    BY CertNumbers, SMTT(30) DEF CertIInv, Known, Serials
  <2>5. /\ beat = NoBeat \/ (beat.hashes \subseteq Serials /\ beat.sent \in Times)
        /\ record.hashes \subseteq Serials /\ record.seen \in -(RecordExpiry + 1)..MaxClock
        /\ page = NoPage \/ (page.hashes \subseteq Serials /\ page.until \in Times)
        /\ statusFile \subseteq Serials
    BY <2>4, CertNumbers, CertConstants, SMTT(30) DEF CertIInv, CertShape, PipelineShape, Times
  <2>6. CertTypeOK
    BY <2>1, <2>2, <2>3, <2>5 DEF CertIInv, CertShape, CertTypeOK
  <2>7. PinnedIsServed
    BY DEF CertIInv, PinsAgree, PinnedIsServed, Current, Names
  <2>8. ServedIsValid
    BY CertNumbers, CertConstants, SMTT(30) DEF CertIInv, CertShape, RotationInTime, ServedIsValid
  <2>. QED BY <2>6, <2>7, <2>8 DEF CertSafe
<1>. QED BY <1>1, CertInvariant, PTL
=============================================================================
