---------------------------- MODULE AuditForward ----------------------------
(***************************************************************************)
(* Audit forwarding of a direct endpoint (flux-web/audit_forward.go) to    *)
(* the central relay: the durable queue of the endpoint's SQLite store     *)
(* (store.go), the forwarder's goroutine, the POST it makes and the        *)
(* relay's handler.  Events are numbered in the order of enqueue, which    *)
(* holds f.mu; the number stands for event_id and for the row's seq.       *)
(***************************************************************************)
EXTENDS Integers, Sequences, FiniteSets, Functions

CONSTANTS MaxEvents,   \* events recorded in a behaviour
          QueueLimit,  \* auditForwardQueueLimit
          BatchLimit,  \* auditForwardBatchLimit
          Retention,   \* FLUX_AUDIT_RETENTION_DAYS is not 0
          MaxFaults    \* crashes, lost answers, refusals and store errors

ASSUME LimitsAssumption ==
    /\ MaxEvents \in Nat /\ MaxFaults \in Nat
    /\ QueueLimit \in Nat /\ BatchLimit \in Nat
    /\ 0 < BatchLimit /\ BatchLimit < QueueLimit
    /\ Retention \in BOOLEAN

VARIABLES
    made,          \* events recorded
    old,           \* events 1..old are past the retention window
    queue,         \* auditForwarder.queue
    inflightSize,  \* auditForwarder.inflightSize
    wake,          \* the one-slot wake channel
    pc, batch,     \* auditForwarder.run and its local batch
    disk,          \* event_ids of audit_forward_queue
    reply,         \* the answer to the POST under way
    late,          \* POSTs the client gave up on that may still be handled
    rows,          \* the relay's audit rows in insertion order
    faults,
    delivered, dropped, unsaved, stranded
                   \* history: ever inserted at the relay; counted by
                   \* auditForwardDropped; persist failed; on disk at a
                   \* start that could not read the queue

forwarderVars == <<queue, inflightSize, wake, pc, batch>>
relayVars == <<reply, late, rows, delivered>>
historyVars == <<dropped, unsaved, stranded>>
vars == <<made, old, forwarderVars, disk, relayVars, faults, historyVars>>

Events == 1..MaxEvents
Batches == UNION {[1..n -> Events] : n \in 0..BatchLimit}

(* The queue, its file, the batch in flight and the receiver's rows have   *)
(* their types.                                                            *)
TypeOK ==
    /\ made \in 0..MaxEvents
    /\ old \in 0..made
    /\ queue \in Seq(Events)
    /\ inflightSize \in 0..BatchLimit
    /\ wake \in BOOLEAN
    /\ pc \in {"next", "empty", "wait", "post", "acked", "backoff", "down"}
    /\ batch \in Batches
    /\ disk \subseteq Events
    /\ reply \in {"none", "ok", "unavailable", "rejected"}
    /\ late \subseteq Batches
    /\ rows \in Seq(Events)
    /\ faults \in 0..MaxFaults
    /\ \A set \in {delivered, dropped, unsaved, stranded} : set \subseteq Events

(* newAuditForwarder on an empty store, then run.                            *)
Init ==
    /\ made = 0 /\ old = 0
    /\ queue = <<>> /\ batch = <<>> /\ inflightSize = 0
    /\ wake = FALSE
    /\ pc = "next"
    /\ disk = {}
    /\ reply = "none" /\ late = {}
    /\ rows = <<>>
    /\ faults = 0
    /\ delivered = {} /\ dropped = {} /\ unsaved = {} /\ stranded = {}

-----------------------------------------------------------------------------
(* A fault is one of the failures a behaviour has MaxFaults of.              *)
Fault == faults < MaxFaults /\ faults' = faults + 1

(* A statement on the endpoint's store that may fail; callers only log it.   *)
Stored(newDisk) ==
    \/ disk' = newDisk /\ UNCHANGED faults
    \/ newDisk # disk /\ Fault /\ UNCHANGED disk

Sorted(set) ==
    CHOOSE s \in Bijection(1..Cardinality(set), set) :
        \A i, j \in DOMAIN s : i < j => s[i] < s[j]
Expired(e) == Retention /\ e <= old
Fresh(s) == SelectSeq(s, LAMBDA e : ~Expired(e))
Oldest(s, n) == Range(SubSeq(s, 1, n))

-----------------------------------------------------------------------------
(* recordLogin, recordClipboard: enqueue persists the event, makes room by   *)
(* dropping the oldest queued one, appends, and wakes the goroutine.         *)

(* How many queued events enqueue drops before it appends.                   *)
Room == IF Len(queue) + inflightSize >= QueueLimit /\ queue # <<>> THEN 1 ELSE 0

(* Mutant: a wake channel without a slot reaches a waiting receiver only.    *)
SignalUnbuffered == wake' = (pc = "wait")

Signal == wake' = TRUE

Enqueue ==
    /\ pc # "down"
    /\ made < MaxEvents
    /\ made' = made + 1
    /\ \/ disk' = (disk \cup {made'}) \ Oldest(queue, Room) /\ UNCHANGED <<faults, unsaved>>
       \/ /\ Fault
          /\ \/ Room > 0 /\ disk' = disk \cup {made'} /\ UNCHANGED unsaved
             \/ disk' = disk \ Oldest(queue, Room) /\ unsaved' = unsaved \cup {made'}
    /\ queue' = Append(SubSeq(queue, Room + 1, Len(queue)), made')
    /\ dropped' = dropped \cup Oldest(queue, Room)
    /\ Signal
    /\ UNCHANGED <<old, inflightSize, pc, batch, relayVars, stranded>>

-----------------------------------------------------------------------------
(* The goroutine auditForwarder.run.                                         *)

(* The length of a batch; 6 MiB of body may cut it short.                    *)
BatchSizes(kept) == {n \in 1..BatchLimit : n <= Len(kept)}

(* nextBatch: expired events leave the queue; the rest gives a batch from    *)
(* the front.                                                                *)
NextBatch ==
    /\ pc = "next"
    /\ LET kept == Fresh(queue)
           expired == Range(queue) \ Range(kept)
       IN  /\ dropped' = dropped \cup expired
           /\ Stored(disk \ expired)
           /\ \/ /\ kept = <<>>
                 /\ queue' = <<>>
                 /\ pc' = "empty"
                 /\ UNCHANGED <<batch, inflightSize>>
              \/ \E n \in BatchSizes(kept) :
                    /\ batch' = SubSeq(kept, 1, n)
                    /\ queue' = SubSeq(kept, n + 1, Len(kept))
                    /\ inflightSize' = n
                    /\ pc' = "post"
    /\ UNCHANGED <<made, old, wake, relayVars, unsaved, stranded>>

(* run reaches its select after nextBatch has released f.mu.                 *)
Sleep ==
    /\ pc = "empty"
    /\ pc' = "wait"
    /\ UNCHANGED <<made, old, queue, inflightSize, wake, batch, disk, relayVars, faults,
                   historyVars>>

Wake ==
    /\ pc = "wait" /\ wake
    /\ wake' = FALSE
    /\ pc' = "next"
    /\ UNCHANGED <<made, old, queue, inflightSize, batch, disk, relayVars, faults, historyVars>>

(* Mutant: the batch returns behind the events that came meanwhile.          *)
RetryBatchBehind ==
    /\ queue' = queue \o batch
    /\ inflightSize' = inflightSize - Len(batch)
    /\ batch' = <<>>
    /\ reply' = "none"
    /\ pc' = "backoff"

(* retryBatch: the batch returns to the front.                               *)
RetryBatch ==
    /\ queue' = batch \o queue
    /\ inflightSize' = inflightSize - Len(batch)
    /\ batch' = <<>>
    /\ reply' = "none"
    /\ pc' = "backoff"

(* The relay answered something that is neither success nor permanent.       *)
PostUnavailable ==
    /\ pc = "post" /\ reply = "unavailable"
    /\ RetryBatch
    /\ UNCHANGED <<made, old, wake, disk, late, rows, delivered, faults, historyVars>>

(* client.Do fails: no connection, the 10 s timeout, or the answer is lost.  *)
(* A request that was sent may still reach the relay.                        *)
PostFails ==
    /\ pc = "post"
    /\ Fault
    /\ \/ UNCHANGED late
       \/ reply = "none" /\ late' = late \cup {batch}
    /\ RetryBatch
    /\ UNCHANGED <<made, old, wake, disk, rows, delivered, historyVars>>

BackoffEnds ==
    /\ pc = "backoff"
    /\ pc' = "next"
    /\ UNCHANGED <<made, old, queue, inflightSize, wake, batch, disk, relayVars, faults,
                   historyVars>>

(* Mutant: any answer counts as success.                                     *)
CompleteBatchAnyStatus ==
    /\ pc = "post" /\ reply # "none"
    /\ inflightSize' = inflightSize - Len(batch)
    /\ reply' = "none"
    /\ pc' = "acked"
    /\ UNCHANGED <<made, old, queue, wake, batch, disk, late, rows, delivered, faults,
                   historyVars>>

(* completeBatch, the section under f.mu; a permanent rejection is counted.  *)
CompleteBatch ==
    /\ pc = "post" /\ reply \in {"ok", "rejected"}
    /\ inflightSize' = inflightSize - Len(batch)
    /\ dropped' = IF reply = "rejected" THEN dropped \cup Range(batch) ELSE dropped
    /\ reply' = "none"
    /\ pc' = "acked"
    /\ UNCHANGED <<made, old, queue, wake, batch, disk, late, rows, delivered, faults, unsaved,
                   stranded>>

(* completeBatch, after the unlock: the rows of the batch are deleted.       *)
DeleteAcked ==
    /\ pc = "acked"
    /\ Stored(disk \ Range(batch))
    /\ batch' = <<>>
    /\ pc' = "next"
    /\ UNCHANGED <<made, old, queue, inflightSize, wake, relayVars, historyVars>>

-----------------------------------------------------------------------------
(* The relay's POST /api/relay/audit.                                        *)

(* insertForwardedAudit: one transaction, ON CONFLICT(event_id) DO NOTHING.  *)
InsertForwarded(events) ==
    /\ rows' = rows \o SelectSeq(events, LAMBDA e : e \notin Range(rows))
    /\ delivered' = delivered \cup Range(events)

RelayAccepts ==
    /\ pc = "post" /\ reply = "none"
    /\ InsertForwarded(batch)
    /\ reply' = "ok"
    /\ UNCHANGED <<made, old, forwarderVars, disk, late, faults, historyVars>>

(* Unknown machine, bad token or store failure: 404, 401, 503.  A request    *)
(* it does not understand or that is too large: 400, 413.                    *)
RelayRefuses ==
    /\ pc = "post" /\ reply = "none"
    /\ Fault
    /\ reply' \in {"unavailable", "rejected"}
    /\ UNCHANGED <<made, old, forwarderVars, disk, late, rows, delivered, historyVars>>

LateArrives ==
    /\ \E events \in late :
          /\ late' = late \ {events}
          /\ InsertForwarded(events)
    /\ UNCHANGED <<made, old, forwarderVars, disk, reply, faults, historyVars>>

-----------------------------------------------------------------------------
(* The endpoint stops at any point and is started again.                     *)
Crash ==
    /\ pc # "down"
    /\ Fault
    /\ pc' = "down"
    /\ queue' = <<>> /\ batch' = <<>> /\ inflightSize' = 0
    /\ wake' = FALSE
    /\ reply' = "none"
    /\ \/ UNCHANGED late
       \/ pc = "post" /\ reply = "none" /\ late' = late \cup {batch}
    /\ UNCHANGED <<made, old, disk, rows, delivered, historyVars>>

(* newAuditForwarder and loadAuditForwardQueue: rows past the window and the *)
(* oldest in excess of the limit are dropped.                                *)
Restart ==
    /\ pc = "down"
    /\ LET entries == Fresh(Sorted(disk))
           excess == IF Len(entries) > QueueLimit THEN Len(entries) - QueueLimit ELSE 0
           kept == SubSeq(entries, excess + 1, Len(entries))
       IN  /\ queue' = kept
           /\ dropped' = dropped \cup (disk \ Range(kept))
           /\ Stored(Range(kept))
    /\ pc' = "next"
    /\ UNCHANGED <<made, old, inflightSize, wake, batch, relayVars, unsaved, stranded>>

(* The queue cannot be read: it is logged and the forwarder starts empty.    *)
RestartUnread ==
    /\ pc = "down"
    /\ Fault
    /\ stranded' = stranded \cup disk
    /\ pc' = "next"
    /\ UNCHANGED <<made, old, queue, inflightSize, wake, batch, disk, relayVars, dropped, unsaved>>

-----------------------------------------------------------------------------
(* Time: an event passes the retention window; the hourly purge of either    *)
(* store (store.go purge) deletes what has.                                  *)
Age ==
    /\ Retention
    /\ old < made
    /\ old' = old + 1
    /\ UNCHANGED <<made, forwarderVars, disk, relayVars, faults, historyVars>>

PurgeQueue ==
    /\ pc # "down"
    /\ \E e \in disk : Expired(e)
    /\ disk' = {e \in disk : ~Expired(e)}
    /\ UNCHANGED <<made, old, forwarderVars, relayVars, faults, historyVars>>

PurgeRows ==
    /\ rows' = Fresh(rows)
    /\ rows' # rows
    /\ UNCHANGED <<made, old, forwarderVars, disk, reply, late, delivered, faults, historyVars>>

-----------------------------------------------------------------------------
ForwarderStep ==
    NextBatch \/ Sleep \/ Wake \/ PostUnavailable \/ BackoffEnds \/ CompleteBatch \/ DeleteAcked

Next ==
    \/ Enqueue \/ ForwarderStep \/ PostFails
    \/ RelayAccepts \/ RelayRefuses \/ LateArrives
    \/ Crash \/ Restart \/ RestartUnread
    \/ Age \/ PurgeQueue \/ PurgeRows

Spec == Init /\ [][Next]_vars

(* The goroutine is scheduled, the relay answers, systemd restarts the       *)
(* endpoint (flux-direct.service, Restart=on-failure).                       *)
FairSpec ==
    /\ Spec
    /\ WF_vars(ForwarderStep)
    /\ WF_vars(RelayAccepts)
    /\ WF_vars(Restart)

-----------------------------------------------------------------------------
(* The memory the queue takes is bounded: with the batch that is out it      *)
(* never holds more than auditForwardQueueLimit events, whatever mixture of  *)
(* overflow, retry and restart led there, and inflightSize is exactly the    *)
(* batch that nobody has completed.                                          *)
QueueBounded ==
    /\ Len(queue) + inflightSize <= QueueLimit
    /\ inflightSize = IF pc = "post" THEN Len(batch) ELSE 0

(* A recorded event whose row was written and whose time is not over is at   *)
(* the relay, was counted as dropped, or is on disk for the next start:      *)
(* no crash, failed delete, lost answer or overflow loses it silently.       *)
NothingLost ==
    \A e \in (old + 1)..made : e \in delivered \cup dropped \cup disk \cup unsaved

(* No event is lost without being counted, in bounded memory. *)
AuditSafe == TypeOK /\ QueueBounded /\ NothingLost

(* Once the faults are over every event recorded gets to the relay, unless   *)
(* it was given up: retries do not starve newer events, and the wake channel *)
(* loses no wake-up.                                                         *)
EventuallySettled ==
    []<>(1..made \subseteq delivered \cup dropped \cup unsaved \cup stranded \cup (1..old))

=============================================================================
