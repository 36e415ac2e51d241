--------------------------- MODULE CertRotation ---------------------------
(* The self-signed certificate of a direct endpoint (certificate.go) and   *)
(* the way its hash takes to the browser that pins it: the endpoint's      *)
(* status file (direct_mode.go), hostd's heartbeat (registration.rs), the  *)
(* relay's record and the answer to discovery.  A certificate is a serial  *)
(* number with the time it was made; a hash is the serial.  Timers fire    *)
(* within their unit of time and a heartbeat takes at most HeartbeatDelay. *)
EXTENDS Integers

CONSTANTS
  Lifetime,        \* selfSignedCertificateLifetime
  Rotation,        \* selfSignedCertificateRotation
  Overlap,         \* selfSignedCertificateOverlap
  HeartbeatDelay,  \* longest time a heartbeat is on its way
  RecordExpiry,    \* machineExpiry
  TicketLife,      \* wtTicketTTL and ticketClockSkew
  MaxClock,        \* bound on the time
  MaxCertFaults    \* crashes and failed rotations and writes

ASSUME CertAssumption ==
  /\ {Lifetime, Rotation, HeartbeatDelay, RecordExpiry, TicketLife, MaxClock, MaxCertFaults}
        \subseteq Nat
  /\ Overlap \in 1..(Rotation - 1)
  /\ Overlap > HeartbeatDelay + RecordExpiry + TicketLife
  /\ Lifetime >= 2 * Rotation + MaxCertFaults

VARIABLES
  clock,
  manager,       \* relayCertificateManager: active and next, nextRotation
  rotation,      \* where runRotation is, and when it tries again
  statusFile,    \* the hashes in the direct status file
  missed,        \* a write of the file failed in this run of the endpoint
  beat,          \* hostd's heartbeat on its way, or NoBeat
  record,        \* the relay's record of the machine
  page,          \* what discovery gave a browser, or NoPage
  certFaults

certVars == <<clock, manager, rotation, statusFile, missed, beat, record, page, certFaults>>

NoBeat == [hashes |-> {}, sent |-> -1]
NoPage == [hashes |-> {}, until |-> -1]
Serials == Nat \ {0}
Times == 0..(MaxClock + Rotation)

CertFault == certFaults < MaxCertFaults /\ certFaults' = certFaults + 1
Running == rotation.pc # "down"

(* generateRelayCertificate and newRelayCertificateManager: both            *)
(* certificates are made when the process starts.                           *)
NewManager(serial) ==
  [active |-> [serial |-> serial, made |-> clock],
   next |-> [serial |-> serial + 1, made |-> clock],
   rotationAt |-> clock + Rotation,
   first |-> serial]

(* certificateHashes: the next hash is given out in the overlap only. *)
CertificateHashes ==
  {manager.active.serial}
    \cup (IF manager.rotationAt - clock <= Overlap THEN {manager.next.serial} ELSE {})

CertInit ==
  /\ clock = 0
  /\ manager = NewManager(1)
  /\ rotation = [pc |-> "overlap", retryAt |-> 0]
  /\ statusFile = {1} /\ missed = FALSE
  /\ beat = NoBeat /\ page = NoPage
  /\ record = [hashes |-> {}, seen |-> -RecordExpiry - 1]
  /\ certFaults = 0

(* writeDirectStatus, called back by onHashesChanged: a failure is logged,  *)
(* and the file keeps what it had.                                          *)
WriteDirectStatus ==
  \/ statusFile' = CertificateHashes /\ UNCHANGED <<missed, certFaults>>
  \/ CertFault /\ missed' = TRUE /\ UNCHANGED statusFile

(* Mutant: the start of the overlap is not announced. *)
OverlapUnannounced ==
  /\ rotation.pc = "overlap" /\ clock >= manager.rotationAt - Overlap
  /\ rotation' = [rotation EXCEPT !.pc = "wait"]
  /\ UNCHANGED <<clock, manager, statusFile, missed, beat, record, page, certFaults>>

(* runRotation: notifyHashesChanged when the overlap starts. *)
OverlapStarts ==
  /\ rotation.pc = "overlap" /\ clock >= manager.rotationAt - Overlap
  /\ WriteDirectStatus
  /\ rotation' = [rotation EXCEPT !.pc = "wait"]
  /\ UNCHANGED <<clock, manager, beat, record, page>>

Rotating == rotation.pc = "wait" /\ clock >= manager.rotationAt /\ clock >= rotation.retryAt

(* rotate: the next certificate becomes the active one, and the one after   *)
(* it is made.  From here on the endpoint serves the new one.               *)
Rotate ==
  /\ Rotating
  /\ manager' = [manager EXCEPT !.active = manager.next,
                                !.next = [serial |-> manager.next.serial + 1, made |-> clock],
                                !.rotationAt = clock + Rotation]
  /\ rotation' = [rotation EXCEPT !.pc = "publish"]
  /\ UNCHANGED <<clock, statusFile, missed, beat, record, page, certFaults>>

(* rotate fails, and is tried again after a minute. *)
RotateFails ==
  /\ Rotating /\ CertFault
  /\ rotation' = [rotation EXCEPT !.retryAt = clock + 1]
  /\ UNCHANGED <<clock, manager, statusFile, missed, beat, record, page>>

(* rotate, after the unlock: onHashesChanged. *)
Publish ==
  /\ rotation.pc = "publish"
  /\ WriteDirectStatus
  /\ rotation' = [rotation EXCEPT !.pc = "overlap"]
  /\ UNCHANGED <<clock, manager, beat, record, page>>

(* The endpoint dies.  Its status file stays. *)
EndpointDies ==
  /\ Running /\ CertFault
  /\ rotation' = [pc |-> "down", retryAt |-> 0]
  /\ UNCHANGED <<clock, manager, statusFile, missed, beat, record, page>>

(* runDirectMode: new certificates, and the status file before the first    *)
(* connection is accepted; the process ends if it cannot be written.        *)
EndpointStarts ==
  /\ ~Running
  /\ manager' = NewManager(manager.next.serial + 1)
  /\ rotation' = [pc |-> "overlap", retryAt |-> 0]
  /\ statusFile' = {manager'.active.serial} /\ missed' = FALSE
  /\ UNCHANGED <<clock, beat, record, page, certFaults>>

-----------------------------------------------------------------------------
(* The registration loop reads the status file for every request. *)
HeartbeatReads ==
  /\ beat = NoBeat
  /\ beat' = [hashes |-> statusFile, sent |-> clock]
  /\ UNCHANGED <<clock, manager, rotation, statusFile, missed, record, page, certFaults>>

(* The relay's record of the machine takes over what the heartbeat says. *)
HeartbeatArrives ==
  /\ beat # NoBeat
  /\ record' = [hashes |-> beat.hashes, seen |-> clock]
  /\ beat' = NoBeat
  /\ UNCHANGED <<clock, manager, rotation, statusFile, missed, page, certFaults>>

HeartbeatLost ==
  /\ beat # NoBeat /\ beat' = NoBeat
  /\ UNCHANGED <<clock, manager, rotation, statusFile, missed, record, page, certFaults>>

(* GET /api/webtransport: a machine not seen for machineExpiry has no       *)
(* direct candidates.  What is given out can be used while its ticket is    *)
(* good.                                                                    *)
Discover ==
  /\ clock - record.seen <= RecordExpiry
  /\ page' = [hashes |-> record.hashes, until |-> clock + TicketLife]
  /\ UNCHANGED <<clock, manager, rotation, statusFile, missed, beat, record, certFaults>>

(* Time passes, but not past a timer of the endpoint or a request's time. *)
Pass ==
  /\ clock < MaxClock
  /\ rotation.pc # "publish"
  /\ rotation.pc = "overlap" => clock < manager.rotationAt - Overlap
  /\ ~Rotating
  /\ beat # NoBeat => clock < beat.sent + HeartbeatDelay
  /\ clock' = clock + 1
  /\ page' = IF page.until < clock' THEN NoPage ELSE page
  /\ UNCHANGED <<manager, rotation, statusFile, missed, beat, record, certFaults>>

CertNext ==
  \/ OverlapStarts \/ Rotate \/ RotateFails \/ Publish
  \/ EndpointDies \/ EndpointStarts
  \/ HeartbeatReads \/ HeartbeatArrives \/ HeartbeatLost \/ Discover
  \/ Pass

CertSpec == CertInit /\ [][CertNext]_certVars

-----------------------------------------------------------------------------
(* Every variable has its type; the certificate served and the next one    *)
(* have successive serials.                                                *)
CertTypeOK ==
  /\ clock \in 0..MaxClock
  /\ manager \in [active : [serial : Serials, made : Times], next : [serial : Serials, made : Times],
                  rotationAt : Times, first : Serials]
  /\ manager.next.serial = manager.active.serial + 1
  /\ rotation \in [pc : {"overlap", "wait", "publish", "down"}, retryAt : Times]
  /\ statusFile \subseteq Serials /\ missed \in BOOLEAN
  /\ beat = NoBeat \/ (beat.hashes \subseteq Serials /\ beat.sent \in Times)
  /\ record.hashes \subseteq Serials /\ record.seen \in -(RecordExpiry + 1)..MaxClock
  /\ page = NoPage \/ (page.hashes \subseteq Serials /\ page.until \in Times)
  /\ certFaults \in 0..MaxCertFaults

(* A browser that connects while its ticket is good finds a certificate it  *)
(* pinned, also when the endpoint rotates between the heartbeat, discovery  *)
(* and the connection: that is what the overlap is for.  Hashes of an       *)
(* earlier run of the endpoint are of no use, and a failed write of the     *)
(* status file is not repeated.                                             *)
PinnedIsServed ==
  Running /\ ~missed /\ (\E h \in page.hashes : h >= manager.first) =>
    manager.active.serial \in page.hashes

(* The certificate served has not expired, although it was made a rotation  *)
(* before it became active and rotations may fail for a while.              *)
ServedIsValid == Running => clock <= manager.active.made + Lifetime

(* What a browser pinned is served, and is valid. *)
CertSafe == CertTypeOK /\ PinnedIsServed /\ ServedIsValid
=============================================================================
