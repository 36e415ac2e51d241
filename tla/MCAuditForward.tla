-------------------------- MODULE MCAuditForward --------------------------
(* What a direct endpoint has beside the sessions it serves, in parts that *)
(* share no state: the audit it forwards, the certificate it rotates, the  *)
(* tickets it verifies, and the browser that chooses between it and the    *)
(* relay.  A behaviour is about one of them; the tickets' is about two     *)
(* requests and tickets with a pinned key or about one with changing keys. *)
EXTENDS AuditForward, CertRotation, DirectTickets, ViewerConnect

VARIABLE
  part           \* "audit", "certificate", "nonces", "keys" or "viewer"

directVars == <<part, vars, certVars, ticketVars, viewerVars>>

DirectInit ==
  /\ part \in {"audit", "certificate", "nonces", "keys", "viewer"}
  /\ Init /\ CertInit /\ TicketInit /\ ViewerInit
  /\ pinned <=> part # "keys"
  /\ part # "viewer" => ~directFailed

Auditing(A) == part = "audit" /\ A /\ UNCHANGED <<part, certVars, ticketVars, viewerVars>>
Rotates(A) == part = "certificate" /\ A /\ UNCHANGED <<part, vars, ticketVars, viewerVars>>
Ticketing(A) ==
  /\ part \in {"nonces", "keys"} /\ A
  /\ part = "keys" => issued'[2] = Unsigned /\ verifying'[2] = Idle
  /\ UNCHANGED <<part, vars, certVars, viewerVars>>
Viewing(A) == part = "viewer" /\ A /\ UNCHANGED <<part, vars, certVars, ticketVars>>

DirectNext ==
  \/ Auditing(Next) \/ Rotates(CertNext) \/ Ticketing(TicketNext) \/ Viewing(ViewerNext)

(* FairSpec of AuditForward; the endpoint starts, its ticker goes on and     *)
(* its goroutines run; a browser's awaited promises settle, connectFirst     *)
(* having its timeouts, and its timer fires.                                 *)
DirectSpec ==
  /\ DirectInit /\ [][DirectNext]_directVars
  /\ WF_directVars(Auditing(ForwarderStep))
  /\ WF_directVars(Auditing(RelayAccepts))
  /\ WF_directVars(Auditing(Restart))
  /\ WF_directVars(Ticketing(Load))
  /\ WF_directVars(Ticketing(PeriodicRefresh \/ Refresh))
  /\ \A g \in Calls : WF_directVars(Viewing(CallStep(g)))
  /\ WF_directVars(Viewing(TimerConnects))

(* The relay's log has every event at most once, and has holes only where    *)
(* the endpoint gave an event up.                                            *)
Log == INSTANCE AuditLog WITH
    lost <- dropped \cup unsaved \cup stranded \cup (1..old), log <- rows, seen <- delivered

(* The forwarder and the receiving route together implement the abstract   *)
(* log: each recorded event is delivered once and in order, or is given    *)
(* up.                                                                     *)
LogSpec == Log!Spec
=============================================================================
