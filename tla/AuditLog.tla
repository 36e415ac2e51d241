------------------------------ MODULE AuditLog ------------------------------
(***************************************************************************)
(* What forwarding promises the reader of the relay's audit log: every     *)
(* recorded event appears in it at most once, and in the order of          *)
(* recording with holes only where an event was given up.                  *)
(***************************************************************************)
EXTENDS Integers, Sequences, SequencesExt

VARIABLES made,  \* events recorded so far are 1..made
          lost,  \* the ones given up: a hole in the log is one of these
          log,   \* the relay's rows, in the order of insertion
          seen   \* every event that ever was in log

logVars == <<made, lost, log, seen>>

Increasing(s) == \A i, j \in 1..Len(s) : i < j => s[i] < s[j]

Init ==
    /\ made = 0
    /\ lost = {}
    /\ log = <<>>
    /\ seen = {}

Record ==
    /\ made' = made + 1
    /\ lost \subseteq lost' /\ lost' \subseteq 1..made'
    /\ UNCHANGED <<log, seen>>

GiveUp ==
    /\ lost \subseteq lost' /\ lost' \subseteq 1..made
    /\ UNCHANGED <<made, log, seen>>

(* A batch of events that are not in the log, after which nothing recorded   *)
(* before a logged event is missing.                                         *)
Deliver ==
    /\ log' = log \o SubSeq(log', Len(log) + 1, Len(log'))
    /\ LET batch == SubSeq(log', Len(log) + 1, Len(log'))
       IN  /\ Increasing(batch)
           /\ ToSet(batch) \subseteq 1..made
           /\ ToSet(batch) \cap ToSet(log) = {}
           /\ seen' = seen \cup ToSet(batch)
           /\ \A f \in seen' : 1..f \subseteq seen' \cup lost
    /\ UNCHANGED <<made, lost>>

(* The retention window passes over old rows.                                *)
Forget ==
    /\ \E old \in 0..made : log' = SelectSeq(log, LAMBDA e : e > old)
    /\ UNCHANGED <<made, lost, seen>>

Next == Record \/ GiveUp \/ Deliver \/ Forget

Spec == Init /\ [][Next]_logVars

=============================================================================
