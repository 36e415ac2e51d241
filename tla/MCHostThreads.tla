--------------------------- MODULE MCHostThreads ---------------------------
(* Two things about a host that share no state, in one instance: the       *)
(* logins of HostSession on several worker threads, with signals, and the  *)
(* bitrates of RateControl.  A behaviour is about one of them.             *)
EXTENDS MCHostSession, RateControl

VARIABLE part    \* "threads" or "rates"

ThreadsInit == part \in {"threads", "rates"} /\ Init /\ RateInit

Threads(A) == part = "threads" /\ A /\ UNCHANGED <<part, rateVars>>
Rates(A) == part = "rates" /\ A /\ UNCHANGED <<part, vars>>

ThreadsNext == Threads(Next) \/ Rates(RateNext)

ThreadsSpec ==
  /\ ThreadsInit
  /\ [][ThreadsNext]_<<part, vars, rateVars>>
  /\ RateFairness

=============================================================================
