------------------------- MODULE HostSessionProofs -------------------------
(***************************************************************************)
(* What is proved of the two ends of a session, each on its own.  Of       *)
(* flux-hostd with one worker thread, for any number of connections and    *)
(* names: one login at a time, one attachment at a time, the session its   *)
(* owner's, and idle timers that never match.  Of the browser: of several  *)
(* connect calls only the latest drives the client.                        *)
(***************************************************************************)
EXTENDS HostSession, ViewerConnect, TLAPS

(* A leaf that does not name its prover is first tried with Zenon; the leaves *)
(* that need arithmetic, or more than Zenon knows of sequences and records,    *)
(* name SMT.                                                                   *)
USE ZenonT(30), SMTT(30)

(* HostSession.                                                            *)

(* Every step keeps the types. *)
LEMMA TypeStep == ASSUME TypeOK, HandlerShape, [Next]_vars PROVE TypeOK'
<1>. USE ConstantsAssumption DEF TypeOK, MidSection, Awaiting
<1>1. ASSUME NEW c \in Conns, Accept(c) PROVE TypeOK'
  BY <1>1 DEF Accept, GoTo, manager, limiter
<1>2. ASSUME NEW c \in Conns, HangUp(c) PROVE TypeOK'
  BY <1>2 DEF HangUp, Leave, GoTo, manager, limiter
<1>3. ASSUME NEW c \in Conns, ReadInner(c) PROVE TypeOK'
  BY <1>3 DEF ReadInner, Leave, GoTo, manager, limiter
<1>4. ASSUME NEW c \in Conns, CheckInner(c) PROVE TypeOK'
  BY <1>4 DEF CheckInner, Leave, GoTo, manager, limiter
<1>5. ASSUME NEW c \in Conns, TryClaim(c) PROVE TypeOK'
  BY <1>5 DEF TryClaim, Leave, GoTo, manager, limiter
<1>6. ASSUME NEW c \in Conns, PamOpens(c) PROVE TypeOK'
  BY <1>6, SMTT(30) DEF PamOpens, Leave, GoTo, manager, limiter
<1>7. ASSUME NEW c \in Conns, PamReattaches(c) PROVE TypeOK'
  <2>1. locked' \in BOOLEAN
    BY <1>7 DEF PamReattaches
  <2>2. generation' \in Nat /\ claim' \in Users \cup {None} /\ failures' \in 0 .. MaxFailures - 1
    BY <1>7, SMTT(30) DEF PamReattaches, Leave
  <2>3. /\ pc' \in [Conns -> MidSection \cup Awaiting]
        /\ user' \in [Conns -> Users \cup {None}]
        /\ mode' \in [Conns -> {"none", "fresh", "reattach"}]
    BY <1>7 DEF PamReattaches, Leave, GoTo
  <2>. QED
    BY <1>7, <2>1, <2>2, <2>3 DEF PamReattaches
<1>8. ASSUME NEW c \in Conns, PamFails(c) PROVE TypeOK'
  <2>1. blocked' \in BOOLEAN
    BY <1>8 DEF PamFails
  <2>2. claim' \in Users \cup {None} /\ failures' \in 0 .. MaxFailures - 1
    BY <1>8, SMTT(30) DEF PamFails, Leave
  <2>3. /\ pc' \in [Conns -> MidSection \cup Awaiting]
        /\ user' \in [Conns -> Users \cup {None}]
        /\ mode' \in [Conns -> {"none", "fresh", "reattach"}]
    BY <1>8 DEF PamFails, Leave
  <2>. QED
    BY <1>8, <2>1, <2>2, <2>3 DEF PamFails
<1>9. ASSUME NEW c \in Conns, StartSession(c) PROVE TypeOK'
  BY <1>9 DEF StartSession, Leave, GoTo, manager, limiter
<1>10. ASSUME NEW c \in Conns, Open(c) PROVE TypeOK'
  <2>1. user[c] \in Users
    BY <1>10 DEF Open, HandlerShape
  <2>2. owner' \in Users \cup {None} /\ pc' \in [Conns -> MidSection \cup Awaiting]
    BY <1>10, <2>1 DEF Open, GoTo
  <2>3. locked' \in BOOLEAN
    BY <1>10 DEF Open
  <2>. QED
    BY <1>10, <2>2, <2>3 DEF Open, limiter
<1>11. ASSUME NEW c \in Conns, Announce(c) PROVE TypeOK'
  BY <1>11 DEF Announce, GoTo, manager, limiter, Status, Shown
<1>12. ASSUME NEW c \in Conns, SendOk(c) PROVE TypeOK'
  BY <1>12 DEF SendOk, Leave, GoTo, manager, limiter
<1>13. ASSUME NEW c \in Conns, ProxyEnds(c) PROVE TypeOK'
  BY <1>13 DEF ProxyEnds, GoTo, manager, limiter
<1>14. ASSUME NEW c \in Conns, Schedule(c) PROVE TypeOK'
  BY <1>14, SMTT(30) DEF Schedule, GoTo, manager, limiter, Timer, TimerMid
<1>15. ASSUME NEW c \in Conns, Lock(c) PROVE TypeOK'
  BY <1>15, SMTT(30) DEF Lock, GoTo, manager, limiter
<1>16. ASSUME NEW c \in Conns, Synced(c) PROVE TypeOK'
  BY <1>16 DEF Synced, GoTo, manager, limiter, Status, Shown
<1>17. ASSUME NEW c \in Conns, NEW u \in Users, GiveName(c, u) PROVE TypeOK'
  BY <1>17 DEF GiveName, GoTo, manager, limiter
<1>18. ASSUME NEW t \in timers, TimerWakes(t) PROVE TypeOK'
  BY <1>18 DEF TimerWakes, manager, limiter, Timer, TimerMid
<1>19. ASSUME NEW t \in timers, TimerReads(t) PROVE TypeOK'
  BY <1>19 DEF TimerReads, manager, limiter, Timer, TimerMid
<1>20. ASSUME NEW t \in timers, TimerTakes(t) PROVE TypeOK'
  <2>1. locked' \in BOOLEAN
    BY <1>20 DEF TimerTakes
  <2>2. owner' \in Users \cup {None} /\ generation' \in Nat
    BY <1>20, SMTT(30) DEF TimerTakes
  <2>3. timers' \subseteq Timer
    BY <1>20 DEF TimerTakes, Timer, TimerMid
  <2>. QED
    BY <1>20, <2>1, <2>2, <2>3 DEF TimerTakes, limiter
<1>21. ASSUME NEW t \in timers, TimerDone(t) PROVE TypeOK'
  BY <1>21 DEF TimerDone, manager, limiter, Status, Shown, Timer, TimerMid
<1>22. CASE CooldownOver
  BY <1>22 DEF CooldownOver, manager, limiter
<1>23. CASE Terminate
  <2>1. locked' \in BOOLEAN
    BY <1>23 DEF Terminate
  <2>2. owner' \in Users \cup {None} /\ generation' \in Nat /\ down' \in {"up", "stopping", "exited"}
    BY <1>23, SMTT(30) DEF Terminate
  <2>. QED
    BY <1>23, <2>1, <2>2 DEF Terminate, limiter
<1>24. CASE Exit
  BY <1>24 DEF Exit, manager, limiter, Status, Shown
<1>25. CASE UNCHANGED vars
  BY <1>25 DEF vars, Timer, TimerMid, Status, Shown
<1>. QED
  BY <1>1, <1>2, <1>3, <1>4, <1>5, <1>6, <1>7, <1>8, <1>9, <1>10, <1>11,
      <1>12, <1>13, <1>14, <1>15, <1>16, <1>17, <1>18, <1>19, <1>20, <1>21,
      <1>22, <1>23, <1>24, <1>25
      DEF Next, PamStep, SectionStep, TimerStep

(* A handler's name and mode stay in step with where it is. *)
LEMMA ShapeStep == ASSUME TypeOK, HandlerShape, [Next]_vars PROVE HandlerShape'
<1>. USE ConstantsAssumption DEF TypeOK, HandlerShape
<1>1. ASSUME NEW c \in Conns, Accept(c) PROVE HandlerShape'
  BY <1>1 DEF Accept, GoTo, manager, limiter
<1>2. ASSUME NEW c \in Conns, HangUp(c) PROVE HandlerShape'
  BY <1>2 DEF HangUp, Leave, GoTo, manager, limiter
<1>3. ASSUME NEW c \in Conns, ReadInner(c) PROVE HandlerShape'
  BY <1>3, SMTT(30) DEF ReadInner, Leave, GoTo, manager, limiter
<1>4. ASSUME NEW c \in Conns, CheckInner(c) PROVE HandlerShape'
  BY <1>4, SMTT(30) DEF CheckInner, Leave, GoTo, manager, limiter
<1>5. ASSUME NEW c \in Conns, TryClaim(c) PROVE HandlerShape'
  BY <1>5, SMTT(30) DEF TryClaim, Leave, GoTo, manager, limiter
<1>6. ASSUME NEW c \in Conns, PamOpens(c) PROVE HandlerShape'
  BY <1>6 DEF PamOpens, Leave, GoTo, manager, limiter
<1>7. ASSUME NEW c \in Conns, PamReattaches(c) PROVE HandlerShape'
  BY <1>7 DEF PamReattaches, Leave, GoTo, manager, limiter
<1>8. ASSUME NEW c \in Conns, PamFails(c) PROVE HandlerShape'
  BY <1>8, SMTT(30) DEF PamFails, Leave, GoTo, manager, limiter
<1>9. ASSUME NEW c \in Conns, StartSession(c) PROVE HandlerShape'
  BY <1>9 DEF StartSession, Leave, GoTo, manager, limiter
<1>10. ASSUME NEW c \in Conns, Open(c) PROVE HandlerShape'
  BY <1>10 DEF Open, GoTo, manager, limiter
<1>11. ASSUME NEW c \in Conns, Announce(c) PROVE HandlerShape'
  BY <1>11 DEF Announce, GoTo, manager, limiter
<1>12. ASSUME NEW c \in Conns, SendOk(c) PROVE HandlerShape'
  BY <1>12, SMTT(30) DEF SendOk, Leave, GoTo, manager, limiter
<1>13. ASSUME NEW c \in Conns, ProxyEnds(c) PROVE HandlerShape'
  BY <1>13 DEF ProxyEnds, GoTo, manager, limiter
<1>14. ASSUME NEW c \in Conns, Schedule(c) PROVE HandlerShape'
  BY <1>14 DEF Schedule, GoTo, manager, limiter
<1>15. ASSUME NEW c \in Conns, Lock(c) PROVE HandlerShape'
  BY <1>15 DEF Lock, GoTo, manager, limiter
<1>16. ASSUME NEW c \in Conns, Synced(c) PROVE HandlerShape'
  BY <1>16 DEF Synced, GoTo, manager, limiter
<1>17. ASSUME NEW c \in Conns, NEW u \in Users, GiveName(c, u) PROVE HandlerShape'
  BY <1>17 DEF GiveName, GoTo, manager, limiter
<1>18. ASSUME NEW t \in timers, TimerWakes(t) PROVE HandlerShape'
  BY <1>18 DEF TimerWakes, manager, limiter
<1>19. ASSUME NEW t \in timers, TimerReads(t) PROVE HandlerShape'
  BY <1>19 DEF TimerReads, manager, limiter
<1>20. ASSUME NEW t \in timers, TimerTakes(t) PROVE HandlerShape'
  BY <1>20 DEF TimerTakes, manager, limiter
<1>21. ASSUME NEW t \in timers, TimerDone(t) PROVE HandlerShape'
  BY <1>21 DEF TimerDone, manager, limiter
<1>22. CASE CooldownOver
  BY <1>22 DEF CooldownOver, manager, limiter
<1>23. CASE Terminate
  BY <1>23 DEF Terminate, manager, limiter
<1>24. CASE Exit
  BY <1>24 DEF Exit, manager, limiter
<1>25. CASE UNCHANGED vars
  BY <1>25 DEF vars
<1>. QED
  BY <1>1, <1>2, <1>3, <1>4, <1>5, <1>6, <1>7, <1>8, <1>9, <1>10, <1>11,
      <1>12, <1>13, <1>14, <1>15, <1>16, <1>17, <1>18, <1>19, <1>20, <1>21,
      <1>22, <1>23, <1>24, <1>25
      DEF Next, PamStep, SectionStep, TimerStep

(* Code between two awaits still runs alone. *)
LEMMA AloneStep ==
    ASSUME SingleThread, down = "up", down' = "up", TypeOK, HandlerShape, RunsAlone, FreshReads, OneHolder, SessionShape, NoLogout,
           AttachedSessionIsOpen, ClaimExcludesSession, LoginKeepsClaim, TimersAreStale,
           [Next]_vars
    PROVE  RunsAlone'
<1>. USE ConstantsAssumption DEF RunsAlone
<1>1. ASSUME NEW c \in Conns, Accept(c) PROVE RunsAlone'
  BY <1>1 DEF Accept, GoTo, manager, limiter, TypeOK, ConnRuns, TimerRuns,
      MidSection, TimerMid, NoLogout
<1>2. ASSUME NEW c \in Conns, HangUp(c) PROVE RunsAlone'
  BY <1>2 DEF HangUp, Leave, GoTo, manager, limiter, TypeOK, ConnRuns,
      TimerRuns, MidSection, TimerMid, NoLogout
<1>3. ASSUME NEW c \in Conns, ReadInner(c) PROVE RunsAlone'
  BY <1>3, SMTT(30) DEF ReadInner, Leave, GoTo, manager, limiter, TypeOK, ConnRuns,
      TimerRuns, MidSection, TimerMid, NoLogout
<1>4. ASSUME NEW c \in Conns, CheckInner(c) PROVE RunsAlone'
  BY <1>4, SMTT(30) DEF CheckInner, Leave, GoTo, manager, limiter, TypeOK, ConnRuns,
      TimerRuns, MidSection, TimerMid, NoLogout
<1>5. ASSUME NEW c \in Conns, TryClaim(c) PROVE RunsAlone'
  BY <1>5, SMTT(30) DEF TryClaim, Leave, GoTo, manager, limiter, TypeOK, ConnRuns,
      TimerRuns, MidSection, TimerMid, NoLogout
<1>6. ASSUME NEW c \in Conns, PamOpens(c) PROVE RunsAlone'
  BY <1>6, SMTT(30) DEF PamOpens, Leave, GoTo, manager, limiter, TypeOK, ConnRuns,
      TimerRuns, MidSection, TimerMid, NoLogout
<1>7. ASSUME NEW c \in Conns, PamReattaches(c) PROVE RunsAlone'
  BY <1>7, SMTT(30) DEF PamReattaches, Leave, GoTo, manager, limiter, TypeOK, ConnRuns,
      TimerRuns, MidSection, TimerMid, NoLogout
<1>8. ASSUME NEW c \in Conns, PamFails(c) PROVE RunsAlone'
  BY <1>8, SMTT(30) DEF PamFails, Leave, GoTo, manager, limiter, TypeOK, ConnRuns,
      TimerRuns, MidSection, TimerMid, NoLogout
<1>9. ASSUME NEW c \in Conns, StartSession(c) PROVE RunsAlone'
  BY <1>9, SMTT(30) DEF StartSession, Leave, GoTo, manager, limiter, TypeOK, ConnRuns,
      TimerRuns, MidSection, TimerMid, NoLogout
<1>10. ASSUME NEW c \in Conns, Open(c) PROVE RunsAlone'
  BY <1>10, SMTT(30) DEF Open, GoTo, manager, limiter, TypeOK, ConnRuns, TimerRuns,
      MidSection, TimerMid, NoLogout
<1>11. ASSUME NEW c \in Conns, Announce(c) PROVE RunsAlone'
  BY <1>11 DEF Announce, GoTo, manager, limiter, TypeOK, ConnRuns, TimerRuns,
      MidSection, TimerMid, NoLogout
<1>12. ASSUME NEW c \in Conns, SendOk(c) PROVE RunsAlone'
  BY <1>12, SMTT(30) DEF SendOk, Leave, GoTo, manager, limiter, TypeOK, ConnRuns,
      TimerRuns, MidSection, TimerMid, NoLogout
<1>13. ASSUME NEW c \in Conns, ProxyEnds(c) PROVE RunsAlone'
  BY <1>13, SMTT(30) DEF ProxyEnds, GoTo, manager, limiter, TypeOK, ConnRuns, TimerRuns,
      MidSection, TimerMid, NoLogout
<1>14. ASSUME NEW c \in Conns, Schedule(c) PROVE RunsAlone'
  BY <1>14, SMTT(30) DEF Schedule, GoTo, manager, limiter, TypeOK, ConnRuns, TimerRuns,
      MidSection, TimerMid, NoLogout
<1>15. ASSUME NEW c \in Conns, Lock(c) PROVE RunsAlone'
  BY <1>15, SMTT(30) DEF Lock, GoTo, manager, limiter, TypeOK, ConnRuns, TimerRuns,
      MidSection, TimerMid, NoLogout
<1>16. ASSUME NEW c \in Conns, Synced(c) PROVE RunsAlone'
  BY <1>16 DEF Synced, GoTo, manager, limiter, TypeOK, ConnRuns, TimerRuns,
      MidSection, TimerMid, NoLogout
<1>17. ASSUME NEW c \in Conns, NEW u \in Users, GiveName(c, u) PROVE RunsAlone'
  BY <1>17, SMTT(30) DEF GiveName, GoTo, manager, limiter, TypeOK, ConnRuns, TimerRuns,
      MidSection, TimerMid, NoLogout
<1>18. ASSUME NEW t \in timers, TimerWakes(t) PROVE RunsAlone'
  BY <1>18 DEF TimerWakes, manager, limiter, TypeOK, ConnRuns, TimerRuns,
      MidSection, TimerMid, NoLogout
<1>19. ASSUME NEW t \in timers, TimerReads(t) PROVE RunsAlone'
  BY <1>19 DEF TimerReads, manager, limiter, TypeOK, ConnRuns, TimerRuns,
      MidSection, TimerMid, NoLogout
<1>20. ASSUME NEW t \in timers, TimerTakes(t) PROVE RunsAlone'
  BY <1>20 DEF TimerTakes, manager, limiter, TypeOK, ConnRuns, TimerRuns,
      MidSection, TimerMid, NoLogout
<1>21. ASSUME NEW t \in timers, TimerDone(t) PROVE RunsAlone'
  BY <1>21 DEF TimerDone, manager, limiter, TypeOK, ConnRuns, TimerRuns,
      MidSection, TimerMid, NoLogout
<1>22. CASE CooldownOver
  BY <1>22 DEF CooldownOver, manager, limiter, TypeOK, ConnRuns, TimerRuns,
      MidSection, TimerMid, NoLogout
<1>23. CASE Terminate
  BY <1>23 DEF Terminate
<1>24. CASE Exit
  BY <1>24 DEF Exit
<1>25. CASE UNCHANGED vars
  BY <1>25 DEF vars, TypeOK, ConnRuns, TimerRuns, MidSection, TimerMid,
      NoLogout
<1>. QED
  BY <1>1, <1>2, <1>3, <1>4, <1>5, <1>6, <1>7, <1>8, <1>9, <1>10, <1>11,
      <1>12, <1>13, <1>14, <1>15, <1>16, <1>17, <1>18, <1>19, <1>20, <1>21,
      <1>22, <1>23, <1>24, <1>25
      DEF Next, PamStep, SectionStep, TimerStep

(* No idle timer gets as far as the logout. *)
LEMMA NoLogoutStep ==
    ASSUME SingleThread, down = "up", down' = "up", TypeOK, HandlerShape, RunsAlone, FreshReads, OneHolder, SessionShape, NoLogout,
           AttachedSessionIsOpen, ClaimExcludesSession, LoginKeepsClaim, TimersAreStale,
           [Next]_vars
    PROVE  NoLogout'
<1>. USE ConstantsAssumption DEF NoLogout
<1>1. ASSUME NEW c \in Conns, Accept(c) PROVE NoLogout'
  BY <1>1 DEF Accept, GoTo, manager, limiter, TypeOK, Timer, TimersAreStale,
      Shown, ConnRuns, TimerMid
<1>2. ASSUME NEW c \in Conns, HangUp(c) PROVE NoLogout'
  BY <1>2 DEF HangUp, Leave, GoTo, manager, limiter, TypeOK, Timer,
      TimersAreStale, Shown, ConnRuns, TimerMid
<1>3. ASSUME NEW c \in Conns, ReadInner(c) PROVE NoLogout'
  BY <1>3 DEF ReadInner, Leave, GoTo, manager, limiter, TypeOK, Timer,
      TimersAreStale, Shown, ConnRuns, TimerMid
<1>4. ASSUME NEW c \in Conns, CheckInner(c) PROVE NoLogout'
  BY <1>4 DEF CheckInner, Leave, GoTo, manager, limiter, TypeOK, Timer,
      TimersAreStale, Shown, ConnRuns, TimerMid
<1>5. ASSUME NEW c \in Conns, TryClaim(c) PROVE NoLogout'
  BY <1>5 DEF TryClaim, Leave, GoTo, manager, limiter, TypeOK, Timer,
      TimersAreStale, Shown, ConnRuns, TimerMid
<1>6. ASSUME NEW c \in Conns, PamOpens(c) PROVE NoLogout'
  BY <1>6 DEF PamOpens, Leave, GoTo, manager, limiter, TypeOK, Timer,
      TimersAreStale, Shown, ConnRuns, TimerMid
<1>7. ASSUME NEW c \in Conns, PamReattaches(c) PROVE NoLogout'
  BY <1>7 DEF PamReattaches, Leave, GoTo, manager, limiter, TypeOK, Timer,
      TimersAreStale, Shown, ConnRuns, TimerMid
<1>8. ASSUME NEW c \in Conns, PamFails(c) PROVE NoLogout'
  BY <1>8 DEF PamFails, Leave, GoTo, manager, limiter, TypeOK, Timer,
      TimersAreStale, Shown, ConnRuns, TimerMid
<1>9. ASSUME NEW c \in Conns, StartSession(c) PROVE NoLogout'
  BY <1>9 DEF StartSession, Leave, GoTo, manager, limiter, TypeOK, Timer,
      TimersAreStale, Shown, ConnRuns, TimerMid
<1>10. ASSUME NEW c \in Conns, Open(c) PROVE NoLogout'
  BY <1>10 DEF Open, GoTo, manager, limiter, TypeOK, Timer, TimersAreStale,
      Shown, ConnRuns, TimerMid
<1>11. ASSUME NEW c \in Conns, Announce(c) PROVE NoLogout'
  BY <1>11 DEF Announce, GoTo, manager, limiter, TypeOK, Timer,
      TimersAreStale, Shown, ConnRuns, TimerMid
<1>12. ASSUME NEW c \in Conns, SendOk(c) PROVE NoLogout'
  BY <1>12 DEF SendOk, Leave, GoTo, manager, limiter, TypeOK, Timer,
      TimersAreStale, Shown, ConnRuns, TimerMid
<1>13. ASSUME NEW c \in Conns, ProxyEnds(c) PROVE NoLogout'
  BY <1>13 DEF ProxyEnds, GoTo, manager, limiter, TypeOK, Timer,
      TimersAreStale, Shown, ConnRuns, TimerMid
<1>14. ASSUME NEW c \in Conns, Schedule(c) PROVE NoLogout'
  BY <1>14, SMTT(30) DEF Schedule, GoTo, manager, limiter, TypeOK, Timer,
      TimersAreStale, Shown, ConnRuns, TimerMid
<1>15. ASSUME NEW c \in Conns, Lock(c) PROVE NoLogout'
  BY <1>15 DEF Lock, GoTo, manager, limiter, TypeOK, Timer, TimersAreStale,
      Shown, ConnRuns, TimerMid
<1>16. ASSUME NEW c \in Conns, Synced(c) PROVE NoLogout'
  BY <1>16 DEF Synced, GoTo, manager, limiter, TypeOK, Timer, TimersAreStale,
      Shown, ConnRuns, TimerMid
<1>17. ASSUME NEW c \in Conns, NEW u \in Users, GiveName(c, u) PROVE NoLogout'
  BY <1>17 DEF GiveName, GoTo, manager, limiter, TypeOK, Timer,
      TimersAreStale, Shown, ConnRuns, TimerMid
<1>18. ASSUME NEW t \in timers, TimerWakes(t) PROVE NoLogout'
  BY <1>18 DEF TimerWakes, manager, limiter, TypeOK, Timer, TimersAreStale,
      Shown, ConnRuns, TimerMid
<1>19. ASSUME NEW t \in timers, TimerReads(t) PROVE NoLogout'
  BY <1>19, SMTT(30) DEF TimerReads, manager, limiter, TypeOK, Timer, TimersAreStale,
      Shown, ConnRuns, TimerMid
<1>20. ASSUME NEW t \in timers, TimerTakes(t) PROVE NoLogout'
  BY <1>20 DEF TimerTakes, manager, limiter, TypeOK, Timer, TimersAreStale,
      Shown, ConnRuns, TimerMid
<1>21. ASSUME NEW t \in timers, TimerDone(t) PROVE NoLogout'
  BY <1>21 DEF TimerDone, manager, limiter, TypeOK, Timer, TimersAreStale,
      Shown, ConnRuns, TimerMid
<1>22. CASE CooldownOver
  BY <1>22 DEF CooldownOver, manager, limiter, TypeOK, Timer, TimersAreStale,
      Shown, ConnRuns, TimerMid
<1>23. CASE Terminate
  BY <1>23 DEF Terminate
<1>24. CASE Exit
  BY <1>24 DEF Exit
<1>25. CASE UNCHANGED vars
  BY <1>25 DEF vars, TypeOK, Timer, TimersAreStale, Shown, ConnRuns, TimerMid
<1>. QED
  BY <1>1, <1>2, <1>3, <1>4, <1>5, <1>6, <1>7, <1>8, <1>9, <1>10, <1>11,
      <1>12, <1>13, <1>14, <1>15, <1>16, <1>17, <1>18, <1>19, <1>20, <1>21,
      <1>22, <1>23, <1>24, <1>25
      DEF Next, PamStep, SectionStep, TimerStep

(* A timer stays older than the lock. *)
LEMMA TimersStep ==
    ASSUME SingleThread, down = "up", down' = "up", TypeOK, HandlerShape, RunsAlone, FreshReads, OneHolder, SessionShape, NoLogout,
           AttachedSessionIsOpen, ClaimExcludesSession, LoginKeepsClaim, TimersAreStale,
           [Next]_vars
    PROVE  TimersAreStale'
<1>. USE ConstantsAssumption DEF TimersAreStale
<1>1. ASSUME NEW c \in Conns, Accept(c) PROVE TimersAreStale'
  BY <1>1 DEF Accept, GoTo, manager, limiter, TypeOK, Timer,
      AttachedSessionIsOpen, Attached, NoLogout, FreshReads
<1>2. ASSUME NEW c \in Conns, HangUp(c) PROVE TimersAreStale'
  BY <1>2 DEF HangUp, Leave, GoTo, manager, limiter, TypeOK, Timer,
      AttachedSessionIsOpen, Attached, NoLogout, FreshReads
<1>3. ASSUME NEW c \in Conns, ReadInner(c) PROVE TimersAreStale'
  BY <1>3 DEF ReadInner, Leave, GoTo, manager, limiter, TypeOK, Timer,
      AttachedSessionIsOpen, Attached, NoLogout, FreshReads
<1>4. ASSUME NEW c \in Conns, CheckInner(c) PROVE TimersAreStale'
  BY <1>4 DEF CheckInner, Leave, GoTo, manager, limiter, TypeOK, Timer,
      AttachedSessionIsOpen, Attached, NoLogout, FreshReads
<1>5. ASSUME NEW c \in Conns, TryClaim(c) PROVE TimersAreStale'
  BY <1>5 DEF TryClaim, Leave, GoTo, manager, limiter, TypeOK, Timer,
      AttachedSessionIsOpen, Attached, NoLogout, FreshReads
<1>6. ASSUME NEW c \in Conns, PamOpens(c) PROVE TimersAreStale'
  BY <1>6 DEF PamOpens, Leave, GoTo, manager, limiter, TypeOK, Timer,
      AttachedSessionIsOpen, Attached, NoLogout, FreshReads
<1>7. ASSUME NEW c \in Conns, PamReattaches(c) PROVE TimersAreStale'
  BY <1>7, SMTT(30) DEF PamReattaches, Leave, GoTo, manager, limiter, TypeOK, Timer,
      AttachedSessionIsOpen, Attached, NoLogout, FreshReads
<1>8. ASSUME NEW c \in Conns, PamFails(c) PROVE TimersAreStale'
  BY <1>8 DEF PamFails, Leave, GoTo, manager, limiter, TypeOK, Timer,
      AttachedSessionIsOpen, Attached, NoLogout, FreshReads
<1>9. ASSUME NEW c \in Conns, StartSession(c) PROVE TimersAreStale'
  BY <1>9 DEF StartSession, Leave, GoTo, manager, limiter, TypeOK, Timer,
      AttachedSessionIsOpen, Attached, NoLogout, FreshReads
<1>10. ASSUME NEW c \in Conns, Open(c) PROVE TimersAreStale'
  BY <1>10 DEF Open, GoTo, manager, limiter, TypeOK, Timer,
      AttachedSessionIsOpen, Attached, NoLogout, FreshReads
<1>11. ASSUME NEW c \in Conns, Announce(c) PROVE TimersAreStale'
  BY <1>11 DEF Announce, GoTo, manager, limiter, TypeOK, Timer,
      AttachedSessionIsOpen, Attached, NoLogout, FreshReads
<1>12. ASSUME NEW c \in Conns, SendOk(c) PROVE TimersAreStale'
  BY <1>12 DEF SendOk, Leave, GoTo, manager, limiter, TypeOK, Timer,
      AttachedSessionIsOpen, Attached, NoLogout, FreshReads
<1>13. ASSUME NEW c \in Conns, ProxyEnds(c) PROVE TimersAreStale'
  BY <1>13 DEF ProxyEnds, GoTo, manager, limiter, TypeOK, Timer,
      AttachedSessionIsOpen, Attached, NoLogout, FreshReads
<1>14. ASSUME NEW c \in Conns, Schedule(c) PROVE TimersAreStale'
  BY <1>14, SMTT(30) DEF Schedule, GoTo, manager, limiter, TypeOK, Timer,
      AttachedSessionIsOpen, Attached, NoLogout, FreshReads
<1>15. ASSUME NEW c \in Conns, Lock(c) PROVE TimersAreStale'
  BY <1>15, SMTT(30) DEF Lock, GoTo, manager, limiter, TypeOK, Timer,
      AttachedSessionIsOpen, Attached, NoLogout, FreshReads
<1>16. ASSUME NEW c \in Conns, Synced(c) PROVE TimersAreStale'
  BY <1>16 DEF Synced, GoTo, manager, limiter, TypeOK, Timer,
      AttachedSessionIsOpen, Attached, NoLogout, FreshReads
<1>17. ASSUME NEW c \in Conns, NEW u \in Users, GiveName(c, u) PROVE TimersAreStale'
  BY <1>17 DEF GiveName, GoTo, manager, limiter, TypeOK, Timer,
      AttachedSessionIsOpen, Attached, NoLogout, FreshReads
<1>18. ASSUME NEW t \in timers, TimerWakes(t) PROVE TimersAreStale'
  BY <1>18 DEF TimerWakes, manager, limiter, TypeOK, Timer,
      AttachedSessionIsOpen, Attached, NoLogout, FreshReads
<1>19. ASSUME NEW t \in timers, TimerReads(t) PROVE TimersAreStale'
  BY <1>19 DEF TimerReads, manager, limiter, TypeOK, Timer,
      AttachedSessionIsOpen, Attached, NoLogout, FreshReads
<1>20. ASSUME NEW t \in timers, TimerTakes(t) PROVE TimersAreStale'
  BY <1>20 DEF TimerTakes, manager, limiter, TypeOK, Timer,
      AttachedSessionIsOpen, Attached, NoLogout, FreshReads
<1>21. ASSUME NEW t \in timers, TimerDone(t) PROVE TimersAreStale'
  BY <1>21 DEF TimerDone, manager, limiter, TypeOK, Timer,
      AttachedSessionIsOpen, Attached, NoLogout, FreshReads
<1>22. CASE CooldownOver
  BY <1>22 DEF CooldownOver, manager, limiter, TypeOK, Timer,
      AttachedSessionIsOpen, Attached, NoLogout, FreshReads
<1>23. CASE Terminate
  BY <1>23 DEF Terminate
<1>24. CASE Exit
  BY <1>24 DEF Exit
<1>25. CASE UNCHANGED vars
  BY <1>25 DEF vars, TypeOK, Timer, AttachedSessionIsOpen, Attached, NoLogout,
      FreshReads
<1>. QED
  BY <1>1, <1>2, <1>3, <1>4, <1>5, <1>6, <1>7, <1>8, <1>9, <1>10, <1>11,
      <1>12, <1>13, <1>14, <1>15, <1>16, <1>17, <1>18, <1>19, <1>20, <1>21,
      <1>22, <1>23, <1>24, <1>25
      DEF Next, PamStep, SectionStep, TimerStep

(* What was read is still so. *)
LEMMA FreshReadsStep ==
    ASSUME SingleThread, down = "up", down' = "up", TypeOK, HandlerShape, RunsAlone, FreshReads, OneHolder, SessionShape, NoLogout,
           AttachedSessionIsOpen, ClaimExcludesSession, LoginKeepsClaim, TimersAreStale,
           [Next]_vars
    PROVE  FreshReads'
<1>. USE ConstantsAssumption DEF FreshReads
<1>1. ASSUME NEW c \in Conns, Accept(c) PROVE FreshReads'
  BY <1>1 DEF Accept, GoTo, manager, limiter, TypeOK, HandlerShape, ConnRuns,
      MidSection, LoginKeepsClaim, ClaimExcludesSession, Claiming, NoLogout
<1>2. ASSUME NEW c \in Conns, HangUp(c) PROVE FreshReads'
  BY <1>2 DEF HangUp, Leave, GoTo, manager, limiter, TypeOK, HandlerShape,
      ConnRuns, MidSection, LoginKeepsClaim, ClaimExcludesSession, Claiming,
      NoLogout
<1>3. ASSUME NEW c \in Conns, ReadInner(c) PROVE FreshReads'
  BY <1>3 DEF ReadInner, Leave, GoTo, manager, limiter, TypeOK, HandlerShape,
      ConnRuns, MidSection, LoginKeepsClaim, ClaimExcludesSession, Claiming,
      NoLogout
<1>4. ASSUME NEW c \in Conns, CheckInner(c) PROVE FreshReads'
  BY <1>4 DEF CheckInner, Leave, GoTo, manager, limiter, TypeOK, HandlerShape,
      ConnRuns, MidSection, LoginKeepsClaim, ClaimExcludesSession, Claiming,
      NoLogout
<1>5. ASSUME NEW c \in Conns, TryClaim(c) PROVE FreshReads'
  BY <1>5, SMTT(30) DEF TryClaim, Leave, GoTo, manager, limiter, TypeOK, HandlerShape,
      ConnRuns, MidSection, LoginKeepsClaim, ClaimExcludesSession, Claiming,
      NoLogout
<1>6. ASSUME NEW c \in Conns, PamOpens(c) PROVE FreshReads'
  BY <1>6 DEF PamOpens, Leave, GoTo, manager, limiter, TypeOK, HandlerShape,
      ConnRuns, MidSection, LoginKeepsClaim, ClaimExcludesSession, Claiming,
      NoLogout
<1>7. ASSUME NEW c \in Conns, PamReattaches(c) PROVE FreshReads'
  BY <1>7 DEF PamReattaches, Leave, GoTo, manager, limiter, TypeOK,
      HandlerShape, ConnRuns, MidSection, LoginKeepsClaim,
      ClaimExcludesSession, Claiming, NoLogout
<1>8. ASSUME NEW c \in Conns, PamFails(c) PROVE FreshReads'
  BY <1>8, SMTT(30) DEF PamFails, Leave, GoTo, manager, limiter, TypeOK, HandlerShape,
      ConnRuns, MidSection, LoginKeepsClaim, ClaimExcludesSession, Claiming,
      NoLogout
<1>9. ASSUME NEW c \in Conns, StartSession(c) PROVE FreshReads'
  BY <1>9, SMTT(30) DEF StartSession, Leave, GoTo, manager, limiter, TypeOK,
      HandlerShape, ConnRuns, MidSection, LoginKeepsClaim,
      ClaimExcludesSession, Claiming, NoLogout
<1>10. ASSUME NEW c \in Conns, Open(c) PROVE FreshReads'
  BY <1>10 DEF Open, GoTo, manager, limiter, TypeOK, HandlerShape, ConnRuns,
      MidSection, LoginKeepsClaim, ClaimExcludesSession, Claiming, NoLogout
<1>11. ASSUME NEW c \in Conns, Announce(c) PROVE FreshReads'
  BY <1>11 DEF Announce, GoTo, manager, limiter, TypeOK, HandlerShape,
      ConnRuns, MidSection, LoginKeepsClaim, ClaimExcludesSession, Claiming,
      NoLogout
<1>12. ASSUME NEW c \in Conns, SendOk(c) PROVE FreshReads'
  BY <1>12 DEF SendOk, Leave, GoTo, manager, limiter, TypeOK, HandlerShape,
      ConnRuns, MidSection, LoginKeepsClaim, ClaimExcludesSession, Claiming,
      NoLogout
<1>13. ASSUME NEW c \in Conns, ProxyEnds(c) PROVE FreshReads'
  BY <1>13 DEF ProxyEnds, GoTo, manager, limiter, TypeOK, HandlerShape,
      ConnRuns, MidSection, LoginKeepsClaim, ClaimExcludesSession, Claiming,
      NoLogout
<1>14. ASSUME NEW c \in Conns, Schedule(c) PROVE FreshReads'
  BY <1>14 DEF Schedule, GoTo, manager, limiter, TypeOK, HandlerShape,
      ConnRuns, MidSection, LoginKeepsClaim, ClaimExcludesSession, Claiming,
      NoLogout
<1>15. ASSUME NEW c \in Conns, Lock(c) PROVE FreshReads'
  BY <1>15 DEF Lock, GoTo, manager, limiter, TypeOK, HandlerShape, ConnRuns,
      MidSection, LoginKeepsClaim, ClaimExcludesSession, Claiming, NoLogout
<1>16. ASSUME NEW c \in Conns, Synced(c) PROVE FreshReads'
  BY <1>16 DEF Synced, GoTo, manager, limiter, TypeOK, HandlerShape, ConnRuns,
      MidSection, LoginKeepsClaim, ClaimExcludesSession, Claiming, NoLogout
<1>17. ASSUME NEW c \in Conns, NEW u \in Users, GiveName(c, u) PROVE FreshReads'
  BY <1>17 DEF GiveName, GoTo, manager, limiter, TypeOK, HandlerShape,
      ConnRuns, MidSection, LoginKeepsClaim, ClaimExcludesSession, Claiming,
      NoLogout
<1>18. ASSUME NEW t \in timers, TimerWakes(t) PROVE FreshReads'
  BY <1>18 DEF TimerWakes, manager, limiter, TypeOK, HandlerShape, ConnRuns,
      MidSection, LoginKeepsClaim, ClaimExcludesSession, Claiming, NoLogout
<1>19. ASSUME NEW t \in timers, TimerReads(t) PROVE FreshReads'
  BY <1>19 DEF TimerReads, manager, limiter, TypeOK, HandlerShape, ConnRuns,
      MidSection, LoginKeepsClaim, ClaimExcludesSession, Claiming, NoLogout
<1>20. ASSUME NEW t \in timers, TimerTakes(t) PROVE FreshReads'
  BY <1>20 DEF TimerTakes, manager, limiter, TypeOK, HandlerShape, ConnRuns,
      MidSection, LoginKeepsClaim, ClaimExcludesSession, Claiming, NoLogout
<1>21. ASSUME NEW t \in timers, TimerDone(t) PROVE FreshReads'
  BY <1>21 DEF TimerDone, manager, limiter, TypeOK, HandlerShape, ConnRuns,
      MidSection, LoginKeepsClaim, ClaimExcludesSession, Claiming, NoLogout
<1>22. CASE CooldownOver
  BY <1>22 DEF CooldownOver, manager, limiter, TypeOK, HandlerShape, ConnRuns,
      MidSection, LoginKeepsClaim, ClaimExcludesSession, Claiming, NoLogout
<1>23. CASE Terminate
  BY <1>23 DEF Terminate
<1>24. CASE Exit
  BY <1>24 DEF Exit
<1>25. CASE UNCHANGED vars
  BY <1>25 DEF vars, TypeOK, HandlerShape, ConnRuns, MidSection,
      LoginKeepsClaim, ClaimExcludesSession, Claiming, NoLogout
<1>. QED
  BY <1>1, <1>2, <1>3, <1>4, <1>5, <1>6, <1>7, <1>8, <1>9, <1>10, <1>11,
      <1>12, <1>13, <1>14, <1>15, <1>16, <1>17, <1>18, <1>19, <1>20, <1>21,
      <1>22, <1>23, <1>24, <1>25
      DEF Next, PamStep, SectionStep, TimerStep

(* Only one login or attachment at a time. *)
LEMMA OneHolderStep ==
    ASSUME SingleThread, down = "up", down' = "up", TypeOK, HandlerShape, RunsAlone, FreshReads, OneHolder, SessionShape, NoLogout,
           AttachedSessionIsOpen, ClaimExcludesSession, LoginKeepsClaim, TimersAreStale,
           [Next]_vars
    PROVE  OneHolder'
<1>. USE ConstantsAssumption DEF OneHolder
<1>1. ASSUME NEW c \in Conns, Accept(c) PROVE OneHolder'
  BY <1>1, SMTT(30) DEF Accept, GoTo, manager, limiter, TypeOK, HandlerShape, Holds,
      Claiming, Attached, FreshReads, LoginKeepsClaim, ClaimExcludesSession,
      AttachedSessionIsOpen
<1>2. ASSUME NEW c \in Conns, HangUp(c) PROVE OneHolder'
  BY <1>2, SMTT(30) DEF HangUp, Leave, GoTo, manager, limiter, TypeOK, HandlerShape,
      Holds, Claiming, Attached, FreshReads, LoginKeepsClaim,
      ClaimExcludesSession, AttachedSessionIsOpen
<1>3. ASSUME NEW c \in Conns, ReadInner(c) PROVE OneHolder'
  BY <1>3, SMTT(30) DEF ReadInner, Leave, GoTo, manager, limiter, TypeOK, HandlerShape,
      Holds, Claiming, Attached, FreshReads, LoginKeepsClaim,
      ClaimExcludesSession, AttachedSessionIsOpen
<1>4. ASSUME NEW c \in Conns, CheckInner(c) PROVE OneHolder'
  BY <1>4, SMTT(30) DEF CheckInner, Leave, GoTo, manager, limiter, TypeOK, HandlerShape,
      Holds, Claiming, Attached, FreshReads, LoginKeepsClaim,
      ClaimExcludesSession, AttachedSessionIsOpen
<1>5. ASSUME NEW c \in Conns, TryClaim(c) PROVE OneHolder'
  <2>1. CASE claim = None
    <3>1. owner = None /\ pc[c] = "claiming"
      BY <1>5 DEF TryClaim, FreshReads
    <3>2. ASSUME NEW d \in Conns \ {c} PROVE ~Holds(d)
      <4>1. pc[d] # "opening"
        BY <1>5 DEF TryClaim, ConnRuns, MidSection
      <4>2. pc[d] \notin Attached
        BY <3>1, SMTT(30) DEF AttachedSessionIsOpen, HandlerShape, Attached, TypeOK
      <4>3. ~(mode[d] = "fresh" /\ pc[d] \in Claiming)
        BY <2>1 DEF LoginKeepsClaim, HandlerShape, Claiming
      <4>. QED
        BY <4>1, <4>2, <4>3 DEF Holds
    <3>3. ASSUME NEW d \in Conns \ {c} PROVE ~Holds(d)'
      BY <1>5, <2>1, <3>2, <3>3 DEF TryClaim, GoTo, Holds, TypeOK
    <3>. QED
      BY <3>3
  <2>2. CASE claim # None
    BY <1>5, <2>2, SMTT(30) DEF TryClaim, Leave, Holds, Claiming, Attached, TypeOK
  <2>. QED
    BY <2>1, <2>2
<1>6. ASSUME NEW c \in Conns, PamOpens(c) PROVE OneHolder'
  BY <1>6, SMTT(30) DEF PamOpens, Leave, GoTo, manager, limiter, TypeOK, HandlerShape,
      Holds, Claiming, Attached, FreshReads, LoginKeepsClaim,
      ClaimExcludesSession, AttachedSessionIsOpen
<1>7. ASSUME NEW c \in Conns, PamReattaches(c) PROVE OneHolder'
  BY <1>7, SMTT(30) DEF PamReattaches, Leave, GoTo, manager, limiter, TypeOK,
      HandlerShape, Holds, Claiming, Attached, FreshReads, LoginKeepsClaim,
      ClaimExcludesSession, AttachedSessionIsOpen
<1>8. ASSUME NEW c \in Conns, PamFails(c) PROVE OneHolder'
  BY <1>8, SMTT(30) DEF PamFails, Leave, GoTo, manager, limiter, TypeOK, HandlerShape,
      Holds, Claiming, Attached, FreshReads, LoginKeepsClaim,
      ClaimExcludesSession, AttachedSessionIsOpen
<1>9. ASSUME NEW c \in Conns, StartSession(c) PROVE OneHolder'
  BY <1>9, SMTT(30) DEF StartSession, Leave, GoTo, manager, limiter, TypeOK,
      HandlerShape, Holds, Claiming, Attached, FreshReads, LoginKeepsClaim,
      ClaimExcludesSession, AttachedSessionIsOpen
<1>10. ASSUME NEW c \in Conns, Open(c) PROVE OneHolder'
  BY <1>10, SMTT(30) DEF Open, GoTo, manager, limiter, TypeOK, HandlerShape, Holds,
      Claiming, Attached, FreshReads, LoginKeepsClaim, ClaimExcludesSession,
      AttachedSessionIsOpen
<1>11. ASSUME NEW c \in Conns, Announce(c) PROVE OneHolder'
  BY <1>11, SMTT(30) DEF Announce, GoTo, manager, limiter, TypeOK, HandlerShape, Holds,
      Claiming, Attached, FreshReads, LoginKeepsClaim, ClaimExcludesSession,
      AttachedSessionIsOpen
<1>12. ASSUME NEW c \in Conns, SendOk(c) PROVE OneHolder'
  BY <1>12, SMTT(30) DEF SendOk, Leave, GoTo, manager, limiter, TypeOK, HandlerShape,
      Holds, Claiming, Attached, FreshReads, LoginKeepsClaim,
      ClaimExcludesSession, AttachedSessionIsOpen
<1>13. ASSUME NEW c \in Conns, ProxyEnds(c) PROVE OneHolder'
  BY <1>13, SMTT(30) DEF ProxyEnds, GoTo, manager, limiter, TypeOK, HandlerShape, Holds,
      Claiming, Attached, FreshReads, LoginKeepsClaim, ClaimExcludesSession,
      AttachedSessionIsOpen
<1>14. ASSUME NEW c \in Conns, Schedule(c) PROVE OneHolder'
  BY <1>14, SMTT(30) DEF Schedule, GoTo, manager, limiter, TypeOK, HandlerShape, Holds,
      Claiming, Attached, FreshReads, LoginKeepsClaim, ClaimExcludesSession,
      AttachedSessionIsOpen
<1>15. ASSUME NEW c \in Conns, Lock(c) PROVE OneHolder'
  BY <1>15, SMTT(30) DEF Lock, GoTo, manager, limiter, TypeOK, HandlerShape, Holds,
      Claiming, Attached, FreshReads, LoginKeepsClaim, ClaimExcludesSession,
      AttachedSessionIsOpen
<1>16. ASSUME NEW c \in Conns, Synced(c) PROVE OneHolder'
  BY <1>16, SMTT(30) DEF Synced, GoTo, manager, limiter, TypeOK, HandlerShape, Holds,
      Claiming, Attached, FreshReads, LoginKeepsClaim, ClaimExcludesSession,
      AttachedSessionIsOpen
<1>17. ASSUME NEW c \in Conns, NEW u \in Users, GiveName(c, u) PROVE OneHolder'
  BY <1>17, SMTT(30) DEF GiveName, GoTo, manager, limiter, TypeOK, HandlerShape, Holds,
      Claiming, Attached, FreshReads, LoginKeepsClaim, ClaimExcludesSession,
      AttachedSessionIsOpen
<1>18. ASSUME NEW t \in timers, TimerWakes(t) PROVE OneHolder'
  BY <1>18 DEF TimerWakes, manager, limiter, TypeOK, HandlerShape, Holds,
      Claiming, Attached, FreshReads, LoginKeepsClaim, ClaimExcludesSession,
      AttachedSessionIsOpen
<1>19. ASSUME NEW t \in timers, TimerReads(t) PROVE OneHolder'
  BY <1>19 DEF TimerReads, manager, limiter, TypeOK, HandlerShape, Holds,
      Claiming, Attached, FreshReads, LoginKeepsClaim, ClaimExcludesSession,
      AttachedSessionIsOpen
<1>20. ASSUME NEW t \in timers, TimerTakes(t) PROVE OneHolder'
  BY <1>20 DEF TimerTakes, manager, limiter, TypeOK, HandlerShape, Holds,
      Claiming, Attached, FreshReads, LoginKeepsClaim, ClaimExcludesSession,
      AttachedSessionIsOpen
<1>21. ASSUME NEW t \in timers, TimerDone(t) PROVE OneHolder'
  BY <1>21 DEF TimerDone, manager, limiter, TypeOK, HandlerShape, Holds,
      Claiming, Attached, FreshReads, LoginKeepsClaim, ClaimExcludesSession,
      AttachedSessionIsOpen
<1>22. CASE CooldownOver
  BY <1>22 DEF CooldownOver, manager, limiter, TypeOK, HandlerShape, Holds,
      Claiming, Attached, FreshReads, LoginKeepsClaim, ClaimExcludesSession,
      AttachedSessionIsOpen
<1>23. CASE Terminate
  BY <1>23 DEF Terminate
<1>24. CASE Exit
  BY <1>24 DEF Exit
<1>25. CASE UNCHANGED vars
  BY <1>25 DEF vars, TypeOK, HandlerShape, Holds, Claiming, Attached,
      FreshReads, LoginKeepsClaim, ClaimExcludesSession, AttachedSessionIsOpen
<1>. QED
  BY <1>1, <1>2, <1>3, <1>4, <1>5, <1>6, <1>7, <1>8, <1>9, <1>10, <1>11,
      <1>12, <1>13, <1>14, <1>15, <1>16, <1>17, <1>18, <1>19, <1>20, <1>21,
      <1>22, <1>23, <1>24, <1>25
      DEF Next, PamStep, SectionStep, TimerStep

(* The session is an account's, and the heartbeat names it. *)
LEMMA SessionShapeStep ==
    ASSUME SingleThread, down = "up", down' = "up", TypeOK, HandlerShape, RunsAlone, FreshReads, OneHolder, SessionShape, NoLogout,
           AttachedSessionIsOpen, ClaimExcludesSession, LoginKeepsClaim, TimersAreStale,
           [Next]_vars
    PROVE  SessionShape'
<1>. USE ConstantsAssumption DEF SessionShape
<1>1. ASSUME NEW c \in Conns, Accept(c) PROVE SessionShape'
  BY <1>1 DEF Accept, GoTo, manager, limiter, TypeOK, HandlerShape,
      ClaimExcludesSession, Shown, Attached, AttachedSessionIsOpen, ConnRuns,
      MidSection, NoLogout, RunsAlone
<1>2. ASSUME NEW c \in Conns, HangUp(c) PROVE SessionShape'
  BY <1>2 DEF HangUp, Leave, GoTo, manager, limiter, TypeOK, HandlerShape,
      ClaimExcludesSession, Shown, Attached, AttachedSessionIsOpen, ConnRuns,
      MidSection, NoLogout, RunsAlone
<1>3. ASSUME NEW c \in Conns, ReadInner(c) PROVE SessionShape'
  BY <1>3 DEF ReadInner, Leave, GoTo, manager, limiter, TypeOK, HandlerShape,
      ClaimExcludesSession, Shown, Attached, AttachedSessionIsOpen, ConnRuns,
      MidSection, NoLogout, RunsAlone
<1>4. ASSUME NEW c \in Conns, CheckInner(c) PROVE SessionShape'
  BY <1>4 DEF CheckInner, Leave, GoTo, manager, limiter, TypeOK, HandlerShape,
      ClaimExcludesSession, Shown, Attached, AttachedSessionIsOpen, ConnRuns,
      MidSection, NoLogout, RunsAlone
<1>5. ASSUME NEW c \in Conns, TryClaim(c) PROVE SessionShape'
  BY <1>5 DEF TryClaim, Leave, GoTo, manager, limiter, TypeOK, HandlerShape,
      ClaimExcludesSession, Shown, Attached, AttachedSessionIsOpen, ConnRuns,
      MidSection, NoLogout, RunsAlone
<1>6. ASSUME NEW c \in Conns, PamOpens(c) PROVE SessionShape'
  BY <1>6 DEF PamOpens, Leave, GoTo, manager, limiter, TypeOK, HandlerShape,
      ClaimExcludesSession, Shown, Attached, AttachedSessionIsOpen, ConnRuns,
      MidSection, NoLogout, RunsAlone
<1>7. ASSUME NEW c \in Conns, PamReattaches(c) PROVE SessionShape'
  BY <1>7, SMTT(30) DEF PamReattaches, Leave, GoTo, manager, limiter, TypeOK,
      HandlerShape, ClaimExcludesSession, Shown, Attached,
      AttachedSessionIsOpen, ConnRuns, MidSection, NoLogout, RunsAlone
<1>8. ASSUME NEW c \in Conns, PamFails(c) PROVE SessionShape'
  BY <1>8 DEF PamFails, Leave, GoTo, manager, limiter, TypeOK, HandlerShape,
      ClaimExcludesSession, Shown, Attached, AttachedSessionIsOpen, ConnRuns,
      MidSection, NoLogout, RunsAlone
<1>9. ASSUME NEW c \in Conns, StartSession(c) PROVE SessionShape'
  BY <1>9 DEF StartSession, Leave, GoTo, manager, limiter, TypeOK,
      HandlerShape, ClaimExcludesSession, Shown, Attached,
      AttachedSessionIsOpen, ConnRuns, MidSection, NoLogout, RunsAlone
<1>10. ASSUME NEW c \in Conns, Open(c) PROVE SessionShape'
  BY <1>10 DEF Open, GoTo, manager, limiter, TypeOK, HandlerShape,
      ClaimExcludesSession, Shown, Attached, AttachedSessionIsOpen, ConnRuns,
      MidSection, NoLogout, RunsAlone
<1>11. ASSUME NEW c \in Conns, Announce(c) PROVE SessionShape'
  BY <1>11 DEF Announce, GoTo, manager, limiter, TypeOK, HandlerShape,
      ClaimExcludesSession, Shown, Attached, AttachedSessionIsOpen, ConnRuns,
      MidSection, NoLogout, RunsAlone
<1>12. ASSUME NEW c \in Conns, SendOk(c) PROVE SessionShape'
  BY <1>12 DEF SendOk, Leave, GoTo, manager, limiter, TypeOK, HandlerShape,
      ClaimExcludesSession, Shown, Attached, AttachedSessionIsOpen, ConnRuns,
      MidSection, NoLogout, RunsAlone
<1>13. ASSUME NEW c \in Conns, ProxyEnds(c) PROVE SessionShape'
  BY <1>13 DEF ProxyEnds, GoTo, manager, limiter, TypeOK, HandlerShape,
      ClaimExcludesSession, Shown, Attached, AttachedSessionIsOpen, ConnRuns,
      MidSection, NoLogout, RunsAlone
<1>14. ASSUME NEW c \in Conns, Schedule(c) PROVE SessionShape'
  BY <1>14 DEF Schedule, GoTo, manager, limiter, TypeOK, HandlerShape,
      ClaimExcludesSession, Shown, Attached, AttachedSessionIsOpen, ConnRuns,
      MidSection, NoLogout, RunsAlone
<1>15. ASSUME NEW c \in Conns, Lock(c) PROVE SessionShape'
  BY <1>15 DEF Lock, GoTo, manager, limiter, TypeOK, HandlerShape,
      ClaimExcludesSession, Shown, Attached, AttachedSessionIsOpen, ConnRuns,
      MidSection, NoLogout, RunsAlone
<1>16. ASSUME NEW c \in Conns, Synced(c) PROVE SessionShape'
  BY <1>16 DEF Synced, GoTo, manager, limiter, TypeOK, HandlerShape,
      ClaimExcludesSession, Shown, Attached, AttachedSessionIsOpen, ConnRuns,
      MidSection, NoLogout, RunsAlone
<1>17. ASSUME NEW c \in Conns, NEW u \in Users, GiveName(c, u) PROVE SessionShape'
  BY <1>17 DEF GiveName, GoTo, manager, limiter, TypeOK, HandlerShape,
      ClaimExcludesSession, Shown, Attached, AttachedSessionIsOpen, ConnRuns,
      MidSection, NoLogout, RunsAlone
<1>18. ASSUME NEW t \in timers, TimerWakes(t) PROVE SessionShape'
  BY <1>18 DEF TimerWakes, manager, limiter, TypeOK, HandlerShape,
      ClaimExcludesSession, Shown, Attached, AttachedSessionIsOpen, ConnRuns,
      MidSection, NoLogout, RunsAlone
<1>19. ASSUME NEW t \in timers, TimerReads(t) PROVE SessionShape'
  BY <1>19 DEF TimerReads, manager, limiter, TypeOK, HandlerShape,
      ClaimExcludesSession, Shown, Attached, AttachedSessionIsOpen, ConnRuns,
      MidSection, NoLogout, RunsAlone
<1>20. ASSUME NEW t \in timers, TimerTakes(t) PROVE SessionShape'
  BY <1>20 DEF TimerTakes, manager, limiter, TypeOK, HandlerShape,
      ClaimExcludesSession, Shown, Attached, AttachedSessionIsOpen, ConnRuns,
      MidSection, NoLogout, RunsAlone
<1>21. ASSUME NEW t \in timers, TimerDone(t) PROVE SessionShape'
  BY <1>21 DEF TimerDone, manager, limiter, TypeOK, HandlerShape,
      ClaimExcludesSession, Shown, Attached, AttachedSessionIsOpen, ConnRuns,
      MidSection, NoLogout, RunsAlone
<1>22. CASE CooldownOver
  BY <1>22 DEF CooldownOver, manager, limiter, TypeOK, HandlerShape,
      ClaimExcludesSession, Shown, Attached, AttachedSessionIsOpen, ConnRuns,
      MidSection, NoLogout, RunsAlone
<1>23. CASE Terminate
  BY <1>23 DEF Terminate
<1>24. CASE Exit
  BY <1>24 DEF Exit
<1>25. CASE UNCHANGED vars
  BY <1>25 DEF vars, TypeOK, HandlerShape, ClaimExcludesSession, Shown,
      Attached, AttachedSessionIsOpen, ConnRuns, MidSection, NoLogout,
      RunsAlone
<1>. QED
  BY <1>1, <1>2, <1>3, <1>4, <1>5, <1>6, <1>7, <1>8, <1>9, <1>10, <1>11,
      <1>12, <1>13, <1>14, <1>15, <1>16, <1>17, <1>18, <1>19, <1>20, <1>21,
      <1>22, <1>23, <1>24, <1>25, ZenonT(40)
      DEF Next, PamStep, SectionStep, TimerStep

(* The attached connection keeps its session open. *)
LEMMA AttachedStep ==
    ASSUME SingleThread, down = "up", down' = "up", TypeOK, HandlerShape, RunsAlone, FreshReads, OneHolder, SessionShape, NoLogout,
           AttachedSessionIsOpen, ClaimExcludesSession, LoginKeepsClaim, TimersAreStale,
           [Next]_vars
    PROVE  AttachedSessionIsOpen'
<1>. USE ConstantsAssumption DEF AttachedSessionIsOpen
<1>1. ASSUME NEW c \in Conns, Accept(c) PROVE AttachedSessionIsOpen'
  BY <1>1 DEF Accept, GoTo, manager, limiter, TypeOK, HandlerShape, Holds,
      OneHolder, Attached, SessionShape, NoLogout
<1>2. ASSUME NEW c \in Conns, HangUp(c) PROVE AttachedSessionIsOpen'
  BY <1>2 DEF HangUp, Leave, GoTo, manager, limiter, TypeOK, HandlerShape,
      Holds, OneHolder, Attached, SessionShape, NoLogout
<1>3. ASSUME NEW c \in Conns, ReadInner(c) PROVE AttachedSessionIsOpen'
  BY <1>3, SMTT(30) DEF ReadInner, Leave, GoTo, manager, limiter, TypeOK, HandlerShape,
      Holds, OneHolder, Attached, SessionShape, NoLogout
<1>4. ASSUME NEW c \in Conns, CheckInner(c) PROVE AttachedSessionIsOpen'
  BY <1>4, SMTT(30) DEF CheckInner, Leave, GoTo, manager, limiter, TypeOK, HandlerShape,
      Holds, OneHolder, Attached, SessionShape, NoLogout
<1>5. ASSUME NEW c \in Conns, TryClaim(c) PROVE AttachedSessionIsOpen'
  BY <1>5, SMTT(30) DEF TryClaim, Leave, GoTo, manager, limiter, TypeOK, HandlerShape,
      Holds, OneHolder, Attached, SessionShape, NoLogout
<1>6. ASSUME NEW c \in Conns, PamOpens(c) PROVE AttachedSessionIsOpen'
  BY <1>6, SMTT(30) DEF PamOpens, Leave, GoTo, manager, limiter, TypeOK, HandlerShape,
      Holds, OneHolder, Attached, SessionShape, NoLogout
<1>7. ASSUME NEW c \in Conns, PamReattaches(c) PROVE AttachedSessionIsOpen'
  BY <1>7, SMTT(30) DEF PamReattaches, Leave, GoTo, manager, limiter, TypeOK,
      HandlerShape, Holds, OneHolder, Attached, SessionShape, NoLogout
<1>8. ASSUME NEW c \in Conns, PamFails(c) PROVE AttachedSessionIsOpen'
  BY <1>8, SMTT(30) DEF PamFails, Leave, GoTo, manager, limiter, TypeOK, HandlerShape,
      Holds, OneHolder, Attached, SessionShape, NoLogout
<1>9. ASSUME NEW c \in Conns, StartSession(c) PROVE AttachedSessionIsOpen'
  BY <1>9, SMTT(30) DEF StartSession, Leave, GoTo, manager, limiter, TypeOK,
      HandlerShape, Holds, OneHolder, Attached, SessionShape, NoLogout
<1>10. ASSUME NEW c \in Conns, Open(c) PROVE AttachedSessionIsOpen'
  BY <1>10 DEF Open, GoTo, manager, limiter, TypeOK, HandlerShape, Holds,
      OneHolder, Attached, SessionShape, NoLogout
<1>11. ASSUME NEW c \in Conns, Announce(c) PROVE AttachedSessionIsOpen'
  BY <1>11 DEF Announce, GoTo, manager, limiter, TypeOK, HandlerShape, Holds,
      OneHolder, Attached, SessionShape, NoLogout
<1>12. ASSUME NEW c \in Conns, SendOk(c) PROVE AttachedSessionIsOpen'
  BY <1>12, SMTT(30) DEF SendOk, Leave, GoTo, manager, limiter, TypeOK, HandlerShape,
      Holds, OneHolder, Attached, SessionShape, NoLogout
<1>13. ASSUME NEW c \in Conns, ProxyEnds(c) PROVE AttachedSessionIsOpen'
  BY <1>13 DEF ProxyEnds, GoTo, manager, limiter, TypeOK, HandlerShape, Holds,
      OneHolder, Attached, SessionShape, NoLogout
<1>14. ASSUME NEW c \in Conns, Schedule(c) PROVE AttachedSessionIsOpen'
  BY <1>14 DEF Schedule, GoTo, manager, limiter, TypeOK, HandlerShape, Holds,
      OneHolder, Attached, SessionShape, NoLogout
<1>15. ASSUME NEW c \in Conns, Lock(c) PROVE AttachedSessionIsOpen'
  <2>1. pc[c] \in Attached
    BY <1>15 DEF Lock, Attached
  <2>2. ASSUME NEW d \in Conns \ {c} PROVE pc[d] \notin Attached
    BY <2>1 DEF OneHolder, Holds
  <2>3. ASSUME NEW d \in Conns PROVE pc'[d] \notin Attached
    BY <1>15, <2>2 DEF Lock, GoTo, Attached, TypeOK
  <2>. QED
    BY <2>3
<1>16. ASSUME NEW c \in Conns, Synced(c) PROVE AttachedSessionIsOpen'
  BY <1>16 DEF Synced, GoTo, manager, limiter, TypeOK, HandlerShape, Holds,
      OneHolder, Attached, SessionShape, NoLogout
<1>17. ASSUME NEW c \in Conns, NEW u \in Users, GiveName(c, u) PROVE AttachedSessionIsOpen'
  BY <1>17, SMTT(30) DEF GiveName, GoTo, manager, limiter, TypeOK, HandlerShape, Holds,
      OneHolder, Attached, SessionShape, NoLogout
<1>18. ASSUME NEW t \in timers, TimerWakes(t) PROVE AttachedSessionIsOpen'
  BY <1>18 DEF TimerWakes, manager, limiter, TypeOK, HandlerShape, Holds,
      OneHolder, Attached, SessionShape, NoLogout
<1>19. ASSUME NEW t \in timers, TimerReads(t) PROVE AttachedSessionIsOpen'
  BY <1>19 DEF TimerReads, manager, limiter, TypeOK, HandlerShape, Holds,
      OneHolder, Attached, SessionShape, NoLogout
<1>20. ASSUME NEW t \in timers, TimerTakes(t) PROVE AttachedSessionIsOpen'
  BY <1>20 DEF TimerTakes, manager, limiter, TypeOK, HandlerShape, Holds,
      OneHolder, Attached, SessionShape, NoLogout
<1>21. ASSUME NEW t \in timers, TimerDone(t) PROVE AttachedSessionIsOpen'
  BY <1>21 DEF TimerDone, manager, limiter, TypeOK, HandlerShape, Holds,
      OneHolder, Attached, SessionShape, NoLogout
<1>22. CASE CooldownOver
  BY <1>22 DEF CooldownOver, manager, limiter, TypeOK, HandlerShape, Holds,
      OneHolder, Attached, SessionShape, NoLogout
<1>23. CASE Terminate
  BY <1>23 DEF Terminate
<1>24. CASE Exit
  BY <1>24 DEF Exit
<1>25. CASE UNCHANGED vars
  BY <1>25 DEF vars, TypeOK, HandlerShape, Holds, OneHolder, Attached,
      SessionShape, NoLogout
<1>. QED
  BY <1>1, <1>2, <1>3, <1>4, <1>5, <1>6, <1>7, <1>8, <1>9, <1>10, <1>11,
      <1>12, <1>13, <1>14, <1>15, <1>16, <1>17, <1>18, <1>19, <1>20, <1>21,
      <1>22, <1>23, <1>24, <1>25, ZenonT(40)
      DEF Next, PamStep, SectionStep, TimerStep

(* A claim and a session never coexist. *)
LEMMA ClaimStep ==
    ASSUME SingleThread, down = "up", down' = "up", TypeOK, HandlerShape, RunsAlone, FreshReads, OneHolder, SessionShape, NoLogout,
           AttachedSessionIsOpen, ClaimExcludesSession, LoginKeepsClaim, TimersAreStale,
           [Next]_vars
    PROVE  ClaimExcludesSession'
<1>. USE ConstantsAssumption DEF ClaimExcludesSession
<1>1. ASSUME NEW c \in Conns, Accept(c) PROVE ClaimExcludesSession'
  BY <1>1 DEF Accept, GoTo, manager, limiter, TypeOK, HandlerShape,
      FreshReads, NoLogout
<1>2. ASSUME NEW c \in Conns, HangUp(c) PROVE ClaimExcludesSession'
  BY <1>2 DEF HangUp, Leave, GoTo, manager, limiter, TypeOK, HandlerShape,
      FreshReads, NoLogout
<1>3. ASSUME NEW c \in Conns, ReadInner(c) PROVE ClaimExcludesSession'
  BY <1>3 DEF ReadInner, Leave, GoTo, manager, limiter, TypeOK, HandlerShape,
      FreshReads, NoLogout
<1>4. ASSUME NEW c \in Conns, CheckInner(c) PROVE ClaimExcludesSession'
  BY <1>4 DEF CheckInner, Leave, GoTo, manager, limiter, TypeOK, HandlerShape,
      FreshReads, NoLogout
<1>5. ASSUME NEW c \in Conns, TryClaim(c) PROVE ClaimExcludesSession'
  BY <1>5 DEF TryClaim, Leave, GoTo, manager, limiter, TypeOK, HandlerShape,
      FreshReads, NoLogout
<1>6. ASSUME NEW c \in Conns, PamOpens(c) PROVE ClaimExcludesSession'
  BY <1>6 DEF PamOpens, Leave, GoTo, manager, limiter, TypeOK, HandlerShape,
      FreshReads, NoLogout
<1>7. ASSUME NEW c \in Conns, PamReattaches(c) PROVE ClaimExcludesSession'
  BY <1>7 DEF PamReattaches, Leave, GoTo, manager, limiter, TypeOK,
      HandlerShape, FreshReads, NoLogout
<1>8. ASSUME NEW c \in Conns, PamFails(c) PROVE ClaimExcludesSession'
  BY <1>8 DEF PamFails, Leave, GoTo, manager, limiter, TypeOK, HandlerShape,
      FreshReads, NoLogout
<1>9. ASSUME NEW c \in Conns, StartSession(c) PROVE ClaimExcludesSession'
  BY <1>9 DEF StartSession, Leave, GoTo, manager, limiter, TypeOK,
      HandlerShape, FreshReads, NoLogout
<1>10. ASSUME NEW c \in Conns, Open(c) PROVE ClaimExcludesSession'
  BY <1>10 DEF Open, GoTo, manager, limiter, TypeOK, HandlerShape, FreshReads,
      NoLogout
<1>11. ASSUME NEW c \in Conns, Announce(c) PROVE ClaimExcludesSession'
  BY <1>11 DEF Announce, GoTo, manager, limiter, TypeOK, HandlerShape,
      FreshReads, NoLogout
<1>12. ASSUME NEW c \in Conns, SendOk(c) PROVE ClaimExcludesSession'
  BY <1>12 DEF SendOk, Leave, GoTo, manager, limiter, TypeOK, HandlerShape,
      FreshReads, NoLogout
<1>13. ASSUME NEW c \in Conns, ProxyEnds(c) PROVE ClaimExcludesSession'
  BY <1>13 DEF ProxyEnds, GoTo, manager, limiter, TypeOK, HandlerShape,
      FreshReads, NoLogout
<1>14. ASSUME NEW c \in Conns, Schedule(c) PROVE ClaimExcludesSession'
  BY <1>14 DEF Schedule, GoTo, manager, limiter, TypeOK, HandlerShape,
      FreshReads, NoLogout
<1>15. ASSUME NEW c \in Conns, Lock(c) PROVE ClaimExcludesSession'
  BY <1>15 DEF Lock, GoTo, manager, limiter, TypeOK, HandlerShape, FreshReads,
      NoLogout
<1>16. ASSUME NEW c \in Conns, Synced(c) PROVE ClaimExcludesSession'
  BY <1>16 DEF Synced, GoTo, manager, limiter, TypeOK, HandlerShape,
      FreshReads, NoLogout
<1>17. ASSUME NEW c \in Conns, NEW u \in Users, GiveName(c, u) PROVE ClaimExcludesSession'
  BY <1>17 DEF GiveName, GoTo, manager, limiter, TypeOK, HandlerShape,
      FreshReads, NoLogout
<1>18. ASSUME NEW t \in timers, TimerWakes(t) PROVE ClaimExcludesSession'
  BY <1>18 DEF TimerWakes, manager, limiter, TypeOK, HandlerShape, FreshReads,
      NoLogout
<1>19. ASSUME NEW t \in timers, TimerReads(t) PROVE ClaimExcludesSession'
  BY <1>19 DEF TimerReads, manager, limiter, TypeOK, HandlerShape, FreshReads,
      NoLogout
<1>20. ASSUME NEW t \in timers, TimerTakes(t) PROVE ClaimExcludesSession'
  BY <1>20 DEF TimerTakes, manager, limiter, TypeOK, HandlerShape, FreshReads,
      NoLogout
<1>21. ASSUME NEW t \in timers, TimerDone(t) PROVE ClaimExcludesSession'
  BY <1>21 DEF TimerDone, manager, limiter, TypeOK, HandlerShape, FreshReads,
      NoLogout
<1>22. CASE CooldownOver
  BY <1>22 DEF CooldownOver, manager, limiter, TypeOK, HandlerShape,
      FreshReads, NoLogout
<1>23. CASE Terminate
  BY <1>23 DEF Terminate
<1>24. CASE Exit
  BY <1>24 DEF Exit
<1>25. CASE UNCHANGED vars
  BY <1>25 DEF vars, TypeOK, HandlerShape, FreshReads, NoLogout
<1>. QED
  BY <1>1, <1>2, <1>3, <1>4, <1>5, <1>6, <1>7, <1>8, <1>9, <1>10, <1>11,
      <1>12, <1>13, <1>14, <1>15, <1>16, <1>17, <1>18, <1>19, <1>20, <1>21,
      <1>22, <1>23, <1>24, <1>25
      DEF Next, PamStep, SectionStep, TimerStep

(* A fresh login keeps its claim. *)
LEMMA LoginStep ==
    ASSUME SingleThread, down = "up", down' = "up", TypeOK, HandlerShape, RunsAlone, FreshReads, OneHolder, SessionShape, NoLogout,
           AttachedSessionIsOpen, ClaimExcludesSession, LoginKeepsClaim, TimersAreStale,
           [Next]_vars
    PROVE  LoginKeepsClaim'
<1>. USE ConstantsAssumption DEF LoginKeepsClaim
<1>1. ASSUME NEW c \in Conns, Accept(c) PROVE LoginKeepsClaim'
  BY <1>1 DEF Accept, GoTo, manager, limiter, TypeOK, HandlerShape, Holds,
      OneHolder, Claiming, Attached, FreshReads
<1>2. ASSUME NEW c \in Conns, HangUp(c) PROVE LoginKeepsClaim'
  BY <1>2 DEF HangUp, Leave, GoTo, manager, limiter, TypeOK, HandlerShape,
      Holds, OneHolder, Claiming, Attached, FreshReads
<1>3. ASSUME NEW c \in Conns, ReadInner(c) PROVE LoginKeepsClaim'
  BY <1>3, SMTT(30) DEF ReadInner, Leave, GoTo, manager, limiter, TypeOK, HandlerShape,
      Holds, OneHolder, Claiming, Attached, FreshReads
<1>4. ASSUME NEW c \in Conns, CheckInner(c) PROVE LoginKeepsClaim'
  BY <1>4 DEF CheckInner, Leave, GoTo, manager, limiter, TypeOK, HandlerShape,
      Holds, OneHolder, Claiming, Attached, FreshReads
<1>5. ASSUME NEW c \in Conns, TryClaim(c) PROVE LoginKeepsClaim'
  BY <1>5, SMTT(30) DEF TryClaim, Leave, GoTo, manager, limiter, TypeOK, HandlerShape,
      Holds, OneHolder, Claiming, Attached, FreshReads
<1>6. ASSUME NEW c \in Conns, PamOpens(c) PROVE LoginKeepsClaim'
  BY <1>6 DEF PamOpens, Leave, GoTo, manager, limiter, TypeOK, HandlerShape,
      Holds, OneHolder, Claiming, Attached, FreshReads
<1>7. ASSUME NEW c \in Conns, PamReattaches(c) PROVE LoginKeepsClaim'
  BY <1>7, SMTT(30) DEF PamReattaches, Leave, GoTo, manager, limiter, TypeOK,
      HandlerShape, Holds, OneHolder, Claiming, Attached, FreshReads
<1>8. ASSUME NEW c \in Conns, PamFails(c) PROVE LoginKeepsClaim'
  BY <1>8 DEF PamFails, Leave, GoTo, manager, limiter, TypeOK, HandlerShape,
      Holds, OneHolder, Claiming, Attached, FreshReads
<1>9. ASSUME NEW c \in Conns, StartSession(c) PROVE LoginKeepsClaim'
  BY <1>9 DEF StartSession, Leave, GoTo, manager, limiter, TypeOK,
      HandlerShape, Holds, OneHolder, Claiming, Attached, FreshReads
<1>10. ASSUME NEW c \in Conns, Open(c) PROVE LoginKeepsClaim'
  BY <1>10 DEF Open, GoTo, manager, limiter, TypeOK, HandlerShape, Holds,
      OneHolder, Claiming, Attached, FreshReads
<1>11. ASSUME NEW c \in Conns, Announce(c) PROVE LoginKeepsClaim'
  BY <1>11 DEF Announce, GoTo, manager, limiter, TypeOK, HandlerShape, Holds,
      OneHolder, Claiming, Attached, FreshReads
<1>12. ASSUME NEW c \in Conns, SendOk(c) PROVE LoginKeepsClaim'
  BY <1>12 DEF SendOk, Leave, GoTo, manager, limiter, TypeOK, HandlerShape,
      Holds, OneHolder, Claiming, Attached, FreshReads
<1>13. ASSUME NEW c \in Conns, ProxyEnds(c) PROVE LoginKeepsClaim'
  BY <1>13 DEF ProxyEnds, GoTo, manager, limiter, TypeOK, HandlerShape, Holds,
      OneHolder, Claiming, Attached, FreshReads
<1>14. ASSUME NEW c \in Conns, Schedule(c) PROVE LoginKeepsClaim'
  BY <1>14 DEF Schedule, GoTo, manager, limiter, TypeOK, HandlerShape, Holds,
      OneHolder, Claiming, Attached, FreshReads
<1>15. ASSUME NEW c \in Conns, Lock(c) PROVE LoginKeepsClaim'
  BY <1>15 DEF Lock, GoTo, manager, limiter, TypeOK, HandlerShape, Holds,
      OneHolder, Claiming, Attached, FreshReads
<1>16. ASSUME NEW c \in Conns, Synced(c) PROVE LoginKeepsClaim'
  BY <1>16 DEF Synced, GoTo, manager, limiter, TypeOK, HandlerShape, Holds,
      OneHolder, Claiming, Attached, FreshReads
<1>17. ASSUME NEW c \in Conns, NEW u \in Users, GiveName(c, u) PROVE LoginKeepsClaim'
  BY <1>17 DEF GiveName, GoTo, manager, limiter, TypeOK, HandlerShape, Holds,
      OneHolder, Claiming, Attached, FreshReads
<1>18. ASSUME NEW t \in timers, TimerWakes(t) PROVE LoginKeepsClaim'
  BY <1>18 DEF TimerWakes, manager, limiter, TypeOK, HandlerShape, Holds,
      OneHolder, Claiming, Attached, FreshReads
<1>19. ASSUME NEW t \in timers, TimerReads(t) PROVE LoginKeepsClaim'
  BY <1>19 DEF TimerReads, manager, limiter, TypeOK, HandlerShape, Holds,
      OneHolder, Claiming, Attached, FreshReads
<1>20. ASSUME NEW t \in timers, TimerTakes(t) PROVE LoginKeepsClaim'
  BY <1>20 DEF TimerTakes, manager, limiter, TypeOK, HandlerShape, Holds,
      OneHolder, Claiming, Attached, FreshReads
<1>21. ASSUME NEW t \in timers, TimerDone(t) PROVE LoginKeepsClaim'
  BY <1>21 DEF TimerDone, manager, limiter, TypeOK, HandlerShape, Holds,
      OneHolder, Claiming, Attached, FreshReads
<1>22. CASE CooldownOver
  BY <1>22 DEF CooldownOver, manager, limiter, TypeOK, HandlerShape, Holds,
      OneHolder, Claiming, Attached, FreshReads
<1>23. CASE Terminate
  BY <1>23 DEF Terminate
<1>24. CASE Exit
  BY <1>24 DEF Exit
<1>25. CASE UNCHANGED vars
  BY <1>25 DEF vars, TypeOK, HandlerShape, Holds, OneHolder, Claiming,
      Attached, FreshReads
<1>. QED
  BY <1>1, <1>2, <1>3, <1>4, <1>5, <1>6, <1>7, <1>8, <1>9, <1>10, <1>11,
      <1>12, <1>13, <1>14, <1>15, <1>16, <1>17, <1>18, <1>19, <1>20, <1>21,
      <1>22, <1>23, <1>24, <1>25
      DEF Next, PamStep, SectionStep, TimerStep

(* IInv holds initially and every step keeps it: once the daemon is told to  *)
(* stop it is never up again.                                                *)
THEOREM Inductive == ASSUME SingleThread PROVE Spec => []IInv
<1>1. Init => IInv
  <2>. SUFFICES ASSUME Init PROVE IInv
    OBVIOUS
  <2>1. TypeOK
    <3>1. status \in Status /\ timers \subseteq Timer
      BY DEF Init, Status
    <3>2. locked \in BOOLEAN /\ blocked \in BOOLEAN
      BY DEF Init
    <3>. QED
      BY <3>1, <3>2, ConstantsAssumption, SMTT(30) DEF Init, TypeOK, MidSection, Awaiting
  <2>2. HandlerShape /\ RunsAlone /\ FreshReads /\ OneHolder /\ NoLogout
    BY DEF Init, HandlerShape, RunsAlone, FreshReads, OneHolder, Holds, NoLogout,
        MidSection, Attached, Claiming
  <2>3. SessionShape /\ AttachedSessionIsOpen /\ ClaimExcludesSession
    BY DEF Init, SessionShape, AttachedSessionIsOpen, ClaimExcludesSession, Attached
  <2>4. LoginKeepsClaim /\ TimersAreStale
    BY DEF Init, LoginKeepsClaim, TimersAreStale, Claiming
  <2>. QED
    BY <2>1, <2>2, <2>3, <2>4 DEF IInv
<1>2. IInv /\ [Next]_vars => IInv'
  <2>. SUFFICES ASSUME IInv, [Next]_vars PROVE IInv'
    OBVIOUS
  <2>1. TypeOK /\ HandlerShape
    BY DEF IInv
  <2>2. TypeOK' /\ HandlerShape'
    BY <2>1, TypeStep, ShapeStep
  <2>3. CASE down' = "up"
    <3>1. down = "up"
      BY <2>3 DEF Next, PamStep, SectionStep, TimerStep, Accept, HangUp, GiveName, ReadInner,
          CheckInner, TryClaim, PamOpens, PamReattaches, PamFails, StartSession, Open,
          Announce, SendOk, ProxyEnds, Schedule, Lock, Synced, TimerWakes, TimerReads,
          TimerTakes, TimerDone, CooldownOver, Terminate, Exit, vars
    <3>2. /\ RunsAlone /\ FreshReads /\ OneHolder /\ SessionShape /\ NoLogout
          /\ AttachedSessionIsOpen /\ ClaimExcludesSession /\ LoginKeepsClaim
          /\ TimersAreStale
      BY <3>1 DEF IInv
    <3>3. RunsAlone' /\ FreshReads' /\ OneHolder' /\ SessionShape' /\ NoLogout'
      BY <2>1, <2>3, <3>1, <3>2, AloneStep, FreshReadsStep, OneHolderStep,
          SessionShapeStep, NoLogoutStep
    <3>4. AttachedSessionIsOpen' /\ ClaimExcludesSession' /\ LoginKeepsClaim'
      BY <2>1, <2>3, <3>1, <3>2, AttachedStep, ClaimStep, LoginStep
    <3>5. TimersAreStale'
      BY <2>1, <2>3, <3>1, <3>2, TimersStep
    <3>. QED
      BY <2>2, <3>3, <3>4, <3>5 DEF IInv
  <2>4. CASE down' # "up"
    BY <2>2, <2>4 DEF IInv
  <2>. QED
    BY <2>3, <2>4
<1>. QED
  BY <1>1, <1>2, PTL DEF Spec

(* At most one relay connection is attached to the OS session. *)
THEOREM OneAttachmentAtATime == ASSUME SingleThread PROVE Spec => []OneAttachment
<1>1. IInv => OneAttachment
  BY DEF IInv, OneAttachment, OneHolder, Holds
<1>. QED
  BY <1>1, Inductive, PTL

(* The attached connection's session is its own and unlocked. *)
THEOREM AttachedIsOpen == ASSUME SingleThread PROVE Spec => []AttachedSessionIsOpen
<1>1. IInv => AttachedSessionIsOpen
  BY DEF IInv, AttachedSessionIsOpen
<1>. QED
  BY <1>1, Inductive, PTL

(* try_claim hands the slot out only while there is no session. *)
THEOREM ClaimOrSession == ASSUME SingleThread PROVE Spec => []ClaimExcludesSession
<1>1. IInv => ClaimExcludesSession
  BY DEF IInv, ClaimExcludesSession
<1>. QED
  BY <1>1, Inductive, PTL

(* A fresh login keeps its claim until open(). *)
THEOREM LoginOwnsClaim == ASSUME SingleThread PROVE Spec => []LoginKeepsClaim
<1>1. IInv => LoginKeepsClaim
  BY DEF IInv, LoginKeepsClaim
<1>. QED
  BY <1>1, Inductive, PTL

(* The four together: on one worker thread nobody is let in beside the user  *)
(* who claims the slot or is attached to the session, for any number of      *)
(* connections, users and logins.                                            *)
THEOREM SessionStaysExclusive == ASSUME SingleThread PROVE Spec => []SessionIsExclusive
  BY OneAttachmentAtATime, AttachedIsOpen, ClaimOrSession, LoginOwnsClaim, PTL
     DEF SessionIsExclusive

(* The idle timer of a locked session never matches: the logout is unreachable. *)
THEOREM IdleTimersNeverMatch == ASSUME SingleThread PROVE Spec => []TimersAreStale
<1>1. IInv => TimersAreStale
  BY DEF IInv, TimersAreStale
<1>. QED
  BY <1>1, Inductive, PTL

(* The heartbeat names the owner of the session. *)
THEOREM HeartbeatOwner == ASSUME SingleThread PROVE Spec => []HeartbeatNamesOwner
<1>1. IInv => HeartbeatNamesOwner
  BY DEF IInv, HeartbeatNamesOwner, SessionShape, Awaiting
<1>. QED
  BY <1>1, Inductive, PTL

(* open() never replaces the session of one user by that of another. *)
THEOREM SessionIsNotReplaced == ASSUME SingleThread PROVE Spec => OwnerIsReplacedOnlyByLogout
<1>1. ASSUME IInv, [Next]_vars, down = "up", owner # None PROVE owner' \in {owner, None}
  <2>1. ASSUME NEW c \in Conns PROVE ~Open(c)
    BY <1>1 DEF IInv, FreshReads, Open
  <2>. QED
    BY <1>1, <2>1 DEF Next, PamStep, SectionStep, TimerStep, Accept, HangUp, GiveName,
        ReadInner, CheckInner, TryClaim, PamOpens, PamReattaches, PamFails, StartSession,
        Announce, SendOk, ProxyEnds, Schedule, Lock, Synced, TimerWakes, TimerReads,
        TimerTakes, TimerDone, CooldownOver, Terminate, Exit, vars, manager
<1>2. IInv /\ [Next]_vars => [down = "up" /\ owner # None => owner' \in {owner, None}]_vars
  BY <1>1
<1>. QED
  BY <1>2, Inductive, PTL DEF Spec, OwnerIsReplacedOnlyByLogout

-----------------------------------------------------------------------------
(* WITH ANY NUMBER OF WORKER THREADS, before and after SIGTERM.              *)

(* A step that leaves the claim alone, or drops it, keeps it held: the       *)
(* handler that made it moves within the login or drops its guard.           *)
LEMMA HeldStep == ASSUME TypeOK, ClaimIsHeld, [Next]_vars PROVE ClaimIsHeld'
<1>. USE DEF ClaimIsHeld, Claiming
<1>1. CASE claim' = None
  BY <1>1
<1>2. ASSUME claim' # None, claim' = claim,
             \A c \in Conns : mode[c] = "fresh" /\ pc[c] \in Claiming =>
                 mode'[c] = mode[c] /\ user'[c] = user[c] /\ pc'[c] \in Claiming
      PROVE  ClaimIsHeld'
  BY <1>2
<1>3. ASSUME NEW c \in Conns, TryClaim(c), claim' # None PROVE ClaimIsHeld'
  <2>1. CASE claim = None
    <3>1. /\ claim' = user[c] /\ user' = user
          /\ mode' = [mode EXCEPT ![c] = "fresh"] /\ pc' = [pc EXCEPT ![c] = "pam"]
      BY <1>3, <2>1 DEF TryClaim, GoTo
    <3>. QED
      BY <3>1 DEF TypeOK
  <2>2. CASE claim # None
    <3>1. Leave(c, "idle") /\ pc[c] = "claiming"
      BY <1>3, <2>2 DEF TryClaim
    <3>. QED
      BY <1>2, <1>3, <3>1 DEF Leave, TypeOK
  <2>. QED
    BY <2>1, <2>2
<1>4. ASSUME NEW c \in Conns, NEW u \in Users, GiveName(c, u), claim' # None
      PROVE  ClaimIsHeld'
  BY <1>2, <1>4 DEF GiveName, GoTo, manager, TypeOK
<1>5. ASSUME NEW c \in Conns, Accept(c) \/ ReadInner(c) \/ CheckInner(c), claim' # None
      PROVE  ClaimIsHeld'
  BY <1>2, <1>5 DEF Accept, ReadInner, CheckInner, Leave, GoTo, manager, TypeOK
<1>6. ASSUME NEW c \in Conns, PamStep(c), claim' # None PROVE ClaimIsHeld'
  BY <1>2, <1>6 DEF PamStep, HangUp, PamOpens, PamReattaches, PamFails, Leave, GoTo,
      manager, TypeOK
<1>7. ASSUME NEW c \in Conns, StartSession(c) \/ Open(c) \/ Announce(c) \/ SendOk(c),
             claim' # None
      PROVE  ClaimIsHeld'
  BY <1>2, <1>7 DEF StartSession, Open, Announce, SendOk, Leave, GoTo, manager, TypeOK
<1>8. ASSUME NEW c \in Conns, ProxyEnds(c) \/ Schedule(c) \/ Lock(c) \/ Synced(c),
             claim' # None
      PROVE  ClaimIsHeld'
  BY <1>2, <1>8 DEF ProxyEnds, Schedule, Lock, Synced, GoTo, manager, TypeOK
<1>9. ASSUME NEW t \in timers, TimerStep(t) PROVE ClaimIsHeld'
  BY <1>9 DEF TimerStep, TimerWakes, TimerReads, TimerTakes, TimerDone, manager
<1>10. CASE CooldownOver \/ Terminate \/ Exit \/ UNCHANGED vars
  BY <1>10 DEF CooldownOver, Terminate, Exit, vars, manager
<1>. QED
  BY <1>1, <1>3, <1>4, <1>5, <1>6, <1>7, <1>8, <1>9, <1>10 DEF Next, SectionStep

(* The types, what a handler knows of itself, and a held claim, whatever     *)
(* SingleThread says.                                                        *)
THEOREM AnyThreads == Spec => [](TypeOK /\ HandlerShape /\ ClaimIsHeld)
<1>1. Init => TypeOK /\ HandlerShape /\ ClaimIsHeld
  <2>. SUFFICES ASSUME Init PROVE TypeOK /\ HandlerShape /\ ClaimIsHeld
    OBVIOUS
  <2>1. status \in Status /\ timers \subseteq Timer
    BY DEF Init, Status
  <2>2. locked \in BOOLEAN /\ blocked \in BOOLEAN
    BY DEF Init
  <2>3. TypeOK
    BY <2>1, <2>2, ConstantsAssumption, SMTT(30) DEF Init, TypeOK, MidSection, Awaiting
  <2>. QED
    BY <2>3 DEF Init, HandlerShape, ClaimIsHeld
<1>2. TypeOK /\ HandlerShape /\ ClaimIsHeld /\ [Next]_vars
        => (TypeOK /\ HandlerShape /\ ClaimIsHeld)'
  BY TypeStep, ShapeStep, HeldStep
<1>. QED
  BY <1>1, <1>2, PTL DEF Spec

(* Every variable of the daemon stays in its range, the login rate limiter's *)
(* count of failures below its limit.                                        *)
THEOREM TypeCorrect == Spec => []TypeOK
  BY AnyThreads, PTL

(* A claimed slot always has a login that goes on and that will free it: the *)
(* guard of try_claim is dropped on every way out, on any number of worker   *)
(* threads and while SIGTERM's logout waits.                                 *)
THEOREM ClaimAlwaysHeld == Spec => []ClaimIsHeld
  BY AnyThreads, PTL

-----------------------------------------------------------------------------
(* ViewerConnect.                                                          *)

(* What a call may still have to try. *)
Todos == {<<>>, <<"direct", "relay">>, <<"relay", "direct">>, <<"relay">>, <<"direct">>}

ClientType ==
  [generation : 0..MaxCalls, intentional : BOOLEAN, timer : BOOLEAN,
   transport : (Calls \X Paths) \cup {NoTransport}, path : Paths \cup {"none"},
   state : {"new", "connecting", "connected", "failed", "disconnected"},
   available : BOOLEAN, hadDirect : BOOLEAN, probe : 0..MaxCalls, ended : BOOLEAN]

CallType ==
  [Calls -> [pc : {"none", "fetch", "opening", "stream", "connected", "ended"}, todo : Todos]]

TransportType == [Calls \X Paths -> {"none", "opening", "open", "closed"}]

ProbingType == [Calls -> [pc : {"none", "idle", "running"}, active : BOOLEAN]]

(* The fields of every variable. *)
ViewerShape ==
  /\ client \in ClientType /\ call \in CallType
  /\ transport \in TransportType /\ probing \in ProbingType
  /\ directFailed \in BOOLEAN /\ displaced \subseteq Calls

(* A call that runs began in a generation there has been, and one that tries *)
(* a candidate has one.                                                      *)
CallsBegan ==
  \A g \in Calls :
    /\ call[g].pc # "none" => g <= client.generation
    /\ call[g].pc \in {"opening", "stream", "connected"} => call[g].todo # <<>>

(* A probe that reports is the client's. *)
ProbeIsTheClients ==
  /\ client.probe <= client.generation
  /\ \A g \in Calls : probing[g].active => client.probe = g

(* The client's transport is that of a call that has come past opening it. *)
HeldWasReady ==
  client.transport # NoTransport =>
    /\ call[client.transport[1]].pc \in {"stream", "connected", "ended"}
    /\ transport[client.transport] \in {"open", "closed"}

(* Unless a superseded call has displaced it, a connection that is open is   *)
(* the client's, of the latest call, which has not ended, and of the path    *)
(* the client shows.                                                         *)
OpenIsTheLatest ==
  displaced = {} =>
    \A t \in Calls \X Paths :
      transport[t] = "open" =>
        /\ t = client.transport /\ t[1] = client.generation
        /\ call[t[1]].pc \in {"stream", "connected"} /\ t = Trying(t[1])
        /\ client.path = t[2]

(* Nor is a probe active, or its offer shown, off the relay. *)
ProbesOnRelay ==
  displaced = {} /\ (client.available \/ \E g \in Calls : probing[g].active) => client.path = "relay"

(* The timer runs only after the latest call has ended. *)
TimerAfterEnd ==
  client.timer => client.generation \in Calls /\ call[client.generation].pc = "ended"

(* The inductive invariant of the viewer's connection. *)
ViewerIInv ==
  /\ ViewerShape /\ CallsBegan /\ ProbeIsTheClients /\ HeldWasReady
  /\ OpenIsTheLatest /\ ProbesOnRelay /\ TimerAfterEnd /\ LeavingIsFinal

(* What is left of a list of candidates. *)
LEMMA TodoFacts ==
  ASSUME NEW s \in Todos, s # <<>>
  PROVE  /\ Head(s) \in Paths /\ s[1] = Head(s) /\ (Len(s) = 1 \/ Len(s) = 2)
         /\ Len(s) > 1 => /\ Tail(s) \in Todos /\ Tail(s) # <<>>
                          /\ Head(Tail(s)) = s[2] /\ s[2] \in Paths /\ s[2] # Head(s)
<1>1. CASE s = <<"direct", "relay">>  BY <1>1, SMTT(30) DEF Todos, Paths
<1>2. CASE s = <<"relay", "direct">>  BY <1>2, SMTT(30) DEF Todos, Paths
<1>3. CASE s = <<"relay">>  BY <1>3, SMTT(30) DEF Todos, Paths
<1>4. CASE s = <<"direct">>  BY <1>4, SMTT(30) DEF Todos, Paths
<1> QED  BY <1>1, <1>2, <1>3, <1>4 DEF Todos

(* No call has the number 0. *)
LEMMA NoTransportIsNone ==
  /\ 0 \notin Calls /\ NoTransport \notin Calls \X Paths /\ NoTransport[1] = 0
  /\ Calls \subseteq 0..MaxCalls
BY ViewerAssumption, SMTT(30) DEF NoTransport, Calls, Paths

(* transport.close() of any transport. *)
LEMMA ClosedFacts ==
  ASSUME NEW ts \in TransportType, NEW t
  PROVE  /\ Closed(ts, t) \in TransportType
         /\ \A u \in Calls \X Paths : /\ Closed(ts, t)[u] = IF u = t THEN "closed" ELSE ts[u]
                                      /\ Closed(ts, t)[u] = "open" => ts[u] = "open" /\ u # t
BY DEF Closed, TransportType

(* The stop function ends one probe. *)
LEMMA StoppedFacts ==
  ASSUME probing \in ProbingType, NEW p
  PROVE  /\ Stopped(p) \in ProbingType
         /\ \A g \in Calls : Stopped(p)[g].active => probing[g].active /\ g # p
BY DEF Stopped, ProbingType

(* setConnectionPath changes the path, and with it the probe and its offer,  *)
(* and nothing else.                                                         *)
LEMMA PathFacts ==
  ASSUME NEW c \in ClientType, NEW path \in Paths \cup {"none"}, ViewerShape,
         SetConnectionPath(c, path)
  PROVE  /\ client' \in ClientType /\ probing' \in ProbingType
         /\ client'.generation = c.generation /\ client'.intentional = c.intentional
         /\ client'.timer = c.timer /\ client'.transport = c.transport
         /\ client'.state = c.state /\ client'.path = path
         /\ client'.probe = c.probe \/ client'.probe = 0
<1>1. CASE c.path = path  BY <1>1 DEF SetConnectionPath, ViewerShape
<1>2. CASE c.path # path
  <2>1. client' = [c EXCEPT !.path = path, !.available = FALSE, !.probe = 0]
    BY <1>2 DEF SetConnectionPath
  <2>2. probing' \in ProbingType  BY <1>2, StoppedFacts DEF SetConnectionPath, ViewerShape
  <2>3. 0 \in 0..MaxCalls  BY ViewerAssumption, SMTT(30)
  <2> QED  BY <2>1, <2>2, <2>3 DEF ClientType
<1> QED  BY <1>1, <1>2

(* A probe goes on only on the path it was begun on. *)
LEMMA PathProbes ==
  ASSUME NEW c \in ClientType, NEW path \in Paths \cup {"none"}, ViewerIInv,
         SetConnectionPath(c, path), displaced \subseteq displaced',
         c.probe = client.probe, c.path = client.path, c.available = client.available,
         client.generation <= c.generation
  PROVE  ProbeIsTheClients' /\ ProbesOnRelay'
<1> USE DEF ViewerIInv
<1>0. /\ client \in ClientType /\ probing \in ProbingType
      /\ client.generation \in Nat /\ c.generation \in Nat /\ client.probe \in Nat
  BY ViewerAssumption, SMTT(30) DEF ViewerShape, ClientType
<1>d. displaced' = {} => displaced = {}  OBVIOUS
<1>1. CASE c.path = path
  <2>1. client' = c /\ probing' = probing  BY <1>1 DEF SetConnectionPath
  <2> QED  BY <1>0, <1>d, <2>1, SMTT(30) DEF ProbeIsTheClients, ProbesOnRelay
<1>2. CASE c.path # path
  <2>1. client' = [c EXCEPT !.path = path, !.available = FALSE, !.probe = 0]
    BY <1>2 DEF SetConnectionPath
  <2>2. client'.probe = 0 /\ client'.available = FALSE /\ client'.generation = c.generation
    BY <2>1 DEF ClientType
  <2>3. \A g \in Calls : ~probing'[g].active
    BY <1>2, <1>0, StoppedFacts DEF SetConnectionPath, ProbeIsTheClients
  <2> QED  BY <1>0, <2>2, <2>3, SMTT(30) DEF ProbeIsTheClients, ProbesOnRelay
<1> QED  BY <1>1, <1>2

(* closeCurrent leaves nothing open, and no probe. *)
LEMMA CloseCurrentFacts ==
  ASSUME NEW c \in ClientType, NEW ts \in TransportType, ViewerIInv, CloseCurrent(c, ts),
         displaced' = displaced, \A t \in Calls \X Paths : ts[t] = "open" => transport[t] = "open",
         c.probe = client.probe, c.path = client.path, c.available = client.available,
         c.transport = client.transport, client.generation <= c.generation
  PROVE  /\ client' \in ClientType /\ probing' \in ProbingType /\ transport' \in TransportType
         /\ client'.generation = c.generation /\ client'.intentional = c.intentional
         /\ client'.timer = c.timer /\ client'.state = c.state
         /\ ProbeIsTheClients' /\ ProbesOnRelay' /\ HeldWasReady' /\ OpenIsTheLatest'
<1> USE DEF ViewerIInv
<1> DEFINE e == [c EXCEPT !.transport = NoTransport]
<1>1. /\ e \in ClientType /\ e.generation = c.generation /\ e.intentional = c.intentional
      /\ e.timer = c.timer /\ e.state = c.state /\ e.transport = NoTransport
      /\ e.probe = c.probe /\ e.path = c.path /\ e.available = c.available
  BY DEF ClientType
<1>2. SetConnectionPath(e, "none") /\ transport' = Closed(ts, c.transport)  BY DEF CloseCurrent
<1> HIDE DEF e
<1>3. /\ client' \in ClientType /\ probing' \in ProbingType
      /\ client'.generation = e.generation /\ client'.intentional = e.intentional
      /\ client'.timer = e.timer /\ client'.transport = e.transport /\ client'.state = e.state
  BY <1>1, <1>2, PathFacts
<1>4. ProbeIsTheClients' /\ ProbesOnRelay'  BY <1>1, <1>2, PathProbes
<1>5. transport' \in TransportType  BY <1>2, ClosedFacts, SMTT(30)
<1>6. HeldWasReady'  BY <1>1, <1>3 DEF HeldWasReady, NoTransport
<1>7. OpenIsTheLatest'
  <2>1. SUFFICES ASSUME displaced = {}, NEW t \in Calls \X Paths, transport'[t] = "open" PROVE FALSE
    BY DEF OpenIsTheLatest
  <2>2. Closed(ts, c.transport)[t] = "open"  BY <1>2, <2>1
  <2>3. ts[t] = "open" /\ t # c.transport
    <3> DEFINE h == c.transport
    <3> HIDE DEF h
    <3>1. \A u \in Calls \X Paths : Closed(ts, h)[u] = "open" => ts[u] = "open" /\ u # h
      BY ClosedFacts, SMTT(30)
    <3> QED  BY <2>2, <3>1 DEF h
  <2>4. displaced = {} /\ transport[t] = "open" /\ t # client.transport  BY <2>1, <2>3
  <2> QED  BY <2>4 DEF OpenIsTheLatest
<1> QED  BY <1>1, <1>3, <1>4, <1>5, <1>6, <1>7

(* A call's record once its pc has changed. *)
LEMMA PcFacts ==
  ASSUME call \in CallType, NEW g \in Calls,
         NEW to \in {"fetch", "stream", "connected", "ended"}, call' = [call EXCEPT ![g].pc = to]
  PROVE  /\ call' \in CallType /\ call'[g].pc = to /\ call'[g].todo = call[g].todo
         /\ \A h \in Calls : h # g => call'[h] = call[h]
BY DEF CallType

(* connect() and disconnect() begin a generation with nothing open. *)
LEMMA ConnectInv ==
  ASSUME ViewerIInv, Connect  PROVE ViewerIInv' /\ client'.generation # client.generation
<1> USE DEF ViewerIInv, ViewerShape
<1> DEFINE n == client.generation + 1
           c == [client EXCEPT !.generation = @ + 1, !.intentional = FALSE, !.timer = FALSE,
                               !.state = "connecting"]
<1>0. client.generation \in 0..MaxCalls  BY DEF ClientType
<1>1. n \in Calls /\ n \in 0..MaxCalls /\ client.generation <= n /\ n # client.generation
  BY <1>0, ViewerAssumption, SMTT(30) DEF Connect, Calls
<1>2. /\ c \in ClientType /\ c.generation = n /\ c.timer = FALSE /\ c.intentional = FALSE
      /\ c.probe = client.probe /\ c.path = client.path /\ c.available = client.available
      /\ c.transport = client.transport
  BY <1>1 DEF ClientType
<1>3. /\ CloseCurrent(c, transport) /\ call' = [call EXCEPT ![n].pc = "fetch"]
      /\ directFailed' = directFailed /\ displaced' = displaced
  BY DEF Connect
<1> HIDE DEF c
<1>4. /\ client' \in ClientType /\ probing' \in ProbingType /\ transport' \in TransportType
      /\ client'.generation = n /\ client'.timer = FALSE
      /\ ProbeIsTheClients' /\ ProbesOnRelay' /\ HeldWasReady' /\ OpenIsTheLatest'
  BY <1>1, <1>2, <1>3, CloseCurrentFacts
<1>5. /\ call' \in CallType /\ call'[n].pc = "fetch"
      /\ \A h \in Calls : h # n => call'[h] = call[h]
  BY <1>1, <1>3, PcFacts
<1>6. CallsBegan'
  <2>1. ASSUME NEW h \in Calls
        PROVE  /\ call'[h].pc # "none" => h <= client'.generation
               /\ call'[h].pc \in {"opening", "stream", "connected"} => call'[h].todo # <<>>
    <3>1. CASE h = n  BY <3>1, <1>0, <1>1, <1>4, <1>5, ViewerAssumption, SMTT(30)
    <3>2. CASE h # n
      <4>1. call[h].pc # "none" => h <= client.generation  BY DEF CallsBegan
      <4>2. h <= client.generation => h <= n  BY <1>0, ViewerAssumption, SMTT(30) DEF Calls
      <4> QED  BY <3>2, <4>1, <4>2, <1>4, <1>5 DEF CallsBegan
    <3> QED  BY <3>1, <3>2
  <2> QED  BY <2>1 DEF CallsBegan
<1> QED  BY <1>1, <1>3, <1>4, <1>5, <1>6 DEF TimerAfterEnd, LeavingIsFinal

(* The user disconnects. *)
LEMMA DisconnectInv ==
  ASSUME ViewerIInv, Disconnect  PROVE ViewerIInv' /\ client'.generation # client.generation
<1> USE DEF ViewerIInv, ViewerShape
<1> DEFINE n == client.generation + 1
           c == [client EXCEPT !.generation = @ + 1, !.intentional = TRUE, !.timer = FALSE,
                               !.hadDirect = FALSE, !.state = "disconnected"]
<1>0. client.generation \in 0..MaxCalls  BY DEF ClientType
<1>1. n \in Calls /\ n \in 0..MaxCalls /\ client.generation <= n /\ n # client.generation
  BY <1>0, ViewerAssumption, SMTT(30) DEF Disconnect, Calls
<1>2. /\ c \in ClientType /\ c.generation = n /\ c.timer = FALSE
      /\ c.probe = client.probe /\ c.path = client.path /\ c.available = client.available
      /\ c.transport = client.transport
  BY <1>1 DEF ClientType
<1>3. CloseCurrent(c, transport) /\ UNCHANGED <<call, directFailed, displaced>>
  BY DEF Disconnect
<1> HIDE DEF c
<1>4. /\ client' \in ClientType /\ probing' \in ProbingType /\ transport' \in TransportType
      /\ client'.generation = n /\ client'.timer = FALSE
      /\ ProbeIsTheClients' /\ ProbesOnRelay' /\ HeldWasReady' /\ OpenIsTheLatest'
  BY <1>1, <1>2, <1>3, CloseCurrentFacts
<1>6. CallsBegan'
  <2>1. ASSUME NEW h \in Calls, h <= client.generation PROVE h <= n
    BY <1>0, <2>1, ViewerAssumption, SMTT(30) DEF Calls
  <2> QED  BY <2>1, <1>3, <1>4 DEF CallsBegan
<1> QED  BY <1>1, <1>3, <1>4, <1>6 DEF TimerAfterEnd, LeavingIsFinal

(* scheduleReconnect starts the timer unless the viewer has left. *)
LEMMA ScheduledFacts ==
  ASSUME NEW c \in ClientType
  PROVE  /\ Scheduled(c) \in ClientType /\ Scheduled(c).generation = c.generation
         /\ Scheduled(c).intentional = c.intentional
         /\ Scheduled(c).timer => c.timer \/ ~c.intentional
         /\ Scheduled(c).probe = c.probe /\ Scheduled(c).path = c.path
         /\ Scheduled(c).available = c.available /\ Scheduled(c).transport = c.transport
BY DEF Scheduled, ClientType

(* The call that counts ends with its connection closed, whatever is then    *)
(* scheduled.                                                                *)
LEMMA EndsInv ==
  ASSUME ViewerIInv, NEW g \in Calls, NEW c \in ClientType, NEW ts \in TransportType,
         call[g].pc # "none", call' = [call EXCEPT ![g].pc = "ended"], CloseCurrent(c, ts),
         displaced' = displaced, directFailed' \in BOOLEAN,
         \A t \in Calls \X Paths : ts[t] = "open" => transport[t] = "open",
         c.probe = client.probe, c.path = client.path, c.available = client.available,
         c.transport = client.transport, client.generation = c.generation,
         c.timer => client.timer \/ g = client.generation,
         displaced = {} /\ c.intentional => ~c.timer
  PROVE  ViewerIInv'
<1> USE DEF ViewerIInv, ViewerShape
<1>0. client.generation \in Nat /\ client.generation <= c.generation
  BY ViewerAssumption, SMTT(30) DEF ClientType
<1>1. /\ client' \in ClientType /\ probing' \in ProbingType /\ transport' \in TransportType
      /\ client'.generation = c.generation /\ client'.timer = c.timer
      /\ client'.intentional = c.intentional
      /\ ProbeIsTheClients' /\ ProbesOnRelay' /\ HeldWasReady' /\ OpenIsTheLatest'
  BY <1>0, CloseCurrentFacts
<1>2. /\ call' \in CallType /\ call'[g].pc = "ended" /\ \A h \in Calls : h # g => call'[h] = call[h]
  BY PcFacts
<1>3. CallsBegan'  BY <1>1, <1>2 DEF CallsBegan
<1>4. TimerAfterEnd'  BY <1>1, <1>2, SMTT(30) DEF TimerAfterEnd
<1> QED  BY <1>1, <1>2, <1>3, <1>4 DEF LeavingIsFinal

(* A call that does not count ends without the client's knowing. *)
LEMMA EndsSilentlyInv ==
  ASSUME ViewerIInv, NEW g \in Calls, NEW u,
         call[g].pc # "none", call' = [call EXCEPT ![g].pc = "ended"],
         transport' = transport \/ transport' = Closed(transport, u),
         UNCHANGED <<client, probing, displaced>>, directFailed' \in BOOLEAN,
         displaced = {} => \A t \in Calls \X Paths : transport'[t] = "open" => t[1] # g
  PROVE  ViewerIInv'
<1> USE DEF ViewerIInv, ViewerShape
<1>1. /\ transport' \in TransportType
      /\ \A t \in Calls \X Paths : /\ transport'[t] \in {transport[t], "closed"}
                                   /\ transport'[t] = "open" => transport[t] = "open"
  BY ClosedFacts, SMTT(30)
<1>2. /\ call' \in CallType /\ call'[g].pc = "ended" /\ \A h \in Calls : h # g => call'[h] = call[h]
  BY PcFacts
<1>3. CallsBegan'  BY <1>2 DEF CallsBegan
<1>4. HeldWasReady'
  <2>1. client.transport # NoTransport => client.transport \in Calls \X Paths  BY DEF ClientType
  <2>2. client.transport # NoTransport => client.transport[1] \in Calls  BY <2>1
  <2>3. ASSUME client.transport # NoTransport
        PROVE  call'[client.transport[1]].pc \in {"stream", "connected", "ended"}
    BY <1>2, <2>2, <2>3 DEF HeldWasReady
  <2> QED  BY <1>1, <2>1, <2>3 DEF HeldWasReady
<1>5. OpenIsTheLatest'
  <2>1. ASSUME displaced = {}, NEW t \in Calls \X Paths, transport'[t] = "open"
        PROVE  /\ t = client.transport /\ t[1] = client.generation
               /\ call'[t[1]].pc \in {"stream", "connected"} /\ t = <<t[1], Head(call'[t[1]].todo)>>
               /\ client.path = t[2]
    BY <1>1, <1>2, <2>1 DEF OpenIsTheLatest, Trying
  <2> QED  BY <2>1 DEF OpenIsTheLatest, Trying
<1>6. TimerAfterEnd'  BY <1>2 DEF TimerAfterEnd
<1> QED  BY <1>1, <1>2, <1>3, <1>4, <1>5, <1>6
          DEF ProbeIsTheClients, ProbesOnRelay, LeavingIsFinal

(* The catch of connect(). *)
LEMMA GivesUpInv ==
  ASSUME ViewerIInv, NEW g \in Calls, NEW ts, NEW u, GivesUp(g, ts),
         call[g].pc \in {"fetch", "opening", "stream"},
         ts = transport \/ ts = Closed(transport, u),
         displaced' = displaced, directFailed' \in BOOLEAN
  PROVE  ViewerIInv'
<1> USE DEF ViewerIInv, ViewerShape
<1>0. /\ ts \in TransportType
      /\ \A t \in Calls \X Paths : ts[t] = "open" => transport[t] = "open"
  BY ClosedFacts, SMTT(30)
<1>1. CASE g # client.generation /\ transport' = ts /\ UNCHANGED <<client, probing>>
  <2>1. displaced = {} => \A t \in Calls \X Paths : transport'[t] = "open" => t[1] # g
    BY <1>0, <1>1 DEF OpenIsTheLatest
  <2> QED  BY <1>1, <2>1, EndsSilentlyInv DEF GivesUp
<1>2. CASE g = client.generation /\ CloseCurrent(Scheduled([client EXCEPT !.state = "failed"]), ts)
  <2> DEFINE b == [client EXCEPT !.state = "failed"]
             c == Scheduled(b)
  <2>1. /\ b \in ClientType /\ b.generation = client.generation /\ b.timer = client.timer
        /\ b.intentional = client.intentional
        /\ b.probe = client.probe /\ b.path = client.path /\ b.available = client.available
        /\ b.transport = client.transport
    BY DEF ClientType
  <2>2. CloseCurrent(c, ts) /\ call' = [call EXCEPT ![g].pc = "ended"]  BY <1>2 DEF GivesUp
  <2> HIDE DEF b
  <2>3. /\ c \in ClientType /\ c.generation = b.generation /\ c.intentional = b.intentional
        /\ c.timer => b.timer \/ ~b.intentional
        /\ c.probe = b.probe /\ c.path = b.path /\ c.available = b.available
        /\ c.transport = b.transport
    BY <2>1, ScheduledFacts
  <2> HIDE DEF c
  <2>4. displaced = {} /\ c.intentional => ~c.timer  BY <2>1, <2>3 DEF LeavingIsFinal
  <2> QED  BY <1>0, <1>2, <2>1, <2>2, <2>3, <2>4, EndsInv
<1> QED  BY <1>1, <1>2 DEF GivesUp

(* Discovery fails, and with it the call. *)
LEMMA DiscoveryFailsInv ==
  ASSUME ViewerIInv, NEW g \in Calls, DiscoveryFails(g)  PROVE ViewerIInv'
BY GivesUpInv DEF DiscoveryFails, ViewerIInv, ViewerShape

(* The stream of a candidate does not open. *)
LEMMA StreamFailsInv ==
  ASSUME ViewerIInv, NEW g \in Calls, StreamFails(g)  PROVE ViewerIInv'
BY GivesUpInv DEF StreamFails, ViewerIInv, ViewerShape

(* The open transport closed. *)
LEMMA HandleClosedInv ==
  ASSUME ViewerIInv, NEW g \in Calls, HandleClosed(g)  PROVE ViewerIInv'
<1> USE DEF ViewerIInv, ViewerShape
<1>0. /\ call[g].pc = "connected" /\ transport[Trying(g)] = "closed" /\ displaced' = displaced
      /\ call' = [call EXCEPT ![g].pc = "ended"] /\ directFailed' = directFailed
  BY DEF HandleClosed
<1>1. CASE g = client.generation /\ client.transport = Trying(g) /\ ~client.intentional
  <2> DEFINE b == [client EXCEPT !.state = "disconnected"]
             c == Scheduled(b)
  <2>1. /\ b \in ClientType /\ b.generation = client.generation /\ b.timer = client.timer
        /\ b.intentional = client.intentional
        /\ b.probe = client.probe /\ b.path = client.path /\ b.available = client.available
        /\ b.transport = client.transport
    BY DEF ClientType
  <2>2. CloseCurrent(c, transport)  BY <1>1 DEF HandleClosed
  <2> HIDE DEF b
  <2>3. /\ c \in ClientType /\ c.generation = b.generation /\ c.intentional = b.intentional
        /\ c.timer => b.timer \/ ~b.intentional
        /\ c.probe = b.probe /\ c.path = b.path /\ c.available = b.available
        /\ c.transport = b.transport
    BY <2>1, ScheduledFacts
  <2> HIDE DEF c
  <2>4. displaced = {} /\ c.intentional => ~c.timer  BY <2>1, <2>3, <1>1
  <2> QED  BY <1>0, <1>1, <2>1, <2>2, <2>3, <2>4, EndsInv
<1>2. CASE ~(g = client.generation /\ client.transport = Trying(g) /\ ~client.intentional)
  <2>1. UNCHANGED <<client, transport, probing>>  BY <1>2 DEF HandleClosed
  <2>2. displaced = {} => \A t \in Calls \X Paths : transport'[t] = "open" => t[1] # g
    BY <1>0, <2>1 DEF OpenIsTheLatest
  <2> QED  BY <1>0, <2>1, <2>2, EndsSilentlyInv
<1> QED  BY <1>1, <1>2

(* The host ended the session. *)
LEMMA SessionEndsInv ==
  ASSUME ViewerIInv, NEW g \in Calls, SessionEnds(g)  PROVE ViewerIInv'
<1> USE DEF ViewerIInv, ViewerShape
<1>0. /\ call[g].pc = "connected" /\ transport[Trying(g)] = "open" /\ displaced' = displaced
      /\ call' = [call EXCEPT ![g].pc = "ended"] /\ directFailed' = directFailed
  BY DEF SessionEnds
<1>1. PICK s \in {"failed", "disconnected"} :
        CloseCurrent([client EXCEPT !.intentional = TRUE, !.state = s,
                                    !.ended = (@ \/ s = "disconnected")], transport)
  BY DEF SessionEnds
<1> DEFINE c == [client EXCEPT !.intentional = TRUE, !.state = s, !.ended = (@ \/ s = "disconnected")]
<1>2. (client.ended \/ s = "disconnected") \in BOOLEAN  OBVIOUS
<1>3. /\ c \in ClientType /\ c.generation = client.generation /\ c.timer = client.timer
      /\ c.probe = client.probe /\ c.path = client.path /\ c.available = client.available
      /\ c.transport = client.transport
  BY <1>2 DEF ClientType
<1> HIDE DEF c
<1>4. CloseCurrent(c, transport)  BY <1>1 DEF c
<1>5. displaced = {} => ~client.timer
  <2>1. Trying(g) \in Calls \X Paths /\ Trying(g)[1] = g
    BY <1>0, TodoFacts DEF Trying, CallsBegan, CallType
  <2> QED  BY <1>0, <2>1 DEF OpenIsTheLatest, TimerAfterEnd
<1> QED  BY <1>0, <1>3, <1>4, <1>5, EndsInv

(* The transport that call g tries. *)
LEMMA TryingFacts ==
  ASSUME ViewerIInv, NEW g \in Calls, call[g].pc \in {"opening", "stream", "connected"}
  PROVE  /\ Trying(g) \in Calls \X Paths /\ Trying(g)[1] = g /\ Trying(g)[2] = Head(call[g].todo)
         /\ Head(call[g].todo) \in Paths /\ call[g].todo \in Todos /\ call[g].todo # <<>>
BY TodoFacts DEF Trying, CallsBegan, CallType, ViewerIInv, ViewerShape

(* While no transport of g was ready, a change of what g has yet to try      *)
(* disturbs no connection.                                                   *)
LEMMA NextCandidateInv ==
  ASSUME ViewerIInv, NEW g \in Calls, call[g].pc \in {"fetch", "opening"},
         NEW todo \in Todos, todo # <<>>, NEW p \in Paths,
         call' \in CallType, call'[g].pc = "opening", call'[g].todo = todo,
         \A h \in Calls : h # g => call'[h] = call[h], transport' \in TransportType,
         \A t \in Calls \X Paths : t[1] # g => transport'[t] = transport[t],
         \A q \in Paths : transport'[<<g, q>>] = "open" => transport[<<g, q>>] = "open",
         UNCHANGED <<probing, displaced>>, directFailed' \in BOOLEAN,
         NEW b \in BOOLEAN, client' = [client EXCEPT !.hadDirect = b]
  PROVE  ViewerIInv'
<1> USE DEF ViewerIInv, ViewerShape
<1>1. /\ client' \in ClientType /\ client'.generation = client.generation
      /\ client'.timer = client.timer /\ client'.intentional = client.intentional
      /\ client'.probe = client.probe /\ client'.path = client.path
      /\ client'.available = client.available /\ client'.transport = client.transport
  BY DEF ClientType
<1>3. CallsBegan'  BY <1>1 DEF CallsBegan
<1>4. HeldWasReady'
  <2>1. client.transport # NoTransport => client.transport \in Calls \X Paths  BY DEF ClientType
  <2>2. client.transport # NoTransport => client.transport[1] \in Calls /\ client.transport[1] # g
    BY <2>1 DEF HeldWasReady
  <2> QED  BY <1>1, <2>1, <2>2 DEF HeldWasReady
<1>5. OpenIsTheLatest'
  <2>1. SUFFICES ASSUME displaced = {}, NEW t \in Calls \X Paths, transport'[t] = "open"
                 PROVE  /\ t = client'.transport /\ t[1] = client'.generation
                        /\ call'[t[1]].pc \in {"stream", "connected"}
                        /\ t = <<t[1], Head(call'[t[1]].todo)>> /\ client'.path = t[2]
    BY DEF OpenIsTheLatest, Trying
  <2>2. transport[t] = "open"
    <3>1. CASE t[1] = g
      <4>1. t = <<g, t[2]>> /\ t[2] \in Paths  BY <3>1, SMTT(30)
      <4> QED  BY <4>1, <2>1
    <3> QED  BY <3>1, <2>1
  <2>3. t[1] # g  BY <2>1, <2>2 DEF OpenIsTheLatest
  <2> QED  BY <1>1, <2>1, <2>2, <2>3 DEF OpenIsTheLatest, Trying
<1>6. TimerAfterEnd'  BY <1>1 DEF TimerAfterEnd
<1> QED  BY <1>1, <1>3, <1>4, <1>5, <1>6
          DEF ProbeIsTheClients, ProbesOnRelay, LeavingIsFinal

(* Discovery gives the candidates to try. *)
LEMMA DiscoveredInv ==
  ASSUME ViewerIInv, NEW g \in Calls, Discovered(g)  PROVE ViewerIInv'
<1> USE DEF ViewerIInv, ViewerShape
<1>1. PICK offer \in Offers :
        /\ client' = [client EXCEPT !.hadDirect = (offer # <<"relay">>)]
        /\ call' = [call EXCEPT ![g] = [pc |-> "opening", todo |-> Ordered(offer)]]
        /\ transport' = [transport EXCEPT ![<<g, Ordered(offer)[1]>>] = "opening"]
  BY DEF Discovered
<1>2. Ordered(offer) \in Todos /\ Ordered(offer) # <<>>
  <2>1. CASE offer = <<"direct", "relay">>  BY <2>1 DEF Ordered, Todos
  <2>2. CASE offer = <<"relay">>  BY <2>2 DEF Ordered, Todos
  <2>3. CASE offer = <<"direct">>  BY <2>3 DEF Ordered, Todos
  <2> QED  BY <2>1, <2>2, <2>3 DEF Offers
<1>3. Ordered(offer)[1] \in Paths  BY <1>2, TodoFacts
<1>4. <<g, Ordered(offer)[1]>> \in Calls \X Paths  BY <1>3
<1>5. /\ transport' \in TransportType
      /\ \A t \in Calls \X Paths : t[1] # g => transport'[t] = transport[t]
      /\ \A q \in Paths : transport'[<<g, q>>] = "open" => transport[<<g, q>>] = "open"
  BY <1>1, <1>4, SMTT(30) DEF TransportType
<1>6. (offer # <<"relay">>) \in BOOLEAN  OBVIOUS
<1>8. /\ call' \in CallType /\ call'[g].pc = "opening" /\ call'[g].todo = Ordered(offer)
      /\ \A h \in Calls : h # g => call'[h] = call[h]
  BY <1>1, <1>2 DEF CallType
<1>7. call[g].pc = "fetch" /\ UNCHANGED <<directFailed, probing, displaced>>  BY DEF Discovered
<1> QED  BY <1>1, <1>2, <1>3, <1>5, <1>6, <1>7, <1>8, NextCandidateInv

(* A candidate fails and the next one is tried. *)
LEMMA CandidateFailsInv ==
  ASSUME ViewerIInv, NEW g \in Calls, CandidateFails(g)  PROVE ViewerIInv'
<1> USE DEF ViewerIInv, ViewerShape
<1>0. /\ call[g].pc = "opening" /\ displaced' = displaced
      /\ directFailed' = (directFailed \/ Head(call[g].todo) = "direct")
  BY DEF CandidateFails
<1>a. directFailed' \in BOOLEAN  BY <1>0
<1>b. /\ Trying(g) \in Calls \X Paths /\ Trying(g)[1] = g
      /\ call[g].todo \in Todos /\ call[g].todo # <<>>
  BY <1>0, TryingFacts
<1>1. CASE GivesUp(g, Closed(transport, Trying(g)))
  BY <1>0, <1>a, <1>1, GivesUpInv
<1>2. CASE /\ Len(call[g].todo) > 1
           /\ call' = [call EXCEPT ![g].todo = Tail(@)]
           /\ transport' = [Closed(transport, Trying(g)) EXCEPT ![<<g, call[g].todo[2]>>] = "opening"]
           /\ UNCHANGED <<client, probing>>
  <2> DEFINE todo == Tail(call[g].todo)
             p == call[g].todo[2]
             ts == Closed(transport, Trying(g))
  <2>1. todo \in Todos /\ todo # <<>> /\ p \in Paths  BY <1>2, <1>b, TodoFacts
  <2>2. /\ ts \in TransportType
        /\ \A u \in Calls \X Paths : /\ ts[u] = IF u = Trying(g) THEN "closed" ELSE transport[u]
                                     /\ ts[u] = "open" => transport[u] = "open"
    BY ClosedFacts, SMTT(30)
  <2>3. /\ call' \in CallType /\ call'[g].pc = "opening" /\ call'[g].todo = todo
        /\ \A h \in Calls : h # g => call'[h] = call[h]
    BY <1>0, <1>2, <2>1 DEF CallType
  <2>4. transport' = [ts EXCEPT ![<<g, p>>] = "opening"]  BY <1>2
  <2> HIDE DEF ts, p, todo
  <2>5. transport' \in TransportType  BY <2>1, <2>2, <2>4 DEF TransportType
  <2>6. \A t \in Calls \X Paths : t[1] # g => transport'[t] = transport[t]
    BY <1>b, <2>1, <2>2, <2>4, SMTT(30) DEF TransportType
  <2>7. \A q \in Paths : transport'[<<g, q>>] = "open" => transport[<<g, q>>] = "open"
    BY <2>1, <2>2, <2>4 DEF TransportType
  <2>8. client' = [client EXCEPT !.hadDirect = client.hadDirect] /\ client.hadDirect \in BOOLEAN
    BY <1>2 DEF ClientType
  <2> QED  BY <1>0, <1>a, <1>2, <2>1, <2>3, <2>5, <2>6, <2>7, <2>8, NextCandidateInv
<1> QED  BY <1>1, <1>2 DEF CandidateFails

(* The client takes a transport over. *)
LEMMA TakesFacts ==
  ASSUME ViewerIInv, NEW g \in Calls, call[g].pc = "opening", Takes(g), displaced \subseteq displaced'
  PROVE  /\ client' \in ClientType /\ probing' \in ProbingType
         /\ client'.generation = client.generation /\ client'.intentional = client.intentional
         /\ client'.timer = client.timer /\ client'.transport = Trying(g)
         /\ client'.path = Head(call[g].todo) /\ client'.state = client.state
         /\ ProbeIsTheClients' /\ ProbesOnRelay'
<1> USE DEF ViewerIInv, ViewerShape
<1> DEFINE c == [client EXCEPT !.transport = Trying(g)]
<1>1. Trying(g) \in Calls \X Paths /\ Head(call[g].todo) \in Paths  BY TryingFacts
<1>2. /\ c \in ClientType /\ c.generation = client.generation /\ c.timer = client.timer
      /\ c.intentional = client.intentional /\ c.state = client.state
      /\ c.probe = client.probe /\ c.path = client.path /\ c.available = client.available
      /\ c.transport = Trying(g)
  BY <1>1 DEF ClientType
<1>3. SetConnectionPath(c, Head(call[g].todo))  BY DEF Takes
<1> HIDE DEF c
<1>4. client.generation <= c.generation  BY <1>2, ViewerAssumption, SMTT(30) DEF ClientType
<1>5. ProbeIsTheClients' /\ ProbesOnRelay'  BY <1>1, <1>2, <1>3, <1>4, PathProbes
<1> QED  BY <1>1, <1>2, <1>3, <1>5, PathFacts

(* A candidate is ready. *)
LEMMA CandidateReadyInv ==
  ASSUME ViewerIInv, NEW g \in Calls, CandidateReady(g)  PROVE ViewerIInv'
<1> USE DEF ViewerIInv, ViewerShape
<1>0. /\ call[g].pc = "opening" /\ g = client.generation /\ displaced' = displaced /\ Takes(g)
      /\ call' = [call EXCEPT ![g].pc = "stream"]
      /\ transport' = [transport EXCEPT ![Trying(g)] = "open"]
      /\ directFailed' = (directFailed /\ Head(call[g].todo) # "direct")
  BY DEF CandidateReady
<1>a. directFailed' \in BOOLEAN  BY <1>0
<1>1. /\ Trying(g) \in Calls \X Paths /\ Trying(g)[1] = g /\ Trying(g)[2] = Head(call[g].todo)
      /\ call[g].todo # <<>>
  BY <1>0, TryingFacts
<1>2. /\ client' \in ClientType /\ probing' \in ProbingType
      /\ client'.generation = client.generation /\ client'.intentional = client.intentional
      /\ client'.timer = client.timer /\ client'.transport = Trying(g)
      /\ client'.path = Head(call[g].todo)
      /\ ProbeIsTheClients' /\ ProbesOnRelay'
  BY <1>0, TakesFacts
<1>3. /\ call' \in CallType /\ call'[g].pc = "stream" /\ call'[g].todo = call[g].todo
      /\ \A h \in Calls : h # g => call'[h] = call[h]
  BY <1>0, PcFacts
<1>4. /\ transport' \in TransportType /\ transport'[Trying(g)] = "open"
      /\ \A t \in Calls \X Paths : t # Trying(g) => transport'[t] = transport[t]
  BY <1>0, <1>1 DEF TransportType
<1>5. CallsBegan'  BY <1>0, <1>1, <1>2, <1>3 DEF CallsBegan
<1>6. HeldWasReady'  BY <1>1, <1>2, <1>3, <1>4 DEF HeldWasReady
<1>7. OpenIsTheLatest'
  <2>1. SUFFICES ASSUME displaced = {}, NEW t \in Calls \X Paths, transport'[t] = "open"
                 PROVE  /\ t = client'.transport /\ t[1] = client'.generation
                        /\ call'[t[1]].pc \in {"stream", "connected"}
                        /\ t = <<t[1], Head(call'[t[1]].todo)>> /\ client'.path = t[2]
    BY <1>0 DEF OpenIsTheLatest, Trying
  <2>2. t = Trying(g)  BY <1>0, <1>4, <2>1 DEF OpenIsTheLatest
  <2>3. Trying(g) = <<g, Head(call[g].todo)>>  BY DEF Trying
  <2> QED  BY <1>0, <1>1, <1>2, <1>3, <2>2, <2>3
<1>8. TimerAfterEnd'  BY <1>0, <1>2 DEF TimerAfterEnd
<1>9. LeavingIsFinal'  BY <1>0, <1>2 DEF LeavingIsFinal
<1> QED  BY <1>0, <1>a, <1>2, <1>3, <1>4, <1>5, <1>6, <1>7, <1>8, <1>9

(* A call whose connection is displaced is remembered; so nothing was open.  *)
LEMMA SupersededReadyInv ==
  ASSUME ViewerIInv, NEW g \in Calls, SupersededReady(g)  PROVE ViewerIInv'
<1> USE DEF ViewerIInv, ViewerShape
<1>0. /\ call[g].pc = "opening" /\ g # client.generation /\ Takes(g)
      /\ call' = [call EXCEPT ![g].pc = "ended"] /\ directFailed' = directFailed
      /\ transport' = Closed(transport, Trying(g))
      /\ displaced' = displaced \cup {h \in Calls : client.transport[1] = h /\ call[h].pc # "ended"}
  BY DEF SupersededReady
<1>1. Trying(g) \in Calls \X Paths /\ Trying(g)[1] = g  BY <1>0, TryingFacts
<1>2. /\ client' \in ClientType /\ probing' \in ProbingType
      /\ client'.generation = client.generation /\ client'.intentional = client.intentional
      /\ client'.timer = client.timer /\ client'.transport = Trying(g)
      /\ ProbeIsTheClients' /\ ProbesOnRelay'
  BY <1>0, TakesFacts
<1>3. /\ call' \in CallType /\ call'[g].pc = "ended" /\ \A h \in Calls : h # g => call'[h] = call[h]
  BY <1>0, PcFacts
<1>4. /\ transport' \in TransportType
      /\ \A u \in Calls \X Paths :
           /\ transport'[u] = IF u = Trying(g) THEN "closed" ELSE transport[u]
           /\ transport'[u] = "open" => transport[u] = "open"
  BY <1>0, ClosedFacts, SMTT(30)
<1>5. CallsBegan'  BY <1>0, <1>2, <1>3 DEF CallsBegan
<1>6. HeldWasReady'  BY <1>1, <1>2, <1>3, <1>4 DEF HeldWasReady
<1>7. OpenIsTheLatest'
  <2>1. SUFFICES ASSUME displaced' = {}, NEW t \in Calls \X Paths, transport'[t] = "open"
                 PROVE  FALSE
    BY DEF OpenIsTheLatest
  <2>2. transport[t] = "open" /\ displaced = {}  BY <1>0, <1>4, <2>1
  <2>3. t = client.transport /\ call[t[1]].pc \in {"stream", "connected"} /\ t[1] \in Calls
    BY <2>2 DEF OpenIsTheLatest
  <2>4. t[1] \in displaced'  BY <1>0, <2>3
  <2> QED  BY <2>1, <2>4
<1>8. TimerAfterEnd'  BY <1>2, <1>3 DEF TimerAfterEnd
<1>9. LeavingIsFinal'  BY <1>0, <1>2 DEF LeavingIsFinal
<1>10. displaced' \subseteq Calls  BY <1>0
<1> QED  BY <1>0, <1>2, <1>3, <1>4, <1>5, <1>6, <1>7, <1>8, <1>9, <1>10

(* The stream opens and the call is connected. *)
LEMMA StreamOpensInv ==
  ASSUME ViewerIInv, NEW g \in Calls, StreamOpens(g)  PROVE ViewerIInv'
<1> USE DEF ViewerIInv, ViewerShape
<1> DEFINE probe == Head(call[g].todo) = "relay" /\ client.hadDirect
<1>0. /\ call[g].pc = "stream" /\ transport[Trying(g)] = "open"
      /\ call' = [call EXCEPT ![g].pc = "connected"]
      /\ client' = [client EXCEPT !.state = "connected", !.probe = IF probe THEN g ELSE @]
      /\ probing' = IF probe THEN [Stopped(client.probe) EXCEPT ![g] = [pc |-> "idle", active |-> TRUE]]
                    ELSE probing
      /\ UNCHANGED <<transport, directFailed, displaced>>
  BY DEF StreamOpens
<1>1. /\ Trying(g) \in Calls \X Paths /\ Trying(g)[1] = g /\ Trying(g)[2] = Head(call[g].todo)
      /\ call[g].todo # <<>>
  BY <1>0, TryingFacts
<1>2. /\ client' \in ClientType /\ client'.probe = IF probe THEN g ELSE client.probe
      /\ client'.generation = client.generation /\ client'.intentional = client.intentional
      /\ client'.timer = client.timer /\ client'.transport = client.transport
      /\ client'.path = client.path /\ client'.available = client.available
  BY <1>0, NoTransportIsNone DEF ClientType
<1>3. /\ call' \in CallType /\ call'[g].pc = "connected" /\ call'[g].todo = call[g].todo
      /\ \A h \in Calls : h # g => call'[h] = call[h]
  BY <1>0, PcFacts
<1>4. /\ probing' \in ProbingType
      /\ probe => \A h \in Calls : probing'[h].active => h = g \/ (probing[h].active /\ h # client.probe)
      /\ ~probe => probing' = probing
  BY <1>0, StoppedFacts DEF ProbingType
<1>5. CallsBegan'  BY <1>0, <1>2, <1>3 DEF CallsBegan
<1>6. ProbeIsTheClients'
  <2>1. g <= client.generation  BY <1>0 DEF CallsBegan
  <2> QED  BY <1>2, <1>4, <2>1 DEF ProbeIsTheClients
<1>7. HeldWasReady'
  <2>1. client.transport # NoTransport => client.transport[1] \in Calls  BY DEF ClientType
  <2> QED  BY <1>0, <1>2, <1>3, <2>1 DEF HeldWasReady
<1>8. OpenIsTheLatest'
  <2>1. SUFFICES ASSUME displaced = {}, NEW t \in Calls \X Paths, transport[t] = "open"
                 PROVE  /\ t = client'.transport /\ t[1] = client'.generation
                        /\ call'[t[1]].pc \in {"stream", "connected"}
                        /\ t = <<t[1], Head(call'[t[1]].todo)>> /\ client'.path = t[2]
    BY <1>0 DEF OpenIsTheLatest, Trying
  <2> QED  BY <1>2, <1>3, <2>1 DEF OpenIsTheLatest, Trying
<1>9. ProbesOnRelay'
  <2>1. displaced = {} => client.path = Head(call[g].todo)  BY <1>0, <1>1 DEF OpenIsTheLatest
  <2>2. CASE probe  BY <1>0, <1>2, <2>1, <2>2 DEF ProbesOnRelay
  <2>3. CASE ~probe  BY <1>0, <1>2, <1>4, <2>3 DEF ProbesOnRelay
  <2> QED  BY <2>2, <2>3
<1>10. TimerAfterEnd'  BY <1>0, <1>2, <1>3 DEF TimerAfterEnd
<1>11. LeavingIsFinal'  BY <1>0, <1>2 DEF LeavingIsFinal
<1> QED  BY <1>0, <1>2, <1>3, <1>4, <1>5, <1>6, <1>7, <1>8, <1>9, <1>10, <1>11

(* A connection ends under its call. *)
LEMMA ConnectionEndsInv ==
  ASSUME ViewerIInv, NEW g \in Calls, ConnectionEnds(g)  PROVE ViewerIInv'
<1> USE DEF ViewerIInv, ViewerShape
<1>0. /\ transport' = Closed(transport, Trying(g))
      /\ UNCHANGED <<client, call, directFailed, probing, displaced>>
  BY DEF ConnectionEnds
<1>1. /\ transport' \in TransportType
      /\ \A u \in Calls \X Paths :
           /\ transport'[u] = IF u = Trying(g) THEN "closed" ELSE transport[u]
           /\ transport'[u] = "open" => transport[u] = "open"
  BY <1>0, ClosedFacts, SMTT(30)
<1>2. HeldWasReady'
  <2>1. client.transport # NoTransport => client.transport \in Calls \X Paths  BY DEF ClientType
  <2> QED  BY <1>0, <1>1, <2>1 DEF HeldWasReady
<1>3. OpenIsTheLatest'  BY <1>0, <1>1 DEF OpenIsTheLatest, Trying
<1> QED  BY <1>0, <1>1, <1>2, <1>3
          DEF CallsBegan, ProbeIsTheClients, ProbesOnRelay, TimerAfterEnd, LeavingIsFinal

(* The host refuses the session. *)
LEMMA SessionRejectedInv ==
  ASSUME ViewerIInv, NEW g \in Calls, SessionRejected(g)  PROVE ViewerIInv'
<1> USE DEF ViewerIInv, ViewerShape
<1>0. /\ call[g].pc = "connected" /\ transport[Trying(g)] = "open"
      /\ client' = [client EXCEPT !.intentional = TRUE, !.ended = TRUE]
      /\ UNCHANGED <<call, transport, directFailed, probing, displaced>>
  BY DEF SessionRejected
<1>1. /\ client' \in ClientType /\ client'.generation = client.generation
      /\ client'.timer = client.timer /\ client'.probe = client.probe /\ client'.path = client.path
      /\ client'.available = client.available /\ client'.transport = client.transport
  BY <1>0 DEF ClientType
<1>2. LeavingIsFinal'
  <2>1. Trying(g) \in Calls \X Paths /\ Trying(g)[1] = g  BY <1>0, TryingFacts
  <2>2. displaced = {} => ~client.timer  BY <1>0, <2>1 DEF OpenIsTheLatest, TimerAfterEnd
  <2> QED  BY <1>0, <1>1, <2>2 DEF LeavingIsFinal
<1>3. OpenIsTheLatest'  BY <1>0, <1>1 DEF OpenIsTheLatest, Trying
<1>4. HeldWasReady'  BY <1>0, <1>1 DEF HeldWasReady
<1> QED  BY <1>0, <1>1, <1>2, <1>3, <1>4
          DEF CallsBegan, ProbeIsTheClients, ProbesOnRelay, TimerAfterEnd

(* A probe's own steps; only one that is active has something to say. *)
LEMMA ProbeInv ==
  ASSUME ViewerIInv, NEW g \in Calls, ProbeBegins(g) \/ ProbeFails(g) \/ ProbeSucceeds(g)
  PROVE  ViewerIInv'
<1> USE DEF ViewerIInv, ViewerShape
<1>1. CASE ProbeBegins(g) \/ ProbeFails(g)
  <2>1. /\ probing' \in ProbingType /\ \A h \in Calls : probing'[h].active = probing[h].active
        /\ UNCHANGED <<client, call, transport, directFailed, displaced>>
    BY <1>1, SMTT(30) DEF ProbeBegins, ProbeFails, ProbingType
  <2> QED  BY <2>1 DEF CallsBegan, ProbeIsTheClients, HeldWasReady, OpenIsTheLatest, Trying,
                       ProbesOnRelay, TimerAfterEnd, LeavingIsFinal
<1>2. CASE ProbeSucceeds(g)
  <2>1. /\ probing' \in ProbingType /\ ~probing'[g].active
        /\ \A h \in Calls : probing'[h].active => probing[h].active /\ h # g
        /\ UNCHANGED <<call, transport, displaced>>
    BY <1>2 DEF ProbeSucceeds, ProbingType
  <2>2. CASE probing[g].active
    <3>1. client' = [client EXCEPT !.probe = 0, !.available = TRUE] /\ directFailed' = FALSE
      BY <1>2, <2>2 DEF ProbeSucceeds, DirectAvailable
    <3>2. 0 \in 0..MaxCalls  BY ViewerAssumption, SMTT(30)
    <3>3. /\ client' \in ClientType /\ client'.generation = client.generation
          /\ client'.timer = client.timer /\ client'.probe = 0 /\ client'.path = client.path
          /\ client'.intentional = client.intentional /\ client'.transport = client.transport
      BY <3>1, <3>2 DEF ClientType
    <3>4. ProbeIsTheClients'
      <4>1. 0 <= client.generation  BY ViewerAssumption, SMTT(30) DEF ClientType
      <4> QED  BY <2>1, <2>2, <3>3, <4>1 DEF ProbeIsTheClients
    <3>5. ProbesOnRelay'  BY <2>1, <2>2, <3>3 DEF ProbesOnRelay
    <3>6. OpenIsTheLatest'  BY <2>1, <3>3, ZenonT(40) DEF OpenIsTheLatest, Trying
    <3>7. HeldWasReady'  BY <2>1, <3>3 DEF HeldWasReady
    <3> QED  BY <2>1, <3>1, <3>3, <3>4, <3>5, <3>6, <3>7 DEF CallsBegan, TimerAfterEnd, LeavingIsFinal
  <2>3. CASE ~probing[g].active
    <3>1. UNCHANGED <<client, directFailed>>  BY <1>2, <2>3 DEF ProbeSucceeds
    <3>2. OpenIsTheLatest'  BY <2>1, <3>1 DEF OpenIsTheLatest, Trying
    <3> QED  BY <2>1, <3>1, <3>2 DEF CallsBegan, ProbeIsTheClients, HeldWasReady,
                                     ProbesOnRelay, TimerAfterEnd, LeavingIsFinal
  <2> QED  BY <2>2, <2>3
<1> QED  BY <1>1, <1>2

(* The inductive invariant of the viewer's connection holds throughout: see  *)
(* ViewerIInv.                                                               *)
THEOREM ViewerInvariant == ViewerSpec => []ViewerIInv
<1>1. ViewerInit => ViewerIInv
  <2> SUFFICES ASSUME ViewerInit PROVE ViewerIInv  OBVIOUS
  <2>1. 0 \in 0..MaxCalls  BY ViewerAssumption, SMTT(30)
  <2>2. client \in ClientType /\ client.generation = 0 /\ client.probe = 0
    BY <2>1 DEF ViewerInit, ClientType
  <2>3. call \in CallType  BY DEF ViewerInit, CallType, Todos
  <2>4. transport \in TransportType /\ probing \in ProbingType
    BY DEF ViewerInit, TransportType, ProbingType
  <2>5. ViewerShape  BY <2>2, <2>3, <2>4 DEF ViewerInit, ViewerShape
  <2>6. /\ client.transport = NoTransport /\ ~client.timer /\ ~client.available
        /\ displaced = {}
    BY DEF ViewerInit
  <2>7. \A g \in Calls : call[g].pc = "none" /\ ~probing[g].active  BY DEF ViewerInit
  <2>8. \A t \in Calls \X Paths : transport[t] = "none"  BY DEF ViewerInit
  <2>9. CallsBegan  BY <2>7 DEF CallsBegan
  <2>10. ProbeIsTheClients  BY <2>2, <2>7, SMTT(30) DEF ProbeIsTheClients
  <2>11. HeldWasReady /\ TimerAfterEnd /\ LeavingIsFinal
    BY <2>6 DEF HeldWasReady, TimerAfterEnd, LeavingIsFinal
  <2>12. OpenIsTheLatest  BY <2>8 DEF OpenIsTheLatest
  <2>13. ProbesOnRelay  BY <2>6, <2>7 DEF ProbesOnRelay
  <2> QED  BY <2>5, <2>9, <2>10, <2>11, <2>12, <2>13 DEF ViewerIInv
<1>2. ViewerIInv /\ [ViewerNext]_viewerVars => ViewerIInv'
  <2> SUFFICES ASSUME ViewerIInv, [ViewerNext]_viewerVars PROVE ViewerIInv'  OBVIOUS
  <2>1. CASE UserConnects \/ TimerConnects  BY <2>1, ConnectInv DEF UserConnects, TimerConnects
  <2>2. CASE Disconnect  BY <2>2, DisconnectInv
  <2>3. CASE FailureForgotten \/ UNCHANGED viewerVars
    BY <2>3 DEF FailureForgotten, viewerVars, ViewerIInv, ViewerShape, CallsBegan, ProbeIsTheClients,
                HeldWasReady, OpenIsTheLatest, Trying, ProbesOnRelay, TimerAfterEnd, LeavingIsFinal
  <2>4. ASSUME NEW g \in Calls,
               \/ CallStep(g) \/ ConnectionEnds(g) \/ SessionEnds(g) \/ SessionRejected(g)
               \/ ProbeBegins(g) \/ ProbeFails(g) \/ ProbeSucceeds(g)
        PROVE  ViewerIInv'
    BY <2>4, DiscoveredInv, DiscoveryFailsInv, CandidateFailsInv, CandidateReadyInv,
       SupersededReadyInv, StreamOpensInv, StreamFailsInv, HandleClosedInv, ConnectionEndsInv,
       SessionEndsInv, SessionRejectedInv, ProbeInv
       DEF CallStep
  <2> QED  BY <2>1, <2>2, <2>3, <2>4 DEF ViewerNext
<1> QED  BY <1>1, <1>2, PTL DEF ViewerSpec

(* ViewerSafe for any number of calls: unless a superseded call displaced    *)
(* it, the client holds every open connection, offers to switch on the relay *)
(* only, and does not call again once the viewer has left.                   *)
THEOREM ViewerIsSafe == ViewerSpec => []ViewerSafe
<1>1. ViewerIInv => ViewerSafe
  <2> SUFFICES ASSUME ViewerIInv PROVE ViewerSafe  OBVIOUS
  <2>0. /\ ViewerShape /\ CallsBegan /\ ProbeIsTheClients /\ HeldWasReady
        /\ OpenIsTheLatest /\ ProbesOnRelay /\ LeavingIsFinal
    BY DEF ViewerIInv
  <2>1. client.generation \in 0..MaxCalls /\ client.probe \in 0..client.generation
    BY <2>0, ViewerAssumption, SMTT(30) DEF ViewerShape, ClientType, ProbeIsTheClients
  <2>2. /\ client.intentional \in BOOLEAN /\ client.timer \in BOOLEAN
        /\ client.available \in BOOLEAN /\ client.hadDirect \in BOOLEAN /\ client.ended \in BOOLEAN
        /\ client.path \in Paths \cup {"none"}
        /\ client.state \in {"new", "connecting", "connected", "failed", "disconnected"}
    BY <2>0 DEF ViewerShape, ClientType
  <2>3. client.transport = NoTransport \/ transport[client.transport] \in {"open", "closed"}
    BY <2>0 DEF HeldWasReady
  <2>a. /\ transport \in [Calls \X Paths -> {"none", "opening", "open", "closed"}]
        /\ directFailed \in BOOLEAN /\ displaced \subseteq Calls
    BY <2>0 DEF ViewerShape, TransportType
  <2>5. ViewerTypeOK
    <3>1. SUFFICES ASSUME NEW g \in Calls
                   PROVE  /\ call[g].pc \in {"none", "fetch", "opening", "stream", "connected", "ended"}
                          /\ call[g].pc # "none" => g <= client.generation
                          /\ probing[g].active => client.probe = g
      BY <2>1, <2>2, <2>3, <2>a DEF ViewerTypeOK
    <3> QED  BY <2>0 DEF ViewerShape, CallType, CallsBegan, ProbeIsTheClients
  <2>6. NoTransportLeaks  BY <2>0 DEF ViewerShape, NoTransportLeaks, OpenIsTheLatest, TransportType
  <2>7. AvailableOnRelay  BY <2>0 DEF AvailableOnRelay, ProbesOnRelay
  <2> QED  BY <2>0, <2>5, <2>6, <2>7 DEF ViewerSafe
<1> QED  BY <1>1, ViewerInvariant, PTL

(* The catch reports only what the call that counts has come to. *)
LEMMA GivesUpSilent ==
  ASSUME ViewerIInv, NEW g \in Calls, NEW ts, GivesUp(g, ts),
         call[g].pc \in {"fetch", "opening", "stream"}, client'.state # client.state
  PROVE  call'[client.generation] # call[client.generation]
<1>1. call'[g].pc = "ended"  BY PcFacts DEF GivesUp, ViewerIInv, ViewerShape
<1>2. g = client.generation  BY DEF GivesUp
<1> QED  BY <1>1, <1>2

(* Unless a superseded call displaced the connection, the state the user     *)
(* sees changes only with the call that counts: SupersededIsSilent, for any  *)
(* number of calls.                                                          *)
THEOREM SupersededStaysSilent == ViewerSpec => SupersededIsSilent
<1>1. ASSUME ViewerIInv, [ViewerNext]_viewerVars, displaced' = {}, client'.state # client.state,
             client'.generation = client.generation
      PROVE  call'[client.generation] # call[client.generation]
  <2> USE DEF ViewerIInv, ViewerShape
  <2>1. client \in ClientType /\ call \in CallType /\ client.generation \in Nat
    BY <1>1, ViewerAssumption, SMTT(30) DEF ClientType
  <2>2. ~UserConnects /\ ~TimerConnects /\ ~Disconnect
    BY <1>1, ConnectInv, DisconnectInv DEF UserConnects, TimerConnects
  <2>3. ~FailureForgotten /\ ~UNCHANGED viewerVars  BY <1>1 DEF FailureForgotten, viewerVars
  <2>4. PICK g \in Calls : \/ CallStep(g) \/ ConnectionEnds(g) \/ SessionEnds(g) \/ SessionRejected(g)
                           \/ ProbeBegins(g) \/ ProbeFails(g) \/ ProbeSucceeds(g)
    BY <1>1, <2>2, <2>3 DEF ViewerNext
  <2>5. CASE DiscoveryFails(g) \/ StreamFails(g) \/ CandidateFails(g)
    BY <1>1, <2>5, GivesUpSilent DEF DiscoveryFails, StreamFails, CandidateFails
  <2>6. CASE HandleClosed(g)
    <3>1. call'[g].pc = "ended" /\ call[g].pc = "connected"  BY <2>1, <2>6, PcFacts DEF HandleClosed
    <3>2. g = client.generation  BY <1>1, <2>6 DEF HandleClosed
    <3> QED  BY <3>1, <3>2
  <2>7. CASE StreamOpens(g) \/ SessionEnds(g)
    <3>1. /\ call[g].pc \in {"stream", "connected"} /\ transport[Trying(g)] = "open"
          /\ displaced' = displaced
      BY <2>7 DEF StreamOpens, SessionEnds
    <3>2. call'[g].pc # call[g].pc  BY <2>1, <2>7, PcFacts DEF StreamOpens, SessionEnds
    <3>3. Trying(g) \in Calls \X Paths /\ Trying(g)[1] = g  BY <1>1, <3>1, TryingFacts
    <3>4. g = client.generation  BY <1>1, <3>1, <3>3 DEF OpenIsTheLatest
    <3> QED  BY <3>2, <3>4
  <2>8. ~CandidateReady(g) /\ ~SupersededReady(g)
    <3>1. SUFFICES ASSUME CandidateReady(g) \/ SupersededReady(g) PROVE FALSE  OBVIOUS
    <3>2. call[g].pc = "opening" /\ Takes(g) /\ displaced \subseteq displaced'
      BY <3>1 DEF CandidateReady, SupersededReady
    <3> QED  BY <1>1, <3>2, TakesFacts
  <2>9. ~Discovered(g) /\ ~ConnectionEnds(g) /\ ~SessionRejected(g)
    BY <1>1, <2>1 DEF Discovered, ConnectionEnds, SessionRejected, ClientType
  <2>10. ~ProbeBegins(g) /\ ~ProbeFails(g) /\ ~ProbeSucceeds(g)
    BY <1>1, <2>1 DEF ProbeBegins, ProbeFails, ProbeSucceeds, DirectAvailable, ClientType
  <2> QED  BY <2>4, <2>5, <2>6, <2>7, <2>8, <2>9, <2>10 DEF CallStep
<1> QED  BY <1>1, ViewerInvariant, PTL DEF ViewerSpec, SupersededIsSilent
=============================================================================
