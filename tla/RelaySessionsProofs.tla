------------------------- MODULE RelaySessionsProofs -------------------------
(***************************************************************************)
(* The viewer slot's safety properties, proved for any number of sessions, *)
(* upstreams and records.                                                  *)
(***************************************************************************)
EXTENDS RelaySessions, TLAPS

(* A leaf that does not name its prover is first tried with Zenon; the leaves *)
(* that need arithmetic, or more than Zenon knows of sequences and records,    *)
(* name SMT.                                                                   *)
USE ZenonT(30), SMTT(30)

(* Every step keeps the types.                                               *)
LEMMA TypeStep == TypeOK /\ HandlerShape /\ [Next]_vars => TypeOK'
<1>. SUFFICES ASSUME TypeOK, HandlerShape, [Next]_vars PROVE TypeOK'
  OBVIOUS
<1>. USE ConstantsAssumption
<1>1. CASE Upsert
  BY <1>1 DEF Upsert, TypeOK, registryVars, upstreamVars, loginVars,
      sessionVars
<1>2. CASE Silence
  BY <1>2 DEF Silence, TypeOK, registryVars, upstreamVars, loginVars,
      sessionVars
<1>3. CASE List
  BY <1>3 DEF List, ExpireMachine, TypeOK, registryVars, upstreamVars,
      loginVars, sessionVars
<1>4. CASE Deregister
  BY <1>4 DEF Deregister, TypeOK, registryVars, upstreamVars, loginVars,
      sessionVars
<1>5. ASSUME NEW s \in Sessions, Get(s) PROVE TypeOK'
  <2>1. CASE machine = None
    BY <1>5, <2>1, SMTT(30) DEF Get, TypeOK, PcStates, registryVars, upstreamVars,
        loginVars, sessionVars
  <2>2. CASE machine # None /\ ~fresh[machine]
    <3>1. /\ stale' \subseteq Upstreams
          /\ recUp' \in [Records -> Upstreams \cup {None}]
          /\ status' \in [Records -> {"unused", "online", "offline"}]
      BY <1>5, <2>2, SMTT(30) DEF Get, ExpireMachine, TypeOK
    <3>2. pc' \in [Sessions -> PcStates] /\ got' = got
      BY <1>5, <2>2 DEF Get, TypeOK, PcStates
    <3>. QED
      BY <1>5, <3>1, <3>2 DEF Get, TypeOK, registryVars, upstreamVars,
          loginVars, sessionVars
  <2>3. CASE machine # None /\ fresh[machine]
    BY <1>5, <2>3, SMTT(30) DEF Get, TypeOK, PcStates, registryVars, upstreamVars,
        loginVars, sessionVars
  <2>. QED
    BY <2>1, <2>2, <2>3
<1>6. ASSUME NEW s \in Sessions, Acquire(s) PROVE TypeOK'
  <2>1. pc' = [pc EXCEPT ![s] = "refused"] \/ pc' = [pc EXCEPT ![s] = "acquired"]
    BY <1>6 DEF Acquire
  <2>2. PICK u \in Upstreams :
               /\ up' = [up EXCEPT ![s] = u] \/ up' = up
               /\ viewers' = [viewers EXCEPT ![u] = @ + 1] \/ viewers' = viewers
               /\ recUp' = [recUp EXCEPT ![got[s]] = u] \/ recUp' = recUp
               /\ link' = [link EXCEPT ![u] = "dialing"] \/ link' = link
    <3>1. recUp[got[s]] \in Upstreams \cup {None}
      BY <1>6 DEF Acquire, TypeOK, HandlerShape
    <3>. QED
      BY <1>6, <3>1 DEF Acquire
  <2>3. up' \in [Sessions -> Upstreams \cup {None}] /\ viewers' \in [Upstreams -> Nat]
    BY <2>2, SMTT(30) DEF TypeOK
  <2>4. recUp' \in [Records -> Upstreams \cup {None}] /\ link' \in [Upstreams -> LinkStates]
    BY <2>2, SMTT(30) DEF TypeOK, LinkStates
  <2>5. pc' \in [Sessions -> PcStates] /\ got' \in [Sessions -> Records \cup {None}]
    BY <1>6, <2>1, SMTT(30) DEF Acquire, TypeOK, PcStates
  <2>. QED
    BY <1>6, <2>3, <2>4, <2>5 DEF Acquire, TypeOK, registryVars, upstreamVars,
        loginVars, sessionVars
<1>7. ASSUME NEW s \in Sessions, GateViewer(s) PROVE TypeOK'
  <2>1. \/ login' = login
        \/ login' = [login EXCEPT ![up[s]] = [state |-> "auth", sess |-> s, sub |-> SubOf[s]]]
    BY <1>7 DEF GateViewer
  <2>2. [state |-> "auth", sess |-> s, sub |-> SubOf[s]] \in LoginInfo
    BY DEF LoginInfo, Subs
  <2>3. login' \in [Upstreams -> LoginInfo]
    BY <2>1, <2>2, SMTT(30) DEF TypeOK
  <2>4. /\ role' \in [Sessions -> {"none", "auth", "viewer"}]
        /\ pc' \in [Sessions -> PcStates]
    BY <1>7, SMTT(30) DEF GateViewer, TypeOK, PcStates, Attached
  <2>. QED
    BY <1>7, <2>3, <2>4 DEF GateViewer, TypeOK, registryVars, upstreamVars,
        loginVars, sessionVars
<1>8. ASSUME NEW s \in Sessions, Reject(s) PROVE TypeOK'
  <2>0. up[s] \in Upstreams
    BY <1>8 DEF Reject, HandlerShape, TypeOK, Attached, PcStates
  <2>1. viewers' \in [Upstreams -> Nat] /\ recUp' \in [Records -> Upstreams \cup {None}]
    BY <1>8, <2>0, SMTT(30) DEF Reject, ReleaseSlot, TypeOK
  <2>2. pc' \in [Sessions -> PcStates] /\ rel' \in [Sessions -> RelStates]
    BY <1>8 DEF Reject, TypeOK, PcStates, RelStates
  <2>. QED
    BY <1>8, <2>1, <2>2 DEF Reject, TypeOK, registryVars, upstreamVars,
        loginVars, sessionVars
<1>9. ASSUME NEW s \in Sessions, RejectStop(s) PROVE TypeOK'
  BY <1>9 DEF RejectStop, TypeOK, PcStates, registryVars, upstreamVars,
      loginVars, sessionVars
<1>10. ASSUME NEW s \in Sessions, Bind(s) PROVE TypeOK'
  <2>1. PICK X : open' = [t \in Sessions |-> open[t] /\ t \notin X]
    BY <1>10 DEF Bind
  <2>2. host' = host \/ Answer(up[s])
    BY <1>10 DEF Bind
  <2>3. open' \in [Sessions -> BOOLEAN] /\ host' \in [Upstreams -> HostStates]
    BY <2>1, <2>2, SMTT(30) DEF Answer, TypeOK, HostStates
  <2>4. pc' \in [Sessions -> PcStates]
    BY <1>10, SMTT(30) DEF Bind, TypeOK, PcStates, Attached
  <2>5. bound' \in [Upstreams -> Sessions \cup {None}]
    BY <1>10 DEF Bind, TypeOK
  <2>. QED
    BY <1>10, <2>3, <2>4, <2>5 DEF Bind, TypeOK, registryVars, upstreamVars,
        loginVars, sessionVars
<1>11. ASSUME NEW s \in Sessions, Add(s) PROVE TypeOK'
  BY <1>11 DEF Add, TypeOK, PcStates, Attached, registryVars, upstreamVars,
      loginVars, sessionVars
<1>12. ASSUME NEW s \in Sessions, CheckDone(s) PROVE TypeOK'
  BY <1>12 DEF CheckDone, TypeOK, PcStates, Attached, registryVars,
      upstreamVars, loginVars, sessionVars
<1>13. ASSUME NEW s \in Sessions, Finish(s) PROVE TypeOK'
  BY <1>13 DEF Finish, TypeOK, PcStates, registryVars, upstreamVars,
      loginVars, sessionVars
<1>14. ASSUME NEW s \in Sessions, Close(s) PROVE TypeOK'
  BY <1>14 DEF Close, TypeOK, registryVars, upstreamVars, loginVars,
      sessionVars
<1>15. ASSUME NEW s \in Sessions, Disconnect(s) PROVE TypeOK'
  BY <1>15 DEF Disconnect, TypeOK, registryVars, upstreamVars, loginVars,
      sessionVars
<1>16. ASSUME NEW s \in Sessions, LoginResponse(s) PROVE TypeOK'
  BY <1>16 DEF LoginResponse, Answer, TypeOK, HostStates, registryVars,
      upstreamVars, loginVars, sessionVars
<1>17. ASSUME NEW s \in Sessions, ViewerLock(s) PROVE TypeOK'
  BY <1>17 DEF ViewerLock, TypeOK, HostStates, LoginInfo, Subs, registryVars,
      upstreamVars, loginVars, sessionVars
<1>18. ASSUME NEW s \in Sessions, BeginRelease(s) PROVE TypeOK'
  BY <1>18 DEF BeginRelease, TypeOK, RelStates, registryVars, upstreamVars,
      loginVars, sessionVars
<1>19. ASSUME NEW s \in Sessions, Release(s) PROVE TypeOK'
  <2>0. up[s] \in Upstreams
    BY <1>19 DEF Release, HandlerShape, TypeOK, Attached, PcStates
  <2>1. viewers' \in [Upstreams -> Nat] /\ recUp' \in [Records -> Upstreams \cup {None}]
    BY <1>19, <2>0, SMTT(30) DEF Release, ReleaseSlot, TypeOK
  <2>2. pc' \in [Sessions -> PcStates] /\ rel' \in [Sessions -> RelStates]
    BY <1>19 DEF Release, TypeOK, PcStates, RelStates
  <2>. QED
    BY <1>19, <2>1, <2>2 DEF Release, TypeOK, registryVars, upstreamVars,
        loginVars, sessionVars
<1>20. ASSUME NEW s \in Sessions, StopReleased(s) PROVE TypeOK'
  BY <1>20 DEF StopReleased, TypeOK, RelStates, registryVars, upstreamVars,
      loginVars, sessionVars
<1>21. ASSUME NEW s \in Sessions, SessionLeft(s) PROVE TypeOK'
  BY <1>21 DEF SessionLeft, TypeOK, RelStates, LoginInfo, NoLogin, Subs,
      registryVars, upstreamVars, loginVars, sessionVars
<1>22. ASSUME NEW u \in Upstreams, StopStale(u) PROVE TypeOK'
  BY <1>22 DEF StopStale, TypeOK, registryVars, upstreamVars, loginVars,
      sessionVars
<1>23. ASSUME NEW u \in Upstreams, Connect(u) PROVE TypeOK'
  BY <1>23 DEF Connect, TypeOK, LinkStates, registryVars, upstreamVars,
      loginVars, sessionVars
<1>24. ASSUME NEW u \in Upstreams, StopDialing(u) PROVE TypeOK'
  BY <1>24 DEF StopDialing, TypeOK, LinkStates, registryVars, upstreamVars,
      loginVars, sessionVars
<1>25. ASSUME NEW u \in Upstreams, Lose(u) PROVE TypeOK'
  BY <1>25 DEF Lose, TypeOK, LinkStates, HostStates, LoginInfo, NoLogin, Subs,
      registryVars, upstreamVars, loginVars, sessionVars
<1>26. ASSUME NEW u \in Upstreams, NEW s \in Sessions, EndByID(u, s) PROVE TypeOK'
  <2>1. /\ ending' \in [Upstreams -> SUBSET Sessions]
        /\ victim' \in [Upstreams -> Sessions \cup {None}]
    BY <1>26, SMTT(30) DEF EndByID, TypeOK
  <2>2. open' \in [Sessions -> BOOLEAN]
    BY <1>26 DEF EndByID, TypeOK
  <2>. QED
    BY <1>26, <2>1, <2>2 DEF EndByID, TypeOK, registryVars, upstreamVars,
        loginVars, sessionVars
<1>27. ASSUME NEW u \in Upstreams, EndReturns(u) PROVE TypeOK'
  BY <1>27 DEF EndReturns, TypeOK, registryVars, upstreamVars, loginVars,
      sessionVars
<1>28. ASSUME NEW u \in Upstreams, Redial(u) PROVE TypeOK'
  BY <1>28 DEF Redial, TypeOK, LinkStates, registryVars, upstreamVars,
      loginVars, sessionVars
<1>29. ASSUME NEW u \in Upstreams, LoginPrompt(u) PROVE TypeOK'
  <2>1. login' \in [Upstreams -> LoginInfo]
    BY <1>29, SMTT(30) DEF LoginPrompt, TypeOK, LoginInfo, Subs
  <2>2. host' \in [Upstreams -> HostStates] /\ spoken' \in [Upstreams -> BOOLEAN]
    BY <1>29 DEF LoginPrompt, TypeOK, HostStates
  <2>. QED
    BY <1>29, <2>1, <2>2 DEF LoginPrompt, TypeOK, registryVars, upstreamVars,
        loginVars, sessionVars
<1>30. ASSUME NEW u \in Upstreams, LoginOk(u) PROVE TypeOK'
  <2>1. login' = [login EXCEPT ![u] = [login[u] EXCEPT !.state = "active"]]
    BY <1>30 DEF LoginOk
  <2>2. login' \in [Upstreams -> LoginInfo]
    <3>0. login[u] \in LoginInfo
      BY DEF TypeOK
    <3>1. [login[u] EXCEPT !.state = "active"] \in LoginInfo
      BY <3>0 DEF LoginInfo
    <3>. QED
      BY <2>1, <3>1 DEF TypeOK
  <2>3. host' \in [Upstreams -> HostStates] /\ spoken' \in [Upstreams -> BOOLEAN]
    BY <1>30 DEF LoginOk, TypeOK, HostStates
  <2>4. open' \in [Sessions -> BOOLEAN]
    BY <1>30 DEF LoginOk, TypeOK
  <2>. QED
    BY <1>30, <2>2, <2>3, <2>4 DEF LoginOk, TypeOK, registryVars,
        upstreamVars, loginVars, sessionVars
<1>31. ASSUME NEW u \in Upstreams, LoginFailed(u) PROVE TypeOK'
  BY <1>31 DEF LoginFailed, TypeOK, HostStates, registryVars, upstreamVars,
      loginVars, sessionVars
<1>32. ASSUME NEW u \in Upstreams, LoginBusy(u) PROVE TypeOK'
  <2>1. /\ host' = [host EXCEPT ![u] = "gone"]
        /\ spoken' = [spoken EXCEPT ![u] = TRUE]
        /\ login' = [login EXCEPT ![u] = NoLogin]
        /\ UNCHANGED <<registryVars, stopped, stale, link, ending, bound, pc, rel, got, up,
                       role, entries>>
    BY <1>32 DEF LoginBusy
  <2>2. \/ UNCHANGED <<victim, open>>
        \/ \E s \in entries : /\ victim' = [victim EXCEPT ![u] = s]
                              /\ open' = [open EXCEPT ![s] = FALSE]
    <3>. DEFINE s == login[u].sess
    <3>1. IF login[u].state = "auth" /\ s \in entries
            THEN victim' = [victim EXCEPT ![u] = s] /\ open' = [open EXCEPT ![s] = FALSE]
            ELSE UNCHANGED <<victim, open>>
      BY <1>32 DEF LoginBusy
    <3>. HIDE DEF s
    <3>. QED
      BY <3>1
  <2>3. victim' \in [Upstreams -> Sessions \cup {None}] /\ open' \in [Sessions -> BOOLEAN]
    <3>1. ASSUME NEW s \in Sessions, victim' = [victim EXCEPT ![u] = s],
                 open' = [open EXCEPT ![s] = FALSE]
          PROVE  victim' \in [Upstreams -> Sessions \cup {None}] /\ open' \in [Sessions -> BOOLEAN]
      BY <3>1 DEF TypeOK
    <3>2. entries \subseteq Sessions
      BY DEF TypeOK
    <3>3. CASE UNCHANGED <<victim, open>>
      BY <3>3 DEF TypeOK
    <3>. QED
      BY <2>2, <3>1, <3>2, <3>3
  <2>4. /\ host' \in [Upstreams -> HostStates]
        /\ spoken' \in [Upstreams -> BOOLEAN]
    BY <2>1 DEF TypeOK, HostStates
  <2>5. login' \in [Upstreams -> LoginInfo]
    BY <2>1 DEF TypeOK, LoginInfo, NoLogin, Subs
  <2>. QED
    BY <2>1, <2>3, <2>4, <2>5 DEF TypeOK, registryVars
<1>33. CASE UNCHANGED vars
  BY <1>33 DEF vars, registryVars, upstreamVars, loginVars, sessionVars,
      TypeOK
<1>. QED
  BY <1>1, <1>2, <1>3, <1>4, <1>5, <1>6, <1>7, <1>8, <1>9, <1>10, <1>11,
      <1>12, <1>13, <1>14, <1>15, <1>16, <1>17, <1>18, <1>19, <1>20, <1>21,
      <1>22, <1>23, <1>24, <1>25, <1>26, <1>27, <1>28, <1>29, <1>30, <1>31,
      <1>32, <1>33
     DEF Next, RegistryStep, HandlerStep, ViewerStep, ReleaseStep, LinkStep,
         LoginFrame

(* Steps that leave the registry, the upstreams' fate and every handler      *)
(* alone: silence, the viewer's own messages, the link and its login frames. *)
Quiet ==
    /\ UNCHANGED <<machine, status, recUp, viewers, stopped, stale, pc, rel, got, up>>
    /\ \A u \in Upstreams : link'[u] = "unused" => link[u] = "unused"

(* Every step either leaves the registered upstreams alone or is one of    *)
(* the few that do not.                                                    *)
LEMMA QuietOrNoisy ==
    ASSUME TypeOK, [Next]_vars
    PROVE  \/ Upsert \/ List \/ Deregister \/ Quiet
           \/ \E s \in Sessions : HandlerStep(s) \/ ReleaseStep(s)
           \/ \E u \in Upstreams : StopStale(u)
<1>1. CASE Silence
  BY <1>1 DEF Silence, Quiet, upstreamVars, sessionVars
<1>2. ASSUME NEW s \in Sessions, ViewerStep(s) PROVE Quiet
  BY <1>2 DEF ViewerStep, Close, Disconnect, LoginResponse, ViewerLock, Quiet,
      registryVars, upstreamVars, sessionVars
<1>3. ASSUME NEW u \in Upstreams, LinkStep(u) PROVE Quiet
  <2>1. CASE Connect(u) \/ StopDialing(u) \/ Lose(u) \/ Redial(u)
    BY <2>1 DEF Connect, StopDialing, Lose, Redial, Quiet, TypeOK, registryVars, sessionVars
  <2>2. CASE EndReturns(u) \/ \E s \in Sessions : EndByID(u, s)
    BY <2>2 DEF EndReturns, EndByID, Quiet, registryVars, sessionVars
  <2>. QED
    BY <1>3, <2>1, <2>2 DEF LinkStep
<1>4. ASSUME NEW u \in Upstreams, LoginFrame(u) PROVE Quiet
  BY <1>4 DEF LoginFrame, LoginPrompt, LoginOk, LoginFailed, LoginBusy, Quiet,
      registryVars, upstreamVars, sessionVars
<1>5. CASE UNCHANGED vars
  BY <1>5 DEF vars, Quiet, registryVars, upstreamVars, sessionVars
<1>. QED
  BY <1>1, <1>2, <1>3, <1>4, <1>5 DEF Next, RegistryStep

(* The two ways through acquire: refused, or the slot of upstream u taken,   *)
(* u being the record's idle upstream or a new one.                          *)
Refused(s) ==
    /\ pc' = [pc EXCEPT ![s] = "refused"]
    /\ recUp[got[s]] \in Upstreams
    /\ viewers[recUp[got[s]]] > 0
    /\ UNCHANGED <<recUp, viewers, link, up>>

Takes(s, u) ==
    /\ pc' = [pc EXCEPT ![s] = "acquired"]
    /\ viewers' = [viewers EXCEPT ![u] = @ + 1]
    /\ up' = [up EXCEPT ![s] = u]

TakesIdle(s, u) ==
    /\ Takes(s, u)
    /\ recUp[got[s]] = u
    /\ viewers[u] = 0
    /\ UNCHANGED <<recUp, link>>

TakesNew(s, u) ==
    /\ Takes(s, u)
    /\ recUp[got[s]] = None
    /\ link[u] = "unused"
    /\ recUp' = [recUp EXCEPT ![got[s]] = u]
    /\ link' = [link EXCEPT ![u] = "dialing"]

(* acquire refuses, reuses the record's upstream or starts a new one.      *)
LEMMA AcquireCases ==
    ASSUME TypeOK, HandlerShape, NEW s \in Sessions, Acquire(s)
    PROVE  /\ pc[s] = "got" /\ up[s] = None /\ got[s] \in Records
           /\ status[got[s]] # "unused"
           /\ UNCHANGED <<machine, status, stopped, stale, bound, login, rel>>
           /\ \/ Refused(s)
              \/ \E u \in Upstreams : TakesIdle(s, u)
              \/ \E u \in Upstreams : TakesNew(s, u)
<1>1. pc[s] = "got" /\ UNCHANGED <<machine, status, stopped, stale, bound, login, rel>>
  BY DEF Acquire, loginVars
<1>2. up[s] = None /\ got[s] \in Records /\ status[got[s]] # "unused"
  BY <1>1 DEF HandlerShape
<1>3. recUp[got[s]] \in Upstreams \cup {None}
  BY <1>2 DEF TypeOK
<1>4. \/ Refused(s)
      \/ \E u \in Upstreams : TakesIdle(s, u)
      \/ \E u \in Upstreams : TakesNew(s, u)
  BY <1>3 DEF Acquire, Refused, TakesIdle, TakesNew, Takes
<1>. QED
  BY <1>1, <1>2, <1>4

(* A handler's pointers stay in step with its stage.                         *)
LEMMA HandlerStepShape ==
    ASSUME TypeOK, HandlerShape, RecordShape, [Next]_vars
    PROVE  HandlerShape'
<1>. USE ConstantsAssumption DEF TypeOK
<1>1. CASE Upsert
  BY <1>1, SMTT(30) DEF Upsert, HandlerShape, Attached, registryVars, upstreamVars,
      loginVars, sessionVars
<1>2. CASE List
  BY <1>2 DEF List, ExpireMachine, HandlerShape, Attached, registryVars,
      upstreamVars, loginVars, sessionVars
<1>3. CASE Deregister
  BY <1>3 DEF Deregister, HandlerShape, Attached, registryVars, upstreamVars,
      loginVars, sessionVars
<1>4. ASSUME NEW s \in Sessions, Get(s) PROVE HandlerShape'
  BY <1>4, SMTT(30) DEF Get, ExpireMachine, HandlerShape, Attached, RecordShape,
      registryVars, upstreamVars, loginVars, sessionVars
<1>5. ASSUME NEW s \in Sessions, Acquire(s) PROVE HandlerShape'
  BY <1>5, SMTT(30) DEF Acquire, HandlerShape, Attached, registryVars, upstreamVars,
      loginVars, sessionVars
<1>6. ASSUME NEW s \in Sessions, GateViewer(s) PROVE HandlerShape'
  BY <1>6, SMTT(30) DEF GateViewer, HandlerShape, Attached, registryVars, upstreamVars,
      loginVars, sessionVars
<1>7. ASSUME NEW s \in Sessions, Reject(s) PROVE HandlerShape'
  BY <1>7 DEF Reject, ReleaseSlot, HandlerShape, Attached, registryVars,
      upstreamVars, loginVars, sessionVars
<1>8. ASSUME NEW s \in Sessions, RejectStop(s) PROVE HandlerShape'
  BY <1>8 DEF RejectStop, HandlerShape, Attached, registryVars, upstreamVars,
      loginVars, sessionVars
<1>9. ASSUME NEW s \in Sessions, Bind(s) PROVE HandlerShape'
  BY <1>9, SMTT(30) DEF Bind, Answer, HandlerShape, Attached, registryVars,
      upstreamVars, loginVars, sessionVars
<1>10. ASSUME NEW s \in Sessions, Add(s) PROVE HandlerShape'
  BY <1>10 DEF Add, HandlerShape, Attached, registryVars, upstreamVars,
      loginVars, sessionVars
<1>11. ASSUME NEW s \in Sessions, CheckDone(s) PROVE HandlerShape'
  BY <1>11 DEF CheckDone, HandlerShape, Attached, registryVars, upstreamVars,
      loginVars, sessionVars
<1>12. ASSUME NEW s \in Sessions, Finish(s) PROVE HandlerShape'
  BY <1>12 DEF Finish, HandlerShape, Attached, registryVars, upstreamVars,
      loginVars, sessionVars
<1>13. ASSUME NEW s \in Sessions, BeginRelease(s) PROVE HandlerShape'
  BY <1>13 DEF BeginRelease, HandlerShape, Attached, registryVars,
      upstreamVars, loginVars, sessionVars
<1>14. ASSUME NEW s \in Sessions, Release(s) PROVE HandlerShape'
  BY <1>14 DEF Release, ReleaseSlot, HandlerShape, Attached, registryVars,
      upstreamVars, loginVars, sessionVars
<1>15. ASSUME NEW s \in Sessions, StopReleased(s) PROVE HandlerShape'
  BY <1>15 DEF StopReleased, HandlerShape, Attached, registryVars,
      upstreamVars, loginVars, sessionVars
<1>16. ASSUME NEW s \in Sessions, SessionLeft(s) PROVE HandlerShape'
  BY <1>16 DEF SessionLeft, HandlerShape, Attached, registryVars,
      upstreamVars, loginVars, sessionVars
<1>17. ASSUME NEW u \in Upstreams, StopStale(u) PROVE HandlerShape'
  BY <1>17 DEF StopStale, HandlerShape, Attached, registryVars, upstreamVars,
      loginVars, sessionVars
<1>18. CASE Quiet
  BY <1>18 DEF Quiet, HandlerShape, Attached
<1>. QED
  BY <1>1, <1>2, <1>3, <1>4, <1>5, <1>6, <1>7, <1>8, <1>9, <1>10, <1>11,
      <1>12, <1>13, <1>14, <1>15, <1>16, <1>17, <1>18, QuietOrNoisy
     DEF HandlerStep, ReleaseStep

(* Records are registered once and never share an upstream.                  *)
LEMMA RecordStep ==
    ASSUME TypeOK, HandlerShape, RecordShape, UnusedUpstream, [Next]_vars
    PROVE  RecordShape'
<1>. USE ConstantsAssumption DEF TypeOK
<1>1. CASE Upsert
  BY <1>1 DEF Upsert, RecordShape, registryVars, upstreamVars, loginVars,
      sessionVars
<1>2. CASE List
  BY <1>2 DEF List, ExpireMachine, RecordShape, registryVars, upstreamVars,
      loginVars, sessionVars
<1>3. CASE Deregister
  BY <1>3 DEF Deregister, RecordShape, registryVars, upstreamVars, loginVars,
      sessionVars
<1>4. ASSUME NEW s \in Sessions, Get(s) PROVE RecordShape'
  BY <1>4, SMTT(30) DEF Get, ExpireMachine, RecordShape, registryVars, upstreamVars,
      loginVars, sessionVars
<1>5. ASSUME NEW s \in Sessions, Acquire(s) PROVE RecordShape'
  <2>0. /\ pc[s] = "got" /\ up[s] = None /\ got[s] \in Records
        /\ status[got[s]] # "unused"
        /\ UNCHANGED <<machine, status, stopped, stale, bound, login, rel>>
    BY <1>5, AcquireCases
  <2>1. CASE Refused(s)
    BY <2>0, <2>1 DEF Refused, RecordShape, UnusedUpstream
  <2>2. ASSUME NEW u \in Upstreams, TakesIdle(s, u) PROVE RecordShape'
    BY <2>0, <2>2 DEF TakesIdle, Takes, RecordShape, UnusedUpstream
  <2>3. ASSUME NEW u \in Upstreams, TakesNew(s, u) PROVE RecordShape'
    BY <2>0, <2>3, SMTT(30) DEF TakesNew, Takes, RecordShape, UnusedUpstream
  <2>4. \/ Refused(s)
        \/ \E u \in Upstreams : TakesIdle(s, u)
        \/ \E u \in Upstreams : TakesNew(s, u)
    BY <1>5, AcquireCases
  <2>. QED
    BY <2>1, <2>2, <2>3, <2>4
<1>6. ASSUME NEW s \in Sessions, GateViewer(s) PROVE RecordShape'
  BY <1>6 DEF GateViewer, RecordShape, registryVars, upstreamVars, loginVars,
      sessionVars
<1>7. ASSUME NEW s \in Sessions, Reject(s) PROVE RecordShape'
  BY <1>7 DEF Reject, ReleaseSlot, RecordShape, registryVars, upstreamVars,
      loginVars, sessionVars
<1>8. ASSUME NEW s \in Sessions, RejectStop(s) PROVE RecordShape'
  BY <1>8 DEF RejectStop, RecordShape, registryVars, upstreamVars, loginVars,
      sessionVars
<1>9. ASSUME NEW s \in Sessions, Bind(s) PROVE RecordShape'
  BY <1>9 DEF Bind, Answer, RecordShape, registryVars, upstreamVars,
      loginVars, sessionVars
<1>10. ASSUME NEW s \in Sessions, Add(s) PROVE RecordShape'
  BY <1>10 DEF Add, RecordShape, registryVars, upstreamVars, loginVars,
      sessionVars
<1>11. ASSUME NEW s \in Sessions, CheckDone(s) PROVE RecordShape'
  BY <1>11 DEF CheckDone, RecordShape, registryVars, upstreamVars, loginVars,
      sessionVars
<1>12. ASSUME NEW s \in Sessions, Finish(s) PROVE RecordShape'
  BY <1>12 DEF Finish, RecordShape, registryVars, upstreamVars, loginVars,
      sessionVars
<1>13. ASSUME NEW s \in Sessions, BeginRelease(s) PROVE RecordShape'
  BY <1>13 DEF BeginRelease, RecordShape, registryVars, upstreamVars,
      loginVars, sessionVars
<1>14. ASSUME NEW s \in Sessions, Release(s) PROVE RecordShape'
  BY <1>14 DEF Release, ReleaseSlot, RecordShape, registryVars, upstreamVars,
      loginVars, sessionVars
<1>15. ASSUME NEW s \in Sessions, StopReleased(s) PROVE RecordShape'
  BY <1>15 DEF StopReleased, RecordShape, registryVars, upstreamVars,
      loginVars, sessionVars
<1>16. ASSUME NEW s \in Sessions, SessionLeft(s) PROVE RecordShape'
  BY <1>16 DEF SessionLeft, RecordShape, registryVars, upstreamVars,
      loginVars, sessionVars
<1>17. ASSUME NEW u \in Upstreams, StopStale(u) PROVE RecordShape'
  BY <1>17 DEF StopStale, RecordShape, registryVars, upstreamVars, loginVars,
      sessionVars
<1>18. CASE Quiet
  BY <1>18 DEF Quiet, RecordShape
<1>. QED
  BY <1>1, <1>2, <1>3, <1>4, <1>5, <1>6, <1>7, <1>8, <1>9, <1>10, <1>11,
      <1>12, <1>13, <1>14, <1>15, <1>16, <1>17, <1>18, QuietOrNoisy
     DEF HandlerStep, ReleaseStep

(* An upstream that was not created yet stays unknown.                       *)
LEMMA UnusedStep ==
    ASSUME TypeOK, HandlerShape, UnusedUpstream, [Next]_vars
    PROVE  UnusedUpstream'
<1>. USE ConstantsAssumption DEF TypeOK
<1>1. CASE Upsert
  BY <1>1 DEF Upsert, UnusedUpstream, Attached, registryVars, upstreamVars,
      loginVars, sessionVars
<1>2. CASE List
  BY <1>2 DEF List, ExpireMachine, UnusedUpstream, Attached, registryVars,
      upstreamVars, loginVars, sessionVars
<1>3. CASE Deregister
  BY <1>3 DEF Deregister, UnusedUpstream, Attached, registryVars,
      upstreamVars, loginVars, sessionVars
<1>4. ASSUME NEW s \in Sessions, Get(s) PROVE UnusedUpstream'
  BY <1>4, SMTT(30) DEF Get, ExpireMachine, UnusedUpstream, Attached, registryVars,
      upstreamVars, loginVars, sessionVars
<1>5. ASSUME NEW s \in Sessions, Acquire(s) PROVE UnusedUpstream'
  <2>0. /\ pc[s] = "got" /\ up[s] = None /\ got[s] \in Records
        /\ status[got[s]] # "unused"
        /\ UNCHANGED <<machine, status, stopped, stale, bound, login, rel>>
    BY <1>5, AcquireCases
  <2>1. CASE Refused(s)
    BY <2>0, <2>1 DEF Refused, UnusedUpstream
  <2>2. ASSUME NEW u \in Upstreams, TakesIdle(s, u) PROVE UnusedUpstream'
    BY <2>0, <2>2, SMTT(30) DEF TakesIdle, Takes, UnusedUpstream
  <2>3. ASSUME NEW u \in Upstreams, TakesNew(s, u) PROVE UnusedUpstream'
    BY <2>0, <2>3, SMTT(30) DEF TakesNew, Takes, UnusedUpstream
  <2>4. \/ Refused(s)
        \/ \E u \in Upstreams : TakesIdle(s, u)
        \/ \E u \in Upstreams : TakesNew(s, u)
    BY <1>5, AcquireCases
  <2>. QED
    BY <2>1, <2>2, <2>3, <2>4
<1>6. ASSUME NEW s \in Sessions, GateViewer(s) PROVE UnusedUpstream'
  BY <1>6 DEF GateViewer, UnusedUpstream, Attached, registryVars,
      upstreamVars, loginVars, sessionVars
<1>7. ASSUME NEW s \in Sessions, Reject(s) PROVE UnusedUpstream'
  BY <1>7 DEF Reject, ReleaseSlot, UnusedUpstream, Attached, registryVars,
      upstreamVars, loginVars, sessionVars
<1>8. ASSUME NEW s \in Sessions, RejectStop(s) PROVE UnusedUpstream'
  BY <1>8 DEF RejectStop, UnusedUpstream, Attached, registryVars,
      upstreamVars, loginVars, sessionVars
<1>9. ASSUME NEW s \in Sessions, Bind(s) PROVE UnusedUpstream'
  BY <1>9 DEF Bind, Answer, UnusedUpstream, Attached, registryVars,
      upstreamVars, loginVars, sessionVars
<1>10. ASSUME NEW s \in Sessions, Add(s) PROVE UnusedUpstream'
  BY <1>10 DEF Add, UnusedUpstream, Attached, registryVars, upstreamVars,
      loginVars, sessionVars
<1>11. ASSUME NEW s \in Sessions, CheckDone(s) PROVE UnusedUpstream'
  BY <1>11 DEF CheckDone, UnusedUpstream, Attached, registryVars,
      upstreamVars, loginVars, sessionVars
<1>12. ASSUME NEW s \in Sessions, Finish(s) PROVE UnusedUpstream'
  BY <1>12 DEF Finish, UnusedUpstream, Attached, registryVars, upstreamVars,
      loginVars, sessionVars
<1>13. ASSUME NEW s \in Sessions, BeginRelease(s) PROVE UnusedUpstream'
  BY <1>13 DEF BeginRelease, UnusedUpstream, Attached, registryVars,
      upstreamVars, loginVars, sessionVars
<1>14. ASSUME NEW s \in Sessions, Release(s) PROVE UnusedUpstream'
  BY <1>14 DEF Release, ReleaseSlot, UnusedUpstream, Attached, registryVars,
      upstreamVars, loginVars, sessionVars
<1>15. ASSUME NEW s \in Sessions, StopReleased(s) PROVE UnusedUpstream'
  BY <1>15 DEF StopReleased, UnusedUpstream, Attached, registryVars,
      upstreamVars, loginVars, sessionVars
<1>16. ASSUME NEW s \in Sessions, SessionLeft(s) PROVE UnusedUpstream'
  BY <1>16 DEF SessionLeft, UnusedUpstream, Attached, registryVars,
      upstreamVars, loginVars, sessionVars
<1>17. ASSUME NEW u \in Upstreams, StopStale(u) PROVE UnusedUpstream'
  BY <1>17 DEF StopStale, UnusedUpstream, Attached, registryVars,
      upstreamVars, loginVars, sessionVars
<1>18. CASE Quiet
  BY <1>18 DEF Quiet, UnusedUpstream, Attached
<1>. QED
  BY <1>1, <1>2, <1>3, <1>4, <1>5, <1>6, <1>7, <1>8, <1>9, <1>10, <1>11,
      <1>12, <1>13, <1>14, <1>15, <1>16, <1>17, <1>18, QuietOrNoisy
     DEF HandlerStep, ReleaseStep

(* A login that begins changes the session of one upstream's login only.     *)
LEMMA BeginLogin ==
    ASSUME NEW lg \in [Upstreams -> LoginInfo], NEW u \in Upstreams, NEW s, NEW sub, NEW lg2,
           lg2 = [lg EXCEPT ![u] = [state |-> "auth", sess |-> s, sub |-> sub]]
    PROVE  /\ lg2[u].sess = s
           /\ \A v \in Upstreams : v # u => lg2[v].sess = lg[v].sess
  OBVIOUS

(* Bound and logging-in sessions belong to the upstream.                     *)
LEMMA TargetsStep ==
    ASSUME TypeOK, HandlerShape, TargetsOwnSessions, [Next]_vars
    PROVE  TargetsOwnSessions'
<1>. USE ConstantsAssumption DEF TypeOK
<1>1. CASE Upsert
  BY <1>1 DEF Upsert, TargetsOwnSessions, registryVars, upstreamVars,
      loginVars, sessionVars
<1>2. CASE Silence
  BY <1>2 DEF Silence, TargetsOwnSessions, registryVars, upstreamVars,
      loginVars, sessionVars
<1>3. CASE List
  BY <1>3 DEF List, ExpireMachine, TargetsOwnSessions, registryVars,
      upstreamVars, loginVars, sessionVars
<1>4. CASE Deregister
  BY <1>4 DEF Deregister, TargetsOwnSessions, registryVars, upstreamVars,
      loginVars, sessionVars
<1>5. ASSUME NEW s \in Sessions, Get(s) PROVE TargetsOwnSessions'
  BY <1>5 DEF Get, ExpireMachine, TargetsOwnSessions, registryVars,
      upstreamVars, loginVars, sessionVars
<1>6. ASSUME NEW s \in Sessions, Acquire(s) PROVE TargetsOwnSessions'
  <2>0. /\ pc[s] = "got" /\ up[s] = None /\ got[s] \in Records
        /\ status[got[s]] # "unused"
        /\ UNCHANGED <<machine, status, stopped, stale, bound, login, rel>>
    BY <1>6, AcquireCases
  <2>1. CASE Refused(s)
    BY <2>0, <2>1 DEF Refused, TargetsOwnSessions
  <2>2. ASSUME NEW u \in Upstreams, TakesIdle(s, u) PROVE TargetsOwnSessions'
    BY <2>0, <2>2, SMTT(30) DEF TakesIdle, Takes, TargetsOwnSessions
  <2>3. ASSUME NEW u \in Upstreams, TakesNew(s, u) PROVE TargetsOwnSessions'
    BY <2>0, <2>3, SMTT(30) DEF TakesNew, Takes, TargetsOwnSessions
  <2>4. \/ Refused(s)
        \/ \E u \in Upstreams : TakesIdle(s, u)
        \/ \E u \in Upstreams : TakesNew(s, u)
    BY <1>6, AcquireCases
  <2>. QED
    BY <2>1, <2>2, <2>3, <2>4
<1>7. ASSUME NEW s \in Sessions, GateViewer(s) PROVE TargetsOwnSessions'
  <2>1. up[s] \in Upstreams
    BY <1>7 DEF GateViewer, HandlerShape
  <2>2. up' = up /\ bound' = bound
    BY <1>7 DEF GateViewer, upstreamVars
  <2>3. \/ login' = login
        \/ login' = [login EXCEPT ![up[s]] = [state |-> "auth", sess |-> s, sub |-> SubOf[s]]]
    BY <1>7 DEF GateViewer
  <2>4. CASE login' = login
    BY <2>2, <2>4 DEF TargetsOwnSessions
  <2>5. CASE login' = [login EXCEPT ![up[s]] = [state |-> "auth", sess |-> s, sub |-> SubOf[s]]]
    <3>1. login \in [Upstreams -> LoginInfo]
      OBVIOUS
    <3>. HIDE DEF TypeOK
    <3>2. /\ login'[up[s]].sess = s
          /\ \A v \in Upstreams : v # up[s] => login'[v].sess = login[v].sess
      BY <2>1, <2>5, <3>1, BeginLogin
    <3>. QED
      BY <2>1, <2>2, <3>2, ZenonT(40) DEF TargetsOwnSessions
  <2>. QED
    BY <2>3, <2>4, <2>5
<1>8. ASSUME NEW s \in Sessions, Reject(s) PROVE TargetsOwnSessions'
  BY <1>8 DEF Reject, ReleaseSlot, TargetsOwnSessions, registryVars,
      upstreamVars, loginVars, sessionVars
<1>9. ASSUME NEW s \in Sessions, RejectStop(s) PROVE TargetsOwnSessions'
  BY <1>9 DEF RejectStop, TargetsOwnSessions, registryVars, upstreamVars,
      loginVars, sessionVars
<1>10. ASSUME NEW s \in Sessions, Bind(s) PROVE TargetsOwnSessions'
  BY <1>10 DEF Bind, Answer, TargetsOwnSessions, registryVars, upstreamVars,
      loginVars, sessionVars
<1>11. ASSUME NEW s \in Sessions, Add(s) PROVE TargetsOwnSessions'
  BY <1>11 DEF Add, TargetsOwnSessions, registryVars, upstreamVars, loginVars,
      sessionVars
<1>12. ASSUME NEW s \in Sessions, CheckDone(s) PROVE TargetsOwnSessions'
  BY <1>12 DEF CheckDone, TargetsOwnSessions, registryVars, upstreamVars,
      loginVars, sessionVars
<1>13. ASSUME NEW s \in Sessions, Finish(s) PROVE TargetsOwnSessions'
  BY <1>13 DEF Finish, TargetsOwnSessions, registryVars, upstreamVars,
      loginVars, sessionVars
<1>14. ASSUME NEW s \in Sessions, Close(s) PROVE TargetsOwnSessions'
  BY <1>14 DEF Close, TargetsOwnSessions, registryVars, upstreamVars,
      loginVars, sessionVars
<1>15. ASSUME NEW s \in Sessions, Disconnect(s) PROVE TargetsOwnSessions'
  BY <1>15 DEF Disconnect, TargetsOwnSessions, registryVars, upstreamVars,
      loginVars, sessionVars
<1>16. ASSUME NEW s \in Sessions, LoginResponse(s) PROVE TargetsOwnSessions'
  BY <1>16, SMTT(30) DEF LoginResponse, Answer, TargetsOwnSessions, registryVars,
      upstreamVars, loginVars, sessionVars
<1>17. ASSUME NEW s \in Sessions, ViewerLock(s) PROVE TargetsOwnSessions'
  <2>1. up[s] \in Upstreams /\ login \in [Upstreams -> LoginInfo]
    BY <1>17 DEF ViewerLock, HandlerShape, Attached
  <2>. HIDE DEF TypeOK
  <2>2. /\ up' = up /\ bound' = bound
        /\ login' = [login EXCEPT ![up[s]] = [state |-> "auth", sess |-> s, sub |-> SubOf[s]]]
    BY <1>17 DEF ViewerLock, upstreamVars, sessionVars
  <2>3. /\ login'[up[s]].sess = s
        /\ \A v \in Upstreams : v # up[s] => login'[v].sess = login[v].sess
    BY <2>1, <2>2, BeginLogin
  <2>. QED
    BY <2>1, <2>2, <2>3 DEF TargetsOwnSessions
<1>18. ASSUME NEW s \in Sessions, BeginRelease(s) PROVE TargetsOwnSessions'
  <2>1. bound \in [Upstreams -> Sessions \cup {None}]
    OBVIOUS
  <2>. HIDE DEF TypeOK
  <2>2. /\ up' = up /\ login' = login
        /\ bound' = [bound EXCEPT ![up[s]] = IF @ = s THEN None ELSE @]
    BY <1>18 DEF BeginRelease, loginVars
  <2>3. \A v \in Upstreams : bound'[v] \in {bound[v], None}
    BY <2>1, <2>2
  <2>. QED
    BY <2>2, <2>3 DEF TargetsOwnSessions
<1>19. ASSUME NEW s \in Sessions, Release(s) PROVE TargetsOwnSessions'
  BY <1>19 DEF Release, ReleaseSlot, TargetsOwnSessions, registryVars,
      upstreamVars, loginVars, sessionVars
<1>20. ASSUME NEW s \in Sessions, StopReleased(s) PROVE TargetsOwnSessions'
  BY <1>20 DEF StopReleased, TargetsOwnSessions, registryVars, upstreamVars,
      loginVars, sessionVars
<1>21. ASSUME NEW s \in Sessions, SessionLeft(s) PROVE TargetsOwnSessions'
  BY <1>21, SMTT(30) DEF SessionLeft, TargetsOwnSessions, NoLogin, registryVars,
      upstreamVars, loginVars, sessionVars
<1>22. ASSUME NEW u \in Upstreams, StopStale(u) PROVE TargetsOwnSessions'
  BY <1>22 DEF StopStale, TargetsOwnSessions, registryVars, upstreamVars,
      loginVars, sessionVars
<1>23. ASSUME NEW u \in Upstreams, Connect(u) PROVE TargetsOwnSessions'
  BY <1>23 DEF Connect, TargetsOwnSessions, registryVars, upstreamVars,
      loginVars, sessionVars
<1>24. ASSUME NEW u \in Upstreams, StopDialing(u) PROVE TargetsOwnSessions'
  BY <1>24 DEF StopDialing, TargetsOwnSessions, registryVars, upstreamVars,
      loginVars, sessionVars
<1>25. ASSUME NEW u \in Upstreams, Lose(u) PROVE TargetsOwnSessions'
  BY <1>25, SMTT(30) DEF Lose, TargetsOwnSessions, NoLogin, registryVars, upstreamVars,
      loginVars, sessionVars
<1>26. ASSUME NEW u \in Upstreams, NEW s \in Sessions, EndByID(u, s) PROVE TargetsOwnSessions'
  BY <1>26 DEF EndByID, TargetsOwnSessions, registryVars, upstreamVars,
      loginVars, sessionVars
<1>27. ASSUME NEW u \in Upstreams, EndReturns(u) PROVE TargetsOwnSessions'
  BY <1>27 DEF EndReturns, TargetsOwnSessions, registryVars, upstreamVars,
      loginVars, sessionVars
<1>28. ASSUME NEW u \in Upstreams, Redial(u) PROVE TargetsOwnSessions'
  BY <1>28 DEF Redial, TargetsOwnSessions, registryVars, upstreamVars,
      loginVars, sessionVars
<1>29. ASSUME NEW u \in Upstreams, LoginPrompt(u) PROVE TargetsOwnSessions'
  <2>1. bound \in [Upstreams -> Sessions \cup {None}] /\ login \in [Upstreams -> LoginInfo]
    OBVIOUS
  <2>. HIDE DEF TypeOK
  <2>2. up' = up /\ bound' = bound
    BY <1>29 DEF LoginPrompt, upstreamVars, sessionVars
  <2>3. \/ login' = login
        \/ login' = [login EXCEPT ![u] = [state |-> "auth", sess |-> bound[u],
                                          sub |-> SubOf[bound[u]]]]
    BY <1>29 DEF LoginPrompt
  <2>4. CASE login' = login
    BY <2>2, <2>4 DEF TargetsOwnSessions
  <2>5. CASE login' = [login EXCEPT ![u] = [state |-> "auth", sess |-> bound[u],
                                            sub |-> SubOf[bound[u]]]]
    <3>1. /\ login'[u].sess = bound[u]
          /\ \A v \in Upstreams : v # u => login'[v].sess = login[v].sess
      BY <2>1, <2>5, BeginLogin
    <3>. QED
      BY <2>2, <3>1, SMTT(30) DEF TargetsOwnSessions
  <2>. QED
    BY <2>3, <2>4, <2>5
<1>30. ASSUME NEW u \in Upstreams, LoginOk(u) PROVE TargetsOwnSessions'
  BY <1>30, SMTT(30) DEF LoginOk, TargetsOwnSessions, registryVars, upstreamVars,
      loginVars, sessionVars
<1>31. ASSUME NEW u \in Upstreams, LoginFailed(u) PROVE TargetsOwnSessions'
  BY <1>31 DEF LoginFailed, TargetsOwnSessions, registryVars, upstreamVars,
      loginVars, sessionVars
<1>32. ASSUME NEW u \in Upstreams, LoginBusy(u) PROVE TargetsOwnSessions'
  BY <1>32 DEF LoginBusy, TargetsOwnSessions, NoLogin, registryVars,
      upstreamVars, loginVars, sessionVars
<1>33. CASE UNCHANGED vars
  BY <1>33 DEF vars, registryVars, upstreamVars, loginVars, sessionVars,
      TargetsOwnSessions
<1>. QED
  BY <1>1, <1>2, <1>3, <1>4, <1>5, <1>6, <1>7, <1>8, <1>9, <1>10, <1>11,
      <1>12, <1>13, <1>14, <1>15, <1>16, <1>17, <1>18, <1>19, <1>20, <1>21,
      <1>22, <1>23, <1>24, <1>25, <1>26, <1>27, <1>28, <1>29, <1>30, <1>31,
      <1>32, <1>33
     DEF Next, RegistryStep, HandlerStep, ViewerStep, ReleaseStep, LinkStep,
         LoginFrame

(* A step that moves no holder keeps the slot exclusive.                     *)
LEMMA SameHolders ==
    ASSUME SlotExclusive, viewers' = viewers,
           \A t \in Sessions, u \in Upstreams : Holds(t, u)' <=> Holds(t, u)
    PROVE  SlotExclusive'
  BY DEF SlotExclusive

(* When its holder gives up the slot of upstream u, nobody holds it.         *)
LEMMA HolderLeaves ==
    ASSUME TypeOK, SlotExclusive, NEW s \in Sessions, NEW u \in Upstreams, Holds(s, u),
           viewers' = [viewers EXCEPT ![u] = IF @ > 0 THEN @ - 1 ELSE 0],
           \A v \in Upstreams : ~Holds(s, v)',
           \A t \in Sessions \ {s}, v \in Upstreams : Holds(t, v)' <=> Holds(t, v)
    PROVE  SlotExclusive' /\ viewers'[u] = 0
<1>1. viewers[u] = 1 /\ \A t \in Sessions : Holds(t, u) => t = s
  BY DEF SlotExclusive
<1>2. viewers'[u] = 0 /\ \A v \in Upstreams \ {u} : viewers'[v] = viewers[v]
  BY <1>1, SMTT(30) DEF TypeOK
<1>3. \A v \in Upstreams \ {u} : ~Holds(s, v)
  BY DEF Holds
<1>4. \A t \in Sessions : ~Holds(t, u)'
  BY <1>1
<1>5. \A v \in Upstreams \ {u}, t \in Sessions : Holds(t, v)' <=> Holds(t, v)
  BY <1>3
<1>. QED
  BY <1>2, <1>4, <1>5, SMTT(30) DEF SlotExclusive

(* Acquire and release keep the count of an upstream equal to its holders.   *)
LEMMA SlotStep ==
    ASSUME TypeOK, HandlerShape, UnusedUpstream, SlotExclusive, [Next]_vars
    PROVE  SlotExclusive'
<1>. USE ConstantsAssumption DEF TypeOK
<1>1. CASE Upsert
  BY <1>1, SMTT(30) DEF Upsert, SlotExclusive, Holds, Attached, registryVars,
      upstreamVars, loginVars, sessionVars
<1>2. CASE List
  BY <1>2, SMTT(30) DEF List, ExpireMachine, SlotExclusive, Holds, Attached,
      registryVars, upstreamVars, loginVars, sessionVars
<1>3. CASE Deregister
  BY <1>3, SMTT(30) DEF Deregister, SlotExclusive, Holds, Attached, registryVars,
      upstreamVars, loginVars, sessionVars
<1>4. ASSUME NEW s \in Sessions, Get(s) PROVE SlotExclusive'
  <2>1. viewers' = viewers
    BY <1>4 DEF Get, ExpireMachine
  <2>2. ASSUME NEW t \in Sessions, NEW u \in Upstreams PROVE Holds(t, u)' <=> Holds(t, u)
    BY <1>4, SMTT(30) DEF Get, Holds, Attached, HandlerShape, TypeOK, registryVars,
        upstreamVars, loginVars, sessionVars
  <2>. QED
    BY <2>1, <2>2, SameHolders
<1>5. ASSUME NEW s \in Sessions, Acquire(s) PROVE SlotExclusive'
  <2>0. pc[s] = "got" /\ up[s] = None /\ rel' = rel
    BY <1>5, AcquireCases
  <2>1. CASE Refused(s)
    <3>1. viewers' = viewers
      BY <2>1 DEF Refused
    <3>2. ASSUME NEW t \in Sessions, NEW u \in Upstreams PROVE Holds(t, u)' <=> Holds(t, u)
      BY <2>0, <2>1 DEF Refused, Holds, Attached
    <3>. QED
      BY <3>1, <3>2, SameHolders
  <2>2. ASSUME NEW u \in Upstreams, Takes(s, u), viewers[u] = 0 PROVE SlotExclusive'
    <3>1. \A t \in Sessions : ~Holds(t, u)
      BY <2>2 DEF SlotExclusive
    <3>2. \A v \in Upstreams : Holds(s, v)' <=> v = u
      BY <2>2 DEF Takes, Holds
    <3>3. \A t \in Sessions \ {s}, v \in Upstreams : Holds(t, v)' <=> Holds(t, v)
      BY <2>0, <2>2, SMTT(30) DEF Takes, Holds
    <3>4. \A v \in Upstreams : ~Holds(s, v)
      BY <2>0 DEF Holds
    <3>5. viewers'[u] = 1 /\ \A v \in Upstreams \ {u} : viewers'[v] = viewers[v]
      BY <2>2, SMTT(30) DEF Takes
    <3>6. \A t \in Sessions : Holds(t, u)' <=> t = s
      BY <3>1, <3>2, <3>3
    <3>7. \A t \in Sessions, v \in Upstreams \ {u} : Holds(t, v)' <=> Holds(t, v)
      BY <3>2, <3>3, <3>4
    <3>8. ASSUME NEW v \in Upstreams \ {u}
          PROVE  /\ viewers'[v] = 0 => \A t \in Sessions : ~Holds(t, v)'
                 /\ viewers'[v] # 0 => viewers'[v] = 1 /\ \E t \in Sessions : Holds(t, v)'
                 /\ \A q, t \in Sessions : Holds(q, v)' /\ Holds(t, v)' => q = t
      <4>1. /\ viewers[v] = 0 => \A t \in Sessions : ~Holds(t, v)
            /\ viewers[v] # 0 => viewers[v] = 1 /\ \E t \in Sessions : Holds(t, v)
            /\ \A q, t \in Sessions : Holds(q, v) /\ Holds(t, v) => q = t
        BY DEF SlotExclusive
      <4>2. /\ viewers'[v] = viewers[v]
            /\ \A t \in Sessions : Holds(t, v)' <=> Holds(t, v)
        BY <3>5, <3>7
      <4>3. viewers'[v] = 0 => \A t \in Sessions : ~Holds(t, v)'
        BY <4>1, <4>2
      <4>4. viewers'[v] # 0 => viewers'[v] = 1 /\ \E t \in Sessions : Holds(t, v)'
        BY <4>1, <4>2
      <4>5. ASSUME NEW q \in Sessions, NEW t \in Sessions, Holds(q, v)', Holds(t, v)'
            PROVE  q = t
        BY <4>1, <4>2, <4>5
      <4>. QED
        BY <4>3, <4>4, <4>5
    <3>9. /\ viewers'[u] # 0 /\ viewers'[u] = 1 /\ \E t \in Sessions : Holds(t, u)'
          /\ \A q, t \in Sessions : Holds(q, u)' /\ Holds(t, u)' => q = t
      <4>1. viewers'[u] # 0 /\ viewers'[u] = 1
        BY <3>5, SMTT(30)
      <4>2. \E t \in Sessions : Holds(t, u)'
        BY <3>6
      <4>3. \A q, t \in Sessions : Holds(q, u)' /\ Holds(t, u)' => q = t
        BY <3>6
      <4>. QED
        BY <4>1, <4>2, <4>3
    <3>. QED
      <4>1. ASSUME NEW v \in Upstreams
            PROVE  /\ viewers'[v] = 0 => \A t \in Sessions : ~Holds(t, v)'
                   /\ viewers'[v] # 0 => viewers'[v] = 1 /\ \E t \in Sessions : Holds(t, v)'
                   /\ \A q, t \in Sessions : Holds(q, v)' /\ Holds(t, v)' => q = t
        <5>1. CASE v = u
          BY <5>1, <3>9
        <5>2. CASE v # u
          BY <5>2, <3>8
        <5>. QED
          BY <5>1, <5>2
      <4>. QED
        BY <4>1, ZenonT(40) DEF SlotExclusive
  <2>3. \/ Refused(s)
        \/ \E u \in Upstreams : TakesIdle(s, u)
        \/ \E u \in Upstreams : TakesNew(s, u)
    BY <1>5, AcquireCases
  <2>4. ASSUME NEW u \in Upstreams, TakesIdle(s, u) \/ TakesNew(s, u)
        PROVE  Takes(s, u) /\ viewers[u] = 0
    BY <2>4 DEF TakesIdle, TakesNew, UnusedUpstream
  <2>. QED
    BY <2>1, <2>2, <2>3, <2>4
<1>6. ASSUME NEW s \in Sessions, GateViewer(s) PROVE SlotExclusive'
  <2>1. viewers' = viewers /\ UNCHANGED <<rel, up>> /\ pc[s] = "acquired" /\ rel[s] = "no"
    BY <1>6 DEF GateViewer, registryVars, HandlerShape, Attached
  <2>2. pc' = [pc EXCEPT ![s] = "ready"] \/ pc' = [pc EXCEPT ![s] = "rejected"]
    BY <1>6 DEF GateViewer
  <2>3. ASSUME NEW t \in Sessions, NEW u \in Upstreams PROVE Holds(t, u)' <=> Holds(t, u)
    BY <2>1, <2>2, SMTT(30) DEF Holds, Attached, TypeOK
  <2>. QED
    BY <2>1, <2>3, SameHolders
<1>7. ASSUME NEW s \in Sessions, Reject(s) PROVE SlotExclusive'
  <2>1. up[s] \in Upstreams /\ Holds(s, up[s])
    BY <1>7 DEF Reject, Holds, HandlerShape, Attached, PcStates
  <2>2. /\ viewers' = [viewers EXCEPT ![up[s]] = IF @ > 0 THEN @ - 1 ELSE 0]
        /\ \A v \in Upstreams : ~Holds(s, v)'
    BY <1>7 DEF Reject, ReleaseSlot, Holds, Attached, HandlerShape
  <2>3. ASSUME NEW t \in Sessions \ {s}, NEW v \in Upstreams PROVE Holds(t, v)' <=> Holds(t, v)
    BY <1>7 DEF Reject, Holds
  <2>. QED
    BY <2>1, <2>2, <2>3, HolderLeaves
<1>8. ASSUME NEW s \in Sessions, RejectStop(s) PROVE SlotExclusive'
  <2>1. viewers' = viewers
    BY <1>8 DEF RejectStop, registryVars
  <2>2. ASSUME NEW t \in Sessions, NEW u \in Upstreams PROVE Holds(t, u)' <=> Holds(t, u)
    BY <1>8 DEF RejectStop, Holds, Attached, HandlerShape, TypeOK,
        registryVars, upstreamVars, loginVars, sessionVars
  <2>. QED
    BY <2>1, <2>2, SameHolders
<1>9. ASSUME NEW s \in Sessions, Bind(s) PROVE SlotExclusive'
  <2>1. viewers' = viewers /\ UNCHANGED <<rel, up>> /\ pc[s] = "ready"
    BY <1>9 DEF Bind, registryVars
  <2>2. pc' = [pc EXCEPT ![s] = "bound"] \/ pc' = [pc EXCEPT ![s] = "running"]
    BY <1>9 DEF Bind
  <2>3. ASSUME NEW t \in Sessions, NEW u \in Upstreams PROVE Holds(t, u)' <=> Holds(t, u)
    BY <2>1, <2>2, SMTT(30) DEF Holds, Attached, TypeOK
  <2>. QED
    BY <2>1, <2>3, SameHolders
<1>10. ASSUME NEW s \in Sessions, Add(s) PROVE SlotExclusive'
  <2>1. viewers' = viewers
    BY <1>10 DEF Add, registryVars
  <2>2. ASSUME NEW t \in Sessions, NEW u \in Upstreams PROVE Holds(t, u)' <=> Holds(t, u)
    BY <1>10 DEF Add, Holds, Attached, HandlerShape, TypeOK, registryVars,
        upstreamVars, loginVars, sessionVars
  <2>. QED
    BY <2>1, <2>2, SameHolders
<1>11. ASSUME NEW s \in Sessions, CheckDone(s) PROVE SlotExclusive'
  <2>1. viewers' = viewers
    BY <1>11 DEF CheckDone, registryVars
  <2>2. ASSUME NEW t \in Sessions, NEW u \in Upstreams PROVE Holds(t, u)' <=> Holds(t, u)
    BY <1>11 DEF CheckDone, Holds, Attached, HandlerShape, TypeOK,
        registryVars, upstreamVars, loginVars, sessionVars
  <2>. QED
    BY <2>1, <2>2, SameHolders
<1>12. ASSUME NEW s \in Sessions, Finish(s) PROVE SlotExclusive'
  <2>1. viewers' = viewers
    BY <1>12 DEF Finish, registryVars
  <2>2. ASSUME NEW t \in Sessions, NEW u \in Upstreams PROVE Holds(t, u)' <=> Holds(t, u)
    BY <1>12 DEF Finish, Holds, Attached, HandlerShape, TypeOK, registryVars,
        upstreamVars, loginVars, sessionVars
  <2>. QED
    BY <2>1, <2>2, SameHolders
<1>13. ASSUME NEW s \in Sessions, BeginRelease(s) PROVE SlotExclusive'
  BY <1>13, SMTT(30) DEF BeginRelease, SlotExclusive, Holds, Attached, registryVars,
      upstreamVars, loginVars, sessionVars
<1>14. ASSUME NEW s \in Sessions, Release(s) PROVE SlotExclusive'
  <2>1. up[s] \in Upstreams /\ Holds(s, up[s])
    BY <1>14 DEF Release, Holds, HandlerShape, Attached, PcStates
  <2>2. /\ viewers' = [viewers EXCEPT ![up[s]] = IF @ > 0 THEN @ - 1 ELSE 0]
        /\ \A v \in Upstreams : ~Holds(s, v)'
    BY <1>14 DEF Release, ReleaseSlot, Holds, Attached, HandlerShape
  <2>3. ASSUME NEW t \in Sessions \ {s}, NEW v \in Upstreams PROVE Holds(t, v)' <=> Holds(t, v)
    BY <1>14 DEF Release, Holds
  <2>. QED
    BY <2>1, <2>2, <2>3, HolderLeaves
<1>15. ASSUME NEW s \in Sessions, StopReleased(s) PROVE SlotExclusive'
  BY <1>15, SMTT(30) DEF StopReleased, SlotExclusive, Holds, Attached, registryVars,
      upstreamVars, loginVars, sessionVars
<1>16. ASSUME NEW s \in Sessions, SessionLeft(s) PROVE SlotExclusive'
  <2>1. viewers' = viewers
    BY <1>16, ZenonT(40) DEF SessionLeft, registryVars
  <2>2. ASSUME NEW t \in Sessions, NEW u \in Upstreams PROVE Holds(t, u)' <=> Holds(t, u)
    BY <1>16 DEF SessionLeft, Holds, Attached, HandlerShape, TypeOK,
        registryVars, upstreamVars, loginVars, sessionVars
  <2>. QED
    BY <2>1, <2>2, SameHolders
<1>17. ASSUME NEW u \in Upstreams, StopStale(u) PROVE SlotExclusive'
  BY <1>17, SMTT(30) DEF StopStale, SlotExclusive, Holds, Attached, registryVars,
      upstreamVars, loginVars, sessionVars
<1>18. CASE Quiet
  <2>1. viewers' = viewers
    BY <1>18 DEF Quiet
  <2>2. ASSUME NEW t \in Sessions, NEW u \in Upstreams PROVE Holds(t, u)' <=> Holds(t, u)
    BY <1>18 DEF Quiet, Holds
  <2>. QED
    BY <2>1, <2>2, SameHolders
<1>. QED
  BY <1>1, <1>2, <1>3, <1>4, <1>5, <1>6, <1>7, <1>8, <1>9, <1>10, <1>11,
      <1>12, <1>13, <1>14, <1>15, <1>16, <1>17, <1>18, QuietOrNoisy
     DEF HandlerStep, ReleaseStep

(* The registered upstream is live and held by whoever acquired it.          *)
LEMMA HeldStep ==
    ASSUME TypeOK, HandlerShape, RecordShape, UnusedUpstream, SlotExclusive, RegisteredIsHeld, [Next]_vars
    PROVE  RegisteredIsHeld'
<1>. USE ConstantsAssumption DEF TypeOK
<1>1. CASE Upsert
  <2>1. PICK r \in Records :
               /\ machine' = r
               /\ machine = None => status[r] = "unused"
               /\ machine # None => r = machine
    BY <1>1 DEF Upsert
  <2>2. ASSUME NEW u \in Upstreams, Registered(u)' PROVE Registered(u)
    BY <1>1, <2>1, <2>2 DEF Upsert, Registered, RecordShape
  <2>. QED
    BY <1>1, <2>2 DEF Upsert, RegisteredIsHeld, Holds, registryVars,
        upstreamVars, loginVars, sessionVars
<1>2. CASE List
  BY <1>2, SMTT(30) DEF List, ExpireMachine, RegisteredIsHeld, Registered, Holds,
      Attached, registryVars, upstreamVars, loginVars, sessionVars
<1>3. CASE Deregister
  BY <1>3 DEF Deregister, RegisteredIsHeld, Registered, Holds, Attached,
      registryVars, upstreamVars, loginVars, sessionVars
<1>4. ASSUME NEW s \in Sessions, Get(s) PROVE RegisteredIsHeld'
  BY <1>4, SMTT(30) DEF Get, ExpireMachine, RegisteredIsHeld, Registered, Holds,
      Attached, registryVars, upstreamVars, loginVars, sessionVars
<1>5. ASSUME NEW s \in Sessions, Acquire(s) PROVE RegisteredIsHeld'
  <2>0. /\ pc[s] = "got" /\ up[s] = None /\ got[s] \in Records
        /\ status[got[s]] # "unused"
        /\ UNCHANGED <<machine, status, stopped, stale, bound, login, rel>>
    BY <1>5, AcquireCases
  <2>1. CASE Refused(s)
    BY <2>0, <2>1, SMTT(30) DEF Refused, RegisteredIsHeld, Registered, UnusedUpstream, Holds, Attached
  <2>2. ASSUME NEW u \in Upstreams, TakesIdle(s, u) PROVE RegisteredIsHeld'
    BY <2>0, <2>2, SMTT(30) DEF TakesIdle, Takes, RegisteredIsHeld, Registered, UnusedUpstream, Holds, Attached
  <2>3. ASSUME NEW u \in Upstreams, TakesNew(s, u) PROVE RegisteredIsHeld'
    BY <2>0, <2>3, SMTT(30) DEF TakesNew, Takes, RegisteredIsHeld, Registered, UnusedUpstream, Holds, Attached
  <2>4. \/ Refused(s)
        \/ \E u \in Upstreams : TakesIdle(s, u)
        \/ \E u \in Upstreams : TakesNew(s, u)
    BY <1>5, AcquireCases
  <2>. QED
    BY <2>1, <2>2, <2>3, <2>4
<1>6. ASSUME NEW s \in Sessions, GateViewer(s) PROVE RegisteredIsHeld'
  <2>1. /\ UNCHANGED <<machine, recUp, viewers, stopped, stale, rel, up>>
        /\ pc[s] = "acquired" /\ rel[s] = "no"
    BY <1>6 DEF GateViewer, registryVars, upstreamVars, HandlerShape, Attached
  <2>2. pc' = [pc EXCEPT ![s] = "ready"] \/ pc' = [pc EXCEPT ![s] = "rejected"]
    BY <1>6 DEF GateViewer
  <2>. QED
    BY <2>1, <2>2, SMTT(30) DEF RegisteredIsHeld, Registered, Holds, Attached
<1>7. ASSUME NEW s \in Sessions, Reject(s) PROVE RegisteredIsHeld'
  BY <1>7, SMTT(30) DEF Reject, ReleaseSlot, RegisteredIsHeld, Registered, Holds,
      Attached, registryVars, upstreamVars, loginVars, sessionVars
<1>8. ASSUME NEW s \in Sessions, RejectStop(s) PROVE RegisteredIsHeld'
  BY <1>8, SMTT(30) DEF RejectStop, RegisteredIsHeld, Registered, Holds, Attached,
      registryVars, upstreamVars, loginVars, sessionVars
<1>9. ASSUME NEW s \in Sessions, Bind(s) PROVE RegisteredIsHeld'
  <2>1. /\ UNCHANGED <<machine, recUp, viewers, stopped, stale, rel, up>>
        /\ pc[s] = "ready"
    BY <1>9 DEF Bind, registryVars
  <2>2. pc' = [pc EXCEPT ![s] = "bound"] \/ pc' = [pc EXCEPT ![s] = "running"]
    BY <1>9 DEF Bind
  <2>. QED
    BY <2>1, <2>2, SMTT(30) DEF RegisteredIsHeld, Registered, Holds, Attached
<1>10. ASSUME NEW s \in Sessions, Add(s) PROVE RegisteredIsHeld'
  BY <1>10, SMTT(30) DEF Add, RegisteredIsHeld, Registered, Holds, Attached,
      registryVars, upstreamVars, loginVars, sessionVars
<1>11. ASSUME NEW s \in Sessions, CheckDone(s) PROVE RegisteredIsHeld'
  BY <1>11, SMTT(30) DEF CheckDone, RegisteredIsHeld, Registered, Holds, Attached,
      registryVars, upstreamVars, loginVars, sessionVars
<1>12. ASSUME NEW s \in Sessions, Finish(s) PROVE RegisteredIsHeld'
  BY <1>12, SMTT(30) DEF Finish, RegisteredIsHeld, Registered, Holds, Attached,
      registryVars, upstreamVars, loginVars, sessionVars
<1>13. ASSUME NEW s \in Sessions, BeginRelease(s) PROVE RegisteredIsHeld'
  BY <1>13, SMTT(30) DEF BeginRelease, RegisteredIsHeld, Registered, Holds, Attached,
      registryVars, upstreamVars, loginVars, sessionVars
<1>14. ASSUME NEW s \in Sessions, Release(s) PROVE RegisteredIsHeld'
  BY <1>14, SMTT(30) DEF Release, ReleaseSlot, RegisteredIsHeld, Registered, Holds,
      Attached, registryVars, upstreamVars, loginVars, sessionVars
<1>15. ASSUME NEW s \in Sessions, StopReleased(s) PROVE RegisteredIsHeld'
  BY <1>15, SMTT(30) DEF StopReleased, RegisteredIsHeld, Registered, Holds, Attached,
      HandlerShape, registryVars, upstreamVars, loginVars, sessionVars
<1>16. ASSUME NEW s \in Sessions, SessionLeft(s) PROVE RegisteredIsHeld'
  <2>1. /\ rel[s] = "leaving" /\ rel' = [rel EXCEPT ![s] = "done"]
        /\ UNCHANGED <<machine, recUp, viewers, stopped, stale, pc, up>>
    BY <1>16 DEF SessionLeft, registryVars, upstreamVars
  <2>2. ASSUME NEW t \in Sessions, NEW u \in Upstreams, Holds(t, u) PROVE Holds(t, u)'
    BY <2>1, <2>2 DEF Holds, HandlerShape
  <2>. QED
    BY <2>1, <2>2 DEF RegisteredIsHeld, Registered
<1>17. ASSUME NEW u \in Upstreams, StopStale(u) PROVE RegisteredIsHeld'
  BY <1>17, SMTT(30) DEF StopStale, RegisteredIsHeld, Registered, Holds, Attached,
      registryVars, upstreamVars, loginVars, sessionVars
<1>18. CASE Quiet
  BY <1>18 DEF Quiet, RegisteredIsHeld, Registered, Holds, Attached
<1>. QED
  BY <1>1, <1>2, <1>3, <1>4, <1>5, <1>6, <1>7, <1>8, <1>9, <1>10, <1>11,
      <1>12, <1>13, <1>14, <1>15, <1>16, <1>17, <1>18, QuietOrNoisy
     DEF HandlerStep, ReleaseStep

(* Only acquire turns a viewer that found the machine away.                  *)
LEMMA RefusalIsAcquire ==
    ASSUME TypeOK, [Next]_vars, NEW x \in Sessions, pc[x] = "got", pc'[x] = "refused"
    PROVE  Acquire(x)
<1>. USE DEF TypeOK
<1>1. CASE Upsert
  BY <1>1 DEF Upsert, sessionVars
<1>2. CASE List
  BY <1>2 DEF List, sessionVars
<1>3. CASE Deregister
  BY <1>3 DEF Deregister, sessionVars
<1>4. ASSUME NEW s \in Sessions, Get(s) PROVE Acquire(x)
  BY <1>4 DEF Get, sessionVars
<1>5. ASSUME NEW s \in Sessions, Acquire(s) PROVE Acquire(x)
  BY <1>5, ZenonT(40) DEF Acquire
<1>6. ASSUME NEW s \in Sessions, GateViewer(s) PROVE Acquire(x)
  <2>1. pc' = [pc EXCEPT ![s] = "ready"] \/ pc' = [pc EXCEPT ![s] = "rejected"]
    BY <1>6 DEF GateViewer
  <2>. QED
    BY <2>1
<1>7. ASSUME NEW s \in Sessions, Reject(s) PROVE Acquire(x)
  BY <1>7 DEF Reject, sessionVars
<1>8. ASSUME NEW s \in Sessions, RejectStop(s) PROVE Acquire(x)
  BY <1>8 DEF RejectStop, sessionVars
<1>9. ASSUME NEW s \in Sessions, Bind(s) PROVE Acquire(x)
  <2>1. pc' = [pc EXCEPT ![s] = "bound"] \/ pc' = [pc EXCEPT ![s] = "running"]
    BY <1>9 DEF Bind
  <2>. QED
    BY <2>1
<1>10. ASSUME NEW s \in Sessions, Add(s) PROVE Acquire(x)
  BY <1>10 DEF Add, sessionVars
<1>11. ASSUME NEW s \in Sessions, CheckDone(s) PROVE Acquire(x)
  BY <1>11 DEF CheckDone, sessionVars
<1>12. ASSUME NEW s \in Sessions, Finish(s) PROVE Acquire(x)
  BY <1>12 DEF Finish, sessionVars
<1>13. ASSUME NEW s \in Sessions, BeginRelease(s) PROVE Acquire(x)
  BY <1>13 DEF BeginRelease, sessionVars
<1>14. ASSUME NEW s \in Sessions, Release(s) PROVE Acquire(x)
  BY <1>14 DEF Release, sessionVars
<1>15. ASSUME NEW s \in Sessions, StopReleased(s) PROVE Acquire(x)
  BY <1>15 DEF StopReleased, sessionVars
<1>16. ASSUME NEW s \in Sessions, SessionLeft(s) PROVE Acquire(x)
  BY <1>16 DEF SessionLeft, sessionVars
<1>17. ASSUME NEW u \in Upstreams, StopStale(u) PROVE Acquire(x)
  BY <1>17 DEF StopStale, sessionVars
<1>18. CASE Quiet
  BY <1>18 DEF Quiet
<1>. QED
  BY <1>1, <1>2, <1>3, <1>4, <1>5, <1>6, <1>7, <1>8, <1>9, <1>10, <1>11,
      <1>12, <1>13, <1>14, <1>15, <1>16, <1>17, <1>18, QuietOrNoisy
     DEF HandlerStep, ReleaseStep

-----------------------------------------------------------------------------
(* A relay that has just started satisfies the invariant.                  *)
LEMMA InitIInv == Init => IInv
<1>. SUFFICES ASSUME Init PROVE IInv
  OBVIOUS
<1>. USE ConstantsAssumption DEF Init
<1>1. TypeOK
  BY DEF TypeOK, NoLogin, Subs, LoginInfo, PcStates, RelStates, LinkStates, HostStates
<1>2. HandlerShape /\ RecordShape /\ UnusedUpstream
  BY DEF HandlerShape, RecordShape, UnusedUpstream, Attached
<1>3. SlotExclusive /\ RegisteredIsHeld
  BY DEF SlotExclusive, RegisteredIsHeld, Registered, Holds, Attached
<1>4. TargetsOwnSessions
  BY DEF TargetsOwnSessions, NoLogin
<1>. QED
  BY <1>1, <1>2, <1>3, <1>4 DEF IInv

(* Every step of the relay preserves the invariant.                        *)
LEMMA NextIInv == IInv /\ [Next]_vars => IInv'
<1>. SUFFICES ASSUME IInv, [Next]_vars PROVE IInv'
  OBVIOUS
<1>1. TypeOK /\ HandlerShape /\ RecordShape /\ UnusedUpstream /\ SlotExclusive
  BY DEF IInv
<1>2. RegisteredIsHeld /\ TargetsOwnSessions
  BY DEF IInv
<1>3. TypeOK' /\ HandlerShape' /\ RecordShape'
  BY <1>1, TypeStep, HandlerStepShape, RecordStep
<1>4. UnusedUpstream' /\ SlotExclusive'
  BY <1>1, UnusedStep, SlotStep
<1>5. RegisteredIsHeld' /\ TargetsOwnSessions'
  BY <1>1, <1>2, HeldStep, TargetsStep
<1>. QED
  BY <1>3, <1>4, <1>5 DEF IInv

(* The conjunction of the types, the handler and record shapes, the exact    *)
(* viewer count and "a registered upstream is held" is an invariant of the   *)
(* relay, whatever the number of sessions, upstreams and registrations.      *)
THEOREM Inductive == Spec => []IInv
  BY InitIInv, NextIInv, PTL DEF Spec

(* Every variable keeps its type.                                            *)
THEOREM TypeCorrect == Spec => []TypeOK
<1>1. IInv => TypeOK
  BY DEF IInv
<1>. QED
  BY <1>1, Inductive, PTL

(* registry.go's acquire and release keep a machine's viewer count exact and *)
(* at most one, on every path through the handler and its release.           *)
THEOREM SlotIsExclusive == Spec => []SlotExclusive
<1>1. IInv => SlotExclusive
  BY DEF IInv
<1>. QED
  BY <1>1, Inductive, PTL

(* The upstream the registry hands out is running and has its one viewer.    *)
THEOREM RegisteredUpstreamIsLive == Spec => []RegisteredIsLive
<1>1. IInv => RegisteredIsLive
  BY DEF IInv, RegisteredIsHeld, UnusedUpstream, RegisteredIsLive, Registered, TypeOK
<1>. QED
  BY <1>1, Inductive, PTL

(* bindSession's target on the registered upstream owns the slot.            *)
THEOREM BoundSessionOwnsSlot == Spec => []BoundOwnsSlot
<1>1. IInv => BoundOwnsSlot
  BY DEF IInv, RegisteredIsHeld, TargetsOwnSessions, BoundOwnsSlot
<1>. QED
  BY <1>1, Inductive, PTL

(* The session of the host login on the registered upstream owns the slot.   *)
THEOREM LoginSessionOwnsSlot == Spec => []LoginOwnsSlot
<1>1. IInv => LoginOwnsSlot
  BY DEF IInv, RegisteredIsHeld, TargetsOwnSessions, LoginOwnsSlot
<1>. QED
  BY <1>1, Inductive, PTL

(* acquire answers errMachineInUse only while another session holds the      *)
(* record's upstream.                                                        *)
THEOREM InUseIsAlwaysTrue == Spec => InUseIsTrue
<1>1. ASSUME IInv, [Next]_vars, NEW s \in Sessions, pc[s] = "got", pc'[s] = "refused"
      PROVE  \E t \in Sessions \ {s} : Holds(t, recUp[got[s]])
  <2>1. TypeOK /\ HandlerShape /\ SlotExclusive
    BY <1>1 DEF IInv
  <2>2. Acquire(s)
    BY <1>1, <2>1, RefusalIsAcquire
  <2>3. Refused(s)
    <3>1. \/ Refused(s)
          \/ \E u \in Upstreams : TakesIdle(s, u)
          \/ \E u \in Upstreams : TakesNew(s, u)
      BY <2>1, <2>2, AcquireCases
    <3>2. ASSUME NEW u \in Upstreams, TakesIdle(s, u) \/ TakesNew(s, u) PROVE FALSE
      BY <1>1, <2>1, <3>2 DEF TakesIdle, TakesNew, Takes, TypeOK
    <3>. QED
      BY <3>1, <3>2
  <2>4. \E t \in Sessions : Holds(t, recUp[got[s]])
    <3>1. recUp[got[s]] \in Upstreams /\ viewers[recUp[got[s]]] > 0
      BY <2>3 DEF Refused
    <3>2. viewers[recUp[got[s]]] # 0
      BY <2>1, <3>1, SMTT(30) DEF TypeOK
    <3>. QED
      BY <2>1, <3>1, <3>2 DEF SlotExclusive
  <2>. QED
    BY <1>1, <2>4 DEF Holds, Attached
<1>2. IInv /\ [Next]_vars =>
        [\A s \in Sessions :
            pc[s] = "got" /\ pc'[s] = "refused" =>
                \E t \in Sessions \ {s} : Holds(t, recUp[got[s]])]_vars
  BY <1>1
<1>. QED
  BY <1>2, Inductive, PTL DEF Spec, InUseIsTrue

=============================================================================
