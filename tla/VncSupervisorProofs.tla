------------------------ MODULE VncSupervisorProofs ------------------------
(***************************************************************************)
(* Proofs about VncSupervisor, for any users and any number of faults:     *)
(* type correctness, NoServerPile, HealthFlagHonest, BackoffFromShort and  *)
(* ServesTarget, for every kind of VNC server.                             *)
(***************************************************************************)
EXTENDS VncSupervisor, TLAPS

OnePerUser == \A u \in Users : srv[u] <= 1

\* Between the reap and the spawn the target has no server.
Reaped == pc \in {"preflight", "spawn"} => srv[target] = 0

\* The attempt counter is at most one ahead of the failures that count,
\* two while an attempt is under way.
Counted ==
    pc # "done" =>
        attempt <= plain + (IF pc \in {"build", "preflight", "spawn", "poll",
                                       "diagnose", "failed"} THEN 2 ELSE 1)

\* An attached server is the target's, and lives from its spawn until its
\* stop: no attempt leaves one behind.
OnlyTarget ==
    pc # "done" =>
        \A u \in Users : srv[u] > 0 =>
            u = target /\ pc \in {"poll", "diagnose", "serving", "stopping"}

ListenerIsLive == holder # NoUser => srv[holder] > 0

IInv ==
    /\ TypeOK /\ HealthFlagHonest /\ Counted /\ BackoffFromShort
    /\ ~Detached => OnlyTarget /\ ListenerIsLive
    /\ ~Detached \/ Reapable => OnePerUser /\ Reaped
-----------------------------------------------------------------------------
LEMMA CappedRange == ASSUME NEW n \in Nat PROVE Capped(n) \in 0 .. MaxAttempt
BY DEF Capped, MaxAttempt

\* The pauses, computed: 5, 5, 10, 20, 40, 80, 160.
LEMMA BackoffTable ==
    /\ Backoff(0) = 5 /\ Backoff(1) = 5 /\ Backoff(2) = 10 /\ Backoff(3) = 20
    /\ Backoff(4) = 40 /\ Backoff(5) = 80 /\ Backoff(6) = 160
    /\ Backoff(7) = 160
<1>1. /\ Shifted[1] = 1 /\ Shifted[2] = 2 /\ Shifted[3] = 4
      /\ Shifted[4] = 8 /\ Shifted[5] = 16 /\ Shifted[6] = 32
  BY DEF Shifted
<1> QED
  BY <1>1 DEF Backoff, Capped, MaxAttempt

LEMMA BackoffGrows ==
  ASSUME NEW m \in 0 .. 7, NEW n \in 0 .. 7, m <= n
  PROVE  Backoff(m) \in Nat /\ Backoff(m) <= Backoff(n)
BY BackoffTable

LEMMA TypeInit == Init => TypeOK
BY DEF Init, TypeOK, MaxAttempt

LEMMA KillType ==
  ASSUME NEW u \in Users, srv \in [Users -> Nat],
         holder \in Users \cup {NoUser}, Kill(u)
  PROVE  srv' \in [Users -> Nat] /\ holder' \in Users \cup {NoUser}
BY DEF Kill

LEMMA SameServer == [Next]_vars => server' = server
BY DEF Next, vars

LEMMA TypeStep == TypeOK /\ [Next]_vars => TypeOK'
<1> SUFFICES ASSUME TypeOK, [Next]_vars PROVE TypeOK'
  OBVIOUS
<1>0. server' = server
  BY SameServer
<1> USE <1>0 DEF TypeOK, Fault, desktop, procs, loop
<1>1. CASE SessionReady
  BY <1>1 DEF SessionReady
<1>2. CASE Detect
  <2>1. Capped(attempt + 1) \in 0 .. MaxAttempt
    BY CappedRange DEF MaxAttempt
  <2>2. QED
    BY <1>2, <2>1 DEF Detect
<1>3. CASE CannotBuild
  <2>1. Capped(plain + 1) \in 0 .. MaxAttempt
    BY CappedRange DEF MaxAttempt
  <2>2. Backoff(attempt) \in Nat
    BY BackoffGrows DEF MaxAttempt
  <2>3. QED
    BY <1>3, <2>1, <2>2 DEF CannotBuild
<1>4. CASE Wake
  BY <1>4 DEF Wake
<1>5. CASE NoServerBinary
  BY <1>5 DEF NoServerBinary, StartFails
<1>6. CASE Reap
  <2>1. srv' \in [Users -> Nat] /\ holder' \in Users \cup {NoUser}
    <3>1. CASE Reapable
      BY <1>6, <3>1, KillType DEF Reap
    <3>2. CASE ~Reapable
      BY <1>6, <3>2 DEF Reap
    <3>3. QED
      BY <3>1, <3>2
  <2>2. QED
    BY <1>6, <2>1 DEF Reap
<1>7. CASE DisplayAccessible
  BY <1>7 DEF DisplayAccessible
<1>8. CASE DisplayRefuses
  BY <1>8 DEF DisplayRefuses, StartFails
<1>9. CASE GuardFails
  BY <1>9 DEF GuardFails, StartFails
<1>10. CASE Spawn
  <2>1. srv' \in [Users -> Nat]
    BY <1>10 DEF Spawn
  <2>2. QED
    BY <1>10, <2>1 DEF Spawn
<1>11. CASE PollOk
  BY <1>11 DEF PollOk, MaxAttempt
<1>12. CASE PollTimeout
  BY <1>12 DEF PollTimeout
<1>13. CASE Diagnose
  BY <1>13 DEF Diagnose, StartFails
<1>14. CASE StopFailed
  <2>1. Capped(plain + 1) \in 0 .. MaxAttempt
    BY CappedRange DEF MaxAttempt
  <2>2. Backoff(attempt) \in Nat
    BY BackoffGrows DEF MaxAttempt
  <2>3. pause' \in Nat /\ attempt' \in 0 .. MaxAttempt /\ plain' \in 0 .. MaxAttempt
    BY <1>14, <2>1, <2>2 DEF StopFailed, SaturationCooldown, MaxAttempt
  <2>4. QED
    BY <1>14, <2>3 DEF StopFailed
<1>15. CASE HealthTick
  BY <1>15 DEF HealthTick
<1>16. CASE Stop
  <2>1. srv' \in [Users -> Nat] /\ holder' \in Users \cup {NoUser}
    BY <1>16, KillType DEF Stop, KillChild
  <2>2. QED
    BY <1>16, <2>1 DEF Stop
<1>17. CASE SeeShutdown
  <2>1. srv' \in [Users -> Nat] /\ holder' \in Users \cup {NoUser}
    <3>1. CASE pc = "serving" /\ ~Detached
      BY <1>17, <3>1, KillType DEF SeeShutdown, KillChild
    <3>2. CASE ~(pc = "serving" /\ ~Detached)
      BY <1>17, <3>2 DEF SeeShutdown, KillChild
    <3>3. QED
      BY <3>1, <3>2
  <2>2. QED
    BY <1>17, <2>1 DEF SeeShutdown
<1>18. CASE RequestShutdown
  BY <1>18 DEF RequestShutdown
<1>19. CASE Abort
  BY <1>19 DEF Abort
<1>20. CASE AgentDies
  BY <1>20 DEF AgentDies, MaxAttempt
<1>21. ASSUME NEW u \in Users, ServerBinds(u) PROVE TypeOK'
  BY <1>21 DEF ServerBinds
<1>22. ASSUME NEW u \in Users, ServerYields(u) PROVE TypeOK'
  <2>1. srv[u] \in Nat /\ srv[u] > 0
    BY <1>22 DEF ServerYields
  <2>2. srv[u] - 1 \in Nat
    BY <2>1
  <2>3. srv' \in [Users -> Nat]
    BY <1>22, <2>2 DEF ServerYields
  <2>4. QED
    BY <1>22, <2>3 DEF ServerYields
<1>23. ASSUME NEW u \in Users, ServerDies(u) PROVE TypeOK'
  <2>1. srv' \in [Users -> Nat] /\ holder' \in Users \cup {NoUser}
    BY <1>23, KillType DEF ServerDies
  <2>2. QED
    BY <1>23, <2>1 DEF ServerDies
<1>24. ASSUME NEW u \in Users, Login(u) PROVE TypeOK'
  BY <1>24 DEF Login
<1>25. CASE Logout
  <2>1. srv' \in [Users -> Nat] /\ holder' \in Users \cup {NoUser}
    BY <1>25, KillType DEF Logout
  <2>2. disp' \in [Users -> {"open", "saturated", "closed"}]
    BY <1>25 DEF Logout
  <2>3. QED
    BY <1>25, <2>1, <2>2 DEF Logout
<1>26. ASSUME NEW u \in Users, SwitchUser(u) PROVE TypeOK'
  <2>1. disp' \in [Users -> {"open", "saturated", "closed"}]
    BY <1>26 DEF SwitchUser
  <2>2. QED
    BY <1>26, <2>1 DEF SwitchUser
<1>27. ASSUME NEW u \in Users, Saturate(u) PROVE TypeOK'
  BY <1>27 DEF Saturate
<1>28. ASSUME NEW u \in Users, Drain(u) PROVE TypeOK'
  BY <1>28 DEF Drain
<1>29. CASE UNCHANGED vars
  BY <1>29 DEF vars
<1>30. QED
  BY <1>1, <1>2, <1>3, <1>4, <1>5, <1>6, <1>7, <1>8, <1>9, <1>10, <1>11,
     <1>12, <1>13, <1>14, <1>15, <1>16, <1>17, <1>18, <1>19, <1>20, <1>21,
     <1>22, <1>23, <1>24, <1>25, <1>26, <1>27, <1>28, <1>29
     DEF Next, Loop, Start, Servers, Desktop
-----------------------------------------------------------------------------
(* The flag and the pauses: they depend on the loop alone.                 *)

LEMMA HealthStep == TypeOK /\ HealthFlagHonest /\ [Next]_vars => HealthFlagHonest'
<1> SUFFICES ASSUME TypeOK, HealthFlagHonest, [Next]_vars PROVE HealthFlagHonest'
  OBVIOUS
<1> USE DEF HealthFlagHonest, desktop, procs, loop
<1>1. CASE Start
  BY <1>1 DEF Start, NoServerBinary, Reap, DisplayAccessible, DisplayRefuses,
     GuardFails, Spawn, PollOk, PollTimeout, Diagnose, StartFails
<1>2. CASE Loop /\ ~Start
  BY <1>2 DEF Loop, SessionReady, Detect, CannotBuild, Wake, StopFailed,
     HealthTick, Stop, SeeShutdown
<1>3. CASE RequestShutdown \/ Abort \/ AgentDies
  BY <1>3 DEF RequestShutdown, Abort, AgentDies
<1>4. CASE Servers \/ Desktop \/ UNCHANGED vars
  BY <1>4 DEF Servers, Desktop, ServerBinds, ServerYields, ServerDies, Logout,
     Login, SwitchUser, Saturate, Drain, vars
<1>5. QED
  BY <1>1, <1>2, <1>3, <1>4 DEF Next

LEMMA CountStep == TypeOK /\ Counted /\ [Next]_vars => Counted'
<1> SUFFICES ASSUME TypeOK, Counted, [Next]_vars PROVE Counted'
  OBVIOUS
<1>0. attempt \in 0 .. 6 /\ plain \in 0 .. 6
  BY DEF TypeOK, MaxAttempt
<1> USE <1>0 DEF Counted, desktop, procs, loop, Capped, MaxAttempt
<1>1. CASE Start
  BY <1>1 DEF Start, NoServerBinary, Reap, DisplayAccessible, DisplayRefuses,
     GuardFails, Spawn, PollOk, PollTimeout, Diagnose, StartFails
<1>2. CASE Loop /\ ~Start
  <2>1. CASE SessionReady \/ Wake
    BY <2>1 DEF SessionReady, Wake
  <2>2. CASE Detect
    BY <2>2 DEF Detect
  <2>3. CASE CannotBuild
    BY <2>3 DEF CannotBuild
  <2>4. CASE StopFailed
    BY <2>4 DEF StopFailed
  <2>5. CASE HealthTick \/ Stop \/ SeeShutdown
    BY <2>5 DEF HealthTick, Stop, SeeShutdown
  <2>6. QED
    BY <1>2, <2>1, <2>2, <2>3, <2>4, <2>5 DEF Loop
<1>3. CASE RequestShutdown \/ Abort \/ AgentDies
  BY <1>3 DEF RequestShutdown, Abort, AgentDies
<1>4. CASE Servers \/ Desktop \/ UNCHANGED vars
  BY <1>4 DEF Servers, Desktop, ServerBinds, ServerYields, ServerDies, Logout,
     Login, SwitchUser, Saturate, Drain, vars
<1>5. QED
  BY <1>1, <1>2, <1>3, <1>4 DEF Next

LEMMA PauseStep ==
  TypeOK /\ Counted /\ BackoffFromShort /\ [Next]_vars => BackoffFromShort'
<1> SUFFICES ASSUME TypeOK, Counted, BackoffFromShort, [Next]_vars
             PROVE  BackoffFromShort'
  OBVIOUS
<1>0. attempt \in 0 .. 6 /\ plain \in 0 .. 6
  BY DEF TypeOK, MaxAttempt
<1>1. ASSUME pc \in {"build", "failed"}, plain' = Capped(plain + 1),
             pause' = Backoff(attempt)
      PROVE  BackoffFromShort'
  <2> DEFINE n == Capped(plain + 1)
  <2>1. n \in 1 .. 6
    BY <1>0 DEF Capped, MaxAttempt
  <2>2. attempt <= n + 1
    BY <1>0, <1>1 DEF Counted, Capped, MaxAttempt
  <2> HIDE DEF n
  <2>3. attempt \in 0 .. 7 /\ n + 1 \in 0 .. 7
    BY <1>0, <2>1
  <2>4. Backoff(attempt) <= Backoff(n + 1)
    BY <2>2, <2>3, BackoffGrows
  <2>5. plain' = n
    BY <1>1 DEF n
  <2>6. QED
    BY <1>1, <2>1, <2>4, <2>5 DEF BackoffFromShort
<1>2. CASE Start
  BY <1>2 DEF Start, NoServerBinary, Reap, DisplayAccessible, DisplayRefuses,
     GuardFails, Spawn, PollOk, PollTimeout, Diagnose, StartFails,
     BackoffFromShort, loop
<1>3. CASE Loop /\ ~Start
  <2>1. CASE CannotBuild
    BY <1>1, <2>1 DEF CannotBuild
  <2>2. CASE StopFailed /\ why = "saturated"
    BY <2>2 DEF StopFailed, BackoffFromShort
  <2>3. CASE StopFailed /\ why # "saturated"
    BY <1>1, <2>3 DEF StopFailed
  <2>4. CASE SessionReady \/ Detect \/ Wake \/ HealthTick \/ Stop \/ SeeShutdown
    BY <2>4 DEF SessionReady, Detect, Wake, HealthTick, Stop, SeeShutdown,
       BackoffFromShort, loop
  <2>5. QED
    BY <1>3, <2>1, <2>2, <2>3, <2>4 DEF Loop
<1>4. CASE RequestShutdown \/ Abort \/ AgentDies
  BY <1>4 DEF RequestShutdown, Abort, AgentDies, BackoffFromShort, loop
<1>5. CASE Servers \/ Desktop \/ UNCHANGED vars
  BY <1>5 DEF Servers, Desktop, ServerBinds, ServerYields, ServerDies, Logout,
     Login, SwitchUser, Saturate, Drain, vars, BackoffFromShort, loop
<1>6. QED
  BY <1>2, <1>3, <1>4, <1>5 DEF Next

-----------------------------------------------------------------------------
(* The server processes.                                                   *)

LEMMA KillPile ==
  ASSUME NEW u \in Users, TypeOK, OnePerUser, Kill(u)
  PROVE  OnePerUser' /\ srv'[u] = 0 /\ \A w \in Users : srv[w] = 0 => srv'[w] = 0
BY DEF Kill, TypeOK, OnePerUser

\* A reap that reaches nothing is enough when nothing is left to reach.
LEMMA PileStep ==
  ASSUME TypeOK, OnePerUser, Reaped, [Next]_vars,
         pc = "build" /\ ~Reapable => srv[target] = 0
  PROVE  OnePerUser' /\ Reaped'
<1>0. target \in Users \/ pc \in {"waiting", "loop", "done"}
  BY DEF TypeOK
<1> USE DEF desktop, procs, loop
<1>1. CASE Start
  <2>1. CASE Reap
    <3>1. CASE Reapable
      BY <1>0, <2>1, <3>1, KillPile DEF Reap, Reaped
    <3>2. CASE ~Reapable
      BY <2>1, <3>2 DEF Reap, Reaped, OnePerUser
    <3>3. QED
      BY <3>1, <3>2
  <2>2. CASE Spawn
    <3>1. srv[target] = 0 /\ target \in Users
      BY <1>0, <2>2 DEF Spawn, Reaped
    <3>2. \A u \in Users : srv'[u] <= 1
      BY <2>2, <3>1 DEF Spawn, TypeOK, OnePerUser
    <3>3. QED
      BY <2>2, <3>2 DEF Spawn, OnePerUser, Reaped
  <2>3. CASE NoServerBinary \/ DisplayAccessible \/ DisplayRefuses
             \/ GuardFails \/ PollOk \/ PollTimeout \/ Diagnose
    BY <2>3 DEF NoServerBinary, DisplayAccessible, DisplayRefuses, GuardFails,
       PollOk, PollTimeout, Diagnose, StartFails, OnePerUser, Reaped
  <2>4. QED
    BY <1>1, <2>1, <2>2, <2>3 DEF Start
<1>2. CASE Loop /\ ~Start
  <2>1. CASE Stop
    <3>1. OnePerUser'
      BY <1>0, <2>1, KillPile DEF Stop, KillChild, OnePerUser
    <3>2. QED
      BY <2>1, <3>1 DEF Stop, Reaped
  <2>2. CASE SeeShutdown
    <3>1. OnePerUser'
      BY <1>0, <2>2, KillPile DEF SeeShutdown, KillChild, OnePerUser
    <3>2. QED
      BY <2>2, <3>1 DEF SeeShutdown, Reaped
  <2>3. CASE SessionReady \/ Detect \/ CannotBuild \/ Wake \/ StopFailed
             \/ HealthTick
    BY <2>3 DEF SessionReady, Detect, CannotBuild, Wake, StopFailed,
       HealthTick, OnePerUser, Reaped
  <2>4. QED
    BY <1>2, <2>1, <2>2, <2>3 DEF Loop
<1>3. CASE RequestShutdown \/ Abort
  BY <1>3 DEF RequestShutdown, Abort, OnePerUser, Reaped
<1>4. CASE AgentDies
  BY <1>4 DEF AgentDies, OnePerUser, Reaped
<1>5. CASE Servers
  <2>1. ASSUME NEW u \in Users, ServerBinds(u) PROVE OnePerUser' /\ Reaped'
    BY <2>1 DEF ServerBinds, OnePerUser, Reaped
  <2>2. ASSUME NEW u \in Users, ServerYields(u) PROVE OnePerUser' /\ Reaped'
    <3>1. srv[u] \in Nat /\ srv[u] > 0 /\ srv' = [srv EXCEPT ![u] = @ - 1]
      BY <2>2 DEF ServerYields, TypeOK
    <3>2. \A w \in Users : srv[w] \in Nat /\ srv'[w] \in Nat /\ srv'[w] <= srv[w]
      BY <3>1 DEF TypeOK
    <3>3. OnePerUser'
      BY <3>2 DEF OnePerUser, TypeOK
    <3>4. Reaped'
      BY <1>0, <2>2, <3>1 DEF ServerYields, Reaped, TypeOK
    <3>5. QED
      BY <3>3, <3>4
  <2>3. ASSUME NEW u \in Users, ServerDies(u) PROVE OnePerUser' /\ Reaped'
    BY <1>0, <2>3, KillPile DEF ServerDies, Reaped
  <2>4. QED
    BY <1>5, <2>1, <2>2, <2>3 DEF Servers
<1>6. CASE Logout
  BY <1>0, <1>6, KillPile DEF Logout, Reaped, TypeOK
<1>7. CASE (Desktop /\ ~Logout) \/ UNCHANGED vars
  BY <1>7 DEF Desktop, Login, SwitchUser, Saturate, Drain, vars,
     OnePerUser, Reaped
<1>8. QED
  BY <1>1, <1>2, <1>3, <1>4, <1>5, <1>6, <1>7 DEF Next

LEMMA KillAttached ==
  ASSUME NEW u \in Users, TypeOK, ListenerIsLive, Kill(u)
  PROVE  /\ ListenerIsLive'
         /\ srv'[u] = 0
         /\ \A w \in Users : srv'[w] > 0 => srv[w] > 0
         /\ \A w \in Users : w # u => srv'[w] = srv[w]
BY NoUserAssumption DEF Kill, TypeOK, ListenerIsLive

LEMMA AttachedStep ==
  ASSUME ~Detached, TypeOK, Reaped, OnlyTarget, ListenerIsLive, [Next]_vars
  PROVE  OnlyTarget' /\ ListenerIsLive'
<1>0. target \in Users \/ pc \in {"waiting", "loop", "done"}
  BY DEF TypeOK
<1> USE DEF desktop, procs, loop
<1>1. CASE Start
  <2>1. CASE Reap
    <3>1. CASE Reapable
      BY <1>0, <2>1, <3>1, KillAttached DEF Reap, OnlyTarget
    <3>2. CASE ~Reapable
      BY <2>1, <3>2 DEF Reap, OnlyTarget, ListenerIsLive
    <3>3. QED
      BY <3>1, <3>2
  <2>2. CASE Spawn
    <3>1. target \in Users /\ srv[target] \in Nat
      BY <1>0, <2>2 DEF Spawn, TypeOK
    <3>2. OnlyTarget'
      BY <2>2, <3>1 DEF Spawn, OnlyTarget, TypeOK
    <3>3. \A u \in Users : srv[u] > 0 => srv'[u] > 0
      BY <2>2, <3>1 DEF Spawn, TypeOK
    <3>4. ListenerIsLive'
      BY <2>2, <3>3 DEF Spawn, ListenerIsLive, TypeOK
    <3>5. QED
      BY <3>2, <3>4
  <2>3. CASE NoServerBinary \/ DisplayAccessible \/ DisplayRefuses
             \/ GuardFails \/ PollOk \/ PollTimeout
    BY <2>3 DEF NoServerBinary, DisplayAccessible, DisplayRefuses, GuardFails,
       PollOk, PollTimeout, StartFails, OnlyTarget, ListenerIsLive
  <2>4. CASE Diagnose
    BY <2>4 DEF Diagnose, StartFails, OnlyTarget, ListenerIsLive
  <2>5. QED
    BY <1>1, <2>1, <2>2, <2>3, <2>4 DEF Start
<1>2. CASE Loop /\ ~Start
  <2>1. CASE Stop
    <3>1. target \in Users /\ Kill(target)
      BY <1>0, <2>1 DEF Stop, KillChild
    <3>2. QED
      BY <2>1, <3>1, KillAttached DEF Stop, OnlyTarget
  <2>2. CASE SeeShutdown
    <3>1. OnlyTarget'
      BY <2>2 DEF SeeShutdown, OnlyTarget
    <3>2. ListenerIsLive'
      <4>1. CASE pc = "serving"
        <5>1. target \in Users /\ Kill(target)
          BY <1>0, <2>2, <4>1 DEF SeeShutdown, KillChild
        <5>2. QED
          BY <5>1, KillAttached
      <4>2. CASE pc # "serving"
        BY <2>2, <4>2 DEF SeeShutdown, ListenerIsLive
      <4>3. QED
        BY <4>1, <4>2
    <3>3. QED
      BY <3>1, <3>2
  <2>3. CASE SessionReady \/ Detect \/ CannotBuild \/ Wake \/ StopFailed
             \/ HealthTick
    BY <2>3 DEF SessionReady, Detect, CannotBuild, Wake, StopFailed,
       HealthTick, OnlyTarget, ListenerIsLive
  <2>4. QED
    BY <1>2, <2>1, <2>2, <2>3 DEF Loop
<1>3. CASE RequestShutdown \/ Abort
  BY <1>3 DEF RequestShutdown, Abort, OnlyTarget, ListenerIsLive
<1>4. CASE AgentDies
  BY <1>4 DEF AgentDies, OnlyTarget, ListenerIsLive
<1>5. CASE Servers
  <2>1. ASSUME NEW u \in Users, ServerBinds(u)
        PROVE  OnlyTarget' /\ ListenerIsLive'
    BY <2>1 DEF ServerBinds, OnlyTarget, ListenerIsLive
  <2>2. ASSUME NEW u \in Users, ServerYields(u)
        PROVE  OnlyTarget' /\ ListenerIsLive'
    <3>1. /\ srv[u] \in Nat /\ srv[u] > (IF holder = u THEN 1 ELSE 0)
          /\ srv' = [srv EXCEPT ![u] = @ - 1]
          /\ holder' = holder /\ pc' = pc /\ target' = target
      BY <2>2 DEF ServerYields, TypeOK
    <3>2. \A w \in Users : srv'[w] > 0 => srv[w] > 0
      BY <3>1 DEF TypeOK
    <3>3. OnlyTarget'
      BY <3>1, <3>2 DEF OnlyTarget
    <3>4. ListenerIsLive'
      BY <3>1 DEF ListenerIsLive, TypeOK
    <3>5. QED
      BY <3>3, <3>4
  <2>3. ASSUME NEW u \in Users, ServerDies(u)
        PROVE  OnlyTarget' /\ ListenerIsLive'
    BY <2>3, KillAttached DEF ServerDies, OnlyTarget
  <2>4. QED
    BY <1>5, <2>1, <2>2, <2>3 DEF Servers
<1>6. CASE Logout
  BY <1>6, KillAttached DEF Logout, OnlyTarget, TypeOK
<1>7. CASE (Desktop /\ ~Logout) \/ UNCHANGED vars
  BY <1>7 DEF Desktop, Login, SwitchUser, Saturate, Drain, vars,
     OnlyTarget, ListenerIsLive
<1>8. QED
  BY <1>1, <1>2, <1>3, <1>4, <1>5, <1>6, <1>7 DEF Next

-----------------------------------------------------------------------------
(* The theorems.                                                           *)

LEMMA InvInit == Init => IInv
<1> SUFFICES ASSUME Init PROVE IInv
  OBVIOUS
<1>1. TypeOK
  BY TypeInit
<1>2. QED
  BY <1>1 DEF Init, IInv, OnePerUser, Reaped, HealthFlagHonest, Counted,
     BackoffFromShort, OnlyTarget, ListenerIsLive

LEMMA InvStep == IInv /\ [Next]_vars => IInv'
<1> SUFFICES ASSUME IInv, [Next]_vars PROVE IInv'
  OBVIOUS
<1>1. (Detached' <=> Detached) /\ (Reapable' <=> Reapable)
  BY SameServer DEF Detached, Reapable
<1>2. TypeOK' /\ HealthFlagHonest' /\ Counted' /\ BackoffFromShort'
  BY TypeStep, HealthStep, CountStep, PauseStep DEF IInv
<1>3. CASE ~Detached
  <2>1. pc = "build" => srv[target] = 0
    <3>1. pc = "build" => target \in Users /\ srv[target] \in Nat
      BY DEF IInv, TypeOK
    <3>2. QED
      BY <1>3, <3>1 DEF IInv, OnlyTarget
  <2>2. OnePerUser' /\ Reaped'
    BY <1>3, <2>1, PileStep DEF IInv
  <2>3. OnlyTarget' /\ ListenerIsLive'
    BY <1>3, AttachedStep DEF IInv
  <2>4. QED
    BY <1>2, <2>2, <2>3 DEF IInv
<1>4. CASE Detached /\ Reapable
  BY <1>1, <1>2, <1>4, PileStep DEF IInv
<1>5. CASE Detached /\ ~Reapable
  BY <1>1, <1>2, <1>5 DEF IInv
<1>6. QED
  BY <1>3, <1>4, <1>5

LEMMA Invariance == Spec => []IInv
BY InvInit, InvStep, PTL DEF Spec

\* TypeOK holds for any users and any number of faults.
THEOREM VncTypeCorrect == Spec => []TypeOK
<1>1. IInv => TypeOK
  BY DEF IInv
<1>2. QED
  BY <1>1, Invariance, PTL

\* A user never has two VNC servers if a stop reaches the server or the next
\* start() reaps it; one of the two is enough.
THEOREM VncNoServerPile == Spec => []NoServerPile
<1>1. IInv => NoServerPile
  BY DEF IInv, NoServerPile, OnePerUser
<1>2. QED
  BY <1>1, Invariance, PTL

\* vnc_health is up only while the loop polls the server.
THEOREM VncHealthFlagHonest == Spec => []HealthFlagHonest
<1>1. IInv => HealthFlagHonest
  BY DEF IInv
<1>2. QED
  BY <1>1, Invariance, PTL

\* No pause inherits what was counted before a success or a saturation.
THEOREM VncBackoffFromShort == Spec => []BackoffFromShort
<1>1. IInv => BackoffFromShort
  BY DEF IInv
<1>2. QED
  BY <1>1, Invariance, PTL

\* If killing the child reaches the server, what is served is the session
\* that was detected for the attempt.
THEOREM VncServesTarget == Spec => []ServesTarget
<1>1. IInv => ServesTarget
  BY DEF IInv, TypeOK, OnlyTarget, ListenerIsLive, ServesTarget
<1>2. QED
  BY <1>1, Invariance, PTL
=============================================================================
