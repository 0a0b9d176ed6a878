--------------------------- MODULE WatchdogProofs ---------------------------
(***************************************************************************)
(* Proofs about Watchdog, for any timers and any number of faults: type    *)
(* correctness, the bound on the time an agent hangs, and that the         *)
(* watchdog leaves an agent alone that has been all well for a tick.       *)
(***************************************************************************)
EXTENDS Watchdog, TLAPS

\* A file is half written only by an agent that owes the write, or hung.
TornIsDue ==
    status \in Torn => agent = "hung" \/ (agent = "serving" /\ due > 0)

\* The script waits for systemctl only while the service is not running.
WaitsForStart == watch \in {"start", "restart"} => unit = "startpre"

Inv == TypeOK /\ TornIsDue /\ WaitsForStart

(***************************************************************************)
(* HungBounded alone is not inductive: the time hung must leave room for   *)
(* what is left of the timer, and a file that still looks good must be at  *)
(* least as old as the hang.                                               *)
(***************************************************************************)
HungInv ==
    /\ agent # "hung" => hungFor = 0
    /\ agent = "hung" =>
        /\ hungFor <= HungBound
        /\ watch = "idle" => hungFor + left <= HungBound
        /\ status = "good" => hungFor <= age \/ age > MaxAge

\* What an agent that was all well at the last Tick, or at the last two,
\* has put into the file, and what the script has seen of it.
SteadyInv ==
    /\ steady > 0 =>
        /\ AllWell
        /\ due <= 1
        /\ status # "tornBad"
        /\ due = 0 => status = "good" /\ age = 0
        /\ watch = "probed" => seenTls = "up"
    /\ steady = 2 => status \in {"good", "tornGood"} /\ age <= 1
-----------------------------------------------------------------------------
LEMMA LesserFacts ==
    ASSUME NEW m \in Nat, NEW n \in Nat
    PROVE  /\ Lesser(m, n) \in 0 .. n
           /\ m <= n => Lesser(m, n) = m
           /\ m > n => Lesser(m, n) = n
BY DEF Lesser

LEMMA Constants ==
    /\ MaxAge \in Nat /\ MaxAge >= 1 /\ Period \in Nat /\ Period >= 1
    /\ StartTimeout \in Nat /\ StartTimeout >= 1 /\ HungBound \in Nat
BY MaxAgeAssumption, PeriodAssumption, StartTimeoutAssumption DEF HungBound

LEMMA InvInit == Init => Inv
BY Constants DEF Init, Inv, TypeOK, HungBound, TornIsDue, WaitsForStart, Torn

\* A restart leads to a state that satisfies every invariant.
LEMMA Stopped ==
    ASSUME Inv, StopAgent, faults' \in Nat, UNCHANGED <<left, seenTls, world>>,
           watch' \in {"idle", "probed", "health", "probe", "start", "restart"}
    PROVE  Inv' /\ HungInv' /\ SteadyInv'
<1>1. Inv'
  BY Constants DEF Inv, TypeOK, HungBound, TornIsDue, WaitsForStart, Torn, StopAgent, world
<1>2. HungInv' /\ SteadyInv'
  BY Constants DEF HungInv, SteadyInv, StopAgent
<1>3. QED
  BY <1>1, <1>2

\* The branch of a script's step that does not restart.
Continues ==
    UNCHANGED <<service, process, file, left, seenTls, world, faults, history>>

LEMMA InvTick == ASSUME Inv, Tick PROVE Inv'
<1> USE Constants DEF Inv, TypeOK, HungBound, TornIsDue, WaitsForStart, Torn
<1>1. /\ UNCHANGED <<unit, agent, tls, link, status, watch, seenTls, desk, port,
                     vps, faults>>
      /\ ~Urgent
  BY DEF Tick, world
<1>2. waited' \in 0 .. StartTimeout
  BY <1>1 DEF Tick, Urgent
<1>3. due' \in 0 .. 2 /\ (agent = "serving" => due' > 0)
  BY DEF Tick
<1>4. age' \in 0 .. MaxAge + 1
  <2>1. age + 1 \in Nat /\ MaxAge + 1 \in Nat
    OBVIOUS
  <2>2. Lesser(age + 1, MaxAge + 1) \in 0 .. MaxAge + 1
    BY <2>1, LesserFacts
  <2>3. QED
    BY <2>2 DEF Tick
<1>5. left' \in 0 .. Period
  BY DEF Tick
<1>6. hungFor' \in 0 .. HungBound + 1
  <2>1. hungFor + 1 \in Nat /\ HungBound + 1 \in Nat
    OBVIOUS
  <2>2. Lesser(hungFor + 1, HungBound + 1) \in 0 .. HungBound + 1
    BY <2>1, LesserFacts
  <2>3. QED
    BY <2>2 DEF Tick
<1>7. steady' \in 0 .. 2
  <2>1. steady + 1 \in Nat /\ 2 \in Nat
    OBVIOUS
  <2>2. Lesser(steady + 1, 2) \in 0 .. 2
    BY <2>1, LesserFacts
  <2>3. QED
    BY <2>2 DEF Tick
<1>8. QED
  BY <1>1, <1>2, <1>3, <1>4, <1>5, <1>6, <1>7

LEMMA InvSystemd == ASSUME Inv, Systemd PROVE Inv'
<1> USE Constants DEF Inv, TypeOK, HungBound, TornIsDue, WaitsForStart, Torn, file, world,
     history, process
<1>1. CASE SessionFound
  BY <1>1 DEF SessionFound
<1>2. CASE StartTimesOut
  <2>1. watch' = watch \/ watch' \in {"restart", "idle"}
    BY <1>2 DEF StartTimesOut
  <2>2. QED
    BY <1>2, <2>1 DEF StartTimesOut
<1>3. QED
  BY <1>1, <1>2 DEF Systemd

LEMMA InvAgent == ASSUME Inv, Agent PROVE Inv'
<1> USE Constants DEF Inv, TypeOK, HungBound, TornIsDue, WaitsForStart, Torn, service, file,
     world, history, process, script
<1>1. CASE DetectOk
  BY <1>1 DEF DetectOk
<1>2. CASE DetectFails
  BY <1>2 DEF DetectFails
<1>3. CASE TlsBinds
  BY <1>3 DEF TlsBinds
<1>4. CASE LinkUp
  BY <1>4 DEF LinkUp
<1>5. CASE WriteStatus
  <2>1. status' \in Torn
    BY <1>5 DEF WriteStatus
  <2>2. QED
    BY <1>5, <2>1 DEF WriteStatus
<1>6. CASE StatusWritten
  <2>1. status' \in {"good", "bad"}
    BY <1>6 DEF StatusWritten
  <2>2. QED
    BY <1>6, <2>1 DEF StatusWritten
<1>7. QED
  BY <1>1, <1>2, <1>3, <1>4, <1>5, <1>6 DEF Agent

\* What the script's steps may do, as one formula.
LEMMA ScriptSteps ==
    ASSUME Inv, Script
    PROVE  \/ Fire
           \/ /\ watch \in {"probed", "health", "probe"}
              /\ watch' \in {"health", "probe", "idle"}
              /\ Continues
           \/ RestartAgent
<1>1. CASE Gate
  BY <1>1 DEF Gate, Continues
<1>2. CASE Health
  BY <1>2 DEF Health, Continues
<1>3. CASE Probe
  BY <1>3 DEF Probe, Continues
<1>4. QED
  BY <1>1, <1>2, <1>3 DEF Script

LEMMA InvScript == ASSUME Inv, Script PROVE Inv'
<1> USE Constants DEF Inv, TypeOK, HungBound, TornIsDue, WaitsForStart, Torn
<1>1. CASE Fire
  BY <1>1 DEF Fire, service, process, file, world, history
<1>2. CASE watch' \in {"health", "probe", "idle"} /\ Continues
  BY <1>2 DEF Continues, service, process, file, world, history
<1>3. CASE RestartAgent
  <2>1. /\ StopAgent /\ faults' \in Nat /\ UNCHANGED <<left, seenTls, world>>
        /\ watch' = "restart"
    BY <1>3 DEF RestartAgent
  <2>2. QED
    BY <2>1, Stopped
<1>4. QED
  BY <1>1, <1>2, <1>3, ScriptSteps

LEMMA FaultType == ASSUME Inv, Fault PROVE faults' \in Nat
BY DEF Inv, TypeOK, Fault

LEMMA InvFaulty == ASSUME Inv, Faulty PROVE Inv'
<1> USE Constants DEF Inv, TypeOK, HungBound, TornIsDue, WaitsForStart, Torn, service, file,
     world, process, script
<1>1. CASE AgentDies
  <2>1. /\ StopAgent /\ faults' \in Nat /\ UNCHANGED <<left, seenTls, world>>
        /\ watch' = watch
    BY <1>1, FaultType DEF AgentDies
  <2>2. QED
    BY <2>1, Stopped
<1>2. CASE Hang
  BY <1>2, FaultType DEF Hang
<1>3. CASE Logout
  BY <1>3, FaultType DEF Logout, history
<1>4. CASE PortTaken
  BY <1>4, FaultType DEF PortTaken
<1>5. CASE LinkLost
  BY <1>5, FaultType DEF LinkLost
<1>6. CASE VpsFails
  BY <1>6, FaultType DEF VpsFails
<1>7. QED
  BY <1>1, <1>2, <1>3, <1>4, <1>5, <1>6 DEF Faulty

LEMMA InvWorld == ASSUME Inv, World PROVE Inv'
<1> USE Constants DEF Inv, TypeOK, HungBound, TornIsDue, WaitsForStart, Torn, service, file,
     process, script, history
<1>1. CASE Login
  BY <1>1 DEF Login
<1>2. CASE PortReleased
  BY <1>2 DEF PortReleased
<1>3. CASE VpsReturns
  BY <1>3 DEF VpsReturns
<1>4. QED
  BY <1>1, <1>2, <1>3 DEF World

LEMMA InvStep == Inv /\ [Next]_vars => Inv'
<1> SUFFICES ASSUME Inv, [Next]_vars PROVE Inv'
  OBVIOUS
<1>1. CASE UNCHANGED vars
  BY <1>1 DEF vars, Inv, TypeOK, HungBound, TornIsDue, WaitsForStart, Torn
<1>2. CASE Next
  BY <1>2, InvTick, InvSystemd, InvAgent, InvScript, InvFaulty, InvWorld DEF Next
<1>3. QED
  BY <1>1, <1>2

\* WatchTypeCorrect: the variables keep their types, and the service runs
\* exactly when its process does.
THEOREM WatchTypeCorrect == Spec => []TypeOK
<1>1. Inv => TypeOK
  BY DEF Inv
<1>2. QED
  BY <1>1, InvInit, InvStep, PTL DEF Spec
-----------------------------------------------------------------------------
(* A hung agent.                                                           *)

LEMMA HungTick == ASSUME Inv, HungInv, Tick PROVE HungInv'
<1> USE Constants DEF Inv, TypeOK, HungInv
<1>1. UNCHANGED <<agent, status, watch>> /\ ~Urgent
  BY DEF Tick
<1>2. CASE agent # "hung"
  BY <1>1, <1>2 DEF Tick
<1>3. CASE agent = "hung"
  <2>1. unit = "running" /\ watch = "idle" /\ left > 0
    BY <1>1, <1>3 DEF WaitsForStart, Urgent
  <2>2. left' = left - 1 /\ hungFor + left <= HungBound
    BY <1>3, <2>1 DEF Tick
  <2>3. hungFor' = hungFor + 1
    <3>1. /\ hungFor + 1 \in Nat /\ HungBound + 1 \in Nat
          /\ hungFor + 1 <= HungBound + 1
      BY <2>1, <2>2
    <3>2. hungFor' = Lesser(hungFor + 1, HungBound + 1)
      BY <1>3 DEF Tick
    <3>3. QED
      BY <3>1, <3>2, LesserFacts
  <2>4. hungFor' <= HungBound /\ hungFor' + left' <= HungBound
    BY <2>1, <2>2, <2>3
  <2>5. ASSUME status = "good" PROVE hungFor' <= age' \/ age' > MaxAge
    <3>1. age' = Lesser(age + 1, MaxAge + 1)
      BY <2>5 DEF Tick
    <3>2. age + 1 \in Nat /\ MaxAge + 1 \in Nat
      OBVIOUS
    <3>3. CASE age + 1 <= MaxAge
      <4>1. age' = age + 1
        BY <3>1, <3>2, <3>3, LesserFacts
      <4>2. hungFor <= age
        BY <1>3, <2>5, <3>3
      <4>3. QED
        BY <2>3, <4>1, <4>2
    <3>4. CASE age + 1 > MaxAge
      <4>1. age' = MaxAge + 1
        BY <3>1, <3>2, <3>4 DEF Lesser
      <4>2. QED
        BY <4>1
    <3>5. QED
      BY <3>2, <3>3, <3>4
  <2>6. QED
    BY <1>1, <1>3, <2>4, <2>5
<1>4. QED
  BY <1>2, <1>3

LEMMA HungScript ==
    ASSUME NeedsCoordinator, Inv, HungInv, Script
    PROVE  HungInv'
<1> USE Constants DEF Inv, TypeOK, HungInv
<1>1. CASE Fire
  BY <1>1 DEF Fire, process, file, history
<1>2. CASE RestartAgent
  <2>1. agent' = "none" /\ hungFor' = 0
    BY <1>2 DEF RestartAgent, StopAgent
  <2>2. QED
    BY <2>1
<1>3. CASE Continues /\ watch' # "idle"
  BY <1>3 DEF Continues, process, file, history
<1>4. CASE Continues /\ watch' = "idle" /\ agent = "hung" /\ ~Fire
  <2>1. Fresh /\ status = "good"
    <3>1. CASE Gate
      BY <1>4, <3>1 DEF Gate, RestartAgent
    <3>2. CASE Health
      BY <1>4, <3>2 DEF Health, RestartAgent
    <3>3. CASE Probe
      BY <1>4, <3>3 DEF Probe, ProbedHealthy, RestartAgent
    <3>4. QED
      BY <1>4, <3>1, <3>2, <3>3 DEF Script
  <2>2. QED
    BY <1>4, <2>1 DEF Continues, process, file, history, Fresh, HungBound
<1>5. CASE Continues /\ agent # "hung"
  BY <1>5 DEF Continues, process, file, history
<1>6. QED
  BY <1>1, <1>2, <1>3, <1>4, <1>5, ScriptSteps
LEMMA HungStep ==
    ASSUME NeedsCoordinator, Inv, HungInv, [Next]_vars
    PROVE  HungInv'
<1> USE Constants DEF Inv, TypeOK, HungInv, HungBound
<1>1. CASE Systemd
  BY <1>1 DEF Systemd, SessionFound, StartTimesOut, WaitsForStart, process, file,
     history
<1>2. CASE Agent
  <2>1. hungFor' = hungFor /\ agent # "hung" /\ agent' # "hung"
    BY <1>2 DEF Agent, DetectOk, DetectFails, TlsBinds, LinkUp, WriteStatus,
       StatusWritten, process, history
  <2>2. QED
    BY <2>1
<1>3. CASE Faulty
  <2>1. CASE AgentDies
    BY <2>1 DEF AgentDies, StopAgent
  <2>2. CASE Hang
    BY <2>2 DEF Hang, file, script
  <2>3. CASE Logout \/ PortTaken \/ LinkLost \/ VpsFails
    BY <2>3 DEF Logout, PortTaken, LinkLost, VpsFails, process, file, script,
       history
  <2>4. QED
    BY <1>3, <2>1, <2>2, <2>3 DEF Faulty
<1>4. CASE World
  BY <1>4 DEF World, Login, PortReleased, VpsReturns, process, file, script,
     history
<1>5. CASE UNCHANGED vars
  BY <1>5 DEF vars
<1>6. QED
  BY <1>1, <1>2, <1>3, <1>4, <1>5, HungTick, HungScript DEF Next

\* WatchHungBounded: with a coordinator, an agent that hangs is restarted
\* within the age a status file may have plus one period of the timer,
\* whatever the timers are.
THEOREM WatchHungBounded == Spec => []HungBounded
<1>1. CASE NeedsCoordinator
  <2>1. Init => HungInv
    BY DEF Init, HungInv
  <2>2. Inv /\ HungInv /\ [Next]_vars => HungInv'
    BY <1>1, HungStep
  <2>3. Inv /\ HungInv => HungBounded
    BY Constants DEF HungInv, HungBounded
  <2>4. QED
    BY <2>1, <2>2, <2>3, InvInit, InvStep, PTL DEF Spec
<1>2. CASE ~NeedsCoordinator
  <2>1. HungBounded
    BY <1>2 DEF HungBounded
  <2>2. QED
    BY <2>1, PTL
<1>3. QED
  BY <1>1, <1>2
-----------------------------------------------------------------------------
(* An agent that is all well.                                              *)

LEMMA SteadyTick == ASSUME Inv, SteadyInv, Tick PROVE SteadyInv'
<1> USE Constants DEF Inv, TypeOK, SteadyInv
<1>1. /\ UNCHANGED <<agent, tls, link, status, watch, seenTls>>
      /\ ~Urgent
  BY DEF Tick
<1>2. CASE AllWell
  <2>1. agent = "serving" /\ due = 0 /\ due' = 1 /\ status \notin Torn
    BY <1>1, <1>2 DEF AllWell, Urgent, TornIsDue, Tick
  <2>2. AllWell' /\ watch' # "probed" /\ status' = status
    BY <1>1, <1>2 DEF AllWell, Urgent
  <2>3. steady' = Lesser(steady + 1, 2)
    BY <1>2 DEF Tick
  <2>4. steady' = 2 => steady > 0
    <3>1. steady + 1 \in Nat /\ 2 \in Nat
      OBVIOUS
    <3>2. steady = 0 => steady' = 1
      BY <2>3, <3>1, LesserFacts
    <3>3. QED
      BY <3>2
  <2>5. steady > 0 => status = "good" /\ age' = 1
    <3>1. ASSUME steady > 0 PROVE status = "good" /\ age = 0
      BY <2>1, <3>1
    <3>2. ASSUME steady > 0 PROVE age' = Lesser(1, MaxAge + 1)
      BY <3>1, <3>2 DEF Tick
    <3>3. Lesser(1, MaxAge + 1) = 1
      BY DEF Lesser
    <3>4. QED
      BY <3>1, <3>2, <3>3
  <2>6. status' # "tornBad"
    BY <2>1, <2>2 DEF Torn
  <2>7. QED
    BY <2>1, <2>2, <2>4, <2>5, <2>6
<1>3. CASE ~AllWell
  BY <1>3 DEF Tick
<1>4. QED
  BY <1>2, <1>3

LEMMA SteadyScript == ASSUME Inv, SteadyInv, Script PROVE SteadyInv'
<1> USE Constants DEF Inv, TypeOK, SteadyInv
<1>1. CASE Fire
  BY <1>1 DEF Fire, process, file, history, AllWell
<1>2. CASE RestartAgent
  BY <1>2 DEF RestartAgent, StopAgent
<1>3. CASE Continues /\ watch' # "probed"
  BY <1>3 DEF Continues, process, file, history, AllWell
<1>4. QED
  BY <1>1, <1>2, <1>3, ScriptSteps

LEMMA SteadyAgent == ASSUME Inv, SteadyInv, Agent PROVE SteadyInv'
<1> USE Constants DEF Inv, TypeOK, SteadyInv, AllWell
<1>1. CASE DetectOk \/ DetectFails \/ TlsBinds \/ LinkUp
  <2>1. steady = 0
    BY <1>1 DEF DetectOk, DetectFails, TlsBinds, LinkUp
  <2>2. steady' = steady
    BY <1>1 DEF DetectOk, DetectFails, TlsBinds, LinkUp, history
  <2>3. QED
    BY <2>1, <2>2
<1>2. CASE WriteStatus
  <2>1. UNCHANGED <<agent, due, tls, link, age, watch, seenTls, steady>>
    BY <1>2 DEF WriteStatus, process, script, history
  <2>2. steady > 0 => status' = "tornGood" /\ due > 0
    BY <1>2 DEF WriteStatus
  <2>3. QED
    BY <2>1, <2>2
<1>3. CASE StatusWritten
  <2>1. UNCHANGED <<agent, tls, link, watch, seenTls, steady>> /\ age' = 0
    BY <1>3 DEF StatusWritten, script, history
  <2>2. steady > 0 => status' = "good" /\ due' <= 1
    BY <1>3 DEF StatusWritten, Torn, TornIsDue
  <2>3. QED
    BY <2>1, <2>2
<1>4. QED
  BY <1>1, <1>2, <1>3 DEF Agent

LEMMA SteadyStep == Inv /\ SteadyInv /\ [Next]_vars => SteadyInv'
<1> SUFFICES ASSUME Inv, SteadyInv, [Next]_vars PROVE SteadyInv'
  OBVIOUS
<1> USE Constants DEF Inv, TypeOK, SteadyInv, AllWell
<1>1. CASE Systemd
  BY <1>1 DEF Systemd, SessionFound, StartTimesOut, process, file, history
<1>2. CASE Faulty
  <2>1. CASE AgentDies
    BY <2>1 DEF AgentDies, StopAgent
  <2>2. CASE Hang \/ PortTaken \/ LinkLost \/ VpsFails
    BY <2>2 DEF Hang, PortTaken, LinkLost, VpsFails
  <2>3. CASE Logout
    BY <2>3 DEF Logout, process, file, script, history
  <2>4. QED
    BY <1>2, <2>1, <2>2, <2>3 DEF Faulty
<1>3. CASE World
  BY <1>3 DEF World, Login, PortReleased, VpsReturns, process, file, script,
     history
<1>4. CASE UNCHANGED vars
  BY <1>4 DEF vars
<1>5. QED
  BY <1>1, <1>2, <1>3, <1>4, SteadyTick, SteadyScript, SteadyAgent DEF Next

\* The steps that enter "restart" find no steady agent.
LEMMA SteadySpared ==
    ASSUME Inv, SteadyInv, [Next]_vars, watch # "restart", watch' = "restart"
    PROVE  steady < 2
<1> USE Constants DEF Inv, TypeOK, SteadyInv, AllWell
<1>1. SUFFICES ASSUME steady = 2 PROVE FALSE
  OBVIOUS
<1>2. /\ agent = "serving" /\ tls = "up" /\ unit = "running"
      /\ status \in {"good", "tornGood"} /\ age <= MaxAge
      /\ watch = "probed" => seenTls = "up"
  BY <1>1
<1>3. CASE Systemd
  BY <1>2, <1>3 DEF Systemd, SessionFound, StartTimesOut
<1>4. CASE Agent \/ World \/ Faulty \/ Tick \/ UNCHANGED vars
  BY <1>4 DEF Agent, World, Faulty, Tick, vars, DetectOk, DetectFails, TlsBinds,
     LinkUp, WriteStatus, StatusWritten, Login, PortReleased, VpsReturns,
     AgentDies, Hang, Logout, PortTaken, LinkLost, VpsFails, script
<1>5. CASE Fire
  BY <1>5 DEF Fire
<1>6. CASE Gate
  BY <1>2, <1>6 DEF Gate
<1>7. CASE Health
  BY <1>2, <1>7 DEF Health, Fresh
<1>8. CASE Probe
  BY <1>2, <1>8 DEF Probe, ProbedHealthy, Fresh, Torn
<1>9. QED
  BY <1>3, <1>4, <1>5, <1>6, <1>7, <1>8 DEF Next, Script

\* WatchSteadyLeftAlone: for any timers, the watchdog never restarts an
\* agent that has been all well for a whole status tick.
THEOREM WatchSteadyLeftAlone == Spec => SteadyLeftAlone
<1>1. Init => SteadyInv
  BY DEF Init, SteadyInv
<1>2. Inv /\ SteadyInv /\ [Next]_vars =>
          [watch # "restart" /\ watch' = "restart" => steady < 2]_vars
  BY SteadySpared
<1>3. QED
  BY <1>1, <1>2, InvInit, InvStep, SteadyStep, PTL DEF Spec, SteadyLeftAlone
=============================================================================
