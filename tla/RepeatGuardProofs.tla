------------------------- MODULE RepeatGuardProofs -------------------------
(***************************************************************************)
(* Proofs about RepeatGuard, for any keyboards and any number of helpers:  *)
(* type correctness, Restored and Suppressed.                              *)
(***************************************************************************)
EXTENDS RepeatGuard, TLAPS

Live(h) == helper[h] \in {"snapshot", "suppressed", "ready", "restoring"}

Off == \A k \in Keyboards : control[k] = "off" /\ feedback[k] = "off"

\* A helper not started beside another is the only one, and the backend's as
\* long as that has one.
Alone ==
    /\ crowd = {} => \A g, h \in Helpers : Live(g) /\ Live(h) => g = h
    /\ pc \in {"starting", "sharing", "closing"} /\ cur \notin crowd =>
           \A h \in Helpers : Live(h) => h = cur

\* Nobody else switches the keyboards back on.
Quiet ==
    /\ pc \in {"starting", "sharing", "closing"} /\ cur \notin crowd
    /\ helper[cur] \in {"suppressed", "ready"}
    => Off

\* What it has read is the user's, until it has switched repeat off ...
Reading ==
    \A h \in Helpers : helper[h] = "snapshot" =>
        /\ \A k \in Keyboards :
              control[k] = user[k] /\ (k \notin todo[h] => orig[h][k] = user[k])
        /\ dirty = "no" => feedback = user

Holding ==
    \A h \in Helpers : helper[h] \in {"suppressed", "ready"} => orig[h] = user

\* ... and what it has put back stays: the master is never written last.
PuttingBack ==
    \A h \in Helpers : helper[h] = "restoring" =>
        /\ orig[h] = user
        /\ IF Core \in todo[h]
           THEN todo[h] = Keyboards
           ELSE \A k \in Keyboards \ todo[h] :
                   control[k] = user[k] /\ feedback[k] = user[k]

Rest ==
    (\A h \in Helpers : ~Live(h)) =>
        control = user /\ (dirty = "no" => feedback = user)

\* The desktop is shared only after "ready".
Promised == pc = "sharing" => helper[cur] \in {"ready", "restoring", "gone"}

Phases == crowd = {} => Reading /\ Holding /\ PuttingBack /\ Rest

IInv == TypeOK /\ Alone /\ Quiet /\ Phases /\ Promised
-----------------------------------------------------------------------------
(* Type correctness.                                                       *)

LEMMA SetRepeatType ==
  ASSUME NEW k \in Keyboards, NEW v \in Switch, TypeOK, SetRepeat(k, v)
  PROVE  control' \in [Keyboards -> Switch] /\ feedback' \in [Keyboards -> Switch]
BY DEF SetRepeat, TypeOK

LEMMA AutoResetType ==
  ASSUME NEW h \in Helpers, TypeOK, AutoReset(h)
  PROVE  control' \in [Keyboards -> Switch] /\ feedback' \in [Keyboards -> Switch]
BY DEF AutoReset, TypeOK

LEMMA TypeInit == Init => TypeOK
BY DEF Init, TypeOK, Switch

LEMMA TypeStep == TypeOK /\ [Next]_vars => TypeOK'
<1> SUFFICES ASSUME TypeOK, [Next]_vars PROVE TypeOK'
  OBVIOUS
<1> USE DEF TypeOK, backend, server, ghosts
<1>1. ASSUME NEW h \in Helpers, StartGuard(h) PROVE TypeOK'
  BY <1>1 DEF StartGuard
<1>2. CASE GuardReady
  BY <1>2 DEF GuardReady
<1>3. CASE CloseGuard
  BY <1>3 DEF CloseGuard
<1>4. CASE GuardClosed
  BY <1>4 DEF GuardClosed
<1>5. CASE AgentRestarts
  BY <1>5 DEF AgentRestarts
<1>6. CASE AgentDies
  BY <1>6 DEF AgentDies
<1>7. ASSUME NEW h \in Helpers, Snapshot(h) PROVE TypeOK'
  <2>1. PICK k \in todo[h] :
            /\ orig' = [orig EXCEPT ![h][k] = control[k]]
            /\ todo' = [todo EXCEPT ![h] = @ \ {k}]
    BY <1>7 DEF Snapshot
  <2>2. k \in Keyboards /\ control[k] \in Switch
    OBVIOUS
  <2>3. orig' \in [Helpers -> [Keyboards -> Switch]]
    BY <2>1, <2>2
  <2>4. todo' \in [Helpers -> SUBSET Keyboards]
    BY <2>1
  <2>5. QED
    BY <1>7, <2>3, <2>4 DEF Snapshot
<1>8. ASSUME NEW h \in Helpers, SnapshotFails(h) PROVE TypeOK'
  BY <1>8, AutoResetType DEF SnapshotFails
<1>9. ASSUME NEW h \in Helpers, Suppress(h) PROVE TypeOK'
  BY <1>9, SetRepeatType, CoreAssumption DEF Suppress, Switch
<1>10. ASSUME NEW h \in Helpers,
              InstallHandlers(h) \/ SetupFails(h) \/ SeeEof(h) \/ SeeSignal(h)
       PROVE  TypeOK'
  BY <1>10 DEF InstallHandlers, SetupFails, SeeEof, SeeSignal
<1>11. ASSUME NEW h \in Helpers, Restore(h) PROVE TypeOK'
  <2>1. PICK k \in todo[h] :
            SetRepeat(k, orig[h][k]) /\ todo' = [todo EXCEPT ![h] = @ \ {k}]
    BY <1>11 DEF Restore
  <2>2. k \in Keyboards /\ orig[h][k] \in Switch
    OBVIOUS
  <2>3. control' \in [Keyboards -> Switch] /\ feedback' \in [Keyboards -> Switch]
    BY <2>1, <2>2, SetRepeatType
  <2>4. todo' \in [Helpers -> SUBSET Keyboards]
    BY <2>1
  <2>5. QED
    BY <1>11, <2>3, <2>4 DEF Restore
<1>12. ASSUME NEW h \in Helpers, Exit(h) PROVE TypeOK'
  BY <1>12, AutoResetType DEF Exit
<1>13. ASSUME NEW h \in Helpers, EarlySignal(h) \/ Killed(h) PROVE TypeOK'
  BY <1>13, AutoResetType DEF EarlySignal, Killed
<1>14. CASE UNCHANGED vars
  BY <1>14 DEF vars
<1>15. QED
  BY <1>1, <1>2, <1>3, <1>4, <1>5, <1>6, <1>7, <1>8, <1>9, <1>10, <1>11,
     <1>12, <1>13, <1>14 DEF Next, Backend, Helper

LEMMA TypeInvariance == Spec => []TypeOK
BY TypeInit, TypeStep, PTL DEF Spec

-----------------------------------------------------------------------------
(* One helper at a time.                                                   *)

LEMMA NotLive == ASSUME TypeOK, NEW h \in Helpers PROVE Live(h) <=> ~Over(h)
BY DEF TypeOK, Live, Over

\* Whatever a helper does, it was at work and concerns no other.
LEMMA HelperStep ==
  ASSUME TypeOK, NEW h \in Helpers,
         Helper(h) \/ SeeSignal(h) \/ EarlySignal(h) \/ Killed(h)
  PROVE  /\ Live(h) /\ helper'[h] # "none"
         /\ UNCHANGED <<backend, user, crowd>>
         /\ \A g \in Helpers : g # h => helper'[g] = helper[g]
<1> USE DEF backend, server, ghosts, Live, Over, TypeOK
<1>1. CASE Helper(h)
  BY <1>1 DEF Helper, Snapshot, SnapshotFails, Suppress, InstallHandlers,
     SetupFails, SeeEof, Restore, Exit
<1>2. CASE SeeSignal(h) \/ EarlySignal(h) \/ Killed(h)
  BY <1>2 DEF SeeSignal, EarlySignal, Killed
<1>3. QED
  BY <1>1, <1>2

LEMMA AloneStep ==
  ASSUME TypeOK, Alone, [Next]_vars
  PROVE  Alone'
<1> USE DEF backend, server, ghosts
<1>1. ASSUME NEW h \in Helpers, StartGuard(h) PROVE Alone'
  <2>1. /\ pc' = "starting" /\ cur' = h /\ helper[h] = "none"
        /\ \A g \in Helpers : g # h => helper'[g] = helper[g]
    BY <1>1 DEF StartGuard, TypeOK
  <2>2. h \notin crowd' => crowd' = crowd /\ \A g \in Helpers : Over(g)
    BY <1>1 DEF StartGuard
  <2>3. h \notin crowd' => \A g \in Helpers : Live(g)' => g = h
    BY <2>1, <2>2 DEF Live, Over
  <2>4. crowd' = {} => h \notin crowd'
    OBVIOUS
  <2>5. QED
    BY <2>1, <2>3, <2>4 DEF Alone
<1>2. CASE GuardReady
  BY <1>2 DEF GuardReady, Alone, Live
<1>3. CASE CloseGuard
  BY <1>3 DEF CloseGuard, Alone, Live
<1>4. CASE GuardClosed
  BY <1>4 DEF GuardClosed, Alone, Live
<1>5. CASE AgentRestarts
  BY <1>5 DEF AgentRestarts, Alone, Live
<1>6. CASE AgentDies
  BY <1>6 DEF AgentDies, Alone, Live
<1>7. ASSUME NEW h \in Helpers,
             Helper(h) \/ SeeSignal(h) \/ EarlySignal(h) \/ Killed(h)
      PROVE  Alone'
  <2>1. /\ Live(h) /\ pc' = pc /\ cur' = cur /\ crowd' = crowd
        /\ \A g \in Helpers : g # h => helper'[g] = helper[g]
    BY <1>7, HelperStep
  <2>2. \A g \in Helpers : Live(g)' => Live(g)
    BY <2>1 DEF Live
  <2>3. QED
    BY <2>1, <2>2 DEF Alone
<1>8. CASE UNCHANGED vars
  BY <1>8 DEF vars, Alone, Live
<1>9. QED
  BY <1>1, <1>2, <1>3, <1>4, <1>5, <1>6, <1>7, <1>8 DEF Next, Backend

\* The keyboards stay off: the backend's helper is the only one to touch them.
LEMMA QuietStep ==
  ASSUME TypeOK, Alone, Quiet, [Next]_vars
  PROVE  Quiet'
<1> USE DEF backend, server, ghosts
<1>1. CASE Backend \/ AgentDies \/ UNCHANGED vars
  <2>1. ASSUME NEW h \in Helpers, StartGuard(h) PROVE Quiet'
    BY <2>1 DEF StartGuard, Quiet, TypeOK
  <2>2. CASE GuardReady \/ CloseGuard \/ GuardClosed \/ AgentRestarts \/ AgentDies
             \/ UNCHANGED vars
    BY <2>2 DEF GuardReady, CloseGuard, GuardClosed, AgentRestarts, AgentDies,
       vars, Quiet, Off
  <2>3. QED
    BY <1>1, <2>1, <2>2 DEF Backend
<1>2. ASSUME NEW h \in Helpers,
             Helper(h) \/ SeeSignal(h) \/ EarlySignal(h) \/ Killed(h)
      PROVE  Quiet'
  <2> SUFFICES ASSUME pc' \in {"starting", "sharing", "closing"}, cur' \notin crowd',
                      helper'[cur'] \in {"suppressed", "ready"}
               PROVE  Off'
    BY DEF Quiet
  <2>1. /\ Live(h) /\ pc' = pc /\ cur' = cur /\ crowd' = crowd
        /\ \A g \in Helpers : g # h => helper'[g] = helper[g]
    BY <1>2, HelperStep
  <2>2. cur = h
    BY <2>1 DEF Alone
  <2>3. Suppress(h) \/ InstallHandlers(h)
    BY <1>2, <2>1, <2>2 DEF Helper, Snapshot, SnapshotFails, SetupFails, SeeEof,
       Restore, Exit, SeeSignal, EarlySignal, Killed, TypeOK
  <2>4. CASE Suppress(h)
    BY <2>4 DEF Suppress, SetRepeat, Off
  <2>5. CASE InstallHandlers(h)
    BY <2>1, <2>2, <2>5 DEF InstallHandlers, Quiet, Off
  <2>6. QED
    BY <2>3, <2>4, <2>5
<1>3. QED
  BY <1>1, <1>2 DEF Next

-----------------------------------------------------------------------------
(* What the helper does to the keyboards.                                  *)

\* Of the helpers, only h can be live after a step of h.
LEMMA OneStep ==
  ASSUME NEW h \in Helpers, TypeOK, Alone, crowd = {}, Live(h),
         \A g \in Helpers : g # h => helper'[g] = helper[g],
         helper'[h] = "snapshot" =>
            /\ \A k \in Keyboards :
                  control'[k] = user'[k] /\ (k \notin todo'[h] => orig'[h][k] = user'[k])
            /\ dirty' = "no" => feedback' = user',
         helper'[h] \in {"suppressed", "ready"} => orig'[h] = user',
         helper'[h] = "restoring" =>
            /\ orig'[h] = user'
            /\ IF Core \in todo'[h]
               THEN todo'[h] = Keyboards
               ELSE \A k \in Keyboards \ todo'[h] :
                       control'[k] = user'[k] /\ feedback'[k] = user'[k],
         helper'[h] = "gone" => control' = user' /\ (dirty' = "no" => feedback' = user'),
         helper'[h] # "none", TypeOK'
  PROVE  Phases'
<1>1. \A g \in Helpers : g # h => ~Live(g) /\ ~Live(g)'
  BY DEF Alone, Live
<1>2. Reading'
  BY <1>1 DEF Reading, Live
<1>3. Holding'
  BY <1>1 DEF Holding, Live
<1>4. PuttingBack'
  BY <1>1 DEF PuttingBack, Live
<1>5. Rest'
  BY DEF Rest, Live, TypeOK
<1>6. QED
  BY <1>2, <1>3, <1>4, <1>5 DEF Phases

\* A closed connection puts the controls back.
LEMMA ResetControls ==
  ASSUME NEW h \in Helpers, TypeOK, Phases, crowd = {}, Live(h), AutoReset(h)
  PROVE  control' = user /\ feedback' = feedback
<1>1. orig[h] \in [Keyboards -> Switch] /\ user \in [Keyboards -> Switch]
  BY DEF TypeOK
<1>2. \A k \in Keyboards :
        (IF helper[h] = "snapshot" /\ k \in todo[h] THEN control[k] ELSE orig[h][k])
          = user[k]
  BY <1>1 DEF Phases, Reading, Holding, PuttingBack, Live
<1>3. QED
  BY <1>1, <1>2 DEF AutoReset

LEMMA PhasesStep ==
  ASSUME TypeOK, TypeOK', Alone, Phases, [Next]_vars
  PROVE  Phases'
<1> SUFFICES ASSUME crowd' = {} PROVE Phases'
  BY DEF Phases
<1>0. crowd = {}
  BY HelperStep DEF Next, Backend, StartGuard, GuardReady, CloseGuard,
     GuardClosed, AgentRestarts, AgentDies, vars, ghosts
<1> USE DEF backend, server, ghosts
<1>1. ASSUME NEW h \in Helpers, StartGuard(h) PROVE Phases'
  <2>1. \A g \in Helpers : ~Live(g)
    BY <1>1 DEF StartGuard, Over, Live
  <2>2. control = user /\ (dirty = "no" => feedback = user)
    BY <1>0, <2>1 DEF Phases, Rest
  <2>3. /\ helper'[h] = "snapshot" /\ todo'[h] = Keyboards
        /\ \A g \in Helpers : g # h => helper'[g] = helper[g]
        /\ control' = control /\ feedback' = feedback /\ user' = user
        /\ dirty' = dirty
    BY <1>1 DEF StartGuard, TypeOK
  <2>4. Reading'
    BY <2>1, <2>2, <2>3 DEF Reading, Live
  <2>5. Holding' /\ PuttingBack' /\ Rest'
    BY <2>1, <2>2, <2>3 DEF Holding, PuttingBack, Rest, Live
  <2>6. QED
    BY <1>0, <2>4, <2>5 DEF Phases
<1>2. CASE GuardReady \/ CloseGuard \/ GuardClosed \/ AgentRestarts \/ AgentDies
           \/ UNCHANGED vars
  <2>1. UNCHANGED <<helper, todo, orig, control, feedback, user, dirty>>
    BY <1>2 DEF GuardReady, CloseGuard, GuardClosed, AgentRestarts, AgentDies,
       vars
  <2>2. QED
    BY <1>0, <2>1 DEF Phases, Reading, Holding, PuttingBack, Rest, Live
<1>3. ASSUME NEW h \in Helpers, Snapshot(h) PROVE Phases'
  <2>1. PICK k \in todo[h] :
            /\ orig' = [orig EXCEPT ![h][k] = control[k]]
            /\ todo' = [todo EXCEPT ![h] = @ \ {k}]
    BY <1>3 DEF Snapshot
  <2>2. /\ helper[h] = "snapshot" /\ helper' = helper /\ control' = control
        /\ feedback' = feedback /\ user' = user /\ dirty' = dirty
    BY <1>3 DEF Snapshot
  <2>3. /\ todo'[h] = todo[h] \ {k} /\ orig'[h][k] = control[k]
        /\ \A j \in Keyboards : j # k => orig'[h][j] = orig[h][j]
    BY <2>1 DEF TypeOK
  <2>4. \A j \in Keyboards :
          control[j] = user[j] /\ (j \notin todo[h] => orig[h][j] = user[j])
    BY <1>0, <2>2 DEF Phases, Reading
  <2>5. dirty = "no" => feedback = user
    BY <1>0, <2>2 DEF Phases, Reading
  <2>6. k \in Keyboards
    BY DEF TypeOK
  <2>7. QED
    BY <1>0, <2>2, <2>3, <2>4, <2>5, <2>6, OneStep DEF Live
<1>4. ASSUME NEW h \in Helpers, SnapshotFails(h) PROVE Phases'
  <2>1. helper[h] = "snapshot" /\ Live(h)
    BY <1>4 DEF SnapshotFails, Live
  <2>2. control' = user /\ feedback' = feedback
    BY <1>0, <1>4, <2>1, ResetControls DEF SnapshotFails
  <2>3. dirty = "no" => feedback = user
    BY <1>0, <2>1 DEF Phases, Reading
  <2>4. /\ helper'[h] = "gone" /\ user' = user /\ dirty' = dirty
        /\ \A g \in Helpers : g # h => helper'[g] = helper[g]
    BY <1>4 DEF SnapshotFails, TypeOK
  <2>5. QED
    BY <1>0, <2>1, <2>2, <2>3, <2>4, OneStep
<1>5. ASSUME NEW h \in Helpers, Suppress(h) PROVE Phases'
  <2>1. /\ helper[h] = "snapshot" /\ todo[h] = {} /\ Live(h)
        /\ helper'[h] = "suppressed" /\ orig' = orig /\ user' = user
        /\ \A g \in Helpers : g # h => helper'[g] = helper[g]
    BY <1>5 DEF Suppress, TypeOK, Live
  <2>2. orig[h] = user
    <3>1. \A k \in Keyboards : orig[h][k] = user[k]
      BY <1>0, <2>1 DEF Phases, Reading
    <3>2. QED
      BY <3>1 DEF TypeOK
  <2>3. QED
    BY <1>0, <2>1, <2>2, OneStep
<1>6. ASSUME NEW h \in Helpers,
             InstallHandlers(h) \/ SetupFails(h) \/ SeeEof(h) \/ SeeSignal(h)
      PROVE  Phases'
  <2>1. /\ Live(h) /\ orig' = orig /\ user' = user
        /\ \/ helper'[h] = "ready"
           \/ helper'[h] = "restoring" /\ todo'[h] = Keyboards
        /\ \/ helper[h] \in {"suppressed", "ready"}
           \/ helper[h] = "snapshot" /\ todo[h] = {}
        /\ \A g \in Helpers : g # h => helper'[g] = helper[g]
    BY <1>6 DEF InstallHandlers, SetupFails, SeeEof, SeeSignal, TypeOK, Live
  <2>2. orig[h] = user
    <3>1. CASE helper[h] \in {"suppressed", "ready"}
      BY <1>0, <3>1 DEF Phases, Holding
    <3>2. CASE helper[h] = "snapshot" /\ todo[h] = {}
      <4>1. \A k \in Keyboards : orig[h][k] = user[k]
        BY <1>0, <3>2 DEF Phases, Reading
      <4>2. QED
        BY <4>1 DEF TypeOK
    <3>3. QED
      BY <2>1, <3>1, <3>2
  <2>3. QED
    BY <1>0, <2>1, <2>2, OneStep, CoreAssumption
<1>7. ASSUME NEW h \in Helpers, Restore(h) PROVE Phases'
  <2>1. PICK k \in todo[h] :
            /\ Core \in todo[h] => k = Core
            /\ SetRepeat(k, orig[h][k])
            /\ todo' = [todo EXCEPT ![h] = @ \ {k}]
    BY <1>7 DEF Restore
  <2>2. /\ helper[h] = "restoring" /\ Live(h) /\ helper' = helper
        /\ orig' = orig /\ user' = user
    BY <1>7 DEF Restore, Live
  <2>3. todo'[h] = todo[h] \ {k} /\ k \in Keyboards
    BY <2>1 DEF TypeOK
  <2>4. orig[h] = user
    BY <1>0, <2>2 DEF Phases, PuttingBack
  <2>5. Core \notin todo'[h]
    BY <2>1, <2>3
  <2>6. \A j \in Keyboards \ todo'[h] :
          control'[j] = user[j] /\ feedback'[j] = user[j]
    <3>1. CASE Core \in todo[h]
      <4>1. k = Core /\ todo[h] = Keyboards
        BY <1>0, <2>1, <2>2, <3>1 DEF Phases, PuttingBack
      <4>2. QED
        BY <2>1, <2>3, <2>4, <4>1 DEF SetRepeat
    <3>2. CASE Core \notin todo[h]
      <4>1. k # Core
        BY <3>2
      <4>2. /\ control' = [control EXCEPT ![k] = user[k]]
            /\ feedback' = [feedback EXCEPT ![k] = user[k]]
        BY <2>1, <2>4, <4>1 DEF SetRepeat
      <4>3. \A j \in Keyboards \ todo[h] :
              control[j] = user[j] /\ feedback[j] = user[j]
        BY <1>0, <2>2, <3>2 DEF Phases, PuttingBack
      <4>4. QED
        BY <2>3, <4>2, <4>3 DEF TypeOK
    <3>3. QED
      BY <3>1, <3>2
  <2>7. QED
    BY <1>0, <2>2, <2>4, <2>5, <2>6, OneStep
<1>8. ASSUME NEW h \in Helpers, Exit(h) PROVE Phases'
  <2>1. /\ helper[h] = "restoring" /\ Live(h) /\ todo[h] = {}
        /\ helper'[h] = "gone" /\ user' = user
        /\ \A g \in Helpers : g # h => helper'[g] = helper[g]
    BY <1>8 DEF Exit, TypeOK, Live
  <2>2. control' = user /\ feedback' = feedback
    BY <1>0, <1>8, <2>1, ResetControls DEF Exit
  <2>3. \A k \in Keyboards : feedback[k] = user[k]
    BY <1>0, <2>1 DEF Phases, PuttingBack
  <2>4. feedback = user
    BY <2>3 DEF TypeOK
  <2>5. QED
    BY <1>0, <2>1, <2>2, <2>4, OneStep
<1>9. ASSUME NEW h \in Helpers, EarlySignal(h) \/ Killed(h) PROVE Phases'
  <2>1. /\ Live(h) /\ helper'[h] = "gone" /\ user' = user /\ AutoReset(h)
        /\ \A g \in Helpers : g # h => helper'[g] = helper[g]
    BY <1>9 DEF EarlySignal, Killed, Over, TypeOK, Live
  <2>2. control' = user /\ feedback' = feedback
    BY <1>0, <2>1, ResetControls
  <2>3. dirty' = "no" => helper[h] = "snapshot" /\ dirty = "no"
    BY <1>9, <2>1 DEF EarlySignal, Killed, Live
  <2>4. dirty' = "no" => feedback = user
    BY <1>0, <2>3 DEF Phases, Reading
  <2>5. QED
    BY <1>0, <2>1, <2>2, <2>4, OneStep
<1>10. QED
  BY <1>1, <1>2, <1>3, <1>4, <1>5, <1>6, <1>7, <1>8, <1>9
     DEF Next, Backend, Helper

LEMMA PromisedStep ==
  TypeOK /\ Promised /\ [Next]_vars => Promised'
<1> SUFFICES ASSUME TypeOK, Promised, [Next]_vars PROVE Promised'
  OBVIOUS
<1> USE DEF Promised, backend, server, ghosts
<1>1. CASE Backend \/ AgentDies \/ UNCHANGED vars
  BY <1>1 DEF Backend, StartGuard, GuardReady, CloseGuard, GuardClosed,
     AgentRestarts, AgentDies, vars
<1>2. ASSUME NEW h \in Helpers,
             Helper(h) \/ SeeSignal(h) \/ EarlySignal(h) \/ Killed(h)
      PROVE  Promised'
  <2>1. /\ pc' = pc /\ cur' = cur
        /\ \A g \in Helpers : helper'[g] # helper[g] =>
              /\ g = h
              /\ \/ helper[h] \in {"snapshot", "suppressed"}
                 \/ helper'[h] \in {"restoring", "gone"}
    BY <1>2 DEF Helper, Snapshot, SnapshotFails, Suppress, InstallHandlers,
       SetupFails, SeeEof, SeeSignal, Restore, Exit, EarlySignal, Killed, TypeOK
  <2>2. pc = "sharing" => cur \in Helpers
    BY DEF TypeOK
  <2>3. QED
    BY <2>1, <2>2
<1>3. QED
  BY <1>1, <1>2 DEF Next

-----------------------------------------------------------------------------
(* The theorems.                                                           *)

LEMMA InvInit == Init => IInv
<1> SUFFICES ASSUME Init PROVE IInv
  OBVIOUS
<1>1. TypeOK
  BY TypeInit
<1>2. QED
  BY <1>1 DEF Init, IInv, Alone, Quiet, Live, Phases, Reading, Holding,
     PuttingBack, Rest, Promised

LEMMA Invariance == Spec => []IInv
<1>1. IInv /\ [Next]_vars => IInv'
  BY TypeStep, AloneStep, QuietStep, PhasesStep, PromisedStep DEF IInv
<1>2. QED
  BY <1>1, InvInit, PTL DEF Spec

\* TypeOK holds for any keyboards and helpers.
THEOREM GuardTypeCorrect == Spec => []TypeOK
BY TypeInvariance

\* With no helper left, and none ever started beside another, the controls
\* are the user's, and so is the feedback unless the last helper to switch
\* repeat off was ended by SIGKILL or by a signal it did not catch yet.
THEOREM GuardRestored == Spec => []Restored
<1>1. IInv => Restored
  BY NotLive DEF IInv, Phases, Rest, Restored
<1>2. QED
  BY <1>1, Invariance, PTL

\* Nothing is shared with a keyboard that repeats, as long as nobody has
\* ended the helper and it was started beside no other.
THEOREM GuardSuppressed == Spec => []Suppressed
<1>1. IInv => Suppressed
  <2> SUFFICES ASSUME IInv, pc = "sharing", cur \notin crowd,
                      helper[cur] \notin {"restoring", "gone"}
               PROVE  Off
    BY DEF Suppressed, Off
  <2>1. helper[cur] = "ready"
    BY DEF IInv, Promised
  <2>2. QED
    BY <2>1 DEF IInv, Quiet
<1>2. QED
  BY <1>1, Invariance, PTL
=============================================================================
