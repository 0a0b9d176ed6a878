---------------------------- MODULE RepeatGuard ----------------------------
(***************************************************************************)
(* The keyboard repeat guard of the X11 backend: a helper process of the   *)
(* desktop user (backend/repeat_guard.rs) that turns the X server's key    *)
(* repeat off while the desktop is shared and puts it back when its stdin, *)
(* a pipe the backend holds (backend/x11.rs), is closed.                   *)
(*   - the backend: start_repeat_guard, and stop;                          *)
(*   - the helpers, one per start;                                         *)
(*   - the X server: per keyboard, the XKB control that a helper reads and *)
(*     the feedback that makes keys repeat.                                *)
(***************************************************************************)
EXTENDS Naturals

CONSTANTS
    Keyboards,  \* the master keyboard and those attached to it
    Core,       \* the master
    Helpers,    \* bound: the helpers of a behaviour
    NoHelper

ASSUME CoreAssumption == Core \in Keyboards
ASSUME NoHelperAssumption == NoHelper \notin Helpers

Switch == {"on", "off"}

VARIABLES
    pc,        \* backend: "idle", "starting", "sharing", "closing", "dead"
    cur,       \* the backend's repeat_guard
    pipe,      \* per helper, its stdin: "open", "closed"
    helper,    \* "none", "snapshot", "suppressed", "ready", "restoring",
               \* "gone"
    todo,      \* per helper, keyboards still to be read or restored
    orig,      \* per helper, originals
    control,   \* per keyboard, the XKB control RepeatKeys
    feedback,  \* per keyboard, whether its keys repeat
    user,      \* history: what the user had set
    dirty,     \* history: "signal" or "kill" after one has ended a helper
               \* that had switched repeat off, until a later one restores
    crowd      \* history: the helpers started while another was at work

vars ==
    <<pc, cur, pipe, helper, todo, orig, control, feedback, user, dirty, crowd>>

backend == <<pc, cur, pipe>>
server == <<control, feedback>>
ghosts == <<user, dirty, crowd>>

Init ==
    /\ pc = "idle"
    /\ cur = NoHelper
    /\ pipe = [h \in Helpers |-> "closed"]
    /\ helper = [h \in Helpers |-> "none"]
    /\ todo = [h \in Helpers |-> {}]
    /\ orig = [h \in Helpers |-> [k \in Keyboards |-> "on"]]
    /\ control \in [Keyboards -> Switch]
    /\ feedback = control
    /\ user = control
    /\ dirty = "no"
    /\ crowd = {}

Over(h) == helper[h] \in {"none", "gone"}

-----------------------------------------------------------------------------
(* The backend.                                                            *)

\* start_repeat_guard spawns the helper and keeps it before it waits.
StartGuard(h) ==
    /\ pc = "idle" /\ helper[h] = "none"
    /\ pc' = "starting"
    /\ cur' = h
    /\ pipe' = [pipe EXCEPT ![h] = "open"]
    /\ helper' = [helper EXCEPT ![h] = "snapshot"]
    /\ todo' = [todo EXCEPT ![h] = Keyboards]
    /\ crowd' = IF \A g \in Helpers : Over(g) THEN crowd ELSE crowd \cup {h}
    /\ UNCHANGED <<orig, server, user, dirty>>

\* Mutant of GuardReady: the server is started without the helper's word.
GuardAssumed ==
    /\ pc = "starting"
    /\ pc' = "sharing"
    /\ UNCHANGED <<cur, pipe, helper, todo, orig, server, ghosts>>

GuardReady ==
    /\ pc = "starting" /\ helper[cur] = "ready"
    /\ pc' = "sharing"
    /\ UNCHANGED <<cur, pipe, helper, todo, orig, server, ghosts>>

\* stop() closes the pipe: after a start that got no "ready" in 5s, and after
\* a shared desktop whose VNC server, or helper, is gone.
CloseGuard ==
    /\ pc \in {"starting", "sharing"}
    /\ pc' = "closing"
    /\ pipe' = [pipe EXCEPT ![cur] = "closed"]
    /\ UNCHANGED <<cur, helper, todo, orig, server, ghosts>>

\* ... and goes on when the helper has exited or the 5s are over.
GuardClosed ==
    /\ pc = "closing"
    /\ pc' = "idle"
    /\ cur' = NoHelper
    /\ UNCHANGED <<pipe, helper, todo, orig, server, ghosts>>

\* Every pipe of the agent closes with it.
AgentDies ==
    /\ pc # "dead"
    /\ pc' = "dead"
    /\ cur' = NoHelper
    /\ pipe' = [h \in Helpers |-> "closed"]
    /\ UNCHANGED <<helper, todo, orig, server, ghosts>>

\* systemd starts the unit again when its control group is empty.
AgentRestarts ==
    /\ pc = "dead" /\ \A h \in Helpers : Over(h)
    /\ pc' = "idle"
    /\ UNCHANGED <<cur, pipe, helper, todo, orig, server, ghosts>>

-----------------------------------------------------------------------------
(* The X server.                                                           *)

\* The master's control is copied to the keyboards attached to it.
SetRepeat(k, v) ==
    /\ control' = IF k = Core THEN [j \in Keyboards |-> v]
                              ELSE [control EXCEPT ![k] = v]
    /\ feedback' = IF k = Core THEN [j \in Keyboards |-> v]
                               ELSE [feedback EXCEPT ![k] = v]

\* A lost connection: auto-reset puts the controls back that the helper has
\* flagged, but leaves the feedback alone.
AutoReset(h) ==
    /\ control' = [k \in Keyboards |->
                      IF helper[h] = "snapshot" /\ k \in todo[h]
                      THEN control[k] ELSE orig[h][k]]
    /\ UNCHANGED feedback

-----------------------------------------------------------------------------
(* The helper.                                                             *)

\* Read one keyboard's control and flag it for auto-reset.
Snapshot(h) ==
    /\ helper[h] = "snapshot"
    /\ \E k \in todo[h] :
          /\ orig' = [orig EXCEPT ![h][k] = control[k]]
          /\ todo' = [todo EXCEPT ![h] = @ \ {k}]
    /\ UNCHANGED <<backend, helper, server, ghosts>>

\* X11 or XKB refuses: the helper ends without "ready".
SnapshotFails(h) ==
    /\ helper[h] = "snapshot"
    /\ helper' = [helper EXCEPT ![h] = "gone"]
    /\ AutoReset(h)
    /\ UNCHANGED <<backend, todo, orig, ghosts>>

\* Switch repeat off, with SIGTERM and SIGINT still at their defaults.
Suppress(h) ==
    /\ helper[h] = "snapshot" /\ todo[h] = {}
    /\ SetRepeat(Core, "off")
    /\ helper' = [helper EXCEPT ![h] = "suppressed"]
    /\ UNCHANGED <<backend, todo, orig, ghosts>>

\* Catch the two signals, start the thread that reads stdin, say "ready".
InstallHandlers(h) ==
    /\ helper[h] = "suppressed"
    /\ helper' = [helper EXCEPT ![h] = "ready"]
    /\ UNCHANGED <<backend, todo, orig, server, ghosts>>

\* The X server refuses, a handler cannot be installed, or nobody reads
\* "ready": the guard is dropped on the way out.
SetupFails(h) ==
    /\ \/ helper[h] = "snapshot" /\ todo[h] = {}
       \/ helper[h] = "suppressed"
    /\ helper' = [helper EXCEPT ![h] = "restoring"]
    /\ todo' = [todo EXCEPT ![h] = Keyboards]
    /\ UNCHANGED <<backend, orig, server, ghosts>>

\* SIGTERM or SIGINT before it is caught: the process ends, nothing dropped.
EarlySignal(h) ==
    /\ helper[h] \in {"snapshot", "suppressed"}
    /\ helper' = [helper EXCEPT ![h] = "gone"]
    /\ AutoReset(h)
    /\ dirty' = IF helper[h] = "suppressed" /\ dirty = "no" THEN "signal"
                                                           ELSE dirty
    /\ UNCHANGED <<backend, todo, orig, user, crowd>>

\* Mutant of SeeEof: only signals end the helper.
SeeEofNever(h) ==
    /\ helper[h] = "ready" /\ pipe[h] = "closed" /\ pc = "dead"
    /\ helper' = [helper EXCEPT ![h] = "restoring"]
    /\ todo' = [todo EXCEPT ![h] = Keyboards]
    /\ UNCHANGED <<backend, orig, server, ghosts>>

\* The thread that reads stdin is started last: an earlier EOF waits.
SeeEof(h) ==
    /\ helper[h] = "ready" /\ pipe[h] = "closed"
    /\ helper' = [helper EXCEPT ![h] = "restoring"]
    /\ todo' = [todo EXCEPT ![h] = Keyboards]
    /\ UNCHANGED <<backend, orig, server, ghosts>>

\* SIGTERM or SIGINT, at any time of a helper that is ready.
SeeSignal(h) ==
    /\ helper[h] = "ready"
    /\ helper' = [helper EXCEPT ![h] = "restoring"]
    /\ todo' = [todo EXCEPT ![h] = Keyboards]
    /\ UNCHANGED <<backend, orig, server, ghosts>>

\* Mutant of Restore: the keyboards in the order of the query.
RestoreUnsorted(h) ==
    /\ helper[h] = "restoring"
    /\ \E k \in todo[h] :
          /\ SetRepeat(k, orig[h][k])
          /\ todo' = [todo EXCEPT ![h] = @ \ {k}]
    /\ UNCHANGED <<backend, helper, orig, ghosts>>

\* drop(guard): the master first, then the others.
Restore(h) ==
    /\ helper[h] = "restoring"
    /\ \E k \in todo[h] :
          /\ Core \in todo[h] => k = Core
          /\ SetRepeat(k, orig[h][k])
          /\ todo' = [todo EXCEPT ![h] = @ \ {k}]
    /\ UNCHANGED <<backend, helper, orig, ghosts>>

Exit(h) ==
    /\ helper[h] = "restoring" /\ todo[h] = {}
    /\ helper' = [helper EXCEPT ![h] = "gone"]
    /\ AutoReset(h)
    /\ dirty' = "no"
    /\ UNCHANGED <<backend, todo, orig, user, crowd>>

\* SIGKILL.
Killed(h) ==
    /\ ~Over(h)
    /\ helper' = [helper EXCEPT ![h] = "gone"]
    /\ AutoReset(h)
    /\ dirty' = IF helper[h] = "snapshot" THEN dirty ELSE "kill"
    /\ UNCHANGED <<backend, todo, orig, user, crowd>>

-----------------------------------------------------------------------------

Backend ==
    \/ \E h \in Helpers : StartGuard(h)
    \/ GuardReady \/ CloseGuard \/ GuardClosed \/ AgentRestarts

Helper(h) ==
    \/ Snapshot(h) \/ SnapshotFails(h) \/ Suppress(h) \/ InstallHandlers(h)
    \/ SetupFails(h) \/ SeeEof(h) \/ Restore(h) \/ Exit(h)

Next ==
    \/ Backend \/ AgentDies
    \/ \E h \in Helpers :
          Helper(h) \/ SeeSignal(h) \/ EarlySignal(h) \/ Killed(h)

Spec == Init /\ [][Next]_vars

\* The helpers are scheduled.
FairSpec == Spec /\ \A h \in Helpers : WF_vars(Helper(h))

-----------------------------------------------------------------------------
(* Properties.                                                             *)

\* Types.
TypeOK ==
    /\ pc \in {"idle", "starting", "sharing", "closing", "dead"}
    /\ cur \in Helpers \cup {NoHelper}
    /\ pc \in {"starting", "sharing", "closing"} => cur \in Helpers
    /\ pipe \in [Helpers -> {"open", "closed"}]
    /\ helper \in
         [Helpers -> {"none", "snapshot", "suppressed", "ready", "restoring",
                      "gone"}]
    /\ todo \in [Helpers -> SUBSET Keyboards]
    /\ orig \in [Helpers -> [Keyboards -> Switch]]
    /\ control \in [Keyboards -> Switch]
    /\ feedback \in [Keyboards -> Switch]
    /\ user \in [Keyboards -> Switch]
    /\ dirty \in {"no", "signal", "kill"}
    /\ crowd \subseteq Helpers

\* As long as no helper was started beside another: when none runs every
\* keyboard has its own control back, and repeats as the user had set it,
\* unless the last one that switched repeat off was ended by SIGKILL or by a
\* signal it did not catch yet (the pipe's end, a caught signal and a failed
\* start restore).
Restored ==
    (\A h \in Helpers : Over(h)) /\ crowd = {} =>
        control = user /\ (dirty = "no" => feedback = user)

\* Stopped is restored (README.md), one helper beside another or not. Does
\* not hold: one that outlasts its 5s is followed by one that reads "off".
RepeatRestored ==
    (\A h \in Helpers : Over(h)) /\ dirty = "no" => feedback = user

\* SIGTERM and SIGINT restore explicitly (network-key-repeat.md). Does not
\* hold: repeat is off before the signals are caught.
SignalRestores ==
    (\A h \in Helpers : Over(h)) /\ crowd = {} /\ dirty # "kill" =>
        feedback = user

\* The desktop is shared only with every keyboard's repeat off, as long as
\* nobody has ended the helper and it was started beside no other.
Suppressed ==
    pc = "sharing" /\ cur \notin crowd /\ helper[cur] \notin {"restoring", "gone"} =>
        \A k \in Keyboards : control[k] = "off" /\ feedback[k] = "off"

\* A helper whose pipe is closed ends.
PipeEndsHelper ==
    \A h \in Helpers :
        (helper[h] # "none" /\ pipe[h] = "closed") ~> helper[h] = "gone"

=============================================================================
