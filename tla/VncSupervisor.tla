--------------------------- MODULE VncSupervisor ---------------------------
(***************************************************************************)
(* vnc_supervisor_loop of urc-agent (supervisor.rs) with the X11 backend   *)
(* it drives (backend/x11.rs): one VNC server, as the desktop user whose   *)
(* session was detected, on port 5900.                                     *)
(*   - the loop: detect, build, start, poll health, stop, back off;        *)
(*   - the VNC server processes, which the agent starts through runuser    *)
(*     and which live on their own;                                        *)
(*   - the desktop: who is at the seat, whose X display takes clients.     *)
(* The keyboard repeat helper of the backend is module RepeatGuard; here   *)
(* it can fail to start, or exit.                                          *)
(***************************************************************************)
EXTENDS Naturals, Sequences

CONSTANTS
    Users,      \* desktop users of the machine
    NoUser,
    Kinds,      \* the kinds of VNC server there may be on the machine
    MaxFaults   \* bound: faults of a behaviour

\* "detached": the server leaves the process that the agent spawned (it logs
\* to ~/.vnc), so that killing that process does not reach it and its stderr
\* closes at once. "slow": it may need more than the 10s of start().
\* "missed": the command line of the server is not that of x0tigervncserver
\* (it is an x0vncserver, or the X0tigervnc that a wrapper has started), so
\* that the reaping shell is gone before anything would match it.
AllKinds == [child: {"attached", "detached"}, start: {"prompt", "slow"},
             reap: {"reached", "missed"}]

ASSUME NoUserAssumption == NoUser \notin Users
ASSUME KindsAssumption == Kinds \subseteq AllKinds
ASSUME MaxFaultsAssumption == MaxFaults \in Nat

VARIABLES
    pc,        \* where the loop is
    shutdown,  \* the shutdown watch: "no", "yes"
    initial,   \* the session wait_for_session returned
    target,    \* the session of this attempt's backend
    attempt,   \* failures counted for the backoff, up to MaxAttempt
    why,       \* the error of a failed start: "saturated", "other"
    pause,     \* seconds of the pause that follows
    health,    \* vnc_health: "up", "down"
    seat,      \* the user of the active graphical session
    disp,      \* per user, the X display: "open", "saturated", "closed"
    srv,       \* per user, the live VNC servers
    holder,    \* the user whose server listens on 5900
    faults,    \* faults so far
    server,    \* the machine's kind of VNC server, which never changes
    plain      \* history: failures since the last success or saturation

vars == <<pc, shutdown, initial, target, attempt, why, pause, health, seat,
          disp, srv, holder, faults, server, plain>>

desktop == <<seat, disp>>
procs == <<srv, holder>>
loop == <<initial, target, attempt, why, pause, health, plain>>

Detached == server.child = "detached"

SlowStart == server.start = "slow"

Reapable == server.reap = "reached"

MaxAttempt == 6

SaturationCooldown == 60

Capped(n) == IF n > MaxAttempt THEN MaxAttempt ELSE n

Shifted == <<1, 2, 4, 8, 16, 32>>  \* 1 << 0 .. 1 << 5

\* The pause after the n-th failure. The cap of 300 is never met.
Backoff(n) ==
    LET p == 5 * Shifted[IF n = 0 THEN 1 ELSE Capped(n)]
    IN  IF p > 300 THEN 300 ELSE p

Init ==
    /\ pc = "waiting"
    /\ shutdown = "no"
    /\ initial = NoUser
    /\ target = NoUser
    /\ attempt = 0
    /\ why = "other"
    /\ pause = 0
    /\ health = "down"
    /\ seat = NoUser
    /\ disp = [u \in Users |-> "closed"]
    /\ srv = [u \in Users |-> 0]
    /\ holder = NoUser
    /\ faults = 0
    /\ server \in Kinds
    /\ plain = 0

Fault == faults < MaxFaults /\ faults' = faults + 1

\* Every VNC server of user u is gone, and its listener with it.
Kill(u) ==
    /\ srv' = [srv EXCEPT ![u] = 0]
    /\ holder' = IF holder = u THEN NoUser ELSE holder

-----------------------------------------------------------------------------
(* Before and between attempts.                                            *)

\* wait_for_session: nothing is served before a session is there.
SessionReady ==
    /\ pc = "waiting" /\ shutdown = "no" /\ seat # NoUser
    /\ pc' = "loop"
    /\ initial' = seat
    /\ UNCHANGED <<shutdown, target, attempt, why, pause, health, desktop,
                   procs, faults, plain>>

Detect ==
    /\ pc = "loop" /\ shutdown = "no"
    /\ pc' = "build"
    /\ attempt' = Capped(attempt + 1)
    /\ target' = IF seat # NoUser THEN seat ELSE initial
    /\ UNCHANGED <<shutdown, initial, why, pause, health, desktop, procs,
                   faults, plain>>

\* BackendManager::new fails: the backend's program is not installed.
CannotBuild ==
    /\ pc = "build" /\ Fault
    /\ pc' = "pause"
    /\ pause' = Backoff(attempt)
    /\ plain' = Capped(plain + 1)
    /\ UNCHANGED <<shutdown, initial, target, attempt, why, health, desktop,
                   procs>>

Wake ==
    /\ pc = "pause" /\ shutdown = "no"
    /\ pc' = "loop"
    /\ UNCHANGED <<shutdown, loop, desktop, procs, faults>>

-----------------------------------------------------------------------------
(* X11Backend::start.                                                      *)

StartFails(reason) ==
    /\ pc' = "failed"
    /\ why' = reason
    /\ UNCHANGED <<shutdown, initial, target, attempt, pause, health, desktop,
                   procs, plain>>

NoServerBinary == pc = "build" /\ Fault /\ StartFails("other")

\* Mutant of Reap: the servers of earlier attempts stay.
ReapNothing ==
    /\ pc = "build"
    /\ pc' = "preflight"
    /\ UNCHANGED <<shutdown, loop, desktop, procs, faults>>

\* stop_stale_vnc runs a shell as the target user, so it reaches only that
\* user's servers. The shell's own command line matches the first pattern:
\* its first pkill ends it too, and the second one is never run.
Reap ==
    /\ pc = "build"
    /\ pc' = "preflight"
    /\ IF Reapable THEN Kill(target) ELSE UNCHANGED procs
    /\ UNCHANGED <<shutdown, loop, desktop, faults>>

DisplayAccessible ==
    /\ pc = "preflight" /\ disp[target] = "open"
    /\ pc' = "spawn"
    /\ UNCHANGED <<shutdown, loop, desktop, procs, faults>>

DisplayRefuses ==
    /\ pc = "preflight" /\ disp[target] # "open"
    /\ StartFails(IF disp[target] = "saturated" THEN "saturated" ELSE "other")
    /\ UNCHANGED faults

\* The keyboard repeat helper does not report ready within its 5s.
GuardFails == pc = "spawn" /\ Fault /\ StartFails("other")

\* A server that cannot open the display does not live.
Spawn ==
    /\ pc = "spawn"
    /\ pc' = "poll"
    /\ srv' = [srv EXCEPT ![target] =
                   IF disp[target] = "open" THEN @ + 1 ELSE @]
    /\ UNCHANGED <<shutdown, loop, desktop, holder, faults>>

\* start() is satisfied by whoever listens on 5900.
PollOk ==
    /\ pc = "poll" /\ holder # NoUser
    /\ pc' = "serving"
    /\ attempt' = 0
    /\ plain' = 0
    /\ health' = "up"
    /\ UNCHANGED <<shutdown, initial, target, why, pause, desktop, procs,
                   faults>>

\* Forty polls have passed. The child's exit does not end them early.
PollTimeout ==
    /\ pc = "poll" /\ holder = NoUser
    /\ pc' = "diagnose"
    /\ \/ srv[target] = 0 /\ UNCHANGED faults
       \/ srv[target] > 0 /\ SlowStart /\ Fault
    /\ UNCHANGED <<shutdown, loop, desktop, procs>>

\* vnc_failure_reason reads the child's stderr to its end BEFORE it kills
\* the child: an attached server must die first. What it has read, or the
\* last line of a log that may be an older server's, is in the error and can
\* say that the display has too many clients.
Diagnose ==
    /\ pc = "diagnose"
    /\ Detached \/ srv[target] = 0
    /\ \E reason \in {"saturated", "other"} : StartFails(reason)
    /\ UNCHANGED faults

-----------------------------------------------------------------------------
(* The rest of the loop.                                                   *)

\* Mutant of StopFailed: the cooldown leaves the attempt counter alone.
StopFailedKeepsCount ==
    /\ pc = "failed"
    /\ pc' = "pause"
    /\ health' = "down"
    /\ pause' = IF why = "saturated" THEN SaturationCooldown ELSE Backoff(attempt)
    /\ plain' = IF why = "saturated" THEN 0 ELSE Capped(plain + 1)
    /\ UNCHANGED <<shutdown, initial, target, attempt, why, desktop, procs,
                   faults>>

\* backend.stop() finds no child to kill: start() has taken it, or never
\* had one.
StopFailed ==
    /\ pc = "failed"
    /\ pc' = "pause"
    /\ health' = "down"
    /\ IF why = "saturated"
       THEN pause' = SaturationCooldown /\ attempt' = 1 /\ plain' = 0
       ELSE /\ pause' = Backoff(attempt)
            /\ plain' = Capped(plain + 1)
            /\ UNCHANGED attempt
    /\ UNCHANGED <<shutdown, initial, target, why, desktop, procs, faults>>

\* Mutant of HealthTick: the flag is only set when a start fails.
HealthTickSilent ==
    /\ pc = "serving"
    /\ holder = NoUser /\ UNCHANGED faults
    /\ pc' = "stopping"
    /\ UNCHANGED <<shutdown, loop, desktop, procs>>

\* A tick that finds the port closed or the repeat helper gone; one that
\* finds nothing changes nothing.
HealthTick ==
    /\ pc = "serving"
    /\ \/ holder = NoUser /\ UNCHANGED faults
       \/ holder # NoUser /\ Fault
    /\ pc' = "stopping"
    /\ health' = "down"
    /\ UNCHANGED <<shutdown, initial, target, attempt, why, pause, desktop,
                   procs, plain>>

\* Mutant of KillChild: the backend is dropped without a stop.
KillNothing == UNCHANGED procs

\* X11Backend::stop kills the process it spawned.
KillChild == IF Detached THEN UNCHANGED procs ELSE Kill(target)


Stop ==
    /\ pc = "stopping"
    /\ pc' = "loop"
    /\ KillChild
    /\ UNCHANGED <<shutdown, loop, desktop, faults>>

-----------------------------------------------------------------------------
(* Shutdown (ctrl-c), and the end of the agent by a signal or a panic.     *)

RequestShutdown ==
    /\ shutdown = "no"
    /\ shutdown' = "yes"
    /\ UNCHANGED <<pc, loop, desktop, procs, faults>>

\* Where the loop looks at the watch itself.
SeeShutdown ==
    /\ shutdown = "yes" /\ pc \in {"waiting", "loop", "pause", "serving"}
    /\ pc' = "done"
    /\ IF pc = "serving" THEN KillChild ELSE UNCHANGED procs
    /\ UNCHANGED <<shutdown, loop, desktop, faults>>

\* run_supervisor aborts the task at whatever await it is in.
Abort ==
    /\ shutdown = "yes" /\ pc \notin {"waiting", "done"}
    /\ pc' = "done"
    /\ UNCHANGED <<shutdown, loop, desktop, procs, faults>>

\* systemd kills what is left in the unit's control group and starts the
\* agent again.
AgentDies ==
    /\ pc # "done" /\ Fault
    /\ pc' = "waiting"
    /\ initial' = NoUser /\ target' = NoUser
    /\ attempt' = 0 /\ why' = "other" /\ pause' = 0 /\ health' = "down"
    /\ plain' = 0
    /\ srv' = [u \in Users |-> 0]
    /\ holder' = NoUser
    /\ shutdown' = "no"
    /\ UNCHANGED desktop

-----------------------------------------------------------------------------
(* The VNC servers.                                                        *)

ServerBinds(u) ==
    /\ srv[u] > 0 /\ holder = NoUser
    /\ holder' = u
    /\ UNCHANGED <<pc, shutdown, loop, desktop, srv, faults>>

\* A server that finds the port taken exits.
ServerYields(u) ==
    /\ holder # NoUser
    /\ srv[u] > (IF holder = u THEN 1 ELSE 0)
    /\ srv' = [srv EXCEPT ![u] = @ - 1]
    /\ UNCHANGED <<pc, shutdown, loop, desktop, holder, faults>>

ServerDies(u) ==
    /\ srv[u] > 0 /\ Fault
    /\ Kill(u)
    /\ UNCHANGED <<pc, shutdown, loop, desktop>>

-----------------------------------------------------------------------------
(* The desktop.                                                            *)

Login(u) ==
    /\ seat = NoUser
    /\ seat' = u
    /\ disp' = [disp EXCEPT ![u] = IF @ = "closed" THEN "open" ELSE @]
    /\ UNCHANGED <<pc, shutdown, loop, procs, faults>>

\* The display's end takes its clients along.
Logout ==
    /\ seat # NoUser /\ Fault
    /\ seat' = NoUser
    /\ disp' = [disp EXCEPT ![seat] = "closed"]
    /\ Kill(seat)
    /\ UNCHANGED <<pc, shutdown, loop>>

\* The other user's session stays, with its servers.
SwitchUser(u) ==
    /\ seat # NoUser /\ seat # u /\ Fault
    /\ seat' = u
    /\ disp' = [disp EXCEPT ![u] = IF @ = "closed" THEN "open" ELSE @]
    /\ UNCHANGED <<pc, shutdown, loop, procs>>

Saturate(u) ==
    /\ disp[u] = "open" /\ Fault
    /\ disp' = [disp EXCEPT ![u] = "saturated"]
    /\ UNCHANGED <<pc, shutdown, loop, seat, procs>>

Drain(u) ==
    /\ disp[u] = "saturated"
    /\ disp' = [disp EXCEPT ![u] = "open"]
    /\ UNCHANGED <<pc, shutdown, loop, seat, procs, faults>>

-----------------------------------------------------------------------------

Start ==
    \/ NoServerBinary \/ Reap \/ DisplayAccessible \/ DisplayRefuses
    \/ GuardFails \/ Spawn \/ PollOk \/ PollTimeout \/ Diagnose

Loop ==
    \/ SessionReady \/ Detect \/ CannotBuild \/ Wake \/ Start
    \/ StopFailed \/ HealthTick \/ Stop \/ SeeShutdown

Servers == \E u \in Users : ServerBinds(u) \/ ServerYields(u) \/ ServerDies(u)

Desktop ==
    \/ Logout
    \/ \E u \in Users : Login(u) \/ SwitchUser(u) \/ Saturate(u) \/ Drain(u)

Next ==
    /\ Loop \/ RequestShutdown \/ Abort \/ AgentDies \/ Servers \/ Desktop
    /\ UNCHANGED server

Spec == Init /\ [][Next]_vars

\* The runtime runs the loop whenever a sleep or a child ends; a server
\* that is not slow listens or exits; someone logs in again, and a display
\* that is left alone drains.
Fairness ==
    /\ WF_vars(Loop /\ UNCHANGED server)
    /\ \A u \in Users :
        /\ WF_vars(ServerBinds(u) /\ UNCHANGED server)
        /\ WF_vars(ServerYields(u) /\ UNCHANGED server)
        /\ WF_vars(Drain(u) /\ UNCHANGED server)
    /\ WF_vars((\E u \in Users : Login(u)) /\ UNCHANGED server)

FairSpec == Spec /\ Fairness

-----------------------------------------------------------------------------
(* Properties.                                                             *)

\* Types.
TypeOK ==
    /\ pc \in {"waiting", "loop", "build", "preflight", "spawn", "poll",
               "diagnose", "failed", "pause", "serving", "stopping", "done"}
    /\ shutdown \in {"no", "yes"}
    /\ initial \in Users \cup {NoUser}
    /\ target \in Users \cup {NoUser}
    /\ pc \notin {"waiting", "done"} => initial \in Users
    /\ pc \notin {"waiting", "loop", "done"} => target \in Users
    /\ attempt \in 0 .. MaxAttempt
    /\ why \in {"saturated", "other"}
    /\ pause \in Nat
    /\ health \in {"up", "down"}
    /\ seat \in Users \cup {NoUser}
    /\ disp \in [Users -> {"open", "saturated", "closed"}]
    /\ srv \in [Users -> Nat]
    /\ holder \in Users \cup {NoUser}
    /\ faults \in Nat
    /\ server \in Kinds
    /\ plain \in 0 .. MaxAttempt

\* However starts and stops go wrong, a user never has two VNC servers, so
\* that attempts do not fill the display up with clients: either a stop
\* reaches the server, or start() reaps it before it spawns the next. (Of a
\* server that neither reaches, attempts leave one after the other.)
NoServerPile == ~Detached \/ Reapable => \A u \in Users : srv[u] <= 1

\* The promise made for every server (that start() reaps what is left of
\* earlier attempts).
NeverTwoServers == \A u \in Users : srv[u] <= 1

\* The status loop may say that VNC is up only while the loop is polling
\* it; in every pause, restart and failed start it says down.
HealthFlagHonest == health = "up" => pc \in {"serving", "done"}

\* A pause is the fixed cooldown or grows from the short one, at most one
\* step ahead of the failures since the last success or saturation: what
\* was counted before is forgotten.
BackoffFromShort ==
    pc = "pause" =>
        IF plain = 0 THEN pause = SaturationCooldown
                     ELSE pause <= Backoff(plain + 1)


\* If a stop reaches the server, what the loop serves is the session it
\* detected for this attempt.
ServesTarget == pc = "serving" /\ ~Detached => holder \in {NoUser, target}

\* A server that is gone does not stay reported up (unless a stop leaves a
\* server of an earlier attempt, which then takes the port over).
DropNoticed ==
    (health = "up" /\ holder = NoUser /\ ~Detached)
        ~> (health = "down" \/ shutdown = "yes")

=============================================================================
