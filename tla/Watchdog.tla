------------------------------ MODULE Watchdog ------------------------------
(***************************************************************************)
(* The three layers that keep urc-agent serving, with their timers:        *)
(*   - systemd: urc-agent.service with wait-for-session.sh before it;      *)
(*   - the agent: wait_for_session, the serving stack and status_loop      *)
(*     (supervisor.rs), which leaves /run/urc/status.json behind;          *)
(*   - the watchdog: urc-health-check.sh on its timer, and the agent's     *)
(*     `health` command (health.rs).                                       *)
(* Time is discrete.  One unit is STATUS_TICK_SECS = SESSION_POLL_SECS =   *)
(* 30s; all that takes seconds (a restart, a dial, a run of the script)    *)
(* takes no time but may interleave, and is over before the next Tick.     *)
(***************************************************************************)
EXTENDS Naturals

CONSTANTS
    MaxAge,            \* MAX_STATUS_AGE_SECS, in units
    Period,            \* OnUnitActiveSec of the timer, in units
    StartTimeout,      \* TimeoutStartSec, which TIMEOUT of the script equals
    NeedsCoordinator,  \* TRUE: the agent has a coordinator_url
    MaxFaults          \* bound: faults of a behaviour

ASSUME MaxAgeAssumption == MaxAge \in Nat \ {0}
ASSUME PeriodAssumption == Period \in Nat \ {0}
ASSUME StartTimeoutAssumption == StartTimeout \in Nat \ {0}
ASSUME NeedsCoordinatorAssumption == NeedsCoordinator \in BOOLEAN
ASSUME MaxFaultsAssumption == MaxFaults \in Nat

VARIABLES
    unit,     \* urc-agent.service: "startpre", "running"
    waited,   \* time spent in ExecStartPre
    agent,    \* the process: "none", "starting", "waiting", "serving", "hung"
    due,      \* status writes that come before the next Tick
    tls,      \* the web TLS port: "off" (no serving stack), "down", "up"
    link,     \* the agent's coordinator websocket: "down", "up"
    status,   \* /run/urc/status.json; "torn" while it is being rewritten
    age,      \* time since updated_at_unix
    watch,    \* the script: "idle", "probed", "health", "probe", or waiting
              \* for systemctl in "start", "restart"
    left,     \* time until the timer elapses
    seenTls,  \* what the script's probe of the web TLS port found
    desk,     \* the graphical session: "none", "foreign" (the script finds
              \* it, the agent's detector cannot use it), "match"
    port,     \* the web TLS port to others: "free", "taken"
    vps,      \* the coordinator: "down", "up"
    faults,   \* faults so far
    hungFor,  \* history: how long the agent has hung
    steady    \* history: Ticks since the agent was not all well, up to 2

vars == <<unit, waited, agent, due, tls, link, status, age, watch, left,
          seenTls, desk, port, vps, faults, hungFor, steady>>

service == <<unit, waited>>
process == <<agent, due, tls, link>>
file == <<status, age>>
script == <<watch, left, seenTls>>
world == <<desk, port, vps>>
history == <<hungFor, steady>>

Lesser(m, n) == IF m < n THEN m ELSE n

HungBound == MaxAge + Period

Init ==
    /\ unit = "startpre" /\ waited = 0
    /\ agent = "none" /\ due = 0 /\ tls = "off" /\ link = "down"
    /\ status = "none" /\ age = 0
    /\ watch = "idle" /\ left = Period /\ seenTls = "off"
    /\ desk = "none" /\ port = "free" /\ vps = "up"
    /\ faults = 0 /\ hungFor = 0 /\ steady = 0

Fault == faults < MaxFaults /\ faults' = faults + 1

-----------------------------------------------------------------------------
(* systemd.                                                                *)

\* The whole control group ends, the runtime directory is removed, and the
\* service is back before its ExecStart.  RestartSec is less than a unit.
StopAgent ==
    /\ unit' = "startpre" /\ waited' = 0
    /\ agent' = "none" /\ due' = 0 /\ tls' = "off" /\ link' = "down"
    /\ status' = "none" /\ age' = 0
    /\ hungFor' = 0 /\ steady' = 0

\* wait-for-session.sh sees a graphical session: the process is forked, and
\* a systemctl that waited for the service returns.
SessionFound ==
    /\ unit = "startpre" /\ desk # "none"
    /\ unit' = "running"
    /\ agent' = "starting"
    /\ watch' = IF watch \in {"start", "restart"} THEN "idle" ELSE watch
    /\ UNCHANGED <<waited, due, tls, link, file, left, seenTls, world, faults,
                   history>>

\* The script sleeps as long as the service may take to start: systemd is
\* first and starts over.  `systemctl start || restart_agent` then restarts.
StartTimesOut ==
    /\ unit = "startpre" /\ waited = StartTimeout
    /\ waited' = 0
    /\ watch' = CASE watch = "start" -> "restart"
                  [] watch = "restart" -> "idle"
                  [] OTHER -> watch
    /\ UNCHANGED <<unit, process, file, left, seenTls, world, faults, history>>

\* A crash, a failed serving stack, or a try-restart at a login.
AgentDies ==
    /\ unit = "running" /\ Fault
    /\ StopAgent
    /\ UNCHANGED <<script, world>>

-----------------------------------------------------------------------------
(* The agent.                                                              *)

\* A detection is due at the start and at every poll.
DetectOk ==
    /\ agent = "starting" \/ (agent = "waiting" /\ due > 0)
    /\ desk = "match"
    /\ agent' = "serving"
    /\ due' = 2  \* the first tick of the interval comes at once
    /\ tls' = "down"
    /\ UNCHANGED <<service, link, file, script, world, faults, history>>

\* write_waiting_status: a torn file is as bad as this one to its readers.
DetectFails ==
    /\ agent = "starting" \/ (agent = "waiting" /\ due > 0)
    /\ desk # "match"
    /\ agent' = "waiting"
    /\ due' = 0
    /\ status' = "waiting" /\ age' = 0
    /\ UNCHANGED <<service, tls, link, script, world, faults, history>>

TlsBinds ==
    /\ agent = "serving" /\ tls = "down" /\ port = "free"
    /\ tls' = "up"
    /\ UNCHANGED <<service, agent, due, link, file, script, world, faults,
                   history>>

LinkUp ==
    /\ NeedsCoordinator
    /\ agent = "serving" /\ link = "down" /\ vps = "up"
    /\ link' = "up"
    /\ UNCHANGED <<service, agent, due, tls, file, script, world, faults,
                   history>>

Torn == {"tornGood", "tornBad"}

\* Mutant of WriteStatus: the file is rewritten only when it would differ.
WriteStatusIfNew ==
    /\ agent = "serving" /\ due > 0 /\ status \notin Torn
    /\ LET new == IF link = "up" \/ ~NeedsCoordinator THEN "good" ELSE "bad" IN
        IF status = new
        THEN due' = due - 1 /\ UNCHANGED status
        ELSE /\ status' = IF new = "good" THEN "tornGood" ELSE "tornBad"
             /\ UNCHANGED due
    /\ UNCHANGED <<service, agent, tls, link, age, script, world, faults,
                   history>>

\* status_loop: the flags are read, then fs::write truncates the file.
WriteStatus ==
    /\ agent = "serving" /\ due > 0 /\ status \notin Torn
    /\ status' = IF link = "up" \/ ~NeedsCoordinator
                 THEN "tornGood" ELSE "tornBad"
    /\ UNCHANGED <<service, process, age, script, world, faults, history>>

StatusWritten ==
    /\ agent = "serving" /\ status \in Torn
    /\ status' = IF status = "tornGood" THEN "good" ELSE "bad"
    /\ age' = 0
    /\ due' = due - 1
    /\ UNCHANGED <<service, agent, tls, link, script, world, faults, history>>

\* The process lives and does nothing: the kernel still takes connections.
Hang ==
    /\ agent \in {"starting", "waiting", "serving"} /\ Fault
    /\ agent' = "hung"
    /\ due' = 0
    /\ steady' = 0
    /\ UNCHANGED <<service, tls, link, file, script, world, hungFor>>

-----------------------------------------------------------------------------
(* urc-health-check.sh.                                                    *)

\* A run of the timer: an inactive service is started, an active one probed.
\* ss shows that someone listens on the port, not who.
Fire ==
    /\ watch = "idle" /\ left = 0
    /\ left' = Period
    /\ IF unit = "running"
       THEN watch' = "probed" /\ seenTls' = IF port = "taken" THEN "up" ELSE tls
       ELSE watch' = "start" /\ UNCHANGED seenTls
    /\ UNCHANGED <<service, process, file, world, faults, history>>

RestartAgent ==
    /\ watch' = "restart"
    /\ StopAgent
    /\ UNCHANGED <<left, seenTls, world, faults>>

\* grep in a file of any age, whole or not there.
SessionDetected == status \in {"good", "bad"}

Gate ==
    /\ watch = "probed"
    /\ IF SessionDetected /\ seenTls # "up"
       THEN RestartAgent
       ELSE /\ watch' = "health"
            /\ UNCHANGED <<service, process, file, left, seenTls, world,
                           faults, history>>

Fresh == status \in {"waiting", "good", "bad"} /\ age <= MaxAge

\* Mutant of Health: the file is believed at any age.
HealthOfAnyAge ==
    /\ watch = "health"
    /\ IF status \in {"waiting", "bad"}
       THEN RestartAgent
       ELSE /\ watch' = IF status = "good" THEN "idle" ELSE "probe"
            /\ UNCHANGED <<service, process, file, left, seenTls, world,
                           faults, history>>

\* run_health_check: a fresh file decides, any other leads to the probe.
Health ==
    /\ watch = "health"
    /\ IF Fresh /\ status # "good"
       THEN RestartAgent
       ELSE /\ watch' = IF Fresh THEN "idle" ELSE "probe"
            /\ UNCHANGED <<service, process, file, left, seenTls, world,
                           faults, history>>

\* Mutant of ProbedHealthy: the ports are all that is probed.
PortsOpen == tls # "off"

\* The internal port is open once the stack is; what the coordinator thinks
\* is again read from the file, if fresh.
ProbedHealthy == tls # "off" /\ (NeedsCoordinator => Fresh /\ status = "good")

\* probe_health runs commands and connects before it reads the file: a
\* write that was going on at the first read is over.
Probe ==
    /\ watch = "probe"
    /\ agent = "serving" => status \notin Torn
    /\ IF ProbedHealthy
       THEN /\ watch' = "idle"
            /\ UNCHANGED <<service, process, file, left, seenTls, world,
                           faults, history>>
       ELSE RestartAgent

-----------------------------------------------------------------------------
(* The world.                                                              *)

Login ==
    /\ desk = "none"
    /\ desk' \in {"foreign", "match"}
    /\ UNCHANGED <<service, process, file, script, port, vps, faults, history>>

\* The agent does not look at the session again once it serves.
Logout ==
    /\ desk # "none" /\ Fault
    /\ desk' = "none"
    /\ UNCHANGED <<service, process, file, script, port, vps, history>>

\* Another process gets the port when the tunnel's listener fails.
PortTaken ==
    /\ port = "free" /\ Fault
    /\ port' = "taken"
    /\ tls' = IF tls = "up" THEN "down" ELSE tls
    /\ steady' = 0
    /\ UNCHANGED <<service, agent, due, link, file, script, desk, vps, hungFor>>

PortReleased ==
    /\ port = "taken"
    /\ port' = "free"
    /\ UNCHANGED <<service, process, file, script, desk, vps, faults, history>>

LinkLost ==
    /\ link = "up" /\ Fault
    /\ link' = "down"
    /\ steady' = 0
    /\ UNCHANGED <<service, agent, due, tls, file, script, world, hungFor>>

VpsFails ==
    /\ vps = "up" /\ Fault
    /\ vps' = "down" /\ link' = "down"
    /\ steady' = 0
    /\ UNCHANGED <<service, agent, due, tls, file, script, desk, port, hungFor>>

VpsReturns ==
    /\ vps = "down"
    /\ vps' = "up"
    /\ UNCHANGED <<service, process, file, script, desk, port, faults, history>>

-----------------------------------------------------------------------------
(* Time.                                                                   *)

Urgent ==
    \/ unit = "startpre" /\ (desk # "none" \/ waited = StartTimeout)
    \/ agent = "starting" \/ (agent \in {"waiting", "serving"} /\ due > 0)
    \/ agent = "serving" /\ tls = "down" /\ port = "free"
    \/ agent = "serving" /\ NeedsCoordinator /\ link = "down" /\ vps = "up"
    \/ watch \in {"probed", "health", "probe"} \/ (watch = "idle" /\ left = 0)

AllWell ==
    agent = "serving" /\ tls = "up" /\ (NeedsCoordinator => link = "up")

Tick ==
    /\ ~Urgent
    /\ waited' = IF unit = "startpre" THEN waited + 1 ELSE waited
    /\ due' = IF agent \in {"waiting", "serving"} THEN 1 ELSE 0
    /\ age' = IF status = "none" THEN 0 ELSE Lesser(age + 1, MaxAge + 1)
    /\ left' = IF left = 0 THEN 0 ELSE left - 1
    /\ hungFor' = IF agent = "hung" THEN Lesser(hungFor + 1, HungBound + 1) ELSE 0
    /\ steady' = IF AllWell THEN Lesser(steady + 1, 2) ELSE 0
    /\ UNCHANGED <<unit, agent, tls, link, status, watch, seenTls, world, faults>>

-----------------------------------------------------------------------------
Systemd == SessionFound \/ StartTimesOut

Agent ==
    \/ DetectOk \/ DetectFails \/ TlsBinds \/ LinkUp
    \/ WriteStatus \/ StatusWritten

Script == Fire \/ Gate \/ Health \/ Probe

Faulty == AgentDies \/ Hang \/ Logout \/ PortTaken \/ LinkLost \/ VpsFails

World == Login \/ PortReleased \/ VpsReturns

Next == Systemd \/ Agent \/ Script \/ Faulty \/ World \/ Tick

Spec == Init /\ [][Next]_vars

\* Time passes; systemd, the agent and the script get to run; the port and
\* the coordinator come back, and someone logs in.
Fairness ==
    /\ WF_vars(Tick) /\ WF_vars(Systemd) /\ WF_vars(Script)
    /\ WF_vars(DetectOk \/ DetectFails) /\ WF_vars(WriteStatus \/ StatusWritten)
    /\ WF_vars(TlsBinds) /\ WF_vars(LinkUp)
    /\ WF_vars(Login) /\ WF_vars(PortReleased) /\ WF_vars(VpsReturns)

FairSpec == Spec /\ Fairness

-----------------------------------------------------------------------------
(* Properties.                                                             *)

\* Types, and: a service that runs has its process.
TypeOK ==
    /\ unit \in {"startpre", "running"}
    /\ waited \in 0 .. StartTimeout
    /\ agent \in {"none", "starting", "waiting", "serving", "hung"}
    /\ due \in 0 .. 2
    /\ tls \in {"off", "down", "up"}
    /\ link \in {"down", "up"}
    /\ status \in {"none", "waiting", "good", "bad", "tornGood", "tornBad"}
    /\ age \in 0 .. MaxAge + 1
    /\ watch \in {"idle", "probed", "health", "probe", "start", "restart"}
    /\ left \in 0 .. Period
    /\ seenTls \in {"off", "down", "up"}
    /\ desk \in {"none", "foreign", "match"}
    /\ port \in {"free", "taken"}
    /\ vps \in {"down", "up"}
    /\ faults \in Nat
    /\ hungFor \in 0 .. HungBound + 1
    /\ steady \in 0 .. 2
    /\ unit = "running" <=> agent # "none"

\* HungBounded: an agent that uses a coordinator and hangs, at whatever
\* point of its start, its polling or a write of the status file, is
\* restarted within the age a status file may have plus one period.
HungBounded == NeedsCoordinator => hungFor <= HungBound

\* SteadyLeftAlone: the watchdog never restarts an agent that has been all
\* well for a whole status tick, although the file it reads may be from
\* before, or half written.
SteadyLeftAlone ==
    [][watch # "restart" /\ watch' = "restart" => steady < 2]_vars

\* ServesAgain: after the last fault, if the session is one the agent can
\* use, the agent serves for good, whatever was hung, torn or taken before.
ServesAgain == <>[](desk = "match") => <>[]AllWell

\* WaitingLeftAlone: the watchdog does not restart an agent that waits for
\* a session (the script's comments).
WaitingLeftAlone ==
    [][watch # "restart" /\ watch' = "restart" => agent # "waiting"]_vars
=============================================================================
