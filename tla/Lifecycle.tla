------------------------------ MODULE Lifecycle ------------------------------
(***************************************************************************)
(* How the service starts, shuts down, restarts and fails: the main task   *)
(* (src/src/main.rs, Daemon::run in src/src/daemon.rs) with its poll loop, *)
(* the API server task and its requests, the DHCP listener task, the       *)
(* configuration file and the exit that the API schedules                  *)
(* (src/src/routes/api/system.rs), under systemd with the unit of          *)
(* src/packaging/feathertail.service.                                      *)
(***************************************************************************)
EXTENDS Integers

CONSTANT MaxRequests    \* bound: requests in flight at once

ASSUME RequestsAssumption == MaxRequests \in Nat \ {0}

VARIABLES
  unit,       \* the systemd unit
  main,       \* where the main task is; "off": there is no process
  api,        \* the API server task
  requests,   \* the API requests in flight
  dhcp,       \* the DHCP listener task
  shutdown,   \* the watch channel
  signal,     \* a SIGTERM has reached the receiver main is polling
  missed,     \* history: the select! dropped a SIGTERM it had not taken
  wanted,     \* history: the administrator's last word was start, not stop
  timer,      \* schedule_restart's task sleeps
  file        \* the configuration file: one main accepts, or not

vars == <<unit, main, api, requests, dhcp, shutdown, signal, missed, wanted, timer, file>>

-----------------------------------------------------------------------------
(* The end of a process, and what systemd makes of it (Restart=on-failure). *)

Gone ==
  /\ main' = "off"
  /\ api' = "down"
  /\ requests' = 0
  /\ dhcp' = "down"
  /\ shutdown' = FALSE
  /\ signal' = FALSE
  /\ timer' = FALSE

AfterExit(code) ==
  CASE unit = "stopping" -> IF code = 0 THEN "inactive" ELSE "failed"
    [] unit # "stopping" -> IF code = 0 THEN "inactive" ELSE "restarting"

Exit(code) ==
  /\ Gone
  /\ unit' = AfterExit(code)
  /\ UNCHANGED <<missed, wanted, file>>

-----------------------------------------------------------------------------
(* systemd and the administrator. *)

Launch ==
  /\ unit' = "active"
  /\ main' = "starting"
  /\ missed' = FALSE
  /\ wanted' = TRUE
  /\ UNCHANGED <<api, requests, dhcp, shutdown, signal, timer, file>>

Start == unit \in {"inactive", "failed"} /\ Launch

AutoRestart == unit = "restarting" /\ Launch

Receiving == main \in {"waiting", "polling"}

\* SIGTERM, to the receiver that the select! polls.
Stop ==
  /\ unit = "active"
  /\ Receiving
  /\ unit' = "stopping"
  /\ signal' = TRUE
  /\ wanted' = FALSE
  /\ UNCHANGED <<main, api, requests, dhcp, shutdown, missed, timer, file>>

\* A SIGTERM before the first receiver exists ends the process by its default action,
\* a clean end for systemd; between two processes there is nothing to end.
StopEarly ==
  /\ (unit = "active" /\ main = "starting") \/ unit = "restarting"
  /\ Gone
  /\ unit' = "inactive"
  /\ wanted' = FALSE
  /\ UNCHANGED <<missed, file>>

\* SIGKILL after TimeoutStopSec.
Kill == unit = "stopping" /\ Exit(9)

\* The process dies of something else.
Crash == main # "off" /\ Exit(6)

-----------------------------------------------------------------------------
(* The main task. *)

\* Mutant: a start that fails returns from main.
ReturnCode == 0

StartError == 1

\* load_or_bootstrap, validate_config, Daemon::new and the bind of the API.
StartFails == main = "starting" /\ Exit(StartError)

StartUp ==
  /\ main = "starting"
  /\ file = "good"
  /\ main' = "waiting"
  /\ api' = "serving"
  \* The listener task ends at once if DHCP is disabled or its bind fails.
  /\ dhcp' \in {"listening", "ended", "failed"}
  /\ UNCHANGED <<unit, requests, shutdown, signal, missed, wanted, timer, file>>

\* The select! drops its receiver, and a signal that is not yet taken with it.
Elsewhere(pc) ==
  /\ main' = pc
  /\ signal' = FALSE
  /\ missed' = (missed \/ signal)
  /\ UNCHANGED <<unit, api, requests, dhcp, shutdown, wanted, timer, file>>

Tick == main = "waiting" /\ Elsewhere("polling")

PollDone == main = "polling" /\ Elsewhere("waiting")

TakeSignal ==
  /\ Receiving
  /\ signal
  /\ main' = "joining api"
  /\ shutdown' = TRUE
  /\ signal' = FALSE
  /\ UNCHANGED <<unit, api, requests, dhcp, missed, wanted, timer, file>>

\* An API task that has failed is returned as an error; the listener is not joined.
JoinApi ==
  /\ main = "joining api"
  /\ \/ /\ api = "closed"
        /\ main' = "joining dhcp"
        /\ UNCHANGED <<unit, api, requests, dhcp, shutdown, signal, missed, wanted, timer, file>>
     \/ api = "failed" /\ Exit(1)

DhcpJoined == dhcp \in {"ended", "failed"}

JoinDhcp ==
  /\ main = "joining dhcp"
  /\ DhcpJoined
  /\ Exit(IF dhcp = "failed" THEN 1 ELSE 0)

-----------------------------------------------------------------------------
(* The API server and the listener. *)

Others == <<unit, main, shutdown, signal, missed, wanted>>

Request ==
  /\ api = "serving"
  /\ requests < MaxRequests
  /\ requests' = requests + 1
  /\ UNCHANGED <<Others, api, dhcp, timer, file>>

\* POST /system/restart, or an update that restarts, is answered.
RestartScheduled ==
  /\ requests > 0
  /\ requests' = requests - 1
  /\ timer' = TRUE
  /\ UNCHANGED <<Others, api, dhcp, file>>

\* PUT /system/config writes what it is given, with or without a restart.
UpdateConfig ==
  /\ requests > 0
  /\ requests' = requests - 1
  /\ file' \in {"good", "bad"}
  /\ timer' \in {timer, TRUE}
  /\ UNCHANGED <<Others, api, dhcp>>

\* Mutant: a request is counted off when it is answered and when it is closed.
RequestDoneTwice ==
  /\ requests > 0
  /\ requests' = requests - 2
  /\ UNCHANGED <<Others, api, dhcp, timer, file>>

\* Any other request; one that waits for pvesh may take any time.
RequestDone ==
  /\ requests > 0
  /\ requests' = requests - 1
  /\ UNCHANGED <<Others, api, dhcp, timer, file>>

\* The server returns an error or its task panics; main hears of it when it joins.
ApiFails ==
  /\ api \in {"serving", "draining"}
  /\ api' = "failed"
  /\ UNCHANGED <<Others, requests, dhcp, timer, file>>

ApiShutdown ==
  /\ api = "serving"
  /\ shutdown
  /\ api' = "draining"
  /\ UNCHANGED <<Others, requests, dhcp, timer, file>>

\* Mutant: the server does not wait for its requests.
DrainedAtOnce == TRUE

Drained == requests = 0

ApiDrained ==
  /\ api = "draining"
  /\ Drained
  /\ api' = "closed"
  /\ UNCHANGED <<Others, requests, dhcp, timer, file>>

\* Mutant: the listener does not hear of the shutdown.
NeverTold == FALSE

ListenerTold == shutdown

DhcpShutdown ==
  /\ dhcp = "listening"
  /\ ListenerTold
  /\ dhcp' = "ended"
  /\ UNCHANGED <<Others, api, requests, timer, file>>

TimerFires == timer /\ Exit(0)

-----------------------------------------------------------------------------

Init ==
  /\ unit = "inactive"
  /\ main = "off"
  /\ api = "down"
  /\ requests = 0
  /\ dhcp = "down"
  /\ shutdown = FALSE
  /\ signal = FALSE
  /\ missed = FALSE
  /\ wanted = FALSE
  /\ timer = FALSE
  /\ file \in {"good", "bad"}

Process ==
  \/ TakeSignal \/ JoinApi \/ JoinDhcp
  \/ ApiShutdown \/ ApiDrained \/ DhcpShutdown

Next ==
  \/ Start \/ AutoRestart \/ Stop \/ StopEarly \/ Kill \/ Crash
  \/ StartFails \/ StartUp \/ Tick \/ PollDone
  \/ Request \/ RestartScheduled \/ UpdateConfig \/ RequestDone \/ TimerFires \/ ApiFails
  \/ Process

\* The runtime polls every task that is ready, the sleep of 250 ms ends, and systemd
\* restarts after RestartSec.  What makes a start fail (an address in use, a host
\* without Proxmox, a crash) does not last for ever: SF for StartUp.  Nobody need
\* start or kill a unit, and a poll of Proxmox need not return.
Fairness ==
  /\ WF_vars(TakeSignal) /\ WF_vars(JoinApi) /\ WF_vars(JoinDhcp)
  /\ WF_vars(ApiShutdown) /\ WF_vars(ApiDrained) /\ WF_vars(DhcpShutdown)
  /\ WF_vars(Tick) /\ WF_vars(TimerFires) /\ WF_vars(AutoRestart) /\ SF_vars(StartUp)

Spec == Init /\ [][Next]_vars /\ Fairness

\* Proxmox answers, so every request ends.
SpecAnswering == Spec /\ WF_vars(RequestDone)

-----------------------------------------------------------------------------
(* Correctness. *)

TypeOK ==
  /\ unit \in {"active", "stopping", "restarting", "inactive", "failed"}
  /\ main \in {"off", "starting", "waiting", "polling", "joining api", "joining dhcp"}
  /\ api \in {"down", "serving", "draining", "closed", "failed"}
  /\ requests \in 0 .. MaxRequests
  /\ dhcp \in {"down", "listening", "ended", "failed"}
  /\ {shutdown, signal, missed, wanted, timer} \subseteq BOOLEAN
  /\ file \in {"good", "bad"}

\* When main returns from run after both joins, no request is in flight and the listener
\* has left its socket: the joins come after the shutdown they wait for.
CleanReturn == [][JoinDhcp => requests = 0 /\ dhcp # "listening"]_vars

\* At every moment of a stop whose SIGTERM was not dropped, the task that the others wait
\* for can go on, or there are requests to answer: nobody waits for a task that was not
\* told, or is not there.
StopNeverStuck ==
  unit = "stopping" /\ ~missed =>
    \/ Receiving /\ signal
    \/ /\ main = "joining api"
       /\ \/ api = "serving" /\ shutdown
          \/ api = "draining" /\ (Drained \/ requests > 0)
          \/ api \in {"closed", "failed"}
    \/ main = "joining dhcp" /\ (DhcpJoined \/ (dhcp = "listening" /\ ListenerTold))

\* A stop whose SIGTERM the select! did not drop brings the process to its end
\* without a kill: no task waits for another that is not told to end.
StopEnds == unit = "stopping" ~> main = "off" \/ missed

\* A process that failed is started again until it serves, if main accepts its
\* configuration file and the administrator does not stop it.
FailureRecovers ==
  wanted /\ (main = "starting" \/ unit = "restarting") ~>
    api = "serving" \/ file = "bad" \/ ~wanted

\* "restart scheduled": after the answer of POST /system/restart a process starts
\* again, unless the administrator stops the unit or the process fails first.
RestartComes == timer ~> main = "starting" \/ unit = "restarting" \/ ~wanted
=============================================================================
