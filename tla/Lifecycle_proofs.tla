-------------------------- MODULE Lifecycle_proofs --------------------------
(***************************************************************************)
(* Proofs about the life cycle: its types, and that main returns only      *)
(* after its tasks are done, for any number of requests in flight.         *)
(***************************************************************************)
EXTENDS Lifecycle, TLAPS

\* What the joins rely on.  A unit that is not active has no process, and the server is
\* down exactly while no process is up; a server that is down or closed has no requests,
\* and the listener is joined only when the server is closed.
JoinInv ==
  /\ TypeOK
  /\ unit \in {"inactive", "failed", "restarting"} => main = "off"
  /\ main \in {"off", "starting"} <=> api = "down"
  /\ main = "joining dhcp" => api = "closed"
  /\ api \in {"down", "closed"} => requests = 0

\* A process that ends, however it ends, leaves nothing behind.
LEMMA EndKeepsJoin ==
  ASSUME TypeOK, Gone, wanted' \in BOOLEAN, missed' = missed, file' = file,
         unit' \in {"inactive", "failed", "restarting"}
  PROVE  JoinInv'
<1>1. requests' \in 0 .. MaxRequests
  BY RequestsAssumption DEF Gone
<1> QED
  BY <1>1 DEF TypeOK, Gone, JoinInv

\* The unit of a process that exits is no longer active.
LEMMA ExitKeepsJoin ==
  ASSUME JoinInv, NEW code, Exit(code)
  PROVE  JoinInv'
<1>1. unit' \in {"inactive", "failed", "restarting"}
  BY DEF Exit, AfterExit
<1> QED
  BY <1>1, EndKeepsJoin DEF Exit, JoinInv, TypeOK

\* The administrator and systemd.
LEMMA SystemdKeepsJoin ==
  ASSUME JoinInv, Start \/ AutoRestart \/ Stop \/ StopEarly \/ Kill \/ Crash
  PROVE  JoinInv'
<1>StartOrAutoRestart. CASE Start \/ AutoRestart
  BY <1>StartOrAutoRestart DEF JoinInv, TypeOK, Start, AutoRestart, Launch
<1>Stop. CASE Stop
  BY <1>Stop DEF JoinInv, TypeOK, Stop, Receiving
<1>StopEarly. CASE StopEarly
  BY <1>StopEarly, EndKeepsJoin DEF StopEarly, JoinInv, TypeOK
<1>KillOrCrash. CASE Kill \/ Crash
  BY <1>KillOrCrash, ExitKeepsJoin DEF Kill, Crash
<1> QED
  BY <1>StartOrAutoRestart, <1>Stop, <1>StopEarly, <1>KillOrCrash

\* The main task.
LEMMA MainKeepsJoin ==
  ASSUME JoinInv,
         StartFails \/ StartUp \/ Tick \/ PollDone \/ TakeSignal \/ JoinApi \/ JoinDhcp
           \/ TimerFires
  PROVE  JoinInv'
<1>1. CASE StartFails \/ JoinDhcp \/ TimerFires
  BY <1>1, ExitKeepsJoin DEF StartFails, JoinDhcp, TimerFires
<1>StartUp. CASE StartUp
  BY <1>StartUp DEF JoinInv, TypeOK, StartUp
<1>TickOrPollDone. CASE Tick \/ PollDone
  BY <1>TickOrPollDone DEF JoinInv, TypeOK, Tick, PollDone, Elsewhere
<1>TakeSignal. CASE TakeSignal
  BY <1>TakeSignal DEF JoinInv, TypeOK, TakeSignal, Receiving
<1>JoinApi. CASE JoinApi
  BY <1>JoinApi, ExitKeepsJoin DEF JoinInv, TypeOK, JoinApi
<1> QED
  BY <1>1, <1>StartUp, <1>TickOrPollDone, <1>TakeSignal, <1>JoinApi

\* A request that ends was in flight, and is one less.
LEMMA OneLess ==
  ASSUME NEW n \in 0 .. MaxRequests, n > 0
  PROVE  n - 1 \in 0 .. MaxRequests /\ n # 0
BY RequestsAssumption

\* A request comes only while the server takes requests and their number is bounded.
LEMMA OneMore ==
  ASSUME NEW n \in 0 .. MaxRequests, n < MaxRequests
  PROVE  n + 1 \in 0 .. MaxRequests
BY RequestsAssumption

\* The requests: they come only to a server that serves, so a closed one has none.
LEMMA RequestsKeepJoin ==
  ASSUME JoinInv, Request \/ RestartScheduled \/ UpdateConfig \/ RequestDone
  PROVE  JoinInv'
<1> USE DEF Others
<1>requests. requests \in 0 .. MaxRequests /\ api # "down"
  <2>requests. requests \in 0 .. MaxRequests
    BY DEF JoinInv, TypeOK
  <2>requestsApi. requests # 0 \/ api = "serving"
    BY <2>requests, OneLess DEF Request, RestartScheduled, UpdateConfig, RequestDone
  <2>api. api = "down" => requests = 0
    BY DEF JoinInv, TypeOK
  <2> QED
    BY <2>requests, <2>requestsApi, <2>api
<1>newRequests. requests' \in 0 .. MaxRequests
  BY <1>requests, OneLess, OneMore DEF Request, RestartScheduled, UpdateConfig, RequestDone
<1>api. api # "closed"
  BY <1>requests, OneLess DEF JoinInv, Request, RestartScheduled, UpdateConfig, RequestDone
<1>newTimer. timer' \in BOOLEAN /\ file' \in {"good", "bad"}
  BY DEF JoinInv, TypeOK, Request, RestartScheduled, UpdateConfig, RequestDone
<1>unit. UNCHANGED <<unit, main, api, dhcp, shutdown, signal, missed, wanted>>
  BY DEF Request, RestartScheduled, UpdateConfig, RequestDone
<1>TypeOK. TypeOK'
  BY <1>newRequests, <1>newTimer, <1>unit DEF JoinInv, TypeOK
<1>main. main \notin {"off", "starting"}
  BY <1>requests DEF JoinInv
<1> QED
  BY <1>api, <1>unit, <1>TypeOK, <1>main DEF JoinInv

\* The server and the listener.
LEMMA TasksKeepJoin ==
  ASSUME JoinInv, ApiFails \/ ApiShutdown \/ ApiDrained \/ DhcpShutdown
  PROVE  JoinInv'
<1>ApiFails. CASE ApiFails
  BY <1>ApiFails DEF JoinInv, TypeOK, Others, ApiFails
<1>ApiShutdown. CASE ApiShutdown
  BY <1>ApiShutdown DEF JoinInv, TypeOK, Others, ApiShutdown
<1>ApiDrained. CASE ApiDrained
  BY <1>ApiDrained DEF JoinInv, TypeOK, Others, ApiDrained, Drained
<1>DhcpShutdown. CASE DhcpShutdown
  BY <1>DhcpShutdown DEF JoinInv, TypeOK, Others, DhcpShutdown
<1> QED
  BY <1>ApiFails, <1>ApiShutdown, <1>ApiDrained, <1>DhcpShutdown

\* The invariant of the joins holds in every behaviour.
LEMMA JoinInvariant == Spec => []JoinInv
<1>init. Init => JoinInv
  <2>init. Init => requests \in 0 .. MaxRequests
    BY RequestsAssumption DEF Init
  <2> QED
    BY <2>init DEF Init, JoinInv, TypeOK
<1>step. JoinInv /\ [Next]_vars => JoinInv'
  <2> SUFFICES ASSUME JoinInv, [Next]_vars PROVE JoinInv'
    OBVIOUS
  <2>Next. CASE Next
    BY <2>Next, SystemdKeepsJoin, MainKeepsJoin, RequestsKeepJoin, TasksKeepJoin
      DEF Next, Process
  <2>Unchanged. CASE UNCHANGED vars
    BY <2>Unchanged DEF JoinInv, TypeOK, vars
  <2> QED
    BY <2>Next, <2>Unchanged
<1> QED
  BY <1>init, <1>step, PTL DEF Spec

\* Unit, tasks and flags keep their types, and at most MaxRequests requests are in flight.
THEOREM TypeCorrect == Spec => []TypeOK
<1>1. JoinInv => TypeOK
  BY DEF JoinInv
<1> QED
  BY <1>1, JoinInvariant, PTL

\* When main returns from run after both joins, every request is answered and the listener
\* has left its socket, whatever systemd, the signals and the requests did before.
THEOREM ReturnsClean == Spec => CleanReturn
<1>1. JoinInv /\ [Next]_vars => [JoinDhcp => requests = 0 /\ dhcp # "listening"]_vars
  BY DEF JoinInv, JoinDhcp, DhcpJoined
<1> QED
  BY <1>1, JoinInvariant, PTL DEF Spec, CleanReturn

-----------------------------------------------------------------------------
(* The end of a stop.  That it comes (StopEnds) takes fairness; what fairness needs is *)
(* proved: there is always a task that can go on, and none can go on for ever.         *)

\* While a stop is under way the process is past its start; main has the signal or has
\* passed it on, and joins a listener that exists.
StopInv ==
  /\ JoinInv
  /\ unit = "stopping" => main \notin {"off", "starting"}
  /\ unit = "stopping" /\ ~missed /\ Receiving => signal
  /\ main \in {"joining api", "joining dhcp"} => shutdown
  /\ main \notin {"off", "starting"} => dhcp # "down"

\* A process that ends is not being stopped any more.
LEMMA EndKeepsStop ==
  ASSUME Gone, unit' \in {"inactive", "failed", "restarting"}, JoinInv'
  PROVE  StopInv'
BY DEF Gone, StopInv, Receiving

LEMMA StopStep ==
  ASSUME StopInv, JoinInv', [Next]_vars
  PROVE  StopInv'
<1>1. CASE StopEarly \/ Kill \/ Crash \/ StartFails \/ JoinDhcp \/ TimerFires
  <2>1. Gone /\ unit' \in {"inactive", "failed", "restarting"}
    BY <1>1 DEF StopEarly, Kill, Crash, StartFails, JoinDhcp, TimerFires, Exit, AfterExit
  <2> QED
    BY <2>1, EndKeepsStop
<1>StartOrAutoRestart. CASE Start \/ AutoRestart
  BY <1>StartOrAutoRestart DEF StopInv, Start, AutoRestart, Launch, Receiving
<1>Stop. CASE Stop
  BY <1>Stop DEF StopInv, Stop, Receiving
<1>StartUp. CASE StartUp
  <2>1. unit # "stopping"
    BY <1>StartUp DEF StopInv, StartUp
  <2> QED
    BY <1>StartUp, <2>1 DEF StopInv, StartUp, Receiving
<1>TickOrPollDone. CASE Tick \/ PollDone
  <2>Receiving. Receiving /\ main' \in {"waiting", "polling"}
    BY <1>TickOrPollDone DEF Tick, PollDone, Elsewhere, Receiving
  <2>newUnit. unit' = unit /\ dhcp' = dhcp /\ missed' = (missed \/ signal)
    BY <1>TickOrPollDone DEF Tick, PollDone, Elsewhere
  <2>newUnitNotNewMissed. ~(unit' = "stopping" /\ ~missed')
    BY <2>Receiving, <2>newUnit DEF StopInv
  <2> QED
    BY <2>Receiving, <2>newUnit, <2>newUnitNotNewMissed DEF StopInv, Receiving
<1>TakeSignal. CASE TakeSignal
  BY <1>TakeSignal DEF StopInv, TakeSignal, Receiving
<1>JoinApi. CASE JoinApi
  <2>closed. CASE api = "closed" /\ main' = "joining dhcp"
    BY <1>JoinApi, <2>closed DEF StopInv, JoinApi, Exit, Gone, Receiving
  <2>failed. CASE Exit(1)
    <3>1. Gone /\ unit' \in {"inactive", "failed", "restarting"}
      BY <2>failed DEF Exit, AfterExit
    <3> QED
      BY <3>1, EndKeepsStop
  <2> QED
    BY <1>JoinApi, <2>closed, <2>failed DEF JoinApi
<1>8. CASE Request \/ RestartScheduled \/ UpdateConfig \/ RequestDone \/ ApiShutdown
             \/ ApiFails \/ ApiDrained \/ DhcpShutdown \/ UNCHANGED vars
  <2>1. UNCHANGED <<unit, main, shutdown, signal, missed>>
    BY <1>8 DEF Request, RestartScheduled, UpdateConfig, RequestDone, ApiShutdown,
                ApiFails, ApiDrained, DhcpShutdown, Others, vars
  <2>2. dhcp' = dhcp \/ dhcp' = "ended"
    BY <1>8 DEF Request, RestartScheduled, UpdateConfig, RequestDone, ApiShutdown,
                ApiFails, ApiDrained, DhcpShutdown, Others, vars
  <2> QED
    BY <2>1, <2>2 DEF StopInv, Receiving
<1> QED
  BY <1>1, <1>StartOrAutoRestart, <1>Stop, <1>StartUp, <1>TickOrPollDone, <1>TakeSignal,
     <1>JoinApi, <1>8
  DEF Next, Process

LEMMA StopInvariant == Spec => []StopInv
<1>1. Init /\ JoinInv => StopInv
  BY DEF Init, StopInv, Receiving
<1>2. StopInv /\ JoinInv' /\ [Next]_vars => StopInv'
  BY StopStep
<1> QED
  BY <1>1, <1>2, JoinInvariant, PTL DEF Spec

\* At every moment of a stop whose SIGTERM the select! of Daemon::run did not drop, the task
\* that the others wait for can go on, or there are requests to answer: the joins never
\* wait in a circle, however many requests are in flight.
THEOREM StopsNeverStuck == Spec => []StopNeverStuck
<1>1. StopInv => StopNeverStuck
  <2> SUFFICES ASSUME StopInv, unit = "stopping", ~missed PROVE StopNeverStuck
    BY DEF StopNeverStuck
  <2>requests. requests > 0 \/ Drained
    <3>1. requests \in 0 .. MaxRequests
      BY DEF StopInv, JoinInv, TypeOK
    <3> QED
      BY <3>1, RequestsAssumption DEF Drained
  <2>main. main \in {"waiting", "polling", "joining api", "joining dhcp"} /\ api # "down"
    BY DEF StopInv, JoinInv, TypeOK
  <2>Receiving. CASE Receiving
    BY <2>Receiving DEF StopInv, StopNeverStuck
  <2>isMain. CASE main = "joining api"
    BY <2>requests, <2>main, <2>isMain DEF StopInv, JoinInv, TypeOK, StopNeverStuck
  <2>joining. CASE main = "joining dhcp"
    BY <2>joining DEF StopInv, JoinInv, TypeOK, StopNeverStuck, DhcpJoined, ListenerTold
  <2> QED
    BY <2>main, <2>Receiving, <2>isMain, <2>joining DEF Receiving
<1> QED
  BY <1>1, StopInvariant, PTL

\* How far each task is from its end.
MainLeft ==
  CASE main = "joining api" -> 2
    [] main = "joining dhcp" -> 1
    [] main = "off" -> 0
    [] OTHER -> 3

ApiLeft ==
  CASE api = "serving" -> 2
    [] api = "draining" -> 1
    [] OTHER -> 0

DhcpLeft == IF dhcp = "listening" THEN 1 ELSE 0

Left == MainLeft + ApiLeft + DhcpLeft

\* In a stop no step takes the tasks away from their end, every step of a task in the
\* shutdown takes them nearer, and once the server has heard of it no request is added.
StopAdvances ==
  unit = "stopping" =>
    /\ Left' <= Left
    /\ Process => Left' < Left
    /\ api # "serving" => requests' <= requests

\* So a stop takes at most six steps of tasks and the requests that are in flight.
THEOREM EveryStopAdvances == Spec => [][StopAdvances]_vars
<1>1. StopInv /\ [Next]_vars => [StopAdvances]_vars
  <2> SUFFICES ASSUME StopInv, Next, unit = "stopping" PROVE StopAdvances
    BY DEF StopAdvances
  <2>MainLeft. MainLeft \in 0 .. 3 /\ ApiLeft \in 0 .. 2 /\ DhcpLeft \in 0 .. 1
    BY DEF MainLeft, ApiLeft, DhcpLeft
  <2>requests. requests \in 0 .. MaxRequests /\ main # "off" /\ api # "down"
    BY DEF StopInv, JoinInv, TypeOK
  <2>isStopEarly.
      CASE StopEarly \/ Kill \/ Crash \/ StartFails \/ JoinDhcp \/ TimerFires \/ Exit(1)
    <3>Gone. Gone
      BY <2>isStopEarly DEF StopEarly, Kill, Crash, StartFails, JoinDhcp, TimerFires, Exit
    <3>MainLeft. MainLeft' = 0 /\ ApiLeft' = 0 /\ DhcpLeft' = 0 /\ requests' = 0
      BY <3>Gone DEF Gone, MainLeft, ApiLeft, DhcpLeft
    <3>waiting. MainLeft > 0
      BY <2>requests DEF MainLeft
    <3> QED
      BY <2>MainLeft, <2>requests, <3>MainLeft, <3>waiting, RequestsAssumption
      DEF StopAdvances, Left
  <2>isStart. CASE Start \/ AutoRestart \/ Stop \/ StartUp
    BY <2>isStart DEF StopInv, Start, AutoRestart, Stop, StartUp
  <2>TickOrPollDone. CASE Tick \/ PollDone
    <3>main.
        main \in {"waiting", "polling"} /\ main' \in {"waiting", "polling"} /\ main' # main
      BY <2>TickOrPollDone DEF Tick, PollDone, Elsewhere
    <3>api. UNCHANGED <<api, dhcp, requests>>
      BY <2>TickOrPollDone DEF Tick, PollDone, Elsewhere
    <3>MainLeft. MainLeft' = MainLeft /\ ApiLeft' = ApiLeft /\ DhcpLeft' = DhcpLeft
      BY <3>main, <3>api DEF MainLeft, ApiLeft, DhcpLeft
    <3>notProcess. ~Process
      BY <3>main DEF Process, TakeSignal, JoinApi, JoinDhcp, Exit, Gone, ApiShutdown,
                  ApiDrained, DhcpShutdown, Others
    <3> QED
      BY <2>MainLeft, <2>requests, <3>api, <3>MainLeft, <3>notProcess, RequestsAssumption
      DEF StopAdvances, Left
  <2>TakeSignalOrJoinApi. CASE TakeSignal \/ (JoinApi /\ ~Exit(1))
    <3>MainLeft. MainLeft' = MainLeft - 1
      <4>1. TakeSignal => MainLeft = 3 /\ MainLeft' = 2
        BY DEF TakeSignal, Receiving, MainLeft
      <4>2. JoinApi /\ ~Exit(1) => MainLeft = 2 /\ MainLeft' = 1
        BY DEF JoinApi, MainLeft
      <4> QED
        BY <2>TakeSignalOrJoinApi, <4>1, <4>2
    <3>ApiLeft. ApiLeft' = ApiLeft /\ DhcpLeft' = DhcpLeft /\ requests' = requests
      BY <2>TakeSignalOrJoinApi DEF TakeSignal, JoinApi, ApiLeft, DhcpLeft
    <3> QED
      BY <2>MainLeft, <2>requests, <3>MainLeft, <3>ApiLeft, RequestsAssumption
      DEF StopAdvances, Left
  <2>ApiFails. CASE ApiFails
    <3>ApiLeft. ApiLeft > 0 /\ ApiLeft' = 0
      BY <2>ApiFails DEF ApiFails, ApiLeft
    <3>MainLeft. MainLeft' = MainLeft /\ DhcpLeft' = DhcpLeft /\ requests' = requests
      BY <2>ApiFails DEF ApiFails, Others, MainLeft, DhcpLeft
    <3> QED
      BY <2>MainLeft, <2>requests, <3>ApiLeft, <3>MainLeft, RequestsAssumption
      DEF StopAdvances, Left
  <2>ApiShutdownOrApiDrained. CASE ApiShutdown \/ ApiDrained
    <3>ApiLeft. ApiLeft' = ApiLeft - 1
      BY <2>ApiShutdownOrApiDrained DEF ApiShutdown, ApiDrained, ApiLeft
    <3>MainLeft. MainLeft' = MainLeft /\ DhcpLeft' = DhcpLeft /\ requests' = requests
      BY <2>ApiShutdownOrApiDrained DEF ApiShutdown, ApiDrained, Others, MainLeft, DhcpLeft
    <3> QED
      BY <2>MainLeft, <2>requests, <3>ApiLeft, <3>MainLeft, RequestsAssumption
      DEF StopAdvances, Left
  <2>DhcpShutdown. CASE DhcpShutdown
    <3>DhcpLeft. DhcpLeft' = DhcpLeft - 1
      BY <2>DhcpShutdown DEF DhcpShutdown, DhcpLeft
    <3>MainLeft. MainLeft' = MainLeft /\ ApiLeft' = ApiLeft /\ requests' = requests
      BY <2>DhcpShutdown DEF DhcpShutdown, Others, MainLeft, ApiLeft
    <3> QED
      BY <2>MainLeft, <2>requests, <3>DhcpLeft, <3>MainLeft, RequestsAssumption
      DEF StopAdvances, Left
  <2>isRequest. CASE Request \/ RestartScheduled \/ UpdateConfig \/ RequestDone
    <3>main. UNCHANGED <<main, api, dhcp, shutdown, signal>>
      BY <2>isRequest DEF Request, RestartScheduled, UpdateConfig, RequestDone, Others
    <3>MainLeft. MainLeft' = MainLeft /\ ApiLeft' = ApiLeft /\ DhcpLeft' = DhcpLeft
      BY <3>main DEF MainLeft, ApiLeft, DhcpLeft
    <3>newRequests. requests' # requests
      <4>1. requests' \in {requests + 1, requests - 1}
        BY <2>isRequest DEF Request, RestartScheduled, UpdateConfig, RequestDone
      <4> QED
        BY <4>1, <2>requests, RequestsAssumption
    <3>notProcess. ~Process
      <4>JoinDhcp. JoinDhcp => main' # main
        BY <2>requests DEF JoinDhcp, Exit, Gone
      <4> QED
        BY <3>main, <3>newRequests, <4>JoinDhcp
        DEF Process, TakeSignal, JoinApi, Exit, Gone, ApiShutdown, ApiDrained, DhcpShutdown
    <3>api. api # "serving" => requests' = requests - 1
      BY <2>isRequest DEF Request, RestartScheduled, UpdateConfig, RequestDone
    <3> QED
      BY <2>MainLeft, <2>requests, <3>MainLeft, <3>notProcess, <3>api, RequestsAssumption
      DEF StopAdvances, Left
  <2> QED
    BY <2>isStopEarly, <2>isStart, <2>TickOrPollDone, <2>TakeSignalOrJoinApi, <2>ApiFails,
       <2>ApiShutdownOrApiDrained, <2>DhcpShutdown, <2>isRequest
    DEF Next, Process
<1> QED
  BY <1>1, StopInvariant, PTL DEF Spec
=============================================================================
