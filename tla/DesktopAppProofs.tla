-------------------------- MODULE DesktopAppProofs --------------------------
(***************************************************************************)
(* Theorems about DesktopApp for every number of starts and every set of   *)
(* codecs the page may offer.                                              *)
(*                                                                         *)
(* The argument: only the newest run is ever alive, and the place of the   *)
(* main thread tells what the state says about it.  A command that builds  *)
(* a service does so after the old run has ended; from the moment the task *)
(* is spawned until it is published nobody else writes "running", except   *)
(* the task itself, to say that it has ended.                              *)
(***************************************************************************)
EXTENDS DesktopApp, TLAPS

Statuses == {"NotStarted", "Starting", "Running", "Stopping", "Error"}

\* Every variable has its type.
DesktopTypes ==
    /\ status \in Statuses
    /\ run_id \in 0..MAX_RUN /\ running \in 0..MAX_RUN /\ joined \in 0..MAX_RUN
    /\ config \in Configs
    /\ served \in [Runs -> Configs]
    /\ pc \in Places
    /\ then_start \in BOOLEAN
    /\ stage \in [Runs -> Stages]
    /\ result \in [Runs -> {"ok", "err"}]
    /\ workers \in [Runs -> SUBSET Workers]
    /\ told \in [Runs -> SUBSET (Workers \cup {"task", "accept"})]
    /\ accept_task \in [Runs -> {"none", "up", "done"}]
    /\ adb \subseteq Ports
    /\ tracked \in [Runs -> SUBSET Ports]
    /\ refused \subseteq Ports

\* Places at which a service is being constructed and has no task yet.
Building == {"adb_ws", "adb_udp", "spawn", "abandon"}

\* Only the newest run is alive, only a run that is alive has workers, and an
\* accept task is the work of a run that has been alive.
NewestAlive ==
    \A r \in Runs : /\ r > run_id => stage[r] = "none"
                    /\ Alive(r) => r = run_id
                    /\ workers[r] # {} => stage[r] \in {"spawned", "select", "joining"}
                    /\ accept_task[r] = "up" => stage[r] \notin {"none", "built"}

\* What a command has established when the main thread is at a place.
CommandPlace ==
    /\ pc \in Building \cup {"start"} => running = 0 /\ \A r \in Runs : ~Alive(r)
    /\ pc = "start" => status \in {"NotStarted", "Error"}
    /\ pc \in Building => stage[run_id] = "none" /\ status = "Starting"
    /\ pc \in Building \cup {"publish"} => run_id \in Runs /\ served[run_id] = config
    /\ pc = "publish" => running = 0
    /\ pc \in {"join", "release"} => joined = run_id /\ run_id \in Runs
    /\ pc = "join" => status # "Running"
    /\ pc = "release" => running = 0 /\ status = "NotStarted" /\ ~Alive(run_id)

\* What AppStateInner says about the newest run.
StateShown ==
    /\ running \in {0, run_id}
    /\ status \in {"Running", "Stopping"} <=> running # 0
    /\ status = "Starting" => pc \in Building \cup {"publish"}
    /\ pc \in {"idle", "join"} => \A r \in Runs : Alive(r) => running = r
    /\ pc = "idle" /\ status = "Running" => served[running] = config

\* The inductive invariant.
DesktopInv ==
    /\ DesktopTypes
    /\ NewestAlive
    /\ CommandPlace
    /\ StateShown
    /\ ForwardsOwned

-----------------------------------------------------------------------------
(* Types.                                                                  *)

\* The configurations the commands write.
LEMMA ConfigsReached ==
    ASSUME NEW c \in Configs
    PROVE  /\ DefaultConfig \in Configs
           /\ \A t \in {"wifi", "usb"} : [c EXCEPT !.transport = t] \in Configs
           /\ \A p \in {"legacy_las1", "v2_header"}, k \in Codecs :
                  [c EXCEPT !.plane = p, !.codec = k] \in Configs
BY CodecsOffered DEF Configs, DefaultConfig

LEMMA InitTypes == Init => DesktopTypes
<1> SUFFICES ASSUME Init PROVE DesktopTypes
  OBVIOUS
<1>1. config \in Configs /\ served \in [Runs -> Configs]
  BY ConfigsReached, CodecsOffered DEF Init, Configs, DefaultConfig
<1>2. /\ run_id \in 0..MAX_RUN /\ running \in 0..MAX_RUN /\ joined \in 0..MAX_RUN
  BY MaxRunPositive DEF Init
<1>3. /\ workers \in [Runs -> SUBSET Workers]
      /\ told \in [Runs -> SUBSET (Workers \cup {"task", "accept"})]
      /\ tracked \in [Runs -> SUBSET Ports]
  BY DEF Init
<1>4. /\ stage \in [Runs -> Stages]
      /\ result \in [Runs -> {"ok", "err"}]
      /\ accept_task \in [Runs -> {"none", "up", "done"}]
  BY DEF Init, Stages
<1> QED BY <1>1, <1>2, <1>3, <1>4 DEF Init, DesktopTypes, Statuses, Places

\* The receivers of a run are of the kinds "told" is about.
LEMMA ReceiversType ==
    ASSUME DesktopTypes, NEW r \in Runs
    PROVE  Receivers(r) \subseteq Workers \cup {"task", "accept"}
BY DEF DesktopTypes, Receivers

\* stop_service_impl, whatever the command before it wrote.
LEMMA StopTypes ==
    ASSUME DesktopTypes, NEW wait \in BOOLEAN, NEW c \in Configs, NEW next \in BOOLEAN,
           pc = "idle", StopServiceImpl(wait, c, next)
    PROVE  DesktopTypes'
<1>1. CASE running = 0
  BY <1>1 DEF StopServiceImpl, DesktopTypes, adbVars, Statuses, Places
<1>2. CASE running # 0
  <2>1. running \in Runs
    BY <1>2 DEF DesktopTypes, Runs
  <2>2. told' \in [Runs -> SUBSET (Workers \cup {"task", "accept"})]
    BY <1>2, <2>1, ReceiversType DEF StopServiceImpl, Signal, DesktopTypes
  <2> QED BY <1>2, <2>1, <2>2 DEF StopServiceImpl, DesktopTypes, adbVars, Statuses, Places
<1> QED BY <1>1, <1>2

\* What the commands come to, seen from the state: a restart, or a new
\* configuration for a service that does not run.
Restart(c) == pc = "idle" /\ StopServiceImpl(TRUE, c, TRUE)
Configure(c) ==
    /\ pc = "idle"
    /\ status # "Running"
    /\ config' = c
    /\ UNCHANGED <<status, run_id, running, served, pc, joined, then_start, taskVars, adbVars>>

LEMMA ReconfigureForms ==
    ASSUME NEW c \in Configs, NEW b \in BOOLEAN, Reconfigure(c, b), ~b => status # "Running"
    PROVE  \E d \in Configs : Restart(d) \/ Configure(d)
<1>1. CASE b
  BY <1>1 DEF Reconfigure, Restart
<1>2. CASE ~b
  BY <1>2 DEF Reconfigure, Configure
<1> QED BY <1>1, <1>2

LEMMA CommandForms ==
    ASSUME DesktopTypes, StateShown, Command
    PROVE  \/ StartService
           \/ StopService
           \/ \E c \in Configs : Restart(c) \/ Configure(c)
<1>0. config \in Configs
  BY DEF DesktopTypes
<1>1. CASE RestartService
  BY <1>0, <1>1 DEF RestartService, Restart
<1>2. CASE EnableUsbMode
  <2>1. [config EXCEPT !.transport = "usb"] \in Configs
    BY <1>0, ConfigsReached
  <2>2. ~(status \in {"Running", "Starting"}) => status # "Running"
    OBVIOUS
  <2>3. (status \in {"Running", "Starting"}) \in BOOLEAN
    OBVIOUS
  <2> QED BY <1>2, <2>1, <2>2, <2>3, ReconfigureForms, Zenon DEF EnableUsbMode
<1>3. CASE DisableUsbMode
  <2>1. [config EXCEPT !.transport = "wifi"] \in Configs
    BY <1>0, ConfigsReached
  <2>2. ~(status \in {"Running", "Starting"}) => status # "Running"
    OBVIOUS
  <2>3. (status \in {"Running", "Starting"}) \in BOOLEAN
    OBVIOUS
  <2> QED BY <1>3, <2>1, <2>2, <2>3, ReconfigureForms, Zenon DEF DisableUsbMode
<1>4. CASE UpdateServiceSettings
  <2>1. PICK k \in Codecs :
           Reconfigure([config EXCEPT !.plane = IF k = "pcm16" THEN "legacy_las1" ELSE "v2_header",
                                      !.codec = k],
                       status \in {"Running", "Starting"})
    BY <1>4 DEF UpdateServiceSettings
  <2>2. [config EXCEPT !.plane = IF k = "pcm16" THEN "legacy_las1" ELSE "v2_header",
                       !.codec = k] \in Configs
    BY <1>0 DEF Configs
  <2>3. ~(status \in {"Running", "Starting"}) => status # "Running"
    OBVIOUS
  <2>4. (status \in {"Running", "Starting"}) \in BOOLEAN
    OBVIOUS
  <2> QED BY <2>1, <2>2, <2>3, <2>4, ReconfigureForms, Zenon
<1>5. CASE SwitchToRollbackMode
  <2>1. [config EXCEPT !.plane = "legacy_las1", !.codec = "pcm16"] \in Configs
    BY <1>0, CodecsOffered DEF Configs
  <2>2. ~(running # 0) => status # "Running"
    BY DEF StateShown
  <2> QED BY <1>5, <2>1, <2>2, ReconfigureForms DEF SwitchToRollbackMode
<1>6. CASE RestoreRecommendedMode
  <2>1. [config EXCEPT !.plane = "v2_header", !.codec = "opus"] \in Configs
    BY <1>0, CodecsOffered DEF Configs
  <2>2. ~(running # 0) => status # "Running"
    BY DEF StateShown
  <2> QED BY <1>6, <2>1, <2>2, ReconfigureForms DEF RestoreRecommendedMode
<1> QED BY <1>1, <1>2, <1>3, <1>4, <1>5, <1>6 DEF Command

LEMMA CommandTypes ==
    ASSUME DesktopTypes, StateShown, Command
    PROVE  DesktopTypes'
<1>0. config \in Configs
  BY DEF DesktopTypes
<1>1. CASE StartService
  BY <1>1 DEF StartService, DesktopTypes, taskVars, adbVars, Places
<1>2. CASE StopService
  BY <1>0, <1>2, StopTypes DEF StopService
<1>3. ASSUME NEW c \in Configs, Restart(c) PROVE DesktopTypes'
  BY <1>3, StopTypes DEF Restart
<1>4. ASSUME NEW c \in Configs, Configure(c) PROVE DesktopTypes'
  BY <1>4 DEF Configure, DesktopTypes, taskVars, adbVars
<1> QED BY <1>1, <1>2, <1>3, <1>4, CommandForms

LEMMA MainThreadTypes ==
    ASSUME DesktopInv, MainThread
    PROVE  DesktopTypes'
<1> USE DEF DesktopInv
<1>1. CASE Joined \/ Released
  BY <1>1, MaxRunPositive DEF Joined, Released, DesktopTypes, taskVars, adbVars, Places, Statuses
<1>2. CASE StartServiceImpl
  <2>1. run_id' \in 0..MAX_RUN
    BY <1>2, MaxRunPositive DEF StartServiceImpl, DesktopTypes
  <2>3. status' \in Statuses /\ pc' \in Places /\ then_start' \in BOOLEAN
    BY <1>2 DEF StartServiceImpl, DesktopTypes, Places, Statuses
  <2>2. served' \in [Runs -> Configs]
    BY <1>2 DEF StartServiceImpl, DesktopTypes
  <2> QED BY <1>2, <2>1, <2>2, <2>3 DEF StartServiceImpl, DesktopTypes, taskVars, adbVars
<1>3. ASSUME NEW p \in Ports, NEW here \in {"adb_ws", "adb_udp"}, NEW next \in {"adb_udp", "spawn"},
             SetupAdbReverse(p, here, next)
      PROVE  DesktopTypes'
  <2>1. run_id \in Runs
    BY <1>3 DEF SetupAdbReverse, CommandPlace, Building
  <2>2. adb' \subseteq Ports /\ tracked' \in [Runs -> SUBSET Ports] /\ refused' \subseteq Ports
    BY <1>3, <2>1 DEF SetupAdbReverse, DesktopTypes, adbVars
  <2> QED BY <1>3, <2>2 DEF SetupAdbReverse, DesktopTypes, taskVars, Places
<1>4. CASE SetupAdbReverse("ws", "adb_ws", "adb_udp") \/ SetupAdbReverse("udp", "adb_udp", "spawn")
  BY <1>3, <1>4 DEF Ports
<1>5. CASE StartFailed \/ PublishRunning
  BY <1>5 DEF StartFailed, PublishRunning, DesktopTypes, taskVars, adbVars, Places, Statuses
<1>6. CASE SpawnTask
  BY <1>6 DEF SpawnTask, DesktopTypes, adbVars, Places, Stages
<1> QED BY <1>1, <1>2, <1>4, <1>5, <1>6 DEF MainThread

\* A step of the task of run r or of what it has spawned.
RunStep(r) ==
    \/ Task(r) \/ StartAccepting(r) \/ AcceptEnds(r)
    \/ \E w \in Workers : WorkerEnds(r, w)
    \/ Failure(r)

LEMMA RunTypes ==
    ASSUME DesktopInv, NEW r \in Runs, RunStep(r)
    PROVE  DesktopTypes'
<1> USE DEF DesktopInv, DesktopTypes, mainVars, adbVars
<1>1. CASE SpawnWorkers(r)
  BY <1>1 DEF SpawnWorkers, Become, Stages
<1>2. CASE SubscribeStop(r) \/ WorkersJoined(r)
  BY <1>2 DEF SubscribeStop, WorkersJoined, Become, Stages
<1>3. CASE HearStop(r)
  BY <1>3, ReceiversType DEF HearStop, Become, Stages
<1>4. CASE ReportEnd(r)
  BY <1>4, MaxRunPositive DEF ReportEnd, Become, Stages, Statuses
<1>5. CASE RemoveForward(r)
  BY <1>5 DEF RemoveForward, taskVars, Ports
<1>6. CASE ServiceDropped(r)
  BY <1>6, CodecsOffered DEF ServiceDropped, Become, Stages, Configs, DefaultConfig
<1>7. CASE StartAccepting(r)
  BY <1>7 DEF StartAccepting
<1>8. CASE AcceptEnds(r)
  BY <1>8 DEF AcceptEnds
<1>9. ASSUME NEW w \in Workers, WorkerEnds(r, w) PROVE DesktopTypes'
  BY <1>9 DEF WorkerEnds
<1>10. ASSUME NEW w \in {"transport", "session"}, WorkerFails(r, w) PROVE DesktopTypes'
  BY <1>10 DEF WorkerFails
<1>11. CASE BindFails(r)
  BY <1>11 DEF BindFails, Become, Stages
<1> QED BY <1>1, <1>2, <1>3, <1>4, <1>5, <1>6, <1>7, <1>8, <1>9, <1>10, <1>11
        DEF RunStep, Task, Failure

-----------------------------------------------------------------------------
(* Commands.                                                               *)

LEMMA CommandPreserves ==
    ASSUME DesktopInv, Command
    PROVE  NewestAlive' /\ CommandPlace' /\ StateShown' /\ ForwardsOwned'
<1> USE DEF DesktopInv
<1>1. CASE StartService
  <2> USE <1>1 DEF StartService, taskVars, adbVars
  <2>1. NewestAlive'
    BY DEF NewestAlive, Alive
  <2>2. CommandPlace'
    BY DEF CommandPlace, StateShown, NewestAlive, Alive, Building, DesktopTypes, Runs
  <2>3. StateShown'
    BY DEF StateShown, Alive, Building
  <2> QED BY <2>1, <2>2, <2>3 DEF ForwardsOwned
<1>2. ASSUME NEW wait \in BOOLEAN, NEW c \in Configs, pc = "idle",
             StopServiceImpl(wait, c, wait), wait \/ c = config
      PROVE  NewestAlive' /\ CommandPlace' /\ StateShown' /\ ForwardsOwned'
  <2> USE <1>2 DEF StopServiceImpl, adbVars
  <2>1. NewestAlive'
    BY DEF NewestAlive, Alive
  <2>2. CommandPlace'
    BY DEF CommandPlace, StateShown, NewestAlive, Alive, Building, DesktopTypes, Runs
  <2>3. StateShown'
    BY DEF StateShown, Alive, Building
  <2> QED BY <2>1, <2>2, <2>3 DEF ForwardsOwned
<1>3. ASSUME NEW c \in Configs, Configure(c)
      PROVE  NewestAlive' /\ CommandPlace' /\ StateShown' /\ ForwardsOwned'
  <2> USE <1>3 DEF Configure, taskVars, adbVars
  <2>1. NewestAlive'
    BY DEF NewestAlive, Alive
  <2>2. CommandPlace'
    BY DEF CommandPlace, Building
  <2>3. StateShown'
    BY DEF StateShown, Alive, Building
  <2> QED BY <2>1, <2>2, <2>3 DEF ForwardsOwned
<1>4. CASE StopService
  BY <1>2, <1>4 DEF StopService, DesktopTypes
<1>5. ASSUME NEW c \in Configs, Restart(c)
      PROVE  NewestAlive' /\ CommandPlace' /\ StateShown' /\ ForwardsOwned'
  BY <1>2, <1>5 DEF Restart
<1> QED BY <1>1, <1>3, <1>4, <1>5, CommandForms

-----------------------------------------------------------------------------
(* The main thread inside a command.                                       *)

LEMMA MainThreadPreserves ==
    ASSUME DesktopInv, MainThread
    PROVE  NewestAlive' /\ CommandPlace' /\ StateShown' /\ ForwardsOwned'
<1> USE DEF DesktopInv
<1>1. CASE Joined
  <2> USE <1>1 DEF Joined, taskVars, adbVars
  <2>1. NewestAlive'
    BY DEF NewestAlive, Alive
  <2>2. CommandPlace'
    BY DEF CommandPlace, NewestAlive, Alive, Building, DesktopTypes
  <2>3. StateShown'
    BY DEF StateShown, CommandPlace, Building
  <2> QED BY <2>1, <2>2, <2>3 DEF ForwardsOwned
<1>2. CASE Released
  <2> USE <1>2 DEF Released, taskVars, adbVars
  <2>1. NewestAlive'
    BY DEF NewestAlive, Alive
  <2>2. CommandPlace'
    BY DEF CommandPlace, NewestAlive, Alive, Building
  <2>3. StateShown'
    BY DEF StateShown, CommandPlace, NewestAlive, Alive, Building
  <2> QED BY <2>1, <2>2, <2>3 DEF ForwardsOwned
<1>3. CASE StartServiceImpl
  <2> USE <1>3 DEF StartServiceImpl, taskVars, adbVars
  <2>1. NewestAlive'
    BY DEF NewestAlive, CommandPlace, Alive, Building, DesktopTypes, Runs
  <2>2. CommandPlace'
    <3>1. CASE status \in {"Running", "Starting"} \/ run_id = MAX_RUN
      BY <3>1 DEF CommandPlace, Building
    <3>2. CASE ~(status \in {"Running", "Starting"} \/ run_id = MAX_RUN)
      <4>1. run_id + 1 \in Runs /\ run_id + 1 > run_id
        BY <3>2, MaxRunPositive DEF DesktopTypes, Runs
      <4>2. served'[run_id'] = config' /\ stage'[run_id'] = "none"
        BY <3>2, <4>1 DEF NewestAlive, DesktopTypes
      <4>3. \A r \in Runs : ~Alive(r)'
        BY <3>2 DEF CommandPlace, Alive
      <4> QED BY <3>2, <4>1, <4>2, <4>3 DEF CommandPlace, Building
    <3> QED BY <3>1, <3>2
  <2>3. StateShown'
    BY DEF StateShown, CommandPlace, Alive, Building
  <2> QED BY <2>1, <2>2, <2>3 DEF ForwardsOwned
<1>4. ASSUME NEW p \in Ports, NEW here \in {"adb_ws", "adb_udp"}, NEW next \in {"adb_udp", "spawn"},
             SetupAdbReverse(p, here, next)
      PROVE  NewestAlive' /\ CommandPlace' /\ StateShown' /\ ForwardsOwned'
  <2> USE <1>4 DEF SetupAdbReverse, taskVars, adbVars
  <2>1. NewestAlive'
    BY DEF NewestAlive, Alive
  <2>2. CommandPlace'
    BY DEF CommandPlace, Alive, Building
  <2>3. StateShown'
    BY DEF StateShown, Building
  <2>4. ForwardsOwned'
    <3>1. run_id \in Runs
      BY DEF CommandPlace, Building
    <3>2. \A r \in Runs : tracked[r] \subseteq tracked'[r]
      BY <3>1 DEF DesktopTypes
    <3>3. \/ adb' = adb /\ refused' = refused
          \/ adb' = adb \cup {p} /\ refused' = refused \ {p} /\ p \in tracked'[run_id]
      BY <3>1 DEF DesktopTypes
    <3>4. ASSUME NEW x \in adb'
          PROVE  (\E q \in Runs : x \in tracked'[q]) \/ x \in refused'
      <4>1. CASE x = p /\ x \notin adb
        BY <3>1, <3>3, <3>4, <4>1
      <4>2. CASE x \in adb
        <5>1. (\E q \in Runs : x \in tracked[q]) \/ x \in refused
          BY <4>2 DEF ForwardsOwned
        <5> QED BY <3>1, <3>2, <3>3, <5>1
      <4> QED BY <3>3, <3>4, <4>1, <4>2
    <3> QED BY <3>4 DEF ForwardsOwned
  <2> QED BY <2>1, <2>2, <2>3, <2>4
<1>5. CASE SetupAdbReverse("ws", "adb_ws", "adb_udp") \/ SetupAdbReverse("udp", "adb_udp", "spawn")
  BY <1>4, <1>5 DEF Ports
<1>6. CASE StartFailed
  <2> USE <1>6 DEF StartFailed, taskVars, adbVars
  <2>1. NewestAlive'
    BY DEF NewestAlive, Alive
  <2>2. CommandPlace'
    BY DEF CommandPlace, Building
  <2>3. StateShown'
    BY DEF StateShown, CommandPlace, Alive, Building
  <2> QED BY <2>1, <2>2, <2>3 DEF ForwardsOwned
<1>7. CASE SpawnTask
  <2> USE <1>7 DEF SpawnTask, adbVars
  <2>1. NewestAlive'
    BY DEF NewestAlive, CommandPlace, Alive, Building, DesktopTypes
  <2>2. CommandPlace'
    BY DEF CommandPlace, Building
  <2>3. StateShown'
    BY DEF StateShown, Building
  <2> QED BY <2>1, <2>2, <2>3 DEF ForwardsOwned
<1>8. CASE PublishRunning
  <2> USE <1>8 DEF PublishRunning, taskVars, adbVars
  <2>1. NewestAlive'
    BY DEF NewestAlive, Alive
  <2>2. CommandPlace'
    BY DEF CommandPlace, Building
  <2>3. StateShown'
    BY DEF StateShown, NewestAlive, CommandPlace, Alive, Building, Runs
  <2> QED BY <2>1, <2>2, <2>3 DEF ForwardsOwned
<1> QED BY <1>1, <1>2, <1>3, <1>5, <1>6, <1>7, <1>8 DEF MainThread

-----------------------------------------------------------------------------
(* The task of a run and its workers.                                      *)

\* No step of a task or a worker disturbs what the state says about the newest run.
LEMMA RunPreserves ==
    ASSUME DesktopInv, NEW r \in Runs, RunStep(r)
    PROVE  NewestAlive' /\ CommandPlace' /\ StateShown' /\ ForwardsOwned'
<1> USE DEF DesktopInv, mainVars
\* a step that only moves the task of a run that stays alive
<1>1. ASSUME Alive(r), NEW s \in {"spawned", "select", "joining", "finished"}, Become(r, s),
             workers[r] = {} \/ s # "finished",
             workers' = workers \/ (workers' = [workers EXCEPT ![r] = Workers] /\ s = "spawned"),
             UNCHANGED <<mainVars, accept_task, adbVars>>
      PROVE  NewestAlive' /\ CommandPlace' /\ StateShown' /\ ForwardsOwned'
  <2>0. \A q \in Runs : Alive(q)' <=> Alive(q)
    BY <1>1 DEF Alive, Become, DesktopTypes
  <2>1. NewestAlive'
    BY <1>1, <2>0 DEF NewestAlive, Alive, Become, DesktopTypes
  <2>2. CommandPlace'
    BY <1>1, <2>0 DEF CommandPlace, NewestAlive, Alive, Become, Building, DesktopTypes
  <2>3. StateShown'
    BY <1>1, <2>0 DEF StateShown, Building
  <2> QED BY <1>1, <2>1, <2>2, <2>3 DEF ForwardsOwned, adbVars
<1>2. CASE SpawnWorkers(r)
  BY <1>1, <1>2 DEF SpawnWorkers, Alive, adbVars
<1>3. CASE SubscribeStop(r)
  BY <1>1, <1>3 DEF SubscribeStop, Alive, adbVars
<1>4. CASE HearStop(r)
  BY <1>1, <1>4 DEF HearStop, Alive, adbVars
<1>5. CASE WorkersJoined(r)
  BY <1>1, <1>5 DEF WorkersJoined, Alive, adbVars
<1>6. CASE BindFails(r)
  <2>1. workers[r] = {}
    BY <1>6 DEF BindFails, NewestAlive
  <2> QED BY <1>1, <1>6, <2>1 DEF BindFails, Alive, adbVars
<1>7. CASE ReportEnd(r)
  <2> USE <1>7 DEF ReportEnd, Become, adbVars
  <2>0. r = run_id /\ run_id \in Runs
    BY DEF NewestAlive, Alive
  <2>1. /\ running' = 0 /\ status' \in {"NotStarted", "Error"}
        /\ \A q \in Runs : ~Alive(q)'
    BY <2>0 DEF NewestAlive, Alive, DesktopTypes
  <2>2. NewestAlive'
    BY <2>0 DEF NewestAlive, Alive, DesktopTypes
  <2>3. CommandPlace'
    BY <2>0, <2>1 DEF CommandPlace, Alive, Building, DesktopTypes
  <2>4. StateShown'
    BY <2>0, <2>1 DEF StateShown, Building
  <2> QED BY <2>2, <2>3, <2>4 DEF ForwardsOwned
<1>8. CASE RemoveForward(r)
  <2> USE <1>8 DEF RemoveForward, taskVars
  <2>1. NewestAlive'
    BY DEF NewestAlive, Alive
  <2>2. CommandPlace' /\ StateShown'
    BY DEF CommandPlace, StateShown, Alive, Building
  <2>3. ForwardsOwned'
    <3> DEFINE p == IF "udp" \in tracked[r] THEN "udp" ELSE "ws"
    <3>1. /\ \/ adb' = adb \ {p} /\ refused' = refused \ {p}
             \/ adb' = adb /\ refused' = refused \cup {p}
          /\ tracked' = [tracked EXCEPT ![r] = @ \ {p}]
      OBVIOUS
    <3> HIDE DEF p
    <3>2. \A q \in Runs : tracked[q] \ {p} \subseteq tracked'[q]
      BY <3>1 DEF DesktopTypes
    <3>3. ASSUME NEW x \in adb'
          PROVE  (\E q \in Runs : x \in tracked'[q]) \/ x \in refused'
      <4>1. (\E q \in Runs : x \in tracked[q]) \/ x \in refused
        BY <3>1, <3>3 DEF ForwardsOwned
      <4> QED BY <3>1, <3>2, <3>3, <4>1
    <3> QED BY <3>3 DEF ForwardsOwned
  <2> QED BY <2>1, <2>2, <2>3
<1>9. CASE ServiceDropped(r)
  <2> USE <1>9 DEF ServiceDropped, Become, adbVars, Held
  <2>0. \A q \in Runs : Alive(q)' <=> Alive(q)
    BY DEF Alive, DesktopTypes
  <2>1. NewestAlive'
    BY <2>0 DEF NewestAlive, Alive, DesktopTypes
  <2>2. CommandPlace'
    BY <2>0 DEF CommandPlace, Building, DesktopTypes
  <2>3. StateShown'
    BY <2>0 DEF StateShown, Building, DesktopTypes, Runs
  <2> QED BY <2>1, <2>2, <2>3 DEF ForwardsOwned
\* a step of a worker, of the accept task
<1>10. ASSUME workers' = workers \/ \E w \in Workers : workers' = [workers EXCEPT ![r] = @ \ {w}],
              \A q \in Runs : accept_task'[q] = "up" =>
                                 accept_task[q] = "up" \/ stage[q] \notin {"none", "built"},
              UNCHANGED <<mainVars, stage, adbVars>>
       PROVE  NewestAlive' /\ CommandPlace' /\ StateShown' /\ ForwardsOwned'
  <2>1. NewestAlive'
    <3>1. \A q \in Runs : workers'[q] \subseteq workers[q]
      BY <1>10 DEF DesktopTypes
    <3> QED BY <1>10, <3>1 DEF NewestAlive, Alive
  <2>2. CommandPlace' /\ StateShown'
    BY <1>10 DEF CommandPlace, StateShown, Alive, Building
  <2> QED BY <1>10, <2>1, <2>2 DEF ForwardsOwned, adbVars
<1>11. CASE StartAccepting(r)
  <2>1. stage[r] \notin {"none", "built"}
    BY <1>11 DEF StartAccepting, NewestAlive
  <2>2. \A q \in Runs : accept_task'[q] = "up" =>
                            accept_task[q] = "up" \/ stage[q] \notin {"none", "built"}
    BY <1>11, <2>1 DEF StartAccepting, DesktopTypes
  <2> QED BY <1>10, <1>11, <2>2 DEF StartAccepting, adbVars
<1>13. CASE AcceptEnds(r)
  <2>1. \A q \in Runs : accept_task'[q] = "up" => accept_task[q] = "up"
    BY <1>13 DEF AcceptEnds, DesktopTypes
  <2> QED BY <1>10, <1>13, <2>1 DEF AcceptEnds, adbVars
<1>12. ASSUME NEW w \in Workers, WorkerEnds(r, w) \/ WorkerFails(r, w)
       PROVE  NewestAlive' /\ CommandPlace' /\ StateShown' /\ ForwardsOwned'
  BY <1>10, <1>12 DEF WorkerEnds, WorkerFails, adbVars
<1> QED BY <1>2, <1>3, <1>4, <1>5, <1>6, <1>7, <1>8, <1>9, <1>11, <1>12, <1>13
        DEF RunStep, Task, Failure, Workers

-----------------------------------------------------------------------------
(* The theorems.                                                           *)

LEMMA DesktopInit == Init => DesktopInv
<1> SUFFICES ASSUME Init PROVE DesktopInv
  OBVIOUS
<1>1. DesktopTypes
  BY InitTypes
<1>2. NewestAlive /\ CommandPlace /\ StateShown
  BY DEF Init, NewestAlive, CommandPlace, StateShown, Alive, Building
<1>3. ForwardsOwned
  BY DEF Init, ForwardsOwned
<1> QED BY <1>1, <1>2, <1>3 DEF DesktopInv

LEMMA DesktopStep == DesktopInv /\ [Next]_vars => DesktopInv'
<1> SUFFICES ASSUME DesktopInv, [Next]_vars PROVE DesktopInv'
  OBVIOUS
<1>1. CASE Command
  BY <1>1, CommandTypes, CommandPreserves DEF DesktopInv
<1>2. CASE MainThread
  BY <1>2, MainThreadTypes, MainThreadPreserves DEF DesktopInv
<1>3. ASSUME NEW r \in Runs, RunStep(r) PROVE DesktopInv'
  BY <1>3, RunTypes, RunPreserves DEF DesktopInv
<1>4. CASE UNCHANGED vars
  BY <1>4 DEF DesktopInv, DesktopTypes, NewestAlive, CommandPlace, StateShown, ForwardsOwned,
              Alive, vars, mainVars, taskVars, adbVars
<1> QED BY <1>1, <1>2, <1>3, <1>4 DEF Next, RunStep

\* The invariant of the desktop application (lib.rs: AppStateInner, the task of
\* each run, the forwards of each AdbReverseManager).
THEOREM DesktopInvariant == Spec => []DesktopInv
BY DesktopInit, DesktopStep, PTL DEF Spec

\* stop_service_impl and start_service_impl never let two runs live at once.
THEOREM RunsExclusive == Spec => []OneRunAtATime
<1>1. DesktopInv => OneRunAtATime
  BY DEF DesktopInv, NewestAlive, OneRunAtATime
<1> QED BY <1>1, DesktopInvariant, PTL

\* LanAudioService::new never meets the UDP or the websocket port of an earlier
\* run, and the TCP listener only in the hands of the accept task of a run that has
\* returned.
THEOREM PortsReleased == Spec => []PortsFreeOnStart
<1>1. ASSUME DesktopInv PROVE PortsFreeOnStart
  <2> SUFFICES ASSUME pc \in {"start", "adb_ws", "adb_udp", "spawn"}, NEW r \in Runs
               PROVE  \/ Holds(r) = {}
                      \/ Holds(r) = {"tcp"} /\ stage[r] \in {"ended", "gone"}
    BY DEF PortsFreeOnStart
  <2>1. stage[r] \in {"none", "ended", "gone"}
    BY <1>1 DEF DesktopInv, DesktopTypes, CommandPlace, Building, Alive, Stages
  <2>2. workers[r] = {}
    BY <1>1, <2>1 DEF DesktopInv, NewestAlive
  <2>3. accept_task[r] = "up" => stage[r] \in {"ended", "gone"}
    BY <1>1, <2>1 DEF DesktopInv, NewestAlive
  <2>4. "udp" \notin Holds(r) /\ "ws" \notin Holds(r) /\ ("tcp" \in Holds(r) => accept_task[r] = "up")
    BY <2>1, <2>2 DEF Holds, Bound
  <2>5. Holds(r) \subseteq {"udp", "tcp", "ws"}
    BY DEF Holds
  <2> HIDE DEF Holds
  <2>6. Holds(r) = {} \/ (Holds(r) = {"tcp"} /\ accept_task[r] = "up")
    BY <2>4, <2>5
  <2> QED BY <2>3, <2>6
<1> QED BY <1>1, DesktopInvariant, PTL

\* A task that lives is the one the state shows, and it can be stopped.
THEOREM NewestShown == Spec => []NewestRunShown
<1>1. DesktopInv => NewestRunShown
  BY DEF DesktopInv, StateShown, NewestRunShown, Runs
<1> QED BY <1>1, DesktopInvariant, PTL

\* get_desktop_snapshot: what comes from the configuration and what comes from
\* the router of the service agree while the service is shown as running.
THEOREM SnapshotAgrees == Spec => []SnapshotConsistent
<1>1. ASSUME DesktopInv PROVE SnapshotConsistent
  <2> SUFFICES ASSUME pc = "idle", status = "Running"
               PROVE  /\ Snapshot.active_data_plane = ActivePath(config)
                      /\ Snapshot.transport = served[running].transport
                      /\ Snapshot.rollback_state = "forced" <=> ~Snapshot.rollback_available
    BY DEF SnapshotConsistent
  <2>1. running # 0 /\ served[running] = config
    BY <1>1 DEF DesktopInv, StateShown
  <2>2. Snapshot = ServiceSnapshot(config)
    BY <2>1 DEF Snapshot
  <2> QED BY <2>1, <2>2 DEF ServiceSnapshot, RollbackAvailable
<1> QED BY <1>1, DesktopInvariant, PTL

\* AdbReverseManager: every forward on the phone is in the list of a manager, or
\* is one that adb refused to remove when its manager was dropped.
THEOREM ForwardsTracked == Spec => []ForwardsOwned
BY DesktopInvariant, PTL DEF DesktopInv
=============================================================================
