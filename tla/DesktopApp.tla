----------------------------- MODULE DesktopApp -----------------------------
(***************************************************************************)
(* The desktop application (apps/desktop/src-tauri/src/lib.rs) around the  *)
(* service it starts and stops (LanAudioService, the adb reverse manager). *)
(*                                                                         *)
(* Processes.  Tauri runs the commands one after the other on the main     *)
(* thread (pc).  Every start spawns a runtime task (stage), which spawns   *)
(* the workers of the service.  The state lock is held only for the short  *)
(* blocks that read or write it, so a runtime task runs between any two    *)
(* blocks of a command.                                                    *)
(*                                                                         *)
(* Data.  A run is its run_id; 0 is none.  The configuration is reduced to *)
(* the transport, the data plane and the codec.  "background" stands for   *)
(* the discovery broadcaster, the mDNS registration and the metrics        *)
(* logger, which only wait for shutdown.  One phone is plugged in or not   *)
(* when adb is called.  The reverse channel is modelled in ReverseChannel. *)
(***************************************************************************)
EXTENDS Integers, FiniteSets

CONSTANTS
    MAX_RUN,    \* bound: how often the service is started
    Codecs      \* the codecs the page offers

ASSUME MaxRunPositive == MAX_RUN \in Nat \ {0}
ASSUME CodecsOffered == {"opus", "pcm16"} \subseteq Codecs /\ Codecs \subseteq {"opus", "pcm16", "pcm24"}

Runs == 1..MAX_RUN
Workers == {"background", "transport", "session"}
Ports == {"ws", "udp"}
Configs == [transport : {"wifi", "usb"}, plane : {"legacy_las1", "v2_header"}, codec : Codecs]
DefaultConfig == [transport |-> "wifi", plane |-> "v2_header", codec |-> "opus"]

VARIABLES
    status,      \* AppStateInner.status
    run_id,      \* AppStateInner.run_id
    running,     \* the run AppStateInner.running holds
    config,      \* AppStateInner.config
    served,      \* the configuration each run was built with
    pc,          \* where the main thread is in its command
    joined,      \* the run whose task the command waits for
    then_start,  \* the command goes on with start_service_impl
    stage,       \* where the task of each run is in run_until_shutdown
    result,      \* what run_until_shutdown returned
    workers,     \* the workers of each run that have not ended
    told,        \* the receivers of each run that have a stop signal to read
    accept_task, \* the USB accept task of each run
    adb,         \* the reverse forwards set up on the phone
    tracked,     \* what the AdbReverseManager of each run has to remove
    refused      \* history: the forwards adb did not remove when it was asked to

mainVars == <<status, run_id, running, config, served, pc, joined, then_start>>
taskVars == <<stage, result, workers, told, accept_task>>
adbVars == <<adb, tracked, refused>>
vars == <<mainVars, taskVars, adbVars>>

Stages == {"none", "built", "spawned", "select", "joining", "finished", "ended", "gone"}

\* The places of the main thread inside a command.
Places == {"idle", "start", "adb_ws", "adb_udp", "spawn", "publish", "join", "release", "abandon"}

Alive(r) == stage[r] \in {"built", "spawned", "select", "joining", "finished"}

\* The sockets a run owns: the transport's until run_until_shutdown returns,
\* the websocket listener as long as the session worker lives.  The TCP listener
\* of a USB transport is shared with the accept task, which nobody joins.
Bound(r) == stage[r] \in {"spawned", "select", "joining"}
Holds(r) == {s \in {"udp", "tcp", "ws"} :
                \/ s = "udp" /\ Bound(r)
                \/ s = "tcp" /\ ((Bound(r) /\ served[r].transport = "usb") \/ accept_task[r] = "up")
                \/ s = "ws" /\ "session" \in workers[r]}

\* effective_codec_selection: the codec in effect for a configuration.
EffectiveCodec(c) == IF c.codec = "opus" /\ c.plane = "v2_header" THEN "opus" ELSE "pcm16"

\* DataPlaneRouter::from_config: the path frames take.  The desktop never sets
\* force_rollback, so the router stays on its main path.
ActivePath(c) == IF c.plane = "legacy_las1" THEN "legacy_las1"
                 ELSE IF c.transport = "usb" THEN "usb_direct" ELSE "v2_header"

\* DataPlaneRouter::rollback_available
RollbackAvailable(c) == c.plane # "legacy_las1" \/ EffectiveCodec(c) # "pcm16"

\* build_service_snapshot: what is read from the configuration, and what from
\* the router that is active.  (A session negotiates the codec in effect or,
\* on legacy_las1, pcm16, so that the codec of a session gives the same
\* rollback_state.)
ServiceSnapshot(active) ==
    [transport |-> config.transport,
     data_plane |-> config.plane,
     active_data_plane |-> ActivePath(active),
     rollback_available |-> RollbackAvailable(active),
     rollback_state |-> IF config.plane = "legacy_las1" /\ EffectiveCodec(config) = "pcm16"
                        THEN "forced" ELSE "main"]

\* get_desktop_snapshot: the router of the service if there is one, or one for
\* the configuration.
Snapshot == ServiceSnapshot(IF running # 0 THEN served[running] ELSE config)

-----------------------------------------------------------------------------
Init ==
    /\ status = "NotStarted"
    /\ run_id = 0
    /\ running = 0
    /\ config = DefaultConfig
    /\ served = [r \in Runs |-> DefaultConfig]
    /\ pc = "idle"
    /\ joined = 0
    /\ then_start = FALSE
    /\ stage = [r \in Runs |-> "none"]
    /\ result = [r \in Runs |-> "ok"]
    /\ workers = [r \in Runs |-> {}]
    /\ told = [r \in Runs |-> {}]
    /\ accept_task = [r \in Runs |-> "none"]
    /\ adb = {}
    /\ tracked = [r \in Runs |-> {}]
    /\ refused = {}

(***************************************************************************)
(* Commands: stop_service_impl and start_service_impl, and what uses them. *)
(***************************************************************************)

\* A signal sent on shutdown_tx reaches the receivers that exist at that time.
\* The task subscribes for itself last, after it has spawned its workers.
ReceiversWithoutSession(r) ==
    (workers[r] \ {"session"}) \cup (IF stage[r] = "select" THEN {"task"} ELSE {})
Receivers(r) ==
    workers[r] \cup (IF stage[r] = "select" THEN {"task"} ELSE {})
               \cup (IF accept_task[r] = "up" THEN {"accept"} ELSE {})

Signal(r) == told' = [told EXCEPT ![r] = @ \cup Receivers(r)]

\* (a fault: restart does not wait for the task)
StopServiceNoWait(wait, c, next) ==
    /\ config' = c
    /\ then_start' = next
    /\ IF running = 0
       THEN /\ status' = "NotStarted"
            /\ pc' = IF next THEN "start" ELSE "idle"
            /\ UNCHANGED <<joined, told>>
       ELSE /\ status' = "Stopping"
            /\ Signal(running)
            /\ pc' = IF next THEN "start" ELSE "idle"
            /\ UNCHANGED joined
    /\ UNCHANGED <<run_id, running, served, stage, result, workers, accept_task, adbVars>>

\* (a fault: the running service is forgotten as soon as it was signalled)
StopServiceForgets(wait, c, next) ==
    /\ config' = c
    /\ then_start' = next
    /\ status' = "NotStarted"
    /\ running' = 0
    /\ pc' = IF next THEN "start" ELSE "idle"
    /\ IF running = 0 THEN UNCHANGED told ELSE Signal(running)
    /\ UNCHANGED <<run_id, joined, served, stage, result, workers, accept_task, adbVars>>

\* stop_service_impl(wait), after the command wrote the configuration c: with
\* wait the main thread blocks on the task, and then goes on to start if next.
StopServiceImpl(wait, c, next) ==
    /\ config' = c
    /\ then_start' = next
    /\ IF running = 0
       THEN /\ status' = "NotStarted"
            /\ pc' = IF next THEN "start" ELSE "idle"
            /\ UNCHANGED <<joined, told>>
       ELSE /\ status' = "Stopping"
            /\ Signal(running)
            /\ IF wait THEN pc' = "join" /\ joined' = running
                       ELSE UNCHANGED <<pc, joined>>
    /\ UNCHANGED <<run_id, running, served, stage, result, workers, accept_task, adbVars>>

\* The page offers "start" when it shows not_started or error.
StartService ==
    /\ pc = "idle"
    /\ status \in {"NotStarted", "Error"}
    /\ pc' = "start"
    /\ UNCHANGED <<status, run_id, running, config, served, joined, then_start,
                   taskVars, adbVars>>

\* It offers "stop" when it last showed running: the run may have ended since.
StopService ==
    /\ pc = "idle"
    /\ status # "Stopping"
    /\ StopServiceImpl(FALSE, config, FALSE)

RestartService ==
    /\ pc = "idle"
    /\ StopServiceImpl(TRUE, config, TRUE)

\* A command that changes the configuration and restarts the service if needed.
Reconfigure(c, restart_needed) ==
    /\ pc = "idle"
    /\ c # config
    /\ IF restart_needed
       THEN StopServiceImpl(TRUE, c, TRUE)
       ELSE /\ config' = c
            /\ UNCHANGED <<status, run_id, running, served, pc, joined, then_start,
                           taskVars, adbVars>>

EnableUsbMode == Reconfigure([config EXCEPT !.transport = "usb"],
                             status \in {"Running", "Starting"})
DisableUsbMode == Reconfigure([config EXCEPT !.transport = "wifi"],
                              status \in {"Running", "Starting"})
\* The page derives the data plane from the codec.
UpdateServiceSettings ==
    \E c \in Codecs :
        Reconfigure([config EXCEPT !.plane = IF c = "pcm16" THEN "legacy_las1" ELSE "v2_header",
                                   !.codec = c],
                    status \in {"Running", "Starting"})

\* (a fault: the rollback is not applied to a service that runs)
SwitchWithoutRestart ==
    Reconfigure([config EXCEPT !.plane = "legacy_las1", !.codec = "pcm16"], FALSE)
SwitchToRollbackMode ==
    Reconfigure([config EXCEPT !.plane = "legacy_las1", !.codec = "pcm16"], running # 0)
RestoreRecommendedMode ==
    Reconfigure([config EXCEPT !.plane = "v2_header", !.codec = "opus"], running # 0)

\* The join handle is ready; the command clears what it waited for.
Joined ==
    /\ pc = "join"
    /\ stage[joined] \in {"ended", "gone"}
    /\ IF run_id = joined
       THEN running' = 0 /\ status' = "NotStarted"
       ELSE UNCHANGED <<running, status>>
    /\ pc' = "release"
    /\ UNCHANGED <<run_id, config, served, joined, then_start, taskVars, adbVars>>

\* stop_service_impl returns and drops the last handle of the service.
Released ==
    /\ pc = "release"
    /\ stage[joined] = "gone"
    /\ pc' = IF then_start THEN "start" ELSE "idle"
    /\ joined' = 0
    /\ UNCHANGED <<status, run_id, running, config, served, then_start, taskVars, adbVars>>

\* start_service_impl up to LanAudioService::new.
StartServiceImpl ==
    /\ pc = "start"
    /\ then_start' = FALSE
    /\ IF status \in {"Running", "Starting"} \/ run_id = MAX_RUN
       THEN pc' = "idle" /\ UNCHANGED <<status, run_id, served>>
       ELSE /\ status' = "Starting"
            /\ run_id' = run_id + 1
            /\ served' = [served EXCEPT ![run_id + 1] = config]
            /\ pc' = IF config.transport = "usb" THEN "adb_ws" ELSE "spawn"
    /\ UNCHANGED <<running, config, joined, taskVars, adbVars>>

\* (a fault: the forward is recorded only when both are set up)
SetupTrackingLate(p, here, next) ==
    /\ pc = here
    /\ \/ /\ adb' = adb \cup {p}
          /\ tracked' = [tracked EXCEPT ![run_id] = IF p = "udp" THEN Ports ELSE {}]
          /\ refused' = refused \ {p}
          /\ pc' = next
       \/ /\ pc' = "abandon"
          /\ UNCHANGED adbVars
    /\ UNCHANGED <<status, run_id, running, config, served, joined, then_start, taskVars>>

\* setup_adb_reverse and track_reverse for one port; adb may fail.
SetupAdbReverse(p, here, next) ==
    /\ pc = here
    /\ \/ /\ adb' = adb \cup {p}
          /\ tracked' = [tracked EXCEPT ![run_id] = @ \cup {p}]
          /\ refused' = refused \ {p}
          /\ pc' = next
       \/ /\ pc' = "abandon"
          /\ UNCHANGED adbVars
    /\ UNCHANGED <<status, run_id, running, config, served, joined, then_start, taskVars>>

\* LanAudioService::new failed: its manager is dropped on the way out.
StartFailed ==
    /\ pc = "abandon"
    /\ tracked[run_id] = {}
    /\ status' = "Error"
    /\ pc' = "idle"
    /\ UNCHANGED <<run_id, running, config, served, joined, then_start, taskVars, adbVars>>

\* The service exists and its task is spawned ...
SpawnTask ==
    /\ pc = "spawn"
    /\ stage' = [stage EXCEPT ![run_id] = "built"]
    /\ pc' = "publish"
    /\ UNCHANGED <<status, run_id, running, config, served, joined, then_start,
                   result, workers, told, accept_task, adbVars>>

\* ... and only then the state says so.
PublishRunning ==
    /\ pc = "publish"
    /\ status' = "Running"
    /\ running' = run_id
    /\ pc' = "idle"
    /\ UNCHANGED <<run_id, config, served, joined, then_start, taskVars, adbVars>>

(***************************************************************************)
(* run_until_shutdown of run r, and the end of its task.                   *)
(***************************************************************************)

Become(r, s) == stage' = [stage EXCEPT ![r] = s]

\* BroadcastTransport::new binds the sockets, the TCP listener only on USB.  It
\* fails when another run, or another program, has the port.
BindFails(r) ==
    /\ stage[r] = "built"
    /\ Become(r, "finished")
    /\ result' = [result EXCEPT ![r] = "err"]
    /\ UNCHANGED <<mainVars, workers, told, accept_task, adbVars>>

\* The workers are spawned, each with its own receiver.
SpawnWorkers(r) ==
    /\ stage[r] = "built"
    /\ \A q \in Runs : /\ "udp" \notin Holds(q)
                       /\ served[r].transport = "usb" => "tcp" \notin Holds(q)
    /\ Become(r, "spawned")
    /\ workers' = [workers EXCEPT ![r] = Workers]
    /\ UNCHANGED <<mainVars, result, told, accept_task, adbVars>>

\* external_stop_rx: the task's own receiver, subscribed last.
SubscribeStop(r) ==
    /\ stage[r] = "spawned"
    /\ Become(r, "select")
    /\ UNCHANGED <<mainVars, result, workers, told, accept_task, adbVars>>

\* BroadcastTransport::run starts the accept task on USB; it resubscribes, so
\* it does not see a signal sent before.
StartAccepting(r) ==
    /\ "transport" \in workers[r]
    /\ served[r].transport = "usb"
    /\ accept_task[r] = "none"
    /\ accept_task' = [accept_task EXCEPT ![r] = "up"]
    /\ UNCHANGED <<mainVars, stage, result, workers, told, adbVars>>

\* The stop signal is read and passed on to every worker.
HearStop(r) ==
    /\ stage[r] = "select"
    /\ "task" \in told[r]
    /\ Become(r, "joining")
    /\ told' = [told EXCEPT ![r] = Receivers(r) \ {"task"}]
    /\ UNCHANGED <<mainVars, result, workers, accept_task, adbVars>>

\* A worker ends when it was told to, or fails (its port is taken, the capture
\* cannot start): the task only logs that.
WorkerEnds(r, w) ==
    /\ w \in workers[r]
    /\ w \in told[r]
    /\ workers' = [workers EXCEPT ![r] = @ \ {w}]
    /\ told' = [told EXCEPT ![r] = @ \ {w}]
    /\ UNCHANGED <<mainVars, stage, result, accept_task, adbVars>>

WorkerFails(r, w) ==
    /\ w \in workers[r] \ told[r]
    /\ workers' = [workers EXCEPT ![r] = @ \ {w}]
    /\ UNCHANGED <<mainVars, stage, result, told, accept_task, adbVars>>

\* (a fault: the accept task takes no notice of a closed channel)
AcceptEndsOnSignal(r) ==
    /\ accept_task[r] = "up"
    /\ "accept" \in told[r]
    /\ accept_task' = [accept_task EXCEPT ![r] = "done"]
    /\ told' = [told EXCEPT ![r] = @ \ {"accept"}]
    /\ UNCHANGED <<mainVars, stage, result, workers, adbVars>>

\* The accept task ends on its signal, or when the service, and with it the
\* channel, is gone.  Nobody waits for it.
AcceptEnds(r) ==
    /\ accept_task[r] = "up"
    /\ "accept" \in told[r] \/ stage[r] = "gone"
    /\ accept_task' = [accept_task EXCEPT ![r] = "done"]
    /\ told' = [told EXCEPT ![r] = @ \ {"accept"}]
    /\ UNCHANGED <<mainVars, stage, result, workers, adbVars>>

\* All workers are joined.
WorkersJoined(r) ==
    /\ stage[r] = "joining"
    /\ workers[r] = {}
    /\ Become(r, "finished")
    /\ UNCHANGED <<mainVars, result, workers, told, accept_task, adbVars>>

\* The task reports how its run ended, unless a newer run has begun.
ReportEnd(r) ==
    /\ stage[r] = "finished"
    /\ Become(r, "ended")
    /\ IF run_id # r
       THEN UNCHANGED <<running, status>>
       ELSE /\ running' = 0
            /\ status' = IF result[r] = "ok" THEN "NotStarted" ELSE "Error"
    /\ UNCHANGED <<run_id, config, served, pc, joined, then_start, result, workers,
                   told, accept_task, adbVars>>

\* Who still has a handle of the service of run r, besides its task.
Held(r) == running = r \/ (pc = "join" /\ joined = r) \/ (pc = "publish" /\ run_id = r)

\* AdbReverseManager::drop: the forwards are removed, the last one first.  The
\* list was taken before, and a removal that adb refuses is only logged.
RemoveForward(r) ==
    LET p == IF "udp" \in tracked[r] THEN "udp" ELSE "ws" IN
    /\ tracked[r] # {}
    /\ \/ stage[r] = "ended" /\ ~Held(r)
       \/ pc = "abandon" /\ run_id = r
    /\ \/ adb' = adb \ {p} /\ refused' = refused \ {p}
       \/ adb' = adb /\ refused' = refused \cup {p}
    /\ tracked' = [tracked EXCEPT ![r] = @ \ {p}]
    /\ UNCHANGED <<mainVars, taskVars>>

\* With the service go its configuration and its channel.
ServiceDropped(r) ==
    /\ stage[r] = "ended"
    /\ ~Held(r)
    /\ tracked[r] = {}
    /\ Become(r, "gone")
    /\ served' = [served EXCEPT ![r] = DefaultConfig]
    /\ result' = [result EXCEPT ![r] = "ok"]
    /\ UNCHANGED <<status, run_id, running, config, pc, joined, then_start, workers,
                   told, accept_task, adbVars>>

-----------------------------------------------------------------------------
Command ==
    \/ StartService \/ StopService \/ RestartService
    \/ EnableUsbMode \/ DisableUsbMode \/ UpdateServiceSettings
    \/ SwitchToRollbackMode \/ RestoreRecommendedMode

MainThread ==
    \/ Joined \/ Released \/ StartServiceImpl
    \/ SetupAdbReverse("ws", "adb_ws", "adb_udp") \/ SetupAdbReverse("udp", "adb_udp", "spawn")
    \/ StartFailed \/ SpawnTask \/ PublishRunning

Task(r) ==
    \/ SpawnWorkers(r) \/ SubscribeStop(r) \/ HearStop(r) \/ WorkersJoined(r)
    \/ ReportEnd(r) \/ RemoveForward(r) \/ ServiceDropped(r)

Failure(r) == BindFails(r) \/ \E w \in {"transport", "session"} : WorkerFails(r, w)

Next == \/ Command
        \/ MainThread
        \/ \E r \in Runs : \/ Task(r)
                          \/ StartAccepting(r)
                          \/ AcceptEnds(r)
                          \/ \E w \in Workers : WorkerEnds(r, w)
                          \/ Failure(r)

Spec == Init /\ [][Next]_vars

\* The main thread and the runtime keep running; nothing is assumed about the
\* user or about failures.
Fairness == /\ WF_vars(MainThread)
            /\ \A r \in Runs : /\ WF_vars(Task(r))
                               /\ WF_vars(AcceptEnds(r))
                               /\ \A w \in Workers : WF_vars(WorkerEnds(r, w))

FairSpec == Spec /\ Fairness

(***************************************************************************)
(* Properties.                                                             *)
(***************************************************************************)

\* At most one run is between its start and its end, whatever the user presses
\* while a run is stopping: commands that restart wait for the old task
\* (stop_service_impl with wait), and the page offers no start meanwhile.
OneRunAtATime == \A r, q \in Runs : Alive(r) /\ Alive(q) => r = q

\* When a service is constructed no earlier run owns the UDP socket or the
\* websocket port any more.  A TCP listener may still be held by an accept task,
\* which nobody joins, so that a restart on USB can fail at "bind tcp transport";
\* but only by that of a run that has returned, whose channel closes with it.
PortsFreeOnStart ==
    pc \in {"start", "adb_ws", "adb_udp", "spawn"} =>
        \A r \in Runs :
            \/ Holds(r) = {}
            \/ Holds(r) = {"tcp"} /\ stage[r] \in {"ended", "gone"}

\* And the listener does come free: a run that has ended holds no port for ever,
\* although an accept task that subscribed after the signal never hears one.
PortsComeFree == \A r \in Runs : stage[r] = "ended" ~> Holds(r) = {}

\* The state shown to the user follows the newest run: while its task lives and
\* no command is under way, the service is shown as running or stopping and
\* can be stopped; the end of an older run does not touch it.
NewestRunShown ==
    \A r \in Runs : Alive(r) /\ pc = "idle" => running = r /\ status \in {"Running", "Stopping"}

\* What the snapshot reads from the configuration and what it reads from the
\* running service agree: every command that changes the data plane of a
\* running service has restarted it when the next snapshot is taken.
SnapshotConsistent ==
    pc = "idle" /\ status = "Running" =>
        /\ Snapshot.active_data_plane = ActivePath(config)
        /\ Snapshot.transport = served[running].transport
        /\ Snapshot.rollback_state = "forced" <=> ~Snapshot.rollback_available

\* No forward stays behind on the phone unless adb itself refused to remove it:
\* each other one belongs to a manager that will try, also when the second of the
\* two could not be set up.
ForwardsOwned == adb \subseteq (UNION {tracked[r] : r \in Runs}) \cup refused

\* A run that has read its stop signal ends, and its service is released.
StopEndsRun == \A r \in Runs : stage[r] = "joining" ~> stage[r] = "gone"

\* "service is stopping; try again shortly" (orchestrator.rs): stopping is a
\* passing state.  But a signal sent before the task subscribed, or after a task
\* that ended before its command published it, is lost.
StoppingPasses == status = "Stopping" ~> status # "Stopping"
=============================================================================
