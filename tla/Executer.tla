------------------------------ MODULE Executer ------------------------------
(***************************************************************************)
(* One experiment of bm-runner: a number of calls of Executer.exec_all and *)
(* collect_results, over the execution units (native processes or          *)
(* containers), the plugins and the monitors of the configuration          *)
(* (bm_executer.py, bm_process.py, bm_container.py, config/plugin.py and   *)
(* monitors/).                                                             *)
(*                                                                         *)
(* The runner is sequential; what makes it hard is everything around it.   *)
(* Units, plugins and monitors are processes that end when they like, and  *)
(* an exception or sys.exit may leave any of its loops: the `finally' of   *)
(* exec_all then runs cleanup, in which an exception abandons the rest.    *)
(***************************************************************************)
EXTENDS Naturals, FiniteSets

CONSTANTS
    NUnits,       \* number of execution units of a run
    ExecTypes,    \* the execution types of the configuration: "native"
                  \* (Processes), "container" (Containers) or both
    UsesPorts,    \* TRUE iff the configuration has a port_start
    EnvRetries,   \* TRUE iff RETRY_COUNT is a positive number in the runner's
                  \* environment, where bm_executer.py does not put it
    NPlugins,     \* length of the list of plugins
    exec_time,    \* exec_time[p]: "pre", "post", "cleanup" or "with"
    force_stop,   \* force_stop[p]: kill the plugin, or wait for it to end
    Pollers,      \* the plugins that end only after having seen the start file
    NMonitors,    \* length of the list of monitors
    Waited,       \* the monitors whose stop() waits for the process to end
    MaxRuns       \* number of runs of the experiment

Units == 1..NUnits
Plugins == 1..NPlugins
Monitors == 1..NMonitors

ASSUME ExecuterAssumption ==
    /\ NUnits \in Nat \ {0} /\ NPlugins \in Nat /\ NMonitors \in Nat
    /\ MaxRuns \in Nat \ {0}
    /\ ExecTypes \subseteq {"native", "container"}
    /\ UsesPorts \in BOOLEAN /\ EnvRetries \in BOOLEAN
    /\ exec_time \in [Plugins -> {"pre", "post", "cleanup", "with"}]
    /\ force_stop \in [Plugins -> BOOLEAN]
    /\ Pollers \subseteq Plugins /\ Waited \subseteq Monitors

VARIABLES
    pc,         \* the loop or the statement the runner is at
    idx,        \* the position in that loop
    raised,     \* an exception is pending while cleanup runs
    exec_type,  \* "native" or "container"
    run,        \* the number of the run, 1..MaxRuns
    unit,       \* the state of every execution unit
    output,     \* the run that wrote the unit's output file, 0 if none did
    startFile,  \* START_FILE exists
    plugin,     \* the state of the last process of every plugin
    called,     \* the plugins that execute() launched in this run
    monitor,    \* the state of every monitor
    collected   \* what collect_results returned: the runs its lines are from

vars == <<pc, idx, raised, exec_type, run, unit, output, startFile, plugin, called,
          monitor, collected>>
OutsideWorld == <<unit, output, startFile, plugin, called, monitor>>

(***************************************************************************)
(* The states of a unit.  "none" has not been launched in this run (a      *)
(* Process has no attribute `process', there is no container of the name), *)
(* "leftover" is a container of an earlier, aborted experiment, "swept" one *)
(* that cleanup removed, "created" one that docker created and could not   *)
(* start.  A launched unit polls for the start file, runs its application  *)
(* and ends with 0 or not.                                                 *)
(***************************************************************************)
Alive == {"polling", "app"}
UnitStates == Alive \cup {"none", "leftover", "swept", "created", "ok", "failed", "gone"}
PluginStates == {"none", "running", "ended", "killed"}
MonitorStates == {"none", "running", "stopping", "stopped"}

Body == {"exec", "pre", "monitors", "touch", "post", "wait"}
Cleanup == {"stop", "unlink", "stop_monitors", "cleanup", "stop_plugins"}

\* exec_all ended: with a result, with the exception of its body, or with an
\* exception of cleanup, one of which is psutil.AccessDenied ("denied").
Ended == {"returned", "exited", "aborted", "denied"}

TypeOK ==
    /\ pc \in Body \cup Cleanup \cup {"collect"} \cup Ended
    /\ idx \in Nat \ {0} /\ raised \in BOOLEAN
    /\ exec_type \in {"native", "container"} /\ run \in 1..MaxRuns
    /\ unit \in [Units -> UnitStates] /\ output \in [Units -> 0..MaxRuns]
    /\ startFile \in BOOLEAN
    /\ plugin \in [Plugins -> PluginStates] /\ called \subseteq Plugins
    /\ monitor \in [Monitors -> MonitorStates]
    /\ collected \in [Units -> 0..MaxRuns]

\* Executer.__init__ of the first run.  Containers an earlier experiment left
\* behind have the names of this experiment's units.
Init ==
    /\ pc = "exec" /\ idx = 1 /\ raised = FALSE /\ run = 1
    /\ exec_type \in ExecTypes
    /\ unit \in [Units -> IF exec_type = "native" THEN {"none"}
                                                 ELSE {"none", "leftover"}]
    /\ output = [u \in Units |-> 0]
    /\ startFile = FALSE
    /\ plugin = [p \in Plugins |-> "none"] /\ called = {}
    /\ monitor = [m \in Monitors |-> "none"]
    /\ collected = [u \in Units |-> 0]

-----------------------------------------------------------------------------
(***************************************************************************)
(* Control: the loops of the runner, and how exceptions leave them.        *)
(***************************************************************************)
\* Fault variant: a loop begins one before the first element.
GotoZero(label) == pc' = label /\ idx' = 0 /\ UNCHANGED <<raised, exec_type, run, collected>>

Goto(label) == pc' = label /\ idx' = 1 /\ UNCHANGED <<raised, exec_type, run, collected>>

NextIndex == idx' = idx + 1 /\ UNCHANGED <<pc, raised, exec_type, run, collected>>

\* Fault variant: after an exception the launched units are not stopped.
RaiseKeepsUnits ==
    /\ pc' = IF pc \in Body THEN "unlink" ELSE "aborted"
    /\ idx' = 1 /\ raised' = TRUE /\ UNCHANGED <<exec_type, run, collected>>

\* An exception or sys.exit in the body of exec_all runs cleanup; one in
\* cleanup leaves exec_all at once.
Raise ==
    /\ pc' = IF pc \in Body THEN "stop" ELSE "aborted"
    /\ idx' = 1 /\ raised' = TRUE /\ UNCHANGED <<exec_type, run, collected>>

LoopLength(label) ==
    CASE label \in {"exec", "wait", "stop"} -> NUnits
      [] label \in {"pre", "post", "cleanup", "stop_plugins"} -> NPlugins
      [] label \in {"monitors", "stop_monitors"} -> NMonitors

\* Fault variant: the start file is touched before the monitors are started.
FollowingTouchFirst == [exec |-> "pre", pre |-> "touch", monitors |-> "wait",
              post |-> "monitors", wait |-> "stop", stop |-> "unlink",
              stop_monitors |-> "cleanup", cleanup |-> "stop_plugins"]

Following == [exec |-> "pre", pre |-> "monitors", monitors |-> "touch",
              post |-> "wait", wait |-> "stop", stop |-> "unlink",
              stop_monitors |-> "cleanup", cleanup |-> "stop_plugins"]

\* A loop of exec_all, signal_start or cleanup is over.
LoopDone ==
    /\ pc \in DOMAIN Following /\ idx > LoopLength(pc)
    /\ Goto(Following[pc])
    /\ UNCHANGED OutsideWorld

\* cleanup is over: exec_all returns, or its exception goes on.
CleanupDone ==
    /\ pc = "stop_plugins" /\ idx > NPlugins
    /\ Goto(IF raised THEN "exited" ELSE "collect")
    /\ UNCHANGED OutsideWorld

\* The user interrupts the body of exec_all (KeyboardInterrupt).
Interrupt == pc \in Body /\ Raise /\ UNCHANGED OutsideWorld

-----------------------------------------------------------------------------
(***************************************************************************)
(* Launching the units.                                                    *)
(***************************************************************************)

\* CMD_WHILE_NOT_START is `for i in $(seq 1 $((10 * RETRY_COUNT)))': the
\* braces around RETRY_COUNT are missing, so the shell looks the name up, and
\* without such a variable the loop has no iteration.  A native unit inherits
\* the runner's environment, a container does not.
FirstState == IF EnvRetries /\ exec_type = "native" THEN "polling" ELSE "app"

InLaunchLoop == pc = "exec" /\ idx \in Units

\* is_port_free_to_use says no: sys.exit(1).
PortInUse == InLaunchLoop /\ UsesPorts /\ Raise /\ UNCHANGED OutsideWorld

\* Process.exec: opens (and so empties) the output file, then starts the shell.
ExecProcess ==
    /\ InLaunchLoop /\ exec_type = "native"
    /\ unit' = [unit EXCEPT ![idx] = FirstState]
    /\ output' = [output EXCEPT ![idx] = run]
    /\ NextIndex
    /\ UNCHANGED <<startFile, plugin, called, monitor>>

\* Container.exec: a container of that name is removed, then a new one runs.
\* Its application starts at once, and the redirection empties the output file.
ExecContainer ==
    /\ InLaunchLoop /\ exec_type = "container"
    /\ unit' = [unit EXCEPT ![idx] = FirstState]
    /\ output' = [output EXCEPT ![idx] = run]
    /\ NextIndex
    /\ UNCHANGED <<startFile, plugin, called, monitor>>

\* `if not ret: break': no further unit is launched, the start signal is given.
LaunchBreaks == Goto("pre")

\* Docker reports an error once the container runs: __wait_status, __log_status
\* and add_nic are in the same try as containers.run.  exec returns False, and
\* the application goes on.
StartNotConfirmed ==
    /\ InLaunchLoop /\ exec_type = "container"
    /\ unit' = [unit EXCEPT ![idx] = FirstState]
    /\ output' = [output EXCEPT ![idx] = run]
    /\ LaunchBreaks
    /\ UNCHANGED <<startFile, plugin, called, monitor>>

\* containers.run raises APIError, before or after creating the container.
ContainerNotStarted ==
    /\ InLaunchLoop /\ exec_type = "container"
    /\ \E s \in {"none", "created"} : unit' = [unit EXCEPT ![idx] = s]
    /\ LaunchBreaks
    /\ UNCHANGED <<output, startFile, plugin, called, monitor>>

\* The old container cannot be stopped: an APIError outside the try of __start.
OldContainerNotStopped ==
    /\ InLaunchLoop /\ unit[idx] = "leftover"
    /\ Raise /\ UNCHANGED OutsideWorld

-----------------------------------------------------------------------------
(***************************************************************************)
(* The units themselves: shells that wait for the start file and then run  *)
(* the application.                                                        *)
(***************************************************************************)
Control == <<pc, idx, raised, exec_type, run, collected>>

\* The polling loop ends: the start file exists, or the retries are used up.
UnitStarts(u) ==
    /\ unit[u] = "polling"
    /\ unit' = [unit EXCEPT ![u] = "app"]
    /\ UNCHANGED <<Control, output, startFile, plugin, called, monitor>>

UnitEnds(u) ==
    /\ unit[u] = "app"
    /\ \E s \in {"ok", "failed"} : unit' = [unit EXCEPT ![u] = s]
    /\ UNCHANGED <<Control, output, startFile, plugin, called, monitor>>

-----------------------------------------------------------------------------
(***************************************************************************)
(* Plugins.                                                                *)
(***************************************************************************)
AtPlugin(label) == pc = label /\ idx \in Plugins

\* __call_plugins passes over the plugins of another exec_time.
SkipPlugin ==
    /\ pc \in {"pre", "post", "cleanup"} /\ idx \in Plugins /\ exec_time[idx] # pc
    /\ NextIndex /\ UNCHANGED OutsideWorld

\* Plugin.execute: the process is started, and poll() finds it running.
ExecutePlugin ==
    /\ pc \in {"pre", "post", "cleanup"} /\ idx \in Plugins /\ exec_time[idx] = pc
    /\ plugin' = [plugin EXCEPT ![idx] = "running"]
    /\ called' = called \cup {idx}
    /\ NextIndex
    /\ UNCHANGED <<unit, output, startFile, monitor>>

\* A plugin of this kind may end before the start file exists.
MayEnd(p) == p \in Pollers => startFile

\* Plugin.execute when poll() finds that the process has ended, be it with 0:
\* "Could not launch", sys.exit(1).
PluginEndedAtOnce ==
    /\ pc \in {"pre", "post", "cleanup"} /\ idx \in Plugins /\ exec_time[idx] = pc
    /\ MayEnd(idx)
    /\ plugin' = [plugin EXCEPT ![idx] = "ended"]
    /\ called' = called \cup {idx}
    /\ Raise
    /\ UNCHANGED <<unit, output, startFile, monitor>>

PluginEnds(p) ==
    /\ plugin[p] = "running" /\ MayEnd(p)
    /\ plugin' = [plugin EXCEPT ![p] = "ended"]
    /\ UNCHANGED <<Control, unit, output, startFile, called, monitor>>

\* Fault variant: the process is never killed.
KillsNever(p) == FALSE

\* stop_process is called, for a plugin that has a process.
Kills(p) == force_stop[p] /\ plugin[p] # "none"

\* Plugin.stop: kills the process, or waits until it has ended.
StopPlugin ==
    /\ AtPlugin("stop_plugins")
    /\ \/ /\ Kills(idx)
          /\ plugin' = [plugin EXCEPT ![idx] = IF @ = "running" THEN "killed" ELSE @]
       \/ /\ ~ Kills(idx) /\ plugin[idx] # "running"
          /\ UNCHANGED plugin
    /\ NextIndex
    /\ UNCHANGED <<unit, output, startFile, called, monitor>>

\* The same abandoned kill for a plugin: its process goes on, and the next
\* execute() forgets it.
KillPluginAbandoned ==
    /\ AtPlugin("stop_plugins")
    /\ Kills(idx) /\ plugin[idx] = "running"
    /\ NextIndex /\ UNCHANGED OutsideWorld

\* A process of the plugin is another user's: psutil.AccessDenied is not caught.
KillPluginRefused ==
    /\ AtPlugin("stop_plugins")
    /\ Kills(idx) /\ plugin[idx] = "running"
    /\ Raise /\ UNCHANGED OutsideWorld

-----------------------------------------------------------------------------
(***************************************************************************)
(* Monitors and the start file.                                            *)
(***************************************************************************)
StartMonitor ==
    /\ pc = "monitors" /\ idx \in Monitors
    /\ monitor' = [monitor EXCEPT ![idx] = "running"]
    /\ NextIndex
    /\ UNCHANGED <<unit, output, startFile, plugin, called>>

\* signal_start: touch START_FILE.
TouchStartFile ==
    /\ pc = "touch"
    /\ startFile' = TRUE
    /\ Goto("post")
    /\ UNCHANGED <<unit, output, plugin, called, monitor>>

\* stop() sends SIGINT to a monitor that was started.  Those in Waited wait
\* for the process; MpstatCmd.stop does not.
StopMonitor ==
    /\ pc = "stop_monitors" /\ idx \in Monitors
    /\ monitor' = [monitor EXCEPT ![idx] =
                       IF @ # "running" THEN @
                       ELSE IF idx \in Waited THEN "stopped" ELSE "stopping"]
    /\ NextIndex
    /\ UNCHANGED <<unit, output, startFile, plugin, called>>

\* The signal is not permitted (perf runs under sudo), or what stop() makes of
\* the measurements fails (FlameGraph, SarNetStats).
StopMonitorFails ==
    /\ pc = "stop_monitors" /\ idx \in Monitors /\ monitor[idx] = "running"
    /\ \E s \in {"running", "stopped"} : monitor' = [monitor EXCEPT ![idx] = s]
    /\ Raise
    /\ UNCHANGED <<unit, output, startFile, plugin, called>>

\* The process writes the end of its output and ends.
MonitorEnds(m) ==
    /\ monitor[m] = "stopping"
    /\ monitor' = [monitor EXCEPT ![m] = "stopped"]
    /\ UNCHANGED <<Control, unit, output, startFile, plugin, called>>

-----------------------------------------------------------------------------
(***************************************************************************)
(* Waiting for the units, cleanup, results.                                *)
(***************************************************************************)

\* Fault variant: the exit code is not looked at.
EndedWellWhateverCode(u) == unit[u] \in {"ok", "failed", "created", "none", "leftover"}

\* The process or container has ended with 0; a container of an earlier
\* experiment that the launch loop did not come to may have, too.
EndedWell(u) == unit[u] \in {"ok", "leftover"}

WaitUnit ==
    /\ pc = "wait" /\ idx \in Units
    /\ EndedWell(idx)
    /\ NextIndex /\ UNCHANGED OutsideWorld

\* A non-zero code (sys.exit), or no container of that name (NotFound).
WaitFails ==
    /\ pc = "wait" /\ idx \in Units
    /\ unit[idx] \in {"failed", "created", "none", "leftover"}
    /\ Raise /\ UNCHANGED OutsideWorld

\* ExecutionUnit.stop: the process tree is killed, the container is stopped
\* and removed; a container that does not exist is passed over.
StopUnit ==
    /\ pc = "stop" /\ idx \in Units
    /\ exec_type = "native" => unit[idx] # "none"
    /\ unit' = [unit EXCEPT ![idx] = CASE @ = "none"     -> "none"
                                       [] @ = "leftover" -> "swept"
                                       [] OTHER          -> "gone"]
    /\ NextIndex
    /\ UNCHANGED <<output, startFile, plugin, called, monitor>>

\* stop_process of a native unit that still runs: one of the listed children
\* has ended by the time it is to be killed, and NoSuchProcess leaves the loop
\* before the rest of the tree and the shell itself are killed.  (A unit that
\* has been waited for has no process any more.)
KillAbandoned ==
    /\ pc = "stop" /\ idx \in Units
    /\ exec_type = "native" /\ unit[idx] \in Alive
    /\ NextIndex /\ UNCHANGED OutsideWorld

\* A process of the unit is another user's (the application uses sudo):
\* psutil.AccessDenied is not caught and leaves cleanup.
KillRefused ==
    /\ pc = "stop" /\ idx \in Units
    /\ exec_type = "native" /\ unit[idx] \in Alive
    /\ pc' = "denied" /\ idx' = 1 /\ raised' = TRUE
    /\ UNCHANGED <<exec_type, run, collected, OutsideWorld>>

\* Process.stop of a unit that was never launched: there is no attribute
\* `process', the AttributeError leaves cleanup.
StopUnlaunchedProcess ==
    /\ pc = "stop" /\ idx \in Units
    /\ exec_type = "native" /\ unit[idx] = "none"
    /\ Raise /\ UNCHANGED OutsideWorld

\* Container.stop when docker answers with an error other than NotFound.
ContainerNotStopped ==
    /\ pc = "stop" /\ idx \in Units
    /\ exec_type = "container" /\ unit[idx] # "none"
    /\ Raise /\ UNCHANGED OutsideWorld

\* Fault variant: the start file is left in place.
KeepStartFile == startFile

\* os.remove(start_file), if it exists.
StartFileAfterUnlink == FALSE

UnlinkStartFile ==
    /\ pc = "unlink"
    /\ startFile' = StartFileAfterUnlink
    /\ Goto("stop_monitors")
    /\ UNCHANGED <<unit, output, plugin, called, monitor>>

\* collect_results: the output file of every unit is read.
CollectResults ==
    /\ pc = "collect"
    /\ collected' = output
    /\ pc' = "returned"
    /\ UNCHANGED <<idx, raised, exec_type, run, OutsideWorld>>

\* The next single_run makes a new Executer with new units and monitors; the
\* plugins are those of g_config.
NextRun ==
    /\ pc = "returned" /\ run < MaxRuns
    /\ pc' = "exec" /\ idx' = 1 /\ raised' = FALSE /\ run' = run + 1
    /\ unit' = [u \in Units |-> "none"]
    /\ monitor' = [m \in Monitors |-> "none"]
    /\ called' = {}
    /\ collected' = [u \in Units |-> 0]
    /\ UNCHANGED <<exec_type, output, startFile, plugin>>

-----------------------------------------------------------------------------
\* exec_all and collect_results, as the runner executes them.
RunnerStep ==
    \/ PortInUse \/ ExecProcess \/ ExecContainer \/ ContainerNotStarted
    \/ StartNotConfirmed \/ OldContainerNotStopped
    \/ SkipPlugin \/ ExecutePlugin \/ PluginEndedAtOnce \/ StartMonitor
    \/ TouchStartFile \/ WaitUnit \/ WaitFails
    \/ StopUnit \/ KillAbandoned \/ KillRefused \/ StopUnlaunchedProcess
    \/ ContainerNotStopped \/ UnlinkStartFile \/ StopMonitor \/ StopMonitorFails
    \/ StopPlugin \/ KillPluginAbandoned \/ KillPluginRefused
    \/ LoopDone \/ CleanupDone \/ CollectResults \/ NextRun

Next ==
    \/ RunnerStep \/ Interrupt
    \/ \E u \in Units : UnitStarts(u) \/ UnitEnds(u)
    \/ \E p \in Plugins : PluginEnds(p)
    \/ \E m \in Monitors : MonitorEnds(m)

Spec == Init /\ [][Next]_vars

\* The runner goes on when it can; applications and the plugins the runner
\* waits for are programs that end.
FairSpec ==
    /\ Spec
    /\ WF_vars(RunnerStep)
    /\ \A u \in Units : WF_vars(UnitStarts(u)) /\ WF_vars(UnitEnds(u))
    /\ \A p \in Plugins : WF_vars(PluginEnds(p))
    /\ \A m \in Monitors : WF_vars(MonitorEnds(m))

-----------------------------------------------------------------------------
(***************************************************************************)
(* Properties.                                                             *)
(***************************************************************************)

\* What cleanup guarantees when it is run to the end, whatever happened before:
\* the start file is gone, no monitor has been left running, all the CLEANUP
\* plugins have been called, no container is left, and nothing is left of a run
\* that was not interrupted but plugins of the force_stop kind.  Only what
\* stop_process is for may survive (Executer.cleanup, stop_process).
NothingLeft ==
    pc \in {"collect", "returned", "exited"} =>
        /\ \A u \in Units : unit[u] \in {"none", "gone", "swept"} \/
                             (pc = "exited" /\ exec_type = "native")
        /\ ~ startFile
        /\ \A p \in Plugins : plugin[p] = "running" => force_stop[p]
        /\ \A m \in Monitors : monitor[m] # "running"
        /\ \A p \in Plugins : exec_time[p] = "cleanup" => p \in called

\* Every line that collect_results returns was written by this run's unit,
\* although output files keep their names from run to run and the launch loop
\* may stop half way (exec_all's break, ExecutionUnit.get_output).  The one way
\* to a line of somebody else: docker reports an error about a container that
\* runs, and in the place of a unit after it there still is a container of an
\* earlier experiment, which had ended with 0.  It is never the first unit.
ResultsFresh ==
    pc = "returned" =>
        \A u \in Units : collected[u] = run \/ (u > 1 /\ unit[u] = "swept")

\* The start file exists only while the monitors are measuring and after the
\* PRE plugins were launched; POST plugins are launched under it
\* (Executer.signal_start).
SignalOrder ==
    /\ startFile /\ pc \in {"post", "wait"} =>
           /\ \A m \in Monitors : monitor[m] = "running"
           /\ \A p \in Plugins : exec_time[p] = "pre" => p \in called
    /\ \A p \in called : exec_time[p] = "post" /\ pc \in Body => startFile

\* A run of native processes never leaves the start file behind, not even when
\* an exception abandons cleanup: it would release the units of a later run
\* (Executer.cleanup, Process.stop).  That is so for units whose processes the
\* runner may kill.
StartFileNotLeaked ==
    exec_type = "native" /\ pc \in Ended \ {"denied"} => ~ startFile

\* exec_all ends, however the units and plugins behave, provided that plugins
\* that wait for the start file are force_stop (Plugin.stop).
RunnerEnds == []<>(pc \in Ended)

\* "waiting for start signal": a unit does not run its application before the
\* start file exists (bm_container.py:206, bm_executer.py:146).
AppAwaitsStart ==
    [][\A u \in Units : unit[u] # "app" /\ unit'[u] = "app" => startFile]_vars

\* A CLEANUP plugin is called after the benchmark is finished or interrupted
\* (config/plugin.py:24).
CleanupAlwaysCalled ==
    pc \in Ended => \A p \in Plugins : exec_time[p] = "cleanup" => p \in called

-----------------------------------------------------------------------------
(***************************************************************************)
(* The inductive invariant behind NothingLeft, StartFileNotLeaked,         *)
(* ResultsFresh and SignalOrder.                                           *)
(***************************************************************************)

\* The runner has passed element i of the cleanup loop at `label'.
Later == [stop          |-> {"unlink", "stop_monitors", "cleanup", "stop_plugins"},
          unlink        |-> {"stop_monitors", "cleanup", "stop_plugins"},
          stop_monitors |-> {"cleanup", "stop_plugins"},
          cleanup       |-> {"stop_plugins"},
          stop_plugins  |-> {}]
Past(label, i) ==
    \/ pc = label /\ i < idx
    \/ pc \in Later[label] \cup {"collect", "returned", "exited"}

\* What each loop of cleanup has done to the elements it has passed.
CleanupInv ==
    /\ pc \in Body \cup {"collect", "returned"} => ~ raised
    /\ pc = "stop" /\ ~ raised =>
          \A u \in Units : unit[u] \in {"ok", "gone", "leftover", "swept"}
    /\ pc = "exited" => raised
    /\ \A u \in Units : Past("stop", u) =>
          unit[u] \in {"none", "gone", "swept"} \/ (raised /\ exec_type = "native")
    /\ Past("unlink", 1) => ~ startFile
    /\ \A m \in Monitors : Past("stop_monitors", m) => monitor[m] # "running"
    /\ \A p \in Plugins : Past("cleanup", p) /\ exec_time[p] = "cleanup" => p \in called
    /\ \A p \in Plugins :
          Past("stop_plugins", p) /\ plugin[p] = "running" => force_stop[p]

\* The start file comes after the last unit was launched, and a native unit
\* once launched stays launched: an unlaunched one means no start file.
LaunchInv ==
    /\ pc \in {"exec", "pre", "monitors", "touch"} => ~ startFile
    /\ exec_type = "native" =>
          /\ pc = "exec" => \A u \in Units : u < idx => unit[u] # "none"
          /\ pc \in Body \ {"exec"} => \A u \in Units : unit[u] # "none"
          /\ pc = "stop" /\ startFile => \A u \in Units : unit[u] # "none"
          /\ pc = "aborted" => ~ startFile

\* Launched units have emptied their output files in this run.  The launch loop
\* comes to the first unit before it can stop early, and what it does not come to
\* makes wait fail unless it is a container of an earlier experiment; so without
\* an exception every other output file is of this run.
Launched == Alive \cup {"ok", "failed"}
Old == {"leftover", "swept"}
FreshInv ==
    /\ \A u \in Units : unit[u] \in Launched => output[u] = run
    /\ pc = "exec" => \A u \in Units : u < idx => unit[u] \in Launched
    /\ pc \in Body \cup {"stop"} =>
          \A u \in Units : unit[u] = "swept" => pc = "stop" /\ u < idx
    /\ pc \in Body \ {"exec"} => unit[1] # "leftover"
    /\ pc = "wait" => \A u \in Units : u < idx => unit[u] \in {"ok", "leftover"}
    /\ (pc \in Cleanup /\ ~ raised) \/ pc \in {"collect", "returned"} =>
          /\ unit[1] \notin Old
          /\ \A u \in Units : unit[u] \in Old \/ output[u] = run
    /\ ResultsFresh

\* What the loops of exec_all and signal_start have done when the start file is
\* touched: the PRE plugins first, then the monitors, no POST plugin before it.
SignalInv ==
    /\ pc = "pre" =>
          \A p \in Plugins : p < idx /\ exec_time[p] = "pre" => p \in called
    /\ pc \in {"monitors", "touch", "post", "wait"} =>
          \A p \in Plugins : exec_time[p] = "pre" => p \in called
    /\ pc = "monitors" => \A m \in Monitors : m < idx => monitor[m] = "running"
    /\ pc \in {"touch", "post", "wait"} => \A m \in Monitors : monitor[m] = "running"
    /\ pc \in {"exec", "pre", "monitors", "touch"} =>
          \A p \in called : exec_time[p] # "post"
    /\ pc \in {"post", "wait"} => startFile

IInv == TypeOK /\ CleanupInv /\ LaunchInv /\ FreshInv /\ SignalInv
=============================================================================
