--------------------------- MODULE ExecuterProofs ---------------------------
(***************************************************************************)
(* Proofs about Executer, for any number of units, plugins, monitors and   *)
(* runs and both execution types.                                          *)
(***************************************************************************)
EXTENDS Executer, TLAPS

USE ExecuterAssumption

-----------------------------------------------------------------------------
(* The initial states. *)

LEMMA InitIInv == Init => IInv
<1> SUFFICES ASSUME Init PROVE IInv
  OBVIOUS
<1>1. TypeOK
  <2>1. startFile \in BOOLEAN /\ raised \in BOOLEAN
    BY DEF Init
  <2>. QED
    BY <2>1 DEF Init, TypeOK, UnitStates, Alive, PluginStates, MonitorStates, Body
<1>2. CleanupInv
  BY DEF Init, CleanupInv, Past, Later
<1>3. LaunchInv
  BY DEF Init, LaunchInv, Units, Body
<1>4. FreshInv
  <2>1. \A u \in Units : unit[u] \in {"none", "leftover"} /\ u >= 1
    BY DEF Init, Units
  <2>2. pc = "exec" /\ idx = 1
    BY DEF Init
  <2>. QED
    BY <2>1, <2>2 DEF FreshInv, ResultsFresh, Launched, Alive, Units, Body, Cleanup
<1>5. SignalInv
  BY DEF Init, SignalInv, Plugins
<1>. QED
  BY <1>1, <1>2, <1>3, <1>4, <1>5 DEF IInv

-----------------------------------------------------------------------------
(* Every step preserves the invariant, one conjunct at a time. *)

\* The states of units, plugins and monitors are what TypeOK says.
LEMMA TypeStep == IInv /\ [Next]_vars => TypeOK'
<1>1. SUFFICES ASSUME IInv, [Next]_vars PROVE TypeOK'
  OBVIOUS
<1> USE DEF IInv, TypeOK, UnitStates, Alive, PluginStates, MonitorStates,
  Body, Cleanup, Ended
<1>2. CASE PortInUse
  BY <1>1, <1>2 DEF PortInUse, InLaunchLoop, Raise, OutsideWorld
<1>3. CASE ExecProcess
  BY <1>1, <1>3 DEF ExecProcess, InLaunchLoop, FirstState, NextIndex
<1>4. CASE ExecContainer
  BY <1>1, <1>4 DEF ExecContainer, InLaunchLoop, FirstState, NextIndex
<1>5. CASE ContainerNotStarted
  BY <1>1, <1>5 DEF ContainerNotStarted, InLaunchLoop, LaunchBreaks, Goto
<1>6. CASE OldContainerNotStopped
  BY <1>1, <1>6 DEF OldContainerNotStopped, InLaunchLoop, Raise, OutsideWorld
<1>7. CASE SkipPlugin
  BY <1>1, <1>7 DEF SkipPlugin, NextIndex, OutsideWorld
<1>8. CASE ExecutePlugin
  <2>1. plugin' \in [Plugins -> PluginStates] /\ called' \subseteq Plugins
    BY <1>1, <1>8 DEF ExecutePlugin, PluginStates
  <2>2. idx' \in Nat \ {0} /\ pc' = pc
    BY <1>1, <1>8 DEF ExecutePlugin, NextIndex
  <2>. QED
    BY <1>1, <1>8, <2>1, <2>2 DEF ExecutePlugin, NextIndex
<1>9. CASE PluginEndedAtOnce
  BY <1>1, <1>9 DEF PluginEndedAtOnce, Raise, MayEnd
<1>10. CASE StartMonitor
  BY <1>1, <1>10 DEF StartMonitor, NextIndex
<1>11. CASE TouchStartFile
  BY <1>1, <1>11 DEF TouchStartFile, Goto
<1>12. CASE WaitUnit
  BY <1>1, <1>12 DEF WaitUnit, NextIndex, OutsideWorld
<1>13. CASE WaitFails
  BY <1>1, <1>13 DEF WaitFails, Raise, OutsideWorld
<1>14. CASE StopUnit
  BY <1>1, <1>14 DEF StopUnit, NextIndex
<1>15. CASE StopUnlaunchedProcess
  BY <1>1, <1>15 DEF StopUnlaunchedProcess, Raise, OutsideWorld
<1>16. CASE ContainerNotStopped
  BY <1>1, <1>16 DEF ContainerNotStopped, Raise, OutsideWorld
<1>17. CASE UnlinkStartFile
  <2>1. startFile' \in BOOLEAN
    BY <1>17 DEF UnlinkStartFile, StartFileAfterUnlink
  <2>. QED
    BY <1>1, <1>17, <2>1 DEF UnlinkStartFile, Goto
<1>18. CASE StopMonitor
  BY <1>1, <1>18 DEF StopMonitor, NextIndex
<1>19. CASE StopPlugin
  BY <1>1, <1>19 DEF StopPlugin, AtPlugin, Kills, NextIndex
<1>20. CASE LoopDone
  BY <1>1, <1>20 DEF LoopDone, Following, LoopLength, Goto, OutsideWorld
<1>21. CASE CleanupDone
  BY <1>1, <1>21 DEF CleanupDone, Goto, OutsideWorld
<1>22. CASE CollectResults
  BY <1>1, <1>22 DEF CollectResults, OutsideWorld
<1>23. CASE NextRun
  <2>0. raised' \in BOOLEAN
    BY <1>23 DEF NextRun
  <2>1. run' \in 1..MaxRuns /\ idx' \in Nat \ {0}
    BY <1>1, <1>23 DEF NextRun
  <2>2. /\ unit' \in [Units -> UnitStates] /\ monitor' \in [Monitors -> MonitorStates]
        /\ collected' \in [Units -> 0..MaxRuns] /\ called' \subseteq Plugins
    BY <1>1, <1>23 DEF NextRun
  <2>. QED
    BY <1>1, <1>23, <2>0, <2>1, <2>2 DEF NextRun
<1>24. CASE Interrupt
  BY <1>1, <1>24 DEF Interrupt, Raise, OutsideWorld
<1>25. CASE \E u \in Units : UnitStarts(u)
  BY <1>1, <1>25 DEF UnitStarts, Control
<1>26. CASE \E u \in Units : UnitEnds(u)
  BY <1>1, <1>26 DEF UnitEnds, Control
<1>27. CASE \E p \in Plugins : PluginEnds(p)
  BY <1>1, <1>27 DEF PluginEnds, Control
<1>28. CASE \E m \in Monitors : MonitorEnds(m)
  BY <1>1, <1>28 DEF MonitorEnds, Control
<1>29. CASE UNCHANGED vars
  BY <1>1, <1>29 DEF vars
<1>30. CASE KillAbandoned
  BY <1>1, <1>30 DEF KillAbandoned, NextIndex, OutsideWorld
<1>31. CASE KillPluginAbandoned
  BY <1>1, <1>31 DEF KillPluginAbandoned, AtPlugin, Kills, NextIndex, OutsideWorld
<1>32. CASE StartNotConfirmed
  BY <1>1, <1>32 DEF StartNotConfirmed, InLaunchLoop, FirstState, LaunchBreaks, Goto
<1>33. CASE KillRefused
  BY <1>1, <1>33 DEF KillRefused, OutsideWorld
<1>34. CASE KillPluginRefused
  BY <1>1, <1>34 DEF KillPluginRefused, AtPlugin, Kills, Raise, OutsideWorld
<1>35. CASE StopMonitorFails
  BY <1>1, <1>35 DEF StopMonitorFails, Raise
<1>. QED
  BY <1>1, <1>2, <1>3, <1>4, <1>5, <1>6, <1>7, <1>8, <1>9, <1>10, <1>11,
    <1>12, <1>13, <1>14, <1>15, <1>16, <1>17, <1>18, <1>19, <1>20, <1>21,
    <1>22, <1>23, <1>24, <1>25, <1>26, <1>27, <1>28, <1>29, <1>30, <1>31,
    <1>32, <1>33, <1>34, <1>35
    DEF Next, RunnerStep

\* Nothing undoes what a loop of cleanup has done to the elements it has passed.
LEMMA CleanupStep == IInv /\ [Next]_vars => CleanupInv'
<1>1. SUFFICES ASSUME IInv, [Next]_vars PROVE CleanupInv'
  OBVIOUS
<1> USE DEF IInv, CleanupInv, TypeOK, Past, Later, Body, Units, Plugins,
  Monitors
<1>2. CASE PortInUse
  BY <1>1, <1>2 DEF PortInUse, InLaunchLoop, Raise, OutsideWorld
<1>3. CASE ExecProcess
  BY <1>1, <1>3 DEF ExecProcess, InLaunchLoop, FirstState, NextIndex
<1>4. CASE ExecContainer
  BY <1>1, <1>4 DEF ExecContainer, InLaunchLoop, FirstState, NextIndex
<1>5. CASE ContainerNotStarted
  BY <1>1, <1>5 DEF ContainerNotStarted, InLaunchLoop, LaunchBreaks, Goto
<1>6. CASE OldContainerNotStopped
  BY <1>1, <1>6 DEF OldContainerNotStopped, InLaunchLoop, Raise, OutsideWorld
<1>7. CASE SkipPlugin
  BY <1>1, <1>7 DEF SkipPlugin, NextIndex, OutsideWorld
<1>8. CASE ExecutePlugin
  BY <1>1, <1>8 DEF ExecutePlugin, NextIndex
<1>9. CASE PluginEndedAtOnce
  BY <1>1, <1>9 DEF PluginEndedAtOnce, Raise, MayEnd
<1>10. CASE StartMonitor
  BY <1>1, <1>10 DEF StartMonitor, NextIndex
<1>11. CASE TouchStartFile
  BY <1>1, <1>11 DEF TouchStartFile, Goto
<1>12. CASE WaitUnit
  BY <1>1, <1>12 DEF WaitUnit, NextIndex, OutsideWorld
<1>13. CASE WaitFails
  BY <1>1, <1>13 DEF WaitFails, Raise, OutsideWorld
<1>14. CASE StopUnit
  BY <1>1, <1>14, SMTT(30) DEF StopUnit, NextIndex
<1>15. CASE StopUnlaunchedProcess
  BY <1>1, <1>15 DEF StopUnlaunchedProcess, Raise, OutsideWorld
<1>16. CASE ContainerNotStopped
  BY <1>1, <1>16 DEF ContainerNotStopped, Raise, OutsideWorld
<1>17. CASE UnlinkStartFile
  BY <1>1, <1>17 DEF UnlinkStartFile, StartFileAfterUnlink, Goto
<1>18. CASE StopMonitor
  BY <1>1, <1>18 DEF StopMonitor, NextIndex
<1>19. CASE StopPlugin
  BY <1>1, <1>19 DEF StopPlugin, AtPlugin, Kills, NextIndex
<1>20. CASE LoopDone
  <2>1. /\ pc \in DOMAIN Following /\ idx > LoopLength(pc)
        /\ pc' = Following[pc] /\ idx' = 1
        /\ UNCHANGED <<raised, exec_type, OutsideWorld>>
    BY <1>20 DEF LoopDone, Goto
  <2>2. CASE pc = "wait"
    <3>1. \A u \in Units : unit[u] \in {"ok", "leftover"}
      BY <1>1, <2>1, <2>2 DEF LoopLength, FreshInv
    <3>2. pc' = "stop"
      BY <2>1, <2>2 DEF Following
    <3>. QED
      BY <1>1, <2>1, <3>1, <3>2 DEF OutsideWorld
  <2>3. CASE pc \in {"exec", "pre", "monitors", "post"}
    <3>1. pc' \in {"pre", "monitors", "touch", "wait"}
      BY <2>1, <2>3 DEF Following
    <3>. QED
      BY <1>1, <2>1, <2>3, <3>1 DEF OutsideWorld
  <2>4. CASE pc = "stop"
    <3>1. pc' = "unlink" /\ idx > NUnits
      BY <2>1, <2>4 DEF Following, LoopLength
    <3>. QED
      BY <1>1, <2>1, <2>4, <3>1 DEF OutsideWorld
  <2>5. CASE pc = "stop_monitors"
    <3>1. pc' = "cleanup" /\ idx > NMonitors
      BY <2>1, <2>5 DEF Following, LoopLength
    <3>. QED
      BY <1>1, <2>1, <2>5, <3>1 DEF OutsideWorld
  <2>6. CASE pc = "cleanup"
    <3>1. pc' = "stop_plugins" /\ idx > NPlugins
      BY <2>1, <2>6 DEF Following, LoopLength
    <3>. QED
      BY <1>1, <2>1, <2>6, <3>1 DEF OutsideWorld
  <2>. QED
    BY <2>1, <2>2, <2>3, <2>4, <2>5, <2>6 DEF Following
<1>21. CASE CleanupDone
  BY <1>1, <1>21 DEF CleanupDone, Goto, OutsideWorld
<1>22. CASE CollectResults
  BY <1>1, <1>22 DEF CollectResults, OutsideWorld
<1>23. CASE NextRun
  BY <1>1, <1>23 DEF NextRun
<1>24. CASE Interrupt
  BY <1>1, <1>24 DEF Interrupt, Raise, OutsideWorld
<1>25. CASE \E u \in Units : UnitStarts(u)
  BY <1>1, <1>25 DEF UnitStarts, Control
<1>26. CASE \E u \in Units : UnitEnds(u)
  BY <1>1, <1>26 DEF UnitEnds, Control
<1>27. CASE \E p \in Plugins : PluginEnds(p)
  BY <1>1, <1>27 DEF PluginEnds, Control
<1>28. CASE \E m \in Monitors : MonitorEnds(m)
  BY <1>1, <1>28 DEF MonitorEnds, Control
<1>29. CASE UNCHANGED vars
  BY <1>1, <1>29 DEF vars
<1>30. CASE KillAbandoned
  <2>1. raised /\ exec_type = "native"
    BY <1>1, <1>30 DEF KillAbandoned, Alive
  <2>. QED
    BY <1>1, <1>30, <2>1 DEF KillAbandoned, NextIndex, OutsideWorld
<1>31. CASE KillPluginAbandoned
  BY <1>1, <1>31 DEF KillPluginAbandoned, AtPlugin, Kills, NextIndex, OutsideWorld
<1>32. CASE StartNotConfirmed
  BY <1>1, <1>32 DEF StartNotConfirmed, InLaunchLoop, FirstState, LaunchBreaks, Goto
<1>33. CASE KillRefused
  BY <1>1, <1>33 DEF KillRefused, OutsideWorld
<1>34. CASE KillPluginRefused
  BY <1>1, <1>34 DEF KillPluginRefused, AtPlugin, Kills, Raise, OutsideWorld
<1>35. CASE StopMonitorFails
  BY <1>1, <1>35 DEF StopMonitorFails, Raise
<1>. QED
  BY <1>1, <1>2, <1>3, <1>4, <1>5, <1>6, <1>7, <1>8, <1>9, <1>10, <1>11,
    <1>12, <1>13, <1>14, <1>15, <1>16, <1>17, <1>18, <1>19, <1>20, <1>21,
    <1>22, <1>23, <1>24, <1>25, <1>26, <1>27, <1>28, <1>29, <1>30, <1>31,
    <1>32, <1>33, <1>34, <1>35
    DEF Next, RunnerStep

\* The start file is never there when a native unit is missing.
LEMMA LaunchStep == IInv /\ [Next]_vars => LaunchInv'
<1>1. SUFFICES ASSUME IInv, [Next]_vars PROVE LaunchInv'
  OBVIOUS
<1> USE DEF IInv, LaunchInv, TypeOK, Body, Units, Plugins
<1>2. CASE PortInUse
  BY <1>1, <1>2 DEF PortInUse, InLaunchLoop, Raise, OutsideWorld
<1>3. CASE ExecProcess
  BY <1>1, <1>3 DEF ExecProcess, InLaunchLoop, FirstState, NextIndex
<1>4. CASE ExecContainer
  BY <1>1, <1>4 DEF ExecContainer, InLaunchLoop, FirstState, NextIndex
<1>5. CASE ContainerNotStarted
  BY <1>1, <1>5 DEF ContainerNotStarted, InLaunchLoop, LaunchBreaks, Goto
<1>6. CASE OldContainerNotStopped
  BY <1>1, <1>6 DEF OldContainerNotStopped, InLaunchLoop, Raise, OutsideWorld
<1>7. CASE SkipPlugin
  BY <1>1, <1>7 DEF SkipPlugin, NextIndex, OutsideWorld
<1>8. CASE ExecutePlugin
  BY <1>1, <1>8 DEF ExecutePlugin, NextIndex
<1>9. CASE PluginEndedAtOnce
  <2>1. pc = "cleanup" => ~ startFile
    BY <1>1 DEF CleanupInv, Past, Later
  <2>. QED
    BY <1>1, <1>9, <2>1 DEF PluginEndedAtOnce, Raise
<1>10. CASE StartMonitor
  BY <1>1, <1>10 DEF StartMonitor, NextIndex
<1>11. CASE TouchStartFile
  BY <1>1, <1>11 DEF TouchStartFile, Goto
<1>12. CASE WaitUnit
  BY <1>1, <1>12 DEF WaitUnit, NextIndex, OutsideWorld
<1>13. CASE WaitFails
  BY <1>1, <1>13 DEF WaitFails, Raise, OutsideWorld
<1>14. CASE StopUnit
  BY <1>1, <1>14 DEF StopUnit, NextIndex
<1>15. CASE StopUnlaunchedProcess
  BY <1>1, <1>15 DEF StopUnlaunchedProcess, Raise, OutsideWorld
<1>16. CASE ContainerNotStopped
  BY <1>1, <1>16 DEF ContainerNotStopped, Raise, OutsideWorld
<1>17. CASE UnlinkStartFile
  BY <1>1, <1>17 DEF UnlinkStartFile, StartFileAfterUnlink, Goto
<1>18. CASE StopMonitor
  BY <1>1, <1>18 DEF StopMonitor, NextIndex
<1>19. CASE StopPlugin
  BY <1>1, <1>19 DEF StopPlugin, AtPlugin, Kills, NextIndex
<1>20. CASE LoopDone
  BY <1>1, <1>20 DEF LoopDone, Following, LoopLength, Goto, OutsideWorld
<1>21. CASE CleanupDone
  BY <1>1, <1>21 DEF CleanupDone, Goto, OutsideWorld
<1>22. CASE CollectResults
  BY <1>1, <1>22 DEF CollectResults, OutsideWorld
<1>23. CASE NextRun
  <2>1. pc = "returned" => ~ startFile
    BY <1>1 DEF CleanupInv, Past, Later
  <2>. QED
    BY <1>1, <1>23, <2>1 DEF NextRun
<1>24. CASE Interrupt
  BY <1>1, <1>24 DEF Interrupt, Raise, OutsideWorld
<1>25. CASE \E u \in Units : UnitStarts(u)
  BY <1>1, <1>25 DEF UnitStarts, Control
<1>26. CASE \E u \in Units : UnitEnds(u)
  BY <1>1, <1>26 DEF UnitEnds, Control
<1>27. CASE \E p \in Plugins : PluginEnds(p)
  BY <1>1, <1>27 DEF PluginEnds, Control
<1>28. CASE \E m \in Monitors : MonitorEnds(m)
  BY <1>1, <1>28 DEF MonitorEnds, Control
<1>29. CASE UNCHANGED vars
  BY <1>1, <1>29 DEF vars
<1>30. CASE KillAbandoned
  BY <1>1, <1>30 DEF KillAbandoned, NextIndex, OutsideWorld
<1>31. CASE KillPluginAbandoned
  BY <1>1, <1>31 DEF KillPluginAbandoned, AtPlugin, Kills, NextIndex, OutsideWorld
<1>32. CASE StartNotConfirmed
  BY <1>1, <1>32 DEF StartNotConfirmed, InLaunchLoop, FirstState, LaunchBreaks, Goto
<1>33. CASE KillRefused
  BY <1>1, <1>33 DEF KillRefused, OutsideWorld
<1>34. CASE KillPluginRefused
  <2>1. pc = "stop_plugins" /\ ~ startFile
    BY <1>1, <1>34 DEF KillPluginRefused, AtPlugin, CleanupInv, Past, Later
  <2>. QED
    BY <1>1, <1>34, <2>1 DEF KillPluginRefused, Raise, OutsideWorld
<1>35. CASE StopMonitorFails
  <2>1. pc = "stop_monitors" /\ ~ startFile
    BY <1>1, <1>35 DEF StopMonitorFails, CleanupInv, Past, Later
  <2>. QED
    BY <1>1, <1>35, <2>1 DEF StopMonitorFails, Raise
<1>. QED
  BY <1>1, <1>2, <1>3, <1>4, <1>5, <1>6, <1>7, <1>8, <1>9, <1>10, <1>11,
    <1>12, <1>13, <1>14, <1>15, <1>16, <1>17, <1>18, <1>19, <1>20, <1>21,
    <1>22, <1>23, <1>24, <1>25, <1>26, <1>27, <1>28, <1>29, <1>30, <1>31,
    <1>32, <1>33, <1>34, <1>35
    DEF Next, RunnerStep

\* Output files stay those of the run that launched their units.
LEMMA FreshStep == IInv /\ [Next]_vars => FreshInv'
<1>1. SUFFICES ASSUME IInv, [Next]_vars PROVE FreshInv'
  OBVIOUS
<1> USE DEF IInv, FreshInv, ResultsFresh, TypeOK, Launched, Alive, Old,
  Body, Cleanup, Units
<1>2. CASE PortInUse
  BY <1>1, <1>2 DEF PortInUse, InLaunchLoop, Raise, OutsideWorld
<1>3. CASE ExecProcess
  BY <1>1, <1>3 DEF ExecProcess, InLaunchLoop, FirstState, NextIndex
<1>4. CASE ExecContainer
  BY <1>1, <1>4, SMTT(30) DEF ExecContainer, InLaunchLoop, FirstState, NextIndex
<1>5. CASE ContainerNotStarted
  <2>1. /\ pc = "exec" /\ pc' = "pre" /\ idx \in Units /\ UNCHANGED <<output, run>>
        /\ unit'[idx] \in {"none", "created"}
        /\ \A u \in Units \ {idx} : unit'[u] = unit[u]
    BY <1>1, <1>5 DEF ContainerNotStarted, InLaunchLoop, LaunchBreaks, Goto
  <2>2. unit'[1] # "leftover"
    BY <1>1, <2>1
  <2>3. \A u \in Units : unit'[u] \in Launched => output'[u] = run'
    BY <1>1, <2>1
  <2>. QED
    BY <1>1, <2>1, <2>2, <2>3
<1>6. CASE OldContainerNotStopped
  BY <1>1, <1>6 DEF OldContainerNotStopped, InLaunchLoop, Raise, OutsideWorld
<1>7. CASE SkipPlugin
  BY <1>1, <1>7 DEF SkipPlugin, NextIndex, OutsideWorld
<1>8. CASE ExecutePlugin
  BY <1>1, <1>8 DEF ExecutePlugin, NextIndex
<1>9. CASE PluginEndedAtOnce
  BY <1>1, <1>9 DEF PluginEndedAtOnce, Raise, MayEnd
<1>10. CASE StartMonitor
  BY <1>1, <1>10 DEF StartMonitor, NextIndex
<1>11. CASE TouchStartFile
  BY <1>1, <1>11 DEF TouchStartFile, Goto
<1>12. CASE WaitUnit
  <2>1. unit[idx] \in {"ok", "leftover"}
    BY <1>1, <1>12 DEF WaitUnit, EndedWell
  <2>. QED
    BY <1>1, <1>12, <2>1 DEF WaitUnit, NextIndex, OutsideWorld
<1>13. CASE WaitFails
  BY <1>1, <1>13 DEF WaitFails, Raise, OutsideWorld
<1>14. CASE StopUnit
  <2>1. /\ pc = "stop" /\ idx \in Units
        /\ idx' = idx + 1 /\ UNCHANGED <<pc, raised, run, output, collected>>
        /\ \A u \in Units \ {idx} : unit'[u] = unit[u]
    BY <1>1, <1>14 DEF StopUnit, NextIndex
  <2>2. unit[idx] = "leftover" => unit'[idx] = "swept"
    BY <1>1, <1>14 DEF StopUnit
  <2>3. unit[idx] # "leftover" => unit'[idx] \in {"none", "gone"}
    BY <1>1, <1>14 DEF StopUnit
  <2>4. \A u \in Units : unit'[u] \in Launched => unit[u] \in Launched
    BY <2>1, <2>2, <2>3
  <2>5. ASSUME ~ raised, NEW u \in Units
        PROVE  (unit'[u] \in Old \/ output[u] = run) /\ (u = 1 => unit'[u] \notin Old)
    <3>1. CASE u # idx
      BY <1>1, <2>1, <2>5, <3>1
    <3>2. CASE u = idx /\ unit[u] = "leftover"
      BY <1>1, <2>1, <2>2, <2>5, <3>2
    <3>3. CASE u = idx /\ unit[u] # "leftover"
      <4>1. unit[u] \notin Old
        BY <1>1, <2>1, <3>3
      <4>. QED
        BY <1>1, <2>1, <2>3, <2>5, <3>3, <4>1
    <3>. QED
      BY <3>1, <3>2, <3>3
  <2>6. 1 \in Units
    OBVIOUS
  <2>. QED
    BY <1>1, <2>1, <2>4, <2>5, <2>6
<1>15. CASE StopUnlaunchedProcess
  BY <1>1, <1>15 DEF StopUnlaunchedProcess, Raise, OutsideWorld
<1>16. CASE ContainerNotStopped
  BY <1>1, <1>16 DEF ContainerNotStopped, Raise, OutsideWorld
<1>17. CASE UnlinkStartFile
  BY <1>1, <1>17 DEF UnlinkStartFile, StartFileAfterUnlink, Goto
<1>18. CASE StopMonitor
  BY <1>1, <1>18 DEF StopMonitor, NextIndex
<1>19. CASE StopPlugin
  BY <1>1, <1>19 DEF StopPlugin, AtPlugin, Kills, NextIndex
<1>20. CASE LoopDone
  <2>1. /\ pc \in DOMAIN Following /\ idx > LoopLength(pc)
        /\ pc' = Following[pc] /\ idx' = 1
        /\ UNCHANGED <<raised, run, unit, output, collected>>
    BY <1>20 DEF LoopDone, Goto, OutsideWorld
  <2>2. CASE pc = "exec"
    <3>1. \A u \in Units : unit[u] \in Launched
      BY <1>1, <2>1, <2>2 DEF LoopLength
    <3>2. pc' = "pre"
      BY <2>1, <2>2 DEF Following
    <3>. QED
      BY <1>1, <2>1, <3>1, <3>2, 1 \in Units
  <2>3. CASE pc = "wait"
    <3>1. \A u \in Units : unit[u] \in {"ok", "leftover"}
      BY <1>1, <2>1, <2>3 DEF LoopLength
    <3>2. unit[1] # "leftover"
      BY <1>1, <2>3
    <3>. QED
      BY <1>1, <2>1, <2>3, <3>1, <3>2 DEF Following
  <2>4. CASE pc \in {"pre", "monitors", "post"}
    <3>1. pc' \in {"monitors", "touch", "wait"} /\ pc \in Body \ {"exec"}
      BY <2>1, <2>4 DEF Following
    <3>. QED
      BY <1>1, <2>1, <3>1
  <2>5. CASE pc \in {"stop", "stop_monitors", "cleanup"}
    <3>1. pc' \in {"unlink", "cleanup", "stop_plugins"}
      BY <2>1, <2>5 DEF Following
    <3>. QED
      BY <1>1, <2>1, <2>5, <3>1
  <2>. QED
    BY <2>1, <2>2, <2>3, <2>4, <2>5 DEF Following
<1>21. CASE CleanupDone
  BY <1>1, <1>21 DEF CleanupDone, Goto, OutsideWorld
<1>22. CASE CollectResults
  <2>1. /\ pc = "collect" /\ pc' = "returned" /\ collected' = output
        /\ UNCHANGED <<run, unit, output>>
    BY <1>22 DEF CollectResults, OutsideWorld
  <2>2. \A u \in Units : unit[u] \in {"none", "gone", "swept"}
    BY <1>1, <2>1 DEF CleanupInv, Past
  <2>3. \A u \in Units : u = 1 \/ u > 1
    OBVIOUS
  <2>. QED
    BY <1>1, <2>1, <2>2, <2>3
<1>23. CASE NextRun
  BY <1>1, <1>23 DEF NextRun
<1>24. CASE Interrupt
  BY <1>1, <1>24 DEF Interrupt, Raise, OutsideWorld
<1>25. CASE \E u \in Units : UnitStarts(u)
  <2>1. PICK u \in Units : UnitStarts(u)
    BY <1>25
  <2>2. \A v \in Units \ {u} : unit'[v] = unit[v]
    BY <1>1, <2>1 DEF UnitStarts
  <2>3. unit[u] = "polling" /\ unit'[u] = "app"
    BY <1>1, <2>1 DEF UnitStarts
  <2>4. UNCHANGED <<pc, idx, raised, run, output, collected>>
    BY <2>1 DEF UnitStarts, Control
  <2>5. \A v \in Units : unit'[v] \in Launched => output'[v] = run'
    BY <1>1, <2>2, <2>3, <2>4
  <2>6. pc' = "exec" => \A v \in Units : v < idx' => unit'[v] \in Launched
    BY <1>1, <2>2, <2>3, <2>4
  <2>7. \A v \in Units : (unit'[v] \in Old <=> unit[v] \in Old)
                           /\ (unit'[v] = "leftover" <=> unit[v] = "leftover")
                           /\ (unit'[v] = "swept" <=> unit[v] = "swept")
                           /\ (unit[v] = "ok" => unit'[v] = "ok")
    BY <2>2, <2>3
  <2>8. 1 \in Units
    BY DEF Units
  <2>. QED
    BY <1>1, <2>4, <2>5, <2>6, <2>7, <2>8
<1>26. CASE \E u \in Units : UnitEnds(u)
  <2>1. PICK u \in Units : UnitEnds(u)
    BY <1>26
  <2>2. \A v \in Units \ {u} : unit'[v] = unit[v]
    BY <1>1, <2>1 DEF UnitEnds
  <2>3. unit[u] = "app" /\ unit'[u] \in {"ok", "failed"}
    BY <1>1, <2>1 DEF UnitEnds
  <2>4. UNCHANGED <<pc, idx, raised, run, output, collected>>
    BY <2>1 DEF UnitEnds, Control
  <2>5. \A v \in Units : unit'[v] \in Launched => output'[v] = run'
    BY <1>1, <2>2, <2>3, <2>4
  <2>6. pc' = "exec" => \A v \in Units : v < idx' => unit'[v] \in Launched
    BY <1>1, <2>2, <2>3, <2>4
  <2>7. \A v \in Units : (unit'[v] \in Old <=> unit[v] \in Old)
                           /\ (unit'[v] = "leftover" <=> unit[v] = "leftover")
                           /\ (unit'[v] = "swept" <=> unit[v] = "swept")
                           /\ (unit[v] = "ok" => unit'[v] = "ok")
    BY <2>2, <2>3
  <2>8. 1 \in Units
    BY DEF Units
  <2>. QED
    BY <1>1, <2>4, <2>5, <2>6, <2>7, <2>8
<1>27. CASE \E p \in Plugins : PluginEnds(p)
  BY <1>1, <1>27 DEF PluginEnds, Control
<1>28. CASE \E m \in Monitors : MonitorEnds(m)
  BY <1>1, <1>28 DEF MonitorEnds, Control
<1>29. CASE UNCHANGED vars
  BY <1>1, <1>29 DEF vars
<1>30. CASE KillAbandoned
  BY <1>1, <1>30 DEF KillAbandoned, NextIndex, OutsideWorld
<1>31. CASE KillPluginAbandoned
  BY <1>1, <1>31 DEF KillPluginAbandoned, AtPlugin, Kills, NextIndex, OutsideWorld
<1>32. CASE StartNotConfirmed
  BY <1>1, <1>32 DEF StartNotConfirmed, InLaunchLoop, FirstState, LaunchBreaks, Goto
<1>33. CASE KillRefused
  BY <1>1, <1>33 DEF KillRefused, OutsideWorld
<1>34. CASE KillPluginRefused
  BY <1>1, <1>34 DEF KillPluginRefused, AtPlugin, Kills, Raise, OutsideWorld
<1>35. CASE StopMonitorFails
  BY <1>1, <1>35 DEF StopMonitorFails, Raise
<1>. QED
  BY <1>1, <1>2, <1>3, <1>4, <1>5, <1>6, <1>7, <1>8, <1>9, <1>10, <1>11,
    <1>12, <1>13, <1>14, <1>15, <1>16, <1>17, <1>18, <1>19, <1>20, <1>21,
    <1>22, <1>23, <1>24, <1>25, <1>26, <1>27, <1>28, <1>29, <1>30, <1>31,
    <1>32, <1>33, <1>34, <1>35
    DEF Next, RunnerStep

\* The start signal is given between the PRE plugins and monitors and the POST
\* plugins.
LEMMA SignalStep == IInv /\ [Next]_vars => SignalInv'
<1>1. SUFFICES ASSUME IInv, [Next]_vars PROVE SignalInv'
  OBVIOUS
<1> USE DEF IInv, SignalInv, TypeOK, Body, Plugins, Monitors
<1>2. CASE PortInUse
  BY <1>1, <1>2 DEF PortInUse, InLaunchLoop, Raise, OutsideWorld
<1>3. CASE ExecProcess
  BY <1>1, <1>3 DEF ExecProcess, InLaunchLoop, FirstState, NextIndex
<1>4. CASE ExecContainer
  BY <1>1, <1>4 DEF ExecContainer, InLaunchLoop, FirstState, NextIndex
<1>5. CASE ContainerNotStarted
  BY <1>1, <1>5 DEF ContainerNotStarted, InLaunchLoop, LaunchBreaks, Goto
<1>6. CASE OldContainerNotStopped
  BY <1>1, <1>6 DEF OldContainerNotStopped, InLaunchLoop, Raise, OutsideWorld
<1>7. CASE SkipPlugin
  BY <1>1, <1>7 DEF SkipPlugin, NextIndex, OutsideWorld
<1>8. CASE ExecutePlugin
  BY <1>1, <1>8 DEF ExecutePlugin, NextIndex
<1>9. CASE PluginEndedAtOnce
  BY <1>1, <1>9 DEF PluginEndedAtOnce, Raise
<1>10. CASE StartMonitor
  BY <1>1, <1>10 DEF StartMonitor, NextIndex
<1>11. CASE TouchStartFile
  BY <1>1, <1>11 DEF TouchStartFile, Goto
<1>12. CASE WaitUnit
  BY <1>1, <1>12 DEF WaitUnit, NextIndex, OutsideWorld
<1>13. CASE WaitFails
  BY <1>1, <1>13 DEF WaitFails, Raise, OutsideWorld
<1>14. CASE StopUnit
  BY <1>1, <1>14 DEF StopUnit, NextIndex
<1>15. CASE StopUnlaunchedProcess
  BY <1>1, <1>15 DEF StopUnlaunchedProcess, Raise, OutsideWorld
<1>16. CASE ContainerNotStopped
  BY <1>1, <1>16 DEF ContainerNotStopped, Raise, OutsideWorld
<1>17. CASE UnlinkStartFile
  BY <1>1, <1>17 DEF UnlinkStartFile, StartFileAfterUnlink, Goto
<1>18. CASE StopMonitor
  BY <1>1, <1>18 DEF StopMonitor, NextIndex
<1>19. CASE StopPlugin
  BY <1>1, <1>19 DEF StopPlugin, AtPlugin, Kills, NextIndex
<1>20. CASE LoopDone
  BY <1>1, <1>20 DEF LoopDone, Following, LoopLength, Goto, OutsideWorld
<1>21. CASE CleanupDone
  BY <1>1, <1>21 DEF CleanupDone, Goto, OutsideWorld
<1>22. CASE CollectResults
  BY <1>1, <1>22 DEF CollectResults, OutsideWorld
<1>23. CASE NextRun
  BY <1>1, <1>23 DEF NextRun
<1>24. CASE Interrupt
  BY <1>1, <1>24 DEF Interrupt, Raise, OutsideWorld
<1>25. CASE \E u \in Units : UnitStarts(u)
  BY <1>1, <1>25 DEF UnitStarts, Control
<1>26. CASE \E u \in Units : UnitEnds(u)
  BY <1>1, <1>26 DEF UnitEnds, Control
<1>27. CASE \E p \in Plugins : PluginEnds(p)
  BY <1>1, <1>27 DEF PluginEnds, Control
<1>28. CASE \E m \in Monitors : MonitorEnds(m)
  BY <1>1, <1>28 DEF MonitorEnds, Control
<1>29. CASE UNCHANGED vars
  BY <1>1, <1>29 DEF vars
<1>30. CASE KillAbandoned
  BY <1>1, <1>30 DEF KillAbandoned, NextIndex, OutsideWorld
<1>31. CASE KillPluginAbandoned
  BY <1>1, <1>31 DEF KillPluginAbandoned, AtPlugin, Kills, NextIndex, OutsideWorld
<1>32. CASE StartNotConfirmed
  BY <1>1, <1>32 DEF StartNotConfirmed, InLaunchLoop, FirstState, LaunchBreaks, Goto
<1>33. CASE KillRefused
  BY <1>1, <1>33 DEF KillRefused, OutsideWorld
<1>34. CASE KillPluginRefused
  BY <1>1, <1>34 DEF KillPluginRefused, AtPlugin, Kills, Raise, OutsideWorld
<1>35. CASE StopMonitorFails
  BY <1>1, <1>35 DEF StopMonitorFails, Raise
<1>. QED
  BY <1>1, <1>2, <1>3, <1>4, <1>5, <1>6, <1>7, <1>8, <1>9, <1>10, <1>11,
    <1>12, <1>13, <1>14, <1>15, <1>16, <1>17, <1>18, <1>19, <1>20, <1>21,
    <1>22, <1>23, <1>24, <1>25, <1>26, <1>27, <1>28, <1>29, <1>30, <1>31,
    <1>32, <1>33, <1>34, <1>35
    DEF Next, RunnerStep

-----------------------------------------------------------------------------
(* The theorems. *)

\* The invariant holds in every reachable state.
THEOREM ExecuterInvariant == Spec => []IInv
<1>1. IInv /\ [Next]_vars => IInv'
  BY TypeStep, CleanupStep, LaunchStep, FreshStep, SignalStep DEF IInv
<1>. QED
  BY InitIInv, <1>1, PTL DEF Spec

\* Type correctness.
THEOREM ExecuterTypeCorrect == Spec => []TypeOK
<1>1. IInv => TypeOK
  BY DEF IInv
<1>. QED
  BY <1>1, ExecuterInvariant, PTL

\* A cleanup that runs to its end leaves no start file, container or monitor
\* behind and has called the CLEANUP plugins, whatever failed before it; only an
\* abandoned stop_process leaves a process (Executer.cleanup).
THEOREM NothingIsLeft == Spec => []NothingLeft
<1>1. IInv => NothingLeft
  BY DEF IInv, CleanupInv, Past, NothingLeft
<1>. QED
  BY <1>1, ExecuterInvariant, PTL

\* No path through a run of native processes leaves the start file behind, not
\* even those on which cleanup is abandoned, except for a process the runner may
\* not kill (Process.stop, stop_process).
THEOREM StartFileIsNotLeaked == Spec => []StartFileNotLeaked
<1>1. IInv => StartFileNotLeaked
  BY DEF IInv, CleanupInv, LaunchInv, Past, Ended, StartFileNotLeaked
<1>. QED
  BY <1>1, ExecuterInvariant, PTL

\* collect_results returns only what this run's units wrote, but for the units
\* that were not launched after docker failed to confirm one that runs, and in
\* whose place a container of an earlier experiment was found (ExecutionUnit.exec,
\* wait and get_output).
THEOREM ResultsAreFresh == Spec => []ResultsFresh
<1>1. IInv => ResultsFresh
  BY DEF IInv, FreshInv
<1>. QED
  BY <1>1, ExecuterInvariant, PTL

\* While units are measured, the PRE plugins have been launched and every monitor
\* is running, and a POST plugin is launched only under the start file
\* (Executer.signal_start).
THEOREM SignalIsOrdered == Spec => []SignalOrder
<1>1. IInv => SignalOrder
  BY DEF IInv, TypeOK, SignalInv, SignalOrder, Body
<1>. QED
  BY <1>1, ExecuterInvariant, PTL
=============================================================================
