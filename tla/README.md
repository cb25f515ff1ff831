# A TLA+ verification project for CSB (Container Scalability Benchmarks)

CSB measures how system calls, servers and applications scale with threads and
containers.  It has a C part (`bench/`): a benchmark program built once per
*target* plus a few network peers.  It has a Python part (`bm-runner/`) that
builds the benchmark, starts it natively or in containers together with
plugins and monitors, collects the results and plots them.

## 1. Inventory

| Part | State | Operations | Hard behaviour |
|---|---|---|---|
| Harness, `bench/benchmark.c` | phase, worker positions, `g_stop`, two barriers, `g_ops`, clock readings | warm-up, run, conclude, cool-down; `run` per worker | interleaving of workers and main thread, unchecked `pthread_create`, relaxed flag, what the duration windows enclose |
| Statistics, `CSB/bm_stats.h` | one record per thread and operation, histogram bounds | init, add_op, add_spent_time, print | sentinel minimum, overflow bucket, units of the throughput figures |
| Start-up, `config/application.py`, `CSB/bm_params.h`, filling of `g_ops` | `operations`, `argv`, `bm_params_t`, `g_ops` | check, get_cmd, extract, fill | order of initialisation, duplicated and missing options, checks that a release build does not have, random search for free slots |
| Targets, `bench/targets/*.h`, `bm-generator/templates/syz_single.h.in` | per-thread context, counters | init, reg, dispatch, dereg, destroy | cumulative counters |
| Redis target, `bench/targets/bm_server_redis.h` | listener, epoll set, open descriptors | accept, read, respond, close | threads sharing one level-triggered epoll set, reuse of descriptor numbers |
| Network peers, `bench/network/` | program, position, connections | register, read/write, advance, unregister | partial transfers, end of file, resets, retries |
| Thread launcher, `CSB/thread_launcher.h` | start and stop signal | create, await, launch | reuse of the start signal |
| Helpers `CSB/{time,rand,math}.h` | random state | pure functions | truncation, wrap-around, boundaries |
| Execution, `bm-runner/bm_executer.py`, `bm_process.py`, `bm_container.py`, `config/plugin.py`, `monitors/` | units, start file, plugins, monitors | exec_all, signal_start, cleanup, collect_results | exceptions between any two steps, processes that end early, start signal |
| Experiment loop, `bm-runner/benchmark.py`, `main.py`, `config/*.py` | configuration, units, results | run, single_run, parse output | round robin of applications, cpu sets that wrap, columns that differ, refusals in mid-campaign |
| Report, `bm-runner/bm_visualize.py` | plot configuration, figures | split, create_plots, write | configuration shared between data frames, frames without rows |
| Scripts, `scripts/` | files | plugins, adapters, flame-graph differences | start-file polling |
| Generator, `bm-generator/` | files | text generation | - |

How the parts interact: the runner starts one benchmark process per unit
(directly or in a container), tells them to begin by creating a start file, and
reads their output files when they have ended.  Plugins and monitors are
separate processes that run beside the units.  Inside a benchmark process the
main thread and the workers share two barriers, a stop flag, the table of
operations and the statistics; the workers call the target.  The Redis-like
target serves clients over one epoll set that all workers share.  The generated
targets talk to the network peers, which follow an operation sequence.

What makes each part correct:

- Harness: what is reported was measured, by all workers, inside the reported
  window, with the mix of operations that was asked for; the program ends.
- Executer: units are released together, nothing of a run survives it, results
  are those of this run, every path ends.
- Redis target: it reports what happened, answers whoever asked, and keeps the
  connections of live clients.
- Network peers: a call is made for the event that was waited for, the sequence
  is completed, an abandoned connection is released.
- Generated targets: the warm-up is not counted, a context owns its memory, what
  is recorded follows from what was executed.
- Start-up: the workers begin with the mix that was configured, or not at all.
- Experiment loop and report: every unit has its row, the columns are those of
  all runs, nothing that was asked for is missing from a report.

The hazards in `PROJECT.json` say where in the code each of these is at stake.
Those without a property carry a note.

## 2. Modules

| Module | What it models |
|---|---|
| `BmStats` | the statistics of `bm_stats.h`, as operators |
| `Harness` | `benchmark.c`: main thread and workers |
| `Measurement` | abstract specification: what a measurement promises |
| `HarnessProofs` | theorems about `Harness` |
| `SyzTarget` | `syz_single.h.in`, composed with `Harness` |
| `SyzProofs` | theorems about `SyzTarget`, from those about `Harness` |
| `Startup` | configured operations to filled `g_ops`: `application.py`, `bm_params.h`, `bm_phase_warmup` |
| `StartupProofs` | theorems about `Startup` |
| `Executer` | `exec_all`, units, plugins, monitors, over consecutive runs |
| `ExecuterProofs` | theorems about `Executer` |
| `Campaign` | lists of the configuration, `single_run`, the rows of the results file |
| `Report` | `bm_visualize.py`, on top of `Campaign` |
| `ReportProofs` | theorems about `Campaign` and `Report` |
| `RedisTarget` | `bm_server_redis.h` and `redis-client.c` |
| `RedisProofs` | theorems about `RedisTarget` |
| `NetPeers` | `server.c` and `client.c` against each other |
| `NetProofs` | theorems about `NetPeers` |
| `SumTheorems` | lemmas about sums over finite sets, and induction |
| `MC*` | values of the constants for TLC |

**Harness.**  Each thread has a program counter; a label covers the code up to
the next access to something another thread or the clock can change.  `phase`
is where main is, `pc` where each worker is.  A barrier is the set of parties
that have arrived.  The time stamp counter is `clock`, which may advance between
any two steps and is the same for all threads (the code subtracts readings of
one thread; the four window readings are main's).  Each of these has a reading in
milliseconds next to it, from another clock, which is left out: what is shown of
the windows holds for the figures in clock ticks (`throughput_min_ts`,
`throughput_max_ts`), not for `throughput_min` and `throughput_max`.  `g_stop` is relaxed: a worker
may go on reading the old value.  `pthread_create` may fail and nobody looks.
The random filling of `g_ops` is any filling with the requested shares; that the
loop makes one is a property of `Startup`.  A target is a set of possible results
of a dispatch.

**Measurement.**  Workers get ready, each executes until it retires, one report
states what was executed.  `Harness` maps its labels and statistics to it.

**SyzTarget.**  Extends `Harness`: what the template does in `bm_target_init`,
`bm_target_reg`, `bm_dispatch_operation` and `bm_target_dereg` is conjoined to the
step of the harness that calls it, and constrains the result the harness leaves
open.  `ctx` holds the counters and, for every pointer, whether it is null, on the
heap or a static address from the environment.  A `mkdtemp` that fails leaves a null
pointer and the worker goes on.  Which addresses are static is settled in
`bm_target_init`, before there are threads.  `executed` is a history variable.

**Startup.**  One sequential program in two builds (`release`: bm-runner builds
without assertions).  An argument is what the regular expressions of
`bm_params.h` make of it.  Uninitialised memory (`op_dist`) is any value; a write
beyond the array ends in `undefined`.  Numbers, the index of an operation among
them, are stored modulo `UINT32_MAX + 1`.

**Executer.**  `pc` names the loop the runner is in and `idx` its index; the
labels follow `exec_all`, `signal_start` and `cleanup`.  `Raise` is an exception:
in the body it leads to cleanup, in cleanup it leaves `exec_all`.  A unit, a
plugin and a monitor each have a small life cycle of their own and move
independently of the runner.  `stop_process` gives up when a child ends between
being listed and being killed (`KillAbandoned`, `KillPluginAbandoned`), which
leaves the parent running; killing may be refused (`KillRefused`,
`KillPluginRefused`: `psutil.AccessDenied`), and a monitor may fail to stop
(`StopMonitorFails`), which are exceptions in cleanup.  Docker may report an error
before a container runs or about one that does (`StartNotConfirmed`: `reload`, `logs`
and `add_nic` are in the same `try` as `containers.run`, `bm_container.py:190-210`);
the launch loop then stops although the unit may end well.  A container of an earlier
experiment that still exists in the place of a unit that was not launched is
`leftover`, and waiting for it succeeds if it had ended with 0.  All runs here
have the same units, so only the first can meet such containers.  `output` and `collected` hold the number of the run
that wrote a file or a line, so that a stale result can be told from a fresh
one: consecutive runs use the same names and directories.  With `EnvRetries` a
`RETRY_COUNT` happens to be in the environment, so that native units do wait.

**Campaign.**  `k` numbers the combination that is run; a run is created, ends or
is interrupted, and its output is parsed into rows of `csv`.  Where `Executer` has
the life of one run, `Campaign` has what is made of its output.  A column name is
a sequence of parts and a value is the unit that printed it, so that a row mixed
from two units shows.  That all an application ever measures is 0 is an attribute
of the application (`zero`), which is all that a plot can tell of a value.  Lists are sorted without duplicates, as `ListConfig.get_list`
does; `CampaignAssumption` says that no list is empty and that no run has 0 units.

**Report.**  Extends `Campaign`: `f` and `p` are the indices of the two loops over
frames and plots.  An error of pandas leads to `aborted`.  `plots` is what the
code has overwritten, `asked` what was configured.  The rows of a frame are a set,
since no plot depends on their order.

**RedisTarget.**  One action per system call that matters: `EpollWait`, `Accept`,
`Read`, `CloseAtRead`, `Respond`.  Descriptors are numbers that are reused,
lowest first.  `events` is what `epoll_wait` reported to a thread and may be out
of date when it is handled.  A connection that finds no free descriptor stays in the
backlog.  `workers` are the threads of this process, one or
more; it never changes.

**NetPeers.**  A connection is two byte streams of bounded length.  `srv[k].d`
and `cli` are the `conn_data` of the two programs, with a ghost field `done`
that counts completed calls.  Transfers may be partial.

`PROJECT.json` ("map") gives the source lines of every definition.  Definitions
commented as *fault variants* are plausible mistakes in the code; each property
is violated when the definition they stand next to is replaced by one of them.

## 3. Runs

| Run | Instance | Shows |
|---|---|---|
| `harness_measure` | 2 workers, 2 operations in all arrangements of 3 slots, clock up to 2 (1.5 million states) | the reported windows are nested and enclose all that is recorded; the mix executed is the mix requested; statistics are frozen after the stop barrier; `Harness` implements `Measurement` |
| `syz_threads` | 2 workers with 2 dispatches of 2 system calls, creations may fail, addresses from the environment, fair, directories that cannot be made (181 000 states) | nobody measures early, the target outlives its users, the report comes last; the warm-up is not counted, contexts are freed exactly once, what is recorded; the program ends |
| `startup` | 2 operations, 4 slots, 32-bit numbers as 0..7 (430 000 states) | what is accepted is what was given, the slots are filled as requested, the configured mix survives a build without assertions, the filling ends |
| `executer_run` | 3 units, 4 plugins, 2 monitors, 2 runs, native and container (138 000 states) | order of the start signal, complete cleanup, fresh results, `exec_all` ends |
| `campaign_report` | 1 or 2 applications, up to 3 units, 2 numbers of threads, 2 noises, up to 2 plots of 5 kinds (57 000 states) | every unit has its row, columns are stable, refusals come before the first run, cores are disjoint, when a report is complete and when it is given up |
| `redis_serve` | 1 thread with 3 clients or 2 threads with 2, 2 commands each, 2 descriptors (441 000 states) | reported successes are real with any number of threads; with one thread no connection is dropped, no reply goes astray, and commands are answered unless their client is left in the backlog for want of descriptors |
| `net_peers` | 2 connections, three sequences, all client options | the assertions on events hold, loops return, connections are released, sequences completed |

Five runs show a disagreement between the code and what the repository says of
it; each has an entry under "findings":

- `syz_count`: the counters of a generated target are totals since registration,
  and every dispatch returns them as its own result (`syz_single.h.in:275`).  After
  n dispatches a worker has recorded n(n+1)/2 times the length of the trace.
- `executer_start_signal`: the shell loop in which a unit waits for the start
  file has no iteration, since `RETRY_COUNT` is not interpolated in the f-string
  (`bm_executer.py:24`).  A unit does not wait.
- `executer_cleanup_plugins`: `Process.stop` of a process that was never launched
  raises, so cleanup is abandoned before the CLEANUP plugins
  (`bm_process.py:56`).
- `redis_dropped`: two threads are told of one command; the one that comes
  second finds nothing to read and closes a live client's connection
  (`bm_server_redis.h:228`).
- `report_frames`: plots are objects shared by all data frames, and three kinds of
  them overwrite their `y` with the column they make up (`bm_visualize.py:190`, `304`,
  `406`).  The report is given up at the second frame, although "for each data frame
  we'll generate the related graphs" (`bm_visualize.py:444`).  For success rates and
  histograms `OneFrameOnly` proves it in general.

One more is a theorem rather than a run: the server of the network peers recognises
the end of a sequence by `step == 0`, which also holds while the first operation is
being repeated (`server.c:96`), so that a sequence such as the one in its own usage
text is never completed (`SequenceCutShort`).

The models follow the code, so the passing runs hold with them in place.
`redis_serve` (when there is one thread) and `net_peers` (sequences whose first
operation is not repeated) state the same property where it does hold, and
`RecordedCount` says exactly what `syz_count` finds.

Other behaviour that the passing properties spell out as exceptions:

- A share that is not given is not noticed when another argument makes up the
  number: "check all parameters have been set" (`bm_params.h:183`) compares with
  `UINT32_MAX`, which `op_dist` is never initialised to (`bm_params.h:176`).
  `AcceptedAsGiven` therefore speaks of the fixed parameters and of the shares that
  were given.  The runner always gives all of them, so that `MixAsConfigured` holds.
- A line of an earlier experiment can be collected in one way: docker reports an
  error about a container that runs, the units after it are not launched, and
  containers of that experiment are still there in their place (`ResultsFresh`).
- Without assertions, shares that exceed the slots make the search for a free
  slot endless, and smaller ones leave slots that name no operation
  (`SlotsAsRequested`, `FillingEnds`; `benchmark.c:131`).
- Outputs are joined without a separator, and `fio-adapter.sh` prints no newline:
  the rows of several such units become one, and only a unit whose own output ends
  with a newline, or the last one, is sure of a row (`EveryUnitRecorded`).
- A row has the columns that all applications of a campaign print.  The others are
  dropped (`dict_intersect`), which is what mixing applications means here, not a
  fault; but what they measured is in no row.
- A list of offsets that is too short ends a campaign after its first runs
  (`RefusedBeforeFirstRun`), and the default of `container_list` cannot be loaded
  (`config/list.py:58-64`: stored as `vals`, looked up as `values`).
- A report is given up because of its results: a column that is not there, a frame
  without rows after an interruption and `--replot`, a histogram that counted nothing
  (`ReportAborts`; `bm_visualize.py:365`).  A linearity plot without a run of one
  unit, or with a result of 0 for it, is left out (`ReportComplete`).

Noticed while reading, without a property: `RESET_START_SIGNAL` in
`thread_launcher.h:31` loads instead of storing, but nothing calls the launcher;
`random_init_seed` has no effect on numbers that come from `getrandom`; the
docstring of `config/adapter.py` has `<key>:<val>` where the parser splits at `=`.

**Bounds.**  `MaxClock` and `MaxOps` bound `Harness`: with three operations per
worker the index into three slots wraps, and three readings suffice for an
operation on either side of every reading of main.  Shares 2:1 make the workers'
starting positions 0 and 1 differ.  `FirstMax = 0` and two buckets put short latencies
into the first bucket and long ones into the overflow.  In `startup`
2 operations and 4 slots allow every kind of wrong argument list (the lists are
enumerated in `MCStartup`: too few and too many arguments, repeated, unknown,
negative, too large) and sums below, at and above the number of slots.  Three units are the
fewest for "launched, failing, untouched"; two runs are the fewest for stale
results.  In `campaign_report` three units of two cores fill six cores and
explicit offsets are too few; two numbers of threads and two noises make four frames, some of them
empty after an interruption.  In `redis_serve` three clients compete for two
descriptors, which are reused when one is closed; two open connections and a third
client in the backlog make three ready descriptors, more than `MAX_EVENTS`, and an
`accept` that fails with a client waiting.  `MaxLoad` bounds the number of threads
times the clients that connect, which keeps three clients to one thread.
`Capacity` 3 with operations of up to 2 bytes gives partial transfers.

**Deadlock** is not checked where the system may stop: failed creations leave
everybody at the start barrier; `exec_all` is over; clients have nothing more to
send; both peers of `NetPeers` may wait for bytes.  It is checked in
`harness_measure`, `startup` and `campaign_report`, where the end of the program is
the only state in which nothing happens.

**Fairness.**  Harness and SyzTarget: threads are scheduled, dispatches return, and a relaxed
store becomes visible to a thread that keeps loading (C11 7.17.3 p16), which is
strong fairness of seeing the flag.  Startup: the program goes on, and `getrandom`
draws any slot some day: as long as a free slot is left, a step other than
drawing a taken one happens.  Executer: the runner goes on; applications,
and the plugins that are waited for, are programs that end; no fairness for
failures or interrupts.  A plugin that polls for the start file is assumed to be
`force_stop` if it is waited for, which is what makes `RunnerEnds` hold.
RedisTarget: workers dispatch again and again (weak fairness of each worker); clients owe nothing.  Which
descriptors `epoll_wait` reports when more are ready than fit is any choice:
clients send finitely many commands, so those in front run out; without that bound
the round robin of the kernel would be needed.  NetPeers:
both programs run when an event is there; being killed is never owed.

## 4. Proofs

Every safety property that a passing run checks is also proved, for all values of
the constants that satisfy the assumption of its module, and so is the refinement
of `Measurement`.  A proof module extends the module of the component, and the
component's last section holds the inductive invariant.  TLC evaluated each
invariant on the instance of the run before it was proved.  The step lemmas have
one case per action, and one below it per conjunct that the action can disturb.
The theorems are listed in `PROJECT.json`.

| Module | Assumption (what the code justifies) | Invariant | Properties proved |
|---|---|---|---|
| `HarnessProofs` | at least one thread and one slot; any target, operations and buckets | `IInv`, `AccountInv`, `MixInv`, `TallyInv` | `TypeOK`, `NobodyStartsEarly`, `TargetLiveWhileUsed`, `ReportAfterAllWorkers`, `WindowNested`, `LatencyFitsWindow`, `StatsFrozenAfterStop`, `AccountedTimeFits`, `CycleMix`, `ImplementsMeasurement` |
| `SyzProofs` | one operation, at least one system call | `SyzIInv` | `WarmupNotCounted`, `ContextMemory`, `RecordedCount`, and with this target `NobodyStartsEarly`, `TargetLiveWhileUsed`, `ReportAfterAllWorkers`, `WindowNested`, `LatencyFitsWindow` and `ImplementsMeasurement` |
| `StartupProofs` | an unsigned type that holds the number of operations and of slots; any lists | `IInv` | `AcceptedAsGiven`, `SlotsAsRequested`, `MixAsConfigured` |
| `ExecuterProofs` | at least one unit; any plugins, monitors and number of runs | `IInv` | `TypeOK`, `NothingLeft`, `StartFileNotLeaked`, `ResultsFresh`, `SignalOrder` |
| `ReportProofs` | every list has a value, a run has a unit, no application prints a column that plots make up | `CampaignInv`, `CsvInv`, `ReportInv` | `EveryUnitRecorded`, `ColumnsStable`, `RefusedBeforeFirstRun`, `CoresDisjoint`, `ReportComplete`, `ReportAborts`, and the general form of what `report_frames` finds |
| `RedisProofs` | finitely many threads and clients | `IInv`, `AloneInv` | `TypeOK`, `SuccessesAreReal`, `NoUnsolicitedReply`, `ConnectionKeptAlone` |
| `NetProofs` | sequences that are not empty, any number of connections | `IInv`, `CountInv` | `TypeOK`, `EventMatchesOp`, `WholeSequence`, and that a repeated first operation cuts a sequence short |
| `SumTheorems` | - | - | sums over finite sets, and the two forms of induction that the other modules use |

**Sums and induction.**  The library's induction rules take a formula as a
parameter, which the provers cannot instantiate.  `SumTheorems` has rules about
sets instead: a set of numbers with 0 and every successor contains `Nat`
(`SetInduction`), and a family of subsets of a finite set that has the empty set and is
closed under adding an element has the whole set (`FiniteInduction`).  Both follow
from the existence of minimal elements.  With them `SumFunctionOnSet` is unfolded
(`SumRemove`, `SumAdd`), compared (`SumLeq`, `SumChange`) and regrouped
(`SumFibers`, `SumShift`), and the sorting of a list is shown to be possible
(`AscendingExists`).

*Harness.*  None of the properties is inductive: that a worker past the barrier
implies everybody registered needs `BarrierInv` (who has arrived is determined by
where threads are) and the lemma that a barrier whose count is reached has been
reached by all parties (cardinality).  `ControlInv` says how far workers can be in
each phase, `WindowInv` orders main's readings and `OpTimeInv` bounds what a worker
has recorded by the time since the window opened.  `AccountInv` is the same for the sum over
the operations: it also needs that the operation in progress began after the last
one was accounted.  `MixInv` equates what is recorded for an operation with the
number of positions at which the worker found it, and a block of
`DISTRIBUTION_BOUND` consecutive positions, wherever it begins, visits every slot
once.  `TallyInv` (every dispatch is recorded once, in one bucket) is what the
refinement rests on: `Refinement` shows that `Init` maps to `Measurement`'s initial
states and every action to a step or a stutter.

*SyzTarget.*  A step is a step of `Harness` until an address is refused, so
`BaseInv` carries the harness's invariants over.  `CounterInv` says that the counters
are the system calls of all dispatches, `TotalInv` that the recorded count is
n(n+1)/2 times the length of the trace; the last step is non-linear
arithmetic and is done by hand.

*Startup.*  `ParsedUpTo(n)` says of every parameter that it is the last of its
arguments before the n-th, or was never written; a fixed parameter that was never
written still has the value that is looked for.
`FillInv` counts the slots of each operation; that these counts add up to the
number of slots leaves none empty (`SumFibers`).

*Executer.*  `CleanupInv` says what each cleanup loop has done to the elements it
has passed; what `stop_process` gave up on is told apart from what was never
stopped, so `NothingLeft` speaks of everything that cleanup could reach.
`LaunchInv`: an unlaunched native unit means that there is no start file yet,
which is why an abandoned cleanup does not leak it.  `FreshInv`: without an
exception waiting has found every unit to have ended well, so that a unit was
launched in this run, and then its output is of this run, or is a container of an
earlier experiment; and the first unit is always launched before anything is waited
for.  `SignalInv` gives the order of
plugins, monitors and start file loop by loop.

*Campaign.*  `Loaded` keeps the numbers of units sorted; the first run then has the
fewest, so a run after the first is never refused, and the last has the most,
which is how many default offsets there are.  `CsvInv` gives the place of every row:
`RowsBefore(n)` is the number of units of the runs before the n-th.  That all rows
have `CommonColumns` needs that a run has every application or that all
applications have the same name, which is what refusing runs with too few units is
for.  `CoresOfUnit`: without wrap-around the cores of a unit are an interval.

*Report.*  `PlotsInv` says how far `plots` and `asked` may differ: in the column of a
kind that overwrites it, and once it was drawn.  `DrawnOnce` says that
a success rate or histogram is drawn for the first frame only, because its new column
does not exist (`DerivedColumns`).  `CompleteFrames`: after a complete campaign every
combination of noise and threads has a row, so an empty frame means an
interruption.

*RedisTarget.*  `OwnerInv`: an open descriptor belongs to one client and the other
way round, however often numbers are reused; `ResultInv` bounds what a dispatch can still
count.  `SuccessesAreReal` is a sum over threads on one side and over clients on the other,
and a step changes one term of each.  With one thread `AloneInv` keeps what
`epoll_wait` reported true until it is handled.

*NetPeers.*  `ClientInv` ties what the client waits for to its step.  `CountInv`:
on an open connection the completed calls are those of the steps before this one
plus the repetitions of this one; it needs that the first operation is not
repeated.

Only model-checked: liveness (`Termination`, `RunnerEnds`, `CommandsAnswered`,
`ReadwriteReturns`, `ServerReleases`, `FillingEnds`), which is out of the prover's
reach: the provers do not reason about fairness and ENABLED.  `Measurement` states
no fairness, so its refinement is proved as a whole.  The violations are TLC's
counterexamples.

## 5. Not modelled

- The generated targets (`bench/targets/{mysql,mysql_v2,rocksdb}`).  They are over
  99 % of the lines of the repository and have no control of their own: each is a
  recorded list of system calls with their buffers, replayed from the first to the
  last.  What they share is the template, which is modelled (`SyzTarget`, where the
  list is `ProgLength` calls that succeed or fail).  The share of all lines that the
  map covers is therefore small and cannot become large; it is of the hand-written
  C and Python that the map covers the control.
- The generator: text made from strace logs by external programs.
- The thread launcher: `benchmark.c` includes it and nothing calls it.
- Text: command lines, output formats, logs, the contents of plots and documents.
- Floating-point figures (averages, throughput), noise loops.  The throughput from
  the clock and that from the time stamp counter differ in their unit
  (`bm_stats.h:278`).
- Network interfaces, namespaces and volumes of containers; scripts that configure
  the host.
- The durations in milliseconds (`benchmark.c:177-194`) and what is computed from
  them.
- A second interrupt while cleanup runs; failures of `malloc`, of `epoll_ctl` and
  of writing the output file; what becomes of processes that `stop_process` gave up
  on after the run.
- In `SyzTarget`, files and mappings, the overflow of the `int` counters
  (`syz_single.h.in:41`), and the copy of the directory's name, which is lost when
  `mkdtemp` fails (`syz_single.h.in:134-135`).
- In `Campaign`, repeated runs (the library benchkit does them), `initial_size` and
  `execution_type` as further dimensions, and the columns that monitors add to an
  output (`bm_executer.py:155`): if a monitor fails for one unit only, its row has
  other columns than `ColumnsStable` says.
- In `NetPeers`, parsing of options and of the sequence, and sequences with a count
  or a size of 0; TCP is two bounded streams with a reset.  The server's event and the
  call made for it are one step, so that a reset between `epoll_wait` and `send`,
  which ends the server with SIGPIPE, is not represented.  In `RedisTarget`, a
  command is read whole; requests longer than the buffer are listed as a hazard only.
- `PROJECT.json` ("components") lists every part with its status and reason.

## 6. Plan

The hand-written control of the repository is modelled, every safety property of the
passing runs is proved, and what is left out is listed above with its reason.  Next:

1. General forms of the other findings as theorems, as `SequenceCutShort` and
   `OneFrameOnly` are: that a native unit never waits for the start file unless
   `RETRY_COUNT` is in the environment (`executer_start_signal`).
2. `SyzTarget`: that the accounted time fits the window (`AccountInv` is not yet
   carried over to the composition).
3. Shorter proofs: lemmas about sorted lists and products of `ReportProofs` are not
   about the report and could be cited from other modules.
