# A TLA+ model of the OpenBMC Zephyr application

The application boots a baseboard management controller on Zephyr: a broker
thread routes D-Bus messages, some twenty services run as POSIX threads, a small
thread dependency manager starts them in order, shell commands and sensor
drivers sit beside them.  The modules here model the parts of `app/src` in which
order, failure and concurrency matter; TLC checks them on small instances and
TLAPS proves the most important statements for every instance.

## 1. Inventory

| Component | State | Operations | Interacts with |
|---|---|---|---|
| **Thread dependency manager** `thread_dependency_mgr.cpp/.hpp` | registry of descriptors, `state` of each, one binary semaphore per service, a shared `call_stack` under a mutex | constructors register; `start_all_auto_threads`, `THREAD_START`; the recursive `start_thread_with_dependencies`; `wait_for_dependency_ready` | calls `init_func` of `task_def.cpp`; service threads give the semaphores |
| **Service table** `main.cpp`, `task_enable.hpp` | none (static descriptors) | `THREAD_DEFINE` with dependencies, switched by `ENABLE_*` | input of the manager |
| **D-Bus broker thread and clients** `dbroker.c` | broker, controller and listener descriptors, `g_broker_alive`, `g_broker_was_alive`, `broker_started` | deployment, `broker_run`, cleanup, `_exit`/`abort` capture; `connect_to_dbroker`, `disconnect_from_dbroker` | every service is a client; started by `SYS_INIT`, released by `dbus_broker_init` |
| **Shell command workers** `busctl_shell.c`, `i2c_tools_shell.c` | a message queue of depth 1, heap copies of `argv`, the active shell, "opened" flags of i2c devices | enqueue from any session, worker loop with `setjmp`/`longjmp`, forced release | shell sessions, external tools |
| **Intel PECI sensor** `intel_peci.c` | cached temperatures and power, energy counter and time of the last reading, units, Tjmax | `init`, `sample_fetch`, `channel_get` | PECI bus, `hwmon_i2c` |
| **Task creation** `task_def.cpp/.hpp` | `thread_count`, one pthread per service | `create_task_with_pthread`, trampoline, `<service>_init`, `<service>_thread_handler` | called by the manager, runs the services |
| **Boot and file systems** `main.cpp` | mounts | `filesystem_init` in a constructor, `main` | runs the manager |
| **Network set-up** `net_stack_cfg.c` | none | `net_stack_cfg_do_once` | run by its service thread |
| **Socket pool** `socketpool.c` | a mutex | allocate, free, add a peer, wake the broker | called by nobody in this build |
| **Configuration files** `config_fs.c` (not compiled) | directory tree | `fs_rm_rf`, `lsdir_recursive`, `mkdir_dir`, `write_config`, `config_fs_init` | the FAT file system |
| **Deployment test** `test_deployment.c` (not compiled) | start semaphore, call and connection counters | deployment with retries, provider, 13 clients | `connect_to_dbroker`, sd-bus |
| **Simulated sensors** `fake_*.c` | a sample of the seconds since boot, modulo 100 | `sample_fetch`, `channel_get` | `hwmon_i2c` |
| **POSIX stubs** `misc.c`, `sys_mmap_impl.c`, headers | none | constants and forwarding | libraries |

What is hard here:

* *Manager*: a recursion over a graph nobody validated, with seven exits that
  must each pop one name; waiting while others run; one semaphore with two kinds
  of waiters; a shared stack that is written as if there were one caller.
  Correct means: nothing starts before what it needs, nothing starts twice, a
  failure stops exactly its dependents, the start ends, the report is true.
* *Broker*: two unlocked flags written and read in an order that matters, a
  thread that may be killed between any two steps, clients that come before the
  listener exists.  Correct means: refusals are justified, dead brokers are
  noticed, calls return, nothing leaks.
* *Shell workers*: ownership of a heap copy moves from session to queue to worker;
  a tool may leave by `longjmp` or take the worker with it.  Correct means: one
  owner, accepted commands run once and in order, each starts clean.
* *PECI*: six transfers that fail one by one, wrapping counters, cached values.
  Correct means: what is shown belongs together and was measured.
* *Boot and broker together*: the manager waits 100 s for a service that itself waits
  for a broker nobody waits for; the network set-up may take longer than that.
  Correct means: whoever fails has a reason, and the boot ends.
* *Configuration files*: a recursion that starts over after each subdirectory and
  drops most errors; power cuts; short writes.  Correct means: results are true,
  handles come back, it ends.
* *Deployment test*: a barrier, a counter over calls that fail one by one.
* *Task creation*, *boot*, *network*: ignored return values, a ready semaphore that
  says less than its name, a mount failure that spins for ever.

`PROJECT.json` lists the hazards line by line.

## 2. Plan

Done, in this order:

1. `StartupOrder`, `ThreadDependencyMgr`, `ServiceTable`, proofs.
2. `BrokerLifecycle`, proofs.
3. `SerialExecutor`, `ShellWorker`, proofs.
4. `PeciSensor`.
5. `BmcBoot`: the mounts, task creation, the trampoline and the network set-up,
   composed with the manager over the service table.

6. `BusStartup`: `BmcBoot` with `BrokerLifecycle` on one clock; a service is a
   client and signals only with a bus in hand.
7. `ConfigFs`, `DeploymentTest`, `FakeSensors`.

8. Theorems: every safety invariant, every action property and every refinement a
   passing run checks (section 7).
9. What can be proved of the liveness properties without fairness: a measure of each
   recursion and of the retries, which every step decreases (the manager, `fs_rm_rf`,
   `connect_to_dbroker`).

Open:

10. `CallStackMutex`: the unlocked first-use initialisation of the two mutexes
    (thread_dependency_mgr.cpp:34), which bites only with a second first caller.

Parameters are constants with named assumptions, there is one action per
operation, and no module uses `RECURSIVE`: the C recursion is an explicit stack
of frames.

## 3. Modules and the code

**ThreadDependencyMgr.**  `registry`, `tstate`, `sem`, `call_stack` are the C
objects of the same purpose.  `stack[c]` is the C stack of caller `c`: a frame per
active `start_thread_with_dependencies`, whose `pc` names the point reached.  A
step ends where another thread can be seen to have run: at a mutex region, a
call of `init_func`, a semaphore take.  `Enter` is the region under
`call_stack_mutex`; `Lookup` the unlocked read of `state`; `CallDep`, `CheckDep`,
`WaitDep` the loop over the dependencies; `InitFunc`, `InitReturned`,
`AwaitSignal` the start proper, with the window in which a thread runs but its
state is still INITIAL; `PopAndReturn` the common exit.  A read of `state` and the
branch it decides, and a take with the assignment after it, are one step:
nothing another thread does in between changes the outcome of either.
`KeepsDeps` is the copying loop of the constructor, with its cut at NULL and at
MAX_DEPENDENCIES.  A name belongs to at most one descriptor because the macros
define a static object per name (`TablesAssumption`).  Service threads are
external: one that was created gives its semaphore once; an unreliable one may
fail in `init_func` or end without giving.

**StartupOrder.**  What the manager promises: a thread goes from INITIAL to RUNNING
only when all it needs is READY, then to READY when it is up, or to FAILED.
`Order` in `ThreadDependencyMgr` maps the state of the manager to it.

**ServiceTable.**  The twenty descriptors this build registers, in constructor
order.

**BmcBoot.**  The manager with what surrounds it.  `boot` is the file system to be
mounted next (`fs_mount`; a failure is the `while (1)` behind each mount), then
"main"; the constructors of the manager run in any order with the mounts.  In
`ThreadDependencyMgr` a call of `init_func` is one step, whose outcome
`InitFuncReturns` records; here it is the steps of `create_task_with_pthread`:
`CreateFailsEarly` (attributes, stack or `malloc`), `AllocateContext`,
`PthreadCreate`, from which on the new thread may run (on the target before the call
has returned; the creator does not touch the context after a success, so one step
shows the same).  All wrappers return 0 whatever came of it, so every failure is reported as "ok" without a thread.
`dbus_broker_init` creates nothing and gives its semaphore itself.  `task[n]` is the
new thread: `task_trampoline` frees the context and calls the routine, the routine
of a service signals (`ServiceIsReady`, external) and may end or throw
(`RoutineEnds`); that of `net_stack_cfg` signals after its set-up, whatever came of
it.

**BrokerLifecycle.**  `bpc` follows the broker thread through deployment,
`broker_run` and cleanup.  `held` is what is open, one by one: the two controller
fds, the broker, the listener's descriptor before and after `listen()`, and whether
the broker has adopted the listener.  `OpenListener` and `create_listener_socket` are
the two halves of the function of that name; `LeftOpen` is the list of closes of each
of the five failing exits, taken away from what is open at that place, and
`BrokerRunReturns` that of the sixth.  A client's `link` begins with its `socket()`:
`OpenSocket`, `ConnectFails` and `ConnectSucceeds` are one attempt, and a descriptor
nobody closes stays there.  Each write of a flag and each read of a flag by a client
is a step of its own, in the order of the source (the
target has one core, and the compiler is assumed to keep the two accesses in
order, because they are plain variables).  `BrokerAborts` is `_exit`/`abort` at any
point: nothing else changes.  `Tick` is the clock: sleepers count down and may
oversleep; with `Timely` they do not.  Four polls of 25 ms are one round, the
unit is 100 ms.  `connect()` succeeds while somebody listens.  dbus-broker and
sd-bus are external: `Serve` answers a Hello, a returning broker hangs up on
those it has not answered.

**BusStartup.**  Extends `BmcBoot` and instantiates `BrokerLifecycle` for the services that
use the bus; `released` of the latter is the ready semaphore of `dbus_broker`.  A
service's routine is its call of `connect_to_dbroker`: with a bus it gives its
semaphore, without one it returns (`HasBus`, `Returns`; the routines are external).
`patience` is what is left of main's `k_sem_take(..., K_SECONDS(100))`, `net_left` of
`CONFIG_NET_CONFIG_INIT_TIMEOUT`.  Time passes when every thread sleeps or waits;
the mounts take as long as they like.

**ConfigFs.**  `tree` is what is at every path, `stack` the active calls of `fs_rm_rf` or
`lsdir_recursive` with the entries each has seen; reopening a directory forgets
them.  Every call of the file system whose result matters may fail on its own.
`WriteContent` is `fs_write`, which on a full disk succeeds with a short count (`count`),
and `CloseFile` is `fs_close`, which brings the content to the disk: if that fails the
file stays partial, and the result is dropped.  `lost` remembers either until the next
call, `before` what the target was.  A failed `fs_close` is assumed to free the handle;
failures of `fs_closedir` and of the closing `read_file` have no effect anybody sees.
`mkdir_dir` starts with the mount point itself: the code
that skips it looks for a colon, which "/mnt" does not have.  `PowerCut` ends any
call where it is.  Names are data, and paths fit their buffers.

**DeploymentTest.**  `bpc`, `ppc`, `cpc` follow broker, provider and clients;
`client_start_sem` has its limit; `given` counts the gives of `start_client_threads`.
A connect or a call of sd-bus succeeds or fails at will.  `requests` are the ProcessData
calls on their way: the provider handles them (`method_process_data`) while it serves,
whether their clients still wait or not.

**FakeSensors**, **MCSensors.**  One counter and three ways to compute values from it,
with C's division; `seconds` wraps where `k_uptime_get_32() / 1000` does.  `MCSensors`
is the choice a build makes between the real driver and a simulated one.

**ShellWorker**, **SerialExecutor.**  A command is a pair of session and number, and
stands for its argv copy: `heap` is the set of live copies.  `k_msgq_put` hands the
message to a worker that waits in `k_msgq_get`, and queues it otherwise.  `tool`
says which file it is: the i2c worker catches `exit()` and releases the devices, the
busctl worker dies of it.  The abstract executor has a backlog of at most
DEPTH + 1.

**PeciSensor.**  `sample_fetch` is one step, with a success or failure for each of
its transfers.  Encodings are arithmetic on integers: `PassesCheck` is the
comparison of byte 0 of `GetTemp0`, `StripAndExtend` the shift and the or, `Delta` the unsigned
difference, `ToWatts` the three divisions in their order and the cast to int (`ToInt`,
of the width of the counter).

## 4. Runs

| Run | Question | Bounds and why they suffice |
|---|---|---|
| `graphs` | Is one caller's start right on every graph? | three threads and an unregistered name, all combinations of nine dependency lists per thread (self loops, two- and three-cycles, missing names, lists cut by NULL or by length), four threads for a registry of three, a stack of three, two unreliable services: every exit and every nesting of the recursion occurs |
| `two_callers` | What holds with a second caller? | `main` starts all while a shell starts one service; a diamond makes them meet in it |
| `boot` | Does this build come up, whatever fails on the way? | the real table and limits; every mount may fail; `objmgr`, `net_stack_cfg` and `logging`, on which others depend directly or not, may fail to be created, end, throw or stay silent; the manager as the abstract specification |
| `init_twice` | disagreement, see 6 | as `two_callers` |
| `broker` | Refusals, leaks, return | two clients with two calls each, all faults, short delays and budgets, free oversleeping: every order of the steps, every exit with everything that can be open there |
| `bus_startup` | Do sleeps, budgets and timeouts fit, and does the boot end whatever the broker does? | the real numbers, in units of 100 ms; four services with their real dependencies, two of them clients, one the network; creations that fail; a broker whose deployment fails, that returns or is killed at any tick |
| `broker_aborted` | disagreement | one client |
| `shell` | ownership, order, completion | both workers; two sessions with two commands: one running, one queued, one refused and one being copied; tools that return, exit or abort |
| `config` | Do the file functions tell the truth and end, whatever fails? | seven paths three levels deep, two of them configuration files; any initial tree; every call failing at any time, short writes, power cuts |
| `deployment` | Is no start lost and no connection miscounted? | three clients for thirteen (they are interchangeable), two attempts for the listener; calls handled late |
| `peci` | Is power the average, do shown values belong together, are simulated values sensible? | simulated: 130 seconds, more than the period of 100, from 0 and across the wrap at 4294967 s; Intel: a counter modulo 256, half a joule per unit, that starts at 0 or just before its wrap; intervals of 0.9, 1 and 1.9 s and 70 or 240 units, so up to three readings with failures between, powers of 35, 36, 38, 81 and 120 W, and 133 W, which an int of that width does not hold; one raw reading that passes the check and one that does not |
| `peci_raw` | disagreement | two Tjmax values, four raw readings, no energy |

Deadlock is not checked for `BrokerLifecycle`, `ShellWorker` and `DeploymentTest`, where
everybody may be finished.  In `BusStartup` it is: if nobody but main's closing loop
can go on, time must be able to pass.  The manager never deadlocks: `main` ends in its own loop.

## 5. Fairness

The manager, alone and in `BmcBoot`: threads that can run eventually do, timed takes return, a reliable
service gives its semaphore.  A take gives up only if nobody is going to give
(`MayTimeOut`): the timeouts of 20 s and 100 s are assumed longer than a reliable start.
Nothing is assumed of unreliable services.  In `BmcBoot` the constructors run,
a mount returns, main and the threads created are scheduled, and the set-up of
the network ends, because each of its waits has a timeout.

For the services that use the bus, `bus_startup` discharges that assumption:
`TimeoutsAreDue` says that a client without a bus has returned before the 100 s are
over (1 s, 20 s and 5 s against 100 s); `TimeoutsComeLate` proves it for all such
numbers.  There every thread that can run is
scheduled and the clock runs; nobody oversleeps.

`ConfigFs`: a call of the file system returns.  `DeploymentTest`: the client threads are
scheduled and sd-bus calls time out; nothing is assumed of broker and provider.

The broker: the clock runs and a client that is awake runs on.  Nothing is
assumed of the broker, so `ConnectReturns` holds even if it never answers.

The shell workers: the worker is scheduled and a tool ends.  A tool that hangs
on a dead bus blocks its worker; that is the case the source names, and the
reason why `AcceptedIsDone` is stated under this fairness only, and up to the
exits that end the worker: `abort()`, and `exit()` in busctl.

## 6. Disagreements between the code and its text

* `init_twice`: with two callers, a pop takes away the other's name and a thread is
  initialised twice, against "If already started or starting, return immediately".
* `broker_aborted`: a broker that dies by `abort()` is still believed alive.
* `peci_raw`: the status check looks at the low byte of the temperature.

Seen while modelling, and not worth a run of their own:

* Services are released before the broker runs (`dbus_broker_init` gives the semaphore
  itself), against README.md:352; `ReadyNeedsBroker` shows what holds in spite of it.
* `net_stack_cfg` may need 120 s (prj.conf:63) where the manager waits 100 s: without a
  cable it is FAILED and `net_ipmid`, `ipmid` and `kcs_bridge` are never started,
  although it signals later.  `FailureHasCause` has a clause for it.
* The network services are ordered behind `net_stack_cfg` "to ensure the network is
  configured" (main.cpp:175), but the semaphore is given after a failure too.
* The worker of the shells takes a command out of its queue before it runs it: one
  more is accepted while it is busy, against busctl_shell.c:104.
* `wait_for_dependency_ready` is called with 20 s under a comment that says 100
  (thread_dependency_mgr.cpp:290).
* `write_config` returns 0 for half a file when `fs_close` fails (config_fs.c:790) or `fs_write`
  is short (785), against "0 on success, negative errno on error" (826); `WrittenIsWhole`
  shows that these two are the only losses a 0 hides.
* `config_fs_init` ignores both results and returns 0, against config_fs.h:17;
  `mkdir_dir` takes a file in place of the directory for success (config_fs.c:724); its comment about skipping
  "/mnt" (693) does not hold for a mount point without a colon.
* In the deployment test a listener that cannot be created or added leaves the
  broker and the controller descriptors open (518, 524), the provider keeps its bus
  when the vtable cannot be added (171), `stats_mutex` is never initialised, and
  `delay_ms` (465) would overflow after some nineteen days of retries.

Only `main` calls the manager in this build, so the first needs a second user of
the API, such as a `THREAD_START` from a shell command.  For the same reason such
a user can be refused as circular on an acyclic graph.

## 7. Proofs

Every theorem holds for all values of the constants under the named assumptions of the
modules: the limits, delays and retries are natural numbers; the tables name each
thread once; `dbus_broker` and `net_stack_cfg` are services (`BootAssumption`) and the
broker thread is none (`BrokerAssumption`); the provider is no client; a path has a
component, and what it is in is a path; a failure is no reading, and the energy
unit fits its five bits.  TLC evaluates each of them on a run.  A theorem that needs
more says so in its statement, as a named hypothesis.  This build meets those on the
table, the callers, the limits and the times; two speak of the surroundings
(`ClientsAreSound`, `CpuHasTjmax`), and are explained below.

### The manager, any number of callers (`ThreadDependencyMgr_proofs`)

* `TypeCorrect`: the types.
* `StartsOnlyAfterSignals`: `init_func` of a thread is called only after all its
  dependencies have given their semaphores.
* `ReadyIsEarned`: READY is never reported of a thread that has not.

The second is not inductive: the decision is spread over many steps, between
which other callers move.  `SignalInv` says of every frame that the dependencies
it has passed (those before its `dep`) are registered and have signalled, that a
frame beyond the loop has passed all of them, and that `sem`, `tstate` and
`signalled` agree (a semaphore that is up, and a thread that is READY, was given).
Registration only appends, so what was looked up stays as it was
(`DescriptorIn`).  Signals are never taken back, which is why stealing semaphores
and popping the wrong name cannot break it.

* `RecursionIsBounded`: the shared stack holds as many names as calls are active past their
  entrance, of all callers together.  With two callers it may hold the wrong ones, because
  each takes off whatever is on top; but nothing is popped twice or left behind on
  any of the exits, so its limit bounds everybody's recursion.  `CountInv` counts the calls as a
  set of pairs of caller and level, to which a push adds one and from which a pop takes one.
* `StartIsBounded` (`StartRunsDown`): every step of a caller leaves it less to do, and nothing that
  other callers or services do gives it more.  `Work(c)` has a number for the loop of
  `start_all_auto_threads` and one for each level of the stack: the dependencies left and the
  place in the loop body, the highest for a level not in use.  A call makes its own
  level smaller before it opens the next, a return makes that of its caller smaller.
  The order is lexicographic and well-founded; the width comes from
  `RecursionIsBounded`.  No hypothesis: cycles, missing names, failures, any number of callers.

### The manager, one caller

Hypothesis `OneCaller`.  It is necessary: the run `init_twice` shows
`InitAtMostOnce` violated with two, and this build has `main` alone.

* `StackMirrorsCalls` (`CallStackMirrors`).  `ShapeInv`: all frames but the topmost are
  inside their recursive call, the shared stack holds the names of the frames that
  are past the entrance, each once.  The seven exits differ in whether the name has
  been pushed; a lemma for each way the stack moves (on, push, turn round, pop, call)
  serves all steps.
* `NoThreadStartsTwice` and `StartsOnlyAfterReady`, together, by `ProgressInv`: what the
  program counter of every frame, not only of the topmost, says of the state of its thread
  and of the dependencies behind its index.  A thread stays INITIAL while
  `init_func` runs, so that nothing in the state of the thread prevents a second call: what does is the
  shape, because only the topmost frame can be there and names are on the stack
  once.
* `ManagerImplementsOrder` (`StartVerdict_proofs`): every step maps to a step of `StartupOrder` or a
  stutter.
* `StartVerdictTrue` and `OnlyTheBrokenStay` (`StartVerdict_proofs`): what `main` reports, and who is left
  behind.  `LoopInv` adds that no failure gets lost on its way to `failed_count`.  Its
  core is `DoomInv`: there is a set `X` that holds all FAILED threads, none that is READY or RUNNING,
  and with every waiting registered thread a dependency of it, such that whenever an
  error travels up, every name on the stack is in `X`.  A cycle, a missing name and a
  broken service are the three ways into `X`; it grows only by the names on the
  stack, and what is in it can never be READY.  That reliable services do not fail
  is `Reliable`.

  These two need `MainAlone` (one caller, starting all: with nobody to start them
  threads are left behind) and `RoomForAll` (as much room on the shared stack as descriptors): with
  a stack of two and tA, tB, tC each depending on the next and registered in this order,
  the call for tC overflows and tA is given up; tB and tC start afterwards, and tA
  stays INITIAL with all it needs READY.  This build has twenty descriptors and a
  stack of 32 (`ThisBootFits`).

### The boot (`BusStartup_proofs`, first half)

* `BootImplementsManager`: thread creation in three steps, the trampoline, exceptions and the
  services' signals do to the manager only what its own model of `init_func`
  does.  So every theorem above holds in the boot.
* `ContextsNeverLeak`, for one caller: `ContextInv` relates the contexts alive to the callers inside
  `create_task_with_pthread` and to the threads not yet in their routine, as two sets that share
  nothing; that they share nothing rests on `NoThreadStartsTwice`.
* `NetworkComesFirst`, for any number of callers: if `net_stack_cfg` is defined with a
  semaphore (`NetworkSignals`, which the macro sees to), nothing that needs the network starts before it
  was tried.
* `BootVerdictTrue`: table, caller and limits of this build (`ThisBoot`) meet all the
  hypotheses, whichever services fail.
* `ReliableServicesComeUp`: at the end of this boot every service that is reliable, and needs
  only such (`Closed`), is READY.  That is what `RestOfBmcComesUp` promises, without its "the
  start ends".  `SoundPartsComeUp` says it of every table: by `OnlyTheBrokenStay` a first
  service that is not READY, in an order in which dependencies come first, has no
  reason to be so.  For the order, `TableInv` carries the table into the registry, and
  `TableIsOrdered` finds every service listed after what it needs: no cycle, no missing
  name.  Hence `SoundBootSucceeds`: when nothing fails, main reports no failure.

### Boot and broker on one clock (`BusStartup_proofs`, second half)

* `StartupImplementsParts`: the composition implements the manager and, by the
  same steps, the broker with its clients, so no property of either is lost by composing them.
* `ReadyMeansBus`: a client is READY only with a bus of its own and after the broker
  has run, although the manager releases it before.  `BusInv` follows the claim from the semaphore
  to the result of `connect_to_dbroker`, from there to the link, and from the
  link to the flags; any number of callers, any delays, any faults.  Clients must have
  a semaphore (`HaveSem(BusClient)`).
* `TimeoutsComeLate`: when the manager's patience is over, a client that has not
  signalled has no thread any more.  `Remaining(n)` bounds what is left of its call at
  each place in `connect_to_dbroker`; `PatienceInv` says that main's patience
  exceeds it from the moment main waits, because every tick takes one from
  both.  Needs `OneCaller` and `ClientsAreInTime`: `Budget < READY_TIMEOUT`.
* `OnlyTheDeadFail` (`FailureHasCause`): a service is FAILED only without a
  thread, without a broker, or for the known reason of the network.  `BudgetInv`
  says that a client has more attempts left than the broker needs ticks to
  listen, and more rounds than it needs to answer; `NetInv` that the patience for the
  network and what is left of its set-up run down together; `MainInv` that no signal is lost
  before main takes it.  Needs besides `BrokerIsInTime` (the broker's sleeps fit into the
  clients' retries) and `ClientsAreSound` (the client's own `socket()` and `sd_bus_new` do not fail).

  The timing hypotheses are tight: with `CONNECT_RETRIES = LISTENER_DELAY + 1`, with
  `READY_RETRIES = ALIVE_DELAY + RUN_DELAY + 1`, or with `READY_TIMEOUT = Budget` TLC finds
  a violation of the theorem's property.
* `ThisStartup`: the numbers of this build meet them with a wide margin
  (`ThisTiming`: 1 and 15 ticks of broker delay against 200 attempts and 50 rounds; 260 ticks
  against 1000).

### The other components

* `BrokerLifecycle_proofs`, for every number of clients, faults and budgets: `TypeCorrect`;
  `RefusalIsJustified` (a client is refused only when the broker thread is over: `was_alive`
  implies a thread past its marks, from then to the end `alive` is set, and a
  client between the two reads has seen `was_alive`); `BusMatchesVerdict` (a bus exactly
  after success: every exit of the call is in one of the two); `EndReleasesAll` (`HeldFollowsPlace`: each place
  of the deployment determines what is open there, so that the list of closes of its exit can be
  compared with it); `LateCallsFailFast` (a call remembers in `late` that it
  began after the end); `CallsAreBounded` (`CallsRunDown`: each step inside `connect_to_dbroker`, and
  each tick it waits through, uses up some of what `Rest` says the call has left, which begins
  with `Allowance`, three for an attempt: the socket, the connect, the sleep; nothing the broker or another client does gives any of it back).
  Each invariant is proved for the three who move (`WhoMoves`): the broker thread, one client,
  and the quiet steps (the starting call, the clock), which `QuietFrame` shows leave it alone.
* `ShellWorker_proofs`, for every depth and number of sessions and commands: `TypeCorrect`;
  `NextStartsClean`; `CopiesAreFreedOnce` (`OwnerInv`: no command is in two hands, which rests
  on the verdict of `k_msgq_put` telling how far each has come, and on a waiting
  worker leaving nothing queued); `WorkerImplementsExecutor`.
* `ConfigFs_proofs`, for every tree, depth and fault: `RemovalTellsTheTruth`,
  `ZeroMeansWritten`, `HandlesComeBack`, `OthersAreSpared` (an action property).  `FsInv` says that
  whatever exists is in a directory, that the frames walk down from the target and that the
  handles open are where the recursion is; `WriteInv`, that the target is
  as before until it is opened, and that `count` and `lost` tell what `fs_write` has done.  That a directory without entries has
  nothing anywhere below it would be an induction over the depth; here it is the
  smallest counterexample of a well-founded order, `NatLessThanWellFounded`.
  `RemovalIsBounded` (`RemovalRunsDown`): every step of `fs_rm_rf`, whatever call fails, makes five numbers
  smaller in lexicographic order: the paths present; whether the recursion goes down or
  unwinds; the levels below; the place in the frame; the entries not read.
  Hypothesis `Bounded(Levels)`: finitely many paths, of at most so many components.  It
  needs `ChainInv`: a frame is one level below its caller, and a directory being removed is
  there.
* `DeploymentTest_proofs`: `StatisticsAreHonest`, for every number of clients.
* `Sensors_proofs`: `PowerShownIsAverage`, for every width of the counter, unit and interval, across failures, the wrap
  and both roundings (the driver keeps counter and time of the last reading, and
  only if a unit was known: `ShotsInv`); `FakeValuesAreSensible`, at every uptime;
  `MarginBelongs`, if no CPU answers a Tjmax of 0 (`CpuHasTjmax`).  Without that, 0 is
  taken for "not read yet", and the next successful reading changes Tjmax under the
  margin shown: TLC finds it with the readings 0 and 90.

### Only model-checked

* Liveness under fairness, which is out of the prover's reach: `StartTerminates`,
  `RestOfBmcComesUp`, `ConnectReturns`, `AcceptedIsDone`, `StartEnds`, `CallReturns`,
  `EveryClientEnds`.  Of `StartTerminates`, of `CallReturns` for `fs_rm_rf` and of
  `ConnectReturns` the measures above prove what does not depend on the scheduler: no run
  takes infinitely many steps of the caller.  That it does take them stays with TLC.
* The three disagreements, which are counterexamples.

The refinements are of safety: `StartupOrder`, `SerialExecutor` and the `Spec` of the
manager state no fairness.  The prover cannot use the theorems of
`BrokerLifecycle_proofs` through an INSTANCE, so the second half of
`BusStartup_proofs` states the part of the broker's invariant it needs (`BrokerOK`,
`LinkOK`) and proves it over the composed steps.

## 8. Not modelled

`print_thread_status` and `check_thread_dependencies` change nothing.  The services,
dbus-broker, sd-bus, busctl and the i2c tools are libraries outside `src/` and
appear as external actions.  Kernel mutexes, semaphores and queues are atomic
steps.

Hazards outside the models, besides those `PROJECT.json` lists with a note:
`i2c_fs_force_release` (i2c_tools_shell.c:100) also closes devices of other threads;
the bus becomes the process-wide default before it is ready (dbroker.c:407);
`deploy_state` is never reset (209); `StripAndExtend` is wrong for readings above Tjmax
(intel_peci.c:284), which the CPU does not report; `fs_rm_rf` takes a kilobyte of
stack per level and cuts longer paths (config_fs.c:575, 596).

* *Socket pool*: no state but a mutex and no caller; each function is one creation,
  hand-over or closing of a pair.
* *sd-event test*: a loop around an external test suite, called by nobody.
* *POSIX stubs*: constants and forwarding.
* *Build configuration*: no behaviour; read for what is compiled and for limits.
* The texts of the configuration files in `config_fs.c`, which are data and about half
  of that file, and the wrappers of `task_def.cpp` for services this build disables.
