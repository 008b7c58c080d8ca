------------------------------- MODULE BmcBoot -------------------------------
(***************************************************************************)
(* The boot of this build: the mounts of main.cpp, the thread dependency   *)
(* manager over the service table, and what its init_func calls do:        *)
(* create_task_with_pthread of task_def.cpp with its failures, the         *)
(* trampoline that confines exceptions, and the network set-up thread of   *)
(* net_stack_cfg.c.  Priorities, names and the printed thread count are    *)
(* left out.                                                               *)
(***************************************************************************)
EXTENDS ServiceTable

CONSTANTS
  MountFaults   \* file systems whose mount may fail

\* The two services whose init_func the module tells apart by name.
ASSUME BootAssumption == {"dbus_broker", "net_stack_cfg"} \subseteq Name

VARIABLES
  boot,    \* the next file system to mount, "main", or how the boot ended
  making,  \* per caller, how far create_task_with_pthread is
  ctx,     \* services whose task_trampoline_ctx is allocated
  task,    \* the thread of every service
  net      \* result of net_stack_cfg_do_once

boot_vars == <<boot, making, ctx, task, net>>

all_vars == <<vars, boot_vars>>

FileSystem == {"rw", "ro", "sd", "overlay"}

NextBoot ==
  [rw |-> "ro", ro |-> "sd", sd |-> "overlay", overlay |-> "main"]

(***************************************************************************)
(* filesystem_init, run by a constructor                                   *)
(***************************************************************************)

fs_mount ==
  /\ boot \in FileSystem
  /\ boot' = NextBoot[boot]
  /\ UNCHANGED <<vars, making, ctx, task, net>>

\* while (1); behind every mount.
MountFails ==
  /\ boot \in FileSystem \cap MountFaults
  /\ boot' = "spin"
  /\ UNCHANGED <<vars, making, ctx, task, net>>

(***************************************************************************)
(* The init functions of task_def.cpp.  Each but one defines its stack,    *)
(* calls create_task_with_pthread and returns 0 whatever that returned.    *)
(***************************************************************************)

HostServices      == {"ipmid"}
BridgeServices    == {"kcs_bridge"}
ObjectServices    == {"bmcweb", "objmgr", "software_updater", "image_manager"}
SensorServices    == {"adc_sensor", "external_sensor", "fan_sensor", "hwmon_temp_sensor",
                      "intel_cpu_sensor", "intrusion_sensor", "psu_sensor"}
NetworkServices   == {"net_stack_cfg", "net_ipmid"}
LogServices       == {"logging", "sel_logger"}
InventoryServices == {"entity_manager", "fru_device"}

Created ==
  HostServices \cup BridgeServices \cup ObjectServices \cup SensorServices
    \cup NetworkServices \cup LogServices \cup InventoryServices

\* A caller inside the init_func of a service.
Inside(c, how) == At(c, "init") /\ making[c] = how

\* pthread_attr_init, pthread_attr_setstack or malloc fails.
CreateFailsEarly(c) ==
  /\ Inside(c, "no")
  /\ Top(c).name \in Created \cap Unreliable
  /\ InitFuncReturns(c, "ok", FALSE)
  /\ UNCHANGED boot_vars

AllocateContext(c) ==
  /\ Inside(c, "no")
  /\ Top(c).name \in Created
  /\ making' = [making EXCEPT ![c] = "context"]
  /\ ctx' = ctx \cup {Top(c).name}
  /\ UNCHANGED <<vars, boot, task, net>>

\* Fault: the context of a thread that was not created is kept.
LeaksContext(n) == ctx

ContextFreed(n) == ctx \ {n}

\* pthread_create: from here on the new thread may run.
PthreadCreate(c) ==
  /\ Inside(c, "context")
  /\ making' = [making EXCEPT ![c] = "no"]
  /\ \/ /\ InitFuncReturns(c, "ok", TRUE)
        /\ task' = [task EXCEPT ![Top(c).name] = "new"]
        /\ UNCHANGED ctx
     \/ /\ Top(c).name \in Unreliable
        /\ InitFuncReturns(c, "ok", FALSE)
        /\ ctx' = ContextFreed(Top(c).name)
        /\ UNCHANGED task
  /\ UNCHANGED <<boot, net>>

\* dbus_broker_init creates no thread; it gives the semaphore itself.
dbus_broker_init(c) ==
  /\ Inside(c, "no")
  /\ Top(c).name = "dbus_broker"
  /\ InitFuncReturns(c, "ok", TRUE)
  /\ making' = [making EXCEPT ![c] = "give"]
  /\ UNCHANGED <<boot, ctx, task, net>>

dbus_broker_gives(c) ==
  /\ making[c] = "give"
  /\ GiveReadySem("dbus_broker")
  /\ making' = [making EXCEPT ![c] = "no"]
  /\ UNCHANGED <<boot, ctx, task, net>>

init_func(c) ==
  \/ CreateFailsEarly(c) \/ AllocateContext(c) \/ PthreadCreate(c)
  \/ dbus_broker_init(c) \/ dbus_broker_gives(c)

(***************************************************************************)
(* The service threads                                                     *)
(***************************************************************************)

\* task_trampoline frees its context before it calls the routine.
task_trampoline(n) ==
  /\ task[n] = "new"
  /\ task' = [task EXCEPT ![n] = "routine"]
  /\ ctx' = ContextFreed(n)
  /\ UNCHANGED <<vars, boot, making, net>>

\* No device, no interface, or no address in time.
net_stack_cfg_do_once ==
  /\ task["net_stack_cfg"] = "routine"
  /\ net = "none"
  /\ \/ net' = "ok"
     \/ "net_stack_cfg" \in Unreliable /\ net' = "failed"
  /\ UNCHANGED <<vars, boot, making, ctx, task>>

\* Fault: the semaphore is given before the set-up.
GivesAtStart(n) == TRUE

\* net_stack_cfg gives its semaphore after the set-up, whatever came of it.
MayGive(n) == n = "net_stack_cfg" => net # "none"

ServiceIsReady(n) ==
  /\ task[n] = "routine"
  /\ MayGive(n)
  /\ GiveReadySem(n)
  /\ UNCHANGED boot_vars

\* Fault: nobody catches what the routine throws.
Uncaught(b) == "panic"

AfterException(b) == b

\* Fault: the trampoline gives the semaphore when the routine is over.
GivesOnExit(n) ==
  /\ sem' = [sem EXCEPT ![n] = 1]
  /\ signalled' = [signalled EXCEPT ![n] = TRUE]
  /\ UNCHANGED <<registration, tstate, starting, inits, call_stack, stack, result, top>>

\* To the manager, a thread that ends is one that will not signal any more.
OnExit(n) ==
  IF starting[n] > 0 THEN EndSilently(n) ELSE UNCHANGED vars

\* The routine of a service returns or throws, before or after it was ready;
\* that of net_stack_cfg always returns, once it has signalled.
RoutineEnds(n) ==
  /\ task[n] = "routine"
  /\ IF n = "net_stack_cfg" THEN signalled[n] ELSE n \in Unreliable
  /\ task' = [task EXCEPT ![n] = "ended"]
  /\ boot' \in {boot, AfterException(boot)}
  /\ OnExit(n)
  /\ UNCHANGED <<making, ctx, net>>

(***************************************************************************)
(* Specification                                                           *)
(***************************************************************************)

\* The steps of the manager outside init_func; k_sem_give is still inside it.
ManagerStep(c) ==
  /\ boot = "main"
  /\ making[c] = "no"
  /\ ~At(c, "init")
  /\ CallerStep(c)
  /\ UNCHANGED boot_vars

MainThread(c) == ManagerStep(c) \/ init_func(c)

ServiceThread(n) == task_trampoline(n) \/ ServiceIsReady(n)

Register == register_thread_descriptor /\ UNCHANGED boot_vars

\* The closing loop of main, the spin of a failed mount, or k_panic.
Stays ==
  /\ boot \in {"spin", "panic"} \/ \A c \in Caller : Done(c)
  /\ UNCHANGED all_vars

BootInit ==
  /\ Init
  /\ boot = "rw"
  /\ making = [c \in Caller |-> "no"]
  /\ ctx = {}
  /\ task = [n \in Name |-> "none"]
  /\ net = "none"

BootNext ==
  \/ /\ boot \notin {"spin", "panic"}
     /\ \/ Register \/ fs_mount \/ MountFails
        \/ \E c \in Caller : MainThread(c)
        \/ \E n \in Name : ServiceThread(n) \/ RoutineEnds(n)
        \/ net_stack_cfg_do_once
  \/ Stays

\* The main thread and the threads created run on; a reliable service signals.
BootFairness ==
  /\ WF_all_vars(Register)
  /\ WF_all_vars(fs_mount \/ MountFails)
  /\ \A c \in Caller : WF_all_vars(MainThread(c))
  /\ \A n \in Name \ Unreliable : WF_all_vars(ServiceThread(n))
  /\ WF_all_vars(net_stack_cfg_do_once)

BootSpec == BootInit /\ [][BootNext]_all_vars /\ BootFairness

(***************************************************************************)
(* Properties                                                              *)
(***************************************************************************)

\* A context belongs to its creator from malloc to pthread_create and to the
\* new thread from then on until the routine starts: the thread may run, and
\* free it, before its creator goes on, and a failed creation leaves nothing.
ContextHasOneOwner ==
  ctx = {Top(c).name : c \in {d \in Caller : Inside(d, "context")}}
          \cup {n \in Name : task[n] = "new"}

\* A service that needs the network starts after the set-up was tried.
NetworkTriedFirst ==
  \A n \in Name :
    inits[n] > 0 /\ "net_stack_cfg" \in DepsOf(n) => net # "none"

\* "This trampoline confines the damage to the offending thread"
\* (task_def.cpp:22): unless a mount fails, whatever threads cannot be created,
\* end, throw or never signal, the services that need none of them come up.
RestOfBmcComesUp ==
  \A n \in ServiceNames \ Affected : <>[](boot = "spin" \/ tstate[n] = READY)

\* Creation, trampoline and threads are what the manager takes init_func and
\* the ready semaphores for.
ImplementsManager == Spec
=============================================================================
