-------------------------- MODULE BusStartup_proofs --------------------------
(***************************************************************************)
(* Proofs about the boot, and about the boot with its broker.              *)
(*                                                                         *)
(* First the boot by itself (BmcBoot): what main, create_task_with_pthread,*)
(* the trampoline and the service threads do is what the thread dependency *)
(* manager takes init_func and the semaphores for, so that what is proved  *)
(* of the manager holds of the boot; then the life of the trampoline's     *)
(* context and the order of the network set-up.                            *)
(*                                                                         *)
(* Then the composition (BusStartup): a READY service has its bus; the     *)
(* time a thread under way still needs fits into the timeout of those who  *)
(* wait for it; and from both, that nobody fails without a cause.          *)
(***************************************************************************)
EXTENDS BusStartup, StartVerdict_proofs

(***************************************************************************)
(* Every step of the boot is a step of the manager or none                 *)
(***************************************************************************)

LEMMA InitFuncSimulates ==
  ASSUME NEW c \in Caller, init_func(c)
  PROVE  [Next]_vars
<1>1. CASE CreateFailsEarly(c)
  <2>1. InitFunc(c)
    BY <1>1 DEF CreateFailsEarly, Inside, InitFunc
  <2>2. QED
    BY <2>1 DEF Next, CallerStep, StartThread
<1>2. CASE AllocateContext(c)
  BY <1>2 DEF AllocateContext
<1>3. CASE PthreadCreate(c)
  <2>1. InitFunc(c)
    BY <1>3 DEF PthreadCreate, Inside, InitFunc
  <2>2. QED
    BY <2>1 DEF Next, CallerStep, StartThread
<1>4. CASE dbus_broker_init(c)
  <2>1. InitFunc(c)
    BY <1>4 DEF dbus_broker_init, InitFunc
  <2>2. QED
    BY <2>1 DEF Next, CallerStep, StartThread
<1>5. CASE dbus_broker_gives(c)
  BY <1>5, BootAssumption DEF dbus_broker_gives, Next
<1>6. QED
  BY <1>1, <1>2, <1>3, <1>4, <1>5 DEF init_func

LEMMA BootSimulates ==
  ASSUME [BootNext]_all_vars
  PROVE  [Next]_vars
<1>1. CASE Register
  BY <1>1 DEF Register, Next
<1>2. CASE fs_mount \/ MountFails \/ net_stack_cfg_do_once
  BY <1>2 DEF fs_mount, MountFails, net_stack_cfg_do_once
<1>3. ASSUME NEW c \in Caller, MainThread(c) PROVE [Next]_vars
  <2>1. CASE ManagerStep(c)
    BY <2>1 DEF ManagerStep, Next
  <2>2. QED
    BY <1>3, <2>1, InitFuncSimulates DEF MainThread
<1>4. ASSUME NEW n \in Name, ServiceThread(n) \/ RoutineEnds(n) PROVE [Next]_vars
  <2>1. CASE task_trampoline(n)
    BY <2>1 DEF task_trampoline
  <2>2. CASE ServiceIsReady(n)
    BY <2>2 DEF ServiceIsReady, Next
  <2>3. CASE RoutineEnds(n)
    BY <2>3 DEF RoutineEnds, OnExit, Next
  <2>4. QED
    BY <1>4, <2>1, <2>2, <2>3 DEF ServiceThread
<1>5. CASE Stays \/ UNCHANGED all_vars
  BY <1>5 DEF Stays, all_vars
<1>6. QED
  BY <1>1, <1>2, <1>3, <1>4, <1>5 DEF BootNext

\* Thread creation with its failures, the trampoline with its exceptions and
\* the services' own signals never do to the manager what its model of
\* init_func and of the service threads does not do: a boot of BmcBoot is a
\* behaviour of ThreadDependencyMgr.
THEOREM BootImplementsManager == BootSpec => ImplementsManager
<1>1. BootInit => Init
  BY DEF BootInit
<1>2. [BootNext]_all_vars => [Next]_vars
  BY BootSimulates
<1>3. QED
  BY <1>1, <1>2, PTL DEF BootSpec, ImplementsManager, Spec

(***************************************************************************)
(* The context of task_trampoline                                          *)
(***************************************************************************)

BootTypeOK ==
  /\ making \in [Caller -> {"no", "context", "give"}]
  /\ ctx \subseteq Name
  /\ task \in [Name -> {"none", "new", "routine", "ended"}]
  /\ net \in {"none", "ok", "failed"}

\* A service has a thread only if its init_func has been called.
ThreadsAreInitiated == \A n \in Name : task[n] # "none" => inits[n] # 0

Held == {Top(c).name : c \in {d \in Caller : Inside(d, "context")}}

Fresh == {n \in Name : task[n] = "new"}

ContextInv ==
  ProgressInv /\ BootTypeOK /\ ThreadsAreInitiated /\ ContextHasOneOwner

\* Inside its init_func a service has been neither started nor created.
LEMMA InsideMeansNew ==
  ASSUME ContextInv, NEW c \in Caller, At(c, "init")
  PROVE  /\ Top(c).name \in Name
         /\ inits[Top(c).name] = 0 /\ task[Top(c).name] = "none"
<1>1. stack[c] # <<>> /\ Top(c).pc = "init"
  BY DEF At
<1>2. Top(c).name \in Name /\ inits[Top(c).name] = 0
  BY <1>1, TopProgress DEF ContextInv, ProgressOK
<1>3. QED
  BY <1>2 DEF ContextInv, ThreadsAreInitiated

LEMMA InitFuncLeaves ==
  ASSUME ContextInv, NEW c \in Caller, NEW created \in BOOLEAN,
         InitFuncReturns(c, "ok", created)
  PROVE  /\ ~At(c, "init")'
         /\ inits' = [inits EXCEPT ![Top(c).name] = @ + 1]
         /\ Top(c).name \in Name
<1>1. /\ stack[c] # <<>> /\ inits' = [inits EXCEPT ![Top(c).name] = @ + 1]
      /\ SetTop(c, [Top(c) EXCEPT !.pc = "inited", !.ret = "ok"])
  BY DEF InitFuncReturns, At
<1>2. Top(c) \in Frame /\ Top(c).name \in Name
  BY <1>1, TopProgress DEF ContextInv
<1>3. PICK f : Moves(c, f) /\ f.pc = "inited"
  BY <1>1, <1>2, InitMoves DEF Ret
<1>4. Top(c)' = f
  BY <1>1, <1>3, TopAfterMove DEF ContextInv
<1>5. QED
  BY <1>1, <1>2, <1>3, <1>4 DEF At

\* inits only grows, so a thread that exists stays accounted for.
LEMMA InitsGrow ==
  ASSUME SignalInv, [Next]_vars, NEW n \in Name, inits[n] # 0
  PROVE  inits'[n] # 0
<1>1. inits \in [Name -> Nat]
  BY DEF SignalInv, TypeOK
<1>2. ASSUME NEW c \in Caller, CallerStep(c) PROVE inits'[n] # 0
  <2>1. CASE InitFunc(c)
    <3>1. PICK m : inits' = [inits EXCEPT ![m] = @ + 1]
      BY <2>1 DEF InitFunc, InitFuncReturns
    <3>2. QED
      BY <1>1, <3>1
  <2>2. CASE ~InitFunc(c)
    <3>1. inits' = inits
      BY <1>2, <2>2 DEF CallerStep, BeginCall, SkipThread, EndCall, StartThread, Enter,
         Lookup, CallDep, DepsDone, CheckDep, WaitDep, InitReturned, AwaitSignal,
         PopAndReturn
    <3>2. QED
      BY <3>1
  <2>3. QED
    BY <2>1, <2>2
<1>3. ASSUME \/ register_thread_descriptor \/ MainLoop \/ UNCHANGED vars
             \/ \E m \in Name : GiveReadySem(m) \/ EndSilently(m)
      PROVE  inits' = inits
  BY <1>3 DEF register_thread_descriptor, MainLoop, vars, GiveReadySem, EndSilently
<1>4. QED
  BY <1>2, <1>3 DEF Next

\* A step inside init_func.
LEMMA InitFuncContext ==
  ASSUME ContextInv, OneCaller, NEW c \in Caller, init_func(c)
  PROVE  /\ BootTypeOK' /\ ContextHasOneOwner'
         /\ \A n \in Name : task'[n] # task[n] => inits'[n] # 0
<1>1. /\ making \in [Caller -> {"no", "context", "give"}] /\ ctx \subseteq Name
      /\ task \in [Name -> {"none", "new", "routine", "ended"}]
      /\ inits \in [Name -> Nat]
      /\ net \in {"none", "ok", "failed"}
  BY DEF ContextInv, BootTypeOK, ProgressInv, ShapeInv, SignalInv, TypeOK
<1>2. ctx = Held \cup Fresh
  BY DEF ContextInv, ContextHasOneOwner, Held, Fresh
<1>3. Held = IF Inside(c, "context") THEN {Top(c).name} ELSE {}
  BY DEF Held, OneCaller
<1>4. Held' = IF Inside(c, "context")' THEN {Top(c).name}' ELSE {}
  BY DEF Held, OneCaller
<1>5. ctx' = Held' \cup Fresh' => ContextHasOneOwner'
  BY DEF ContextHasOneOwner, Held, Fresh
<1>6. CASE CreateFailsEarly(c) \/ dbus_broker_init(c)
  <2>1. /\ Inside(c, "no") /\ UNCHANGED <<ctx, task, net>>
        /\ \E created \in BOOLEAN : InitFuncReturns(c, "ok", created)
        /\ making' \in [Caller -> {"no", "context", "give"}]
    BY <1>1, <1>6 DEF CreateFailsEarly, dbus_broker_init, boot_vars
  <2>2. ~Inside(c, "context") /\ ~Inside(c, "context")'
    BY <2>1, InitFuncLeaves DEF Inside
  <2>3. Fresh' = Fresh
    BY <2>1 DEF Fresh
  <2>4. QED
    BY <1>1, <1>2, <1>3, <1>4, <1>5, <2>1, <2>2, <2>3 DEF BootTypeOK
<1>7. CASE AllocateContext(c)
  <2>1. /\ At(c, "init") /\ Inside(c, "no") /\ ctx' = ctx \cup {Top(c).name}
        /\ making' = [making EXCEPT ![c] = "context"] /\ UNCHANGED <<stack, task, net>>
    BY <1>7 DEF AllocateContext, Inside, vars
  <2>2. Top(c).name \in Name /\ Top(c)' = Top(c)
    BY <2>1, InsideMeansNew DEF Top
  <2>3. Inside(c, "context")' /\ ~Inside(c, "context")
    BY <1>1, <2>1 DEF Inside, At, Top
  <2>4. Fresh' = Fresh
    BY <2>1 DEF Fresh
  <2>5. QED
    BY <1>1, <1>2, <1>3, <1>4, <1>5, <2>1, <2>2, <2>3, <2>4 DEF BootTypeOK
<1>8. CASE PthreadCreate(c)
  <2> DEFINE n == Top(c).name
  <2>1. /\ Inside(c, "context") /\ At(c, "init") /\ UNCHANGED net
        /\ making' = [making EXCEPT ![c] = "no"]
        /\ \E created \in BOOLEAN : InitFuncReturns(c, "ok", created)
    BY <1>8 DEF PthreadCreate, Inside
  <2>2. /\ n \in Name /\ task[n] = "none" /\ ~Inside(c, "context")'
        /\ inits' = [inits EXCEPT ![n] = @ + 1]
    BY <2>1, InsideMeansNew, InitFuncLeaves DEF Inside
  <2>3. ctx = Fresh \cup {n} /\ n \notin Fresh
    BY <1>2, <1>3, <2>1, <2>2 DEF Fresh
  <2>4. CASE task' = [task EXCEPT ![n] = "new"] /\ UNCHANGED ctx
    <3>1. Fresh' = Fresh \cup {n}
      BY <1>1, <2>2, <2>4 DEF Fresh
    <3>2. QED
      BY <1>1, <1>4, <1>5, <2>1, <2>2, <2>3, <2>4, <3>1 DEF BootTypeOK
  <2>5. CASE ctx' = ctx \ {n} /\ UNCHANGED task
    <3>1. Fresh' = Fresh
      BY <2>5 DEF Fresh
    <3>2. QED
      BY <1>1, <1>4, <1>5, <2>1, <2>2, <2>3, <2>5, <3>1 DEF BootTypeOK
  <2>6. QED
    BY <1>8, <2>4, <2>5 DEF PthreadCreate, ContextFreed
<1>9. CASE dbus_broker_gives(c)
  <2>1. /\ making[c] = "give" /\ UNCHANGED <<stack, ctx, task, net>>
        /\ making' = [making EXCEPT ![c] = "no"]
    BY <1>9 DEF dbus_broker_gives, GiveReadySem
  <2>2. ~Inside(c, "context") /\ ~Inside(c, "context")' /\ Fresh' = Fresh
    BY <1>1, <2>1 DEF Inside, Fresh
  <2>3. QED
    BY <1>1, <1>2, <1>3, <1>4, <1>5, <2>1, <2>2 DEF BootTypeOK
<1>10. QED
  BY <1>6, <1>7, <1>8, <1>9 DEF init_func

\* A step of a service thread, or of none.
LEMMA ThreadContext ==
  ASSUME ContextInv, OneCaller, UNCHANGED <<stack, making>>,
         net' \in {"none", "ok", "failed"},
         \/ UNCHANGED <<ctx, task>>
         \/ \E n \in Name : task_trampoline(n) \/ RoutineEnds(n)
  PROVE  /\ BootTypeOK' /\ ContextHasOneOwner'
         /\ \A n \in Name : task'[n] # task[n] => task[n] # "none"
<1>1. /\ making \in [Caller -> {"no", "context", "give"}] /\ ctx \subseteq Name
      /\ task \in [Name -> {"none", "new", "routine", "ended"}]
  BY DEF ContextInv, BootTypeOK
<1>2. ctx = Held \cup Fresh /\ (ctx' = Held' \cup Fresh' => ContextHasOneOwner')
  BY DEF ContextInv, ContextHasOneOwner, Held, Fresh
<1>3. Held' = Held
  BY DEF Held, Inside, At, Top
<1>4. CASE UNCHANGED <<ctx, task>>
  <2>1. Fresh' = Fresh
    BY <1>4 DEF Fresh
  <2>2. QED
    BY <1>1, <1>2, <1>3, <1>4, <2>1 DEF BootTypeOK
<1>5. ASSUME NEW n \in Name, task_trampoline(n)
      PROVE  /\ BootTypeOK' /\ ContextHasOneOwner'
             /\ \A m \in Name : task'[m] # task[m] => task[m] # "none"
  <2>1. /\ task[n] = "new" /\ task' = [task EXCEPT ![n] = "routine"]
        /\ ctx' = ctx \ {n}
    BY <1>5 DEF task_trampoline, ContextFreed
  <2>2. n \notin Held
    BY <2>1, InsideMeansNew DEF Held, Inside
  <2>3. Fresh' = Fresh \ {n}
    BY <1>1, <2>1 DEF Fresh
  <2>4. QED
    BY <1>1, <1>2, <1>3, <2>1, <2>2, <2>3 DEF BootTypeOK
<1>6. ASSUME NEW n \in Name, RoutineEnds(n)
      PROVE  /\ BootTypeOK' /\ ContextHasOneOwner'
             /\ \A m \in Name : task'[m] # task[m] => task[m] # "none"
  <2>1. /\ task[n] = "routine" /\ task' = [task EXCEPT ![n] = "ended"]
        /\ UNCHANGED ctx
    BY <1>6 DEF RoutineEnds
  <2>2. Fresh' = Fresh
    BY <1>1, <2>1 DEF Fresh
  <2>3. QED
    BY <1>1, <1>2, <1>3, <2>1, <2>2 DEF BootTypeOK
<1>7. QED
  BY <1>4, <1>5, <1>6

\* The manager runs only outside init_func.
LEMMA ManagerContext ==
  ASSUME ContextInv, OneCaller, NEW c \in Caller, ManagerStep(c)
  PROVE  BootTypeOK' /\ ContextHasOneOwner' /\ task' = task
<1>1. /\ making[c] = "no" /\ UNCHANGED <<making, ctx, task, net>>
  BY DEF ManagerStep, boot_vars
<1>2. Held = {} /\ Held' = {}
  BY <1>1 DEF Held, Inside, OneCaller
<1>3. Fresh' = Fresh
  BY <1>1 DEF Fresh
<1>4. ContextHasOneOwner'
  BY <1>1, <1>2, <1>3 DEF ContextInv, ContextHasOneOwner, Held, Fresh
<1>5. QED
  BY <1>1, <1>4 DEF ContextInv, BootTypeOK

LEMMA ContextInvNext ==
  ASSUME OneCaller, ContextInv, [BootNext]_all_vars
  PROVE  ContextInv'
<1>1. [Next]_vars /\ ProgressInv /\ SignalInv
  BY BootSimulates DEF ContextInv, ProgressInv, ShapeInv
<1>2. ProgressInv'
  BY <1>1, ProgressInvNext
<1> DEFINE Goal == /\ BootTypeOK' /\ ContextHasOneOwner'
                   /\ \A n \in Name : task'[n] # task[n] =>
                        task[n] # "none" \/ inits'[n] # 0
<1>3. net \in {"none", "ok", "failed"}
  BY DEF ContextInv, BootTypeOK
<1>4. ASSUME NEW c \in Caller, MainThread(c) PROVE Goal
  BY <1>4, InitFuncContext, ManagerContext DEF MainThread
<1>5. ASSUME NEW n \in Name, ServiceThread(n) \/ RoutineEnds(n) PROVE Goal
  <2>1. UNCHANGED <<stack, making, net>>
    BY <1>5 DEF ServiceThread, task_trampoline, ServiceIsReady, RoutineEnds, OnExit,
       EndSilently, GiveReadySem, vars, boot_vars
  <2>2. UNCHANGED <<ctx, task>> \/ task_trampoline(n) \/ RoutineEnds(n)
    BY <1>5 DEF ServiceThread, ServiceIsReady, boot_vars
  <2>3. QED
    BY <1>3, <2>1, <2>2, ThreadContext
<1>6. ASSUME \/ Register \/ fs_mount \/ MountFails \/ net_stack_cfg_do_once
             \/ Stays \/ UNCHANGED all_vars
      PROVE  Goal
  <2>1. /\ UNCHANGED <<stack, making>> /\ ctx' = ctx /\ task' = task
        /\ net' \in {"none", "ok", "failed"}
    BY <1>3, <1>6 DEF Register, fs_mount, MountFails, net_stack_cfg_do_once, Stays,
       register_thread_descriptor, all_vars, vars, boot_vars
  <2>2. BootTypeOK' /\ ContextHasOneOwner'
    BY <2>1, ThreadContext
  <2>3. QED
    BY <2>1, <2>2
<1>7. Goal
  <2>1. CASE \E c \in Caller : MainThread(c)
    BY <1>4, <2>1
  <2>2. CASE \E n \in Name : ServiceThread(n) \/ RoutineEnds(n)
    BY <1>5, <2>2
  <2>3. QED
    BY <1>6, <2>1, <2>2 DEF BootNext
<1>8. ThreadsAreInitiated'
  BY <1>1, <1>7, InitsGrow DEF ContextInv, ThreadsAreInitiated
<1>9. QED
  BY <1>2, <1>7, <1>8 DEF ContextInv

LEMMA ContextInvInit == BootInit => ContextInv
<1> SUFFICES ASSUME BootInit PROVE ContextInv
  OBVIOUS
<1>1. BootTypeOK /\ ThreadsAreInitiated
  BY DEF BootInit, BootTypeOK, ThreadsAreInitiated
<1>2. ContextHasOneOwner
  BY DEF BootInit, ContextHasOneOwner, Inside
<1>3. QED
  BY <1>1, <1>2, ProgressInvInit DEF BootInit, ContextInv

\* With main as the only caller, the context malloc'ed by
\* create_task_with_pthread is freed exactly once, by its creator or by the
\* trampoline of the thread it was made for, however early that thread runs.
THEOREM ContextsNeverLeak == OneCaller => (BootSpec => []ContextHasOneOwner)
<1> SUFFICES ASSUME OneCaller PROVE BootSpec => []ContextHasOneOwner
  OBVIOUS
<1>1. ContextInv /\ [BootNext]_all_vars => ContextInv'
  BY ContextInvNext
<1>2. ContextInv => ContextHasOneOwner
  BY DEF ContextInv
<1>3. QED
  BY <1>1, <1>2, ContextInvInit, PTL DEF BootSpec

(***************************************************************************)
(* The network                                                             *)
(***************************************************************************)

\* The services of S are defined with a ready semaphore.
HaveSem(S) == \A t \in Tables : \A i \in DOMAIN t : t[i].name \in S => t[i].ready_sem

RegisteredSem(S) ==
  \A i \in DOMAIN registry : registry[i].name \in S => registry[i].ready_sem

LEMMA SemsStay ==
  ASSUME NEW S, HaveSem(S), TypeOK, RegisteredSem(S), [Next]_vars
  PROVE  RegisteredSem(S)'
<1>1. CASE UNCHANGED registry
  BY <1>1 DEF RegisteredSem
<1>2. CASE register_thread_descriptor
  <2>1. /\ table \in Tables /\ table \in Seq(Descriptor(Name \cup {NoName}))
        /\ nreg \in 0..Len(table) /\ registry \in Seq(Descriptor(Name))
    BY TablesAssumption DEF TypeOK
  <2>2. nreg + 1 \in DOMAIN table
    BY <1>2, <2>1, LenProperties DEF register_thread_descriptor
  <2> DEFINE desc == table[nreg + 1]
  <2>3. desc.name \in S => desc.ready_sem
    BY <2>1, <2>2 DEF HaveSem
  <2>4. desc \in Descriptor(Name \cup {NoName})
    BY <2>1, <2>2, ElementOfSeq, LenProperties
  <2>5. CASE \E k \in 0..Len(desc.deps) :
               registry' = Append(registry, [desc EXCEPT !.deps = SubSeq(@, 1, k)])
    <3>1. PICK d : /\ registry' = Append(registry, d)
                   /\ d.name = desc.name /\ d.ready_sem = desc.ready_sem
      BY <2>4, <2>5 DEF Descriptor
    <3>2. /\ Len(registry') = Len(registry) + 1
          /\ DOMAIN registry' = 1..(Len(registry) + 1)
          /\ DOMAIN registry = 1..Len(registry) /\ Len(registry) \in Nat
          /\ \A i \in 1..Len(registry) : registry'[i] = registry[i]
          /\ registry'[Len(registry) + 1] = d
      BY <2>1, <3>1, LenProperties
    <3>3. QED
      BY <2>3, <3>1, <3>2 DEF RegisteredSem
  <2>6. QED
    BY <1>1, <1>2, <2>5 DEF register_thread_descriptor
<1>3. ~register_thread_descriptor => registry' = registry
  BY DEF Next, vars, registration, CallerStep, BeginCall, SkipThread, EndCall,
     StartThread, Enter, Lookup, CallDep, DepsDone, CheckDep, WaitDep, InitFunc,
     InitFuncReturns, InitReturned, AwaitSignal, PopAndReturn, MainLoop, GiveReadySem,
     EndSilently
<1>4. QED
  BY <1>1, <1>2, <1>3

\* net_stack_cfg is defined by a macro that gives it a semaphore.
NetworkSignals == HaveSem({"net_stack_cfg"})

NetworkInv ==
  /\ SignalInv
  /\ RegisteredSem({"net_stack_cfg"})
  /\ net \in {"none", "ok", "failed"}
  /\ signalled["net_stack_cfg"] => net # "none"

LEMMA NetworkInvNext ==
  ASSUME NetworkSignals, NetworkInv, [BootNext]_all_vars
  PROVE  NetworkInv'
<1>1. [Next]_vars /\ SignalInv
  BY BootSimulates DEF NetworkInv
<1>2. SignalInv'
  BY <1>1, SignalInvNext
<1>3. RegisteredSem({"net_stack_cfg"})'
  BY <1>1, SemsStay DEF NetworkSignals, NetworkInv, SignalInv
<1>4. net' \in {"none", "ok", "failed"} /\ (net # "none" => net' = net)
  BY DEF NetworkInv, BootNext, Register, fs_mount, MountFails, MainThread, ManagerStep,
     init_func, CreateFailsEarly, AllocateContext, PthreadCreate, dbus_broker_init,
     dbus_broker_gives, ServiceThread, task_trampoline, ServiceIsReady, RoutineEnds,
     net_stack_cfg_do_once, Stays, all_vars, boot_vars
<1>5. signalled'["net_stack_cfg"] /\ ~signalled["net_stack_cfg"] => net' # "none"
  <2>1. signalled \in [Name -> BOOLEAN]
    BY <1>1 DEF SignalInv, TypeOK
  <2>2. CASE \E c \in Caller : MainThread(c)
    <3>1. PICK c \in Caller : MainThread(c)
      BY <2>2
    <3>2. CASE dbus_broker_gives(c)
      BY <2>1, <3>2, BootAssumption DEF dbus_broker_gives, GiveReadySem
    <3>3. CASE ~dbus_broker_gives(c)
      BY <3>1, <3>3 DEF MainThread, ManagerStep, CallerStep, BeginCall, SkipThread,
         EndCall, StartThread, Enter, Lookup, CallDep, DepsDone, CheckDep, WaitDep,
         InitFunc, InitFuncReturns, InitReturned, AwaitSignal, PopAndReturn, init_func,
         CreateFailsEarly, AllocateContext, PthreadCreate, dbus_broker_init, vars,
         services
    <3>4. QED
      BY <3>2, <3>3
  <2>3. CASE \E n \in Name : ServiceThread(n) \/ RoutineEnds(n)
    <3>1. PICK n \in Name : ServiceThread(n) \/ RoutineEnds(n)
      BY <2>3
    <3>2. CASE ServiceIsReady(n)
      BY <2>1, <3>2, BootAssumption
         DEF ServiceIsReady, MayGive, GiveReadySem, boot_vars
    <3>3. CASE task_trampoline(n) \/ RoutineEnds(n)
      BY <3>3 DEF task_trampoline, RoutineEnds, OnExit, EndSilently, vars, services
    <3>4. QED
      BY <3>1, <3>2, <3>3 DEF ServiceThread
  <2>4. CASE \/ Register \/ fs_mount \/ MountFails \/ net_stack_cfg_do_once
             \/ Stays \/ UNCHANGED all_vars
    BY <2>4 DEF Register, register_thread_descriptor, fs_mount, MountFails,
       net_stack_cfg_do_once, Stays, all_vars, vars, services
  <2>5. QED
    BY <2>2, <2>3, <2>4 DEF BootNext
<1>6. QED
  BY <1>2, <1>3, <1>4, <1>5 DEF NetworkInv

LEMMA NetworkInvInit == BootInit => NetworkInv
  BY SignalInvInit, BootAssumption DEF BootInit, Init, NetworkInv, RegisteredSem

\* Whatever the number of callers and whatever fails: a service that lists
\* net_stack_cfg among its dependencies is initialised only after the network
\* set-up has been tried, provided net_stack_cfg is defined with a semaphore.
THEOREM NetworkComesFirst == NetworkSignals => (BootSpec => []NetworkTriedFirst)
<1> SUFFICES ASSUME NetworkSignals PROVE BootSpec => []NetworkTriedFirst
  OBVIOUS
<1>1. NetworkInv /\ [BootNext]_all_vars => NetworkInv'
  BY NetworkInvNext
<1>2. NetworkInv => NetworkTriedFirst
  <2> SUFFICES ASSUME NetworkInv, NEW n \in Name, inits[n] > 0,
                      "net_stack_cfg" \in DepsOf(n)
               PROVE  net # "none"
    BY DEF NetworkTriedFirst
  <2>1. HasSignalled("net_stack_cfg")
    BY DEF NetworkInv, SignalInv, NoInitBeforeSignal
  <2>2. find_thread_descriptor("net_stack_cfg").ready_sem
    <3>1. \E i \in DOMAIN registry : registry[i].name = "net_stack_cfg"
      BY <2>1 DEF HasSignalled, Registered
    <3>2. QED
      BY <3>1 DEF NetworkInv, RegisteredSem, find_thread_descriptor, DescriptorIn
  <2>3. QED
    BY <2>1, <2>2 DEF NetworkInv, HasSignalled
<1>3. QED
  BY <1>1, <1>2, NetworkInvInit, PTL DEF BootSpec

(***************************************************************************)
(* This build                                                              *)
(***************************************************************************)

\* The service table, the caller and the limits that main.cpp and
\* thread_dependency_mgr.cpp and .hpp fix; which services may fail stays open.
ThisBoot ==
  /\ Tables = ThisBuild
  /\ Caller = {main} /\ Request = MainOnly
  /\ MAX_CALL_STACK_DEPTH = 32 /\ MAX_THREADS = 64 /\ MAX_DEPENDENCIES = 8

LEMMA ThisBootFits == ThisBoot => MainAlone /\ RoomForAll /\ NetworkSignals
<1> SUFFICES ASSUME ThisBoot PROVE MainAlone /\ RoomForAll /\ NetworkSignals
  OBVIOUS
<1>1. MainAlone
  BY DEF ThisBoot, MainAlone, MainOnly
<1>2. RoomForAll
  <2>1. Len(EnabledServices) = 20
    BY DEF EnabledServices
  <2>2. \A t \in Tables : t = EnabledServices
    BY DEF ThisBoot, ThisBuild
  <2>3. \A t \in Tables : Len(t) = 20
    BY <2>1, <2>2, Zenon
  <2>4. 20 <= MAX_CALL_STACK_DEPTH
    BY DEF ThisBoot
  <2>5. QED
    BY <2>3, <2>4, Zenon DEF RoomForAll
<1>3. NetworkSignals
  <2>1. \A i \in DOMAIN EnabledServices : EnabledServices[i].ready_sem
    BY DEF EnabledServices, THREAD_DEFINE
  <2>2. QED
    BY <2>1 DEF ThisBoot, ThisBuild, NetworkSignals, HaveSem
<1>4. QED
  BY <1>1, <1>2, <1>3

\* The boot of this build, whichever services fail, end or never signal: when
\* main has gone through its table, its verdict is true and only broken
\* services and what depends on them are left behind.
THEOREM BootVerdictTrue ==
  ThisBoot => (BootSpec => [](VerdictIsTrue /\ NobodyLeftBehind))
<1> SUFFICES ASSUME ThisBoot PROVE BootSpec => [](VerdictIsTrue /\ NobodyLeftBehind)
  OBVIOUS
<1>1. MainAlone /\ RoomForAll
  BY ThisBootFits
<1>2. Spec => []VerdictIsTrue
  BY <1>1, StartVerdictTrue
<1>3. Spec => []NobodyLeftBehind
  BY <1>1, OnlyTheBrokenStay
<1>4. BootSpec => Spec
  BY BootImplementsManager DEF ImplementsManager
<1>5. QED
  BY <1>2, <1>3, <1>4, PTL

\* The registry has room for the whole table.
RegistersAll == \A t \in Tables : Len(t) <= MAX_THREADS

\* The constructor takes a descriptor over, perhaps with fewer dependencies.
TakenOver(d, desc) ==
  /\ d.name = desc.name /\ d.auto_start = desc.auto_start
  /\ \A j \in DOMAIN d.deps : \E k \in DOMAIN desc.deps : d.deps[j] = desc.deps[k]

TableInv ==
  /\ SignalInv
  /\ Len(registry) = nreg
  /\ \A i \in 1..nreg : TakenOver(registry[i], table[i])

LEMMA TableInvNext ==
  ASSUME RegistersAll, TableInv, [Next]_vars
  PROVE  TableInv'
<1>1. SignalInv'
  BY SignalInvNext DEF TableInv
<1>2. CASE ~register_thread_descriptor
  <2>1. UNCHANGED <<table, nreg, registry>>
    BY <1>2 DEF Next, vars, registration, CallerStep, BeginCall, SkipThread, EndCall,
       StartThread, Enter, Lookup, CallDep, DepsDone, CheckDep, WaitDep, InitFunc,
       InitFuncReturns, InitReturned, AwaitSignal, PopAndReturn, MainLoop, GiveReadySem,
       EndSilently
  <2>2. QED
    BY <1>1, <2>1 DEF TableInv
<1>3. CASE register_thread_descriptor
  <2>1. /\ table \in Tables /\ table \in Seq(Descriptor(Name \cup {NoName}))
        /\ nreg \in 0..Len(table) /\ registry \in Seq(Descriptor(Name))
    BY TablesAssumption DEF TableInv, SignalInv, TypeOK
  <2>2. /\ nreg \in Nat /\ nreg < Len(table) /\ nreg + 1 \in DOMAIN table
        /\ nreg' = nreg + 1 /\ table' = table
    BY <1>3, <2>1, LenProperties DEF register_thread_descriptor
  <2>3. Len(registry) < MAX_THREADS
    BY <2>1, <2>2, LimitsAssumption, LenProperties DEF TableInv, RegistersAll
  <2> DEFINE desc == table[nreg + 1]
  <2>4. desc \in Descriptor(Name \cup {NoName}) /\ desc.deps \in Seq(Name \cup {NoName})
    <3>1. desc \in Descriptor(Name \cup {NoName})
      BY <2>1, <2>2, ElementOfSeq, LenProperties
    <3>2. QED
      BY <3>1 DEF Descriptor
  <2>5. PICK k \in 0..Len(desc.deps) :
          registry' = Append(registry, [desc EXCEPT !.deps = SubSeq(@, 1, k)])
    <3>1. ~(Len(registry) >= MAX_THREADS)
      BY <2>1, <2>3, LenProperties, LimitsAssumption
    <3>2. QED
      BY <1>3, <3>1, Zenon DEF register_thread_descriptor
  <2> DEFINE s == SubSeq(desc.deps, 1, k)
  <2>6. \A j \in DOMAIN s : j \in DOMAIN desc.deps /\ s[j] = desc.deps[j]
    BY <2>4, LenProperties, SubSeqProperties
  <2>7. PICK d : /\ registry' = Append(registry, d)
                 /\ d.name = desc.name /\ d.auto_start = desc.auto_start /\ d.deps = s
    <3> HIDE DEF desc
    <3>1. [desc EXCEPT !.deps = SubSeq(@, 1, k)] = [desc EXCEPT !.deps = s]
      BY <2>4 DEF Descriptor
    <3> HIDE DEF s
    <3>2. /\ [desc EXCEPT !.deps = s].name = desc.name
          /\ [desc EXCEPT !.deps = s].auto_start = desc.auto_start
          /\ [desc EXCEPT !.deps = s].deps = s
      BY <2>4 DEF Descriptor
    <3>3. QED
      BY <2>5, <3>1, <3>2
  <2>8. TakenOver(d, desc)
    BY <2>6, <2>7 DEF TakenOver
  <2>9. /\ Len(registry') = nreg + 1
        /\ \A i \in 1..nreg : registry'[i] = registry[i]
        /\ registry'[nreg + 1] = d
    BY <2>1, <2>7, LenProperties DEF TableInv
  <2>10. \A i \in 1..(nreg + 1) : i \in 1..nreg \/ i = nreg + 1
    BY <2>2
  <2>11. QED
    BY <1>1, <2>2, <2>8, <2>9, <2>10 DEF TableInv
<1>4. QED
  BY <1>2, <1>3

LEMMA TableInvInit == Init => TableInv
  BY SignalInvInit DEF Init, TableInv

\* A service of this build needs only services that are listed before it.
LEMMA TableIsOrdered ==
  /\ DOMAIN EnabledServices = 1..20
  /\ \A i \in 1..20 :
       /\ EnabledServices[i].auto_start
       /\ \A j \in DOMAIN EnabledServices[i].deps :
            \E k \in 1..(i - 1) : EnabledServices[k].name = EnabledServices[i].deps[j]
<1> DEFINE Row(i) == EnabledServices[i]
           Before(i) == \A j \in DOMAIN Row(i).deps :
                          \E k \in 1..(i - 1) : Row(k).name = Row(i).deps[j]
<1>1. DOMAIN EnabledServices = 1..20
  BY DEF EnabledServices
<1>2. \A i \in 1..20 : Row(i).auto_start
  BY DEF EnabledServices, THREAD_DEFINE
<1>3. /\ Row(1).name = "dbus_broker" /\ Row(2).name = "objmgr"
      /\ Row(3).name = "logging" /\ Row(4).name = "net_stack_cfg"
      /\ Row(5).name = "ipmid" /\ Row(11).name = "fru_device"
      /\ Row(12).name = "entity_manager"
  BY DEF EnabledServices, THREAD_DEFINE
<1>4. \A i \in {1, 4} : Row(i).deps = <<>>
  BY DEF EnabledServices, THREAD_DEFINE
<1>5. \A i \in {2, 3, 7, 11} : Row(i).deps = <<"dbus_broker">>
  BY DEF EnabledServices, THREAD_DEFINE
<1>6. \A i \in {5, 6} : Row(i).deps = <<"dbus_broker", "net_stack_cfg">>
  BY DEF EnabledServices, THREAD_DEFINE
<1>7. \A i \in {8, 9, 15} : Row(i).deps = <<"dbus_broker", "objmgr">>
  BY DEF EnabledServices, THREAD_DEFINE
<1>8. /\ Row(10).deps = <<"dbus_broker", "logging">>
      /\ Row(12).deps = <<"dbus_broker", "objmgr", "fru_device">>
      /\ Row(20).deps = <<"dbus_broker", "ipmid">>
  BY DEF EnabledServices, THREAD_DEFINE
<1>9. \A i \in {13, 14, 16, 17, 18, 19} :
        Row(i).deps = <<"dbus_broker", "objmgr", "entity_manager">>
  BY DEF EnabledServices, THREAD_DEFINE, SensorDeps
<1> HIDE DEF Row
<1>10. \A i \in {1, 4} : Before(i)
  BY <1>4
<1>11. \A i \in {2, 3, 7, 11} : Before(i)
  BY <1>3, <1>5
<1>12. \A i \in {5, 6} : Before(i)
  BY <1>3, <1>6
<1>13. \A i \in {8, 9, 15} : Before(i)
  BY <1>3, <1>7
<1>14. Before(10) /\ Before(12) /\ Before(20)
  BY <1>3, <1>8
<1>15. \A i \in {13, 14, 16, 17, 18, 19} : Before(i)
  BY <1>3, <1>9
<1>16. \A i \in 1..20 :
         i \in {1, 4} \cup {2, 3, 7, 11} \cup {5, 6} \cup {8, 9, 15} \cup {10, 12, 20}
               \cup {13, 14, 16, 17, 18, 19}
  OBVIOUS
<1> HIDE DEF Before
<1>17. \A i \in 1..20 : Before(i)
  BY <1>10, <1>11, <1>12, <1>13, <1>14, <1>15, <1>16
<1>18. QED
  BY <1>1, <1>2, <1>17 DEF Row, Before

\* Services of this build that are reliable and need none that is not.
Closed(G) ==
  /\ G \subseteq ServiceNames \ Unreliable
  /\ \A i \in DOMAIN EnabledServices :
       EnabledServices[i].name \in G =>
         \A j \in DOMAIN EnabledServices[i].deps : EnabledServices[i].deps[j] \in G

Position(n) == CHOOSE i \in DOMAIN EnabledServices : EnabledServices[i].name = n

LEMMA ThisTableFits == ThisBoot => RegistersAll
<1> SUFFICES ASSUME ThisBoot PROVE RegistersAll
  OBVIOUS
<1>1. Len(EnabledServices) = 20
  BY DEF EnabledServices
<1>2. \A t \in Tables : t = EnabledServices
  BY DEF ThisBoot, ThisBuild
<1>3. \A t \in Tables : Len(t) = 20
  BY <1>1, <1>2, Zenon
<1>4. 20 <= MAX_THREADS
  BY DEF ThisBoot
<1>5. QED
  BY <1>3, <1>4, Zenon DEF RegistersAll

LEMMA PositionOf ==
  ASSUME ThisBoot, NEW i \in 1..20
  PROVE  Position(EnabledServices[i].name) = i
<1>1. EnabledServices \in Tables /\ DOMAIN EnabledServices = 1..20
  BY TableIsOrdered DEF ThisBoot, ThisBuild
<1>2. \A k \in 1..20 : EnabledServices[k].name = EnabledServices[i].name => k = i
  BY <1>1, TablesAssumption
<1> DEFINE P(k) == k \in 1..20 /\ EnabledServices[k].name = EnabledServices[i].name
<1>3. \A k : P(k) <=> k = i
  BY <1>2
<1>4. Position(EnabledServices[i].name) = CHOOSE k \in 1..20 :
        EnabledServices[k].name = EnabledServices[i].name
  BY <1>1 DEF Position
<1>5. QED
  BY <1>3, <1>4

\* When the start is over, such services are a sound part of the registry.
LEMMA ClosedIsSound ==
  ASSUME ThisBoot, TableInv, AllDone,
         NEW G, Closed(G)
  PROVE  SoundPart(G, [n \in G |-> Position(n)])
<1> DEFINE Row(i) == EnabledServices[i]
           rank == [n \in G |-> Position(n)]
<1>1. DOMAIN EnabledServices = 1..20 /\ table = EnabledServices /\ nreg = Len(table)
  BY TableIsOrdered DEF ThisBoot, ThisBuild, TableInv, SignalInv, TypeOK, AllDone,
     Done, Constructed
<1>2. nreg = 20
  <2>1. Len(EnabledServices) = 20
    BY DEF EnabledServices
  <2>2. QED
    BY <1>1, <2>1
<1>3. /\ DOMAIN registry = 1..20
      /\ \A i \in 1..20 : TakenOver(registry[i], Row(i))
  BY <1>1, <1>2, LenProperties DEF TableInv, SignalInv, TypeOK
<1> SUFFICES ASSUME NEW n \in G
             PROVE  /\ n \in AutoStart \ Unreliable
                    /\ \A d \in DepsOf(n) : d \in G /\ rank[d] < rank[n]
  BY Zenon DEF SoundPart
<1>4. PICK i \in 1..20 : Row(i).name = n
  BY <1>1 DEF Closed, ServiceNames
<1>5. n \in AutoStart \ Unreliable
  BY <1>3, <1>4, TableIsOrdered DEF TakenOver, AutoStart, Closed
<1>6. rank[n] = i
  BY <1>4, PositionOf
<1>7. find_thread_descriptor(n) = registry[i]
  <2>1. \A k \in 1..20 : registry[k].name = n => k = i
    <3> SUFFICES ASSUME NEW k \in 1..20, registry[k].name = n PROVE k = i
      OBVIOUS
    <3>1. Row(k).name = Row(i).name
      BY <1>3, <1>4 DEF TakenOver
    <3>2. QED
      BY <3>1, PositionOf
  <2>2. registry[i].name = n
    BY <1>3, <1>4 DEF TakenOver
  <2>3. (CHOOSE k \in DOMAIN registry : registry[k].name = n) \in DOMAIN registry
        /\ registry[CHOOSE k \in DOMAIN registry : registry[k].name = n].name = n
    BY <1>3, <2>2
  <2>4. QED
    BY <1>3, <2>1, <2>3 DEF find_thread_descriptor, DescriptorIn
<1>8. ASSUME NEW d \in DepsOf(n) PROVE d \in G /\ rank[d] < rank[n]
  <2>1. PICK j \in DOMAIN registry[i].deps : d = registry[i].deps[j]
    BY <1>7 DEF DepsOf
  <2>2. PICK m \in DOMAIN Row(i).deps : d = Row(i).deps[m]
    BY <1>3, <2>1 DEF TakenOver
  <2>3. d \in G
    BY <1>1, <1>4, <2>2 DEF Closed
  <2>4. PICK k \in 1..(i - 1) : Row(k).name = d
    BY <2>2, TableIsOrdered
  <2>5. k \in 1..20 /\ k < i
    OBVIOUS
  <2>6. rank[d] = k
    BY <2>3, <2>4, <2>5, PositionOf
  <2>7. QED
    BY <1>6, <2>3, <2>5, <2>6
<1>9. QED
  BY <1>5, <1>8

LEMMA ClosedComesUp ==
  ASSUME ThisBoot, TableInv, NobodyLeftBehind,
         AllDone, NEW G \in SUBSET Name, Closed(G)
  PROVE  \A n \in G : tstate[n] = READY
<1> DEFINE rank == [n \in G |-> Position(n)]
<1>1. ASSUME NEW n \in G PROVE Position(n) \in Nat
  <2>1. PICK i \in 1..20 : EnabledServices[i].name = n
    BY TableIsOrdered DEF Closed, ServiceNames
  <2>2. Position(EnabledServices[i].name) = i
    BY PositionOf
  <2>3. i \in Nat
    OBVIOUS
  <2>4. QED
    BY <2>1, <2>2, <2>3
<1>2. rank \in [G -> Nat]
  BY <1>1
<1>3. SoundPart(G, rank)
  BY ClosedIsSound
<1> HIDE DEF rank
<1>4. QED
  BY <1>2, <1>3, SoundPartIsReady

\* The table of this build has neither a cycle nor a missing name, and the call
\* stack holds it: at the end of the boot every service that can be relied on,
\* and needs none that cannot, is READY, whatever the others do.
THEOREM ReliableServicesComeUp ==
  ASSUME NEW G \in SUBSET Name, Closed(G), ThisBoot
  PROVE  BootSpec => [](AllDone => \A n \in G : tstate[n] = READY)
<1>1. RegistersAll
  BY ThisTableFits
<1>2. TableInv /\ [Next]_vars => TableInv'
  BY <1>1, TableInvNext
<1>3. TableInv /\ NobodyLeftBehind => (AllDone => \A n \in G : tstate[n] = READY)
  BY ClosedComesUp
<1>4. BootSpec => [](VerdictIsTrue /\ NobodyLeftBehind)
  BY BootVerdictTrue
<1>5. BootSpec => Spec
  BY BootImplementsManager DEF ImplementsManager
<1>6. QED
  BY <1>2, <1>3, <1>4, <1>5, TableInvInit, PTL DEF Spec

\* If no service of this build fails, main reports no failure.
THEOREM SoundBootSucceeds ==
  ThisBoot /\ Unreliable = {} =>
    (BootSpec => [](AllDone => failed_count[main] = 0))
<1> SUFFICES ASSUME ThisBoot, Unreliable = {}
             PROVE  BootSpec => [](AllDone => failed_count[main] = 0)
  OBVIOUS
<1>1. ServiceNames \subseteq Name
  <2>1. EnabledServices \in Seq(Descriptor(Name \cup {NoName}))
    BY TablesAssumption DEF ThisBoot, ThisBuild
  <2>2. \A i \in DOMAIN EnabledServices :
          EnabledServices[i] \in Descriptor(Name \cup {NoName})
    BY <2>1, ElementOfSeq, LenProperties
  <2>3. QED
    BY <2>2 DEF ServiceNames, Descriptor
<1>2. Closed(ServiceNames)
  <2> SUFFICES ASSUME NEW i \in 1..20, NEW j \in DOMAIN EnabledServices[i].deps
               PROVE  EnabledServices[i].deps[j] \in ServiceNames
    BY TableIsOrdered DEF Closed
  <2>1. PICK k \in 1..(i - 1) : EnabledServices[k].name = EnabledServices[i].deps[j]
    BY TableIsOrdered
  <2>2. k \in DOMAIN EnabledServices
    BY TableIsOrdered
  <2>3. QED
    BY <2>1, <2>2 DEF ServiceNames
<1>3. TableInv /\ NobodyLeftBehind /\ AllDone => \A n \in ServiceNames : tstate[n] = READY
  BY <1>1, <1>2, ClosedComesUp
<1>4. RegistersAll
  BY ThisTableFits
<1>5. TableInv /\ [Next]_vars => TableInv'
  BY <1>4, TableInvNext
<1>6. TableInv => AutoStart \subseteq ServiceNames
  <2> SUFFICES ASSUME TableInv, NEW i \in DOMAIN registry
               PROVE  registry[i].name \in ServiceNames
    BY DEF AutoStart
  <2>1. i \in 1..nreg /\ nreg \in 0..Len(table) /\ table = EnabledServices
    BY LenProperties DEF TableInv, SignalInv, TypeOK, ThisBoot, ThisBuild
  <2>2. i \in DOMAIN EnabledServices
    <3>1. Len(EnabledServices) = 20
      BY DEF EnabledServices
    <3>2. QED
      BY <2>1, <3>1, TableIsOrdered
  <2>3. QED
    BY <2>1, <2>2 DEF TableInv, TakenOver, ServiceNames
<1>7. BootSpec => [](VerdictIsTrue /\ NobodyLeftBehind)
  BY BootVerdictTrue
<1>8. VerdictIsTrue /\ AllDone /\ AutoStart \subseteq ServiceNames
      /\ (\A n \in ServiceNames : tstate[n] = READY) => failed_count[main] = 0
  BY DEF VerdictIsTrue, ThisBoot, MainOnly
<1>9. BootSpec => Spec
  BY BootImplementsManager DEF ImplementsManager
<1>10. QED
  BY <1>3, <1>5, <1>6, <1>7, <1>8, <1>9, TableInvInit, PTL DEF Spec

(***************************************************************************)
(* The boot and the broker on one clock.  What BmcBoot's proofs say of the *)
(* manager holds here as well; the steps of the broker and of the clients  *)
(* leave the manager alone.                                                *)
(***************************************************************************)

LEMMA DelaysAreNumbers ==
  /\ READY_TIMEOUT \in Nat /\ NET_TIMEOUT \in Nat
  /\ CONNECT_RETRIES \in Nat /\ READY_RETRIES \in Nat
  /\ LISTENER_DELAY \in Nat /\ ALIVE_DELAY \in Nat /\ RUN_DELAY \in Nat
  /\ FIRST_DELAY \in Nat
BY TimeoutsAssumption

LEMMA BrokerIsNoClient ==
  /\ broker \notin BusClient /\ broker \in B!Thread
  /\ \A n \in BusClient : n \in Name /\ n \in B!Thread
  /\ "dbus_broker" \in Name \ BusClient /\ "net_stack_cfg" \in Name \ BusClient
BY BrokerAssumption, BootAssumption DEF BusClient, B!Thread

\* No mount fails and no exception gets out in this composition.
BootMounts == boot \in FileSystem \cup {"main"}

LEMMA StartupSimulates ==
  ASSUME BootMounts, [StartupNext]_startup_vars
  PROVE  [BootNext]_all_vars /\ BootMounts'
<1>1. boot \notin {"spin", "panic"}
  BY DEF BootMounts, FileSystem
<1>2. CASE Constructors
  BY <1>1, <1>2 DEF Constructors, BootNext, BootMounts, Register, fs_mount, boot_vars,
     FileSystem, NextBoot
<1>3. CASE SetsUpNetwork
  BY <1>1, <1>3 DEF SetsUpNetwork, BootNext, BootMounts, net_stack_cfg_do_once
<1>4. ASSUME NEW c \in Caller, Main(c) PROVE [BootNext]_all_vars /\ BootMounts'
  <2>1. MainThread(c)
    BY <1>4 DEF Main
  <2>2. boot' = boot
    BY <2>1 DEF MainThread, ManagerStep, init_func, CreateFailsEarly, AllocateContext,
       PthreadCreate, dbus_broker_init, dbus_broker_gives, boot_vars
  <2>3. QED
    BY <1>1, <2>1, <2>2 DEF BootNext, BootMounts
<1>5. ASSUME NEW n \in Name, Service(n) PROVE [BootNext]_all_vars /\ BootMounts'
  <2>1. CASE Connects(n)
    BY <2>1 DEF Connects, BootMounts, all_vars, boot_vars
  <2>2. CASE ~Connects(n)
    <3>1. ServiceThread(n) \/ RoutineEnds(n)
      BY <1>5, <2>2 DEF Service, Trampoline, Signals, Returns, ServiceThread
    <3>2. boot' = boot
      BY <3>1 DEF ServiceThread, task_trampoline, ServiceIsReady, boot_vars, RoutineEnds,
         AfterException
    <3>3. QED
      BY <1>1, <3>1, <3>2 DEF BootNext, BootMounts
  <2>3. QED
    BY <2>1, <2>2
<1>6. CASE BrokerStep \/ Tick \/ AllIdle \/ UNCHANGED startup_vars
  BY <1>6 DEF BrokerStep, Tick, AllIdle, Stays, startup_vars, all_vars, boot_vars,
     BootMounts
<1>7. QED
  BY <1>2, <1>3, <1>4, <1>5, <1>6 DEF StartupNext

(***************************************************************************)
(* The types of the broker and of the clients                              *)
(***************************************************************************)

\* Whose step it is: the broker's, a client's, the clock's, or none of the bus.
LEMMA StepsOfTheBus ==
  ASSUME [StartupNext]_startup_vars
  PROVE  \/ UNCHANGED bus_state
         \/ BrokerStep
         \/ \E n \in BusClient : Connects(n)
         \/ Tick
<1>1. ASSUME NEW n \in Name, Service(n)
      PROVE  UNCHANGED bus_state \/ (n \in BusClient /\ Connects(n))
  BY <1>1 DEF Service, Trampoline, Signals, Returns, Connects
<1>2. ASSUME NEW c \in Caller, Main(c) PROVE UNCHANGED bus_state
  BY <1>2 DEF Main
<1>3. CASE Constructors \/ SetsUpNetwork \/ AllIdle \/ UNCHANGED startup_vars
  BY <1>3 DEF Constructors, SetsUpNetwork, AllIdle, startup_vars
<1>4. QED
  BY <1>1, <1>2, <1>3 DEF StartupNext

LEMMA BrokerStepTypes ==
  ASSUME B!TypeOK, BrokerStep
  PROVE  B!TypeOK'
<1>1. UNCHANGED signalled
  BY DEF BrokerStep, all_vars, vars, services
<1> USE <1>1, DelaysAreNumbers, BrokerIsNoClient
    DEF B!TypeOK, B!BPc, B!Link, B!Resource, B!g_controller_fds, B!bvars, B!cvars,
        B!BGoto, B!Sleep
<1>2. CASE B!socketpair
  BY <1>2 DEF B!socketpair
<1>3. CASE B!broker_new
  BY <1>3 DEF B!broker_new
<1>4. CASE B!OpenListener \/ B!create_listener_socket
  BY <1>4 DEF B!OpenListener, B!create_listener_socket
<1>5. CASE B!add_listener_to_broker
  BY <1>5 DEF B!add_listener_to_broker
<1>6. CASE B!PublishReady
  BY <1>6 DEF B!PublishReady
<1>7. CASE B!MarkAlive
  BY <1>7 DEF B!MarkAlive
<1>8. CASE B!MarkWasAlive
  BY <1>8 DEF B!MarkWasAlive
<1>9. CASE B!BrokerThreadEnds
  BY <1>9 DEF B!BrokerThreadEnds
<1>10. CASE B!DeploymentFails
  BY <1>10 DEF B!DeploymentFails, B!LeftOpen, B!broker_free
<1>11. CASE B!BrokerRunReturns
  BY <1>11 DEF B!BrokerRunReturns, B!broker_free
<1>12. CASE B!BrokerAborts
  BY <1>12 DEF B!BrokerAborts
<1>13. CASE \E n \in BusClient : B!Serve(n)
  BY <1>13 DEF B!Serve
<1>14. QED
  BY <1>2, <1>3, <1>4, <1>5, <1>6, <1>7, <1>8, <1>9, <1>10, <1>11, <1>12, <1>13
     DEF BrokerStep, B!Deploy

LEMMA ConnectsTypes ==
  ASSUME B!TypeOK, NEW c \in BusClient, Connects(c)
  PROVE  B!TypeOK'
<1>1. UNCHANGED signalled
  BY DEF Connects, all_vars, vars, services
<1> USE <1>1, DelaysAreNumbers, BrokerIsNoClient
    DEF B!TypeOK, B!CPc, B!Link, B!Outcome, B!bvars, B!cvars, B!At, B!InLoop, B!Goto, B!Return,
        B!SetLink, B!Sleep
<1>2. CASE B!Begin(c)
  <2>1. (B!Ended /\ was_alive) \in BOOLEAN
    BY DEF B!Ended
  <2>2. QED
    BY <1>2, <2>1 DEF B!Begin
<1>3. CASE B!FirstClientWaited(c)
  BY <1>3 DEF B!FirstClientWaited
<1>4. CASE B!CheckWasAlive(c)
  BY <1>4 DEF B!CheckWasAlive, B!AfterCheckWas
<1>5. CASE B!CheckAlive(c)
  BY <1>5 DEF B!CheckAlive
<1>6. CASE B!ConnectSucceeds(c)
  BY <1>6 DEF B!ConnectSucceeds
<1>7. CASE B!OpenSocket(c) \/ B!ConnectFails(c)
  BY <1>7 DEF B!OpenSocket, B!ConnectFails, B!CloseSocket, B!CountRetry
<1>8. CASE B!GiveUp(c)
  BY <1>8 DEF B!GiveUp
<1>9. CASE B!SetUpBus(c)
  BY <1>9 DEF B!SetUpBus
<1>10. CASE B!Poll(c)
  BY <1>10 DEF B!Poll, B!PollSleep
<1>11. CASE B!NotReady(c)
  BY <1>11 DEF B!NotReady
<1>12. CASE B!BusReady(c)
  BY <1>12 DEF B!BusReady
<1>13. QED
  BY <1>2, <1>3, <1>4, <1>5, <1>6, <1>7, <1>8, <1>9, <1>10, <1>11, <1>12
     DEF Connects, B!connect_to_dbroker

LEMMA BusTypesNext ==
  ASSUME B!TypeOK, TypeOK', [StartupNext]_startup_vars
  PROVE  B!TypeOK'
<1>1. signalled'["dbus_broker"] \in BOOLEAN
  BY BootAssumption DEF TypeOK
<1>2. CASE UNCHANGED bus_state
  BY <1>1, <1>2 DEF B!TypeOK, bus_state, broker_state, client_state
<1>3. CASE Tick
  BY <1>1, <1>3 DEF B!TypeOK, Tick, broker_state, client_state, Less
<1>4. QED
  BY <1>2, <1>3, StepsOfTheBus, BrokerStepTypes, ConnectsTypes

LEMMA BusTypesInit == StartupInit => B!TypeOK
<1> SUFFICES ASSUME StartupInit PROVE B!TypeOK
  OBVIOUS
<1> USE DEF StartupInit, B!Init
<1>1. bpc \in B!BPc /\ held \subseteq B!Resource
  BY DEF B!BPc
<1>2. /\ broker_ready \in BOOLEAN /\ alive \in BOOLEAN /\ was_alive \in BOOLEAN
      /\ signalled["dbus_broker"] \in BOOLEAN /\ broker_started \in BOOLEAN
  OBVIOUS
<1>3. cpc \in [BusClient -> B!CPc]
  BY DEF B!CPc
<1>4. /\ timer \in [B!Thread -> Nat] /\ tries \in [BusClient -> Nat]
      /\ calls \in [BusClient -> Nat]
  OBVIOUS
<1>5. link \in [BusClient -> B!Link] /\ ret \in [BusClient -> B!Outcome]
  BY DEF B!Link, B!Outcome
<1>6. late \in [BusClient -> BOOLEAN]
  OBVIOUS
<1>7. QED
  BY <1>1, <1>2, <1>3, <1>4, <1>5, <1>6 DEF B!TypeOK

(***************************************************************************)
(* What the broker's flags and a client's link say of the broker           *)
(***************************************************************************)

\* From here on, until it is gone, the broker listens.
Up == {"add", "publish", "alive", "was", "run"}

BrokerOK ==
  /\ bpc \in Up <=> ("listener" \in held /\ ~BrokerGone)
  /\ bpc \in {"was", "run"} => alive
  /\ bpc = "run" => was_alive
  /\ was_alive => alive \/ BrokerGone

LinkOK(n) ==
  /\ link[n] \in {"answered", "up"} => was_alive
  /\ link[n] = "hungup" => BrokerGone
  /\ ret[n] = "ok" => link[n] = "up"
  /\ cpc[n] = "check_alive" => was_alive
  /\ cpc[n] # "idle" => ret[n] = "none"
  /\ cpc[n] # "idle" \/ ret[n] # "none" => calls[n] # 0

LinksOK == \A n \in BusClient : LinkOK(n)

LEMMA BrokerStepLinks ==
  ASSUME B!TypeOK, BrokerOK, LinksOK, BrokerStep
  PROVE  BrokerOK' /\ LinksOK' /\ UNCHANGED <<cpc, tries, ret, calls, signalled>>
<1>1. UNCHANGED signalled
  BY DEF BrokerStep, all_vars, vars, services
<1>2. UNCHANGED <<cpc, tries, ret, calls>>
  BY DEF BrokerStep, B!Deploy, B!DeploymentFails, B!BrokerRunReturns, B!BrokerAborts,
     B!Serve, B!socketpair, B!broker_new, B!OpenListener, B!create_listener_socket,
     B!add_listener_to_broker, B!PublishReady, B!MarkAlive, B!MarkWasAlive,
     B!BrokerThreadEnds, B!cvars
<1>3. BrokerOK'
  <2> USE DEF BrokerOK, Up, BrokerGone, B!bvars, B!cvars, B!BGoto
  <2>1. CASE B!socketpair \/ B!broker_new \/ B!OpenListener \/ B!create_listener_socket
    BY <2>1 DEF B!socketpair, B!broker_new, B!OpenListener, B!create_listener_socket,
       B!g_controller_fds
  <2>2. CASE B!add_listener_to_broker \/ B!PublishReady \/ B!MarkAlive \/ B!MarkWasAlive
    BY <2>2 DEF B!add_listener_to_broker, B!PublishReady, B!MarkAlive, B!MarkWasAlive
  <2>3. CASE B!BrokerThreadEnds \/ B!DeploymentFails
    BY <2>3 DEF B!BrokerThreadEnds, B!DeploymentFails
  <2>4. CASE B!BrokerRunReturns \/ B!BrokerAborts
    BY <2>4 DEF B!BrokerRunReturns, B!BrokerAborts
  <2>5. CASE \E m \in BusClient : B!Serve(m)
    BY <2>5 DEF B!Serve
  <2>6. QED
    BY <2>1, <2>2, <2>3, <2>4, <2>5 DEF BrokerStep, B!Deploy
<1>4. ASSUME NEW n \in BusClient PROVE LinkOK(n)'
  <2>1. LinkOK(n) /\ (was_alive => was_alive') /\ (BrokerGone => BrokerGone')
    BY DEF LinksOK, BrokerStep, B!Deploy, B!DeploymentFails, B!BrokerRunReturns,
       B!BrokerAborts, B!Serve, B!socketpair, B!broker_new, B!OpenListener, B!create_listener_socket,
       B!add_listener_to_broker, B!PublishReady, B!MarkAlive, B!MarkWasAlive,
       B!BrokerThreadEnds, B!bvars, B!BGoto, BrokerGone
  <2>2. CASE UNCHANGED link
    BY <1>2, <2>1, <2>2 DEF LinkOK
  <2>3. ASSUME NEW m \in BusClient, B!Serve(m) PROVE LinkOK(n)'
    BY <1>2, <2>1, <2>3 DEF B!Serve, LinkOK, BrokerOK, B!TypeOK, B!bvars
  <2>4. CASE B!BrokerRunReturns
    BY <1>2, <2>1, <2>4 DEF B!BrokerRunReturns, LinkOK, B!TypeOK, BrokerGone, B!BGoto
  <2>5. QED
    BY <2>2, <2>3, <2>4 DEF BrokerStep, B!Deploy, B!DeploymentFails, B!BrokerAborts,
       B!socketpair, B!broker_new, B!OpenListener, B!create_listener_socket, B!add_listener_to_broker,
       B!PublishReady, B!MarkAlive, B!MarkWasAlive, B!BrokerThreadEnds
<1>5. QED
  BY <1>1, <1>2, <1>3, <1>4 DEF LinksOK

\* A client touches nothing but its own.
LEMMA OwnStep ==
  ASSUME B!TypeOK, NEW c \in BusClient, Connects(c)
  PROVE  /\ UNCHANGED <<all_vars, clocks, broker_state>>
         /\ timer'[broker] = timer[broker]
         /\ \A n \in BusClient \ {c} :
              /\ cpc'[n] = cpc[n] /\ timer'[n] = timer[n] /\ tries'[n] = tries[n]
              /\ link'[n] = link[n] /\ ret'[n] = ret[n] /\ calls'[n] = calls[n]
<1>1. UNCHANGED <<all_vars, clocks, broker_state>>
  BY DEF Connects, broker_state, B!Begin, B!connect_to_dbroker, B!FirstClientWaited,
     B!CheckWasAlive, B!CheckAlive, B!OpenSocket, B!ConnectSucceeds, B!ConnectFails,
     B!GiveUp, B!SetUpBus, B!Poll, B!NotReady, B!BusReady, B!bvars
<1> DEFINE Same(f, g) == g = f \/ \E v : g = [f EXCEPT ![c] = v]
<1>2. /\ Same(cpc, cpc') /\ Same(timer, timer') /\ Same(tries, tries')
      /\ Same(link, link') /\ Same(ret, ret') /\ Same(calls, calls')
  BY DEF Connects, B!Begin, B!connect_to_dbroker, B!FirstClientWaited,
     B!CheckWasAlive, B!CheckAlive, B!OpenSocket, B!ConnectSucceeds, B!ConnectFails,
     B!GiveUp, B!SetUpBus, B!Poll, B!NotReady, B!BusReady, B!Goto, B!Return, B!SetLink,
     B!Sleep, B!CountRetry, B!CloseSocket, B!PollSleep
<1>3. QED
  BY <1>1, <1>2, BrokerIsNoClient DEF B!TypeOK

LEMMA ConnectsLinks ==
  ASSUME B!TypeOK, BrokerOK, LinksOK, NEW c \in BusClient, Connects(c)
  PROVE  /\ BrokerOK' /\ LinksOK' /\ UNCHANGED signalled
         /\ \A n \in BusClient : ret[n] # "none" => ret'[n] = ret[n]
<1>1. UNCHANGED <<signalled, bpc, held, alive, was_alive>> /\ LinkOK(c)
  BY OwnStep DEF all_vars, vars, services, broker_state, LinksOK
<1>2. BrokerOK'
  BY <1>1 DEF BrokerOK, BrokerGone
<1>3. ASSUME NEW n \in BusClient, n # c PROVE LinkOK(n)' /\ ret'[n] = ret[n]
  BY <1>1, <1>3, OwnStep DEF LinksOK, LinkOK, BrokerGone
<1>4. LinkOK(c)' /\ (ret[c] # "none" => ret'[c] = ret[c])
  <2> USE <1>1 DEF LinkOK, BrokerGone, B!TypeOK, B!At, B!InLoop, B!Goto, B!Return, B!SetLink
  <2>1. CASE B!Begin(c)
    BY <2>1 DEF B!Begin
  <2>2. CASE B!FirstClientWaited(c)
    BY <2>2 DEF B!FirstClientWaited
  <2>3. CASE B!CheckWasAlive(c)
    BY <2>3 DEF B!CheckWasAlive, B!AfterCheckWas
  <2>4. CASE B!CheckAlive(c)
    BY <2>4 DEF B!CheckAlive
  <2>5. CASE B!ConnectSucceeds(c)
    BY <2>5 DEF B!ConnectSucceeds
  <2>6. CASE B!OpenSocket(c) \/ B!ConnectFails(c)
    BY <2>6 DEF B!OpenSocket, B!ConnectFails, B!CloseSocket
  <2>7. CASE B!GiveUp(c)
    BY <2>7 DEF B!GiveUp
  <2>8. CASE B!SetUpBus(c)
    BY <2>8 DEF B!SetUpBus
  <2>9. CASE B!Poll(c)
    BY <2>9 DEF B!Poll
  <2>10. CASE B!NotReady(c)
    BY <2>10 DEF B!NotReady
  <2>11. CASE B!BusReady(c)
    BY <2>11 DEF B!BusReady
  <2>12. QED
    BY <2>1, <2>2, <2>3, <2>4, <2>5, <2>6, <2>7, <2>8, <2>9, <2>10, <2>11
       DEF Connects, B!connect_to_dbroker
<1>5. QED
  BY <1>1, <1>2, <1>3, <1>4 DEF LinksOK

(***************************************************************************)
(* A signal of a client means a bus, and a bus a broker that has run       *)
(***************************************************************************)

SignalsWithBus == \A n \in BusClient : signalled[n] => ret[n] = "ok"

BusInv ==
  /\ SignalInv /\ BootMounts
  /\ B!TypeOK /\ BrokerOK /\ LinksOK
  /\ SignalsWithBus

\* Only its own routine gives the semaphore of a client.
LEMMA OwnSignal ==
  ASSUME TypeOK, [StartupNext]_startup_vars, NEW n \in BusClient,
         signalled'[n], ~signalled[n]
  PROVE  Signals(n) /\ UNCHANGED bus_state
<1>1. signalled \in [Name -> BOOLEAN] /\ n \in Name /\ n # "dbus_broker"
  BY BrokerIsNoClient DEF TypeOK
<1>2. ASSUME NEW m \in Name, GiveReadySem(m) PROVE m = n
  BY <1>1, <1>2 DEF GiveReadySem
<1>3. signalled' # signalled
  OBVIOUS
<1>4. ASSUME NEW c \in Caller, Main(c) PROVE FALSE
  <2>1. MainThread(c)
    BY <1>4 DEF Main
  <2>2. CASE dbus_broker_gives(c)
    BY <1>1, <1>2, <2>2, BootAssumption DEF dbus_broker_gives
  <2>3. CASE ~dbus_broker_gives(c)
    BY <1>3, <2>1, <2>3 DEF MainThread, ManagerStep, CallerStep, BeginCall,
       SkipThread, EndCall, StartThread, Enter, Lookup, CallDep, DepsDone, CheckDep,
       WaitDep, InitFunc, InitFuncReturns, InitReturned, AwaitSignal, PopAndReturn,
       init_func, CreateFailsEarly, AllocateContext, PthreadCreate, dbus_broker_init,
       vars, services
  <2>4. QED
    BY <2>2, <2>3
<1>5. ASSUME NEW m \in Name, Service(m) PROVE Signals(m)
  BY <1>3, <1>5 DEF Service, Trampoline, Connects, Returns, task_trampoline,
     RoutineEnds, OnExit, EndSilently, all_vars, vars, services
<1>6. ASSUME BrokerStep \/ Constructors \/ SetsUpNetwork \/ Tick \/ AllIdle
             \/ UNCHANGED startup_vars
      PROVE  FALSE
  BY <1>3, <1>6 DEF BrokerStep, Constructors, SetsUpNetwork, Tick, AllIdle, Stays,
     Register, register_thread_descriptor, fs_mount, net_stack_cfg_do_once,
     startup_vars, all_vars, vars, services
<1>7. PICK m \in Name : Signals(m)
  BY <1>4, <1>5, <1>6 DEF StartupNext
<1>8. m = n
  BY <1>2, <1>7 DEF Signals, ServiceIsReady
<1>9. QED
  BY <1>7, <1>8 DEF Signals

LEMMA LinksNext ==
  ASSUME B!TypeOK, BrokerOK, LinksOK, [StartupNext]_startup_vars
  PROVE  /\ BrokerOK' /\ LinksOK'
         /\ \A n \in BusClient : ret[n] # "none" => ret'[n] = ret[n]
<1>1. CASE BrokerStep
  BY <1>1, BrokerStepLinks
<1>2. CASE \E n \in BusClient : Connects(n)
  BY <1>2, ConnectsLinks
<1>3. CASE UNCHANGED bus_state \/ Tick
  <2>1. UNCHANGED <<broker_state, client_state>>
    BY <1>3 DEF bus_state, Tick
  <2>2. QED
    BY <2>1 DEF broker_state, client_state, BrokerOK, BrokerGone, LinksOK, LinkOK
<1>4. QED
  BY <1>1, <1>2, <1>3, StepsOfTheBus

LEMMA BusInvNext ==
  ASSUME BusInv, [StartupNext]_startup_vars
  PROVE  BusInv' /\ [Next]_vars
<1>1. [Next]_vars /\ BootMounts'
  BY StartupSimulates, BootSimulates DEF BusInv
<1>2. SignalInv'
  BY <1>1, SignalInvNext DEF BusInv
<1>3. B!TypeOK'
  BY <1>2, BusTypesNext DEF BusInv, SignalInv
<1>4. /\ BrokerOK' /\ LinksOK'
      /\ \A n \in BusClient : ret[n] # "none" => ret'[n] = ret[n]
  BY LinksNext DEF BusInv
<1>5. ASSUME NEW n \in BusClient, signalled'[n] PROVE ret'[n] = "ok"
  <2>1. CASE signalled[n]
    BY <1>4, <2>1 DEF BusInv, SignalsWithBus
  <2>2. CASE ~signalled[n]
    BY <1>5, <2>2, OwnSignal DEF BusInv, SignalInv, Signals, HasBus, bus_state,
       client_state
  <2>3. QED
    BY <2>1, <2>2
<1>6. QED
  BY <1>1, <1>2, <1>3, <1>4, <1>5 DEF BusInv, SignalsWithBus

LEMMA BusInvInit == StartupInit => BusInv
<1> SUFFICES ASSUME StartupInit PROVE BusInv
  OBVIOUS
<1>1. SignalInv /\ BootMounts
  BY SignalInvInit DEF StartupInit, BootInit, BootMounts, FileSystem
<1>2. BrokerOK
  BY DEF StartupInit, B!Init, BrokerOK, Up
<1>3. LinksOK
  BY DEF StartupInit, B!Init, LinksOK, LinkOK
<1>4. SignalsWithBus
  BY BrokerIsNoClient DEF StartupInit, BootInit, Init, SignalsWithBus
<1>5. QED
  BY <1>1, <1>2, <1>3, <1>4, BusTypesInit DEF BusInv

\* Although the manager releases the services before the broker runs, a service
\* is READY only when the broker has run and has answered it: for every number
\* of callers and services and whatever fails, provided the clients are defined
\* with a ready semaphore.
THEOREM ReadyMeansBus ==
  HaveSem(BusClient) => (StartupSpec => []ReadyNeedsBroker)
<1> SUFFICES ASSUME HaveSem(BusClient) PROVE StartupSpec => []ReadyNeedsBroker
  OBVIOUS
<1> DEFINE I == BusInv /\ RegisteredSem(BusClient)
<1>1. StartupInit => I
  BY BusInvInit DEF StartupInit, BootInit, Init, RegisteredSem
<1>2. I /\ [StartupNext]_startup_vars => I'
  BY BusInvNext, SemsStay DEF BusInv, SignalInv
<1>3. I => ReadyNeedsBroker
  <2> SUFFICES ASSUME I, NEW n \in BusClient, tstate[n] = READY
               PROVE  was_alive /\ link[n] = "up"
    BY DEF ReadyNeedsBroker
  <2>1. n \in Name
    BY BrokerIsNoClient
  <2>2. HasSignalled(n)
    BY <2>1 DEF BusInv, SignalInv, ReadyMeansSignalled
  <2>3. find_thread_descriptor(n).ready_sem
    <3>1. \E i \in DOMAIN registry :
            find_thread_descriptor(n) = registry[i] /\ registry[i].name = n
      BY <2>2 DEF HasSignalled, Registered, find_thread_descriptor, DescriptorIn
    <3>2. QED
      BY <3>1 DEF RegisteredSem
  <2>4. ret[n] = "ok" /\ LinkOK(n)
    BY <2>2, <2>3 DEF HasSignalled, BusInv, SignalsWithBus, LinksOK
  <2>5. QED
    BY <2>4 DEF LinkOK
<1>4. QED
  BY <1>1, <1>2, <1>3, PTL DEF StartupSpec

(***************************************************************************)
(* The threads under way                                                   *)
(***************************************************************************)

Alive(n) == task[n] \in {"new", "routine"} /\ ~signalled[n]

\* dbus_broker has no thread of its own among the services.
ThreadOK(n) ==
  n # "dbus_broker" =>
    /\ starting[n] = IF Alive(n) THEN 1 ELSE 0
    /\ task[n] \in {"none", "new"} => ~signalled[n]

MakingOK(c) == making[c] # "no" => At(c, "init") \/ At(c, "inited")

ThreadInv ==
  /\ ContextInv
  /\ \A c \in Caller : MakingOK(c)
  /\ \A n \in Name : ThreadOK(n)

LEMMA ThreadTypes ==
  ASSUME ContextInv
  PROVE  /\ starting \in [Name -> Nat] /\ signalled \in [Name -> BOOLEAN]
         /\ task \in [Name -> {"none", "new", "routine", "ended"}]
         /\ making \in [Caller -> {"no", "context", "give"}]
         /\ tstate \in [Name -> ThreadState] /\ sem \in [Name -> {0, 1}]
         /\ net \in {"none", "ok", "failed"}
BY DEF ContextInv, BootTypeOK, ProgressInv, ShapeInv, SignalInv, TypeOK

LEMMA InitFuncEnters ==
  ASSUME ContextInv, NEW c \in Caller, NEW created \in BOOLEAN,
         InitFuncReturns(c, "ok", created)
  PROVE  /\ At(c, "inited")' /\ Top(c)'.name = Top(c).name /\ Top(c)'.ret = "ok"
         /\ starting' = [starting EXCEPT ![Top(c).name] = IF created THEN @ + 1 ELSE @]
         /\ UNCHANGED <<signalled, tstate, sem>>
<1>1. /\ stack[c] # <<>> /\ SetTop(c, [Top(c) EXCEPT !.pc = "inited", !.ret = "ok"])
      /\ starting' = [starting EXCEPT ![Top(c).name] = IF created THEN @ + 1 ELSE @]
      /\ UNCHANGED <<signalled, tstate, sem>>
  BY DEF InitFuncReturns, At
<1>2. Top(c) \in Frame
  BY <1>1, TopProgress DEF ContextInv
<1>3. PICK f : Moves(c, f) /\ f.pc = "inited" /\ f.ret = "ok"
  BY <1>1, <1>2, InitMoves DEF Ret
<1>4. Top(c)' = f /\ stack'[c] # <<>>
  BY <1>1, <1>3, TopAfterMove DEF ContextInv
<1>5. QED
  BY <1>1, <1>3, <1>4 DEF At, Moves

\* A step of main inside init_func.
LEMMA InitFuncThreads ==
  ASSUME OneCaller, ThreadInv, NEW c \in Caller, init_func(c)
  PROVE  /\ \A n \in Name : ThreadOK(n)'
         /\ MakingOK(c)'
         /\ ~At(c, "signal")'
<1> DEFINE n == Top(c).name
<1> USE ThreadTypes DEF ThreadInv
<1>1. CASE AllocateContext(c)
  <2>1. At(c, "init") /\ UNCHANGED <<starting, task, signalled, stack>>
    BY <1>1 DEF AllocateContext, Inside, vars, services
  <2>2. At(c, "init")'
    BY <2>1 DEF At, Top
  <2>3. QED
    BY <2>1, <2>2 DEF ThreadOK, Alive, MakingOK, At
<1>2. CASE CreateFailsEarly(c)
  <2>1. InitFuncReturns(c, "ok", FALSE) /\ UNCHANGED <<task, making>>
    BY <1>2 DEF CreateFailsEarly, boot_vars
  <2>2. /\ At(c, "inited")'
        /\ starting' = [starting EXCEPT ![n] = @] /\ UNCHANGED signalled
    BY <2>1, InitFuncEnters
  <2>3. starting' = starting
    BY <2>2
  <2>4. QED
    BY <2>1, <2>2, <2>3 DEF ThreadOK, Alive, MakingOK, At
<1>3. CASE dbus_broker_init(c)
  <2>1. InitFuncReturns(c, "ok", TRUE) /\ UNCHANGED task /\ n = "dbus_broker"
    BY <1>3 DEF dbus_broker_init
  <2>2. /\ At(c, "inited")'
        /\ starting' = [starting EXCEPT ![n] = @ + 1] /\ UNCHANGED signalled
    BY <2>1, InitFuncEnters
  <2>3. \A m \in Name : m # "dbus_broker" => starting'[m] = starting[m]
    BY <2>1, <2>2
  <2>4. QED
    BY <2>1, <2>2, <2>3 DEF ThreadOK, Alive, MakingOK, At
<1>4. CASE PthreadCreate(c)
  <2>1. PICK created \in BOOLEAN :
          /\ InitFuncReturns(c, "ok", created)
          /\ task' = IF created THEN [task EXCEPT ![n] = "new"] ELSE task
    BY <1>4 DEF PthreadCreate
  <2>2. /\ At(c, "inited")' /\ UNCHANGED signalled
        /\ starting' = [starting EXCEPT ![n] = IF created THEN @ + 1 ELSE @]
    BY <2>1, InitFuncEnters
  <2>3. PICK k \in Name : k = n /\ task[k] = "none"
    BY <1>4, InsideMeansNew DEF PthreadCreate, Inside
  <2>4. ASSUME NEW m \in Name, m # k PROVE ThreadOK(m)'
    BY <2>1, <2>2, <2>3, <2>4 DEF ThreadOK, Alive
  <2>5. ThreadOK(k)'
    <3>1. k # "dbus_broker" => starting[k] = 0 /\ ~signalled[k]
      BY <2>3 DEF ThreadOK, Alive
    <3>2. starting'[k] = IF created THEN starting[k] + 1 ELSE starting[k]
      BY <2>2, <2>3
    <3>3. task'[k] = IF created THEN "new" ELSE "none"
      BY <2>1, <2>3
    <3>4. QED
      BY <2>2, <3>1, <3>2, <3>3 DEF ThreadOK, Alive
  <2>6. QED
    BY <2>2, <2>4, <2>5 DEF MakingOK, At
<1>5. CASE dbus_broker_gives(c)
  <2>1. /\ making[c] = "give" /\ making' = [making EXCEPT ![c] = "no"]
        /\ UNCHANGED <<task, stack>>
        /\ starting' = [starting EXCEPT !["dbus_broker"] = @ - 1]
        /\ signalled' = [signalled EXCEPT !["dbus_broker"] = TRUE]
    BY <1>5 DEF dbus_broker_gives, GiveReadySem
  <2>2. ASSUME NEW m \in Name PROVE ThreadOK(m)'
    BY <2>1 DEF ThreadOK, Alive
  <2>3. ~At(c, "signal")'
    BY <2>1 DEF MakingOK, At, Top
  <2>4. MakingOK(c)'
    BY <2>1 DEF MakingOK
  <2>5. QED
    BY <2>2, <2>3, <2>4
<1>6. QED
  BY <1>1, <1>2, <1>3, <1>4, <1>5 DEF init_func

\* main gets to wait for the semaphore of a service only from its init_func.
LEMMA OnlyInitedWaits ==
  ASSUME ProgressInv, NEW c \in Caller, CallerStep(c), At(c, "signal")'
  PROVE  InitReturned(c) /\ Top(c).ret = "ok" /\ Top(c)'.name = Top(c).name
<1>1. CASE SkipThread(c) \/ EndCall(c)
  BY <1>1 DEF SkipThread, EndCall, AtTop, At
<1>2. CASE CallDep(c) \/ BeginCall(c)
  BY <1>2, TopAfterCall DEF At
<1>3. ASSUME stack[c] # <<>>, \E r \in Ret : Return(c, r) PROVE FALSE
  BY <1>3, TopAfterReturn DEF At
<1>4. ASSUME stack[c] # <<>>,
             \/ \E pc \in {"lookup", "deps", "wait", "init"} : Goto(c, pc)
             \/ \E r \in {"ok", "err"} : Cleanup(c, r)
             \/ NextDep(c)
      PROVE  FALSE
  <2>1. Top(c) \in Frame
    BY <1>4, TopProgress
  <2>2. PICK f : Moves(c, f) /\ f.pc # "signal"
    BY <1>4, <2>1, GotoMoves, CleanupMoves, NextDepMoves DEF Pc, Ret
  <2>3. QED
    BY <1>4, <2>2, TopAfterMove DEF At
<1>5. CASE StartThread(c) /\ ~CallDep(c) /\ ~InitFunc(c)
  <2>1. stack[c] # <<>>
    BY <1>5 DEF StartThread, Enter, Lookup, DepsDone, CheckDep, WaitDep,
       InitReturned, AwaitSignal, PopAndReturn, At
  <2>2. Top(c).ret \in Ret /\ Top(c) \in Frame
    BY <2>1, TopProgress DEF Frame
  <2>3. CASE InitReturned(c)
    <3>1. Top(c).ret = "ok" /\ Goto(c, "signal")
      BY <1>4, <2>1, <2>3 DEF InitReturned
    <3>2. PICK f : Moves(c, f)
      BY <2>2, <3>1, GotoMoves DEF Pc
    <3>3. QED
      BY <2>1, <2>3, <3>1, <3>2, TopAfterMove DEF Moves
  <2>4. CASE ~InitReturned(c)
    <3>1. \/ \E r \in Ret : Return(c, r)
          \/ \E pc \in {"lookup", "deps", "wait", "init"} : Goto(c, pc)
          \/ \E r \in {"ok", "err"} : Cleanup(c, r)
          \/ NextDep(c)
      BY <1>5, <2>2, <2>4 DEF StartThread, Enter, Lookup, DepsDone, CheckDep, WaitDep,
         AwaitSignal, PopAndReturn, Ret
    <3>2. QED
      BY <1>3, <1>4, <2>1, <3>1
  <2>5. QED
    BY <2>3, <2>4
<1>6. CASE InitFunc(c)
  <2>1. PICK r \in {"ok", "err"}, created \in BOOLEAN : InitFuncReturns(c, r, created)
    BY <1>6 DEF InitFunc
  <2>2. /\ stack[c] # <<>>
        /\ SetTop(c, [Top(c) EXCEPT !.pc = "inited", !.ret = r])
    BY <2>1 DEF InitFuncReturns, At
  <2>3. PICK f : Moves(c, f) /\ f.pc = "inited"
    BY <2>2, TopProgress, InitMoves DEF Ret
  <2>4. QED
    BY <2>2, <2>3, TopAfterMove DEF At
<1>7. QED
  BY <1>1, <1>2, <1>5, <1>6 DEF CallerStep

\* A step of a service thread.
LEMMA ServiceThreads ==
  ASSUME ThreadInv, NEW n \in Name, ServiceThread(n) \/ RoutineEnds(n)
  PROVE  \A m \in Name : ThreadOK(m)'
<1> USE ThreadTypes DEF ThreadInv
<1>1. CASE task_trampoline(n)
  <2>1. /\ task[n] = "new" /\ task' = [task EXCEPT ![n] = "routine"]
        /\ UNCHANGED <<starting, signalled>>
    BY <1>1 DEF task_trampoline, vars, services
  <2>2. QED
    BY <2>1 DEF ThreadOK, Alive
<1>2. CASE ServiceIsReady(n)
  <2>1. /\ task[n] = "routine" /\ UNCHANGED task /\ starting[n] > 0
        /\ starting' = [starting EXCEPT ![n] = @ - 1]
        /\ signalled' = [signalled EXCEPT ![n] = TRUE]
    BY <1>2 DEF ServiceIsReady, GiveReadySem, boot_vars
  <2>2. ASSUME NEW m \in Name, m # n PROVE ThreadOK(m)'
    BY <2>1, <2>2 DEF ThreadOK, Alive
  <2>3. ThreadOK(n)'
    BY <2>1 DEF ThreadOK, Alive
  <2>4. QED
    BY <2>2, <2>3
<1>3. CASE RoutineEnds(n)
  <2>1. /\ task[n] = "routine" /\ task' = [task EXCEPT ![n] = "ended"]
        /\ UNCHANGED signalled
        /\ IF starting[n] > 0 THEN starting' = [starting EXCEPT ![n] = @ - 1]
                              ELSE UNCHANGED starting
    BY <1>3 DEF RoutineEnds, OnExit, EndSilently, vars, services
  <2>2. ASSUME NEW m \in Name, m # n PROVE ThreadOK(m)'
    BY <2>1, <2>2 DEF ThreadOK, Alive
  <2>3. ThreadOK(n)'
    BY <2>1 DEF ThreadOK, Alive
  <2>4. QED
    BY <2>2, <2>3
<1>4. QED
  BY <1>1, <1>2, <1>3 DEF ServiceThread

LEMMA ThreadInvNext ==
  ASSUME OneCaller, ThreadInv, [BootNext]_all_vars
  PROVE  ThreadInv'
<1>1. ContextInv'
  BY ContextInvNext DEF ThreadInv
<1> DEFINE Goal == (\A c \in Caller : MakingOK(c)') /\ (\A n \in Name : ThreadOK(n)')
<1>2. ASSUME NEW c \in Caller, MainThread(c) PROVE Goal
  <2>1. CASE init_func(c)
    BY <2>1, InitFuncThreads DEF OneCaller
  <2>2. CASE ManagerStep(c)
    <3>1. /\ making[c] = "no" /\ UNCHANGED <<making, task>>
          /\ ~InitFunc(c) /\ CallerStep(c)
      BY <2>2 DEF ManagerStep, boot_vars, InitFunc, InitFuncReturns
    <3>2. UNCHANGED <<starting, signalled>>
      BY <3>1 DEF CallerStep, BeginCall, SkipThread, EndCall, StartThread, Enter,
         Lookup, CallDep, DepsDone, CheckDep, WaitDep, InitReturned, AwaitSignal,
         PopAndReturn, services
    <3>3. QED
      BY <3>1, <3>2 DEF OneCaller, MakingOK, ThreadInv, ThreadOK, Alive
  <2>3. QED
    BY <1>2, <2>1, <2>2 DEF MainThread
<1>3. ASSUME NEW n \in Name, ServiceThread(n) \/ RoutineEnds(n) PROVE Goal
  <2>1. UNCHANGED <<stack, making>>
    BY <1>3 DEF ServiceThread, task_trampoline, ServiceIsReady, RoutineEnds, OnExit,
       EndSilently, GiveReadySem, vars, boot_vars
  <2>2. QED
    BY <1>3, <2>1, ServiceThreads DEF ThreadInv, MakingOK, At, Top
<1>4. ASSUME \/ Register \/ fs_mount \/ MountFails \/ net_stack_cfg_do_once
             \/ Stays \/ UNCHANGED all_vars
      PROVE  Goal
  <2>1. UNCHANGED <<stack, making, task, starting, signalled>>
    BY <1>4 DEF Register, fs_mount, MountFails, net_stack_cfg_do_once, Stays,
       register_thread_descriptor, all_vars, vars, boot_vars, services
  <2>2. QED
    BY <2>1 DEF ThreadInv, MakingOK, At, Top, ThreadOK, Alive
<1>5. Goal
  <2>1. CASE \E c \in Caller : MainThread(c)
    BY <1>2, <2>1
  <2>2. CASE \E n \in Name : ServiceThread(n) \/ RoutineEnds(n)
    BY <1>3, <2>2
  <2>3. QED
    BY <1>4, <2>1, <2>2 DEF BootNext
<1>6. QED
  BY <1>1, <1>5 DEF ThreadInv

LEMMA ThreadInvInit == BootInit => ThreadInv
<1> SUFFICES ASSUME BootInit PROVE ThreadInv
  OBVIOUS
<1>1. \A c \in Caller : MakingOK(c)
  BY DEF BootInit, MakingOK
<1>2. \A n \in Name : ThreadOK(n)
  BY DEF BootInit, Init, ThreadOK, Alive
<1>3. QED
  BY <1>1, <1>2, ContextInvInit DEF ThreadInv

(***************************************************************************)
(* How long connect_to_dbroker may still take                              *)
(***************************************************************************)

Budget == FIRST_DELAY + CONNECT_RETRIES + READY_RETRIES

\* The ticks a client needs at most until connect_to_dbroker returns.
Remaining(n) ==
  CASE cpc[n] = "idle"  -> IF ret[n] = "none" THEN Budget ELSE 0
    [] cpc[n] = "try"   -> timer[n] + (CONNECT_RETRIES - tries[n]) + READY_RETRIES
    [] cpc[n] = "setup" -> timer[n] + READY_RETRIES
    [] cpc[n] = "ready" -> timer[n] + (READY_RETRIES - tries[n])
    [] OTHER            -> timer[n] + CONNECT_RETRIES + READY_RETRIES

PaceOK(n) ==
  /\ cpc[n] \in {"first", "check_was", "check_alive"} => tries[n] = 0
  /\ cpc[n] = "try" => tries[n] <= CONNECT_RETRIES
  /\ cpc[n] = "ready" => tries[n] <= READY_RETRIES
  /\ Remaining(n) <= Budget

LEMMA ClientTypes ==
  ASSUME B!TypeOK, NEW n \in BusClient
  PROVE  /\ cpc \in [BusClient -> B!CPc] /\ tries \in [BusClient -> Nat]
         /\ timer \in [B!Thread -> Nat] /\ calls \in [BusClient -> Nat]
         /\ ret \in [BusClient -> B!Outcome] /\ link \in [BusClient -> B!Link]
         /\ n \in B!Thread /\ timer[n] \in Nat /\ tries[n] \in Nat
         /\ cpc[n] \in {"idle", "first", "check_was", "check_alive", "try", "setup",
                        "ready"}
BY BrokerIsNoClient DEF B!TypeOK, B!CPc

LEMMA RemainingIsNat ==
  ASSUME B!TypeOK, NEW n \in BusClient, PaceOK(n)
  PROVE  Remaining(n) \in Nat
<1>1. timer[n] \in Nat /\ tries[n] \in Nat
  BY ClientTypes
<1>2. QED
  BY <1>1, DelaysAreNumbers DEF Remaining, PaceOK, Budget

LEMMA ConnectsPace ==
  ASSUME B!TypeOK, LinksOK, NEW c \in BusClient, PaceOK(c), Connects(c)
  PROVE  PaceOK(c)' /\ Remaining(c)' <= Remaining(c)
<1> USE ClientTypes, DelaysAreNumbers DEF PaceOK, Remaining, Budget, B!At, B!InLoop, B!Awake,
                                    B!Goto, B!Return, B!Sleep
<1>1. CASE B!Begin(c)
  <2>1. ret[c] = "none"
    BY <1>1 DEF B!Begin, LinksOK, LinkOK
  <2>2. QED
    BY <1>1, <2>1 DEF B!Begin
<1>2. CASE B!FirstClientWaited(c)
  BY <1>2 DEF B!FirstClientWaited
<1>3. CASE B!CheckWasAlive(c)
  BY <1>3 DEF B!CheckWasAlive, B!AfterCheckWas
<1>4. CASE B!CheckAlive(c)
  BY <1>4 DEF B!CheckAlive
<1>5. CASE B!ConnectSucceeds(c)
  BY <1>5 DEF B!ConnectSucceeds
<1>6. CASE B!OpenSocket(c) \/ B!ConnectFails(c)
  BY <1>6 DEF B!OpenSocket, B!ConnectFails, B!CountRetry
<1>7. CASE B!GiveUp(c)
  BY <1>7 DEF B!GiveUp
<1>8. CASE B!SetUpBus(c)
  BY <1>8 DEF B!SetUpBus
<1>9. CASE B!Poll(c)
  BY <1>9 DEF B!Poll, B!PollSleep
<1>10. CASE B!NotReady(c) \/ B!BusReady(c)
  BY <1>10 DEF B!NotReady, B!BusReady
<1>11. QED
  BY <1>1, <1>2, <1>3, <1>4, <1>5, <1>6, <1>7, <1>8, <1>9, <1>10
     DEF Connects, B!connect_to_dbroker

\* Time passes for a client that has not signalled only while it sleeps.
LEMMA TickPace ==
  ASSUME B!TypeOK, NEW n \in BusClient, PaceOK(n), Tick
  PROVE  /\ PaceOK(n)' /\ Remaining(n)' <= Remaining(n)
         /\ Alive(n) => Remaining(n)' = Remaining(n) - 1
<1>1. /\ n \in B!Thread /\ timer[n] \in Nat /\ tries[n] \in Nat
      /\ n \in Name /\ n # "net_stack_cfg"
  BY ClientTypes, BrokerIsNoClient
<1>2. /\ UNCHANGED <<cpc, ret, tries>>
      /\ timer'[n] = IF timer[n] > 0 THEN timer[n] - 1 ELSE 0
  BY <1>1 DEF Tick, client_state, Less
<1>3. PaceOK(n)' /\ Remaining(n)' <= Remaining(n)
  BY <1>1, <1>2, DelaysAreNumbers DEF PaceOK, Remaining, Budget
<1>4. ASSUME Alive(n) PROVE Remaining(n)' = Remaining(n) - 1
  <2>1. cpc[n] # "idle"
    BY <1>1, <1>4 DEF Tick, Busy, Alive
  <2>2. timer[n] > 0
    BY <1>1, <2>1 DEF Tick, B!Runnable, B!Awake
  <2>3. QED
    BY <1>1, <1>2, <2>1, <2>2, DelaysAreNumbers DEF Remaining
<1>5. QED
  BY <1>3, <1>4

LEMMA PaceNext ==
  ASSUME BusInv, [StartupNext]_startup_vars, NEW n \in BusClient, PaceOK(n)
  PROVE  PaceOK(n)' /\ Remaining(n)' <= Remaining(n)
<1>1. B!TypeOK /\ LinksOK /\ BrokerOK /\ Remaining(n) \in Nat
  BY RemainingIsNat DEF BusInv
<1>2. ASSUME /\ cpc'[n] = cpc[n] /\ timer'[n] = timer[n] /\ tries'[n] = tries[n]
             /\ ret'[n] = ret[n]
      PROVE  PaceOK(n)' /\ Remaining(n)' <= Remaining(n)
  BY <1>1, <1>2 DEF PaceOK, Remaining, Budget
<1>3. CASE UNCHANGED bus_state
  BY <1>2, <1>3 DEF bus_state, client_state
<1>4. CASE BrokerStep
  <2>1. timer'[n] = timer[n]
    <3>1. UNCHANGED timer \/ \E d : timer' = [timer EXCEPT ![broker] = d]
      BY <1>4 DEF BrokerStep, B!Deploy, B!DeploymentFails, B!BrokerRunReturns,
         B!BrokerAborts, B!Serve, B!socketpair, B!broker_new, B!OpenListener, B!create_listener_socket,
         B!add_listener_to_broker, B!PublishReady, B!MarkAlive, B!MarkWasAlive,
         B!BrokerThreadEnds, B!Sleep
    <3>2. QED
      BY <1>1, <3>1, ClientTypes, BrokerIsNoClient
  <2>2. QED
    BY <1>1, <1>2, <1>4, <2>1, BrokerStepLinks
<1>5. ASSUME NEW c \in BusClient, Connects(c)
      PROVE  PaceOK(n)' /\ Remaining(n)' <= Remaining(n)
  <2>1. CASE c = n
    BY <1>1, <1>5, <2>1, ConnectsPace
  <2>2. CASE c # n
    BY <1>1, <1>2, <1>5, <2>2, OwnStep
  <2>3. QED
    BY <2>1, <2>2
<1>6. CASE Tick
  BY <1>1, <1>6, TickPace
<1>7. QED
  BY <1>3, <1>4, <1>5, <1>6, StepsOfTheBus

(***************************************************************************)
(* main waits longer than that                                             *)
(***************************************************************************)

\* connect_to_dbroker takes less than the manager waits for a semaphore.
ClientsAreInTime == Budget < READY_TIMEOUT

PatienceOK(n) ==
  \A c \in Caller :
    At(c, "signal") /\ Top(c).name = n /\ Alive(n) => patience > Remaining(n)

PatienceInv ==
  /\ ThreadInv /\ BusInv /\ patience \in Nat
  /\ \A n \in BusClient : PaceOK(n) /\ PatienceOK(n)

\* Who moves main on, and what becomes of its patience.
LEMMA MainWaits ==
  ASSUME OneCaller, ThreadInv, NEW c \in Caller, Main(c), At(c, "signal")'
  PROVE  /\ patience' = READY_TIMEOUT /\ Top(c)'.name = Top(c).name
         /\ InitReturned(c) /\ Top(c).ret = "ok"
         /\ UNCHANGED <<task, services, net, net_left, bus_state>>
<1>1. MainThread(c) /\ ~init_func(c)
  BY InitFuncThreads DEF Main
<1>2. InitReturned(c) /\ Top(c).ret = "ok" /\ Top(c)'.name = Top(c).name
  BY <1>1, OnlyInitedWaits DEF MainThread, ManagerStep, ThreadInv, ContextInv
<1>3. QED
  BY <1>1, <1>2 DEF Main, StartsWaiting, InitReturned, MainThread, ManagerStep, boot_vars

LEMMA OthersLeavePatience ==
  ASSUME [StartupNext]_startup_vars, \A c \in Caller : ~Main(c)
  PROVE  /\ UNCHANGED stack
         /\ UNCHANGED patience \/ Tick
<1>1. ASSUME NEW n \in Name, Service(n) PROVE UNCHANGED <<stack, patience>>
  BY <1>1 DEF Service, Trampoline, Connects, Signals, Returns, task_trampoline,
     ServiceIsReady, GiveReadySem, RoutineEnds, OnExit, EndSilently, all_vars, vars,
     clocks
<1>2. CASE BrokerStep \/ Constructors \/ SetsUpNetwork \/ AllIdle \/ UNCHANGED startup_vars
  BY <1>2 DEF BrokerStep, Constructors, SetsUpNetwork, AllIdle, Register,
     register_thread_descriptor, fs_mount, net_stack_cfg_do_once, Stays, startup_vars,
     all_vars, vars, clocks
<1>3. CASE Tick
  BY <1>3 DEF Tick, all_vars, vars
<1>4. QED
  BY <1>1, <1>2, <1>3 DEF StartupNext

\* Only main creates threads.
LEMMA AliveBefore ==
  ASSUME ThreadInv, [StartupNext]_startup_vars, \A c \in Caller : ~Main(c),
         NEW n \in Name, Alive(n)'
  PROVE  Alive(n)
<1>1. ASSUME NEW m \in Name, Service(m) PROVE Alive(n)
  <2>1. task' = task \/ \E pc \in {"routine", "ended"} : task[m] \in {"new", "routine"}
                                           /\ task' = [task EXCEPT ![m] = pc]
    BY <1>1 DEF Service, Trampoline, Connects, Signals, Returns, task_trampoline,
       ServiceIsReady, RoutineEnds, all_vars, boot_vars
  <2>2. signalled' = signalled \/ signalled' = [signalled EXCEPT ![m] = TRUE]
    BY <1>1 DEF Service, Trampoline, Connects, Signals, Returns, task_trampoline,
       ServiceIsReady, GiveReadySem, RoutineEnds, OnExit, EndSilently, all_vars, vars,
       services
  <2>3. QED
    BY <2>1, <2>2, ThreadTypes DEF ThreadInv, Alive
<1>2. CASE BrokerStep \/ Constructors \/ SetsUpNetwork \/ AllIdle \/ Tick
           \/ UNCHANGED startup_vars
  BY <1>2 DEF BrokerStep, Constructors, SetsUpNetwork, AllIdle, Register, Tick,
     register_thread_descriptor, fs_mount, net_stack_cfg_do_once, Stays, startup_vars,
     all_vars, boot_vars, vars, services, Alive
<1>3. QED
  BY <1>1, <1>2 DEF StartupNext

LEMMA PatienceInvNext ==
  ASSUME OneCaller, ClientsAreInTime, PatienceInv, [StartupNext]_startup_vars
  PROVE  PatienceInv'
<1>1. ThreadInv /\ ThreadInv'
  BY StartupSimulates, ThreadInvNext DEF PatienceInv, BusInv
<1>2. BusInv /\ BusInv'
  BY BusInvNext DEF PatienceInv
<1>3. patience' \in Nat
  <2>1. CASE UNCHANGED patience
    BY <2>1 DEF PatienceInv
  <2>2. CASE Tick
    BY <2>2 DEF PatienceInv, Tick, Less
  <2>3. ASSUME NEW c \in Caller, Main(c) PROVE patience' \in Nat
    BY <2>3, DelaysAreNumbers DEF Main
  <2>4. CASE \A c \in Caller : ~Main(c)
    BY <2>1, <2>2, <2>4, OthersLeavePatience
  <2>5. QED
    BY <2>3, <2>4
<1>4. ASSUME NEW n \in BusClient PROVE PaceOK(n)' /\ PatienceOK(n)'
  <2>1. PaceOK(n) /\ PatienceOK(n) /\ n \in Name
    BY BrokerIsNoClient DEF PatienceInv
  <2>2. PaceOK(n)' /\ Remaining(n)' <= Remaining(n) /\ Remaining(n) \in Nat
    BY <1>2, <2>1, PaceNext, RemainingIsNat DEF BusInv
  <2>3. Remaining(n)' \in Nat
    <3>1. timer'[n] \in Nat /\ tries'[n] \in Nat
      BY <1>2, BrokerIsNoClient DEF BusInv, B!TypeOK
    <3>2. QED
      BY <2>2, <3>1, DelaysAreNumbers DEF Remaining, PaceOK, Budget
  <2>4. SUFFICES ASSUME NEW c \in Caller, At(c, "signal")', Top(c)'.name = n, Alive(n)'
                 PROVE  patience' > Remaining(n)'
    BY <2>2 DEF PatienceOK
  <2>5. CASE Main(c)
    <3>1. patience' = READY_TIMEOUT
      BY <1>1, <2>4, <2>5, MainWaits
    <3>2. QED
      BY <2>2, <2>3, <3>1, DelaysAreNumbers DEF ClientsAreInTime, PaceOK, Budget
  <2>6. CASE ~Main(c)
    <3>1. UNCHANGED stack /\ (UNCHANGED patience \/ Tick) /\ Alive(n)
      BY <1>1, <2>1, <2>4, <2>6, OthersLeavePatience, AliveBefore DEF OneCaller
    <3>2. patience > Remaining(n) /\ patience \in Nat
      BY <2>1, <2>4, <3>1 DEF PatienceOK, At, Top, PatienceInv
    <3>3. CASE UNCHANGED patience
      BY <2>2, <2>3, <3>2, <3>3
    <3>4. CASE Tick
      <4>1. Remaining(n)' = Remaining(n) - 1
        BY <1>2, <2>1, <3>1, <3>4, TickPace DEF BusInv
      <4>2. patience' = patience - 1
        BY <2>2, <3>2, <3>4 DEF Tick, Less
      <4>3. QED
        BY <2>2, <3>2, <4>1, <4>2
    <3>5. QED
      BY <3>1, <3>3, <3>4
  <2>7. QED
    BY <2>5, <2>6
<1>5. QED
  BY <1>1, <1>2, <1>3, <1>4 DEF PatienceInv

LEMMA PatienceInvInit == StartupInit => PatienceInv
<1> SUFFICES ASSUME StartupInit PROVE PatienceInv
  OBVIOUS
<1>1. ThreadInv /\ BusInv
  BY ThreadInvInit, BusInvInit DEF StartupInit
<1>2. ASSUME NEW n \in BusClient PROVE PaceOK(n) /\ PatienceOK(n)
  <2>1. PaceOK(n)
    BY DelaysAreNumbers DEF StartupInit, B!Init, PaceOK, Remaining, Budget
  <2>2. PatienceOK(n)
    BY DEF StartupInit, BootInit, Init, PatienceOK, At
  <2>3. QED
    BY <2>1, <2>2
<1>3. QED
  BY <1>1, <1>2 DEF StartupInit, PatienceInv

\* The manager's 100 s outlast a client's search for the bus, wherever the clock
\* stands when main comes to wait: when its patience is over, a client that has
\* not signalled has returned or was never created.  This is so for every delay
\* of the broker, whatever fails, and only because the budgets of
\* connect_to_dbroker together stay below the manager's timeout.
THEOREM TimeoutsComeLate ==
  OneCaller /\ ClientsAreInTime => (StartupSpec => []TimeoutsAreDue)
<1> SUFFICES ASSUME OneCaller, ClientsAreInTime PROVE StartupSpec => []TimeoutsAreDue
  OBVIOUS
<1>1. PatienceInv /\ [StartupNext]_startup_vars => PatienceInv'
  BY PatienceInvNext
<1>2. PatienceInv => TimeoutsAreDue
  <2> SUFFICES ASSUME PatienceInv, NEW c \in Caller, Waits(c), patience = 0,
                      NEW n \in BusClient, n = Top(c).name
               PROVE  starting[n] = 0
    BY DEF TimeoutsAreDue
  <2>1. /\ n \in Name /\ n # "dbus_broker" /\ ThreadOK(n) /\ PaceOK(n) /\ PatienceOK(n)
        /\ Remaining(n) \in Nat
    BY BrokerIsNoClient, RemainingIsNat DEF PatienceInv, ThreadInv, BusInv
  <2>2. ~Alive(n)
    BY <2>1 DEF PatienceOK, Waits
  <2>3. QED
    BY <2>1, <2>2 DEF ThreadOK
<1>3. QED
  BY <1>1, <1>2, PatienceInvInit, PTL DEF StartupSpec

(***************************************************************************)
(* The delays of the deployment fit into the budgets of the clients        *)
(***************************************************************************)

BrokerIsInTime ==
  /\ LISTENER_DELAY + 1 < CONNECT_RETRIES
  /\ ALIVE_DELAY + RUN_DELAY + 1 < READY_RETRIES

\* socket(), sd_bus_new and the like do not fail.
ClientsAreSound == Faults \cap {"socket", "setup"} = {}

\* The ticks the broker sleeps at most until it listens, and until it serves.
ToListener ==
  CASE bpc \in {"socketpair", "new"} -> LISTENER_DELAY
    [] bpc = "socket"                -> timer[broker]
    [] OTHER                         -> 0

ToRun ==
  CASE bpc \in {"add", "publish"} -> ALIVE_DELAY + RUN_DELAY
    [] bpc = "alive"              -> timer[broker] + RUN_DELAY
    [] bpc = "was"                -> RUN_DELAY
    [] bpc = "run"                -> timer[broker]
    [] OTHER                      -> 0

BrokerPace ==
  /\ bpc \in {"socketpair", "new", "listen", "add", "publish", "was"} => timer[broker] = 0
  /\ bpc = "socket" => timer[broker] <= LISTENER_DELAY
  /\ bpc = "alive" => timer[broker] <= ALIVE_DELAY
  /\ bpc = "run" => timer[broker] <= RUN_DELAY

\* Before the broker listens a client has attempts left, and until the broker
\* answers it has rounds left.
Lasts(n) ==
  /\ cpc[n] = "try" /\ ~BrokerGone =>
       /\ tries[n] < CONNECT_RETRIES
       /\ bpc \notin Up => CONNECT_RETRIES - tries[n] + timer[n] > ToListener + 1
  /\ cpc[n] = "ready" /\ ~BrokerGone /\ link[n] = "pending" =>
       READY_RETRIES - tries[n] + timer[n] > ToRun + 1
  /\ cpc[n] = "ready" /\ link[n] = "answered" => tries[n] < READY_RETRIES

BudgetOK(n) ==
  /\ cpc[n] \in {"try", "ready"} => timer[n] <= 1
  /\ cpc[n] \in {"first", "check_was", "check_alive"} => tries[n] = 0
  /\ cpc[n] = "setup" => link[n] \in {"pending", "hungup"}
  /\ link[n] \notin {"none", "socket"} => bpc \in Up \/ BrokerGone
  /\ Lasts(n)
  /\ ret[n] \notin {"none", "ok"} => BrokerGone

BudgetInv == BrokerPace /\ \A n \in BusClient : BudgetOK(n)

LEMMA BrokerTypes ==
  ASSUME B!TypeOK
  PROVE  /\ timer \in [B!Thread -> Nat] /\ broker \in B!Thread /\ timer[broker] \in Nat
         /\ bpc \in {"socketpair", "new", "socket", "listen", "add", "publish", "alive",
                     "was", "run", "stopped", "failed", "over", "dead"}
BY BrokerIsNoClient DEF B!TypeOK, B!BPc

\* Each step of the broker, as far as the budgets go.
LEMMA BrokerMoves ==
  ASSUME B!TypeOK, BrokerPace, BrokerStep
  PROVE  /\ \A n \in BusClient : timer'[n] = timer[n]
         /\ BrokerGone => BrokerGone'
         /\ BrokerPace'
         /\ ~BrokerGone' =>
              /\ bpc \in Up => bpc' \in Up
              /\ bpc \notin Up /\ bpc' \notin Up => ToListener' = ToListener
              /\ bpc \in Up => ToRun' = ToRun
         /\ \/ UNCHANGED link
            \/ BrokerGone' /\ \A n \in BusClient :
                 link'[n] = link[n] \/ (link[n] = "pending" /\ link'[n] = "hungup")
            \/ /\ ToRun = 0 /\ ~BrokerGone /\ UNCHANGED <<bpc, timer>>
               /\ \E c \in BusClient : /\ cpc[c] = "ready" /\ link[c] = "pending"
                                       /\ link' = [link EXCEPT ![c] = "answered"]
<1> USE BrokerTypes, DelaysAreNumbers, BrokerIsNoClient
    DEF BrokerPace, ToListener, ToRun, Up, BrokerGone, B!bvars, B!BGoto, B!Awake, B!Sleep
<1>1. CASE B!socketpair
  BY <1>1 DEF B!socketpair
<1>2. CASE B!broker_new
  BY <1>2 DEF B!broker_new
<1>3. CASE B!OpenListener \/ B!create_listener_socket
  BY <1>3 DEF B!OpenListener, B!create_listener_socket
<1>4. CASE B!add_listener_to_broker
  BY <1>4 DEF B!add_listener_to_broker
<1>5. CASE B!PublishReady
  BY <1>5 DEF B!PublishReady
<1>6. CASE B!MarkAlive
  BY <1>6 DEF B!MarkAlive
<1>7. CASE B!MarkWasAlive
  BY <1>7 DEF B!MarkWasAlive
<1>8. CASE B!BrokerThreadEnds
  BY <1>8 DEF B!BrokerThreadEnds
<1>9. CASE B!DeploymentFails
  BY <1>9 DEF B!DeploymentFails
<1>10. CASE B!BrokerRunReturns
  BY <1>10 DEF B!BrokerRunReturns, B!TypeOK
<1>11. CASE B!BrokerAborts
  BY <1>11 DEF B!BrokerAborts
<1>12. CASE \E n \in BusClient : B!Serve(n)
  BY <1>12 DEF B!Serve
<1>13. QED
  BY <1>1, <1>2, <1>3, <1>4, <1>5, <1>6, <1>7, <1>8, <1>9, <1>10, <1>11, <1>12
     DEF BrokerStep, B!Deploy

LEMMA BrokerBudget ==
  ASSUME B!TypeOK, BrokerOK, LinksOK, BudgetInv, BrokerStep
  PROVE  BudgetInv'
<1>1. UNCHANGED <<cpc, tries, ret>> /\ BrokerPace'
  BY BrokerStepLinks, BrokerMoves DEF BudgetInv
<1>2. ASSUME NEW n \in BusClient PROVE BudgetOK(n)'
  <2>1. /\ BudgetOK(n) /\ timer'[n] = timer[n] /\ (BrokerGone => BrokerGone')
        /\ timer[n] \in Nat /\ tries[n] \in Nat
    BY BrokerMoves, ClientTypes DEF BudgetInv
  <2>2. CASE BrokerGone'
    <3>1. /\ link'[n] = link[n] \/ (link[n] = "pending" /\ link'[n] = "hungup")
          /\ link'[n] = "answered" => link[n] = "answered"
      BY <2>2, BrokerMoves DEF BudgetInv, BrokerGone
    <3>2. QED
      BY <1>1, <2>1, <2>2, <3>1 DEF BudgetOK, Lasts
  <2>3. CASE ~BrokerGone'
    <3>1. /\ ~BrokerGone /\ (bpc \in Up => bpc' \in Up)
          /\ bpc \notin Up /\ bpc' \notin Up => ToListener' = ToListener
          /\ bpc \in Up => ToRun' = ToRun
      BY <2>1, <2>3, BrokerMoves DEF BudgetInv
    <3>2. CASE link'[n] = link[n]
      BY <1>1, <2>1, <2>3, <3>1, <3>2 DEF BudgetOK, Lasts
    <3>3. CASE link'[n] # link[n]
      <4>1. /\ ToRun = 0 /\ cpc[n] = "ready" /\ link[n] = "pending"
            /\ link'[n] = "answered"
        BY <2>3, <3>3, BrokerMoves, ClientTypes DEF BudgetInv
      <4>2. tries[n] < READY_RETRIES
        BY <2>1, <3>1, <4>1, DelaysAreNumbers DEF BudgetOK, Lasts
      <4>3. QED
        BY <1>1, <2>1, <2>3, <3>1, <4>1, <4>2 DEF BudgetOK, Lasts
    <3>4. QED
      BY <3>2, <3>3
  <2>4. QED
    BY <2>2, <2>3
<1>3. QED
  BY <1>1, <1>2 DEF BudgetInv

LEMMA ConnectsBudget ==
  ASSUME BrokerIsInTime, ClientsAreSound, B!TypeOK, BrokerOK, LinksOK, BudgetInv,
         NEW c \in BusClient, Connects(c)
  PROVE  BudgetInv'
<1>1. /\ UNCHANGED <<bpc, held, alive, was_alive>> /\ timer'[broker] = timer[broker]
      /\ LinkOK(c) /\ BudgetOK(c)
  BY OwnStep DEF broker_state, LinksOK, BudgetInv
<1>2. /\ BrokerPace' /\ ToListener' = ToListener /\ ToRun' = ToRun
      /\ BrokerGone' = BrokerGone
  BY <1>1 DEF BudgetInv, BrokerPace, ToListener, ToRun, BrokerGone
<1>3. ASSUME NEW n \in BusClient, n # c PROVE BudgetOK(n)'
  BY <1>1, <1>2, <1>3, OwnStep DEF BudgetInv, BudgetOK, Lasts
<1>4. /\ ToListener \in Nat /\ ToRun \in Nat
      /\ bpc \notin Up => ToListener <= LISTENER_DELAY
      /\ ToRun <= ALIVE_DELAY + RUN_DELAY
  BY BrokerTypes, DelaysAreNumbers DEF BudgetInv, BrokerPace, ToListener, ToRun, Up
<1>5. /\ LISTENER_DELAY \in Nat /\ CONNECT_RETRIES \in Nat /\ READY_RETRIES \in Nat
      /\ ALIVE_DELAY + RUN_DELAY \in Nat
      /\ LISTENER_DELAY + 1 < CONNECT_RETRIES
      /\ ALIVE_DELAY + RUN_DELAY + 1 < READY_RETRIES
      /\ "socket" \notin Faults /\ "setup" \notin Faults
  BY DelaysAreNumbers DEF BrokerIsInTime, ClientsAreSound
<1>6. BudgetOK(c)'
  <2> HIDE DEF Up, ToListener, ToRun, BrokerGone
  <2> USE <1>1, <1>2, <1>4, <1>5, ClientTypes DEF BudgetOK, Lasts, LinkOK, B!At, B!InLoop, B!Awake,
      B!Goto, B!Return, B!SetLink, B!Sleep
  <2>1. CASE B!Begin(c)
    BY <2>1 DEF B!Begin
  <2>2. CASE B!FirstClientWaited(c)
    BY <2>2 DEF B!FirstClientWaited
  <2>3. CASE B!CheckWasAlive(c)
    BY <2>3 DEF B!CheckWasAlive, B!AfterCheckWas
  <2>4. CASE B!CheckAlive(c)
    BY <2>4 DEF B!CheckAlive, BrokerOK
  <2>5. CASE B!ConnectSucceeds(c)
    BY <2>5 DEF B!ConnectSucceeds, BrokerOK
  <2>6. CASE B!OpenSocket(c) \/ B!ConnectFails(c)
    <3>1. CASE B!OpenSocket(c)
      BY <3>1 DEF B!OpenSocket
    <3>2. CASE B!ConnectFails(c)
      BY <3>2 DEF B!ConnectFails, B!CloseSocket, B!CountRetry, BrokerOK
    <3>3. QED
      BY <2>6, <3>1, <3>2
  <2>7. CASE B!GiveUp(c)
    BY <2>7 DEF B!GiveUp
  <2>8. CASE B!SetUpBus(c)
    BY <2>8 DEF B!SetUpBus
  <2>9. CASE B!Poll(c)
    BY <2>9 DEF B!Poll, B!PollSleep
  <2>10. CASE B!NotReady(c)
    BY <2>10 DEF B!NotReady
  <2>11. CASE B!BusReady(c)
    BY <2>11 DEF B!BusReady
  <2>12. QED
    BY <2>1, <2>2, <2>3, <2>4, <2>5, <2>6, <2>7, <2>8, <2>9, <2>10, <2>11
       DEF Connects, B!connect_to_dbroker
<1>7. QED
  BY <1>2, <1>3, <1>6 DEF BudgetInv

LEMMA TickBudget ==
  ASSUME B!TypeOK, BudgetInv, Tick
  PROVE  BudgetInv'
<1>1. /\ UNCHANGED <<bpc, cpc, tries, ret, link>> /\ BrokerGone' = BrokerGone
      /\ \A t \in B!Thread :
           timer'[t] = IF timer[t] > 0 THEN timer[t] - 1 ELSE 0
  BY DEF Tick, broker_state, client_state, Less, BrokerGone
<1>2. timer'[broker] = IF timer[broker] > 0 THEN timer[broker] - 1 ELSE 0
  BY <1>1, BrokerTypes
<1>3. /\ timer[broker] = 0 => bpc \in {"run", "over", "dead"}
      /\ timer[broker] = 0 /\ bpc = "run" =>
           \A n \in BusClient : ~(cpc[n] = "ready" /\ link[n] = "pending")
      /\ \A n \in BusClient : cpc[n] # "idle" => timer[n] # 0
  BY DEF Tick, B!Runnable, B!Awake
<1>4. BrokerPace'
  BY <1>1, <1>2, BrokerTypes, DelaysAreNumbers DEF BudgetInv, BrokerPace
<1>5. /\ ToListener \in Nat /\ ToRun \in Nat
      /\ bpc \notin Up /\ ~BrokerGone => ToListener' = ToListener - 1
      /\ bpc \in Up /\ timer[broker] # 0 => ToRun' = ToRun - 1
  BY <1>1, <1>2, <1>3, BrokerTypes, DelaysAreNumbers
     DEF BudgetInv, BrokerPace, ToListener, ToRun, Up, BrokerGone
<1>6. ASSUME NEW n \in BusClient PROVE BudgetOK(n)'
  <2>1. /\ timer[n] \in Nat /\ tries[n] \in Nat /\ BudgetOK(n)
        /\ timer'[n] = IF timer[n] > 0 THEN timer[n] - 1 ELSE 0
    BY <1>1, ClientTypes DEF BudgetInv
  <2>2. Lasts(n)'
    <3>1. CASE cpc[n] = "try"
      BY <1>1, <1>3, <1>5, <2>1, <3>1, DelaysAreNumbers DEF BudgetOK, Lasts
    <3>2. CASE cpc[n] = "ready" /\ ~BrokerGone /\ link[n] = "pending"
      <4>1. bpc \in Up /\ timer[broker] # 0
        BY <1>3, <2>1, <3>2 DEF BudgetOK, BrokerGone, Up
      <4>2. QED
        BY <1>1, <1>3, <1>5, <2>1, <3>2, <4>1, DelaysAreNumbers DEF BudgetOK, Lasts
    <3>3. QED
      BY <1>1, <2>1, <3>1, <3>2 DEF BudgetOK, Lasts
  <2>3. QED
    BY <1>1, <2>1, <2>2 DEF BudgetOK
<1>7. QED
  BY <1>4, <1>6 DEF BudgetInv

LEMMA BudgetInvNext ==
  ASSUME BrokerIsInTime, ClientsAreSound, BusInv, BudgetInv, [StartupNext]_startup_vars
  PROVE  BudgetInv'
<1>1. B!TypeOK /\ BrokerOK /\ LinksOK
  BY DEF BusInv
<1>2. CASE UNCHANGED bus_state
  BY <1>2 DEF bus_state, broker_state, client_state, BudgetInv, BrokerPace, BudgetOK,
     Lasts, ToListener, ToRun, BrokerGone
<1>3. QED
  BY <1>1, <1>2, StepsOfTheBus, BrokerBudget, ConnectsBudget, TickBudget

LEMMA BudgetInvInit == StartupInit => BudgetInv
<1> SUFFICES ASSUME StartupInit PROVE BudgetInv
  OBVIOUS
<1>1. BrokerPace
  BY BrokerIsNoClient DEF StartupInit, B!Init, BrokerPace
<1>2. ASSUME NEW n \in BusClient PROVE BudgetOK(n)
  BY <1>2, BrokerIsNoClient DEF StartupInit, B!Init, BudgetOK, Lasts
<1>3. QED
  BY <1>1, <1>2 DEF BudgetInv

(***************************************************************************)
(* Main while it starts a service, and the threads of the services         *)
(***************************************************************************)

\* A signal that was given is still there for main to take.
SemOK(n) == signalled[n] /\ tstate[n] \in {INITIAL, RUNNING} => sem[n] = 1

\* The init functions return 0 whatever became of the thread.
ReturnsOK(c) == At(c, "inited") => Top(c).ret = "ok"

\* Main starts services after the mounts and before its closing loop.
OnMain(c) == stack[c] # <<>> => boot = "main" /\ Constructed /\ ~Done(c)

MainInv ==
  /\ ThreadInv /\ BootMounts
  /\ \A n \in Name : SemOK(n)
  /\ \A c \in Caller : ReturnsOK(c) /\ OnMain(c)
  /\ ctx \subseteq Created /\ task["dbus_broker"] = "none"

LEMMA InitFuncMain ==
  ASSUME OneCaller, MainInv, NEW c \in Caller, init_func(c),
         ThreadInv', BootMounts'
  PROVE  MainInv'
<1>1. /\ ContextInv /\ ThreadInv /\ OnMain(c)
      /\ sem \in [Name -> {0, 1}] /\ signalled \in [Name -> BOOLEAN]
      /\ task \in [Name -> {"none", "new", "routine", "ended"}]
      /\ \A n \in Name : SemOK(n)
      /\ ctx \subseteq Created /\ task["dbus_broker"] = "none"
      /\ "dbus_broker" \in Name
  BY ThreadTypes, BootAssumption DEF MainInv, ThreadInv
<1>2. stack[c] # <<>>
  BY <1>1 DEF init_func, CreateFailsEarly, AllocateContext, PthreadCreate,
     dbus_broker_init, dbus_broker_gives, Inside, At, ThreadInv, MakingOK
<1>3. OnMain(c)'
  <2>1. UNCHANGED <<boot, table, nreg, registry, cursor>>
    BY DEF init_func, CreateFailsEarly, AllocateContext, PthreadCreate,
       dbus_broker_init, dbus_broker_gives, InitFuncReturns, GiveReadySem, boot_vars, vars,
       registration, top
  <2>2. QED
    BY <1>1, <1>2, <2>1 DEF OnMain, Done, Constructed, Iterations
<1>4. CASE AllocateContext(c) \/ dbus_broker_gives(c)
  <2>1. /\ UNCHANGED <<stack, tstate, task>> /\ ctx' \subseteq Created
        /\ \/ UNCHANGED <<sem, signalled>>
           \/ /\ sem' = [sem EXCEPT !["dbus_broker"] = 1]
              /\ signalled' = [signalled EXCEPT !["dbus_broker"] = TRUE]
    BY <1>1, <1>4 DEF AllocateContext, dbus_broker_gives, GiveReadySem, vars, services
  <2>2. ReturnsOK(c)'
    BY <2>1 DEF MainInv, ReturnsOK, At, Top
  <2>3. \A n \in Name : SemOK(n)'
    BY <1>1, <2>1 DEF SemOK
  <2>4. QED
    BY <1>1, <1>3, <2>1, <2>2, <2>3 DEF MainInv, OneCaller
<1>5. CASE ~(AllocateContext(c) \/ dbus_broker_gives(c))
  <2>1. PICK created \in BOOLEAN : InitFuncReturns(c, "ok", created)
    BY <1>5 DEF init_func, CreateFailsEarly, PthreadCreate, dbus_broker_init
  <2>2. ReturnsOK(c)' /\ \A n \in Name : SemOK(n)'
    BY <1>1, <2>1, InitFuncEnters DEF ReturnsOK, SemOK
  <2>3. ctx' \subseteq Created
    BY <1>1, <1>5 DEF init_func, CreateFailsEarly, PthreadCreate, dbus_broker_init,
       boot_vars, ContextFreed
  <2>4. task'["dbus_broker"] = "none"
    <3>1. CASE PthreadCreate(c)
      <4>1. Top(c).name \in ctx
        BY <1>1, <3>1 DEF PthreadCreate, ContextInv, ContextHasOneOwner
      <4>2. Top(c).name # "dbus_broker"
        BY <1>1, <4>1 DEF Created, HostServices, BridgeServices, ObjectServices,
           SensorServices, NetworkServices, LogServices, InventoryServices
      <4>3. QED
        BY <1>1, <3>1, <4>2 DEF PthreadCreate
    <3>2. QED
      BY <1>1, <1>5, <3>1 DEF init_func, CreateFailsEarly, dbus_broker_init, boot_vars
  <2>5. QED
    BY <1>3, <2>2, <2>3, <2>4 DEF MainInv, OneCaller
<1>6. QED
  BY <1>4, <1>5

LEMMA ManagerMain ==
  ASSUME OneCaller, MainInv, NEW c \in Caller, ManagerStep(c),
         ThreadInv', BootMounts'
  PROVE  MainInv'
<1>1. /\ ProgressInv /\ CallerStep(c) /\ ~InitFunc(c) /\ boot = "main"
      /\ UNCHANGED <<boot, ctx, task>>
  BY DEF ManagerStep, MainInv, ThreadInv, ContextInv, InitFunc, InitFuncReturns, boot_vars
<1>2. ReturnsOK(c)'
  BY <1>1, OnlyInitFuncInits DEF ReturnsOK
<1>3. OnMain(c)'
  <2>1. CASE BeginCall(c)
    <3>1. AtTop(c) /\ UNCHANGED <<table, nreg, registry, cursor>>
      BY <2>1 DEF BeginCall, registration, top
    <3>2. Constructed /\ cursor[c] <= Iterations(c)
      BY <3>1 DEF AtTop
    <3>3. ~Done(c)
      <4>1. cursor[c] \in Nat /\ Iterations(c) \in Nat
        BY <1>1 DEF ProgressInv, ShapeInv, SignalInv, TypeOK, Iterations
      <4>2. QED
        BY <3>2, <4>1 DEF Done
    <3>4. QED
      BY <1>1, <3>1, <3>2, <3>3 DEF OnMain, Done, Constructed, Iterations
  <2>2. CASE SkipThread(c) \/ EndCall(c)
    BY <2>2 DEF SkipThread, EndCall, AtTop, OnMain
  <2>3. CASE StartThread(c)
    <3>1. stack[c] # <<>> /\ UNCHANGED <<table, nreg, registry, cursor>>
      BY <2>3 DEF StartThread, Enter, Lookup, CallDep, DepsDone, CheckDep, WaitDep,
         InitFunc, InitFuncReturns, InitReturned, AwaitSignal, PopAndReturn, At,
         registration, top
    <3>2. QED
      BY <1>1, <3>1 DEF MainInv, OnMain, Done, Constructed, Iterations
  <2>4. QED
    BY <1>1, <2>1, <2>2, <2>3 DEF CallerStep
<1>4. \A n \in Name : SemOK(n)'
  <2>1. /\ sem \in [Name -> {0, 1}] /\ tstate \in [Name -> ThreadState]
        /\ \A n \in Name : SemOK(n)
    BY ThreadTypes DEF MainInv, ThreadInv
  <2>2. CASE InitReturned(c)
    <3>1. /\ stack[c] # <<>> /\ Top(c).pc = "inited" /\ UNCHANGED <<sem, signalled>>
          /\ tstate' = [tstate EXCEPT ![Top(c).name] = StateAfterInit(Top(c).ret)]
      BY <2>2 DEF InitReturned, At, services
    <3>2. tstate[Top(c).name] = INITIAL
      BY <1>1, <3>1, TopProgress DEF ProgressOK
    <3>3. QED
      BY <2>1, <3>1, <3>2 DEF SemOK
  <2>3. CASE AwaitSignal(c)
    <3>1. /\ UNCHANGED signalled
          /\ \E s \in {READY, FAILED} : tstate' = [tstate EXCEPT ![Top(c).name] = s]
          /\ sem' = sem \/ sem' = [sem EXCEPT ![Top(c).name] = 0]
      BY <2>3 DEF AwaitSignal
    <3>2. QED
      BY <2>1, <3>1 DEF SemOK, INITIAL, RUNNING, READY, FAILED
  <2>4. CASE ~InitReturned(c) /\ ~AwaitSignal(c)
    <3>1. UNCHANGED <<sem, signalled, tstate>>
      BY <1>1, <2>4, WaitDepNever DEF CallerStep, BeginCall, SkipThread, EndCall,
         StartThread, Enter, Lookup, CallDep, DepsDone, CheckDep, PopAndReturn, services
    <3>2. QED
      BY <2>1, <3>1 DEF SemOK
  <2>5. QED
    BY <2>2, <2>3, <2>4
<1>5. QED
  BY <1>1, <1>2, <1>3, <1>4 DEF MainInv, OneCaller

LEMMA MainInvNext ==
  ASSUME OneCaller, MainInv, [StartupNext]_startup_vars
  PROVE  MainInv'
<1>1. [BootNext]_all_vars /\ BootMounts' /\ ThreadInv'
  BY StartupSimulates, ThreadInvNext DEF MainInv
<1>2. ASSUME NEW c \in Caller, Main(c) PROVE MainInv'
  BY <1>1, <1>2, InitFuncMain, ManagerMain DEF Main, MainThread
<1>3. ASSUME UNCHANGED <<stack, task, sem, signalled, tstate, cursor, table>>,
             ctx' \subseteq ctx, boot = "main" => boot' = boot,
             Constructed => UNCHANGED <<nreg, registry>>
      PROVE  MainInv'
  BY <1>1, <1>3 DEF MainInv, SemOK, ReturnsOK, OnMain, Done, Constructed, Iterations, At, Top
<1>4. ASSUME NEW n \in Name, Service(n) PROVE MainInv'
  <2>1. CASE Connects(n)
    BY <1>3, <2>1 DEF Connects, all_vars, vars, boot_vars, services, registration, top
  <2>2. CASE ~Connects(n)
    <3>1. task_trampoline(n) \/ ServiceIsReady(n) \/ RoutineEnds(n)
      BY <1>4, <2>2 DEF Service, Trampoline, Signals, Returns
    <3>2. UNCHANGED <<stack, tstate, boot, cursor, table, nreg, registry>>
      BY <3>1 DEF task_trampoline, ServiceIsReady, RoutineEnds, OnExit, EndSilently,
         GiveReadySem, AfterException, vars, boot_vars, registration, top
    <3>3. /\ ctx' \subseteq ctx /\ task[n] # "none"
          /\ task' = task \/ \E pc : task' = [task EXCEPT ![n] = pc]
      BY <3>1 DEF task_trampoline, ServiceIsReady, RoutineEnds, ContextFreed, boot_vars
    <3>4. \/ UNCHANGED <<sem, signalled>>
          \/ /\ sem' = [sem EXCEPT ![n] = 1]
             /\ signalled' = [signalled EXCEPT ![n] = TRUE]
      BY <3>1 DEF task_trampoline, ServiceIsReady, RoutineEnds, OnExit, EndSilently,
         GiveReadySem, vars, services
    <3>5. \A m \in Name : SemOK(m)'
      BY <3>2, <3>4, ThreadTypes DEF MainInv, ThreadInv, SemOK
    <3>6. task'["dbus_broker"] = "none"
      BY <3>3, ThreadTypes, BootAssumption DEF MainInv, ThreadInv
    <3>7. QED
      BY <1>1, <3>2, <3>3, <3>5, <3>6 DEF MainInv, ReturnsOK, OnMain, Done, Constructed,
         Iterations, At, Top
  <2>3. QED
    BY <2>1, <2>2
<1>5. CASE Constructors
  <2>1. Constructed => ~register_thread_descriptor
    <3>1. nreg \in Nat /\ Len(table) \in Nat
      BY TablesAssumption, LenProperties DEF MainInv, ThreadInv, ContextInv, ProgressInv,
         ShapeInv, SignalInv, TypeOK
    <3>2. QED
      BY <3>1 DEF Constructed, register_thread_descriptor
  <2>2. QED
    BY <1>3, <1>5, <2>1 DEF Constructors, Register, register_thread_descriptor, fs_mount,
       FileSystem, boot_vars, vars, services, registration, top
<1>6. CASE BrokerStep \/ SetsUpNetwork \/ Tick \/ AllIdle \/ UNCHANGED startup_vars
  BY <1>3, <1>6 DEF BrokerStep, SetsUpNetwork, net_stack_cfg_do_once, Tick, AllIdle, Stays,
     startup_vars, all_vars, boot_vars, vars, services, registration, top
<1>7. QED
  BY <1>2, <1>4, <1>5, <1>6 DEF StartupNext

LEMMA MainInvInit == StartupInit => MainInv
<1> SUFFICES ASSUME StartupInit PROVE MainInv
  OBVIOUS
<1>1. ThreadInv /\ BootMounts
  BY ThreadInvInit DEF StartupInit, BootInit, BootMounts, FileSystem
<1>2. \A c \in Caller : ReturnsOK(c) /\ OnMain(c)
  BY DEF StartupInit, BootInit, Init, ReturnsOK, OnMain, At
<1>3. \A n \in Name : SemOK(n)
  BY DEF StartupInit, BootInit, Init, SemOK
<1>4. ctx \subseteq Created /\ task["dbus_broker"] = "none"
  BY BootAssumption DEF StartupInit, BootInit
<1>5. QED
  BY <1>1, <1>2, <1>3, <1>4 DEF MainInv

(***************************************************************************)
(* The network set-up against the manager's timeout                        *)
(***************************************************************************)

Network == "net_stack_cfg"

\* While main waits for the network, its patience and the time left to the
\* set-up run down together from the moment the set-up begins.
NetWaits(c) ==
  stack[c] # <<>> /\ Top(c).name = Network /\ ~signalled[Network] =>
    /\ Top(c).pc = "inited" /\ task[Network] = "routine" /\ net = "none" =>
         net_left = NET_TIMEOUT
    /\ Top(c).pc = "signal" =>
         /\ task[Network] = "new" => patience = READY_TIMEOUT
         /\ task[Network] = "routine" /\ net = "none" =>
              NET_TIMEOUT + patience = READY_TIMEOUT + net_left
         /\ net # "none" => NET_TIMEOUT + patience >= READY_TIMEOUT

NetOK ==
  /\ task[Network] # "ended"
  /\ net # "none" => task[Network] = "routine" /\ net_left = 0
  /\ net_left \in 0..NET_TIMEOUT

NetInv == NetOK /\ \A c \in Caller : NetWaits(c)

\* What a step outside main does to the set-up.
LEMMA NetMoves ==
  ASSUME MainInv, [StartupNext]_startup_vars, \A c \in Caller : ~Main(c)
  PROVE  \/ UNCHANGED <<net, net_left, patience>> /\ task'[Network] = task[Network]
         \/ /\ task[Network] = "new" /\ task'[Network] = "routine"
            /\ net_left' = NET_TIMEOUT /\ UNCHANGED <<net, patience>>
         \/ /\ task[Network] = "routine" /\ task'[Network] = "routine"
            /\ net = "none" /\ net' # "none" /\ net_left' = 0 /\ UNCHANGED patience
         \/ Tick /\ UNCHANGED <<net, task, signalled>>
<1>1. /\ task \in [Name -> {"none", "new", "routine", "ended"}]
      /\ Network \in Name /\ Network \notin BusClient
  BY ThreadTypes, BrokerIsNoClient DEF MainInv, ThreadInv, Network
<1>2. ASSUME NEW n \in Name, Service(n)
      PROVE  \/ UNCHANGED <<net, net_left, patience>> /\ task'[Network] = task[Network]
             \/ /\ task[Network] = "new" /\ task'[Network] = "routine"
                /\ net_left' = NET_TIMEOUT /\ UNCHANGED <<net, patience>>
  <2>1. CASE Trampoline(n)
    BY <1>1, <2>1 DEF Trampoline, task_trampoline, Network
  <2>2. CASE Returns(n)
    BY <1>1, <2>2 DEF Returns, RoutineEnds, clocks
  <2>3. CASE Connects(n) \/ Signals(n)
    BY <2>3 DEF Connects, Signals, ServiceIsReady, clocks, all_vars, boot_vars
  <2>4. QED
    BY <1>2, <2>1, <2>2, <2>3 DEF Service
<1>3. CASE SetsUpNetwork
  BY <1>3 DEF SetsUpNetwork, net_stack_cfg_do_once, Network
<1>4. CASE Tick
  BY <1>4 DEF Tick, all_vars, boot_vars, vars, services
<1>5. CASE BrokerStep \/ Constructors \/ AllIdle \/ UNCHANGED startup_vars
  BY <1>5 DEF BrokerStep, Constructors, Register, fs_mount, AllIdle, Stays, startup_vars,
     all_vars, boot_vars, clocks
<1>6. QED
  BY <1>2, <1>3, <1>4, <1>5 DEF StartupNext

\* While main waits for the network the clocks tick together or not at all.
LEMMA NetTicks ==
  ASSUME MainInv, NetInv, Tick, NEW c \in Caller, stack[c] # <<>>, Top(c).name = Network,
         ~signalled[Network], patience \in Nat
  PROVE  /\ Top(c).pc # "inited" /\ task[Network] # "new"
         /\ task[Network] = "routine" =>
              /\ net = "none" /\ net_left' = net_left - 1 /\ patience' = patience - 1
<1>1. Network \in Name /\ net_left \in Nat
  BY BrokerIsNoClient, DelaysAreNumbers DEF NetInv, NetOK, Network
<1>2. Waits(c) /\ patience > 0
  BY DEF Tick, MainIsIdle, MainInv, OnMain, FileSystem
<1>3. ~Busy(Network)
  BY <1>1 DEF Tick
<1>4. task[Network] = "routine" => net = "none" /\ net_left # 0
  BY <1>3 DEF Busy, Network
<1>5. QED
  BY <1>1, <1>2, <1>3, <1>4 DEF Tick, Less, Waits, At, Busy

LEMMA NetInvNext ==
  ASSUME OneCaller, MainInv, MainInv', NetInv, patience \in Nat, [StartupNext]_startup_vars
  PROVE  NetInv'
<1>1. /\ task \in [Name -> {"none", "new", "routine", "ended"}] /\ Network \in Name
      /\ signalled \in [Name -> BOOLEAN] /\ ContextInv /\ ThreadInv
      /\ net_left \in 0..NET_TIMEOUT /\ NET_TIMEOUT \in Nat /\ READY_TIMEOUT \in Nat
  BY ThreadTypes, BrokerIsNoClient, DelaysAreNumbers
     DEF MainInv, ThreadInv, NetInv, NetOK, Network
<1>2. ASSUME NEW c \in Caller, Main(c) PROVE NetInv'
  <2>1. UNCHANGED <<net, net_left>>
    BY <1>2 DEF Main, MainThread, ManagerStep, init_func, CreateFailsEarly,
       AllocateContext, PthreadCreate, dbus_broker_init, dbus_broker_gives, boot_vars
  <2>2. task' = task \/ (/\ At(c, "init") /\ task[Top(c).name] = "none"
                         /\ Top(c).name \in Name
                         /\ task' = [task EXCEPT ![Top(c).name] = "new"])
    BY <1>1, <1>2, InsideMeansNew DEF Main, MainThread, ManagerStep, init_func,
       CreateFailsEarly, AllocateContext, PthreadCreate, dbus_broker_init,
       dbus_broker_gives, boot_vars, Inside
  <2>3. NetOK'
    BY <1>1, <2>1, <2>2 DEF NetInv, NetOK
  <2>4. CASE At(c, "signal")'
    <3>1. /\ patience' = READY_TIMEOUT /\ Top(c)'.name = Top(c).name
          /\ InitReturned(c) /\ UNCHANGED <<task, services>>
      BY <1>1, <1>2, <2>4, MainWaits
    <3>2. stack[c] # <<>> /\ Top(c).pc = "inited" /\ signalled' = signalled
      BY <3>1 DEF InitReturned, At, services
    <3>3. NetWaits(c) /\ (net # "none" => net_left = 0)
      BY DEF NetInv, NetOK
    <3>4. NetWaits(c)'
      BY <1>1, <2>1, <2>4, <3>1, <3>2, <3>3 DEF NetWaits, At
    <3>5. QED
      BY <2>3, <3>4 DEF NetInv, OneCaller
  <2>5. CASE At(c, "inited")' /\ Top(c)'.name = Network /\ task'[Network] = "routine"
    <3>1. MainThread(c) /\ ProgressInv
      BY <1>1, <1>2 DEF Main, ContextInv
    <3>2. ~ManagerStep(c)
      BY <2>5, <3>1, OnlyInitFuncInits DEF ManagerStep, InitFunc, InitFuncReturns
    <3>3. CASE AllocateContext(c) \/ dbus_broker_gives(c)
      <4>1. UNCHANGED <<stack, task>> /\ (signalled[Network] => signalled'[Network])
        BY <1>1, <3>3 DEF AllocateContext, dbus_broker_gives, GiveReadySem, vars, services
      <4>2. NetWaits(c)'
        BY <1>1, <2>1, <2>5, <4>1 DEF NetInv, NetWaits, At, Top
      <4>3. QED
        BY <2>3, <4>2 DEF NetInv, OneCaller
    <3>4. CASE CreateFailsEarly(c) \/ PthreadCreate(c) \/ dbus_broker_init(c)
      <4>1. PICK created \in BOOLEAN : InitFuncReturns(c, "ok", created)
        BY <3>4 DEF CreateFailsEarly, PthreadCreate, dbus_broker_init
      <4>2. Top(c).name = Network /\ At(c, "init")
        BY <1>1, <2>5, <4>1, InitFuncEnters DEF InitFuncReturns
      <4>3. task'[Network] # "routine"
        BY <1>1, <2>2, <4>2, InsideMeansNew
      <4>4. QED
        BY <2>5, <4>3
    <3>5. QED
      BY <3>1, <3>2, <3>3, <3>4 DEF MainThread, init_func
  <2>6. CASE ~At(c, "signal")' /\ ~(At(c, "inited")' /\ Top(c)'.name = Network
                                      /\ task'[Network] = "routine")
    <3>1. NetWaits(c)'
      BY <2>6 DEF NetWaits, At
    <3>2. QED
      BY <2>3, <3>1 DEF NetInv, OneCaller
  <2>7. QED
    BY <2>4, <2>5, <2>6
<1>3. CASE \A c \in Caller : ~Main(c)
  <2>1. UNCHANGED stack /\ (signalled[Network] => signalled'[Network])
    <3>1. UNCHANGED stack
      BY <1>3, OthersLeavePatience
    <3>2. signalled[Network] => signalled'[Network]
      <4>1. ASSUME NEW n \in Name, Service(n)
            PROVE  signalled' = signalled \/ signalled' = [signalled EXCEPT ![n] = TRUE]
        BY <4>1 DEF Service, Trampoline, Connects, Signals, Returns, task_trampoline,
           ServiceIsReady, GiveReadySem, RoutineEnds, OnExit, EndSilently, all_vars, vars,
           services
      <4>2. CASE BrokerStep \/ Constructors \/ SetsUpNetwork \/ AllIdle \/ Tick
                 \/ UNCHANGED startup_vars
        BY <4>2 DEF BrokerStep, Constructors, SetsUpNetwork, AllIdle, Register, Tick,
           register_thread_descriptor, fs_mount, net_stack_cfg_do_once, Stays,
           startup_vars, all_vars, vars, services
      <4>3. QED
        BY <1>1, <1>3, <4>1, <4>2 DEF StartupNext
    <3>3. QED
      BY <3>1, <3>2
  <2>2. ASSUME NEW c \in Caller PROVE NetWaits(c) /\ stack'[c] = stack[c] /\ Top(c)' = Top(c)
    BY <2>1 DEF NetInv, Top
  <2>3. CASE Tick /\ UNCHANGED <<net, task, signalled>>
    <3>1. net_left' \in 0..NET_TIMEOUT /\ net_left' = IF net_left > 0 THEN net_left - 1 ELSE 0
      BY <1>1, <2>3 DEF Tick, Less
    <3>2. NetOK'
      BY <1>1, <2>3, <3>1 DEF NetInv, NetOK
    <3>3. ASSUME NEW c \in Caller PROVE NetWaits(c)'
      <4> SUFFICES ASSUME stack[c] # <<>>, Top(c).name = Network, ~signalled[Network]
                   PROVE  NetWaits(c)'
        BY <2>2, <2>3 DEF NetWaits
      <4>1. /\ Top(c).pc # "inited" /\ task[Network] # "new"
            /\ task[Network] = "routine" =>
                 /\ net = "none" /\ net_left' = net_left - 1 /\ patience' = patience - 1
        BY <2>3, NetTicks
      <4>2. net # "none" => task[Network] = "routine"
        BY DEF NetInv, NetOK
      <4>3. QED
        BY <1>1, <2>2, <2>3, <4>1, <4>2 DEF NetWaits
    <3>4. QED
      BY <3>2, <3>3 DEF NetInv
  <2>4. CASE UNCHANGED <<net, net_left, patience>> /\ task'[Network] = task[Network]
    BY <2>1, <2>2, <2>4 DEF NetInv, NetOK, NetWaits
  <2>5. CASE /\ task[Network] = "new" /\ task'[Network] = "routine"
             /\ net_left' = NET_TIMEOUT /\ UNCHANGED <<net, patience>>
    <3>1. net = "none"
      BY <2>5 DEF NetInv, NetOK
    <3>2. QED
      BY <1>1, <2>1, <2>2, <2>5, <3>1 DEF NetInv, NetOK, NetWaits
  <2>6. CASE /\ task[Network] = "routine" /\ task'[Network] = "routine"
             /\ net = "none" /\ net' # "none" /\ net_left' = 0 /\ UNCHANGED patience
    BY <1>1, <2>1, <2>2, <2>6 DEF NetInv, NetOK, NetWaits
  <2>7. QED
    BY <1>3, <2>3, <2>4, <2>5, <2>6, NetMoves
<1>4. QED
  BY <1>2, <1>3

LEMMA NetInvInit == StartupInit => NetInv
BY DelaysAreNumbers, BrokerIsNoClient
   DEF StartupInit, BootInit, Init, NetInv, NetOK, NetWaits, Network

(***************************************************************************)
(* Why a service is FAILED                                                 *)
(***************************************************************************)

\* A client's routine returns only without a bus.
EndedOK(n) == task[n] = "ended" => ret[n] \notin {"none", "ok"}

\* FailureHasCause, and the cause stays.
FailedOK(n) ==
  tstate[n] = FAILED =>
    \/ task[n] = "none"
    \/ n \in BusClient /\ BrokerGone
    \/ /\ n = Network /\ task[n] = "routine"
       /\ net_left <= NET_TIMEOUT - READY_TIMEOUT

CauseInv ==
  /\ PatienceInv /\ MainInv /\ BudgetInv /\ NetInv
  /\ \A n \in BusClient : EndedOK(n)
  /\ \A n \in Name : FailedOK(n)

\* When main gives a service up there is a cause.
LEMMA GivingUpHasCause ==
  ASSUME ClientsAreInTime, CauseInv, NEW c \in Caller, Main(c), AwaitSignal(c),
         NEW n \in Name, n = Top(c).name, tstate'[n] = FAILED
  PROVE  \/ task[n] = "none"
         \/ n \in BusClient /\ BrokerGone
         \/ /\ n = Network /\ task[n] = "routine"
            /\ net_left <= NET_TIMEOUT - READY_TIMEOUT
<1>1. /\ At(c, "signal") /\ stack[c] # <<>> /\ Top(c).pc = "signal"
      /\ tstate[n] = RUNNING /\ tstate \in [Name -> ThreadState]
      /\ starting \in [Name -> Nat] /\ sem \in [Name -> {0, 1}]
      /\ task \in [Name -> {"none", "new", "routine", "ended"}]
  <2>1. At(c, "signal") /\ stack[c] # <<>> /\ Top(c).pc = "signal"
    BY DEF AwaitSignal, At
  <2>2. tstate[n] = RUNNING
    BY <2>1, TopProgress DEF ProgressOK, CauseInv, MainInv, ThreadInv, ContextInv
  <2>3. QED
    BY <2>1, <2>2, ThreadTypes DEF CauseInv, MainInv, ThreadInv
<1>2. sem[n] = 0
  BY <1>1 DEF AwaitSignal, MayTimeOut, READY, FAILED
<1>3. ~signalled[n] /\ patience = 0
  BY <1>1, <1>2 DEF CauseInv, MainInv, SemOK, Main, Waits
<1>4. CASE n \in BusClient
  <2>1. /\ n # "dbus_broker" /\ PatienceOK(n) /\ PaceOK(n) /\ Remaining(n) \in Nat
        /\ EndedOK(n) /\ BudgetOK(n)
    BY <1>4, BrokerIsNoClient, RemainingIsNat DEF CauseInv, PatienceInv, BusInv, BudgetInv
  <2>2. ~Alive(n)
    BY <1>1, <1>3, <2>1 DEF PatienceOK
  <2>3. task[n] \in {"none", "ended"}
    BY <1>1, <1>3, <2>2 DEF Alive
  <2>4. QED
    BY <1>4, <2>1, <2>3 DEF EndedOK, BudgetOK
<1>5. CASE n = Network
  <2>1. /\ NetWaits(c) /\ NetOK /\ READY_TIMEOUT \in Nat \ {0} /\ NET_TIMEOUT \in Nat
    BY DelaysAreNumbers DEF CauseInv, NetInv, ClientsAreInTime, Budget
  <2>2. task[n] \in {"none", "routine"}
    BY <1>1, <1>3, <1>5, <2>1 DEF NetWaits, NetOK
  <2>3. task[n] = "routine" => net_left <= NET_TIMEOUT - READY_TIMEOUT
    BY <1>1, <1>3, <1>5, <2>1 DEF NetWaits, NetOK
  <2>4. QED
    BY <1>5, <2>2, <2>3
<1>6. CASE n = "dbus_broker"
  BY <1>6 DEF CauseInv, MainInv
<1>7. QED
  BY <1>4, <1>5, <1>6 DEF BusClient, Network

LEMMA MainHasCause ==
  ASSUME OneCaller, ClientsAreInTime, CauseInv, NEW c \in Caller, Main(c),
         NEW n \in Name
  PROVE  FailedOK(n)'
<1>1. /\ tstate \in [Name -> ThreadState] /\ ContextInv /\ ThreadInv /\ ProgressInv
      /\ task \in [Name -> {"none", "new", "routine", "ended"}]
      /\ FailedOK(n) /\ MainThread(c)
  BY ThreadTypes DEF CauseInv, MainInv, ThreadInv, ContextInv, Main
<1>2. UNCHANGED <<bpc, net_left>>
  BY DEF Main, bus_state, broker_state
<1>3. \/ UNCHANGED task
      \/ /\ At(c, "init") /\ Top(c).name \in Name
         /\ task' = [task EXCEPT ![Top(c).name] = "new"]
  BY <1>1, InsideMeansNew DEF MainThread, ManagerStep, init_func,
     CreateFailsEarly, AllocateContext, PthreadCreate, dbus_broker_init,
     dbus_broker_gives, boot_vars, Inside
<1>4. CASE UNCHANGED tstate
  <2>1. CASE UNCHANGED task
    BY <1>1, <1>2, <1>4, <2>1 DEF FailedOK, BrokerGone
  <2>2. CASE /\ At(c, "init") /\ Top(c).name \in Name
             /\ task' = [task EXCEPT ![Top(c).name] = "new"]
    <3>1. tstate[Top(c).name] = INITIAL
      BY <1>1, <2>2, TopProgress DEF At, ProgressOK
    <3>2. CASE n = Top(c).name
      BY <1>4, <3>1, <3>2 DEF FailedOK, INITIAL, FAILED
    <3>3. CASE n # Top(c).name
      BY <1>1, <1>2, <1>4, <2>2, <3>3 DEF FailedOK, BrokerGone
    <3>4. QED
      BY <3>2, <3>3
  <2>3. QED
    BY <1>3, <2>1, <2>2
<1>5. CASE ~UNCHANGED tstate
  <2>1. (InitReturned(c) \/ AwaitSignal(c)) /\ UNCHANGED task
    BY <1>1, <1>5, WaitDepNever DEF MainThread, ManagerStep, CallerStep, BeginCall,
       SkipThread, EndCall, StartThread, Enter, Lookup, CallDep, DepsDone, CheckDep,
       InitFunc, InitFuncReturns, PopAndReturn, init_func, CreateFailsEarly,
       AllocateContext, PthreadCreate, dbus_broker_init, dbus_broker_gives,
       GiveReadySem, vars, boot_vars, At, Inside
  <2>2. CASE InitReturned(c)
    <3>1. /\ tstate' = [tstate EXCEPT ![Top(c).name] = RUNNING]
          /\ UNCHANGED task
      BY <2>1, <2>2 DEF InitReturned, CauseInv, MainInv, ReturnsOK, StateAfterInit
    <3>2. tstate'[n] = FAILED => tstate[n] = FAILED
      BY <1>1, <3>1 DEF RUNNING, FAILED
    <3>3. QED
      BY <1>1, <1>2, <3>1, <3>2 DEF FailedOK, BrokerGone
  <2>3. CASE AwaitSignal(c)
    <3>1. CASE n = Top(c).name
      BY <1>2, <2>1, <2>3, <3>1, GivingUpHasCause DEF FailedOK, BrokerGone
    <3>2. CASE n # Top(c).name
      <4>1. tstate'[n] = tstate[n]
        BY <1>1, <2>3, <3>2 DEF AwaitSignal
      <4>2. QED
        BY <1>1, <1>2, <2>1, <4>1 DEF FailedOK, BrokerGone
    <3>3. QED
      BY <3>1, <3>2
  <2>4. QED
    BY <2>1, <2>2, <2>3
<1>6. QED
  BY <1>4, <1>5

LEMMA OthersHaveCause ==
  ASSUME CauseInv, [StartupNext]_startup_vars, \A c \in Caller : ~Main(c),
         NEW n \in Name
  PROVE  FailedOK(n)'
<1>1. /\ task \in [Name -> {"none", "new", "routine", "ended"}]
      /\ Network \in Name \ BusClient /\ FailedOK(n) /\ B!TypeOK
      /\ net_left \in Nat
  BY ThreadTypes, BrokerIsNoClient, DelaysAreNumbers
     DEF CauseInv, MainInv, ThreadInv, Network, PatienceInv, BusInv, NetInv, NetOK
<1>2. UNCHANGED tstate
  <2>1. ASSUME NEW m \in Name, Service(m) PROVE UNCHANGED tstate
    BY <2>1 DEF Service, Trampoline, Connects, Signals, Returns, task_trampoline,
       ServiceIsReady, GiveReadySem, RoutineEnds, OnExit, EndSilently, all_vars, vars
  <2>2. CASE BrokerStep \/ Constructors \/ SetsUpNetwork \/ AllIdle \/ Tick
             \/ UNCHANGED startup_vars
    BY <2>2 DEF BrokerStep, Constructors, SetsUpNetwork, AllIdle, Register, Tick,
       register_thread_descriptor, fs_mount, net_stack_cfg_do_once, Stays,
       startup_vars, all_vars, vars
  <2>3. QED
    BY <2>1, <2>2 DEF StartupNext
<1>3. BrokerGone => BrokerGone'
  <2>1. CASE BrokerStep
    BY <1>1, <2>1, BrokerMoves DEF CauseInv, BudgetInv
  <2>2. CASE UNCHANGED bus_state \/ Tick \/ \E c \in BusClient : Connects(c)
    <3>1. UNCHANGED bpc
      BY <1>1, <2>2, OwnStep DEF bus_state, broker_state, Tick
    <3>2. QED
      BY <3>1 DEF BrokerGone
  <2>3. QED
    BY <2>1, <2>2, StepsOfTheBus
<1>4. task[n] = "none" => task'[n] = "none"
  <2>1. ASSUME NEW m \in Name, Service(m)
        PROVE  \/ task' = task
               \/ task[m] # "none" /\ \E pc : task' = [task EXCEPT ![m] = pc]
    BY <2>1 DEF Service, Trampoline, Connects, Signals, Returns, task_trampoline,
       ServiceIsReady, RoutineEnds, all_vars, boot_vars
  <2>2. CASE BrokerStep \/ Constructors \/ SetsUpNetwork \/ AllIdle \/ Tick
             \/ UNCHANGED startup_vars
    BY <2>2 DEF BrokerStep, Constructors, SetsUpNetwork, AllIdle, Register, Tick,
       fs_mount, net_stack_cfg_do_once, Stays, startup_vars, all_vars, boot_vars
  <2>3. QED
    BY <1>1, <2>1, <2>2 DEF StartupNext
<1>5. task[Network] = "routine" => task'[Network] = "routine" /\ net_left' <= net_left
  <2>1. CASE Tick
    BY <1>1, <2>1 DEF Tick, Less, all_vars, boot_vars
  <2>2. QED
    BY <1>1, <2>1, NetMoves DEF CauseInv
<1>6. net_left' \in Int
  BY <1>1, <1>5, NetMoves, DelaysAreNumbers DEF CauseInv, Tick, Less
<1>7. QED
  BY <1>1, <1>2, <1>3, <1>4, <1>5, <1>6, DelaysAreNumbers DEF FailedOK

LEMMA EndedNext ==
  ASSUME BusInv, MainInv, [StartupNext]_startup_vars, NEW n \in BusClient, EndedOK(n)
  PROVE  EndedOK(n)'
<1>1. /\ ret[n] # "none" => ret'[n] = ret[n]
      /\ n \in Name /\ task \in [Name -> {"none", "new", "routine", "ended"}]
  BY LinksNext, BrokerIsNoClient, ThreadTypes DEF BusInv, MainInv, ThreadInv
<1>2. ASSUME task'[n] = "ended", task[n] # "ended" PROVE Returns(n)
  <2>1. ASSUME NEW m \in Name, Service(m), ~Returns(m) PROVE FALSE
    BY <1>1, <1>2, <2>1 DEF Service, Trampoline, Connects, Signals, task_trampoline,
       ServiceIsReady, all_vars, boot_vars
  <2>2. ASSUME NEW c \in Caller, Main(c) PROVE FALSE
    BY <1>1, <1>2, <2>2 DEF Main, MainThread, ManagerStep, init_func,
       CreateFailsEarly, AllocateContext, PthreadCreate, dbus_broker_init,
       dbus_broker_gives, boot_vars
  <2>3. ASSUME BrokerStep \/ Constructors \/ SetsUpNetwork \/ AllIdle \/ Tick
               \/ UNCHANGED startup_vars
        PROVE  FALSE
    BY <1>2, <2>3 DEF BrokerStep, Constructors, SetsUpNetwork, AllIdle, Register, Tick,
       fs_mount, net_stack_cfg_do_once, Stays, startup_vars, all_vars, boot_vars
  <2>4. PICK m \in Name : Returns(m)
    BY <2>1, <2>2, <2>3 DEF StartupNext
  <2>5. m = n
    BY <1>1, <1>2, <2>4 DEF Returns, RoutineEnds
  <2>6. QED
    BY <2>4, <2>5
<1>3. QED
  BY <1>1, <1>2 DEF EndedOK, Returns, bus_state, client_state

LEMMA CauseInvNext ==
  ASSUME OneCaller, ClientsAreInTime, BrokerIsInTime, ClientsAreSound,
         CauseInv, [StartupNext]_startup_vars
  PROVE  CauseInv'
<1>1. PatienceInv' /\ BusInv /\ patience \in Nat
  BY PatienceInvNext DEF CauseInv, PatienceInv
<1>2. MainInv' /\ BudgetInv'
  BY <1>1, MainInvNext, BudgetInvNext DEF CauseInv
<1>3. NetInv'
  BY <1>1, <1>2, NetInvNext DEF CauseInv
<1>4. \A n \in BusClient : EndedOK(n)'
  BY <1>1, EndedNext DEF CauseInv
<1>5. \A n \in Name : FailedOK(n)'
  BY MainHasCause, OthersHaveCause
<1>6. QED
  BY <1>1, <1>2, <1>3, <1>4, <1>5 DEF CauseInv

LEMMA CauseInvInit == StartupInit => CauseInv
<1> SUFFICES ASSUME StartupInit PROVE CauseInv
  OBVIOUS
<1>1. \A n \in BusClient : EndedOK(n)
  BY BrokerIsNoClient DEF StartupInit, BootInit, EndedOK
<1>2. \A n \in Name : FailedOK(n)
  BY DEF StartupInit, BootInit, Init, FailedOK, INITIAL, FAILED
<1>3. QED
  BY <1>1, <1>2, PatienceInvInit, MainInvInit, BudgetInvInit, NetInvInit DEF CauseInv

\* As long as the broker lives, every client whose thread could be created comes
\* up: for every number of services, every dependency graph and every moment at
\* which main comes to start them, the delays of the deployment fit into the
\* budgets of connect_to_dbroker and those into the manager's timeout; the
\* network set-up is given up only when it outlasts that timeout.
THEOREM OnlyTheDeadFail ==
  OneCaller /\ ClientsAreInTime /\ BrokerIsInTime /\ ClientsAreSound
    => (StartupSpec => []FailureHasCause)
<1> SUFFICES ASSUME OneCaller, ClientsAreInTime, BrokerIsInTime, ClientsAreSound
             PROVE  StartupSpec => []FailureHasCause
  OBVIOUS
<1>1. CauseInv /\ [StartupNext]_startup_vars => CauseInv'
  BY CauseInvNext
<1>2. CauseInv => FailureHasCause
  BY DEF CauseInv, FailedOK, FailureHasCause, Network
<1>3. QED
  BY <1>1, <1>2, CauseInvInit, PTL DEF StartupSpec

(***************************************************************************)
(* The composition implements its parts                                    *)
(***************************************************************************)

\* A semaphore once given stays on record, and only main gives the broker's.
LEMMA SignalsStay ==
  ASSUME TypeOK, [StartupNext]_startup_vars
  PROVE  \E n \in Name : signalled' \in {signalled, [signalled EXCEPT ![n] = TRUE]}
<1>1. ASSUME NEW n \in Name, Service(n)
      PROVE  signalled' \in {signalled, [signalled EXCEPT ![n] = TRUE]}
  BY <1>1 DEF Service, Trampoline, Connects, Signals, Returns, task_trampoline,
     ServiceIsReady, GiveReadySem, RoutineEnds, OnExit, EndSilently, all_vars, vars,
     services
<1>2. ASSUME NEW c \in Caller, Main(c)
      PROVE  signalled' \in {signalled, [signalled EXCEPT !["dbus_broker"] = TRUE]}
  BY <1>2 DEF Main, MainThread, ManagerStep, CallerStep, BeginCall, SkipThread, EndCall,
     StartThread, Enter, Lookup, CallDep, DepsDone, CheckDep, WaitDep, InitFunc,
     InitFuncReturns, InitReturned, AwaitSignal, PopAndReturn, init_func,
     CreateFailsEarly, AllocateContext, PthreadCreate, dbus_broker_init,
     dbus_broker_gives, GiveReadySem, vars, services
<1>3. CASE BrokerStep \/ Constructors \/ SetsUpNetwork \/ AllIdle \/ Tick
           \/ UNCHANGED startup_vars
  <2>1. signalled' = signalled
    BY <1>3 DEF BrokerStep, Constructors, SetsUpNetwork, AllIdle, Register, Tick,
       register_thread_descriptor, fs_mount, net_stack_cfg_do_once, Stays, startup_vars,
       all_vars, vars, services
  <2>2. QED
    BY <2>1, BrokerIsNoClient
<1>4. QED
  BY <1>1, <1>2, <1>3, BrokerIsNoClient DEF StartupNext

LEMMA StartupSimulatesBroker ==
  ASSUME BusInv, [StartupNext]_startup_vars
  PROVE  [B!Next]_(B!vars)
<1> DEFINE released == signalled["dbus_broker"]
<1>1. /\ signalled \in [Name -> BOOLEAN] /\ "dbus_broker" \in Name
      /\ timer \in [B!Thread -> Nat] /\ TypeOK
  BY BrokerIsNoClient DEF BusInv, SignalInv, TypeOK, B!TypeOK
<1>2. CASE BrokerStep
  <2>1. released' = released
    BY <1>2 DEF BrokerStep, all_vars, vars, services
  <2>2. QED
    BY <1>2 DEF BrokerStep, B!Next
<1>3. CASE \E n \in BusClient : Connects(n)
  BY <1>3 DEF Connects, B!Next
<1>4. CASE Tick
  <2>1. UNCHANGED <<broker_state, client_state, signalled>>
    BY <1>4 DEF Tick, all_vars, vars, services
  <2>2. CASE \E t \in B!Thread : timer[t] > 0
    BY <1>4, <2>1, <2>2 DEF Tick, Less, B!Next, B!Tick, broker_state, client_state,
       B!bvars, B!cvars
  <2>3. CASE \A t \in B!Thread : ~(timer[t] > 0)
    <3>1. \A t \in B!Thread : timer[t] = 0
      BY <1>1, <2>3
    <3>2. timer' = timer
      BY <1>1, <1>4, <3>1 DEF Tick, Less
    <3>3. QED
      BY <2>1, <3>2 DEF broker_state, client_state, B!vars, B!bvars, B!cvars
  <2>4. QED
    BY <2>2, <2>3
<1>5. CASE UNCHANGED bus_state
  <2>1. released' = released \/ (~released /\ released' = TRUE)
    BY <1>1, SignalsStay
  <2>2. QED
    BY <1>5, <2>1 DEF bus_state, broker_state, client_state, B!vars, B!bvars, B!cvars,
       B!Next, B!dbus_broker_init
<1>6. QED
  BY <1>2, <1>3, <1>4, <1>5, StepsOfTheBus

\* On one clock, the boot still does only what the manager's model allows and the
\* broker and its clients only what theirs does, so that no property of either
\* is lost by running them together.
THEOREM StartupImplementsParts == StartupSpec => ImplementsManager /\ B!Spec
<1>1. StartupInit => Init /\ B!Init
  BY DEF StartupInit, BootInit
<1>2. BusInv /\ [StartupNext]_startup_vars => BusInv' /\ [Next]_vars /\ [B!Next]_(B!vars)
  BY BusInvNext, StartupSimulatesBroker
<1>3. QED
  BY <1>1, <1>2, BusInvInit, PTL DEF StartupSpec, ImplementsManager, Spec, B!Spec

(***************************************************************************)
(* The timing of this build                                                *)
(***************************************************************************)

\* In ticks of 100 ms: the sleeps and loops of dbroker.c and the timeout of
\* start_thread_with_dependencies.  The wait for the readiness of the broker is
\* 200 rounds of 25 ms in the code, 50 ticks.
ThisTiming ==
  /\ LISTENER_DELAY = 1 /\ ALIVE_DELAY = 10 /\ RUN_DELAY = 5 /\ FIRST_DELAY = 10
  /\ CONNECT_RETRIES = 200 /\ READY_RETRIES = 50
  /\ READY_TIMEOUT = 1000

\* The boot of this build together with its broker, whichever services fail and
\* whenever the broker dies: nobody is READY without a bus, nobody is given up
\* who would still have signalled, nobody fails without a cause, and main's
\* verdict is true.
THEOREM ThisStartup ==
  ThisBoot /\ ThisTiming /\ ClientsAreSound =>
    (StartupSpec => [](ReadyNeedsBroker /\ TimeoutsAreDue /\ FailureHasCause
                       /\ VerdictIsTrue /\ NobodyLeftBehind))
<1> SUFFICES ASSUME ThisBoot, ThisTiming, ClientsAreSound
             PROVE  StartupSpec => [](ReadyNeedsBroker /\ TimeoutsAreDue
                                      /\ FailureHasCause /\ VerdictIsTrue
                                      /\ NobodyLeftBehind)
  OBVIOUS
<1>1. MainAlone /\ RoomForAll
  BY ThisBootFits
<1>2. OneCaller
  BY <1>1 DEF MainAlone, OneCaller
<1>3. HaveSem(BusClient)
  <2>1. \A i \in DOMAIN EnabledServices : EnabledServices[i].ready_sem
    BY DEF EnabledServices, THREAD_DEFINE
  <2>2. QED
    BY <2>1 DEF ThisBoot, ThisBuild, HaveSem
<1>4. ClientsAreInTime /\ BrokerIsInTime
  BY DEF ThisTiming, ClientsAreInTime, BrokerIsInTime, Budget
<1>5. StartupSpec => []ReadyNeedsBroker
  BY <1>3, ReadyMeansBus
<1>6. StartupSpec => []TimeoutsAreDue
  BY <1>2, <1>4, TimeoutsComeLate
<1>7. StartupSpec => []FailureHasCause
  BY <1>2, <1>4, OnlyTheDeadFail
<1>8. StartupSpec => Spec
  BY StartupImplementsParts DEF ImplementsManager
<1>9. Spec => []VerdictIsTrue
  BY <1>1, StartVerdictTrue
<1>10. Spec => []NobodyLeftBehind
  BY <1>1, OnlyTheBrokenStay
<1>11. QED
  BY <1>5, <1>6, <1>7, <1>8, <1>9, <1>10, PTL
=============================================================================
