------------------------ MODULE ThreadDependencyMgr ------------------------
(***************************************************************************)
(* The boot-time thread dependency manager of thread_dependency_mgr.cpp.   *)
(*                                                                         *)
(* Constructors register one descriptor per THREAD_DEFINE; then callers    *)
(* run start_all_auto_threads (main) or THREAD_START on one name.  Both    *)
(* end in start_thread_with_dependencies, a recursive function that every  *)
(* caller executes on its own C stack (variable stack: one frame per       *)
(* active call) while all of them share one call_stack of names, used for  *)
(* cycle detection, and the state field of the descriptors.                *)
(*                                                                         *)
(* A step is the code between two points where another thread can be      *)
(* observed to run: a mutex region, a call of init_func, a semaphore take. *)
(***************************************************************************)
EXTENDS Integers, Sequences, FiniteSets

CONSTANTS
  Name,                 \* thread names
  NoName,               \* a NULL or empty string in a dependency array
  Tables,               \* the builds considered: sequences of descriptors,
                        \* in the order in which the constructors run
  Caller,               \* threads that call into the manager
  ALL,                  \* the request start_all_auto_threads()
  Request,              \* what each caller asks for: ALL or one name
  Unreliable,           \* services whose start may go wrong
  MAX_THREADS,
  MAX_DEPENDENCIES,
  MAX_CALL_STACK_DEPTH

THREAD_DEFINE(n, deps) ==
  [name |-> n, deps |-> deps, ready_sem |-> TRUE, auto_start |-> TRUE]

THREAD_DEFINE_NO_SEM(n, deps) ==
  [name |-> n, deps |-> deps, ready_sem |-> FALSE, auto_start |-> FALSE]

Descriptor(D) ==
  [name : Name, deps : Seq(D), ready_sem : BOOLEAN, auto_start : BOOLEAN]

ASSUME NamesAssumption ==
  /\ NoName \notin Name
  /\ ALL \notin Name
  /\ Unreliable \subseteq Name
  /\ Request \in [Caller -> Name \cup {ALL}]

ASSUME LimitsAssumption ==
  /\ MAX_THREADS \in Nat
  /\ MAX_DEPENDENCIES \in Nat
  /\ MAX_CALL_STACK_DEPTH \in Nat

\* The macros define a static object per name, so a build has no duplicates.
ASSUME TablesAssumption ==
  \A t \in Tables :
    /\ t \in Seq(Descriptor(Name \cup {NoName}))
    /\ \A i, j \in DOMAIN t : t[i].name = t[j].name => i = j

INITIAL == "INITIAL"
RUNNING == "RUNNING"
READY   == "READY"
FAILED  == "FAILED"

ThreadState == {INITIAL, RUNNING, READY, FAILED}

VARIABLES
  table,       \* the descriptors of this build (never changes)
  nreg,        \* constructors that have run
  registry,    \* registered_threads[0 .. registered_thread_count - 1]
  tstate,      \* the state field of every descriptor
  sem,         \* count of every ready_sem (K_SEM_DEFINE(.., 0, 1))
  starting,    \* service threads created that have not signalled yet
  signalled,   \* history: the service has given its ready_sem
  inits,       \* history: how often init_func was called
  call_stack,  \* call_stack[0 .. call_stack_depth - 1], shared
  stack,       \* per caller, the active start_thread_with_dependencies
  result,      \* per caller, the value last returned to it
  cursor,      \* per caller, loop index of start_all_auto_threads
  failed_count \* per caller, calls that returned an error

registration == <<table, nreg, registry>>
services     == <<sem, starting, signalled>>
top          == <<cursor, failed_count>>
vars == <<registration, tstate, services, inits, call_stack, stack, result, top>>

(***************************************************************************)
(* Registration                                                            *)
(***************************************************************************)

\* Fault: the loop over deps[] does not look at the entries.
KeepsNullDeps(deps, k) == k <= MAX_DEPENDENCIES /\ k = Len(deps)

\* The loop over deps[] keeps k entries: it stops at the first NULL or empty
\* one, at MAX_DEPENDENCIES, or at the end.
KeepsDeps(deps, k) ==
  /\ k <= MAX_DEPENDENCIES
  /\ \A j \in 1..k : deps[j] # NoName
  /\ k < MAX_DEPENDENCIES /\ k < Len(deps) => deps[k + 1] = NoName

register_thread_descriptor ==
  /\ nreg < Len(table)
  /\ nreg' = nreg + 1
  /\ LET desc == table[nreg + 1] IN
     \/ /\ Len(registry) < MAX_THREADS
        /\ \E k \in 0..Len(desc.deps) :
             /\ KeepsDeps(desc.deps, k)
             /\ registry' = Append(registry,
                              [desc EXCEPT !.deps = SubSeq(@, 1, k)])
     \/ /\ Len(registry) >= MAX_THREADS
        /\ UNCHANGED registry
  /\ UNCHANGED <<table, tstate, services, inits, call_stack, stack, result, top>>

Constructed == nreg = Len(table)

Registered == {registry[i].name : i \in DOMAIN registry}

DescriptorIn(reg, n) == reg[CHOOSE i \in DOMAIN reg : reg[i].name = n]

find_thread_descriptor(n) == DescriptorIn(registry, n)

(***************************************************************************)
(* The shared stack of names                                               *)
(***************************************************************************)

is_circular_dependency(n) == \E i \in DOMAIN call_stack : call_stack[i] = n

CanPush == Len(call_stack) < MAX_CALL_STACK_DEPTH

push_call_stack(n) == call_stack' = Append(call_stack, n)

\* Fault: an exit path returns without popping.
ForgetsToPop == UNCHANGED call_stack

pop_call_stack ==
  call_stack' = IF call_stack = <<>> THEN <<>>
                ELSE SubSeq(call_stack, 1, Len(call_stack) - 1)

(***************************************************************************)
(* start_thread_with_dependencies: one frame per active call               *)
(***************************************************************************)

Pc == {"enter", "lookup", "deps", "called", "wait", "init", "inited",
       "signal", "cleanup"}

Ret == {"none", "ok", "err"}

Frame == [name : Name, pc : Pc, dep : Nat \ {0}, ret : Ret]

NewFrame(n) == [name |-> n, pc |-> "enter", dep |-> 1, ret |-> "none"]

Top(c) == stack[c][Len(stack[c])]

At(c, pc) == stack[c] # <<>> /\ Top(c).pc = pc

Call(c, n) == stack' = [stack EXCEPT ![c] = Append(@, NewFrame(n))]

SetTop(c, f) == stack' = [stack EXCEPT ![c][Len(stack[c])] = f]

Goto(c, pc) == SetTop(c, [Top(c) EXCEPT !.pc = pc])

NextDep(c) == SetTop(c, [Top(c) EXCEPT !.pc = "deps", !.dep = @ + 1])

Cleanup(c, r) == SetTop(c, [Top(c) EXCEPT !.pc = "cleanup", !.ret = r])

\* Fault: the error code is lost on the way out.
ReturnsZero(c, r) ==
  /\ stack' = [stack EXCEPT ![c] = SubSeq(@, 1, Len(@) - 1)]
  /\ result' = [result EXCEPT ![c] = "ok"]

Return(c, r) ==
  /\ stack' = [stack EXCEPT ![c] = SubSeq(@, 1, Len(@) - 1)]
  /\ result' = [result EXCEPT ![c] = r]

\* Under call_stack_mutex: reject a name already on the shared stack or a
\* full stack, else push the name.
Enter(c) ==
  /\ At(c, "enter")
  /\ \/ /\ is_circular_dependency(Top(c).name)
        /\ Return(c, "err")
        /\ UNCHANGED call_stack
     \/ /\ ~is_circular_dependency(Top(c).name)
        /\ ~CanPush
        /\ Return(c, "err")
        /\ UNCHANGED call_stack
     \/ /\ ~is_circular_dependency(Top(c).name)
        /\ CanPush
        /\ push_call_stack(Top(c).name)
        /\ Goto(c, "lookup")
        /\ UNCHANGED result
  /\ UNCHANGED <<registration, tstate, services, inits, top>>

\* Fault: a failed thread is started again.
RestartsFailed(n) == tstate[n] \in {INITIAL, FAILED}

NotStarted(n) == tstate[n] = INITIAL

\* Find the descriptor and act on its state, read once without a lock.
Lookup(c) ==
  /\ At(c, "lookup")
  /\ LET n == Top(c).name IN
     \/ /\ n \notin Registered
        /\ Cleanup(c, "err")
     \/ /\ n \in Registered
        /\ tstate[n] \in {READY, RUNNING}
        /\ Cleanup(c, "ok")
     \/ /\ n \in Registered
        /\ tstate[n] = FAILED
        /\ Cleanup(c, "err")
     \/ /\ n \in Registered
        /\ NotStarted(n)
        /\ Goto(c, "deps")
  /\ UNCHANGED <<registration, tstate, services, inits, call_stack, result, top>>

Deps(c) == find_thread_descriptor(Top(c).name).deps

\* Fault: the loop stops one dependency early.
SkipsLastDep(c) == Top(c).dep < Len(Deps(c))

HasMoreDeps(c) == Top(c).dep <= Len(Deps(c))

CallDep(c) ==
  /\ At(c, "deps")
  /\ HasMoreDeps(c)
  /\ stack' = [stack EXCEPT ![c] =
       Append([@ EXCEPT ![Len(@)] = [Top(c) EXCEPT !.pc = "called"]],
              NewFrame(Deps(c)[Top(c).dep]))]
  /\ UNCHANGED <<registration, tstate, services, inits, call_stack, result, top>>

DepsDone(c) ==
  /\ At(c, "deps")
  /\ ~HasMoreDeps(c)
  /\ Goto(c, "init")
  /\ UNCHANGED <<registration, tstate, services, inits, call_stack, result, top>>

\* The recursive call has returned: give up on an error, else read the state
\* of the dependency (wait_for_dependency_ready).
CheckDep(c) ==
  /\ At(c, "called")
  /\ LET d == Deps(c)[Top(c).dep] IN
     \/ /\ result[c] = "err"
        /\ Cleanup(c, "err")
     \/ /\ result[c] = "ok"
        /\ d \notin Registered
        /\ Cleanup(c, "err")
     \/ /\ result[c] = "ok"
        /\ d \in Registered
        /\ \/ /\ tstate[d] = READY
              /\ NextDep(c)
           \/ /\ tstate[d] = RUNNING
              /\ find_thread_descriptor(d).ready_sem
              /\ Goto(c, "wait")
           \/ /\ tstate[d] = RUNNING
              /\ ~find_thread_descriptor(d).ready_sem
              /\ NextDep(c)
           \/ /\ tstate[d] \in {FAILED, INITIAL}
              /\ Cleanup(c, "err")
  /\ UNCHANGED <<registration, tstate, services, inits, call_stack, result, top>>

\* Fault: the semaphore is polled, not waited for.
GivesUpAtOnce(n) == sem[n] = 0

\* Fault: the take waits with K_FOREVER.
WaitsForever(n) == FALSE

\* A timed take gives up only when the semaphore was not given in time.
MayTimeOut(n) == sem[n] = 0 /\ (starting[n] = 0 \/ n \in Unreliable)

\* k_sem_take(dep_desc->ready_sem, 20 s): takes the binary semaphore away
\* from whoever else is waiting for it and leaves the state alone.
WaitDep(c) ==
  /\ At(c, "wait")
  /\ LET d == Deps(c)[Top(c).dep] IN
     \/ /\ sem[d] = 1
        /\ sem' = [sem EXCEPT ![d] = 0]
        /\ NextDep(c)
     \/ /\ MayTimeOut(d)
        /\ Cleanup(c, "err")
        /\ UNCHANGED sem
  /\ UNCHANGED <<registration, tstate, starting, signalled, inits, call_stack,
                 result, top>>

\* desc->init_func() creates the service thread or not, and returns.
InitFuncReturns(c, ret, created) ==
  /\ At(c, "init")
  /\ LET n == Top(c).name IN
     /\ inits' = [inits EXCEPT ![n] = @ + 1]
     /\ SetTop(c, [Top(c) EXCEPT !.pc = "inited", !.ret = ret])
     /\ starting' = [starting EXCEPT ![n] = IF created THEN @ + 1 ELSE @]
  /\ UNCHANGED <<registration, tstate, sem, signalled, call_stack, result, top>>

\* An unreliable service may fail, and also fail in silence.
InitFunc(c) ==
  \/ InitFuncReturns(c, "ok", TRUE)
  \/ /\ At(c, "init") /\ Top(c).name \in Unreliable
     /\ \E ret \in {"ok", "err"} : InitFuncReturns(c, ret, FALSE)

\* Fault: creating the thread is taken for its being ready.
ReadyWhenCreated(ret) == IF ret = "ok" THEN READY ELSE FAILED

StateAfterInit(ret) == IF ret = "ok" THEN RUNNING ELSE FAILED

\* The state is assigned only after init_func has returned.
InitReturned(c) ==
  /\ At(c, "inited")
  /\ tstate' = [tstate EXCEPT ![Top(c).name] = StateAfterInit(Top(c).ret)]
  /\ \/ Top(c).ret = "ok" /\ Goto(c, "signal")
     \/ Top(c).ret # "ok" /\ Cleanup(c, "err")
  /\ UNCHANGED <<registration, services, inits, call_stack, result, top>>

\* k_sem_take(desc->ready_sem, 100 s) and the assignment that follows.
AwaitSignal(c) ==
  /\ At(c, "signal")
  /\ LET n == Top(c).name IN
     \/ /\ ~find_thread_descriptor(n).ready_sem
        /\ tstate' = [tstate EXCEPT ![n] = READY]
        /\ Cleanup(c, "ok")
        /\ UNCHANGED sem
     \/ /\ find_thread_descriptor(n).ready_sem
        /\ sem[n] = 1
        /\ sem' = [sem EXCEPT ![n] = 0]
        /\ tstate' = [tstate EXCEPT ![n] = READY]
        /\ Cleanup(c, "ok")
     \/ /\ find_thread_descriptor(n).ready_sem
        /\ MayTimeOut(n)
        /\ tstate' = [tstate EXCEPT ![n] = FAILED]
        /\ Cleanup(c, "err")
        /\ UNCHANGED sem
  /\ UNCHANGED <<registration, starting, signalled, inits, call_stack, result, top>>

\* Every exit after the push: pop one name under the mutex and return.
PopAndReturn(c) ==
  /\ At(c, "cleanup")
  /\ pop_call_stack
  /\ Return(c, Top(c).ret)
  /\ UNCHANGED <<registration, tstate, services, inits, top>>

StartThread(c) ==
  \/ Enter(c) \/ Lookup(c) \/ CallDep(c) \/ DepsDone(c) \/ CheckDep(c)
  \/ WaitDep(c) \/ InitFunc(c) \/ InitReturned(c) \/ AwaitSignal(c)
  \/ PopAndReturn(c)

(***************************************************************************)
(* The two entry points                                                    *)
(***************************************************************************)

Iterations(c) == IF Request[c] = ALL THEN Len(registry) ELSE 1

AtTop(c) ==
  /\ Constructed
  /\ stack[c] = <<>>
  /\ cursor[c] <= Iterations(c)

\* One iteration of start_all_auto_threads, or THREAD_START(name).
BeginCall(c) ==
  /\ AtTop(c)
  /\ result[c] = "none"
  /\ \/ /\ Request[c] # ALL
        /\ Call(c, Request[c])
     \/ /\ Request[c] = ALL
        /\ registry[cursor[c]].auto_start
        /\ tstate[registry[cursor[c]].name] = INITIAL
        /\ Call(c, registry[cursor[c]].name)
  /\ UNCHANGED <<registration, tstate, services, inits, call_stack, result, top>>

SkipThread(c) ==
  /\ AtTop(c)
  /\ result[c] = "none"
  /\ Request[c] = ALL
  /\ \/ ~registry[cursor[c]].auto_start
     \/ tstate[registry[cursor[c]].name] # INITIAL
  /\ cursor' = [cursor EXCEPT ![c] = cursor[c] + 1]
  /\ UNCHANGED <<registration, tstate, services, inits, call_stack, stack, result,
                 failed_count>>

EndCall(c) ==
  /\ AtTop(c)
  /\ result[c] # "none"
  /\ result' = [result EXCEPT ![c] = "none"]
  /\ cursor' = [cursor EXCEPT ![c] = cursor[c] + 1]
  /\ failed_count' = IF result[c] = "err" THEN [failed_count EXCEPT ![c] = @ + 1]
                     ELSE failed_count
  /\ UNCHANGED <<registration, tstate, services, inits, call_stack, stack>>

CallerStep(c) == BeginCall(c) \/ SkipThread(c) \/ EndCall(c) \/ StartThread(c)

Done(c) == Constructed /\ cursor[c] > Iterations(c)

\* main's closing while (1) { k_msleep(20000); }
MainLoop ==
  /\ \A c \in Caller : Done(c)
  /\ UNCHANGED vars

(***************************************************************************)
(* The service threads (external code): a created thread gives its         *)
(* ready_sem once; an unreliable one may end without doing so.             *)
(***************************************************************************)

GiveReadySem(n) ==
  /\ starting[n] > 0
  /\ find_thread_descriptor(n).ready_sem
  /\ starting' = [starting EXCEPT ![n] = @ - 1]
  /\ sem' = [sem EXCEPT ![n] = 1]
  /\ signalled' = [signalled EXCEPT ![n] = TRUE]
  /\ UNCHANGED <<registration, tstate, inits, call_stack, stack, result, top>>

EndSilently(n) ==
  /\ n \in Unreliable
  /\ starting[n] > 0
  /\ starting' = [starting EXCEPT ![n] = @ - 1]
  /\ UNCHANGED <<registration, tstate, sem, signalled, inits, call_stack, stack,
                 result, top>>

(***************************************************************************)
(* Specification                                                           *)
(***************************************************************************)

Init ==
  /\ table \in Tables
  /\ nreg = 0
  /\ registry = <<>>
  /\ tstate = [n \in Name |-> INITIAL]
  /\ sem = [n \in Name |-> 0]
  /\ starting = [n \in Name |-> 0]
  /\ signalled = [n \in Name |-> FALSE]
  /\ inits = [n \in Name |-> 0]
  /\ call_stack = <<>>
  /\ stack = [c \in Caller |-> <<>>]
  /\ result = [c \in Caller |-> "none"]
  /\ cursor = [c \in Caller |-> 1]
  /\ failed_count = [c \in Caller |-> 0]

Next ==
  \/ register_thread_descriptor
  \/ \E c \in Caller : CallerStep(c)
  \/ \E n \in Name : GiveReadySem(n) \/ EndSilently(n)
  \/ MainLoop

\* Threads are scheduled, timed takes return, and a reliable service signals.
Fairness ==
  /\ WF_vars(register_thread_descriptor)
  /\ \A c \in Caller : WF_vars(CallerStep(c))
  /\ \A n \in Name \ Unreliable : WF_vars(GiveReadySem(n))

Spec == Init /\ [][Next]_vars

FairSpec == Spec /\ Fairness

(***************************************************************************)
(* Properties                                                              *)
(***************************************************************************)

TypeOK ==
  /\ table \in Tables
  /\ nreg \in 0..Len(table)
  /\ registry \in Seq(Descriptor(Name))
  /\ tstate \in [Name -> ThreadState]
  /\ sem \in [Name -> {0, 1}]
  /\ starting \in [Name -> Nat]
  /\ signalled \in [Name -> BOOLEAN]
  /\ inits \in [Name -> Nat]
  /\ call_stack \in Seq(Name)
  /\ stack \in [Caller -> Seq(Frame)]
  /\ result \in [Caller -> Ret]
  /\ cursor \in [Caller -> Nat \ {0}]
  /\ failed_count \in [Caller -> Nat]

AllDone == \A c \in Caller : Done(c)

DepsOf(n) ==
  LET deps == find_thread_descriptor(n).deps IN {deps[i] : i \in DOMAIN deps}

AutoStart == {registry[i].name : i \in {j \in DOMAIN registry : registry[j].auto_start}}

HasSignalled(n) ==
  n \in Registered /\ (find_thread_descriptor(n).ready_sem => signalled[n])

\* The frames of c whose name is on the shared stack: all but one still at
\* the entrance.
Pushed(c) == IF At(c, "enter") THEN Len(stack[c]) - 1 ELSE Len(stack[c])

\* One caller: on every path through the recursion, with its seven exits, the
\* shared stack holds exactly the names of the active calls, in call order.
CallStackMirrors ==
  \A c \in Caller :
    call_stack = [i \in 1..Pushed(c) |-> stack[c][i].name]

\* One caller: a thread leaves INITIAL, whichever way its start ends, only
\* when everything it depends on is READY.
StartsAfterDeps ==
  \A n \in Name :
    tstate[n] # INITIAL =>
      n \in Registered /\ \A d \in DepsOf(n) : tstate[d] = READY

\* "If already started or starting, return immediately"
\* (thread_dependency_mgr.cpp:250): init_func of a thread never runs twice,
\* although a thread is reached along many dependency paths and stays INITIAL
\* until its init_func has returned.
InitAtMostOnce == \A n \in Name : inits[n] <= 1

\* READY is only ever reported of a thread that has given its semaphore; a
\* take by another waiter, a timeout or a late give never makes it so.
ReadyMeansSignalled == \A n \in Name : tstate[n] = READY => HasSignalled(n)

\* Any number of callers: whatever they steal from each other, init_func of a
\* thread is called only after every dependency that has a semaphore gave it.
NoInitBeforeSignal ==
  \A n \in Name :
    inits[n] > 0 =>
      n \in Registered /\ \A d \in DepsOf(n) : HasSignalled(d)

\* A finished start has an opinion on everything it could start: a thread
\* whose dependencies are all READY is READY too, or is itself at fault.  So a
\* broken service stops its dependents and nothing else.
NobodyLeftBehind ==
  AllDone =>
    \A n \in AutoStart :
      (\A d \in DepsOf(n) : tstate[d] = READY) =>
        tstate[n] = READY \/ (n \in Unreliable /\ tstate[n] = FAILED)

\* start_all_auto_threads reports success exactly when everything it had to
\* start is READY, although it skips threads that failed as a dependency.
VerdictIsTrue ==
  AllDone =>
    \A c \in Caller :
      Request[c] = ALL =>
        (failed_count[c] = 0 <=> \A n \in AutoStart : tstate[n] = READY)

\* The start ends whatever the dependency graph and whatever fails.
StartTerminates == <>AllDone

\* From one caller, the manager implements the startup order.
NeedsOf(n) == IF n \in Registered THEN DepsOf(n) ELSE {}

Order == INSTANCE StartupOrder WITH
  needs    <- [n \in Name |-> NeedsOf(n)],
  declared <- Registered,
  quiet    <- {n \in Registered : ~find_thread_descriptor(n).ready_sem},
  status   <- tstate,
  up       <- {n \in Name : signalled[n]}

ImplementsStartupOrder == Order!Spec
=============================================================================
