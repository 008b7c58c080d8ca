------------------------- MODULE StartVerdict_proofs -------------------------
(***************************************************************************)
(* What a start from one thread amounts to: the thread dependency manager  *)
(* implements StartupOrder, whatever the table, the dependency graph and   *)
(* the limits; and when main has gone through the registry, its verdict is *)
(* true and only broken threads and their dependents are left behind, so   *)
(* that whoever is reliable and needs only such comes up.                  *)
(***************************************************************************)
EXTENDS ThreadDependencyMgr_proofs, FiniteSetTheorems, WellFoundedInduction

(***************************************************************************)
(* The registry holds each name once, only names of the table, and no more *)
(* descriptors than it has room for.                                       *)
(***************************************************************************)

NamesOnce(reg) == \A i, j \in DOMAIN reg : reg[i].name = reg[j].name => i = j

FromTable ==
  \A i \in DOMAIN registry : \E k \in 1..nreg : table[k].name = registry[i].name

RegistryInv ==
  /\ TypeOK
  /\ NamesOnce(registry)
  /\ FromTable
  /\ Len(registry) <= MAX_THREADS /\ Len(registry) <= nreg

LEMMA FindsByName ==
  ASSUME NEW reg, NamesOnce(reg), NEW i \in DOMAIN reg
  PROVE  DescriptorIn(reg, reg[i].name) = reg[i]
<1>1. (CHOOSE j \in DOMAIN reg : reg[j].name = reg[i].name) = i
  BY DEF NamesOnce
<1>2. QED
  BY <1>1 DEF DescriptorIn

\* A constructor either finds the registry full or adds a new name.
LEMMA RegisterEffect ==
  ASSUME RegistryInv, register_thread_descriptor
  PROVE  /\ UNCHANGED <<table, tstate, services, inits, call_stack, stack, result, top>>
         /\ \/ UNCHANGED registry
            \/ \E d \in Descriptor(Name) :
                 /\ registry' = Append(registry, d) /\ Len(registry) < MAX_THREADS
                 /\ d.name = table[nreg + 1].name
                 /\ d.name \notin Registered
         /\ nreg' = nreg + 1 /\ nreg + 1 \in 1..Len(table)
         /\ nreg \in Nat
<1>1. /\ nreg < Len(table) /\ nreg' = nreg + 1
      /\ UNCHANGED <<table, tstate, services, inits, call_stack, stack, result, top>>
  BY DEF register_thread_descriptor
<1>2. /\ table \in Seq(Descriptor(Name \cup {NoName})) /\ nreg \in 0..Len(table)
      /\ \A i, j \in DOMAIN table : table[i].name = table[j].name => i = j
      /\ table' \in Seq(Descriptor(Name \cup {NoName}))
  BY <1>1, TablesAssumption DEF RegistryInv, TypeOK
<1>3. Len(table) \in Nat /\ nreg + 1 \in 1..Len(table) /\ nreg \in Nat
  BY <1>1, <1>2, LenProperties
<1> DEFINE desc == table[nreg + 1]
<1>4. desc \in Descriptor(Name \cup {NoName})
  BY <1>2, <1>3, ElementOfSeq
<1>5. desc.name \notin Registered
  <2> SUFFICES ASSUME NEW i \in DOMAIN registry, registry[i].name = desc.name
               PROVE  FALSE
    BY DEF Registered
  <2>1. PICK k \in 1..nreg : table[k].name = desc.name
    BY DEF RegistryInv, FromTable
  <2>2. k \in DOMAIN table /\ nreg + 1 \in DOMAIN table /\ k # nreg + 1
    BY <1>2, <1>3, LenProperties
  <2>3. QED
    BY <1>2, <2>1, <2>2
<1>6. ASSUME NEW k \in 0..Len(desc.deps), KeepsDeps(desc.deps, k)
      PROVE  /\ [desc EXCEPT !.deps = SubSeq(@, 1, k)] \in Descriptor(Name)
             /\ [desc EXCEPT !.deps = SubSeq(@, 1, k)].name = desc.name
  <2>1. desc.deps \in Seq(Name \cup {NoName})
    BY <1>4 DEF Descriptor
  <2>2. Len(desc.deps) \in Nat
    BY <2>1, LenProperties
  <2>3. \A i \in 1..k : desc.deps[i] \in Name \cup {NoName}
    BY <2>1, <2>2, ElementOfSeq
  <2>4. \A i \in 1..k : desc.deps[i] \in Name
    BY <1>6, <2>3 DEF KeepsDeps
  <2> DEFINE s == SubSeq(desc.deps, 1, k)
  <2>5. s \in Seq(Name)
    BY <2>2, <2>4, SubSeqProperties
  <2>6. [desc EXCEPT !.deps = s] \in Descriptor(Name)
    <3> HIDE DEF s, desc
    <3>1. QED
      BY <1>4, <2>5 DEF Descriptor
  <2>7. [desc EXCEPT !.deps = s].name = desc.name
    <3> HIDE DEF s, desc
    <3>1. QED
      BY <1>4 DEF Descriptor
  <2>8. QED
    BY <2>6, <2>7
<1>7. QED
  BY <1>1, <1>3, <1>5, <1>6 DEF register_thread_descriptor

LEMMA RegistryInvNext == RegistryInv /\ TypeOK' /\ [Next]_vars => RegistryInv'
<1> SUFFICES ASSUME RegistryInv, TypeOK', [Next]_vars PROVE RegistryInv'
  OBVIOUS
<1>1. CASE UNCHANGED registration
  BY <1>1 DEF RegistryInv, NamesOnce, FromTable, registration
<1>2. CASE register_thread_descriptor
  <2>1. /\ table' = table /\ nreg' = nreg + 1 /\ nreg \in Nat
        /\ \/ UNCHANGED registry
           \/ \E d \in Descriptor(Name) :
                /\ registry' = Append(registry, d) /\ Len(registry) < MAX_THREADS
                /\ d.name = table[nreg + 1].name
                /\ d.name \notin Registered
    BY <1>2, RegisterEffect
  <2>2. CASE UNCHANGED registry
    <3>1. FromTable'
      <4>1. \A k \in 1..nreg : k \in 1..(nreg + 1)
        BY <2>1
      <4>2. QED
        BY <2>1, <2>2, <4>1 DEF RegistryInv, FromTable
    <3>2. Len(registry) \in Nat
      BY LenProperties DEF RegistryInv, TypeOK
    <3>3. QED
      BY <2>1, <2>2, <3>1, <3>2 DEF RegistryInv, NamesOnce
  <2>3. ASSUME NEW d \in Descriptor(Name), registry' = Append(registry, d),
               Len(registry) < MAX_THREADS, d.name = table[nreg + 1].name, d.name \notin Registered
        PROVE  RegistryInv'
    <3>1. /\ registry \in Seq(Descriptor(Name))
          /\ DOMAIN registry = 1..Len(registry) /\ Len(registry) \in Nat
      BY LenProperties DEF RegistryInv, TypeOK
    <3>2. /\ registry' \in Seq(Descriptor(Name))
          /\ Len(registry') = Len(registry) + 1
          /\ \A i \in 1..Len(registry) : registry'[i] = registry[i]
          /\ registry'[Len(registry) + 1] = d
      BY <2>3, <3>1, AppendProperties
    <3>3. DOMAIN registry' = 1..(Len(registry) + 1)
      BY <3>2, LenProperties
    <3>4. \A i \in 1..Len(registry) : registry[i].name # d.name
      BY <2>3, <3>1 DEF Registered
    <3>5. NamesOnce(registry)'
      BY <3>1, <3>2, <3>3, <3>4 DEF RegistryInv, NamesOnce
    <3>6. FromTable'
      <4>1. ASSUME NEW i \in 1..(Len(registry) + 1)
            PROVE  \E k \in 1..(nreg + 1) : table[k].name = registry'[i].name
        <5>1. CASE i = Len(registry) + 1
          BY <2>1, <2>3, <3>2, <5>1
        <5>2. CASE i # Len(registry) + 1
          <6>1. i \in 1..Len(registry)
            BY <3>1, <4>1, <5>2
          <6>2. PICK k \in 1..nreg : table[k].name = registry[i].name
            BY <3>1, <6>1 DEF RegistryInv, FromTable
          <6>3. k \in 1..(nreg + 1)
            BY <2>1
          <6>4. QED
            BY <3>2, <6>1, <6>2, <6>3
        <5>3. QED
          BY <5>1, <5>2
      <4>2. QED
        BY <2>1, <3>3, <4>1 DEF FromTable
    <3>7. Len(registry') <= MAX_THREADS /\ Len(registry') <= nreg'
      <4>1. Len(registry) <= nreg
        BY DEF RegistryInv
      <4>2. Len(registry) \in Nat /\ nreg \in Nat /\ nreg' = nreg + 1
        BY <2>1, <3>1
      <4>3. Len(registry) + 1 <= MAX_THREADS
        BY <2>3, <4>2, LimitsAssumption
      <4>4. Len(registry) + 1 <= nreg + 1
        BY <4>1, <4>2
      <4>5. QED
        BY <3>2, <4>2, <4>3, <4>4
    <3>8. QED
      BY <3>5, <3>6, <3>7 DEF RegistryInv
  <2>4. QED
    BY <2>1, <2>2, <2>3
<1>3. CASE \E c \in Caller : CallerStep(c)
  BY <1>1, <1>3 DEF CallerStep, BeginCall, SkipThread, EndCall, StartThread, Enter,
     Lookup, CallDep, DepsDone, CheckDep, WaitDep, InitFunc, InitFuncReturns,
     InitReturned, AwaitSignal, PopAndReturn
<1>4. CASE \E n \in Name : GiveReadySem(n) \/ EndSilently(n)
  BY <1>1, <1>4 DEF GiveReadySem, EndSilently
<1>5. CASE MainLoop \/ UNCHANGED vars
  BY <1>1, <1>5 DEF MainLoop, vars
<1>6. QED
  BY <1>2, <1>3, <1>4, <1>5 DEF Next

LEMMA RegistryInvInit == Init => RegistryInv
<1> SUFFICES ASSUME Init PROVE RegistryInv
  OBVIOUS
<1>1. TypeOK
  BY SignalInvInit DEF SignalInv
<1>2. DOMAIN registry = {} /\ Len(registry) = 0 /\ nreg = 0
  BY EmptySeq DEF Init
<1>3. QED
  BY <1>1, <1>2, LimitsAssumption DEF RegistryInv, NamesOnce, FromTable

(***************************************************************************)
(* The refinement of StartupOrder                                          *)
(***************************************************************************)

Quiet == {n \in Registered : ~find_thread_descriptor(n).ready_sem}

LEMMA OrderUnchanged ==
  ASSUME UNCHANGED <<registry, tstate, signalled>>
  PROVE  UNCHANGED Order!vars
  BY DEF Order!vars, NeedsOf, DepsOf, Registered, find_thread_descriptor

LEMMA SameOrder ==
  ASSUME UNCHANGED registry
  PROVE  /\ Registered' = Registered
         /\ \A n : NeedsOf(n)' = NeedsOf(n)
         /\ \A n : find_thread_descriptor(n)' = find_thread_descriptor(n)
         /\ [n \in Name |-> NeedsOf(n)]' = [n \in Name |-> NeedsOf(n)]
         /\ Quiet' = Quiet
  BY DEF NeedsOf, DepsOf, Registered, find_thread_descriptor, Quiet

LEMMA OrderInit == Init => Order!Init
<1> SUFFICES ASSUME Init PROVE Order!Init
  OBVIOUS
<1>1. Registered = {}
  BY DEF Init, Registered
<1>2. \A n \in Name : NeedsOf(n) = {} /\ ~signalled[n]
  BY <1>1 DEF NeedsOf, Init
<1>3. QED
  BY <1>1, <1>2 DEF Order!Init, Init, INITIAL

\* A constructor declares its thread, unless the registry is full.
LEMMA RegisterDeclares ==
  ASSUME RegistryInv, RegistryInv', register_thread_descriptor
  PROVE  [Order!Next]_Order!vars
<1>1. /\ UNCHANGED <<tstate, signalled>>
      /\ \/ UNCHANGED registry
         \/ \E d \in Descriptor(Name) :
              /\ registry' = Append(registry, d)
              /\ d.name \notin Registered
  BY RegisterEffect DEF services
<1>2. CASE UNCHANGED registry
  BY <1>1, <1>2, OrderUnchanged
<1>3. ASSUME NEW d \in Descriptor(Name), registry' = Append(registry, d),
             d.name \notin Registered
      PROVE  Order!Next
  <2> DEFINE n == d.name
  <2>1. /\ registry \in Seq(Descriptor(Name)) /\ n \in Name
        /\ DOMAIN registry = 1..Len(registry) /\ Len(registry) \in Nat
    BY LenProperties DEF RegistryInv, TypeOK, Descriptor
  <2>2. /\ registry' \in Seq(Descriptor(Name))
        /\ Len(registry') = Len(registry) + 1
        /\ \A i \in 1..Len(registry) : registry'[i] = registry[i]
        /\ registry'[Len(registry) + 1] = d
    BY <1>3, <2>1, AppendProperties
  <2>3. DOMAIN registry' = 1..(Len(registry) + 1)
    BY <2>2, LenProperties
  <2>4. Registered' = Registered \cup {n}
    BY <2>1, <2>2, <2>3 DEF Registered
  <2>5. ASSUME NEW m \in Registered
        PROVE  find_thread_descriptor(m)' = find_thread_descriptor(m)
    <3>1. PICK i \in DOMAIN registry : registry[i].name = m
      BY DEF Registered
    <3>2. DescriptorIn(registry, m) = registry[i]
      BY <3>1, FindsByName DEF RegistryInv
    <3>3. i \in DOMAIN registry' /\ registry'[i].name = m
      BY <2>1, <2>2, <2>3, <3>1
    <3>4. NamesOnce(registry')
      BY DEF RegistryInv, NamesOnce
    <3>5. DescriptorIn(registry', m) = registry'[i]
      BY <3>3, <3>4, FindsByName
    <3>6. QED
      BY <2>1, <2>2, <3>2, <3>5 DEF find_thread_descriptor, DescriptorIn
  <2>6. \A m \in Name \ {n} : NeedsOf(m)' = NeedsOf(m)
    BY <2>4, <2>5 DEF NeedsOf, DepsOf
  <2>7. NeedsOf(n)' \in SUBSET Name
    <3>1. NamesOnce(registry') /\ registry'[Len(registry) + 1] = d
      BY <2>2 DEF RegistryInv, NamesOnce
    <3>2. DescriptorIn(registry', n) = d
      BY <2>1, <2>3, <3>1, FindsByName
    <3>3. d.deps \in Seq(Name)
      BY DEF Descriptor
    <3>4. {d.deps[i] : i \in DOMAIN d.deps} \in SUBSET Name
      BY <3>3, ElementOfSeq, LenProperties
    <3>5. NeedsOf(n)' = {d.deps[i] : i \in DOMAIN d.deps}
      BY <2>4, <3>2 DEF NeedsOf, DepsOf, find_thread_descriptor, DescriptorIn
    <3>6. QED
      BY <3>4, <3>5
  <2>8. Quiet' \in {Quiet, Quiet \cup {n}}
    BY <2>4, <2>5 DEF Quiet
  <2>9. [m \in Name |-> NeedsOf(m)]' =
          [[m \in Name |-> NeedsOf(m)] EXCEPT ![n] = NeedsOf(n)']
    BY <2>1, <2>6
  <2>10. UNCHANGED <<tstate, {m \in Name : signalled[m]}>>
    BY <1>1
  <2>11. Order!Declare(n)
    BY <1>3, <2>4, <2>7, <2>8, <2>9, <2>10 DEF Order!Declare, Quiet
  <2>12. QED
    BY <2>1, <2>11 DEF Order!Next
<1>4. QED
  BY <1>1, <1>2, <1>3

\* The assignment after init_func launches the topmost thread or fails it.
LEMMA InitReturnedLaunches ==
  ASSUME ProgressInv, OneCaller, NEW c \in Caller, InitReturned(c)
  PROVE  Order!Next
<1> DEFINE n == Top(c).name
<1>1. /\ stack[c] # <<>> /\ Top(c).pc = "inited"
      /\ UNCHANGED <<registry, signalled>>
      /\ tstate' = [tstate EXCEPT ![n] = StateAfterInit(Top(c).ret)]
  BY DEF InitReturned, At, registration, services
<1>2. Top(c) \in Frame /\ ProgressOK(Top(c)) /\ n \in Name
  BY <1>1, TopProgress
<1>3. /\ n \in Registered /\ Deps(c) = DepsFor(Top(c))
      /\ DepsOf(n) = {Deps(c)[j] : j \in 1..Len(Deps(c))}
      /\ Len(Deps(c)) \in Nat /\ Top(c).dep \in Nat
  BY <1>1, TopDeps
<1>4. tstate[n] = "INITIAL" /\ \A d \in DepsOf(n) : tstate[d] = "READY"
  BY <1>1, <1>2, <1>3 DEF ProgressOK, INITIAL, READY
<1>5. \A m \in Name : tstate[m] # "RUNNING"
  BY <1>1, NobodyUnderWay DEF At, RUNNING
<1>6. Order!CanLaunch(n)
  BY <1>2, <1>3, <1>4, <1>5 DEF Order!CanLaunch, NeedsOf
<1>7. /\ UNCHANGED <<[m \in Name |-> NeedsOf(m)], Registered, Quiet,
                     {m \in Name : signalled[m]}>>
  BY <1>1, SameOrder
<1>8. Order!Launch(n) \/ Order!FailToLaunch(n)
  BY <1>1, <1>6, <1>7 DEF Order!Launch, Order!FailToLaunch, Quiet, StateAfterInit,
     RUNNING, FAILED
<1>9. QED
  BY <1>2, <1>8 DEF Order!Next

\* The wait for the signal ends in READY or in giving up.
LEMMA AwaitSignalEnds ==
  ASSUME ProgressInv, NEW c \in Caller, AwaitSignal(c)
  PROVE  Order!Next
<1> DEFINE n == Top(c).name
<1>1. stack[c] # <<>> /\ Top(c).pc = "signal" /\ UNCHANGED <<registry, signalled>>
  BY DEF AwaitSignal, At, registration
<1>2. n \in Name /\ tstate[n] = "RUNNING"
  BY <1>1, TopProgress DEF ProgressOK, RUNNING
<1>3. n \in Registered
  BY <1>1, TopDeps
<1>4. UNCHANGED <<[m \in Name |-> NeedsOf(m)], Registered, Quiet,
                  {m \in Name : signalled[m]}>>
  BY <1>1, SameOrder
<1>5. CASE /\ tstate' = [tstate EXCEPT ![n] = READY]
           /\ ~find_thread_descriptor(n).ready_sem \/ sem[n] = 1
  <2>1. n \in {m \in Name : signalled[m]} \cup Quiet
    BY <1>2, <1>3, <1>5 DEF Quiet, ProgressInv, ShapeInv, SignalInv, SemMeansSignalled
  <2>2. Order!BecomeReady(n)
    BY <1>2, <1>4, <1>5, <2>1 DEF Order!BecomeReady, Quiet, READY
  <2>3. QED
    BY <1>2, <2>2 DEF Order!Next
<1>6. CASE tstate' = [tstate EXCEPT ![n] = FAILED]
  <2>1. Order!GiveUp(n)
    BY <1>2, <1>4, <1>6 DEF Order!GiveUp, Quiet, FAILED
  <2>2. QED
    BY <1>2, <2>1 DEF Order!Next
<1>7. QED
  BY <1>5, <1>6 DEF AwaitSignal

LEMMA GiveSignals ==
  ASSUME TypeOK, NEW n \in Name, GiveReadySem(n)
  PROVE  Order!Next
<1>1. /\ UNCHANGED <<registry, tstate>>
      /\ signalled' = [signalled EXCEPT ![n] = TRUE]
  BY DEF GiveReadySem, registration
<1>2. {m \in Name : signalled[m]}' = {m \in Name : signalled[m]} \cup {n}
  BY <1>1 DEF TypeOK
<1>3. UNCHANGED <<[m \in Name |-> NeedsOf(m)], Registered, Quiet, tstate>>
  BY <1>1, SameOrder
<1>4. Order!Signal(n)
  BY <1>2, <1>3 DEF Order!Signal, Quiet
<1>5. QED
  BY <1>4 DEF Order!Next

LEMMA OrderStep ==
  ASSUME OneCaller, ProgressInv, RegistryInv, RegistryInv', [Next]_vars
  PROVE  [Order!Next]_Order!vars
<1>1. ASSUME NEW c \in Caller, CallerStep(c)
      PROVE  [Order!Next]_Order!vars
  <2>1. CASE InitReturned(c) \/ AwaitSignal(c)
    BY <2>1, InitReturnedLaunches, AwaitSignalEnds
  <2>2. CASE ~(InitReturned(c) \/ AwaitSignal(c))
    <3>1. UNCHANGED <<registration, tstate, signalled>>
      BY <1>1, <2>2 DEF CallerStep, BeginCall, SkipThread, EndCall, StartThread, Enter,
         Lookup, CallDep, DepsDone, CheckDep, WaitDep, InitFunc, InitFuncReturns,
         PopAndReturn, services
    <3>2. QED
      BY <3>1, OrderUnchanged DEF registration
  <2>3. QED
    BY <2>1, <2>2
<1>2. ASSUME NEW n \in Name, EndSilently(n)
      PROVE  [Order!Next]_Order!vars
  BY <1>2, OrderUnchanged DEF EndSilently, registration
<1>3. ASSUME MainLoop \/ UNCHANGED vars
      PROVE  [Order!Next]_Order!vars
  BY <1>3, OrderUnchanged DEF MainLoop, vars, registration, services
<1>4. ASSUME NEW n \in Name, GiveReadySem(n)
      PROVE  [Order!Next]_Order!vars
  BY <1>4, GiveSignals DEF RegistryInv
<1>5. QED
  BY <1>1, <1>2, <1>3, <1>4, RegisterDeclares DEF Next

\* From one caller the manager implements the startup order: services come up
\* one at a time, each after everything it needs is READY; READY is claimed
\* only of a service that has signalled, and READY and FAILED are final.
THEOREM ManagerImplementsOrder == OneCaller => (Spec => ImplementsStartupOrder)
<1> SUFFICES ASSUME OneCaller PROVE Spec => ImplementsStartupOrder
  OBVIOUS
<1>1. ProgressInv /\ RegistryInv /\ [Next]_vars => ProgressInv' /\ RegistryInv'
  <2>1. ProgressInv' => TypeOK'
    BY DEF ProgressInv, ShapeInv, SignalInv
  <2>2. QED
    BY <2>1, ProgressInvNext, RegistryInvNext
<1>2. ProgressInv /\ RegistryInv /\ RegistryInv' /\ [Next]_vars => [Order!Next]_Order!vars
  BY OrderStep
<1>3. QED
  BY <1>1, <1>2, ProgressInvInit, RegistryInvInit, OrderInit, PTL
     DEF Spec, ImplementsStartupOrder, Order!Spec

(***************************************************************************)
(* Who can be at fault: the threads of a reliable service.                 *)
(***************************************************************************)

StartedMeansInit == \A n \in Name : tstate[n] # INITIAL => inits[n] # 0

InitedOK ==
  \A c \in Caller :
    At(c, "inited") =>
      inits[Top(c).name] # 0 /\ (Top(c).name \notin Unreliable => Top(c).ret = "ok")

ReliableNeverFails == \A n \in Name \ Unreliable : tstate[n] # FAILED

\* The signal of a reliable service is on its way, given, or taken.
ReliableSignals ==
  \A n \in Name \ Unreliable :
    inits[n] # 0 /\ tstate[n] # READY => starting[n] > 0 \/ sem[n] = 1

Reliable == StartedMeansInit /\ InitedOK /\ ReliableNeverFails /\ ReliableSignals

\* The topmost call after each kind of step.
LEMMA TopAfterMove ==
  ASSUME ProgressInv, NEW c \in Caller, stack[c] # <<>>, NEW f, Moves(c, f)
  PROVE  /\ stack' \in [Caller -> Seq(Frame)] /\ stack'[c] # <<>>
         /\ Top(c)' = f /\ Len(stack'[c]) = Len(stack[c])
         /\ \A k \in 1..Len(stack'[c]) : stack'[c][k].name = stack[c][k].name
<1>1. f \in Frame /\ f.name = Top(c).name /\ SetTop(c, f)
  BY DEF Moves
<1>2. TypeOK /\ Len(stack[c]) \in 1..Len(stack[c])
  BY TopIsFrame DEF ProgressInv, ShapeInv, SignalInv
<1>3. /\ stack' \in [Caller -> Seq(Frame)]
      /\ Len(stack'[c]) = Len(stack[c])
      /\ \A k \in 1..Len(stack'[c]) :
           stack'[c][k] = IF k = Len(stack[c]) THEN f ELSE stack[c][k]
  BY <1>1, <1>2, SetTopKeepsFrames
<1>4. QED
  BY <1>1, <1>2, <1>3, EmptySeq DEF Top

LEMMA TopAfterReturn ==
  ASSUME ProgressInv, NEW c \in Caller, stack[c] # <<>>, NEW r \in Ret, Return(c, r)
  PROVE  /\ stack' \in [Caller -> Seq(Frame)]
         /\ Len(stack'[c]) = Len(stack[c]) - 1
         /\ \A k \in 1..Len(stack'[c]) :
              k \in 1..Len(stack[c]) /\ stack'[c][k] = stack[c][k]
         /\ stack'[c] # <<>> => Top(c)'.pc = "called"
         /\ result'[c] = r
<1>1. TypeOK /\ Len(stack[c]) \in Nat \ {0}
  BY TopIsFrame DEF ProgressInv, ShapeInv, SignalInv
<1>2. /\ stack' \in [Caller -> Seq(Frame)]
      /\ Len(stack'[c]) = Len(stack[c]) - 1
      /\ \A k \in 1..Len(stack'[c]) : stack'[c][k] = stack[c][k]
  BY <1>1, ReturnKeepsFrames
<1>3. \A k \in 1..Len(stack'[c]) : k \in 1..Len(stack[c]) /\ k < Len(stack[c])
  BY <1>1, <1>2
<1>4. ASSUME stack'[c] # <<>> PROVE Top(c)'.pc = "called"
  <2>1. Len(stack'[c]) \in 1..Len(stack'[c])
    BY <1>1, <1>2, <1>4, EmptySeq
  <2>2. stack[c][Len(stack'[c])].pc = "called"
    BY <1>3, <2>1 DEF ProgressInv, ShapeInv, AllShaped, ShapeOK
  <2>3. QED
    BY <1>2, <2>1, <2>2 DEF Top
<1>5. result'[c] = r
  BY <1>1 DEF Return, TypeOK
<1>6. QED
  BY <1>2, <1>3, <1>4, <1>5

LEMMA TopAfterCall ==
  ASSUME ProgressInv, NEW c \in Caller, CallDep(c) \/ BeginCall(c)
  PROVE  stack'[c] # <<>> /\ Top(c)'.pc = "enter"
<1>1. CASE CallDep(c)
  <2>1. stack[c] # <<>> /\ Deps(c)[Top(c).dep] \in Name
    BY <1>1, CallDepFrames DEF ProgressInv, ShapeInv
  <2> DEFINE n == Deps(c)[Top(c).dep]
  <2>2. PICK f \in Frame :
          stack' = [stack EXCEPT ![c] = Append([@ EXCEPT ![Len(@)] = f], NewFrame(n))]
    BY <1>1, CallDepFrames DEF ProgressInv, ShapeInv
  <2>a. n \in Name /\ TypeOK
    BY <2>1 DEF ProgressInv, ShapeInv, SignalInv
  <2> HIDE DEF n
  <2>3. /\ Len(stack'[c]) = Len(stack[c]) + 1
        /\ stack'[c][Len(stack[c]) + 1] = NewFrame(n)
    <3>1. stack[c] # <<>>
      BY <2>1
    <3>2. QED
      BY <2>2, <2>a, <3>1, CallFromTopFrames, Zenon
  <2>4. Len(stack[c]) \in Nat \ {0}
    BY <2>1, TopProgress
  <2>5. QED
    BY <2>3, <2>4, EmptySeq DEF Top, NewFrame
<1>2. CASE BeginCall(c)
  <2>1. PICK n \in Name : stack[c] = <<>> /\ Call(c, n)
    BY <1>2, BeginCallFrames DEF ProgressInv, ShapeInv
  <2>2. /\ Len(stack'[c]) = Len(stack[c]) + 1
        /\ stack'[c][Len(stack[c]) + 1] = NewFrame(n)
    BY <2>1, CallKeepsFrames DEF ProgressInv, ShapeInv, SignalInv
  <2>3. QED
    BY <2>1, <2>2, EmptySeq DEF Top, NewFrame
<1>3. QED
  BY <1>1, <1>2

LEMMA OnlyInitFuncInits ==
  ASSUME ProgressInv, NEW c \in Caller, CallerStep(c), ~InitFunc(c)
  PROVE  ~At(c, "inited")'
<1>1. CASE SkipThread(c) \/ EndCall(c)
  BY <1>1 DEF SkipThread, EndCall, AtTop, At
<1>2. CASE CallDep(c) \/ BeginCall(c)
  BY <1>2, TopAfterCall DEF At
<1>3. CASE stack[c] # <<>> /\ \E r \in Ret : Return(c, r)
  BY <1>3, TopAfterReturn DEF At
<1>4. CASE /\ stack[c] # <<>>
           /\ \/ \E pc \in {"lookup", "deps", "wait", "init", "signal"} : Goto(c, pc)
              \/ \E r \in {"ok", "err"} : Cleanup(c, r)
              \/ NextDep(c)
  <2>1. Top(c) \in Frame
    BY <1>4, TopProgress
  <2>2. PICK f : Moves(c, f) /\ f.pc # "inited"
    BY <1>4, <2>1, GotoMoves, CleanupMoves, NextDepMoves DEF Pc, Ret
  <2>3. QED
    BY <1>4, <2>2, TopAfterMove DEF At
<1>5. CASE StartThread(c) /\ ~CallDep(c)
  <2>1. stack[c] # <<>>
    BY <1>5 DEF StartThread, Enter, Lookup, DepsDone, CheckDep, WaitDep, InitFunc,
       InitFuncReturns, InitReturned, AwaitSignal, PopAndReturn, At
  <2>2. Top(c).ret \in Ret
    BY <2>1, TopProgress DEF Frame
  <2>3. \/ \E r \in Ret : Return(c, r)
        \/ \E pc \in {"lookup", "deps", "wait", "init", "signal"} : Goto(c, pc)
        \/ \E r \in {"ok", "err"} : Cleanup(c, r)
        \/ NextDep(c)
    BY <1>5, <2>2 DEF StartThread, Enter, Lookup, DepsDone, CheckDep, WaitDep,
       InitReturned, AwaitSignal, PopAndReturn, Ret
  <2>4. QED
    BY <1>3, <1>4, <2>1, <2>3
<1>6. QED
  BY <1>1, <1>2, <1>5 DEF CallerStep

LEMMA ReliableQuiet ==
  ASSUME Reliable, UNCHANGED <<tstate, inits, services>>,
         \A c \in Caller : At(c, "inited")' => At(c, "inited") /\ Top(c)' = Top(c)
  PROVE  Reliable'
<1>1. InitedOK'
  BY DEF Reliable, InitedOK
<1>2. StartedMeansInit' /\ ReliableNeverFails' /\ ReliableSignals'
  BY DEF Reliable, StartedMeansInit, ReliableNeverFails, ReliableSignals, services
<1>3. QED
  BY <1>1, <1>2 DEF Reliable

LEMMA InitFuncReliable ==
  ASSUME ProgressInv, OneCaller, Reliable, NEW c \in Caller, InitFunc(c)
  PROVE  Reliable'
<1>1. PICK r \in {"ok", "err"}, created \in BOOLEAN :
        /\ InitFuncReturns(c, r, created)
        /\ Top(c).name \notin Unreliable => r = "ok" /\ created
  BY DEF InitFunc
<1> DEFINE n == Top(c).name
<1>2. /\ stack[c] # <<>> /\ Top(c).pc = "init"
      /\ UNCHANGED <<tstate, sem>>
      /\ inits' = [inits EXCEPT ![n] = @ + 1]
      /\ SetTop(c, [Top(c) EXCEPT !.pc = "inited", !.ret = r])
      /\ starting' = [starting EXCEPT ![n] = IF created THEN @ + 1 ELSE @]
  BY <1>1 DEF InitFuncReturns, At
<1>3. Top(c) \in Frame /\ ProgressOK(Top(c)) /\ n \in Name
  BY <1>2, TopProgress
<1>a. Top(c) \in Frame
  BY <1>3
<1>b. r \in Ret
  BY DEF Ret
<1>c. SetTop(c, [Top(c) EXCEPT !.pc = "inited", !.ret = r])
  BY <1>2
<1>4. PICK f : Moves(c, f) /\ f.pc = "inited" /\ f.ret = r /\ f.dep = Top(c).dep
  BY <1>a, <1>b, <1>c, InitMoves, Zenon
<1>5. Top(c)' = f /\ f.name = n
  BY <1>2, <1>4, TopAfterMove DEF Moves
<1>6. inits \in [Name -> Nat] /\ starting \in [Name -> Nat]
  BY DEF ProgressInv, ShapeInv, SignalInv, TypeOK
<1>7. StartedMeansInit'
  BY <1>2, <1>3, <1>6 DEF Reliable, StartedMeansInit
<1>8. inits'[n] # 0
  BY <1>2, <1>3, <1>6
<1>9. InitedOK'
  BY <1>1, <1>4, <1>5, <1>8 DEF InitedOK, OneCaller
<1>10. ReliableNeverFails'
  BY <1>2 DEF Reliable, ReliableNeverFails
<1>11. ReliableSignals'
  <2> SUFFICES ASSUME NEW m \in Name \ Unreliable, inits'[m] # 0, tstate'[m] # READY
               PROVE  starting'[m] > 0 \/ sem'[m] = 1
    BY DEF ReliableSignals
  <2>1. CASE m = n
    BY <1>1, <1>2, <1>3, <1>6, <2>1
  <2>2. CASE m # n
    BY <1>2, <1>3, <1>6, <2>2 DEF Reliable, ReliableSignals
  <2>3. QED
    BY <2>1, <2>2
<1>12. QED
  BY <1>7, <1>9, <1>10, <1>11 DEF Reliable

LEMMA InitReturnedReliable ==
  ASSUME ProgressInv, OneCaller, Reliable, NEW c \in Caller, InitReturned(c)
  PROVE  Reliable'
<1> DEFINE n == Top(c).name
<1>1. /\ stack[c] # <<>> /\ Top(c).pc = "inited" /\ At(c, "inited")
      /\ UNCHANGED <<inits, services>>
      /\ tstate' = [tstate EXCEPT ![n] = StateAfterInit(Top(c).ret)]
  BY DEF InitReturned, At
<1>2. n \in Name /\ ProgressOK(Top(c)) /\ tstate \in [Name -> ThreadState]
  BY <1>1, TopProgress DEF ProgressInv, ShapeInv, SignalInv, TypeOK
<1>3. inits[n] # 0 /\ (n \notin Unreliable => Top(c).ret = "ok") /\ tstate[n] # READY
  BY <1>1, <1>2 DEF Reliable, InitedOK, ProgressOK, INITIAL, READY
<1>4. ~At(c, "inited")'
  <2>1. ~InitFunc(c)
    BY <1>1 DEF InitFunc, InitFuncReturns, At
  <2>2. QED
    BY <2>1, OnlyInitFuncInits DEF CallerStep, StartThread
<1>5. StartedMeansInit' /\ ReliableNeverFails'
  BY <1>1, <1>2, <1>3 DEF Reliable, StartedMeansInit, ReliableNeverFails,
     StateAfterInit, RUNNING, FAILED
<1>6. ReliableSignals'
  BY <1>1, <1>2, <1>3 DEF Reliable, ReliableSignals, services
<1>7. InitedOK'
  BY <1>4 DEF InitedOK, OneCaller
<1>8. QED
  BY <1>5, <1>6, <1>7 DEF Reliable

LEMMA AwaitSignalReliable ==
  ASSUME ProgressInv, OneCaller, Reliable, NEW c \in Caller, AwaitSignal(c)
  PROVE  Reliable'
<1> DEFINE n == Top(c).name
<1>1. /\ stack[c] # <<>> /\ Top(c).pc = "signal"
      /\ UNCHANGED <<inits, starting>>
  BY DEF AwaitSignal, At
<1>2. n \in Name /\ ProgressOK(Top(c))
  BY <1>1, TopProgress
<1>3. /\ tstate \in [Name -> ThreadState] /\ sem \in [Name -> {0, 1}]
      /\ starting \in [Name -> Nat]
  BY DEF ProgressInv, ShapeInv, SignalInv, TypeOK
<1>4. inits[n] # 0 /\ tstate[n] # READY
  BY <1>1, <1>2 DEF Reliable, StartedMeansInit, ProgressOK, INITIAL, RUNNING, READY
<1>5. n \notin Unreliable => ~MayTimeOut(n)
  BY <1>2, <1>3, <1>4 DEF Reliable, ReliableSignals, MayTimeOut
<1>6. /\ sem' = sem \/ sem' = [sem EXCEPT ![n] = 0]
      /\ \/ tstate' = [tstate EXCEPT ![n] = READY]
         \/ tstate' = [tstate EXCEPT ![n] = FAILED] /\ MayTimeOut(n) /\ sem' = sem
  BY DEF AwaitSignal
<1>7. ~At(c, "inited")'
  <2>1. ~InitFunc(c)
    BY <1>1 DEF InitFunc, InitFuncReturns, At
  <2>2. QED
    BY <2>1, OnlyInitFuncInits DEF CallerStep, StartThread
<1>8. StartedMeansInit'
  BY <1>1, <1>2, <1>3, <1>4, <1>6 DEF Reliable, StartedMeansInit
<1>9. ReliableNeverFails'
  BY <1>2, <1>3, <1>5, <1>6 DEF Reliable, ReliableNeverFails, READY, FAILED
<1>10. ReliableSignals'
  <2> SUFFICES ASSUME NEW m \in Name \ Unreliable, inits'[m] # 0, tstate'[m] # READY
               PROVE  starting'[m] > 0 \/ sem'[m] = 1
    BY DEF ReliableSignals
  <2>1. m # n
    BY <1>2, <1>3, <1>5, <1>6
  <2>2. tstate'[m] = tstate[m] /\ sem'[m] = sem[m]
    BY <1>2, <1>3, <1>6, <2>1
  <2>3. QED
    BY <1>1, <2>2 DEF Reliable, ReliableSignals
<1>11. InitedOK'
  BY <1>7 DEF InitedOK, OneCaller
<1>12. QED
  BY <1>8, <1>9, <1>10, <1>11 DEF Reliable

LEMMA ServiceReliable ==
  ASSUME TypeOK, Reliable, NEW n \in Name, GiveReadySem(n) \/ EndSilently(n)
  PROVE  Reliable'
<1>1. /\ UNCHANGED <<tstate, inits, stack>>
      /\ starting' = [starting EXCEPT ![n] = @ - 1]
      /\ \/ sem' = [sem EXCEPT ![n] = 1]
         \/ sem' = sem /\ n \in Unreliable
  BY DEF GiveReadySem, EndSilently
<1>2. sem \in [Name -> {0, 1}] /\ starting \in [Name -> Nat]
  BY DEF TypeOK
<1>3. ReliableSignals'
  <2> SUFFICES ASSUME NEW m \in Name \ Unreliable, inits'[m] # 0, tstate'[m] # READY
               PROVE  starting'[m] > 0 \/ sem'[m] = 1
    BY DEF ReliableSignals
  <2>1. CASE m = n
    BY <1>1, <1>2, <2>1
  <2>2. CASE m # n
    <3>1. starting'[m] = starting[m] /\ sem'[m] = sem[m]
      BY <1>1, <1>2, <2>2
    <3>2. QED
      BY <1>1, <3>1 DEF Reliable, ReliableSignals
  <2>3. QED
    BY <2>1, <2>2
<1>4. StartedMeansInit' /\ ReliableNeverFails' /\ InitedOK'
  BY <1>1 DEF Reliable, StartedMeansInit, ReliableNeverFails, InitedOK, At, Top
<1>5. QED
  BY <1>3, <1>4 DEF Reliable

LEMMA ReliableNext ==
  OneCaller /\ ProgressInv /\ Reliable /\ [Next]_vars => Reliable'
<1> SUFFICES ASSUME OneCaller, ProgressInv, Reliable, [Next]_vars PROVE Reliable'
  OBVIOUS
<1>1. ASSUME NEW c \in Caller, CallerStep(c) PROVE Reliable'
  <2>1. CASE InitFunc(c) \/ InitReturned(c) \/ AwaitSignal(c)
    BY <2>1, InitFuncReliable, InitReturnedReliable, AwaitSignalReliable
  <2>2. CASE ~(InitFunc(c) \/ InitReturned(c) \/ AwaitSignal(c))
    <3>1. ~At(c, "inited")'
      BY <1>1, <2>2, OnlyInitFuncInits
    <3>2. UNCHANGED <<tstate, inits, services>>
      BY <1>1, <2>2, WaitDepNever DEF CallerStep, BeginCall, SkipThread, EndCall,
         StartThread, Enter, Lookup, CallDep, DepsDone, CheckDep, PopAndReturn
    <3>3. QED
      BY <3>1, <3>2, ReliableQuiet DEF OneCaller
  <2>3. QED
    BY <2>1, <2>2
<1>2. ASSUME register_thread_descriptor \/ MainLoop \/ UNCHANGED vars PROVE Reliable'
  <2>1. UNCHANGED <<tstate, inits, services, stack>>
    BY <1>2 DEF register_thread_descriptor, MainLoop, vars
  <2>2. QED
    BY <2>1, ReliableQuiet DEF At, Top
<1>3. ASSUME NEW n \in Name, GiveReadySem(n) \/ EndSilently(n) PROVE Reliable'
  BY <1>3, ServiceReliable DEF ProgressInv, ShapeInv, SignalInv
<1>4. QED
  BY <1>1, <1>2, <1>3 DEF Next

LEMMA ReliableInit == Init => Reliable
  BY DEF Init, Reliable, StartedMeansInit, InitedOK, ReliableNeverFails, ReliableSignals,
         At, INITIAL, FAILED

(***************************************************************************)
(* The steps of the recursion, by what they do to the topmost call         *)
(***************************************************************************)

MainAlone == \E c \in Caller : Caller = {c} /\ Request[c] = ALL

GivesUp(f) == f.pc = "cleanup" /\ f.ret = "err"

\* An error is on its way up to start_all_auto_threads.
Erring(c) ==
  \/ stack[c] # <<>> /\ GivesUp(Top(c))
  \/ At(c, "called") /\ result[c] = "err"
  \/ stack[c] = <<>> /\ result[c] = "err"

\* The topmost call goes on, gives up for a reason, or starts its thread.
GoesOn(c, f) == tstate' = tstate /\ ~GivesUp(f) /\ ~Erring(c)

HasReason(c) ==
  \/ Top(c).name \notin Registered
  \/ tstate[Top(c).name] = FAILED
  \/ Erring(c)

FailsFor(c, f) ==
  /\ GivesUp(f)
  /\ \/ tstate' = tstate /\ HasReason(c)
     \/ /\ tstate' = [tstate EXCEPT ![Top(c).name] = FAILED]
        /\ tstate[Top(c).name] \in {INITIAL, RUNNING}

Starts(c, f) ==
  /\ ~GivesUp(f) /\ ~Erring(c)
  /\ \/ /\ tstate' = [tstate EXCEPT ![Top(c).name] = RUNNING]
        /\ Top(c).name \in Registered /\ tstate[Top(c).name] = INITIAL
        /\ \A d \in DepsOf(Top(c).name) : tstate[d] = READY
     \/ /\ tstate' = [tstate EXCEPT ![Top(c).name] = READY]
        /\ tstate[Top(c).name] = RUNNING

Kinds(c, f) ==
  /\ Moves(c, f) /\ f.pc # "called"
  /\ GoesOn(c, f) \/ FailsFor(c, f) \/ Starts(c, f)

LEMMA NotErring ==
  ASSUME NEW c \in Caller, stack[c] # <<>>, Top(c).pc \notin {"called", "cleanup"}
  PROVE  ~Erring(c)
  BY DEF Erring, GivesUp, At

LEMMA CleanupKinds ==
  ASSUME NEW c \in Caller, Top(c) \in Frame, tstate' = tstate,
         \/ Cleanup(c, "ok") /\ ~Erring(c)
         \/ Cleanup(c, "err") /\ HasReason(c)
  PROVE  \E f : Kinds(c, f)
<1>1. CASE Cleanup(c, "ok") /\ ~Erring(c)
  <2>1. PICK f : Moves(c, f) /\ f.pc = "cleanup" /\ f.ret = "ok"
    BY <1>1, CleanupMoves DEF Ret
  <2>2. QED
    BY <1>1, <2>1 DEF Kinds, GoesOn, GivesUp
<1>2. CASE Cleanup(c, "err") /\ HasReason(c)
  <2>1. PICK f : Moves(c, f) /\ f.pc = "cleanup" /\ f.ret = "err"
    BY <1>2, CleanupMoves DEF Ret
  <2>2. QED
    BY <1>2, <2>1 DEF Kinds, FailsFor, GivesUp
<1>3. QED
  BY <1>1, <1>2

LEMMA GotoKinds ==
  ASSUME NEW c \in Caller, Top(c) \in Frame, tstate' = tstate, ~Erring(c),
         NextDep(c) \/ \E pc \in {"lookup", "deps", "init", "wait"} : Goto(c, pc)
  PROVE  \E f : Kinds(c, f)
<1>1. PICK f : Moves(c, f) /\ f.pc \in {"lookup", "deps", "init", "wait"}
  BY GotoMoves, NextDepMoves DEF Pc
<1>2. QED
  BY <1>1 DEF Kinds, GoesOn, GivesUp

LEMMA CheckDepKinds ==
  ASSUME ProgressInv, OneCaller, NEW c \in Caller, CheckDep(c)
  PROVE  \E f : Kinds(c, f)
<1>1. stack[c] # <<>> /\ Top(c).pc = "called" /\ At(c, "called") /\ tstate' = tstate
  BY DEF CheckDep, At
<1>2. Top(c) \in Frame /\ FrameOK(Top(c))
  BY <1>1, TopProgress
<1>3. /\ Deps(c) = DepsFor(Top(c)) /\ Len(Deps(c)) \in Nat /\ Top(c).dep \in Nat \ {0}
      /\ \A j \in 1..Len(Deps(c)) : Deps(c)[j] \in Name
  BY <1>1, TopDeps
<1>4. Top(c).dep \in 1..Len(Deps(c))
  BY <1>1, <1>2, <1>3 DEF FrameOK, DepsFor
<1> DEFINE d == Deps(c)[Top(c).dep]
<1>5. d \in Name
  BY <1>3, <1>4
<1>6. CASE result[c] = "err"
  <2>1. Cleanup(c, "err") /\ HasReason(c)
    BY <1>1, <1>6 DEF CheckDep, HasReason, Erring
  <2>2. QED
    BY <1>1, <1>2, <2>1, CleanupKinds
<1>7. CASE result[c] = "ok"
  <2>1. tstate[d] = READY
    BY <1>1, <1>7 DEF ProgressInv, Progress, OkMeansReady
  <2>2. d \in Registered
    BY <1>5, <2>1 DEF ProgressInv, ShapeInv, SignalInv, ReadyMeansSignalled, HasSignalled
  <2>3. NextDep(c)
    BY <1>7, <2>1, <2>2 DEF CheckDep, READY, RUNNING, FAILED, INITIAL
  <2>4. ~Erring(c)
    BY <1>1, <1>7 DEF Erring, GivesUp, At
  <2>5. QED
    BY <1>1, <1>2, <2>3, <2>4, GotoKinds
<1>8. QED
  BY <1>6, <1>7 DEF CheckDep

LEMMA InitReturnedKinds ==
  ASSUME ProgressInv, OneCaller, NEW c \in Caller, InitReturned(c)
  PROVE  \E f : Kinds(c, f)
<1>1. /\ stack[c] # <<>> /\ Top(c).pc = "inited"
      /\ tstate' = [tstate EXCEPT ![Top(c).name] = StateAfterInit(Top(c).ret)]
  BY DEF InitReturned, At
<1>2. Top(c) \in Frame /\ ProgressOK(Top(c))
  BY <1>1, TopProgress
<1>3. /\ Top(c).name \in Registered /\ Deps(c) = DepsFor(Top(c))
      /\ DepsOf(Top(c).name) = {Deps(c)[j] : j \in 1..Len(Deps(c))}
      /\ Len(Deps(c)) \in Nat /\ Top(c).dep \in Nat
  BY <1>1, TopDeps
<1>4. /\ tstate[Top(c).name] = INITIAL
      /\ \A d \in DepsOf(Top(c).name) : tstate[d] = READY
  BY <1>1, <1>2, <1>3 DEF ProgressOK
<1>5. CASE Top(c).ret = "ok"
  <2>1. Goto(c, "signal")
    BY <1>5 DEF InitReturned
  <2>2. PICK f : Moves(c, f) /\ f.pc = "signal"
    BY <1>2, <2>1, GotoMoves DEF Pc
  <2>3. QED
    BY <1>1, <1>3, <1>4, <1>5, <2>2, NotErring DEF Kinds, Starts, GivesUp, StateAfterInit
<1>6. CASE Top(c).ret # "ok"
  <2>1. Cleanup(c, "err")
    BY <1>6 DEF InitReturned
  <2>2. PICK f : Moves(c, f) /\ f.pc = "cleanup" /\ f.ret = "err"
    BY <1>2, <2>1, CleanupMoves DEF Ret
  <2>3. QED
    BY <1>1, <1>4, <1>6, <2>2 DEF Kinds, FailsFor, GivesUp, StateAfterInit
<1>7. QED
  BY <1>5, <1>6

LEMMA AwaitSignalKinds ==
  ASSUME ProgressInv, OneCaller, NEW c \in Caller, AwaitSignal(c)
  PROVE  \E f : Kinds(c, f)
<1>1. stack[c] # <<>> /\ Top(c).pc = "signal"
  BY DEF AwaitSignal, At
<1>2. Top(c) \in Frame /\ tstate[Top(c).name] = RUNNING
  BY <1>1, TopProgress DEF ProgressOK
<1>3. CASE Cleanup(c, "ok") /\ tstate' = [tstate EXCEPT ![Top(c).name] = READY]
  <2>1. PICK f : Moves(c, f) /\ f.pc = "cleanup" /\ f.ret = "ok"
    BY <1>2, <1>3, CleanupMoves DEF Ret
  <2>2. QED
    BY <1>1, <1>2, <1>3, <2>1, NotErring DEF Kinds, Starts, GivesUp
<1>4. CASE Cleanup(c, "err") /\ tstate' = [tstate EXCEPT ![Top(c).name] = FAILED]
  <2>1. PICK f : Moves(c, f) /\ f.pc = "cleanup" /\ f.ret = "err"
    BY <1>2, <1>4, CleanupMoves DEF Ret
  <2>2. QED
    BY <1>2, <1>4, <2>1 DEF Kinds, FailsFor, GivesUp
<1>5. QED
  BY <1>3, <1>4 DEF AwaitSignal

\* Every step behind the entrance is of one of the kinds.
LEMMA StepKinds ==
  ASSUME ProgressInv, OneCaller, NEW c \in Caller, MovesOn(c)
  PROVE  \E f : Kinds(c, f)
<1>1. stack[c] # <<>>
  BY StepMoves DEF ProgressInv, ShapeInv, SignalInv
<1>2. Top(c) \in Frame
  BY <1>1, TopProgress
<1>3. CASE Lookup(c)
  <2>1. tstate' = tstate /\ ~Erring(c)
    BY <1>1, <1>3, NotErring DEF Lookup, At
  <2>2. \/ Cleanup(c, "ok")
        \/ Cleanup(c, "err") /\ HasReason(c)
        \/ Goto(c, "deps")
    BY <1>3 DEF Lookup, HasReason
  <2>3. QED
    BY <1>2, <2>1, <2>2, CleanupKinds, GotoKinds
<1>4. CASE DepsDone(c)
  <2>1. tstate' = tstate /\ Goto(c, "init") /\ ~Erring(c)
    BY <1>1, <1>4, NotErring DEF DepsDone, At
  <2>2. QED
    BY <1>2, <2>1, GotoKinds
<1>5. CASE InitFunc(c)
  <2>1. PICK r \in Ret, created \in BOOLEAN : InitFuncReturns(c, r, created)
    BY <1>5 DEF InitFunc, Ret
  <2>2. /\ SetTop(c, [Top(c) EXCEPT !.pc = "inited", !.ret = r])
        /\ tstate' = tstate /\ ~Erring(c)
    BY <1>1, <2>1, NotErring DEF InitFuncReturns, At
  <2>3. PICK f : Moves(c, f) /\ f.pc = "inited"
    BY <1>2, <2>2, InitMoves
  <2>4. QED
    BY <2>2, <2>3 DEF Kinds, GoesOn, GivesUp
<1>6. QED
  BY <1>3, <1>4, <1>5, CheckDepKinds, InitReturnedKinds, AwaitSignalKinds, WaitDepNever
     DEF MovesOn

(***************************************************************************)
(* Room on the shared stack: as many names as there can be descriptors.    *)
(***************************************************************************)

RoomForAll ==
  \/ MAX_THREADS <= MAX_CALL_STACK_DEPTH
  \/ \A t \in Tables : Len(t) <= MAX_CALL_STACK_DEPTH

LEMMA CountTo == \A n \in Nat : IsFiniteSet(1..n) /\ Cardinality(1..n) = n
<1> SUFFICES ASSUME NEW n \in Nat PROVE IsFiniteSet(1..n) /\ Cardinality(1..n) = n
  OBVIOUS
<1>1. n \in Int /\ 1 \in Int
  OBVIOUS
<1>2. IsFiniteSet(1..n) /\ Cardinality(1..n) = IF 1 > n THEN 0 ELSE n - 1 + 1
  BY ONLY <1>1, FS_Interval
<1>3. QED
  BY <1>2

LEMMA RoomToPush ==
  ASSUME ProgressInv, RegistryInv, RoomForAll, NEW c \in Caller, At(c, "enter"),
         ~is_circular_dependency(Top(c).name), Top(c).name \in Registered
  PROVE  CanPush
<1> DEFINE L == Len(call_stack)
           names == [k \in 1..(L + 1) |-> IF k = L + 1 THEN Top(c).name ELSE call_stack[k]]
           place == [k \in 1..(L + 1) |->
                       CHOOSE i \in DOMAIN registry : registry[i].name = names[k]]
<1>1. /\ stack[c] # <<>> /\ Top(c).pc = "enter"
      /\ Len(stack[c]) \in Nat \ {0}
  BY TopProgress DEF At
<1>2. /\ L = Len(stack[c]) - 1 /\ L \in Nat
      /\ \A k \in 1..L : call_stack[k] = stack[c][k].name
      /\ \A i, j \in 1..L : call_stack[i] = call_stack[j] => i = j
  BY <1>1 DEF ProgressInv, ShapeInv, AllShaped, ShapeOK, PushedIn, Top
<1>3. \A k \in 1..L : call_stack[k] \in Registered
  <2>1. \A k \in 1..L : k \in 1..Len(stack[c]) /\ k < Len(stack[c])
    BY <1>1, <1>2
  <2>2. QED
    BY <1>2, <2>1, LowerFrame
<1>4. \A k \in 1..L : call_stack[k] # Top(c).name
  BY LenProperties DEF is_circular_dependency, ProgressInv, ShapeInv, SignalInv, TypeOK
<1>5. /\ \A k \in 1..(L + 1) : names[k] \in Registered
      /\ \A i, j \in 1..(L + 1) : names[i] = names[j] => i = j
  BY <1>2, <1>3, <1>4
<1> HIDE DEF names
<1>6. \A k \in 1..(L + 1) :
        place[k] \in DOMAIN registry /\ registry[place[k]].name = names[k]
  <2> SUFFICES ASSUME NEW k \in 1..(L + 1)
               PROVE  place[k] \in DOMAIN registry /\ registry[place[k]].name = names[k]
    OBVIOUS
  <2>1. \E i \in DOMAIN registry : registry[i].name = names[k]
    BY <1>5 DEF Registered
  <2>2. QED
    BY <2>1
<1>7. DOMAIN registry = 1..Len(registry) /\ Len(registry) \in Nat
  BY LenProperties DEF RegistryInv, TypeOK
<1>8. place \in [1..(L + 1) -> 1..Len(registry)]
  BY <1>6, <1>7
<1> HIDE DEF place
<1>9. \A i, j \in 1..(L + 1) : place[i] = place[j] => i = j
  BY <1>5, <1>6
<1>10. L + 1 <= Len(registry)
  <2> SUFFICES ASSUME Len(registry) < L + 1 PROVE FALSE
    BY <1>2, <1>7
  <2>1. /\ IsFiniteSet(1..(L + 1)) /\ Cardinality(1..(L + 1)) = L + 1
        /\ IsFiniteSet(1..Len(registry)) /\ Cardinality(1..Len(registry)) = Len(registry)
    BY <1>2, <1>7, CountTo
  <2>2. \E x, y \in 1..(L + 1) : x # y /\ place[x] = place[y]
    BY <1>8, <2>1, FS_PigeonHole
  <2>3. QED
    BY <1>9, <2>2
<1>11. Len(registry) <= MAX_CALL_STACK_DEPTH
  <2>1. CASE MAX_THREADS <= MAX_CALL_STACK_DEPTH
    BY <1>7, <2>1, LimitsAssumption DEF RegistryInv
  <2>2. CASE \A t \in Tables : Len(t) <= MAX_CALL_STACK_DEPTH
    <3>1. Len(table) <= MAX_CALL_STACK_DEPTH /\ nreg \in 0..Len(table)
      BY <2>2 DEF RegistryInv, TypeOK
    <3>2. Len(table) \in Nat
      BY TablesAssumption, LenProperties DEF RegistryInv, TypeOK
    <3>3. QED
      BY <1>7, <3>1, <3>2, LimitsAssumption DEF RegistryInv
  <2>3. QED
    BY <2>1, <2>2 DEF RoomForAll
<1>12. QED
  BY <1>2, <1>7, <1>10, <1>11, LimitsAssumption DEF CanPush

\* At the entrance a call turns round only for a name that cannot be started
\* any more, or one that is on the stack already.
LEMMA EnterKinds ==
  ASSUME ProgressInv, RegistryInv, RoomForAll, NEW c \in Caller, Enter(c)
  PROVE  \/ \E f : Kinds(c, f) /\ result' = result
         \/ /\ Return(c, "err") /\ tstate' = tstate
            /\ \/ Top(c).name \notin Registered
               \/ \E k \in 1..Len(stack[c]) :
                    k < Len(stack[c]) /\ stack[c][k].name = Top(c).name
<1>1. /\ At(c, "enter") /\ tstate' = tstate
      /\ stack[c] # <<>> /\ Top(c) \in Frame /\ Len(stack[c]) \in Nat \ {0}
  BY TopProgress DEF Enter, At
<1>2. CASE Return(c, "err") /\ is_circular_dependency(Top(c).name)
  <2>1. PICK i \in DOMAIN call_stack : call_stack[i] = Top(c).name
    BY <1>2 DEF is_circular_dependency
  <2>2. i \in 1..Len(call_stack)
    BY LenProperties DEF ProgressInv, ShapeInv, SignalInv, TypeOK
  <2>3. /\ Len(call_stack) = Len(stack[c]) - 1
        /\ call_stack[i] = stack[c][i].name
    BY <1>1, <2>2 DEF ProgressInv, ShapeInv, AllShaped, ShapeOK, PushedIn, Top, At
  <2>4. i \in 1..Len(stack[c]) /\ i < Len(stack[c])
    BY <1>1, <2>2, <2>3
  <2>5. QED
    BY <1>1, <1>2, <2>1, <2>3, <2>4
<1>3. CASE Return(c, "err") /\ ~is_circular_dependency(Top(c).name) /\ ~CanPush
  BY <1>1, <1>3, RoomToPush
<1>4. CASE Goto(c, "lookup") /\ result' = result
  <2>1. ~Erring(c)
    BY <1>1, NotErring DEF At
  <2>2. \E f : Kinds(c, f)
    BY <1>1, <1>4, <2>1, GotoKinds
  <2>3. QED
    BY <1>4, <2>2
<1>5. QED
  BY <1>2, <1>3, <1>4 DEF Enter

(***************************************************************************)
(* The loop of start_all_auto_threads around the recursion                 *)
(***************************************************************************)

Outer ==
  \A c \in Caller :
    /\ ~Constructed => result[c] = "none" /\ cursor[c] = 1 /\ failed_count[c] = 0
    /\ stack[c] # <<>> \/ result[c] # "none" =>
         cursor[c] \in 1..Len(registry) /\ registry[cursor[c]].auto_start
    /\ stack[c] # <<>> => stack[c][1].name = registry[cursor[c]].name
    /\ stack[c] = <<>> /\ result[c] = "ok" =>
         tstate[registry[cursor[c]].name] = READY

\* No failure gets lost on its way to failed_count.
FailedNoticed ==
  \A c \in Caller : \A n \in Name :
    tstate[n] = FAILED => Erring(c) \/ failed_count[c] # 0

LoopInv == ProgressInv /\ RegistryInv /\ Outer /\ FailedNoticed

LEMMA PopKinds ==
  ASSUME ProgressInv, NEW c \in Caller, PopAndReturn(c)
  PROVE  /\ stack[c] # <<>> /\ tstate' = tstate
         /\ \E r \in {"ok", "err"} :
              /\ Return(c, r)
              /\ r = "ok" => tstate[Top(c).name] = READY /\ ~Erring(c)
              /\ r = "err" => GivesUp(Top(c))
<1>1. /\ stack[c] # <<>> /\ Top(c).pc = "cleanup" /\ tstate' = tstate
      /\ Return(c, Top(c).ret)
  BY DEF PopAndReturn, At
<1>2. Top(c) \in Frame /\ ProgressOK(Top(c))
  BY <1>1, TopProgress
<1>3. Top(c).ret \in {"ok", "err"}
  BY <1>1, <1>2 DEF ProgressOK, Frame, Ret
<1>4. QED
  BY <1>1, <1>2, <1>3 DEF ProgressOK, GivesUp, Erring, At

\* What a return leaves behind.
LEMMA ReturnLoop ==
  ASSUME LoopInv, OneCaller, NEW c \in Caller, stack[c] # <<>>,
         NEW r \in {"ok", "err"}, Return(c, r),
         UNCHANGED <<registration, tstate, top>>,
         r = "ok" => tstate[Top(c).name] = READY /\ ~Erring(c)
  PROVE  Outer' /\ FailedNoticed'
<1>1. /\ Len(stack[c]) \in Nat \ {0}
      /\ cursor[c] \in 1..Len(registry) /\ registry[cursor[c]].auto_start
      /\ stack[c][1].name = registry[cursor[c]].name
      /\ UNCHANGED <<registry, nreg, table, cursor, failed_count>>
  BY TopProgress DEF LoopInv, Outer, registration, top
<1>2. Constructed /\ Constructed'
  BY <1>1, ActiveMeansConstructed DEF LoopInv, ProgressInv, ShapeInv, Constructed
<1>3. /\ stack' \in [Caller -> Seq(Frame)]
      /\ Len(stack'[c]) = Len(stack[c]) - 1
      /\ \A k \in 1..Len(stack'[c]) :
           k \in 1..Len(stack[c]) /\ stack'[c][k] = stack[c][k]
      /\ stack'[c] # <<>> => Top(c)'.pc = "called"
      /\ result'[c] = r
  BY TopAfterReturn DEF LoopInv, Ret
<1>4. stack'[c] # <<>> => 1 \in 1..Len(stack'[c])
  BY <1>1, <1>3, EmptySeq
<1>5. stack'[c] = <<>> => Top(c) = stack[c][1]
  BY <1>1, <1>3, EmptySeq DEF Top
<1>6. Outer'
  BY <1>1, <1>2, <1>3, <1>4, <1>5 DEF Outer, OneCaller
<1>7. r = "err" => Erring(c)'
  BY <1>3 DEF Erring, At
<1>8. FailedNoticed'
  BY <1>1, <1>7 DEF LoopInv, FailedNoticed, OneCaller
<1>9. QED
  BY <1>6, <1>8

LEMMA MoveLoop ==
  ASSUME LoopInv, OneCaller, NEW c \in Caller, stack[c] # <<>>,
         NEW f, Kinds(c, f), UNCHANGED <<registration, result, top>>
  PROVE  Outer' /\ FailedNoticed'
<1>1. /\ Len(stack[c]) \in Nat \ {0}
      /\ cursor[c] \in 1..Len(registry) /\ registry[cursor[c]].auto_start
      /\ stack[c][1].name = registry[cursor[c]].name
      /\ UNCHANGED <<registry, nreg, table, cursor, failed_count>>
  BY TopProgress DEF LoopInv, Outer, registration, top
<1>2. Constructed'
  BY <1>1, ActiveMeansConstructed DEF LoopInv, ProgressInv, ShapeInv, Constructed
<1>3. /\ stack'[c] # <<>> /\ Top(c)' = f /\ Len(stack'[c]) = Len(stack[c])
      /\ \A k \in 1..Len(stack'[c]) : stack'[c][k].name = stack[c][k].name
  BY TopAfterMove DEF LoopInv, Kinds
<1>4. Outer'
  BY <1>1, <1>2, <1>3 DEF Outer, OneCaller
<1>5. GivesUp(f) => Erring(c)'
  BY <1>3 DEF Erring
<1>6. tstate \in [Name -> ThreadState] /\ Top(c).name \in Name
  BY TopProgress DEF LoopInv, ProgressInv, ShapeInv, SignalInv, TypeOK
<1>7. ASSUME ~GivesUp(f), NEW n \in Name, tstate'[n] = FAILED
      PROVE  failed_count[c] # 0
  <2>1. GoesOn(c, f) \/ Starts(c, f)
    BY <1>7 DEF Kinds, FailsFor
  <2>2. tstate[n] = FAILED
    BY <1>6, <1>7, <2>1 DEF GoesOn, Starts, RUNNING, READY, FAILED
  <2>3. QED
    BY <2>1, <2>2 DEF GoesOn, Starts, LoopInv, FailedNoticed
<1>8. FailedNoticed'
  BY <1>1, <1>5, <1>7 DEF FailedNoticed, OneCaller
<1>9. QED
  BY <1>4, <1>8

LEMMA CallLoop ==
  ASSUME LoopInv, OneCaller, \A c \in Caller : Request[c] = ALL,
         NEW c \in Caller, CallDep(c) \/ BeginCall(c)
  PROVE  Outer' /\ FailedNoticed'
<1>1. CASE CallDep(c)
  <2>1. /\ stack[c] # <<>> /\ Deps(c)[Top(c).dep] \in Name /\ Top(c).pc = "deps"
        /\ UNCHANGED <<registration, tstate, services, inits, call_stack, result, top>>
    BY <1>1, CallDepFrames DEF LoopInv, ProgressInv, ShapeInv
  <2> DEFINE n == Deps(c)[Top(c).dep]
  <2>2. PICK f \in Frame :
          /\ f.name = Top(c).name
          /\ stack' = [stack EXCEPT ![c] = Append([@ EXCEPT ![Len(@)] = f], NewFrame(n))]
    BY <1>1, CallDepFrames DEF LoopInv, ProgressInv, ShapeInv
  <2> HIDE DEF n
  <2>3. /\ Len(stack'[c]) = Len(stack[c]) + 1
        /\ \A k \in 1..Len(stack[c]) :
             stack'[c][k] = IF k = Len(stack[c]) THEN f ELSE stack[c][k]
    BY <2>1, <2>2, CallFromTopFrames DEF LoopInv, ProgressInv, ShapeInv, SignalInv, n
  <2>4. Len(stack[c]) \in Nat \ {0}
    BY <2>1, TopProgress DEF LoopInv
  <2>5. stack'[c][1].name = stack[c][1].name
    BY <2>2, <2>3, <2>4 DEF Top
  <2>6. UNCHANGED <<registry, nreg, table, cursor, failed_count, result, tstate>>
    BY <2>1 DEF registration, top
  <2>7. Constructed'
    BY <2>1, <2>6, ActiveMeansConstructed
       DEF LoopInv, ProgressInv, ShapeInv, Constructed
  <2>8. stack'[c] # <<>>
    BY <1>1, TopAfterCall DEF LoopInv
  <2>9. Outer'
    BY <2>1, <2>5, <2>6, <2>7, <2>8 DEF LoopInv, Outer, OneCaller
  <2>10. ~Erring(c)
    BY <2>1, NotErring
  <2>11. FailedNoticed'
    BY <2>6, <2>10 DEF LoopInv, FailedNoticed, OneCaller
  <2>12. QED
    BY <2>9, <2>11
<1>2. CASE BeginCall(c)
  <2>1. /\ stack[c] = <<>> /\ result[c] = "none" /\ Constructed
        /\ UNCHANGED <<registration, tstate, services, inits, call_stack, result, top>>
    BY <1>2, BeginCallFrames DEF LoopInv, ProgressInv, ShapeInv
  <2>2. PICK n \in Name :
          /\ Call(c, n)
          /\ Request[c] = ALL =>
               /\ cursor[c] \in 1..Len(registry)
               /\ n = registry[cursor[c]].name
               /\ registry[cursor[c]].auto_start
    BY <1>2, BeginCallFrames DEF LoopInv, ProgressInv, ShapeInv
  <2>3. /\ Len(stack'[c]) = Len(stack[c]) + 1
        /\ stack'[c][Len(stack[c]) + 1] = NewFrame(n)
    BY <2>2, CallKeepsFrames DEF LoopInv, ProgressInv, ShapeInv, SignalInv
  <2>4. stack'[c][1].name = n
    BY <2>1, <2>3, EmptySeq DEF NewFrame
  <2>5. UNCHANGED <<registry, nreg, table, cursor, failed_count, result, tstate>>
    BY <2>1 DEF registration, top
  <2>6. Constructed'
    BY <2>1, <2>5 DEF Constructed
  <2>7. stack'[c] # <<>>
    BY <1>2, TopAfterCall DEF LoopInv
  <2>8. Outer'
    BY <2>2, <2>4, <2>5, <2>6, <2>7 DEF Outer, OneCaller
  <2>9. ~Erring(c)
    BY <2>1 DEF Erring, At
  <2>10. FailedNoticed'
    BY <2>5, <2>9 DEF LoopInv, FailedNoticed, OneCaller
  <2>11. QED
    BY <2>8, <2>10
<1>3. QED
  BY <1>1, <1>2

LEMMA CursorLoop ==
  ASSUME LoopInv, OneCaller, NEW c \in Caller, SkipThread(c) \/ EndCall(c)
  PROVE  Outer' /\ FailedNoticed'
<1>1. /\ Constructed /\ stack'[c] = <<>> /\ stack[c] = <<>>
      /\ UNCHANGED <<registration, tstate>>
  BY DEF SkipThread, EndCall, AtTop
<1>2. /\ result \in [Caller -> Ret] /\ failed_count \in [Caller -> Nat]
      /\ cursor \in [Caller -> Nat \ {0}]
  BY DEF LoopInv, ProgressInv, ShapeInv, SignalInv, TypeOK
<1>3. result'[c] = "none" /\ Constructed'
  BY <1>1, <1>2 DEF SkipThread, EndCall, Constructed, registration
<1>4. Outer'
  BY <1>1, <1>3 DEF Outer, OneCaller
<1>5. Erring(c) => failed_count'[c] # 0
  BY <1>1, <1>2 DEF Erring, At, SkipThread, EndCall
<1>6. failed_count[c] # 0 => failed_count'[c] # 0
  BY <1>2 DEF SkipThread, EndCall
<1>7. FailedNoticed'
  BY <1>1, <1>5, <1>6 DEF LoopInv, FailedNoticed, OneCaller
<1>8. QED
  BY <1>4, <1>7

LEMMA RegisterLoop ==
  ASSUME LoopInv, register_thread_descriptor
  PROVE  Outer' /\ FailedNoticed'
<1>1. ~Constructed
  BY TablesAssumption, LenProperties
     DEF register_thread_descriptor, LoopInv, RegistryInv, TypeOK, Constructed
<1>2. /\ \A n \in Name : tstate[n] = INITIAL
      /\ \A c \in Caller : stack[c] = <<>> /\ result[c] = "none" /\ cursor[c] = 1
                           /\ failed_count[c] = 0
      /\ UNCHANGED <<tstate, stack, result, top>>
  BY <1>1 DEF LoopInv, Outer, ProgressInv, ShapeInv, SignalInv, FreshUntilConstructed,
              register_thread_descriptor
<1>3. Outer'
  BY <1>2 DEF Outer, top
<1>4. FailedNoticed'
  BY <1>2 DEF FailedNoticed, INITIAL, FAILED
<1>5. QED
  BY <1>3, <1>4

LEMMA ServiceLoop ==
  ASSUME LoopInv, UNCHANGED <<registration, tstate, stack, result, top>>
  PROVE  Outer' /\ FailedNoticed'
<1>1. Outer'
  BY DEF LoopInv, Outer, Constructed, registration, top
<1>2. FailedNoticed'
  BY DEF LoopInv, FailedNoticed, Erring, GivesUp, At, Top, top
<1>3. QED
  BY <1>1, <1>2

LEMMA LoopInvNext ==
  ASSUME MainAlone, RoomForAll, LoopInv, [Next]_vars
  PROVE  LoopInv'
<1>1. OneCaller /\ \A c \in Caller : Request[c] = ALL
  BY DEF MainAlone, OneCaller
<1>2. ProgressInv'
  BY <1>1, ProgressInvNext DEF LoopInv
<1>3. RegistryInv'
  BY <1>2, RegistryInvNext DEF LoopInv, ProgressInv, ShapeInv, SignalInv
<1>4. ASSUME NEW c \in Caller, StartThread(c) PROVE Outer' /\ FailedNoticed'
  <2>1. CASE MovesOn(c)
    <3>1. stack[c] # <<>> /\ UNCHANGED <<registration, result, top>>
      BY <2>1, StepMoves DEF LoopInv, ProgressInv, ShapeInv, SignalInv
    <3>2. PICK f : Kinds(c, f)
      BY <1>1, <2>1, StepKinds DEF LoopInv
    <3>3. QED
      BY <1>1, <3>1, <3>2, MoveLoop
  <2>2. CASE Enter(c)
    <3>1. stack[c] # <<>> /\ Top(c).pc = "enter" /\ UNCHANGED <<registration, tstate, top>>
      BY <2>2 DEF Enter, At
    <3>2. CASE \E f : Kinds(c, f) /\ result' = result
      BY <1>1, <3>1, <3>2, MoveLoop
    <3>3. CASE Return(c, "err")
      BY <1>1, <3>1, <3>3, ReturnLoop
    <3>4. QED
      BY <2>2, <3>2, <3>3, EnterKinds DEF LoopInv
  <2>3. CASE PopAndReturn(c)
    <3>1. UNCHANGED <<registration, tstate, top>>
      BY <2>3 DEF PopAndReturn
    <3>2. QED
      BY <1>1, <2>3, <3>1, PopKinds, ReturnLoop DEF LoopInv
  <2>4. QED
    BY <1>1, <1>4, <2>1, <2>2, <2>3, CallLoop DEF StartThread, MovesOn
<1>5. ASSUME NEW c \in Caller, CallerStep(c) PROVE Outer' /\ FailedNoticed'
  BY <1>1, <1>4, <1>5, CallLoop, CursorLoop DEF CallerStep
<1>6. ASSUME NEW n \in Name, GiveReadySem(n) \/ EndSilently(n)
      PROVE  Outer' /\ FailedNoticed'
  BY <1>6, ServiceLoop DEF GiveReadySem, EndSilently
<1>7. ASSUME MainLoop \/ UNCHANGED vars PROVE Outer' /\ FailedNoticed'
  BY <1>7, ServiceLoop DEF MainLoop, vars
<1>8. Outer' /\ FailedNoticed'
  BY <1>5, <1>6, <1>7, RegisterLoop DEF Next
<1>9. QED
  BY <1>2, <1>3, <1>8 DEF LoopInv

LEMMA LoopInvInit == Init => LoopInv
<1> SUFFICES ASSUME Init PROVE LoopInv
  OBVIOUS
<1>1. Outer /\ FailedNoticed
  BY DEF Init, Outer, FailedNoticed, INITIAL, FAILED
<1>2. QED
  BY <1>1, ProgressInvInit, RegistryInvInit DEF LoopInv

(***************************************************************************)
(* The threads that cannot become READY any more: those that failed or are *)
(* not registered, and those that still wait and depend on one of them.    *)
(***************************************************************************)

NeverIn(ts, X) ==
  \A x \in X :
    /\ ts[x] \notin {READY, RUNNING}
    /\ x \in Registered /\ ts[x] = INITIAL => \E d \in DepsOf(x) : d \in X

StackNames(c) == {stack[c][k].name : k \in 1..Len(stack[c])}

Doomed(X) ==
  /\ NeverIn(tstate, X)
  /\ \A n \in Name : tstate[n] = FAILED => n \in X
  /\ \A c \in Caller :
       Erring(c) =>
         /\ StackNames(c) \subseteq X
         /\ stack[c] = <<>> => registry[cursor[c]].name \in X
  /\ \A c \in Caller : failed_count[c] # 0 => \E n \in X : n \in AutoStart
  /\ \A c \in Caller : \A i \in 1..Len(registry) :
       i < cursor[c] /\ registry[i].auto_start =>
         \/ tstate[registry[i].name] = READY
         \/ registry[i].name \in X /\ failed_count[c] # 0

DoomInv == LoopInv /\ \E X \in SUBSET Name : Doomed(X)

LEMMA StackNamesAreNames ==
  ASSUME ProgressInv, NEW c \in Caller
  PROVE  StackNames(c) \in SUBSET Name
<1>1. stack[c] \in Seq(Frame)
  BY DEF ProgressInv, ShapeInv, SignalInv, TypeOK
<1>2. ASSUME NEW k \in 1..Len(stack[c]) PROVE stack[c][k].name \in Name
  <2>1. stack[c][k] \in Frame
    BY <1>1, ElementOfSeq
  <2>2. QED
    BY <2>1 DEF Frame
<1>3. QED
  BY <1>2 DEF StackNames

\* When the topmost call cannot succeed, no call on the stack can.
LEMMA DoomedStack ==
  ASSUME ProgressInv, NEW c \in Caller, stack[c] # <<>>,
         NEW X \in SUBSET Name, NeverIn(tstate, X), NEW ts,
         \A n \in Name : n # Top(c).name => ts[n] = tstate[n],
         ts[Top(c).name] \notin {READY, RUNNING},
         \/ Top(c).name \notin Registered
         \/ ts[Top(c).name] # INITIAL
         \/ Top(c).name \in X /\ ts[Top(c).name] = tstate[Top(c).name]
         \/ \E k \in 1..Len(stack[c]) :
              k < Len(stack[c]) /\ stack[c][k].name = Top(c).name
  PROVE  NeverIn(ts, X \cup StackNames(c))
<1> DEFINE m == Top(c).name
           Y == X \cup StackNames(c)
<1>1. Len(stack[c]) \in Nat \ {0} /\ m \in Name
  BY TopProgress
<1>2. ASSUME NEW k \in 1..Len(stack[c]), k < Len(stack[c])
      PROVE  /\ stack[c][k].name \in Name
             /\ tstate[stack[c][k].name] = INITIAL
             /\ \E d \in DepsOf(stack[c][k].name) : d \in Y
  <2> DEFINE f == stack[c][k]
  <2>1. /\ f.pc = "called" /\ f.name \in Registered /\ f.name \in Name
        /\ f.dep \in 1..Len(DepsFor(f))
    BY <1>2, LowerFrame DEF Frame
  <2>2. tstate[f.name] = INITIAL
    BY <1>2, <2>1 DEF ProgressInv, Progress, AllProgress, ProgressOK
  <2>3. stack[c][k + 1].name = DepsFor(f)[f.dep]
    BY <1>2 DEF ProgressInv, Progress, Chained
  <2>4. k + 1 \in 1..Len(stack[c])
    BY <1>1, <1>2
  <2>5. DepsFor(f)[f.dep] \in Y
    BY <2>3, <2>4 DEF StackNames
  <2>6. DepsFor(f)[f.dep] \in DepsOf(f.name)
    <3>1. DepsFor(f) \in Seq(Name)
      BY <2>1, FindRegistered
         DEF DepsFor, Descriptor, ProgressInv, ShapeInv, SignalInv
    <3>2. DOMAIN DepsFor(f) = 1..Len(DepsFor(f))
      BY <3>1, LenProperties
    <3>3. QED
      BY <2>1, <3>2 DEF DepsFor, DepsOf
  <2>7. QED
    BY <2>1, <2>2, <2>5, <2>6
<1> HIDE DEF Y
<1>3. ASSUME NEW x \in Y
      PROVE  /\ ts[x] \notin {READY, RUNNING}
             /\ x \in Registered /\ ts[x] = INITIAL => \E d \in DepsOf(x) : d \in Y
  <2>1. CASE \E k \in 1..Len(stack[c]) : k < Len(stack[c]) /\ stack[c][k].name = x
    BY <1>2, <2>1 DEF INITIAL, READY, RUNNING
  <2>2. CASE x \in X /\ x # m
    BY <2>2 DEF NeverIn, Y
  <2>3. CASE x = m
    <3>1. CASE m \in X /\ ts[m] = tstate[m]
      BY <2>3, <3>1 DEF NeverIn, Y
    <3>2. CASE m \notin Registered \/ ts[m] # INITIAL
      BY <2>3, <3>2
    <3>3. QED
      BY <2>1, <2>3, <3>1, <3>2
  <2>4. x \in X \/ \E k \in 1..Len(stack[c]) : stack[c][k].name = x
    BY DEF Y, StackNames
  <2>5. \A k \in 1..Len(stack[c]) : k < Len(stack[c]) \/ stack[c][k].name = m
    BY <1>1 DEF Top
  <2>6. QED
    BY <2>1, <2>2, <2>3, <2>4, <2>5
<1>4. QED
  BY <1>3 DEF NeverIn, Y

LEMMA DoomedFrom ==
  ASSUME LoopInv, NEW X \in SUBSET Name, Doomed(X), NEW Y \in SUBSET Name, X \subseteq Y,
         UNCHANGED <<registry, top>>, NeverIn(tstate', Y),
         \A n \in Name : tstate'[n] = FAILED => n \in Y,
         \A n \in Name : tstate[n] = READY => tstate'[n] = READY,
         \A c \in Caller :
           Erring(c)' =>
             /\ StackNames(c)' \subseteq Y
             /\ stack'[c] = <<>> => registry[cursor[c]].name \in Y
  PROVE  Doomed(Y)'
<1>1. /\ Registered' = Registered /\ AutoStart' = AutoStart
      /\ \A n : DepsOf(n)' = DepsOf(n)
      /\ cursor' = cursor /\ failed_count' = failed_count /\ registry' = registry
  BY DEF Registered, AutoStart, DepsOf, find_thread_descriptor, top
<1>2. NeverIn(tstate, Y)'
  BY <1>1 DEF NeverIn
<1>3. \A i \in 1..Len(registry) : registry[i].name \in Name
  BY RegisteredIsName, LenProperties DEF LoopInv, RegistryInv, Registered, TypeOK
<1>4. /\ \A c \in Caller : failed_count[c] # 0 => \E n \in Y : n \in AutoStart
      /\ \A c \in Caller : \A i \in 1..Len(registry) :
           i < cursor[c] /\ registry[i].auto_start =>
             \/ tstate'[registry[i].name] = READY
             \/ registry[i].name \in Y /\ failed_count[c] # 0
  BY <1>3 DEF Doomed
<1>5. QED
  BY <1>1, <1>2, <1>4 DEF Doomed

LEMMA MoveDoom ==
  ASSUME LoopInv, OneCaller, NEW c \in Caller, stack[c] # <<>>,
         NEW f, Kinds(c, f), UNCHANGED <<registration, result, top>>,
         NEW X \in SUBSET Name, Doomed(X)
  PROVE  (\E Y \in SUBSET Name : Doomed(Y))'
<1> DEFINE m == Top(c).name
<1>1. /\ stack'[c] # <<>> /\ Top(c)' = f /\ Len(stack'[c]) = Len(stack[c])
      /\ \A k \in 1..Len(stack'[c]) : stack'[c][k].name = stack[c][k].name
  BY TopAfterMove DEF LoopInv, Kinds
<1>2. StackNames(c)' = StackNames(c)
  BY <1>1 DEF StackNames
<1>3. Erring(c)' => GivesUp(f)
  BY <1>1 DEF Erring, At, Kinds
<1>4. /\ m \in Name /\ Len(stack[c]) \in 1..Len(stack[c])
      /\ tstate \in [Name -> ThreadState]
  BY TopProgress DEF LoopInv, ProgressInv, ShapeInv, SignalInv, TypeOK
<1>5. UNCHANGED registry
  BY DEF registration
<1>6. /\ NeverIn(tstate, X)
      /\ \A n \in Name : tstate[n] = FAILED => n \in X
  BY DEF Doomed
<1>7. CASE GoesOn(c, f)
  <2>1. NeverIn(tstate', X)
    BY <1>6, <1>7 DEF GoesOn
  <2>2. Doomed(X)'
    BY <1>3, <1>5, <1>6, <1>7, <2>1, DoomedFrom DEF GoesOn, OneCaller
  <2>3. QED
    BY <2>2
<1>8. CASE Starts(c, f)
  <2>1. m \notin X
    <3>1. CASE tstate[m] = RUNNING
      BY <1>6, <3>1 DEF NeverIn
    <3>2. CASE /\ m \in Registered /\ tstate[m] = INITIAL
               /\ \A d \in DepsOf(m) : tstate[d] = READY
      BY <1>6, <3>2 DEF NeverIn
    <3>3. QED
      BY <1>8, <3>1, <3>2 DEF Starts
  <2>2. PICK s \in {RUNNING, READY} : tstate' = [tstate EXCEPT ![m] = s]
    BY <1>8 DEF Starts
  <2>3. NeverIn(tstate', X)
    BY <1>4, <1>6, <2>1, <2>2 DEF NeverIn
  <2>4. \A n \in Name : tstate'[n] = FAILED => n \in X
    BY <1>4, <1>6, <2>2 DEF RUNNING, READY, FAILED
  <2>5. \A n \in Name : tstate[n] = READY => tstate'[n] = READY
    BY <1>4, <1>8 DEF Starts, INITIAL, RUNNING, READY
  <2>6. Doomed(X)'
    BY <1>3, <1>5, <1>8, <2>3, <2>4, <2>5, DoomedFrom DEF Starts, OneCaller
  <2>7. QED
    BY <2>6
<1>9. CASE FailsFor(c, f)
  <2>1. PICK Y \in SUBSET Name : Y = X \cup StackNames(c)
    BY StackNamesAreNames DEF LoopInv
  <2>2. m \in StackNames(c)
    BY <1>4 DEF StackNames, Top
  <2>3. /\ \A n \in Name : n # m => tstate'[n] = tstate[n]
        /\ tstate'[m] \notin {READY, RUNNING}
        /\ m \notin Registered \/ tstate'[m] # INITIAL
           \/ (m \in X /\ tstate'[m] = tstate[m])
        /\ \A n \in Name : tstate[n] = READY => tstate'[n] = READY
    <3>1. CASE /\ tstate' = [tstate EXCEPT ![m] = FAILED]
               /\ tstate[m] \in {INITIAL, RUNNING}
      BY <1>4, <3>1 DEF INITIAL, RUNNING, READY, FAILED
    <3>2. CASE tstate' = tstate /\ m \notin Registered
      BY <1>4, <3>2 DEF LoopInv, ProgressInv, Progress, StartsAfterDeps,
                        INITIAL, RUNNING, READY
    <3>3. CASE tstate' = tstate /\ tstate[m] = FAILED
      BY <3>3 DEF INITIAL, RUNNING, READY, FAILED
    <3>4. CASE tstate' = tstate /\ Erring(c)
      <4>1. m \in X
        BY <2>2, <3>4 DEF Doomed
      <4>2. QED
        BY <1>6, <3>4, <4>1 DEF NeverIn
    <3>5. QED
      BY <1>9, <3>1, <3>2, <3>3, <3>4 DEF FailsFor, HasReason
  <2>4. NeverIn(tstate', Y)
    <3>1. PICK ts : ts = tstate'
      OBVIOUS
    <3>2. NeverIn(ts, Y)
      BY <1>6, <2>1, <2>3, <3>1, DoomedStack DEF LoopInv
    <3>3. QED
      BY <3>1, <3>2
  <2>5. \A n \in Name : tstate'[n] = FAILED => n \in Y
    BY <1>6, <2>1, <2>2, <2>3
  <2>6. Doomed(Y)'
    BY <1>1, <1>2, <1>5, <2>1, <2>3, <2>4, <2>5, DoomedFrom DEF OneCaller
  <2>7. QED
    BY <2>6
<1>10. QED
  BY <1>7, <1>8, <1>9 DEF Kinds

LEMMA ReturnDoom ==
  ASSUME LoopInv, OneCaller, NEW c \in Caller, stack[c] # <<>>,
         NEW r \in {"ok", "err"}, Return(c, r), UNCHANGED <<registration, tstate, top>>,
         \/ r = "ok"
         \/ GivesUp(Top(c))
         \/ Top(c).name \notin Registered
         \/ \E k \in 1..Len(stack[c]) :
              k < Len(stack[c]) /\ stack[c][k].name = Top(c).name,
         NEW X \in SUBSET Name, Doomed(X)
  PROVE  (\E Y \in SUBSET Name : Doomed(Y))'
<1> DEFINE m == Top(c).name
<1>1. /\ stack' \in [Caller -> Seq(Frame)]
      /\ \A k \in 1..Len(stack'[c]) :
           k \in 1..Len(stack[c]) /\ stack'[c][k] = stack[c][k]
      /\ stack'[c] # <<>> => Top(c)'.pc = "called"
      /\ result'[c] = r
  BY TopAfterReturn DEF LoopInv, Ret
<1>2. UNCHANGED registry /\ tstate' = tstate /\ UNCHANGED top
  BY DEF registration
<1>3. /\ NeverIn(tstate, X)
      /\ \A n \in Name : tstate[n] = FAILED => n \in X
  BY DEF Doomed
<1>4. CASE r = "ok"
  <2>1. ~Erring(c)'
    BY <1>1, <1>4 DEF Erring, GivesUp, At
  <2>2. NeverIn(tstate', X)
    BY <1>2, <1>3
  <2>3. Doomed(X)'
    BY <1>2, <1>3, <2>1, <2>2, DoomedFrom DEF OneCaller
  <2>4. QED
    BY <2>3
<1>5. CASE \/ GivesUp(Top(c))
           \/ m \notin Registered
           \/ \E k \in 1..Len(stack[c]) : k < Len(stack[c]) /\ stack[c][k].name = m
  <2>1. PICK Y \in SUBSET Name : Y = X \cup StackNames(c)
    BY StackNamesAreNames DEF LoopInv
  <2>2. m \in Name /\ Len(stack[c]) \in 1..Len(stack[c]) /\ Len(stack[c]) \in Nat \ {0}
    BY TopProgress DEF LoopInv
  <2>3. /\ tstate[m] \notin {READY, RUNNING}
        /\ \/ m \notin Registered
           \/ m \in X
           \/ \E k \in 1..Len(stack[c]) : k < Len(stack[c]) /\ stack[c][k].name = m
    <3>1. CASE GivesUp(Top(c))
      <4>1. m \in StackNames(c)
        BY <2>2 DEF StackNames, Top
      <4>2. Erring(c)
        BY <3>1 DEF Erring
      <4>3. m \in X
        BY <4>1, <4>2 DEF Doomed
      <4>4. QED
        BY <1>3, <4>3 DEF NeverIn
    <3>2. CASE m \notin Registered
      BY <2>2, <3>2 DEF LoopInv, ProgressInv, Progress, StartsAfterDeps,
                        INITIAL, RUNNING, READY
    <3>3. CASE \E k \in 1..Len(stack[c]) : k < Len(stack[c]) /\ stack[c][k].name = m
      <4>1. PICK k \in 1..Len(stack[c]) : k < Len(stack[c]) /\ stack[c][k].name = m
        BY <3>3
      <4>2. stack[c][k].pc = "called"
        BY <4>1, LowerFrame DEF LoopInv
      <4>3. tstate[m] = INITIAL
        BY <4>1, <4>2 DEF LoopInv, ProgressInv, Progress, AllProgress, ProgressOK
      <4>4. QED
        BY <3>3, <4>3 DEF INITIAL, RUNNING, READY
    <3>4. QED
      BY <1>5, <3>1, <3>2, <3>3
  <2>4. NeverIn(tstate', Y)
    <3>1. PICK ts : ts = tstate
      OBVIOUS
    <3>2. NeverIn(ts, Y)
      BY <1>3, <2>1, <2>3, <3>1, DoomedStack DEF LoopInv
    <3>3. QED
      BY <1>2, <3>1, <3>2
  <2>5. StackNames(c)' \subseteq Y
    BY <1>1, <2>1 DEF StackNames
  <2>6. registry[cursor[c]].name \in Y
    <3>1. stack[c][1].name = registry[cursor[c]].name /\ 1 \in 1..Len(stack[c])
      BY <2>2 DEF LoopInv, Outer
    <3>2. QED
      BY <2>1, <3>1 DEF StackNames
  <2>7. Doomed(Y)'
    BY <1>2, <1>3, <2>1, <2>4, <2>5, <2>6, DoomedFrom DEF OneCaller
  <2>8. QED
    BY <2>7
<1>6. QED
  BY <1>4, <1>5

LEMMA CallDoom ==
  ASSUME LoopInv, OneCaller, NEW c \in Caller, CallDep(c) \/ BeginCall(c),
         NEW X \in SUBSET Name, Doomed(X)
  PROVE  (\E Y \in SUBSET Name : Doomed(Y))'
<1>1. stack'[c] # <<>> /\ Top(c)'.pc = "enter"
  BY TopAfterCall DEF LoopInv
<1>2. ~Erring(c)'
  BY <1>1 DEF Erring, GivesUp, At
<1>3. UNCHANGED registry /\ tstate' = tstate /\ UNCHANGED top
  BY DEF CallDep, BeginCall, registration
<1>4. NeverIn(tstate', X) /\ \A n \in Name : tstate[n] = FAILED => n \in X
  BY <1>3 DEF Doomed
<1>5. Doomed(X)'
  BY <1>2, <1>3, <1>4, DoomedFrom DEF OneCaller
<1>6. QED
  BY <1>5

\* The loop passes a thread: it is READY, or it is lost and has been counted.
LEMMA CursorDoom ==
  ASSUME LoopInv, OneCaller, NEW c \in Caller, Request[c] = ALL,
         SkipThread(c) \/ EndCall(c), NEW X \in SUBSET Name, Doomed(X)
  PROVE  (\E Y \in SUBSET Name : Doomed(Y))'
<1>1. /\ stack[c] = <<>> /\ stack'[c] = <<>>
      /\ UNCHANGED <<registry, tstate>>
      /\ cursor' = [cursor EXCEPT ![c] = cursor[c] + 1]
      /\ cursor[c] <= Len(registry)
  BY DEF SkipThread, EndCall, AtTop, registration, Iterations
<1>2. /\ TypeOK
      /\ result \in [Caller -> Ret] /\ failed_count \in [Caller -> Nat]
      /\ cursor \in [Caller -> Nat \ {0}] /\ Len(registry) \in Nat
      /\ tstate \in [Name -> ThreadState]
  BY LenProperties DEF LoopInv, RegistryInv, TypeOK
<1>3. cursor[c] \in 1..Len(registry) /\ cursor'[c] = cursor[c] + 1
  BY <1>1, <1>2
<1>4. DOMAIN registry = 1..Len(registry)
  BY <1>2, LenProperties DEF TypeOK
<1> DEFINE n == registry[cursor[c]].name
<1>5. n \in Registered /\ n \in Name
  BY <1>2, <1>3, <1>4, RegisteredIsName DEF Registered
<1>6. registry[cursor[c]].auto_start => n \in AutoStart
  BY <1>3, <1>4 DEF AutoStart
<1>7. /\ registry[cursor[c]].auto_start =>
           tstate[n] = READY \/ (n \in X /\ failed_count'[c] # 0)
      /\ result'[c] = "none"
      /\ failed_count[c] # 0 => failed_count'[c] # 0
      /\ failed_count'[c] # 0 => \E x \in X : x \in AutoStart
  <2>1. CASE SkipThread(c)
    <3>1. result[c] = "none" /\ UNCHANGED <<result, failed_count>>
      BY <2>1 DEF SkipThread
    <3>2. ~Erring(c)
      BY <1>1, <3>1 DEF Erring, At
    <3>3. tstate[n] # RUNNING
      BY <1>1, <1>5 DEF LoopInv, ProgressInv, Progress, RunsOnTop, OneCaller, At
    <3>4. registry[cursor[c]].auto_start => tstate[n] \in {READY, FAILED}
      BY <1>2, <1>5, <2>1, <3>3 DEF SkipThread, ThreadState
    <3>5. tstate[n] = FAILED => n \in X /\ failed_count[c] # 0
      BY <1>5, <3>2 DEF LoopInv, FailedNoticed, Doomed
    <3>6. QED
      BY <3>1, <3>4, <3>5 DEF Doomed
  <2>2. CASE EndCall(c)
    <3>1. result[c] # "none" /\ result'[c] = "none"
      BY <1>2, <2>2 DEF EndCall
    <3>2. registry[cursor[c]].auto_start
      BY <3>1 DEF LoopInv, Outer
    <3>3. CASE result[c] = "err"
      <4>1. Erring(c)
        BY <1>1, <3>3 DEF Erring
      <4>2. n \in X
        BY <1>1, <4>1 DEF Doomed
      <4>3. failed_count'[c] # 0
        BY <1>2, <2>2, <3>3 DEF EndCall
      <4>4. QED
        BY <1>6, <3>1, <3>2, <4>2, <4>3
    <3>4. CASE result[c] = "ok"
      <4>1. tstate[n] = READY
        BY <1>1, <3>4 DEF LoopInv, Outer
      <4>2. failed_count' = failed_count
        BY <2>2, <3>4 DEF EndCall
      <4>3. QED
        BY <3>1, <4>1, <4>2 DEF Doomed
    <3>5. QED
      BY <1>2, <3>1, <3>3, <3>4 DEF Ret
  <2>3. QED
    BY <2>1, <2>2
<1>8. ~Erring(c)'
  BY <1>1, <1>7 DEF Erring, At
<1>9. /\ NeverIn(tstate, X)'
      /\ \A x \in Name : tstate'[x] = FAILED => x \in X
  <2>1. Registered' = Registered /\ \A x : DepsOf(x)' = DepsOf(x)
    BY <1>1 DEF Registered, DepsOf, find_thread_descriptor
  <2>2. QED
    BY <1>1, <2>1 DEF Doomed, NeverIn
<1>10. AutoStart' = AutoStart
  BY <1>1 DEF AutoStart
<1>11. ASSUME NEW i \in 1..Len(registry), i < cursor'[c], registry[i].auto_start
       PROVE  \/ tstate[registry[i].name] = READY
              \/ registry[i].name \in X /\ failed_count'[c] # 0
  <2>1. i < cursor[c] \/ i = cursor[c]
    BY <1>2, <1>3, <1>11
  <2>2. QED
    BY <1>7, <1>11, <2>1 DEF Doomed
<1>12. Doomed(X)'
  BY <1>1, <1>7, <1>8, <1>9, <1>10, <1>11 DEF Doomed, OneCaller
<1>13. QED
  BY <1>12

LEMMA RegisterDoom ==
  ASSUME LoopInv, register_thread_descriptor
  PROVE  (\E Y \in SUBSET Name : Doomed(Y))'
<1>1. ~Constructed
  BY TablesAssumption, LenProperties
     DEF register_thread_descriptor, LoopInv, RegistryInv, TypeOK, Constructed
<1>2. /\ \A n \in Name : tstate[n] = INITIAL
      /\ \A c \in Caller : stack[c] = <<>> /\ result[c] = "none" /\ cursor[c] = 1
                           /\ failed_count[c] = 0
      /\ UNCHANGED <<tstate, stack, result, cursor, failed_count>>
  BY <1>1 DEF LoopInv, Outer, ProgressInv, ShapeInv, SignalInv, FreshUntilConstructed,
              register_thread_descriptor, top
<1>3. \A c \in Caller : ~Erring(c)'
  BY <1>2 DEF Erring, At
<1>4. NeverIn(tstate, {})'
  BY DEF NeverIn
<1>5. Doomed({})'
  <2>1. \A n \in Name : tstate'[n] # FAILED
    BY <1>2 DEF INITIAL, FAILED
  <2>2. \A c \in Caller : failed_count'[c] = 0 /\ cursor'[c] = 1
    BY <1>2
  <2>3. QED
    BY <1>3, <1>4, <2>1, <2>2 DEF Doomed
<1>6. QED
  BY <1>5

LEMMA ServiceDoom ==
  ASSUME UNCHANGED <<registration, tstate, stack, result, top>>,
         NEW X \in SUBSET Name, Doomed(X)
  PROVE  (\E Y \in SUBSET Name : Doomed(Y))'
<1>1. /\ Registered' = Registered /\ AutoStart' = AutoStart
      /\ \A n : DepsOf(n)' = DepsOf(n)
      /\ UNCHANGED <<registry, tstate, stack, result, cursor, failed_count>>
  BY DEF Registered, AutoStart, DepsOf, find_thread_descriptor, registration, top
<1>2. NeverIn(tstate, X)'
  BY <1>1 DEF NeverIn, Doomed
<1>3. \A c \in Caller : Erring(c)' = Erring(c) /\ StackNames(c)' = StackNames(c)
  BY <1>1 DEF Erring, GivesUp, At, Top, StackNames
<1>4. Doomed(X)'
  BY <1>1, <1>2, <1>3 DEF Doomed
<1>5. QED
  BY <1>4

LEMMA DoomInvNext ==
  ASSUME MainAlone, RoomForAll, DoomInv, [Next]_vars
  PROVE  DoomInv'
<1>1. OneCaller /\ \A c \in Caller : Request[c] = ALL
  BY DEF MainAlone, OneCaller
<1>2. LoopInv /\ LoopInv'
  BY LoopInvNext DEF DoomInv
<1>3. PICK X \in SUBSET Name : Doomed(X)
  BY DEF DoomInv
<1> DEFINE Goal == (\E Y \in SUBSET Name : Doomed(Y))'
<1>4. ASSUME NEW c \in Caller, StartThread(c) PROVE Goal
  <2>1. CASE MovesOn(c)
    <3>1. stack[c] # <<>> /\ UNCHANGED <<registration, result, top>>
      BY <2>1, StepMoves DEF DoomInv, LoopInv, ProgressInv, ShapeInv, SignalInv
    <3>2. PICK f : Kinds(c, f)
      BY <1>1, <1>2, <2>1, StepKinds DEF LoopInv
    <3>3. QED
      BY <1>1, <1>2, <1>3, <3>1, <3>2, MoveDoom
  <2>2. CASE Enter(c)
    <3>1. stack[c] # <<>> /\ UNCHANGED <<registration, tstate, top>>
      BY <2>2 DEF Enter, At
    <3>2. CASE \E f : Kinds(c, f) /\ result' = result
      BY <1>1, <1>2, <1>3, <3>1, <3>2, MoveDoom
    <3>3. CASE /\ Return(c, "err")
               /\ \/ Top(c).name \notin Registered
                  \/ \E k \in 1..Len(stack[c]) :
                       k < Len(stack[c]) /\ stack[c][k].name = Top(c).name
      BY <1>1, <1>2, <1>3, <3>1, <3>3, ReturnDoom
    <3>4. QED
      BY <1>2, <2>2, <3>2, <3>3, EnterKinds DEF LoopInv
  <2>3. CASE PopAndReturn(c)
    <3>1. UNCHANGED <<registration, tstate, top>>
      BY <2>3 DEF PopAndReturn
    <3>2. PICK r \in {"ok", "err"} :
            stack[c] # <<>> /\ Return(c, r) /\ (r = "ok" \/ GivesUp(Top(c)))
      BY <1>2, <2>3, PopKinds DEF LoopInv
    <3>3. QED
      BY <1>1, <1>2, <1>3, <3>1, <3>2, ReturnDoom
  <2>4. QED
    BY <1>1, <1>2, <1>3, <1>4, <2>1, <2>2, <2>3, CallDoom DEF StartThread, MovesOn
<1>5. ASSUME NEW c \in Caller, CallerStep(c) PROVE Goal
  BY <1>1, <1>2, <1>3, <1>4, <1>5, CallDoom, CursorDoom DEF CallerStep
<1>6. ASSUME NEW n \in Name, GiveReadySem(n) \/ EndSilently(n) PROVE Goal
  BY <1>3, <1>6, ServiceDoom DEF GiveReadySem, EndSilently
<1>7. ASSUME MainLoop \/ UNCHANGED vars PROVE Goal
  BY <1>3, <1>7, ServiceDoom DEF MainLoop, vars
<1>8. Goal
  BY <1>2, <1>5, <1>6, <1>7, RegisterDoom DEF Next
<1>9. QED
  BY <1>2, <1>8 DEF DoomInv

LEMMA DoomInvInit == Init => DoomInv
<1> SUFFICES ASSUME Init PROVE DoomInv
  OBVIOUS
<1>1. \A c \in Caller : ~Erring(c)
  BY DEF Init, Erring, At
<1>2. NeverIn(tstate, {})
  BY DEF NeverIn
<1>3. Doomed({})
  BY <1>1, <1>2 DEF Init, Doomed, INITIAL, FAILED
<1>4. QED
  BY <1>3, LoopInvInit DEF DoomInv

\* Every thread to be started automatically has been passed by a finished start.
LEMMA DoneMeansPassed ==
  ASSUME MainAlone, DoomInv, AllDone, NEW c \in Caller
  PROVE  \A n \in AutoStart : \E i \in 1..Len(registry) :
           i < cursor[c] /\ registry[i].auto_start /\ registry[i].name = n
<1>1. cursor[c] > Len(registry) /\ cursor[c] \in Nat
  BY DEF MainAlone, AllDone, Done, Iterations, DoomInv, LoopInv, RegistryInv, TypeOK
<1>2. DOMAIN registry = 1..Len(registry) /\ Len(registry) \in Nat
  BY LenProperties DEF DoomInv, LoopInv, RegistryInv, TypeOK
<1>3. \A i \in 1..Len(registry) : i < cursor[c]
  BY <1>1, <1>2
<1>4. QED
  BY <1>2, <1>3 DEF AutoStart

\* What the finished start says: success exactly when every thread it had to
\* start is READY (start_all_auto_threads, whose count of failures does not
\* see the threads it skips because they failed as a dependency of another).
\* It holds for main as the only caller and a call stack with room for every
\* descriptor: a chain of dependencies longer than the stack would leave a
\* thread behind that nothing is wrong with.
THEOREM StartVerdictTrue == MainAlone /\ RoomForAll => (Spec => []VerdictIsTrue)
<1> SUFFICES ASSUME MainAlone, RoomForAll PROVE Spec => []VerdictIsTrue
  OBVIOUS
<1>1. DoomInv /\ [Next]_vars => DoomInv'
  BY DoomInvNext
<1>2. DoomInv => VerdictIsTrue
  <2> SUFFICES ASSUME DoomInv, AllDone, NEW c \in Caller
               PROVE  failed_count[c] = 0 <=> \A n \in AutoStart : tstate[n] = READY
    BY DEF VerdictIsTrue
  <2>1. PICK X \in SUBSET Name : Doomed(X)
    BY DEF DoomInv
  <2>2. failed_count[c] = 0 => \A n \in AutoStart : tstate[n] = READY
    BY <2>1, DoneMeansPassed DEF Doomed
  <2>3. failed_count[c] # 0 => \E n \in AutoStart : tstate[n] # READY
    BY <2>1 DEF Doomed, NeverIn
  <2>4. QED
    BY <2>2, <2>3
<1>3. QED
  BY <1>1, <1>2, DoomInvInit, PTL DEF Spec

\* A broken service stops its dependents and nothing else: after a finished
\* start, a thread whose dependencies are all READY is READY, or is itself the
\* one that failed.
THEOREM OnlyTheBrokenStay == MainAlone /\ RoomForAll => (Spec => []NobodyLeftBehind)
<1> SUFFICES ASSUME MainAlone, RoomForAll PROVE Spec => []NobodyLeftBehind
  OBVIOUS
<1> DEFINE I == DoomInv /\ Reliable
<1>1. I /\ [Next]_vars => I'
  <2> SUFFICES ASSUME I, [Next]_vars PROVE I'
    OBVIOUS
  <2>1. OneCaller
    BY DEF MainAlone, OneCaller
  <2>2. DoomInv'
    BY DoomInvNext
  <2>3. Reliable'
    BY <2>1, ReliableNext DEF DoomInv, LoopInv
  <2>4. QED
    BY <2>2, <2>3
<1>2. I => NobodyLeftBehind
  <2> SUFFICES ASSUME I, AllDone, NEW n \in AutoStart,
                      \A d \in DepsOf(n) : tstate[d] = READY,
                      tstate[n] # READY
               PROVE  n \in Unreliable /\ tstate[n] = FAILED
    BY DEF NobodyLeftBehind
  <2>1. PICK X \in SUBSET Name : Doomed(X)
    BY DEF DoomInv
  <2>2. PICK c \in Caller : TRUE
    BY DEF MainAlone
  <2>3. n \in X
    BY <2>1, <2>2, DoneMeansPassed DEF Doomed
  <2>4. n \in Registered /\ n \in Name /\ tstate \in [Name -> ThreadState]
    BY RegisteredIsName DEF AutoStart, Registered, DoomInv, LoopInv, RegistryInv, TypeOK
  <2>5. tstate[n] = FAILED
    BY <2>1, <2>3, <2>4 DEF Doomed, NeverIn, ThreadState
  <2>6. n \in Unreliable
    BY <2>4, <2>5 DEF Reliable, ReliableNeverFails
  <2>7. QED
    BY <2>5, <2>6
<1>3. Init => I
  BY DoomInvInit, ReliableInit
<1>4. QED
  BY <1>1, <1>2, <1>3, PTL DEF Spec

(***************************************************************************)
(* Reliable services that need nothing but reliable ones come up           *)
(***************************************************************************)

\* Threads without a fault that depend on none but each other, in some order.
SoundPart(G, rank) ==
  \A n \in G :
    /\ n \in AutoStart \ Unreliable
    /\ \A d \in DepsOf(n) : d \in G /\ rank[d] < rank[n]

LEMMA LeastRank ==
  ASSUME NEW G, NEW rank \in [G -> Nat], NEW S \in SUBSET G, S # {}
  PROVE  \E m \in S : \A n \in S : ~(rank[n] < rank[m])
<1> DEFINE R == OpToRel(<, Nat)
           T == {rank[n] : n \in S}
<1>1. IsWellFoundedOn(R, Nat)
  BY NatLessThanWellFounded
<1>2. \A i, j \in Nat : i < j => <<i, j>> \in R
  BY DEF OpToRel
<1>3. T \subseteq Nat /\ T # {}
  OBVIOUS
<1> HIDE DEF R
<1>4. PICK t \in T : \A u \in T : ~ (<<u, t>> \in R)
  <2> HIDE DEF T
  <2>1. QED
    BY <1>1, <1>3, WFMin
<1>5. PICK m \in S : t = rank[m]
  OBVIOUS
<1>6. ASSUME NEW n \in S, rank[n] < rank[m] PROVE FALSE
  <2>1. rank[n] \in T /\ rank[n] \in Nat /\ rank[m] \in Nat
    OBVIOUS
  <2>2. <<rank[n], t>> \in R
    BY <1>2, <1>5, <1>6, <2>1
  <2>3. QED
    BY <1>4, <2>1, <2>2
<1>7. QED
  BY <1>6

\* Of a sound part nobody can be the first not to be READY.
LEMMA SoundPartIsReady ==
  ASSUME NobodyLeftBehind, AllDone,
         NEW G \in SUBSET Name, NEW rank \in [G -> Nat], SoundPart(G, rank)
  PROVE  \A n \in G : tstate[n] = READY
<1> SUFFICES ASSUME {n \in G : tstate[n] # READY} # {} PROVE FALSE
  OBVIOUS
<1>1. PICK m \in {n \in G : tstate[n] # READY} :
             \A n \in {x \in G : tstate[x] # READY} : ~(rank[n] < rank[m])
  BY LeastRank
<1>2. m \in AutoStart \ Unreliable /\ \A d \in DepsOf(m) : d \in G /\ rank[d] < rank[m]
  BY <1>1 DEF SoundPart
<1>3. \A d \in DepsOf(m) : tstate[d] = READY
  BY <1>1, <1>2
<1>4. QED
  BY <1>1, <1>2, <1>3 DEF NobodyLeftBehind

\* Whatever else is broken, cyclic or missing: when main has gone through the
\* registry, every reliable thread that depends on reliable threads only, and
\* not on itself in the end, is READY.
THEOREM SoundPartsComeUp ==
  ASSUME NEW G \in SUBSET Name, NEW rank \in [G -> Nat], MainAlone, RoomForAll
  PROVE  Spec => [](AllDone /\ SoundPart(G, rank) => \A n \in G : tstate[n] = READY)
<1>1. NobodyLeftBehind =>
        (AllDone /\ SoundPart(G, rank) => \A n \in G : tstate[n] = READY)
  BY SoundPartIsReady
<1>2. Spec => []NobodyLeftBehind
  BY OnlyTheBrokenStay
<1>3. QED
  BY <1>1, <1>2, PTL
=============================================================================
