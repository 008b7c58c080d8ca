--------------------- MODULE ThreadDependencyMgr_proofs ---------------------
(***************************************************************************)
(* Proofs about the thread dependency manager, for every table of threads, *)
(* every dependency graph and every limit: first what holds with any       *)
(* number of callers, then what one caller can rely on, as main does, and  *)
(* last that no start goes on for ever, however many there are.            *)
(***************************************************************************)
EXTENDS ThreadDependencyMgr, SequenceTheorems, FiniteSetTheorems,
        WellFoundedInduction, TLAPS

(***************************************************************************)
(* The inductive invariant                                                 *)
(***************************************************************************)

\* Nothing is started before the last constructor has run.
FreshUntilConstructed ==
  ~Constructed =>
    /\ \A n \in Name : inits[n] = 0 /\ tstate[n] = INITIAL
    /\ \A c \in Caller : stack[c] = <<>>

\* A semaphore that can be taken has been given.
SemMeansSignalled == \A n \in Name : sem[n] = 1 => signalled[n]

\* An active call has seen the signal of the dependencies behind its index.
FrameOK(f) ==
  LET deps == find_thread_descriptor(f.name).deps IN
  /\ f.pc \in {"enter", "lookup"} => f.dep = 1
  /\ f.pc \notin {"enter", "lookup", "cleanup"} => f.name \in Registered
  /\ f.pc \in {"deps", "called", "wait", "init"} =>
       \A j \in 1..Len(deps) : j < f.dep => HasSignalled(deps[j])
  /\ f.pc \in {"called", "wait"} => f.dep <= Len(deps)
  /\ f.pc = "wait" => deps[f.dep] \in Registered
  /\ f.pc = "init" => f.dep > Len(deps)

FramesOK == \A c \in Caller : \A k \in 1..Len(stack[c]) : FrameOK(stack[c][k])

SignalInv ==
  /\ TypeOK
  /\ FreshUntilConstructed
  /\ SemMeansSignalled
  /\ ReadyMeansSignalled
  /\ FramesOK
  /\ NoInitBeforeSignal

(***************************************************************************)
(* Lemmas about the operators of the model                                 *)
(***************************************************************************)

LEMMA FindRegistered ==
  ASSUME TypeOK, NEW n \in Registered
  PROVE  find_thread_descriptor(n) \in Descriptor(Name)
<1>1. \E i \in DOMAIN registry : registry[i].name = n
  BY DEF Registered
<1>2. (CHOOSE i \in DOMAIN registry : registry[i].name = n) \in DOMAIN registry
  BY <1>1
<1>3. QED
  BY <1>2, ElementOfSeq, LenProperties DEF TypeOK, find_thread_descriptor, DescriptorIn

LEMMA RegisteredIsName ==
  ASSUME TypeOK
  PROVE  Registered \subseteq Name
<1> SUFFICES ASSUME NEW i \in DOMAIN registry PROVE registry[i].name \in Name
  BY DEF Registered
<1>1. registry[i] \in Descriptor(Name)
  BY ElementOfSeq, LenProperties DEF TypeOK
<1>2. QED
  BY <1>1 DEF Descriptor

LEMMA TopIsFrame ==
  ASSUME TypeOK, NEW c \in Caller, stack[c] # <<>>
  PROVE  /\ Len(stack[c]) \in Nat \ {0}
         /\ Len(stack[c]) \in 1..Len(stack[c])
         /\ Top(c) \in Frame
<1>1. stack[c] \in Seq(Frame)
  BY DEF TypeOK
<1>2. Len(stack[c]) \in Nat \ {0}
  BY <1>1, EmptySeq
<1>3. QED
  BY <1>1, <1>2, ElementOfSeq DEF Top

LEMMA SetTopKeepsFrames ==
  ASSUME TypeOK, NEW c \in Caller, stack[c] # <<>>, NEW f \in Frame, SetTop(c, f)
  PROVE  /\ stack' \in [Caller -> Seq(Frame)]
         /\ \A e \in Caller \ {c} : stack'[e] = stack[e]
         /\ Len(stack'[c]) = Len(stack[c])
         /\ \A k \in 1..Len(stack'[c]) :
              stack'[c][k] = IF k = Len(stack[c]) THEN f ELSE stack[c][k]
<1>1. stack[c] \in Seq(Frame)
  BY DEF TypeOK
<1>2. Len(stack[c]) \in 1..Len(stack[c])
  BY TopIsFrame
<1> DEFINE s == [stack[c] EXCEPT ![Len(stack[c])] = f]
<1>3. stack' = [stack EXCEPT ![c] = s]
  BY DEF SetTop
<1>4. /\ s \in Seq(Frame)
      /\ Len(s) = Len(stack[c])
      /\ \A k \in 1..Len(stack[c]) :
           s[k] = IF k = Len(stack[c]) THEN f ELSE stack[c][k]
  BY <1>1, <1>2, ExceptSeq
<1> HIDE DEF s
<1>5. stack' \in [Caller -> Seq(Frame)] /\ stack'[c] = s
  BY <1>3, <1>4 DEF TypeOK
<1>6. QED
  BY <1>3, <1>4, <1>5 DEF TypeOK

LEMMA ReturnKeepsFrames ==
  ASSUME TypeOK, NEW c \in Caller, stack[c] # <<>>, NEW r \in Ret, Return(c, r)
  PROVE  /\ stack' \in [Caller -> Seq(Frame)]
         /\ result' \in [Caller -> Ret]
         /\ \A e \in Caller \ {c} : stack'[e] = stack[e]
         /\ Len(stack'[c]) = Len(stack[c]) - 1
         /\ \A k \in 1..Len(stack'[c]) : stack'[c][k] = stack[c][k]
<1>1. stack[c] \in Seq(Frame)
  BY DEF TypeOK
<1>2. Len(stack[c]) \in Nat \ {0}
  BY TopIsFrame
<1> DEFINE s == SubSeq(stack[c], 1, Len(stack[c]) - 1)
<1>3. stack' = [stack EXCEPT ![c] = s] /\ result' = [result EXCEPT ![c] = r]
  BY DEF Return
<1>4. \A i \in 1..(Len(stack[c]) - 1) : stack[c][i] \in Frame
  BY <1>1, <1>2, ElementOfSeq
<1>5. /\ s \in Seq(Frame)
      /\ Len(s) = Len(stack[c]) - 1
      /\ \A k \in 1..(Len(stack[c]) - 1) : s[k] = stack[c][k]
  BY <1>2, <1>4, SubSeqProperties
<1> HIDE DEF s
<1>6. QED
  BY <1>3, <1>5 DEF TypeOK

LEMMA CallKeepsFrames ==
  ASSUME TypeOK, NEW c \in Caller, NEW n \in Name, Call(c, n)
  PROVE  /\ stack' \in [Caller -> Seq(Frame)]
         /\ \A e \in Caller \ {c} : stack'[e] = stack[e]
         /\ Len(stack'[c]) = Len(stack[c]) + 1
         /\ \A k \in 1..Len(stack[c]) : stack'[c][k] = stack[c][k]
         /\ stack'[c][Len(stack[c]) + 1] = NewFrame(n)
<1>0. NewFrame(n) \in Frame
  BY DEF NewFrame, Frame, Pc, Ret
<1>1. stack[c] \in Seq(Frame)
  BY DEF TypeOK
<1> DEFINE s == Append(stack[c], NewFrame(n))
<1>2. stack' = [stack EXCEPT ![c] = s]
  BY DEF Call
<1>3. /\ s \in Seq(Frame)
      /\ Len(s) = Len(stack[c]) + 1
      /\ \A k \in 1..Len(stack[c]) : s[k] = stack[c][k]
      /\ s[Len(stack[c]) + 1] = NewFrame(n)
  BY <1>0, <1>1, AppendProperties
<1> HIDE DEF s
<1>4. QED
  BY <1>2, <1>3 DEF TypeOK

LEMMA FrameUpdates ==
  ASSUME NEW f \in Frame
  PROVE  /\ \A pc \in Pc :
              LET g == [f EXCEPT !.pc = pc] IN
              g \in Frame /\ g.name = f.name /\ g.pc = pc /\ g.dep = f.dep
         /\ LET g == [f EXCEPT !.pc = "deps", !.dep = @ + 1] IN
              g \in Frame /\ g.name = f.name /\ g.pc = "deps" /\ g.dep = f.dep + 1
<1>1. \A pc \in Pc :
        LET g == [f EXCEPT !.pc = pc] IN
        g \in Frame /\ g.name = f.name /\ g.pc = pc /\ g.dep = f.dep
  BY DEF Frame
<1>2. LET g == [f EXCEPT !.pc = "deps", !.dep = @ + 1] IN
        g \in Frame /\ g.name = f.name /\ g.pc = "deps" /\ g.dep = f.dep + 1
  <2>1. f.dep + 1 \in Nat \ {0}
    BY DEF Frame
  <2>2. "deps" \in Pc
    BY DEF Pc
  <2>3. QED
    BY <2>1, <2>2 DEF Frame
<1>3. QED
  BY <1>1, <1>2

\* What is said of a frame depends on the registry and the signals alone.
LEMMA FramesOKFromOld ==
  ASSUME UNCHANGED <<registry, signalled>>,
         \A e \in Caller : \A k \in 1..Len(stack'[e]) :
           \E f : f = stack'[e][k] /\ FrameOK(f)
  PROVE  FramesOK'
<1> SUFFICES ASSUME NEW e \in Caller, NEW k \in 1..Len(stack'[e])
             PROVE  FrameOK(stack[e][k])'
  BY DEF FramesOK
<1>1. PICK f : f = stack'[e][k] /\ FrameOK(f)
  OBVIOUS
<1>2. \A n : HasSignalled(n) <=> HasSignalled(n)'
  BY DEF HasSignalled, Registered, find_thread_descriptor
<1>3. Registered' = Registered
  BY DEF Registered
<1>4. QED
  BY <1>1, <1>2, <1>3 DEF FrameOK, find_thread_descriptor, HasSignalled

LEMMA SetTopOK ==
  ASSUME TypeOK, FramesOK, NEW c \in Caller, stack[c] # <<>>,
         NEW f \in Frame, FrameOK(f), SetTop(c, f), UNCHANGED <<registry, signalled>>
  PROVE  stack' \in [Caller -> Seq(Frame)] /\ FramesOK'
<1>1. /\ stack' \in [Caller -> Seq(Frame)]
      /\ \A e \in Caller \ {c} : stack'[e] = stack[e]
      /\ Len(stack'[c]) = Len(stack[c])
      /\ \A k \in 1..Len(stack'[c]) :
           stack'[c][k] = IF k = Len(stack[c]) THEN f ELSE stack[c][k]
  BY SetTopKeepsFrames
<1>2. ASSUME NEW e \in Caller, NEW k \in 1..Len(stack'[e])
      PROVE  \E g : g = stack'[e][k] /\ FrameOK(g)
  BY <1>1, <1>2 DEF FramesOK
<1>3. QED
  BY <1>1, <1>2, FramesOKFromOld

LEMMA ReturnOK ==
  ASSUME TypeOK, FramesOK, NEW c \in Caller, stack[c] # <<>>, NEW r \in Ret,
         Return(c, r), UNCHANGED <<registry, signalled>>
  PROVE  stack' \in [Caller -> Seq(Frame)] /\ result' \in [Caller -> Ret] /\ FramesOK'
<1>1. /\ stack' \in [Caller -> Seq(Frame)]
      /\ result' \in [Caller -> Ret]
      /\ \A e \in Caller \ {c} : stack'[e] = stack[e]
      /\ Len(stack'[c]) = Len(stack[c]) - 1
      /\ \A k \in 1..Len(stack'[c]) : stack'[c][k] = stack[c][k]
  BY ReturnKeepsFrames
<1>2. Len(stack[c]) \in Nat \ {0}
  BY TopIsFrame
<1>3. ASSUME NEW e \in Caller, NEW k \in 1..Len(stack'[e])
      PROVE  \E g : g = stack'[e][k] /\ FrameOK(g)
  <2>1. k \in 1..Len(stack[e]) /\ stack'[e][k] = stack[e][k]
    <3>1. CASE e = c
      BY <1>1, <1>2, <3>1
    <3>2. CASE e # c
      BY <1>1, <3>2
    <3>3. QED
      BY <3>1, <3>2
  <2>2. QED
    BY <2>1, Zenon DEF FramesOK
<1>4. QED
  BY <1>1, <1>3, FramesOKFromOld

LEMMA CallOK ==
  ASSUME TypeOK, FramesOK, NEW c \in Caller, NEW n \in Name, Call(c, n),
         UNCHANGED <<registry, signalled>>
  PROVE  stack' \in [Caller -> Seq(Frame)] /\ FramesOK'
<1>1. /\ stack' \in [Caller -> Seq(Frame)]
      /\ \A e \in Caller \ {c} : stack'[e] = stack[e]
      /\ Len(stack'[c]) = Len(stack[c]) + 1
      /\ \A k \in 1..Len(stack[c]) : stack'[c][k] = stack[c][k]
      /\ stack'[c][Len(stack[c]) + 1] = NewFrame(n)
  BY CallKeepsFrames
<1>2. Len(stack[c]) \in Nat
  BY LenProperties DEF TypeOK
<1>3. FrameOK(NewFrame(n))
  BY DEF FrameOK, NewFrame
<1>4. ASSUME NEW e \in Caller, NEW k \in 1..Len(stack'[e])
      PROVE  \E g : g = stack'[e][k] /\ FrameOK(g)
  BY <1>1, <1>2, <1>3, <1>4 DEF FramesOK
<1>5. QED
  BY <1>1, <1>4, FramesOKFromOld

\* A frame put in the place of the top one, and a call made from it.
LEMMA CallFromTopOK ==
  ASSUME TypeOK, FramesOK, NEW c \in Caller, stack[c] # <<>>,
         NEW f \in Frame, FrameOK(f), NEW n \in Name,
         stack' = [stack EXCEPT ![c] = Append([@ EXCEPT ![Len(@)] = f], NewFrame(n))],
         UNCHANGED <<registry, signalled>>
  PROVE  stack' \in [Caller -> Seq(Frame)] /\ FramesOK'
<1>1. stack[c] \in Seq(Frame)
  BY DEF TypeOK
<1>2. Len(stack[c]) \in 1..Len(stack[c]) /\ Len(stack[c]) \in Nat
  BY TopIsFrame
<1> DEFINE s == [stack[c] EXCEPT ![Len(stack[c])] = f]
           t == Append(s, NewFrame(n))
<1>3. /\ s \in Seq(Frame)
      /\ Len(s) = Len(stack[c])
      /\ \A k \in 1..Len(stack[c]) :
           s[k] = IF k = Len(stack[c]) THEN f ELSE stack[c][k]
  BY <1>1, <1>2, ExceptSeq
<1>4. NewFrame(n) \in Frame /\ FrameOK(NewFrame(n))
  BY DEF NewFrame, Frame, Pc, Ret, FrameOK
<1>5. stack' = [stack EXCEPT ![c] = t]
  OBVIOUS
<1> HIDE DEF s
<1>6. /\ t \in Seq(Frame)
      /\ Len(t) = Len(s) + 1
      /\ \A k \in 1..Len(s) : t[k] = s[k]
      /\ t[Len(s) + 1] = NewFrame(n)
  BY <1>3, <1>4, AppendProperties
<1> HIDE DEF t
<1>7. /\ stack' \in [Caller -> Seq(Frame)]
      /\ stack'[c] = t
      /\ \A e \in Caller \ {c} : stack'[e] = stack[e]
  BY <1>5, <1>6 DEF TypeOK
<1>8. ASSUME NEW e \in Caller, NEW k \in 1..Len(stack'[e])
      PROVE  \E g : g = stack'[e][k] /\ FrameOK(g)
  <2>1. CASE e # c
    BY <1>7, <1>8, <2>1 DEF FramesOK
  <2>2. CASE e = c
    BY <1>2, <1>3, <1>4, <1>6, <1>7, <1>8, <2>2 DEF FramesOK
  <2>3. QED
    BY <2>1, <2>2
<1>9. QED
  BY <1>7, <1>8, FramesOKFromOld

(***************************************************************************)
(* Every step preserves the invariant                                      *)
(***************************************************************************)

\* Steps of the recursion that leave the services and the states alone.
LEMMA QuietStep ==
  ASSUME SignalInv, NEW c \in Caller, Constructed,
         UNCHANGED <<registration, tstate, services, inits>>,
         stack' \in [Caller -> Seq(Frame)], FramesOK',
         call_stack' \in Seq(Name), result' \in [Caller -> Ret],
         cursor' \in [Caller -> Nat \ {0}], failed_count' \in [Caller -> Nat]
  PROVE  SignalInv'
<1>1. TypeOK'
  BY DEF SignalInv, TypeOK, registration, services
<1>2. FreshUntilConstructed'
  BY DEF FreshUntilConstructed, Constructed, registration
<1>3. SemMeansSignalled'
  BY DEF SignalInv, SemMeansSignalled, services
<1>4. ReadyMeansSignalled' /\ NoInitBeforeSignal'
  BY DEF SignalInv, ReadyMeansSignalled, NoInitBeforeSignal, HasSignalled,
         DepsOf, Registered, find_thread_descriptor, registration, services
<1>5. QED
  BY <1>1, <1>2, <1>3, <1>4 DEF SignalInv

LEMMA ActiveMeansConstructed ==
  ASSUME SignalInv, NEW c \in Caller, stack[c] # <<>>
  PROVE  Constructed
  BY DEF SignalInv, FreshUntilConstructed

\* What the topmost frame of a caller tells.
LEMMA TopOK ==
  ASSUME SignalInv, NEW c \in Caller, stack[c] # <<>>
  PROVE  Top(c) \in Frame /\ FrameOK(Top(c))
<1>1. Top(c) \in Frame /\ Len(stack[c]) \in 1..Len(stack[c])
  BY TopIsFrame DEF SignalInv
<1>2. FrameOK(Top(c))
  BY <1>1 DEF SignalInv, FramesOK, Top
<1>3. QED
  BY <1>1, <1>2

LEMMA EnterStep ==
  ASSUME SignalInv, NEW c \in Caller, Enter(c)
  PROVE  SignalInv'
<1>1. stack[c] # <<>> /\ Top(c).pc = "enter"
  BY DEF Enter, At
<1>2. Constructed /\ Top(c) \in Frame /\ FrameOK(Top(c))
  BY <1>1, ActiveMeansConstructed, TopOK
<1>3. UNCHANGED <<registration, tstate, services, inits, cursor, failed_count>>
  BY DEF Enter, top
<1>4. UNCHANGED <<registry, signalled>>
  BY <1>3 DEF registration, services
<1>5. CASE Return(c, "err") /\ UNCHANGED call_stack
  <2>1. stack' \in [Caller -> Seq(Frame)] /\ result' \in [Caller -> Ret] /\ FramesOK'
    BY <1>1, <1>4, <1>5, ReturnOK DEF SignalInv, Ret
  <2>2. QED
    BY <2>1, <1>2, <1>3, <1>5, QuietStep DEF SignalInv, TypeOK
<1>6. CASE push_call_stack(Top(c).name) /\ Goto(c, "lookup") /\ UNCHANGED result
  <2> DEFINE f == [Top(c) EXCEPT !.pc = "lookup"]
  <2>1. f \in Frame /\ f.pc = "lookup" /\ f.dep = 1
    BY <1>1, <1>2, FrameUpdates DEF Pc, FrameOK
  <2>2. SetTop(c, f)
    BY <1>6 DEF Goto
  <2> HIDE DEF f
  <2>3. FrameOK(f)
    BY <2>1 DEF FrameOK
  <2>4. stack' \in [Caller -> Seq(Frame)] /\ FramesOK'
    BY <1>1, <1>4, <2>1, <2>2, <2>3, SetTopOK DEF SignalInv
  <2>5. call_stack' \in Seq(Name)
    <3>1. Top(c).name \in Name
      BY <1>2 DEF Frame
    <3>2. QED
      BY <1>6, <3>1, AppendProperties DEF push_call_stack, SignalInv, TypeOK
  <2>6. QED
    BY <1>2, <1>3, <1>6, <2>4, <2>5, QuietStep DEF SignalInv, TypeOK
<1>7. QED
  BY <1>5, <1>6 DEF Enter

LEMMA QuietSetTop ==
  ASSUME SignalInv, NEW c \in Caller, stack[c] # <<>>,
         NEW f \in Frame, FrameOK(f), SetTop(c, f),
         UNCHANGED <<registration, tstate, services, inits, call_stack, result, top>>
  PROVE  SignalInv'
<1>1. UNCHANGED <<registry, signalled>>
  BY DEF registration, services
<1>2. stack' \in [Caller -> Seq(Frame)] /\ FramesOK'
  BY <1>1, SetTopOK DEF SignalInv
<1>3. Constructed
  BY ActiveMeansConstructed
<1>4. QED
  BY <1>2, <1>3, QuietStep DEF SignalInv, TypeOK, top

\* Giving up from any point of the recursion claims nothing.
LEMMA CleanupOK ==
  ASSUME NEW c \in Caller, Top(c) \in Frame, NEW r \in Ret, Cleanup(c, r)
  PROVE  \E f \in Frame : FrameOK(f) /\ SetTop(c, f)
<1> DEFINE f == [Top(c) EXCEPT !.pc = "cleanup", !.ret = r]
<1>1. f \in Frame /\ f.pc = "cleanup"
  <2>1. "cleanup" \in Pc
    BY DEF Pc
  <2>2. QED
    BY <2>1 DEF Frame
<1>2. SetTop(c, f)
  BY DEF Cleanup
<1> HIDE DEF f
<1>3. FrameOK(f)
  BY <1>1 DEF FrameOK
<1>4. QED
  BY <1>1, <1>2, <1>3

\* Going on to another point keeps the name and the index.
LEMMA GotoOK ==
  ASSUME NEW c \in Caller, Top(c) \in Frame, NEW pc \in Pc, Goto(c, pc),
         \A f : f.name = Top(c).name /\ f.dep = Top(c).dep /\ f.pc = pc => FrameOK(f)
  PROVE  \E f \in Frame : FrameOK(f) /\ SetTop(c, f)
<1> DEFINE f == [Top(c) EXCEPT !.pc = pc]
<1>1. f \in Frame /\ f.name = Top(c).name /\ f.dep = Top(c).dep /\ f.pc = pc
  BY FrameUpdates
<1>2. SetTop(c, f)
  BY DEF Goto
<1> HIDE DEF f
<1>3. QED
  BY <1>1, <1>2

\* The next dependency is looked at once this one has signalled.
LEMMA NextDepOK ==
  ASSUME NEW c \in Caller, Top(c) \in Frame, FrameOK(Top(c)),
         Top(c).pc \in {"called", "wait"}, NextDep(c),
         HasSignalled(Deps(c)[Top(c).dep])
  PROVE  \E f \in Frame : FrameOK(f) /\ SetTop(c, f)
<1> DEFINE f == [Top(c) EXCEPT !.pc = "deps", !.dep = @ + 1]
<1>1. f \in Frame /\ f.name = Top(c).name /\ f.dep = Top(c).dep + 1 /\ f.pc = "deps"
  BY FrameUpdates
<1>2. SetTop(c, f)
  BY DEF NextDep
<1> HIDE DEF f
<1> DEFINE deps == find_thread_descriptor(f.name).deps
<1>3. /\ f.name \in Registered
      /\ \A j \in 1..Len(deps) : j < Top(c).dep => HasSignalled(deps[j])
      /\ HasSignalled(deps[Top(c).dep])
  BY <1>1 DEF FrameOK, Deps
<1>4. Top(c).dep \in Nat
  BY DEF Frame
<1>5. \A j \in 1..Len(deps) : j < f.dep => HasSignalled(deps[j])
  BY <1>1, <1>3, <1>4
<1>6. FrameOK(f)
  BY <1>1, <1>3, <1>5 DEF FrameOK
<1>7. QED
  BY <1>1, <1>2, <1>6

LEMMA LookupStep ==
  ASSUME SignalInv, NEW c \in Caller, Lookup(c)
  PROVE  SignalInv'
<1>1. stack[c] # <<>> /\ Top(c).pc = "lookup"
  BY DEF Lookup, At
<1>2. Top(c) \in Frame /\ FrameOK(Top(c))
  BY <1>1, TopOK
<1>3. \E f \in Frame : FrameOK(f) /\ SetTop(c, f)
  <2>1. CASE \E r \in Ret : Cleanup(c, r)
    BY <1>2, <2>1, CleanupOK
  <2>2. CASE Top(c).name \in Registered /\ Goto(c, "deps")
    <3>1. Top(c).dep = 1
      BY <1>1, <1>2 DEF FrameOK
    <3>2. ASSUME NEW f, f.name = Top(c).name, f.dep = Top(c).dep, f.pc = "deps"
          PROVE  FrameOK(f)
      BY <2>2, <3>1, <3>2 DEF FrameOK
    <3>3. QED
      BY <1>2, <2>2, <3>2, GotoOK DEF Pc
  <2>3. QED
    BY <2>1, <2>2 DEF Lookup, Ret
<1>4. QED
  BY <1>1, <1>3, QuietSetTop DEF Lookup

\* A dependency of a registered thread is a thread name.
LEMMA DepIsName ==
  ASSUME TypeOK, NEW n \in Registered,
         NEW j \in 1..Len(find_thread_descriptor(n).deps)
  PROVE  find_thread_descriptor(n).deps[j] \in Name
<1>1. find_thread_descriptor(n).deps \in Seq(Name)
  BY FindRegistered DEF Descriptor
<1>2. QED
  BY <1>1, ElementOfSeq

LEMMA CallDepStep ==
  ASSUME SignalInv, NEW c \in Caller, CallDep(c)
  PROVE  SignalInv'
<1>1. stack[c] # <<>> /\ Top(c).pc = "deps" /\ Top(c).dep <= Len(Deps(c))
  BY DEF CallDep, At, HasMoreDeps
<1>2. Top(c) \in Frame /\ FrameOK(Top(c)) /\ Constructed
  BY <1>1, TopOK, ActiveMeansConstructed
<1>3. Top(c).name \in Registered /\ Top(c).dep \in Nat \ {0}
  BY <1>1, <1>2 DEF FrameOK, Frame
<1>4. Deps(c)[Top(c).dep] \in Name
  <2>1. Deps(c) \in Seq(Name)
    BY <1>3, FindRegistered DEF Deps, Descriptor, SignalInv
  <2>2. Top(c).dep \in 1..Len(Deps(c))
    BY <1>1, <1>3, <2>1, LenProperties
  <2>3. QED
    BY <2>1, <2>2, ElementOfSeq
<1> DEFINE f == [Top(c) EXCEPT !.pc = "called"]
           n == Deps(c)[Top(c).dep]
<1>5. f \in Frame /\ f.name = Top(c).name /\ f.dep = Top(c).dep /\ f.pc = "called"
  BY <1>2, FrameUpdates DEF Pc
<1>6. /\ stack' = [stack EXCEPT ![c] = Append([@ EXCEPT ![Len(@)] = f], NewFrame(n))]
      /\ UNCHANGED <<registration, tstate, services, inits, call_stack, result, top>>
  BY DEF CallDep
<1> HIDE DEF f
<1>7. FrameOK(f)
  BY <1>1, <1>2, <1>3, <1>5 DEF FrameOK, Deps
<1>8. UNCHANGED <<registry, signalled>>
  BY <1>6 DEF registration, services
<1> HIDE DEF n
<1>9. stack' \in [Caller -> Seq(Frame)] /\ FramesOK'
  BY <1>1, <1>4, <1>5, <1>6, <1>7, <1>8, CallFromTopOK DEF SignalInv, n
<1>10. QED
  BY <1>2, <1>6, <1>9, QuietStep DEF SignalInv, TypeOK, top

LEMMA DepsDoneStep ==
  ASSUME SignalInv, NEW c \in Caller, DepsDone(c)
  PROVE  SignalInv'
<1>0. stack[c] # <<>> /\ Top(c).pc = "deps" /\ ~(Top(c).dep <= Len(Deps(c)))
  BY DEF DepsDone, At, HasMoreDeps
<1>2. Top(c) \in Frame /\ FrameOK(Top(c))
  BY <1>0, TopOK
<1>1. stack[c] # <<>> /\ Top(c).pc = "deps" /\ Top(c).dep > Len(Deps(c))
  <2>1. Deps(c) \in Seq(Name)
    BY <1>0, <1>2, FindRegistered DEF Deps, Descriptor, SignalInv, FrameOK
  <2>2. Top(c).dep \in Nat /\ Len(Deps(c)) \in Nat
    BY <1>2, <2>1, LenProperties DEF Frame
  <2>3. QED
    BY <1>0, <2>2
<1>3. ASSUME NEW f, f.name = Top(c).name, f.dep = Top(c).dep, f.pc = "init"
      PROVE  FrameOK(f)
  BY <1>1, <1>2, <1>3 DEF FrameOK, Deps
<1>4. \E f \in Frame : FrameOK(f) /\ SetTop(c, f)
  BY <1>2, <1>3, GotoOK DEF DepsDone, Pc
<1>5. QED
  BY <1>1, <1>4, QuietSetTop DEF DepsDone

LEMMA CheckDepStep ==
  ASSUME SignalInv, NEW c \in Caller, CheckDep(c)
  PROVE  SignalInv'
<1>1. stack[c] # <<>> /\ Top(c).pc = "called"
  BY DEF CheckDep, At
<1>2. Top(c) \in Frame /\ FrameOK(Top(c))
  BY <1>1, TopOK
<1> DEFINE d == Deps(c)[Top(c).dep]
<1>3. \E f \in Frame : FrameOK(f) /\ SetTop(c, f)
  <2>1. CASE \E r \in Ret : Cleanup(c, r)
    BY <1>2, <2>1, CleanupOK
  <2>2. CASE d \in Registered /\ tstate[d] = READY /\ NextDep(c)
    <3>1. HasSignalled(d)
      BY <2>2, RegisteredIsName DEF SignalInv, ReadyMeansSignalled
    <3>2. QED
      BY <1>1, <1>2, <2>2, <3>1, NextDepOK
  <2>3. CASE d \in Registered /\ ~find_thread_descriptor(d).ready_sem /\ NextDep(c)
    <3>1. HasSignalled(d)
      BY <2>3 DEF HasSignalled
    <3>2. QED
      BY <1>1, <1>2, <2>3, <3>1, NextDepOK
  <2>4. CASE d \in Registered /\ Goto(c, "wait")
    <3>1. ASSUME NEW f, f.name = Top(c).name, f.dep = Top(c).dep, f.pc = "wait"
          PROVE  FrameOK(f)
      BY <1>1, <1>2, <2>4, <3>1 DEF FrameOK, Deps
    <3>2. QED
      BY <1>2, <2>4, <3>1, GotoOK DEF Pc
  <2>5. QED
    BY <2>1, <2>2, <2>3, <2>4 DEF CheckDep, Ret
<1>4. QED
  BY <1>1, <1>3, QuietSetTop DEF CheckDep

\* Steps that move the top frame and touch states or semaphores.
LEMMA ActiveStep ==
  ASSUME SignalInv, NEW c \in Caller, stack[c] # <<>>,
         NEW f \in Frame, FrameOK(f), SetTop(c, f),
         UNCHANGED <<registration, signalled, call_stack, result, top>>,
         tstate' \in [Name -> ThreadState], sem' \in [Name -> {0, 1}],
         starting' \in [Name -> Nat], inits' \in [Name -> Nat],
         SemMeansSignalled', ReadyMeansSignalled', NoInitBeforeSignal'
  PROVE  SignalInv'
<1>1. UNCHANGED <<registry, signalled>>
  BY DEF registration
<1>2. stack' \in [Caller -> Seq(Frame)] /\ FramesOK'
  BY <1>1, SetTopOK DEF SignalInv
<1>3. TypeOK'
  BY <1>2 DEF SignalInv, TypeOK, registration, top
<1>4. FreshUntilConstructed'
  BY ActiveMeansConstructed DEF FreshUntilConstructed, Constructed, registration
<1>5. QED
  BY <1>2, <1>3, <1>4 DEF SignalInv

\* With the registry and the signals unchanged, so is what they say.
LEMMA SignalsUnchanged ==
  ASSUME UNCHANGED <<registry, signalled>>
  PROVE  /\ \A n : HasSignalled(n)' <=> HasSignalled(n)
         /\ Registered' = Registered
         /\ \A n : DepsOf(n)' = DepsOf(n)
  BY DEF HasSignalled, Registered, DepsOf, find_thread_descriptor

LEMMA WaitDepStep ==
  ASSUME SignalInv, NEW c \in Caller, WaitDep(c)
  PROVE  SignalInv'
<1>1. stack[c] # <<>> /\ Top(c).pc = "wait"
  BY DEF WaitDep, At
<1>2. Top(c) \in Frame /\ FrameOK(Top(c))
  BY <1>1, TopOK
<1> DEFINE d == Deps(c)[Top(c).dep]
<1>3. UNCHANGED <<registration, tstate, starting, signalled, inits, call_stack,
                  result, top>>
  BY DEF WaitDep
<1>4. d \in Name
  <2>1. /\ Top(c).name \in Registered
        /\ Top(c).dep \in Nat \ {0}
        /\ Top(c).dep <= Len(Deps(c))
    BY <1>1, <1>2 DEF FrameOK, Frame, Deps
  <2>2. Deps(c) \in Seq(Name)
    BY <2>1, FindRegistered DEF Deps, Descriptor, SignalInv
  <2>3. Top(c).dep \in 1..Len(Deps(c))
    BY <2>1, <2>2, LenProperties
  <2>4. QED
    BY <2>2, <2>3, ElementOfSeq
<1> HIDE DEF d
<1>5. /\ \A n : HasSignalled(n)' <=> HasSignalled(n)
      /\ Registered' = Registered
      /\ \A n : DepsOf(n)' = DepsOf(n)
  BY <1>3, SignalsUnchanged DEF registration
<1>6. ReadyMeansSignalled' /\ NoInitBeforeSignal'
  BY <1>3, <1>5 DEF SignalInv, ReadyMeansSignalled, NoInitBeforeSignal
<1>7. CASE sem[d] = 1 /\ sem' = [sem EXCEPT ![d] = 0] /\ NextDep(c)
  <2>1. signalled[d]
    BY <1>4, <1>7 DEF SignalInv, SemMeansSignalled
  <2>2. HasSignalled(d)
    <3>1. d \in Registered
      BY <1>1, <1>2 DEF FrameOK, Deps, d
    <3>2. QED
      BY <2>1, <3>1 DEF HasSignalled
  <2>3. \E f \in Frame : FrameOK(f) /\ SetTop(c, f)
    BY <1>1, <1>2, <1>7, <2>2, NextDepOK DEF d
  <2>4. sem' \in [Name -> {0, 1}] /\ SemMeansSignalled'
    BY <1>3, <1>4, <1>7 DEF SignalInv, TypeOK, SemMeansSignalled
  <2>5. QED
    BY <1>1, <1>3, <1>6, <2>3, <2>4, ActiveStep DEF SignalInv, TypeOK
<1>8. CASE Cleanup(c, "err") /\ UNCHANGED sem
  <2>1. \E f \in Frame : FrameOK(f) /\ SetTop(c, f)
    BY <1>2, <1>8, CleanupOK DEF Ret
  <2>2. QED
    BY <1>1, <1>3, <1>8, <2>1, QuietSetTop DEF services
<1>9. QED
  BY <1>7, <1>8 DEF WaitDep, d

LEMMA InitFuncStep ==
  ASSUME SignalInv, NEW c \in Caller, InitFunc(c)
  PROVE  SignalInv'
<1>0. PICK r \in Ret, created \in BOOLEAN : InitFuncReturns(c, r, created)
  BY DEF InitFunc, Ret
<1>1. stack[c] # <<>> /\ Top(c).pc = "init"
  BY <1>0 DEF InitFuncReturns, At
<1>2. Top(c) \in Frame /\ FrameOK(Top(c))
  BY <1>1, TopOK
<1> DEFINE n == Top(c).name
<1>3. /\ UNCHANGED <<registration, tstate, sem, signalled, call_stack, result, top>>
      /\ inits' = [inits EXCEPT ![n] = @ + 1]
  BY <1>0 DEF InitFuncReturns
<1>4. n \in Name
  BY <1>2 DEF Frame
<1>5. SetTop(c, [Top(c) EXCEPT !.pc = "inited", !.ret = r])
  BY <1>0 DEF InitFuncReturns
<1> DEFINE f == [Top(c) EXCEPT !.pc = "inited", !.ret = r]
<1>6. f \in Frame /\ f.pc = "inited" /\ f.name = n
  <2>1. "inited" \in Pc
    BY DEF Pc
  <2>2. QED
    BY <1>2, <2>1 DEF Frame
<1>7. SetTop(c, f)
  BY <1>5
<1> HIDE DEF f
<1>8. FrameOK(f)
  BY <1>1, <1>2, <1>6 DEF FrameOK
<1>9. starting' \in [Name -> Nat] /\ inits' \in [Name -> Nat]
  <2>1. starting' = starting \/ starting' = [starting EXCEPT ![n] = @ + 1]
    <3>1. signalled' = signalled /\ starting \in [Name -> Nat]
      BY <1>3 DEF SignalInv, TypeOK
    <3>2. created => starting' = [starting EXCEPT ![n] = @ + 1]
      BY <1>0 DEF InitFuncReturns
    <3>3. ~created => starting' = starting
      BY <1>0, <3>1 DEF InitFuncReturns
    <3>4. QED
      BY <3>2, <3>3
  <2>2. starting \in [Name -> Nat] /\ inits \in [Name -> Nat]
    BY DEF SignalInv, TypeOK
  <2>3. QED
    BY <1>3, <1>4, <2>1, <2>2
<1>10. /\ \A m : HasSignalled(m)' <=> HasSignalled(m)
       /\ Registered' = Registered
       /\ \A m : DepsOf(m)' = DepsOf(m)
  BY <1>3, SignalsUnchanged DEF registration
<1>11. SemMeansSignalled' /\ ReadyMeansSignalled'
  BY <1>3, <1>10 DEF SignalInv, SemMeansSignalled, ReadyMeansSignalled
<1>12. n \in Registered /\ \A d \in DepsOf(n) : HasSignalled(d)
  <2>1. n \in Registered
    BY <1>1, <1>2 DEF FrameOK
  <2> DEFINE deps == find_thread_descriptor(n).deps
  <2>2. deps \in Seq(Name)
    BY <2>1, FindRegistered DEF Descriptor, SignalInv
  <2>3. Top(c).dep \in Nat /\ Len(deps) \in Nat /\ DOMAIN deps = 1..Len(deps)
    BY <1>2, <2>2, LenProperties DEF Frame
  <2>4. \A j \in 1..Len(deps) : HasSignalled(deps[j])
    BY <1>1, <1>2, <2>3 DEF FrameOK
  <2>5. QED
    BY <2>1, <2>3, <2>4 DEF DepsOf
<1>13. NoInitBeforeSignal'
  <2> SUFFICES ASSUME NEW m \in Name, inits'[m] > 0
               PROVE  m \in Registered /\ \A d \in DepsOf(m) : HasSignalled(d)
    BY <1>10 DEF NoInitBeforeSignal
  <2>1. CASE m = n
    BY <1>12, <2>1
  <2>2. CASE m # n
    BY <1>3, <2>2 DEF SignalInv, NoInitBeforeSignal, TypeOK
  <2>3. QED
    BY <2>1, <2>2
<1>14. QED
  BY <1>1, <1>3, <1>6, <1>7, <1>8, <1>9, <1>11, <1>13, ActiveStep
     DEF SignalInv, TypeOK

LEMMA InitReturnedStep ==
  ASSUME SignalInv, NEW c \in Caller, InitReturned(c)
  PROVE  SignalInv'
<1>1. stack[c] # <<>> /\ Top(c).pc = "inited"
  BY DEF InitReturned, At
<1>2. Top(c) \in Frame /\ FrameOK(Top(c))
  BY <1>1, TopOK
<1>3. UNCHANGED <<registration, services, inits, call_stack, result, top>>
  BY DEF InitReturned
<1>4. PICK s \in {RUNNING, FAILED} : tstate' = [tstate EXCEPT ![Top(c).name] = s]
  BY DEF InitReturned, StateAfterInit
<1>5. \E f \in Frame : FrameOK(f) /\ SetTop(c, f)
  <2>1. CASE Cleanup(c, "err")
    BY <1>2, <2>1, CleanupOK DEF Ret
  <2>2. CASE Goto(c, "signal")
    <3>1. ASSUME NEW f, f.name = Top(c).name, f.dep = Top(c).dep, f.pc = "signal"
          PROVE  FrameOK(f)
      BY <1>1, <1>2, <3>1 DEF FrameOK
    <3>2. QED
      BY <1>2, <2>2, <3>1, GotoOK DEF Pc
  <2>3. QED
    BY <2>1, <2>2 DEF InitReturned
<1>6. tstate' \in [Name -> ThreadState]
  BY <1>4 DEF SignalInv, TypeOK, ThreadState
<1>7. /\ \A m : HasSignalled(m)' <=> HasSignalled(m)
      /\ Registered' = Registered
      /\ \A m : DepsOf(m)' = DepsOf(m)
  BY <1>3, SignalsUnchanged DEF registration, services
<1>8. ReadyMeansSignalled'
  BY <1>4, <1>7 DEF SignalInv, ReadyMeansSignalled, TypeOK, READY, RUNNING, FAILED
<1>9. SemMeansSignalled' /\ NoInitBeforeSignal'
  BY <1>3, <1>7 DEF SignalInv, SemMeansSignalled, NoInitBeforeSignal, services
<1>10. QED
  BY <1>1, <1>3, <1>5, <1>6, <1>8, <1>9, ActiveStep DEF SignalInv, TypeOK, services

LEMMA AwaitSignalStep ==
  ASSUME SignalInv, NEW c \in Caller, AwaitSignal(c)
  PROVE  SignalInv'
<1>1. stack[c] # <<>> /\ Top(c).pc = "signal"
  BY DEF AwaitSignal, At
<1>2. Top(c) \in Frame /\ FrameOK(Top(c))
  BY <1>1, TopOK
<1> DEFINE n == Top(c).name
<1>3. UNCHANGED <<registration, starting, signalled, inits, call_stack, result, top>>
  BY DEF AwaitSignal
<1>4. n \in Name /\ n \in Registered
  BY <1>1, <1>2 DEF Frame, FrameOK
<1>5. \E f \in Frame : FrameOK(f) /\ SetTop(c, f)
  BY <1>2, CleanupOK DEF AwaitSignal, Ret
<1>6. /\ \A m : HasSignalled(m)' <=> HasSignalled(m)
      /\ Registered' = Registered
      /\ \A m : DepsOf(m)' = DepsOf(m)
  BY <1>3, SignalsUnchanged DEF registration
<1>7. PICK s \in {READY, FAILED} :
        /\ tstate' = [tstate EXCEPT ![n] = s]
        /\ s = READY => ~find_thread_descriptor(n).ready_sem \/ sem[n] = 1
  BY DEF AwaitSignal, READY, FAILED
<1>8. tstate' \in [Name -> ThreadState]
  BY <1>7 DEF SignalInv, TypeOK, ThreadState
<1>9. sem' = sem \/ sem' = [sem EXCEPT ![n] = 0]
  BY DEF AwaitSignal
<1>10. sem' \in [Name -> {0, 1}] /\ SemMeansSignalled'
  BY <1>3, <1>9 DEF SignalInv, TypeOK, SemMeansSignalled
<1>11. ReadyMeansSignalled'
  <2> SUFFICES ASSUME NEW m \in Name, tstate'[m] = READY
               PROVE  HasSignalled(m)
    BY <1>6 DEF ReadyMeansSignalled
  <2>1. CASE m = n
    <3>1. s = READY
      BY <1>4, <1>7, <2>1 DEF SignalInv, TypeOK
    <3>2. QED
      BY <1>4, <1>7, <2>1, <3>1 DEF SignalInv, SemMeansSignalled, HasSignalled
  <2>2. CASE m # n
    BY <1>7, <2>2 DEF SignalInv, TypeOK, ReadyMeansSignalled
  <2>3. QED
    BY <2>1, <2>2
<1>12. NoInitBeforeSignal'
  BY <1>3, <1>6 DEF SignalInv, NoInitBeforeSignal
<1>13. QED
  BY <1>1, <1>3, <1>5, <1>8, <1>10, <1>11, <1>12, ActiveStep DEF SignalInv, TypeOK

LEMMA PopAndReturnStep ==
  ASSUME SignalInv, NEW c \in Caller, PopAndReturn(c)
  PROVE  SignalInv'
<1>1. stack[c] # <<>>
  BY DEF PopAndReturn, At
<1>2. Top(c) \in Frame /\ Constructed
  BY <1>1, TopOK, ActiveMeansConstructed
<1>3. /\ UNCHANGED <<registration, tstate, services, inits, top>>
      /\ pop_call_stack
      /\ Return(c, Top(c).ret)
  BY DEF PopAndReturn
<1>4. UNCHANGED <<registry, signalled>>
  BY <1>3 DEF registration, services
<1>5. Top(c).ret \in Ret
  BY <1>2 DEF Frame
<1>6. stack' \in [Caller -> Seq(Frame)] /\ result' \in [Caller -> Ret] /\ FramesOK'
  BY <1>1, <1>3, <1>4, <1>5, ReturnOK DEF SignalInv
<1>7. call_stack' \in Seq(Name)
  <2>1. CASE call_stack = <<>>
    BY <1>3, <2>1 DEF pop_call_stack
  <2>2. CASE call_stack # <<>>
    <3>1. call_stack \in Seq(Name) /\ Len(call_stack) \in Nat
      BY LenProperties DEF SignalInv, TypeOK
    <3>2. \A i \in 1..(Len(call_stack) - 1) : call_stack[i] \in Name
      BY <3>1, ElementOfSeq
    <3>3. call_stack' = SubSeq(call_stack, 1, Len(call_stack) - 1)
      BY <1>3, <2>2 DEF pop_call_stack
    <3>4. QED
      BY <3>1, <3>2, <3>3, SubSeqProperties
  <2>3. QED
    BY <2>1, <2>2
<1>8. QED
  BY <1>2, <1>3, <1>6, <1>7, QuietStep DEF SignalInv, TypeOK, top

LEMMA BeginCallStep ==
  ASSUME SignalInv, NEW c \in Caller, BeginCall(c)
  PROVE  SignalInv'
<1>1. /\ Constructed
      /\ cursor[c] <= Iterations(c)
      /\ UNCHANGED <<registration, tstate, services, inits, call_stack, result, top>>
  BY DEF BeginCall, AtTop
<1>2. UNCHANGED <<registry, signalled>>
  BY <1>1 DEF registration, services
<1>3. \E n \in Name : Call(c, n)
  <2>1. CASE Request[c] # ALL
    <3>1. Request[c] \in Name
      BY <2>1, NamesAssumption
    <3>2. QED
      BY <2>1, <3>1 DEF BeginCall
  <2>2. CASE Request[c] = ALL
    <3>1. registry \in Seq(Descriptor(Name)) /\ cursor[c] \in Nat \ {0}
      BY DEF SignalInv, TypeOK
    <3>2. cursor[c] \in 1..Len(registry)
      BY <1>1, <2>2, <3>1, LenProperties DEF Iterations
    <3>3. registry[cursor[c]] \in Descriptor(Name)
      BY <3>1, <3>2, ElementOfSeq
    <3>4. registry[cursor[c]].name \in Name
      BY <3>3 DEF Descriptor
    <3>5. QED
      BY <2>2, <3>4 DEF BeginCall
  <2>3. QED
    BY <2>1, <2>2
<1>4. stack' \in [Caller -> Seq(Frame)] /\ FramesOK'
  BY <1>2, <1>3, CallOK DEF SignalInv
<1>5. QED
  BY <1>1, <1>4, QuietStep DEF SignalInv, TypeOK, top

LEMMA LoopStep ==
  ASSUME SignalInv, NEW c \in Caller, SkipThread(c) \/ EndCall(c)
  PROVE  SignalInv'
<1>1. /\ Constructed
      /\ UNCHANGED <<registration, tstate, services, inits, call_stack, stack>>
      /\ cursor' = [cursor EXCEPT ![c] = @ + 1]
      /\ result' \in {result, [result EXCEPT ![c] = "none"]}
      /\ failed_count' \in {failed_count, [failed_count EXCEPT ![c] = @ + 1]}
  BY DEF SkipThread, EndCall, AtTop
<1>2. /\ cursor \in [Caller -> Nat \ {0}]
      /\ failed_count \in [Caller -> Nat]
      /\ result \in [Caller -> Ret]
  BY DEF SignalInv, TypeOK
<1>3. cursor' \in [Caller -> Nat \ {0}] /\ failed_count' \in [Caller -> Nat]
  BY <1>1, <1>2
<1>4. result' \in [Caller -> Ret]
  BY <1>1, <1>2 DEF Ret
<1>5. UNCHANGED <<registry, signalled>>
  BY <1>1 DEF registration, services
<1>6. FramesOK'
  <2>1. \A e \in Caller : \A k \in 1..Len(stack'[e]) :
          \E f : f = stack'[e][k] /\ FrameOK(f)
    BY <1>1 DEF SignalInv, FramesOK
  <2>2. QED
    BY <1>5, <2>1, FramesOKFromOld
<1>7. QED
  BY <1>1, <1>3, <1>4, <1>6, QuietStep DEF SignalInv, TypeOK

LEMMA RegisterStep ==
  ASSUME SignalInv, register_thread_descriptor
  PROVE  SignalInv'
<1>1. /\ nreg < Len(table)
      /\ nreg' = nreg + 1
      /\ UNCHANGED <<table, tstate, services, inits, call_stack, stack, result, top>>
  BY DEF register_thread_descriptor
<1>2. table \in Seq(Descriptor(Name \cup {NoName})) /\ nreg \in 0..Len(table)
  BY TablesAssumption DEF SignalInv, TypeOK
<1>3. Len(table) \in Nat /\ nreg + 1 \in 1..Len(table)
  BY <1>1, <1>2, LenProperties
<1>4. ~Constructed
  BY <1>1, <1>2, <1>3 DEF Constructed
<1>5. /\ \A n \in Name : inits[n] = 0 /\ tstate[n] = INITIAL
      /\ \A c \in Caller : stack[c] = <<>>
  BY <1>4 DEF SignalInv, FreshUntilConstructed
<1>6. registry' \in Seq(Descriptor(Name))
  <2>0. registry \in Seq(Descriptor(Name))
    BY DEF SignalInv, TypeOK
  <2> DEFINE desc == table[nreg + 1]
  <2>1. desc \in Descriptor(Name \cup {NoName})
    BY <1>2, <1>3, ElementOfSeq
  <2>2. desc.deps \in Seq(Name \cup {NoName})
    BY <2>1 DEF Descriptor
  <2>3. CASE Len(registry) >= MAX_THREADS /\ UNCHANGED registry
    BY <2>0, <2>3
  <2>4. ASSUME NEW k \in 0..Len(desc.deps), KeepsDeps(desc.deps, k),
               registry' = Append(registry,
                             [desc EXCEPT !.deps = SubSeq(@, 1, k)])
        PROVE  registry' \in Seq(Descriptor(Name))
    <3>1. Len(desc.deps) \in Nat
      BY <2>2, LenProperties
    <3>2. \A i \in 1..k : desc.deps[i] \in Name \cup {NoName}
      BY <2>2, <3>1, ElementOfSeq
    <3>3. \A i \in 1..k : desc.deps[i] \in Name
      BY <3>2, <2>4 DEF KeepsDeps
    <3>4. SubSeq(desc.deps, 1, k) \in Seq(Name)
      BY <3>1, <3>3, SubSeqProperties
    <3> DEFINE s == SubSeq(desc.deps, 1, k)
    <3>5. [desc EXCEPT !.deps = s] \in Descriptor(Name)
      <4> HIDE DEF s
      <4>1. QED
        BY <2>1, <3>4 DEF Descriptor, s
    <3>6. QED
      BY <2>0, <2>4, <3>5, AppendProperties
  <2>5. QED
    BY <2>3, <2>4 DEF register_thread_descriptor
<1>7. TypeOK'
  <2>1. nreg' \in 0..Len(table')
    BY <1>1, <1>3
  <2>2. QED
    BY <1>1, <1>6, <2>1 DEF SignalInv, TypeOK, services, top
<1>8. FreshUntilConstructed'
  BY <1>1, <1>5 DEF FreshUntilConstructed
<1>9. SemMeansSignalled'
  BY <1>1 DEF SignalInv, SemMeansSignalled, services
<1>10. ReadyMeansSignalled' /\ NoInitBeforeSignal'
  BY <1>1, <1>5 DEF ReadyMeansSignalled, NoInitBeforeSignal, READY, INITIAL
<1>11. FramesOK'
  <2>1. \A c \in Caller : Len(stack'[c]) = 0
    BY <1>1, <1>5, EmptySeq
  <2>2. QED
    BY <2>1 DEF FramesOK
<1>12. QED
  BY <1>7, <1>8, <1>9, <1>10, <1>11 DEF SignalInv

\* More signals never take away what was known.
LEMMA GiveStep ==
  ASSUME SignalInv, NEW n \in Name, GiveReadySem(n)
  PROVE  SignalInv'
<1>1. /\ UNCHANGED <<registration, tstate, inits, call_stack, stack, result, top>>
      /\ starting' = [starting EXCEPT ![n] = @ - 1]
      /\ starting[n] > 0
      /\ sem' = [sem EXCEPT ![n] = 1]
      /\ signalled' = [signalled EXCEPT ![n] = TRUE]
  BY DEF GiveReadySem
<1>2. /\ sem \in [Name -> {0, 1}]
      /\ starting \in [Name -> Nat]
      /\ signalled \in [Name -> BOOLEAN]
  BY DEF SignalInv, TypeOK
<1>3. /\ sem' \in [Name -> {0, 1}]
      /\ starting' \in [Name -> Nat]
      /\ signalled' \in [Name -> BOOLEAN]
  BY <1>1, <1>2
<1>4. TypeOK'
  BY <1>1, <1>3 DEF SignalInv, TypeOK, registration, top
<1>5. \A m \in Name : signalled[m] => signalled'[m]
  BY <1>1, <1>2
<1>6. registry' = registry /\ Registered' = Registered
  BY <1>1 DEF registration, Registered
<1>7. \A m \in Name : HasSignalled(m) => HasSignalled(m)'
  BY <1>5, <1>6 DEF HasSignalled, find_thread_descriptor
<1>8. SemMeansSignalled'
  BY <1>1, <1>2 DEF SignalInv, SemMeansSignalled
<1>9. ReadyMeansSignalled'
  BY <1>1, <1>7 DEF SignalInv, ReadyMeansSignalled
<1>10. \A m \in Registered : DepsOf(m)' = DepsOf(m) /\ DepsOf(m) \subseteq Name
  <2> SUFFICES ASSUME NEW m \in Registered
               PROVE  DepsOf(m)' = DepsOf(m) /\ DepsOf(m) \subseteq Name
    OBVIOUS
  <2>1. DepsOf(m)' = DepsOf(m)
    BY <1>6 DEF DepsOf, find_thread_descriptor
  <2>2. find_thread_descriptor(m).deps \in Seq(Name)
    BY FindRegistered DEF Descriptor, SignalInv
  <2> DEFINE deps == find_thread_descriptor(m).deps
  <2>3. \A i \in DOMAIN deps : deps[i] \in Name
    <3> HIDE DEF deps
    <3>1. deps \in Seq(Name)
      BY <2>2 DEF deps
    <3>2. QED
      BY <3>1, ElementOfSeq, LenProperties
  <2>4. DepsOf(m) \subseteq Name
    BY <2>3 DEF DepsOf
  <2>5. QED
    BY <2>1, <2>4
<1>11. NoInitBeforeSignal'
  BY <1>1, <1>6, <1>7, <1>10 DEF SignalInv, NoInitBeforeSignal
<1>12. FreshUntilConstructed'
  BY <1>1 DEF SignalInv, FreshUntilConstructed, Constructed, registration
<1>13. FramesOK'
  <2> SUFFICES ASSUME NEW c \in Caller, NEW k \in 1..Len(stack[c])
               PROVE  FrameOK(stack[c][k])'
    BY <1>1 DEF FramesOK
  <2>1. FrameOK(stack[c][k])
    BY DEF SignalInv, FramesOK
  <2> DEFINE f == stack[c][k]
             deps == find_thread_descriptor(f.name).deps
  <2>2. f.name \in Registered => \A j \in 1..Len(deps) : deps[j] \in Name
    BY DepIsName DEF SignalInv
  <2>3. ASSUME f.name \in Registered, NEW j \in 1..Len(deps), HasSignalled(deps[j])
        PROVE  HasSignalled(deps[j])'
    <3>1. PICK d \in Name : d = deps[j]
      BY <2>2, <2>3
    <3>2. d \in Registered /\ (DescriptorIn(registry, d).ready_sem => signalled[d])
      BY <2>3, <3>1 DEF HasSignalled, find_thread_descriptor
    <3>3. QED
      BY <1>1, <1>5, <1>6, <3>1, <3>2 DEF HasSignalled, find_thread_descriptor
  <2>4. stack' = stack /\ deps' = deps
    BY <1>1, <1>6 DEF find_thread_descriptor
  <2>5. QED
    BY <1>6, <2>1, <2>3, <2>4 DEF FrameOK
<1>14. QED
  BY <1>4, <1>8, <1>9, <1>11, <1>12, <1>13 DEF SignalInv

LEMMA EndSilentlyStep ==
  ASSUME SignalInv, NEW n \in Name, EndSilently(n)
  PROVE  SignalInv'
<1>1. /\ UNCHANGED <<registration, tstate, sem, signalled, inits, call_stack, stack,
                     result, top>>
      /\ starting' = [starting EXCEPT ![n] = @ - 1]
      /\ starting[n] > 0
  BY DEF EndSilently
<1>2. starting' \in [Name -> Nat]
  BY <1>1 DEF SignalInv, TypeOK
<1>3. TypeOK'
  BY <1>1, <1>2 DEF SignalInv, TypeOK, registration, top
<1>4. /\ \A m : HasSignalled(m)' <=> HasSignalled(m)
      /\ Registered' = Registered
      /\ \A m : DepsOf(m)' = DepsOf(m)
  BY <1>1, SignalsUnchanged DEF registration
<1>5. FreshUntilConstructed'
  BY <1>1 DEF SignalInv, FreshUntilConstructed, Constructed, registration
<1>6. SemMeansSignalled' /\ ReadyMeansSignalled' /\ NoInitBeforeSignal'
  BY <1>1, <1>4 DEF SignalInv, SemMeansSignalled, ReadyMeansSignalled,
                    NoInitBeforeSignal
<1>7. FramesOK'
  <2>1. \A e \in Caller : \A k \in 1..Len(stack'[e]) :
          \E f : f = stack'[e][k] /\ FrameOK(f)
    BY <1>1 DEF SignalInv, FramesOK
  <2>2. UNCHANGED <<registry, signalled>>
    BY <1>1 DEF registration
  <2>3. QED
    BY <2>1, <2>2, FramesOKFromOld
<1>8. QED
  BY <1>3, <1>5, <1>6, <1>7 DEF SignalInv

LEMMA StutterStep ==
  ASSUME SignalInv, UNCHANGED vars
  PROVE  SignalInv'
<1>1. UNCHANGED <<registration, tstate, services, inits, call_stack, stack, result,
                  top>>
  BY DEF vars
<1>2. /\ \A m : HasSignalled(m)' <=> HasSignalled(m)
      /\ Registered' = Registered
      /\ \A m : DepsOf(m)' = DepsOf(m)
  BY <1>1, SignalsUnchanged DEF registration, services
<1>3. TypeOK' /\ FreshUntilConstructed' /\ SemMeansSignalled'
  BY <1>1 DEF SignalInv, TypeOK, FreshUntilConstructed, Constructed,
              SemMeansSignalled, registration, services, top
<1>4. ReadyMeansSignalled' /\ NoInitBeforeSignal'
  BY <1>1, <1>2 DEF SignalInv, ReadyMeansSignalled, NoInitBeforeSignal
<1>5. FramesOK'
  <2>1. \A e \in Caller : \A k \in 1..Len(stack'[e]) :
          \E f : f = stack'[e][k] /\ FrameOK(f)
    BY <1>1 DEF SignalInv, FramesOK
  <2>2. UNCHANGED <<registry, signalled>>
    BY <1>1 DEF registration, services
  <2>3. QED
    BY <2>1, <2>2, FramesOKFromOld
<1>6. QED
  BY <1>3, <1>4, <1>5 DEF SignalInv

(***************************************************************************)
(* The theorems                                                            *)
(***************************************************************************)

LEMMA SignalInvInit == Init => SignalInv
<1> SUFFICES ASSUME Init PROVE SignalInv
  OBVIOUS
<1>1. Len(table) \in Nat
  BY TablesAssumption, LenProperties DEF Init
<1>2. TypeOK
  <2>1. \A S : <<>> \in Seq(S)
    BY EmptySeq
  <2>2. QED
    BY <1>1, <2>1 DEF Init, TypeOK, ThreadState, INITIAL, Ret
<1>3. \A c \in Caller : Len(stack[c]) = 0
  BY EmptySeq DEF Init
<1>4. FramesOK
  BY <1>3 DEF FramesOK
<1>5. FreshUntilConstructed
  BY DEF Init, FreshUntilConstructed
<1>6. SemMeansSignalled /\ ReadyMeansSignalled /\ NoInitBeforeSignal
  BY DEF Init, SemMeansSignalled, ReadyMeansSignalled, NoInitBeforeSignal,
         INITIAL, READY
<1>7. QED
  BY <1>2, <1>4, <1>5, <1>6 DEF SignalInv

LEMMA SignalInvNext == SignalInv /\ [Next]_vars => SignalInv'
<1> SUFFICES ASSUME SignalInv, [Next]_vars PROVE SignalInv'
  OBVIOUS
<1>1. CASE register_thread_descriptor
  BY <1>1, RegisterStep
<1>2. ASSUME NEW c \in Caller, CallerStep(c)
      PROVE  SignalInv'
  BY <1>2, BeginCallStep, LoopStep, EnterStep, LookupStep, CallDepStep, DepsDoneStep,
     CheckDepStep, WaitDepStep, InitFuncStep, InitReturnedStep, AwaitSignalStep,
     PopAndReturnStep
     DEF CallerStep, StartThread
<1>3. ASSUME NEW n \in Name, GiveReadySem(n) \/ EndSilently(n)
      PROVE  SignalInv'
  BY <1>3, GiveStep, EndSilentlyStep
<1>4. CASE MainLoop \/ UNCHANGED vars
  BY <1>4, StutterStep DEF MainLoop
<1>5. QED
  BY <1>1, <1>2, <1>3, <1>4 DEF Next

\* The inductive invariant of the safety theorems below.
THEOREM SignalInvariant == Spec => []SignalInv
<1>1. QED
  BY SignalInvInit, SignalInvNext, PTL DEF Spec

\* Every variable keeps its type, for any build and any number of callers.
THEOREM TypeCorrect == Spec => []TypeOK
<1>1. SignalInv => TypeOK
  BY DEF SignalInv
<1>2. QED
  BY <1>1, SignalInvariant, PTL

\* No thread is initialised before everything it depends on is registered and
\* has given its semaphore: whatever the dependency graph, with cycles and
\* unregistered names, whatever fails or times out, and however many callers
\* take semaphores from each other.
THEOREM StartsOnlyAfterSignals == Spec => []NoInitBeforeSignal
<1>1. SignalInv => NoInitBeforeSignal
  BY DEF SignalInv
<1>2. QED
  BY <1>1, SignalInvariant, PTL

\* A thread that is reported READY has given its semaphore (or has none).
THEOREM ReadyIsEarned == Spec => []ReadyMeansSignalled
<1>1. SignalInv => ReadyMeansSignalled
  BY DEF SignalInv
<1>2. QED
  BY <1>1, SignalInvariant, PTL

(***************************************************************************)
(* What the manager guarantees when one thread uses it, as main does: the  *)
(* shared stack mirrors the recursion, and no thread is started twice or   *)
(* before its dependencies.                                                *)
(***************************************************************************)

OneCaller == \A c, d \in Caller : c = d

(***************************************************************************)
(* The shape of the recursion: all frames but the topmost are inside their *)
(* recursive call, and the shared stack holds the names of all frames that *)
(* are past the entrance, each of them once.                               *)
(***************************************************************************)

PushedIn(s) ==
  IF s # <<>> /\ s[Len(s)].pc = "enter" THEN Len(s) - 1 ELSE Len(s)

ShapeOK(s, names) ==
  /\ \A k \in 1..Len(s) : k < Len(s) => s[k].pc = "called"
  /\ Len(names) = PushedIn(s)
  /\ \A i \in 1..Len(names) : names[i] = s[i].name
  /\ \A i, j \in 1..Len(names) : names[i] = names[j] => i = j

AllShaped == \A c \in Caller : ShapeOK(stack[c], call_stack)

ShapeInv == SignalInv /\ AllShaped

LEMMA LastFrame ==
  ASSUME NEW s \in Seq(Frame), s # <<>>
  PROVE  /\ Len(s) \in Nat \ {0} /\ Len(s) \in 1..Len(s)
         /\ s[Len(s)] \in Frame
<1>1. Len(s) \in Nat \ {0}
  BY EmptySeq
<1>2. QED
  BY <1>1, ElementOfSeq

\* The topmost frame goes on behind the entrance.
LEMMA ShapeOfSetTop ==
  ASSUME NEW s \in Seq(Frame), s # <<>>, NEW names, ShapeOK(s, names),
         NEW t \in Seq(Frame), NEW f \in Frame, Len(t) = Len(s),
         \A k \in 1..Len(t) : t[k] = IF k = Len(s) THEN f ELSE s[k],
         f.name = s[Len(s)].name, f.pc # "enter", s[Len(s)].pc # "enter"
  PROVE  ShapeOK(t, names)
<1>1. Len(s) \in 1..Len(s) /\ t # <<>>
  BY LastFrame, EmptySeq
<1>2. PushedIn(t) = Len(s) /\ PushedIn(s) = Len(s)
  BY <1>1 DEF PushedIn
<1>3. QED
  BY <1>1, <1>2 DEF ShapeOK

\* The topmost frame passes the entrance and pushes its name.
LEMMA ShapeOfPush ==
  ASSUME NEW s \in Seq(Frame), s # <<>>, NEW names \in Seq(Name), ShapeOK(s, names),
         NEW t \in Seq(Frame), NEW f \in Frame, Len(t) = Len(s),
         \A k \in 1..Len(t) : t[k] = IF k = Len(s) THEN f ELSE s[k],
         f.name = s[Len(s)].name, f.pc # "enter", s[Len(s)].pc = "enter",
         \A i \in 1..Len(names) : names[i] # f.name
  PROVE  ShapeOK(t, Append(names, f.name))
<1> DEFINE longer == Append(names, f.name)
<1>1. Len(s) \in 1..Len(s) /\ t # <<>> /\ Len(s) \in Nat
  BY LastFrame, EmptySeq
<1>2. PushedIn(t) = Len(s) /\ PushedIn(s) = Len(s) - 1
  BY <1>1 DEF PushedIn
<1>3. Len(names) = Len(s) - 1 /\ Len(names) \in Nat
  BY <1>1, <1>2 DEF ShapeOK
<1>4. /\ Len(longer) = Len(names) + 1
      /\ \A i \in 1..Len(names) : longer[i] = names[i]
      /\ longer[Len(names) + 1] = f.name
  <2>1. f.name \in Name
    BY DEF Frame
  <2>2. QED
    BY <2>1, AppendProperties
<1> HIDE DEF longer
<1>5. QED
  BY <1>1, <1>2, <1>3, <1>4 DEF ShapeOK, longer

\* The topmost frame turns round at the entrance.
LEMMA ShapeOfTurn ==
  ASSUME NEW s \in Seq(Frame), s # <<>>, NEW names, ShapeOK(s, names),
         NEW t \in Seq(Frame), Len(t) = Len(s) - 1,
         \A k \in 1..Len(t) : t[k] = s[k], s[Len(s)].pc = "enter"
  PROVE  ShapeOK(t, names)
<1>1. Len(s) \in 1..Len(s) /\ Len(s) \in Nat
  BY LastFrame
<1>2. PushedIn(s) = Len(s) - 1
  BY DEF PushedIn
<1>3. PushedIn(t) = Len(s) - 1
  <2>1. CASE t = <<>>
    BY <2>1 DEF PushedIn
  <2>2. CASE t # <<>>
    <3>1. Len(t) \in 1..Len(t)
      BY <2>2, LastFrame
    <3>2. t[Len(t)].pc = "called"
      BY <1>1, <3>1 DEF ShapeOK
    <3>3. QED
      BY <3>2 DEF PushedIn
  <2>3. QED
    BY <2>1, <2>2
<1>4. QED
  BY <1>1, <1>2, <1>3 DEF ShapeOK

\* The topmost frame returns and pops its name.
LEMMA ShapeOfPop ==
  ASSUME NEW s \in Seq(Frame), s # <<>>, NEW names \in Seq(Name), ShapeOK(s, names),
         NEW t \in Seq(Frame), Len(t) = Len(s) - 1,
         \A k \in 1..Len(t) : t[k] = s[k], s[Len(s)].pc # "enter"
  PROVE  ShapeOK(t, SubSeq(names, 1, Len(names) - 1)) /\ names # <<>>
<1> DEFINE shorter == SubSeq(names, 1, Len(names) - 1)
<1>1. Len(s) \in 1..Len(s) /\ Len(s) \in Nat
  BY LastFrame
<1>2. PushedIn(s) = Len(s) /\ Len(names) = Len(s) /\ names # <<>>
  BY <1>1 DEF PushedIn, ShapeOK
<1>3. PushedIn(t) = Len(s) - 1
  <2>1. CASE t = <<>>
    BY <2>1 DEF PushedIn
  <2>2. CASE t # <<>>
    <3>1. Len(t) \in 1..Len(t)
      BY <2>2, LastFrame
    <3>2. t[Len(t)].pc = "called"
      BY <1>1, <3>1 DEF ShapeOK
    <3>3. QED
      BY <3>2 DEF PushedIn
  <2>3. QED
    BY <2>1, <2>2
<1>4. /\ Len(shorter) = Len(names) - 1
      /\ \A i \in 1..(Len(names) - 1) : shorter[i] = names[i]
  <2>1. \A i \in 1..(Len(names) - 1) : names[i] \in Name
    BY <1>1, <1>2, ElementOfSeq
  <2>2. QED
    BY <1>1, <1>2, <2>1, SubSeqProperties
<1> HIDE DEF shorter
<1>5. QED
  BY <1>1, <1>2, <1>3, <1>4 DEF ShapeOK, shorter

\* The topmost frame makes the recursive call.
LEMMA ShapeOfCall ==
  ASSUME NEW s \in Seq(Frame), s # <<>>, NEW names, ShapeOK(s, names),
         NEW t \in Seq(Frame), NEW f \in Frame, NEW g \in Frame, Len(t) = Len(s) + 1,
         \A k \in 1..Len(s) : t[k] = IF k = Len(s) THEN f ELSE s[k],
         t[Len(s) + 1] = g, f.name = s[Len(s)].name,
         f.pc = "called", g.pc = "enter", s[Len(s)].pc # "enter"
  PROVE  ShapeOK(t, names)
<1>1. Len(s) \in 1..Len(s) /\ Len(s) \in Nat /\ t # <<>>
  BY LastFrame, EmptySeq
<1>2. PushedIn(t) = Len(s) /\ PushedIn(s) = Len(s)
  BY <1>1 DEF PushedIn
<1>3. QED
  BY <1>1, <1>2 DEF ShapeOK

\* The first call.
LEMMA ShapeOfFirst ==
  ASSUME NEW names, ShapeOK(<<>>, names),
         NEW t \in Seq(Frame), Len(t) = 1, t[1].pc = "enter"
  PROVE  ShapeOK(t, names)
<1>1. Len(names) = 0
  BY EmptySeq DEF ShapeOK, PushedIn
<1>z. Len(t) # 0
  OBVIOUS
<1>a. t # <<>>
  BY <1>z, EmptySeq, Zenon
<1>2. t # <<>> /\ t[Len(t)].pc = "enter"
  BY <1>a, Zenon
<1>3. PushedIn(t) = 0
  BY <1>2 DEF PushedIn
<1>4. QED
  BY <1>1, <1>3 DEF ShapeOK

(***************************************************************************)
(* Every step keeps the shape                                              *)
(***************************************************************************)

\* A frame that has looked its name up goes on; the name stays.
Moves(c, f) ==
  /\ f \in Frame /\ f.name = Top(c).name /\ f.pc # "enter"
  /\ SetTop(c, f)

LEMMA GotoMoves ==
  ASSUME NEW c \in Caller, Top(c) \in Frame, NEW pc \in Pc \ {"enter"}, Goto(c, pc)
  PROVE  \E f : Moves(c, f) /\ f.pc = pc /\ f.dep = Top(c).dep
<1> DEFINE f == [Top(c) EXCEPT !.pc = pc]
<1>1. f \in Frame /\ f.name = Top(c).name /\ f.pc = pc /\ f.dep = Top(c).dep
  BY FrameUpdates
<1>2. SetTop(c, f)
  BY DEF Goto
<1> HIDE DEF f
<1>3. QED
  BY <1>1, <1>2 DEF Moves

LEMMA NextDepMoves ==
  ASSUME NEW c \in Caller, Top(c) \in Frame, NextDep(c)
  PROVE  \E f : Moves(c, f) /\ f.pc = "deps" /\ f.dep = Top(c).dep + 1
<1> DEFINE f == [Top(c) EXCEPT !.pc = "deps", !.dep = @ + 1]
<1>1. f \in Frame /\ f.name = Top(c).name /\ f.pc = "deps" /\ f.dep = Top(c).dep + 1
  BY FrameUpdates
<1>2. SetTop(c, f)
  BY DEF NextDep
<1> HIDE DEF f
<1>3. QED
  BY <1>1, <1>2 DEF Moves

LEMMA CleanupMoves ==
  ASSUME NEW c \in Caller, Top(c) \in Frame, NEW r \in Ret, Cleanup(c, r)
  PROVE  \E f : Moves(c, f) /\ f.pc = "cleanup" /\ f.ret = r
<1> DEFINE f == [Top(c) EXCEPT !.pc = "cleanup", !.ret = r]
<1>1. f \in Frame /\ f.name = Top(c).name /\ f.pc = "cleanup" /\ f.ret = r
  BY DEF Frame, Pc
<1>2. SetTop(c, f)
  BY DEF Cleanup
<1> HIDE DEF f
<1>3. QED
  BY <1>1, <1>2 DEF Moves

LEMMA InitMoves ==
  ASSUME NEW c \in Caller, Top(c) \in Frame, NEW r \in Ret,
         SetTop(c, [Top(c) EXCEPT !.pc = "inited", !.ret = r])
  PROVE  \E f : /\ Moves(c, f) /\ f.pc = "inited" /\ f.ret = r
                /\ f.dep = Top(c).dep
<1> DEFINE f == [Top(c) EXCEPT !.pc = "inited", !.ret = r]
<1>1. /\ f \in Frame /\ f.name = Top(c).name /\ f.pc = "inited" /\ f.ret = r
      /\ f.dep = Top(c).dep
  BY DEF Frame, Pc
<1>2. SetTop(c, f)
  OBVIOUS
<1> HIDE DEF f
<1>3. QED
  BY <1>1, <1>2 DEF Moves

MovesOn(c) ==
  \/ Lookup(c) \/ DepsDone(c) \/ CheckDep(c) \/ WaitDep(c) \/ InitFunc(c)
  \/ InitReturned(c) \/ AwaitSignal(c)

LEMMA StepMoves ==
  ASSUME TypeOK, NEW c \in Caller, MovesOn(c)
  PROVE  /\ stack[c] # <<>> /\ Top(c).pc # "enter"
         /\ UNCHANGED <<registration, call_stack, result, top>>
         /\ \E f : Moves(c, f)
<1>1. stack[c] # <<>> /\ Top(c).pc # "enter"
  BY DEF MovesOn, Lookup, DepsDone, CheckDep, WaitDep, InitFunc, InitFuncReturns,
         InitReturned, AwaitSignal, At
<1>2. UNCHANGED <<registration, call_stack, result, top>>
  BY DEF MovesOn, Lookup, DepsDone, CheckDep, WaitDep, InitFunc, InitFuncReturns,
         InitReturned, AwaitSignal
<1>3. Top(c) \in Frame
  BY <1>1, TopIsFrame
<1>4. \E f : Moves(c, f)
  <2>1. CASE \E pc \in {"deps", "wait", "init", "signal"} : Goto(c, pc)
    BY <1>3, <2>1, GotoMoves DEF Pc
  <2>2. CASE \E r \in {"ok", "err"} : Cleanup(c, r)
    BY <1>3, <2>2, CleanupMoves DEF Ret
  <2>3. CASE NextDep(c)
    BY <1>3, <2>3, NextDepMoves
  <2>4. CASE InitFunc(c)
    <3>1. PICK r \in Ret, created \in BOOLEAN : InitFuncReturns(c, r, created)
      BY <2>4 DEF InitFunc, Ret
    <3>2. SetTop(c, [Top(c) EXCEPT !.pc = "inited", !.ret = r])
      BY <3>1 DEF InitFuncReturns
    <3>3. QED
      BY <1>3, <3>2, InitMoves
  <2>5. QED
    BY <2>1, <2>2, <2>3, <2>4 DEF MovesOn, Lookup, DepsDone, CheckDep, WaitDep,
       InitReturned, AwaitSignal
<1>5. QED
  BY <1>1, <1>2, <1>4

\* The frames after the topmost one has made the recursive call.
LEMMA CallFromTopFrames ==
  ASSUME TypeOK, NEW c \in Caller, stack[c] # <<>>, NEW f \in Frame, NEW n \in Name,
         stack' = [stack EXCEPT ![c] = Append([@ EXCEPT ![Len(@)] = f], NewFrame(n))]
  PROVE  /\ NewFrame(n) \in Frame
         /\ stack' \in [Caller -> Seq(Frame)]
         /\ \A e \in Caller \ {c} : stack'[e] = stack[e]
         /\ Len(stack'[c]) = Len(stack[c]) + 1
         /\ \A k \in 1..Len(stack[c]) :
              stack'[c][k] = IF k = Len(stack[c]) THEN f ELSE stack[c][k]
         /\ stack'[c][Len(stack[c]) + 1] = NewFrame(n)
<1>1. stack[c] \in Seq(Frame)
  BY DEF TypeOK
<1>2. Len(stack[c]) \in 1..Len(stack[c]) /\ Len(stack[c]) \in Nat
  BY TopIsFrame
<1> DEFINE s == [stack[c] EXCEPT ![Len(stack[c])] = f]
           t == Append(s, NewFrame(n))
<1>3. /\ s \in Seq(Frame)
      /\ Len(s) = Len(stack[c])
      /\ \A k \in 1..Len(stack[c]) :
           s[k] = IF k = Len(stack[c]) THEN f ELSE stack[c][k]
  BY <1>1, <1>2, ExceptSeq
<1>4. NewFrame(n) \in Frame
  BY DEF NewFrame, Frame, Pc, Ret
<1>5. stack' = [stack EXCEPT ![c] = t]
  OBVIOUS
<1> HIDE DEF s
<1>6. /\ t \in Seq(Frame)
      /\ Len(t) = Len(s) + 1
      /\ \A k \in 1..Len(s) : t[k] = s[k]
      /\ t[Len(s) + 1] = NewFrame(n)
  BY <1>3, <1>4, AppendProperties
<1> HIDE DEF t
<1>7. QED
  BY <1>2, <1>3, <1>4, <1>5, <1>6 DEF TypeOK

\* What a recursive call does.
LEMMA CallDepFrames ==
  ASSUME SignalInv, NEW c \in Caller, CallDep(c)
  PROVE  /\ stack[c] # <<>> /\ Top(c).pc = "deps"
         /\ Top(c).dep \in 1..Len(Deps(c)) /\ Deps(c)[Top(c).dep] \in Name
         /\ UNCHANGED <<registration, tstate, services, inits, call_stack, result, top>>
         /\ \E f \in Frame :
              /\ f.name = Top(c).name /\ f.pc = "called" /\ f.dep = Top(c).dep
              /\ stack' = [stack EXCEPT ![c] =
                   Append([@ EXCEPT ![Len(@)] = f], NewFrame(Deps(c)[Top(c).dep]))]
<1>1. stack[c] # <<>> /\ Top(c).pc = "deps" /\ Top(c).dep <= Len(Deps(c))
  BY DEF CallDep, At, HasMoreDeps
<1>2. Top(c) \in Frame /\ FrameOK(Top(c))
  BY <1>1, TopOK
<1>3. Top(c).name \in Registered /\ Top(c).dep \in Nat \ {0}
  BY <1>1, <1>2 DEF FrameOK, Frame
<1>4. Deps(c) \in Seq(Name)
  BY <1>3, FindRegistered DEF Deps, Descriptor, SignalInv
<1>5. Top(c).dep \in 1..Len(Deps(c))
  BY <1>1, <1>3, <1>4, LenProperties
<1>6. Deps(c)[Top(c).dep] \in Name
  BY <1>4, <1>5, ElementOfSeq
<1> DEFINE f == [Top(c) EXCEPT !.pc = "called"]
<1>7. f \in Frame /\ f.name = Top(c).name /\ f.dep = Top(c).dep /\ f.pc = "called"
  BY <1>2, FrameUpdates DEF Pc
<1>8. /\ stack' = [stack EXCEPT ![c] =
                    Append([@ EXCEPT ![Len(@)] = f], NewFrame(Deps(c)[Top(c).dep]))]
      /\ UNCHANGED <<registration, tstate, services, inits, call_stack, result, top>>
  BY DEF CallDep
<1> HIDE DEF f
<1>9. QED
  BY <1>1, <1>5, <1>6, <1>7, <1>8

\* What a call from outside does.
LEMMA BeginCallFrames ==
  ASSUME SignalInv, NEW c \in Caller, BeginCall(c)
  PROVE  /\ Constructed /\ stack[c] = <<>> /\ result[c] = "none"
         /\ UNCHANGED <<registration, tstate, services, inits, call_stack, result, top>>
         /\ \E n \in Name :
              /\ Call(c, n)
              /\ Request[c] = ALL =>
                   /\ cursor[c] \in 1..Len(registry)
                   /\ n = registry[cursor[c]].name
                   /\ registry[cursor[c]].auto_start
<1>1. /\ Constructed /\ stack[c] = <<>> /\ result[c] = "none"
      /\ cursor[c] <= Iterations(c)
      /\ UNCHANGED <<registration, tstate, services, inits, call_stack, result, top>>
  BY DEF BeginCall, AtTop
<1>2. CASE Request[c] # ALL
  <2>1. Request[c] \in Name
    BY <1>2, NamesAssumption
  <2>2. QED
    BY <1>1, <1>2, <2>1 DEF BeginCall
<1>3. CASE Request[c] = ALL
  <2>1. registry \in Seq(Descriptor(Name)) /\ cursor[c] \in Nat \ {0}
    BY DEF SignalInv, TypeOK
  <2>2. cursor[c] \in 1..Len(registry)
    BY <1>1, <1>3, <2>1, LenProperties DEF Iterations
  <2>3. registry[cursor[c]] \in Descriptor(Name)
    BY <2>1, <2>2, ElementOfSeq
  <2>4. registry[cursor[c]].name \in Name
    BY <2>3 DEF Descriptor
  <2>5. Call(c, registry[cursor[c]].name) /\ registry[cursor[c]].auto_start
    BY <1>3 DEF BeginCall
  <2>6. QED
    BY <1>1, <2>2, <2>4, <2>5
<1>4. QED
  BY <1>2, <1>3

LEMMA MovesKeepShape ==
  ASSUME ShapeInv, OneCaller, NEW c \in Caller, stack[c] # <<>>, Top(c).pc # "enter",
         NEW f, Moves(c, f), UNCHANGED call_stack
  PROVE  AllShaped'
<1>1. f \in Frame /\ f.name = Top(c).name /\ f.pc # "enter" /\ SetTop(c, f)
  BY DEF Moves
<1>2. /\ stack' \in [Caller -> Seq(Frame)]
      /\ Len(stack'[c]) = Len(stack[c])
      /\ \A k \in 1..Len(stack'[c]) :
           stack'[c][k] = IF k = Len(stack[c]) THEN f ELSE stack[c][k]
  BY <1>1, SetTopKeepsFrames DEF ShapeInv, SignalInv
<1>3. stack[c] \in Seq(Frame) /\ stack'[c] \in Seq(Frame)
  BY <1>2 DEF ShapeInv, SignalInv, TypeOK
<1>4. ShapeOK(stack[c], call_stack)
  BY DEF ShapeInv, AllShaped
<1>5. ShapeOK(stack'[c], call_stack)
  BY <1>1, <1>2, <1>3, <1>4, ShapeOfSetTop DEF Top
<1>6. QED
  BY <1>5 DEF AllShaped, OneCaller

LEMMA EnterKeepsShape ==
  ASSUME ShapeInv, OneCaller, NEW c \in Caller, Enter(c)
  PROVE  AllShaped'
<1>1. stack[c] # <<>> /\ Top(c).pc = "enter"
  BY DEF Enter, At
<1>2. stack[c] \in Seq(Frame) /\ call_stack \in Seq(Name) /\ Top(c) \in Frame
  BY <1>1, TopIsFrame DEF ShapeInv, SignalInv, TypeOK
<1>3. ShapeOK(stack[c], call_stack)
  BY DEF ShapeInv, AllShaped
<1>4. CASE Return(c, "err") /\ UNCHANGED call_stack
  <2>1. /\ stack' \in [Caller -> Seq(Frame)]
        /\ Len(stack'[c]) = Len(stack[c]) - 1
        /\ \A k \in 1..Len(stack'[c]) : stack'[c][k] = stack[c][k]
    BY <1>1, <1>4, ReturnKeepsFrames DEF ShapeInv, SignalInv, Ret
  <2>2. ShapeOK(stack'[c], call_stack)
    BY <1>1, <1>2, <1>3, <2>1, ShapeOfTurn DEF Top
  <2>3. QED
    BY <1>4, <2>2 DEF AllShaped, OneCaller
<1>5. CASE /\ ~is_circular_dependency(Top(c).name)
           /\ push_call_stack(Top(c).name)
           /\ Goto(c, "lookup")
  <2>1. PICK f : Moves(c, f) /\ f.pc = "lookup"
    BY <1>2, <1>5, GotoMoves DEF Pc
  <2>2. f \in Frame /\ f.name = Top(c).name /\ SetTop(c, f)
    BY <2>1 DEF Moves
  <2>3. /\ stack' \in [Caller -> Seq(Frame)]
        /\ Len(stack'[c]) = Len(stack[c])
        /\ \A k \in 1..Len(stack'[c]) :
             stack'[c][k] = IF k = Len(stack[c]) THEN f ELSE stack[c][k]
    BY <1>1, <2>2, SetTopKeepsFrames DEF ShapeInv, SignalInv
  <2>4. \A i \in 1..Len(call_stack) : call_stack[i] # f.name
    BY <1>2, <1>5, <2>2, LenProperties DEF is_circular_dependency
  <2>5. ShapeOK(stack'[c], Append(call_stack, f.name))
    BY <1>1, <1>2, <1>3, <2>1, <2>2, <2>3, <2>4, ShapeOfPush DEF Top
  <2>6. call_stack' = Append(call_stack, f.name)
    BY <1>5, <2>2 DEF push_call_stack
  <2>7. QED
    BY <2>5, <2>6 DEF AllShaped, OneCaller
<1>6. QED
  BY <1>4, <1>5 DEF Enter

LEMMA PopKeepsShape ==
  ASSUME ShapeInv, OneCaller, NEW c \in Caller, PopAndReturn(c)
  PROVE  AllShaped'
<1>1. stack[c] # <<>> /\ Top(c).pc = "cleanup"
  BY DEF PopAndReturn, At
<1>2. stack[c] \in Seq(Frame) /\ call_stack \in Seq(Name) /\ Top(c) \in Frame
  BY <1>1, TopIsFrame DEF ShapeInv, SignalInv, TypeOK
<1>3. ShapeOK(stack[c], call_stack)
  BY DEF ShapeInv, AllShaped
<1>4. Top(c).ret \in Ret
  BY <1>2 DEF Frame
<1>5. /\ stack' \in [Caller -> Seq(Frame)]
      /\ Len(stack'[c]) = Len(stack[c]) - 1
      /\ \A k \in 1..Len(stack'[c]) : stack'[c][k] = stack[c][k]
  BY <1>1, <1>4, ReturnKeepsFrames DEF ShapeInv, SignalInv, PopAndReturn
<1>6. /\ ShapeOK(stack'[c], SubSeq(call_stack, 1, Len(call_stack) - 1))
      /\ call_stack # <<>>
  BY <1>1, <1>2, <1>3, <1>5, ShapeOfPop DEF Top
<1>7. call_stack' = SubSeq(call_stack, 1, Len(call_stack) - 1)
  BY <1>6 DEF PopAndReturn, pop_call_stack
<1>8. QED
  BY <1>6, <1>7 DEF AllShaped, OneCaller

LEMMA CallDepKeepsShape ==
  ASSUME ShapeInv, OneCaller, NEW c \in Caller, CallDep(c)
  PROVE  AllShaped'
<1>1. /\ stack[c] # <<>> /\ Top(c).pc = "deps" /\ call_stack' = call_stack
      /\ Deps(c)[Top(c).dep] \in Name
  BY CallDepFrames DEF ShapeInv
<1> DEFINE n == Deps(c)[Top(c).dep]
<1>2. PICK f \in Frame :
        /\ f.name = Top(c).name /\ f.pc = "called"
        /\ stack' = [stack EXCEPT ![c] = Append([@ EXCEPT ![Len(@)] = f], NewFrame(n))]
  BY CallDepFrames DEF ShapeInv
<1>a. n \in Name /\ TypeOK
  BY <1>1 DEF ShapeInv, SignalInv
<1> HIDE DEF n
<1>3. /\ NewFrame(n) \in Frame
      /\ stack' \in [Caller -> Seq(Frame)]
      /\ Len(stack'[c]) = Len(stack[c]) + 1
      /\ \A k \in 1..Len(stack[c]) :
           stack'[c][k] = IF k = Len(stack[c]) THEN f ELSE stack[c][k]
      /\ stack'[c][Len(stack[c]) + 1] = NewFrame(n)
  <2>1. stack[c] # <<>>
    BY <1>1
  <2>2. stack' = [stack EXCEPT ![c] = Append([@ EXCEPT ![Len(@)] = f], NewFrame(n))]
    BY <1>2
  <2>3. QED
    BY <1>a, <2>1, <2>2, CallFromTopFrames, Zenon
<1>4. stack[c] \in Seq(Frame) /\ stack'[c] \in Seq(Frame)
  BY <1>3 DEF ShapeInv, SignalInv, TypeOK
<1>5. ShapeOK(stack[c], call_stack) /\ NewFrame(n).pc = "enter"
  BY DEF ShapeInv, AllShaped, NewFrame
<1>6. ShapeOK(stack'[c], call_stack)
  BY <1>1, <1>2, <1>3, <1>4, <1>5, ShapeOfCall DEF Top
<1>7. QED
  BY <1>1, <1>6 DEF AllShaped, OneCaller

LEMMA BeginCallKeepsShape ==
  ASSUME ShapeInv, OneCaller, NEW c \in Caller, BeginCall(c)
  PROVE  AllShaped'
<1>1. stack[c] = <<>> /\ call_stack' = call_stack
  BY BeginCallFrames DEF ShapeInv
<1>2. PICK n \in Name : Call(c, n)
  BY BeginCallFrames DEF ShapeInv
<1>3. /\ stack' \in [Caller -> Seq(Frame)]
      /\ Len(stack'[c]) = Len(stack[c]) + 1
      /\ stack'[c][Len(stack[c]) + 1] = NewFrame(n)
  BY <1>2, CallKeepsFrames DEF ShapeInv, SignalInv
<1>4. Len(stack'[c]) = 1 /\ stack'[c][1].pc = "enter" /\ stack'[c] \in Seq(Frame)
  BY <1>1, <1>3, EmptySeq DEF NewFrame
<1>5. ShapeOK(<<>>, call_stack)
  BY <1>1 DEF ShapeInv, AllShaped
<1>6. ShapeOK(stack'[c], call_stack)
  BY <1>4, <1>5, ShapeOfFirst
<1>7. QED
  BY <1>1, <1>6 DEF AllShaped, OneCaller

LEMMA ShapeInvNext == OneCaller /\ ShapeInv /\ [Next]_vars => ShapeInv'
<1> SUFFICES ASSUME OneCaller, ShapeInv, [Next]_vars PROVE ShapeInv'
  OBVIOUS
<1>1. SignalInv'
  BY SignalInvNext DEF ShapeInv
<1>2. ASSUME UNCHANGED <<stack, call_stack>> PROVE AllShaped'
  BY <1>2 DEF ShapeInv, AllShaped
<1>3. ASSUME NEW c \in Caller, CallerStep(c) PROVE AllShaped'
  <2>1. CASE MovesOn(c)
    <3>1. /\ stack[c] # <<>> /\ Top(c).pc # "enter" /\ UNCHANGED call_stack
          /\ \E f : Moves(c, f)
      BY <2>1, StepMoves DEF ShapeInv, SignalInv
    <3>2. QED
      BY <3>1, MovesKeepShape
  <2>2. CASE SkipThread(c) \/ EndCall(c)
    BY <1>2, <2>2 DEF SkipThread, EndCall
  <2>3. QED
    BY <1>3, <2>1, <2>2, EnterKeepsShape, PopKeepsShape, CallDepKeepsShape,
       BeginCallKeepsShape DEF CallerStep, StartThread, MovesOn
<1>4. ASSUME register_thread_descriptor PROVE AllShaped'
  BY <1>2, <1>4 DEF register_thread_descriptor
<1>5. ASSUME NEW n \in Name, GiveReadySem(n) \/ EndSilently(n) PROVE AllShaped'
  BY <1>2, <1>5 DEF GiveReadySem, EndSilently
<1>6. ASSUME MainLoop \/ UNCHANGED vars PROVE AllShaped'
  BY <1>2, <1>6 DEF MainLoop, vars
<1>7. AllShaped'
  BY <1>3, <1>4, <1>5, <1>6 DEF Next
<1>8. QED
  BY <1>1, <1>7 DEF ShapeInv

LEMMA ShapeInvInit == Init => ShapeInv
<1> SUFFICES ASSUME Init PROVE ShapeInv
  OBVIOUS
<1>1. ShapeOK(<<>>, <<>>)
  BY EmptySeq DEF ShapeOK, PushedIn
<1>2. AllShaped
  BY <1>1 DEF Init, AllShaped
<1>3. QED
  BY <1>2, SignalInvInit DEF ShapeInv

\* The shape is what CallStackMirrors says.
LEMMA ShapeMirrors == ShapeInv => CallStackMirrors
<1> SUFFICES ASSUME ShapeInv, NEW c \in Caller
             PROVE  call_stack = [i \in 1..Pushed(c) |-> stack[c][i].name]
  BY DEF CallStackMirrors
<1>1. /\ Len(call_stack) = PushedIn(stack[c])
      /\ \A i \in 1..Len(call_stack) : call_stack[i] = stack[c][i].name
  BY DEF ShapeInv, AllShaped, ShapeOK
<1>2. PushedIn(stack[c]) = Pushed(c)
  BY DEF PushedIn, Pushed, At, Top
<1>3. call_stack \in [1..Len(call_stack) -> Name]
  BY LenProperties DEF ShapeInv, SignalInv, TypeOK
<1>4. QED
  BY <1>1, <1>2, <1>3

\* From one caller the shared stack holds exactly the names of the active calls,
\* in call order, on every path through the recursion and its seven exits: for
\* every table, dependency graph and limit.
THEOREM StackMirrorsCalls == OneCaller => (Spec => []CallStackMirrors)
<1> SUFFICES ASSUME OneCaller PROVE Spec => []CallStackMirrors
  OBVIOUS
<1>1. ShapeInv /\ [Next]_vars => ShapeInv'
  BY ShapeInvNext
<1>2. QED
  BY <1>1, ShapeInvInit, ShapeMirrors, PTL DEF Spec

(***************************************************************************)
(* The progress of every active call: what its program counter says of the *)
(* states of its thread and of the dependencies behind its index.          *)
(***************************************************************************)

DepsFor(f) == find_thread_descriptor(f.name).deps

ProgressOK(f) ==
  /\ f.pc # "wait"
  /\ f.pc \in {"deps", "called", "init"} =>
       tstate[f.name] = INITIAL /\ inits[f.name] = 0
  /\ f.pc = "inited" => tstate[f.name] = INITIAL /\ f.ret # "none"
  /\ f.pc = "signal" => tstate[f.name] = RUNNING
  /\ f.pc \in {"deps", "called", "init", "inited"} =>
       \A j \in 1..Len(DepsFor(f)) : j < f.dep => tstate[DepsFor(f)[j]] = READY
  /\ f.pc \in {"init", "inited"} => f.dep > Len(DepsFor(f))
  /\ f.pc = "cleanup" => f.ret # "none" /\ (f.ret = "ok" => tstate[f.name] = READY)

AllProgress == \A c \in Caller : \A k \in 1..Len(stack[c]) : ProgressOK(stack[c][k])

\* Every call but the first is for the dependency its caller is looking at.
Chained ==
  \A c \in Caller : \A k \in 1..Len(stack[c]) :
    k < Len(stack[c]) =>
      stack[c][k + 1].name = DepsFor(stack[c][k])[stack[c][k].dep]

\* Only the topmost call has a thread under way.
RunsOnTop ==
  \A n \in Name :
    tstate[n] = RUNNING => \E c \in Caller : At(c, "signal") /\ Top(c).name = n

InitsOnTop ==
  \A n \in Name :
    inits[n] # 0 /\ tstate[n] = INITIAL =>
      \E c \in Caller : At(c, "inited") /\ Top(c).name = n

OkMeansReady ==
  \A c \in Caller :
    At(c, "called") /\ result[c] = "ok" => tstate[Deps(c)[Top(c).dep]] = READY

Progress ==
  /\ AllProgress
  /\ Chained
  /\ RunsOnTop
  /\ InitsOnTop
  /\ OkMeansReady
  /\ InitAtMostOnce
  /\ StartsAfterDeps

ProgressInv == ShapeInv /\ Progress

\* What is said of a call depends on the registry, the states and the counts.
LEMMA ProgressUnchanged ==
  ASSUME NEW f, ProgressOK(f), UNCHANGED <<registry, tstate, inits>>
  PROVE  ProgressOK(f)'
  BY DEF ProgressOK, DepsFor, find_thread_descriptor

LEMMA AllProgressFrom ==
  ASSUME \A e \in Caller : \A k \in 1..Len(stack'[e]) :
           \E f : f = stack'[e][k] /\ ProgressOK(f)'
  PROVE  AllProgress'
<1> SUFFICES ASSUME NEW e \in Caller, NEW k \in 1..Len(stack'[e])
             PROVE  ProgressOK(stack[e][k])'
  BY DEF AllProgress
<1>1. PICK f : f = stack'[e][k] /\ ProgressOK(f)'
  OBVIOUS
<1>2. QED
  BY <1>1 DEF ProgressOK, DepsFor

\* The topmost call.
LEMMA TopProgress ==
  ASSUME ProgressInv, NEW c \in Caller, stack[c] # <<>>
  PROVE  /\ Top(c) \in Frame /\ FrameOK(Top(c)) /\ ProgressOK(Top(c))
         /\ Top(c).name \in Name
         /\ Len(stack[c]) \in Nat \ {0} /\ Len(stack[c]) \in 1..Len(stack[c])
<1>1. Len(stack[c]) \in 1..Len(stack[c]) /\ Len(stack[c]) \in Nat \ {0}
  BY TopIsFrame DEF ProgressInv, ShapeInv, SignalInv
<1>2. Top(c) \in Frame /\ FrameOK(Top(c))
  BY TopOK DEF ProgressInv, ShapeInv
<1>3. ProgressOK(Top(c))
  BY <1>1 DEF ProgressInv, Progress, AllProgress, Top
<1>4. QED
  BY <1>1, <1>2, <1>3 DEF Frame

\* The calls below the topmost one.
LEMMA LowerFrame ==
  ASSUME ProgressInv, NEW c \in Caller, NEW k \in 1..Len(stack[c]), k < Len(stack[c])
  PROVE  /\ stack[c][k] \in Frame /\ stack[c][k].pc = "called"
         /\ stack[c][k].name \in Registered
         /\ stack[c][k].dep \in 1..Len(DepsFor(stack[c][k]))
         /\ \A j \in 1..Len(DepsFor(stack[c][k])) : DepsFor(stack[c][k])[j] \in Name
         /\ Top(c).pc # "enter" => stack[c][k].name # Top(c).name
<1> DEFINE f == stack[c][k]
<1>1. stack[c] \in Seq(Frame) /\ TypeOK /\ Len(stack[c]) \in Nat
  BY LenProperties DEF ProgressInv, ShapeInv, SignalInv, TypeOK
<1>2. f \in Frame
  BY <1>1, ElementOfSeq
<1>3. f.pc = "called"
  BY DEF ProgressInv, ShapeInv, AllShaped, ShapeOK
<1>4. FrameOK(f)
  BY DEF ProgressInv, ShapeInv, SignalInv, FramesOK
<1>5. f.name \in Registered /\ f.dep <= Len(DepsFor(f)) /\ f.dep \in Nat \ {0}
  BY <1>2, <1>3, <1>4 DEF FrameOK, DepsFor, Frame
<1>6. DepsFor(f) \in Seq(Name)
  BY <1>1, <1>5, FindRegistered DEF DepsFor, Descriptor
<1>7. f.dep \in 1..Len(DepsFor(f))
  BY <1>5, <1>6, LenProperties
<1>8. \A j \in 1..Len(DepsFor(f)) : DepsFor(f)[j] \in Name
  BY <1>6, ElementOfSeq
<1>9. ASSUME Top(c).pc # "enter" PROVE f.name # Top(c).name
  <2>1. stack[c] # <<>>
    BY EmptySeq
  <2>2. Len(call_stack) = Len(stack[c])
    BY <1>9, <2>1 DEF ProgressInv, ShapeInv, AllShaped, ShapeOK, PushedIn, Top
  <2>3. /\ \A i \in 1..Len(call_stack) : call_stack[i] = stack[c][i].name
        /\ \A i, j \in 1..Len(call_stack) : call_stack[i] = call_stack[j] => i = j
    BY DEF ProgressInv, ShapeInv, AllShaped, ShapeOK
  <2>4. QED
    BY <1>1, <2>2, <2>3 DEF Top
<1>10. QED
  BY <1>2, <1>3, <1>5, <1>7, <1>8, <1>9

\* READY is final, and a step disturbs the state of the topmost thread alone.
TopChange(c) ==
  /\ registry' = registry
  /\ \A n \in Name : n # Top(c).name => tstate'[n] = tstate[n] /\ inits'[n] = inits[n]
  /\ \A n \in Name : tstate[n] = READY => tstate'[n] = READY
  /\ Top(c).pc = "enter" => UNCHANGED <<tstate, inits>>

LEMMA LowerProgress ==
  ASSUME ProgressInv, NEW c \in Caller, TopChange(c),
         NEW k \in 1..Len(stack[c]), k < Len(stack[c])
  PROVE  \E f : f = stack[c][k] /\ ProgressOK(f)'
<1>1. PICK f : f = stack[c][k]
  OBVIOUS
<1>2. /\ f \in Frame /\ f.pc = "called" /\ f.name \in Name
      /\ \A j \in 1..Len(DepsFor(f)) : DepsFor(f)[j] \in Name
      /\ Top(c).pc # "enter" => f.name # Top(c).name
  BY <1>1, LowerFrame DEF Frame
<1>3. ProgressOK(f)
  BY <1>1 DEF ProgressInv, Progress, AllProgress
<1>4. DepsFor(f)' = DepsFor(f)
  BY DEF DepsFor, find_thread_descriptor, TopChange
<1>5. tstate'[f.name] = INITIAL /\ inits'[f.name] = 0
  BY <1>2, <1>3 DEF ProgressOK, TopChange
<1>6. \A j \in 1..Len(DepsFor(f)) : j < f.dep => tstate'[DepsFor(f)[j]] = READY
  BY <1>2, <1>3 DEF ProgressOK, TopChange
<1>7. ProgressOK(f)'
  BY <1>2, <1>4, <1>5, <1>6 DEF ProgressOK
<1>8. QED
  BY <1>1, <1>7

LEMMA NobodyUnderWay ==
  ASSUME ProgressInv, OneCaller, NEW c \in Caller
  PROVE  /\ ~At(c, "signal") => \A n \in Name : tstate[n] # RUNNING
         /\ At(c, "signal") => \A n \in Name : tstate[n] = RUNNING => n = Top(c).name
         /\ ~At(c, "inited") => \A n \in Name : inits[n] # 0 => tstate[n] # INITIAL
         /\ At(c, "inited") =>
              \A n \in Name : inits[n] # 0 /\ tstate[n] = INITIAL => n = Top(c).name
  BY DEF ProgressInv, Progress, RunsOnTop, InitsOnTop, OneCaller

LEMMA DepsOfRegistered ==
  ASSUME TypeOK, NEW n \in Registered
  PROVE  DepsOf(n) \subseteq Name
<1>1. find_thread_descriptor(n).deps \in Seq(Name)
  BY FindRegistered DEF Descriptor
<1> DEFINE deps == find_thread_descriptor(n).deps
<1>2. \A i \in DOMAIN deps : deps[i] \in Name
  <2> HIDE DEF deps
  <2>1. deps \in Seq(Name)
    BY <1>1 DEF deps
  <2>2. QED
    BY <2>1, ElementOfSeq, LenProperties
<1>3. QED
  BY <1>2 DEF DepsOf

\* What a started thread depends on stays READY.
LEMMA StartsAfterDepsFrom ==
  ASSUME TypeOK, StartsAfterDeps, registry' = registry,
         \A n \in Name : tstate[n] = READY => tstate'[n] = READY,
         \A n \in Name :
           tstate'[n] # INITIAL =>
             \/ tstate[n] # INITIAL
             \/ n \in Registered /\ \A d \in DepsOf(n) : tstate[d] = READY
  PROVE  StartsAfterDeps'
<1> SUFFICES ASSUME NEW n \in Name, tstate'[n] # INITIAL
             PROVE  (n \in Registered /\ \A d \in DepsOf(n) : tstate[d] = READY)'
  BY DEF StartsAfterDeps
<1>1. n \in Registered /\ \A d \in DepsOf(n) : tstate[d] = READY
  BY DEF StartsAfterDeps
<1>2. DepsOf(n)' = DepsOf(n) /\ Registered' = Registered
  BY DEF DepsOf, find_thread_descriptor, Registered
<1>3. \A d \in DepsOf(n) : d \in Name
  BY <1>1, DepsOfRegistered
<1>4. QED
  BY <1>1, <1>2, <1>3

\* The topmost call goes on.
LEMMA MoveProgress ==
  ASSUME ProgressInv, OneCaller, NEW c \in Caller, stack[c] # <<>>,
         Top(c).pc # "enter", TopChange(c),
         NEW f, Moves(c, f), f.pc # "called", ProgressOK(f)',
         \A n \in Name : tstate'[n] = RUNNING => f.pc = "signal" /\ n = f.name,
         \A n \in Name :
           inits'[n] # 0 /\ tstate'[n] = INITIAL => f.pc = "inited" /\ n = f.name,
         inits'[f.name] <= 1,
         tstate'[f.name] # INITIAL /\ tstate[f.name] = INITIAL =>
           \A d \in DepsOf(f.name) : tstate[d] = READY,
         f.name \in Registered \/ tstate' = tstate
  PROVE  Progress'
<1>1. f \in Frame /\ f.name = Top(c).name /\ f.pc # "enter" /\ SetTop(c, f)
  BY DEF Moves
<1>2. TypeOK /\ Len(stack[c]) \in 1..Len(stack[c]) /\ Len(stack[c]) \in Nat
  BY TopIsFrame DEF ProgressInv, ShapeInv, SignalInv
<1>3. /\ stack' \in [Caller -> Seq(Frame)]
      /\ Len(stack'[c]) = Len(stack[c])
      /\ \A k \in 1..Len(stack'[c]) :
           stack'[c][k] = IF k = Len(stack[c]) THEN f ELSE stack[c][k]
  BY <1>1, <1>2, SetTopKeepsFrames
<1>4. Top(c)' = f /\ stack'[c] # <<>>
  BY <1>2, <1>3, EmptySeq DEF Top
<1>5. AllProgress'
  <2>1. ASSUME NEW k \in 1..Len(stack'[c])
        PROVE  \E g : g = stack'[c][k] /\ ProgressOK(g)'
    <3>1. CASE k = Len(stack[c])
      BY <1>3, <3>1
    <3>2. CASE k # Len(stack[c])
      <4>1. PICK g : g = stack[c][k] /\ ProgressOK(g)'
        BY <1>2, <1>3, <2>1, <3>2, LowerProgress
      <4>2. QED
        BY <1>3, <2>1, <3>2, <4>1
    <3>3. QED
      BY <3>1, <3>2
  <2>2. QED
    BY <2>1, AllProgressFrom DEF OneCaller
<1>6. Chained'
  <2>1. ASSUME NEW k \in 1..Len(stack'[c]), k < Len(stack'[c])
        PROVE  /\ stack'[c][k] = stack[c][k]
               /\ stack'[c][k + 1].name = stack[c][k + 1].name
    BY <1>1, <1>2, <1>3, <2>1 DEF Top
  <2>2. \A k \in 1..Len(stack'[c]) :
          k < Len(stack'[c]) =>
            stack'[c][k + 1].name = DepsFor(stack[c][k])[stack'[c][k].dep]
    BY <1>3, <2>1 DEF ProgressInv, Progress, Chained
  <2>3. registry' = registry
    BY DEF TopChange
  <2>4. \A k \in 1..Len(stack'[c]) :
          k < Len(stack'[c]) => DepsFor(stack[c][k])' = DepsFor(stack[c][k])
    BY <2>1, <2>3 DEF DepsFor, find_thread_descriptor
  <2>5. QED
    BY <2>2, <2>4 DEF Chained, OneCaller
<1>7. RunsOnTop' /\ InitsOnTop'
  <2>1. f.pc = "signal" => At(c, "signal")'
    BY <1>4 DEF At
  <2>2. f.pc = "inited" => At(c, "inited")'
    BY <1>4 DEF At
  <2>3. QED
    BY <1>4, <2>1, <2>2 DEF RunsOnTop, InitsOnTop
<1>8. OkMeansReady'
  BY <1>4 DEF OkMeansReady, At, OneCaller
<1>9. InitAtMostOnce'
  BY <1>1 DEF InitAtMostOnce, TopChange, ProgressInv, Progress
<1>10. StartsAfterDeps'
  <2>1. \A n \in Name :
          tstate'[n] # INITIAL =>
            \/ tstate[n] # INITIAL
            \/ n \in Registered /\ \A d \in DepsOf(n) : tstate[d] = READY
    BY <1>1 DEF TopChange
  <2>2. QED
    BY <1>2, <2>1, StartsAfterDepsFrom DEF TopChange, ProgressInv, Progress
<1>11. QED
  BY <1>5, <1>6, <1>7, <1>8, <1>9, <1>10 DEF Progress

\* The topmost call goes on and nothing else changes.
LEMMA QuietMoveProgress ==
  ASSUME ProgressInv, OneCaller, NEW c \in Caller, stack[c] # <<>>,
         Top(c).pc \notin {"enter", "inited", "signal"},
         UNCHANGED <<registry, tstate, inits>>,
         NEW f, Moves(c, f), f.pc # "called", ProgressOK(f)
  PROVE  Progress'
<1>1. TopChange(c)
  BY DEF TopChange
<1>2. ProgressOK(f)'
  BY ProgressUnchanged
<1>3. ~At(c, "signal") /\ ~At(c, "inited")
  BY DEF At
<1>4. /\ \A n \in Name : tstate'[n] # RUNNING
      /\ \A n \in Name : inits'[n] # 0 => tstate'[n] # INITIAL
  BY <1>3, NobodyUnderWay
<1>5. inits'[f.name] <= 1
  <2>1. f.name \in Name
    BY DEF Moves, Frame
  <2>2. QED
    BY <2>1 DEF ProgressInv, Progress, InitAtMostOnce
<1>6. QED
  BY <1>1, <1>2, <1>4, <1>5, MoveProgress

LEMMA LookupProgress ==
  ASSUME ProgressInv, OneCaller, NEW c \in Caller, Lookup(c)
  PROVE  Progress'
<1>1. stack[c] # <<>> /\ Top(c).pc = "lookup" /\ UNCHANGED <<registry, tstate, inits>>
  BY DEF Lookup, At, registration
<1>2. Top(c) \in Frame /\ FrameOK(Top(c)) /\ Top(c).name \in Name
  BY <1>1, TopProgress
<1>3. /\ \A n \in Name : tstate[n] # RUNNING
      /\ \A n \in Name : inits[n] # 0 => tstate[n] # INITIAL
  BY <1>1, NobodyUnderWay DEF At
<1>4. \E f : Moves(c, f) /\ f.pc # "called" /\ ProgressOK(f)
  <2>1. CASE Cleanup(c, "err")
    <3>1. PICK f : Moves(c, f) /\ f.pc = "cleanup" /\ f.ret = "err"
      BY <1>2, <2>1, CleanupMoves DEF Ret
    <3>2. QED
      BY <3>1 DEF ProgressOK
  <2>2. CASE tstate[Top(c).name] \in {READY, RUNNING} /\ Cleanup(c, "ok")
    <3>1. PICK f : Moves(c, f) /\ f.pc = "cleanup" /\ f.ret = "ok"
      BY <1>2, <2>2, CleanupMoves DEF Ret
    <3>2. tstate[f.name] = READY
      BY <1>2, <1>3, <2>2, <3>1 DEF Moves
    <3>3. QED
      BY <3>1, <3>2 DEF ProgressOK
  <2>3. CASE tstate[Top(c).name] = INITIAL /\ Goto(c, "deps")
    <3>1. PICK f : Moves(c, f) /\ f.pc = "deps" /\ f.dep = Top(c).dep
      BY <1>2, <2>3, GotoMoves DEF Pc
    <3>2. f.dep = 1 /\ f.name = Top(c).name
      BY <1>1, <1>2, <3>1 DEF FrameOK, Moves
    <3>3. tstate[f.name] = INITIAL /\ inits[f.name] = 0
      BY <1>2, <1>3, <2>3, <3>2
    <3>4. \A j \in 1..Len(DepsFor(f)) : ~(j < f.dep)
      BY <3>2
    <3>5. QED
      BY <3>1, <3>3, <3>4 DEF ProgressOK
  <2>4. QED
    BY <2>1, <2>2, <2>3 DEF Lookup, NotStarted
<1>5. QED
  BY <1>1, <1>4, QuietMoveProgress

\* A call behind the entrance has a registered name and dependencies in Name.
LEMMA TopDeps ==
  ASSUME ProgressInv, NEW c \in Caller, stack[c] # <<>>,
         Top(c).pc \notin {"enter", "lookup", "cleanup"}
  PROVE  /\ Top(c).name \in Registered
         /\ Deps(c) = DepsFor(Top(c)) /\ Deps(c) \in Seq(Name)
         /\ Len(Deps(c)) \in Nat /\ Top(c).dep \in Nat \ {0}
         /\ \A j \in 1..Len(Deps(c)) : Deps(c)[j] \in Name
         /\ DepsOf(Top(c).name) = {Deps(c)[j] : j \in 1..Len(Deps(c))}
<1>1. Top(c) \in Frame /\ FrameOK(Top(c)) /\ TypeOK
  BY TopProgress DEF ProgressInv, ShapeInv, SignalInv
<1>2. Top(c).name \in Registered /\ Top(c).dep \in Nat \ {0}
  BY <1>1 DEF FrameOK, Frame
<1>3. Deps(c) = DepsFor(Top(c))
  BY DEF Deps, DepsFor
<1>4. Deps(c) \in Seq(Name)
  BY <1>1, <1>2, FindRegistered DEF Deps, Descriptor
<1>5. Len(Deps(c)) \in Nat /\ DOMAIN Deps(c) = 1..Len(Deps(c))
  BY <1>4, LenProperties
<1>6. \A j \in 1..Len(Deps(c)) : Deps(c)[j] \in Name
  BY <1>4, ElementOfSeq
<1>7. DepsOf(Top(c).name) = {Deps(c)[j] : j \in 1..Len(Deps(c))}
  BY <1>5 DEF DepsOf, Deps
<1>8. QED
  BY <1>2, <1>3, <1>4, <1>5, <1>6, <1>7

LEMMA DepsDoneProgress ==
  ASSUME ProgressInv, OneCaller, NEW c \in Caller, DepsDone(c)
  PROVE  Progress'
<1>1. /\ stack[c] # <<>> /\ Top(c).pc = "deps" /\ ~(Top(c).dep <= Len(Deps(c)))
      /\ Goto(c, "init") /\ UNCHANGED <<registry, tstate, inits>>
  BY DEF DepsDone, At, HasMoreDeps, registration
<1>2. Top(c) \in Frame /\ ProgressOK(Top(c))
  BY <1>1, TopProgress
<1>3. Deps(c) = DepsFor(Top(c)) /\ Len(Deps(c)) \in Nat /\ Top(c).dep \in Nat
  BY <1>1, TopDeps
<1>4. PICK f : Moves(c, f) /\ f.pc = "init" /\ f.dep = Top(c).dep
  BY <1>1, <1>2, GotoMoves DEF Pc
<1>5. DepsFor(f) = DepsFor(Top(c)) /\ f.name = Top(c).name
  BY <1>4 DEF Moves, DepsFor
<1>6. f.dep > Len(DepsFor(f))
  BY <1>1, <1>3, <1>4, <1>5
<1>7. /\ tstate[f.name] = INITIAL /\ inits[f.name] = 0
      /\ \A j \in 1..Len(DepsFor(f)) : j < f.dep => tstate[DepsFor(f)[j]] = READY
  BY <1>1, <1>2, <1>4, <1>5 DEF ProgressOK
<1>8. ProgressOK(f)
  BY <1>4, <1>6, <1>7 DEF ProgressOK
<1>9. QED
  BY <1>1, <1>4, <1>8, QuietMoveProgress

LEMMA CheckDepProgress ==
  ASSUME ProgressInv, OneCaller, NEW c \in Caller, CheckDep(c)
  PROVE  Progress'
<1>1. stack[c] # <<>> /\ Top(c).pc = "called" /\ UNCHANGED <<registry, tstate, inits>>
  BY DEF CheckDep, At, registration
<1>2. Top(c) \in Frame /\ ProgressOK(Top(c)) /\ FrameOK(Top(c))
  BY <1>1, TopProgress
<1>3. /\ Deps(c) = DepsFor(Top(c)) /\ Len(Deps(c)) \in Nat /\ Top(c).dep \in Nat \ {0}
      /\ \A j \in 1..Len(Deps(c)) : Deps(c)[j] \in Name
  BY <1>1, TopDeps
<1>4. Top(c).dep <= Len(Deps(c))
  BY <1>1, <1>2, <1>3 DEF FrameOK, DepsFor
<1> DEFINE d == Deps(c)[Top(c).dep]
<1>5. d \in Name
  BY <1>3, <1>4
<1>6. tstate[d] # RUNNING
  BY <1>1, <1>5, NobodyUnderWay DEF At
<1>7. \E f : Moves(c, f) /\ f.pc # "called" /\ ProgressOK(f)
  <2>1. CASE Cleanup(c, "err")
    <3>1. PICK f : Moves(c, f) /\ f.pc = "cleanup" /\ f.ret = "err"
      BY <1>2, <2>1, CleanupMoves DEF Ret
    <3>2. QED
      BY <3>1 DEF ProgressOK
  <2>2. CASE tstate[d] = READY /\ NextDep(c)
    <3>1. PICK f : Moves(c, f) /\ f.pc = "deps" /\ f.dep = Top(c).dep + 1
      BY <1>2, <2>2, NextDepMoves
    <3>2. f.name = Top(c).name /\ DepsFor(f) = Deps(c)
      BY <1>3, <3>1 DEF Moves, DepsFor
    <3>3. \A j \in 1..Len(Deps(c)) : j < f.dep => tstate[Deps(c)[j]] = READY
      <4>1. \A j \in 1..Len(Deps(c)) : j < Top(c).dep => tstate[Deps(c)[j]] = READY
        BY <1>1, <1>2, <1>3 DEF ProgressOK
      <4>2. \A j \in 1..Len(Deps(c)) : j < f.dep => j < Top(c).dep \/ j = Top(c).dep
        BY <1>3, <3>1
      <4>3. QED
        BY <2>2, <4>1, <4>2
    <3>4. tstate[f.name] = INITIAL /\ inits[f.name] = 0
      BY <1>1, <1>2, <3>2 DEF ProgressOK
    <3>5. QED
      BY <3>1, <3>2, <3>3, <3>4 DEF ProgressOK
  <2>3. QED
    BY <1>6, <2>1, <2>2 DEF CheckDep
<1>8. QED
  BY <1>1, <1>7, QuietMoveProgress

LEMMA InitFuncProgress ==
  ASSUME ProgressInv, OneCaller, NEW c \in Caller, InitFunc(c)
  PROVE  Progress'
<1>1. PICK r \in {"ok", "err"}, created \in BOOLEAN : InitFuncReturns(c, r, created)
  BY DEF InitFunc
<1>2. /\ stack[c] # <<>> /\ Top(c).pc = "init"
      /\ UNCHANGED <<registry, tstate>>
      /\ inits' = [inits EXCEPT ![Top(c).name] = @ + 1]
      /\ SetTop(c, [Top(c) EXCEPT !.pc = "inited", !.ret = r])
  BY <1>1 DEF InitFuncReturns, At, registration
<1>3. Top(c) \in Frame /\ ProgressOK(Top(c)) /\ Top(c).name \in Name
  BY <1>2, TopProgress
<1>4. Top(c).name \in Registered
  BY <1>2, TopDeps
<1>a. Top(c) \in Frame
  BY <1>3
<1>b. r \in Ret
  BY DEF Ret
<1>c. SetTop(c, [Top(c) EXCEPT !.pc = "inited", !.ret = r])
  BY <1>2
<1>5. PICK f : Moves(c, f) /\ f.pc = "inited" /\ f.ret = r /\ f.dep = Top(c).dep
  BY <1>a, <1>b, <1>c, InitMoves, Zenon
<1>6. f.name = Top(c).name /\ DepsFor(f) = DepsFor(Top(c))
  BY <1>5 DEF Moves, DepsFor
<1>7. inits \in [Name -> Nat]
  BY DEF ProgressInv, ShapeInv, SignalInv, TypeOK
<1>8. TopChange(c)
  BY <1>2, <1>3, <1>7 DEF TopChange
<1>9. tstate[f.name] = INITIAL /\ inits[f.name] = 0 /\ inits'[f.name] = 1
  BY <1>2, <1>3, <1>6, <1>7 DEF ProgressOK
<1>10. /\ \A j \in 1..Len(DepsFor(f)) : j < f.dep => tstate[DepsFor(f)[j]] = READY
       /\ f.dep > Len(DepsFor(f))
  BY <1>2, <1>3, <1>5, <1>6 DEF ProgressOK
<1>11. ProgressOK(f)'
  <2>1. DepsFor(f)' = DepsFor(f)
    BY <1>2 DEF DepsFor, find_thread_descriptor
  <2>2. QED
    BY <1>2, <1>5, <1>9, <1>10, <2>1 DEF ProgressOK
<1>12. \A n \in Name : tstate'[n] # RUNNING
  BY <1>2, NobodyUnderWay DEF At
<1>13. \A n \in Name : inits'[n] # 0 /\ tstate'[n] = INITIAL => n = f.name
  <2>1. \A n \in Name : inits[n] # 0 => tstate[n] # INITIAL
    BY <1>2, NobodyUnderWay DEF At
  <2>2. QED
    BY <1>2, <1>6, <1>7, <2>1
<1>14. QED
  BY <1>2, <1>4, <1>5, <1>6, <1>8, <1>9, <1>11, <1>12, <1>13, MoveProgress

LEMMA InitReturnedProgress ==
  ASSUME ProgressInv, OneCaller, NEW c \in Caller, InitReturned(c)
  PROVE  Progress'
<1>1. /\ stack[c] # <<>> /\ Top(c).pc = "inited"
      /\ UNCHANGED <<registry, inits>>
      /\ tstate' = [tstate EXCEPT ![Top(c).name] = StateAfterInit(Top(c).ret)]
  BY DEF InitReturned, At, registration
<1>2. Top(c) \in Frame /\ ProgressOK(Top(c)) /\ Top(c).name \in Name
  BY <1>1, TopProgress
<1>3. /\ Top(c).name \in Registered /\ Deps(c) = DepsFor(Top(c))
      /\ DepsOf(Top(c).name) = {Deps(c)[j] : j \in 1..Len(Deps(c))}
      /\ Len(Deps(c)) \in Nat /\ Top(c).dep \in Nat
  BY <1>1, TopDeps
<1>4. /\ tstate[Top(c).name] = INITIAL
      /\ \A d \in DepsOf(Top(c).name) : tstate[d] = READY
  BY <1>1, <1>2, <1>3 DEF ProgressOK
<1>5. tstate \in [Name -> ThreadState] /\ inits \in [Name -> Nat]
  BY DEF ProgressInv, ShapeInv, SignalInv, TypeOK
<1>6. TopChange(c)
  BY <1>1, <1>2, <1>4, <1>5 DEF TopChange, INITIAL, READY
<1>7. inits'[Top(c).name] <= 1
  BY <1>1, <1>2 DEF ProgressInv, Progress, InitAtMostOnce
<1>8. /\ \A n \in Name : tstate[n] # RUNNING
      /\ \A n \in Name : inits[n] # 0 /\ tstate[n] = INITIAL => n = Top(c).name
  BY <1>1, NobodyUnderWay DEF At
<1>9. PICK s \in {RUNNING, FAILED} :
        /\ tstate' = [tstate EXCEPT ![Top(c).name] = s]
        /\ s = RUNNING => Top(c).ret = "ok"
        /\ Top(c).ret = "ok" => s = RUNNING
  BY <1>1 DEF StateAfterInit, RUNNING, FAILED
<1>10. /\ tstate'[Top(c).name] = s /\ s # INITIAL
       /\ \A n \in Name : tstate'[n] = RUNNING => n = Top(c).name /\ s = RUNNING
  BY <1>2, <1>5, <1>8, <1>9 DEF RUNNING, INITIAL, FAILED
<1>11. \A n \in Name : ~(inits'[n] # 0 /\ tstate'[n] = INITIAL)
  BY <1>1, <1>2, <1>5, <1>8, <1>9, <1>10
<1>12. CASE Top(c).ret = "ok"
  <2>1. Goto(c, "signal")
    BY <1>12 DEF InitReturned
  <2>2. PICK f : Moves(c, f) /\ f.pc = "signal"
    BY <1>2, <2>1, GotoMoves DEF Pc
  <2>3. f.name = Top(c).name
    BY <2>2 DEF Moves
  <2>4. ProgressOK(f)'
    BY <1>9, <1>10, <1>12, <2>2, <2>3 DEF ProgressOK
  <2>5. QED
    BY <1>1, <1>3, <1>4, <1>6, <1>7, <1>10, <1>11, <2>2, <2>3, <2>4, MoveProgress
<1>13. CASE Top(c).ret # "ok"
  <2>1. Cleanup(c, "err") /\ s = FAILED
    BY <1>9, <1>13 DEF InitReturned
  <2>2. PICK f : Moves(c, f) /\ f.pc = "cleanup" /\ f.ret = "err"
    BY <1>2, <2>1, CleanupMoves DEF Ret
  <2>3. f.name = Top(c).name
    BY <2>2 DEF Moves
  <2>4. ProgressOK(f)'
    BY <2>2 DEF ProgressOK
  <2>5. QED
    BY <1>1, <1>3, <1>4, <1>6, <1>7, <1>9, <1>10, <1>11, <1>13, <2>2, <2>3, <2>4,
       MoveProgress
<1>14. QED
  BY <1>12, <1>13

LEMMA AwaitSignalProgress ==
  ASSUME ProgressInv, OneCaller, NEW c \in Caller, AwaitSignal(c)
  PROVE  Progress'
<1>1. /\ stack[c] # <<>> /\ Top(c).pc = "signal"
      /\ UNCHANGED <<registry, inits>>
  BY DEF AwaitSignal, At, registration
<1>2. Top(c) \in Frame /\ ProgressOK(Top(c)) /\ Top(c).name \in Name
  BY <1>1, TopProgress
<1>3. Top(c).name \in Registered
  BY <1>1, TopDeps
<1>4. tstate[Top(c).name] = RUNNING
  BY <1>1, <1>2 DEF ProgressOK
<1>5. tstate \in [Name -> ThreadState] /\ inits \in [Name -> Nat]
  BY DEF ProgressInv, ShapeInv, SignalInv, TypeOK
<1>6. PICK r \in {"ok", "err"} :
        /\ Cleanup(c, r)
        /\ tstate' = [tstate EXCEPT ![Top(c).name] = IF r = "ok" THEN READY ELSE FAILED]
  BY DEF AwaitSignal
<1>7. TopChange(c)
  BY <1>1, <1>2, <1>4, <1>5, <1>6 DEF TopChange, RUNNING, READY
<1>8. PICK f : Moves(c, f) /\ f.pc = "cleanup" /\ f.ret = r
  BY <1>2, <1>6, CleanupMoves DEF Ret
<1>9. f.name = Top(c).name
  BY <1>8 DEF Moves
<1>10. /\ \A n \in Name : tstate[n] = RUNNING => n = Top(c).name
       /\ \A n \in Name : inits[n] # 0 => tstate[n] # INITIAL
  BY <1>1, NobodyUnderWay DEF At
<1>11. /\ \A n \in Name : tstate'[n] # RUNNING
       /\ \A n \in Name : inits'[n] # 0 => tstate'[n] # INITIAL
  BY <1>1, <1>2, <1>5, <1>6, <1>10 DEF RUNNING, READY, FAILED, INITIAL
<1>12. inits'[f.name] <= 1
  BY <1>1, <1>2, <1>9 DEF ProgressInv, Progress, InitAtMostOnce
<1>13. ProgressOK(f)'
  BY <1>2, <1>5, <1>6, <1>8, <1>9 DEF ProgressOK
<1>14. tstate[f.name] # INITIAL
  BY <1>4, <1>9 DEF RUNNING, INITIAL
<1>15. QED
  BY <1>1, <1>3, <1>7, <1>8, <1>9, <1>11, <1>12, <1>13, <1>14, MoveProgress

\* From one caller nobody waits for a dependency: it is READY or it has failed.
LEMMA WaitDepNever ==
  ASSUME ProgressInv, NEW c \in Caller
  PROVE  ~WaitDep(c)
<1> SUFFICES ASSUME WaitDep(c) PROVE FALSE
  OBVIOUS
<1>1. stack[c] # <<>> /\ Top(c).pc = "wait"
  BY DEF WaitDep, At
<1>2. QED
  BY <1>1, TopProgress DEF ProgressOK

\* Calls and returns touch no thread.
LEMMA FrameStepProgress ==
  ASSUME ProgressInv, OneCaller, NEW c \in Caller,
         UNCHANGED <<registry, tstate, inits>>,
         ~At(c, "signal"), ~At(c, "inited"),
         AllProgress', Chained', OkMeansReady'
  PROVE  Progress'
<1>1. /\ \A n \in Name : tstate'[n] # RUNNING
      /\ \A n \in Name : inits'[n] # 0 => tstate'[n] # INITIAL
  BY NobodyUnderWay
<1>2. RunsOnTop' /\ InitsOnTop'
  BY <1>1 DEF RunsOnTop, InitsOnTop
<1>3. InitAtMostOnce'
  BY DEF ProgressInv, Progress, InitAtMostOnce
<1>4. StartsAfterDeps'
  BY StartsAfterDepsFrom DEF ProgressInv, Progress, StartsAfterDeps, ShapeInv, SignalInv
<1>5. QED
  BY <1>2, <1>3, <1>4 DEF Progress

\* The topmost call returns; the one below sees what became of it.
LEMMA ReturnProgress ==
  ASSUME ProgressInv, OneCaller, NEW c \in Caller, stack[c] # <<>>,
         Top(c).pc \in {"enter", "cleanup"}, NEW r \in Ret, Return(c, r),
         r = "ok" => tstate[Top(c).name] = READY,
         UNCHANGED <<registry, tstate, inits>>
  PROVE  Progress'
<1>1. /\ TypeOK /\ Len(stack[c]) \in Nat \ {0}
      /\ result \in [Caller -> Ret] /\ stack \in [Caller -> Seq(Frame)]
  BY TopIsFrame DEF ProgressInv, ShapeInv, SignalInv, TypeOK
<1>2. /\ stack' \in [Caller -> Seq(Frame)]
      /\ Len(stack'[c]) = Len(stack[c]) - 1
      /\ \A k \in 1..Len(stack'[c]) : stack'[c][k] = stack[c][k]
      /\ result'[c] = r
  BY <1>1, ReturnKeepsFrames DEF Return
<1>3. AllProgress'
  <2>1. \A k \in 1..Len(stack'[c]) : \E f : f = stack'[c][k] /\ ProgressOK(f)'
    <3> SUFFICES ASSUME NEW k \in 1..Len(stack'[c])
                 PROVE  \E f : f = stack'[c][k] /\ ProgressOK(f)'
      OBVIOUS
    <3>0. k \in 1..Len(stack[c])
      BY <1>1, <1>2
    <3>1. PICK f : f = stack[c][k] /\ ProgressOK(f)
      BY <3>0 DEF ProgressInv, Progress, AllProgress
    <3>2. ProgressOK(f)'
      BY <3>1, ProgressUnchanged
    <3>3. QED
      BY <1>2, <3>1, <3>2
  <2>2. QED
    BY <2>1, AllProgressFrom DEF OneCaller
<1>4. Chained'
  <2>1. ASSUME NEW k \in 1..Len(stack'[c]), k < Len(stack'[c])
        PROVE  stack'[c][k + 1].name = DepsFor(stack'[c][k])[stack'[c][k].dep]
    <3>1. k \in 1..Len(stack[c]) /\ k < Len(stack[c]) /\ k + 1 \in 1..Len(stack'[c])
      BY <1>1, <1>2, <2>1
    <3>2. stack'[c][k] = stack[c][k] /\ stack'[c][k + 1] = stack[c][k + 1]
      BY <1>2, <2>1, <3>1
    <3>3. QED
      BY <3>1, <3>2 DEF ProgressInv, Progress, Chained
  <2>2. QED
    BY <2>1 DEF Chained, OneCaller, DepsFor, find_thread_descriptor
<1>5. OkMeansReady'
  <2> SUFFICES ASSUME At(c, "called")', result'[c] = "ok"
               PROVE  (tstate[Deps(c)[Top(c).dep]] = READY)'
    BY DEF OkMeansReady, OneCaller
  <2>1. stack'[c] # <<>>
    BY DEF At
  <2>2. Len(stack'[c]) \in 1..Len(stack'[c]) /\ Len(stack'[c]) < Len(stack[c])
    BY <1>1, <1>2, <2>1, EmptySeq
  <2>3. PICK k \in 1..Len(stack[c]) : k = Len(stack'[c]) /\ k < Len(stack[c])
    BY <1>1, <1>2, <2>2
  <2>4. stack[c][k + 1].name = DepsFor(stack[c][k])[stack[c][k].dep]
    BY <2>3 DEF ProgressInv, Progress, Chained
  <2>a. Len(stack[c]) \in Nat /\ Len(stack'[c]) = Len(stack[c]) - 1
    BY <1>1, <1>2
  <2>b. k + 1 = Len(stack[c])
    BY <2>a, <2>3
  <2>c. stack'[c][k] = stack[c][k]
    BY <1>2, <2>2, <2>3, Zenon
  <2>5. k + 1 = Len(stack[c]) /\ stack'[c][k] = stack[c][k]
    BY <2>b, <2>c
  <2>6. Top(c)' = stack[c][k]
    BY <2>3, <2>5, Zenon DEF Top
  <2>7. Deps(c)' = DepsFor(stack[c][k])
    BY <2>6 DEF Deps, DepsFor, find_thread_descriptor
  <2>8. tstate[Top(c).name] = READY
    BY <1>2
  <2>9. QED
    BY <2>4, <2>5, <2>6, <2>7, <2>8 DEF Top
<1>6. QED
  BY <1>3, <1>4, <1>5, FrameStepProgress DEF At

LEMMA PopProgress ==
  ASSUME ProgressInv, OneCaller, NEW c \in Caller, PopAndReturn(c)
  PROVE  Progress'
<1>1. /\ stack[c] # <<>> /\ Top(c).pc = "cleanup" /\ Return(c, Top(c).ret)
      /\ UNCHANGED <<registry, tstate, inits>>
  BY DEF PopAndReturn, At, registration
<1>2. Top(c) \in Frame /\ ProgressOK(Top(c))
  BY <1>1, TopProgress
<1>3. Top(c).ret \in Ret /\ (Top(c).ret = "ok" => tstate[Top(c).name] = READY)
  BY <1>1, <1>2 DEF ProgressOK, Frame
<1>4. QED
  BY <1>1, <1>3, ReturnProgress

LEMMA EnterProgress ==
  ASSUME ProgressInv, OneCaller, NEW c \in Caller, Enter(c)
  PROVE  Progress'
<1>1. /\ stack[c] # <<>> /\ Top(c).pc = "enter"
      /\ UNCHANGED <<registry, tstate, inits>>
  BY DEF Enter, At, registration
<1>2. CASE Return(c, "err")
  BY <1>1, <1>2, ReturnProgress DEF Ret
<1>3. CASE Goto(c, "lookup")
  <2>1. Top(c) \in Frame /\ TypeOK
    BY <1>1, TopProgress DEF ProgressInv, ShapeInv, SignalInv
  <2>2. PICK f : Moves(c, f) /\ f.pc = "lookup"
    BY <1>3, <2>1, GotoMoves DEF Pc
  <2>3. f \in Frame /\ f.name = Top(c).name /\ SetTop(c, f)
    BY <2>2 DEF Moves
  <2>4. /\ Len(stack[c]) \in 1..Len(stack[c]) /\ Len(stack[c]) \in Nat
        /\ Len(stack'[c]) = Len(stack[c])
        /\ \A k \in 1..Len(stack'[c]) :
             stack'[c][k] = IF k = Len(stack[c]) THEN f ELSE stack[c][k]
    BY <1>1, <2>1, <2>3, SetTopKeepsFrames, TopIsFrame
  <2>5. ProgressOK(f)
    BY <2>2 DEF ProgressOK
  <2>6. AllProgress'
    <3>1. \A k \in 1..Len(stack'[c]) : \E g : g = stack'[c][k] /\ ProgressOK(g)'
      <4> SUFFICES ASSUME NEW k \in 1..Len(stack'[c])
                   PROVE  \E g : g = stack'[c][k] /\ ProgressOK(g)'
        OBVIOUS
      <4>1. PICK g : g = stack'[c][k] /\ ProgressOK(g)
        BY <2>4, <2>5 DEF ProgressInv, Progress, AllProgress
      <4>2. ProgressOK(g)'
        BY <1>1, <4>1, ProgressUnchanged
      <4>3. QED
        BY <4>1, <4>2
    <3>2. QED
      BY <3>1, AllProgressFrom DEF OneCaller
  <2>7. Chained'
    <3>1. \A k \in 1..Len(stack'[c]) :
            k < Len(stack'[c]) =>
              /\ stack'[c][k] = stack[c][k]
              /\ stack'[c][k + 1].name = stack[c][k + 1].name
      BY <2>3, <2>4 DEF Top
    <3>2. \A k \in 1..Len(stack'[c]) :
            k < Len(stack'[c]) =>
              stack'[c][k + 1].name = DepsFor(stack'[c][k])[stack'[c][k].dep]
      BY <2>4, <3>1 DEF ProgressInv, Progress, Chained
    <3>3. QED
      BY <1>1, <3>2 DEF Chained, OneCaller, DepsFor, find_thread_descriptor
  <2>8. OkMeansReady'
    <3>1. Top(c)' = f
      BY <2>4 DEF Top
    <3>2. QED
      BY <2>2, <3>1 DEF OkMeansReady, OneCaller, At
  <2>9. QED
    BY <1>1, <2>6, <2>7, <2>8, FrameStepProgress DEF At
<1>4. QED
  BY <1>2, <1>3 DEF Enter

LEMMA CallDepProgress ==
  ASSUME ProgressInv, OneCaller, NEW c \in Caller, CallDep(c)
  PROVE  Progress'
<1>1. /\ stack[c] # <<>> /\ Top(c).pc = "deps"
      /\ Deps(c)[Top(c).dep] \in Name
      /\ UNCHANGED <<registration, tstate, services, inits, call_stack, result, top>>
  BY CallDepFrames DEF ProgressInv, ShapeInv
<1> DEFINE n == Deps(c)[Top(c).dep]
<1>2. PICK f \in Frame :
        /\ f.name = Top(c).name /\ f.pc = "called" /\ f.dep = Top(c).dep
        /\ stack' = [stack EXCEPT ![c] = Append([@ EXCEPT ![Len(@)] = f], NewFrame(n))]
  BY CallDepFrames DEF ProgressInv, ShapeInv
<1>a. n \in Name /\ TypeOK
  BY <1>1 DEF ProgressInv, ShapeInv, SignalInv
<1> HIDE DEF n
<1>3. /\ Len(stack'[c]) = Len(stack[c]) + 1
      /\ \A k \in 1..Len(stack[c]) :
           stack'[c][k] = IF k = Len(stack[c]) THEN f ELSE stack[c][k]
      /\ stack'[c][Len(stack[c]) + 1] = NewFrame(n)
  <2>1. stack[c] # <<>>
    BY <1>1
  <2>2. stack' = [stack EXCEPT ![c] = Append([@ EXCEPT ![Len(@)] = f], NewFrame(n))]
    BY <1>2
  <2>3. QED
    BY <1>a, <2>1, <2>2, CallFromTopFrames, Zenon
<1>4. Len(stack[c]) \in 1..Len(stack[c]) /\ Len(stack[c]) \in Nat
  BY <1>1, TopProgress
<1>5. UNCHANGED <<registry, tstate, inits>>
  BY <1>1 DEF registration
<1>6. ProgressOK(f)
  <2>1. ProgressOK(Top(c)) /\ DepsFor(f) = DepsFor(Top(c))
    BY <1>1, <1>2, TopProgress DEF DepsFor
  <2>2. QED
    BY <1>1, <1>2, <2>1 DEF ProgressOK
<1>7. ProgressOK(NewFrame(n)) /\ NewFrame(n).name = n /\ NewFrame(n).pc = "enter"
  BY DEF ProgressOK, NewFrame
<1>8. AllProgress'
  <2>1. \A k \in 1..Len(stack'[c]) : \E g : g = stack'[c][k] /\ ProgressOK(g)'
    <3> SUFFICES ASSUME NEW k \in 1..Len(stack'[c])
                 PROVE  \E g : g = stack'[c][k] /\ ProgressOK(g)'
      OBVIOUS
    <3>1. k \in 1..Len(stack[c]) \/ k = Len(stack[c]) + 1
      BY <1>3, <1>4
    <3>2. PICK g : g = stack'[c][k] /\ ProgressOK(g)
      BY <1>3, <1>6, <1>7, <3>1 DEF ProgressInv, Progress, AllProgress
    <3>3. ProgressOK(g)'
      BY <1>5, <3>2, ProgressUnchanged
    <3>4. QED
      BY <3>2, <3>3
  <2>2. QED
    BY <2>1, AllProgressFrom DEF OneCaller
<1>9. Chained'
  <2>1. ASSUME NEW k \in 1..Len(stack'[c]), k < Len(stack'[c])
        PROVE  stack'[c][k + 1].name = DepsFor(stack'[c][k])[stack'[c][k].dep]
    <3>1. CASE k = Len(stack[c])
      BY <1>2, <1>3, <1>4, <1>7, <3>1 DEF n, Deps, DepsFor
    <3>2. CASE k # Len(stack[c])
      <4>1. /\ k \in 1..Len(stack[c]) /\ k < Len(stack[c])
            /\ k + 1 \in 1..Len(stack[c])
        BY <1>3, <1>4, <2>1, <3>2
      <4>2. /\ stack'[c][k] = stack[c][k]
            /\ stack'[c][k + 1].name = stack[c][k + 1].name
        BY <1>2, <1>3, <1>4, <4>1 DEF Top
      <4>3. QED
        BY <4>1, <4>2 DEF ProgressInv, Progress, Chained
    <3>3. QED
      BY <3>1, <3>2
  <2>2. QED
    BY <1>5, <2>1 DEF Chained, OneCaller, DepsFor, find_thread_descriptor
<1>10. OkMeansReady'
  <2>1. Top(c)' = NewFrame(n)
    BY <1>3 DEF Top
  <2>2. QED
    BY <1>7, <2>1 DEF OkMeansReady, OneCaller, At
<1>11. QED
  BY <1>1, <1>5, <1>8, <1>9, <1>10, FrameStepProgress DEF At

LEMMA BeginCallProgress ==
  ASSUME ProgressInv, OneCaller, NEW c \in Caller, BeginCall(c)
  PROVE  Progress'
<1>1. /\ stack[c] = <<>>
      /\ UNCHANGED <<registration, tstate, services, inits, call_stack, result, top>>
  BY BeginCallFrames DEF ProgressInv, ShapeInv
<1>2. PICK n \in Name : Call(c, n)
  BY BeginCallFrames DEF ProgressInv, ShapeInv
<1>3. /\ Len(stack'[c]) = Len(stack[c]) + 1
      /\ stack'[c][Len(stack[c]) + 1] = NewFrame(n)
  BY <1>2, CallKeepsFrames DEF ProgressInv, ShapeInv, SignalInv
<1>4. Len(stack'[c]) = 1 /\ stack'[c][1] = NewFrame(n)
  BY <1>1, <1>3, EmptySeq
<1>5. UNCHANGED <<registry, tstate, inits>>
  BY <1>1 DEF registration
<1>6. NewFrame(n).pc = "enter" /\ ProgressOK(NewFrame(n))
  BY DEF ProgressOK, NewFrame
<1>7. AllProgress'
  <2>1. \A k \in 1..Len(stack'[c]) : \E g : g = stack'[c][k] /\ ProgressOK(g)'
    BY <1>4, <1>5, <1>6, ProgressUnchanged
  <2>2. QED
    BY <2>1, AllProgressFrom DEF OneCaller
<1>8. Chained'
  BY <1>4 DEF Chained, OneCaller
<1>9. OkMeansReady'
  <2>1. Top(c)' = NewFrame(n)
    BY <1>4 DEF Top
  <2>2. QED
    BY <1>6, <2>1 DEF OkMeansReady, OneCaller, At
<1>10. QED
  BY <1>1, <1>5, <1>7, <1>8, <1>9, FrameStepProgress DEF At

\* Steps outside the recursion.
LEMMA OutsideProgress ==
  ASSUME Progress, OneCaller, UNCHANGED <<registry, tstate, inits, stack>>,
         \A c \in Caller : stack[c] = <<>> \/ result'[c] = result[c]
  PROVE  Progress'
<1>1. AllProgress' /\ Chained'
  BY DEF Progress, AllProgress, Chained, ProgressOK, DepsFor, find_thread_descriptor
<1>2. RunsOnTop' /\ InitsOnTop'
  BY DEF Progress, RunsOnTop, InitsOnTop, At, Top
<1>3. OkMeansReady'
  BY DEF Progress, OkMeansReady, At, Top, Deps, find_thread_descriptor
<1>4. InitAtMostOnce'
  BY DEF Progress, InitAtMostOnce
<1>5. StartsAfterDeps'
  BY DEF Progress, StartsAfterDeps, Registered, DepsOf, find_thread_descriptor
<1>6. QED
  BY <1>1, <1>2, <1>3, <1>4, <1>5 DEF Progress

\* Nothing is under way while the constructors run.
LEMMA FreshProgress ==
  ASSUME \A n \in Name : inits[n] = 0 /\ tstate[n] = INITIAL,
         \A c \in Caller : stack[c] = <<>>
  PROVE  Progress
<1>1. \A c \in Caller : Len(stack[c]) = 0
  BY EmptySeq
<1>2. AllProgress /\ Chained
  BY <1>1 DEF AllProgress, Chained
<1>3. QED
  BY <1>2 DEF Progress, RunsOnTop, InitsOnTop, OkMeansReady, At, InitAtMostOnce,
              StartsAfterDeps, INITIAL, RUNNING

LEMMA RegisterProgress ==
  ASSUME ProgressInv, register_thread_descriptor
  PROVE  Progress'
<1>1. nreg # Len(table)
  BY TablesAssumption, LenProperties
     DEF register_thread_descriptor, ProgressInv, ShapeInv, SignalInv, TypeOK
<1>2. /\ \A n \in Name : inits[n] = 0 /\ tstate[n] = INITIAL
      /\ \A c \in Caller : stack[c] = <<>>
  BY <1>1 DEF ProgressInv, ShapeInv, SignalInv, FreshUntilConstructed, Constructed
<1>3. /\ \A n \in Name : inits'[n] = 0 /\ tstate'[n] = INITIAL
      /\ \A c \in Caller : stack'[c] = <<>>
  BY <1>2 DEF register_thread_descriptor
<1>4. /\ \A c \in Caller : Len(stack'[c]) = 0
      /\ AllProgress' /\ Chained'
  BY <1>3, EmptySeq DEF AllProgress, Chained
<1>5. QED
  BY <1>3, <1>4 DEF Progress, RunsOnTop, InitsOnTop, OkMeansReady, At, InitAtMostOnce,
                    StartsAfterDeps, INITIAL, RUNNING

LEMMA ProgressInvNext == OneCaller /\ ProgressInv /\ [Next]_vars => ProgressInv'
<1> SUFFICES ASSUME OneCaller, ProgressInv, [Next]_vars PROVE ProgressInv'
  OBVIOUS
<1>1. ShapeInv'
  BY ShapeInvNext DEF ProgressInv
<1>2. ASSUME NEW c \in Caller, StartThread(c) \/ BeginCall(c) PROVE Progress'
  BY <1>2, EnterProgress, LookupProgress, CallDepProgress, DepsDoneProgress,
     CheckDepProgress, WaitDepNever, InitFuncProgress, InitReturnedProgress,
     AwaitSignalProgress, PopProgress, BeginCallProgress DEF StartThread
<1>3. ASSUME NEW c \in Caller, SkipThread(c) \/ EndCall(c) PROVE Progress'
  <2>1. /\ UNCHANGED <<registry, tstate, inits, stack>>
        /\ stack[c] = <<>>
    BY <1>3 DEF SkipThread, EndCall, AtTop, registration
  <2>2. QED
    BY <2>1, OutsideProgress DEF OneCaller, ProgressInv
<1>4. ASSUME register_thread_descriptor PROVE Progress'
  BY <1>4, RegisterProgress
<1>5. ASSUME NEW n \in Name, GiveReadySem(n) \/ EndSilently(n) PROVE Progress'
  <2>1. UNCHANGED <<registry, tstate, inits, stack, result>>
    BY <1>5 DEF GiveReadySem, EndSilently, registration
  <2>2. QED
    BY <2>1, OutsideProgress DEF ProgressInv
<1>6. ASSUME MainLoop \/ UNCHANGED vars PROVE Progress'
  <2>1. UNCHANGED <<registry, tstate, inits, stack, result>>
    BY <1>6 DEF MainLoop, vars, registration
  <2>2. QED
    BY <2>1, OutsideProgress DEF ProgressInv
<1>7. Progress'
  BY <1>2, <1>3, <1>4, <1>5, <1>6 DEF Next, CallerStep
<1>8. QED
  BY <1>1, <1>7 DEF ProgressInv

LEMMA ProgressInvInit == Init => ProgressInv
<1> SUFFICES ASSUME Init PROVE ProgressInv
  OBVIOUS
<1>1. Progress
  BY FreshProgress DEF Init
<1>2. QED
  BY <1>1, ShapeInvInit DEF ProgressInv

LEMMA ProgressInvariant == OneCaller => (Spec => []ProgressInv)
<1> SUFFICES ASSUME OneCaller PROVE Spec => []ProgressInv
  OBVIOUS
<1>1. ProgressInv /\ [Next]_vars => ProgressInv'
  BY ProgressInvNext
<1>2. QED
  BY <1>1, ProgressInvInit, PTL DEF Spec

\* "If already started or starting, return immediately": from one caller the
\* init_func of a thread never runs twice, along however many dependency paths
\* the thread is reached, although it stays INITIAL until init_func returns.
THEOREM NoThreadStartsTwice == OneCaller => (Spec => []InitAtMostOnce)
<1> SUFFICES ASSUME OneCaller PROVE Spec => []InitAtMostOnce
  OBVIOUS
<1>1. ProgressInv => InitAtMostOnce
  BY DEF ProgressInv, Progress
<1>2. QED
  BY <1>1, ProgressInvariant, PTL

\* From one caller a thread leaves INITIAL, whichever way its start ends, only
\* when everything it depends on is registered and READY.
THEOREM StartsOnlyAfterReady == OneCaller => (Spec => []StartsAfterDeps)
<1> SUFFICES ASSUME OneCaller PROVE Spec => []StartsAfterDeps
  OBVIOUS
<1>1. ProgressInv => StartsAfterDeps
  BY DEF ProgressInv, Progress
<1>2. QED
  BY <1>1, ProgressInvariant, PTL

(***************************************************************************)
(* That a start is bounded, again with any number of callers: the shared   *)
(* stack counts the active calls even where it holds the wrong names, so   *)
(* that its limit bounds the recursion of everybody, and every step of a   *)
(* caller takes its recursion down in a well-founded order.                *)
(***************************************************************************)

\* The calls past the entrance, of all callers.
ActiveCalls == {a \in Caller \X Nat : a[2] \in 1..PushedIn(stack[a[1]])}

CallsCounted == IsFiniteSet(ActiveCalls) /\ Cardinality(ActiveCalls) = Len(call_stack)

\* All frames but the topmost are inside their call, and nobody leaves
\* without a result.
StackOK(s) ==
  \A k \in 1..Len(s) :
    /\ k < Len(s) => s[k].pc = "called"
    /\ s[k].pc = "cleanup" => s[k].ret # "none"

StacksOK == \A c \in Caller : StackOK(stack[c])

DepsFit == \A i \in DOMAIN registry : Len(registry[i].deps) <= MAX_DEPENDENCIES

Counts ==
  /\ StacksOK
  /\ DepsFit
  /\ CallsCounted
  /\ Len(call_stack) <= MAX_CALL_STACK_DEPTH

CountInv == SignalInv /\ Counts

Highest == 4 * MAX_DEPENDENCIES + 14

DepsLeft(f) ==
  IF f.dep <= MAX_DEPENDENCIES + 1 THEN MAX_DEPENDENCIES + 2 - f.dep ELSE 0

\* What a topmost frame has before it.
PcRank(f) ==
  CASE f.pc = "enter"   -> Highest - 1
    [] f.pc = "lookup"  -> Highest - 2
    [] f.pc = "deps"    -> 4 * DepsLeft(f) + 7
    [] f.pc = "called"  -> 4 * DepsLeft(f) + 5
    [] f.pc = "wait"    -> 4 * DepsLeft(f) + 4
    [] f.pc = "init"    -> 3
    [] f.pc = "inited"  -> 2
    [] f.pc = "signal"  -> 1
    [] f.pc = "cleanup" -> 0

\* What is left at level k of a stack of frames.
RankAt(s, k) ==
  IF k > Len(s) THEN Highest
  ELSE IF k < Len(s) THEN 4 * DepsLeft(s[k]) + 6
  ELSE PcRank(s[k])

IterationsLeft(c) ==
  IF cursor[c] <= Iterations(c) THEN Iterations(c) + 1 - cursor[c] ELSE 0

\* What is left of the loop that makes the calls.
LoopWork(c) ==
  3 * IterationsLeft(c) +
    IF stack[c] # <<>> THEN 1 ELSE IF result[c] = "none" THEN 2 ELSE 0

Width == MAX_CALL_STACK_DEPTH + 2

WorkOf(outer, s) == [k \in 1..Width |-> IF k = 1 THEN outer ELSE RankAt(s, k - 1)]

Work(c) == WorkOf(LoopWork(c), stack[c])

LessWork == LexProductOrdering(OpToRel(<, Nat), Nat, Width)

\* Every step of a caller leaves it less to do, and once the constructors have
\* run nothing that other callers or services do gives it more.
StartRunsDown ==
  [][\A c \in Caller :
       /\ CallerStep(c) => <<Work(c)', Work(c)>> \in LessWork
       /\ Constructed /\ ~CallerStep(c) => Work(c)' = Work(c)]_vars

(***************************************************************************)
(* Stacks of frames                                                        *)
(***************************************************************************)

LEMMA StackOfSetTop ==
  ASSUME NEW s \in Seq(Frame), s # <<>>, StackOK(s),
         NEW t \in Seq(Frame), NEW f \in Frame, Len(t) = Len(s),
         \A k \in 1..Len(t) : t[k] = IF k = Len(s) THEN f ELSE s[k],
         f.pc # "enter", f.pc = "cleanup" => f.ret # "none"
  PROVE  StackOK(t) /\ PushedIn(t) = Len(s)
<1>1. Len(s) \in 1..Len(s) /\ t # <<>>
  BY LastFrame, EmptySeq
<1>2. PushedIn(t) = Len(s)
  BY <1>1 DEF PushedIn
<1>3. StackOK(t)
  BY <1>1 DEF StackOK
<1>4. QED
  BY <1>2, <1>3

LEMMA StackOfReturn ==
  ASSUME NEW s \in Seq(Frame), s # <<>>, StackOK(s),
         NEW t \in Seq(Frame), Len(t) = Len(s) - 1,
         \A k \in 1..Len(t) : t[k] = s[k]
  PROVE  StackOK(t) /\ PushedIn(t) = Len(s) - 1
<1>1. Len(s) \in 1..Len(s) /\ Len(s) \in Nat
  BY LastFrame
<1>2. PushedIn(t) = Len(s) - 1
  <2>1. CASE t = <<>>
    BY <2>1 DEF PushedIn
  <2>2. CASE t # <<>>
    <3>1. Len(t) \in 1..Len(t)
      BY <2>2, LastFrame
    <3>2. t[Len(t)].pc = "called"
      BY <1>1, <3>1 DEF StackOK
    <3>3. QED
      BY <3>2 DEF PushedIn
  <2>3. QED
    BY <2>1, <2>2
<1>3. StackOK(t)
  BY <1>1 DEF StackOK
<1>4. QED
  BY <1>2, <1>3

LEMMA StackOfCall ==
  ASSUME NEW s \in Seq(Frame), StackOK(s),
         NEW t \in Seq(Frame), NEW f \in Frame, NEW g \in Frame, Len(t) = Len(s) + 1,
         \A k \in 1..Len(s) : t[k] = IF k = Len(s) THEN f ELSE s[k],
         t[Len(s) + 1] = g, f.pc = "called", g.pc = "enter"
  PROVE  StackOK(t) /\ PushedIn(t) = Len(s)
<1>1. Len(s) \in Nat
  BY LenProperties
<1>2. t # <<>>
  BY <1>1, EmptySeq
<1>3. PushedIn(t) = Len(s)
  BY <1>1, <1>2 DEF PushedIn
<1>4. StackOK(t)
  BY <1>1 DEF StackOK
<1>5. QED
  BY <1>3, <1>4

LEMMA PushedIsNat ==
  ASSUME NEW s \in Seq(Frame)
  PROVE  PushedIn(s) \in Nat /\ Len(s) <= PushedIn(s) + 1
<1>1. CASE s = <<>>
  BY <1>1, EmptySeq DEF PushedIn
<1>2. CASE s # <<>>
  BY <1>2, LastFrame DEF PushedIn
<1>3. QED
  BY <1>1, <1>2

(***************************************************************************)
(* The number of active calls                                              *)
(***************************************************************************)

LEMMA SameCalls ==
  ASSUME \A e \in Caller : PushedIn(stack'[e]) = PushedIn(stack[e])
  PROVE  ActiveCalls' = ActiveCalls
  BY DEF ActiveCalls

LEMMA OneCallMore ==
  ASSUME NEW c \in Caller, \A e \in Caller \ {c} : stack'[e] = stack[e],
         PushedIn(stack[c]) \in Nat, PushedIn(stack'[c]) = PushedIn(stack[c]) + 1
  PROVE  /\ ActiveCalls' = ActiveCalls \cup {<<c, PushedIn(stack[c]) + 1>>}
         /\ <<c, PushedIn(stack[c]) + 1>> \notin ActiveCalls
<1> DEFINE p == PushedIn(stack[c])
           x == <<c, p + 1>>
<1>1. x \in Caller \X Nat /\ x[1] = c /\ x[2] = p + 1
  OBVIOUS
<1>2. x \notin ActiveCalls
  BY <1>1 DEF ActiveCalls
<1>3. ASSUME NEW a \in Caller \X Nat
      PROVE  a[2] \in 1..PushedIn(stack'[a[1]]) <=> a[2] \in 1..PushedIn(stack[a[1]]) \/ a = x
  <2>1. CASE a[1] = c
    <3>1. a[2] \in Nat /\ (a = x <=> a[2] = p + 1)
      BY <2>1
    <3>2. a[2] \in 1..(p + 1) <=> a[2] \in 1..p \/ a[2] = p + 1
      BY <3>1
    <3>3. QED
      BY <2>1, <3>1, <3>2
  <2>2. CASE a[1] # c
    <3>1. stack'[a[1]] = stack[a[1]] /\ a # x
      BY <1>1, <2>2
    <3>2. QED
      BY <3>1
  <2>3. QED
    BY <2>1, <2>2
<1>4. ActiveCalls' = ActiveCalls \cup {x}
  BY <1>1, <1>3 DEF ActiveCalls
<1>5. QED
  BY <1>2, <1>4

LEMMA OneCallLess ==
  ASSUME NEW c \in Caller, \A e \in Caller \ {c} : stack'[e] = stack[e],
         PushedIn(stack'[c]) \in Nat, PushedIn(stack[c]) = PushedIn(stack'[c]) + 1
  PROVE  /\ ActiveCalls' = ActiveCalls \ {<<c, PushedIn(stack[c])>>}
         /\ <<c, PushedIn(stack[c])>> \in ActiveCalls
<1> DEFINE p == PushedIn(stack[c])
           x == <<c, p>>
<1>1. x \in Caller \X Nat /\ x[1] = c /\ x[2] = p /\ p \in 1..p
  OBVIOUS
<1>2. x \in ActiveCalls
  BY <1>1 DEF ActiveCalls
<1>3. ASSUME NEW a \in Caller \X Nat
      PROVE  a[2] \in 1..PushedIn(stack'[a[1]]) <=> a[2] \in 1..PushedIn(stack[a[1]]) /\ a # x
  <2>1. CASE a[1] = c
    <3>1. a[2] \in Nat /\ (a = x <=> a[2] = p)
      BY <2>1
    <3>2. a[2] \in 1..(p - 1) <=> a[2] \in 1..p /\ a[2] # p
      BY <1>1, <3>1
    <3>3. PushedIn(stack'[a[1]]) = p - 1
      BY <2>1
    <3>4. QED
      BY <2>1, <3>1, <3>2, <3>3
  <2>2. CASE a[1] # c
    <3>1. stack'[a[1]] = stack[a[1]] /\ a # x
      BY <1>1, <2>2
    <3>2. QED
      BY <3>1
  <2>3. QED
    BY <2>1, <2>2
<1>4. ActiveCalls' = ActiveCalls \ {x}
  BY <1>1, <1>3 DEF ActiveCalls
<1>5. QED
  BY <1>2, <1>4

\* The limit of the shared stack bounds the recursion of each caller.
LEMMA DepthBound ==
  ASSUME CountInv, NEW c \in Caller
  PROVE  Len(stack[c]) <= MAX_CALL_STACK_DEPTH + 1
<1>1. stack[c] \in Seq(Frame) /\ call_stack \in Seq(Name)
  BY DEF CountInv, SignalInv, TypeOK
<1> DEFINE p == PushedIn(stack[c])
           f == [k \in 1..p |-> <<c, k>>]
<1>2. p \in Nat /\ Len(stack[c]) <= p + 1 /\ Len(stack[c]) \in Nat
  BY <1>1, PushedIsNat, LenProperties
<1>3. \A k \in 1..p : <<c, k>> \in ActiveCalls
  <2> SUFFICES ASSUME NEW k \in 1..p PROVE <<c, k>> \in ActiveCalls
    OBVIOUS
  <2>1. k \in Nat
    BY <1>2
  <2>2. QED
    BY <2>1 DEF ActiveCalls
<1>4. f \in Injection(1..p, ActiveCalls)
  <2>1. f \in [1..p -> ActiveCalls]
    BY <1>3
  <2>2. \A a, b \in DOMAIN f : f[a] = f[b] => a = b
    OBVIOUS
  <2>3. QED
    BY <2>1, <2>2 DEF Injection, IsInjective
<1>5. Cardinality(1..p) <= Cardinality(ActiveCalls)
  <2>1. IsFiniteSet(ActiveCalls)
    BY DEF CountInv, Counts, CallsCounted
  <2> HIDE DEF f, p
  <2>2. QED
    BY <1>4, <2>1, FS_Injection
<1>6. Cardinality(1..p) = p
  <2> HIDE DEF p
  <2>1. Cardinality(1..p) = IF 1 > p THEN 0 ELSE p - 1 + 1
    BY <1>2, FS_Interval
  <2>2. QED
    BY <1>2, <2>1
<1>7. p <= MAX_CALL_STACK_DEPTH
  <2>1. p <= Len(call_stack)
    BY <1>5, <1>6 DEF CountInv, Counts, CallsCounted
  <2>2. Len(call_stack) \in Nat /\ Len(call_stack) <= MAX_CALL_STACK_DEPTH
    BY <1>1, LenProperties DEF CountInv, Counts
  <2>3. QED
    BY <1>2, <2>1, <2>2, LimitsAssumption
<1>8. QED
  BY <1>2, <1>7, LimitsAssumption

(***************************************************************************)
(* What a step does to the topmost frame                                   *)
(***************************************************************************)

LEMMA LeftIsNat ==
  ASSUME NEW f \in Frame
  PROVE  DepsLeft(f) \in Nat /\ DepsLeft(f) <= MAX_DEPENDENCIES + 1
<1>1. f.dep \in Nat \ {0}
  BY DEF Frame
<1>2. QED
  BY <1>1, LimitsAssumption DEF DepsLeft

LEMMA NextHasOneLess ==
  ASSUME NEW f \in Frame, NEW g \in Frame, g.dep = f.dep + 1, f.dep <= MAX_DEPENDENCIES
  PROVE  DepsLeft(f) = DepsLeft(g) + 1
<1>1. f.dep \in Nat \ {0}
  BY DEF Frame
<1>2. QED
  BY <1>1, LimitsAssumption DEF DepsLeft

LEMMA RankOf ==
  ASSUME NEW f \in Frame
  PROVE  /\ f.pc = "enter"   => PcRank(f) = Highest - 1
         /\ f.pc = "lookup"  => PcRank(f) = Highest - 2
         /\ f.pc = "deps"    => PcRank(f) = 4 * DepsLeft(f) + 7
         /\ f.pc = "called"  => PcRank(f) = 4 * DepsLeft(f) + 5
         /\ f.pc = "wait"    => PcRank(f) = 4 * DepsLeft(f) + 4
         /\ f.pc = "init"    => PcRank(f) = 3
         /\ f.pc = "inited"  => PcRank(f) = 2
         /\ f.pc = "signal"  => PcRank(f) = 1
         /\ f.pc = "cleanup" => PcRank(f) = 0
  BY DEF PcRank

LEMMA RankIsNat ==
  ASSUME NEW f \in Frame
  PROVE  PcRank(f) \in Nat
<1>1. DepsLeft(f) \in Nat
  BY LeftIsNat
<1>2. Highest - 1 \in Nat /\ Highest - 2 \in Nat
  BY LimitsAssumption DEF Highest
<1>3. 4 * DepsLeft(f) + 7 \in Nat /\ 4 * DepsLeft(f) + 5 \in Nat /\ 4 * DepsLeft(f) + 4 \in Nat
  BY <1>1
<1>4. f.pc \in Pc
  BY DEF Frame
<1>5. QED
  BY <1>2, <1>3, <1>4, RankOf DEF Pc

LEMMA DepWithinLimit ==
  ASSUME CountInv, NEW c \in Caller, stack[c] # <<>>, Top(c).pc \in {"called", "wait"}
  PROVE  Top(c).dep <= MAX_DEPENDENCIES
<1>1. Top(c) \in Frame /\ FrameOK(Top(c))
  BY TopOK DEF CountInv
<1> DEFINE n == Top(c).name
           deps == find_thread_descriptor(n).deps
<1>2. n \in Registered /\ Top(c).dep <= Len(deps) /\ Top(c).dep \in Nat
  BY <1>1 DEF FrameOK, Frame
<1>3. PICK i \in DOMAIN registry : registry[i].name = n
  BY <1>2 DEF Registered
<1> DEFINE j == CHOOSE i_1 \in DOMAIN registry : registry[i_1].name = n
<1>4. j \in DOMAIN registry
  BY <1>3
<1>5. deps = registry[j].deps
  BY DEF find_thread_descriptor, DescriptorIn
<1>6. Len(deps) <= MAX_DEPENDENCIES
  BY <1>4, <1>5 DEF CountInv, Counts, DepsFit
<1>7. deps \in Seq(Name)
  BY <1>2, FindRegistered DEF CountInv, SignalInv, Descriptor
<1>8. Len(deps) \in Nat
  BY <1>7, LenProperties
<1> HIDE DEF deps
<1>9. QED
  BY <1>2, <1>6, <1>8, LimitsAssumption

\* How a frame moves on: to less, and to the exit only with a result.
Advances(c) ==
  \E f : /\ Moves(c, f)
         /\ PcRank(f) < PcRank(Top(c))
         /\ f.pc = "cleanup" => f.ret # "none"

LEMMA CleanupAdvances ==
  ASSUME NEW c \in Caller, Top(c) \in Frame, NEW r \in {"ok", "err"}, Cleanup(c, r),
         PcRank(Top(c)) > 0
  PROVE  Advances(c)
<1>1. PICK f : Moves(c, f) /\ f.pc = "cleanup" /\ f.ret = r
  BY CleanupMoves DEF Ret
<1>2. PcRank(f) = 0
  BY <1>1, RankOf DEF Moves
<1>3. PcRank(f) < PcRank(Top(c))
  BY <1>2
<1>4. f.ret # "none"
  BY <1>1
<1>5. QED
  BY <1>1, <1>3, <1>4 DEF Advances

LEMMA GotoAdvances ==
  ASSUME NEW c \in Caller, Top(c) \in Frame, NEW pc \in Pc \ {"enter", "cleanup"},
         Goto(c, pc),
         \A f \in Frame : f.pc = pc /\ f.dep = Top(c).dep => PcRank(f) < PcRank(Top(c))
  PROVE  Advances(c)
<1>1. PICK f : Moves(c, f) /\ f.pc = pc /\ f.dep = Top(c).dep
  BY GotoMoves
<1>2. QED
  BY <1>1 DEF Advances, Moves

LEMMA NextDepAdvances ==
  ASSUME CountInv, NEW c \in Caller, stack[c] # <<>>, Top(c) \in Frame,
         Top(c).pc \in {"called", "wait"}, NextDep(c)
  PROVE  Advances(c)
<1>1. PICK f : Moves(c, f) /\ f.pc = "deps" /\ f.dep = Top(c).dep + 1
  BY NextDepMoves
<1>2. f \in Frame
  BY <1>1 DEF Moves
<1>3. DepsLeft(Top(c)) = DepsLeft(f) + 1
  BY <1>1, <1>2, DepWithinLimit, NextHasOneLess
<1>4. PcRank(f) = 4 * DepsLeft(f) + 7 /\ DepsLeft(f) \in Nat
  BY <1>1, <1>2, RankOf, LeftIsNat
<1>5. \/ PcRank(Top(c)) = 4 * DepsLeft(Top(c)) + 5
      \/ PcRank(Top(c)) = 4 * DepsLeft(Top(c)) + 4
  BY RankOf
<1>6. PcRank(f) < PcRank(Top(c))
  BY <1>3, <1>4, <1>5
<1>7. QED
  BY <1>1, <1>6 DEF Advances

LEMMA SameLeft ==
  ASSUME NEW f, NEW g, f.dep = g.dep
  PROVE  DepsLeft(f) = DepsLeft(g)
  BY DEF DepsLeft

LEMMA StepAdvances ==
  ASSUME CountInv, NEW c \in Caller, MovesOn(c)
  PROVE  Advances(c)
<1>1. stack[c] # <<>>
  BY StepMoves DEF CountInv, SignalInv
<1>2. Top(c) \in Frame
  BY <1>1, TopIsFrame DEF CountInv, SignalInv
<1>3. DepsLeft(Top(c)) \in Nat /\ DepsLeft(Top(c)) <= MAX_DEPENDENCIES + 1
  BY <1>2, LeftIsNat
<1>4. CASE Lookup(c)
  <2>1. PcRank(Top(c)) = Highest - 2
    BY <1>2, <1>4, RankOf DEF Lookup, At
  <2>2. CASE \E r \in {"ok", "err"} : Cleanup(c, r)
    <3>1. PcRank(Top(c)) > 0
      BY <2>1, LimitsAssumption DEF Highest
    <3>2. QED
      BY <1>2, <2>2, <3>1, CleanupAdvances
  <2>3. CASE Goto(c, "deps")
    <3>1. ASSUME NEW f \in Frame, f.pc = "deps" PROVE PcRank(f) < PcRank(Top(c))
      <4>1. PcRank(f) = 4 * DepsLeft(f) + 7
        BY <3>1, RankOf
      <4>2. DepsLeft(f) \in Nat /\ DepsLeft(f) <= MAX_DEPENDENCIES + 1
        BY LeftIsNat
      <4>3. QED
        BY <2>1, <4>1, <4>2, LimitsAssumption DEF Highest
    <3>2. "deps" \in Pc \ {"enter", "cleanup"}
      BY DEF Pc
    <3>3. QED
      BY <1>2, <2>3, <3>1, <3>2, GotoAdvances
  <2>4. QED
    BY <1>4, <2>2, <2>3 DEF Lookup
<1>5. CASE DepsDone(c)
  <2>1. PcRank(Top(c)) = 4 * DepsLeft(Top(c)) + 7
    BY <1>2, <1>5, RankOf DEF DepsDone, At
  <2>2. ASSUME NEW f \in Frame, f.pc = "init" PROVE PcRank(f) < PcRank(Top(c))
    <3>1. PcRank(f) = 3
      BY <2>2, RankOf
    <3>2. QED
      BY <1>3, <2>1, <3>1
  <2>3. "init" \in Pc \ {"enter", "cleanup"} /\ Goto(c, "init")
    BY <1>5 DEF Pc, DepsDone
  <2>4. QED
    BY <1>2, <2>2, <2>3, GotoAdvances
<1>6. CASE CheckDep(c)
  <2>1. Top(c).pc = "called"
    BY <1>6 DEF CheckDep, At
  <2>2. PcRank(Top(c)) = 4 * DepsLeft(Top(c)) + 5
    BY <1>2, <2>1, RankOf
  <2>3. CASE \E r \in {"ok", "err"} : Cleanup(c, r)
    <3>1. PcRank(Top(c)) > 0
      BY <1>3, <2>2
    <3>2. QED
      BY <1>2, <2>3, <3>1, CleanupAdvances
  <2>4. CASE NextDep(c)
    BY <1>1, <1>2, <2>1, <2>4, NextDepAdvances
  <2>5. CASE Goto(c, "wait")
    <3>1. ASSUME NEW f \in Frame, f.pc = "wait", f.dep = Top(c).dep
          PROVE  PcRank(f) < PcRank(Top(c))
      <4>1. PcRank(f) = 4 * DepsLeft(f) + 4
        BY <3>1, RankOf
      <4>2. DepsLeft(f) = DepsLeft(Top(c))
        BY <3>1, SameLeft
      <4>3. QED
        BY <1>3, <2>2, <4>1, <4>2
    <3>2. "wait" \in Pc \ {"enter", "cleanup"}
      BY DEF Pc
    <3>3. QED
      BY <1>2, <2>5, <3>1, <3>2, GotoAdvances
  <2>6. QED
    BY <1>6, <2>3, <2>4, <2>5 DEF CheckDep
<1>7. CASE WaitDep(c)
  <2>1. Top(c).pc = "wait"
    BY <1>7 DEF WaitDep, At
  <2>2. CASE Cleanup(c, "err")
    <3>1. PcRank(Top(c)) = 4 * DepsLeft(Top(c)) + 4
      BY <1>2, <2>1, RankOf
    <3>2. PcRank(Top(c)) > 0
      BY <1>3, <3>1
    <3>3. QED
      BY <1>2, <2>2, <3>2, CleanupAdvances
  <2>3. CASE NextDep(c)
    BY <1>1, <1>2, <2>1, <2>3, NextDepAdvances
  <2>4. QED
    BY <1>7, <2>2, <2>3 DEF WaitDep
<1>8. CASE InitFunc(c)
  <2>1. PICK r \in Ret, created \in BOOLEAN : InitFuncReturns(c, r, created)
    BY <1>8 DEF InitFunc, Ret
  <2>2. /\ SetTop(c, [Top(c) EXCEPT !.pc = "inited", !.ret = r])
        /\ Top(c).pc = "init"
    BY <2>1 DEF InitFuncReturns, At
  <2>3. PICK f : Moves(c, f) /\ f.pc = "inited"
    BY <1>2, <2>2, InitMoves
  <2>4. PcRank(f) = 2 /\ PcRank(Top(c)) = 3
    BY <1>2, <2>2, <2>3, RankOf DEF Moves
  <2>5. QED
    BY <2>3, <2>4 DEF Advances
<1>9. CASE InitReturned(c)
  <2>1. PcRank(Top(c)) = 2
    BY <1>2, <1>9, RankOf DEF InitReturned, At
  <2>2. CASE Cleanup(c, "err")
    BY <1>2, <2>1, <2>2, CleanupAdvances
  <2>3. CASE Goto(c, "signal")
    <3>1. ASSUME NEW f \in Frame, f.pc = "signal" PROVE PcRank(f) < PcRank(Top(c))
      <4>1. PcRank(f) = 1
        BY <3>1, RankOf
      <4>2. QED
        BY <2>1, <4>1
    <3>2. "signal" \in Pc \ {"enter", "cleanup"}
      BY DEF Pc
    <3>3. QED
      BY <1>2, <2>3, <3>1, <3>2, GotoAdvances
  <2>4. QED
    BY <1>9, <2>2, <2>3 DEF InitReturned
<1>10. CASE AwaitSignal(c)
  <2>1. PcRank(Top(c)) = 1
    BY <1>2, <1>10, RankOf DEF AwaitSignal, At
  <2>2. \E r \in {"ok", "err"} : Cleanup(c, r)
    BY <1>10 DEF AwaitSignal
  <2>3. QED
    BY <1>2, <2>1, <2>2, CleanupAdvances
<1>11. QED
  BY <1>4, <1>5, <1>6, <1>7, <1>8, <1>9, <1>10 DEF MovesOn

(***************************************************************************)
(* Every step keeps the count                                              *)
(***************************************************************************)

\* Steps after which as many calls are active as before.
LEMMA SameCount ==
  ASSUME CountInv, NEW c \in Caller, UNCHANGED <<registry, call_stack>>,
         \A e \in Caller \ {c} : stack'[e] = stack[e],
         StackOK(stack'[c]), PushedIn(stack'[c]) = PushedIn(stack[c])
  PROVE  Counts'
<1>1. ActiveCalls' = ActiveCalls
  <2>1. \A e \in Caller : PushedIn(stack'[e]) = PushedIn(stack[e])
    OBVIOUS
  <2>2. QED
    BY <2>1, SameCalls
<1>2. CallsCounted'
  BY <1>1 DEF CountInv, Counts, CallsCounted
<1>3. StacksOK'
  BY DEF CountInv, Counts, StacksOK
<1>4. DepsFit' /\ (Len(call_stack) <= MAX_CALL_STACK_DEPTH)'
  BY DEF CountInv, Counts, DepsFit
<1>5. QED
  BY <1>2, <1>3, <1>4 DEF Counts

LEMMA FrameStepCounts ==
  ASSUME CountInv, NEW c \in Caller, MovesOn(c)
  PROVE  Counts'
<1>1. /\ stack[c] # <<>> /\ Top(c).pc # "enter"
      /\ UNCHANGED <<registration, call_stack, result, top>>
  BY StepMoves DEF CountInv, SignalInv
<1>2. PICK f : Moves(c, f) /\ (f.pc = "cleanup" => f.ret # "none")
  BY StepAdvances DEF Advances
<1>3. f \in Frame /\ f.pc # "enter" /\ SetTop(c, f)
  BY <1>2 DEF Moves
<1>4. /\ stack' \in [Caller -> Seq(Frame)]
      /\ \A e \in Caller \ {c} : stack'[e] = stack[e]
      /\ Len(stack'[c]) = Len(stack[c])
      /\ \A k \in 1..Len(stack'[c]) :
           stack'[c][k] = IF k = Len(stack[c]) THEN f ELSE stack[c][k]
  BY <1>1, <1>3, SetTopKeepsFrames DEF CountInv, SignalInv
<1>5. stack[c] \in Seq(Frame) /\ stack'[c] \in Seq(Frame) /\ StackOK(stack[c])
  BY <1>4 DEF CountInv, SignalInv, TypeOK, Counts, StacksOK
<1>6. StackOK(stack'[c]) /\ PushedIn(stack'[c]) = Len(stack[c])
  BY <1>1, <1>2, <1>3, <1>4, <1>5, StackOfSetTop
<1>7. PushedIn(stack[c]) = Len(stack[c])
  BY <1>1 DEF PushedIn, Top
<1>8. UNCHANGED <<registry, call_stack>>
  BY <1>1 DEF registration
<1>9. QED
  BY <1>4, <1>6, <1>7, <1>8, SameCount

\* What a return leaves.
LEMMA ReturnLeaves ==
  ASSUME CountInv, NEW c \in Caller, stack[c] # <<>>, NEW r \in Ret, Return(c, r)
  PROVE  /\ stack[c] \in Seq(Frame) /\ stack'[c] \in Seq(Frame)
         /\ \A e \in Caller \ {c} : stack'[e] = stack[e]
         /\ Len(stack'[c]) = Len(stack[c]) - 1
         /\ \A k \in 1..Len(stack'[c]) : stack'[c][k] = stack[c][k]
         /\ StackOK(stack[c]) /\ StackOK(stack'[c])
         /\ PushedIn(stack'[c]) = Len(stack[c]) - 1
<1>1. /\ stack' \in [Caller -> Seq(Frame)]
      /\ \A e \in Caller \ {c} : stack'[e] = stack[e]
      /\ Len(stack'[c]) = Len(stack[c]) - 1
      /\ \A k \in 1..Len(stack'[c]) : stack'[c][k] = stack[c][k]
  BY ReturnKeepsFrames DEF CountInv, SignalInv
<1>2. stack[c] \in Seq(Frame) /\ stack'[c] \in Seq(Frame) /\ StackOK(stack[c])
  BY <1>1 DEF CountInv, SignalInv, TypeOK, Counts, StacksOK
<1>3. StackOK(stack'[c]) /\ PushedIn(stack'[c]) = Len(stack[c]) - 1
  BY <1>1, <1>2, StackOfReturn
<1>4. QED
  BY <1>1, <1>2, <1>3

LEMMA EnterCounts ==
  ASSUME CountInv, NEW c \in Caller, Enter(c)
  PROVE  Counts'
<1>1. stack[c] # <<>> /\ Top(c).pc = "enter" /\ UNCHANGED registry
  BY DEF Enter, At, registration
<1>2. PushedIn(stack[c]) = Len(stack[c]) - 1
  BY <1>1 DEF PushedIn, Top
<1>3. CASE Return(c, "err") /\ UNCHANGED call_stack
  <2>1. /\ \A e \in Caller \ {c} : stack'[e] = stack[e]
        /\ StackOK(stack'[c]) /\ PushedIn(stack'[c]) = Len(stack[c]) - 1
    BY <1>1, <1>3, ReturnLeaves DEF Ret
  <2>2. UNCHANGED <<registry, call_stack>>
    BY <1>1, <1>3
  <2>3. QED
    BY <1>2, <2>1, <2>2, SameCount
<1>4. CASE CanPush /\ push_call_stack(Top(c).name) /\ Goto(c, "lookup")
  <2>1. Top(c) \in Frame /\ call_stack \in Seq(Name) /\ Len(stack[c]) \in Nat \ {0}
    BY <1>1, TopIsFrame DEF CountInv, SignalInv, TypeOK
  <2>2. PICK f : Moves(c, f) /\ f.pc = "lookup"
    BY <1>4, <2>1, GotoMoves DEF Pc
  <2>3. f \in Frame /\ SetTop(c, f)
    BY <2>2 DEF Moves
  <2>4. /\ stack' \in [Caller -> Seq(Frame)]
        /\ \A e \in Caller \ {c} : stack'[e] = stack[e]
        /\ Len(stack'[c]) = Len(stack[c])
        /\ \A k \in 1..Len(stack'[c]) :
             stack'[c][k] = IF k = Len(stack[c]) THEN f ELSE stack[c][k]
    BY <1>1, <2>3, SetTopKeepsFrames DEF CountInv, SignalInv
  <2>5. stack[c] \in Seq(Frame) /\ stack'[c] \in Seq(Frame) /\ StackOK(stack[c])
    BY <2>4 DEF CountInv, SignalInv, TypeOK, Counts, StacksOK
  <2>6. StackOK(stack'[c]) /\ PushedIn(stack'[c]) = Len(stack[c])
    BY <1>1, <2>2, <2>3, <2>4, <2>5, StackOfSetTop
  <2> DEFINE x == <<c, PushedIn(stack[c]) + 1>>
  <2>7. ActiveCalls' = ActiveCalls \cup {x} /\ x \notin ActiveCalls
    <3>1. PushedIn(stack[c]) \in Nat /\ PushedIn(stack'[c]) = PushedIn(stack[c]) + 1
      BY <1>2, <2>1, <2>6
    <3>2. QED
      BY <2>4, <3>1, OneCallMore
  <2>8. Len(call_stack') = Len(call_stack) + 1 /\ Len(call_stack) \in Nat
    <3>1. Top(c).name \in Name
      BY <2>1 DEF Frame
    <3>2. QED
      BY <1>4, <2>1, <3>1, AppendProperties, LenProperties DEF push_call_stack
  <2>9. CallsCounted'
    <3> HIDE DEF x
    <3>1. IsFiniteSet(ActiveCalls) /\ Cardinality(ActiveCalls) = Len(call_stack)
      BY DEF CountInv, Counts, CallsCounted
    <3>2. /\ IsFiniteSet(ActiveCalls \cup {x})
          /\ Cardinality(ActiveCalls \cup {x}) = Cardinality(ActiveCalls) + 1
      BY <2>7, <3>1, FS_AddElement
    <3>3. QED
      BY <2>7, <2>8, <3>1, <3>2 DEF CallsCounted
  <2>10. Len(call_stack') <= MAX_CALL_STACK_DEPTH
    BY <1>4, <2>8, LimitsAssumption DEF CanPush
  <2>11. StacksOK' /\ DepsFit'
    <3>1. StacksOK'
      BY <2>4, <2>6 DEF CountInv, Counts, StacksOK
    <3>2. DepsFit'
      BY <1>1 DEF CountInv, Counts, DepsFit
    <3>3. QED
      BY <3>1, <3>2
  <2>12. QED
    BY <2>9, <2>10, <2>11 DEF Counts
<1>5. QED
  BY <1>3, <1>4 DEF Enter

LEMMA PrefixLength ==
  ASSUME NEW S, NEW s, NEW n \in Nat, \A i \in 1..n : s[i] \in S
  PROVE  Len(SubSeq(s, 1, n)) = n
<1>1. Len(SubSeq(s, 1, n)) = IF 1 <= n THEN n - 1 + 1 ELSE 0
  BY SubSeqProperties
<1>2. QED
  BY <1>1

LEMMA PoppedLength ==
  ASSUME NEW names \in Seq(Name), names # <<>>
  PROVE  Len(SubSeq(names, 1, Len(names) - 1)) = Len(names) - 1
<1> DEFINE n == Len(names) - 1
<1>1. Len(names) \in Nat \ {0}
  BY EmptySeq
<1>2. n \in Nat /\ n + 1 = Len(names)
  BY <1>1
<1> HIDE DEF n
<1>3. \A i \in 1..n : names[i] \in Name
  <2>1. \A i \in 1..n : i \in 1..Len(names)
    BY <1>1, <1>2
  <2>2. QED
    BY <2>1, ElementOfSeq
<1>4. Len(SubSeq(names, 1, n)) = n
  BY <1>2, <1>3, PrefixLength
<1>5. QED
  BY <1>4 DEF n

LEMMA PopCounts ==
  ASSUME CountInv, NEW c \in Caller, PopAndReturn(c)
  PROVE  Counts'
<1>1. stack[c] # <<>> /\ Top(c).pc = "cleanup" /\ UNCHANGED registry
  BY DEF PopAndReturn, At, registration
<1>2. Top(c) \in Frame /\ call_stack \in Seq(Name) /\ Len(stack[c]) \in Nat \ {0}
  BY <1>1, TopIsFrame DEF CountInv, SignalInv, TypeOK
<1>3. Top(c).ret \in Ret /\ Return(c, Top(c).ret) /\ pop_call_stack
  BY <1>2 DEF Frame, PopAndReturn
<1>4. /\ \A e \in Caller \ {c} : stack'[e] = stack[e]
      /\ StackOK(stack'[c]) /\ PushedIn(stack'[c]) = Len(stack[c]) - 1
  BY <1>1, <1>3, ReturnLeaves
<1>5. PushedIn(stack[c]) = Len(stack[c])
  BY <1>1 DEF PushedIn, Top
<1> DEFINE x == <<c, PushedIn(stack[c])>>
<1>6. ActiveCalls' = ActiveCalls \ {x} /\ x \in ActiveCalls
  <2>1. PushedIn(stack'[c]) \in Nat /\ PushedIn(stack[c]) = PushedIn(stack'[c]) + 1
    BY <1>2, <1>4, <1>5
  <2>2. QED
    BY <1>4, <2>1, OneCallLess
<1> HIDE DEF x
<1>7. IsFiniteSet(ActiveCalls) /\ Cardinality(ActiveCalls) = Len(call_stack)
  BY DEF CountInv, Counts, CallsCounted
<1>8. /\ IsFiniteSet(ActiveCalls \ {x})
      /\ Cardinality(ActiveCalls \ {x}) = Cardinality(ActiveCalls) - 1
  BY <1>6, <1>7, FS_RemoveElement
<1>9. call_stack # <<>>
  <2>1. Len(call_stack) # 0
    BY <1>6, <1>7, FS_EmptySet
  <2>2. QED
    BY <2>1, EmptySeq
<1>10. Len(call_stack') = Len(call_stack) - 1 /\ Len(call_stack) \in Nat
  <2>1. call_stack' = SubSeq(call_stack, 1, Len(call_stack) - 1)
    BY <1>3, <1>9 DEF pop_call_stack
  <2>2. Len(call_stack) \in Nat
    BY <1>2, LenProperties
  <2>3. QED
    BY <1>2, <1>9, <2>1, <2>2, PoppedLength
<1>11. CallsCounted'
  BY <1>6, <1>7, <1>8, <1>10 DEF CallsCounted
<1>12. Len(call_stack') <= MAX_CALL_STACK_DEPTH
  <2>1. Len(call_stack) <= MAX_CALL_STACK_DEPTH
    BY DEF CountInv, Counts
  <2>2. QED
    BY <1>10, <2>1, LimitsAssumption
<1>13. StacksOK'
  BY <1>4 DEF CountInv, Counts, StacksOK
<1>14. DepsFit'
  BY <1>1 DEF CountInv, Counts, DepsFit
<1>15. QED
  BY <1>11, <1>12, <1>13, <1>14 DEF Counts

\* What a recursive call leaves.
LEMMA CallDepLeaves ==
  ASSUME CountInv, NEW c \in Caller, CallDep(c)
  PROVE  \E f, g \in Frame :
           /\ f.pc = "called" /\ f.dep = Top(c).dep /\ g.pc = "enter"
           /\ stack[c] \in Seq(Frame) /\ stack'[c] \in Seq(Frame)
           /\ \A e \in Caller \ {c} : stack'[e] = stack[e]
           /\ Len(stack'[c]) = Len(stack[c]) + 1
           /\ \A k \in 1..Len(stack[c]) :
                stack'[c][k] = IF k = Len(stack[c]) THEN f ELSE stack[c][k]
           /\ stack'[c][Len(stack[c]) + 1] = g
<1>1. stack[c] # <<>> /\ Deps(c)[Top(c).dep] \in Name /\ TypeOK
  BY CallDepFrames DEF CountInv, SignalInv
<1> DEFINE n == Deps(c)[Top(c).dep]
<1>2. PICK f \in Frame :
        /\ f.pc = "called" /\ f.dep = Top(c).dep
        /\ stack' = [stack EXCEPT ![c] = Append([@ EXCEPT ![Len(@)] = f], NewFrame(n))]
  BY CallDepFrames DEF CountInv
<1>3. n \in Name /\ stack[c] # <<>> /\ TypeOK
  BY <1>1
<1> HIDE DEF n
<1>4. /\ NewFrame(n) \in Frame
      /\ stack' \in [Caller -> Seq(Frame)]
      /\ \A e \in Caller \ {c} : stack'[e] = stack[e]
      /\ Len(stack'[c]) = Len(stack[c]) + 1
      /\ \A k \in 1..Len(stack[c]) :
           stack'[c][k] = IF k = Len(stack[c]) THEN f ELSE stack[c][k]
      /\ stack'[c][Len(stack[c]) + 1] = NewFrame(n)
  <2>1. stack' = [stack EXCEPT ![c] = Append([@ EXCEPT ![Len(@)] = f], NewFrame(n))]
    BY <1>2
  <2>2. QED
    BY <1>3, <2>1, CallFromTopFrames, Zenon
<1>5. stack[c] \in Seq(Frame) /\ stack'[c] \in Seq(Frame)
  BY <1>3, <1>4 DEF TypeOK
<1>6. NewFrame(n).pc = "enter"
  BY DEF NewFrame
<1>7. QED
  BY <1>2, <1>4, <1>5, <1>6

LEMMA CallDepCounts ==
  ASSUME CountInv, NEW c \in Caller, CallDep(c)
  PROVE  Counts'
<1>1. /\ stack[c] # <<>> /\ Top(c).pc = "deps"
      /\ UNCHANGED <<registry, call_stack>>
  BY CallDepFrames DEF CountInv, registration
<1>2. PICK f, g \in Frame :
        /\ f.pc = "called" /\ g.pc = "enter"
        /\ stack[c] \in Seq(Frame) /\ stack'[c] \in Seq(Frame)
        /\ \A e \in Caller \ {c} : stack'[e] = stack[e]
        /\ Len(stack'[c]) = Len(stack[c]) + 1
        /\ \A k \in 1..Len(stack[c]) :
             stack'[c][k] = IF k = Len(stack[c]) THEN f ELSE stack[c][k]
        /\ stack'[c][Len(stack[c]) + 1] = g
  BY CallDepLeaves
<1>3. StackOK(stack[c])
  BY DEF CountInv, Counts, StacksOK
<1>4. StackOK(stack'[c]) /\ PushedIn(stack'[c]) = Len(stack[c])
  BY <1>2, <1>3, StackOfCall
<1>5. PushedIn(stack[c]) = Len(stack[c])
  BY <1>1 DEF PushedIn, Top
<1>6. QED
  BY <1>1, <1>2, <1>4, <1>5, SameCount

LEMMA BeginCallCounts ==
  ASSUME CountInv, NEW c \in Caller, BeginCall(c)
  PROVE  Counts'
<1>1. stack[c] = <<>> /\ UNCHANGED <<registry, call_stack>>
  BY BeginCallFrames DEF CountInv, registration
<1>2. PICK n \in Name : Call(c, n)
  BY BeginCallFrames DEF CountInv
<1>3. /\ stack' \in [Caller -> Seq(Frame)]
      /\ \A e \in Caller \ {c} : stack'[e] = stack[e]
      /\ Len(stack'[c]) = Len(stack[c]) + 1
      /\ stack'[c][Len(stack[c]) + 1] = NewFrame(n)
  BY <1>2, CallKeepsFrames DEF CountInv, SignalInv
<1>4. Len(stack'[c]) = 1 /\ stack'[c][1].pc = "enter" /\ Len(stack[c]) = 0
  BY <1>1, <1>3, EmptySeq DEF NewFrame
<1>5. PushedIn(stack[c]) = 0
  BY <1>1, <1>4 DEF PushedIn
<1>6. stack'[c] # <<>>
  <2>1. Len(stack'[c]) # 0
    BY <1>4
  <2>2. QED
    BY <2>1, EmptySeq, Zenon
<1>7. PushedIn(stack'[c]) = 0
  BY <1>4, <1>6 DEF PushedIn
<1>8. StackOK(stack'[c])
  BY <1>4 DEF StackOK
<1>9. QED
  BY <1>1, <1>3, <1>5, <1>7, <1>8, SameCount

\* A constructor keeps at most MAX_DEPENDENCIES entries.
LEMMA RegisterFits ==
  ASSUME CountInv, register_thread_descriptor
  PROVE  DepsFit'
<1>1. registry \in Seq(Descriptor(Name)) /\ table \in Seq(Descriptor(Name \cup {NoName}))
  BY TablesAssumption DEF CountInv, SignalInv, TypeOK
<1>2. DepsFit
  BY DEF CountInv, Counts
<1>3. CASE UNCHANGED registry
  BY <1>2, <1>3 DEF DepsFit
<1>4. ASSUME NEW k, k \in 0..Len(table[nreg + 1].deps), KeepsDeps(table[nreg + 1].deps, k),
             registry' = Append(registry,
                           [table[nreg + 1] EXCEPT !.deps = SubSeq(@, 1, k)])
      PROVE  DepsFit'
  <2> DEFINE desc == table[nreg + 1]
             s == SubSeq(desc.deps, 1, k)
             d == [desc EXCEPT !.deps = s]
  <2>1. desc \in Descriptor(Name \cup {NoName})
    <3>1. nreg + 1 \in 1..Len(table)
      <4>1. nreg \in Nat /\ nreg < Len(table) /\ Len(table) \in Nat
        BY <1>1, LenProperties DEF register_thread_descriptor, CountInv, SignalInv, TypeOK
      <4>2. QED
        BY <4>1
    <3>2. QED
      BY <1>1, <3>1, ElementOfSeq
  <2>2. desc.deps \in Seq(Name \cup {NoName})
    BY <2>1 DEF Descriptor
  <2> HIDE DEF desc
  <2>3. Len(desc.deps) \in Nat /\ k \in Nat /\ k <= Len(desc.deps) /\ k <= MAX_DEPENDENCIES
    <3>1. Len(desc.deps) \in Nat
      BY <2>2, LenProperties
    <3>2. k \in 0..Len(desc.deps) /\ k <= MAX_DEPENDENCIES
      BY <1>4 DEF desc, KeepsDeps
    <3>3. QED
      BY <3>1, <3>2
  <2>4. \A i \in 1..k : desc.deps[i] \in Name
    <3>1. \A i \in 1..k : desc.deps[i] \in Name \cup {NoName}
      BY <2>2, <2>3, ElementOfSeq
    <3>2. \A i \in 1..k : desc.deps[i] # NoName
      BY <1>4 DEF desc, KeepsDeps
    <3>3. QED
      BY <3>1, <3>2
  <2>5. s \in Seq(Name) /\ Len(s) = k
    BY <2>3, <2>4, SubSeqProperties
  <2> HIDE DEF s
  <2>6. d \in Descriptor(Name) /\ d.deps = s
    BY <2>1, <2>5 DEF Descriptor
  <2> HIDE DEF d
  <2>7. registry' = Append(registry, d)
    BY <1>4 DEF d, s, desc
  <2>8. /\ Len(registry') = Len(registry) + 1 /\ Len(registry) \in Nat
        /\ \A i \in 1..Len(registry) : registry'[i] = registry[i]
        /\ registry'[Len(registry) + 1] = d
        /\ registry' \in Seq(Descriptor(Name))
    BY <1>1, <2>6, <2>7, AppendProperties, LenProperties
  <2>9. DOMAIN registry' = 1..(Len(registry) + 1) /\ DOMAIN registry = 1..Len(registry)
    BY <1>1, <2>8, LenProperties
  <2>10. ASSUME NEW i \in DOMAIN registry' PROVE Len(registry'[i].deps) <= MAX_DEPENDENCIES
    <3>1. CASE i = Len(registry) + 1
      BY <2>3, <2>5, <2>6, <2>8, <3>1
    <3>2. CASE i # Len(registry) + 1
      <4>1. i \in 1..Len(registry)
        BY <2>8, <2>9, <3>2
      <4>2. QED
        BY <1>2, <2>8, <2>9, <4>1 DEF DepsFit
    <3>3. QED
      BY <3>1, <3>2
  <2>11. QED
    BY <2>10 DEF DepsFit
<1>5. QED
  BY <1>3, <1>4 DEF register_thread_descriptor

LEMMA CountInvNext == CountInv /\ [Next]_vars => CountInv'
<1> SUFFICES ASSUME CountInv, [Next]_vars PROVE CountInv'
  OBVIOUS
<1>1. SignalInv'
  BY SignalInvNext DEF CountInv
<1>2. ASSUME UNCHANGED <<stack, call_stack>>
      PROVE  StacksOK' /\ CallsCounted' /\ (Len(call_stack) <= MAX_CALL_STACK_DEPTH)'
  <2>1. ActiveCalls' = ActiveCalls
    BY <1>2 DEF ActiveCalls
  <2>2. QED
    BY <1>2, <2>1 DEF CountInv, Counts, StacksOK, CallsCounted
<1>3. ASSUME UNCHANGED <<stack, call_stack, registry>> PROVE Counts'
  <2>1. DepsFit'
    BY <1>3 DEF CountInv, Counts, DepsFit
  <2>2. QED
    BY <1>2, <1>3, <2>1 DEF Counts
<1>4. ASSUME NEW c \in Caller, CallerStep(c) PROVE Counts'
  <2>1. CASE SkipThread(c) \/ EndCall(c)
    BY <1>3, <2>1 DEF SkipThread, EndCall, registration
  <2>2. QED
    BY <1>4, <2>1, FrameStepCounts, EnterCounts, PopCounts, CallDepCounts,
       BeginCallCounts DEF CallerStep, StartThread, MovesOn
<1>5. ASSUME register_thread_descriptor PROVE Counts'
  <2>1. UNCHANGED <<stack, call_stack>>
    BY <1>5 DEF register_thread_descriptor
  <2>2. QED
    BY <1>2, <1>5, <2>1, RegisterFits DEF Counts
<1>6. ASSUME NEW n \in Name, GiveReadySem(n) \/ EndSilently(n) PROVE Counts'
  BY <1>3, <1>6 DEF GiveReadySem, EndSilently, registration
<1>7. ASSUME MainLoop \/ UNCHANGED vars PROVE Counts'
  BY <1>3, <1>7 DEF MainLoop, vars, registration
<1>8. Counts'
  BY <1>4, <1>5, <1>6, <1>7 DEF Next
<1>9. QED
  BY <1>1, <1>8 DEF CountInv

LEMMA CountInvInit == Init => CountInv
<1> SUFFICES ASSUME Init PROVE CountInv
  OBVIOUS
<1>1. /\ \A c \in Caller : stack[c] = <<>>
      /\ registry = <<>> /\ call_stack = <<>>
  BY DEF Init
<1>2. Len(<<>>) = 0 /\ DOMAIN <<>> = {}
  BY EmptySeq
<1>3. \A c \in Caller : PushedIn(stack[c]) = 0
  BY <1>1, <1>2 DEF PushedIn
<1>4. ActiveCalls = {}
  <2> SUFFICES ASSUME NEW a \in Caller \X Nat PROVE a[2] \notin 1..PushedIn(stack[a[1]])
    BY DEF ActiveCalls
  <2>1. PushedIn(stack[a[1]]) = 0
    BY <1>3
  <2>2. 1..0 = {}
    OBVIOUS
  <2>3. QED
    BY <2>1, <2>2
<1>5. CallsCounted
  BY <1>1, <1>2, <1>4, FS_EmptySet DEF CallsCounted
<1>6. StacksOK
  BY <1>1, <1>2 DEF StacksOK, StackOK
<1>7. DepsFit
  BY <1>1, <1>2 DEF DepsFit
<1>8. Len(call_stack) <= MAX_CALL_STACK_DEPTH
  BY <1>1, <1>2, LimitsAssumption
<1>9. QED
  BY <1>5, <1>6, <1>7, <1>8, SignalInvInit DEF CountInv, Counts

LEMMA CountInvariant == Spec => []CountInv
<1>1. QED
  BY CountInvInit, CountInvNext, PTL DEF Spec

DepthLimited == \A c \in Caller : Len(stack[c]) <= MAX_CALL_STACK_DEPTH + 1

\* With any number of callers, who take names off the shared stack that others
\* have put there, it holds as many names as calls are active: nothing is popped
\* twice or left behind, and its limit is a limit of everybody's recursion.
THEOREM RecursionIsBounded == Spec => [](CallsCounted /\ DepthLimited)
<1>1. CountInv => CallsCounted /\ DepthLimited
  BY DepthBound DEF CountInv, Counts, DepthLimited
<1>2. QED
  BY <1>1, CountInvariant, PTL

(***************************************************************************)
(* The order                                                               *)
(***************************************************************************)

LEMMA NoEndlessWork == IsWellFoundedOn(LessWork, [1..Width -> Nat])
<1> DEFINE R == OpToRel(<, Nat)
<1>1. IsWellFoundedOn(R, Nat)
  BY NatLessThanWellFounded
<1>2. Width \in Nat
  BY LimitsAssumption DEF Width
<1> HIDE DEF R
<1>3. IsWellFoundedOn(LexProductOrdering(R, Nat, Width), [1..Width -> Nat])
  BY <1>1, <1>2, WFLexProductOrdering
<1>4. QED
  BY <1>3 DEF R, LessWork

LEMMA LessFrom ==
  ASSUME NEW a \in [1..Width -> Nat], NEW b \in [1..Width -> Nat],
         NEW j \in 1..Width, a[j] < b[j], \A i \in 1..(j - 1) : a[i] = b[i]
  PROVE  <<a, b>> \in LessWork
<1> DEFINE R == OpToRel(<, Nat)
<1>1. <<a[j], b[j]>> \in R
  BY DEF OpToRel
<1> HIDE DEF R
<1>2. <<a, b>> \in LexProductOrdering(R, Nat, Width)
  BY <1>1 DEF LexProductOrdering
<1>3. QED
  BY <1>2 DEF R, LessWork

LEMMA RankAtIsNat ==
  ASSUME NEW s \in Seq(Frame), NEW k \in Nat \ {0}
  PROVE  RankAt(s, k) \in Nat
<1>1. Len(s) \in Nat
  BY LenProperties
<1>2. CASE k > Len(s)
  BY <1>2, LimitsAssumption DEF RankAt, Highest
<1>3. CASE k <= Len(s)
  <2>1. k \in 1..Len(s)
    BY <1>1, <1>3
  <2>2. s[k] \in Frame
    BY <2>1, ElementOfSeq
  <2>3. PcRank(s[k]) \in Nat
    BY <2>2, RankIsNat
  <2>4. 4 * DepsLeft(s[k]) + 6 \in Nat
    BY <2>2, LeftIsNat
  <2>5. QED
    BY <1>1, <1>3, <2>3, <2>4 DEF RankAt
<1>4. QED
  BY <1>1, <1>2, <1>3

LEMMA WorkIsVector ==
  ASSUME NEW outer \in Nat, NEW s \in Seq(Frame)
  PROVE  /\ WorkOf(outer, s) \in [1..Width -> Nat]
         /\ \A k \in 1..Width :
              WorkOf(outer, s)[k] = IF k = 1 THEN outer ELSE RankAt(s, k - 1)
<1>1. Width \in Nat
  BY LimitsAssumption DEF Width
<1>2. ASSUME NEW k \in 1..Width, k # 1 PROVE RankAt(s, k - 1) \in Nat
  <2>1. k - 1 \in Nat \ {0}
    BY <1>1, <1>2
  <2>2. QED
    BY <2>1, RankAtIsNat
<1>3. QED
  BY <1>2 DEF WorkOf

\* The loop over the calls goes on.
LEMMA LessOuter ==
  ASSUME NEW o \in Nat, NEW p \in Nat, NEW s \in Seq(Frame), NEW t \in Seq(Frame), o < p
  PROVE  <<WorkOf(o, t), WorkOf(p, s)>> \in LessWork
<1> DEFINE a == WorkOf(o, t)
           b == WorkOf(p, s)
<1>1. 1 \in 1..Width
  BY LimitsAssumption DEF Width
<1>2. a \in [1..Width -> Nat] /\ a[1] = o
  BY <1>1, WorkIsVector
<1>3. b \in [1..Width -> Nat] /\ b[1] = p
  BY <1>1, WorkIsVector
<1> HIDE DEF a, b
<1>4. a[1] < b[1] /\ \A i \in 1..(1 - 1) : a[i] = b[i]
  BY <1>2, <1>3
<1>5. <<a, b>> \in LessWork
  BY <1>1, <1>2, <1>3, <1>4, LessFrom
<1>6. QED
  BY <1>5 DEF a, b

\* Less is left at level k of the stack, and as much below it.
LEMMA LessAtLevel ==
  ASSUME NEW o \in Nat, NEW s \in Seq(Frame), NEW t \in Seq(Frame),
         NEW k \in 1..(MAX_CALL_STACK_DEPTH + 1), RankAt(t, k) < RankAt(s, k),
         \A i \in 1..(k - 1) : RankAt(t, i) = RankAt(s, i)
  PROVE  <<WorkOf(o, t), WorkOf(o, s)>> \in LessWork
<1> DEFINE a == WorkOf(o, t)
           b == WorkOf(o, s)
           j == k + 1
<1>1. j \in 1..Width /\ j # 1 /\ j - 1 = k
  BY LimitsAssumption DEF Width
<1>a. ASSUME NEW z \in Seq(Frame)
      PROVE  /\ WorkOf(o, z) \in [1..Width -> Nat]
             /\ \A i \in 1..Width :
                  WorkOf(o, z)[i] = IF i = 1 THEN o ELSE RankAt(z, i - 1)
  BY WorkIsVector, Zenon
<1>2. /\ a \in [1..Width -> Nat]
      /\ \A i \in 1..Width : a[i] = IF i = 1 THEN o ELSE RankAt(t, i - 1)
  BY <1>a, Zenon
<1>3. /\ b \in [1..Width -> Nat]
      /\ \A i \in 1..Width : b[i] = IF i = 1 THEN o ELSE RankAt(s, i - 1)
  BY <1>a, Zenon
<1> HIDE DEF a, b
<1>4. a[j] < b[j]
  BY <1>1, <1>2, <1>3
<1>5. \A i \in 1..(j - 1) : a[i] = b[i]
  <2> SUFFICES ASSUME NEW i \in 1..k PROVE a[i] = b[i]
    BY <1>1
  <2>1. i \in 1..Width
    BY LimitsAssumption DEF Width
  <2>2. CASE i = 1
    BY <1>2, <1>3, <2>1, <2>2
  <2>3. CASE i # 1
    <3>1. i - 1 \in 1..(k - 1)
      BY <2>3
    <3>2. RankAt(t, i - 1) = RankAt(s, i - 1)
      BY <3>1
    <3>3. QED
      BY <1>2, <1>3, <2>1, <2>3, <3>2
  <2>4. QED
    BY <2>2, <2>3
<1> HIDE DEF j
<1>6. <<a, b>> \in LessWork
  <2>1. a \in [1..Width -> Nat] /\ b \in [1..Width -> Nat] /\ j \in 1..Width
    BY <1>1, <1>2, <1>3
  <2>2. QED
    BY <1>4, <1>5, <2>1, LessFrom
<1>7. QED
  BY <1>6 DEF a, b

\* The topmost frame moves on.
LEMMA LessOnTop ==
  ASSUME NEW o \in Nat, NEW s \in Seq(Frame), s # <<>>, NEW t \in Seq(Frame),
         Len(s) <= MAX_CALL_STACK_DEPTH + 1, Len(t) = Len(s), NEW f \in Frame,
         \A k \in 1..Len(t) : t[k] = IF k = Len(s) THEN f ELSE s[k],
         PcRank(f) < PcRank(s[Len(s)])
  PROVE  <<WorkOf(o, t), WorkOf(o, s)>> \in LessWork
<1> DEFINE m == Len(s)
<1>1. m \in Nat \ {0} /\ m \in 1..m
  BY LastFrame
<1>2. m \in 1..(MAX_CALL_STACK_DEPTH + 1)
  BY <1>1, LimitsAssumption
<1>3. RankAt(t, m) < RankAt(s, m)
  BY <1>1 DEF RankAt
<1>4. \A i \in 1..(m - 1) : RankAt(t, i) = RankAt(s, i)
  <2> SUFFICES ASSUME NEW i \in 1..(m - 1) PROVE RankAt(t, i) = RankAt(s, i)
    OBVIOUS
  <2>1. i \in 1..m /\ i < m /\ ~(i > m)
    BY <1>1
  <2>2. t[i] = s[i]
    BY <2>1
  <2>3. QED
    BY <2>1, <2>2 DEF RankAt
<1> HIDE DEF m
<1>5. QED
  BY <1>2, <1>3, <1>4, LessAtLevel

\* The topmost frame returns to the one that called it.
LEMMA LessOnReturn ==
  ASSUME NEW o \in Nat, NEW s \in Seq(Frame), StackOK(s), NEW t \in Seq(Frame), t # <<>>,
         Len(s) <= MAX_CALL_STACK_DEPTH + 1, Len(t) = Len(s) - 1,
         \A k \in 1..Len(t) : t[k] = s[k]
  PROVE  <<WorkOf(o, t), WorkOf(o, s)>> \in LessWork
<1> DEFINE m == Len(t)
<1>1. m \in Nat \ {0} /\ m \in 1..m
  BY LastFrame
<1>2. Len(s) = m + 1
  <2>1. Len(s) \in Nat
    BY LenProperties
  <2>2. QED
    BY <1>1, <2>1
<1>3. m \in 1..(MAX_CALL_STACK_DEPTH + 1)
  BY <1>1, <1>2, LimitsAssumption
<1>4. t[m] = s[m] /\ s[m] \in Frame /\ s[m].pc = "called"
  <2>1. m \in 1..Len(s) /\ m < Len(s)
    BY <1>1, <1>2
  <2>2. QED
    BY <1>1, <2>1, ElementOfSeq DEF StackOK
<1>5. RankAt(t, m) < RankAt(s, m)
  <2>1. RankAt(t, m) = 4 * DepsLeft(s[m]) + 5
    BY <1>1, <1>4, RankOf DEF RankAt
  <2>2. RankAt(s, m) = 4 * DepsLeft(s[m]) + 6
    BY <1>1, <1>2 DEF RankAt
  <2>3. DepsLeft(s[m]) \in Nat
    BY <1>4, LeftIsNat
  <2>4. QED
    BY <2>1, <2>2, <2>3
<1>6. \A i \in 1..(m - 1) : RankAt(t, i) = RankAt(s, i)
  <2> SUFFICES ASSUME NEW i \in 1..(m - 1) PROVE RankAt(t, i) = RankAt(s, i)
    OBVIOUS
  <2>1. i \in 1..m /\ i < m /\ ~(i > m) /\ i < m + 1 /\ ~(i > m + 1)
    BY <1>1
  <2>2. t[i] = s[i]
    BY <2>1
  <2>3. QED
    BY <1>2, <2>1, <2>2 DEF RankAt
<1> HIDE DEF m
<1>7. QED
  BY <1>3, <1>5, <1>6, LessAtLevel

\* The topmost frame calls itself.
LEMMA LessOnCall ==
  ASSUME NEW o \in Nat, NEW s \in Seq(Frame), s # <<>>, NEW t \in Seq(Frame),
         Len(s) <= MAX_CALL_STACK_DEPTH + 1, Len(t) = Len(s) + 1, NEW f \in Frame,
         \A k \in 1..Len(s) : t[k] = IF k = Len(s) THEN f ELSE s[k],
         s[Len(s)].pc = "deps", f.dep = s[Len(s)].dep
  PROVE  <<WorkOf(o, t), WorkOf(o, s)>> \in LessWork
<1> DEFINE m == Len(s)
<1>1. m \in Nat \ {0} /\ m \in 1..m /\ s[m] \in Frame
  BY LastFrame
<1>2. m \in 1..(MAX_CALL_STACK_DEPTH + 1)
  BY <1>1, LimitsAssumption
<1>3. RankAt(t, m) < RankAt(s, m)
  <2>1. t[m] = f
    BY <1>1
  <2>2. RankAt(t, m) = 4 * DepsLeft(f) + 6
    BY <1>1, <2>1 DEF RankAt
  <2>3. RankAt(s, m) = 4 * DepsLeft(s[m]) + 7
    BY <1>1, RankOf DEF RankAt
  <2>4. DepsLeft(f) = DepsLeft(s[m]) /\ DepsLeft(s[m]) \in Nat
    BY <1>1, SameLeft, LeftIsNat
  <2>5. QED
    BY <2>2, <2>3, <2>4
<1>4. \A i \in 1..(m - 1) : RankAt(t, i) = RankAt(s, i)
  <2> SUFFICES ASSUME NEW i \in 1..(m - 1) PROVE RankAt(t, i) = RankAt(s, i)
    OBVIOUS
  <2>1. i \in 1..m /\ i < m /\ ~(i > m) /\ i < m + 1 /\ ~(i > m + 1)
    BY <1>1
  <2>2. t[i] = s[i]
    BY <2>1
  <2>3. QED
    BY <2>1, <2>2 DEF RankAt
<1> HIDE DEF m
<1>5. QED
  BY <1>2, <1>3, <1>4, LessAtLevel

(***************************************************************************)
(* Every step of a caller                                                  *)
(***************************************************************************)

LEMMA IterationsAreNat ==
  ASSUME TypeOK, NEW c \in Caller
  PROVE  IterationsLeft(c) \in Nat
<1>1. cursor[c] \in Nat \ {0} /\ Len(registry) \in Nat
  BY LenProperties DEF TypeOK
<1>2. Iterations(c) \in Nat
  BY <1>1 DEF Iterations
<1>3. QED
  BY <1>1, <1>2 DEF IterationsLeft

LEMMA LoopWorkIsNat ==
  ASSUME TypeOK, NEW c \in Caller
  PROVE  LoopWork(c) \in Nat
<1>1. IterationsLeft(c) \in Nat
  BY IterationsAreNat
<1>2. QED
  BY <1>1 DEF LoopWork

\* Inside a call only the stack counts.
LEMMA LoopStands ==
  ASSUME NEW c \in Caller, UNCHANGED <<registration, top>>,
         stack[c] # <<>>, stack'[c] # <<>>
  PROVE  LoopWork(c)' = LoopWork(c)
<1>1. IterationsLeft(c)' = IterationsLeft(c)
  BY DEF IterationsLeft, Iterations, registration, top
<1>2. QED
  BY <1>1 DEF LoopWork

LEMMA FrameStepRunsDown ==
  ASSUME CountInv, NEW c \in Caller, MovesOn(c)
  PROVE  <<Work(c)', Work(c)>> \in LessWork
<1>1. TypeOK /\ stack[c] # <<>> /\ UNCHANGED <<registration, top>>
  BY StepMoves DEF CountInv, SignalInv
<1>2. PICK f : Moves(c, f) /\ PcRank(f) < PcRank(Top(c))
  BY StepAdvances DEF Advances
<1>3. f \in Frame /\ SetTop(c, f)
  BY <1>2 DEF Moves
<1>4. /\ stack' \in [Caller -> Seq(Frame)]
      /\ Len(stack'[c]) = Len(stack[c])
      /\ \A k \in 1..Len(stack'[c]) :
           stack'[c][k] = IF k = Len(stack[c]) THEN f ELSE stack[c][k]
  BY <1>1, <1>3, SetTopKeepsFrames
<1>5. stack[c] \in Seq(Frame) /\ stack'[c] \in Seq(Frame) /\ stack'[c] # <<>>
  <2>1. stack[c] \in Seq(Frame) /\ stack'[c] \in Seq(Frame)
    BY <1>1, <1>4 DEF TypeOK
  <2>2. Len(stack[c]) # 0
    BY <1>1, <2>1, EmptySeq
  <2>3. QED
    BY <1>4, <2>1, <2>2, EmptySeq
<1>6. LoopWork(c)' = LoopWork(c) /\ LoopWork(c) \in Nat
  BY <1>1, <1>5, LoopStands, LoopWorkIsNat
<1>7. PcRank(f) < PcRank(stack[c][Len(stack[c])])
  BY <1>2 DEF Top
<1>8. Len(stack[c]) <= MAX_CALL_STACK_DEPTH + 1
  BY DepthBound
<1>9. <<WorkOf(LoopWork(c), stack'[c]), WorkOf(LoopWork(c), stack[c])>> \in LessWork
  BY <1>1, <1>3, <1>4, <1>5, <1>6, <1>7, <1>8, LessOnTop
<1>10. QED
  BY <1>6, <1>9 DEF Work

LEMMA EnterRunsDown ==
  ASSUME CountInv, NEW c \in Caller, Enter(c), Goto(c, "lookup")
  PROVE  <<Work(c)', Work(c)>> \in LessWork
<1>1. TypeOK /\ stack[c] # <<>> /\ Top(c).pc = "enter" /\ UNCHANGED <<registration, top>>
  BY DEF CountInv, SignalInv, Enter, At
<1>2. Top(c) \in Frame
  BY <1>1, TopIsFrame
<1>3. PICK f : Moves(c, f) /\ f.pc = "lookup"
  BY <1>2, GotoMoves DEF Pc
<1>4. f \in Frame /\ SetTop(c, f)
  BY <1>3 DEF Moves
<1>5. /\ stack' \in [Caller -> Seq(Frame)]
      /\ Len(stack'[c]) = Len(stack[c])
      /\ \A k \in 1..Len(stack'[c]) :
           stack'[c][k] = IF k = Len(stack[c]) THEN f ELSE stack[c][k]
  BY <1>1, <1>4, SetTopKeepsFrames
<1>6. stack[c] \in Seq(Frame) /\ stack'[c] \in Seq(Frame) /\ stack'[c] # <<>>
  <2>1. stack[c] \in Seq(Frame) /\ stack'[c] \in Seq(Frame)
    BY <1>1, <1>5 DEF TypeOK
  <2>2. Len(stack[c]) # 0
    BY <1>1, <2>1, EmptySeq
  <2>3. QED
    BY <1>5, <2>1, <2>2, EmptySeq
<1>7. LoopWork(c)' = LoopWork(c) /\ LoopWork(c) \in Nat
  BY <1>1, <1>6, LoopStands, LoopWorkIsNat
<1>8. PcRank(f) < PcRank(stack[c][Len(stack[c])])
  <2>1. PcRank(f) = Highest - 2 /\ PcRank(Top(c)) = Highest - 1
    BY <1>1, <1>2, <1>3, <1>4, RankOf
  <2>2. PcRank(f) < PcRank(Top(c))
    BY <2>1, LimitsAssumption DEF Highest
  <2>3. QED
    BY <2>2 DEF Top
<1>9. Len(stack[c]) <= MAX_CALL_STACK_DEPTH + 1
  BY DepthBound
<1>10. <<WorkOf(LoopWork(c), stack'[c]), WorkOf(LoopWork(c), stack[c])>> \in LessWork
  BY <1>1, <1>4, <1>5, <1>6, <1>7, <1>8, <1>9, LessOnTop
<1>11. QED
  BY <1>7, <1>10 DEF Work

\* A return goes on in the caller's frame, or ends the call from outside.
LEMMA ReturnRunsDown ==
  ASSUME CountInv, NEW c \in Caller, stack[c] # <<>>, NEW r \in {"ok", "err"},
         Return(c, r), UNCHANGED <<registration, top>>
  PROVE  <<Work(c)', Work(c)>> \in LessWork
<1>1. /\ stack[c] \in Seq(Frame) /\ stack'[c] \in Seq(Frame)
      /\ Len(stack'[c]) = Len(stack[c]) - 1
      /\ \A k \in 1..Len(stack'[c]) : stack'[c][k] = stack[c][k]
      /\ StackOK(stack[c])
  BY ReturnLeaves DEF Ret
<1>2. TypeOK /\ LoopWork(c) \in Nat /\ IterationsLeft(c) \in Nat
  BY LoopWorkIsNat, IterationsAreNat DEF CountInv, SignalInv
<1>3. CASE stack'[c] # <<>>
  <2>1. LoopWork(c)' = LoopWork(c)
    BY <1>3, LoopStands
  <2>2. Len(stack[c]) <= MAX_CALL_STACK_DEPTH + 1
    BY DepthBound
  <2>3. <<WorkOf(LoopWork(c), stack'[c]), WorkOf(LoopWork(c), stack[c])>> \in LessWork
    BY <1>1, <1>2, <1>3, <2>2, LessOnReturn
  <2>4. QED
    BY <2>1, <2>3 DEF Work
<1>4. CASE stack'[c] = <<>>
  <2>1. result'[c] = r
    BY <1>2 DEF Return, TypeOK
  <2>2. IterationsLeft(c)' = IterationsLeft(c)
    BY DEF IterationsLeft, Iterations, registration, top
  <2>3. LoopWork(c)' = 3 * IterationsLeft(c) /\ LoopWork(c) = 3 * IterationsLeft(c) + 1
    BY <1>2, <1>4, <2>1, <2>2 DEF LoopWork
  <2>4. LoopWork(c)' \in Nat /\ LoopWork(c)' < LoopWork(c)
    BY <1>2, <2>3
  <2>5. <<WorkOf(LoopWork(c)', stack'[c]), WorkOf(LoopWork(c), stack[c])>> \in LessWork
    BY <1>1, <1>2, <2>4, LessOuter
  <2>6. QED
    BY <2>5 DEF Work
<1>5. QED
  BY <1>3, <1>4

LEMMA CallDepRunsDown ==
  ASSUME CountInv, NEW c \in Caller, CallDep(c)
  PROVE  <<Work(c)', Work(c)>> \in LessWork
<1>1. /\ stack[c] # <<>> /\ Top(c).pc = "deps" /\ UNCHANGED <<registration, top>>
  BY CallDepFrames DEF CountInv
<1>2. PICK f, g \in Frame :
        /\ f.dep = Top(c).dep
        /\ stack[c] \in Seq(Frame) /\ stack'[c] \in Seq(Frame)
        /\ Len(stack'[c]) = Len(stack[c]) + 1
        /\ \A k \in 1..Len(stack[c]) :
             stack'[c][k] = IF k = Len(stack[c]) THEN f ELSE stack[c][k]
  BY CallDepLeaves
<1>3. stack'[c] # <<>>
  <2>1. Len(stack[c]) \in Nat
    BY <1>2, LenProperties
  <2>2. Len(stack'[c]) # 0
    BY <1>2, <2>1
  <2>3. QED
    BY <2>2, EmptySeq, Zenon
<1>4. LoopWork(c)' = LoopWork(c) /\ LoopWork(c) \in Nat
  BY <1>1, <1>3, LoopStands, LoopWorkIsNat DEF CountInv, SignalInv
<1>5. Len(stack[c]) <= MAX_CALL_STACK_DEPTH + 1
  BY DepthBound
<1>6. stack[c][Len(stack[c])].pc = "deps" /\ f.dep = stack[c][Len(stack[c])].dep
  BY <1>1, <1>2 DEF Top
<1>7. <<WorkOf(LoopWork(c), stack'[c]), WorkOf(LoopWork(c), stack[c])>> \in LessWork
  BY <1>1, <1>2, <1>4, <1>5, <1>6, LessOnCall
<1>8. QED
  BY <1>4, <1>7 DEF Work

LEMMA LoopRunsDown ==
  ASSUME CountInv, NEW c \in Caller, BeginCall(c) \/ SkipThread(c) \/ EndCall(c)
  PROVE  <<Work(c)', Work(c)>> \in LessWork
<1>1. TypeOK /\ LoopWork(c) \in Nat /\ IterationsLeft(c) \in Nat
  BY LoopWorkIsNat, IterationsAreNat DEF CountInv, SignalInv
<1>2. stack[c] = <<>> /\ cursor[c] <= Iterations(c) /\ UNCHANGED registration
  BY DEF BeginCall, SkipThread, EndCall, AtTop
<1>3. Iterations(c)' = Iterations(c)
  BY <1>2 DEF Iterations, registration
<1>4. stack[c] \in Seq(Frame)
  BY <1>1 DEF TypeOK
<1>5. cursor[c] \in Nat \ {0} /\ Iterations(c) \in Nat
  <2>1. Len(registry) \in Nat
    BY <1>1, LenProperties DEF TypeOK
  <2>2. QED
    BY <1>1, <2>1 DEF TypeOK, Iterations
<1>6. LoopWork(c)' \in Nat /\ LoopWork(c)' < LoopWork(c) /\ stack'[c] \in Seq(Frame)
  <2>1. CASE BeginCall(c)
    <3>1. PICK n \in Name : Call(c, n)
      BY <2>1, BeginCallFrames DEF CountInv
    <3>2. /\ stack' \in [Caller -> Seq(Frame)]
          /\ Len(stack'[c]) = Len(stack[c]) + 1
      BY <1>1, <3>1, CallKeepsFrames
    <3>3. stack'[c] # <<>> /\ stack'[c] \in Seq(Frame)
      <4>1. Len(stack[c]) \in Nat
        BY <1>4, LenProperties
      <4>2. Len(stack'[c]) # 0
        BY <3>2, <4>1
      <4>3. stack'[c] # <<>>
        BY <4>2, EmptySeq, Zenon
      <4>4. QED
        BY <3>2, <4>3
    <3>4. UNCHANGED <<cursor, result>> /\ result[c] = "none"
      BY <2>1 DEF BeginCall, top
    <3>5. IterationsLeft(c)' = IterationsLeft(c)
      BY <1>3, <3>4 DEF IterationsLeft
    <3>6. LoopWork(c)' = 3 * IterationsLeft(c) + 1 /\ LoopWork(c) = 3 * IterationsLeft(c) + 2
      BY <1>1, <1>2, <3>3, <3>4, <3>5 DEF LoopWork
    <3>7. QED
      BY <1>1, <3>3, <3>6
  <2>2. CASE SkipThread(c) \/ EndCall(c)
    <3>1. stack' = stack /\ cursor'[c] = cursor[c] + 1 /\ result'[c] = "none"
      BY <1>1, <2>2 DEF SkipThread, EndCall, TypeOK
    <3>2. IterationsLeft(c)' = IterationsLeft(c) - 1 /\ IterationsLeft(c) \in Nat \ {0}
      BY <1>2, <1>3, <1>5, <3>1 DEF IterationsLeft
    <3>3. LoopWork(c)' = 3 * (IterationsLeft(c) - 1) + 2
      BY <1>2, <3>1, <3>2 DEF LoopWork
    <3>4. LoopWork(c) >= 3 * IterationsLeft(c)
      BY <1>1, <1>2 DEF LoopWork
    <3>5. QED
      BY <1>1, <1>4, <3>1, <3>2, <3>3, <3>4
  <2>3. QED
    BY <2>1, <2>2
<1>7. <<WorkOf(LoopWork(c)', stack'[c]), WorkOf(LoopWork(c), stack[c])>> \in LessWork
  BY <1>1, <1>4, <1>6, LessOuter
<1>8. QED
  BY <1>7 DEF Work

LEMMA CallerRunsDown ==
  ASSUME CountInv, NEW c \in Caller, CallerStep(c)
  PROVE  <<Work(c)', Work(c)>> \in LessWork
<1>1. CASE Enter(c)
  <2>1. stack[c] # <<>> /\ UNCHANGED <<registration, top>>
    BY <1>1 DEF Enter, At
  <2>2. CASE Return(c, "err")
    BY <2>1, <2>2, ReturnRunsDown
  <2>3. CASE Goto(c, "lookup")
    BY <1>1, <2>3, EnterRunsDown
  <2>4. QED
    BY <1>1, <2>2, <2>3 DEF Enter
<1>2. CASE PopAndReturn(c)
  <2>1. stack[c] # <<>> /\ Top(c).pc = "cleanup" /\ UNCHANGED <<registration, top>>
    BY <1>2 DEF PopAndReturn, At
  <2>2. Top(c) \in Frame /\ Len(stack[c]) \in 1..Len(stack[c])
    BY <2>1, TopIsFrame DEF CountInv, SignalInv
  <2>3. Top(c).ret \in {"ok", "err"}
    <3>1. Top(c).ret # "none"
      BY <2>1, <2>2 DEF CountInv, Counts, StacksOK, StackOK, Top
    <3>2. QED
      BY <2>2, <3>1 DEF Frame, Ret
  <2>4. Return(c, Top(c).ret)
    BY <1>2 DEF PopAndReturn
  <2>5. QED
    BY <2>1, <2>3, <2>4, ReturnRunsDown
<1>3. QED
  BY <1>1, <1>2, FrameStepRunsDown, CallDepRunsDown, LoopRunsDown
     DEF CallerStep, StartThread, MovesOn

(***************************************************************************)
(* Nobody else's step                                                      *)
(***************************************************************************)

LEMMA WorkStands ==
  ASSUME NEW c \in Caller, UNCHANGED registry,
         stack'[c] = stack[c], result'[c] = result[c], cursor'[c] = cursor[c]
  PROVE  Work(c)' = Work(c)
<1>1. LoopWork(c)' = LoopWork(c)
  BY DEF LoopWork, IterationsLeft, Iterations
<1>2. QED
  BY <1>1 DEF Work

LEMMA OthersLeaveWork ==
  ASSUME CountInv, NEW c \in Caller, NEW e \in Caller \ {c}, CallerStep(e)
  PROVE  Work(c)' = Work(c)
<1>1. TypeOK
  BY DEF CountInv, SignalInv
<1>2. UNCHANGED registry
  BY DEF CallerStep, StartThread, BeginCall, SkipThread, EndCall, Enter, Lookup, CallDep,
         DepsDone, CheckDep, WaitDep, InitFunc, InitFuncReturns, InitReturned,
         AwaitSignal, PopAndReturn, registration
<1>3. cursor'[c] = cursor[c]
  BY <1>1 DEF CallerStep, StartThread, BeginCall, SkipThread, EndCall, Enter, Lookup,
         CallDep, DepsDone, CheckDep, WaitDep, InitFunc, InitFuncReturns, InitReturned,
         AwaitSignal, PopAndReturn, top, TypeOK
<1>4. stack'[c] = stack[c] /\ result'[c] = result[c]
  <2>1. CASE MovesOn(e)
    <3>1. stack[e] # <<>> /\ UNCHANGED result
      BY <1>1, <2>1, StepMoves
    <3>2. PICK f : Moves(e, f)
      BY <1>1, <2>1, StepMoves
    <3>3. f \in Frame /\ SetTop(e, f)
      BY <3>2 DEF Moves
    <3>4. \A d \in Caller \ {e} : stack'[d] = stack[d]
      BY <1>1, <3>1, <3>3, SetTopKeepsFrames
    <3>5. QED
      BY <3>1, <3>4
  <2>2. ASSUME NEW r \in Ret, Return(e, r) PROVE stack'[c] = stack[c] /\ result'[c] = result[c]
    BY <1>1, <2>2 DEF Return, TypeOK
  <2>3. CASE Enter(e)
    <3>1. CASE Return(e, "err")
      BY <2>2, <3>1 DEF Ret
    <3>2. CASE Goto(e, "lookup") /\ UNCHANGED result
      <4>1. stack[e] # <<>>
        BY <2>3 DEF Enter, At
      <4>2. Top(e) \in Frame
        BY <1>1, <4>1, TopIsFrame
      <4>3. PICK f : Moves(e, f)
        BY <3>2, <4>2, GotoMoves DEF Pc
      <4>4. f \in Frame /\ SetTop(e, f)
        BY <4>3 DEF Moves
      <4>5. \A d \in Caller \ {e} : stack'[d] = stack[d]
        BY <1>1, <4>1, <4>4, SetTopKeepsFrames
      <4>6. QED
        BY <3>2, <4>5
    <3>3. QED
      BY <2>3, <3>1, <3>2 DEF Enter
  <2>4. CASE PopAndReturn(e)
    <3>1. stack[e] # <<>> /\ Return(e, Top(e).ret)
      BY <2>4 DEF PopAndReturn, At
    <3>2. Top(e).ret \in Ret
      BY <1>1, <3>1, TopIsFrame DEF Frame
    <3>3. QED
      BY <2>2, <3>1, <3>2
  <2>5. CASE CallDep(e)
    <3>1. UNCHANGED result
      BY <2>5 DEF CallDep
    <3>2. stack'[c] = stack[c]
      BY <2>5, CallDepLeaves
    <3>3. QED
      BY <3>1, <3>2
  <2>6. CASE BeginCall(e)
    <3>1. PICK n \in Name : Call(e, n)
      BY <2>6, BeginCallFrames DEF CountInv
    <3>2. stack'[c] = stack[c]
      BY <1>1, <3>1, CallKeepsFrames
    <3>3. UNCHANGED result
      BY <2>6 DEF BeginCall
    <3>4. QED
      BY <3>2, <3>3
  <2>7. CASE SkipThread(e) \/ EndCall(e)
    BY <1>1, <2>7 DEF SkipThread, EndCall, TypeOK
  <2>8. QED
    BY <2>1, <2>3, <2>4, <2>5, <2>6, <2>7 DEF CallerStep, StartThread, MovesOn
<1>5. QED
  BY <1>2, <1>3, <1>4, WorkStands

\* Whatever the dependency graph, the failures and the other callers, every step
\* of a caller inside the manager leaves it less to do, in an order without
\* infinite descent, and nothing that others do gives it more: of StartTerminates
\* only the scheduling is left to fairness.
THEOREM StartIsBounded ==
  IsWellFoundedOn(LessWork, [1..Width -> Nat]) /\ (Spec => StartRunsDown)
<1>1. ASSUME CountInv, [Next]_vars, NEW c \in Caller
      PROVE  /\ CallerStep(c) => <<Work(c)', Work(c)>> \in LessWork
             /\ Constructed /\ ~CallerStep(c) => Work(c)' = Work(c)
  <2>1. CallerStep(c) => <<Work(c)', Work(c)>> \in LessWork
    BY <1>1, CallerRunsDown
  <2>2. ASSUME Constructed, ~CallerStep(c) PROVE Work(c)' = Work(c)
    <3>1. CASE register_thread_descriptor
      <4>1. nreg < Len(table) /\ nreg = Len(table)
        BY <2>2, <3>1 DEF register_thread_descriptor, Constructed
      <4>2. Len(table) \in Nat
        BY TablesAssumption, LenProperties, <1>1 DEF CountInv, SignalInv, TypeOK
      <4>3. QED
        BY <4>1, <4>2
    <3>2. CASE \E e \in Caller : CallerStep(e)
      BY <1>1, <2>2, <3>2, OthersLeaveWork
    <3>3. CASE \E n \in Name : GiveReadySem(n) \/ EndSilently(n)
      BY <3>3, WorkStands DEF GiveReadySem, EndSilently, registration, top
    <3>4. CASE MainLoop \/ UNCHANGED vars
      BY <3>4, WorkStands DEF MainLoop, vars, registration, top
    <3>5. QED
      BY <1>1, <3>1, <3>2, <3>3, <3>4 DEF Next
  <2>3. QED
    BY <2>1, <2>2
<1>2. CountInv /\ [Next]_vars =>
        [\A c \in Caller :
           /\ CallerStep(c) => <<Work(c)', Work(c)>> \in LessWork
           /\ Constructed /\ ~CallerStep(c) => Work(c)' = Work(c)]_vars
  BY <1>1
<1>3. Spec => StartRunsDown
  BY <1>2, CountInvariant, PTL DEF Spec, StartRunsDown
<1>4. QED
  BY <1>3, NoEndlessWork
=============================================================================
