--------------------------- MODULE ConfigFs_proofs ---------------------------
(***************************************************************************)
(* Proofs about the file functions of config_fs.c, for every set of paths, *)
(* every depth of the tree and every set of faults: handles, the verdict   *)
(* of fs_rm_rf, and what write_config leaves behind.                       *)
(*                                                                         *)
(* The inductive invariant has one part per piece of state: what is below  *)
(* a path is in a directory (TreeInv), the recursion walks from the target *)
(* downwards (StackInv), handles are where the recursion is (CallInv), and *)
(* fs_rm_rf takes the target itself last (TargetInv).                      *)
(***************************************************************************)
EXTENDS ConfigFs, SequenceTheorems, FiniteSetTheorems, WellFoundedInduction, TLAPS

Kind == {"none", "dir", "partial", "whole"}

Frame == [path : Path, pc : {"open", "read", "called"}, seen : SUBSET Path]

TypeInv ==
  /\ tree \in [Path -> Kind]
  /\ op \in {"idle", "rm", "ls", "mkdir", "write", "init"}
  /\ target \in Path
  /\ stack \in Seq(Frame)
  /\ dirs \in Seq(Seq(Component))
  /\ handles \in Nat
  /\ before \in Kind
  /\ op = "write" => target \in CONFIGS

\* Whatever there is, is in a directory.
TreeInv == \A p \in Path : tree[p] # "none" => IsDir(Front(p))

\* The outermost frame is that of the target, the others are below it and, but
\* for the last one, wait for the next one.
Walk(s) ==
  \A k \in 1..Len(s) :
    /\ s[k].path \in Under(target)
    /\ k = 1 <=> s[k].path = target
    /\ k < Len(s) => s[k].pc = "called"

StackInv == stack # <<>> => op \in {"rm", "ls"} /\ Walk(stack)

\* fs_rm_rf holds the directory it reads; lsdir_recursive one per level as well.
CallInv ==
  /\ op \in {"rm", "ls"} => stack # <<>> /\ dirs = <<>>
  /\ op = "rm" => handles = (IF Top.pc = "read" THEN 1 ELSE 0)
  /\ op = "ls" => handles = (IF Top.pc = "open" THEN Len(stack) - 1 ELSE Len(stack))
  /\ op = "idle" => dirs = <<>>
  /\ op \in {"idle", "mkdir", "init"} => handles = 0
  /\ op \in {"mkdir", "write"} => Len(dirs) <= 1
  /\ op = "write" =>
       \/ handles = 0
       \/ handles = 1 /\ dirs = <<>> /\ tree[target] = "partial"

\* The target goes with the outermost return only, and what was opened is there.
TargetInv ==
  op = "rm" =>
    /\ before # "none" <=> tree[target] # "none"
    /\ stack[1].pc # "open" => before # "none"

FsInv ==
  /\ TypeInv /\ TreeInv /\ StackInv /\ CallInv /\ TargetInv
  /\ RemovalVerdictIsTrue

(***************************************************************************)
(* Paths                                                                   *)
(***************************************************************************)

LEMMA FrontOf ==
  ASSUME NEW S, NEW s \in Seq(S), s # <<>>
  PROVE  /\ Len(s) \in Nat \ {0}
         /\ Front(s) \in Seq(S)
         /\ Len(Front(s)) = Len(s) - 1
         /\ \A k \in 1..(Len(s) - 1) : Front(s)[k] = s[k]
<1>1. Len(s) \in Nat \ {0}
  BY EmptySeq
<1>2. \A k \in 1..(Len(s) - 1) : s[k] \in S
  BY <1>1, ElementOfSeq
<1>3. 1 \in Int /\ Len(s) - 1 \in Int
  BY <1>1
<1>4. /\ Front(s) \in Seq(S)
      /\ Len(Front(s)) = IF 1 <= Len(s) - 1 THEN Len(s) - 1 - 1 + 1 ELSE 0
      /\ \A k \in 1..(Len(s) - 1 - 1 + 1) : Front(s)[k] = s[1 + k - 1]
  BY <1>2, <1>3, SubSeqProperties DEF Front
<1>5. \A k \in 1..(Len(s) - 1) : k \in 1..(Len(s) - 1 - 1 + 1) /\ 1 + k - 1 = k
  BY <1>1
<1>6. \A k \in 1..(Len(s) - 1) : Front(s)[k] = s[k]
  BY <1>4, <1>5
<1>7. Len(Front(s)) = Len(s) - 1
  <2>1. \A n \in Nat \ {0} : (IF 1 <= n - 1 THEN n - 1 - 1 + 1 ELSE 0) = n - 1
    BY SMT
  <2>2. QED
    BY <1>1, <1>4, <2>1, Zenon
<1>8. QED
  BY <1>1, <1>4, <1>6, <1>7

LEMMA PathIsSeq ==
  ASSUME NEW p \in Path
  PROVE  p \in Seq(Component) /\ p # <<>> /\ Len(p) \in Nat \ {0}
BY PathAssumption, EmptySeq

LEMMA UnderIff ==
  ASSUME NEW p \in Path, NEW q \in Path
  PROVE  q \in Under(p) <=> Len(q) >= Len(p) /\ \A i \in 1..Len(p) : q[i] = p[i]
<1>1. /\ p \in Seq(Component) /\ Len(p) \in Nat \ {0}
      /\ q \in Seq(Component) /\ Len(q) \in Nat \ {0}
  BY PathIsSeq
<1>2. ASSUME Len(q) >= Len(p)
      PROVE  /\ Prefix(q, Len(p)) \in Seq(Component)
             /\ Len(Prefix(q, Len(p))) = Len(p)
             /\ \A i \in 1..Len(p) : Prefix(q, Len(p))[i] = q[i]
  <2>1. \A i \in 1..Len(p) : q[i] \in Component
    BY <1>1, <1>2, ElementOfSeq
  <2>2. 1 \in Int /\ Len(p) \in Int /\ 1 <= Len(p)
    BY <1>1
  <2>3. /\ SubSeq(q, 1, Len(p)) \in Seq(Component)
        /\ Len(SubSeq(q, 1, Len(p))) = IF 1 <= Len(p) THEN Len(p) - 1 + 1 ELSE 0
        /\ \A i \in 1..(Len(p) - 1 + 1) : SubSeq(q, 1, Len(p))[i] = q[1 + i - 1]
    BY <2>1, <2>2, SubSeqProperties
  <2>4. QED
    BY <1>1, <2>3 DEF Prefix
<1>3. ASSUME Len(q) >= Len(p), \A i \in 1..Len(p) : q[i] = p[i]
      PROVE  Prefix(q, Len(p)) = p
  BY <1>1, <1>2, <1>3, SeqEqual
<1>4. QED
  BY <1>2, <1>3 DEF Under

LEMMA TargetIsUnder ==
  ASSUME NEW t \in Path
  PROVE  t \in Under(t)
BY UnderIff, PathIsSeq

\* The entries of a directory below the target are below it, and not it.
LEMMA ChildIsUnder ==
  ASSUME NEW t \in Path, NEW q \in Path, Front(q) \in Under(t)
  PROVE  q \in Under(t) /\ q # t
<1>1. Front(q) \in Path
  BY DEF Under
<1>2. /\ Len(q) \in Nat \ {0} /\ Len(Front(q)) = Len(q) - 1
      /\ \A i \in 1..(Len(q) - 1) : Front(q)[i] = q[i]
  BY PathIsSeq, FrontOf
<1>3. Len(Front(q)) >= Len(t) /\ \A i \in 1..Len(t) : Front(q)[i] = t[i]
  BY <1>1, UnderIff
<1>4. Len(t) \in Nat
  BY PathIsSeq
<1>5. Len(q) > Len(t) /\ \A i \in 1..Len(t) : q[i] = t[i]
  BY <1>2, <1>3, <1>4
<1>6. Len(q) >= Len(t) /\ q # t
  BY <1>2, <1>4, <1>5
<1>7. QED
  BY <1>5, <1>6, UnderIff

LEMMA ParentIsUnder ==
  ASSUME NEW t \in Path, NEW q \in Under(t), q # t
  PROVE  Front(q) \in Under(t) /\ Len(Front(q)) < Len(q)
<1>1. q \in Path
  BY DEF Under
<1>2. /\ q \in Seq(Component) /\ Len(q) \in Nat \ {0}
      /\ t \in Seq(Component) /\ Len(t) \in Nat \ {0}
  BY <1>1, PathIsSeq
<1>3. Len(q) >= Len(t) /\ \A i \in 1..Len(t) : q[i] = t[i]
  BY <1>1, UnderIff
<1>4. Len(q) # Len(t)
  <2>1. SUFFICES ASSUME Len(q) = Len(t) PROVE FALSE
    OBVIOUS
  <2>2. q = t
    BY <1>2, <1>3, <2>1, SeqEqual
  <2>3. QED
    BY <2>2
<1>5. /\ Len(Front(q)) = Len(q) - 1
      /\ \A i \in 1..(Len(q) - 1) : Front(q)[i] = q[i]
  BY <1>1, PathIsSeq, FrontOf
<1>6. Len(q) > 1 /\ Len(Front(q)) >= Len(t) /\ Len(Front(q)) < Len(q)
  BY <1>2, <1>3, <1>4, <1>5
<1>7. Front(q) \in Path
  BY <1>1, <1>6, PathAssumption
<1>8. \A i \in 1..Len(t) : Front(q)[i] = t[i]
  BY <1>2, <1>3, <1>4, <1>5
<1>9. QED
  BY <1>6, <1>7, <1>8, UnderIff

(***************************************************************************)
(* A directory without entries has nothing below it                        *)
(***************************************************************************)

LEMMA SmallestExists ==
  ASSUME NEW T \in SUBSET Nat, T # {}
  PROVE  \E m \in T : \A n \in T : m <= n
<1> DEFINE R == OpToRel(<, Nat)
<1>1. IsWellFoundedOn(R, Nat)
  BY NatLessThanWellFounded
<1>2. \A i, j \in Nat : i < j => <<i, j>> \in R
  BY DEF OpToRel
<1> HIDE DEF R
<1>3. PICK m \in T : \A n \in T : ~ (<<n, m>> \in R)
  BY <1>1, WFMin
<1>4. \A n \in T : ~ (n < m)
  BY <1>2, <1>3, ZenonT(20)
<1>5. \A i, j \in Nat : ~(i < j) => j <= i
  BY SMT
<1>6. QED
  BY <1>4, <1>5

LEMMA EmptyDirIsAll ==
  ASSUME TypeInv, TreeInv, NEW t \in Path, Children(t) = {}
  PROVE  \A q \in Under(t) : q # t => tree[q] = "none"
<1> DEFINE Left == {q \in Under(t) : q # t /\ tree[q] # "none"}
<1> DEFINE T == {Len(q) : q \in Left}
<1> SUFFICES ASSUME Left # {} PROVE FALSE
  OBVIOUS
<1>1. \A q \in Left : q \in Path /\ Len(q) \in Nat
  BY PathIsSeq DEF Under
<1>2. T \in SUBSET Nat /\ T # {}
  BY <1>1
<1> HIDE DEF T
<1>3. PICK m \in T : \A n \in T : m <= n
  BY <1>2, SmallestExists
<1>4. PICK q \in Left : m = Len(q)
  BY <1>3 DEF T
<1>5. \A r \in Left : Len(q) <= Len(r)
  BY <1>3, <1>4 DEF T
<1>6. Front(q) \in Under(t) /\ Len(Front(q)) < Len(q)
  BY <1>4, ParentIsUnder
<1>7. Front(q) \in Path /\ q \in Path
  BY <1>1, <1>4, <1>6 DEF Under
<1>8. Front(q) # t
  BY <1>4, <1>7 DEF Children
<1>9. tree[Front(q)] = "dir"
  <2>1. IsDir(Front(q))
    BY <1>4, <1>7 DEF TreeInv
  <2>2. QED
    BY <2>1, <1>7, PathAssumption DEF IsDir
<1>10. Front(q) \in Left
  BY <1>6, <1>8, <1>9
<1>11. Len(q) <= Len(Front(q))
  BY <1>5, <1>10
<1>12. Len(Front(q)) \in Nat /\ Len(q) \in Nat
  BY <1>7, PathIsSeq
<1>13. QED
  BY <1>6, <1>11, <1>12

(***************************************************************************)
(* The stack of frames: the top changes, a frame comes, a frame goes       *)
(***************************************************************************)

LEMMA TopReplaced ==
  ASSUME NEW s \in Seq(Frame), s # <<>>, Walk(s),
         NEW f \in Frame, f.path = s[Len(s)].path,
         NEW r, r = [s EXCEPT ![Len(s)] = f]
  PROVE  /\ r \in Seq(Frame) /\ r # <<>> /\ Len(r) = Len(s)
         /\ r[Len(r)] = f
         /\ \A k \in 1..Len(s) : k # Len(s) => r[k] = s[k]
         /\ Walk(r)
<1>1. Len(s) \in Nat \ {0} /\ Len(s) \in 1..Len(s)
  BY EmptySeq
<1>2. /\ r \in Seq(Frame) /\ Len(r) = Len(s)
      /\ \A j \in 1..Len(s) : r[j] = IF j = Len(s) THEN f ELSE s[j]
  BY <1>1, ExceptSeq
<1>3. r # <<>>
  BY <1>1, <1>2, EmptySeq
<1>4. r[Len(r)] = f /\ \A k \in 1..Len(s) : k # Len(s) => r[k] = s[k]
  BY <1>1, <1>2
<1>5. \A k \in 1..Len(s) : r[k].path = s[k].path
  BY <1>2
<1>6. \A k \in 1..Len(s) : k < Len(s) => r[k].pc = s[k].pc
  BY <1>1, <1>4
<1>7. Walk(r)
  BY <1>2, <1>5, <1>6 DEF Walk
<1>8. QED
  BY <1>2, <1>3, <1>4, <1>7

LEMMA FramePopped ==
  ASSUME NEW s \in Seq(Frame), s # <<>>, Walk(s),
         NEW r, r = Front(s)
  PROVE  /\ r \in Seq(Frame) /\ Len(s) \in Nat \ {0} /\ Len(r) = Len(s) - 1
         /\ r = <<>> <=> Len(s) = 1
         /\ r # <<>> => r[Len(r)].pc = "called" /\ r[1] = s[1]
         /\ Walk(r)
<1>1. /\ Len(s) \in Nat \ {0} /\ r \in Seq(Frame) /\ Len(r) = Len(s) - 1
      /\ \A k \in 1..(Len(s) - 1) : r[k] = s[k]
  BY FrontOf
<1>2. r = <<>> <=> Len(r) = 0
  BY <1>1, EmptySeq
<1>3. r = <<>> <=> Len(s) = 1
  BY <1>1, <1>2
<1>4. \A k \in 1..Len(r) : k \in 1..Len(s) /\ k < Len(s) /\ r[k] = s[k]
  BY <1>1
<1>5. Walk(r)
  BY <1>4 DEF Walk
<1>6. ASSUME r # <<>> PROVE r[Len(r)].pc = "called" /\ r[1] = s[1]
  <2>1. 1 \in 1..Len(r) /\ Len(r) \in 1..Len(r)
    BY <1>1, <1>2, <1>6
  <2>2. QED
    BY <2>1, <1>4 DEF Walk
<1>7. QED
  BY <1>1, <1>3, <1>5, <1>6

LEMMA FramePushed ==
  ASSUME TypeInv, NEW s \in Seq(Frame), s # <<>>, Walk(s),
         NEW f \in Frame, f.path = s[Len(s)].path, f.pc = "called",
         NEW q \in Path, Front(q) = f.path,
         NEW r, r = Append([s EXCEPT ![Len(s)] = f], NewFrame(q))
  PROVE  /\ r \in Seq(Frame) /\ r # <<>> /\ Len(s) \in Nat /\ Len(r) = Len(s) + 1
         /\ r[Len(r)] = NewFrame(q) /\ r[1].pc = "called"
         /\ Walk(r)
<1> DEFINE m == [s EXCEPT ![Len(s)] = f]
<1>1. /\ m \in Seq(Frame) /\ m # <<>> /\ Len(m) = Len(s)
      /\ m[Len(m)] = f
      /\ Walk(m)
  BY TopReplaced
<1> HIDE DEF m
<1>2. r = Append(m, NewFrame(q))
  BY DEF m
<1>3. NewFrame(q) \in Frame
  BY DEF NewFrame, Frame
<1>4. Len(m) \in Nat \ {0}
  BY <1>1, EmptySeq
<1>5. /\ r \in Seq(Frame) /\ Len(r) = Len(m) + 1
      /\ \A k \in 1..Len(m) : r[k] = m[k]
      /\ r[Len(m) + 1] = NewFrame(q)
  BY <1>1, <1>2, <1>3, <1>4
<1>6. m[Len(m)].path \in Under(target)
  BY <1>1, <1>4 DEF Walk
<1>7. q \in Under(target) /\ q # target
  BY <1>1, <1>6, ChildIsUnder DEF TypeInv
<1>8. \A k \in 1..Len(m) : m[k].pc = "called"
  BY <1>1, <1>4 DEF Walk
<1>9. ASSUME NEW k \in 1..Len(r)
      PROVE  /\ r[k].path \in Under(target)
             /\ k = 1 <=> r[k].path = target
             /\ k < Len(r) => r[k].pc = "called"
  <2>1. CASE k \in 1..Len(m)
    BY <2>1, <1>1, <1>5, <1>8 DEF Walk
  <2>2. CASE k = Len(m) + 1
    <3>1. r[k].path = q
      BY <2>2, <1>5 DEF NewFrame
    <3>2. k # 1 /\ ~(k < Len(r))
      BY <2>2, <1>4, <1>5
    <3>3. QED
      BY <3>1, <3>2, <1>7
  <2>3. QED
    BY <2>1, <2>2, <1>4, <1>5
<1>10. Walk(r)
  BY <1>9 DEF Walk
<1>11. 1 \in 1..Len(m) /\ Len(r) = Len(m) + 1
  BY <1>4, <1>5
<1>12. r[1].pc = "called"
  BY <1>11, <1>5, <1>8
<1>13. r # <<>>
  BY <1>4, <1>5, EmptySeq
<1>14. QED
  BY <1>1, <1>4, <1>5, <1>10, <1>12, <1>13

(***************************************************************************)
(* The three ways the recursion moves                                      *)
(***************************************************************************)

\* A step within the top frame.
LEMMA TopMoves ==
  ASSUME FsInv, op \in {"rm", "ls"}, NEW f \in Frame, f.path = Top.path, SetTop(f),
         UNCHANGED <<op, target, dirs, before>>,
         tree' \in [Path -> Kind], TreeInv', tree'[target] = tree[target],
         handles' = IF op = "rm" THEN (IF f.pc = "read" THEN 1 ELSE 0)
                    ELSE (IF f.pc = "open" THEN Len(stack) - 1 ELSE Len(stack)),
         op = "rm" /\ Len(stack) = 1 /\ f.pc # "open" => before # "none"
  PROVE  FsInv'
<1>1. stack \in Seq(Frame) /\ stack # <<>> /\ Walk(stack)
  BY DEF FsInv, TypeInv, StackInv, CallInv
<1>2. Len(stack) \in Nat \ {0}
  BY <1>1, EmptySeq
<1>3. /\ stack' \in Seq(Frame) /\ stack' # <<>> /\ Len(stack') = Len(stack)
      /\ stack'[Len(stack')] = f
      /\ \A k \in 1..Len(stack) : k # Len(stack) => stack'[k] = stack[k]
      /\ Walk(stack')
  <2>1. stack' = [stack EXCEPT ![Len(stack)] = f] /\ f.path = stack[Len(stack)].path
    BY DEF SetTop, Top
  <2>2. \A r : r = [stack EXCEPT ![Len(stack)] = f] =>
          /\ r \in Seq(Frame) /\ r # <<>> /\ Len(r) = Len(stack)
          /\ r[Len(r)] = f
          /\ \A k \in 1..Len(stack) : k # Len(stack) => r[k] = stack[k]
          /\ Walk(r)
    BY <1>1, <2>1, TopReplaced, Zenon
  <2>3. QED
    BY <2>1, <2>2, Zenon
<1>4. TypeInv'
  <2>1. handles' \in Nat
    BY <1>2
  <2>2. QED
    BY <2>1, <1>3 DEF FsInv, TypeInv
<1>5. StackInv'
  BY <1>3 DEF StackInv, Walk
<1>6. CallInv'
  BY <1>3, <1>4 DEF FsInv, CallInv, Top, TypeInv
<1>7. TargetInv'
  <2>1. CASE Len(stack) = 1
    BY <2>1, <1>3 DEF FsInv, TargetInv
  <2>2. CASE Len(stack) # 1
    <3>1. 1 \in 1..Len(stack) /\ 1 # Len(stack)
      BY <2>2, <1>2
    <3>2. stack'[1] = stack[1]
      BY <3>1, <1>3
    <3>3. QED
      BY <3>2 DEF FsInv, TargetInv
  <2>3. QED
    BY <2>1, <2>2
<1>8. op' # "idle"
  OBVIOUS
<1>9. QED
  BY <1>4, <1>5, <1>6, <1>7, <1>8
  DEF FsInv, RemovalVerdictIsTrue, Returned

\* The call for a subdirectory.
LEMMA SubdirCalled ==
  ASSUME FsInv, op \in {"rm", "ls"}, Top.pc # "open",
         NEW f \in Frame, f.path = Top.path, f.pc = "called",
         NEW q \in Path, Front(q) = Top.path,
         stack' = Append([stack EXCEPT ![Len(stack)] = f], NewFrame(q)),
         UNCHANGED <<op, target, dirs, before, tree>>,
         handles' = IF op = "rm" THEN 0 ELSE Len(stack)
  PROVE  FsInv'
<1>1. stack \in Seq(Frame) /\ stack # <<>> /\ Walk(stack)
  BY DEF FsInv, TypeInv, StackInv, CallInv
<1>2. Len(stack) \in Nat \ {0}
  BY <1>1, EmptySeq
<1>3. /\ stack' \in Seq(Frame) /\ stack' # <<>> /\ Len(stack') = Len(stack) + 1
      /\ stack'[Len(stack')] = NewFrame(q)
      /\ stack'[1].pc = "called"
      /\ Walk(stack')
  BY <1>1, FramePushed DEF FsInv, Top
<1>4. TypeInv'
  <2>1. handles' \in Nat
    BY <1>2
  <2>2. QED
    BY <2>1, <1>3 DEF FsInv, TypeInv
<1>5. StackInv'
  BY <1>3 DEF StackInv, Walk
<1>6. CallInv'
  <2>1. Top'.pc = "open" /\ Len(stack') - 1 = Len(stack)
    BY <1>2, <1>3 DEF Top, NewFrame
  <2>2. QED
    BY <2>1, <1>3, <1>4 DEF FsInv, CallInv, TypeInv
<1>7. TargetInv'
  <2>1. CASE Len(stack) = 1
    <3>1. stack[1].pc # "open"
      BY <2>1 DEF Top
    <3>2. QED
      BY <3>1 DEF FsInv, TargetInv
  <2>2. CASE Len(stack) # 1
    <3>1. \A n \in Nat \ {0} : n # 1 => 1 \in 1..n /\ 1 < n
      BY SMT
    <3>2. stack[1].pc # "open"
      BY <2>2, <3>1, <1>1, <1>2 DEF Walk
    <3>3. QED
      BY <3>2 DEF FsInv, TargetInv
  <2>3. QED
    BY <2>1, <2>2
<1>8. TreeInv'
  BY DEF FsInv, TreeInv, IsDir
<1>9. op' # "idle"
  OBVIOUS
<1>10. QED
  BY <1>4, <1>5, <1>6, <1>7, <1>8, <1>9
  DEF FsInv, RemovalVerdictIsTrue, Returned

\* A return, to the calling frame or to the caller of fs_rm_rf.
LEMMA FrameReturns ==
  ASSUME FsInv, op \in {"rm", "ls"}, NEW r, Return(r),
         UNCHANGED <<target, dirs, before>>,
         tree' \in [Path -> Kind], TreeInv',
         handles' = IF op = "rm" THEN 0 ELSE Len(stack) - 1,
         op = "rm" /\ Len(stack) # 1 => tree'[target] = tree[target],
         op = "rm" /\ Len(stack) = 1 =>
           (r = "0" <=> before # "none" /\ \A q \in Under(target) : tree'[q] = "none")
  PROVE  FsInv'
<1>1. stack \in Seq(Frame) /\ stack # <<>> /\ Walk(stack)
  BY DEF FsInv, TypeInv, StackInv, CallInv
<1>2. /\ stack' \in Seq(Frame) /\ Len(stack) \in Nat \ {0} /\ Len(stack') = Len(stack) - 1
      /\ stack' = <<>> <=> Len(stack) = 1
      /\ stack' # <<>> => stack'[Len(stack')].pc = "called" /\ stack'[1] = stack[1]
      /\ Walk(stack')
  BY <1>1, FramePopped DEF Return
<1>3. op' = (IF Len(stack) = 1 THEN "idle" ELSE op) /\ last' = op /\ ret' = r
  BY DEF Return
<1>4. TypeInv'
  <2>1. handles' \in Nat
    BY <1>2
  <2>2. op' \in {"idle", "rm", "ls"}
    BY <1>3
  <2>3. QED
    BY <2>1, <2>2, <1>2 DEF FsInv, TypeInv
<1>5. StackInv'
  BY <1>2, <1>3 DEF StackInv, Walk
<1>6. CallInv'
  <2>1. CASE Len(stack) = 1
    <3>1. handles' = 0 /\ op' = "idle"
      BY <2>1, <1>3
    <3>2. QED
      BY <3>1 DEF FsInv, CallInv
  <2>2. CASE Len(stack) # 1
    BY <2>2, <1>2, <1>3 DEF FsInv, CallInv, Top
  <2>3. QED
    BY <2>1, <2>2
<1>7. TargetInv'
  BY <1>2, <1>3 DEF FsInv, TargetInv
<1>8. RemovalVerdictIsTrue'
  BY <1>3 DEF RemovalVerdictIsTrue, Returned
<1>9. QED
  BY <1>4, <1>5, <1>6, <1>7, <1>8 DEF FsInv

(***************************************************************************)
(* fs_rm_rf and lsdir_recursive                                            *)
(***************************************************************************)

LEMMA TopIsBelow ==
  ASSUME FsInv, op \in {"rm", "ls"}
  PROVE  /\ stack # <<>> /\ Len(stack) \in Nat \ {0}
         /\ Top \in Frame /\ Top.path \in Path /\ Top.path \in Under(target)
         /\ Len(stack) = 1 <=> Top.path = target
         /\ Len(stack) = 1 => Top = stack[1]
<1>1. stack \in Seq(Frame) /\ stack # <<>> /\ Walk(stack)
  BY DEF FsInv, TypeInv, StackInv, CallInv
<1>2. Len(stack) \in Nat \ {0} /\ Len(stack) \in 1..Len(stack)
  BY <1>1, EmptySeq
<1>3. Top \in Frame
  BY <1>1, <1>2, ElementOfSeq DEF Top
<1>4. Top.path \in Under(target) /\ (Len(stack) = 1 <=> Top.path = target)
  BY <1>1, <1>2 DEF Walk, Top
<1>5. QED
  BY <1>1, <1>2, <1>3, <1>4 DEF Frame, Top

LEMMA TargetIsThere ==
  ASSUME FsInv
  PROVE  target \in Path /\ target # <<>> /\ target \in Under(target)
BY TargetIsUnder, PathAssumption DEF FsInv, TypeInv

\* What is removed has nothing in it.
LEMMA Removed ==
  ASSUME TypeInv, TreeInv, NEW p \in Path, Children(p) = {},
         tree' = [tree EXCEPT ![p] = "none"]
  PROVE  /\ tree' \in [Path -> Kind] /\ TreeInv'
         /\ tree'[p] = "none"
         /\ \A q \in Path : q # p => tree'[q] = tree[q]
<1>1. tree' \in [Path -> Kind]
  BY DEF TypeInv, Kind
<1>2. tree'[p] = "none" /\ \A q \in Path : q # p => tree'[q] = tree[q]
  BY DEF TypeInv
<1>3. ASSUME NEW q \in Path, tree'[q] # "none" PROVE IsDir(Front(q))'
  <2>1. q # p /\ tree[q] # "none"
    BY <1>2, <1>3
  <2>2. IsDir(Front(q)) /\ Front(q) # p
    BY <2>1 DEF TreeInv, Children
  <2>3. QED
    BY <2>2, <1>2 DEF IsDir
<1>4. QED
  BY <1>1, <1>2, <1>3 DEF TreeInv

LEMMA FileHasNoChildren ==
  ASSUME TreeInv, NEW p \in Path, tree[p] # "dir"
  PROVE  Children(p) = {}
BY PathAssumption DEF TreeInv, Children, IsDir

LEMMA OpenDirKeeps ==
  ASSUME FsInv, OpenDir
  PROVE  FsInv'
<1>1. op \in {"rm", "ls"} /\ Top.pc = "open"
  BY DEF OpenDir, At
<1>2. UNCHANGED <<tree, target, dirs, before>>
  BY DEF OpenDir, InRecursion, write_vars
<1>3. tree' \in [Path -> Kind] /\ TreeInv'
  BY <1>2 DEF FsInv, TypeInv, TreeInv, IsDir
<1>4. handles = IF op = "rm" THEN 0 ELSE Len(stack) - 1
  BY <1>1 DEF FsInv, CallInv
<1>5. CASE /\ IsDir(Top.path)
           /\ SetTop([Top EXCEPT !.pc = "read", !.seen = {}])
           /\ handles' = handles + 1
           /\ UNCHANGED <<op, ret, last>>
  <2> DEFINE f == [Top EXCEPT !.pc = "read", !.seen = {}]
  <2>1. f \in Frame /\ f.path = Top.path /\ f.pc = "read"
    BY <1>1, TopIsBelow DEF Frame
  <2>2. op = "rm" /\ Len(stack) = 1 => before # "none"
    BY <1>1, <1>5, TopIsBelow, TargetIsThere DEF FsInv, TargetInv, IsDir
  <2>3. handles' = IF op = "rm" THEN 1 ELSE Len(stack)
    BY <1>1, <1>4, <1>5, TopIsBelow
  <2>4. SetTop(f)
    BY <1>5
  <2> HIDE DEF f
  <2>5. QED
    BY <1>1, <1>2, <1>3, <1>5, <2>1, <2>2, <2>3, <2>4, TopMoves
<1>6. CASE Return("error") /\ UNCHANGED handles
  <2>1. op = "rm" => ~(before # "none" /\ \A q \in Under(target) : tree'[q] = "none")
    BY <1>2, TargetIsThere DEF FsInv, TargetInv
  <2>2. QED
    BY <1>1, <1>2, <1>3, <1>4, <1>6, <2>1, FrameReturns
<1>7. QED
  BY <1>5, <1>6 DEF OpenDir

LEMMA RemoveSubdirKeeps ==
  ASSUME FsInv, RemoveSubdir
  PROVE  FsInv'
<1>1. op = "rm" /\ Top.pc = "read"
  BY DEF RemoveSubdir, At
<1>2. UNCHANGED <<tree, op, target, dirs, before>> /\ handles' = 0
  BY <1>1 DEF RemoveSubdir, InRecursion, write_vars, FsInv, CallInv, ClosedBefore
<1> DEFINE f == [Top EXCEPT !.pc = "called"]
<1>3. f \in Frame /\ f.path = Top.path /\ f.pc = "called"
  BY <1>1, TopIsBelow DEF Frame
<1>4. PICK q \in Path : /\ Front(q) = Top.path
                        /\ stack' = Append([stack EXCEPT ![Len(stack)] = f], NewFrame(q))
  BY DEF RemoveSubdir, Unread, Entries, Children, Top
<1> HIDE DEF f
<1>5. QED
  BY <1>1, <1>2, <1>3, <1>4, SubdirCalled

LEMMA RemoveFileKeeps ==
  ASSUME FsInv, RemoveFile
  PROVE  FsInv'
<1>1. op = "rm" /\ Top.pc = "read"
  BY DEF RemoveFile, At
<1>2. UNCHANGED <<op, handles, target, dirs, before>>
  BY DEF RemoveFile, InRecursion, write_vars
<1>3. PICK q \in Children(Top.path) :
        /\ tree[q] \in {"partial", "whole"}
        /\ tree' = [tree EXCEPT ![q] = "none"] \/ UNCHANGED tree
        /\ SetTop([Top EXCEPT !.seen = @ \cup {q}])
  BY DEF RemoveFile, Unread, Entries
<1>4. q \in Path /\ Front(q) = Top.path
  BY DEF Children
<1>5. q # target
  BY <1>1, <1>4, TopIsBelow, ChildIsUnder, TargetIsThere
<1>6. tree' \in [Path -> Kind] /\ TreeInv' /\ tree'[target] = tree[target]
  <2>1. CASE UNCHANGED tree
    BY <2>1 DEF FsInv, TypeInv, TreeInv, IsDir
  <2>2. CASE tree' = [tree EXCEPT ![q] = "none"]
    <3>1. Children(q) = {}
      BY <1>3, <1>4, FileHasNoChildren DEF FsInv
    <3>2. QED
      BY <2>2, <3>1, <1>4, <1>5, Removed, TargetIsThere DEF FsInv
  <2>3. QED
    BY <1>3, <2>1, <2>2
<1> DEFINE f == [Top EXCEPT !.seen = @ \cup {q}]
<1>7. f \in Frame /\ f.path = Top.path /\ f.pc = "read"
  BY <1>1, <1>4, TopIsBelow DEF Frame
<1>8. Len(stack) = 1 => before # "none"
  BY <1>1, TopIsBelow DEF FsInv, TargetInv
<1>9. handles' = 1 /\ SetTop(f)
  BY <1>1, <1>2, <1>3 DEF FsInv, CallInv
<1> HIDE DEF f
<1>10. QED
  BY <1>1, <1>2, <1>6, <1>7, <1>8, <1>9, TopMoves

LEMMA SubdirRemovedKeeps ==
  ASSUME FsInv, SubdirRemoved
  PROVE  FsInv'
<1>1. op = "rm" /\ Top.pc = "called"
  BY DEF SubdirRemoved, At
<1>2. UNCHANGED <<tree, handles, target, dirs, before>>
  BY DEF SubdirRemoved, InRecursion, write_vars
<1>3. tree' \in [Path -> Kind] /\ TreeInv' /\ tree'[target] = tree[target]
  BY <1>2 DEF FsInv, TypeInv, TreeInv, IsDir
<1>4. handles' = 0
  BY <1>1, <1>2 DEF FsInv, CallInv
<1>5. CASE ret # "0" /\ Return(ret)
  <2>1. ~(before # "none" /\ \A q \in Under(target) : tree'[q] = "none")
    BY <1>1, <1>2, TargetIsThere DEF FsInv, TargetInv
  <2>2. QED
    BY <1>1, <1>2, <1>3, <1>4, <1>5, <2>1, FrameReturns
<1>6. CASE SetTop([Top EXCEPT !.pc = "open"]) /\ UNCHANGED <<op, ret, last>>
  <2> DEFINE f == [Top EXCEPT !.pc = "open"]
  <2>1. f \in Frame /\ f.path = Top.path /\ f.pc = "open" /\ SetTop(f)
    BY <1>1, <1>6, TopIsBelow DEF Frame
  <2> HIDE DEF f
  <2>2. QED
    BY <1>1, <1>2, <1>3, <1>4, <1>6, <2>1, TopMoves
<1>7. QED
  BY <1>5, <1>6 DEF SubdirRemoved, GivesUp

LEMMA RemoveDirKeeps ==
  ASSUME FsInv, RemoveDir
  PROVE  FsInv'
<1>1. op = "rm" /\ Top.pc = "read"
  BY DEF RemoveDir, At
<1>2. UNCHANGED <<target, dirs, before>> /\ handles' = 0
  BY <1>1 DEF RemoveDir, InRecursion, write_vars, FsInv, CallInv
<1>3. Len(stack) = 1 => before # "none"
  BY <1>1, TopIsBelow DEF FsInv, TargetInv
<1>4. CASE /\ Children(Top.path) = {}
           /\ tree' = [tree EXCEPT ![Top.path] = "none"]
           /\ Return("0")
  <2>1. /\ tree' \in [Path -> Kind] /\ TreeInv'
        /\ tree'[Top.path] = "none"
        /\ \A q \in Path : q # Top.path => tree'[q] = tree[q]
    BY <1>1, <1>4, TopIsBelow, Removed DEF FsInv
  <2>2. Len(stack) # 1 => tree'[target] = tree[target]
    BY <1>1, <2>1, TopIsBelow, TargetIsThere
  <2>3. ASSUME Len(stack) = 1, NEW q \in Under(target) PROVE tree'[q] = "none"
    <3>1. Top.path = target
      BY <1>1, <2>3, TopIsBelow
    <3>2. q # target => tree[q] = "none"
      BY <1>4, <3>1, EmptyDirIsAll, TargetIsThere DEF FsInv
    <3>3. QED
      BY <2>1, <3>1, <3>2 DEF Under
  <2>4. QED
    BY <1>1, <1>2, <1>3, <1>4, <2>1, <2>2, <2>3, FrameReturns
<1>5. CASE UNCHANGED tree /\ Return("error")
  <2>1. tree' \in [Path -> Kind] /\ TreeInv' /\ tree'[target] = tree[target]
    BY <1>5 DEF FsInv, TypeInv, TreeInv, IsDir
  <2>2. ~(before # "none" /\ \A q \in Under(target) : tree'[q] = "none")
    BY <1>1, <2>1, TargetIsThere DEF FsInv, TargetInv
  <2>3. QED
    BY <1>1, <1>2, <1>5, <2>1, <2>2, FrameReturns
<1>6. QED
  BY <1>4, <1>5 DEF RemoveDir, ReturnsUnlink

LEMMA ListEntryKeeps ==
  ASSUME FsInv, ListEntry
  PROVE  FsInv'
<1>1. op = "ls" /\ Top.pc = "read"
  BY DEF ListEntry, At
<1>2. UNCHANGED <<tree, op, handles, target, dirs, before>>
  BY DEF ListEntry, InRecursion, write_vars
<1>3. tree' \in [Path -> Kind] /\ TreeInv' /\ tree'[target] = tree[target]
  BY <1>2 DEF FsInv, TypeInv, TreeInv, IsDir
<1>4. handles' = Len(stack)
  BY <1>1, <1>2 DEF FsInv, CallInv
<1>5. PICK q \in Children(Top.path) :
        \/ SetTop([Top EXCEPT !.seen = @ \cup {q}])
        \/ stack' = Append([stack EXCEPT ![Len(stack)] =
                             [[Top EXCEPT !.seen = @ \cup {q}] EXCEPT !.pc = "called"]],
                           NewFrame(q))
  BY DEF ListEntry, Unread, Entries
<1>6. q \in Path /\ Front(q) = Top.path
  BY DEF Children
<1> DEFINE f == [Top EXCEPT !.seen = @ \cup {q}]
<1> DEFINE g == [f EXCEPT !.pc = "called"]
<1>7. f \in Frame /\ f.path = Top.path /\ f.pc = "read"
  BY <1>1, <1>6, TopIsBelow DEF Frame
<1>8. g \in Frame /\ g.path = Top.path /\ g.pc = "called"
  BY <1>7 DEF Frame
<1>9. CASE SetTop(f)
  <2> HIDE DEF f
  <2>1. QED
    BY <1>1, <1>2, <1>3, <1>4, <1>7, <1>9, TopMoves
<1>10. CASE stack' = Append([stack EXCEPT ![Len(stack)] = g], NewFrame(q))
  <2> HIDE DEF g
  <2>1. QED
    BY <1>1, <1>2, <1>4, <1>6, <1>8, <1>10, SubdirCalled
<1>11. QED
  BY <1>5, <1>9, <1>10

LEMMA SubdirListedKeeps ==
  ASSUME FsInv, SubdirListed
  PROVE  FsInv'
<1>1. op = "ls" /\ Top.pc = "called"
  BY DEF SubdirListed, At
<1>2. UNCHANGED <<tree, op, handles, target, dirs, before>>
  BY DEF SubdirListed, InRecursion, write_vars
<1>3. tree' \in [Path -> Kind] /\ TreeInv' /\ tree'[target] = tree[target]
  BY <1>2 DEF FsInv, TypeInv, TreeInv, IsDir
<1> DEFINE f == [Top EXCEPT !.pc = "read"]
<1>4. f \in Frame /\ f.path = Top.path /\ f.pc = "read" /\ SetTop(f)
  BY <1>1, TopIsBelow DEF Frame, SubdirListed
<1>5. handles' = Len(stack)
  BY <1>1, <1>2 DEF FsInv, CallInv
<1> HIDE DEF f
<1>6. QED
  BY <1>1, <1>2, <1>3, <1>4, <1>5, TopMoves

LEMMA ListEndsKeeps ==
  ASSUME FsInv, ListEnds
  PROVE  FsInv'
<1>1. op = "ls" /\ Top.pc = "read"
  BY DEF ListEnds, At
<1>2. UNCHANGED <<tree, target, dirs, before>> /\ handles' = Len(stack) - 1 /\ Return("0")
  BY <1>1 DEF ListEnds, InRecursion, write_vars, FsInv, CallInv
<1>3. tree' \in [Path -> Kind] /\ TreeInv'
  BY <1>2 DEF FsInv, TypeInv, TreeInv, IsDir
<1>4. QED
  BY <1>1, <1>2, <1>3, FrameReturns

(***************************************************************************)
(* mkdir_dir, write_config, config_fs_init                                 *)
(***************************************************************************)

\* These are not recursive: the stack is empty.
LEMMA NoStack ==
  ASSUME FsInv, op \notin {"rm", "ls"}
  PROVE  stack = <<>>
BY DEF FsInv, StackInv

LEMMA MakeLevelKeeps ==
  ASSUME FsInv, MakeLevel
  PROVE  FsInv'
<1>1. dirs # <<>> /\ CanMake(Level)
  BY DEF MakeLevel, AtLevel
<1>2. op \in {"mkdir", "write", "init"} /\ handles = 0 /\ stack = <<>>
  BY <1>1, NoStack DEF FsInv, TypeInv, CallInv
<1>3. UNCHANGED <<op, target, before, dirs, stack, handles>>
  BY DEF MakeLevel, call_vars, write_vars
<1>4. \A p \in Path : tree'[p] = IF p = Level /\ tree[p] = "none" THEN "dir" ELSE tree[p]
  BY DEF MakeLevel, Missing
<1>5. tree' \in [Path -> Kind]
  BY DEF MakeLevel, Missing, FsInv, TypeInv, Kind
<1>6. \A d : IsDir(d) => IsDir(d)'
  BY <1>4 DEF IsDir
<1>7. ASSUME NEW p \in Path, tree'[p] # "none" PROVE IsDir(Front(p))'
  <2>1. CASE tree[p] # "none"
    BY <2>1, <1>6 DEF FsInv, TreeInv
  <2>2. CASE tree[p] = "none"
    <3>1. p = Level
      BY <2>2, <1>4, <1>7
    <3>2. IsDir(Front(Level))
      BY <2>2, <3>1, <1>1 DEF CanMake, AlreadyThere, Missing
    <3>3. QED
      BY <3>1, <3>2, <1>6
  <2>3. QED
    BY <2>1, <2>2
<1>8. TreeInv'
  BY <1>7 DEF TreeInv
<1>9. TypeInv' /\ StackInv' /\ CallInv' /\ TargetInv'
  BY <1>1, <1>2, <1>3, <1>5 DEF FsInv, TypeInv, StackInv, CallInv, TargetInv
<1>10. QED
  BY <1>2, <1>3, <1>8, <1>9 DEF FsInv, RemovalVerdictIsTrue, Returned

LEMMA MkdirDirReturnsKeeps ==
  ASSUME FsInv, dirs # <<>>, NEW r, MkdirDirReturns(r)
  PROVE  FsInv'
<1>1. op \in {"mkdir", "write", "init"} /\ handles = 0 /\ stack = <<>>
  BY NoStack DEF FsInv, TypeInv, CallInv
<1>2. UNCHANGED <<tree, stack, handles, target, before>> /\ dirs' = Tail(dirs)
  BY DEF MkdirDirReturns, write_vars
<1>3. dirs' \in Seq(Seq(Component)) /\ Len(dirs) \in Nat \ {0} /\ Len(dirs') = Len(dirs) - 1
  BY <1>2, HeadTailProperties, EmptySeq DEF FsInv, TypeInv
<1>4. Len(dirs) = 1 => dirs' = <<>>
  BY <1>3, EmptySeq
<1>5. op \in {"mkdir", "write"} => Len(dirs) = 1
  BY <1>3 DEF FsInv, CallInv
<1>6. TreeInv'
  BY <1>2 DEF FsInv, TreeInv, IsDir
<1>7. CASE op' = "idle" /\ last' = op /\ dirs' = <<>> /\ (op = "write" => ret' # "0")
  <2>1. TypeInv' /\ StackInv' /\ CallInv' /\ TargetInv'
    BY <1>1, <1>2, <1>3, <1>7 DEF FsInv, TypeInv, StackInv, CallInv, TargetInv
  <2>2. QED
    BY <1>1, <1>6, <1>7, <2>1 DEF FsInv, RemovalVerdictIsTrue, Returned
<1>8. CASE op' = op
  <2>1. Len(dirs') <= Len(dirs)
    BY <1>3
  <2>2. TypeInv' /\ StackInv' /\ TargetInv'
    BY <1>1, <1>2, <1>3, <1>8 DEF FsInv, TypeInv, StackInv, TargetInv
  <2>3. CallInv'
    <3>1. op = "write" => dirs' = <<>> /\ Len(dirs') <= 1
      BY <1>3, <1>4, <1>5
    <3>2. op = "mkdir" => Len(dirs') <= 1
      BY <1>4, <1>5
    <3>3. QED
      BY <1>1, <1>2, <1>8, <3>1, <3>2 DEF FsInv, CallInv
  <2>4. QED
    BY <1>1, <1>6, <1>8, <2>2, <2>3 DEF FsInv, RemovalVerdictIsTrue, Returned
<1>9. QED
  BY <1>1, <1>4, <1>5, <1>7, <1>8 DEF MkdirDirReturns, Finish

LEMMA OpenForWritingKeeps ==
  ASSUME FsInv, OpenForWriting
  PROVE  FsInv'
<1>1. op = "write" /\ dirs = <<>> /\ handles = 0 /\ stack = <<>>
  BY NoStack DEF OpenForWriting
<1>2. UNCHANGED <<dirs, stack, target, before>>
  BY DEF OpenForWriting, write_vars
<1>3. CASE /\ IsDir(Front(target)) /\ tree[target] # "dir"
           /\ tree' = [tree EXCEPT ![target] = "partial"]
           /\ handles' = 1
           /\ op' = op
  <2>1. /\ tree' \in [Path -> Kind] /\ tree'[target] = "partial"
        /\ \A q \in Path : q # target => tree'[q] = tree[q]
    BY <1>3 DEF FsInv, TypeInv, Kind
  <2>2. \A d : IsDir(d) => IsDir(d)'
    BY <1>3, <2>1, TargetIsThere DEF IsDir
  <2>3. TreeInv'
    BY <1>3, <2>1, <2>2 DEF FsInv, TreeInv
  <2>4. TypeInv' /\ StackInv' /\ CallInv' /\ TargetInv'
    BY <1>1, <1>2, <1>3, <2>1 DEF FsInv, TypeInv, StackInv, CallInv, TargetInv
  <2>5. QED
    BY <1>1, <1>3, <2>3, <2>4 DEF FsInv, RemovalVerdictIsTrue, Returned
<1>4. CASE Finish("error") /\ UNCHANGED <<tree, handles>>
  <2>1. TreeInv'
    BY <1>4 DEF FsInv, TreeInv, IsDir
  <2>2. TypeInv' /\ StackInv' /\ CallInv' /\ TargetInv'
    BY <1>1, <1>2, <1>4 DEF Finish, FsInv, TypeInv, StackInv, CallInv, TargetInv
  <2>3. QED
    BY <1>1, <1>4, <2>1, <2>2
    DEF Finish, FsInv, RemovalVerdictIsTrue, Returned
<1>5. QED
  BY <1>3, <1>4 DEF OpenForWriting

LEMMA WriteContentKeeps ==
  ASSUME FsInv, WriteContent
  PROVE  FsInv'
<1>1. /\ op' = "write" /\ UNCHANGED <<tree, dirs, stack, handles, op, target, before>>
  BY DEF WriteContent
<1>2. TreeInv' /\ TypeInv' /\ StackInv' /\ CallInv' /\ TargetInv'
  BY <1>1, NoStack DEF WriteContent, FsInv, TreeInv, IsDir, TypeInv, StackInv, CallInv, TargetInv
<1>3. QED
  BY <1>1, <1>2 DEF FsInv, RemovalVerdictIsTrue, Returned

LEMMA CloseFileKeeps ==
  ASSUME FsInv, CloseFile
  PROVE  FsInv'
<1>1. op = "write" /\ handles = 1 /\ stack = <<>>
  BY NoStack DEF CloseFile
<1>2. dirs = <<>> /\ tree[target] = "partial"
  BY <1>1 DEF FsInv, CallInv
<1>3. /\ UNCHANGED <<dirs, stack, target, before>>
      /\ handles' = 0 /\ op' = "idle" /\ last' = "write"
  BY <1>1 DEF CloseFile, Finish
<1>4. \E v \in {"partial", "whole"} : tree' = [tree EXCEPT ![target] = v]
  <2>1. tree = [tree EXCEPT ![target] = "partial"]
    BY <1>2 DEF FsInv, TypeInv
  <2>2. QED
    BY <2>1 DEF CloseFile
<1>5. /\ tree' \in [Path -> Kind]
      /\ \A q \in Path : q # target => tree'[q] = tree[q]
      /\ tree'[target] \in {"partial", "whole"}
  BY <1>4 DEF FsInv, TypeInv, Kind
<1>6. \A d : IsDir(d) => IsDir(d)'
  BY <1>2, <1>5, TargetIsThere DEF IsDir
<1>7. TreeInv'
  BY <1>2, <1>5, <1>6 DEF FsInv, TreeInv
<1>8. TypeInv' /\ StackInv' /\ CallInv' /\ TargetInv'
  BY <1>1, <1>2, <1>3, <1>5 DEF FsInv, TypeInv, StackInv, CallInv, TargetInv
<1>9. QED
  BY <1>3, <1>7, <1>8 DEF FsInv, RemovalVerdictIsTrue, Returned

(***************************************************************************)
(* Calls and power cuts                                                    *)
(***************************************************************************)

LEMMA CallKeeps ==
  ASSUME FsInv, Call
  PROVE  FsInv'
<1>1. /\ op = "idle" /\ stack = <<>> /\ dirs = <<>> /\ handles = 0
      /\ UNCHANGED <<tree, handles>>
  BY NoStack DEF FsInv, CallInv, Call, Begin, fs_rm_rf, lsdir_recursive, mkdir_dir,
                 write_config, config_fs_init
<1>2. TreeInv'
  BY <1>1 DEF FsInv, TreeInv, IsDir
<1>3. /\ op' \in {"rm", "ls", "mkdir", "write", "init"} /\ target' \in Path
      /\ before' = tree[target']
      /\ op' = "write" => target' \in CONFIGS
  BY PathAssumption DEF Call, Begin, fs_rm_rf, lsdir_recursive, mkdir_dir,
                        write_config, config_fs_init
<1>4. CASE op' \in {"rm", "ls"} /\ stack' = <<NewFrame(target')>> /\ dirs' = dirs
  <2>1. NewFrame(target') \in Frame /\ stack'[1] = NewFrame(target') /\ Len(stack') = 1
    BY <1>3, <1>4 DEF NewFrame, Frame
  <2>2. TypeInv'
    BY <1>1, <1>3, <1>4, <2>1 DEF FsInv, TypeInv
  <2>3. stack'[1].path = target' /\ stack'[1].pc = "open"
    BY <2>1 DEF NewFrame
  <2>4. target' \in Under(target')
    BY <1>3, TargetIsUnder
  <2>5. StackInv'
    BY <1>4, <2>1, <2>3, <2>4 DEF StackInv, Walk
  <2>6. CallInv' /\ TargetInv'
    BY <1>1, <1>3, <1>4, <2>1, <2>3 DEF CallInv, TargetInv, Top
  <2>7. QED
    BY <1>2, <1>4, <2>2, <2>5, <2>6 DEF FsInv, RemovalVerdictIsTrue, Returned
<1>5. CASE /\ op' \in {"mkdir", "write", "init"} /\ stack' = stack
           /\ dirs' \in Seq(Seq(Component))
           /\ op' \in {"mkdir", "write"} => Len(dirs') <= 1
  <2>1. TypeInv' /\ StackInv' /\ CallInv' /\ TargetInv'
    BY <1>1, <1>3, <1>5 DEF FsInv, TypeInv, StackInv, CallInv, TargetInv
  <2>2. QED
    BY <1>2, <1>5, <2>1 DEF FsInv, RemovalVerdictIsTrue, Returned
<1>6. ASSUME NEW p \in Path, fs_rm_rf(p) \/ lsdir_recursive(p) PROVE FsInv'
  BY <1>4, <1>6 DEF fs_rm_rf, lsdir_recursive, Begin
<1>7. ASSUME NEW p \in Path, mkdir_dir(p) PROVE FsInv'
  BY <1>5, <1>7, PathIsSeq DEF mkdir_dir, Begin
<1>8. ASSUME NEW p \in CONFIGS, write_config(p) PROVE FsInv'
  <2>1. Front(p) \in Seq(Component)
    BY PathAssumption, PathIsSeq, FrontOf
  <2>2. QED
    BY <1>5, <1>8, <2>1 DEF write_config, Begin
<1>9. CASE config_fs_init
  <2>1. IMAGES \in Seq(Component) /\ STAGING \in Seq(Component)
    BY PathAssumption, PathIsSeq
  <2>2. QED
    BY <1>5, <1>9, <2>1 DEF config_fs_init, Begin
<1>10. QED
  BY <1>6, <1>7, <1>8, <1>9 DEF Call

LEMMA PowerCutKeeps ==
  ASSUME FsInv, PowerCut
  PROVE  FsInv'
<1>1. /\ op' = "idle" /\ last' = "none" /\ stack' = <<>> /\ dirs' = <<>> /\ handles' = 0
      /\ UNCHANGED <<tree, target, before>>
  BY DEF PowerCut
<1>2. TreeInv'
  BY <1>1 DEF FsInv, TreeInv, IsDir
<1>3. TypeInv' /\ StackInv' /\ CallInv' /\ TargetInv'
  BY <1>1 DEF FsInv, TypeInv, StackInv, CallInv, TargetInv
<1>4. QED
  BY <1>1, <1>2, <1>3 DEF FsInv, RemovalVerdictIsTrue, Returned

(***************************************************************************)
(* The theorems                                                            *)
(***************************************************************************)

LEMMA FsInvHolds ==
  Spec => []FsInv
<1>1. Init => FsInv
  <2> SUFFICES ASSUME Init PROVE FsInv
    OBVIOUS
  <2>1. TypeInv
    <3>1. tree \in [Path -> Kind]
      BY DEF Init, Kind
    <3>2. target \in Path
      BY PathAssumption DEF Init
    <3>3. stack \in Seq(Frame) /\ dirs \in Seq(Seq(Component))
      BY EmptySeq DEF Init
    <3>4. QED
      BY <3>1, <3>2, <3>3 DEF Init, TypeInv, Kind
  <2>2. TreeInv
    BY DEF Init, TreeInv
  <2>3. QED
    BY <2>1, <2>2 DEF Init, FsInv, StackInv, CallInv, TargetInv, RemovalVerdictIsTrue,
                      Returned
<1>2. FsInv /\ [Next]_vars => FsInv'
  <2> SUFFICES ASSUME FsInv, [Next]_vars PROVE FsInv'
    OBVIOUS
  <2>1. CASE Step
    <3>1. CASE MakeFails \/ MakeDone
      BY <3>1, MkdirDirReturnsKeeps DEF MakeFails, MakeDone, AtLevel
    <3>2. QED
      BY <2>1, <3>1, OpenDirKeeps, RemoveSubdirKeeps, RemoveFileKeeps, SubdirRemovedKeeps,
         RemoveDirKeeps, ListEntryKeeps, SubdirListedKeeps, ListEndsKeeps, MakeLevelKeeps,
         OpenForWritingKeeps, WriteContentKeeps, CloseFileKeeps DEF Step
  <2>2. CASE UNCHANGED vars
    <3>1. /\ UNCHANGED <<tree, op, target, stack, dirs, handles>>
          /\ UNCHANGED <<before, last, ret>>
      BY <2>2 DEF vars, call_vars, write_vars
    <3>2. TypeInv' /\ StackInv' /\ CallInv' /\ TargetInv'
      BY <3>1 DEF FsInv, TypeInv, StackInv, Walk, CallInv, Top, TargetInv
    <3>3. TreeInv' /\ RemovalVerdictIsTrue'
      BY <3>1 DEF FsInv, TreeInv, IsDir, RemovalVerdictIsTrue, Returned
    <3>4. QED
      BY <3>2, <3>3 DEF FsInv
  <2>3. QED
    BY <2>1, <2>2, CallKeeps, PowerCutKeeps DEF Next
<1>3. QED
  BY <1>1, <1>2, PTL DEF Spec

\* fs_rm_rf tells the truth however deep the tree and whatever fails on the way.
THEOREM RemovalTellsTheTruth ==
  Spec => []RemovalVerdictIsTrue
BY FsInvHolds, PTL DEF FsInv

(***************************************************************************)
(* What write_config knows of its file.  Until the file is opened it is    *)
(* what it was, because the directories made for it are above it; from     *)
(* then on it is partial until it is closed, and a short count has been    *)
(* noted as a loss.                                                        *)
(***************************************************************************)

WriteInv ==
  /\ level \in Nat
  /\ op = "write" =>
       /\ dirs \in {<<>>, <<Front(target)>>}
       /\ count \in {"none", "all", "short", "error"}
       /\ handles = 0 => tree[target] = before /\ count = "none"
       /\ count # "none" => (lost <=> count = "short")
  /\ op # "write" => count = "none"
  /\ WrittenIsWhole

\* A level of the path of a directory is not longer than it.
LEMMA LevelIsAbove ==
  ASSUME FsInv, WriteInv, op = "write", AtLevel
  PROVE  Level # target
<1>1. dirs = <<Front(target)>> /\ target \in Path
  BY DEF WriteInv, AtLevel, FsInv, TypeInv
<1>2. /\ Head(dirs) = Front(target) /\ Front(target) \in Seq(Component)
      /\ Len(target) \in Nat \ {0} /\ Len(Front(target)) = Len(target) - 1
  BY <1>1, PathIsSeq, FrontOf
<1>3. level \in 0..(Len(target) - 1)
  BY <1>2 DEF WriteInv, AtLevel
<1>4. \A i \in 1..level : Front(target)[i] \in Component
  BY <1>2, <1>3, ElementOfSeq
<1>5. Len(SubSeq(Front(target), 1, level)) = IF 1 <= level THEN level - 1 + 1 ELSE 0
  BY <1>3, <1>4, SubSeqProperties
<1>6. Len(Level) < Len(target)
  BY <1>2, <1>3, <1>5 DEF Level, Prefix
<1>7. QED
  BY <1>2, <1>6

\* The steps of write_config, and of the functions that share mkdir_dir with it.
LEMMA WritingKeepsWriteInv ==
  ASSUME FsInv, WriteInv,
         \/ MakeLevel \/ MakeFails \/ MakeDone
         \/ OpenForWriting \/ WriteContent \/ CloseFile
  PROVE  WriteInv'
<1> USE DEF WrittenIsWhole, Returned
<1>1. target \in Path /\ tree \in [Path -> Kind]
      /\ (op = "write" /\ handles # 0 => handles = 1 /\ tree[target] = "partial" /\ dirs = <<>>)
  BY DEF FsInv, TypeInv, CallInv
<1>2. CASE MakeLevel
  <2>1. /\ op \in {"mkdir", "write", "init"} /\ AtLevel /\ level' = level + 1
        /\ UNCHANGED <<op, target, last, dirs, handles, ret, count, before, lost>>
    BY <1>2, NoStack DEF MakeLevel, AtLevel, call_vars, write_vars, FsInv, TypeInv, CallInv
  <2>2. op = "write" => tree'[target] = tree[target]
    BY <1>1, <1>2, <2>1, LevelIsAbove DEF MakeLevel
  <2>3. QED
    BY <2>1, <2>2 DEF WriteInv
<1>3. ASSUME NEW r \in {"0", "error"}, dirs # <<>>, MkdirDirReturns(r) PROVE WriteInv'
  <2>1. /\ op \in {"mkdir", "write", "init"} /\ level' = 0 /\ dirs' = Tail(dirs)
        /\ UNCHANGED <<tree, target, handles, count, before, lost>>
    BY <1>3, NoStack DEF MkdirDirReturns, write_vars, FsInv, TypeInv, CallInv
  <2>2. op = "write" => handles = 0 /\ dirs' = <<>> /\ tree[target] = before /\ count = "none"
    BY <1>1, <1>3, <2>1 DEF WriteInv
  <2>3. CASE op' = op
    BY <2>1, <2>2, <2>3 DEF WriteInv, FsInv, TypeInv
  <2>4. CASE op' = "idle" /\ last' = op /\ (op = "write" => ret' # "0")
    BY <2>1, <2>2, <2>4 DEF WriteInv
  <2>5. QED
    BY <1>3, <2>1, <2>3, <2>4 DEF MkdirDirReturns, Finish
<1>4. CASE OpenForWriting
  <2>1. op = "write" /\ handles = 0 /\ tree[target] = before /\ count = "none"
        /\ UNCHANGED <<dirs, level, target, count, before, lost>>
    BY <1>4 DEF OpenForWriting, write_vars, WriteInv
  <2>2. CASE op' = op /\ handles' = 1
    BY <2>1, <2>2 DEF WriteInv
  <2>3. CASE Finish("error") /\ UNCHANGED tree
    BY <2>1, <2>3 DEF Finish, WriteInv
  <2>4. QED
    BY <1>4, <2>1, <2>2, <2>3 DEF OpenForWriting
<1>5. CASE WriteContent
  <2>1. lost' <=> count' = "short"
    BY <1>5, Zenon DEF WriteContent
  <2>2. /\ op = "write" /\ handles = 1 /\ count' \in {"none", "all", "short", "error"}
        /\ UNCHANGED <<tree, dirs, level, handles, op, target, before>>
    BY <1>5 DEF WriteContent
  <2>3. QED
    BY <2>1, <2>2 DEF WriteInv
<1>6. CASE CloseFile
  <2>1. /\ op = "write" /\ count \in {"all", "short", "error"} /\ (lost <=> count = "short")
        /\ tree[target] = "partial" /\ UNCHANGED <<level, target, before>>
        /\ op' = "idle" /\ last' = "write" /\ count' = "none"
        /\ ret' = IF count = "error" THEN "error" ELSE "0"
    BY <1>1, <1>6 DEF CloseFile, Finish, WriteResult, WriteInv
  <2>2. CASE /\ tree' = [tree EXCEPT ![target] = IF count = "all" THEN "whole" ELSE "partial"]
             /\ UNCHANGED lost
    <3>1. tree'[target'] = IF count = "all" THEN "whole" ELSE "partial"
      BY <1>1, <2>1, <2>2
    <3>2. lost' <=> count = "short"
      BY <2>1, <2>2
    <3>3. ret' = "0" => (tree'[target'] = "whole" <=> ~lost')
      BY <2>1, <3>1, <3>2
    <3>4. ret' # "0" => tree'[target'] = "partial"
      BY <2>1, <3>1
    <3>5. QED
      BY <2>1, <3>3, <3>4 DEF WriteInv
  <2>3. CASE lost' = TRUE /\ UNCHANGED tree
    BY <2>1, <2>3 DEF WriteInv
  <2>4. QED
    BY <1>6, <2>2, <2>3 DEF CloseFile
<1>7. QED
  BY <1>2, <1>3, <1>4, <1>5, <1>6 DEF MakeFails, MakeDone, AtLevel

LEMMA WriteInvHolds ==
  Spec => [](FsInv /\ WriteInv)
<1>1. Init => WriteInv
  BY DEF Init, WriteInv, WrittenIsWhole, Returned
<1>2. FsInv /\ WriteInv /\ [Next]_vars => WriteInv'
  <2> SUFFICES ASSUME FsInv, WriteInv, [Next]_vars PROVE WriteInv'
    OBVIOUS
  <2>1. CASE /\ OpenDir \/ RemoveSubdir \/ RemoveFile \/ SubdirRemoved \/ RemoveDir
                \/ ListEntry \/ SubdirListed \/ ListEnds
    <3>1. op \in {"rm", "ls"} /\ UNCHANGED <<level, count>>
      BY <2>1 DEF OpenDir, RemoveSubdir, RemoveFile, SubdirRemoved, RemoveDir, ListEntry,
         SubdirListed, ListEnds, At, InRecursion, write_vars
    <3>2. op' = op \/ last' = op
      BY <2>1 DEF OpenDir, RemoveSubdir, RemoveFile, SubdirRemoved, RemoveDir, ListEntry,
         SubdirListed, ListEnds, Return
    <3>3. op' = op \/ op' = "idle"
      BY <2>1 DEF OpenDir, RemoveSubdir, RemoveFile, SubdirRemoved, RemoveDir, ListEntry,
         SubdirListed, ListEnds, Return
    <3>4. QED
      BY <3>1, <3>2, <3>3 DEF WriteInv, WrittenIsWhole, Returned
  <2>2. CASE \/ MakeLevel \/ MakeFails \/ MakeDone
             \/ OpenForWriting \/ WriteContent \/ CloseFile
    BY <2>2, WritingKeepsWriteInv
  <2>3. CASE Call
    <3>1. /\ op' # "idle" /\ handles = 0 /\ UNCHANGED <<level, tree, handles>>
          /\ op # "write" /\ UNCHANGED count /\ before' = tree[target']
          /\ op' = "write" => dirs' = <<Front(target')>>
      BY <2>3 DEF Call, Begin, fs_rm_rf, lsdir_recursive, mkdir_dir, write_config,
         config_fs_init, FsInv, CallInv
    <3>2. QED
      BY <3>1 DEF WriteInv, WrittenIsWhole, Returned
  <2>4. CASE PowerCut
    BY <2>4 DEF PowerCut, WriteInv, WrittenIsWhole, Returned
  <2>5. CASE UNCHANGED vars
    BY <2>5 DEF vars, call_vars, write_vars, WriteInv, WrittenIsWhole, Returned
  <2>6. QED
    BY <2>5, <2>4, <2>3, <2>2, <2>1 DEF Next, Step
<1>3. QED
  BY <1>1, <1>2, FsInvHolds, PTL DEF Spec

\* For every tree, every path and every fault: a 0 of write_config means that the
\* whole content is in the file, if and only if fs_write was not short and fs_close
\* did not fail, the two results the code drops; an error, that the file is
\* untouched or partial.
THEOREM ZeroMeansWritten ==
  Spec => []WrittenIsWhole
<1>1. FsInv /\ WriteInv => WrittenIsWhole
  BY DEF WriteInv
<1>2. QED
  BY <1>1, WriteInvHolds, PTL

\* Every exit of fs_rm_rf, lsdir_recursive, write_config and mkdir_dir closes what
\* it opened, and fs_rm_rf never has two directories open.
THEOREM HandlesComeBack ==
  Spec => []HandlesAreReturned
<1>1. FsInv => HandlesAreReturned
  BY DEF FsInv, CallInv, HandlesAreReturned
<1>2. QED
  BY <1>1, FsInvHolds, PTL

\* No call takes or rewrites anything that is not its target or below it.
THEOREM OthersAreSpared ==
  Spec => OnlyTheTargetSuffers
<1> DEFINE Spared(p) ==
      tree[p] # "none" /\ tree'[p] # tree[p] =>
        \/ op = "rm" /\ p \in Under(target)
        \/ op = "write" /\ p = target
<1>1. ASSUME FsInv, [Next]_vars
      PROVE  [\A p \in Path : Spared(p)]_vars
  <2>1. CASE Step
    <3>1. CASE RemoveFile
      <4>1. op = "rm"
        BY <3>1 DEF RemoveFile, At
      <4>2. PICK q \in Children(Top.path) :
              tree' = [tree EXCEPT ![q] = "none"] \/ UNCHANGED tree
        BY <3>1 DEF RemoveFile, Unread, Entries
      <4>3. q \in Path /\ q \in Under(target)
        BY <1>1, <4>1, TopIsBelow, TargetIsThere, ChildIsUnder DEF Children
      <4>4. \A p \in Path : p # q => tree'[p] = tree[p]
        BY <1>1, <4>2 DEF FsInv, TypeInv
      <4>5. QED
        BY <4>1, <4>3, <4>4
    <3>2. CASE RemoveDir
      <4>1. op = "rm"
        BY <3>2 DEF RemoveDir, At
      <4>2. \A p \in Path : p # Top.path => tree'[p] = tree[p]
        BY <1>1, <3>2 DEF RemoveDir, FsInv, TypeInv
      <4>3. QED
        BY <1>1, <4>1, <4>2, TopIsBelow
    <3>3. CASE MakeLevel
      BY <3>3 DEF MakeLevel, Missing
    <3>4. CASE OpenForWriting \/ WriteContent \/ CloseFile
      BY <1>1, <3>4 DEF OpenForWriting, WriteContent, CloseFile, FsInv, TypeInv
    <3>5. CASE OpenDir \/ RemoveSubdir \/ SubdirRemoved \/ ListEntry \/ SubdirListed \/ ListEnds
      BY <3>5 DEF OpenDir, RemoveSubdir, SubdirRemoved, ListEntry, SubdirListed, ListEnds
    <3>6. CASE MakeFails \/ MakeDone
      BY <3>6 DEF MakeFails, MakeDone, MkdirDirReturns
    <3>7. QED
      BY <2>1, <3>1, <3>2, <3>3, <3>4, <3>5, <3>6 DEF Step
  <2>2. CASE Call
    BY <2>2 DEF Call, Begin, fs_rm_rf, lsdir_recursive, mkdir_dir, write_config, config_fs_init
  <2>3. CASE PowerCut
    BY <2>3 DEF PowerCut
  <2>4. QED
    BY <1>1, <2>1, <2>2, <2>3 DEF Next
<1>2. QED
  BY <1>1, FsInvHolds, PTL DEF Spec, OnlyTheTargetSuffers

(***************************************************************************)
(* How long fs_rm_rf lasts, without fairness.  Every step of it makes Load *)
(* smaller in the lexicographic order on five numbers: what is left to     *)
(* remove; whether an error is on its way up; how much deeper it can get   *)
(* (or how far up the error has to go); where the function is in a pass    *)
(* over its directory; and what this pass has not looked at.  So a pass    *)
(* that begins again, after a subdirectory, has less to remove, and one    *)
(* that leaves a file where it is has fewer entries to come.               *)
(***************************************************************************)

Descending(n) == LexProductOrdering(OpToRel(<, Nat), Nat, n)

Present == {p \in Path : tree[p] # "none"}

\* fs_rm_rf has returned, or hands up an error.
Unwinding == op # "rm" \/ (Top.pc = "called" /\ GivesUp(ret))

Stage == CASE Top.pc = "called" -> 2
           [] Top.pc = "open"   -> 1
           [] OTHER             -> 0

ToRead == IF Top.pc = "read" THEN Cardinality(Unread) ELSE 0

Load(Levels) ==
  IF Unwinding
  THEN <<Cardinality(Present), 0, Len(stack), 0, 0>>
  ELSE <<Cardinality(Present), 1, Levels - Len(Top.path), Stage, ToRead>>

\* A file system has finitely many paths, of at most so many levels.
Bounded(Levels) == IsFiniteSet(Path) /\ \A p \in Path : Len(p) <= Levels

\* A frame is one level below the one that called it, and while its directory
\* is being removed the directory is there.
ChainInv ==
  op = "rm" =>
    \A k \in 1..Len(stack) :
      /\ Len(stack[k].path) = Len(target) + k - 1
      /\ stack[k].pc # "open" => tree[stack[k].path] = "dir"

RemovalRunsDown(Levels) ==
  [][op = "rm" /\ Step =>
       <<Load(Levels)', Load(Levels)>> \in Descending(5)]_vars

\* There is no infinite descent in this order.
LEMMA NoInfiniteDescent ==
  ASSUME NEW n \in Nat
  PROVE  IsWellFoundedOn(Descending(n), [1..n -> Nat])
<1> DEFINE R == OpToRel(<, Nat)
<1>1. IsWellFoundedOn(R, Nat)
  BY NatLessThanWellFounded
<1> HIDE DEF R
<1>2. IsWellFoundedOn(LexProductOrdering(R, Nat, n), [1..n -> Nat])
  BY <1>1, WFLexProductOrdering
<1>3. QED
  BY <1>2 DEF R, Descending

LEMMA DescendsAt ==
  ASSUME NEW n \in Nat, NEW a \in [1..n -> Nat], NEW b \in [1..n -> Nat],
         NEW j \in 1..n, a[j] < b[j], \A i \in 1..(j - 1) : a[i] = b[i]
  PROVE  <<a, b>> \in Descending(n)
<1> DEFINE R == OpToRel(<, Nat)
<1>1. <<a[j], b[j]>> \in R
  BY DEF OpToRel
<1> HIDE DEF R
<1>2. <<a, b>> \in LexProductOrdering(R, Nat, n)
  BY <1>1 DEF LexProductOrdering
<1>3. QED
  BY <1>2 DEF R, Descending

LEMMA FiveDescend ==
  ASSUME NEW a \in [1..5 -> Nat], NEW b \in [1..5 -> Nat],
         \/ a[1] < b[1]
         \/ a[1] = b[1] /\ a[2] < b[2]
         \/ a[1] = b[1] /\ a[2] = b[2] /\ a[3] < b[3]
         \/ a[1] = b[1] /\ a[2] = b[2] /\ a[3] = b[3] /\ a[4] < b[4]
         \/ a[1] = b[1] /\ a[2] = b[2] /\ a[3] = b[3] /\ a[4] = b[4] /\ a[5] < b[5]
  PROVE  <<a, b>> \in Descending(5)
<1>1. \E j \in 1..5 : a[j] < b[j] /\ \A i \in 1..(j - 1) : a[i] = b[i]
  <2>1. CASE a[1] < b[1]
    <3>1. \A i \in 1..(1 - 1) : a[i] = b[i]
      OBVIOUS
    <3>2. QED
      BY <2>1, <3>1
  <2>2. CASE a[1] = b[1] /\ a[2] < b[2]
    <3>1. \A i \in 1..(2 - 1) : a[i] = b[i]
      BY <2>2
    <3>2. QED
      BY <2>2, <3>1
  <2>3. CASE a[1] = b[1] /\ a[2] = b[2] /\ a[3] < b[3]
    <3>1. \A i \in 1..(3 - 1) : a[i] = b[i]
      BY <2>3
    <3>2. QED
      BY <2>3, <3>1
  <2>4. CASE a[1] = b[1] /\ a[2] = b[2] /\ a[3] = b[3] /\ a[4] < b[4]
    <3>1. \A i \in 1..(4 - 1) : a[i] = b[i]
      BY <2>4
    <3>2. QED
      BY <2>4, <3>1
  <2>5. CASE a[1] = b[1] /\ a[2] = b[2] /\ a[3] = b[3] /\ a[4] = b[4] /\ a[5] < b[5]
    <3>1. \A i \in 1..(5 - 1) : a[i] = b[i]
      BY <2>5
    <3>2. QED
      BY <2>5, <3>1
  <2>6. QED
    BY <2>1, <2>2, <2>3, <2>4, <2>5
<1>2. QED
  BY <1>1, DescendsAt

\* What the three ways the recursion moves do to the frames.
LEMMA TopSet ==
  ASSUME FsInv, op = "rm", NEW f \in Frame, f.path = Top.path, SetTop(f)
  PROVE  /\ Len(stack') = Len(stack) /\ Top' = f
         /\ \A k \in 1..Len(stack) : k # Len(stack) => stack'[k] = stack[k]
<1>1. stack \in Seq(Frame) /\ stack # <<>> /\ Walk(stack)
  BY DEF FsInv, TypeInv, StackInv, CallInv
<1>2. stack' = [stack EXCEPT ![Len(stack)] = f] /\ f.path = stack[Len(stack)].path
  BY DEF SetTop, Top
<1>3. \A r : r = [stack EXCEPT ![Len(stack)] = f] =>
        /\ r \in Seq(Frame) /\ r # <<>> /\ Len(r) = Len(stack)
        /\ r[Len(r)] = f
        /\ \A k \in 1..Len(stack) : k # Len(stack) => r[k] = stack[k]
        /\ Walk(r)
  BY <1>1, <1>2, TopReplaced, Zenon
<1>4. QED
  BY <1>2, <1>3, Zenon DEF Top

LEMMA TopReturned ==
  ASSUME FsInv, op = "rm", NEW r, Return(r)
  PROVE  /\ Len(stack) \in Nat \ {0} /\ Len(stack') = Len(stack) - 1
         /\ \A k \in 1..Len(stack') :
              k \in 1..Len(stack) /\ k < Len(stack) /\ stack'[k] = stack[k]
         /\ ret' = r /\ op' = (IF Len(stack) = 1 THEN "idle" ELSE op)
         /\ Len(stack) # 1 => Top'.pc = "called"
<1>1. stack \in Seq(Frame) /\ stack # <<>> /\ Walk(stack)
  BY DEF FsInv, TypeInv, StackInv, CallInv
<1>2. ret' = r /\ stack' = Front(stack) /\ op' = (IF Len(stack) = 1 THEN "idle" ELSE op)
  BY DEF Return
<1>3. /\ Len(stack) \in Nat \ {0} /\ Len(stack') = Len(stack) - 1
      /\ stack' = <<>> <=> Len(stack) = 1
      /\ stack' # <<>> => stack'[Len(stack')].pc = "called"
  BY <1>1, <1>2, FramePopped
<1>4. \A k \in 1..(Len(stack) - 1) : stack'[k] = stack[k]
  BY <1>1, <1>2, FrontOf
<1>5. \A k \in 1..Len(stack') : k \in 1..Len(stack) /\ k < Len(stack) /\ stack'[k] = stack[k]
  BY <1>3, <1>4
<1>6. QED
  BY <1>2, <1>3, <1>5 DEF Top

LEMMA TopCalls ==
  ASSUME FsInv, op = "rm", NEW q \in Path, Front(q) = Top.path,
         stack' = Append([stack EXCEPT ![Len(stack)].pc = "called"], NewFrame(q))
  PROVE  /\ Len(stack) \in Nat \ {0} /\ Len(stack') = Len(stack) + 1 /\ Top' = NewFrame(q)
         /\ Len(q) = Len(Top.path) + 1
         /\ \A k \in 1..Len(stack) : stack'[k].path = stack[k].path
         /\ \A k \in 1..Len(stack) : k # Len(stack) => stack'[k] = stack[k]
<1>1. stack \in Seq(Frame) /\ stack # <<>> /\ Walk(stack) /\ Len(stack) \in Nat \ {0}
  BY EmptySeq DEF FsInv, TypeInv, StackInv, CallInv
<1> DEFINE f == [Top EXCEPT !.pc = "called"]
           m == [stack EXCEPT ![Len(stack)] = f]
<1>2. f \in Frame /\ f.path = stack[Len(stack)].path
  BY TopIsBelow DEF Frame, Top
<1>3. /\ m \in Seq(Frame) /\ Len(m) = Len(stack) /\ m[Len(m)] = f
      /\ \A k \in 1..Len(stack) : k # Len(stack) => m[k] = stack[k]
  BY <1>1, <1>2, TopReplaced
<1>4. stack' = Append(m, NewFrame(q))
  BY DEF Top
<1> HIDE DEF f, m
<1>5. NewFrame(q) \in Frame
  BY DEF NewFrame, Frame
<1>6. /\ Len(stack') = Len(m) + 1 /\ stack'[Len(m) + 1] = NewFrame(q)
      /\ \A k \in 1..Len(m) : stack'[k] = m[k]
  BY <1>3, <1>4, <1>5
<1>7. \A k \in 1..Len(stack) : stack'[k].path = stack[k].path
  BY <1>2, <1>3, <1>6
<1>8. Len(q) = Len(Top.path) + 1
  BY PathIsSeq, FrontOf
<1>9. QED
  BY <1>1, <1>3, <1>6, <1>7, <1>8 DEF Top

LEMMA FramesArePaths ==
  ASSUME FsInv, op = "rm", NEW k \in 1..Len(stack)
  PROVE  stack[k].path \in Path
<1>1. Walk(stack)
  BY DEF FsInv, StackInv, CallInv
<1>2. stack[k].path \in Under(target)
  BY <1>1 DEF Walk
<1>3. QED
  BY <1>2 DEF Under

\* What a step of fs_rm_rf is.
LEMMA StepsOfRemoval ==
  ASSUME FsInv, op = "rm", Step
  PROVE  OpenDir \/ RemoveSubdir \/ RemoveFile \/ SubdirRemoved \/ RemoveDir
<1>1. dirs = <<>> /\ op # "ls" /\ op # "write"
  BY DEF FsInv, CallInv
<1>2. QED
  BY <1>1 DEF Step, ListEntry, SubdirListed, ListEnds, MakeLevel, MakeFails, MakeDone, AtLevel,
     OpenForWriting, WriteContent, CloseFile, At

LEMMA OpenDirKeepsChain ==
  ASSUME FsInv, op = "rm", ChainInv, OpenDir
  PROVE  ChainInv'
<1>1. /\ Top \in Frame /\ Top.path \in Path /\ Top.path # <<>>
      /\ Len(stack) \in Nat \ {0} /\ Top = stack[Len(stack)]
  BY TopIsBelow, PathIsSeq DEF Top
<1>2. target' = target /\ tree' = tree
  BY DEF OpenDir, InRecursion, write_vars
<1>3. CASE Return("error")
  BY <1>2, <1>3, TopReturned DEF ChainInv
<1>4. CASE IsDir(Top.path) /\ SetTop([Top EXCEPT !.pc = "read", !.seen = {}])
  <2> DEFINE f == [Top EXCEPT !.pc = "read", !.seen = {}]
  <2>1. f \in Frame /\ f.path = Top.path /\ SetTop(f)
    BY <1>1, <1>4 DEF Frame
  <2> HIDE DEF f
  <2>2. /\ Len(stack') = Len(stack) /\ stack'[Len(stack)] = f
        /\ \A k \in 1..Len(stack) : k # Len(stack) => stack'[k] = stack[k]
    BY <2>1, TopSet DEF Top
  <2>3. tree[Top.path] = "dir"
    BY <1>1, <1>4 DEF IsDir
  <2>4. QED
    BY <1>1, <1>2, <2>1, <2>2, <2>3 DEF ChainInv
<1>5. QED
  BY <1>3, <1>4 DEF OpenDir

LEMMA RemoveSubdirKeepsChain ==
  ASSUME FsInv, op = "rm", ChainInv, RemoveSubdir
  PROVE  ChainInv'
<1>1. Len(stack) \in Nat \ {0} /\ Top = stack[Len(stack)] /\ Top.pc = "read"
  BY TopIsBelow DEF Top, RemoveSubdir, At
<1>2. target' = target /\ tree' = tree
  BY DEF RemoveSubdir, InRecursion, write_vars
<1>3. PICK q \in Path :
        /\ Front(q) = Top.path
        /\ stack' = Append([stack EXCEPT ![Len(stack)].pc = "called"], NewFrame(q))
  BY DEF RemoveSubdir, Unread, Entries, Children
<1>4. /\ Len(stack') = Len(stack) + 1 /\ stack'[Len(stack) + 1] = NewFrame(q)
      /\ Len(q) = Len(Top.path) + 1
      /\ \A k \in 1..Len(stack) : stack'[k].path = stack[k].path
      /\ \A k \in 1..Len(stack) : k # Len(stack) => stack'[k] = stack[k]
  BY <1>1, <1>3, TopCalls DEF Top
<1>5. ASSUME NEW k \in 1..Len(stack'), op' = "rm"
      PROVE  /\ Len(stack'[k].path) = Len(target) + k - 1
             /\ stack'[k].pc # "open" => tree[stack'[k].path] = "dir"
  <2>1. CASE k = Len(stack) + 1
    <3>1. Len(Top.path) = Len(target) + Len(stack) - 1 /\ Len(target) \in Nat
      BY <1>1, PathIsSeq DEF ChainInv, FsInv, TypeInv
    <3>2. stack'[k].path = q /\ stack'[k].pc = "open"
      BY <1>4, <2>1 DEF NewFrame
    <3>3. QED
      BY <1>1, <1>4, <2>1, <3>1, <3>2
  <2>2. CASE k \in 1..Len(stack)
    BY <1>1, <1>4, <2>2 DEF ChainInv
  <2>3. QED
    BY <1>1, <1>4, <2>1, <2>2
<1>6. QED
  BY <1>2, <1>5 DEF ChainInv

LEMMA RemoveFileKeepsChain ==
  ASSUME FsInv, op = "rm", ChainInv, RemoveFile
  PROVE  ChainInv'
<1>1. /\ Top \in Frame /\ Len(stack) \in Nat \ {0} /\ Top = stack[Len(stack)]
      /\ Top.pc = "read"
  BY TopIsBelow DEF Top, RemoveFile, At
<1>2. target' = target
  BY DEF RemoveFile, InRecursion, write_vars
<1>3. PICK q \in Path :
        /\ tree[q] # "dir"
        /\ tree' = [tree EXCEPT ![q] = "none"] \/ UNCHANGED tree
        /\ SetTop([Top EXCEPT !.seen = @ \cup {q}])
  BY DEF RemoveFile, Unread, Entries, Children
<1>4. \A p \in Path : tree[p] = "dir" => tree'[p] = "dir"
  BY <1>3 DEF FsInv, TypeInv
<1> DEFINE f == [Top EXCEPT !.seen = @ \cup {q}]
<1>5. f \in Frame /\ f.path = Top.path /\ f.pc = "read" /\ SetTop(f)
  BY <1>1, <1>3 DEF Frame
<1> HIDE DEF f
<1>6. /\ Len(stack') = Len(stack) /\ stack'[Len(stack)] = f
      /\ \A k \in 1..Len(stack) : k # Len(stack) => stack'[k] = stack[k]
  BY <1>5, TopSet DEF Top
<1>7. \A k \in 1..Len(stack) : stack[k].path \in Path
  BY FramesArePaths
<1>8. ASSUME NEW k \in 1..Len(stack')
      PROVE  /\ Len(stack'[k].path) = Len(target) + k - 1
             /\ stack'[k].pc # "open" => tree'[stack'[k].path] = "dir"
  <2>1. k \in 1..Len(stack) /\ stack[k].path \in Path
    BY <1>6, <1>7
  <2>2. /\ Len(stack[k].path) = Len(target) + k - 1
        /\ stack[k].pc # "open" => tree[stack[k].path] = "dir"
    BY <2>1 DEF ChainInv
  <2>3. stack'[k].path = stack[k].path /\ stack'[k].pc = stack[k].pc
    BY <1>1, <1>5, <1>6, <2>1
  <2>4. QED
    BY <1>4, <2>1, <2>2, <2>3
<1>9. QED
  BY <1>2, <1>8 DEF ChainInv

LEMMA SubdirRemovedKeepsChain ==
  ASSUME FsInv, op = "rm", ChainInv, SubdirRemoved
  PROVE  ChainInv'
<1>1. Top \in Frame /\ Len(stack) \in Nat \ {0} /\ Top = stack[Len(stack)]
  BY TopIsBelow DEF Top
<1>2. target' = target /\ tree' = tree
  BY DEF SubdirRemoved, InRecursion, write_vars
<1>3. CASE Return(ret)
  BY <1>2, <1>3, TopReturned DEF ChainInv
<1>4. CASE SetTop([Top EXCEPT !.pc = "open"])
  <2> DEFINE f == [Top EXCEPT !.pc = "open"]
  <2>1. f \in Frame /\ f.path = Top.path /\ f.pc = "open" /\ SetTop(f)
    BY <1>1, <1>4 DEF Frame
  <2> HIDE DEF f
  <2>2. /\ Len(stack') = Len(stack) /\ stack'[Len(stack)] = f
        /\ \A k \in 1..Len(stack) : k # Len(stack) => stack'[k] = stack[k]
    BY <2>1, TopSet DEF Top
  <2>3. QED
    BY <1>1, <1>2, <2>1, <2>2 DEF ChainInv
<1>5. QED
  BY <1>3, <1>4 DEF SubdirRemoved

\* The frames below are on other levels, so that their directories stay.
LEMMA RemoveDirKeepsChain ==
  ASSUME FsInv, op = "rm", ChainInv, RemoveDir
  PROVE  ChainInv'
<1>1. Len(stack) \in Nat \ {0} /\ Top = stack[Len(stack)] /\ Top.path \in Path
  BY TopIsBelow DEF Top
<1>2. target' = target
  BY DEF RemoveDir, InRecursion, write_vars
<1>3. PICK r : Return(r)
  BY DEF RemoveDir
<1>4. \A p \in Path : p # Top.path => tree'[p] = tree[p]
  BY DEF RemoveDir, FsInv, TypeInv
<1>5. \A k \in 1..Len(stack') : k \in 1..Len(stack) /\ k < Len(stack) /\ stack'[k] = stack[k]
  BY <1>3, TopReturned
<1>6. ASSUME NEW k \in 1..Len(stack'), op' = "rm"
      PROVE  /\ Len(stack'[k].path) = Len(target) + k - 1
             /\ stack'[k].pc # "open" => tree'[stack'[k].path] = "dir"
  <2>1. k \in 1..Len(stack) /\ k < Len(stack) /\ stack'[k] = stack[k]
    BY <1>5
  <2>2. /\ Len(stack[k].path) = Len(target) + k - 1
        /\ Len(Top.path) = Len(target) + Len(stack) - 1
        /\ Len(target) \in Nat
    BY <1>1, <2>1, PathIsSeq DEF ChainInv, FsInv, TypeInv
  <2>3. stack[k].path # Top.path
    BY <1>1, <2>1, <2>2
  <2>4. stack[k].path \in Path
    BY <2>1, FramesArePaths
  <2>5. QED
    BY <1>4, <2>1, <2>2, <2>3, <2>4 DEF ChainInv
<1>7. QED
  BY <1>2, <1>6 DEF ChainInv

LEMMA ChainInvHolds ==
  Spec => [](FsInv /\ ChainInv)
<1>1. Init => ChainInv
  BY DEF Init, ChainInv
<1>2. FsInv /\ ChainInv /\ [Next]_vars => ChainInv'
  <2> SUFFICES ASSUME FsInv, ChainInv, [Next]_vars PROVE ChainInv'
    OBVIOUS
  <2>1. CASE Step
    <3>1. CASE op = "rm"
      BY <2>1, <3>1, StepsOfRemoval, OpenDirKeepsChain, RemoveSubdirKeepsChain,
         RemoveFileKeepsChain, SubdirRemovedKeepsChain, RemoveDirKeepsChain
    <3>2. CASE op # "rm"
      <4>1. op' # "rm"
        BY <2>1, <3>2 DEF Step, OpenDir, RemoveSubdir, RemoveFile, SubdirRemoved, RemoveDir,
           ListEntry, SubdirListed, ListEnds, MakeLevel, MakeFails, MakeDone, MkdirDirReturns,
           OpenForWriting, WriteContent, CloseFile, Finish, Return, At, call_vars
      <4>2. QED
        BY <4>1 DEF ChainInv
    <3>3. QED
      BY <3>1, <3>2
  <2>2. CASE Call
    <3>1. CASE \E p \in Path : fs_rm_rf(p)
      <4>1. PICK p \in Path : target' = p /\ stack' = <<NewFrame(p)>>
        BY <3>1 DEF fs_rm_rf, Begin
      <4>2. Len(stack') = 1 /\ stack'[1].path = target' /\ stack'[1].pc = "open"
        BY <4>1 DEF NewFrame
      <4>3. Len(target') \in Nat
        BY <4>1, PathIsSeq
      <4>4. QED
        BY <4>2, <4>3 DEF ChainInv
    <3>2. CASE op' # "rm"
      BY <3>2 DEF ChainInv
    <3>3. QED
      BY <2>2, <3>1, <3>2 DEF Call, lsdir_recursive, mkdir_dir, write_config, config_fs_init,
         Begin
  <2>3. CASE PowerCut
    BY <2>3 DEF PowerCut, ChainInv
  <2>4. CASE UNCHANGED vars
    BY <2>4 DEF vars, call_vars, ChainInv
  <2>5. QED
    BY <2>1, <2>2, <2>3, <2>4 DEF Next
<1>3. QED
  BY <1>1, <1>2, FsInvHolds, PTL DEF Spec

\* What is removed was there, so that less is left.
LEMMA PresentShrinks ==
  ASSUME IsFiniteSet(Path), FsInv, NEW p \in Path, tree[p] # "none",
         tree' = [tree EXCEPT ![p] = "none"]
  PROVE  /\ Cardinality(Present) \in Nat /\ Cardinality(Present') \in Nat
         /\ Cardinality(Present') < Cardinality(Present)
<1>1. tree \in [Path -> Kind]
  BY DEF FsInv, TypeInv
<1>2. Present' = Present \ {p} /\ p \in Present /\ Present \in SUBSET Path
  BY <1>1 DEF Present
<1>3. IsFiniteSet(Present)
  BY <1>2, FS_Subset
<1>4. Cardinality(Present) \in Nat /\ Cardinality(Present \ {p}) \in Nat
  BY <1>3, FS_RemoveElement, FS_CardinalityType
<1>5. Cardinality(Present \ {p}) = Cardinality(Present) - 1
  BY <1>2, <1>3, FS_RemoveElement
<1>6. QED
  BY <1>2, <1>4, <1>5

LEMMA UnreadIsFinite ==
  ASSUME IsFiniteSet(Path)
  PROVE  /\ IsFiniteSet(Unread) /\ Cardinality(Unread) \in Nat
         /\ IsFiniteSet(Present) /\ Cardinality(Present) \in Nat
<1>1. Unread \in SUBSET Path /\ Present \in SUBSET Path
  BY DEF Unread, Entries, Children, Present
<1>2. IsFiniteSet(Unread) /\ IsFiniteSet(Present)
  BY <1>1, FS_Subset
<1>3. QED
  BY <1>2, FS_CardinalityType

\* The five numbers of a call in the middle of its work, and of one that unwinds.
LEMMA LoadIs ==
  ASSUME FsInv, op = "rm", NEW Levels \in Nat, Bounded(Levels)
  PROVE  /\ Cardinality(Present) \in Nat /\ Len(stack) \in Nat
         /\ Levels - Len(Top.path) \in Nat /\ Stage \in 0..2 /\ ToRead \in Nat
         /\ Top.pc \in {"open", "read", "called"}
         /\ Load(Levels) \in [1..5 -> Nat]
<1>1. Top \in Frame /\ Top.path \in Path /\ Len(stack) \in Nat
  BY TopIsBelow
<1>2. Len(Top.path) \in Nat /\ Len(Top.path) <= Levels
  BY <1>1, PathIsSeq DEF Bounded
<1>3. Cardinality(Present) \in Nat /\ ToRead \in Nat
  BY UnreadIsFinite DEF Bounded, ToRead
<1>4. Top.pc \in {"open", "read", "called"}
  BY <1>1 DEF Frame
<1>5. Levels - Len(Top.path) \in Nat /\ Stage \in 0..2
  BY <1>2, <1>4 DEF Stage
<1>6. Load(Levels) \in [1..5 -> Nat]
  BY <1>1, <1>3, <1>5 DEF Load
<1>7. QED
  BY <1>1, <1>3, <1>4, <1>5, <1>6

\* An error goes one frame up.
LEMMA ErrorsGoUp ==
  ASSUME FsInv, op = "rm", NEW Levels \in Nat, Bounded(Levels),
         NEW r, r # "0", Return(r), tree' = tree
  PROVE  <<Load(Levels)', Load(Levels)>> \in Descending(5)
<1>1. /\ Len(stack) \in Nat \ {0} /\ Len(stack') = Len(stack) - 1 /\ ret' = r
      /\ op' = (IF Len(stack) = 1 THEN "idle" ELSE op)
      /\ Len(stack) # 1 => Top'.pc = "called"
  BY TopReturned
<1>2. Unwinding'
  BY <1>1 DEF Unwinding, GivesUp
<1>3. Present' = Present
  BY DEF Present
<1>4. Load(Levels)' = <<Cardinality(Present), 0, Len(stack) - 1, 0, 0>>
  BY <1>1, <1>2, <1>3 DEF Load
<1>5. /\ Cardinality(Present) \in Nat /\ Levels - Len(Top.path) \in Nat
      /\ Stage \in Nat /\ ToRead \in Nat /\ Len(stack) - 1 \in Nat
  BY <1>1, LoadIs
<1>6. CASE Unwinding
  <2>1. Load(Levels) = <<Cardinality(Present), 0, Len(stack), 0, 0>>
    BY <1>6 DEF Load
  <2>2. QED
    <3>1. Load(Levels) \in [1..5 -> Nat]
      BY LoadIs
    <3>2. Load(Levels)' \in [1..5 -> Nat]
      BY <1>1, <1>4, <1>5, <2>1, LoadIs
    <3>3. /\ Load(Levels)'[3] < Load(Levels)[3]
          /\ Load(Levels)'[1] = Load(Levels)[1] /\ Load(Levels)'[2] = Load(Levels)[2]
      BY <1>1, <1>4, <1>5, <2>1, LoadIs
    <3>4. QED
      BY <3>1, <3>2, <3>3, FiveDescend
<1>7. CASE ~Unwinding
  <2>1. Load(Levels) =
          <<Cardinality(Present), 1, Levels - Len(Top.path), Stage, ToRead>>
    BY <1>7 DEF Load
  <2>2. QED
    <3>1. Load(Levels) \in [1..5 -> Nat]
      BY LoadIs
    <3>2. Load(Levels)' \in [1..5 -> Nat]
      BY <1>4, <1>5, <2>1, LoadIs
    <3>3. /\ Load(Levels)'[2] < Load(Levels)[2]
          /\ Load(Levels)'[1] = Load(Levels)[1]
      BY <1>4, <1>5, <2>1, LoadIs
    <3>4. QED
      BY <3>1, <3>2, <3>3, FiveDescend
<1>8. QED
  BY <1>6, <1>7

\* A directory opened has been looked at less than one to open.
LEMMA OpenDirDescends ==
  ASSUME FsInv, op = "rm", NEW Levels \in Nat, Bounded(Levels), OpenDir
  PROVE  <<Load(Levels)', Load(Levels)>> \in Descending(5)
<1>1. Top \in Frame /\ Top.pc = "open" /\ tree' = tree
  BY TopIsBelow DEF OpenDir, At
<1>2. CASE Return("error")
  BY <1>1, <1>2, ErrorsGoUp
<1>3. CASE SetTop([Top EXCEPT !.pc = "read", !.seen = {}]) /\ UNCHANGED <<op, ret>>
  <2> DEFINE f == [Top EXCEPT !.pc = "read", !.seen = {}]
  <2>1. f \in Frame /\ f.path = Top.path /\ f.pc = "read" /\ SetTop(f)
    BY <1>1, <1>3 DEF Frame
  <2> HIDE DEF f
  <2>2. Top' = f
    BY <2>1, TopSet
  <2>3. Unread' \in SUBSET Path /\ Present' = Present
    BY <1>1 DEF Unread, Entries, Children, Present
  <2>4. Cardinality(Unread') \in Nat
    BY <2>3, FS_Subset, FS_CardinalityType DEF Bounded
  <2>5. ~Unwinding /\ ~Unwinding'
    BY <1>1, <1>3, <2>1, <2>2 DEF Unwinding
  <2>6. Load(Levels) = <<Cardinality(Present), 1, Levels - Len(Top.path), 1, 0>>
    BY <1>1, <2>5 DEF Load, Stage, ToRead
  <2>7. Load(Levels)' =
          <<Cardinality(Present), 1, Levels - Len(Top.path), 0, Cardinality(Unread')>>
    BY <2>1, <2>2, <2>3, <2>5 DEF Load, Stage, ToRead
  <2>8. QED
    <3>1. Load(Levels) \in [1..5 -> Nat]
      BY LoadIs
    <3>2. Load(Levels)' \in [1..5 -> Nat]
      BY <2>4, <2>6, <2>7, LoadIs
    <3>3. /\ Load(Levels)'[4] < Load(Levels)[4]
          /\ Load(Levels)'[1] = Load(Levels)[1] /\ Load(Levels)'[2] = Load(Levels)[2]
          /\ Load(Levels)'[3] = Load(Levels)[3]
      BY <2>4, <2>6, <2>7, LoadIs
    <3>4. QED
      BY <3>1, <3>2, <3>3, FiveDescend
<1>4. QED
  BY <1>2, <1>3 DEF OpenDir

\* A call for a subdirectory is one level nearer to the deepest.
LEMMA RemoveSubdirDescends ==
  ASSUME FsInv, op = "rm", NEW Levels \in Nat, Bounded(Levels), RemoveSubdir
  PROVE  <<Load(Levels)', Load(Levels)>> \in Descending(5)
<1>1. Top \in Frame /\ Top.pc = "read" /\ tree' = tree /\ op' = op
  BY TopIsBelow DEF RemoveSubdir, At
<1>2. PICK q \in Path :
        /\ Front(q) = Top.path
        /\ stack' = Append([stack EXCEPT ![Len(stack)].pc = "called"], NewFrame(q))
  BY DEF RemoveSubdir, Unread, Entries, Children
<1>3. Top' = NewFrame(q) /\ Len(q) = Len(Top.path) + 1
  BY <1>2, TopCalls
<1>4. Top'.path = q /\ Top'.pc = "open"
  BY <1>3 DEF NewFrame
<1>5. Present' = Present
  BY <1>1 DEF Present
<1>6. ~Unwinding /\ ~Unwinding'
  BY <1>1, <1>4 DEF Unwinding
<1>7. Load(Levels) = <<Cardinality(Present), 1, Levels - Len(Top.path), 0, ToRead>>
  BY <1>1, <1>6 DEF Load, Stage
<1>8. Load(Levels)' = <<Cardinality(Present), 1, Levels - Len(q), 1, 0>>
  BY <1>4, <1>5, <1>6 DEF Load, Stage, ToRead
<1>9. Levels - Len(q) \in Nat /\ Levels - Len(q) < Levels - Len(Top.path)
  <2>1. Len(q) \in Nat /\ Len(q) <= Levels /\ Len(Top.path) \in Nat
    BY TopIsBelow, PathIsSeq DEF Bounded
  <2>2. QED
    BY <1>3, <2>1
<1>10. QED
  <2>1. Load(Levels) \in [1..5 -> Nat]
    BY LoadIs
  <2>2. Load(Levels)' \in [1..5 -> Nat]
    BY <1>7, <1>8, <1>9, LoadIs
  <2>3. /\ Load(Levels)'[3] < Load(Levels)[3]
        /\ Load(Levels)'[1] = Load(Levels)[1] /\ Load(Levels)'[2] = Load(Levels)[2]
    BY <1>7, <1>8, <1>9, LoadIs
  <2>4. QED
    BY <2>1, <2>2, <2>3, FiveDescend

\* A file is gone, or one entry less is to come.
LEMMA RemoveFileDescends ==
  ASSUME FsInv, op = "rm", NEW Levels \in Nat, Bounded(Levels), RemoveFile
  PROVE  <<Load(Levels)', Load(Levels)>> \in Descending(5)
<1>1. Top \in Frame /\ Top.pc = "read" /\ op' = op
  BY TopIsBelow DEF RemoveFile, At
<1>2. PICK q \in Unread :
        /\ tree[q] \in {"partial", "whole"}
        /\ tree' = [tree EXCEPT ![q] = "none"] \/ UNCHANGED tree
        /\ SetTop([Top EXCEPT !.seen = @ \cup {q}])
  BY DEF RemoveFile
<1>3. q \in Path /\ q \in Children(Top.path)
  BY DEF Unread, Entries, Children
<1> DEFINE f == [Top EXCEPT !.seen = @ \cup {q}]
<1>4. f \in Frame /\ f.path = Top.path /\ f.pc = "read" /\ SetTop(f)
  BY <1>1, <1>2, <1>3 DEF Frame
<1>5. f.seen = Top.seen \cup {q}
  BY <1>1 DEF Frame
<1> HIDE DEF f
<1>6. Top' = f
  BY <1>4, TopSet
<1>7. ~Unwinding /\ ~Unwinding'
  BY <1>1, <1>4, <1>6 DEF Unwinding
<1>8. Load(Levels) =
        <<Cardinality(Present), 1, Levels - Len(Top.path), 0, Cardinality(Unread)>>
  BY <1>1, <1>7 DEF Load, Stage, ToRead
<1>9. Load(Levels)' =
        <<Cardinality(Present'), 1, Levels - Len(Top.path), 0, Cardinality(Unread')>>
  BY <1>4, <1>6, <1>7 DEF Load, Stage, ToRead
<1>10. Cardinality(Unread) \in Nat /\ Cardinality(Unread') \in Nat
  <2>1. Unread' \in SUBSET Path
    BY DEF Unread, Entries, Children
  <2>2. QED
    BY <2>1, UnreadIsFinite, FS_Subset, FS_CardinalityType DEF Bounded
<1>11. CASE tree' = [tree EXCEPT ![q] = "none"]
  <2>1. tree[q] # "none"
    BY <1>2
  <2>2. /\ Cardinality(Present) \in Nat /\ Cardinality(Present') \in Nat
        /\ Cardinality(Present') < Cardinality(Present)
    BY <1>3, <1>11, <2>1, PresentShrinks DEF Bounded
  <2>3. QED
    <3>1. Load(Levels) \in [1..5 -> Nat]
      BY LoadIs
    <3>2. Load(Levels)' \in [1..5 -> Nat]
      BY <1>8, <1>9, <1>10, <2>2, LoadIs
    <3>3. /\ Load(Levels)'[1] < Load(Levels)[1]
      BY <1>8, <1>9, <1>10, <2>2, LoadIs
    <3>4. QED
      BY <3>1, <3>2, <3>3, FiveDescend
<1>12. CASE UNCHANGED tree
  <2>1. Present' = Present /\ Unread' = Unread \ {q}
    BY <1>4, <1>5, <1>6, <1>12 DEF Present, Unread, Entries, Children
  <2>2. Cardinality(Unread \ {q}) = Cardinality(Unread) - 1
    BY UnreadIsFinite, FS_RemoveElement DEF Bounded
  <2>3. /\ Cardinality(Present') = Cardinality(Present)
        /\ Cardinality(Unread') < Cardinality(Unread)
    BY <1>10, <2>1, <2>2
  <2>4. QED
    <3>1. Load(Levels) \in [1..5 -> Nat]
      BY LoadIs
    <3>2. Load(Levels)' \in [1..5 -> Nat]
      BY <1>8, <1>9, <1>10, <2>3, LoadIs
    <3>3. /\ Load(Levels)'[5] < Load(Levels)[5]
          /\ Load(Levels)'[1] = Load(Levels)[1] /\ Load(Levels)'[2] = Load(Levels)[2]
          /\ Load(Levels)'[3] = Load(Levels)[3] /\ Load(Levels)'[4] = Load(Levels)[4]
      BY <1>8, <1>9, <2>3
    <3>4. QED
      BY <3>1, <3>2, <3>3, FiveDescend
<1>13. QED
  BY <1>2, <1>11, <1>12

\* The directory is opened again, or the error goes up.
LEMMA SubdirRemovedDescends ==
  ASSUME FsInv, op = "rm", NEW Levels \in Nat, Bounded(Levels), SubdirRemoved
  PROVE  <<Load(Levels)', Load(Levels)>> \in Descending(5)
<1>1. Top \in Frame /\ Top.pc = "called" /\ tree' = tree
  BY TopIsBelow DEF SubdirRemoved, At
<1>2. CASE GivesUp(ret) /\ Return(ret)
  BY <1>1, <1>2, ErrorsGoUp DEF GivesUp
<1>3. CASE ~GivesUp(ret) /\ SetTop([Top EXCEPT !.pc = "open"]) /\ UNCHANGED <<op, ret>>
  <2> DEFINE f == [Top EXCEPT !.pc = "open"]
  <2>1. f \in Frame /\ f.path = Top.path /\ f.pc = "open" /\ SetTop(f)
    BY <1>1, <1>3 DEF Frame
  <2> HIDE DEF f
  <2>2. Top' = f
    BY <2>1, TopSet
  <2>3. Present' = Present
    BY <1>1 DEF Present
  <2>4. ~Unwinding /\ ~Unwinding'
    BY <1>1, <1>3, <2>1, <2>2 DEF Unwinding
  <2>5. Load(Levels) = <<Cardinality(Present), 1, Levels - Len(Top.path), 2, 0>>
    BY <1>1, <2>4 DEF Load, Stage, ToRead
  <2>6. Load(Levels)' = <<Cardinality(Present), 1, Levels - Len(Top.path), 1, 0>>
    BY <2>1, <2>2, <2>3, <2>4 DEF Load, Stage, ToRead
  <2>7. QED
    <3>1. Load(Levels) \in [1..5 -> Nat]
      BY LoadIs
    <3>2. Load(Levels)' \in [1..5 -> Nat]
      BY <2>5, <2>6, LoadIs
    <3>3. /\ Load(Levels)'[4] < Load(Levels)[4]
          /\ Load(Levels)'[1] = Load(Levels)[1] /\ Load(Levels)'[2] = Load(Levels)[2]
          /\ Load(Levels)'[3] = Load(Levels)[3]
      BY <2>5, <2>6, LoadIs
    <3>4. QED
      BY <3>1, <3>2, <3>3, FiveDescend
<1>4. QED
  BY <1>2, <1>3 DEF SubdirRemoved

\* The directory is gone, or the error goes up.
LEMMA RemoveDirDescends ==
  ASSUME FsInv, ChainInv, op = "rm", NEW Levels \in Nat, Bounded(Levels), RemoveDir
  PROVE  <<Load(Levels)', Load(Levels)>> \in Descending(5)
<1>1. /\ Top \in Frame /\ Top.pc = "read" /\ Top.path \in Path
      /\ Len(stack) \in Nat \ {0} /\ Top = stack[Len(stack)]
  BY TopIsBelow DEF RemoveDir, At, Top
<1>2. CASE tree' = tree /\ Return("error")
  BY <1>2, ErrorsGoUp
<1>3. CASE tree' = [tree EXCEPT ![Top.path] = "none"] /\ Return("0")
  <2>1. tree[Top.path] # "none"
    BY <1>1 DEF ChainInv
  <2>2. /\ Cardinality(Present) \in Nat /\ Cardinality(Present') \in Nat
        /\ Cardinality(Present') < Cardinality(Present)
    BY <1>1, <1>3, <2>1, PresentShrinks DEF Bounded
  <2>3. ~Unwinding
    BY <1>1 DEF Unwinding
  <2>4. Load(Levels) =
          <<Cardinality(Present), 1, Levels - Len(Top.path), Stage, ToRead>>
    BY <2>3 DEF Load
  <2>5. /\ Len(stack') = Len(stack) - 1 /\ ret' = "0"
        /\ \A k \in 1..Len(stack') : k \in 1..Len(stack) /\ stack'[k] = stack[k]
        /\ op' = (IF Len(stack) = 1 THEN "idle" ELSE op)
        /\ Len(stack) # 1 => Top'.pc = "called"
    BY <1>3, TopReturned
  <2>6. CASE Len(stack) = 1
    <3>1. Load(Levels)' = <<Cardinality(Present'), 0, 0, 0, 0>>
      BY <2>5, <2>6 DEF Load, Unwinding
    <3>2. QED
      <4>1. Load(Levels) \in [1..5 -> Nat]
        BY LoadIs
      <4>2. Load(Levels)' \in [1..5 -> Nat]
        BY <2>2, <2>4, <3>1, LoadIs
      <4>3. /\ Load(Levels)'[1] < Load(Levels)[1]
        BY <2>2, <2>4, <3>1, LoadIs
      <4>4. QED
        BY <4>1, <4>2, <4>3, FiveDescend
  <2>7. CASE Len(stack) # 1
    <3>1. ~Unwinding'
      BY <2>5, <2>7 DEF Unwinding, GivesUp
    <3>2. Load(Levels)' =
            <<Cardinality(Present'), 1, Levels - Len(Top'.path), 2, 0>>
      BY <2>5, <2>7, <3>1 DEF Load, Stage, ToRead
    <3>3. Len(stack') \in 1..Len(stack')
      BY <1>1, <2>5, <2>7
    <3>4. Top'.path \in Path
      BY <2>5, <3>3, FramesArePaths DEF Top
    <3>5. Len(Top'.path) \in Nat /\ Len(Top'.path) <= Levels
      BY <3>4, PathIsSeq DEF Bounded
    <3>6. Levels - Len(Top'.path) \in Nat
      BY <3>5
    <3>7. PICK n : n \in Nat /\ n = Levels - Len(Top'.path)
      BY <3>6
    <3>8. PICK p : p \in Nat /\ p = Cardinality(Present')
      BY <2>2
    <3>9. Load(Levels)' = <<p, 1, n, 2, 0>>
      BY <3>2, <3>7, <3>8
    <3>10. Load(Levels)[1] = Cardinality(Present) /\ Load(Levels)'[1] = p
      BY <2>4, <3>9
    <3>11. QED
      <4>1. Load(Levels) \in [1..5 -> Nat]
        BY LoadIs
      <4>2. Load(Levels)' \in [1..5 -> Nat]
        BY <3>7, <3>8, <3>9
      <4>3. Load(Levels)'[1] < Load(Levels)[1]
        BY <2>2, <3>8, <3>10
      <4>4. QED
        BY <4>1, <4>2, <4>3, FiveDescend
  <2>8. QED
    BY <2>6, <2>7
<1>4. QED
  BY <1>2, <1>3 DEF RemoveDir, ReturnsUnlink

\* fs_rm_rf never goes round in circles: whatever fails, and although it starts a
\* directory again after every subdirectory and leaves files it cannot unlink, each
\* of its steps makes Load smaller in an order without infinite descent.
THEOREM RemovalIsBounded ==
  ASSUME NEW Levels \in Nat, Bounded(Levels)
  PROVE  /\ IsWellFoundedOn(Descending(5), [1..5 -> Nat])
         /\ Spec => RemovalRunsDown(Levels)
<1>1. IsWellFoundedOn(Descending(5), [1..5 -> Nat])
  BY NoInfiniteDescent
<1>2. ASSUME FsInv, ChainInv, [Next]_vars
      PROVE  [op = "rm" /\ Step => <<Load(Levels)', Load(Levels)>> \in Descending(5)]_vars
  BY <1>2, StepsOfRemoval, OpenDirDescends, RemoveSubdirDescends, RemoveFileDescends,
     SubdirRemovedDescends, RemoveDirDescends
<1>3. Spec => RemovalRunsDown(Levels)
  BY <1>2, ChainInvHolds, PTL DEF Spec, RemovalRunsDown
<1>4. QED
  BY <1>1, <1>3
=============================================================================
