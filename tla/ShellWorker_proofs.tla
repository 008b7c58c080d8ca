-------------------------- MODULE ShellWorker_proofs --------------------------
(***************************************************************************)
(* For every number of sessions and commands and every depth of the queue: *)
(* the types, that no command starts with a device left open, that every   *)
(* copy of argv is freed exactly once, and that the worker is a serial     *)
(* executor.                                                               *)
(***************************************************************************)
EXTENDS ShellWorker, SequenceTheorems, FiniteSetTheorems, TLAPS

\* The worker holds a command exactly while it works on one.
JobMatches == IF wpc \in {"get", "wait"} THEN job = <<>> ELSE Len(job) = 1

\* A session about to put a command has typed it.
CopiedHasTyped == \A s \in copied : typed[s] \in 1..MaxCmds

TypeInv == TypeOK /\ JobMatches /\ CopiedHasTyped

\* A queue that is appended to, and what is left behind its head.
LEMMA QueueTypes ==
  ASSUME NEW S, NEW q \in Seq(S), NEW e \in S
  PROVE  /\ Append(q, e) \in Seq(S) /\ Len(Append(q, e)) = Len(q) + 1
         /\ q # <<>> => /\ Head(q) \in S /\ Tail(q) \in Seq(S)
                        /\ Len(Tail(q)) = Len(q) - 1
OBVIOUS

\* A hand that holds one thing.
LEMMA Singleton ==
  ASSUME NEW S, NEW e \in S
  PROVE  <<e>> \in Seq(S) /\ Len(<<e>>) = 1
OBVIOUS

\* What is in a hand that holds one thing.
LEMMA OnlyElement ==
  ASSUME NEW S, NEW q \in Seq(S), Len(q) = 1
  PROVE  q[1] \in S
OBVIOUS

\* What the worker has in hand is a command of a session.
LEMMA JobIsCommand ==
  ASSUME TypeInv, wpc \notin {"get", "wait"}
  PROVE  job[1] \in Command /\ job[1][1] \in Session
<1>1. job \in Seq(Command) /\ Len(job) = 1
  BY DEF TypeInv, TypeOK, JobMatches
<1>2. job[1] \in Command
  BY <1>1, OnlyElement
<1>3. QED
  BY <1>2 DEF Command

\* What a session puts is a command.
LEMMA CurrentIsCommand ==
  ASSUME TypeInv, NEW s \in copied
  PROVE  s \in Session /\ Current(s) \in Command
BY DEF TypeInv, TypeOK, CopiedHasTyped, Current, Command

LEMMA InitIsTyped == Init => TypeInv
<1> SUFFICES ASSUME Init PROVE TypeInv
  OBVIOUS
<1> USE DepthAssumption DEF Init
<1>1. typed \in [Session -> 0..MaxCmds] /\ tool \in Tools
  OBVIOUS
<1>2. copied \subseteq Session /\ heap \subseteq Command
  OBVIOUS
<1>3. msgq \in Seq(Command) /\ Len(msgq) <= DEPTH /\ job \in Seq(Command) /\ Len(job) <= 1
      /\ finished \in Seq(Command)
  OBVIOUS
<1>4. wpc \in WPc /\ shell \in Session \cup {NoSession} /\ opened \in BOOLEAN
  BY DEF WPc
<1>5. verdict \in [Command -> {"none", "ok", "EBUSY", "ENOMEM"}]
  OBVIOUS
<1>6. JobMatches /\ CopiedHasTyped
  BY DEF JobMatches, CopiedHasTyped
<1>7. QED
  BY <1>1, <1>2, <1>3, <1>4, <1>5, <1>6 DEF TypeInv, TypeOK

\* The sessions keep the types.
LEMMA SessionKeepsTypes ==
  ASSUME TypeInv, NEW s \in Session, CopyArgs(s) \/ PutAccepted(s) \/ PutRefused(s)
  PROVE  TypeInv'
<1> USE DepthAssumption
<1>1. CASE CopyArgs(s)
  <2>1. typed[s] + 1 \in 1..MaxCmds /\ typed' \in [Session -> 0..MaxCmds]
    BY <1>1 DEF CopyArgs, TypeInv, TypeOK
  <2>2. typed'[s] \in 1..MaxCmds
    BY <1>1, <2>1 DEF CopyArgs, TypeInv, TypeOK
  <2>3. Current(s)' \in Command
    BY <2>2 DEF Current, Command
  <2>4. \A t \in copied : t # s /\ typed'[t] = typed[t]
    BY <1>1 DEF CopyArgs, TypeInv, TypeOK
  <2>5. CopiedHasTyped'
    BY <1>1, <2>2, <2>4 DEF CopyArgs, CopiedHasTyped, TypeInv
  <2>6. verdict' \in [Command -> {"none", "ok", "EBUSY", "ENOMEM"}]
    BY <1>1 DEF CopyArgs, TypeInv, TypeOK
  <2>7. copied' \subseteq Session /\ heap' \subseteq Command
    BY <1>1, <2>3 DEF CopyArgs, TypeInv, TypeOK
  <2>8. QED
    BY <1>1, <2>1, <2>5, <2>6, <2>7 DEF CopyArgs, TypeInv, TypeOK, JobMatches
<1>2. CASE PutAccepted(s)
  <2>1. Current(s) \in Command
    BY <1>2, CurrentIsCommand DEF PutAccepted
  <2>2. verdict' \in [Command -> {"none", "ok", "EBUSY", "ENOMEM"}]
    BY <1>2 DEF PutAccepted, TypeInv, TypeOK
  <2>3. msgq' \in Seq(Command) /\ Len(msgq') <= DEPTH
    <3>1. Append(msgq, Current(s)) \in Seq(Command)
          /\ Len(Append(msgq, Current(s))) = Len(msgq) + 1
      BY <2>1, QueueTypes DEF TypeInv, TypeOK
    <3>2. msgq \in Seq(Command) /\ Len(msgq) <= DEPTH /\ Len(msgq) \in Nat
      BY LenProperties DEF TypeInv, TypeOK
    <3>3. CASE wpc = "wait"
      <4>1. msgq' = msgq
        BY <1>2, <3>3 DEF PutAccepted
      <4>2. QED
        BY <3>2, <4>1
    <3>4. CASE wpc # "wait"
      <4>1. msgq' = Append(msgq, Current(s)) /\ ~(Len(msgq) >= DEPTH)
        BY <1>2, <3>4 DEF PutAccepted, Enqueue, QueueIsFull
      <4>2. QED
        BY <3>1, <3>2, <4>1
    <3>5. QED
      BY <3>3, <3>4
  <2>4. wpc' \in WPc /\ job' \in Seq(Command) /\ Len(job') <= 1 /\ JobMatches'
    <3>1. <<Current(s)>> \in Seq(Command) /\ Len(<<Current(s)>>) = 1
      BY <2>1, Singleton
    <3>2. CASE wpc = "wait"
      <4>1. wpc' = "route" /\ job' = <<Current(s)>>
        BY <1>2, <3>2 DEF PutAccepted
      <4>2. QED
        BY <3>1, <4>1 DEF JobMatches, WPc
    <3>3. CASE wpc # "wait"
      <4>1. wpc' = wpc /\ job' = job
        BY <1>2, <3>3 DEF PutAccepted
      <4>2. QED
        BY <4>1 DEF TypeInv, TypeOK, JobMatches
    <3>4. QED
      BY <3>2, <3>3
  <2>5. CopiedHasTyped'
    BY <1>2 DEF PutAccepted, CopiedHasTyped, TypeInv
  <2>6. QED
    BY <1>2, <2>2, <2>3, <2>4, <2>5 DEF PutAccepted, TypeInv, TypeOK
<1>3. CASE PutRefused(s)
  <2>1. verdict' \in [Command -> {"none", "ok", "EBUSY", "ENOMEM"}]
    BY <1>3 DEF PutRefused, TypeInv, TypeOK
  <2>2. CopiedHasTyped' /\ JobMatches'
    BY <1>3 DEF PutRefused, CopiedHasTyped, JobMatches, TypeInv
  <2>3. QED
    BY <1>3, <2>1, <2>2 DEF PutRefused, FreeCopy, TypeInv, TypeOK
<1>4. QED
  BY <1>1, <1>2, <1>3

\* The worker keeps the types.
LEMMA WorkerKeepsTypes == ASSUME TypeInv, Worker PROVE TypeInv'
<1> USE DepthAssumption DEF TypeInv, JobMatches, CopiedHasTyped, TypeOK, WPc
<1>1. CASE Get
  <2>1. CASE msgq = <<>>
    BY <1>1, <2>1 DEF Get
  <2>2. CASE msgq # <<>>
    <3>1. Head(msgq) \in Command /\ Tail(msgq) \in Seq(Command)
          /\ Len(Tail(msgq)) = Len(msgq) - 1
      BY <2>2
    <3>2. <<Head(msgq)>> \in Seq(Command) /\ Len(<<Head(msgq)>>) = 1
      BY <3>1, Singleton
    <3>3. msgq' = Tail(msgq) /\ job' = <<Head(msgq)>> /\ wpc' = "route"
      BY <1>1, <2>2 DEF Get, Taken
    <3>4. msgq' \in Seq(Command) /\ Len(msgq') <= DEPTH
      BY <3>1, <3>3, LenProperties
    <3>5. job' \in Seq(Command) /\ Len(job') = 1
      BY <3>2, <3>3
    <3>6. TypeOK' /\ JobMatches'
      BY <1>1, <3>3, <3>4, <3>5 DEF Get
    <3>7. QED
      BY <1>1, <3>6 DEF Get
  <2>3. QED
    BY <2>1, <2>2
<1>2. CASE Route
  <2>1. job[1][1] \in Session
    BY <1>2, JobIsCommand DEF Route
  <2>2. QED
    BY <1>2, <2>1 DEF Route
<1>3. CASE RunTool
  BY <1>3 DEF RunTool
<1>4. CASE ToolEnds
  <2>1. job[1] \in Command
    BY <1>4, JobIsCommand DEF ToolEnds
  <2>2. Append(finished, job[1]) \in Seq(Command)
    BY <2>1, QueueTypes
  <2>3. QED
    BY <1>4, <2>2 DEF ToolEnds
<1>5. CASE CleanUp
  <2>1. job' \in Seq(Command) /\ Len(job') = 0 /\ job' = <<>> /\ wpc' = "get"
    BY <1>5 DEF CleanUp
  <2>2. heap' \subseteq Command /\ opened' \in BOOLEAN /\ shell' \in Session \cup {NoSession}
    BY <1>5 DEF CleanUp, OpenedAfterCleanup
  <2>3. QED
    BY <1>5, <2>1, <2>2 DEF CleanUp
<1>6. QED
  BY <1>1, <1>2, <1>3, <1>4, <1>5 DEF Worker

LEMMA TypeInvNext == TypeInv /\ [Next]_vars => TypeInv'
<1> SUFFICES ASSUME TypeInv, [Next]_vars PROVE TypeInv'
  OBVIOUS
<1>1. ASSUME NEW s \in Session, CopyArgs(s) \/ PutAccepted(s) \/ PutRefused(s)
      PROVE  TypeInv'
  BY <1>1, SessionKeepsTypes
<1>2. CASE Worker
  BY <1>2, WorkerKeepsTypes
<1>3. CASE UNCHANGED vars
  BY <1>3 DEF vars, TypeInv, TypeOK, JobMatches, CopiedHasTyped
<1>4. QED
  BY <1>1, <1>2, <1>3 DEF Next, i2c_tool_enqueue

\* Every variable keeps its type.
THEOREM TypeCorrect == Spec => []TypeOK
<1>1. TypeInv => TypeOK
  BY DEF TypeInv
<1>2. QED
  BY <1>1, InitIsTyped, TypeInvNext, PTL DEF Spec

\* busctl opens no device; after an i2c tool the worker releases them all.
CleanInv == StartsClean /\ (tool # "i2c" => ~opened)

\* No command starts with a device its predecessors left open, although a tool
\* that calls exit() leaves its own open.
THEOREM NextStartsClean == Spec => []StartsClean
<1>1. Init => CleanInv
  BY DEF Init, CleanInv, StartsClean
<1>2. TypeOK /\ CleanInv /\ [Next]_vars => CleanInv'
  <2> SUFFICES ASSUME TypeOK, CleanInv, [Next]_vars PROVE CleanInv'
    OBVIOUS
  <2> USE DEF CleanInv, StartsClean, TypeOK, WPc
  <2>1. ASSUME NEW s \in Session, CopyArgs(s) \/ PutAccepted(s) \/ PutRefused(s)
        PROVE  CleanInv'
    BY <2>1 DEF CopyArgs, PutAccepted, PutRefused
  <2>2. CASE Get
    BY <2>2 DEF Get
  <2>3. CASE Route
    BY <2>3 DEF Route
  <2>4. CASE RunTool
    BY <2>4 DEF RunTool
  <2>5. CASE ToolEnds
    BY <2>5 DEF ToolEnds
  <2>6. CASE CleanUp
    BY <2>6 DEF CleanUp, OpenedAfterCleanup
  <2>7. CASE UNCHANGED vars
    BY <2>7 DEF vars
  <2>8. QED
    BY <2>1, <2>2, <2>3, <2>4, <2>5, <2>6, <2>7 DEF Next, i2c_tool_enqueue, Worker
<1>3. CleanInv => StartsClean
  BY DEF CleanInv
<1>4. QED
  BY <1>1, <1>2, <1>3, TypeCorrect, PTL DEF Spec

(***************************************************************************)
(* Who owns the copies of argv                                             *)
(***************************************************************************)

Distinct(q) == \A i, j \in DOMAIN q : q[i] = q[j] => i = j

\* The commands handed over and not yet cleaned up behind.
Handed == Elements(msgq) \cup Elements(job)

\* A waiting worker has left nothing in the queue.
WaitsForNone == wpc = "wait" => msgq = <<>>

\* What k_msgq_put has said of a command tells how far it has come.
VerdictsMatch ==
  /\ \A s \in Session : \A k \in 1..MaxCmds :
       verdict[<<s, k>>] # "none" => k <= typed[s]
  /\ \A s \in copied : verdict[Current(s)] = "none"
  /\ \A c \in Handed \cup Elements(finished) : verdict[c] = "ok"

\* No command is handed over twice.
NoTwice == Distinct(msgq) /\ Elements(msgq) \cap Elements(job) = {}

FinitelyMany == IsFiniteSet(heap) /\ IsFiniteSet(copied)

OwnerInv ==
  /\ TypeInv
  /\ WaitsForNone
  /\ VerdictsMatch
  /\ NoTwice
  /\ FinitelyMany
  /\ CopiesHaveOneOwner

\* What appending to a queue adds to it.
LEMMA AppendAdds ==
  ASSUME NEW S, NEW q \in Seq(S), NEW e \in S
  PROVE  /\ Elements(Append(q, e)) = Elements(q) \cup {e}
         /\ Distinct(q) /\ e \notin Elements(q) => Distinct(Append(q, e))
<1>1. /\ DOMAIN q = 1..Len(q) /\ Len(q) \in Nat
      /\ DOMAIN Append(q, e) = 1..(Len(q) + 1)
      /\ \A i \in 1..Len(q) : Append(q, e)[i] = q[i]
      /\ Append(q, e)[Len(q) + 1] = e
  BY AppendProperties, LenProperties
<1>2. QED
  BY <1>1 DEF Elements, Distinct

\* What taking the head of a queue leaves in it.
LEMMA TakingRemoves ==
  ASSUME NEW S, NEW q \in Seq(S), q # <<>>
  PROVE  /\ Head(q) \in S /\ Elements(q) = Elements(Tail(q)) \cup {Head(q)}
         /\ Distinct(q) => Distinct(Tail(q)) /\ Head(q) \notin Elements(Tail(q))
<1>1. /\ DOMAIN q = 1..Len(q) /\ Len(q) \in Nat \ {0}
      /\ Head(q) = q[1] /\ Head(q) \in S
      /\ DOMAIN Tail(q) = 1..(Len(q) - 1)
      /\ \A i \in 1..(Len(q) - 1) : Tail(q)[i] = q[i + 1]
  BY HeadTailProperties, LenProperties, EmptySeq
<1>2. \A i \in 1..(Len(q) - 1) : i + 1 \in 1..Len(q) /\ i + 1 # 1
  BY <1>1
<1>3. \A i \in 1..Len(q) : i = 1 \/ (i - 1 \in 1..(Len(q) - 1) /\ (i - 1) + 1 = i)
  BY <1>1
<1>4. Elements(q) = Elements(Tail(q)) \cup {Head(q)}
  <2>1. ASSUME NEW e \in Elements(q) PROVE e \in Elements(Tail(q)) \cup {Head(q)}
    <3>1. PICK i \in 1..Len(q) : e = q[i]
      BY <1>1, <2>1 DEF Elements
    <3>2. CASE i = 1
      BY <1>1, <3>1, <3>2
    <3>3. CASE i # 1
      <4>1. i - 1 \in 1..(Len(q) - 1) /\ (i - 1) + 1 = i
        BY <1>3, <3>3
      <4>2. Tail(q)[i - 1] = e
        BY <1>1, <3>1, <4>1
      <4>3. QED
        BY <1>1, <4>1, <4>2 DEF Elements
    <3>4. QED
      BY <3>2, <3>3
  <2>2. ASSUME NEW e \in Elements(Tail(q)) PROVE e \in Elements(q)
    <3>1. PICK i \in 1..(Len(q) - 1) : e = q[i + 1]
      BY <1>1, <2>2 DEF Elements
    <3>2. QED
      BY <1>1, <1>2, <3>1 DEF Elements
  <2>3. Head(q) \in Elements(q)
    BY <1>1 DEF Elements
  <2>4. QED
    BY <2>1, <2>2, <2>3
<1>5. ASSUME Distinct(q) PROVE Distinct(Tail(q)) /\ Head(q) \notin Elements(Tail(q))
  <2>1. ASSUME NEW i \in 1..(Len(q) - 1), NEW j \in 1..(Len(q) - 1),
               Tail(q)[i] = Tail(q)[j]
        PROVE  i = j
    <3>1. i + 1 = j + 1
      BY <1>1, <1>2, <1>5, <2>1 DEF Distinct
    <3>2. QED
      BY <3>1
  <2>2. Head(q) \notin Elements(Tail(q))
    BY <1>1, <1>2, <1>5 DEF Distinct, Elements
  <2>3. QED
    BY <1>1, <2>1, <2>2 DEF Distinct
<1>6. QED
  BY <1>1, <1>4, <1>5

\* An empty hand and a hand that holds one thing.
LEMMA OneHand ==
  /\ Elements(<<>>) = {}
  /\ \A e : Elements(<<e>>) = {e}
  /\ \A S : \A q \in Seq(S) : Len(q) = 1 => q = <<q[1]>> /\ Elements(q) = {q[1]}
BY DEF Elements

LEMMA CopyArgsOwner ==
  ASSUME OwnerInv, NEW s \in Session, CopyArgs(s)
  PROVE  WaitsForNone' /\ VerdictsMatch' /\ NoTwice' /\ FinitelyMany'
         /\ CopiesHaveOneOwner'
<1>1. /\ s \notin copied /\ typed' = [typed EXCEPT ![s] = @ + 1]
      /\ UNCHANGED <<msgq, wpc, job, finished>>
      /\ typed[s] < MaxCmds
  BY DEF CopyArgs
<1>2. /\ typed \in [Session -> 0..MaxCmds] /\ copied \subseteq Session
      /\ verdict \in [Command -> {"none", "ok", "EBUSY", "ENOMEM"}]
      /\ msgq \in Seq(Command) /\ job \in Seq(Command) /\ finished \in Seq(Command)
      /\ MaxCmds \in Nat
  BY DepthAssumption DEF OwnerInv, TypeInv, TypeOK
<1>3. /\ typed'[s] = typed[s] + 1 /\ typed'[s] \in 1..MaxCmds
      /\ \A t \in Session : t # s => typed'[t] = typed[t]
  BY <1>1, <1>2
<1> DEFINE c == <<s, typed[s] + 1>>
<1>4. Current(s)' = c /\ c \in Command
  BY <1>3 DEF Current, Command
<1>5. verdict[c] = "none"
  BY <1>1, <1>2, <1>3 DEF OwnerInv, VerdictsMatch
<1>6. \A t \in copied : Current(t)' = Current(t) /\ Current(t) # c
  BY <1>1, <1>2, <1>3 DEF Current
<1>7. c \notin heap
  BY <1>5, <1>6 DEF OwnerInv, CopiesHaveOneOwner, VerdictsMatch, Handed
<1>8. Handed' = Handed /\ Elements(finished)' = Elements(finished)
  BY <1>1 DEF Handed, Elements
<1>9. WaitsForNone' /\ NoTwice'
  BY <1>1 DEF OwnerInv, WaitsForNone, NoTwice, Distinct, Elements
<1>10. CASE copied' = copied \cup {s} /\ heap' = heap \cup {c} /\ UNCHANGED verdict
  <2>1. VerdictsMatch'
    <3>1. \A t \in Session : \A k \in 1..MaxCmds :
            verdict'[<<t, k>>] # "none" => k <= typed'[t]
      <4> SUFFICES ASSUME NEW t \in Session, NEW k \in 1..MaxCmds,
                          verdict[<<t, k>>] # "none"
                   PROVE  k <= typed'[t]
        BY <1>10
      <4>1. k <= typed[t]
        BY DEF OwnerInv, VerdictsMatch
      <4>2. typed[t] \in Nat /\ (typed'[t] = typed[t] \/ typed'[t] = typed[t] + 1)
        BY <1>2, <1>3
      <4>3. QED
        BY <4>1, <4>2
    <3>2. \A t \in copied' : verdict'[Current(t)'] = "none"
      BY <1>4, <1>5, <1>6, <1>10 DEF OwnerInv, VerdictsMatch
    <3>3. QED
      BY <1>8, <1>10, <3>1, <3>2 DEF OwnerInv, VerdictsMatch
  <2>2. /\ IsFiniteSet(heap') /\ Cardinality(heap') = Cardinality(heap) + 1
        /\ IsFiniteSet(copied') /\ Cardinality(copied') = Cardinality(copied) + 1
    BY <1>1, <1>7, <1>10, FS_AddElement DEF OwnerInv, FinitelyMany
  <2>3. heap' = {Current(t)' : t \in copied'} \cup Handed'
    <3>1. {Current(t)' : t \in copied'} = {Current(t) : t \in copied} \cup {c}
      BY <1>4, <1>6, <1>10
    <3>2. heap = {Current(t) : t \in copied} \cup Handed
      BY DEF OwnerInv, CopiesHaveOneOwner, Handed
    <3>3. QED
      BY <1>8, <1>10, <3>1, <3>2
  <2>4. Len(msgq) \in Nat /\ Len(job) \in Nat /\ Cardinality(copied) \in Nat
    BY <1>2, LenProperties, FS_CardinalityType DEF OwnerInv, FinitelyMany
  <2>5. CopiesHaveOneOwner'
    BY <1>1, <2>2, <2>3, <2>4 DEF OwnerInv, CopiesHaveOneOwner, Handed
  <2>6. QED
    BY <1>9, <2>1, <2>2, <2>5 DEF FinitelyMany
<1>11. CASE verdict' = [verdict EXCEPT ![c] = "ENOMEM"] /\ UNCHANGED <<copied, heap>>
  <2>1. \A d \in Command : verdict'[d] = IF d = c THEN "ENOMEM" ELSE verdict[d]
    BY <1>2, <1>4, <1>11
  <2>2. VerdictsMatch'
    <3>1. ASSUME NEW t \in Session, NEW k \in 1..MaxCmds, verdict'[<<t, k>>] # "none"
          PROVE  k <= typed'[t]
      <4>1. <<t, k>> \in Command
        BY DEF Command
      <4>2. CASE <<t, k>> = c
        BY <1>3, <4>2
      <4>3. CASE <<t, k>> # c
        <5>1. k <= typed[t]
          BY <2>1, <3>1, <4>1, <4>3 DEF OwnerInv, VerdictsMatch
        <5>2. QED
          BY <1>2, <1>3, <5>1
      <4>4. QED
        BY <4>2, <4>3
    <3>2. \A t \in copied' : verdict'[Current(t)'] = "none"
      <4>1. \A t \in copied : Current(t) \in Command
        BY CurrentIsCommand DEF OwnerInv
      <4>2. QED
        BY <1>6, <1>11, <2>1, <4>1 DEF OwnerInv, VerdictsMatch
    <3>3. \A d \in Handed \cup Elements(finished) : verdict'[d] = "ok"
      <4>1. \A d \in Handed \cup Elements(finished) : d \in Command
        BY <1>2, ElementOfSeq, LenProperties DEF Handed, Elements
      <4>2. QED
        BY <1>5, <2>1, <4>1 DEF OwnerInv, VerdictsMatch
    <3>4. QED
      BY <1>8, <3>1, <3>2, <3>3 DEF VerdictsMatch
  <2>3. {Current(t)' : t \in copied'} = {Current(t) : t \in copied}
    BY <1>6, <1>11
  <2>4. CopiesHaveOneOwner'
    BY <1>1, <1>8, <1>11, <2>3 DEF OwnerInv, CopiesHaveOneOwner, Handed
  <2>5. FinitelyMany'
    BY <1>11 DEF OwnerInv, FinitelyMany
  <2>6. QED
    BY <1>9, <2>2, <2>4, <2>5
<1>12. QED
  BY <1>4, <1>10, <1>11 DEF CopyArgs

\* What a session is about to put has not been handed over yet.
LEMMA CurrentIsNew ==
  ASSUME OwnerInv, NEW s \in copied
  PROVE  /\ s \in Session /\ Current(s) \in Command /\ verdict[Current(s)] = "none"
         /\ Current(s) \notin Handed /\ Current(s) \notin Elements(finished)
         /\ Current(s) \in heap
         /\ \A t \in copied : t # s => Current(t) # Current(s)
<1>1. s \in Session /\ Current(s) \in Command
  BY CurrentIsCommand DEF OwnerInv
<1>2. verdict[Current(s)] = "none"
  BY DEF OwnerInv, VerdictsMatch
<1>3. Current(s) \notin Handed /\ Current(s) \notin Elements(finished)
  BY <1>2 DEF OwnerInv, VerdictsMatch
<1>4. Current(s) \in heap
  BY DEF OwnerInv, CopiesHaveOneOwner
<1>5. \A t \in copied : t # s => Current(t) # Current(s)
  BY DEF Current
<1>6. QED
  BY <1>1, <1>2, <1>3, <1>4, <1>5

LEMMA PutAcceptedOwner ==
  ASSUME OwnerInv, NEW s \in Session, PutAccepted(s)
  PROVE  WaitsForNone' /\ VerdictsMatch' /\ NoTwice' /\ FinitelyMany'
         /\ CopiesHaveOneOwner'
<1> DEFINE c == Current(s)
<1>1. /\ s \in copied /\ copied' = copied \ {s}
      /\ verdict' = [verdict EXCEPT ![c] = "ok"]
      /\ UNCHANGED <<typed, heap, finished>>
  BY DEF PutAccepted
<1>2. /\ verdict \in [Command -> {"none", "ok", "EBUSY", "ENOMEM"}]
      /\ msgq \in Seq(Command) /\ job \in Seq(Command) /\ finished \in Seq(Command)
      /\ Len(msgq) \in Nat /\ Len(job) \in Nat /\ Cardinality(copied) \in Nat
  BY LenProperties, FS_CardinalityType DEF OwnerInv, TypeInv, TypeOK, FinitelyMany
<1>3. /\ c \in Command /\ c \notin Handed
      /\ \A t \in copied : t # s => Current(t) # c
  BY <1>1, CurrentIsNew
<1>4. \A t : Current(t)' = Current(t)
  BY <1>1 DEF Current
<1>5. /\ Handed' = Handed \cup {c}
      /\ Len(msgq') + Len(job') = Len(msgq) + Len(job) + 1
      /\ WaitsForNone' /\ NoTwice'
  <2>1. CASE wpc = "wait"
    <3>1. wpc' = "route" /\ job' = <<c>> /\ msgq' = msgq /\ msgq = <<>> /\ job = <<>>
      BY <1>1, <2>1 DEF PutAccepted, OwnerInv, WaitsForNone, TypeInv, JobMatches
    <3>2. Elements(job') = {c} /\ Elements(job) = {} /\ Elements(msgq) = {}
          /\ Elements(msgq') = {}
      BY <3>1, OneHand
    <3>3. Len(job') = 1 /\ Len(job) = 0 /\ Len(msgq') = Len(msgq)
      BY <3>1
    <3>4. Handed' = Handed \cup {c}
      BY <3>2 DEF Handed, Elements
    <3>5. NoTwice'
      BY <3>1, <3>2 DEF OwnerInv, NoTwice, Distinct, Elements
    <3>6. QED
      BY <1>2, <3>1, <3>3, <3>4, <3>5 DEF WaitsForNone
  <2>2. CASE wpc # "wait"
    <3>1. wpc' = wpc /\ job' = job /\ msgq' = Append(msgq, c)
      BY <2>2 DEF PutAccepted, Enqueue
    <3>2. /\ Elements(Append(msgq, c)) = Elements(msgq) \cup {c}
          /\ Distinct(Append(msgq, c)) /\ Len(Append(msgq, c)) = Len(msgq) + 1
      BY <1>2, <1>3, AppendAdds, AppendProperties DEF OwnerInv, NoTwice, Handed
    <3>3. Elements(msgq)' = Elements(Append(msgq, c)) /\ Elements(job)' = Elements(job)
      BY <3>1 DEF Elements
    <3>4. Distinct(msgq)'
      BY <3>1, <3>2 DEF Distinct
    <3>5. Handed' = Handed \cup {c}
      BY <3>2, <3>3 DEF Handed
    <3>6. NoTwice'
      BY <1>3, <3>2, <3>3, <3>4 DEF OwnerInv, NoTwice, Handed
    <3>7. QED
      BY <1>2, <2>2, <3>1, <3>2, <3>5, <3>6 DEF WaitsForNone
  <2>3. QED
    BY <2>1, <2>2
<1>6. \A d \in Command : verdict'[d] = IF d = c THEN "ok" ELSE verdict[d]
  BY <1>1, <1>2, <1>3
<1>7. VerdictsMatch'
  <2>1. ASSUME NEW t \in Session, NEW k \in 1..MaxCmds, verdict'[<<t, k>>] # "none"
        PROVE  k <= typed'[t]
    <3>1. <<t, k>> \in Command
      BY DEF Command
    <3>2. CASE <<t, k>> = c
      <4>1. k = typed[t]
        BY <3>2 DEF Current
      <4>2. typed[t] \in Nat
        BY DEF OwnerInv, TypeInv, TypeOK
      <4>3. QED
        BY <1>1, <4>1, <4>2
    <3>3. CASE <<t, k>> # c
      BY <1>1, <1>6, <2>1, <3>1, <3>3 DEF OwnerInv, VerdictsMatch
    <3>4. QED
      BY <3>2, <3>3
  <2>2. \A t \in copied' : verdict'[Current(t)'] = "none"
    BY <1>1, <1>3, <1>4, <1>6, CurrentIsNew
  <2>3. \A d \in Handed \cup Elements(finished) : d \in Command
    BY <1>2, ElementOfSeq, LenProperties DEF Handed, Elements
  <2>4. Elements(finished)' = Elements(finished)
    BY <1>1 DEF Elements
  <2>5. \A d \in Handed' \cup Elements(finished)' : verdict'[d] = "ok"
    BY <1>3, <1>5, <1>6, <2>3, <2>4 DEF OwnerInv, VerdictsMatch
  <2>6. QED
    BY <2>1, <2>2, <2>5 DEF VerdictsMatch
<1>8. IsFiniteSet(copied') /\ Cardinality(copied') = Cardinality(copied) - 1
  BY <1>1, FS_RemoveElement DEF OwnerInv, FinitelyMany
<1>9. heap' = {Current(t)' : t \in copied'} \cup Handed'
  BY <1>1, <1>4, <1>5 DEF OwnerInv, CopiesHaveOneOwner, Handed
<1>10. Cardinality(heap') = Cardinality(copied') + Len(msgq') + Len(job')
  <2>1. Cardinality(heap) = Cardinality(copied) + Len(msgq) + Len(job) /\ heap' = heap
    BY <1>1 DEF OwnerInv, CopiesHaveOneOwner
  <2>2. Len(msgq') \in Nat /\ Len(job') \in Nat
    BY LenProperties, TypeInvNext DEF OwnerInv, TypeInv, TypeOK, Next, i2c_tool_enqueue
  <2>3. Cardinality(heap') = Cardinality(copied) + Len(msgq) + Len(job)
    BY <2>1
  <2>4. Cardinality(copied) = Cardinality(copied') + 1 /\ Cardinality(copied') \in Int
    BY <1>2, <1>8
  <2>5. Len(msgq') + Len(job') = Len(msgq) + Len(job) + 1
    BY <1>5
  <2>6. /\ Cardinality(copied) \in Nat /\ Len(msgq) \in Nat /\ Len(job) \in Nat
        /\ Cardinality(copied') \in Int
    BY <1>2, <2>4
  <2>7. QED
    BY ONLY <2>2, <2>3, <2>4, <2>5, <2>6
<1>11. CopiesHaveOneOwner' /\ FinitelyMany'
  BY <1>1, <1>8, <1>9, <1>10 DEF CopiesHaveOneOwner, Handed, OwnerInv, FinitelyMany
<1>12. QED
  BY <1>5, <1>7, <1>11

LEMMA PutRefusedOwner ==
  ASSUME OwnerInv, NEW s \in Session, PutRefused(s)
  PROVE  WaitsForNone' /\ VerdictsMatch' /\ NoTwice' /\ FinitelyMany'
         /\ CopiesHaveOneOwner'
<1> DEFINE c == Current(s)
<1>1. /\ s \in copied /\ copied' = copied \ {s} /\ heap' = heap \ {c}
      /\ verdict' = [verdict EXCEPT ![c] = "EBUSY"]
      /\ UNCHANGED <<typed, msgq, wpc, job, finished>>
  BY DEF PutRefused, FreeCopy
<1>2. /\ verdict \in [Command -> {"none", "ok", "EBUSY", "ENOMEM"}]
      /\ msgq \in Seq(Command) /\ job \in Seq(Command) /\ finished \in Seq(Command)
      /\ Len(msgq) \in Nat /\ Len(job) \in Nat /\ Cardinality(copied) \in Nat
  BY LenProperties, FS_CardinalityType DEF OwnerInv, TypeInv, TypeOK, FinitelyMany
<1>3. /\ c \in Command /\ c \notin Handed /\ c \notin Elements(finished) /\ c \in heap
      /\ \A t \in copied : t # s => Current(t) # c
  BY <1>1, CurrentIsNew
<1>4. \A t : Current(t)' = Current(t)
  BY <1>1 DEF Current
<1>5. Handed' = Handed /\ Elements(finished)' = Elements(finished)
  BY <1>1 DEF Handed, Elements
<1>6. WaitsForNone' /\ NoTwice'
  BY <1>1 DEF OwnerInv, WaitsForNone, NoTwice, Distinct, Elements
<1>7. \A d \in Command : verdict'[d] = IF d = c THEN "EBUSY" ELSE verdict[d]
  BY <1>1, <1>2, <1>3
<1>8. VerdictsMatch'
  <2>1. ASSUME NEW t \in Session, NEW k \in 1..MaxCmds, verdict'[<<t, k>>] # "none"
        PROVE  k <= typed'[t]
    <3>1. <<t, k>> \in Command
      BY DEF Command
    <3>2. CASE <<t, k>> = c
      <4>1. k = typed[t]
        BY <3>2 DEF Current
      <4>2. typed[t] \in Nat
        BY DEF OwnerInv, TypeInv, TypeOK
      <4>3. QED
        BY <1>1, <4>1, <4>2
    <3>3. CASE <<t, k>> # c
      BY <1>1, <1>7, <2>1, <3>1, <3>3 DEF OwnerInv, VerdictsMatch
    <3>4. QED
      BY <3>2, <3>3
  <2>2. \A t \in copied' : verdict'[Current(t)'] = "none"
    BY <1>1, <1>3, <1>4, <1>7, CurrentIsNew
  <2>3. \A d \in Handed \cup Elements(finished) : d \in Command
    BY <1>2, ElementOfSeq, LenProperties DEF Handed, Elements
  <2>4. \A d \in Handed \cup Elements(finished) : verdict'[d] = "ok"
    BY <1>3, <1>7, <2>3 DEF OwnerInv, VerdictsMatch
  <2>5. QED
    BY <1>5, <2>1, <2>2, <2>4 DEF VerdictsMatch
<1>9. /\ IsFiniteSet(copied') /\ Cardinality(copied') = Cardinality(copied) - 1
      /\ IsFiniteSet(heap') /\ Cardinality(heap') = Cardinality(heap) - 1
  BY <1>1, <1>3, FS_RemoveElement DEF OwnerInv, FinitelyMany
<1>10. heap' = {Current(t)' : t \in copied'} \cup Handed'
  BY <1>1, <1>3, <1>4, <1>5 DEF OwnerInv, CopiesHaveOneOwner, Handed
<1>11. Cardinality(heap) = Cardinality(copied) + Len(msgq) + Len(job)
  BY DEF OwnerInv, CopiesHaveOneOwner
<1>12. Cardinality(heap') = Cardinality(copied') + Len(msgq') + Len(job')
  BY <1>1, <1>2, <1>9, <1>11
<1>13. QED
  BY <1>6, <1>8, <1>9, <1>10, <1>12 DEF CopiesHaveOneOwner, Handed, FinitelyMany

\* The worker takes a command, or finishes with one and frees it.
LEMMA WorkerOwner ==
  ASSUME OwnerInv, Worker
  PROVE  WaitsForNone' /\ VerdictsMatch' /\ NoTwice' /\ FinitelyMany'
         /\ CopiesHaveOneOwner'
<1>1. UNCHANGED <<typed, copied, verdict>> /\ \A t : Current(t)' = Current(t)
  BY DEF Worker, Get, Route, RunTool, ToolEnds, CleanUp, Current
<1>2. /\ msgq \in Seq(Command) /\ job \in Seq(Command) /\ finished \in Seq(Command)
      /\ Len(msgq) \in Nat /\ Len(job) \in Nat /\ Cardinality(copied) \in Nat
  BY LenProperties, FS_CardinalityType DEF OwnerInv, TypeInv, TypeOK, FinitelyMany
<1>3. ASSUME UNCHANGED <<msgq, job, heap>>, wpc' # "wait" \/ msgq = <<>>,
             \A d \in Elements(finished)' : d \in Handed \cup Elements(finished)
      PROVE  WaitsForNone' /\ VerdictsMatch' /\ NoTwice' /\ FinitelyMany'
             /\ CopiesHaveOneOwner'
  <2>1. Handed' = Handed /\ Elements(msgq)' = Elements(msgq) /\ Elements(job)' = Elements(job)
    BY <1>3 DEF Handed, Elements
  <2>2. NoTwice' /\ FinitelyMany' /\ WaitsForNone'
    BY <1>1, <1>3, <2>1 DEF OwnerInv, NoTwice, FinitelyMany, WaitsForNone, Distinct
  <2>3. VerdictsMatch'
    BY <1>1, <1>3, <2>1 DEF OwnerInv, VerdictsMatch
  <2>4. CopiesHaveOneOwner'
    BY <1>1, <1>3, <2>1 DEF OwnerInv, CopiesHaveOneOwner
  <2>5. QED
    BY <2>2, <2>3, <2>4
<1>4. CASE Route \/ RunTool
  BY <1>3, <1>4 DEF Route, RunTool, Elements
<1>5. CASE ToolEnds
  <2>1. wpc = "running"
    BY <1>5 DEF ToolEnds
  <2>2. job[1] \in Handed /\ job[1] \in Command
    BY <1>2, <2>1, OneHand, JobIsCommand DEF OwnerInv, TypeInv, JobMatches, Handed
  <2>3. Elements(Append(finished, job[1])) = Elements(finished) \cup {job[1]}
    BY <1>2, <2>2, AppendAdds
  <2>4. finished' = finished \/ finished' = Append(finished, job[1])
    BY <1>5 DEF ToolEnds
  <2>5. \A d \in Elements(finished)' : d \in Handed \cup Elements(finished)
    BY <2>2, <2>3, <2>4 DEF Elements
  <2>6. UNCHANGED <<msgq, job, heap>> /\ wpc' # "wait"
    BY <1>5 DEF ToolEnds
  <2>7. QED
    BY <1>3, <2>5, <2>6
<1>6. CASE Get /\ msgq = <<>>
  BY <1>3, <1>6 DEF Get, Elements
<1>7. CASE Get /\ msgq # <<>>
  <2> DEFINE h == Head(msgq)
  <2>1. /\ wpc' = "route" /\ job' = <<h>> /\ msgq' = Tail(msgq) /\ wpc = "get"
        /\ UNCHANGED <<heap, finished>>
    BY <1>7 DEF Get, Taken
  <2>2. job = <<>>
    BY <2>1 DEF OwnerInv, TypeInv, JobMatches
  <2>3. /\ Elements(msgq) = Elements(Tail(msgq)) \cup {h}
        /\ Distinct(Tail(msgq)) /\ h \notin Elements(Tail(msgq))
        /\ Len(Tail(msgq)) = Len(msgq) - 1
    BY <1>2, <1>7, TakingRemoves, HeadTailProperties DEF OwnerInv, NoTwice
  <2>4. /\ Elements(msgq)' = Elements(Tail(msgq)) /\ Elements(job)' = Elements(<<h>>)
        /\ Elements(finished)' = Elements(finished)
    BY <2>1 DEF Elements
  <2>5. Elements(job) = {} /\ Elements(<<h>>) = {h}
    BY <2>2, OneHand
  <2>6. Handed' = Handed
    BY <2>3, <2>4, <2>5 DEF Handed
  <2>7. NoTwice' /\ WaitsForNone'
    BY <2>1, <2>3, <2>4, <2>5 DEF NoTwice, Distinct, WaitsForNone
  <2>8. VerdictsMatch'
    BY <1>1, <2>4, <2>6 DEF OwnerInv, VerdictsMatch
  <2>9. heap' = {Current(t)' : t \in copied'} \cup Handed'
    BY <1>1, <2>1, <2>6 DEF OwnerInv, CopiesHaveOneOwner, Handed
  <2>10. Len(job') = 1 /\ Len(job) = 0 /\ Len(msgq') = Len(msgq) - 1
    BY <2>1, <2>2, <2>3
  <2>11. Cardinality(heap) = Cardinality(copied) + Len(msgq) + Len(job)
    BY DEF OwnerInv, CopiesHaveOneOwner
  <2>12. Cardinality(heap') = Cardinality(copied') + Len(msgq') + Len(job')
    <3>1. Cardinality(heap') = Cardinality(heap) /\ Cardinality(copied') = Cardinality(copied)
      BY <1>1, <2>1
    <3>2. QED
      BY <1>2, <2>10, <2>11, <3>1
  <2>13. QED
    BY <1>1, <2>1, <2>7, <2>8, <2>9, <2>12
       DEF OwnerInv, FinitelyMany, CopiesHaveOneOwner, Handed
<1>8. CASE CleanUp
  <2> DEFINE j == job[1]
  <2>1. /\ wpc = "clean" /\ wpc' = "get" /\ heap' = heap \ {j} /\ job' = <<>>
        /\ UNCHANGED <<msgq, finished>>
    BY <1>8 DEF CleanUp
  <2>2. Len(job) = 1 /\ Elements(job) = {j} /\ Len(job') = 0
    BY <1>2, <2>1, OneHand DEF OwnerInv, TypeInv, JobMatches
  <2>3. /\ Elements(msgq)' = Elements(msgq) /\ Elements(finished)' = Elements(finished)
        /\ Elements(job)' = {}
    BY <2>1, OneHand DEF Elements
  <2>4. j \notin Elements(msgq) /\ j \in heap
    BY <2>2 DEF OwnerInv, NoTwice, CopiesHaveOneOwner
  <2>5. \A t \in copied : Current(t) # j
    BY <2>2, CurrentIsNew DEF Handed
  <2>6. Handed' = Handed \ {j}
    BY <2>2, <2>3, <2>4 DEF Handed
  <2>7. NoTwice' /\ WaitsForNone'
    BY <2>1, <2>3 DEF OwnerInv, NoTwice, Distinct, WaitsForNone
  <2>8. VerdictsMatch'
    BY <1>1, <2>3, <2>6 DEF OwnerInv, VerdictsMatch
  <2>9. heap' = {Current(t)' : t \in copied'} \cup Handed'
    BY <1>1, <2>1, <2>5, <2>6 DEF OwnerInv, CopiesHaveOneOwner, Handed
  <2>10. IsFiniteSet(heap') /\ Cardinality(heap') = Cardinality(heap) - 1
    BY <2>1, <2>4, FS_RemoveElement DEF OwnerInv, FinitelyMany
  <2>11. Cardinality(heap) = Cardinality(copied) + Len(msgq) + Len(job)
    BY DEF OwnerInv, CopiesHaveOneOwner
  <2>12. Cardinality(heap') = Cardinality(copied') + Len(msgq') + Len(job')
    BY <1>1, <1>2, <2>1, <2>2, <2>10, <2>11
  <2>13. QED
    BY <1>1, <2>7, <2>8, <2>9, <2>10, <2>12
       DEF OwnerInv, FinitelyMany, CopiesHaveOneOwner, Handed
<1>9. QED
  BY <1>4, <1>5, <1>6, <1>7, <1>8 DEF Worker

LEMMA OwnerInvInit == Init => OwnerInv
<1> SUFFICES ASSUME Init PROVE OwnerInv
  OBVIOUS
<1>1. /\ Elements(msgq) = {} /\ Elements(job) = {} /\ Elements(finished) = {}
      /\ heap = {} /\ copied = {} /\ Len(msgq) = 0 /\ Len(job) = 0
  BY OneHand DEF Init
<1>2. WaitsForNone /\ NoTwice
  BY <1>1 DEF Init, WaitsForNone, NoTwice, Distinct, Elements
<1>3. VerdictsMatch
  BY <1>1 DEF Init, VerdictsMatch, Handed, Command
<1>4. FinitelyMany /\ CopiesHaveOneOwner
  BY <1>1, FS_EmptySet DEF FinitelyMany, CopiesHaveOneOwner
<1>5. QED
  BY <1>2, <1>3, <1>4, InitIsTyped DEF OwnerInv

LEMMA OwnerInvNext == OwnerInv /\ [Next]_vars => OwnerInv'
<1> SUFFICES ASSUME OwnerInv, [Next]_vars PROVE OwnerInv'
  OBVIOUS
<1>1. TypeInv'
  BY TypeInvNext DEF OwnerInv
<1>2. ASSUME NEW s \in Session, i2c_tool_enqueue(s) PROVE OwnerInv'
  BY <1>1, <1>2, CopyArgsOwner, PutAcceptedOwner, PutRefusedOwner
     DEF i2c_tool_enqueue, OwnerInv
<1>3. CASE Worker
  BY <1>1, <1>3, WorkerOwner DEF OwnerInv
<1>4. CASE UNCHANGED vars
  <2>1. WaitsForNone' /\ NoTwice' /\ FinitelyMany'
    BY <1>4 DEF vars, OwnerInv, WaitsForNone, NoTwice, FinitelyMany, Distinct, Elements
  <2>2. VerdictsMatch' /\ CopiesHaveOneOwner'
    BY <1>4 DEF vars, OwnerInv, VerdictsMatch, CopiesHaveOneOwner, Handed, Elements,
                Current
  <2>3. QED
    BY <1>1, <2>1, <2>2 DEF OwnerInv
<1>5. QED
  BY <1>2, <1>3, <1>4 DEF Next

\* Every argv copy is freed exactly once, whoever holds it last: the session
\* whose command is refused or the worker that has run it; none is lost on the
\* way through the queue.
THEOREM CopiesAreFreedOnce == Spec => []CopiesHaveOneOwner
<1>1. OwnerInv => CopiesHaveOneOwner
  BY DEF OwnerInv
<1>2. QED
  BY <1>1, OwnerInvInit, OwnerInvNext, PTL DEF Spec

(***************************************************************************)
(* The worker implements a serial executor                                 *)
(***************************************************************************)

LEMMA TakeAndPutBack ==
  ASSUME NEW S, NEW q \in Seq(S), q # <<>>
  PROVE  <<Head(q)>> \o Tail(q) = q
<1>1. /\ Head(q) \in S /\ Tail(q) \in Seq(S) /\ Len(Tail(q)) = Len(q) - 1
      /\ Len(q) \in Nat \ {0} /\ Head(q) = q[1]
      /\ \A i \in 1..Len(Tail(q)) : Tail(q)[i] = q[i + 1]
  BY HeadTailProperties, EmptySeq
<1>2. <<Head(q)>> \in Seq(S) /\ Len(<<Head(q)>>) = 1 /\ <<Head(q)>>[1] = q[1]
  BY <1>1
<1>3. /\ <<Head(q)>> \o Tail(q) \in Seq(S)
      /\ Len(<<Head(q)>> \o Tail(q)) = Len(q)
      /\ \A i \in 1..Len(q) :
           (<<Head(q)>> \o Tail(q))[i] = IF i <= 1 THEN <<Head(q)>>[i] ELSE Tail(q)[i - 1]
  BY <1>1, <1>2, ConcatProperties
<1>4. ASSUME NEW i \in 1..Len(q) PROVE (<<Head(q)>> \o Tail(q))[i] = q[i]
  <2>1. CASE i = 1
    BY <1>2, <1>3, <2>1
  <2>2. CASE i # 1
    <3>1. ~(i <= 1) /\ i - 1 \in 1..Len(Tail(q)) /\ (i - 1) + 1 = i
      BY <1>1, <2>2
    <3>2. QED
      BY <1>1, <1>3, <3>1
  <2>3. QED
    BY <2>1, <2>2
<1>5. QED
  BY <1>3, <1>4, SeqEqual

LEMMA AfterTheFirst ==
  ASSUME NEW S, NEW e \in S, NEW p, p = <<e>>, NEW q \in Seq(S)
  PROVE  Head(p \o q) = e /\ Tail(p \o q) = q
<1>1. p \in Seq(S) /\ Len(p) = 1 /\ p[1] = e /\ Len(q) \in Nat
  BY LenProperties
<1>2. /\ p \o q \in Seq(S) /\ Len(p \o q) = 1 + Len(q)
      /\ \A i \in 1..(1 + Len(q)) : (p \o q)[i] = IF i <= 1 THEN p[i] ELSE q[i - 1]
  BY <1>1, ConcatProperties
<1>3. p \o q # <<>>
  BY <1>1, <1>2
<1>4. /\ Head(p \o q) = (p \o q)[1] /\ Tail(p \o q) \in Seq(S)
      /\ Len(Tail(p \o q)) = Len(q)
      /\ \A i \in 1..Len(q) : Tail(p \o q)[i] = (p \o q)[i + 1]
  BY <1>1, <1>2, <1>3, HeadTailProperties
<1>5. \A i \in 1..Len(q) : i + 1 \in 1..(1 + Len(q)) /\ ~(i + 1 <= 1) /\ (i + 1) - 1 = i
  BY <1>1
<1>6. Tail(p \o q) = q
  BY <1>2, <1>4, <1>5, SeqEqual
<1>7. QED
  BY <1>1, <1>2, <1>4, <1>6

LEMMA AcceptSimulates ==
  ASSUME OwnerInv, NEW s \in Session, PutAccepted(s)
  PROVE  [Serial!Next]_Serial!vars
<1> DEFINE c == Current(s)
           hand == IF wpc = "clean" THEN <<>> ELSE job
<1>1. s \in copied /\ UNCHANGED finished
  BY DEF PutAccepted
<1>2. c \in Command /\ c \notin Handed /\ c \notin Elements(finished)
  BY <1>1, CurrentIsNew DEF Handed
<1>3. /\ msgq \in Seq(Command) /\ finished \in Seq(Command) /\ hand \in Seq(Command)
      /\ Len(hand) \in Nat /\ Len(hand) <= 1 /\ Len(msgq) \in Nat
      /\ Elements(hand) \subseteq Elements(job)
  <2>1. job \in Seq(Command) /\ Len(job) \in Nat /\ Len(job) <= 1
    BY LenProperties DEF OwnerInv, TypeInv, TypeOK
  <2>2. <<>> \in Seq(Command) /\ Len(<<>>) = 0 /\ Elements(<<>>) = {}
    BY OneHand
  <2>3. hand = <<>> \/ hand = job
    OBVIOUS
  <2> HIDE DEF hand
  <2>4. hand \in Seq(Command) /\ Len(hand) \in Nat /\ Len(hand) <= 1
        /\ Elements(hand) \subseteq Elements(job)
    <3>1. CASE hand = <<>>
      BY <2>2, <3>1
    <3>2. CASE hand = job
      BY <2>1, <3>2
    <3>3. QED
      BY <2>3, <3>1, <3>2
  <2>5. QED
    BY <2>4, LenProperties DEF OwnerInv, TypeInv, TypeOK
<1> HIDE DEF hand, c
<1>4. /\ hand \o msgq \in Seq(Command)
      /\ Len(hand \o msgq) = Len(hand) + Len(msgq)
  BY <1>3, ConcatProperties
<1>5. c \notin Serial!Range((hand \o msgq) \o finished)
  <2>1. /\ (hand \o msgq) \o finished \in Seq(Command)
        /\ Len((hand \o msgq) \o finished) = Len(hand) + Len(msgq) + Len(finished)
        /\ DOMAIN ((hand \o msgq) \o finished) = 1..Len((hand \o msgq) \o finished)
        /\ Len(finished) \in Nat
    BY <1>3, <1>4, ConcatProperties, LenProperties
  <2>2. ASSUME NEW i \in 1..Len((hand \o msgq) \o finished)
        PROVE  ((hand \o msgq) \o finished)[i] # c
    <3>1. CASE i <= Len(hand)
      <4>1. i \in 1..Len(hand) /\ i <= Len(hand \o msgq)
        BY <1>3, <1>4, <3>1
      <4>2. ((hand \o msgq) \o finished)[i] = hand[i]
        BY <1>3, <1>4, <2>1, <2>2, <3>1, <4>1, ConcatProperties
      <4>3. hand[i] \in Elements(hand)
        BY <1>3, <4>1, LenProperties DEF Elements
      <4>4. QED
        BY <1>2, <1>3, <4>2, <4>3 DEF Handed
    <3>2. CASE i > Len(hand) /\ i <= Len(hand) + Len(msgq)
      <4>1. i - Len(hand) \in 1..Len(msgq) /\ i \in 1..(Len(hand) + Len(msgq))
            /\ ~(i <= Len(hand))
        BY <1>3, <3>2
      <4>2. ((hand \o msgq) \o finished)[i] = (hand \o msgq)[i]
        BY <1>3, <1>4, <2>1, <2>2, <3>2, ConcatProperties
      <4>3. (hand \o msgq)[i] = msgq[i - Len(hand)]
        BY <1>3, <4>1, ConcatProperties
      <4>4. msgq[i - Len(hand)] \in Elements(msgq)
        BY <1>3, <4>1, LenProperties DEF Elements
      <4>5. QED
        BY <1>2, <4>2, <4>3, <4>4 DEF Handed
    <3>3. CASE i > Len(hand) + Len(msgq)
      <4>1. i - Len(hand \o msgq) \in 1..Len(finished) /\ ~(i <= Len(hand \o msgq))
        BY <1>3, <1>4, <2>1, <2>2, <3>3
      <4>2. ((hand \o msgq) \o finished)[i] = finished[i - Len(hand \o msgq)]
        BY <1>3, <1>4, <2>1, <2>2, <4>1, ConcatProperties
      <4>3. finished[i - Len(hand \o msgq)] \in Elements(finished)
        BY <1>3, <4>1, LenProperties DEF Elements
      <4>4. QED
        BY <1>2, <4>2, <4>3
    <3>4. QED
      BY <1>3, <3>1, <3>2, <3>3
  <2>3. QED
    BY <2>1, <2>2 DEF Serial!Range
<1>6. /\ Len(hand \o msgq) < DEPTH + 1
      /\ (IF wpc = "clean" THEN <<>> ELSE job)' \o msgq' = Append(hand \o msgq, c)
      /\ (wpc \in {"run", "running", "exited", "aborted"})'
           = (wpc \in {"run", "running", "exited", "aborted"})
  <2>1. CASE wpc = "wait"
    <3>1. wpc' = "route" /\ job' = <<c>> /\ msgq' = <<>> /\ msgq = <<>> /\ hand = <<>>
      BY <2>1 DEF PutAccepted, OwnerInv, WaitsForNone, TypeInv, JobMatches, hand, c
    <3>2. <<c>> \in Seq(Command) /\ <<>> \in Seq(Command)
      BY <1>2
    <3>3. <<c>> \o <<>> = <<c>> /\ <<>> \o <<>> = <<>>
      BY <3>2, ConcatEmptySeq
    <3>4. Append(<<>>, c) = <<c>> /\ Len(<<>>) = 0
      OBVIOUS
    <3>5. 0 < DEPTH + 1
      BY DepthAssumption
    <3>6. QED
      BY <2>1, <3>1, <3>3, <3>4, <3>5
  <2>2. CASE wpc # "wait"
    <3>1. wpc' = wpc /\ job' = job /\ msgq' = Append(msgq, c) /\ ~(Len(msgq) >= DEPTH)
      BY <2>2 DEF PutAccepted, Enqueue, QueueIsFull, c
    <3>2. <<c>> \in Seq(Command)
      BY <1>2
    <3>3. msgq' = msgq \o <<c>> /\ Append(hand \o msgq, c) = (hand \o msgq) \o <<c>>
      BY <1>2, <1>3, <1>4, <3>1, AppendIsConcat
    <3>4. (hand \o msgq) \o <<c>> = hand \o (msgq \o <<c>>)
      BY <1>3, <3>2, ConcatAssociative
    <3>5. (IF wpc = "clean" THEN <<>> ELSE job)' = hand
      BY <3>1 DEF hand
    <3>6. Len(hand \o msgq) < DEPTH + 1
      BY <1>3, <1>4, <3>1, DepthAssumption
    <3>7. QED
      BY <3>1, <3>3, <3>4, <3>5, <3>6
  <2>3. QED
    BY <2>1, <2>2
<1>7. Serial!Accept(c)
  BY <1>1, <1>5, <1>6 DEF Serial!Accept, hand
<1>8. QED
  BY <1>2, <1>7 DEF Serial!Next

LEMMA WorkerSimulates ==
  ASSUME OwnerInv, Worker
  PROVE  [Serial!Next]_Serial!vars
<1> DEFINE backlog == (IF wpc = "clean" THEN <<>> ELSE job) \o msgq
           active == wpc \in {"run", "running", "exited", "aborted"}
<1>1. /\ msgq \in Seq(Command) /\ job \in Seq(Command) /\ finished \in Seq(Command)
      /\ <<>> \o msgq = msgq
  BY ConcatEmptySeq DEF OwnerInv, TypeInv, TypeOK
<1>2. ASSUME backlog' = backlog, active' = active, finished' = finished
      PROVE  UNCHANGED Serial!vars
  BY <1>2 DEF Serial!vars
<1>3. wpc \notin {"get", "wait"} => job = <<job[1]>> /\ job[1] \in Command
  BY <1>1, OneHand, JobIsCommand DEF OwnerInv, TypeInv, JobMatches
<1>4. CASE Get /\ msgq = <<>>
  <2>1. wpc = "get" /\ wpc' = "wait" /\ UNCHANGED <<msgq, job, finished>>
    BY <1>4 DEF Get
  <2>2. QED
    BY <1>2, <2>1
<1>5. CASE Get /\ msgq # <<>>
  <2>1. /\ wpc = "get" /\ wpc' = "route" /\ UNCHANGED finished
        /\ job' = <<Head(msgq)>> /\ msgq' = Tail(msgq) /\ job = <<>>
    BY <1>5 DEF Get, Taken, OwnerInv, TypeInv, JobMatches
  <2>2. <<Head(msgq)>> \o Tail(msgq) = msgq
    BY <1>1, <1>5, TakeAndPutBack
  <2>3. QED
    BY <1>1, <1>2, <2>1, <2>2
<1>6. CASE Route
  <2>1. wpc = "route" /\ wpc' = "run" /\ UNCHANGED <<msgq, job, finished>>
    BY <1>6 DEF Route
  <2>2. job # <<>>
    <3>1. Len(job) = 1 /\ Len(<<>>) = 0
      BY <2>1 DEF OwnerInv, TypeInv, JobMatches
    <3>2. QED
      BY <3>1
  <2>3. job \o msgq # <<>>
    BY <1>1, <2>2, ConcatEqualIffEmpty
  <2>4. Serial!Start
    BY <2>1, <2>3 DEF Serial!Start
  <2>5. QED
    BY <2>4 DEF Serial!Next
<1>7. CASE RunTool
  <2>1. wpc = "run" /\ wpc' = "running" /\ UNCHANGED <<msgq, job, finished>>
    BY <1>7 DEF RunTool
  <2>2. QED
    BY <1>2, <2>1
<1>8. CASE ToolEnds
  <2>1. wpc = "running" /\ UNCHANGED <<msgq, job>>
    BY <1>8 DEF ToolEnds
  <2>2. CASE wpc' = "clean" /\ finished' = Append(finished, job[1])
    <3>1. Head(job \o msgq) = job[1] /\ Tail(job \o msgq) = msgq
      BY <1>1, <1>3, <2>1, AfterTheFirst
    <3>2. (<<>> \o msgq)' = msgq
      BY <1>1, <2>1
    <3>3. backlog = job \o msgq /\ backlog' = Tail(backlog) /\ active /\ active' = FALSE
      BY <2>1, <2>2, <3>1, <3>2
    <3>4. finished' = Append(finished, Head(backlog))
      BY <2>2, <3>1, <3>3
    <3>5. Serial!Finish
      BY <3>3, <3>4 DEF Serial!Finish
    <3>6. QED
      BY <3>5 DEF Serial!Next
  <2>3. CASE wpc' \in {"exited", "aborted"} /\ finished' = finished
    <3>1. wpc # "clean" /\ wpc' # "clean" /\ active /\ active'
      BY <2>1, <2>3
    <3>2. QED
      BY <1>2, <2>1, <2>3, <3>1
  <2>4. QED
    BY <1>8, <2>2, <2>3 DEF ToolEnds
<1>9. CASE CleanUp
  <2>1. /\ wpc = "clean" /\ wpc' = "get" /\ job' = <<>> /\ UNCHANGED <<msgq, finished>>
    BY <1>9 DEF CleanUp
  <2>2. QED
    BY <1>2, <2>1
<1>10. QED
  BY <1>4, <1>5, <1>6, <1>7, <1>8, <1>9 DEF Worker

\* A session and its worker are a serial executor: an accepted command runs
\* exactly once, one at a time and in the order in which k_msgq_put accepted
\* them, and a refused one never does; for every number of sessions, every
\* depth of the queue and every way a tool may end.
THEOREM WorkerImplementsExecutor == Spec => ImplementsSerialExecutor
<1>1. Init => Serial!Init
  <2>1. <<>> \o <<>> = <<>>
    OBVIOUS
  <2>2. QED
    BY <2>1 DEF Init, Serial!Init
<1>2. OwnerInv /\ [Next]_vars => [Serial!Next]_Serial!vars
  <2> SUFFICES ASSUME OwnerInv, [Next]_vars PROVE [Serial!Next]_Serial!vars
    OBVIOUS
  <2>1. ASSUME NEW s \in Session, CopyArgs(s) \/ PutRefused(s)
        PROVE  [Serial!Next]_Serial!vars
    <3>1. UNCHANGED <<msgq, job, wpc, finished>>
      BY <2>1 DEF CopyArgs, PutRefused
    <3>2. QED
      BY <3>1 DEF Serial!vars
  <2>2. CASE UNCHANGED vars
    BY <2>2 DEF vars, Serial!vars
  <2>3. QED
    BY <2>1, <2>2, AcceptSimulates, WorkerSimulates DEF Next, i2c_tool_enqueue
<1>3. QED
  BY <1>1, <1>2, OwnerInvInit, OwnerInvNext, PTL
     DEF Spec, ImplementsSerialExecutor, Serial!Spec
=============================================================================
