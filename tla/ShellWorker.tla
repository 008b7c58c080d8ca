----------------------------- MODULE ShellWorker -----------------------------
(***************************************************************************)
(* The worker threads behind the shell commands: busctl_shell.c and        *)
(* i2c_tools_shell.c.  Shell sessions copy the argument vector and hand it *)
(* over through a message queue of depth 1; one persistent thread per tool *)
(* runs the commands and frees the copies.                                 *)
(***************************************************************************)
EXTENDS Integers, Sequences, FiniteSets

CONSTANTS
  Session,     \* shell sessions (serial, SSH)
  NoSession,   \* a NULL shell pointer
  Tools,       \* which of the two files are considered: "busctl", "i2c"
  Endings,     \* how the tool may end: "return", "exit", "abort"
  DEPTH,       \* max_msgs of K_MSGQ_DEFINE
  MaxCmds      \* bound: commands typed per session

ASSUME SessionsAssumption ==
  /\ NoSession \notin Session
  /\ Tools \subseteq {"busctl", "i2c"}
  /\ Endings \subseteq {"return", "exit", "abort"}

ASSUME DepthAssumption == DEPTH \in Nat /\ MaxCmds \in Nat

\* The k-th command of session s, with its own heap copy of argv.
Command == Session \X (1..MaxCmds)

VARIABLES
  tool,      \* which of the two workers this is (never changes)
  typed,     \* commands each session has typed
  copied,    \* sessions between the copy and k_msgq_put
  heap,      \* commands whose argv copy is allocated
  msgq,      \* the message queue
  wpc,       \* where the worker is
  job,       \* its args: <<>> or one command
  shell,     \* g_busctl_shell or g_i2ctools_shell
  opened,    \* a character device is marked as open
  verdict,   \* what k_msgq_put and malloc said, per command
  finished   \* history: commands whose tool ended, in order

vars == <<tool, typed, copied, heap, msgq, wpc, job, shell, opened, verdict, finished>>

WPc == {"get", "wait", "route", "run", "running", "clean",
        "exited", "aborted"}

(***************************************************************************)
(* cmd_busctl, i2c_tool_enqueue                                            *)
(***************************************************************************)

Current(s) == <<s, typed[s]>>

\* The copy of argv; out of memory undoes what was copied so far.
CopyArgs(s) ==
  /\ s \notin copied
  /\ typed[s] < MaxCmds
  /\ typed' = [typed EXCEPT ![s] = @ + 1]
  /\ \/ /\ copied' = copied \cup {s}
        /\ heap' = heap \cup {Current(s)'}
        /\ UNCHANGED verdict
     \/ /\ verdict' = [verdict EXCEPT ![Current(s)'] = "ENOMEM"]
        /\ UNCHANGED <<copied, heap>>
  /\ UNCHANGED <<tool, msgq, wpc, job, shell, opened, finished>>

Enqueue(s) == msgq' = Append(msgq, Current(s))

\* Fault: the queue is taken for one longer than it is.
OffByOne == Len(msgq) > DEPTH

QueueIsFull == Len(msgq) >= DEPTH

\* k_msgq_put: a waiting worker is handed the message, else it is queued.
PutAccepted(s) ==
  /\ s \in copied
  /\ copied' = copied \ {s}
  /\ verdict' = [verdict EXCEPT ![Current(s)] = "ok"]
  /\ \/ /\ wpc = "wait"
        /\ wpc' = "route"
        /\ job' = <<Current(s)>>
        /\ UNCHANGED msgq
     \/ /\ wpc # "wait"
        /\ ~QueueIsFull
        /\ Enqueue(s)
        /\ UNCHANGED <<wpc, job>>
  /\ UNCHANGED <<tool, typed, heap, shell, opened, finished>>

\* Fault: the refused copy is not freed.
LeaksCopy(s) == UNCHANGED heap

FreeCopy(s) == heap' = heap \ {Current(s)}

\* The queue is full and the command is refused.
PutRefused(s) ==
  /\ s \in copied
  /\ wpc # "wait"
  /\ QueueIsFull
  /\ copied' = copied \ {s}
  /\ FreeCopy(s)
  /\ verdict' = [verdict EXCEPT ![Current(s)] = "EBUSY"]
  /\ UNCHANGED <<tool, typed, msgq, wpc, job, shell, opened, finished>>

\* cmd_busctl of busctl_shell.c does the same.
i2c_tool_enqueue(s) == CopyArgs(s) \/ PutAccepted(s) \/ PutRefused(s)

(***************************************************************************)
(* busctl_worker_fn, i2c_tools_worker_fn                                   *)
(***************************************************************************)

\* Fault: the message is read and stays in the queue.
PeeksOnly(q) == q

Taken(q) == Tail(q)

Get ==
  /\ wpc = "get"
  /\ \/ /\ msgq = <<>>
        /\ wpc' = "wait"
        /\ UNCHANGED <<msgq, job>>
     \/ /\ msgq # <<>>
        /\ wpc' = "route"
        /\ job' = <<Head(msgq)>>
        /\ msgq' = Taken(msgq)
  /\ UNCHANGED <<tool, typed, copied, heap, shell, opened, verdict, finished>>

Route ==
  /\ wpc = "route"
  /\ wpc' = "run"
  /\ shell' = job[1][1]
  /\ UNCHANGED <<tool, typed, copied, heap, msgq, job, opened, verdict, finished>>

\* The tool starts; an i2c tool usually opens a character device.
RunTool ==
  /\ wpc = "run"
  /\ wpc' = "running"
  /\ opened' \in {opened, opened \/ tool = "i2c"}
  /\ UNCHANGED <<tool, typed, copied, heap, msgq, job, shell, verdict, finished>>

\* Fault: exit() of a tool is not caught by setjmp.
ExitKills == FALSE

CatchesExit == tool = "i2c"

\* The tool returns and has closed its device; exit() comes back through
\* longjmp, with the device still open, or ends the thread; abort() ends it.
ToolEnds ==
  /\ wpc = "running"
  /\ \/ /\ "return" \in Endings
        /\ wpc' = "clean"
        /\ opened' = FALSE
        /\ finished' = Append(finished, job[1])
     \/ /\ "exit" \in Endings
        /\ CatchesExit
        /\ wpc' = "clean"
        /\ finished' = Append(finished, job[1])
        /\ UNCHANGED opened
     \/ /\ "exit" \in Endings
        /\ ~CatchesExit
        /\ wpc' = "exited"
        /\ UNCHANGED <<opened, finished>>
     \/ /\ "abort" \in Endings
        /\ wpc' = "aborted"
        /\ UNCHANGED <<opened, finished>>
  /\ UNCHANGED <<tool, typed, copied, heap, msgq, job, shell, verdict>>

\* Fault: the device an exit() left open stays open.
KeepsOpen == opened

\* i2c_fs_force_release; busctl has no such call and no device.
OpenedAfterCleanup == IF tool = "i2c" THEN FALSE ELSE opened

\* i2c_fs_force_release, free of the copy, NULL in the shell pointer.
CleanUp ==
  /\ wpc = "clean"
  /\ wpc' = "get"
  /\ opened' = OpenedAfterCleanup
  /\ heap' = heap \ {job[1]}
  /\ job' = <<>>
  /\ shell' = NoSession
  /\ UNCHANGED <<tool, typed, copied, msgq, verdict, finished>>

Worker == Get \/ Route \/ RunTool \/ ToolEnds \/ CleanUp

(***************************************************************************)
(* Specification                                                           *)
(***************************************************************************)

Init ==
  /\ tool \in Tools
  /\ typed = [s \in Session |-> 0]
  /\ copied = {}
  /\ heap = {}
  /\ msgq = <<>>
  /\ wpc = "get"
  /\ job = <<>>
  /\ shell = NoSession
  /\ opened = FALSE
  /\ verdict = [c \in Command |-> "none"]
  /\ finished = <<>>

Next ==
  \/ \E s \in Session : i2c_tool_enqueue(s)
  \/ Worker

\* The worker is scheduled and a tool that runs eventually ends.
FairSpec == Init /\ [][Next]_vars /\ WF_vars(Worker)

Spec == Init /\ [][Next]_vars

(***************************************************************************)
(* Properties                                                              *)
(***************************************************************************)

TypeOK ==
  /\ tool \in Tools
  /\ typed \in [Session -> 0..MaxCmds]
  /\ copied \subseteq Session
  /\ heap \subseteq Command
  /\ msgq \in Seq(Command) /\ Len(msgq) <= DEPTH
  /\ wpc \in WPc
  /\ job \in Seq(Command) /\ Len(job) <= 1
  /\ shell \in Session \cup {NoSession}
  /\ opened \in BOOLEAN
  /\ verdict \in [Command -> {"none", "ok", "EBUSY", "ENOMEM"}]
  /\ finished \in Seq(Command)

Elements(q) == {q[i] : i \in DOMAIN q}

\* Every argv copy that is allocated belongs to exactly one of a session, the
\* queue and the worker, and they hold no other: nothing leaks, nothing is
\* freed twice and the worker never runs on freed arguments.
CopiesHaveOneOwner ==
  /\ heap = {Current(s) : s \in copied} \cup Elements(msgq) \cup Elements(job)
  /\ Cardinality(heap) = Cardinality(copied) + Len(msgq) + Len(job)

\* "Force-release all i2c char-dev opens here so the next command starts
\* clean" (i2c_tools_shell.c:98): however the previous command ended.
StartsClean == wpc \in {"get", "wait", "route", "run"} => ~opened

\* A refused command leaves no trace and an accepted one is never forgotten.
Serial == INSTANCE SerialExecutor WITH
  Limit     <- DEPTH + 1,
  backlog   <- (IF wpc = "clean" THEN <<>> ELSE job) \o msgq,
  active    <- wpc \in {"run", "running", "exited", "aborted"},
  completed <- finished

ImplementsSerialExecutor == Serial!Spec

\* An accepted command is eventually done with, even if commands before it
\* called exit(); only abort(), and exit() under busctl, end the worker.
AcceptedIsDone ==
  \A c \in Command :
    verdict[c] = "ok" ~> \/ \E i \in DOMAIN finished : finished[i] = c
                         \/ wpc = "aborted"
                         \/ wpc = "exited" /\ tool = "busctl"
=============================================================================
