---------------------------- MODULE SerialExecutor ----------------------------
(***************************************************************************)
(* What a shell command with a worker thread promises: an accepted command *)
(* runs exactly once, one at a time, in the order of acceptance, and at    *)
(* most Limit commands are accepted and unfinished.                        *)
(***************************************************************************)
EXTENDS Naturals, Sequences, Functions

CONSTANTS Command, Limit

VARIABLES
  backlog,   \* accepted and unfinished commands, the oldest first
  active,    \* the oldest is running
  completed  \* finished commands, in order

vars == <<backlog, active, completed>>

Init == backlog = <<>> /\ active = FALSE /\ completed = <<>>

Accept(c) ==
  /\ Len(backlog) < Limit
  /\ c \notin Range(backlog \o completed)
  /\ backlog' = Append(backlog, c)
  /\ UNCHANGED <<active, completed>>

Start ==
  /\ ~active /\ backlog # <<>>
  /\ active' = TRUE
  /\ UNCHANGED <<backlog, completed>>

Finish ==
  /\ active
  /\ active' = FALSE
  /\ completed' = Append(completed, Head(backlog))
  /\ backlog' = Tail(backlog)

Next == Start \/ Finish \/ \E c \in Command : Accept(c)

Spec == Init /\ [][Next]_vars
=============================================================================
