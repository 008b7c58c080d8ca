---------------------------- MODULE StartupOrder ----------------------------
(***************************************************************************)
(* What the thread dependency manager promises to a system that starts its *)
(* services from one thread: services come up one at a time, each after    *)
(* everything it needs is ready, and ready or failed is final.             *)
(***************************************************************************)
CONSTANT Name

VARIABLES
  needs,    \* the services each declared service depends on
  declared, \* services known to the manager
  quiet,    \* declared services that have no ready signal
  status,   \* INITIAL, RUNNING, READY or FAILED
  up        \* services that have signalled that they are ready

vars == <<needs, declared, quiet, status, up>>

Init ==
  /\ needs = [n \in Name |-> {}]
  /\ declared = {}
  /\ quiet = {}
  /\ status = [n \in Name |-> "INITIAL"]
  /\ up = {}

Declare(n) ==
  /\ n \notin declared
  /\ declared' = declared \cup {n}
  /\ \E deps \in SUBSET Name : needs' = [needs EXCEPT ![n] = deps]
  /\ quiet' \in {quiet, quiet \cup {n}}
  /\ UNCHANGED <<status, up>>

\* Nothing else is being started and every dependency is ready.
CanLaunch(n) ==
  /\ n \in declared
  /\ status[n] = "INITIAL"
  /\ \A m \in Name : status[m] # "RUNNING"
  /\ \A d \in needs[n] : status[d] = "READY"

Launch(n) ==
  /\ CanLaunch(n)
  /\ status' = [status EXCEPT ![n] = "RUNNING"]
  /\ UNCHANGED <<needs, declared, quiet, up>>

FailToLaunch(n) ==
  /\ CanLaunch(n)
  /\ status' = [status EXCEPT ![n] = "FAILED"]
  /\ UNCHANGED <<needs, declared, quiet, up>>

BecomeReady(n) ==
  /\ status[n] = "RUNNING"
  /\ n \in up \cup quiet
  /\ status' = [status EXCEPT ![n] = "READY"]
  /\ UNCHANGED <<needs, declared, quiet, up>>

GiveUp(n) ==
  /\ status[n] = "RUNNING"
  /\ status' = [status EXCEPT ![n] = "FAILED"]
  /\ UNCHANGED <<needs, declared, quiet, up>>

Signal(n) ==
  /\ up' = up \cup {n}
  /\ UNCHANGED <<needs, declared, quiet, status>>

Next ==
  \E n \in Name :
    \/ Declare(n) \/ Launch(n) \/ FailToLaunch(n)
    \/ BecomeReady(n) \/ GiveUp(n) \/ Signal(n)

Spec == Init /\ [][Next]_vars
=============================================================================
