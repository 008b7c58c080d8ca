--------------------------- MODULE BrokerLifecycle ---------------------------
(***************************************************************************)
(* The D-Bus broker thread of dbroker.c and the services that connect to   *)
(* it: deployment (socketpair, broker_new, listener), the two liveness     *)
(* flags, the end of the thread (broker_run returns, or abort()/_exit()    *)
(* kills it on the spot), and connect_to_dbroker with its retry loops.     *)
(*                                                                         *)
(* Time advances by Tick; a sleeping thread counts its timer down and may  *)
(* oversleep.  With Timely, nobody oversleeps: time passes only when every *)
(* thread is asleep or waits for somebody else.                            *)
(***************************************************************************)
EXTENDS Integers

CONSTANTS
  Client,            \* service threads
  broker,            \* the broker thread
  Faults,            \* what may go wrong, see FaultKind
  Timely,            \* no thread oversleeps
  MaxCalls,          \* bound: calls of connect_to_dbroker per client
  LISTENER_DELAY,    \* the sleeps of the broker thread, in ticks
  ALIVE_DELAY,
  RUN_DELAY,
  FIRST_DELAY,       \* the sleep of the first client
  CONNECT_RETRIES,   \* iterations of the two loops of connect_to_dbroker
  READY_RETRIES

FaultKind == {"deploy", "exit", "abort", "socket", "setup"}

Thread == Client \cup {broker}

ASSUME ThreadsAssumption ==
  /\ broker \notin Client
  /\ Faults \subseteq FaultKind
  /\ Timely \in BOOLEAN

ASSUME BudgetsAssumption ==
  /\ {MaxCalls, CONNECT_RETRIES, READY_RETRIES} \subseteq Nat
  /\ {LISTENER_DELAY, ALIVE_DELAY, RUN_DELAY, FIRST_DELAY} \subseteq Nat

VARIABLES
  bpc,             \* where the broker thread is
  held,            \* what is open: see Resource
  broker_ready,    \* deploy_state.broker_ready
  alive,           \* g_broker_alive
  was_alive,       \* g_broker_was_alive
  released,        \* dbus_broker_ready_sem was given: services may start
  broker_started,  \* the static of connect_to_dbroker
  cpc,             \* where each client is
  timer,           \* ticks every thread still sleeps
  tries,           \* retry_count of each client
  link,            \* the connection of each client
  ret,             \* the value connect_to_dbroker last returned
  calls,           \* calls each client has made
  late             \* history: the call began after the broker had ended

bvars == <<bpc, held, broker_ready, alive, was_alive>>
cvars == <<broker_started, cpc, tries, ret, calls, late>>
vars  == <<bvars, cvars, released, timer, link>>

BPc == {"socketpair", "new", "socket", "listen", "add", "publish", "alive",
        "was", "run", "stopped", "failed", "over", "dead"}

\* The two ends of the socketpair.
g_controller_fds == {"fds[0]", "fds[1]"}

\* The listener's descriptor before and after listen(); "adopted": the broker
\* has taken the listener over.
Resource == g_controller_fds \cup {"broker", "unbound", "listener", "adopted"}

CPc == {"idle", "first", "check_was", "check_alive", "try", "setup", "ready"}

\* From the client's socket() to the bus that owns the descriptor.
Link == {"none", "socket", "pending", "answered", "up", "hungup"}

Outcome == {"none", "ok", "refused", "ENOTCONN", "ETIMEDOUT", "error"}

Sleep(t, n) == timer' = [timer EXCEPT ![t] = n]

Awake(t) == timer[t] = 0

(***************************************************************************)
(* The broker thread                                                       *)
(***************************************************************************)

BGoto(from, to) == bpc = from /\ bpc' = to /\ Awake(broker)

socketpair ==
  /\ BGoto("socketpair", "new")
  /\ held' = held \cup g_controller_fds
  /\ UNCHANGED <<broker_ready, alive, was_alive, cvars, released, timer, link>>

broker_new ==
  /\ BGoto("new", "socket")
  /\ held' = held \cup {"broker"}
  /\ Sleep(broker, LISTENER_DELAY)
  /\ UNCHANGED <<broker_ready, alive, was_alive, cvars, released, link>>

OpenListener ==
  /\ BGoto("socket", "listen")
  /\ held' = held \cup {"unbound"}
  /\ UNCHANGED <<broker_ready, alive, was_alive, cvars, released, timer, link>>

\* bind and listen: from here on connect() of a client succeeds.
create_listener_socket ==
  /\ BGoto("listen", "add")
  /\ held' = (held \ {"unbound"}) \cup {"listener"}
  /\ UNCHANGED <<broker_ready, alive, was_alive, cvars, released, timer, link>>

add_listener_to_broker ==
  /\ BGoto("add", "publish")
  /\ held' = held \cup {"adopted"}
  /\ UNCHANGED <<broker_ready, alive, was_alive, cvars, released, timer, link>>

\* Under deploy_state.lock.
PublishReady ==
  /\ BGoto("publish", "alive")
  /\ broker_ready' = TRUE
  /\ Sleep(broker, ALIVE_DELAY)
  /\ UNCHANGED <<held, alive, was_alive, cvars, released, link>>

MarkAlive ==
  /\ BGoto("alive", "was")
  /\ alive' = TRUE
  /\ UNCHANGED <<held, broker_ready, was_alive, cvars, released, timer, link>>

MarkWasAlive ==
  /\ BGoto("was", "run")
  /\ was_alive' = TRUE
  /\ Sleep(broker, RUN_DELAY)
  /\ UNCHANGED <<held, broker_ready, alive, cvars, released, link>>

\* External: the broker goes with the listener it has adopted, if it has.
broker_free(open) ==
  open \ ({"broker", "adopted"} \cup IF "adopted" \in open THEN {"listener"} ELSE {})

\* Fault: no exit closes the listener by itself.
LeavesListener(pc) == broker_free(held) \ g_controller_fds

\* The closes of each failing exit of standard_broker_deployment.
LeftOpen(pc) ==
  CASE pc = "socketpair" -> held
    [] pc = "new" -> held \ g_controller_fds
    [] pc = "socket" -> broker_free(held) \ g_controller_fds
    [] pc = "listen" -> broker_free(held \ {"unbound"}) \ g_controller_fds
    [] pc = "add" -> broker_free(held \ {"listener"}) \ g_controller_fds

DeploymentFails ==
  /\ "deploy" \in Faults
  /\ \E pc \in {"socketpair", "new", "socket", "listen", "add"} :
       BGoto(pc, "failed") /\ held' = LeftOpen(pc)
  /\ UNCHANGED <<broker_ready, alive, was_alive, cvars, released, timer, link>>

\* broker_run accepts a connection and answers its Hello.
Serve(c) ==
  /\ bpc = "run" /\ Awake(broker)
  /\ cpc[c] = "ready"
  /\ link[c] = "pending"
  /\ link' = [link EXCEPT ![c] = "answered"]
  /\ UNCHANGED <<bvars, cvars, released, timer>>

\* broker_run returns: broker_free, which hangs up on every connection too, and
\* the controller fds are closed.
BrokerRunReturns ==
  /\ "exit" \in Faults
  /\ BGoto("run", "stopped")
  /\ held' = broker_free(held) \ g_controller_fds
  /\ link' = [c \in Client |-> IF link[c] = "pending" THEN "hungup" ELSE link[c]]
  /\ UNCHANGED <<broker_ready, alive, was_alive, cvars, released, timer>>

\* Fault: the thread ends without clearing the flag.
EndsSilently ==
  /\ bpc \in {"stopped", "failed"} /\ bpc' = "over"
  /\ UNCHANGED <<held, broker_ready, alive, was_alive, cvars, released, timer, link>>

\* broker_thread_entry after deploy_standard_broker.
BrokerThreadEnds ==
  /\ bpc \in {"stopped", "failed"} /\ bpc' = "over"
  /\ alive' = FALSE
  /\ UNCHANGED <<held, broker_ready, was_alive, cvars, released, timer, link>>

\* _exit() or abort() on the broker thread: k_thread_abort, nothing is undone.
BrokerAborts ==
  /\ "abort" \in Faults
  /\ bpc \notin {"over", "dead"} /\ Awake(broker)
  /\ bpc' = "dead"
  /\ UNCHANGED <<held, broker_ready, alive, was_alive, cvars, released, timer, link>>

Deploy ==
  \/ socketpair \/ broker_new \/ OpenListener \/ create_listener_socket
  \/ add_listener_to_broker \/ PublishReady \/ MarkAlive \/ MarkWasAlive
  \/ BrokerThreadEnds

\* dbus_broker_init of task_def.cpp, called by the thread dependency manager.
dbus_broker_init ==
  /\ ~released
  /\ released' = TRUE
  /\ UNCHANGED <<bvars, cvars, timer, link>>

(***************************************************************************)
(* The clients: connect_to_dbroker and disconnect_from_dbroker             *)
(***************************************************************************)

At(c, pc) == cpc[c] = pc /\ Awake(c)

Goto(c, pc) == cpc' = [cpc EXCEPT ![c] = pc]

Return(c, r) == Goto(c, "idle") /\ ret' = [ret EXCEPT ![c] = r]

SetLink(c, l) == link' = [link EXCEPT ![c] = l]

Ended == bpc \in {"over", "dead"}

Begin(c) ==
  /\ released
  /\ At(c, "idle")
  /\ calls[c] < MaxCalls
  /\ link[c] = "none"
  /\ calls' = [calls EXCEPT ![c] = @ + 1]
  /\ late' = [late EXCEPT ![c] = Ended /\ was_alive]
  /\ tries' = [tries EXCEPT ![c] = 0]
  /\ \/ broker_started /\ Goto(c, "check_was") /\ UNCHANGED timer
     \/ ~broker_started /\ Goto(c, "first") /\ Sleep(c, FIRST_DELAY)
  /\ UNCHANGED <<bvars, broker_started, ret, released, link>>

FirstClientWaited(c) ==
  /\ At(c, "first")
  /\ Goto(c, "check_was")
  /\ broker_started' = TRUE
  /\ UNCHANGED <<bvars, tries, ret, calls, late, released, timer, link>>

\* Fault: only g_broker_alive is looked at.
LooksAtAliveOnly(c) == "check_alive"

AfterCheckWas(c) == IF was_alive THEN "check_alive" ELSE "try"

\* The two flags are read one after the other, without a lock.
CheckWasAlive(c) ==
  /\ At(c, "check_was")
  /\ Goto(c, AfterCheckWas(c))
  /\ UNCHANGED <<bvars, broker_started, tries, ret, calls, late, released, timer, link>>

CheckAlive(c) ==
  /\ At(c, "check_alive")
  /\ \/ alive /\ Goto(c, "try") /\ UNCHANGED ret
     \/ ~alive /\ Return(c, "refused")
  /\ UNCHANGED <<bvars, broker_started, tries, calls, late, released, timer, link>>

\* Fault: a failed socket() jumps past the increment.
RetriesUncounted(c) == tries

\* Fault: the counter goes the wrong way.
CountsDown(c) == [tries EXCEPT ![c] = @ - 1]

CountRetry(c) == [tries EXCEPT ![c] = @ + 1]

InLoop(c) == At(c, "try") /\ tries[c] < CONNECT_RETRIES

\* socket() succeeds, or the attempt is over.
OpenSocket(c) ==
  /\ InLoop(c)
  /\ link[c] = "none"
  /\ \/ SetLink(c, "socket") /\ UNCHANGED <<tries, timer>>
     \/ "socket" \in Faults /\ tries' = CountRetry(c) /\ Sleep(c, 1) /\ UNCHANGED link
  /\ UNCHANGED <<bvars, broker_started, cpc, ret, calls, late, released>>

\* connect() succeeds as long as somebody listens on the path, even if the
\* broker behind it does not run yet or any more.
ConnectSucceeds(c) ==
  /\ InLoop(c)
  /\ link[c] = "socket"
  /\ "listener" \in held
  /\ SetLink(c, "pending")
  /\ Goto(c, "setup")
  /\ UNCHANGED <<bvars, broker_started, tries, ret, calls, late, released, timer>>

\* Fault: the socket is not closed when connect() fails.
LeaksSocket(c) == UNCHANGED link

CloseSocket(c) == SetLink(c, "none")

\* connect() fails: close, count, sleep, retry.
ConnectFails(c) ==
  /\ InLoop(c)
  /\ link[c] = "socket"
  /\ "listener" \in held => "socket" \in Faults
  /\ CloseSocket(c)
  /\ tries' = CountRetry(c)
  /\ Sleep(c, 1)
  /\ UNCHANGED <<bvars, broker_started, cpc, ret, calls, late, released>>

\* The retries are used up, and no socket is open.
GiveUp(c) ==
  /\ At(c, "try")
  /\ tries[c] >= CONNECT_RETRIES
  /\ Return(c, "ENOTCONN")
  /\ UNCHANGED <<bvars, broker_started, tries, calls, late, released, timer, link>>

\* sd_bus_new, sd_bus_set_bus_client and sd_bus_set_fd, each of which may
\* fail; sd_bus_start sends the Hello.
SetUpBus(c) ==
  /\ At(c, "setup")
  /\ \/ /\ Goto(c, "ready")
        /\ tries' = [tries EXCEPT ![c] = 0]
        /\ UNCHANGED <<ret, link>>
     \/ /\ "setup" \in Faults
        /\ Return(c, "error")
        /\ SetLink(c, "none")
        /\ UNCHANGED tries
  /\ UNCHANGED <<bvars, broker_started, calls, late, released, timer>>

\* Fault: the rounds are longer than the budget allows for.
PollsSlowly(c) == Sleep(c, 25)

PollSleep(c) == Sleep(c, 1)

\* One round of sd_bus_process and a sleep.
Poll(c) ==
  /\ At(c, "ready")
  /\ link[c] \in {"pending", "answered"}
  /\ tries[c] < READY_RETRIES
  /\ SetLink(c, IF link[c] = "answered" THEN "up" ELSE "pending")
  /\ tries' = [tries EXCEPT ![c] = @ + 1]
  /\ PollSleep(c)
  /\ UNCHANGED <<bvars, broker_started, cpc, ret, calls, late, released>>

\* sd_bus_process failed, or the rounds are used up: the bus is unreferenced.
NotReady(c) ==
  /\ At(c, "ready")
  /\ \/ link[c] = "hungup"
     \/ link[c] \in {"pending", "answered"} /\ tries[c] >= READY_RETRIES
  /\ SetLink(c, "none")
  /\ Return(c, "ETIMEDOUT")
  /\ UNCHANGED <<bvars, broker_started, tries, calls, late, released, timer>>

BusReady(c) ==
  /\ At(c, "ready")
  /\ link[c] = "up"
  /\ Return(c, "ok")
  /\ UNCHANGED <<bvars, broker_started, tries, calls, late, released, timer, link>>

disconnect_from_dbroker(c) ==
  /\ At(c, "idle")
  /\ link[c] # "none"
  /\ SetLink(c, "none")
  /\ ret' = [ret EXCEPT ![c] = "none"]
  /\ Sleep(c, 1)
  /\ UNCHANGED <<bvars, broker_started, cpc, tries, calls, late, released>>

connect_to_dbroker(c) ==
  \/ FirstClientWaited(c) \/ CheckWasAlive(c) \/ CheckAlive(c)
  \/ OpenSocket(c) \/ ConnectSucceeds(c) \/ ConnectFails(c) \/ GiveUp(c)
  \/ SetUpBus(c) \/ Poll(c) \/ NotReady(c) \/ BusReady(c)

(***************************************************************************)
(* Time                                                                    *)
(***************************************************************************)

\* Somebody who is not asleep has work to do.
Runnable ==
  \/ Awake(broker) /\ bpc \notin {"run", "over", "dead"}
  \/ Awake(broker) /\ bpc = "run" /\
       \E c \in Client : cpc[c] = "ready" /\ link[c] = "pending"
  \/ \E c \in Client : Awake(c) /\ cpc[c] # "idle"

Tick ==
  /\ \E t \in Thread : timer[t] > 0
  /\ Timely => ~Runnable
  /\ timer' = [t \in Thread |-> IF timer[t] > 0 THEN timer[t] - 1 ELSE 0]
  /\ UNCHANGED <<bvars, cvars, released, link>>

(***************************************************************************)
(* Specification                                                           *)
(***************************************************************************)

Init ==
  /\ bpc = "socketpair"
  /\ held = {}
  /\ broker_ready = FALSE
  /\ alive = FALSE
  /\ was_alive = FALSE
  /\ released = FALSE
  /\ broker_started = FALSE
  /\ cpc = [c \in Client |-> "idle"]
  /\ timer = [t \in Thread |-> 0]
  /\ tries = [c \in Client |-> 0]
  /\ link = [c \in Client |-> "none"]
  /\ ret = [c \in Client |-> "none"]
  /\ calls = [c \in Client |-> 0]
  /\ late = [c \in Client |-> FALSE]

Next ==
  \/ Deploy \/ DeploymentFails \/ BrokerRunReturns \/ BrokerAborts
  \/ dbus_broker_init
  \/ \E c \in Client :
       Serve(c) \/ Begin(c) \/ connect_to_dbroker(c) \/ disconnect_from_dbroker(c)
  \/ Tick

\* The clock runs and a thread that can run eventually does; nobody is obliged
\* to call, and the broker may wait as long as it likes before it answers.
Fairness ==
  /\ WF_vars(Tick)
  /\ \A c \in Client : WF_vars(connect_to_dbroker(c))

Spec == Init /\ [][Next]_vars

FairSpec == Spec /\ Fairness

(***************************************************************************)
(* Properties                                                              *)
(***************************************************************************)

TypeOK ==
  /\ bpc \in BPc
  /\ held \subseteq Resource
  /\ broker_ready \in BOOLEAN
  /\ alive \in BOOLEAN
  /\ was_alive \in BOOLEAN
  /\ released \in BOOLEAN
  /\ broker_started \in BOOLEAN
  /\ cpc \in [Client -> CPc]
  /\ timer \in [Thread -> Nat]
  /\ tries \in [Client -> Nat]
  /\ link \in [Client -> Link]
  /\ ret \in [Client -> Outcome]
  /\ calls \in [Client -> Nat]
  /\ late \in [Client -> BOOLEAN]

\* "If the broker was alive before but has since exited, fail fast"
\* (dbroker.c:319): a client is refused only when the broker thread is over,
\* although the two flags are written and read one by one and not under a
\* lock, and clients come before, during and after the deployment.
RefusedOnlyAfterExit == \A c \in Client : ret[c] = "refused" => bpc = "over"

\* On each of its exits connect_to_dbroker returns 0 with a bus the caller owns,
\* or an error and nothing left open - no socket of a failed attempt, no bus -
\* whatever the broker does meanwhile.
BusIffSuccess ==
  \A c \in Client : cpc[c] = "idle" => (link[c] = "up" <=> ret[c] = "ok") /\
                                       (link[c] = "none" <=> ret[c] # "ok")

\* A broker thread that ends by itself has closed both controller fds and the
\* listener and freed the broker: each failing exit of the deployment has a list
\* of its own of what is open by then (dbroker.c:153), and the listener is closed
\* by hand as long as the broker has not adopted it.
EndsWithNothingHeld == bpc = "over" => held = {}

\* A call that begins after broker_run has returned and the thread has ended is
\* refused at once: it never gets to the loops.
FailsFastOnceOver ==
  \A c \in Client : late[c] /\ bpc = "over" => cpc[c] \notin {"try", "setup", "ready"}

\* "Tracks broker liveness so clients can fail fast once the broker has died
\* (instead of hanging on a ~20s ETIMEDOUT connect loop)" (dbroker.c:70): a call
\* that begins after the death of a broker that was up never gets to the loops.
FailsFastOnceDead ==
  \A c \in Client : late[c] => cpc[c] \notin {"try", "setup", "ready"}

\* A call of connect_to_dbroker returns, whatever fails.
ConnectReturns == \A c \in Client : cpc[c] # "idle" ~> cpc[c] = "idle"
=============================================================================
