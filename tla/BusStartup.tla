----------------------------- MODULE BusStartup -----------------------------
(***************************************************************************)
(* The boot of BmcBoot together with the broker of BrokerLifecycle, on one *)
(* clock: the broker thread deploys itself beside main; the routine of a   *)
(* service (external) first calls connect_to_dbroker and gives its ready   *)
(* semaphore only with a bus in hand; the manager waits for the semaphore  *)
(* with a timeout of its own, and so does the network set-up.  Nobody      *)
(* oversleeps.  The unit of time is the 100 ms of BrokerLifecycle.         *)
(***************************************************************************)
EXTENDS BmcBoot

CONSTANTS
  broker, Faults,
  LISTENER_DELAY, ALIVE_DELAY, RUN_DELAY, FIRST_DELAY,
  CONNECT_RETRIES, READY_RETRIES,
  READY_TIMEOUT,   \* how long the manager waits for a ready_sem
  NET_TIMEOUT      \* CONFIG_NET_CONFIG_INIT_TIMEOUT

ASSUME TimeoutsAssumption ==
  /\ {READY_TIMEOUT, NET_TIMEOUT, CONNECT_RETRIES, READY_RETRIES} \subseteq Nat
  /\ {LISTENER_DELAY, ALIVE_DELAY, RUN_DELAY, FIRST_DELAY} \subseteq Nat

\* The broker thread is none of the services the manager starts.
ASSUME BrokerAssumption == broker \notin Name

VARIABLES
  bpc, held, broker_ready, alive, was_alive, broker_started, cpc, timer, tries,
  link, ret, calls, late,
  patience,   \* ticks main still waits in k_sem_take
  net_left    \* ticks the network set-up may still take

BusClient == Name \ {"dbus_broker", "net_stack_cfg"}

\* dbus_broker_init gives dbus_broker_ready_sem, which releases the services.
B == INSTANCE BrokerLifecycle WITH
       Client   <- BusClient,
       Timely   <- TRUE,
       MaxCalls <- 1,
       released <- signalled["dbus_broker"]

broker_state == <<bpc, held, broker_ready, alive, was_alive>>
client_state == <<broker_started, cpc, tries, ret, calls, late, link>>
bus_state    == <<broker_state, client_state, timer>>

clocks == <<patience, net_left>>

(***************************************************************************)
(* The threads                                                             *)
(***************************************************************************)

BrokerStep ==
  /\ UNCHANGED <<all_vars, clocks>>
  /\ \/ B!Deploy \/ B!DeploymentFails \/ B!BrokerRunReturns \/ B!BrokerAborts
     \/ \E n \in BusClient : B!Serve(n)

\* Inside k_sem_take(desc->ready_sem, ...) with nothing to take.
Waits(c) == At(c, "signal") /\ sem[Top(c).name] = 0

\* InitReturned is followed by the take.
StartsWaiting(c) == At(c, "inited")

Main(c) ==
  /\ MainThread(c)
  /\ Waits(c) => patience = 0
  /\ patience' = IF StartsWaiting(c) THEN READY_TIMEOUT ELSE 0
  /\ UNCHANGED <<bus_state, net_left>>

Constructors ==
  /\ Register \/ fs_mount
  /\ UNCHANGED <<bus_state, clocks>>

Trampoline(n) ==
  /\ task_trampoline(n)
  /\ net_left' = IF n = "net_stack_cfg" THEN NET_TIMEOUT ELSE net_left
  /\ UNCHANGED <<bus_state, patience>>

\* The first thing a routine does with the bus.
Connects(n) ==
  /\ n \in BusClient
  /\ task[n] = "routine"
  /\ UNCHANGED <<all_vars, clocks>>
  /\ B!Begin(n) \/ B!connect_to_dbroker(n)

HasBus(n) == n \in BusClient => ret[n] = "ok"

Signals(n) ==
  /\ HasBus(n)
  /\ ServiceIsReady(n)
  /\ UNCHANGED <<bus_state, clocks>>

\* A service without a bus returns.
Returns(n) ==
  /\ n \in BusClient
  /\ ret[n] \notin {"none", "ok"}
  /\ RoutineEnds(n)
  /\ UNCHANGED <<bus_state, clocks>>

\* The set-up fails for want of a device, or when its time is over; it can
\* succeed at any moment before.
SetsUpNetwork ==
  /\ net_stack_cfg_do_once
  /\ net' = "ok" => net_left > 0
  /\ net' = "failed" => net_left \in {0, NET_TIMEOUT}
  /\ net_left' = 0
  /\ UNCHANGED <<bus_state, patience>>

Service(n) == Trampoline(n) \/ Connects(n) \/ Signals(n) \/ Returns(n)

(***************************************************************************)
(* Time                                                                    *)
(***************************************************************************)

\* The mounts take as long as they like.
MainIsIdle ==
  \/ boot \in FileSystem
  \/ \A c \in Caller : Done(c) \/ (Waits(c) /\ patience > 0)

\* A service has something to do outside connect_to_dbroker.
Busy(n) ==
  \/ task[n] = "new"
  \/ /\ task[n] = "routine"
     /\ ~signalled[n]
     /\ IF n = "net_stack_cfg" THEN net # "none" \/ net_left = 0
        ELSE cpc[n] = "idle"

Less(t) == IF t > 0 THEN t - 1 ELSE 0

Tick ==
  /\ MainIsIdle
  /\ ~B!Runnable
  /\ \A n \in Name : ~Busy(n)
  /\ patience > 0 \/ net_left > 0 \/ \E t \in B!Thread : timer[t] > 0
  /\ timer' = [t \in B!Thread |-> Less(timer[t])]
  /\ patience' = Less(patience)
  /\ net_left' = Less(net_left)
  /\ UNCHANGED <<all_vars, broker_state, client_state>>

(***************************************************************************)
(* Specification                                                           *)
(***************************************************************************)

StartupInit == BootInit /\ B!Init /\ patience = 0 /\ net_left = 0

AllIdle == Stays /\ UNCHANGED <<bus_state, clocks>>

StartupNext ==
  \/ BrokerStep \/ Constructors \/ SetsUpNetwork \/ Tick \/ AllIdle
  \/ \E c \in Caller : Main(c)
  \/ \E n \in Name : Service(n)

startup_vars == <<all_vars, bus_state, clocks>>

\* Every thread that can run is scheduled, and the clock runs.
StartupFairness ==
  /\ WF_startup_vars(Constructors)
  /\ WF_startup_vars(Tick)
  /\ WF_startup_vars(BrokerStep)
  /\ WF_startup_vars(SetsUpNetwork)
  /\ \A c \in Caller : WF_startup_vars(Main(c))
  /\ \A n \in Name : WF_startup_vars(Service(n))

StartupSpec == StartupInit /\ [][StartupNext]_startup_vars /\ StartupFairness

(***************************************************************************)
(* Properties                                                              *)
(***************************************************************************)

\* The manager never gives a bus client up that would still have signalled: by
\* the time its 100 s are over, a client without a bus has used up its budgets
\* (dbroker.c:329, 419) and returned.  The network set-up may still be at work.
TimeoutsAreDue ==
  \A c \in Caller :
    Waits(c) /\ patience = 0 /\ Top(c).name \in BusClient =>
      starting[Top(c).name] = 0

BrokerGone == bpc \in {"stopped", "failed", "over", "dead"}

\* As long as the broker thread lives, every service whose thread could be
\* created comes up, however late main comes to start it: the delays of the
\* deployment fit into the budgets of the clients, and no client is refused.
\* The network set-up fails only when it outlasts the manager's timeout.
FailureHasCause ==
  \A n \in Name :
    tstate[n] = FAILED =>
      \/ task[n] = "none"
      \/ n \in BusClient /\ BrokerGone
      \/ n = "net_stack_cfg" /\ net_left <= NET_TIMEOUT - READY_TIMEOUT

\* "dbus-broker has to complete its start before the other application threads"
\* (README.md:352).  The manager releases the services before that, and the
\* ready semaphore of dbus_broker says nothing; yet a service is READY only
\* when the broker has run and has answered it.
ReadyNeedsBroker ==
  \A n \in BusClient : tstate[n] = READY => was_alive /\ link[n] = "up"

\* main gets to its closing loop, whenever the broker dies, whichever threads
\* cannot be created and however long the network takes.
StartEnds == <>(\A c \in Caller : Done(c))
=============================================================================
