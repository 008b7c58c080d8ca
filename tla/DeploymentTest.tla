--------------------------- MODULE DeploymentTest ---------------------------
(***************************************************************************)
(* The deployment test of test_deployment.c: a broker thread of its own, a *)
(* provider of one service, and clients that are all created before any of *)
(* them is released.  Connecting and calling are dbroker.c's and sd-bus's: *)
(* either may fail at any time.  Sleeps take as long as they like; the     *)
(* mutexes are taken for atomic regions.                                   *)
(***************************************************************************)
EXTENDS Integers, FiniteSets

CONSTANTS
  Client,       \* the clients, NUM_CLIENTS of them
  SEM_LIMIT,    \* limit of client_start_sem
  MAX_RETRIES   \* attempts to create the listener

NUM_CLIENTS == Cardinality(Client)

ASSUME ClientAssumption == IsFiniteSet(Client) /\ Client # {} /\ "provider" \notin Client

ASSUME LimitsAssumption == SEM_LIMIT \in Nat /\ MAX_RETRIES \in Nat

VARIABLES
  bpc,                 \* where the broker thread is
  held,                \* what it holds
  retries,             \* attempts left
  broker_ready,        \* deploy_state.broker_ready
  ppc,                 \* where the provider is
  provider_ready,      \* deploy_state.service_provider_ready
  cpc,                 \* where every client is
  given,               \* gives of start_client_threads, -1 before it is called
  client_start_sem,
  buses,               \* threads with a bus: clients and "provider"
  requests,            \* clients whose ProcessData is on its way to the provider
  active_connections,  \* g_service
  total_calls

broker_vars   == <<bpc, held, retries, broker_ready>>
provider_vars == <<ppc, provider_ready>>
client_vars   == <<cpc, given, client_start_sem, active_connections>>
call_vars     == <<requests, total_calls>>
vars == <<broker_vars, provider_vars, client_vars, call_vars, buses>>

(***************************************************************************)
(* deploy_standard_broker                                                  *)
(***************************************************************************)

BGoto(from, to) == bpc = from /\ bpc' = to

InDeployment == UNCHANGED <<provider_vars, client_vars, call_vars, buses>>

socketpair ==
  /\ bpc = "socketpair"
  /\ \/ bpc' = "new" /\ held' = {"controller"}
     \/ bpc' = "ended" /\ UNCHANGED held
  /\ InDeployment /\ UNCHANGED <<retries, broker_ready>>

\* A failure closes the controller fds.
broker_new ==
  /\ bpc = "new"
  /\ \/ bpc' = "listener" /\ held' = held \cup {"broker"}
     \/ bpc' = "ended" /\ held' = held \ {"controller"}
  /\ InDeployment /\ UNCHANGED <<retries, broker_ready>>

\* socket, bind and listen, or close, sleep and try again.
create_listener_socket_with_retry ==
  /\ bpc = "listener"
  /\ \/ retries > 0 /\ bpc' = "add" /\ held' = held \cup {"listener"} /\ UNCHANGED retries
     \/ retries > 0 /\ retries' = retries - 1 /\ UNCHANGED <<bpc, held>>
     \/ retries = 0 /\ bpc' = "ended" /\ UNCHANGED <<held, retries>>
  /\ InDeployment /\ UNCHANGED broker_ready

\* A failure closes the listener only.
add_listener_to_broker ==
  /\ bpc = "add"
  /\ \/ bpc' = "publish" /\ UNCHANGED held
     \/ bpc' = "ended" /\ held' = held \ {"listener"}
  /\ InDeployment /\ UNCHANGED <<retries, broker_ready>>

PublishReady ==
  /\ BGoto("publish", "run")
  /\ broker_ready' = TRUE
  /\ InDeployment /\ UNCHANGED <<held, retries>>

\* broker_run returns; the broker, with its listener, and the controller fds go.
BrokerRunReturns ==
  /\ BGoto("run", "ended")
  /\ held' = held \ {"broker", "listener", "controller"}
  /\ InDeployment /\ UNCHANGED <<retries, broker_ready>>

Broker ==
  \/ socketpair \/ broker_new \/ create_listener_socket_with_retry
  \/ add_listener_to_broker \/ PublishReady

(***************************************************************************)
(* service_provider_task                                                   *)
(***************************************************************************)

PGoto(from, to) == ppc = from /\ ppc' = to

Listening == "listener" \in held

\* It goes on after 50 rounds even if the broker is not ready.
ProviderWaited ==
  /\ PGoto("wait", "connect")
  /\ UNCHANGED <<broker_vars, provider_ready, client_vars, call_vars, buses>>

ProviderConnects ==
  /\ ppc = "connect"
  /\ \/ Listening /\ ppc' = "register" /\ buses' = buses \cup {"provider"}
     \/ ppc' = "cleanup" /\ UNCHANGED buses
  /\ UNCHANGED <<broker_vars, provider_ready, client_vars, call_vars>>

\* A name it does not get is ignored; if the vtable cannot be added it returns
\* on the spot, with its bus.
RegisterService ==
  /\ ppc = "register"
  /\ \/ ppc' = "serve" /\ provider_ready' = TRUE
     \/ ppc' = "ended" /\ UNCHANGED provider_ready
  /\ UNCHANGED <<broker_vars, client_vars, call_vars, buses>>

\* sd_bus_process or sd_bus_wait fails.
ProcessFails ==
  /\ PGoto("serve", "cleanup")
  /\ UNCHANGED <<broker_vars, provider_ready, client_vars, call_vars, buses>>

ProviderCleanup ==
  /\ PGoto("cleanup", "ended")
  /\ buses' = buses \ {"provider"}
  /\ UNCHANGED <<broker_vars, provider_ready, client_vars, call_vars>>

Provider ==
  ProviderWaited \/ ProviderConnects \/ RegisterService \/ ProviderCleanup

\* A call that has come through is handled at any later time, also when its
\* client has gone or the broker has ended meanwhile.
method_process_data(c) ==
  /\ ppc = "serve" /\ broker_ready
  /\ c \in requests
  /\ requests' = requests \ {c}
  /\ total_calls' = total_calls + 1
  /\ UNCHANGED <<broker_vars, provider_vars, client_vars, buses>>

(***************************************************************************)
(* start_client_threads                                                    *)
(***************************************************************************)

CreateThread(c) ==
  /\ given = -1
  /\ cpc[c] = "none"
  /\ cpc' = [cpc EXCEPT ![c] = "wait"]
  /\ UNCHANGED <<broker_vars, provider_vars, call_vars, given, client_start_sem,
                 active_connections, buses>>

AllCreated == \A c \in Client : cpc[c] # "none"

AllStarted ==
  /\ given = -1
  /\ AllCreated
  /\ given' = 0
  /\ UNCHANGED <<broker_vars, provider_vars, call_vars, cpc, client_start_sem,
                 active_connections, buses>>

\* Fault: the semaphore is binary, like the ready semaphores.
Binary(n) == 1

AtMostLimit(n) == IF n > SEM_LIMIT THEN SEM_LIMIT ELSE n

\* A give that finds the semaphore at its limit is lost.
Give ==
  /\ given \in 0..(NUM_CLIENTS - 1)
  /\ given' = given + 1
  /\ client_start_sem' = AtMostLimit(client_start_sem + 1)
  /\ UNCHANGED <<broker_vars, provider_vars, call_vars, cpc, active_connections, buses>>

start_client_threads == AllStarted \/ Give \/ \E c \in Client : CreateThread(c)

(***************************************************************************)
(* client_connection_task                                                  *)
(***************************************************************************)

CGoto(c, from, to) == cpc[c] = from /\ cpc' = [cpc EXCEPT ![c] = to]

InClient == UNCHANGED <<broker_vars, provider_vars, given, total_calls>>

TakeStartSem(c) ==
  /\ CGoto(c, "wait", "connect")
  /\ client_start_sem > 0
  /\ client_start_sem' = client_start_sem - 1
  /\ InClient /\ UNCHANGED <<requests, active_connections, buses>>

ClientConnects(c) ==
  /\ \/ Listening /\ CGoto(c, "connect", "count") /\ buses' = buses \cup {c}
     \/ CGoto(c, "connect", "disconnect") /\ UNCHANGED buses
  /\ InClient /\ UNCHANGED <<requests, client_start_sem, active_connections>>

CountConnection(c) ==
  /\ CGoto(c, "count", "names")
  /\ active_connections' = active_connections + 1
  /\ InClient /\ UNCHANGED <<requests, client_start_sem, buses>>

\* Fault: a failed call goes straight to the cleanup.
GivesUpCounted(ok, next) == IF ok THEN next ELSE "disconnect"

AfterCall(ok, next) == next

\* ListNames, then GetStatistics: neither changes anything, and a failure is
\* only reported.
ListNames(c) ==
  /\ \E ok \in BOOLEAN : CGoto(c, "names", AfterCall(ok, "statistics"))
  /\ InClient /\ UNCHANGED <<requests, client_start_sem, active_connections, buses>>

GetStatistics(c) ==
  /\ \E ok \in BOOLEAN : CGoto(c, "statistics", AfterCall(ok, "process"))
  /\ InClient /\ UNCHANGED <<requests, client_start_sem, active_connections, buses>>

\* The call is sent, or that failed; the client goes on with an answer or at the
\* latest when sd-bus gives up waiting for one.
ProcessData(c) ==
  /\ \E ok \in BOOLEAN : CGoto(c, "process", AfterCall(ok, "uncount"))
  /\ requests' \in {requests, requests \cup {c}}
  /\ InClient /\ UNCHANGED <<client_start_sem, active_connections, buses>>

UncountConnection(c) ==
  /\ CGoto(c, "uncount", "disconnect")
  /\ active_connections' = active_connections - 1
  /\ InClient /\ UNCHANGED <<requests, client_start_sem, buses>>

ClientCleanup(c) ==
  /\ CGoto(c, "disconnect", "ended")
  /\ buses' = buses \ {c}
  /\ InClient /\ UNCHANGED <<requests, client_start_sem, active_connections>>

client_connection_task(c) ==
  \/ TakeStartSem(c) \/ ClientConnects(c) \/ CountConnection(c) \/ ListNames(c)
  \/ GetStatistics(c) \/ ProcessData(c) \/ UncountConnection(c) \/ ClientCleanup(c)

(***************************************************************************)
(* Specification                                                           *)
(***************************************************************************)

Init ==
  /\ bpc = "socketpair" /\ held = {} /\ retries = MAX_RETRIES /\ broker_ready = FALSE
  /\ ppc = "wait" /\ provider_ready = FALSE
  /\ cpc = [c \in Client |-> "none"]
  /\ given = -1 /\ client_start_sem = 0
  /\ requests = {} /\ total_calls = 0
  /\ buses = {} /\ active_connections = 0

Next ==
  \/ Broker \/ BrokerRunReturns \/ Provider \/ ProcessFails \/ start_client_threads
  \/ \E c \in Client : client_connection_task(c) \/ method_process_data(c)

\* The threads are scheduled and sd-bus calls time out; nothing is assumed of
\* broker and provider.
Fairness ==
  /\ WF_vars(start_client_threads)
  /\ \A c \in Client : WF_vars(client_connection_task(c))

Spec == Init /\ [][Next]_vars /\ Fairness

(***************************************************************************)
(* Properties                                                              *)
(***************************************************************************)

\* The connections GetStatistics reports are those of clients with a bus, however
\* their connects and calls fail; none is left when all have ended.
CountIsHonest ==
  active_connections =
    Cardinality({c \in Client :
      c \in buses /\ cpc[c] \in {"names", "statistics", "process", "uncount"}})

\* Every client gets to its end: the semaphore keeps the gives for clients that
\* have not reached it yet.
EveryClientEnds == <>(\A c \in Client : cpc[c] = "ended")
=============================================================================
