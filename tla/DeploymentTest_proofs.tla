------------------------ MODULE DeploymentTest_proofs ------------------------
(***************************************************************************)
(* Proofs about the deployment test, for every number of clients: the      *)
(* connections GetStatistics reports.  A client between its connect and    *)
(* its disconnect has a bus (BusInv); without that the count of the        *)
(* property would not change with CountConnection by exactly one.          *)
(***************************************************************************)
EXTENDS DeploymentTest, FiniteSetTheorems, TLAPS

ClientPc ==
  {"none", "wait", "connect", "count", "names", "statistics", "process", "uncount",
   "disconnect", "ended"}

Counted == {"names", "statistics", "process", "uncount"}

BusInv ==
  \A c \in Client : cpc[c] \in Counted \cup {"count"} => c \in buses

CountInv ==
  /\ cpc \in [Client -> ClientPc]
  /\ BusInv
  /\ CountIsHonest

\* The clients the property counts.
InUse == {c \in Client : c \in buses /\ cpc[c] \in Counted}

LEMMA InUseIsFinite ==
  /\ IsFiniteSet(InUse)
  /\ IsFiniteSet(InUse')
BY ClientAssumption, FS_Subset DEF InUse

\* Nothing happens to the count while the clients in use stay the same.
LEMMA SameInUse ==
  ASSUME CountIsHonest, InUse' = InUse, UNCHANGED active_connections
  PROVE  CountIsHonest'
BY DEF CountIsHonest, InUse, Counted

\* A step of a client from one place to the next.
LEMMA ClientStepKeeps ==
  ASSUME CountInv, NEW c \in Client, client_connection_task(c)
  PROVE  CountInv'
<1>1. /\ cpc[c] \in ClientPc /\ \E pc \in ClientPc : cpc' = [cpc EXCEPT ![c] = pc]
      /\ \A d \in Client : d # c => cpc'[d] = cpc[d] /\ (d \in buses' <=> d \in buses)
  BY DEF client_connection_task, TakeStartSem, ClientConnects, CountConnection, ListNames,
         GetStatistics, ProcessData, UncountConnection, ClientCleanup, CGoto, AfterCall,
         CountInv, ClientPc
<1>2. cpc' \in [Client -> ClientPc]
  BY <1>1 DEF CountInv
<1>3. cpc'[c] \in Counted \cup {"count"} => c \in buses'
  BY DEF client_connection_task, TakeStartSem, ClientConnects, CountConnection, ListNames,
         GetStatistics, ProcessData, UncountConnection, ClientCleanup, CGoto, AfterCall,
         CountInv, BusInv, Counted
<1>4. BusInv'
  BY <1>1, <1>3 DEF CountInv, BusInv
<1>5. CASE CountConnection(c)
  <2>1. InUse' = InUse \cup {c} /\ c \notin InUse
    BY <1>5 DEF CountConnection, CGoto, CountInv, BusInv, InUse, Counted
  <2>2. Cardinality(InUse') = Cardinality(InUse) + 1
    BY <2>1, InUseIsFinite, FS_AddElement
  <2>3. active_connections' = active_connections + 1
    BY <1>5 DEF CountConnection
  <2>4. CountIsHonest'
    BY <2>2, <2>3 DEF CountInv, CountIsHonest, InUse, Counted
  <2>5. QED
    BY <1>2, <1>4, <2>4 DEF CountInv
<1>6. CASE UncountConnection(c)
  <2>1. InUse' = InUse \ {c} /\ c \in InUse
    BY <1>6 DEF UncountConnection, CGoto, CountInv, BusInv, InUse, Counted
  <2>2. Cardinality(InUse') = Cardinality(InUse) - 1
    BY <2>1, InUseIsFinite, FS_RemoveElement
  <2>3. active_connections' = active_connections - 1
    BY <1>6 DEF UncountConnection
  <2>4. CountIsHonest'
    BY <2>2, <2>3 DEF CountInv, CountIsHonest, InUse, Counted
  <2>5. QED
    BY <1>2, <1>4, <2>4 DEF CountInv
<1>7. CASE \/ TakeStartSem(c) \/ ClientConnects(c) \/ ListNames(c) \/ GetStatistics(c)
           \/ ProcessData(c) \/ ClientCleanup(c)
  <2>1. UNCHANGED active_connections /\ (c \in InUse' <=> c \in InUse)
    BY <1>7 DEF TakeStartSem, ClientConnects, ListNames, GetStatistics, ProcessData,
                ClientCleanup, CGoto, AfterCall, CountInv, BusInv, InUse, Counted
  <2>2. InUse' = InUse
    BY <1>1, <2>1 DEF InUse
  <2>3. QED
    BY <1>2, <1>4, <2>1, <2>2, SameInUse DEF CountInv
<1>8. QED
  BY <1>5, <1>6, <1>7 DEF client_connection_task

LEMMA OthersKeep ==
  ASSUME CountInv,
         \/ Broker \/ BrokerRunReturns \/ Provider \/ ProcessFails \/ start_client_threads
         \/ \E c \in Client : method_process_data(c)
  PROVE  CountInv'
<1>1. UNCHANGED active_connections /\ \A c \in Client : c \in buses' <=> c \in buses
  BY ClientAssumption
  DEF Broker, socketpair, broker_new, create_listener_socket_with_retry,
      add_listener_to_broker, PublishReady, BrokerRunReturns, BGoto, InDeployment,
      Provider, ProviderWaited, ProviderConnects, RegisterService, ProviderCleanup,
      ProcessFails, PGoto, method_process_data, client_vars,
      start_client_threads, AllStarted, Give, CreateThread
<1>2. \/ cpc' = cpc
      \/ \E c \in Client : cpc[c] = "none" /\ cpc' = [cpc EXCEPT ![c] = "wait"]
  BY DEF Broker, socketpair, broker_new, create_listener_socket_with_retry,
         add_listener_to_broker, PublishReady, BrokerRunReturns, BGoto, InDeployment,
         Provider, ProviderWaited, ProviderConnects, RegisterService, ProviderCleanup,
         ProcessFails, PGoto, method_process_data, client_vars,
         start_client_threads, AllStarted, Give, CreateThread
<1>3. /\ cpc' \in [Client -> ClientPc]
      /\ \A c \in Client : cpc'[c] = cpc[c] \/ (cpc[c] = "none" /\ cpc'[c] = "wait")
  BY <1>2 DEF CountInv, ClientPc
<1>4. BusInv'
  BY <1>1, <1>3 DEF CountInv, BusInv, Counted
<1>5. InUse' = InUse
  BY <1>1, <1>3 DEF InUse, Counted
<1>6. QED
  BY <1>1, <1>3, <1>4, <1>5, SameInUse DEF CountInv

\* The connections reported are those of clients with a bus, for every number of
\* clients and whatever fails.
THEOREM StatisticsAreHonest ==
  Spec => []CountIsHonest
<1>1. Init => CountInv
  <2> SUFFICES ASSUME Init PROVE CountInv
    OBVIOUS
  <2>1. cpc \in [Client -> ClientPc] /\ BusInv /\ InUse = {}
    BY DEF Init, ClientPc, BusInv, InUse, Counted
  <2>2. CountIsHonest
    BY <2>1, FS_EmptySet DEF Init, CountIsHonest, InUse, Counted
  <2>3. QED
    BY <2>1, <2>2 DEF CountInv
<1>2. CountInv /\ [Next]_vars => CountInv'
  <2> SUFFICES ASSUME CountInv, [Next]_vars PROVE CountInv'
    OBVIOUS
  <2>1. CASE UNCHANGED vars
    BY <2>1 DEF vars, client_vars, CountInv, BusInv, CountIsHonest
  <2>2. QED
    BY <2>1, ClientStepKeeps, OthersKeep DEF Next
<1>3. QED
  BY <1>1, <1>2, PTL DEF Spec, CountInv
=============================================================================
