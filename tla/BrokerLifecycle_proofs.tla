------------------------ MODULE BrokerLifecycle_proofs ------------------------
(***************************************************************************)
(* For every number of clients, every choice of faults and every budget:   *)
(* the types, that no client is refused while the broker thread lives, who *)
(* owns a bus, and what the end of the thread leaves behind.               *)
(***************************************************************************)
EXTENDS BrokerLifecycle, TLAPS

\* The arithmetic facts about the constants.
LEMMA BudgetsAreNumbers ==
  /\ MaxCalls \in Nat /\ CONNECT_RETRIES \in Nat /\ READY_RETRIES \in Nat
  /\ LISTENER_DELAY \in Nat /\ ALIVE_DELAY \in Nat /\ RUN_DELAY \in Nat
  /\ FIRST_DELAY \in Nat
BY BudgetsAssumption

(***************************************************************************)
(* Who moves: the broker thread, one client, or neither of them - the call *)
(* that starts the broker, the clock, and the steps that change nothing.   *)
(***************************************************************************)

BrokerMoves == Deploy \/ DeploymentFails \/ BrokerRunReturns \/ BrokerAborts

ClientMoves(c) ==
  Serve(c) \/ Begin(c) \/ connect_to_dbroker(c) \/ disconnect_from_dbroker(c)

Quiet == dbus_broker_init \/ Tick \/ UNCHANGED vars

\* There is no other step.
LEMMA WhoMoves == [Next]_vars => BrokerMoves \/ Quiet \/ \E c \in Client : ClientMoves(c)
BY DEF Next, BrokerMoves, ClientMoves, Quiet

\* A quiet step leaves what the broker and the clients keep as it is, and the
\* two variables it may change keep their types.
LEMMA QuietFrame ==
  ASSUME Quiet
  PROVE  /\ UNCHANGED <<bvars, cvars, link>>
         /\ TypeOK => TypeOK'
<1>1. UNCHANGED <<bvars, cvars, link>>
  BY DEF Quiet, dbus_broker_init, Tick, vars
<1>2. TypeOK => released' \in BOOLEAN
  BY DEF Quiet, dbus_broker_init, Tick, vars, TypeOK
<1>3. TypeOK => timer' \in [Thread -> Nat]
  <2>1. CASE Tick
    BY <2>1 DEF Tick, TypeOK, Thread
  <2>2. CASE ~Tick
    BY <2>2 DEF Quiet, dbus_broker_init, vars, TypeOK, Thread
  <2>3. QED
    BY <2>1, <2>2
<1>4. QED
  BY <1>1, <1>2, <1>3 DEF TypeOK, bvars, cvars, Thread

\* Every step of the broker thread keeps the types.
LEMMA BrokerKeepsTypes ==
  ASSUME TypeOK, BrokerMoves
  PROVE  TypeOK'
<1> USE BudgetsAreNumbers
    DEF TypeOK, BPc, Link, Resource, g_controller_fds, bvars, cvars, BGoto, Sleep, Thread
<1>1. CASE socketpair
  BY <1>1 DEF socketpair
<1>2. CASE broker_new
  BY <1>2 DEF broker_new
<1>3. CASE OpenListener \/ create_listener_socket
  <2>1. CASE OpenListener
    BY <2>1 DEF OpenListener
  <2>2. CASE create_listener_socket
    BY <2>2 DEF create_listener_socket
  <2>3. QED
    BY <1>3, <2>1, <2>2
<1>4. CASE add_listener_to_broker
  BY <1>4 DEF add_listener_to_broker
<1>5. CASE PublishReady
  BY <1>5 DEF PublishReady
<1>6. CASE MarkAlive
  BY <1>6 DEF MarkAlive
<1>7. CASE MarkWasAlive
  BY <1>7 DEF MarkWasAlive
<1>8. CASE BrokerThreadEnds
  BY <1>8 DEF BrokerThreadEnds
<1>9. CASE DeploymentFails
  BY <1>9 DEF DeploymentFails, LeftOpen, broker_free
<1>10. CASE BrokerRunReturns
  BY <1>10 DEF BrokerRunReturns, broker_free
<1>11. CASE BrokerAborts
  BY <1>11 DEF BrokerAborts
<1>12. QED
  BY <1>1, <1>2, <1>3, <1>4, <1>5, <1>6, <1>7, <1>8, <1>9, <1>10, <1>11 DEF BrokerMoves, Deploy

\* Every step of a client keeps the types.
LEMMA ClientKeepsTypes ==
  ASSUME TypeOK, NEW c \in Client, ClientMoves(c)
  PROVE  TypeOK'
<1> USE BudgetsAreNumbers
    DEF TypeOK, CPc, Link, Outcome, bvars, cvars, At, InLoop, Goto, Return, SetLink, Sleep,
        Thread
<1>1. CASE Serve(c)
  BY <1>1 DEF Serve
<1>2. CASE Begin(c)
  <2>1. (Ended /\ was_alive) \in BOOLEAN
    BY DEF Ended
  <2>2. QED
    BY <1>2, <2>1 DEF Begin
<1>3. CASE FirstClientWaited(c)
  BY <1>3 DEF FirstClientWaited
<1>4. CASE CheckWasAlive(c)
  BY <1>4 DEF CheckWasAlive, AfterCheckWas
<1>5. CASE CheckAlive(c)
  BY <1>5 DEF CheckAlive
<1>6. CASE ConnectSucceeds(c)
  BY <1>6 DEF ConnectSucceeds
<1>7. CASE OpenSocket(c) \/ ConnectFails(c)
  BY <1>7 DEF OpenSocket, ConnectFails, CloseSocket, CountRetry
<1>8. CASE GiveUp(c)
  BY <1>8 DEF GiveUp
<1>9. CASE SetUpBus(c)
  BY <1>9 DEF SetUpBus
<1>10. CASE Poll(c)
  BY <1>10 DEF Poll, PollSleep
<1>11. CASE NotReady(c)
  BY <1>11 DEF NotReady
<1>12. CASE BusReady(c)
  BY <1>12 DEF BusReady
<1>13. CASE disconnect_from_dbroker(c)
  BY <1>13 DEF disconnect_from_dbroker
<1>14. QED
  BY <1>1, <1>2, <1>3, <1>4, <1>5, <1>6, <1>7, <1>8, <1>9, <1>10, <1>11, <1>12, <1>13
     DEF ClientMoves, connect_to_dbroker

\* The initial state has the types.
LEMMA InitIsTyped == Init => TypeOK
<1> SUFFICES ASSUME Init PROVE TypeOK
  OBVIOUS
<1>1. bpc \in BPc /\ held \subseteq Resource
  BY DEF Init, BPc
<1>2. /\ broker_ready \in BOOLEAN /\ alive \in BOOLEAN /\ was_alive \in BOOLEAN
      /\ released \in BOOLEAN /\ broker_started \in BOOLEAN
  BY DEF Init
<1>3. cpc \in [Client -> CPc]
  BY DEF Init, CPc
<1>4. timer \in [Thread -> Nat] /\ tries \in [Client -> Nat] /\ calls \in [Client -> Nat]
  BY DEF Init
<1>5. link \in [Client -> Link]
  BY DEF Init, Link
<1>6. ret \in [Client -> Outcome] /\ late \in [Client -> BOOLEAN]
  BY DEF Init, Outcome
<1>7. QED
  BY <1>1, <1>2, <1>3, <1>4, <1>5, <1>6 DEF TypeOK

\* Every variable keeps its type.
THEOREM TypeCorrect == Spec => []TypeOK
<1>1. Init => TypeOK
  BY InitIsTyped
<1>2. TypeOK /\ [Next]_vars => TypeOK'
  <2>1. TypeOK /\ BrokerMoves => TypeOK'
    BY BrokerKeepsTypes
  <2>2. ASSUME TypeOK, NEW c \in Client, ClientMoves(c) PROVE TypeOK'
    BY <2>2, ClientKeepsTypes
  <2>3. TypeOK /\ Quiet => TypeOK'
    BY QuietFrame
  <2>4. QED
    BY <2>1, <2>2, <2>3, WhoMoves
<1>3. QED
  BY <1>1, <1>2, PTL DEF Spec

(***************************************************************************)
(* A refusal needs two reads, was_alive before alive.  Between them the    *)
(* broker thread may move, so the invariant says what each flag tells for  *)
(* ever: once was_alive is set, alive was set before it and is cleared     *)
(* only by the end of the thread.                                          *)
(***************************************************************************)

NotMarkedYet ==
  {"socketpair", "new", "socket", "listen", "add", "publish", "alive", "was", "failed"}

\* was_alive is set only behind MarkWasAlive, where no failed deployment gets.
WasAliveMeansMarked == was_alive => bpc \notin NotMarkedYet

\* alive is set from MarkAlive to the end of the thread.
AliveWhileUp ==
  /\ bpc = "was" => alive
  /\ was_alive /\ bpc # "over" => alive

SecondReadFollows == \A c \in Client : cpc[c] = "check_alive" => was_alive

RefusalInv ==
  /\ TypeOK
  /\ WasAliveMeansMarked
  /\ AliveWhileUp
  /\ SecondReadFollows
  /\ RefusedOnlyAfterExit

\* A step of the broker thread: it may clear alive only on its way out, and
\* nobody has been refused before that.
LEMMA BrokerKeepsRefusalInv ==
  ASSUME RefusalInv, BrokerMoves
  PROVE  RefusalInv'
<1> USE DEF RefusalInv, WasAliveMeansMarked, NotMarkedYet, AliveWhileUp,
            SecondReadFollows, RefusedOnlyAfterExit, bvars, cvars, BGoto, Sleep
<1>1. TypeOK'
  BY BrokerKeepsTypes
<1>2. CASE socketpair
  BY <1>1, <1>2 DEF socketpair
<1>3. CASE broker_new
  BY <1>1, <1>3 DEF broker_new
<1>4. CASE OpenListener \/ create_listener_socket
  BY <1>1, <1>4 DEF OpenListener, create_listener_socket
<1>5. CASE add_listener_to_broker
  BY <1>1, <1>5 DEF add_listener_to_broker
<1>6. CASE PublishReady
  BY <1>1, <1>6 DEF PublishReady
<1>7. CASE MarkAlive
  BY <1>1, <1>7 DEF MarkAlive
<1>8. CASE MarkWasAlive
  BY <1>1, <1>8 DEF MarkWasAlive
<1>9. CASE BrokerThreadEnds
  BY <1>1, <1>9 DEF BrokerThreadEnds
<1>10. CASE DeploymentFails
  BY <1>1, <1>10 DEF DeploymentFails
<1>11. CASE BrokerRunReturns
  BY <1>1, <1>11 DEF BrokerRunReturns
<1>12. CASE BrokerAborts
  BY <1>1, <1>12 DEF BrokerAborts
<1>13. QED
  BY <1>2, <1>3, <1>4, <1>5, <1>6, <1>7, <1>8, <1>9, <1>10, <1>11, <1>12 DEF BrokerMoves, Deploy

\* A step of a client: it reads alive only after it has read was_alive.
LEMMA ClientKeepsRefusalInv ==
  ASSUME RefusalInv, NEW c \in Client, ClientMoves(c)
  PROVE  RefusalInv'
<1>1. TypeOK'
  BY ClientKeepsTypes DEF RefusalInv
<1> USE DEF RefusalInv, WasAliveMeansMarked, NotMarkedYet, AliveWhileUp,
            SecondReadFollows, RefusedOnlyAfterExit, bvars, cvars, TypeOK, CPc,
            Outcome, At, InLoop, Goto, Return, SetLink
<1>2. CASE Serve(c)
  BY <1>1, <1>2 DEF Serve
<1>3. CASE Begin(c)
  BY <1>1, <1>3 DEF Begin
<1>4. CASE FirstClientWaited(c)
  BY <1>1, <1>4 DEF FirstClientWaited
<1>5. CASE CheckWasAlive(c)
  BY <1>1, <1>5 DEF CheckWasAlive, AfterCheckWas
<1>6. CASE CheckAlive(c)
  BY <1>1, <1>6 DEF CheckAlive
<1>7. CASE ConnectSucceeds(c)
  BY <1>1, <1>7 DEF ConnectSucceeds
<1>8. CASE OpenSocket(c) \/ ConnectFails(c)
  BY <1>1, <1>8 DEF OpenSocket, ConnectFails, CloseSocket
<1>9. CASE GiveUp(c)
  BY <1>1, <1>9 DEF GiveUp
<1>10. CASE SetUpBus(c)
  BY <1>1, <1>10 DEF SetUpBus
<1>11. CASE Poll(c)
  BY <1>1, <1>11 DEF Poll, PollSleep
<1>12. CASE NotReady(c)
  BY <1>1, <1>12 DEF NotReady
<1>13. CASE BusReady(c)
  BY <1>1, <1>13 DEF BusReady
<1>14. CASE disconnect_from_dbroker(c)
  BY <1>1, <1>14 DEF disconnect_from_dbroker
<1>15. QED
  BY <1>2, <1>3, <1>4, <1>5, <1>6, <1>7, <1>8, <1>9, <1>10, <1>11, <1>12, <1>13, <1>14
     DEF ClientMoves, connect_to_dbroker

\* A client is refused only when the broker thread is over: for every number of
\* clients and every placement of their reads between the broker's writes.
THEOREM RefusalIsJustified == Spec => []RefusedOnlyAfterExit
<1>1. Init => RefusalInv
  BY InitIsTyped DEF Init, RefusalInv, WasAliveMeansMarked, AliveWhileUp,
                     SecondReadFollows, RefusedOnlyAfterExit
<1>2. RefusalInv /\ [Next]_vars => RefusalInv'
  <2>1. RefusalInv /\ BrokerMoves => RefusalInv'
    BY BrokerKeepsRefusalInv
  <2>2. ASSUME RefusalInv, NEW c \in Client, ClientMoves(c) PROVE RefusalInv'
    BY <2>2, ClientKeepsRefusalInv
  <2>3. RefusalInv /\ Quiet => RefusalInv'
    BY QuietFrame DEF RefusalInv, WasAliveMeansMarked, AliveWhileUp,
                      SecondReadFollows, RefusedOnlyAfterExit, bvars, cvars
  <2>4. QED
    BY <2>1, <2>2, <2>3, WhoMoves
<1>3. RefusalInv => RefusedOnlyAfterExit
  BY DEF RefusalInv
<1>4. QED
  BY <1>1, <1>2, <1>3, PTL DEF Spec

(***************************************************************************)
(* What a client owns follows from where it is: nothing up to the loop, a  *)
(* socket at most in it, a link from the connect to its return.  The       *)
(* broker may hang up under a client at any place between the last two.    *)
(***************************************************************************)

Unlinked == {"first", "check_was", "check_alive"}

BusFollowsPlace ==
  \A c \in Client :
    /\ cpc[c] \in Unlinked => link[c] = "none" /\ ret[c] # "ok"
    /\ cpc[c] = "try" => link[c] \in {"none", "socket"} /\ ret[c] # "ok"
    /\ link[c] = "socket" => cpc[c] = "try" /\ tries[c] < CONNECT_RETRIES
    /\ cpc[c] \in {"setup", "ready"} => link[c] # "none" /\ ret[c] # "ok"
    /\ cpc[c] = "setup" => link[c] \in {"pending", "hungup"}

BusInv == TypeOK /\ BusFollowsPlace /\ BusIffSuccess

\* A broker that ends hangs up on pending clients only, and those are not idle.
LEMMA BrokerKeepsBusInv ==
  ASSUME BusInv, BrokerMoves
  PROVE  BusInv'
<1>1. TypeOK'
  BY BrokerKeepsTypes DEF BusInv
<1>2. cpc' = cpc /\ ret' = ret /\ tries' = tries
  BY DEF BrokerMoves, Deploy, socketpair, broker_new, OpenListener, create_listener_socket,
         add_listener_to_broker, PublishReady, MarkAlive, MarkWasAlive,
         BrokerThreadEnds, DeploymentFails, BrokerRunReturns, BrokerAborts, cvars
<1>3. ASSUME NEW c \in Client
      PROVE  \/ link'[c] = link[c]
             \/ link[c] = "pending" /\ link'[c] = "hungup"
  <2>1. CASE BrokerRunReturns
    BY <1>3, <2>1 DEF BrokerRunReturns, BusInv, TypeOK
  <2>2. CASE Deploy \/ DeploymentFails \/ BrokerAborts
    BY <2>2 DEF Deploy, socketpair, broker_new, OpenListener, create_listener_socket,
                add_listener_to_broker, PublishReady, MarkAlive, MarkWasAlive,
                BrokerThreadEnds, DeploymentFails, BrokerAborts
  <2>3. QED
    BY <2>1, <2>2 DEF BrokerMoves
<1>4. BusFollowsPlace' /\ BusIffSuccess'
  BY <1>2, <1>3 DEF BusInv, BusFollowsPlace, BusIffSuccess
<1>5. QED
  BY <1>1, <1>4 DEF BusInv

\* A client changes nothing of another client, and each of its own steps keeps
\* what it owns in line with where it is.
LEMMA ClientKeepsBusInv ==
  ASSUME BusInv, NEW c \in Client, ClientMoves(c)
  PROVE  BusInv'
<1>1. TypeOK'
  BY ClientKeepsTypes DEF BusInv
<1> USE DEF BusInv, BusFollowsPlace, BusIffSuccess, Unlinked, bvars, cvars, TypeOK,
            CPc, Link, Outcome, At, InLoop, Goto, Return, SetLink
<1>2. CASE Serve(c)
  BY <1>1, <1>2 DEF Serve
<1>3. CASE Begin(c)
  BY <1>1, <1>3 DEF Begin
<1>4. CASE FirstClientWaited(c)
  BY <1>1, <1>4 DEF FirstClientWaited
<1>5. CASE CheckWasAlive(c)
  BY <1>1, <1>5 DEF CheckWasAlive, AfterCheckWas
<1>6. CASE CheckAlive(c)
  BY <1>1, <1>6 DEF CheckAlive
<1>7. CASE ConnectSucceeds(c)
  BY <1>1, <1>7 DEF ConnectSucceeds
<1>8. CASE OpenSocket(c) \/ ConnectFails(c)
  <2>1. CASE OpenSocket(c)
    BY <1>1, <2>1 DEF OpenSocket, CountRetry
  <2>2. CASE ConnectFails(c)
    BY <1>1, <2>2 DEF ConnectFails, CloseSocket, CountRetry
  <2>3. QED
    BY <1>8, <2>1, <2>2
<1>9. CASE GiveUp(c)
  BY <1>1, <1>9, BudgetsAreNumbers DEF GiveUp
<1>10. CASE SetUpBus(c)
  BY <1>1, <1>10 DEF SetUpBus
<1>11. CASE Poll(c)
  BY <1>1, <1>11 DEF Poll
<1>12. CASE NotReady(c)
  BY <1>1, <1>12 DEF NotReady
<1>13. CASE BusReady(c)
  BY <1>1, <1>13 DEF BusReady
<1>14. CASE disconnect_from_dbroker(c)
  BY <1>1, <1>14 DEF disconnect_from_dbroker
<1>15. QED
  BY <1>2, <1>3, <1>4, <1>5, <1>6, <1>7, <1>8, <1>9, <1>10, <1>11, <1>12, <1>13, <1>14
     DEF ClientMoves, connect_to_dbroker

\* For every number of clients and every interleaving with the broker's end: an
\* idle client owns a bus exactly when its last call returned 0.
THEOREM BusMatchesVerdict == Spec => []BusIffSuccess
<1>1. Init => BusInv
  BY InitIsTyped DEF Init, BusInv, BusFollowsPlace, BusIffSuccess, Unlinked
<1>2. BusInv /\ [Next]_vars => BusInv'
  <2>1. BusInv /\ BrokerMoves => BusInv'
    BY BrokerKeepsBusInv
  <2>2. ASSUME BusInv, NEW c \in Client, ClientMoves(c) PROVE BusInv'
    BY <2>2, ClientKeepsBusInv
  <2>3. BusInv /\ Quiet => BusInv'
    BY QuietFrame DEF BusInv, BusFollowsPlace, BusIffSuccess, bvars, cvars
  <2>4. QED
    BY <2>1, <2>2, <2>3, WhoMoves
<1>3. BusInv => BusIffSuccess
  BY DEF BusInv
<1>4. QED
  BY <1>1, <1>2, <1>3, PTL DEF Spec

(***************************************************************************)
(* The end of the broker thread.  What is open follows from the place of   *)
(* the deployment, so that each exit can be held against its own closes;   *)
(* a call that begins behind the end finds was_alive set, alive cleared.   *)
(***************************************************************************)

HeldFollowsPlace ==
  /\ bpc \in {"socketpair", "stopped", "failed", "over"} => held = {}
  /\ bpc = "new" => held = g_controller_fds
  /\ bpc = "socket" => held = g_controller_fds \cup {"broker"}
  /\ bpc = "listen" => held = g_controller_fds \cup {"broker", "unbound"}
  /\ bpc = "add" => held = g_controller_fds \cup {"broker", "listener"}
  /\ bpc \in {"publish", "alive", "was", "run"} =>
       held = g_controller_fds \cup {"broker", "listener", "adopted"}

OverIsNotAlive == bpc = "over" => ~alive

LateMeansEnded == \A c \in Client : late[c] => Ended /\ was_alive

LateIsBrief ==
  \A c \in Client :
    late[c] /\ bpc = "over" => cpc[c] \in {"idle", "first", "check_was", "check_alive"}

EndInv == TypeOK /\ HeldFollowsPlace /\ OverIsNotAlive /\ LateMeansEnded /\ LateIsBrief

\* The broker thread ends once, and no call is late before it has.
LEMMA BrokerKeepsEndInv ==
  ASSUME EndInv, BrokerMoves
  PROVE  EndInv'
<1> USE DEF EndInv, HeldFollowsPlace, OverIsNotAlive, LateMeansEnded, LateIsBrief, Ended,
            bvars, cvars, BGoto, Sleep
<1>1. TypeOK'
  BY BrokerKeepsTypes
<1>2. CASE socketpair
  BY <1>1, <1>2 DEF socketpair
<1>3. CASE broker_new
  BY <1>1, <1>3 DEF broker_new
<1>4. CASE OpenListener \/ create_listener_socket
  BY <1>1, <1>4 DEF OpenListener, create_listener_socket, g_controller_fds
<1>5. CASE add_listener_to_broker
  BY <1>1, <1>5 DEF add_listener_to_broker
<1>6. CASE PublishReady
  BY <1>1, <1>6 DEF PublishReady
<1>7. CASE MarkAlive
  BY <1>1, <1>7 DEF MarkAlive
<1>8. CASE MarkWasAlive
  BY <1>1, <1>8 DEF MarkWasAlive
<1>9. CASE BrokerThreadEnds
  BY <1>1, <1>9 DEF BrokerThreadEnds
<1>10. CASE DeploymentFails
  <2>1. HeldFollowsPlace'
    <3>1. PICK pc \in {"socketpair", "new", "socket", "listen", "add"} :
            bpc = pc /\ bpc' = "failed" /\ held' = LeftOpen(pc)
      BY <1>10 DEF DeploymentFails
    <3>2. held' = {}
      BY <3>1 DEF LeftOpen, broker_free, g_controller_fds
    <3>3. QED
      BY <3>1, <3>2
  <2>2. QED
    BY <1>1, <1>10, <2>1 DEF DeploymentFails
<1>11. CASE BrokerRunReturns
  BY <1>1, <1>11 DEF BrokerRunReturns, broker_free, g_controller_fds
<1>12. CASE BrokerAborts
  BY <1>1, <1>12 DEF BrokerAborts
<1>13. QED
  BY <1>2, <1>3, <1>4, <1>5, <1>6, <1>7, <1>8, <1>9, <1>10, <1>11, <1>12 DEF BrokerMoves, Deploy

\* A late call reads was_alive, then alive, and is refused.
LEMMA ClientKeepsEndInv ==
  ASSUME EndInv, NEW c \in Client, ClientMoves(c)
  PROVE  EndInv'
<1>1. TypeOK'
  BY ClientKeepsTypes DEF EndInv
<1> USE DEF EndInv, HeldFollowsPlace, OverIsNotAlive, LateMeansEnded, LateIsBrief, Ended,
            bvars, cvars, TypeOK, CPc, At, InLoop, Goto, Return, SetLink
<1>2. CASE Serve(c)
  BY <1>1, <1>2 DEF Serve
<1>3. CASE Begin(c)
  BY <1>1, <1>3 DEF Begin
<1>4. CASE FirstClientWaited(c)
  BY <1>1, <1>4 DEF FirstClientWaited
<1>5. CASE CheckWasAlive(c)
  BY <1>1, <1>5 DEF CheckWasAlive, AfterCheckWas
<1>6. CASE CheckAlive(c)
  BY <1>1, <1>6 DEF CheckAlive
<1>7. CASE ConnectSucceeds(c)
  BY <1>1, <1>7 DEF ConnectSucceeds
<1>8. CASE OpenSocket(c) \/ ConnectFails(c)
  BY <1>1, <1>8 DEF OpenSocket, ConnectFails, CloseSocket
<1>9. CASE GiveUp(c)
  BY <1>1, <1>9 DEF GiveUp
<1>10. CASE SetUpBus(c)
  BY <1>1, <1>10 DEF SetUpBus
<1>11. CASE Poll(c)
  BY <1>1, <1>11 DEF Poll
<1>12. CASE NotReady(c)
  BY <1>1, <1>12 DEF NotReady
<1>13. CASE BusReady(c)
  BY <1>1, <1>13 DEF BusReady
<1>14. CASE disconnect_from_dbroker(c)
  BY <1>1, <1>14 DEF disconnect_from_dbroker
<1>15. QED
  BY <1>2, <1>3, <1>4, <1>5, <1>6, <1>7, <1>8, <1>9, <1>10, <1>11, <1>12, <1>13, <1>14
     DEF ClientMoves, connect_to_dbroker

LEMMA EndInvariant == Spec => []EndInv
<1>1. Init => EndInv
  BY InitIsTyped DEF Init, EndInv, HeldFollowsPlace, OverIsNotAlive, LateMeansEnded, LateIsBrief
<1>2. EndInv /\ [Next]_vars => EndInv'
  <2>1. EndInv /\ BrokerMoves => EndInv'
    BY BrokerKeepsEndInv
  <2>2. ASSUME EndInv, NEW c \in Client, ClientMoves(c) PROVE EndInv'
    BY <2>2, ClientKeepsEndInv
  <2>3. EndInv /\ Quiet => EndInv'
    BY QuietFrame DEF EndInv, HeldFollowsPlace, OverIsNotAlive, LateMeansEnded,
                      LateIsBrief, Ended, bvars, cvars
  <2>4. QED
    BY <2>1, <2>2, <2>3, WhoMoves
<1>3. QED
  BY <1>1, <1>2, PTL DEF Spec

\* A broker thread that ends by itself holds nothing, wherever its deployment
\* failed: the closes of every exit match what is open at its place.
THEOREM EndReleasesAll == Spec => []EndsWithNothingHeld
<1>1. EndInv => EndsWithNothingHeld
  BY DEF EndInv, HeldFollowsPlace, EndsWithNothingHeld
<1>2. QED
  BY <1>1, EndInvariant, PTL

\* A call that begins after the end of the broker thread never gets to the
\* loops, for every number of clients and every budget.
THEOREM LateCallsFailFast == Spec => []FailsFastOnceOver
<1>1. EndInv => FailsFastOnceOver
  BY DEF EndInv, LateIsBrief, FailsFastOnceOver
<1>2. QED
  BY <1>1, EndInvariant, PTL

(***************************************************************************)
(* How long a call lasts, without fairness: Rest(c) counts the steps and   *)
(* ticks that are left of it at each place.  A retry costs three, socket,  *)
(* connect and the tick it sleeps, a round of the second loop two; the     *)
(* loops have their own budgets, and the second starts anew.               *)
(***************************************************************************)

Left(limit, used) == IF used < limit THEN limit - used ELSE 0

Rest(c) ==
  CASE cpc[c] = "first" -> timer[c] + 3 * CONNECT_RETRIES + 2 * READY_RETRIES + 6
    [] cpc[c] = "check_was" -> timer[c] + 3 * CONNECT_RETRIES + 2 * READY_RETRIES + 5
    [] cpc[c] = "check_alive" -> timer[c] + 3 * CONNECT_RETRIES + 2 * READY_RETRIES + 4
    [] cpc[c] = "try" ->
         timer[c] + 3 * Left(CONNECT_RETRIES, tries[c]) + 2 * READY_RETRIES + 3
         - (IF link[c] = "socket" THEN 1 ELSE 0)
    [] cpc[c] = "setup" -> timer[c] + 2 * READY_RETRIES + 2
    [] cpc[c] = "ready" -> timer[c] + 2 * Left(READY_RETRIES, tries[c]) + 1
    [] OTHER -> 0

Allowance == FIRST_DELAY + 3 * CONNECT_RETRIES + 2 * READY_RETRIES + 6

CallsRunDown ==
  [][\A c \in Client :
       /\ Begin(c) => Rest(c)' <= Allowance
       /\ ~Begin(c) => Rest(c)' <= Rest(c)
       /\ connect_to_dbroker(c) => Rest(c)' < Rest(c)
       /\ Tick /\ cpc[c] # "idle" /\ timer[c] > 0 => Rest(c)' < Rest(c)]_vars

\* What is left is never negative.
LEMMA LeftIsNat ==
  ASSUME NEW limit \in Nat, NEW used \in Nat
  PROVE  Left(limit, used) \in Nat /\ Left(limit, used) <= limit
BY DEF Left

LEMMA RestIsNat ==
  ASSUME TypeOK, NEW c \in Client
  PROVE  Rest(c) \in Nat
<1>1. timer[c] \in Nat /\ tries[c] \in Nat
  BY DEF TypeOK, Thread
<1>2. Left(CONNECT_RETRIES, tries[c]) \in Nat /\ Left(READY_RETRIES, tries[c]) \in Nat
  BY <1>1, BudgetsAreNumbers, LeftIsNat
<1>3. QED
  BY <1>1, <1>2, BudgetsAreNumbers DEF Rest

\* A step of the call takes at least one away.
LEMMA OwnStepsRunDown ==
  ASSUME TypeOK, NEW c \in Client, connect_to_dbroker(c)
  PROVE  Rest(c)' < Rest(c) /\ Rest(c)' <= Rest(c)
<1>1. /\ timer[c] \in Nat /\ tries[c] \in Nat /\ c \in Thread
      /\ cpc \in [Client -> CPc] /\ tries \in [Client -> Nat] /\ timer \in [Thread -> Nat]
  BY DEF TypeOK, Thread
<1> USE <1>1, BudgetsAreNumbers DEF Rest, At, InLoop, Awake, Goto, Return
<1>2. CASE FirstClientWaited(c)
  BY <1>2 DEF FirstClientWaited
<1>3. CASE CheckWasAlive(c)
  <2>1. Left(CONNECT_RETRIES, tries[c]) \in Nat /\ Left(CONNECT_RETRIES, tries[c]) <= CONNECT_RETRIES
    BY LeftIsNat
  <2>2. QED
    BY <1>3, <2>1 DEF CheckWasAlive, AfterCheckWas
<1>4. CASE CheckAlive(c)
  <2>1. Left(CONNECT_RETRIES, tries[c]) \in Nat /\ Left(CONNECT_RETRIES, tries[c]) <= CONNECT_RETRIES
    BY LeftIsNat
  <2>2. QED
    BY <1>4, <2>1 DEF CheckAlive
<1>5. CASE ConnectSucceeds(c)
  <2>1. Left(CONNECT_RETRIES, tries[c]) \in Nat \ {0}
    <3>1. tries[c] < CONNECT_RETRIES
      BY <1>5 DEF ConnectSucceeds
    <3>2. QED
      BY <3>1 DEF Left
  <2>2. cpc[c] = "try" /\ timer[c] = 0 /\ cpc'[c] = "setup" /\ timer'[c] = 0
    BY <1>5 DEF ConnectSucceeds
  <2>3. QED
    BY <2>1, <2>2
<1>6. CASE OpenSocket(c) \/ ConnectFails(c)
  <2>1. tries[c] < CONNECT_RETRIES /\ link \in [Client -> Link]
    BY <1>6 DEF OpenSocket, ConnectFails, TypeOK
  <2>2. CASE OpenSocket(c)
    <3>1. CASE SetLink(c, "socket") /\ UNCHANGED <<tries, timer>>
      <4>1. timer'[c] = timer[c] /\ tries'[c] = tries[c] /\ cpc'[c] = "try" /\ cpc[c] = "try"
            /\ link'[c] = "socket" /\ link[c] = "none"
        BY <2>1, <2>2, <3>1 DEF OpenSocket, SetLink
      <4>2. Left(CONNECT_RETRIES, tries[c]) \in Nat
        BY LeftIsNat
      <4>3. QED
        BY <4>1, <4>2
    <3>2. CASE tries' = CountRetry(c) /\ Sleep(c, 1) /\ UNCHANGED link
      <4>1. timer'[c] = 1 /\ timer[c] = 0 /\ tries'[c] = tries[c] + 1
            /\ link'[c] = "none" /\ link[c] = "none" /\ cpc'[c] = "try" /\ cpc[c] = "try"
        BY <2>2, <3>2 DEF OpenSocket, CountRetry, Sleep
      <4>2. QED
        BY <2>1, <4>1 DEF Left
    <3>3. QED
      BY <2>2, <3>1, <3>2 DEF OpenSocket
  <2>3. CASE ConnectFails(c)
    <3>1. timer'[c] = 1 /\ timer[c] = 0 /\ tries'[c] = tries[c] + 1
          /\ link'[c] = "none" /\ link[c] = "socket" /\ cpc'[c] = "try" /\ cpc[c] = "try"
      BY <2>1, <2>3 DEF ConnectFails, CloseSocket, SetLink, CountRetry, Sleep
    <3>2. QED
      BY <2>1, <3>1 DEF Left
  <2>4. QED
    BY <1>6, <2>2, <2>3
<1>7. CASE GiveUp(c)
  BY <1>7, LeftIsNat DEF GiveUp
<1>8. CASE SetUpBus(c)
  BY <1>8 DEF SetUpBus, Left
<1>9. CASE Poll(c)
  BY <1>9 DEF Poll, PollSleep, Sleep, Left
<1>10. CASE NotReady(c)
  BY <1>10, LeftIsNat DEF NotReady
<1>11. CASE BusReady(c)
  BY <1>11, LeftIsNat DEF BusReady
<1>12. QED
  BY <1>2, <1>3, <1>4, <1>5, <1>6, <1>7, <1>8, <1>9, <1>10, <1>11 DEF connect_to_dbroker

\* A tick takes one from a call that sleeps and nothing from any other.
LEMMA TicksRunDown ==
  ASSUME TypeOK, NEW c \in Client, Tick
  PROVE  /\ Rest(c)' <= Rest(c)
         /\ cpc[c] # "idle" /\ timer[c] > 0 => Rest(c)' < Rest(c)
<1>1. /\ timer[c] \in Nat /\ tries[c] \in Nat
      /\ timer'[c] = IF timer[c] > 0 THEN timer[c] - 1 ELSE 0
      /\ UNCHANGED <<cpc, tries, link>>
  BY DEF TypeOK, Thread, Tick, cvars
<1>2. Left(CONNECT_RETRIES, tries[c]) \in Nat /\ Left(READY_RETRIES, tries[c]) \in Nat
  BY <1>1, BudgetsAreNumbers, LeftIsNat
<1>3. cpc[c] \in CPc
  BY DEF TypeOK
<1>4. QED
  BY <1>1, <1>2, <1>3, BudgetsAreNumbers DEF Rest, CPc

\* Whoever else moves leaves the call where it is, and a socket that is not
\* connected yet to the client.
Undisturbed(c) ==
  /\ UNCHANGED <<cpc[c], tries[c], timer[c]>>
  /\ link'[c] = "socket" <=> link[c] = "socket"

LEMMA OthersLeaveRest ==
  ASSUME TypeOK, NEW c \in Client, Undisturbed(c)
  PROVE  Rest(c)' = Rest(c)
BY DEF Rest, Undisturbed

\* The broker thread touches no client's place, counter or timer.
LEMMA BrokerLeavesClients ==
  ASSUME TypeOK, NEW c \in Client,
         Deploy \/ DeploymentFails \/ BrokerRunReturns \/ BrokerAborts \/ dbus_broker_init
  PROVE  Undisturbed(c)
<1>1. UNCHANGED cvars
  BY DEF Deploy, DeploymentFails, BrokerRunReturns, BrokerAborts, dbus_broker_init,
     socketpair, broker_new, OpenListener, create_listener_socket, add_listener_to_broker, PublishReady,
     MarkAlive, MarkWasAlive, BrokerThreadEnds, cvars
<1>2. \/ UNCHANGED timer
      \/ \E n : Sleep(broker, n)
  BY DEF Deploy, DeploymentFails, BrokerRunReturns, BrokerAborts, dbus_broker_init,
     socketpair, broker_new, OpenListener, create_listener_socket, add_listener_to_broker, PublishReady,
     MarkAlive, MarkWasAlive, BrokerThreadEnds
<1>3. UNCHANGED timer[c]
  BY <1>2, ThreadsAssumption DEF Sleep, TypeOK, Thread
<1>4. link'[c] = "socket" <=> link[c] = "socket"
  <2>1. CASE BrokerRunReturns
    BY <2>1 DEF BrokerRunReturns
  <2>2. CASE ~BrokerRunReturns
    BY <2>2 DEF Deploy, DeploymentFails, BrokerAborts, dbus_broker_init,
       socketpair, broker_new, OpenListener, create_listener_socket, add_listener_to_broker,
       PublishReady, MarkAlive, MarkWasAlive, BrokerThreadEnds
  <2>3. QED
    BY <2>1, <2>2
<1>5. QED
  BY <1>1, <1>3, <1>4 DEF cvars, Undisturbed

\* A client touches its own only.
LEMMA ClientLeavesOthers ==
  ASSUME TypeOK, NEW c \in Client, NEW d \in Client, d # c,
         Begin(d) \/ connect_to_dbroker(d) \/ disconnect_from_dbroker(d)
  PROVE  Undisturbed(c)
<1>1. /\ cpc' = cpc \/ \E pc : Goto(d, pc)
      /\ tries' = tries \/ \E n : tries' = [tries EXCEPT ![d] = n]
      /\ timer' = timer \/ \E n : Sleep(d, n)
      /\ link' = link \/ \E l : SetLink(d, l)
  <2> USE DEF Return
  <2>1. CASE Begin(d)
    BY <2>1 DEF Begin
  <2>2. CASE disconnect_from_dbroker(d)
    BY <2>2 DEF disconnect_from_dbroker
  <2>3. CASE FirstClientWaited(d) \/ CheckWasAlive(d) \/ CheckAlive(d) \/ ConnectSucceeds(d)
    BY <2>3 DEF FirstClientWaited, CheckWasAlive, CheckAlive, ConnectSucceeds
  <2>4. CASE OpenSocket(d) \/ ConnectFails(d)
    BY <2>4 DEF OpenSocket, ConnectFails, CloseSocket, CountRetry
  <2>5. CASE GiveUp(d) \/ NotReady(d) \/ BusReady(d)
    BY <2>5 DEF GiveUp, NotReady, BusReady
  <2>6. CASE SetUpBus(d)
    BY <2>6 DEF SetUpBus
  <2>7. CASE Poll(d)
    BY <2>7 DEF Poll, PollSleep
  <2>8. QED
    BY <2>1, <2>2, <2>3, <2>4, <2>5, <2>6, <2>7 DEF connect_to_dbroker
<1>2. c \in Thread /\ d \in Thread /\ timer \in [Thread -> Nat]
      /\ cpc \in [Client -> CPc] /\ tries \in [Client -> Nat] /\ link \in [Client -> Link]
  BY DEF TypeOK, Thread
<1>3. UNCHANGED cpc[c] /\ UNCHANGED tries[c]
  BY <1>1, <1>2 DEF Goto
<1>4. UNCHANGED timer[c]
  BY <1>1, <1>2 DEF Sleep
<1>5. link'[c] = link[c]
  BY <1>1, <1>2 DEF SetLink
<1>6. QED
  BY <1>3, <1>4, <1>5 DEF Undisturbed

\* A call of connect_to_dbroker begins with at most Allowance steps and ticks, and
\* each of its steps and each tick it sleeps takes one away; nothing the broker, the
\* end of the broker or another client does ever gives one back.  "~20s ETIMEDOUT
\* connect loop" (dbroker.c:70) is this bound for 200 and 50 rounds of 100 ms.
THEOREM CallsAreBounded == Spec => CallsRunDown
<1> DEFINE Step(c) ==
      /\ Begin(c) => Rest(c)' <= Allowance
      /\ ~Begin(c) => Rest(c)' <= Rest(c)
      /\ connect_to_dbroker(c) => Rest(c)' < Rest(c)
      /\ Tick /\ cpc[c] # "idle" /\ timer[c] > 0 => Rest(c)' < Rest(c)
<1>1. ASSUME TypeOK, [Next]_vars PROVE [\A c \in Client : Step(c)]_vars
  <2> SUFFICES ASSUME Next, NEW c \in Client PROVE Step(c)
    BY <1>1
  <2> USE <1>1
  <2>1. Rest(c) \in Nat /\ c \in Thread /\ timer \in [Thread -> Nat] /\ cpc \in [Client -> CPc]
    BY RestIsNat DEF TypeOK, Thread
  <2>2. connect_to_dbroker(c) => Rest(c)' < Rest(c) /\ Rest(c)' <= Rest(c)
    BY OwnStepsRunDown
  <2>3. Tick => /\ Rest(c)' <= Rest(c)
                /\ cpc[c] # "idle" /\ timer[c] > 0 => Rest(c)' < Rest(c)
    BY TicksRunDown
  <2>4. Begin(c) => Rest(c)' <= Allowance
    BY <2>1, BudgetsAreNumbers DEF Begin, Rest, Goto, Sleep, At, Awake, Allowance
  <2>5. ASSUME ~Begin(c) PROVE Rest(c)' <= Rest(c)
    <3>1. CASE connect_to_dbroker(c)
      BY <2>2, <3>1
    <3>2. CASE disconnect_from_dbroker(c)
      BY <2>1, <3>2 DEF disconnect_from_dbroker, Rest, At
    <3>3. CASE Tick
      BY <2>3, <3>3
    <3>4. ASSUME Undisturbed(c) PROVE Rest(c)' <= Rest(c)
      BY <2>1, <3>4, OthersLeaveRest
    <3>5. CASE Deploy \/ DeploymentFails \/ BrokerRunReturns \/ BrokerAborts \/ dbus_broker_init
      BY <3>5, <3>4, BrokerLeavesClients
    <3>6. ASSUME NEW d \in Client, Serve(d) PROVE Rest(c)' <= Rest(c)
      <4>1. link'[c] = "socket" <=> link[c] = "socket"
        BY <3>6 DEF Serve, TypeOK
      <4>2. QED
        BY <3>4, <3>6, <4>1 DEF Serve, cvars, Undisturbed
    <3>7. ASSUME NEW d \in Client, d # c,
                 Begin(d) \/ connect_to_dbroker(d) \/ disconnect_from_dbroker(d)
          PROVE  Rest(c)' <= Rest(c)
      BY <3>4, <3>7, ClientLeavesOthers
    <3>8. QED
      BY <2>5, <3>1, <3>2, <3>3, <3>5, <3>6, <3>7 DEF Next
  <2>6. QED
    BY <2>2, <2>3, <2>4, <2>5
<1>2. QED
  BY <1>1, TypeCorrect, PTL DEF Spec, CallsRunDown
=============================================================================
