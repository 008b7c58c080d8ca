-------------------------- MODULE MCBrokerLifecycle --------------------------
(***************************************************************************)
(* Model checking of BrokerLifecycle: the clients are interchangeable in   *)
(* the runs that check invariants only.                                    *)
(***************************************************************************)
EXTENDS BrokerLifecycle, TLC

ClientSymmetry == Permutations(Client)
=============================================================================
