---------------------------- MODULE MCAtomicSwap ----------------------------
(***************************************************************************)
(* Instances of AtomicSwap for TLC.                                        *)
(***************************************************************************)
EXTENDS AtomicSwap

CONSTANTS alice, bob, carol, gold, silver

\* alice owns gold, everybody else silver.
MCInitBalance ==
  [a \in Assets |-> [h \in Accounts |->
    CASE h = alice /\ a = gold -> 2
      [] h \in Parties \ {alice} /\ a = silver -> 2
      [] OTHER -> 0]]

\* Every trustline is open and stays open.
AllTrust == Parties \X Assets

\* Parties start with the trustlines of what they own ...
OwnedTrust == {pa \in Parties \X Assets : MCInitBalance[pa[2]][pa[1]] > 0}

\* ... or alice only loses and regains that of what she is to receive.
ReceiverTrust == {<<alice, silver>>}
=============================================================================
