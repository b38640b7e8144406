--------------------------- MODULE MCEscrowDispute ---------------------------
(***************************************************************************)
(* Instances of EscrowDispute for TLC.                                     *)
(***************************************************************************)
EXTENDS EscrowDispute

CONSTANTS alice, bob, carol, dave, usd

\* bob and carol have money to deposit.
MCInitBalance ==
  [a \in Assets |-> [h \in Accounts |-> IF h \in {bob, carol} THEN 2 ELSE 0]]

AllTrust == Parties \X Assets
OwnedTrust == {pa \in AllTrust : MCInitBalance[pa[2]][pa[1]] > 0}

\* alice, who has nothing to begin with, opens and closes hers.
AliceTrust == {alice} \X Assets

\* One arbiter, who is also a possible party
SoleArbiter == {[admin |-> carol, signers |-> << >>, threshold |-> 1]}

\* Two of three; one of two (the admin repeated); and three of a list that names
\* one signer twice
ThreeCommittees ==
  {[admin |-> alice, signers |-> <<carol, dave>>, threshold |-> 2],
   [admin |-> carol, signers |-> <<carol, dave>>, threshold |-> 1],
   [admin |-> carol, signers |-> <<dave, dave>>, threshold |-> 3]}

=============================================================================
