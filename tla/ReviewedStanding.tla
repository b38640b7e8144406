-------------------------- MODULE ReviewedStanding --------------------------
(***************************************************************************)
(* What the KYC documentation promises of a user's standing, without       *)
(* operators and time: it moves along the documented transitions, a        *)
(* verdict is final, and the only way around both is a decision of the     *)
(* governance, which is taken while a verdict stands and carried out once. *)
(***************************************************************************)
EXTENDS Naturals, Sequences

CONSTANTS Users, Standings

VARIABLES standing,   \* of every user
          decisions   \* of the governance: [user, target, carried]

vars == <<standing, decisions>>

Verdicts == {"Verified", "Rejected"}

Transitions ==
  {<<"Unverified", "Pending">>, <<"Pending", "InReview">>,
   <<"InReview", "AdditionalInfoRequired">>, <<"InReview", "Verified">>,
   <<"InReview", "Rejected">>, <<"AdditionalInfoRequired", "InReview">>}

Init == standing = [u \in Users |-> "Unverified"] /\ decisions = << >>

Move(u) ==
  /\ \E t \in Standings :
       <<standing[u], t>> \in Transitions /\ standing' = [standing EXCEPT ![u] = t]
  /\ UNCHANGED decisions

Decide(u, target) ==
  /\ standing[u] \in Verdicts
  /\ decisions' = Append(decisions, [user |-> u, target |-> target, carried |-> FALSE])
  /\ UNCHANGED standing

Carry(k) ==
  /\ ~ decisions[k].carried
  /\ standing' = [standing EXCEPT ![decisions[k].user] = decisions[k].target]
  /\ decisions' = [decisions EXCEPT ![k].carried = TRUE]

Next == \/ \E u \in Users : Move(u)
        \/ \E u \in Users, target \in Standings : Decide(u, target)
        \/ \E k \in DOMAIN decisions : Carry(k)

Spec == Init /\ [][Next]_vars
=============================================================================
