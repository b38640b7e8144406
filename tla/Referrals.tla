------------------------------ MODULE Referrals ------------------------------
(***************************************************************************)
(* Referrals of the counter contract, counter/src/referral_system/mod.rs:  *)
(* a user names a referrer once, and a fee the user pays earns the         *)
(* referrer and the referrer's referrer a commission.  lib.rs swap calls   *)
(* calculate_and_distribute_commission.                                    *)
(*                                                                         *)
(* The volume that decides the tier adds up fees, not trades.  The search  *)
(* for a circle looks two referrers up, so longer circles are accepted.    *)
(***************************************************************************)
EXTENDS Integers, Sequences, Sums

CONSTANTS
    Users,
    Tiers,              \* <<volume, direct, indirect>>, rising from volume 0
    Unit,               \* 10000: what the rates are parts of
    Fees, MaxVolume     \* bounds

ReferralsAssumption ==
    /\ Tiers \in Seq(Nat \X Nat \X Nat) /\ Tiers /= <<>> /\ Tiers[1][1] = 0
    /\ Unit \in Nat \ {0} /\ Fees \subseteq Nat /\ IsFiniteSet(Users)

VARIABLES
    referrer,       \* of those who have one
    stats,          \* ReferralStats, without the indirect count that stays 0
    volume,
    balance,        \* CommissionBalance
    withdrawn       \* history: what withdraw_commission has returned

vars == <<referrer, stats, volume, balance, withdrawn>>

Init ==
    /\ referrer = <<>>
    /\ stats = [u \in Users |-> [direct |-> 0, earned |-> 0, referred |-> 0]]
    /\ volume = [u \in Users |-> 0] /\ balance = volume /\ withdrawn = volume

TypeOK ==
    /\ DOMAIN referrer \subseteq Users /\ \A u \in DOMAIN referrer : referrer[u] \in Users
    /\ \A u \in Users : /\ {volume[u], balance[u], withdrawn[u]} \subseteq Nat
                        /\ stats[u] \in [direct : Nat, earned : Nat, referred : Nat]

\* The referrers of each user, at most the given number, nearest first
Up[depth \in 0..3] ==
    [u \in Users |-> IF depth = 0 \/ u \notin DOMAIN referrer THEN <<>>
                     ELSE <<referrer[u]>> \o Up[depth - 1][referrer[u]]]
Ancestors(u, depth) == {Up[depth][u][i] : i \in DOMAIN Up[depth][u]}

\* Mutation: only the direct circle is seen
IsCircularDirect(r, u) == u \in Ancestors(r, 1)

\* is_circular_referral
IsCircular(r, u) == u \in Ancestors(r, 2)

RegisterReferral(r, u) ==
    /\ r # u /\ u \notin DOMAIN referrer /\ ~IsCircular(r, u)
    /\ referrer' = [v \in DOMAIN referrer \cup {u} |-> IF v = u THEN r ELSE referrer[v]]
    /\ stats' = [stats EXCEPT ![r].direct = @ + 1]
    /\ UNCHANGED <<volume, balance, withdrawn>>

\* get_tier_for_volume
TierOf(v) == CHOOSE i \in DOMAIN Tiers :
    Tiers[i][1] <= v /\ \A j \in i + 1..Len(Tiers) : v < Tiers[j][1]

\* The tier is that of the trader's volume before this fee
Distribute(trader, fee) ==
    LET tier == Tiers[TierOf(volume[trader])]
        up == Up[2][trader]
        Commission(i) == (fee * tier[i + 1]) \div Unit
        \* the places of the chain where the user earns a commission
        Paid(u) == {i \in DOMAIN up : up[i] = u /\ Commission(i) > 0}
        Share(u) == SetTotal([i \in DOMAIN up |-> Commission(i)], Paid(u))
    IN  /\ fee > 0 /\ volume[trader] + fee <= MaxVolume
        /\ volume' = [volume EXCEPT ![trader] = @ + fee]
        /\ balance' = [u \in Users |-> balance[u] + Share(u)]
        /\ stats' = [u \in Users |-> [stats[u] EXCEPT !.earned = @ + Share(u),
                                          !.referred = @ + fee * Cardinality(Paid(u))]]
        /\ UNCHANGED <<referrer, withdrawn>>

Withdraw(u) ==
    /\ balance[u] > 0
    /\ balance' = [balance EXCEPT ![u] = 0] /\ withdrawn' = [withdrawn EXCEPT ![u] = @ + balance[u]]
    /\ UNCHANGED <<referrer, stats, volume>>

Next ==
    \/ \E r, u \in Users : RegisterReferral(r, u)
    \/ \E u \in Users, fee \in Fees : Distribute(u, fee)
    \/ \E u \in Users : Withdraw(u)

Spec == Init /\ [][Next]_vars

-----------------------------------------------------------------------------
\* Nobody stands among the own referrers' referrers, whatever the order in which users
\* name theirs, so no fee earns its payer a commission; and what a user has earned is
\* what was withdrawn and what can be.
NobodyPaysThemselves ==
    \A u \in Users :
        /\ u \notin Ancestors(u, 3)
        /\ stats[u].earned = balance[u] + withdrawn[u]
        /\ stats[u].direct = Cardinality({v \in DOMAIN referrer : referrer[v] = u})
=============================================================================
