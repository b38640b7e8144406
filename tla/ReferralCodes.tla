---------------------------- MODULE ReferralCodes ----------------------------
(***************************************************************************)
(* The second referral system, counter/referral.rs: codes, badges, and     *)
(* commissions for three levels of referrers that are held for 30 days.    *)
(*                                                                         *)
(* Whoever registers with a code has an entry and then gets no code: the   *)
(* call returns the empty one, which refers to nobody.  The chain of a     *)
(* trader is therefore never longer than one, and the rates of the second  *)
(* and third level are never paid.  The available commission is debited    *)
(* by a claim and never credited.                                          *)
(***************************************************************************)
EXTENDS Integers, Sequences, Sums

CONSTANTS
    Users,
    Rates, RateUnit,        \* <<20, 10, 5>> of 100
    Hold, ClaimPause,       \* 30 days, an hour
    Milestones,             \* referrals for the 1st, 2nd, .. badge: 1, 10, 100, ..
    Fees, MaxPending, MaxTime   \* bounds

CodesAssumption ==
    /\ Rates \in [1..3 -> Nat] /\ RateUnit \in Nat \ {0} /\ Fees \subseteq Nat
    /\ Hold \in Nat /\ ClaimPause \in Nat
    /\ Milestones \in Seq(Nat) /\ Milestones /= <<>> /\ Milestones[1] = 1

Nobody == <<>>
Never == -1

VARIABLES
    info,           \* ReferralInfo of the users who have one
    pending,        \* CommissionRecord, by user
    lastClaim,
    nextToken,
    totals,         \* total_referrals, total_commission_distributed
    accrued,        \* history: what distribute_commission has promised
    now

vars == <<info, pending, lastClaim, nextToken, totals, accrued, now>>

Init ==
    /\ info = <<>> /\ pending = [u \in Users |-> <<>>] /\ lastClaim = [u \in Users |-> Never]
    /\ nextToken = 1 /\ totals = [referrals |-> 0, distributed |-> 0]
    /\ accrued = [u \in Users |-> 0] /\ now = 0

\* Badges are <<milestone, token>>
TypeOK ==
    /\ DOMAIN info \subseteq Users
    /\ \A u \in DOMAIN info : /\ info[u].coded \in BOOLEAN /\ info[u].available \in Int
                              /\ info[u].referrer = Nobody \/ info[u].referrer[1] \in Users
    /\ nextToken \in Nat \ {0} /\ now \in Nat

NewInfo(coded, who, badges) ==
    [coded |-> coded, referrer |-> who, earned |-> 0, available |-> 0, direct |-> 0,
     badges |-> badges]

WithInfo(u, entry) == [v \in DOMAIN info \cup {u} |-> IF v = u THEN entry ELSE info[v]]

\* The first badge comes with the code
GenerateCode(u) ==
    /\ u \notin DOMAIN info
    /\ info' = WithInfo(u, NewInfo(TRUE, Nobody, << <<1, nextToken>> >>))
    /\ nextToken' = nextToken + 1
    /\ UNCHANGED <<pending, lastClaim, totals, accrued, now>>

\* check_and_award_milestones: those reached and not had
Due(entry) ==
    {m \in DOMAIN Milestones : /\ entry.direct >= Milestones[m]
                               /\ \A i \in DOMAIN entry.badges : entry.badges[i][1] # m}

\* Badges for the referrer in the order of the milestones, then one for the new user
RegisterWithCode(r, u) ==
    LET counted == [info[r] EXCEPT !.direct = @ + 1]
        due == Picked([m \in DOMAIN Milestones |-> m], Due(counted))
        earned == [i \in DOMAIN due |-> <<due[i], nextToken + i - 1>>]
        token == nextToken + Len(due)
    IN  /\ u \notin DOMAIN info /\ r \in DOMAIN info /\ info[r].coded
        /\ info' = [WithInfo(u, NewInfo(FALSE, <<r>>, << <<1, token>> >>))
                       EXCEPT ![r] = [counted EXCEPT !.badges = @ \o earned]]
        /\ nextToken' = token + 1
        /\ totals' = [totals EXCEPT !.referrals = @ + 1]
        /\ UNCHANGED <<pending, lastClaim, accrued, now>>

\* get_referral_chain
Chain[depth \in 0..3] ==
    [u \in Users |-> IF depth = 0 \/ u \notin DOMAIN info \/ info[u].referrer = Nobody THEN <<>>
                     ELSE info[u].referrer \o Chain[depth - 1][info[u].referrer[1]]]

Worth(records) == Total([i \in DOMAIN records |-> records[i].amount], Len(records))

DistributeCommission(trader, fee) ==
    LET chain == Chain[3][trader]
        Amount(i) == (fee * Rates[i]) \div RateUnit
        records == [i \in DOMAIN chain |->
                       [to |-> chain[i], amount |-> Amount(i), at |-> now + Hold]]
        New(u) == Picked(records, {i \in DOMAIN records : records[i].to = u /\ records[i].amount > 0})
    IN  /\ \A u \in Users : Len(pending[u] \o New(u)) <= MaxPending
        /\ pending' = [u \in Users |-> pending[u] \o New(u)]
        /\ accrued' = [u \in Users |-> accrued[u] + Worth(New(u))]
        /\ UNCHANGED <<info, lastClaim, nextToken, totals, now>>

Ripe(u) == {i \in DOMAIN pending[u] : now >= pending[u][i].at}

ClaimCommission(u) ==
    LET sum == Worth(Picked(pending[u], Ripe(u)))
    IN  /\ lastClaim[u] # Never => now >= lastClaim[u] + ClaimPause
        /\ sum # 0
        /\ info' = IF u \in DOMAIN info
                   THEN [info EXCEPT ![u].available = @ - sum, ![u].earned = @ + sum] ELSE info
        /\ pending' = [pending EXCEPT ![u] = Picked(@, DOMAIN @ \ Ripe(u))]
        /\ lastClaim' = [lastClaim EXCEPT ![u] = now]
        /\ totals' = [totals EXCEPT !.distributed = @ + sum]
        /\ UNCHANGED <<nextToken, accrued, now>>

Tick == now < MaxTime /\ now' = now + 1
        /\ UNCHANGED <<info, pending, lastClaim, nextToken, totals, accrued>>

Next ==
    \/ \E u \in Users : GenerateCode(u) \/ ClaimCommission(u)
    \/ \E r, u \in Users : RegisterWithCode(r, u)
    \/ \E u \in Users, fee \in Fees : DistributeCommission(u, fee)
    \/ Tick

Spec == Init /\ [][Next]_vars

-----------------------------------------------------------------------------
Badges(u) == IF u \in DOMAIN info THEN {info[u].badges[i] : i \in DOMAIN info[u].badges} ELSE {}

\* Every badge is its own token, no user has two for one milestone, and what a user was
\* promised is what was claimed and what still waits, also when claims and new
\* commissions fall into the same hour.
EarnedOnce ==
    /\ \A u, v \in Users : \A x \in Badges(u), y \in Badges(v) :
          x[2] = y[2] => u = v /\ x = y
    /\ \A u \in DOMAIN info :
          /\ Cardinality(Badges(u)) = Len(info[u].badges)
          /\ \A x, y \in Badges(u) : x[1] = y[1] => x = y
          /\ accrued[u] = info[u].earned + Worth(pending[u])
          /\ Len(Chain[3][u]) <= 1
=============================================================================
