-------------------------- MODULE CounterGovernance --------------------------
(***************************************************************************)
(* The token vote of the counter contract: proposals, votes weighted by    *)
(* the square root of a balance, council signatures and the execution      *)
(* after a timelock (counter/src/governance_system.rs, governance/         *)
(* quadratic_voting.rs, delegation.rs, multi_sig.rs), and the parameters,  *)
(* which the admin may also change through a timelock of their own         *)
(* (counter/src/governance_params.rs).                                     *)
(*                                                                         *)
(* The balances and the total supply are written nowhere: constants.  Two  *)
(* functions are named approve_proposal; both are modelled.                *)
(***************************************************************************)
EXTENDS Integers, Sequences, FiniteSets, Functions

CONSTANTS
    Users, Balances, Supply, Admin,
    Council, MultisigSigners,
    SignThreshold,              \* 5 in the code
    VoteTimelock,               \* 48 hours
    MinDelay, DefaultDelay,     \* of parameters: 24 and 48 hours
    ValidValues, Values,        \* validate_param_value accepts ValidValues
    NewAdmins, Delegates,       \* bounds: whom SetAdmin and delegate_vote name
    Delays, MaxProposals, MaxUpdates, MaxSignatures, MaxTime  \* bounds

CounterGovernanceAssumption ==
    /\ Balances \in [Users -> Nat] /\ Supply \in Nat /\ Admin \in Users
    /\ Council \subseteq Users /\ MultisigSigners \subseteq Users
    /\ {SignThreshold, VoteTimelock, MinDelay, DefaultDelay} \subseteq Nat
    /\ NewAdmins \subseteq Users /\ Delegates \subseteq Users /\ Delays \subseteq Nat
    /\ MinDelay <= DefaultDelay
    /\ ValidValues \subseteq Values

NoValue == -1

VARIABLES
    proposals,      \* in the order of their ids
    updates,        \* PendingParamUpdate
    delegates,      \* delegator -> delegate, for those who have one
    settings,       \* what executed proposals and updates write
    delay,          \* TimelockDelay
    now

vars == <<proposals, updates, delegates, settings, delay, now>>

\* UpdatePoolFeeTier belongs to PoolRegistry
Actions == {<<"PauseTrading">>, <<"ResumeTrading">>} \cup {<<"SetAdmin", u>> : u \in NewAdmins}
           \cup {<<"UpdateGovParam", v>> : v \in Values}

Init ==
    /\ proposals = <<>> /\ updates = <<>> /\ delegates = <<>>
    /\ settings = [admin |-> Admin, paused |-> FALSE, param |-> NoValue]
    /\ delay = DefaultDelay /\ now = 0

TypeOK ==
    /\ \A i \in DOMAIN proposals : /\ proposals[i].action \in Actions
                                   /\ proposals[i].executableAt \in Nat
    /\ DOMAIN delegates \subseteq Users
    /\ settings \in [admin : Users, paused : BOOLEAN, param : ValidValues \cup {NoValue}]
    /\ delay \in Nat /\ now \in Nat

-----------------------------------------------------------------------------
(* Votes                                                                   *)

VotingPower(balance) == CHOOSE r \in 0..balance : r * r <= balance /\ (r + 1) * (r + 1) > balance

Sum(votes, side(_)) == SumFunction([i \in DOMAIN votes |-> side(votes[i].weight)])
VotesFor(votes) == Sum(votes, LAMBDA w : IF w > 0 THEN w ELSE 0)
VotesAgainst(votes) == Sum(votes, LAMBDA w : IF w > 0 THEN 0 ELSE -w)

\* The votes are square roots, the quorum is in tokens
QuorumReached(votes) == VotesFor(votes) + VotesAgainst(votes) >= (Supply * 30) \div 100
Approved(votes) == VotesFor(votes) * 100 >= (VotesFor(votes) + VotesAgainst(votes)) * 60

\* A vote carries the weight of the delegate the voter has named
WeightOf(u) == VotingPower(Balances[IF u \in DOMAIN delegates THEN delegates[u] ELSE u])

CreateProposal(u, action) ==
    /\ Balances[u] >= Supply \div 100
    /\ Len(proposals) < MaxProposals
    /\ proposals' = Append(proposals, [action |-> action, executed |-> FALSE,
          canceled |-> FALSE, executableAt |-> 0, votes |-> <<>>, signers |-> <<>>])
    /\ UNCHANGED <<updates, delegates, settings, delay, now>>

\* The vote that makes the proposal pass starts the timelock and ends the voting
CastVote(u, id, inFavor) ==
    LET p == proposals[id]
        weight == IF inFavor THEN WeightOf(u) ELSE -WeightOf(u)
        votes == Append(p.votes, [voter |-> u, weight |-> weight])
        passes == QuorumReached(votes) /\ Approved(votes)
    IN  /\ ~p.executed /\ p.executableAt = 0 /\ ~p.canceled
        /\ \A i \in DOMAIN p.votes : p.votes[i].voter # u
        /\ proposals' = [proposals EXCEPT ![id].votes = votes,
              ![id].executableAt = IF passes THEN now + VoteTimelock ELSE @]
        /\ UNCHANGED <<updates, delegates, settings, delay, now>>

Signed(u, id) ==
    /\ ~proposals[id].executed
    /\ Len(proposals[id].signers) < MaxSignatures
    /\ proposals' = [proposals EXCEPT ![id].signers = Append(@, u)]
    /\ UNCHANGED <<updates, delegates, settings, delay, now>>

\* A member of the council may sign again and again
SignProposal(u, id) == u \in Council /\ Signed(u, id)

\* The approval of a signer of the admin's configuration counts once
ApproveProposal(u, id) ==
    /\ u \in MultisigSigners /\ u \notin Range(proposals[id].signers)
    /\ Signed(u, id)

\* Ends the voting, and nothing else
CancelProposal(u, id) ==
    /\ u \in Council /\ ~proposals[id].executed
    /\ proposals' = [proposals EXCEPT ![id].canceled = TRUE]
    /\ UNCHANGED <<updates, delegates, settings, delay, now>>

IsParam(action) == action \in {<<"UpdateGovParam", v>> : v \in Values}
IsAdmin(action) == action \in {<<"SetAdmin", u>> : u \in NewAdmins}

Effect(action) ==
    CASE action = <<"PauseTrading">>  -> [settings EXCEPT !.paused = TRUE]
      [] action = <<"ResumeTrading">> -> [settings EXCEPT !.paused = FALSE]
      [] IsAdmin(action)              -> [settings EXCEPT !.admin = action[2]]
      [] IsParam(action)              -> [settings EXCEPT !.param = action[2]]

Ran(id) ==
    /\ IsParam(proposals[id].action) => proposals[id].action[2] \in ValidValues
    /\ settings' = Effect(proposals[id].action)
    /\ proposals' = [proposals EXCEPT ![id].executed = TRUE]
    /\ UNCHANGED <<updates, delegates, delay, now>>

\* Mutation: the time is thought to vouch for the vote
ExecuteUntallied(id) ==
    LET p == proposals[id]
    IN  /\ ~p.executed /\ now >= p.executableAt /\ Len(p.signers) >= SignThreshold
        /\ Ran(id)

\* executable_at is 0 until the proposal passes: the tally is taken again
ExecuteProposal(id) ==
    LET p == proposals[id]
    IN  /\ ~p.executed /\ now >= p.executableAt /\ Len(p.signers) >= SignThreshold
        /\ QuorumReached(p.votes) /\ Approved(p.votes)
        /\ Ran(id)

DelegateVote(u, d) ==
    /\ delegates' = [v \in DOMAIN delegates \cup {u} |-> IF v = u THEN d ELSE delegates[v]]
    /\ UNCHANGED <<proposals, updates, settings, delay, now>>

RevokeDelegation(u) ==
    /\ delegates' = [v \in DOMAIN delegates \ {u} |-> delegates[v]]
    /\ UNCHANGED <<proposals, updates, settings, delay, now>>

-----------------------------------------------------------------------------
(* Parameters; the admin of the moment calls                               *)

SetTimelockDelay(d) ==
    /\ d >= MinDelay /\ delay' = d
    /\ UNCHANGED <<proposals, updates, delegates, settings, now>>

ProposeUpdate(v) ==
    /\ v \in ValidValues /\ Len(updates) < MaxUpdates
    /\ updates' = Append(updates, [value |-> v, proposedAt |-> now,
                                   executableAt |-> now + delay, executed |-> FALSE])
    /\ UNCHANGED <<proposals, delegates, settings, delay, now>>

ExecuteUpdate(i) ==
    /\ ~updates[i].executed /\ now >= updates[i].executableAt
    /\ settings' = [settings EXCEPT !.param = updates[i].value]
    /\ updates' = [updates EXCEPT ![i].executed = TRUE]
    /\ UNCHANGED <<proposals, delegates, delay, now>>

Tick == now < MaxTime /\ now' = now + 1
        /\ UNCHANGED <<proposals, updates, delegates, settings, delay>>

Next ==
    \/ \E u \in Users, action \in Actions : CreateProposal(u, action)
    \/ \E u \in Users, id \in DOMAIN proposals :
          \/ \E f \in BOOLEAN : CastVote(u, id, f)
          \/ SignProposal(u, id) \/ ApproveProposal(u, id) \/ CancelProposal(u, id)
    \/ \E id \in DOMAIN proposals : ExecuteProposal(id)
    \/ \E u \in Users, d \in Delegates : DelegateVote(u, d)
    \/ \E u \in DOMAIN delegates : RevokeDelegation(u)
    \/ \E d \in Delays : SetTimelockDelay(d)
    \/ \E v \in Values : ProposeUpdate(v)
    \/ \E i \in DOMAIN updates : ExecuteUpdate(i)
    \/ Tick

Spec == Init /\ [][Next]_vars

-----------------------------------------------------------------------------
\* Nothing runs early: a proposal runs only when a vote had made it pass and the timelock
\* that vote started is over, although the time is zero before, and the parameter in
\* force was agreed by a vote or queued for no less than the least delay, whatever the
\* delay and the admin have become.
NothingRunsEarly ==
    /\ \A i \in DOMAIN proposals : proposals[i].executed =>
          proposals[i].executableAt \in VoteTimelock..now
    /\ \/ settings.param = NoValue
       \/ \E i \in DOMAIN proposals :
             proposals[i].executed /\ proposals[i].action = <<"UpdateGovParam", settings.param>>
       \/ \E i \in DOMAIN updates :
             /\ updates[i].executed /\ updates[i].value = settings.param
             /\ updates[i].proposedAt + MinDelay <= now
=============================================================================
