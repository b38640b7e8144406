----------------------------- MODULE Governance ------------------------------
(***************************************************************************)
(* The governance contract (swaptrade-contracts/governance): a list of     *)
(* signers proposes and approves changes, which anybody may execute once   *)
(* enough signers approve and the timelock has passed; beside it a proxy   *)
(* with a pause switch and a scheduled upgrade.                            *)
(*                                                                         *)
(* A Soroban call is atomic and an Err rolls all of it back, so every      *)
(* action below is one successful call; a call that fails is a stuttering  *)
(* step.  created_at and the proposal's own copy of its id are left out:   *)
(* the proposal with id k is the (k+1)st of the sequence.                  *)
(***************************************************************************)
EXTENDS Integers, SequencesExt

CONSTANTS Addresses,       \* callers, and signers to be
          Implementations, \* contracts the proxy can point to
          None,            \* no address
          SignerLists,     \* the lists initialize is called with
          Actions,         \* the actions callers propose
          Thresholds,      \* the thresholds asked for (u32)
          Delays,          \* the timelock delays asked for
          MaxU64,          \* the largest timestamp
          MaxTime,         \* bound: the last ledger timestamp
          MaxProposals     \* bound: proposals ever made

ProposalAction ==
  [kind : {"Pause", "Unpause"}, who : {None}, value : {0}]
    \cup [kind : {"Upgrade"}, who : Implementations, value : {0}]
    \cup [kind : {"AddSigner", "RemoveSigner"}, who : Addresses, value : {0}]
    \cup [kind : {"SetThreshold"}, who : {None}, value : Thresholds]
    \cup [kind : {"SetTimelockDelay"}, who : {None}, value : Delays]

ASSUME NoneAssumption == None \notin Addresses \cup Implementations
ASSUME ArgumentsAssumption == /\ SignerLists \subseteq Seq(Addresses)
                              /\ Thresholds \subseteq Nat /\ Delays \subseteq Nat
                              /\ Actions \subseteq ProposalAction
ASSUME BoundsAssumption == MaxU64 \in Nat /\ MaxTime \in 0..MaxU64 /\ MaxProposals \in Nat

VARIABLES initialized,
          signers, threshold, timelockDelay,  \* the rules
          proposals, nonce,
          paused, implementation, scheduled,  \* the proxy
          now                                 \* the ledger timestamp

rules == <<signers, threshold, timelockDelay>>
proxy == <<paused, implementation, scheduled>>
vars == <<initialized, rules, proposals, nonce, proxy, now>>

Ids == 1..Len(proposals)

Proposal == [proposer : Addresses, action : Actions, signatures : Seq(Addresses),
             threshold : Nat, executeAfter : 0..MaxU64, executed : BOOLEAN,
             canceled : BOOLEAN, nonce : Nat]

IsSigner(p) == p \in Range(signers)
-----------------------------------------------------------------------------
Init ==
  /\ initialized = FALSE
  /\ signers = << >> /\ threshold = 0 /\ timelockDelay = 0
  /\ proposals = << >> /\ nonce = 0
  /\ paused = FALSE /\ implementation = None /\ scheduled = None
  /\ now = 0

\* initialize: once; the list of signers is taken as it comes.
Initialize(list, t, delay, impl) ==
  /\ ~ initialized
  /\ t > 0 /\ t <= Len(list)
  /\ initialized' = TRUE
  /\ signers' = list /\ threshold' = t /\ timelockDelay' = delay
  /\ paused' = FALSE /\ implementation' = impl
  /\ nonce' = 0
  /\ UNCHANGED <<proposals, scheduled, now>>

SaturatingAdd(t, d) == IF t + d > MaxU64 THEN MaxU64 ELSE t + d
NextNonce == nonce + 1

\* propose: threshold and timelock are those of this moment.
Propose(proposer, action) ==
  /\ IsSigner(proposer)
  /\ Len(proposals) < MaxProposals
  /\ nonce' = nonce + 1
  /\ proposals' = Append(proposals,
       [proposer |-> proposer, action |-> action, signatures |-> << >>,
        threshold |-> threshold, executeAfter |-> SaturatingAdd(now, timelockDelay),
        executed |-> FALSE, canceled |-> FALSE, nonce |-> NextNonce])
  /\ UNCHANGED <<initialized, rules, proxy, now>>

NotSigned(p, signer) == signer \notin Range(p.signatures)

\* approve
Approve(i, signer) ==
  /\ ~ proposals[i].executed /\ ~ proposals[i].canceled
  /\ IsSigner(signer)
  /\ NotSigned(proposals[i], signer)
  /\ proposals' = [proposals EXCEPT ![i].signatures = Append(@, signer)]
  /\ UNCHANGED <<initialized, rules, nonce, proxy, now>>

\* The list without the first occurrence of x
Without(list, x) == RemoveFirst(list, x)

\* Mutation: an executed proposal still loses signatures.
RevokeExecuted(i, signer) ==
  /\ proposals' = [proposals EXCEPT ![i].signatures = Without(@, signer)]
  /\ UNCHANGED <<initialized, rules, nonce, proxy, now>>

\* revoke: by whoever signed, a signer still or not, canceled or not
Revoke(i, signer) ==
  /\ ~ proposals[i].executed
  /\ proposals' = [proposals EXCEPT ![i].signatures = Without(@, signer)]
  /\ UNCHANGED <<initialized, rules, nonce, proxy, now>>

\* Mutation: the timelock ends a moment late.
DueLater(p) == ~ p.executed /\ ~ p.canceled /\ now > p.executeAfter

QuorumReached(p) == Len(p.signatures) >= p.threshold
Due(p) == ~ p.executed /\ ~ p.canceled /\ now >= p.executeAfter

WithSigner(list, p) == IF p \in Range(list) THEN list ELSE Append(list, p)

\* Mutation: an upgrade by proposal leaves the schedule alone.
UpgradeUnscheduled(impl) == implementation' = impl /\ UNCHANGED scheduled

Upgrade(impl) == implementation' = impl /\ scheduled' = None

\* What the action of a proposal does
Apply(action) ==
  \/ /\ action.kind \in {"Pause", "Unpause"}
     /\ paused' = (action.kind = "Pause")
     /\ UNCHANGED <<rules, implementation, scheduled>>
  \/ /\ action.kind = "Upgrade"
     /\ Upgrade(action.who)
     /\ UNCHANGED <<rules, paused>>
  \/ /\ action.kind = "AddSigner"
     /\ signers' = WithSigner(signers, action.who)
     /\ UNCHANGED <<threshold, timelockDelay, proxy>>
  \/ /\ action.kind = "RemoveSigner"
     /\ signers' = Without(signers, action.who)
     /\ UNCHANGED <<threshold, timelockDelay, proxy>>
  \/ /\ action.kind = "SetThreshold"
     /\ threshold' = action.value
     /\ UNCHANGED <<signers, timelockDelay, proxy>>
  \/ /\ action.kind = "SetTimelockDelay"
     /\ timelockDelay' = action.value
     /\ UNCHANGED <<signers, threshold, proxy>>

\* Mutation: an execution leaves no mark.
ExecuteUnmarked(i) ==
  /\ Due(proposals[i])
  /\ QuorumReached(proposals[i])
  /\ Apply(proposals[i].action)
  /\ UNCHANGED <<initialized, proposals, nonce, now>>

\* execute: anybody may call it.
Execute(i) ==
  /\ Due(proposals[i])
  /\ QuorumReached(proposals[i])
  /\ Apply(proposals[i].action)
  /\ proposals' = [proposals EXCEPT ![i].executed = TRUE]
  /\ UNCHANGED <<initialized, nonce, now>>

\* cancel: only the proposer, also of what is canceled already
Cancel(i, caller) ==
  /\ ~ proposals[i].executed
  /\ caller = proposals[i].proposer
  /\ proposals' = [proposals EXCEPT ![i].canceled = TRUE]
  /\ UNCHANGED <<initialized, rules, nonce, proxy, now>>

\* schedule_upgrade: before initialize there is no implementation to compare with.
ScheduleUpgrade(impl) ==
  /\ ~ paused
  /\ implementation # None /\ impl # implementation
  /\ scheduled' = impl
  /\ UNCHANGED <<initialized, rules, proposals, nonce, paused, implementation, now>>

\* execute_upgrade: also lifts a pause
ExecuteUpgrade ==
  /\ scheduled # None
  /\ implementation' = scheduled
  /\ scheduled' = None
  /\ paused' = FALSE
  /\ UNCHANGED <<initialized, rules, proposals, nonce, now>>

\* pause and unpause
Pause ==
  /\ ~ paused
  /\ paused' = TRUE
  /\ UNCHANGED <<initialized, rules, proposals, nonce, implementation, scheduled, now>>

Unpause ==
  /\ paused
  /\ paused' = FALSE
  /\ UNCHANGED <<initialized, rules, proposals, nonce, implementation, scheduled, now>>

\* The environment: ledger time
Tick ==
  /\ now < MaxTime
  /\ now' = now + 1
  /\ UNCHANGED <<initialized, rules, proposals, nonce, proxy>>
-----------------------------------------------------------------------------
Next ==
  \/ \E list \in SignerLists, t \in Thresholds, delay \in Delays, impl \in Implementations :
       Initialize(list, t, delay, impl)
  \/ \E p \in Addresses, action \in Actions : Propose(p, action)
  \/ \E i \in Ids, p \in Addresses : Approve(i, p)
  \/ \E i \in Ids, p \in Addresses : Revoke(i, p)
  \/ \E i \in Ids : Execute(i)
  \/ \E i \in Ids, p \in Addresses : Cancel(i, p)
  \/ \E impl \in Implementations : ScheduleUpgrade(impl)
  \/ ExecuteUpgrade
  \/ Pause
  \/ Unpause
  \/ Tick

Spec == Init /\ [][Next]_vars

(***************************************************************************)
(* Time advances, and somebody executes what can be executed: execute asks *)
(* for no signer, so any keeper will do.                                   *)
(***************************************************************************)
KeeperExecute(i) == i \in Ids /\ Execute(i)

Fairness == WF_vars(Tick) /\ \A i \in 1..MaxProposals : WF_vars(KeeperExecute(i))

FairSpec == Spec /\ Fairness
-----------------------------------------------------------------------------
(***************************************************************************)
(* Properties.                                                             *)
(***************************************************************************)

\* Every variable has its type; in particular no timelock ends beyond the largest
\* timestamp.
TypeOK ==
  /\ initialized \in BOOLEAN
  /\ signers \in Seq(Addresses) /\ threshold \in Nat /\ timelockDelay \in Nat
  /\ proposals \in Seq(Proposal) /\ nonce \in Nat
  /\ paused \in BOOLEAN
  /\ implementation \in Implementations \cup {None}
  /\ scheduled \in Implementations \cup {None}
  /\ now \in 0..MaxTime

\* Nonces and ids are kept by two counters that never part: the nonces of the proposals
\* are 1, 2, 3, ..., each used once.
NonceExact == nonce = Len(proposals) /\ \A i \in Ids : proposals[i].nonce = i

\* No proposal is signed twice by one signer, whatever is revoked and approved again.
SignedOnce == \A i \in Ids : IsInjective(proposals[i].signatures)

\* Behind every executed proposal stand, for ever, as many different signers as the
\* threshold asked for when it was made, and its timelock is over: no revocation after
\* the execution takes one away, and no change of the rules counts in its favour.
ExecutedHasQuorum ==
  \A i \in Ids :
    proposals[i].executed =>
      /\ Cardinality(Range(proposals[i].signatures)) >= proposals[i].threshold
      /\ now >= proposals[i].executeAfter

\* A scheduled upgrade always changes something: an upgrade by proposal that overtakes
\* it takes it off the schedule.
ScheduleIsNews == scheduled # None => initialized /\ scheduled # implementation

\* An executed proposal is never touched again; a canceled one stays canceled and is
\* never executed; and no step changes the terms of any proposal.
FinishedIsFinal ==
  [][\A i \in Ids :
       LET p == proposals[i]  q == proposals'[i]
       IN /\ p.executed => q = p
          /\ p.canceled => q.canceled /\ ~ q.executed
          /\ q = [p EXCEPT !.signatures = q.signatures, !.executed = q.executed,
                           !.canceled = q.canceled]
    ]_vars

\* As long as the signers were listed once each to begin with, they are.
ListedOnce == (\A list \in SignerLists : IsInjective(list)) => IsInjective(signers)

(***************************************************************************)
(* The governor implements timelocked decisions: its list of signers acts  *)
(* as a set, and its rules change only by proposals, one at a time.        *)
(***************************************************************************)
Phase(p) == CASE p.executed -> "carried"
              [] ~ p.executed /\ p.canceled -> "withdrawn"
              [] OTHER -> "pending"

Decisions == INSTANCE TimelockedDecisions WITH
  Charters <- {[members |-> Range(list), quorum |-> t, delay |-> d] :
                 list \in SignerLists, t \in Thresholds, d \in Delays},
  decisions <- [i \in Ids |-> [action |-> proposals[i].action, phase |-> Phase(proposals[i])]],
  rules <- [members |-> Range(signers), quorum |-> threshold, delay |-> timelockDelay]

\* Nothing but the execution of a pending proposal changes the signers, the threshold or
\* the delay, and each proposal does so at most once.
ImplementsDecisions == Decisions!Spec

(***************************************************************************)
(* Liveness, under the fairness above.                                     *)
(***************************************************************************)
Approved(i) ==
  /\ i \in Ids
  /\ ~ proposals[i].executed /\ ~ proposals[i].canceled
  /\ Len(proposals[i].signatures) >= proposals[i].threshold
  /\ proposals[i].executeAfter <= MaxTime

\* A proposal that its signers approve is executed once its timelock is over, unless
\* they revoke or the proposer cancels meanwhile, whatever becomes of the rules.  (Times
\* the bounded clock never reaches are left out.)
ApprovedIsCarried == \A i \in 1..MaxProposals : Approved(i) ~> ~ Approved(i)
=============================================================================
