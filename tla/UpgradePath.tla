---------------------------- MODULE UpgradePath -----------------------------
(***************************************************************************)
(* The staged protocol upgrades of counter/src/governance/upgrade.rs: a    *)
(* proposal collects approvals, waits out a timelock and moves the version *)
(* in force; a rollback moves it to the one before.  Proposals do not see  *)
(* each other, and what is checked against the version in force is checked *)
(* when a proposal is made.                                                *)
(***************************************************************************)
EXTENDS Integers, Sequences, FiniteSets

CONSTANTS
    Signers,
    Versions, FirstVersion,     \* <<major, minor, patch>>
    MajorApprovals, MinorApprovals, PatchApprovals,     \* UpgradeConfig
    DefaultTimelock, HotfixTimelock, Lifetime, RollbackEnabled,
    MaxProposals, MaxTime       \* bounds

Types == {"Major", "Minor", "Patch", "Hotfix", "Config"}

\* The order of versions: by major, then minor, then patch
Newer(v, w) ==
    \E k \in 1..3 : v[k] > w[k] /\ \A j \in 1..(k - 1) : v[j] = w[j]

UpgradeAssumption ==
    /\ Versions \subseteq Seq(Nat) /\ \A v \in Versions : Len(v) = 3
    /\ FirstVersion \in Versions /\ RollbackEnabled \in BOOLEAN
    /\ {MajorApprovals, MinorApprovals, PatchApprovals} \subseteq Nat
    /\ {DefaultTimelock, HotfixTimelock, Lifetime} \subseteq Nat

NoTime == -1
NoVersion == <<>>

VARIABLES
    current,        \* current_version
    rollbackTo,     \* rollback_version
    proposals,      \* UpgradeProposal by id, from 1
    history,        \* the versions of the UpgradeRecords
    now

vars == <<current, rollbackTo, proposals, history, now>>

UpgradeProposal ==
    [from : Versions, to : Versions, type : Types, approvals : SUBSET Signers,
     proposed : Nat, unlocks : Nat \cup {NoTime},
     status : {"Proposed", "Timelock", "Executed", "Cancelled"}]

TypeOK ==
    /\ current \in Versions /\ rollbackTo \in Versions \cup {NoVersion}
    /\ proposals \in Seq(UpgradeProposal) /\ history \in Seq(Versions \X Versions)
    /\ now \in Nat

Init ==
    /\ current = FirstVersion /\ rollbackTo = NoVersion
    /\ proposals = <<>> /\ history = <<>> /\ now = 0

\* The size of the jump a type of upgrade asks for
Bump(type, v) ==
    CASE type = "Major" -> v[1] > current[1]
      [] type = "Minor" -> v[1] = current[1] /\ v[2] > current[2]
      [] type = "Patch" -> v[1] = current[1] /\ v[2] = current[2] /\ v[3] > current[3]
      [] OTHER -> TRUE

Required(type) ==
    CASE type = "Major" -> MajorApprovals
      [] type \in {"Minor", "Hotfix"} -> MinorApprovals
      [] OTHER -> PatchApprovals

Timelock(type) == IF type = "Hotfix" THEN HotfixTimelock ELSE DefaultTimelock

ProposeUpgrade(proposer, v, type) ==
    /\ Newer(v, current) /\ Bump(type, v) /\ Len(proposals) < MaxProposals
    /\ proposals' = Append(proposals,
          [from |-> current, to |-> v, type |-> type, approvals |-> {proposer},
           proposed |-> now, unlocks |-> NoTime, status |-> "Proposed"])
    /\ UNCHANGED <<current, rollbackTo, history, now>>

\* A late approval fails, but the proposal it came too late for stays cancelled.
\* The proposer's own approval starts no timelock, whatever is required.
ApproveUpgrade(i, signer) ==
    LET p == proposals[i]
        late == now > p.proposed + Lifetime
        approvals == p.approvals \cup {signer}
        enough == Cardinality(approvals) >= Required(p.type)
    IN  /\ p.status = "Proposed"
        /\ late \/ signer \notin p.approvals
        /\ proposals' = [proposals EXCEPT ![i] =
              IF late THEN [p EXCEPT !.status = "Cancelled"]
              ELSE [p EXCEPT
                      !.approvals = approvals,
                      !.status = IF enough THEN "Timelock" ELSE @,
                      !.unlocks = IF enough THEN now + Timelock(p.type) ELSE @]]
        /\ UNCHANGED <<current, rollbackTo, history, now>>

\* Mutation: whatever has a timelock runs when it is over
CanExecuteAny(p) == p.unlocks # NoTime /\ now >= p.unlocks

CanExecute(p) == p.status = "Timelock" /\ p.unlocks # NoTime /\ now >= p.unlocks

\* Anyone; the version in force is not looked at again
ExecuteUpgrade(i) ==
    /\ CanExecute(proposals[i])
    /\ rollbackTo' = current /\ current' = proposals[i].to
    /\ proposals' = [proposals EXCEPT ![i].status = "Executed"]
    /\ history' = Append(history, <<proposals[i].from, proposals[i].to>>)
    /\ UNCHANGED now

CancelUpgrade(i) ==
    /\ proposals[i].status # "Executed"
    /\ proposals' = [proposals EXCEPT ![i].status = "Cancelled"]
    /\ UNCHANGED <<current, rollbackTo, history, now>>

\* The version before stays the one to go back to
Rollback ==
    /\ RollbackEnabled /\ rollbackTo # NoVersion
    /\ Len(history) < 2 * MaxProposals
    /\ history' = Append(history, <<current, rollbackTo>>)
    /\ current' = rollbackTo
    /\ UNCHANGED <<rollbackTo, proposals, now>>

Tick == now < MaxTime /\ now' = now + 1 /\ UNCHANGED <<current, rollbackTo, proposals, history>>

Next ==
    \/ \E s \in Signers, v \in Versions, t \in Types : ProposeUpgrade(s, v, t)
    \/ \E i \in DOMAIN proposals, s \in Signers : ApproveUpgrade(i, s)
    \/ \E i \in DOMAIN proposals : ExecuteUpgrade(i) \/ CancelUpgrade(i)
    \/ Rollback \/ Tick

Spec == Init /\ [][Next]_vars

-----------------------------------------------------------------------------
\* What is over stays over: a proposal that ran never runs again, nor is it
\* cancelled, and a cancelled or expired one never runs, so that each entry of
\* the history is one proposal's own move or a rollback.
Settled ==
    \A i \in DOMAIN proposals :
        proposals[i].status \in {"Executed", "Cancelled"} => proposals'[i] = proposals[i]
=============================================================================
