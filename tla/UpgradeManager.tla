--------------------------- MODULE UpgradeManager ---------------------------
(***************************************************************************)
(* The contract's version marker and the two that write it: the upgrades   *)
(* of counter/src/governance/upgrade_manager.rs, which keep one pending    *)
(* proposal, and the data migration of counter/src/migration.rs, which     *)
(* runs below version 2.  An upgrade may name any version, a lower one     *)
(* too, and then the migration is due again.                               *)
(***************************************************************************)
EXTENDS Integers, Sequences, FiniteSets

CONSTANTS
    Signers, Admin,
    SignerSets, Delays,             \* bounds: the arguments of initialize
    Versions, MaxUpgrades, MaxTime  \* bounds

ManagerAssumption ==
    /\ Versions \subseteq Nat /\ Delays \subseteq Nat
    /\ \A s \in SignerSets : s \subseteq Signers /\ s # {}

NoTime == -1
NoPending == <<>>

VARIABLES
    config,         \* UpgradeConfig
    pending,        \* PendingUpgrade or none
    version,        \* v_code
    history,        \* UpgradeRecord: from and to
    migrated,       \* migration_time of the portfolio
    now

vars == <<config, pending, version, history, migrated, now>>

\* The default configuration has no signers and a threshold of zero;
\* lib.rs initialize writes the first version
Init ==
    /\ config = [signers |-> {}, threshold |-> 0, delay |-> 2]
    /\ pending = NoPending /\ version = 1 /\ history = <<>>
    /\ migrated = NoTime /\ now = 0

TypeOK ==
    /\ config \in [signers : SUBSET Signers, threshold : Nat, delay : Nat]
    /\ pending = NoPending
       \/ pending \in [version : Versions, approvedBy : SUBSET Signers,
                       executable : Nat, executed : BOOLEAN]
    /\ version \in Nat /\ history \in Seq(Nat \X Nat)
    /\ migrated \in Nat \cup {NoTime} /\ now \in Nat

\* The admin, at any time: the pending upgrade stays
Initialize(signers, threshold, delay) ==
    /\ threshold \in 1..Cardinality(signers)
    /\ config' = [signers |-> signers, threshold |-> threshold, delay |-> delay]
    /\ UNCHANGED <<pending, version, history, migrated, now>>

\* Takes the place of whatever is pending
ProposeUpgrade(proposer, v) ==
    /\ proposer \in config.signers
    /\ pending' = [version |-> v, approvedBy |-> {proposer},
                   executable |-> now + config.delay, executed |-> FALSE]
    /\ UNCHANGED <<config, version, history, migrated, now>>

ApproveUpgrade(approver) ==
    /\ approver \in config.signers
    /\ pending # NoPending /\ ~pending.executed /\ approver \notin pending.approvedBy
    /\ pending' = [pending EXCEPT !.approvedBy = @ \cup {approver}]
    /\ UNCHANGED <<config, version, history, migrated, now>>

\* Anyone; the threshold is today's, the timelock that of the proposal
ExecuteUpgrade ==
    /\ pending # NoPending /\ ~pending.executed
    /\ Cardinality(pending.approvedBy) >= config.threshold
    /\ now >= pending.executable
    /\ Len(history) < MaxUpgrades
    /\ history' = Append(history, <<version, pending.version>>)
    /\ version' = pending.version
    /\ pending' = [pending EXCEPT !.executed = TRUE]
    /\ UNCHANGED <<config, migrated, now>>

\* The admin or anyone who has approved
CancelUpgrade(caller) ==
    /\ pending # NoPending /\ ~pending.executed
    /\ caller = Admin \/ caller \in pending.approvedBy
    /\ pending' = NoPending
    /\ UNCHANGED <<config, version, history, migrated, now>>

\* migrate_from_v1_to_v2
Migrate ==
    /\ version < 2
    /\ migrated' = IF migrated = NoTime THEN now ELSE migrated
    /\ version' = 2
    /\ UNCHANGED <<config, pending, history, now>>

Tick ==
    now < MaxTime /\ now' = now + 1 /\ UNCHANGED <<config, pending, version, history, migrated>>

Next ==
    \/ \E s \in SignerSets, k \in 1..Cardinality(Signers), d \in Delays : Initialize(s, k, d)
    \/ \E s \in Signers, v \in Versions : ProposeUpgrade(s, v)
    \/ \E s \in Signers : ApproveUpgrade(s)
    \/ ExecuteUpgrade
    \/ \E s \in Signers \cup {Admin} : CancelUpgrade(s)
    \/ Migrate \/ Tick

Spec == Init /\ [][Next]_vars

-----------------------------------------------------------------------------
\* The data are migrated once and for all: an upgrade back to version 1 makes
\* the migration due again, and running it then changes no data.
MigratedOnce == migrated # NoTime => migrated' = migrated
=============================================================================
