------------------------- MODULE EmergencyControls --------------------------
(***************************************************************************)
(* The graduated emergency levels of counter/src/governance/emergency.rs.  *)
(* Signers file actions; the level in force is set by the last one that    *)
(* took effect and worked out again whenever one is lifted or expires.     *)
(* The audit trail records what happens and decides nothing.               *)
(***************************************************************************)
EXTENDS Integers, Sequences, FiniteSets, FiniteSetsExt

CONSTANTS
    Signers, Addresses,
    StandardThreshold, CriticalThreshold, MaxExpiry, Cooldown,   \* EmergencyConfig
    Levels, Expiries,       \* bounds: the levels and lifetimes of calls
    MaxActions, MaxTime     \* bounds

None == 0  \* EmergencyLevel
High == 3
Never == -1

EmergencyAssumption ==
    /\ Levels \subseteq None..4 /\ Expiries \subseteq Nat \cup {Never}
    /\ {StandardThreshold, CriticalThreshold, MaxExpiry, Cooldown} \subseteq Nat

VARIABLES
    level,          \* current_level
    actions,        \* EmergencyAction by id, from 1
    escalated,      \* last_escalation_at
    whitelist,
    now

vars == <<level, actions, escalated, whitelist, now>>

EmergencyAction ==
    [level : None..4, expires : Nat \cup {Never}, status : {"Active", "Expired", "Lifted"},
     approvals : SUBSET Signers, required : Nat]

TypeOK ==
    /\ level \in None..4 /\ actions \in Seq(EmergencyAction)
    /\ escalated \in Nat /\ whitelist \subseteq Addresses /\ now \in Nat

Init ==
    /\ level = None /\ actions = <<>> /\ escalated = 0
    /\ whitelist = {} /\ now = 0

Active(as) == {i \in DOMAIN as : as[i].status = "Active"}

\* recalculate_level: every active action counts, whether approved or pending
Recalculated(as) == Max({None} \cup {as[i].level : i \in Active(as)})

Required(l) == IF l >= High THEN CriticalThreshold ELSE StandardThreshold

SetEmergencyLevel(initiator, l, lifetime) ==
    LET needsMore == l >= High /\ Required(l) > 1
    IN  /\ ~(l > level /\ escalated > 0 /\ now < escalated + Cooldown)
        /\ Len(actions) < MaxActions
        /\ actions' = Append(actions,
              [level |-> l, status |-> "Active", approvals |-> {initiator},
               required |-> Required(l),
               expires |-> IF lifetime = Never THEN Never
                           ELSE now + Min({lifetime, MaxExpiry})])
        /\ level' = IF needsMore THEN level ELSE l
        /\ escalated' = IF needsMore THEN escalated ELSE now
        /\ UNCHANGED <<whitelist, now>>

ApproveEmergency(i, signer) ==
    LET approvals == actions[i].approvals \cup {signer}
        raises == Cardinality(approvals) >= actions[i].required /\ level < actions[i].level
    IN  /\ i \in Active(actions) /\ signer \notin actions[i].approvals
        /\ actions' = [actions EXCEPT ![i].approvals = approvals]
        /\ level' = IF raises THEN actions[i].level ELSE level
        /\ escalated' = IF raises THEN now ELSE escalated
        /\ UNCHANGED <<whitelist, now>>

\* Mutation: the level in force outlives its action
LiftEmergencyOnly(i) ==
    /\ i \in Active(actions)
    /\ actions' = [actions EXCEPT ![i].status = "Lifted"]
    /\ UNCHANGED <<level, escalated, whitelist, now>>

\* Any one signer
LiftEmergency(i) ==
    /\ i \in Active(actions)
    /\ actions' = [actions EXCEPT ![i].status = "Lifted"]
    /\ level' = Recalculated(actions')
    /\ UNCHANGED <<escalated, whitelist, now>>

\* Any one signer
EmergencyResume ==
    /\ level >= High
    /\ actions' = [i \in DOMAIN actions |->
          IF i \in Active(actions) THEN [actions[i] EXCEPT !.status = "Lifted"] ELSE actions[i]]
    /\ level' = None
    /\ UNCHANGED <<escalated, whitelist, now>>

Due(i) == i \in Active(actions) /\ actions[i].expires # Never /\ now >= actions[i].expires

\* tick
Expire ==
    /\ \E i \in DOMAIN actions : Due(i)
    /\ actions' = [i \in DOMAIN actions |->
          IF Due(i) THEN [actions[i] EXCEPT !.status = "Expired"] ELSE actions[i]]
    /\ level' = Recalculated(actions')
    /\ UNCHANGED <<escalated, whitelist, now>>

AddToWhitelist(address) ==
    /\ address \notin whitelist
    /\ whitelist' = whitelist \cup {address}
    /\ UNCHANGED <<level, actions, escalated, now>>

RemoveFromWhitelist(address) ==
    /\ whitelist' = whitelist \ {address}
    /\ UNCHANGED <<level, actions, escalated, now>>

\* The clock a caller passes
Tick == now < MaxTime /\ now' = now + 1 /\ UNCHANGED <<level, actions, escalated, whitelist>>

Next ==
    \/ \E s \in Signers, l \in Levels, e \in Expiries : SetEmergencyLevel(s, l, e)
    \/ \E i \in DOMAIN actions, s \in Signers : ApproveEmergency(i, s)
    \/ \E i \in DOMAIN actions : LiftEmergency(i)
    \/ EmergencyResume \/ Expire \/ Tick
    \/ \E a \in Addresses : AddToWhitelist(a) \/ RemoveFromWhitelist(a)

Spec == Init /\ [][Next]_vars

-----------------------------------------------------------------------------
\* The restrictions in force never outlive the actions that asked for them:
\* some active action is at least as severe as the level, whatever was lifted,
\* approved late or expired in between.
LevelCovered == level > None => \E i \in Active(actions) : actions[i].level >= level

\* "For critical levels, multi-sig is required": a level of High or above is
\* in force only with an action of that level that has its approvals.
HighNeedsApprovals ==
    level >= High =>
        \E i \in Active(actions) :
            actions[i].level >= High /\ Cardinality(actions[i].approvals) >= actions[i].required
=============================================================================
