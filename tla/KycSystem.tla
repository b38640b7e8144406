----------------------------- MODULE KycSystem ------------------------------
(***************************************************************************)
(* The KYC records of the counter contract: users submit, operators move   *)
(* the records through the review, verdicts are final, and the admin may   *)
(* override a verdict after a timelock.  Every call is one transaction: an *)
(* error undoes all of it, so an action is a call that succeeds.  Who      *)
(* updated a record, when and why is left out.  GovernanceProofs holds the *)
(* theorems of this module and of Governance, beside which it is extended. *)
(***************************************************************************)
EXTENDS Integers, Sequences, FiniteSets

CONSTANTS People,
          Timelocks, MinTimelock, DefaultTimelock,         \* of overrides
          Expiries, MinExpiry, DefaultExpiry,              \* of pending requests
          OverrideTargets,   \* the statuses overrides ask for
          MaxOperators, MaxTimestamp, LastTime, MaxOverrides

Statuses == {"Unverified", "Pending", "InReview", "AdditionalInfoRequired",
             "Verified", "Rejected"}

ASSUME TimeAssumption ==
  /\ MaxTimestamp \in Nat /\ LastTime \in 0..MaxTimestamp
  /\ MinTimelock \in Nat /\ DefaultTimelock \in Nat /\ MinTimelock <= DefaultTimelock
  /\ DefaultExpiry \in Nat
  /\ Timelocks \subseteq Nat /\ Expiries \subseteq Nat

ASSUME TargetAssumption == OverrideTargets \subseteq Statuses

VARIABLES admin,
          operators,       \* Operators, a list without repetition in the code
          records,         \* Record(user), Unverified when absent
          overrides,       \* Override(id), the id is the index minus one
          timelock,        \* TimelockDuration
          pendingExpiry,   \* PendingExpiryDuration
          clock            \* ledger time

settings == <<admin, operators, timelock, pendingExpiry>>
kycVars == <<records, overrides, settings, clock>>

Never == -1   \* an Option<u64> that is None

IsTerminal(status) == status \in {"Verified", "Rejected"}

\* can_transition_to
Successors(status) ==
  CASE status = "Unverified" -> {"Pending"}
    [] status = "Pending" -> {"InReview"}
    [] status = "InReview" -> {"AdditionalInfoRequired", "Verified", "Rejected"}
    [] status = "AdditionalInfoRequired" -> {"InReview"}
    [] OTHER -> {}

NewRecord == [status |-> "Unverified", finalizedAt |-> Never, expiresAt |-> Never]

IsFinalized(record) == record.finalizedAt # Never

IsExpired(record) == record.expiresAt # Never /\ clock >= record.expiresAt

IsOperator(p) == p = admin \/ p \in operators

KycInit ==
  /\ admin \in People
  /\ operators = {}
  /\ records = [u \in People |-> NewRecord]
  /\ overrides = << >>
  /\ timelock = DefaultTimelock
  /\ pendingExpiry = DefaultExpiry
  /\ clock = 0

-----------------------------------------------------------------------------
(* Operators and settings, by the admin. *)

AddOperator(p) ==
  /\ Cardinality(operators) < MaxOperators
  /\ operators' = operators \cup {p}
  /\ UNCHANGED <<records, overrides, admin, timelock, pendingExpiry, clock>>

RemoveOperator(p) ==
  /\ operators' = operators \ {p}
  /\ UNCHANGED <<records, overrides, admin, timelock, pendingExpiry, clock>>

SetTimelockDuration(duration) ==
  /\ duration >= MinTimelock
  /\ timelock' = duration
  /\ UNCHANGED <<records, overrides, admin, operators, pendingExpiry, clock>>

SetPendingExpiryDuration(duration) ==
  /\ duration >= MinExpiry
  /\ pendingExpiry' = duration
  /\ UNCHANGED <<records, overrides, admin, operators, timelock, clock>>

\* set_admin of the contract
SetAdmin(p) ==
  /\ admin' = p
  /\ UNCHANGED <<records, overrides, operators, timelock, pendingExpiry, clock>>

-----------------------------------------------------------------------------
(* The review. *)

\* The record after an operator moved it on
Reviewed(record, status) ==
  [status      |-> status,
   expiresAt   |-> IF status = "Pending" THEN record.expiresAt ELSE Never,
   finalizedAt |-> IF IsTerminal(status) THEN clock ELSE record.finalizedAt]

\* Mutation: an expired request is reviewed all the same.
UpdateStatusLate(operator, user, status) ==
  LET record == records[user]
  IN /\ IsOperator(operator)
     /\ operator # user
     /\ ~ IsFinalized(record)
     /\ status \in Successors(record.status)
     /\ records' = [records EXCEPT ![user] = Reviewed(record, status)]
     /\ UNCHANGED <<overrides, settings, clock>>

UpdateStatus(operator, user, status) ==
  LET record == records[user]
  IN /\ IsOperator(operator)
     /\ operator # user
     /\ ~ IsFinalized(record)
     /\ ~ (record.status = "Pending" /\ IsExpired(record))
     /\ status \in Successors(record.status)
     /\ records' = [records EXCEPT ![user] = Reviewed(record, status)]
     /\ UNCHANGED <<overrides, settings, clock>>

\* The sum is checked: an expiry beyond the largest timestamp fails the call.
SubmitKyc(user) ==
  /\ records[user].status = "Unverified"
  /\ clock + pendingExpiry <= MaxTimestamp
  /\ records' = [records EXCEPT ![user].status = "Pending",
                                ![user].expiresAt = clock + pendingExpiry]
  /\ UNCHANGED <<overrides, settings, clock>>

ResubmitKyc(user) ==
  /\ records[user].status = "AdditionalInfoRequired"
  /\ records' = [records EXCEPT ![user].status = "InReview"]
  /\ UNCHANGED <<overrides, settings, clock>>

-----------------------------------------------------------------------------
(* Overrides, by the admin of the moment. *)

\* Mutation: an override is proposed of any record, decided or not.
ProposeOverrideAnytime(user, status) ==
  /\ Len(overrides) < MaxOverrides
  /\ clock + timelock <= MaxTimestamp
  /\ overrides' = Append(overrides, [user |-> user, newStatus |-> status, proposedAt |-> clock,
                                     executableAt |-> clock + timelock, executed |-> FALSE])
  /\ UNCHANGED <<records, settings, clock>>

ProposeOverride(user, status) ==
  /\ Len(overrides) < MaxOverrides
  /\ IsFinalized(records[user])
  /\ clock + timelock <= MaxTimestamp
  /\ overrides' = Append(overrides, [user |-> user, newStatus |-> status, proposedAt |-> clock,
                                     executableAt |-> clock + timelock, executed |-> FALSE])
  /\ UNCHANGED <<records, settings, clock>>

\* The record after an override, whatever it has become since the proposal
Overridden(record, status) ==
  [record EXCEPT !.status = status,
                 !.finalizedAt = IF IsTerminal(status) THEN clock ELSE Never]

\* Mutation: the timelock is not waited for.
OverdueAlways(override) == ~ override.executed

MarkExecuted(k) == [overrides EXCEPT ![k].executed = TRUE]
Overdue(override) == ~ override.executed /\ clock >= override.executableAt

ExecuteOverride(k) ==
  LET override == overrides[k]
  IN /\ Overdue(override)
     /\ records' = [records EXCEPT ![override.user] = Overridden(@, override.newStatus)]
     /\ overrides' = MarkExecuted(k)
     /\ UNCHANGED <<settings, clock>>

\* The environment: ledger time
KycTick ==
  /\ clock < LastTime
  /\ clock' = clock + 1
  /\ UNCHANGED <<records, overrides, settings>>

KycNext ==
  \/ \E p \in People : AddOperator(p)
  \/ \E p \in People : RemoveOperator(p)
  \/ \E d \in Timelocks : SetTimelockDuration(d)
  \/ \E d \in Expiries : SetPendingExpiryDuration(d)
  \/ \E p \in People : SetAdmin(p)
  \/ \E p, u \in People, status \in Statuses : UpdateStatus(p, u, status)
  \/ \E u \in People : SubmitKyc(u)
  \/ \E u \in People : ResubmitKyc(u)
  \/ \E u \in People, status \in OverrideTargets : ProposeOverride(u, status)
  \/ \E k \in DOMAIN overrides : ExecuteOverride(k)
  \/ KycTick

KycSpec == KycInit /\ [][KycNext]_kycVars
-----------------------------------------------------------------------------
(***************************************************************************)
(* Properties.                                                             *)
(***************************************************************************)

Time == 0..MaxTimestamp
Record == [status : Statuses, finalizedAt : Time \cup {Never}, expiresAt : Time \cup {Never}]
Override == [user : People, newStatus : Statuses, proposedAt : Time, executableAt : Time,
             executed : BOOLEAN]

\* Every variable has its type; in particular no sum of times passes the largest one.
KycTypeOK ==
  /\ admin \in People /\ operators \subseteq People
  /\ records \in [People -> Record]
  /\ overrides \in Seq(Override)
  /\ timelock \in Nat /\ pendingExpiry \in Nat
  /\ clock \in 0..LastTime

\* The date that makes a record immutable and the status it is about never part: a record
\* is dated exactly when it holds a verdict, also after overrides back and forth.
VerdictsDated ==
  \A u \in People :
    /\ IsFinalized(records[u]) <=> IsTerminal(records[u].status)
    /\ records[u].finalizedAt <= clock

\* No override is carried out before the shortest timelock is over, whatever the admin set
\* the timelock to before the proposal or after it.
OverridesWait ==
  \A k \in DOMAIN overrides :
    overrides[k].executed => clock >= overrides[k].proposedAt + MinTimelock

\* A verdict, and a request that expired, stand until an override of that very user is
\* carried out: an expired request can neither be reviewed nor submitted again.
Frozen(u) ==
  \/ IsTerminal(records[u].status)
  \/ records[u].status = "Pending" /\ IsExpired(records[u])

FrozenUntilOverride ==
  [][\A u \in People :
       Frozen(u) /\ records'[u] # records[u] =>
         \E k \in DOMAIN overrides :
           /\ overrides[k].user = u /\ ~ overrides[k].executed
           /\ overrides'[k].executed /\ records'[u].status = overrides[k].newStatus
    ]_kycVars

(***************************************************************************)
(* The records implement the documented state machine.                     *)
(***************************************************************************)
Standing == INSTANCE ReviewedStanding WITH
  Users <- People,
  Standings <- Statuses,
  standing <- [u \in People |-> records[u].status],
  decisions <- [k \in DOMAIN overrides |->
                  [user |-> overrides[k].user, target |-> overrides[k].newStatus,
                   carried |-> overrides[k].executed]]

\* Statuses move along the documented transitions only, unless an override that was
\* proposed while a verdict stood is carried out, once.
ImplementsStanding == Standing!Spec
=============================================================================
