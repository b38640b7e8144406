--------------------------- MODULE Decentralization ---------------------------
(***************************************************************************)
(* The schedule of counter/src/governance/governance.rs that takes the     *)
(* admin's power away by phases, with its timelock, its multi-signature    *)
(* coordinator and the log both write to, and the controller of            *)
(* counter/src/governance/admin.rs in front of it: trading may be paused,  *)
(* the fee set directly or by a queued operation, the largest trade by a   *)
(* proposal of the guardians.                                              *)
(*                                                                         *)
(* The id of an operation is the hash of its content and of the second it  *)
(* is queued in, that of a proposal also of its proposer: ids are tuples   *)
(* here.  The same content in the same second replaces what was there.     *)
(* Hash chain, Merkle root and signature arithmetic are left out; the      *)
(* caller of guardian_override holds a valid proof of one of the keys.     *)
(***************************************************************************)
EXTENDS Integers, Sequences, FiniteSets

CONSTANTS
    Guardians, Threshold,       \* 3 of 5 in the code
    Delay, Month,               \* 72 hours and 30 days
    Values,                     \* bound: the fees and sizes asked for
    Moments, MaxLog             \* bounds: the readings of the clock, the log

DecentralizationAssumption ==
    /\ Threshold \in 1..Cardinality(Guardians) /\ Moments \subseteq Nat /\ 0 \in Moments
    /\ Delay \in Nat \ {0} /\ Month \in Nat \ {0} /\ MaxLog \in Nat \ {0, 1}

VARIABLES
    timelock,       \* operation id -> entry
    multisig,       \* proposal id -> proposal
    log,            \* the events, oldest first
    reported,       \* last_reported_phase
    state,          \* ContractState; its admin never changes
    now             \* since the deployment

vars == <<timelock, multisig, log, reported, state, now>>

Phases == {"FullAdmin", "PauseOnly", "MultiSig", "DaoOnly"}
Nobody == "nobody"
OperationIds == Values \X Moments
ProposalIds == Guardians \X Values \X Moments

\* What an event is about, and who caused it where the log says so
Subjects == OperationIds \cup ProposalIds \cup {<<>>}
                \cup {<<p>> : p \in Phases} \cup {<<g>> : g \in Guardians}
Kinds == {"ScheduleVerified", "PhaseTransition", "Queued", "OperationExecuted", "Cancelled",
          "Created", "Approved", "ProposalExecuted", "Override"}
Event == [kind : Kinds, about : Subjects, who : Guardians \cup Phases \cup {Nobody}, at : Moments]

\* GovernancePhase::from_elapsed
PhaseAt(elapsed) ==
    LET months == elapsed \div Month
    IN  IF months <= 2 THEN "FullAdmin"
        ELSE IF months <= 5 THEN "PauseOnly"
        ELSE IF months <= 11 THEN "MultiSig" ELSE "DaoOnly"

\* DecentralizationSchedule::months_to_next_phase; the last phase has none
MonthsToNextPhase(elapsed) ==
    LET months == elapsed \div Month
        start == CASE PhaseAt(elapsed) = "FullAdmin" -> 3
                   [] PhaseAt(elapsed) = "PauseOnly" -> 6
                   [] OTHER -> 12
    IN  start - months

\* assert_can_modify_state, assert_can_pause
CanModifyState(elapsed) == PhaseAt(elapsed) = "FullAdmin"
CanPause(elapsed) == PhaseAt(elapsed) \in {"FullAdmin", "PauseOnly"}

Logged(kind, about, who) == [kind |-> kind, about |-> about, who |-> who, at |-> now]
Record(kind, about, who) ==
    Len(log) < MaxLog /\ log' = Append(log, Logged(kind, about, who))

\* deploy writes two events
Init ==
    /\ timelock = <<>> /\ multisig = <<>> /\ reported = "FullAdmin" /\ now = 0
    /\ state = [paused |-> FALSE, fee |-> 0, size |-> 0]
    /\ log = << [kind |-> "ScheduleVerified", about |-> <<>>, who |-> Nobody, at |-> 0],
                [kind |-> "PhaseTransition", about |-> <<"FullAdmin">>, who |-> "FullAdmin", at |-> 0] >>

TypeOK ==
    /\ DOMAIN timelock \subseteq OperationIds /\ DOMAIN multisig \subseteq ProposalIds
    /\ \A id \in DOMAIN timelock :
          timelock[id] \in [eta : Nat, executed : BOOLEAN, cancelled : BOOLEAN]
    /\ \A id \in DOMAIN multisig :
          multisig[id] \in [approvals : SUBSET Guardians, executed : BOOLEAN]
    /\ state \in [paused : BOOLEAN, fee : Values \cup {0}, size : Values \cup {0}]
    /\ reported \in Phases /\ now \in Moments
    /\ Len(log) <= MaxLog /\ \A i \in DOMAIN log : log[i] \in Event

-----------------------------------------------------------------------------
TickPhase ==
    /\ PhaseAt(now) # reported
    /\ Record("PhaseTransition", <<PhaseAt(now)>>, reported)
    /\ reported' = PhaseAt(now)
    /\ UNCHANGED <<timelock, multisig, state, now>>

SetPaused(paused) ==
    /\ CanPause(now) /\ state' = [state EXCEPT !.paused = paused]
    /\ UNCHANGED <<timelock, multisig, log, reported, now>>

\* set_fee_bps_direct leaves no trace in the log
SetFeeDirect(fee) ==
    /\ CanModifyState(now) /\ state' = [state EXCEPT !.fee = fee]
    /\ UNCHANGED <<timelock, multisig, log, reported, now>>

\* queue_set_fee_bps: in the second and third phase too
QueueOperation(c) ==
    /\ PhaseAt(now) # "DaoOnly"
    /\ timelock' = [id \in DOMAIN timelock \cup {<<c, now>>} |->
          IF id = <<c, now>> THEN [eta |-> now + Delay, executed |-> FALSE, cancelled |-> FALSE]
          ELSE timelock[id]]
    /\ Record("Queued", <<c, now>>, Nobody)
    /\ UNCHANGED <<multisig, reported, state, now>>

\* execute_set_fee_bps, by anyone and in any phase
ExecuteOperation(id) ==
    /\ ~timelock[id].executed /\ ~timelock[id].cancelled /\ now >= timelock[id].eta
    /\ timelock' = [timelock EXCEPT ![id].executed = TRUE]
    /\ state' = [state EXCEPT !.fee = id[1]]
    /\ Record("OperationExecuted", id, Nobody)
    /\ UNCHANGED <<multisig, reported, now>>

\* Mutation: an operation that ran may be cancelled
CancelExecuted(id) ==
    /\ timelock' = [timelock EXCEPT ![id].cancelled = TRUE]
    /\ Record("Cancelled", id, Nobody)
    /\ UNCHANGED <<multisig, reported, state, now>>

\* May be repeated
CancelOperation(id) ==
    /\ ~timelock[id].executed
    /\ timelock' = [timelock EXCEPT ![id].cancelled = TRUE]
    /\ Record("Cancelled", id, Nobody)
    /\ UNCHANGED <<multisig, reported, state, now>>

\* The proposer approves; required_signatures is the constant
ProposeMultisig(g, c) ==
    /\ PhaseAt(now) \in {"MultiSig", "DaoOnly"}
    /\ multisig' = [id \in DOMAIN multisig \cup {<<g, c, now>>} |->
          IF id = <<g, c, now>> THEN [approvals |-> {g}, executed |-> FALSE] ELSE multisig[id]]
    /\ Record("Created", <<g, c, now>>, g)
    /\ UNCHANGED <<timelock, reported, state, now>>

ApproveMultisig(id, g) ==
    /\ ~multisig[id].executed /\ g \notin multisig[id].approvals
    /\ multisig' = [multisig EXCEPT ![id].approvals = @ \cup {g}]
    /\ Record("Approved", id, g)
    /\ UNCHANGED <<timelock, reported, state, now>>

ExecuteMultisig(id) ==
    /\ ~multisig[id].executed /\ Cardinality(multisig[id].approvals) >= Threshold
    /\ multisig' = [multisig EXCEPT ![id].executed = TRUE]
    /\ state' = [state EXCEPT !.size = id[2]]
    /\ Record("ProposalExecuted", id, Nobody)
    /\ UNCHANGED <<timelock, reported, now>>

GuardianOverride(g) ==
    Record("Override", <<g>>, g) /\ UNCHANGED <<timelock, multisig, reported, state, now>>

\* The clock is the system's, which may be set back
ClockMoves ==
    /\ \E t \in Moments : t # now /\ now' = t
    /\ UNCHANGED <<timelock, multisig, log, reported, state>>

Next ==
    \/ TickPhase \/ ClockMoves
    \/ \E p \in BOOLEAN : SetPaused(p)
    \/ \E c \in Values : SetFeeDirect(c)
    \/ \E c \in Values : QueueOperation(c)
    \/ \E id \in DOMAIN timelock : ExecuteOperation(id) \/ CancelOperation(id)
    \/ \E g \in Guardians, c \in Values : ProposeMultisig(g, c)
    \/ \E g \in Guardians, id \in DOMAIN multisig : ApproveMultisig(id, g)
    \/ \E id \in DOMAIN multisig : ExecuteMultisig(id)
    \/ \E g \in Guardians : GuardianOverride(g)

Spec == Init /\ [][Next]_vars

-----------------------------------------------------------------------------
\* The number of months given is the least after which the phase changes, and no
\* phase gives back what an earlier one took.
NextPhaseDue ==
    \A t \in Moments :
        \/ PhaseAt(t) = "DaoOnly"
        \/ LET left == MonthsToNextPhase(t)
           IN  /\ PhaseAt(t + left * Month) # PhaseAt(t)
               /\ PhaseAt(t + (left - 1) * Month) = PhaseAt(t)
PowersShrink ==
    \A t, u \in Moments : t <= u =>
        /\ CanModifyState(u) => CanModifyState(t) /\ CanPause(t)
        /\ CanPause(u) => CanPause(t)

\* The last event about an id, and where the last of a kind is
LastIs(id, kind) ==
    \E i \in DOMAIN log : log[i].about = id /\ log[i].kind = kind
        /\ \A j \in i + 1..Len(log) : log[j].about # id
LastAt(id, kind) ==
    CHOOSE i \in DOMAIN log : log[i].about = id /\ log[i].kind = kind
        /\ \A j \in i + 1..Len(log) : log[j].about = id => log[j].kind # kind

\* Who approved a proposal since it was last made
Approvers(id) ==
    {log[i].who : i \in {j \in LastAt(id, "Created")..Len(log) :
        log[j].about = id /\ log[j].kind \in {"Created", "Approved"}}}

\* The largest trade of the last proposal that ran, and zero before
SizeLogged ==
    \/ state.size = 0 /\ \A i \in DOMAIN log : log[i].kind # "ProposalExecuted"
    \/ \E i \in DOMAIN log :
          /\ log[i].kind = "ProposalExecuted" /\ state.size = log[i].about[2]
          /\ \A j \in i + 1..Len(log) : log[j].kind # "ProposalExecuted"

\* Who replays the log finds the state: what ran, what is cancelled and who has
\* approved since the proposal was last made; and it shows that an operation ran the
\* delay after it was last queued, a proposal only with the approvals of enough guardians,
\* and that the largest trade is that of the last proposal that ran.
LogTellsState ==
    /\ SizeLogged
    /\ \A id \in DOMAIN timelock :
          /\ timelock[id].executed <=> LastIs(id, "OperationExecuted")
          /\ timelock[id].cancelled <=> LastIs(id, "Cancelled")
          /\ timelock[id].executed =>
                log[LastAt(id, "OperationExecuted")].at >= log[LastAt(id, "Queued")].at + Delay
    /\ \A id \in DOMAIN multisig :
          /\ multisig[id].approvals = Approvers(id)
          /\ multisig[id].executed <=> LastIs(id, "ProposalExecuted")
          /\ multisig[id].executed => Cardinality(Approvers(id)) >= Threshold
=============================================================================
