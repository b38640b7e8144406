------------------------ MODULE TimelockedDecisions -------------------------
(***************************************************************************)
(* What a multisig governor promises about its own rules, without          *)
(* signatures and time: who the members are, how many of them decide and   *)
(* how long a decision waits change only when a pending decision is        *)
(* carried out, by what that decision says, and each is carried out at     *)
(* most once and never after it was withdrawn.  Members are a set here;    *)
(* the governor keeps a list.                                              *)
(***************************************************************************)
EXTENDS Integers, Sequences

CONSTANTS Actions,   \* what can be decided
          Charters   \* the rules a governor can be founded with

VARIABLES decisions, rules

vars == <<decisions, rules>>

Unfounded == [members |-> {}, quorum |-> 0, delay |-> 0]

\* The rules once `action` is carried out; other kinds of action leave them alone.
Outcome(action) ==
  CASE action.kind = "AddSigner" -> [rules EXCEPT !.members = @ \cup {action.who}]
    [] action.kind = "RemoveSigner" -> [rules EXCEPT !.members = @ \ {action.who}]
    [] action.kind = "SetThreshold" -> [rules EXCEPT !.quorum = action.value]
    [] action.kind = "SetTimelockDelay" -> [rules EXCEPT !.delay = action.value]
    [] OTHER -> rules

Init == decisions = << >> /\ rules = Unfounded

Found == /\ rules = Unfounded
         /\ rules' \in Charters
         /\ UNCHANGED decisions

Propose(action) ==
  /\ decisions' = Append(decisions, [action |-> action, phase |-> "pending"])
  /\ UNCHANGED rules

Carry(i) ==
  /\ decisions[i].phase = "pending"
  /\ decisions' = [decisions EXCEPT ![i].phase = "carried"]
  /\ rules' = Outcome(decisions[i].action)

Withdraw(i) ==
  /\ decisions[i].phase = "pending"
  /\ decisions' = [decisions EXCEPT ![i].phase = "withdrawn"]
  /\ UNCHANGED rules

Next == \/ Found
        \/ \E action \in Actions : Propose(action)
        \/ \E i \in 1..Len(decisions) : Carry(i) \/ Withdraw(i)

Spec == Init /\ [][Next]_vars
=============================================================================
