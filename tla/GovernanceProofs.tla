--------------------------- MODULE GovernanceProofs ---------------------------
(***************************************************************************)
(* Safety of two contracts in which people decide after a timelock: of     *)
(* Governance for any signers, any rules and any number of proposals, and, *)
(* from InitInvariant on, of KycSystem for any people, settings and        *)
(* overrides.  The two share no state; only the lemmas on lists serve both.*)
(***************************************************************************)
EXTENDS Governance, KycSystem, SequenceLemmas

(***************************************************************************)
(* Lists without repetition: what appending and removing do to them.       *)
(***************************************************************************)
LEMMA LeastIndex ==
  ASSUME NEW I, I \subseteq Nat, I # {}
  PROVE  Min(I) \in I
<1>1. SUFFICES \E m \in I : \A k \in I : m <= k
  BY DEF Min
<1>2. SUFFICES ASSUME \A m \in I : \E k \in I : k < m
               PROVE  FALSE
  OBVIOUS
<1> DEFINE Below == {n \in Nat : \A k \in I : n < k}
<1>3. 0 \in Below
  BY <1>2
<1>4. \A n \in Below : n + 1 \in Below
  BY <1>2
<1>5. Below \subseteq Nat
  OBVIOUS
<1>6. \A n \in Nat : n \in Below
  <2> HIDE DEF Below
  <2> QED BY <1>3, <1>4, <1>5, NatSetInduction
<1>7. PICK n \in I : TRUE
  OBVIOUS
<1>8. n \in Nat /\ n \in Below
  BY <1>6, <1>7
<1> QED BY <1>7, <1>8

\* Appending what is not there adds it to the range and repeats nothing.
LEMMA AppendNew ==
  ASSUME NEW S, NEW list \in Seq(S), NEW x \in S
  PROVE  /\ Append(list, x) \in Seq(S)
         /\ Range(Append(list, x)) = Range(list) \cup {x}
         /\ IsInjective(list) /\ x \notin Range(list) => IsInjective(Append(list, x))
<1> DEFINE l2 == Append(list, x)
<1>1. /\ l2 \in Seq(S) /\ Len(l2) = Len(list) + 1 /\ l2[Len(list) + 1] = x
      /\ \A k \in 1..Len(list) : l2[k] = list[k]
      /\ Len(list) \in Nat /\ DOMAIN list = 1..Len(list) /\ DOMAIN l2 = 1..(Len(list) + 1)
  BY AppendProperties, LenProperties
<1> HIDE DEF l2
<1>2. Range(l2) = Range(list) \cup {x}
  BY <1>1 DEF Range
<1>3. IsInjective(list) /\ x \notin Range(list) => IsInjective(l2)
  BY <1>1 DEF Range, IsInjective
<1> QED BY <1>1, <1>2, <1>3 DEF l2

\* Removing the first occurrence from a list without repetition removes it altogether.
LEMMA WithoutNone ==
  ASSUME NEW S, NEW list \in Seq(S), NEW x
  PROVE  /\ Without(list, x) \in Seq(S)
         /\ IsInjective(list) => /\ IsInjective(Without(list, x))
                                 /\ Range(Without(list, x)) = Range(list) \ {x}
<1>0. Len(list) \in Nat /\ DOMAIN list = 1..Len(list) /\ \A k \in 1..Len(list) : list[k] \in S
  BY LenProperties, ElementOfSeq
<1>1. CASE ~ \E k \in 1..Len(list) : list[k] = x
  <2>1. Without(list, x) = list
    BY <1>1 DEF Without, RemoveFirst
  <2>2. x \notin Range(list)
    BY <1>0, <1>1 DEF Range
  <2> QED BY <2>1, <2>2
<1>2. CASE \E k \in 1..Len(list) : list[k] = x
  <2> DEFINE I == {k \in 1..Len(list) : list[k] = x}
             n == Min(I)
             l2 == SubSeq(list, 1, n - 1) \o SubSeq(list, n + 1, Len(list))
  <2>1. n \in I
    <3>1. I \subseteq Nat /\ I # {}
      BY <1>0, <1>2
    <3> QED BY <3>1, LeastIndex
  <2>2. n \in 1..Len(list) /\ list[n] = x
    BY <2>1
  <2>3. Without(list, x) = l2
    BY <1>2, <2>1 DEF Without, RemoveFirst, RemoveAt, SelectInSeq
  <2> HIDE DEF n
  <2> DEFINE s == SubSeq(list, 1, n - 1)  t == SubSeq(list, n + 1, Len(list))
  <2>4. /\ s \in Seq(S) /\ Len(s) = n - 1 /\ \A k \in 1..(n - 1) : s[k] = list[k]
        /\ t \in Seq(S) /\ Len(t) = Len(list) - n
        /\ \A k \in 1..(Len(list) - n) : t[k] = list[n + k]
    <3>0. n \in Nat /\ Len(list) \in Nat /\ 1 <= n /\ n <= Len(list)
      BY <1>0, <2>2
    <3>1. n - 1 \in Int /\ \A k \in 1..(n - 1) : list[k] \in S
      BY <1>0, <2>2
    <3>2. n + 1 \in Int /\ Len(list) \in Int /\ \A k \in (n + 1)..Len(list) : list[k] \in S
      BY <1>0, <2>2
    <3>3. /\ s \in Seq(S) /\ Len(s) = IF 1 <= n - 1 THEN (n - 1) - 1 + 1 ELSE 0
          /\ \A k \in 1..((n - 1) - 1 + 1) : s[k] = list[1 + k - 1]
      BY <3>1, SubSeqProperties
    <3>4. /\ t \in Seq(S) /\ Len(t) = IF n + 1 <= Len(list) THEN Len(list) - (n + 1) + 1 ELSE 0
          /\ \A k \in 1..(Len(list) - (n + 1) + 1) : t[k] = list[(n + 1) + k - 1]
      BY <3>2, SubSeqProperties
    <3> HIDE DEF s, t
    <3>5. /\ Len(s) = n - 1 /\ \A k \in 1..(n - 1) : s[k] = list[k]
      BY <3>0, <3>3
    <3>6. /\ Len(t) = Len(list) - n /\ \A k \in 1..(Len(list) - n) : t[k] = list[n + k]
      <4>1. Len(t) = Len(list) - n
        BY <3>0, <3>4
      <4>2. ASSUME NEW k \in 1..(Len(list) - n) PROVE t[k] = list[n + k]
        <5>1. t[k] = list[(n + 1) + k - 1] /\ (n + 1) + k - 1 = n + k
          BY <3>0, <3>4
        <5> QED BY <5>1
      <4> QED BY <4>1, <4>2
    <3> QED BY <3>3, <3>4, <3>5, <3>6
  <2>5. l2 = s \o t
    OBVIOUS
  <2> HIDE DEF s, t, l2
  <2>6. /\ l2 \in Seq(S) /\ Len(l2) = Len(list) - 1 /\ DOMAIN l2 = 1..(Len(list) - 1)
        /\ \A k \in 1..(Len(list) - 1) : l2[k] = IF k < n THEN list[k] ELSE list[k + 1]
    <3>1. /\ l2 \in Seq(S) /\ Len(l2) = Len(s) + Len(t) /\ DOMAIN l2 = 1..Len(l2)
          /\ \A k \in 1..(Len(s) + Len(t)) : l2[k] = IF k <= Len(s) THEN s[k] ELSE t[k - Len(s)]
      <4>1. /\ l2 \in Seq(S) /\ Len(l2) = Len(s) + Len(t)
            /\ \A k \in 1..(Len(s) + Len(t)) : l2[k] = IF k <= Len(s) THEN s[k] ELSE t[k - Len(s)]
        BY <2>4, <2>5, ConcatProperties, Zenon
      <4> QED BY <4>1, LenProperties
    <3>2. ASSUME NEW k \in 1..(Len(list) - 1)
          PROVE  l2[k] = IF k < n THEN list[k] ELSE list[k + 1]
      <4>1. CASE k < n
        BY <1>0, <2>2, <2>4, <3>1, <4>1
      <4>2. CASE k >= n
        <5>1. l2[k] = t[k - (n - 1)] /\ k - (n - 1) \in 1..(Len(list) - n)
          BY <1>0, <2>2, <2>4, <3>1, <4>2
        <5>2. t[k - (n - 1)] = list[n + (k - (n - 1))] /\ n + (k - (n - 1)) = k + 1
          BY <1>0, <2>2, <2>4, <5>1
        <5> QED BY <2>2, <4>2, <5>1, <5>2
      <4> QED BY <1>0, <2>2, <4>1, <4>2
    <3> QED BY <1>0, <2>2, <2>4, <3>1, <3>2
  <2>7. ASSUME IsInjective(list) PROVE IsInjective(l2) /\ Range(l2) = Range(list) \ {x}
    <3> DEFINE from(k) == IF k < n THEN k ELSE k + 1
    <3>a. Len(list) \in Nat /\ n \in 1..Len(list) /\ list[n] = x /\ DOMAIN list = 1..Len(list)
      BY <1>0, <2>2
    <3>b. \A k \in 1..(Len(list) - 1) : /\ from(k) \in 1..Len(list) /\ from(k) # n
                                        /\ l2[k] = list[from(k)]
      BY <2>6, <3>a
    <3>c. \A j, k \in 1..(Len(list) - 1) : from(j) = from(k) => j = k
      BY <3>a
    <3>d. \A j, k \in 1..Len(list) : list[j] = list[k] => j = k
      BY <2>7, <3>a DEF IsInjective
    <3>e. DOMAIN l2 = 1..(Len(list) - 1)
      BY <2>6
    <3> HIDE DEF from
    <3>1. IsInjective(l2)
      BY ONLY <3>b, <3>c, <3>d, <3>e DEF IsInjective
    <3>2. Range(l2) \subseteq Range(list) \ {x}
      <4>1. ASSUME NEW k \in 1..(Len(list) - 1)
            PROVE  l2[k] \in Range(list) /\ l2[k] # x
        BY ONLY <3>a, <3>b, <3>d, <4>1 DEF Range
      <4> QED BY ONLY <3>e, <4>1 DEF Range
    <3>3. ASSUME NEW y \in Range(list) \ {x} PROVE y \in Range(l2)
      <4>1. PICK k \in 1..Len(list) : list[k] = y
        BY <1>0, <3>3 DEF Range
      <4>2. k # n
        BY <2>2, <3>3, <4>1
      <4>3. CASE k < n
        <5>1. k \in 1..(Len(list) - 1) /\ l2[k] = y
          BY <1>0, <2>2, <2>6, <4>1, <4>3
        <5> QED BY <2>6, <5>1 DEF Range
      <4>4. CASE k > n
        <5>1. k - 1 \in 1..(Len(list) - 1) /\ l2[k - 1] = y
          BY <1>0, <2>2, <2>6, <4>1, <4>4
        <5> QED BY <2>6, <5>1 DEF Range
      <4> QED BY <1>0, <2>2, <4>1, <4>2, <4>3, <4>4
    <3> QED BY <3>1, <3>2, <3>3
  <2> QED BY <2>3, <2>6, <2>7
<1> QED BY <1>1, <1>2

\* A list without repetition has as many members as entries.
LEMMA DistinctCount ==
  ASSUME NEW S, NEW list \in Seq(S), IsInjective(list)
  PROVE  Cardinality(Range(list)) = Len(list)
<1>1. Len(list) \in Nat /\ list \in [1..Len(list) -> S] /\ DOMAIN list = 1..Len(list)
  BY LenProperties
<1>2. IsFiniteSet(1..Len(list)) /\ Cardinality(1..Len(list)) = Len(list)
  BY <1>1, FS_Interval
<1>3. list \in Bijection(1..Len(list), Range(list))
  BY <1>1 DEF Bijection, Injection, Surjection, IsInjective, Range
<1>4. ExistsBijection(1..Len(list), Range(list))
  BY <1>3 DEF ExistsBijection
<1> QED BY <1>2, <1>4, FS_Bijection
-----------------------------------------------------------------------------
(***************************************************************************)
(* The inductive invariant.  Nothing exists before initialize, and what    *)
(* the bookkeeping properties say of every proposal.                       *)
(***************************************************************************)
Unstarted ==
  ~ initialized =>
    /\ signers = << >> /\ threshold = 0 /\ timelockDelay = 0 /\ proposals = << >>
    /\ implementation = None /\ scheduled = None

OneEnd == \A i \in Ids : ~ (proposals[i].executed /\ proposals[i].canceled)

Books == NonceExact /\ SignedOnce /\ ExecutedHasQuorum /\ OneEnd

Inv == TypeOK /\ Unstarted /\ Books /\ ScheduleIsNews

\* What an action carries, by its kind.
LEMMA ActionFields ==
  ASSUME NEW action \in Actions
  PROVE  /\ action.kind = "Upgrade" => action.who \in Implementations
         /\ action.kind \in {"AddSigner", "RemoveSigner"} => action.who \in Addresses
         /\ action.kind = "SetThreshold" => action.value \in Nat
         /\ action.kind = "SetTimelockDelay" => action.value \in Nat
<1>1. action \in ProposalAction /\ Thresholds \subseteq Nat /\ Delays \subseteq Nat
  BY ArgumentsAssumption
<1>2. /\ action \in [kind : {"Pause", "Unpause"}, who : {None}, value : {0}] =>
           action.kind \in {"Pause", "Unpause"}
      /\ action \in [kind : {"Upgrade"}, who : Implementations, value : {0}] =>
           action.kind = "Upgrade" /\ action.who \in Implementations
      /\ action \in [kind : {"AddSigner", "RemoveSigner"}, who : Addresses, value : {0}] =>
           action.kind \in {"AddSigner", "RemoveSigner"} /\ action.who \in Addresses
      /\ action \in [kind : {"SetThreshold"}, who : {None}, value : Thresholds] =>
           action.kind = "SetThreshold" /\ action.value \in Thresholds
      /\ action \in [kind : {"SetTimelockDelay"}, who : {None}, value : Delays] =>
           action.kind = "SetTimelockDelay" /\ action.value \in Delays
  OBVIOUS
<1> QED BY <1>1, <1>2 DEF ProposalAction

\* What the invariant says of one stored proposal.
ValidProposal(p) ==
  /\ p \in Proposal /\ p.action \in Actions /\ p.signatures \in Seq(Addresses)
  /\ p.threshold \in Nat /\ p.executeAfter \in 0..MaxU64
  /\ p.executed \in BOOLEAN /\ p.canceled \in BOOLEAN
  /\ IsInjective(p.signatures)

LEMMA StoredProposal ==
  ASSUME TypeOK, SignedOnce, NEW i \in Ids
  PROVE  ValidProposal(proposals[i])
<1>1. proposals[i] \in Proposal /\ IsInjective(proposals[i].signatures)
  BY DEF TypeOK, SignedOnce, Ids
<1> DEFINE p == proposals[i]
<1> HIDE DEF p
<1>2. p \in Proposal => /\ p.action \in Actions /\ p.signatures \in Seq(Addresses)
                        /\ p.threshold \in Nat /\ p.executeAfter \in 0..MaxU64
                        /\ p.executed \in BOOLEAN /\ p.canceled \in BOOLEAN
  BY DEF Proposal
<1> QED BY <1>1, <1>2 DEF ValidProposal, p

(***************************************************************************)
(* What a call may do to one stored proposal: it keeps the terms, touches  *)
(* nothing that was executed, never revives what was canceled, and an      *)
(* execution has its quorum and its time.                                  *)
(***************************************************************************)
SameTerms(p, q) ==
  q = [p EXCEPT !.signatures = q.signatures, !.executed = q.executed, !.canceled = q.canceled]

Lawful(p, q) ==
  /\ ValidProposal(q)
  /\ SameTerms(p, q) /\ q.nonce = p.nonce /\ q.action = p.action
  /\ ~ p.executed
  /\ p.canceled => q.canceled
  /\ ~ (q.executed /\ q.canceled)
  /\ q.executed => Len(q.signatures) >= q.threshold /\ now >= q.executeAfter

Revision(i, q) ==
  /\ Lawful(proposals[i], q)
  /\ proposals' = [proposals EXCEPT ![i] = q]
  /\ UNCHANGED <<initialized, nonce, now>>

LEMMA ApproveEffect ==
  ASSUME TypeOK, SignedOnce, NEW i \in Ids, NEW signer \in Addresses, Approve(i, signer)
  PROVE  \E q \in Proposal : Revision(i, q) /\ q.executed = FALSE /\ q.canceled = FALSE
<1> DEFINE p == proposals[i]
           q == [p EXCEPT !.signatures = Append(p.signatures, signer)]
<1>1. ValidProposal(p)
  BY StoredProposal
<1>2. /\ ~ p.executed /\ ~ p.canceled /\ signer \notin Range(p.signatures)
      /\ proposals' = [proposals EXCEPT ![i] = q]
      /\ UNCHANGED <<initialized, nonce, now>>
  BY DEF Approve, NotSigned
<1> HIDE DEF p
<1>3. Append(p.signatures, signer) \in Seq(Addresses) /\ IsInjective(Append(p.signatures, signer))
  BY <1>1, <1>2, AppendNew DEF ValidProposal
<1>4. Lawful(p, q) /\ q \in Proposal /\ q.executed = FALSE /\ q.canceled = FALSE
  BY <1>1, <1>2, <1>3 DEF Lawful, SameTerms, ValidProposal, Proposal
<1> HIDE DEF q
<1> QED BY <1>2, <1>4 DEF Revision, p

LEMMA RevokeEffect ==
  ASSUME TypeOK, SignedOnce, NEW i \in Ids, NEW signer \in Addresses, Revoke(i, signer)
  PROVE  \E q \in Proposal : Revision(i, q) /\ q.executed = FALSE /\ q.canceled = proposals[i].canceled
<1> DEFINE p == proposals[i]
           q == [p EXCEPT !.signatures = Without(p.signatures, signer)]
<1>1. ValidProposal(p)
  BY StoredProposal
<1>2. /\ ~ p.executed
      /\ proposals' = [proposals EXCEPT ![i] = q]
      /\ UNCHANGED <<initialized, nonce, now>>
  BY DEF Revoke
<1> HIDE DEF p
<1>3. /\ Without(p.signatures, signer) \in Seq(Addresses)
      /\ IsInjective(Without(p.signatures, signer))
  BY <1>1, WithoutNone DEF ValidProposal
<1>4. Lawful(p, q) /\ q \in Proposal /\ q.executed = FALSE /\ q.canceled = p.canceled
  BY <1>1, <1>2, <1>3 DEF Lawful, SameTerms, ValidProposal, Proposal
<1> HIDE DEF q
<1> QED BY <1>2, <1>4 DEF Revision, p

LEMMA ExecuteEffect ==
  ASSUME TypeOK, SignedOnce, NEW i \in Ids, Execute(i)
  PROVE  /\ \E q \in Proposal : Revision(i, q) /\ q.executed = TRUE /\ q.canceled = FALSE
         /\ ~ proposals[i].canceled
<1> DEFINE p == proposals[i]
           q == [p EXCEPT !.executed = TRUE]
<1>1. ValidProposal(p)
  BY StoredProposal
<1>2. /\ ~ p.executed /\ ~ p.canceled /\ now >= p.executeAfter /\ Len(p.signatures) >= p.threshold
      /\ proposals' = [proposals EXCEPT ![i] = q]
      /\ UNCHANGED <<initialized, nonce, now>>
  BY DEF Execute, Due, QuorumReached
<1> HIDE DEF p
<1>3. Lawful(p, q) /\ q \in Proposal /\ q.executed = TRUE /\ q.canceled = FALSE
  BY <1>1, <1>2 DEF Lawful, SameTerms, ValidProposal, Proposal
<1> HIDE DEF q
<1> QED BY <1>2, <1>3 DEF Revision, p

LEMMA CancelEffect ==
  ASSUME TypeOK, SignedOnce, NEW i \in Ids, NEW caller \in Addresses, Cancel(i, caller)
  PROVE  \E q \in Proposal : Revision(i, q) /\ q.executed = FALSE /\ q.canceled = TRUE
<1> DEFINE p == proposals[i]
           q == [p EXCEPT !.canceled = TRUE]
<1>1. ValidProposal(p)
  BY StoredProposal
<1>2. /\ ~ p.executed
      /\ proposals' = [proposals EXCEPT ![i] = q]
      /\ UNCHANGED <<initialized, nonce, now>>
  BY DEF Cancel
<1> HIDE DEF p
<1>3. Lawful(p, q) /\ q \in Proposal /\ q.executed = FALSE /\ q.canceled = TRUE
  BY <1>1, <1>2 DEF Lawful, SameTerms, ValidProposal, Proposal
<1> HIDE DEF q
<1> QED BY <1>2, <1>3 DEF Revision, p
\* A revision changes one entry of the sequence.
LEMMA RevisionEntries ==
  ASSUME TypeOK, NEW i \in Ids, NEW q \in Proposal, Revision(i, q)
  PROVE  /\ proposals' \in Seq(Proposal) /\ Len(proposals') = Len(proposals) /\ Ids' = Ids
         /\ \A j \in Ids : proposals'[j] = IF j = i THEN q ELSE proposals[j]
  BY ExceptSeq DEF Revision, TypeOK, Ids

\* The bookkeeping of proposals survives a revision.
LEMMA RevisionKeeps ==
  ASSUME Inv, NEW i \in Ids, NEW q \in Proposal, Revision(i, q)
  PROVE  Books'
<1>1. /\ Len(proposals') = Len(proposals) /\ Ids' = Ids
      /\ \A j \in Ids : proposals'[j] = IF j = i THEN q ELSE proposals[j]
  BY RevisionEntries DEF Inv
<1>2. /\ ValidProposal(q) /\ q.nonce = proposals[i].nonce /\ nonce' = nonce /\ now' = now
      /\ q.executed => Len(q.signatures) >= q.threshold /\ now >= q.executeAfter
      /\ ~ (q.executed /\ q.canceled)
  BY DEF Revision, Lawful
<1>3. NonceExact'
  BY <1>1, <1>2 DEF Inv, Books, NonceExact
<1>4. SignedOnce'
  BY <1>1, <1>2 DEF Inv, Books, SignedOnce, ValidProposal
<1>5. Cardinality(Range(q.signatures)) = Len(q.signatures)
  BY <1>2, DistinctCount DEF ValidProposal
<1>6. ExecutedHasQuorum'
  BY <1>1, <1>2, <1>5 DEF Inv, Books, ExecutedHasQuorum
<1>7. OneEnd'
  BY <1>1, <1>2 DEF Inv, Books, OneEnd
<1> QED BY <1>3, <1>4, <1>6, <1>7 DEF Books

\* A new proposal is appended, open and unsigned.
LEMMA ProposeEffect ==
  ASSUME Inv, NEW proposer \in Addresses, NEW action \in Actions, Propose(proposer, action)
  PROVE  /\ initialized /\ UNCHANGED <<initialized, rules, proxy, now>>
         /\ proposals' \in Seq(Proposal) /\ Len(proposals') = Len(proposals) + 1
         /\ \A j \in Ids : proposals'[j] = proposals[j]
         /\ Ids' = Ids \cup {Len(proposals) + 1}
         /\ \E q \in Proposal :
              /\ proposals' = Append(proposals, q) /\ proposals'[Len(proposals) + 1] = q
              /\ q.action = action /\ ~ q.executed /\ ~ q.canceled
              /\ q.nonce = nonce + 1 /\ IsInjective(q.signatures)
         /\ nonce' = nonce + 1 /\ nonce' \in Nat
<1> DEFINE q == [proposer |-> proposer, action |-> action, signatures |-> << >>,
                 threshold |-> threshold, executeAfter |-> SaturatingAdd(now, timelockDelay),
                 executed |-> FALSE, canceled |-> FALSE, nonce |-> NextNonce]
<1>1. /\ proposals' = Append(proposals, q) /\ nonce' = nonce + 1
      /\ UNCHANGED <<initialized, rules, proxy, now>> /\ proposer \in Range(signers)
  BY DEF Propose, IsSigner
<1>2. SaturatingAdd(now, timelockDelay) \in 0..MaxU64
  BY BoundsAssumption DEF Inv, TypeOK, SaturatingAdd
<1>3. nonce + 1 \in Nat /\ threshold \in Nat
  BY DEF Inv, TypeOK
<1>4. q \in Proposal
  BY <1>2, <1>3 DEF Proposal, NextNonce
<1>5. q.action = action /\ q.executed = FALSE /\ q.canceled = FALSE /\ q.nonce = nonce + 1
      /\ q.signatures = << >>
  BY DEF NextNonce
<1>6. IsInjective(q.signatures)
  BY <1>5 DEF IsInjective
<1>7. initialized
  <2>1. signers # << >>
    BY <1>1 DEF Range
  <2> QED BY <2>1 DEF Inv, Unstarted
<1> HIDE DEF q
<1>8. /\ proposals' \in Seq(Proposal) /\ Len(proposals') = Len(proposals) + 1
      /\ \A j \in 1..Len(proposals) : proposals'[j] = proposals[j]
      /\ proposals'[Len(proposals) + 1] = q /\ Len(proposals) \in Nat
  BY <1>1, <1>4, AppendProperties, LenProperties DEF Inv, TypeOK
<1>9. Ids' = Ids \cup {Len(proposals) + 1}
  BY <1>8 DEF Ids
<1> QED BY <1>1, <1>3, <1>4, <1>5, <1>6, <1>7, <1>8, <1>9 DEF Ids

\* What an executed action leaves of the rules and the proxy.
LEMMA ApplyTypes ==
  ASSUME Inv, NEW action \in Actions, Apply(action)
  PROVE  /\ signers' \in Seq(Addresses) /\ threshold' \in Nat /\ timelockDelay' \in Nat
         /\ paused' \in BOOLEAN
         /\ implementation' \in Implementations \cup {None}
         /\ scheduled' \in Implementations \cup {None}
         /\ scheduled' # None => scheduled' = scheduled /\ implementation' = implementation
<1>0. /\ signers \in Seq(Addresses) /\ threshold \in Nat /\ timelockDelay \in Nat
      /\ paused \in BOOLEAN
      /\ implementation \in Implementations \cup {None}
      /\ scheduled \in Implementations \cup {None}
  BY DEF Inv, TypeOK
<1>1. CASE action.kind \in {"Pause", "Unpause"}
  BY <1>0, <1>1 DEF Apply, rules
<1>2. CASE action.kind = "Upgrade"
  BY <1>0, <1>2, ActionFields DEF Apply, Upgrade, rules
<1>3. CASE action.kind = "AddSigner"
  <2>1. signers' = WithSigner(signers, action.who) /\ action.who \in Addresses
        /\ UNCHANGED <<threshold, timelockDelay, proxy>>
    BY <1>3, ActionFields DEF Apply
  <2>2. signers' \in Seq(Addresses)
    BY <1>0, <2>1, AppendProperties DEF WithSigner
  <2> QED BY <1>0, <2>1, <2>2 DEF proxy
<1>4. CASE action.kind = "RemoveSigner"
  <2>1. signers' = Without(signers, action.who) /\ UNCHANGED <<threshold, timelockDelay, proxy>>
    BY <1>4 DEF Apply
  <2>2. signers' \in Seq(Addresses)
    BY <1>0, <2>1, WithoutNone
  <2> QED BY <1>0, <2>1, <2>2 DEF proxy
<1>5. CASE action.kind = "SetThreshold"
  BY <1>0, <1>5, ActionFields DEF Apply, proxy
<1>6. CASE action.kind = "SetTimelockDelay"
  BY <1>0, <1>6, ActionFields DEF Apply, proxy
<1> QED BY <1>1, <1>2, <1>3, <1>4, <1>5, <1>6 DEF Apply
-----------------------------------------------------------------------------
LEMMA InitInv == Init => Inv
<1> SUFFICES ASSUME Init PROVE Inv
  OBVIOUS
<1>1. << >> \in Seq(Addresses) /\ << >> \in Seq(Proposal) /\ Len(<< >>) = 0
  OBVIOUS
<1>2. TypeOK
  <2>1. initialized \in BOOLEAN /\ paused \in BOOLEAN
    BY DEF Init
  <2>2. 0 \in 0..MaxTime
    BY BoundsAssumption
  <2> QED BY <1>1, <2>1, <2>2 DEF Init, TypeOK
<1>3. Ids = {}
  BY <1>1 DEF Init, Ids
<1>4. Books
  BY <1>1, <1>3 DEF Init, Books, NonceExact, SignedOnce, ExecutedHasQuorum, OneEnd
<1> QED BY <1>2, <1>4 DEF Init, Inv, Unstarted, ScheduleIsNews

\* Calls that leave the proposals, the nonce and the clock alone, or let time pass.
LEMMA QuietKeeps ==
  ASSUME Inv, UNCHANGED <<proposals, nonce>>, now' \in 0..MaxTime, now' >= now
  PROVE  Books'
<1>1. Ids' = Ids
  BY DEF Ids
<1>2. NonceExact' /\ SignedOnce' /\ OneEnd'
  BY <1>1 DEF Inv, Books, NonceExact, SignedOnce, OneEnd
<1>3. ASSUME NEW i \in Ids, proposals[i].executed PROVE now' >= proposals[i].executeAfter
  <2>1. now >= proposals[i].executeAfter
    BY <1>3 DEF Inv, Books, ExecutedHasQuorum
  <2>2. ValidProposal(proposals[i])
    BY StoredProposal DEF Inv, Books
  <2> QED BY <2>1, <2>2, BoundsAssumption DEF ValidProposal, Inv, TypeOK
<1>4. ExecutedHasQuorum'
  BY <1>1, <1>3 DEF Inv, Books, ExecutedHasQuorum
<1> QED BY <1>2, <1>4 DEF Books

LEMMA StepInv == Inv /\ [Next]_vars => Inv'
<1> SUFFICES ASSUME Inv, [Next]_vars PROVE Inv'
  OBVIOUS
<1>0. TypeOK /\ SignedOnce
  BY DEF Inv, Books
<1>a. now \in 0..MaxTime /\ now >= now /\ MaxTime \in Nat
  BY BoundsAssumption DEF Inv, TypeOK
<1>1. ASSUME NEW list \in SignerLists, NEW t \in Thresholds, NEW delay \in Delays,
             NEW impl \in Implementations, Initialize(list, t, delay, impl)
      PROVE  Inv'
  <2>1. /\ ~ initialized /\ initialized' = TRUE /\ signers' = list /\ threshold' = t
        /\ timelockDelay' = delay /\ paused' = FALSE /\ implementation' = impl /\ nonce' = 0
        /\ UNCHANGED <<proposals, scheduled, now>>
    BY <1>1 DEF Initialize
  <2>2. proposals = << >> /\ scheduled = None
    BY <2>1 DEF Inv, Unstarted
  <2>3. nonce = 0
    BY <2>2 DEF Inv, Books, NonceExact
  <2>4. Books'
    BY <1>a, <2>1, <2>3, QuietKeeps
  <2>5. TypeOK'
    BY <2>1, ArgumentsAssumption DEF Inv, TypeOK
  <2> QED BY <2>1, <2>2, <2>4, <2>5 DEF Inv, Unstarted, ScheduleIsNews
<1>2. ASSUME NEW p \in Addresses, NEW action \in Actions, Propose(p, action) PROVE Inv'
  <2>1. /\ initialized /\ UNCHANGED <<initialized, rules, proxy, now>>
        /\ proposals' \in Seq(Proposal) /\ Len(proposals') = Len(proposals) + 1
        /\ \A j \in Ids : proposals'[j] = proposals[j]
        /\ Ids' = Ids \cup {Len(proposals) + 1}
        /\ nonce' = nonce + 1 /\ nonce' \in Nat
    BY <1>2, ProposeEffect
  <2>2. PICK q \in Proposal :
          /\ proposals'[Len(proposals) + 1] = q /\ ~ q.executed
          /\ q.nonce = nonce + 1 /\ IsInjective(q.signatures)
    BY <1>2, ProposeEffect
  <2>3. NonceExact'
    BY <2>1, <2>2 DEF Inv, Books, NonceExact
  <2>4. SignedOnce'
    BY <2>1, <2>2 DEF Inv, Books, SignedOnce
  <2>5. ExecutedHasQuorum'
    BY <2>1, <2>2 DEF Inv, Books, ExecutedHasQuorum
  <2>6. TypeOK'
    BY <2>1 DEF Inv, TypeOK, rules, proxy
  <2>7. OneEnd'
    BY <2>1, <2>2 DEF Inv, Books, OneEnd
  <2> QED BY <2>1, <2>3, <2>4, <2>5, <2>6, <2>7 DEF Inv, Books, Unstarted, ScheduleIsNews, proxy
<1>3. ASSUME NEW i \in Ids, NEW q \in Proposal, Revision(i, q), UNCHANGED <<rules, proxy>>
      PROVE  Inv'
  <2>1. Books'
    BY <1>3, RevisionKeeps
  <2>2. /\ proposals' \in Seq(Proposal) /\ UNCHANGED <<initialized, nonce, now>>
        /\ Len(proposals') = Len(proposals)
    BY <1>0, <1>3, RevisionEntries DEF Revision
  <2>3. TypeOK'
    BY <1>3, <2>2 DEF Inv, TypeOK, rules, proxy
  <2>4. initialized
    BY <1>3 DEF Inv, Unstarted, Ids
  <2> QED BY <1>3, <2>1, <2>2, <2>3, <2>4 DEF Inv, Unstarted, ScheduleIsNews, proxy
<1>4. ASSUME NEW i \in Ids, NEW p \in Addresses, Approve(i, p) PROVE Inv'
  BY <1>0, <1>3, <1>4, ApproveEffect DEF Approve
<1>5. ASSUME NEW i \in Ids, NEW p \in Addresses, Revoke(i, p) PROVE Inv'
  BY <1>0, <1>3, <1>5, RevokeEffect DEF Revoke
<1>6. ASSUME NEW i \in Ids, Execute(i) PROVE Inv'
  <2>1. PICK q \in Proposal : Revision(i, q)
    BY <1>0, <1>6, ExecuteEffect
  <2>2. Books'
    BY <2>1, RevisionKeeps
  <2>3. proposals' \in Seq(Proposal) /\ UNCHANGED <<initialized, nonce, now>>
    BY <1>0, <2>1, RevisionEntries DEF Revision
  <2>4. Apply(proposals[i].action) /\ proposals[i].action \in Actions
    BY <1>0, <1>6, StoredProposal DEF Execute, ValidProposal
  <2>5. TypeOK'
    BY <2>3, <2>4, ApplyTypes DEF Inv, TypeOK
  <2>6. initialized
    BY DEF Inv, Unstarted, Ids
  <2>7. ScheduleIsNews'
    <3>1. scheduled' # None => scheduled' = scheduled /\ implementation' = implementation
      BY <2>4, ApplyTypes
    <3> QED BY <2>3, <2>6, <3>1 DEF Inv, ScheduleIsNews
  <2> QED BY <2>2, <2>3, <2>5, <2>6, <2>7 DEF Inv, Unstarted
<1>7. ASSUME NEW i \in Ids, NEW p \in Addresses, Cancel(i, p) PROVE Inv'
  BY <1>0, <1>3, <1>7, CancelEffect DEF Cancel
<1>8. ASSUME UNCHANGED <<initialized, rules, proposals, nonce, now>>,
             implementation' \in Implementations \cup {None},
             scheduled' \in Implementations \cup {None}, paused' \in BOOLEAN,
             ~ initialized => UNCHANGED <<implementation, scheduled>>,
             initialized /\ scheduled' # None => scheduled' # implementation'
      PROVE  Inv'
  <2>1. Books'
    BY <1>a, <1>8, QuietKeeps
  <2>2. TypeOK'
    BY <1>8 DEF Inv, TypeOK, rules
  <2>3. Unstarted' /\ ScheduleIsNews'
    BY <1>8 DEF Inv, Unstarted, ScheduleIsNews, rules
  <2> QED BY <2>1, <2>2, <2>3 DEF Inv
<1>b. ~ initialized => implementation = None /\ scheduled = None
  BY DEF Inv, Unstarted
<1>c. /\ implementation \in Implementations \cup {None}
      /\ scheduled \in Implementations \cup {None} /\ paused \in BOOLEAN
      /\ scheduled # None => scheduled # implementation
  BY DEF Inv, TypeOK, ScheduleIsNews
<1>9. ASSUME NEW impl \in Implementations, ScheduleUpgrade(impl) PROVE Inv'
  BY <1>8, <1>9, <1>b, <1>c DEF ScheduleUpgrade, rules
<1>10. CASE ExecuteUpgrade
  BY <1>8, <1>10, <1>b, <1>c DEF ExecuteUpgrade, rules
<1>11. CASE Pause
  BY <1>8, <1>11, <1>b, <1>c DEF Pause, rules
<1>12. CASE Unpause
  BY <1>8, <1>12, <1>b, <1>c DEF Unpause, rules
<1>13. CASE Tick
  <2>1. /\ now' = now + 1 /\ now' \in 0..MaxTime /\ now' >= now
        /\ UNCHANGED <<initialized, rules, proposals, nonce, proxy>>
    BY <1>a, <1>13 DEF Tick
  <2>2. Books'
    BY <2>1, QuietKeeps
  <2>3. TypeOK'
    BY <2>1 DEF Inv, TypeOK, rules, proxy
  <2> QED BY <2>1, <2>2, <2>3 DEF Inv, Unstarted, ScheduleIsNews, rules, proxy
<1>14. CASE UNCHANGED vars
  <2>1. UNCHANGED <<initialized, rules, proposals, nonce, now>> /\ UNCHANGED <<paused, implementation, scheduled>>
    BY <1>14 DEF vars, proxy
  <2> QED BY <1>8, <1>b, <1>c, <2>1
<1> QED BY <1>1, <1>2, <1>4, <1>5, <1>6, <1>7, <1>9, <1>10, <1>11, <1>12, <1>13, <1>14 DEF Next

LEMMA Invariance == Spec => []Inv
  BY InitInv, StepInv, PTL DEF Spec

\* Every variable keeps its type, for any signers, rules and bounds.
THEOREM TypeCorrect == Spec => []TypeOK
<1>1. Inv => TypeOK
  BY DEF Inv
<1> QED BY <1>1, Invariance, PTL

\* Nonces are 1, 2, 3, ..., one for each proposal.
THEOREM NonceExactAlways == Spec => []NonceExact
<1>1. Inv => NonceExact
  BY DEF Inv, Books
<1> QED BY <1>1, Invariance, PTL

\* Nobody counts twice for one proposal.
THEOREM SignedOnceAlways == Spec => []SignedOnce
<1>1. Inv => SignedOnce
  BY DEF Inv, Books
<1> QED BY <1>1, Invariance, PTL

\* Behind every executed proposal stand as many different signers as were asked for.
THEOREM ExecutedHasQuorumAlways == Spec => []ExecutedHasQuorum
<1>1. Inv => ExecutedHasQuorum
  BY DEF Inv, Books
<1> QED BY <1>1, Invariance, PTL

\* The scheduled upgrade is never the implementation already in place.
THEOREM ScheduleIsNewsAlways == Spec => []ScheduleIsNews
<1>1. Inv => ScheduleIsNews
  BY DEF Inv
<1> QED BY <1>1, Invariance, PTL
-----------------------------------------------------------------------------
(***************************************************************************)
(* The case analysis of a step, as the proposals see it.                   *)
(***************************************************************************)
Adds == /\ initialized /\ UNCHANGED <<initialized, rules>>
        /\ \E q \in Proposal :
             /\ proposals' = Append(proposals, q) /\ proposals' \in Seq(Proposal)
             /\ q.action \in Actions /\ ~ q.executed /\ ~ q.canceled

Revises == \E i \in Ids, q \in Proposal :
             /\ Revision(i, q)
             /\ \/ Apply(proposals[i].action) /\ q.executed /\ ~ proposals[i].canceled
                \/ UNCHANGED rules /\ ~ q.executed /\ (q.canceled \/ ~ proposals[i].canceled)

Founds == /\ ~ initialized /\ initialized' = TRUE /\ UNCHANGED proposals
          /\ signers' \in SignerLists /\ threshold' \in Thresholds /\ timelockDelay' \in Delays

LEMMA StepShape ==
  ASSUME Inv, [Next]_vars
  PROVE  \/ UNCHANGED <<rules, proposals>>
         \/ Founds \/ Adds \/ Revises
<1>0. TypeOK /\ SignedOnce
  BY DEF Inv, Books
<1>1. ASSUME NEW list \in SignerLists, NEW t \in Thresholds, NEW delay \in Delays,
             NEW impl \in Implementations, Initialize(list, t, delay, impl)
      PROVE  Founds
  BY <1>1 DEF Initialize, Founds
<1>2. ASSUME NEW p \in Addresses, NEW action \in Actions, Propose(p, action) PROVE Adds
  BY <1>2, ProposeEffect DEF Adds
<1>3. ASSUME NEW i \in Ids, NEW p \in Addresses, Approve(i, p) PROVE Revises
  BY <1>0, <1>3, ApproveEffect DEF Approve, Revises
<1>4. ASSUME NEW i \in Ids, NEW p \in Addresses, Revoke(i, p) PROVE Revises
  BY <1>0, <1>4, RevokeEffect DEF Revoke, Revises
<1>5. ASSUME NEW i \in Ids, Execute(i) PROVE Revises
  BY <1>0, <1>5, ExecuteEffect DEF Execute, Revises
<1>6. ASSUME NEW i \in Ids, NEW p \in Addresses, Cancel(i, p) PROVE Revises
  BY <1>0, <1>6, CancelEffect DEF Cancel, Revises
<1>7. CASE \/ \E impl \in Implementations : ScheduleUpgrade(impl)
           \/ ExecuteUpgrade \/ Pause \/ Unpause \/ Tick \/ UNCHANGED vars
  BY <1>7 DEF ScheduleUpgrade, ExecuteUpgrade, Pause, Unpause, Tick, vars
<1> QED BY <1>1, <1>2, <1>3, <1>4, <1>5, <1>6, <1>7 DEF Next

\* No step touches an executed proposal, revives a canceled one or changes any terms.
THEOREM FinishedIsFinalAlways == Spec => FinishedIsFinal
<1> DEFINE Kept(p, q) == /\ p.executed => q = p
                         /\ p.canceled => q.canceled /\ ~ q.executed
                         /\ SameTerms(p, q)
<1>1. ASSUME Inv, [Next]_vars, NEW i \in Ids PROVE Kept(proposals[i], proposals'[i])
  <2>1. ASSUME proposals'[i] = proposals[i] PROVE Kept(proposals[i], proposals'[i])
    <3>1. proposals[i] \in Proposal /\ ~ (proposals[i].executed /\ proposals[i].canceled)
      BY <1>1 DEF Inv, Books, TypeOK, Ids, OneEnd
    <3> DEFINE p == proposals[i]
    <3>2. p \in Proposal /\ ~ (p.executed /\ p.canceled) /\ proposals'[i] = p
      BY <2>1, <3>1
    <3> HIDE DEF p
    <3>3. SameTerms(p, p)
      BY <3>2 DEF SameTerms, Proposal
    <3> QED BY <3>2, <3>3 DEF p
  <2>2. CASE Adds
    <3>1. proposals'[i] = proposals[i]
      BY <1>1, <2>2, AppendProperties DEF Adds, Inv, TypeOK, Ids
    <3> QED BY <2>1, <3>1
  <2>3. CASE Revises
    <3>1. PICK k \in Ids, q \in Proposal : Revision(k, q)
      BY <2>3 DEF Revises
    <3>2. proposals'[i] = IF i = k THEN q ELSE proposals[i]
      BY <1>1, <3>1, RevisionEntries DEF Inv
    <3>3. CASE i # k
      BY <2>1, <3>2, <3>3
    <3>4. CASE i = k
      <4>1. Lawful(proposals[i], q) /\ proposals'[i] = q
        BY <3>1, <3>2, <3>4 DEF Revision
      <4> QED BY <4>1 DEF Lawful
    <3> QED BY <3>3, <3>4
  <2>4. CASE UNCHANGED proposals
    BY <2>1, <2>4
  <2> QED BY <1>1, <2>2, <2>3, <2>4, StepShape DEF Founds
<1>2. Inv /\ [Next]_vars =>
        [\A i \in Ids : LET p == proposals[i]  q == proposals'[i]
                        IN /\ p.executed => q = p
                           /\ p.canceled => q.canceled /\ ~ q.executed
                           /\ q = [p EXCEPT !.signatures = q.signatures, !.executed = q.executed,
                                            !.canceled = q.canceled]]_vars
  BY <1>1 DEF SameTerms
<1> QED BY <1>2, Invariance, PTL DEF Spec, FinishedIsFinal
-----------------------------------------------------------------------------
(***************************************************************************)
(* The signers as a set, and the refinement.                               *)
(***************************************************************************)
FoundersDistinct == \A list \in SignerLists : IsInjective(list)

Distinct == FoundersDistinct => IsInjective(signers)

\* What an executed action does to a list of signers without repetition.
LEMMA ApplyMembers ==
  ASSUME Inv, IsInjective(signers), NEW action \in Actions, Apply(action)
  PROVE  /\ IsInjective(signers')
         /\ Range(signers') = CASE action.kind = "AddSigner" -> Range(signers) \cup {action.who}
                                [] action.kind = "RemoveSigner" -> Range(signers) \ {action.who}
                                [] OTHER -> Range(signers)
         /\ threshold' = IF action.kind = "SetThreshold" THEN action.value ELSE threshold
         /\ timelockDelay' = IF action.kind = "SetTimelockDelay" THEN action.value ELSE timelockDelay
<1>0. signers \in Seq(Addresses)
  BY DEF Inv, TypeOK
<1>1. CASE action.kind \in {"Pause", "Unpause", "Upgrade"}
  BY <1>1 DEF Apply, rules
<1>2. CASE action.kind = "AddSigner"
  <2>1. /\ signers' = WithSigner(signers, action.who) /\ action.who \in Addresses
        /\ UNCHANGED <<threshold, timelockDelay>>
    BY <1>2, ActionFields DEF Apply
  <2>2. CASE action.who \in Range(signers)
    <3>1. Range(signers) \cup {action.who} = Range(signers)
      BY <2>2
    <3> QED BY <1>2, <2>1, <2>2, <3>1 DEF WithSigner
  <2>3. CASE action.who \notin Range(signers)
    BY <1>0, <1>2, <2>1, <2>3, AppendNew DEF WithSigner
  <2> QED BY <2>2, <2>3
<1>3. CASE action.kind = "RemoveSigner"
  <2>1. signers' = Without(signers, action.who) /\ UNCHANGED <<threshold, timelockDelay>>
    BY <1>3 DEF Apply
  <2> QED BY <1>0, <1>3, <2>1, WithoutNone
<1>4. CASE action.kind \in {"SetThreshold", "SetTimelockDelay"}
  BY <1>4 DEF Apply
<1> QED BY <1>1, <1>2, <1>3, <1>4 DEF Apply

LEMMA StepDistinct == Inv /\ Distinct /\ [Next]_vars => Distinct'
<1> SUFFICES ASSUME Inv, Distinct, FoundersDistinct, [Next]_vars PROVE IsInjective(signers')
  BY DEF Distinct, FoundersDistinct
<1>1. CASE Founds
  BY <1>1 DEF Founds, FoundersDistinct
<1>2. CASE UNCHANGED rules
  BY <1>2 DEF Distinct, rules
<1>3. CASE Revises
  <2>1. PICK i \in Ids : Apply(proposals[i].action) \/ UNCHANGED rules
    BY <1>3 DEF Revises
  <2>2. proposals[i].action \in Actions
    BY StoredProposal DEF Inv, Books, ValidProposal
  <2> QED BY <1>2, <2>1, <2>2, ApplyMembers DEF Distinct
<1> QED BY <1>1, <1>2, <1>3, StepShape DEF Adds

LEMMA InitDistinct == Init => Distinct
  BY DEF Init, Distinct, IsInjective

LEMMA DistinctAlways == Spec => []Distinct
  BY InitDistinct, StepDistinct, Invariance, PTL DEF Spec

\* Signers listed once each to begin with stay so.
THEOREM ListedOnceAlways == Spec => []ListedOnce
<1>1. Distinct => ListedOnce
  BY DEF Distinct, FoundersDistinct, ListedOnce
<1> QED BY <1>1, DistinctAlways, PTL
-----------------------------------------------------------------------------
Entry(p) == [action |-> p.action, phase |-> Phase(p)]
Agenda == [i \in Ids |-> [action |-> proposals[i].action, phase |-> Phase(proposals[i])]]
Charter == [members |-> Range(signers), quorum |-> threshold, delay |-> timelockDelay]

LEMMA RefineInit == Init => Decisions!Init
<1> SUFFICES ASSUME Init PROVE Decisions!Init
  OBVIOUS
<1>1. Ids = {}
  BY DEF Init, Ids
<1>2. Agenda = << >>
  BY <1>1 DEF Agenda
<1>3. Range(signers) = {}
  BY DEF Init, Range
<1> QED BY <1>2, <1>3 DEF Init, Agenda, Decisions!Init, Decisions!Unfounded

\* A new proposal is a new pending decision.
LEMMA RefineAdds ==
  ASSUME Inv, Adds
  PROVE  Decisions!Next
<1>1. PICK q \in Proposal :
        /\ proposals' = Append(proposals, q) /\ q.action \in Actions /\ ~ q.executed /\ ~ q.canceled
  BY DEF Adds
<1> DEFINE d == [action |-> q.action, phase |-> "pending"]
<1>2. /\ proposals \in Seq(Proposal) /\ Len(proposals) \in Nat
      /\ Len(proposals') = Len(proposals) + 1
      /\ \A k \in 1..Len(proposals) : proposals'[k] = proposals[k]
      /\ proposals'[Len(proposals) + 1] = q
  BY <1>1, AppendProperties, LenProperties DEF Inv, TypeOK
<1>3. Ids = 1..Len(proposals) /\ Ids' = 1..(Len(proposals) + 1)
  BY <1>2 DEF Ids
<1>4. Agenda' = [k \in 1..(Len(proposals) + 1) |-> Entry(proposals'[k])]
  BY <1>3 DEF Agenda, Entry, Phase
<1>5. Entry(q) = d
  BY <1>1 DEF Entry, Phase
<1>6. \A k \in 1..(Len(proposals) + 1) :
        Entry(proposals'[k]) = IF k = Len(proposals) + 1 THEN d ELSE Agenda[k]
  <2>1. \A k \in 1..Len(proposals) : Agenda[k] = Entry(proposals[k])
    BY <1>3 DEF Agenda, Entry
  <2> HIDE DEF d
  <2> QED BY <1>2, <1>5, <2>1
<1>7. Agenda \in Seq({Agenda[k] : k \in Ids}) /\ Len(Agenda) = Len(proposals)
  BY <1>2, <1>3 DEF Agenda
<1> HIDE DEF d
<1>8. Agenda' = Append(Agenda, d)
  <2>1. Append(Agenda, d) =
          [k \in 1..(Len(proposals) + 1) |-> IF k = Len(proposals) + 1 THEN d ELSE Agenda[k]]
    BY <1>7, AppendIsFunction
  <2> QED BY <1>4, <1>6, <2>1
<1>9. Charter' = Charter
  BY DEF Adds, Charter, rules
<1>10. Decisions!Propose(q.action)
  BY <1>8, <1>9 DEF Decisions!Propose, Agenda, Charter, d
<1> QED BY <1>1, <1>10 DEF Decisions!Next

\* A call on a stored proposal carries it out, withdraws it or is not seen.
LEMMA RefineRevises ==
  ASSUME Inv, IsInjective(signers), Revises
  PROVE  [Decisions!Next]_Decisions!vars
<1>1. PICK i \in Ids, q \in Proposal :
        /\ Revision(i, q)
        /\ \/ Apply(proposals[i].action) /\ q.executed /\ ~ proposals[i].canceled
           \/ UNCHANGED rules /\ ~ q.executed /\ (q.canceled \/ ~ proposals[i].canceled)
  BY DEF Revises
<1> DEFINE p == proposals[i]
<1>2. /\ Ids' = Ids /\ \A j \in Ids : proposals'[j] = IF j = i THEN q ELSE proposals[j]
      /\ p.action \in Actions /\ q.action = p.action /\ ~ p.executed
      /\ ~ (q.executed /\ q.canceled)
      /\ Ids = 1..Len(proposals) /\ Len(proposals) \in Nat
  <2>1. Ids' = Ids /\ \A j \in Ids : proposals'[j] = IF j = i THEN q ELSE proposals[j]
    BY <1>1, RevisionEntries DEF Inv
  <2>2. ValidProposal(p)
    BY StoredProposal DEF Inv, Books
  <2>3. q.action = p.action /\ ~ p.executed /\ ~ (q.executed /\ q.canceled)
    BY <1>1 DEF Revision, Lawful
  <2> QED BY <2>1, <2>2, <2>3, LenProperties DEF ValidProposal, Inv, TypeOK, Ids
<1>3. /\ Agenda' = [Agenda EXCEPT ![i] = Entry(q)] /\ Agenda[i] = Entry(p)
      /\ DOMAIN Agenda = Ids /\ Len(Agenda) = Len(proposals)
  <2>1. Agenda' = [j \in Ids |-> IF j = i THEN Entry(q) ELSE Agenda[j]]
    BY <1>2 DEF Agenda, Entry, Phase
  <2>2. Agenda = [j \in Ids |-> Entry(proposals[j])]
    BY DEF Agenda, Entry
  <2>3. Agenda[i] = Entry(p) /\ DOMAIN Agenda = Ids
    BY <2>2
  <2>4. Len(Agenda) = Len(proposals)
    BY <1>2, <2>2
  <2>5. [Agenda EXCEPT ![i] = Entry(q)] = [j \in Ids |-> IF j = i THEN Entry(q) ELSE Agenda[j]]
    BY <2>2
  <2> QED BY <2>1, <2>3, <2>4, <2>5
<1>4. /\ Entry(p).action = p.action /\ Entry(p).phase = Phase(p)
      /\ Entry(q) = [Entry(p) EXCEPT !.phase = Phase(q)]
  BY <1>2 DEF Entry
<1>5. Agenda' = [Agenda EXCEPT ![i].phase = Phase(q)]
  BY <1>3, <1>4
<1> HIDE DEF p
<1>6. CASE Apply(p.action) /\ q.executed /\ ~ p.canceled
  <2>1. Phase(p) = "pending" /\ Phase(q) = "carried"
    BY <1>2, <1>6 DEF Phase
  <2>2. /\ Range(signers') = CASE p.action.kind = "AddSigner" -> Range(signers) \cup {p.action.who}
                               [] p.action.kind = "RemoveSigner" -> Range(signers) \ {p.action.who}
                               [] OTHER -> Range(signers)
        /\ threshold' = IF p.action.kind = "SetThreshold" THEN p.action.value ELSE threshold
        /\ timelockDelay' = IF p.action.kind = "SetTimelockDelay" THEN p.action.value
                            ELSE timelockDelay
    BY <1>2, <1>6, ApplyMembers
  <2>3. Charter' = CASE p.action.kind = "AddSigner" -> [Charter EXCEPT !.members = @ \cup {p.action.who}]
                     [] p.action.kind = "RemoveSigner" -> [Charter EXCEPT !.members = @ \ {p.action.who}]
                     [] p.action.kind = "SetThreshold" -> [Charter EXCEPT !.quorum = p.action.value]
                     [] p.action.kind = "SetTimelockDelay" -> [Charter EXCEPT !.delay = p.action.value]
                     [] OTHER -> Charter
    BY <2>2 DEF Charter
  <2>4. Agenda[i].phase = "pending" /\ Agenda[i].action = p.action
    BY <1>3, <1>4, <2>1
  <2>5. Decisions!Carry(i)
    BY <1>5, <2>1, <2>3, <2>4 DEF Decisions!Carry, Decisions!Outcome, Agenda, Charter
  <2>6. i \in 1..Len(Agenda)
    BY <1>2, <1>3
  <2> QED BY <2>5, <2>6 DEF Decisions!Next, Agenda
<1>7. CASE UNCHANGED rules /\ ~ q.executed /\ (q.canceled \/ ~ p.canceled)
  <2>1. Charter' = Charter
    BY <1>7 DEF Charter, rules
  <2>2. CASE Phase(q) = Phase(p)
    <3>1. Agenda' = Agenda
      <4>1. Entry(q) = Agenda[i]
        BY <1>2, <1>3, <2>2 DEF Entry
      <4>2. Agenda = [j \in Ids |-> Agenda[j]]
        BY DEF Agenda
      <4> QED BY <1>3, <4>1, <4>2
    <3> QED BY <2>1, <3>1 DEF Decisions!vars, Agenda, Charter
  <2>3. CASE Phase(q) # Phase(p)
    <3>1. Phase(p) = "pending" /\ Phase(q) = "withdrawn"
      BY <1>2, <1>7, <2>3 DEF Phase
    <3>2. Agenda[i].phase = "pending"
      BY <1>3, <1>4, <3>1
    <3>3. Decisions!Withdraw(i)
      BY <1>5, <2>1, <3>1, <3>2 DEF Decisions!Withdraw, Agenda, Charter
    <3>4. i \in 1..Len(Agenda)
      BY <1>2, <1>3
    <3> QED BY <3>3, <3>4 DEF Decisions!Next, Agenda
  <2> QED BY <2>2, <2>3
<1> QED BY <1>1, <1>6, <1>7 DEF p

LEMMA RefineFounds ==
  ASSUME Inv, Founds
  PROVE  Decisions!Next
<1>1. Charter = [members |-> {}, quorum |-> 0, delay |-> 0]
  <2>1. signers = << >> /\ threshold = 0 /\ timelockDelay = 0
    BY DEF Founds, Inv, Unstarted
  <2>2. Range(signers) = {}
    BY <2>1 DEF Range
  <2> QED BY <2>1, <2>2 DEF Charter
<1>2. Charter' \in {[members |-> Range(list), quorum |-> t, delay |-> d] :
                      list \in SignerLists, t \in Thresholds, d \in Delays}
  BY DEF Founds, Charter
<1>3. Agenda' = Agenda
  BY DEF Founds, Agenda, Ids, Phase
<1>4. Decisions!Found
  BY <1>1, <1>2, <1>3 DEF Decisions!Found, Decisions!Unfounded, Agenda, Charter
<1> QED BY <1>4 DEF Decisions!Next

LEMMA RefineStep ==
  FoundersDistinct /\ Inv /\ Distinct /\ [Next]_vars => [Decisions!Next]_Decisions!vars
<1> SUFFICES ASSUME FoundersDistinct, Inv, Distinct, [Next]_vars
             PROVE  [Decisions!Next]_Decisions!vars
  OBVIOUS
<1>1. CASE UNCHANGED <<rules, proposals>>
  BY <1>1 DEF Decisions!vars, rules, Ids, Phase
<1>2. CASE Revises
  BY <1>2, RefineRevises DEF Distinct
<1> QED BY <1>1, <1>2, RefineAdds, RefineFounds, StepShape

\* The governor implements timelocked decisions, as long as its founders are listed once
\* each: its rules change only by decisions, each carried out at most once.
THEOREM Implementation ==
  ASSUME FoundersDistinct
  PROVE  Spec => ImplementsDecisions
<1>1. Inv /\ Distinct /\ [Next]_vars => [Decisions!Next]_Decisions!vars
  BY RefineStep
<1> QED BY <1>1, Invariance, DistinctAlways, RefineInit, PTL
        DEF Spec, ImplementsDecisions, Decisions!Spec

-----------------------------------------------------------------------------
(***************************************************************************)
(* The KYC records.  The inductive invariant adds to the types that the    *)
(* timelock in force, and the one every proposal was given, is never below *)
(* the minimum: the wait of an override is decided when it is proposed,    *)
(* whatever is set later.                                                  *)
(***************************************************************************)

\* Every proposal waits at least the shortest timelock.
WaitsKept ==
  /\ timelock >= MinTimelock
  /\ \A k \in DOMAIN overrides :
       /\ overrides[k].executableAt >= overrides[k].proposedAt + MinTimelock
       /\ overrides[k].executed => clock >= overrides[k].executableAt

IInv == KycTypeOK /\ VerdictsDated /\ WaitsKept

\* A sequence with one entry replaced keeps its length and its other entries.
LEMMA OverrideMarked ==
  ASSUME KycTypeOK, NEW k \in DOMAIN overrides
  PROVE  /\ MarkExecuted(k) \in Seq(Override)
         /\ DOMAIN MarkExecuted(k) = DOMAIN overrides
         /\ Len(MarkExecuted(k)) = Len(overrides)
         /\ \A m \in DOMAIN overrides :
              MarkExecuted(k)[m] = IF m = k THEN [overrides[m] EXCEPT !.executed = TRUE]
                                   ELSE overrides[m]
  <1>1. overrides \in Seq(Override)
    BY DEF KycTypeOK
  <1>2. overrides[k] \in Override
    BY <1>1, ElementOfSeq
  <1>3. [overrides[k] EXCEPT !.executed = TRUE] \in Override
    BY <1>2 DEF Override
  <1>4. DOMAIN overrides = 1..Len(overrides)
    BY <1>1
  <1> DEFINE e == [overrides[k] EXCEPT !.executed = TRUE]
  <1>5. MarkExecuted(k) = [overrides EXCEPT ![k] = e]
    BY DEF MarkExecuted
  <1> HIDE DEF e
  <1>6. e \in Override
    BY <1>3 DEF e
  <1>7. /\ [overrides EXCEPT ![k] = e] \in Seq(Override)
        /\ Len([overrides EXCEPT ![k] = e]) = Len(overrides)
        /\ \A m \in 1..Len(overrides) :
             [overrides EXCEPT ![k] = e][m] = IF m = k THEN e ELSE overrides[m]
    BY <1>1, <1>4, <1>6, ExceptSeq
  <1>8. DOMAIN [overrides EXCEPT ![k] = e] = DOMAIN overrides
    OBVIOUS
  <1>9. \A m \in DOMAIN overrides :
          m = k => [overrides[m] EXCEPT !.executed = TRUE] = e
    BY DEF e
  <1> QED
    BY <1>4, <1>5, <1>7, <1>8, <1>9

\* An override of the list, spelled out.
LEMMA OverrideFacts ==
  ASSUME KycTypeOK, NEW k \in DOMAIN overrides
  PROVE  /\ overrides[k] \in Override
         /\ overrides[k].executableAt \in Int /\ overrides[k].proposedAt \in Int
         /\ overrides[k].user \in People /\ overrides[k].newStatus \in Statuses
  <1>1. overrides \in Seq(Override) /\ k \in 1..Len(overrides)
    BY DEF KycTypeOK
  <1>2. overrides[k] \in Override
    BY <1>1, ElementOfSeq
  <1> QED
    BY <1>2, TimeAssumption DEF Override, Time

\* The invariant holds to begin with.
LEMMA InitInvariant == KycInit => IInv
  <1> SUFFICES ASSUME KycInit PROVE IInv
    OBVIOUS
  <1> USE TimeAssumption
  <1>1. NewRecord \in Record /\ NewRecord.finalizedAt = -1 /\ NewRecord.status = "Unverified"
    BY DEF NewRecord, Record, Statuses, Never, Time
  <1>2. \A u \in People : records[u] = NewRecord
    BY DEF KycInit
  <1>3. records \in [People -> Record]
    BY <1>1 DEF KycInit
  <1>4. overrides \in Seq(Override) /\ DOMAIN overrides = {}
    BY DEF KycInit
  <1>5. KycTypeOK
    BY <1>3, <1>4 DEF KycTypeOK, KycInit
  <1>6. VerdictsDated
    BY <1>1, <1>2 DEF VerdictsDated, IsFinalized, IsTerminal, Never, KycInit
  <1>7. WaitsKept
    BY <1>4 DEF WaitsKept, KycInit
  <1> QED
    BY <1>5, <1>6, <1>7 DEF IInv

\* A record of the invariant, spelled out.
LEMMA RecordFacts ==
  ASSUME IInv, NEW u \in People
  PROVE  /\ records[u] \in Record
         /\ clock \in Time /\ clock \in Int
         /\ records[u].finalizedAt \in Int
         /\ records[u].finalizedAt <= clock
         /\ IsFinalized(records[u]) <=> IsTerminal(records[u].status)
  BY TimeAssumption DEF IInv, KycTypeOK, VerdictsDated, Record, Time, Never

\* A step that changes one record only, to one that keeps status and date in step.
LEMMA OneRecord ==
  ASSUME IInv, NEW u \in People, NEW r \in Record,
         records' = [records EXCEPT ![u] = r], clock' = clock,
         IsFinalized(r) <=> IsTerminal(r.status), r.finalizedAt <= clock
  PROVE  records' \in [People -> Record] /\ VerdictsDated'
  BY DEF IInv, KycTypeOK, VerdictsDated, IsFinalized

\* A step that leaves the overrides and the timelock alone and lets no time pass.
LEMMA WaitsUnchanged ==
  ASSUME WaitsKept, UNCHANGED <<overrides, timelock, clock>>
  PROVE  WaitsKept'
  BY DEF WaitsKept

\* Every step keeps the invariant.
LEMMA NextInvariant == IInv /\ [KycNext]_kycVars => IInv'
  <1> SUFFICES ASSUME IInv, [KycNext]_kycVars PROVE IInv'
    OBVIOUS
  <1> USE TimeAssumption
  <1>0. KycTypeOK /\ VerdictsDated /\ WaitsKept
    BY DEF IInv
  <1>1. ASSUME NEW p \in People, AddOperator(p) \/ RemoveOperator(p) \/ SetAdmin(p)
        PROVE  IInv'
    BY <1>0, <1>1 DEF AddOperator, RemoveOperator, SetAdmin, IInv, KycTypeOK, VerdictsDated, WaitsKept,
                      IsFinalized
  <1>2. ASSUME NEW d \in Timelocks, SetTimelockDuration(d)
        PROVE  IInv'
    BY <1>0, <1>2 DEF SetTimelockDuration, IInv, KycTypeOK, VerdictsDated, WaitsKept, IsFinalized
  <1>3. ASSUME NEW d \in Expiries, SetPendingExpiryDuration(d)
        PROVE  IInv'
    BY <1>0, <1>3 DEF SetPendingExpiryDuration, IInv, KycTypeOK, VerdictsDated, WaitsKept, IsFinalized
  <1>4. ASSUME NEW p \in People, NEW u \in People, NEW status \in Statuses,
               UpdateStatus(p, u, status)
        PROVE  IInv'
    <2> DEFINE r == Reviewed(records[u], status)
    <2>1. records[u] \in Record /\ clock \in Time /\ clock \in Int
      BY RecordFacts
    <2>2. records[u].finalizedAt = Never
      BY <1>4 DEF UpdateStatus, IsFinalized
    <2>3. r \in Record
      BY <2>1 DEF Reviewed, Record
    <2>4. IsFinalized(r) <=> IsTerminal(r.status)
      BY <2>1, <2>2 DEF Reviewed, IsFinalized, Never, Time
    <2>5. r.finalizedAt <= clock
      BY <2>1, <2>2 DEF Reviewed, Never, Time
    <2>6. records' = [records EXCEPT ![u] = r] /\ clock' = clock
          /\ UNCHANGED <<overrides, admin, operators, timelock, pendingExpiry>>
      BY <1>4 DEF UpdateStatus, settings
    <2> HIDE DEF r
    <2>7. records' \in [People -> Record] /\ VerdictsDated'
      BY <2>3, <2>4, <2>5, <2>6, OneRecord
    <2> QED
      BY <1>0, <2>6, <2>7, WaitsUnchanged DEF IInv, KycTypeOK
  <1>5. ASSUME NEW u \in People, SubmitKyc(u)
        PROVE  IInv'
    <2> DEFINE r == [records[u] EXCEPT !.status = "Pending", !.expiresAt = clock + pendingExpiry]
    <2>1. records[u] \in Record /\ clock \in Time /\ clock \in Int
          /\ (IsFinalized(records[u]) <=> IsTerminal(records[u].status))
          /\ records[u].finalizedAt <= clock
      BY RecordFacts
    <2>2. records[u].status = "Unverified" /\ clock + pendingExpiry <= MaxTimestamp
      BY <1>5 DEF SubmitKyc
    <2>3. clock + pendingExpiry \in Time
      BY <1>0, <2>1, <2>2 DEF KycTypeOK, Time
    <2>4. r \in Record
      BY <2>1, <2>3 DEF Record, Statuses
    <2>5. IsFinalized(r) <=> IsTerminal(r.status)
      BY <2>1, <2>2 DEF IsFinalized, IsTerminal, Record
    <2>6. r.finalizedAt <= clock
      BY <2>1 DEF Record
    <2>7. records' = [records EXCEPT ![u] = r] /\ clock' = clock
          /\ UNCHANGED <<overrides, admin, operators, timelock, pendingExpiry>>
      BY <1>5, <1>0 DEF SubmitKyc, settings, KycTypeOK
    <2> HIDE DEF r
    <2>8. records' \in [People -> Record] /\ VerdictsDated'
      BY <2>4, <2>5, <2>6, <2>7, OneRecord
    <2> QED
      BY <1>0, <2>7, <2>8, WaitsUnchanged DEF IInv, KycTypeOK
  <1>6. ASSUME NEW u \in People, ResubmitKyc(u)
        PROVE  IInv'
    <2> DEFINE r == [records[u] EXCEPT !.status = "InReview"]
    <2>1. records[u] \in Record /\ (IsFinalized(records[u]) <=> IsTerminal(records[u].status))
          /\ records[u].finalizedAt <= clock /\ records[u].status = "AdditionalInfoRequired"
      BY <1>6, RecordFacts DEF ResubmitKyc
    <2>2. r \in Record
      BY <2>1 DEF Record, Statuses
    <2>3. (IsFinalized(r) <=> IsTerminal(r.status)) /\ r.finalizedAt <= clock
      BY <2>1 DEF IsFinalized, IsTerminal, Record
    <2>4. records' = [records EXCEPT ![u] = r] /\ clock' = clock
          /\ UNCHANGED <<overrides, admin, operators, timelock, pendingExpiry>>
      BY <1>6, <1>0 DEF ResubmitKyc, settings, KycTypeOK
    <2> HIDE DEF r
    <2>5. records' \in [People -> Record] /\ VerdictsDated'
      BY <2>2, <2>3, <2>4, OneRecord
    <2> QED
      BY <1>0, <2>4, <2>5, WaitsUnchanged DEF IInv, KycTypeOK
  <1>7. ASSUME NEW u \in People, NEW status \in OverrideTargets, ProposeOverride(u, status)
        PROVE  IInv'
    <2> DEFINE o == [user |-> u, newStatus |-> status, proposedAt |-> clock,
                     executableAt |-> clock + timelock, executed |-> FALSE]
    <2>1. overrides' = Append(overrides, o) /\ clock + timelock <= MaxTimestamp
          /\ UNCHANGED <<records, admin, operators, timelock, pendingExpiry, clock>>
      BY <1>7 DEF ProposeOverride, settings
    <2>2. clock \in Time /\ clock \in Nat /\ timelock \in Nat /\ overrides \in Seq(Override)
      BY <1>0 DEF KycTypeOK, Time
    <2>3. o \in Override
      BY <2>1, <2>2, TargetAssumption DEF Override, Time
    <2>4. o.executableAt = clock + timelock /\ o.proposedAt = clock /\ o.executed = FALSE
      OBVIOUS
    <2> HIDE DEF o
    <2>5. overrides' \in Seq(Override) /\ DOMAIN overrides' = 1..(Len(overrides) + 1)
          /\ overrides'[Len(overrides) + 1] = o
          /\ \A k \in DOMAIN overrides : overrides'[k] = overrides[k]
      BY <2>1, <2>2, <2>3, AppendProperties
    <2>6. DOMAIN overrides = 1..Len(overrides) /\ Len(overrides) \in Nat
      BY <2>2
    <2>7. KycTypeOK' /\ VerdictsDated'
      BY <1>0, <2>1, <2>5 DEF KycTypeOK, VerdictsDated, IsFinalized
    <2>8. ASSUME NEW k \in DOMAIN overrides'
          PROVE  /\ overrides'[k].executableAt >= overrides'[k].proposedAt + MinTimelock
                 /\ overrides'[k].executed => clock' >= overrides'[k].executableAt
      <3>1. CASE k \in DOMAIN overrides
        BY <1>0, <2>1, <2>5, <3>1 DEF WaitsKept
      <3>2. CASE k = Len(overrides) + 1
        BY <1>0, <2>2, <2>4, <2>5, <3>2 DEF WaitsKept
      <3> QED
        BY <2>5, <2>6, <3>1, <3>2
    <2> QED
      BY <1>0, <2>1, <2>7, <2>8 DEF IInv, WaitsKept
  <1>8. ASSUME NEW k \in DOMAIN overrides, ExecuteOverride(k)
        PROVE  IInv'
    <2> DEFINE u == overrides[k].user
               r == Overridden(records[u], overrides[k].newStatus)
    <2>1. overrides[k] \in Override
      BY <1>0, ElementOfSeq DEF KycTypeOK
    <2>2. u \in People /\ overrides[k].newStatus \in Statuses
      BY <2>1 DEF Override
    <2>3. records[u] \in Record /\ clock \in Time /\ clock \in Int
      BY <2>2, RecordFacts
    <2>4. r \in Record
      BY <2>2, <2>3 DEF Overridden, Record
    <2>5. (IsFinalized(r) <=> IsTerminal(r.status)) /\ r.finalizedAt <= clock
      BY <2>3 DEF Overridden, IsFinalized, Record, Never, Time
    <2>6. records' = [records EXCEPT ![u] = r] /\ clock' = clock
          /\ UNCHANGED <<admin, operators, timelock, pendingExpiry>>
      BY <1>8, <1>0, <2>2 DEF ExecuteOverride, settings, KycTypeOK
    <2>7. overrides' = MarkExecuted(k) /\ clock >= overrides[k].executableAt
      BY <1>8 DEF ExecuteOverride, Overdue
    <2> HIDE DEF r
    <2>8. records' \in [People -> Record] /\ VerdictsDated'
      BY <2>2, <2>4, <2>5, <2>6, OneRecord
    <2>9. KycTypeOK'
      BY <1>0, <2>6, <2>7, <2>8, OverrideMarked DEF KycTypeOK
    <2>10. ASSUME NEW m \in DOMAIN overrides'
           PROVE  /\ overrides'[m].executableAt >= overrides'[m].proposedAt + MinTimelock
                  /\ overrides'[m].executed => clock' >= overrides'[m].executableAt
      <3>1. m \in DOMAIN overrides
            /\ overrides'[m] = IF m = k THEN [overrides[m] EXCEPT !.executed = TRUE]
                               ELSE overrides[m]
        BY <1>0, <2>7, OverrideMarked
      <3>2. overrides'[m].executableAt = overrides[m].executableAt
            /\ overrides'[m].proposedAt = overrides[m].proposedAt
        BY <2>1, <3>1 DEF Override
      <3>3. overrides'[m].executed => m = k \/ overrides[m].executed
        BY <3>1
      <3> QED
        BY <1>0, <2>6, <2>7, <3>1, <3>2, <3>3 DEF WaitsKept
    <2> QED
      BY <1>0, <2>6, <2>8, <2>9, <2>10 DEF IInv, WaitsKept
  <1>9. CASE KycTick
    <2>1. clock' = clock + 1 /\ clock' \in 0..LastTime /\ clock \in Nat
          /\ UNCHANGED <<records, overrides, admin, operators, timelock, pendingExpiry>>
      BY <1>0, <1>9 DEF KycTick, settings, KycTypeOK
    <2>2. KycTypeOK'
      BY <1>0, <2>1 DEF KycTypeOK
    <2>3. VerdictsDated'
      <3>1. \A u \in People : records[u].finalizedAt \in Int /\ records[u].finalizedAt <= clock
        BY RecordFacts
      <3> QED
        BY <1>0, <2>1, <3>1 DEF VerdictsDated, IsFinalized
    <2>4. \A k \in DOMAIN overrides : overrides[k].executableAt \in Int
      BY <1>0, OverrideFacts
    <2>5. WaitsKept'
      BY <1>0, <2>1, <2>4 DEF WaitsKept
    <2> QED
      BY <2>2, <2>3, <2>5 DEF IInv
  <1>10. CASE UNCHANGED kycVars
    BY <1>0, <1>10 DEF kycVars, settings, IInv, KycTypeOK, VerdictsDated, WaitsKept, IsFinalized
  <1> QED
    BY <1>1, <1>2, <1>3, <1>4, <1>5, <1>6, <1>7, <1>8, <1>9, <1>10 DEF KycNext

\* The invariant always holds.
THEOREM InvariantAlways == KycSpec => []IInv
  BY InitInvariant, NextInvariant, PTL DEF KycSpec

\* Every variable always has its type.
THEOREM KycTypeCorrect == KycSpec => []KycTypeOK
  <1>1. IInv => KycTypeOK
    BY DEF IInv
  <1> QED
    BY <1>1, InvariantAlways, PTL

\* The date and the status of a record never part.
THEOREM VerdictsDatedAlways == KycSpec => []VerdictsDated
  <1>1. IInv => VerdictsDated
    BY DEF IInv
  <1> QED
    BY <1>1, InvariantAlways, PTL

\* No override is carried out before the shortest timelock is over.
THEOREM OverridesWaitAlways == KycSpec => []OverridesWait
  <1>1. ASSUME IInv PROVE OverridesWait
    <2>1. \A k \in DOMAIN overrides :
            overrides[k].executableAt \in Int /\ overrides[k].proposedAt \in Int
      BY <1>1, OverrideFacts DEF IInv
    <2>2. clock \in Int /\ MinTimelock \in Int
      BY <1>1, TimeAssumption DEF IInv, KycTypeOK
    <2> QED
      BY <1>1, <2>1, <2>2 DEF IInv, WaitsKept, OverridesWait
  <1> QED
    BY <1>1, InvariantAlways, PTL

\* The steps on one record leave a frozen one alone.
LEMMA FrozenStep ==
  ASSUME IInv, [KycNext]_kycVars, NEW u \in People, Frozen(u), records'[u] # records[u]
  PROVE  \E k \in DOMAIN overrides :
           /\ overrides[k].user = u /\ ~ overrides[k].executed
           /\ overrides'[k].executed /\ records'[u].status = overrides[k].newStatus
  <1>0. KycTypeOK /\ VerdictsDated
    BY DEF IInv
  <1>1. ASSUME NEW p \in People, NEW v \in People, NEW status \in Statuses,
               UpdateStatus(p, v, status)
        PROVE  FALSE
    <2>1. u = v
      BY <1>0, <1>1 DEF UpdateStatus, KycTypeOK
    <2>2. ~ IsTerminal(records[v].status)
      BY <1>0, <1>1 DEF UpdateStatus, VerdictsDated
    <2> QED
      BY <1>1, <2>1, <2>2 DEF UpdateStatus, Frozen
  <1>2. ASSUME NEW v \in People, SubmitKyc(v) \/ ResubmitKyc(v)
        PROVE  FALSE
    <2>1. u = v
      BY <1>0, <1>2 DEF SubmitKyc, ResubmitKyc, KycTypeOK
    <2> QED
      BY <1>2, <2>1 DEF SubmitKyc, ResubmitKyc, Frozen, IsTerminal
  <1>3. ASSUME NEW k \in DOMAIN overrides, ExecuteOverride(k)
        PROVE  /\ overrides[k].user = u /\ ~ overrides[k].executed
               /\ overrides'[k].executed /\ records'[u].status = overrides[k].newStatus
    <2>1. overrides[k] \in Override /\ overrides[k].user \in People
      BY <1>0, OverrideFacts
    <2>2. overrides[k].user = u
      BY <1>0, <1>3, <2>1 DEF ExecuteOverride, KycTypeOK
    <2>3. records[u] \in Record
      BY <1>0 DEF KycTypeOK
    <2>4. records'[u] = Overridden(records[u], overrides[k].newStatus)
      BY <1>0, <1>3, <2>2 DEF ExecuteOverride, KycTypeOK
    <2>5. records'[u].status = overrides[k].newStatus
      BY <2>3, <2>4 DEF Overridden, Record
    <2>6. overrides'[k] = [overrides[k] EXCEPT !.executed = TRUE]
      BY <1>0, <1>3, OverrideMarked DEF ExecuteOverride
    <2>7. overrides'[k].executed /\ ~ overrides[k].executed
      BY <1>3, <2>1, <2>6 DEF Override, ExecuteOverride, Overdue
    <2> QED
      BY <2>2, <2>5, <2>7
  <1>4. ASSUME \/ \E p \in People : AddOperator(p) \/ RemoveOperator(p) \/ SetAdmin(p)
               \/ \E d \in Timelocks : SetTimelockDuration(d)
               \/ \E d \in Expiries : SetPendingExpiryDuration(d)
               \/ \E v \in People, status \in OverrideTargets : ProposeOverride(v, status)
               \/ KycTick \/ UNCHANGED kycVars
        PROVE  FALSE
    BY <1>4 DEF AddOperator, RemoveOperator, SetAdmin, SetTimelockDuration,
                SetPendingExpiryDuration, ProposeOverride, KycTick, kycVars
  <1> QED
    BY <1>1, <1>2, <1>3, <1>4 DEF KycNext

\* A verdict and an expired request stand until an override of that user is carried out.
THEOREM FrozenUntilOverrideAlways == KycSpec => FrozenUntilOverride
  <1>1. IInv /\ [KycNext]_kycVars =>
          [\A u \in People :
             Frozen(u) /\ records'[u] # records[u] =>
               \E k \in DOMAIN overrides :
                 /\ overrides[k].user = u /\ ~ overrides[k].executed
                 /\ overrides'[k].executed /\ records'[u].status = overrides[k].newStatus]_kycVars
    BY FrozenStep
  <1> QED
    BY <1>1, InvariantAlways, PTL DEF KycSpec, FrozenUntilOverride

-----------------------------------------------------------------------------
(* The documented state machine. *)

Current == [u \in People |-> records[u].status]
Decision(o) == [user |-> o.user, target |-> o.newStatus, carried |-> o.executed]
Decided == [k \in DOMAIN overrides |->
              [user |-> overrides[k].user, target |-> overrides[k].newStatus,
               carried |-> overrides[k].executed]]

LEMMA StandingInit == KycInit => Standing!Init
  <1> SUFFICES ASSUME KycInit PROVE Standing!Init
    OBVIOUS
  <1>1. Current = [u \in People |-> "Unverified"]
    BY DEF Current, KycInit, NewRecord
  <1>2. Decided = << >>
    BY DEF Decided, KycInit
  <1> QED
    BY <1>1, <1>2 DEF Standing!Init, Current, Decided

\* A record that moves along a documented transition, and nothing else.
LEMMA StandingMoves ==
  ASSUME KycTypeOK, NEW u \in People, NEW r \in Record,
         records' = [records EXCEPT ![u] = r], overrides' = overrides,
         <<records[u].status, r.status>> \in Standing!Transitions
  PROVE  Standing!Next
  <1>1. Current' = [Current EXCEPT ![u] = r.status]
    <2>1. Current' = [v \in People |-> IF v = u THEN r.status ELSE records[v].status]
      BY DEF Current, KycTypeOK
    <2> QED
      BY <2>1 DEF Current
  <1>2. Current[u] = records[u].status /\ r.status \in Statuses
    BY DEF Current, Record
  <1>3. Decided' = Decided
    BY DEF Decided
  <1>4. Standing!Move(u)
    BY <1>1, <1>2, <1>3 DEF Standing!Move, Current, Decided
  <1> QED
    BY <1>4 DEF Standing!Next

LEMMA StandingReviews ==
  ASSUME IInv, NEW p \in People, NEW u \in People, NEW status \in Statuses,
         UpdateStatus(p, u, status)
  PROVE  Standing!Next
  <1> DEFINE r == Reviewed(records[u], status)
  <1>1. KycTypeOK /\ clock \in Time
    BY TimeAssumption DEF IInv, KycTypeOK, Time
  <1>2. records[u] \in Record
    BY <1>1 DEF KycTypeOK
  <1>3. r \in Record /\ r.status = status
    BY <1>1, <1>2 DEF Reviewed, Record
  <1>4. <<records[u].status, status>> \in Standing!Transitions
    BY <1>2 DEF UpdateStatus, Successors, Record, Statuses, Standing!Transitions
  <1>5. records' = [records EXCEPT ![u] = r] /\ overrides' = overrides
    BY DEF UpdateStatus
  <1> HIDE DEF r
  <1> QED
    BY <1>1, <1>3, <1>4, <1>5, StandingMoves

LEMMA StandingRequests ==
  ASSUME IInv, NEW u \in People, SubmitKyc(u) \/ ResubmitKyc(u)
  PROVE  Standing!Next
  <1>1. KycTypeOK /\ clock \in Nat /\ pendingExpiry \in Nat
    BY TimeAssumption DEF IInv, KycTypeOK
  <1>2. records[u] \in Record
    BY <1>1 DEF KycTypeOK
  <1>3. CASE SubmitKyc(u)
    <2> DEFINE r == [records[u] EXCEPT !.status = "Pending", !.expiresAt = clock + pendingExpiry]
    <2>1. clock + pendingExpiry \in Time
      BY <1>1, <1>3, TimeAssumption DEF SubmitKyc, Time
    <2>2. r \in Record /\ r.status = "Pending"
      BY <1>2, <2>1 DEF Record, Statuses
    <2>3. records' = [records EXCEPT ![u] = r] /\ overrides' = overrides
      BY <1>1, <1>3 DEF SubmitKyc, KycTypeOK
    <2>4. <<records[u].status, "Pending">> \in Standing!Transitions
      BY <1>3 DEF SubmitKyc, Standing!Transitions
    <2> HIDE DEF r
    <2> QED
      BY <1>1, <2>2, <2>3, <2>4, StandingMoves
  <1>4. CASE ResubmitKyc(u)
    <2> DEFINE r == [records[u] EXCEPT !.status = "InReview"]
    <2>1. r \in Record /\ r.status = "InReview"
      BY <1>2 DEF Record, Statuses
    <2>2. records' = [records EXCEPT ![u] = r] /\ overrides' = overrides
      BY <1>1, <1>4 DEF ResubmitKyc, KycTypeOK
    <2>3. <<records[u].status, "InReview">> \in Standing!Transitions
      BY <1>4 DEF ResubmitKyc, Standing!Transitions
    <2> HIDE DEF r
    <2> QED
      BY <1>1, <2>1, <2>2, <2>3, StandingMoves
  <1> QED
    BY <1>3, <1>4

\* A proposal is a decision, taken while a verdict stands.
LEMMA StandingDecides ==
  ASSUME IInv, NEW u \in People, NEW status \in OverrideTargets, ProposeOverride(u, status)
  PROVE  Standing!Next
  <1> DEFINE o == [user |-> u, newStatus |-> status, proposedAt |-> clock,
                   executableAt |-> clock + timelock, executed |-> FALSE]
             d == [user |-> u, target |-> status, carried |-> FALSE]
             n == Len(overrides)
  <1>1. overrides \in Seq(Override) /\ n \in Nat /\ status \in Statuses
        /\ clock \in Time /\ clock + timelock \in Time
    BY TargetAssumption, TimeAssumption DEF IInv, KycTypeOK, ProposeOverride, Time
  <1>2. o \in Override /\ Decision(o) = d
    BY <1>1 DEF Override, Decision
  <1>3. overrides' = Append(overrides, o) /\ records' = records
    BY DEF ProposeOverride
  <1> HIDE DEF o, d
  <1>4. /\ Len(overrides') = n + 1 /\ overrides' \in Seq(Override)
        /\ \A k \in 1..n : overrides'[k] = overrides[k]
        /\ overrides'[n + 1] = o
    BY <1>1, <1>2, <1>3, AppendProperties
  <1>5. DOMAIN overrides = 1..n /\ DOMAIN overrides' = 1..(n + 1)
    BY <1>1, <1>4
  <1>6. Decided = [k \in 1..n |-> Decision(overrides[k])]
        /\ Decided' = [k \in 1..(n + 1) |-> Decision(overrides'[k])]
    BY <1>5 DEF Decided, Decision
  <1>7. Decided \in Seq({Decided[k] : k \in 1..n}) /\ Len(Decided) = n
    BY <1>1, <1>6
  <1>8. Append(Decided, d) = [k \in 1..(n + 1) |-> IF k = n + 1 THEN d ELSE Decided[k]]
    BY <1>7, AppendIsFunction
  <1>9. \A k \in 1..(n + 1) : Decision(overrides'[k]) = IF k = n + 1 THEN d ELSE Decided[k]
    BY <1>1, <1>2, <1>4, <1>6
  <1>10. Decided' = Append(Decided, d)
    BY <1>6, <1>8, <1>9
  <1>11. Current' = Current
    BY <1>3 DEF Current
  <1>12. Current[u] \in Standing!Verdicts
    BY DEF ProposeOverride, IInv, VerdictsDated, IsTerminal, Current, Standing!Verdicts
  <1>13. Standing!Decide(u, status)
    BY <1>10, <1>11, <1>12 DEF Standing!Decide, Current, Decided, d
  <1> QED
    BY <1>1, <1>13 DEF Standing!Next

\* Carrying out an override carries out the decision, whatever the record has become.
LEMMA StandingCarries ==
  ASSUME IInv, NEW k \in DOMAIN overrides, ExecuteOverride(k)
  PROVE  Standing!Next
  <1> DEFINE u == overrides[k].user
  <1>1. KycTypeOK /\ overrides[k] \in Override /\ u \in People
    BY OverrideFacts DEF IInv
  <1>2. records[u] \in Record
    BY <1>1 DEF KycTypeOK
  <1>3. Current' = [Current EXCEPT ![u] = overrides[k].newStatus]
    <2> DEFINE r == Overridden(records[u], overrides[k].newStatus)
    <2>1. r.status = overrides[k].newStatus
      BY <1>2 DEF Overridden, Record
    <2>2. records' = [records EXCEPT ![u] = r]
      BY <1>1 DEF ExecuteOverride
    <2> HIDE DEF r
    <2>3. Current' = [v \in People |-> IF v = u THEN r.status ELSE records[v].status]
      BY <1>1, <2>2 DEF Current, KycTypeOK
    <2> QED
      BY <2>1, <2>3 DEF Current
  <1>4. /\ DOMAIN overrides' = DOMAIN overrides
        /\ \A m \in DOMAIN overrides :
             overrides'[m] = IF m = k THEN [overrides[m] EXCEPT !.executed = TRUE]
                             ELSE overrides[m]
    BY <1>1, OverrideMarked DEF ExecuteOverride
  <1>5. Decided' = [m \in DOMAIN overrides |-> Decision(overrides'[m])]
        /\ Decided = [m \in DOMAIN overrides |-> Decision(overrides[m])]
    BY <1>4 DEF Decided, Decision
  <1>6. Decision([overrides[k] EXCEPT !.executed = TRUE]) =
          [Decision(overrides[k]) EXCEPT !.carried = TRUE]
    <2> DEFINE o == overrides[k]
               e == [o EXCEPT !.executed = TRUE]
    <2>1. o \in Override
      BY <1>1
    <2> HIDE DEF o
    <2>2. e.user = o.user /\ e.newStatus = o.newStatus /\ e.executed = TRUE
      BY <2>1 DEF Override
    <2> HIDE DEF e
    <2>3. Decision(e) = [user |-> o.user, target |-> o.newStatus, carried |-> TRUE]
      BY <2>2 DEF Decision
    <2>4. [Decision(o) EXCEPT !.carried = TRUE] =
            [user |-> o.user, target |-> o.newStatus, carried |-> TRUE]
      <3>1. Decision(o) = [user |-> o.user, target |-> o.newStatus, carried |-> o.executed]
        BY DEF Decision
      <3>2. \A t : [Decision(o) EXCEPT !.carried = t] =
                    [user |-> o.user, target |-> o.newStatus, carried |-> t]
        BY <3>1
      <3> QED
        BY <3>2, Zenon
    <2> QED
      BY <2>3, <2>4 DEF o, e
  <1>7. \A m \in DOMAIN overrides :
          Decision(overrides'[m]) = IF m = k THEN [Decision(overrides[k]) EXCEPT !.carried = TRUE]
                                    ELSE Decision(overrides[m])
    BY <1>4, <1>6
  <1>8. Decided' = [Decided EXCEPT ![k].carried = TRUE]
    <2> DEFINE e == [Decision(overrides[k]) EXCEPT !.carried = TRUE]
    <2>1. Decided' = [m \in DOMAIN overrides |-> IF m = k THEN e ELSE Decision(overrides[m])]
      BY <1>5, <1>7
    <2>2. Decided[k] = Decision(overrides[k])
      BY <1>5
    <2>3. [Decided EXCEPT ![k].carried = TRUE] = [Decided EXCEPT ![k] = e]
      BY <2>2
    <2> HIDE DEF e
    <2>4. [Decided EXCEPT ![k] = e] =
            [m \in DOMAIN overrides |-> IF m = k THEN e ELSE Decision(overrides[m])]
      BY <1>5
    <2> QED
      BY <2>1, <2>3, <2>4
  <1>9. /\ Decided[k].user = u /\ Decided[k].target = overrides[k].newStatus
        /\ ~ Decided[k].carried /\ k \in DOMAIN Decided
    BY DEF Decided, ExecuteOverride, Overdue
  <1>10. Standing!Carry(k)
    BY <1>3, <1>8, <1>9 DEF Standing!Carry, Current, Decided
  <1> QED
    BY <1>9, <1>10 DEF Standing!Next, Decided

LEMMA StandingStep == IInv /\ [KycNext]_kycVars => [Standing!Next]_Standing!vars
  <1> SUFFICES ASSUME IInv, [KycNext]_kycVars PROVE [Standing!Next]_Standing!vars
    OBVIOUS
  <1>1. ASSUME \/ \E p \in People : AddOperator(p) \/ RemoveOperator(p) \/ SetAdmin(p)
               \/ \E d \in Timelocks : SetTimelockDuration(d)
               \/ \E d \in Expiries : SetPendingExpiryDuration(d)
               \/ KycTick \/ UNCHANGED kycVars
        PROVE  UNCHANGED Standing!vars
    <2>1. UNCHANGED <<records, overrides>>
      BY <1>1 DEF AddOperator, RemoveOperator, SetAdmin, SetTimelockDuration,
                  SetPendingExpiryDuration, KycTick, kycVars
    <2> QED
      BY <2>1 DEF Standing!vars
  <1> QED
    BY <1>1, StandingReviews, StandingRequests, StandingDecides, StandingCarries DEF KycNext

\* The contract implements the documented state machine with timelocked overrides.
THEOREM KycImplementation == KycSpec => ImplementsStanding
  BY StandingInit, StandingStep, InvariantAlways, PTL
     DEF KycSpec, ImplementsStanding, Standing!Spec
=============================================================================
