-------------------------------- MODULE Sums ---------------------------------
(***************************************************************************)
(* Sums as recursive functions, which the proof system can unfold: over    *)
(* the records a contract keeps under consecutive ids, and over a finite   *)
(* set of holders; and the part of a list at a set of places.              *)
(***************************************************************************)
EXTENDS Integers, Sequences, FiniteSets

\* PartialSums(f, n)[i] is f[1] + ... + f[i]
PartialSums(f, n) ==
  LET s[i \in 0..n] == IF i = 0 THEN 0 ELSE s[i - 1] + f[i] IN s

Total(f, n) == PartialSums(f, n)[n]

\* The members of a finite set, each once, in some order
Enumeration(S) ==
  CHOOSE e \in [1..Cardinality(S) -> S] :
    /\ \A x \in S : \E k \in DOMAIN e : e[k] = x
    /\ \A j, k \in DOMAIN e : e[j] = e[k] => j = k

\* The sum of f over a finite set
SetTotal(f, S) ==
  LET e == Enumeration(S)
  IN  Total([k \in 1..Cardinality(S) |-> f[e[k]]], Cardinality(S))

\* PartialPicks(s, T)[n] are the entries of s at those of the first n places that are in T
PartialPicks(s, T) ==
  LET p[n \in 0..Len(s)] == IF n = 0 THEN <<>>
                            ELSE IF n \in T THEN Append(p[n - 1], s[n]) ELSE p[n - 1]
  IN  p

\* The entries of s at the places of T, in their order
Picked(s, T) == PartialPicks(s, T)[Len(s)]
=============================================================================
