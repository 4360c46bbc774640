----------------------------- MODULE Selections -----------------------------
(***************************************************************************)
(* Parts of sets and sequences in their order, and maxima, written without *)
(* recursion: SelectSeq is built in for TLC, but unknown to the provers.   *)
(***************************************************************************)
EXTENDS Naturals, Sequences, FiniteSets

\* The greatest of a finite set of numbers.
Largest(S) == CHOOSE n \in S : \A m \in S : m <= n

\* A finite set of numbers, in ascending order.
Ascending(N) ==
    [i \in 1..Cardinality(N) |-> CHOOSE n \in N : Cardinality({ m \in N : m <= n }) = i]

\* The members of s that are in S, and those that are not, in their order.
Among(s, S) ==
    LET at == Ascending({ i \in DOMAIN s : s[i] \in S }) IN [i \in DOMAIN at |-> s[at[i]]]
Without(s, S) ==
    LET at == Ascending({ i \in DOMAIN s : s[i] \notin S }) IN [i \in DOMAIN at |-> s[at[i]]]
=============================================================================
