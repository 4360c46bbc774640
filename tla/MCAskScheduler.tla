--------------------------- MODULE MCAskScheduler ---------------------------
(* An instance of AskScheduler for TLC. *)
EXTENDS AskScheduler

CONSTANTS A, B, S, T, U

Of(s, a) == [site |-> s, actor |-> a]

\* Two awaited branches with an actor each, that come to the same site in the order
\* in which their first asks settle, and one that is not awaited, on the first actor;
\* and two branches that come to the same actor.
MCScripts ==
    { [asks |-> << <<Of(S, A), Of(T, A)>>, <<Of(S, B), Of(T, B)>>, <<Of(U, A)>> >>,
       awaited |-> {1, 2}],
      [asks |-> << <<Of(S, A), Of(T, A)>>, <<Of(S, B), Of(U, A)>> >>,
       awaited |-> {1, 2}] }
Actors == <<A, B>>

Short == UNION { [1..n -> {A, B, S}] : n \in 0..4 }

\* Among and Without are what SelectSeq selects.
ASSUME SelectionsAssumption ==
    \A s \in Short, M \in SUBSET {A, B, S} :
        /\ Among(s, M) = SelectSeq(s, LAMBDA x : x \in M)
        /\ Without(s, M) = SelectSeq(s, LAMBDA x : x \notin M)
=============================================================================
