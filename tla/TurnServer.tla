----------------------------- MODULE TurnServer -----------------------------
(***************************************************************************)
(* What an AgentRuntime promises the callers that hand it commands: a      *)
(* session is a server with one seat.  A command waits until it is served  *)
(* or withdrawn; nobody is seated while somebody else is; commands are     *)
(* seated in order of arrival, except that a promoted one may jump the     *)
(* queue and that messages (notifications, subagent replies) may be seated *)
(* together or join the command being served; and nobody comes back.       *)
(***************************************************************************)
EXTENDS Naturals

VARIABLES
    waiting, serving, left,   \* where each command that has arrived is
    message,                  \* the arrived commands that may share the seat
    promoted                  \* the arrived commands that may jump the queue

vars == <<waiting, serving, left, message, promoted>>

Init ==
    /\ waiting = {}
    /\ serving = {}
    /\ left = {}
    /\ message = {}
    /\ promoted = {}

Known == waiting \cup serving \cup left

\* What a step does: who arrives, who gives up waiting, who is seated, who is
\* done.  Commands are numbered in order of arrival.
Arriving    == (waiting' \cup serving' \cup left') \ Known
Withdrawing == left' \ (left \cup serving)
Seated      == serving' \ serving
Done        == serving \ serving'

AtMostOne(S) == \A c, d \in S : c = d

\* At most one command arrives, younger than all the others.
Arrive ==
    /\ AtMostOne(Arriving)
    /\ \A c \in Arriving : \A d \in Known : d < c
    /\ message \subseteq message' /\ message' \subseteq message \cup Arriving
    /\ promoted \subseteq promoted' /\ promoted' \subseteq promoted \cup Arriving

\* Those seated together are messages, or it is one command that is promoted
\* or older than those that go on waiting.
SeatedInOrder ==
    \/ Seated \subseteq message'
    \/ /\ AtMostOne(Seated)
       /\ \A c \in Seated : c \in promoted' \/ \A d \in waiting' : c < d

\* With the seat free, commands are seated, perhaps just after arriving.
Admit ==
    /\ Arrive
    /\ Seated # {} => serving = {}
    /\ Done = {}
    /\ Withdrawing \cup Seated \subseteq waiting \cup Arriving
    /\ Withdrawing \cap Seated = {}
    /\ waiting' = (waiting \cup Arriving) \ (Withdrawing \cup Seated)
    /\ left' = left \cup Withdrawing
    /\ SeatedInOrder

\* Messages join whoever is served.
Join ==
    /\ serving # {}
    /\ Done = {}
    /\ Seated \subseteq message
    /\ Withdrawing \cup Seated \subseteq waiting
    /\ Withdrawing \cap Seated = {}
    /\ waiting' = waiting \ (Withdrawing \cup Seated)
    /\ left' = left \cup Withdrawing
    /\ UNCHANGED <<message, promoted>>

\* Some of those served are done.
Leave ==
    /\ serving' \subseteq serving
    /\ left' = left \cup Done
    /\ UNCHANGED <<waiting, message, promoted>>

Next == Admit \/ Join \/ Leave

Spec == Init /\ [][Next]_vars
=============================================================================
