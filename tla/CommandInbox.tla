---------------------------- MODULE CommandInbox ----------------------------
(***************************************************************************)
(* The admission of the commands of one session: CommandInbox, which keeps *)
(* what is in flight, what is a live input and what has settled; the index *)
(* of durable facts behind it (PersistentCommandIndex); and the gateway's  *)
(* handleCommand, which executes what the inbox lets through.  One action  *)
(* is what runs between two awaits.                                        *)
(*                                                                         *)
(* A Call is one call of handle, or of query for one key; a client that    *)
(* lost a reply calls again with the same command.  A text command is an   *)
(* input: it is admitted to the ledger, handed over to the runtime and     *)
(* promoted when its message enters the transcript.  A compact command is  *)
(* admitted as well, but writes a timeline fact when it has run.  The      *)
(* other commands leave nothing durable.                                   *)
(***************************************************************************)
EXTENDS Naturals, SequencesExt

CONSTANTS
    Call,
    Command,
    Scenario,       \* what the calls may be: of handle or query, and for which command
    Text, Compact,  \* the commands that are inputs
    SettledLimit,   \* PROTOCOL_V4_LIMITS.idempotencyTablePerSession
    MaxRestarts,    \* bound on the restarts of the process
    None

ASSUME CommandInboxAssumption ==
    /\ Scenario \subseteq [Call -> [of : {"handle", "query"}, command : Command]]
    /\ Text \cup Compact \subseteq Command
    /\ Text \cap Compact = {}
    /\ SettledLimit \in Nat \ {0}
    /\ MaxRestarts \in Nat

VARIABLES
    asks,         \* what the calls are; it does not change
    pc,           \* where each call is
    reply,        \* what it has answered
    entry,        \* the in-flight call whose final it awaits
    source,       \* the durable source it looks up next
    view,         \* the index that lookup awaits
    own,          \* that index, once it is no longer the shared one
    keyGate,      \* each command's gate: the calls that hold or await it
    sessionGate,  \* the session's gate
    inFlight,     \* each command's executing call
    final,        \* what an executing call has settled with
    live,         \* each live input's ack
    settled,      \* the acks of settled commands, least recently used first
    seqNo,        \* the session's admissionSeq
    seqOf,        \* the number its last admission gave each command
    index,        \* the shared index of durable facts
    session,      \* is the session's runtime loaded?
    ledger,       \* each input's row
    markers,      \* the commands with a timeline fact
    held,         \* what the runtime does with each input
    effects,      \* how often each input entered the transcript or compacted
    restarts

callVars   == <<pc, reply, entry, source, view, own>>
gateVars   == <<keyGate, sessionGate>>
tableVars  == <<inFlight, final, live, settled, seqNo, seqOf>>
storeVars  == <<ledger, markers>>
worldVars  == <<asks, session, held, effects, restarts>>
vars == <<callVars, gateVars, tableVars, index, storeVars, worldVars>>

Input == Text \cup Compact
Ack == {"accepted", "failed", "noop"}
Reply == Ack \cup {"duplicate", "rejected", "unavailable", "unknown"}

ASSUME NoneAssumption == None \notin Call \cup Reply

\* The sources in the order they are asked: transcript, timeline and child say
\* that the command was accepted, the ledger that its input was discarded.
Sources == <<"accepted", "discarded">>
Facts == [Command -> SUBSET {"accepted", "discarded"}]
NoFacts == [k \in Command |-> {}]
Index == [state : {"absent", "loading", "ready", "failed"}, sweeps : {"yes", "no"}, facts : Facts]
Absent == [state |-> "absent", sweeps |-> "no", facts |-> NoFacts]

Key(c) == asks[c].command
Query == {c \in Call : asks[c].of = "query"}

\* Where a command is among the settled ones; the Map has one entry of it.
SettledAt(k) == {i \in DOMAIN settled : settled[i].command = k}

TypeOK ==
    /\ asks \in Scenario
    /\ pc \in [Call -> {"new", "key", "final", "lookup", "session", "recheck",
                        "admit", "execute", "cancel", "fail", "succeed", "done", "lost"}]
    /\ reply \in [Call -> Reply \cup {None}]
    /\ entry \in [Call -> Call \cup {None}]
    /\ source \in [Call -> 1..2]
    /\ view \in [Call -> {"idle", "shared", "own"}]
    /\ own \in [Call -> Index]
    /\ keyGate \in [Command -> Seq(Call)]
    /\ sessionGate \in Seq(Call)
    /\ inFlight \in [Command -> Call \cup {None}]
    /\ final \in [Call -> Ack \cup {None}]
    /\ live \in [Command -> Ack \cup {None}]
    /\ settled \in Seq([command : Command, ack : Ack])
    /\ Len(settled) <= SettledLimit
    /\ seqNo \in Nat
    /\ seqOf \in [Command -> Nat]
    /\ index \in Index
    /\ session \in {"absent", "resuming", "loaded"}
    /\ ledger \in [Command -> {"none", "admitted", "promoted", "cancelled", "discarded"}]
    /\ markers \in SUBSET Command
    /\ held \in [Command -> {"no", "yes", "promoted", "removed", "recording"}]
    /\ effects \in [Command -> Nat]
    /\ restarts \in 0..MaxRestarts

Init ==
    /\ asks \in Scenario
    /\ pc = [c \in Call |-> "new"]
    /\ reply = [c \in Call |-> None]
    /\ entry = [c \in Call |-> None]
    /\ source = [c \in Call |-> 1]
    /\ view = [c \in Call |-> "idle"]
    /\ own = [c \in Call |-> Absent]
    /\ keyGate = [k \in Command |-> <<>>]
    /\ sessionGate = <<>>
    /\ inFlight = [k \in Command |-> None]
    /\ final = [c \in Call |-> None]
    /\ live = [k \in Command |-> None]
    /\ settled = <<>>
    /\ seqNo = 0
    /\ seqOf = [k \in Command |-> 0]
    /\ index = Absent
    /\ session = "loaded"
    /\ ledger = [k \in Command |-> "none"]
    /\ markers = {}
    /\ held = [k \in Command |-> "no"]
    /\ effects = [k \in Command |-> 0]
    /\ restarts = 0

-----------------------------------------------------------------------------
(* The tables                                                               *)

Goto(c, l) == pc' = [pc EXCEPT ![c] = l]

\* Mutant: nothing is evicted.
LatestAll(s) == s

Latest(s) == SubSeq(s, IF Len(s) > SettledLimit THEN 2 ELSE 1, Len(s))

Unsettled(k) ==
    IF SettledAt(k) = {} THEN settled ELSE RemoveAt(settled, CHOOSE i \in SettledAt(k) : TRUE)

\* rememberSettled, and touchSettled for what is there already.
Remember(k, ack) ==
    settled' = Latest(Append(Unsettled(k), [command |-> k, ack |-> ack]))

SettledAck(k) ==
    IF SettledAt(k) = {} THEN None ELSE settled[CHOOSE i \in SettledAt(k) : TRUE].ack

\* Mutant: does not look among the live inputs.
KnownSettled(k) == SettledAck(k)

\* What lookupExact finds without an await, in the order it looks.
Known(k) == IF live[k] # None THEN live[k] ELSE SettledAck(k)

\* Mutant: whatever the command came to.
RetryAckAlways(ack) == "duplicate"

\* A failed command stays failed; whoever repeats another one is told so.
RetryAck(ack) == IF ack = "failed" THEN ack ELSE "duplicate"

Answer(c, ack) ==
    /\ Goto(c, "done")
    /\ reply' = [reply EXCEPT ![c] = ack]
    /\ entry' = [entry EXCEPT ![c] = None]
    /\ source' = [source EXCEPT ![c] = 1]
    /\ view' = [view EXCEPT ![c] = "idle"]
    /\ own' = [own EXCEPT ![c] = Absent]

AnswerKnown(c, ack) == Answer(c, IF c \in Query THEN ack ELSE RetryAck(ack))

\* A gate without c, if c holds it: the first holds a gate, the others wait.
Released(gate, c) == IF gate # <<>> /\ Head(gate) = c THEN Tail(gate) ELSE gate

LeaveKeyGate(c) == keyGate' = [keyGate EXCEPT ![Key(c)] = Released(@, c)]
LeaveSessionGate(c) == sessionGate' = Released(sessionGate, c)
LeaveGates(c) == LeaveKeyGate(c) /\ LeaveSessionGate(c)

-----------------------------------------------------------------------------
(* PersistentCommandIndex                                                   *)

\* ensureSession: without an index a load starts.
Ensured ==
    IF index.state = "absent"
    THEN [Absent EXCEPT !.state = "loading", !.sweeps = IF session = "absent" THEN "yes" ELSE "no"]
    ELSE index

\* lookup: the call awaits the index of the moment for its next source.
Await(c, i) ==
    /\ view' = [view EXCEPT ![c] = "shared"]
    /\ own' = [own EXCEPT ![c] = Absent]
    /\ source' = [source EXCEPT ![c] = i]
    /\ index' = Ensured

IndexOf(c) == IF view[c] = "shared" THEN index ELSE own[c]

\* Who awaits the index that invalidate drops goes on with that one.
Detach(i) ==
    /\ index' = Absent
    /\ view' = [c \in Call |-> IF view[c] = "shared" THEN "own" ELSE view[c]]
    /\ own' = [c \in Call |-> IF view[c] = "shared" THEN i ELSE own[c]]

Invalidate == Detach(index)

\* loadPersistentCommandFacts: rows still admitted are discarded if the
\* session was not loaded when the load began.
Swept(sweeps) ==
    [k \in Command |-> IF sweeps = "yes" /\ ledger[k] = "admitted" THEN "discarded" ELSE ledger[k]]

FactsIn(rows) ==
    [k \in Command |->
        (IF rows[k] = "promoted" \/ k \in markers THEN {"accepted"} ELSE {})
        \cup (IF rows[k] \in {"cancelled", "discarded"} THEN {"discarded"} ELSE {})]

Loaded(i) == [i EXCEPT !.state = "ready", !.facts = FactsIn(Swept(i.sweeps))]

Load ==
    /\ index.state = "loading"
    /\ index' = Loaded(index)
    /\ ledger' = Swept(index.sweeps)
    /\ UNCHANGED <<callVars, gateVars, tableVars, markers, worldVars>>

\* A load that fails is not kept.
LoadFails ==
    /\ index.state = "loading"
    /\ Detach([index EXCEPT !.state = "failed"])
    /\ UNCHANGED <<pc, reply, entry, source, gateVars, tableVars, storeVars, worldVars>>

LoadOwn(c) ==
    /\ own[c].state = "loading"
    /\ \/ /\ own' = [own EXCEPT ![c] = Loaded(@)]
          /\ ledger' = Swept(own[c].sweeps)
       \/ /\ own' = [own EXCEPT ![c].state = "failed"]
          /\ UNCHANGED ledger
    /\ UNCHANGED <<pc, reply, entry, source, view, gateVars, tableVars, index, markers, worldVars>>

-----------------------------------------------------------------------------
(* CommandInbox                                                             *)

\* handle and queryOne begin by waiting for the command's gate.
Arrive(c) ==
    /\ pc[c] = "new"
    /\ keyGate' = [keyGate EXCEPT ![Key(c)] = Append(@, c)]
    /\ Goto(c, "key")
    /\ UNCHANGED <<reply, entry, source, view, own, sessionGate, tableVars, index, storeVars, worldVars>>

HoldsKey(c) == keyGate[Key(c)] # <<>> /\ Head(keyGate[Key(c)]) = c
HoldsSession(c) == sessionGate # <<>> /\ Head(sessionGate) = c

\* What the call finds in the tables, at once.
FoundInFlight(c) ==
    /\ inFlight[Key(c)] # None
    /\ Goto(c, "final")
    /\ entry' = [entry EXCEPT ![c] = inFlight[Key(c)]]
    /\ UNCHANGED <<reply, source, view, own, gateVars, settled, index>>

FoundKnown(c) ==
    /\ inFlight[Key(c)] = None
    /\ Known(Key(c)) # None
    /\ IF live[Key(c)] = None THEN Remember(Key(c), Known(Key(c))) ELSE UNCHANGED settled
    /\ AnswerKnown(c, Known(Key(c)))
    /\ LeaveGates(c)
    /\ UNCHANGED index

FoundNothing(c, l) ==
    /\ inFlight[Key(c)] = None
    /\ Known(Key(c)) = None
    /\ Goto(c, l)
    /\ Await(c, 1)
    /\ UNCHANGED <<reply, entry, gateVars, settled>>

Check(c) ==
    /\ \/ pc[c] = "key" /\ HoldsKey(c) /\ FoundNothing(c, "lookup")
       \/ pc[c] = "session" /\ HoldsSession(c) /\ FoundNothing(c, "recheck")
       \/ pc[c] = "key" /\ HoldsKey(c) /\ FoundInFlight(c)
       \/ pc[c] = "key" /\ HoldsKey(c) /\ FoundKnown(c)
       \/ pc[c] = "session" /\ HoldsSession(c) /\ FoundKnown(c)
    /\ UNCHANGED <<inFlight, final, live, seqNo, seqOf, storeVars, worldVars>>

\* The final of the call in flight answers everyone who awaits it.
AwaitFinal(c) ==
    /\ pc[c] = "final"
    /\ final[entry[c]] # None
    /\ AnswerKnown(c, final[entry[c]])
    /\ LeaveGates(c)
    /\ UNCHANGED <<tableVars, index, storeVars, worldVars>>

LookingUp(c) == pc[c] \in {"lookup", "recheck"}
FoundAt(c) == Sources[source[c]] \in IndexOf(c).facts[Key(c)]

LookupFinds(c) ==
    /\ LookingUp(c)
    /\ IndexOf(c).state = "ready"
    /\ FoundAt(c)
    /\ AnswerKnown(c, IF source[c] = 2 THEN "failed" ELSE "accepted")
    /\ LeaveGates(c)
    /\ UNCHANGED <<tableVars, index, storeVars, worldVars>>

LookupNext(c) ==
    /\ LookingUp(c)
    /\ IndexOf(c).state = "ready"
    /\ ~FoundAt(c)
    /\ source[c] = 1
    /\ Await(c, 2)
    /\ UNCHANGED <<pc, reply, entry, gateVars, tableVars, storeVars, worldVars>>

\* queryUnavailableAck
LookupFails(c) ==
    /\ LookingUp(c)
    /\ IndexOf(c).state = "failed"
    /\ Answer(c, "unavailable")
    /\ LeaveGates(c)
    /\ UNCHANGED <<tableVars, index, storeVars, worldVars>>

NotFound(c, l) ==
    /\ pc[c] = l
    /\ IndexOf(c).state = "ready"
    /\ ~FoundAt(c)
    /\ source[c] = 2

QueryUnknown(c) ==
    /\ c \in Query
    /\ NotFound(c, "lookup")
    /\ Answer(c, "unknown")
    /\ LeaveGates(c)
    /\ UNCHANGED <<tableVars, index, storeVars, worldVars>>

\* The key's gate is kept while the call waits for the session's.
AwaitSession(c) ==
    /\ c \notin Query
    /\ NotFound(c, "lookup")
    /\ Goto(c, "session")
    /\ sessionGate' = Append(sessionGate, c)
    /\ view' = [view EXCEPT ![c] = "idle"]
    /\ own' = [own EXCEPT ![c] = Absent]
    /\ UNCHANGED <<reply, entry, source, keyGate, tableVars, index, storeVars, worldVars>>

\* decide: an unknown session, a stale revision or a guard refuses the
\* command; the refusal is not remembered.
Reject(c) ==
    /\ NotFound(c, "recheck")
    /\ Answer(c, "rejected")
    /\ LeaveGates(c)
    /\ UNCHANGED <<tableVars, index, storeVars, worldVars>>

\* decide: nothing to do, which is remembered.
Noop(c) ==
    /\ session # "absent"
    /\ Key(c) \notin Input
    /\ NotFound(c, "recheck")
    /\ Remember(Key(c), "noop")
    /\ Answer(c, "noop")
    /\ LeaveGates(c)
    /\ UNCHANGED <<inFlight, final, live, seqNo, seqOf, index, storeVars, worldVars>>

\* Mutant: opens the session's gate when handle returns.
AdmitOpensGate(c) ==
    /\ session # "absent"
    /\ NotFound(c, "recheck")
    /\ Goto(c, "admit")
    /\ seqNo' = seqNo + 1
    /\ seqOf' = [seqOf EXCEPT ![Key(c)] = seqNo + 1]
    /\ inFlight' = [inFlight EXCEPT ![Key(c)] = c]
    /\ LeaveGates(c)
    /\ view' = [view EXCEPT ![c] = "idle"]
    /\ own' = [own EXCEPT ![c] = Absent]
    /\ source' = [source EXCEPT ![c] = 1]
    /\ UNCHANGED <<reply, entry, final, live, settled, index, storeVars, worldVars>>

\* decide: the command is executed.  It is pinned before its gate opens; the
\* session's gate stays closed until it settles.
Admit(c) ==
    /\ session # "absent"
    /\ NotFound(c, "recheck")
    /\ Goto(c, "admit")
    /\ seqNo' = seqNo + 1
    /\ seqOf' = [seqOf EXCEPT ![Key(c)] = seqNo + 1]
    /\ inFlight' = [inFlight EXCEPT ![Key(c)] = c]
    /\ LeaveKeyGate(c)
    /\ view' = [view EXCEPT ![c] = "idle"]
    /\ own' = [own EXCEPT ![c] = Absent]
    /\ source' = [source EXCEPT ![c] = 1]
    /\ UNCHANGED <<reply, entry, sessionGate, final, live, settled, index, storeVars, worldVars>>

-----------------------------------------------------------------------------
(* handleCommand                                                            *)

\* admitCommandInput writes the row; a row that is there keeps its status.
\* pinLiveInput then pins the input, and forgets how it had settled.
AdmitInput(c) ==
    /\ pc[c] = "admit"
    /\ Key(c) \in Input
    /\ ledger' = [ledger EXCEPT ![Key(c)] = IF @ = "none" THEN "admitted" ELSE @]
    /\ live' = [live EXCEPT ![Key(c)] = "accepted"]
    /\ settled' = Unsettled(Key(c))
    /\ Goto(c, "execute")
    /\ UNCHANGED <<reply, entry, source, view, own, gateVars, inFlight, final, seqNo, seqOf,
                   index, markers, worldVars>>

AdmitNoInput(c) ==
    /\ pc[c] = "admit"
    /\ Key(c) \notin Input
    /\ Goto(c, "execute")
    /\ UNCHANGED <<reply, entry, source, view, own, gateVars, tableVars, index, storeVars, worldVars>>

\* The projection would grow too large, or the row is not written.
AdmitFails(c) ==
    /\ pc[c] = "admit"
    /\ Goto(c, "fail")
    /\ UNCHANGED <<reply, entry, source, view, own, gateVars, tableVars, index, storeVars, worldVars>>

\* executeCommand starts the turn, queues the input or starts the compaction.
Execute(c) ==
    /\ pc[c] = "execute"
    /\ held' = [held EXCEPT ![Key(c)] = IF Key(c) \in Input THEN "yes" ELSE "no"]
    /\ Goto(c, "succeed")
    /\ UNCHANGED <<reply, entry, source, view, own, gateVars, tableVars, index, storeVars,
                   session, effects, restarts, asks>>

ExecuteFails(c) ==
    /\ pc[c] = "execute"
    /\ Goto(c, IF Key(c) \in Input THEN "cancel" ELSE "fail")
    /\ UNCHANGED <<reply, entry, source, view, own, gateVars, tableVars, index, storeVars, worldVars>>

\* cancelDurableInput; that it fails is only reported.
CancelInput(c) ==
    /\ pc[c] = "cancel"
    /\ \/ ledger' = [ledger EXCEPT ![Key(c)] = IF @ = "admitted" THEN "cancelled" ELSE @]
       \/ UNCHANGED ledger
    /\ Goto(c, "fail")
    /\ UNCHANGED <<reply, entry, source, view, own, gateVars, tableVars, index, markers, worldVars>>

\* Mutant: opens the session's gate as soon as it has answered.
SettleOutsideGate(c, ack) ==
    /\ Answer(c, ack)
    /\ final' = [final EXCEPT ![c] = ack]
    /\ inFlight' = [inFlight EXCEPT ![Key(c)] = None]
    /\ UNCHANGED gateVars

\* settle: the entry goes, and with the final its waiters and the gate.
Settle(c, ack) ==
    /\ Answer(c, ack)
    /\ final' = [final EXCEPT ![c] = ack]
    /\ inFlight' = [inFlight EXCEPT ![Key(c)] = None]
    /\ LeaveGates(c)

\* Mutant: a live input settles like any other command.
SucceedUnpins(c) ==
    /\ pc[c] = "succeed"
    /\ Settle(c, "accepted")
    /\ live' = [live EXCEPT ![Key(c)] = None]
    /\ Remember(Key(c), "accepted")
    /\ UNCHANGED <<seqNo, seqOf, index, storeVars, worldVars>>

\* The executor finds nothing to do.  Of an input no handler says so: they do of
\* a queue item that is gone, an unchanged setting and a stopped turn.
ExecuteNoop(c) ==
    /\ pc[c] = "execute"
    /\ Key(c) \notin Input
    /\ Settle(c, "noop")
    /\ Remember(Key(c), "noop")
    /\ UNCHANGED <<live, seqNo, seqOf, index, storeVars, worldVars>>

Succeed(c) ==
    /\ pc[c] = "succeed"
    /\ Settle(c, "accepted")
    /\ IF live[Key(c)] # None
       THEN live' = [live EXCEPT ![Key(c)] = "accepted"] /\ UNCHANGED settled
       ELSE Remember(Key(c), "accepted") /\ UNCHANGED live
    /\ UNCHANGED <<seqNo, seqOf, index, storeVars, worldVars>>

\* releaseDurableInput unpins the input with the failure; then settle.
Fail(c) ==
    /\ pc[c] = "fail"
    /\ Settle(c, "failed")
    /\ live' = [live EXCEPT ![Key(c)] = None]
    /\ Remember(Key(c), "failed")
    /\ UNCHANGED <<seqNo, seqOf, index, storeVars, worldVars>>

-----------------------------------------------------------------------------
(* The runtime and its events                                               *)

\* releaseLiveInput without a final of its own.
Release(k) ==
    /\ live' = [live EXCEPT ![k] = None]
    /\ IF live[k] # None THEN Remember(k, live[k]) ELSE UNCHANGED settled

\* The message enters the transcript and the row is promoted with it.
Promote(k) ==
    /\ held[k] = "yes"
    /\ k \in Text
    /\ ledger' = [ledger EXCEPT ![k] = "promoted"]
    /\ effects' = [effects EXCEPT ![k] = @ + 1]
    /\ held' = [held EXCEPT ![k] = "promoted"]
    /\ UNCHANGED <<callVars, gateVars, tableVars, index, markers, session, restarts, asks>>

\* The user removes it from the queue.
RemoveQueued(k) ==
    /\ held[k] = "yes"
    /\ ledger' = [ledger EXCEPT ![k] = IF @ = "admitted" THEN "cancelled" ELSE @]
    /\ held' = [held EXCEPT ![k] = "removed"]
    /\ UNCHANGED <<callVars, gateVars, tableVars, index, markers, session, effects, restarts, asks>>

\* Mutant: leaves the index as it is.
IngestOverStaleIndex(k) ==
    /\ held[k] \in {"promoted", "removed"}
    /\ held' = [held EXCEPT ![k] = "no"]
    /\ Release(k)
    /\ UNCHANGED <<callVars, index, gateVars, inFlight, final, seqNo, seqOf,
                   storeVars, session, effects, restarts, asks>>

\* SessionInputPromoted or TurnSteerDiscarded reaches the gateway: the index
\* may be older than the row, so it is dropped before the pin.
Ingest(k) ==
    /\ held[k] \in {"promoted", "removed"}
    /\ held' = [held EXCEPT ![k] = "no"]
    /\ Invalidate
    /\ Release(k)
    /\ UNCHANGED <<pc, reply, entry, source, gateVars, inFlight, final, seqNo, seqOf,
                   storeVars, session, effects, restarts, asks>>

\* The compaction ends and its fact is saved, unless that fails.
EndCompact(k) ==
    /\ held[k] = "yes"
    /\ k \in Compact
    /\ effects' = [effects EXCEPT ![k] = @ + 1]
    /\ \/ /\ markers' = markers \cup {k}
          /\ held' = [held EXCEPT ![k] = "recording"]
          /\ index' = Ensured
       \/ /\ held' = [held EXCEPT ![k] = "no"]
          /\ UNCHANGED <<markers, index>>
    /\ UNCHANGED <<callVars, gateVars, tableVars, ledger, session, restarts, asks>>

\* record adds the fact to the index; an index dropped meanwhile has no
\* readers to come, and the next one finds the fact in the store.
RecordFact(k) ==
    /\ held[k] = "recording"
    /\ \/ /\ index.state = "ready"
          /\ index' = [index EXCEPT !.facts[k] = @ \cup {"accepted"}]
       \/ /\ index.state = "absent"
          /\ UNCHANGED index
    /\ held' = [held EXCEPT ![k] = "no"]
    /\ UNCHANGED <<callVars, gateVars, tableVars, storeVars, session, effects, restarts, asks>>

-----------------------------------------------------------------------------
(* The session's runtime is unloaded, and loaded again                      *)

Pinned(k) == inFlight[k] # None \/ live[k] # None

\* Mutant: clears what is not pinned, and the counter with it.
DeactivateLive ==
    /\ session = "loaded"
    /\ \A k \in Command : inFlight[k] = None
    /\ session' = "absent"
    /\ settled' = <<>>
    /\ seqNo' = 0
    /\ UNCHANGED <<callVars, gateVars, inFlight, final, live, seqOf, index, storeVars,
                   held, effects, restarts, asks>>

\* deactivateSession of a session without work: clearSession.  The index of
\* durable facts is left as it is.
Deactivate ==
    /\ session = "loaded"
    /\ \A k \in Command : ~Pinned(k) /\ held[k] = "no"
    /\ session' = "absent"
    /\ settled' = <<>>
    /\ seqNo' = 0
    /\ UNCHANGED <<callVars, gateVars, inFlight, final, live, seqOf, index, storeVars,
                   held, effects, restarts, asks>>

\* The session is registered first; then its left-over rows are discarded,
\* unless that fails.
Resume ==
    /\ session = "absent"
    /\ session' = "resuming"
    /\ UNCHANGED <<callVars, gateVars, tableVars, index, storeVars, held, effects, restarts, asks>>

SweepOnResume ==
    /\ session = "resuming"
    /\ session' = "loaded"
    /\ ledger' \in {ledger, Swept("yes")}
    /\ UNCHANGED <<callVars, gateVars, tableVars, index, markers, held, effects, restarts, asks>>

\* The process ends and another begins: the ledger and the facts are left.
Restart ==
    /\ restarts < MaxRestarts
    /\ restarts' = restarts + 1
    /\ pc' = [c \in Call |-> IF pc[c] \in {"new", "done"} THEN pc[c] ELSE "lost"]
    /\ entry' = [c \in Call |-> None]
    /\ source' = [c \in Call |-> 1]
    /\ view' = [c \in Call |-> "idle"]
    /\ own' = [c \in Call |-> Absent]
    /\ keyGate' = [k \in Command |-> <<>>]
    /\ sessionGate' = <<>>
    /\ inFlight' = [k \in Command |-> None]
    /\ live' = [k \in Command |-> None]
    /\ settled' = <<>>
    /\ seqNo' = 0
    /\ index' = Absent
    /\ session' = "absent"
    /\ held' = [k \in Command |-> "no"]
    /\ UNCHANGED <<reply, final, seqOf, storeVars, effects, asks>>

-----------------------------------------------------------------------------
Look(c) == LookupFinds(c) \/ LookupNext(c) \/ LookupFails(c) \/ QueryUnknown(c) \/ AwaitSession(c)
Decide(c) == Reject(c) \/ Noop(c) \/ Admit(c)
AdmitCommand(c) == AdmitInput(c) \/ AdmitNoInput(c) \/ AdmitFails(c)
RunCommand(c) == Execute(c) \/ ExecuteFails(c) \/ ExecuteNoop(c)
Reading == Load \/ LoadFails

\* The next step of a call that has come in; there is one at a time.
Serve(c) ==
    \/ Check(c) \/ AwaitFinal(c) \/ Look(c) \/ Decide(c) \/ AdmitCommand(c) \/ RunCommand(c)
    \/ CancelInput(c) \/ Succeed(c) \/ Fail(c) \/ LoadOwn(c)

Next ==
    \/ \E c \in Call : Arrive(c) \/ Serve(c)
    \/ Reading
    \/ \E k \in Command : Promote(k) \/ RemoveQueued(k) \/ Ingest(k) \/ EndCompact(k) \/ RecordFact(k)
    \/ Deactivate \/ Resume \/ SweepOnResume \/ Restart

Spec == Init /\ [][Next]_vars

-----------------------------------------------------------------------------
(* Properties                                                               *)

Executing(c) == pc[c] \in {"admit", "execute", "cancel", "fail", "succeed"}

\* The commands of a session are executed one after the other, whoever calls
\* and however often: the gate a call passes is held until it has settled, and
\* the inbox knows it as the one in flight.
OneExecutes ==
    \A c, d \in Call :
        Executing(c) => /\ inFlight[Key(c)] = c
                        /\ Executing(d) => c = d

\* While the runtime has an input, or an event about it is on its way, the
\* inbox has it pinned: no other command's settling, no unloading and no retry
\* makes it forget the input.
PinnedWhileHeld ==
    \A k \in Input : held[k] \in {"yes", "promoted", "removed"} =>
        live[k] = "accepted" /\ session # "absent"

\* An input enters the transcript at most once, whatever is retried after a
\* lost reply, settled commands that have been evicted, an unloaded session or
\* a restart.
EffectsOnce == \A k \in Text : effects[k] <= 1

Taken(k) ==
    \/ \E d \in Call : Key(d) = k /\ (final[d] = "accepted" \/ reply[d] = "noop")
    \/ ledger[k] = "promoted"
    \/ k \in markers

\* Only a command that has been carried out, or found done, is answered as a
\* duplicate: a retry never takes for accepted what has failed.
DuplicateIsTaken == \A c \in Call : reply[c] = "duplicate" => Taken(Key(c))

\* The numbers that order the live inputs of a session are never given twice,
\* also not after the counter has started again.
LiveOrder ==
    \A k, m \in Input : live[k] # None /\ live[m] # None /\ seqOf[k] = seqOf[m] => k = m

\* A query answers unknown only of a command that nobody executes, that is no
\* live input and that has not taken effect.
UnknownIsUnknown ==
    [][\A q \in Query : reply'[q] = "unknown" /\ reply[q] # "unknown" =>
        ~Pinned(Key(q)) /\ (Key(q) \in Text => effects[Key(q)] = 0)]_vars

\* Waiting for a gate, a final or the store never becomes a deadlock: while a
\* call is unanswered, one of them can go on without anyone else's help.
NobodyStuck ==
    (\E c \in Call : pc[c] \notin {"new", "done", "lost"}) =>
        ENABLED (Reading \/ \E c \in Call : Serve(c))

\* v4-gateway.ts:1011: a cancelled input must not become unknown and be executed
\* again under the same command id.
CancelledStaysCancelled ==
    [][\A k \in Command : ledger[k] = "cancelled" => inFlight[k] # None \/ inFlight'[k] = None]_vars
=============================================================================
