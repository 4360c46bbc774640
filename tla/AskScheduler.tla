---------------------------- MODULE AskScheduler ----------------------------
(***************************************************************************)
(* One run of a dynamic workflow: the asks its script makes of subagents,  *)
(* the scheduler that admits and dispatches them (AskScheduler), the       *)
(* journal that outlives the process, and the gate that gives a resumed    *)
(* script its recorded answers in the order of its first life              *)
(* (ReplaySettleOrder).                                                    *)
(*                                                                         *)
(* The script is deterministic and runs in a child process.  Its branches  *)
(* start together, each makes its asks one after the other, and one whose  *)
(* ask failed makes no more.  Requests and answers travel in order, so a   *)
(* branch continues when the child reads its answer.  An ask's instance is *)
(* its site and the count of earlier asks of that site; its caller stands  *)
(* for the hash of its input.  One action is what runs between two awaits, *)
(* with the microtasks it queues.                                          *)
(***************************************************************************)
EXTENDS Selections, SequencesExt

CONSTANTS
    ActorOrder,     \* the actors, as the script creates them
    Scripts,        \* what the script may be: each branch's asks, as records of a site
                    \* and an actor, and the branches it awaits before it returns
    Caps,           \* the values of maxConcurrency; the first run has Max(Caps)
    MaxLives,       \* bound on the engines: a run, and its resumptions
    StopsIn,        \* bound on the stops: the lives that may be stopped
    None

ASSUME AskSchedulerAssumption ==
    /\ Caps \subseteq Nat \ {0} /\ Caps # {} /\ IsFiniteSet(Caps)
    /\ MaxLives \in Nat \ {0}
    /\ StopsIn \subseteq Nat

Actor == ToSet(ActorOrder)
CallersOf(q) ==
    UNION { {[branch |-> b, index |-> i] : i \in DOMAIN q.asks[b]} : b \in DOMAIN q.asks }
Caller == UNION { CallersOf(q) : q \in Scripts }
Site   == UNION { {q.asks[c.branch][c.index].site : c \in CallersOf(q)} : q \in Scripts }
Instance == Site \X (Nat \ {0})

\* The branches are numbered as they start; a branch makes an ask; an actor is created once.
ASSUME ScriptsAssumption ==
    /\ \A q \in Scripts :
         /\ DOMAIN q.asks = 1..Len(q.asks) /\ Len(q.asks) \in Nat
         /\ \A b \in DOMAIN q.asks : DOMAIN q.asks[b] = 1..Len(q.asks[b]) /\ Len(q.asks[b]) \in Nat \ {0}
         /\ \A c \in CallersOf(q) : q.asks[c.branch][c.index].actor \in Actor
         /\ q.awaited \subseteq DOMAIN q.asks
    /\ ActorOrder \in Seq(Actor) /\ IsInjective(ActorOrder)
    /\ None \notin Instance

VARIABLES
    script,         \* what the script is; it does not change
    run,            \* dwf_run.status; "dead" when the process died in it
    rows,           \* the journal's row of each ask
    events,         \* the asks with a node-settled event in the journal, by their first
    cap,            \* caps.maxConcurrency
    life,           \* the engine's number
    recorded,       \* each actor's rows when the engine was made
    nextAdmitSeq,
    pendingRecorded,\* each actor's recorded asks that wait for their turn
    pendingLive,    \* each actor's new asks that wait for the recorded ones
    liveQueue,      \* each actor's admitted asks
    current,        \* each actor's ask at work
    session,        \* each actor's session
    liveNodes,      \* the admitted asks that have not settled, oldest first
    activeAsks,
    ordinals,       \* the asks made of each site
    order,          \* the gate: the recorded settle order,
    cursor,         \* how many of it are released,
    parked,         \* and those that wait for their turn
    calls,          \* the asks each branch has made
    answers,        \* what the script has been answered in this life
    read,           \* how many of those answers the child has read
    heard,          \* history: the longest such sequence of any life
    overtaken       \* history: did an ask settle before the recorded answers were read?

journalVars == <<run, rows, events, cap, life>>
actorVars   == <<recorded, nextAdmitSeq, pendingRecorded, pendingLive>>
workVars    == <<liveQueue, current, session, liveNodes, activeAsks>>
gateVars    == <<order, cursor, parked>>
scriptVars  == <<ordinals, calls, answers, read, heard>>
vars == <<journalVars, actorVars, workVars, gateVars, scriptVars, overtaken, script>>

Branch == DOMAIN script.asks
Wants(c) == script.asks[c.branch][c.index]
Settled(x) == rows[x].status \in {"ok", "failed"}
Busy == { a \in Actor : current[a] # None }

\* Mutant: of an ask's settle events the last one counts.
LoggedLast(xs) == Without(events, ToSet(xs)) \o xs

\* The journal gets a node-settled event of each ask of xs.  A later event of the
\* same ask is nothing that recoverSettleOrder reads.
Logged(xs) == events \o Without(xs, ToSet(events))

\* recoverSettleOrder: the asks that will be answered from the journal.
RecordedOrder == Among(events, { x \in DOMAIN rows : Settled(x) })

\* A new engine, for which actor a has known[a] rows and the gate the order o.
Engine(known, o) ==
    /\ recorded' = known
    /\ nextAdmitSeq' = [a \in Actor |-> 0]
    /\ pendingRecorded' = [a \in Actor |-> {}]
    /\ pendingLive' = [a \in Actor |-> <<>>]
    /\ liveQueue' = [a \in Actor |-> <<>>]
    /\ current' = [a \in Actor |-> None]
    /\ session' = [a \in Actor |-> "none"]
    /\ liveNodes' = <<>> /\ activeAsks' = 0
    /\ order' = o /\ cursor' = 0 /\ parked' = {}
    /\ ordinals' = [s \in Site |-> 0]
    /\ calls' = [b \in Branch |-> 0]
    /\ answers' = <<>> /\ read' = 0

Init ==
    /\ script \in Scripts
    /\ run = "running" /\ rows = <<>> /\ events = <<>>
    /\ cap = Largest(Caps) /\ life = 1
    /\ recorded = [a \in Actor |-> 0]
    /\ nextAdmitSeq = [a \in Actor |-> 0]
    /\ pendingRecorded = [a \in Actor |-> {}]
    /\ pendingLive = [a \in Actor |-> <<>>]
    /\ liveQueue = [a \in Actor |-> <<>>]
    /\ current = [a \in Actor |-> None]
    /\ session = [a \in Actor |-> "none"]
    /\ liveNodes = <<>> /\ activeAsks = 0
    /\ order = <<>> /\ cursor = 0 /\ parked = {}
    /\ ordinals = [s \in Site |-> 0]
    /\ calls = [b \in Branch |-> 0]
    /\ answers = <<>> /\ read = 0 /\ heard = <<>>
    /\ overtaken = "no"

-----------------------------------------------------------------------------
(* What the handlers share. *)

\* The actors of scan, in this order, that pumpActor gives an ask when the queues are
\* queue, the asks at work work, used of them count and the cap is limit.
Chosen(scan, queue, work, used, limit) ==
    LET idle == Among(scan, { a \in Actor : work[a] = None /\ queue[a] # <<>> })
        free == IF used < limit THEN limit - used ELSE 0
    IN  { idle[i] : i \in { j \in DOMAIN idle : j <= free } }

\* pumpActor for the actors of scan, one after the other.
Pump(scan, queue, work, used, limit) ==
    LET start == Chosen(scan, queue, work, used, limit)
    IN  /\ liveQueue' = [a \in Actor |-> IF a \in start THEN Tail(queue[a]) ELSE queue[a]]
        /\ current' = [a \in Actor |-> IF a \in start THEN Head(queue[a]) ELSE work[a]]
        /\ activeAsks' = used + Cardinality(start)

\* The script is given the answers of news, each after its event.
Answer(news) ==
    /\ answers' = answers \o news
    /\ events' = Logged([i \in DOMAIN news |-> news[i].inst])
    /\ heard' = IF Len(answers') > Len(heard) THEN answers' ELSE heard

\* Mutant: recorded answers are given when they are admitted.
HoldNothing(hits) ==
    /\ UNCHANGED <<cursor, parked>>
    /\ Answer([i \in DOMAIN hits |-> [inst |-> hits[i], outcome |-> rows[hits[i]].status]])

\* Mutant: the gate releases the one whose turn it is and does not look for the next.
HoldOne(hits) ==
    LET all == parked \cup ToSet(hits)
        out == Among(hits, { order[i] : i \in { j \in DOMAIN order : j = cursor + 1 } })
    IN  /\ cursor' = cursor + Len(out)
        /\ parked' = all \ ToSet(out)
        /\ Answer([i \in DOMAIN out |-> [inst |-> out[i], outcome |-> rows[out[i]].status]])

\* holdForReplay for the settled asks of hits, in this order.
Hold(hits) ==
    LET ruled  == { order[i] : i \in { j \in DOMAIN order : j > cursor } }
        direct == Without(hits, ruled)
        all    == parked \cup (ToSet(hits) \cap ruled)
        upto   == Largest({ n \in cursor..Len(order) :
                              \A i \in (cursor + 1)..n : order[i] \in all })
        out    == direct \o SubSeq(order, cursor + 1, upto)
    IN  /\ cursor' = upto
        /\ parked' = all \ ToSet(out)
        /\ Answer([i \in DOMAIN out |-> [inst |-> out[i], outcome |-> rows[out[i]].status]])

\* Mutant: abortInFlight leaves its nodes live.
EndKeepsNodes(outcome) ==
    /\ run' = outcome
    /\ events' = Logged(Among(order, parked) \o liveNodes)
    /\ activeAsks' = 0 /\ cursor' = Len(order) /\ parked' = {}
    /\ UNCHANGED liveNodes

\* markSettled, abortInFlight, finishRun.
End(outcome) ==
    LET cached == Among(order, parked)
    IN  /\ run' = outcome
        /\ events' = Logged(cached \o IF outcome = "errored" THEN <<>> ELSE liveNodes)
        /\ liveNodes' = <<>> /\ activeAsks' = 0
        /\ cursor' = Len(order) /\ parked' = {}

-----------------------------------------------------------------------------
(* The script asks. *)

\* How far the recorded asks of held let actor a's admission go.
Reach(a, held) ==
    Largest({ n \in nextAdmitSeq[a]..(nextAdmitSeq[a] + Cardinality(held)) :
                \A k \in nextAdmitSeq[a]..(n - 1) : \E x \in held : rows[x].seq = k })

\* Mutant: a new ask does not wait for the recorded ones.
NewAtOnce(a, n) == TRUE

\* Have n admissions covered the rows that actor a had when the engine was made?
RecordedFirst(a, n) == n >= recorded[a]

\* The recorded asks of held whose turn has come, by their number.
Due(a, held) ==
    [i \in 1..(Reach(a, held) - nextAdmitSeq[a]) |->
        CHOOSE x \in held : rows[x].seq = nextAdmitSeq[a] + i - 1]

\* drainAdmission, then the pump over scan: recorded asks by their number, then,
\* when all rows of the actor have been asked for again, the new ones.
Drain(a, held, waiting, scan) ==
    LET reach == Reach(a, held)
        due   == Due(a, held)
        new   == IF RecordedFirst(a, reach) THEN waiting ELSE <<>>
        born  == [i \in DOMAIN new |-> new[i].inst]
        row(i) == [caller |-> new[i].caller, actor |-> a, seq |-> reach + i - 1,
                   status |-> "running"]
        done  == { x \in held : Settled(x) }
        rerun == Without(due, done) \o born
    IN  /\ pendingRecorded' = [pendingRecorded EXCEPT ![a] = held \ ToSet(due)]
        /\ pendingLive' = [pendingLive EXCEPT ![a] = IF new = <<>> THEN waiting ELSE <<>>]
        /\ nextAdmitSeq' = [nextAdmitSeq EXCEPT ![a] = reach + Len(new)]
        /\ rows' = [x \in DOMAIN rows \cup ToSet(born) |->
                      IF x \in DOMAIN rows THEN rows[x]
                      ELSE row(CHOOSE i \in DOMAIN new : new[i].inst = x)]
        /\ liveNodes' = liveNodes \o rerun
        /\ Hold(Among(due, done))
        /\ Pump(scan, [liveQueue EXCEPT ![a] = @ \o rerun], current, activeAsks, cap)

\* admitAsk of an instance the journal does not know.
AdmitNew(x, c) ==
    LET a == Wants(c).actor
    IN  /\ x \notin DOMAIN rows
        /\ Drain(a, pendingRecorded[a],
                 Append(pendingLive[a], [inst |-> x, caller |-> c]), ActorOrder)
        /\ UNCHANGED run

\* admitAsk of a recorded instance.
AdmitRecorded(x, c) ==
    LET a == Wants(c).actor
    IN  /\ x \in DOMAIN rows /\ rows[x].caller = c
        /\ Drain(a, pendingRecorded[a] \cup {x}, pendingLive[a], <<a>>)
        /\ UNCHANGED run

\* admitAsk of an instance that was recorded for another input.
InputHashMismatch(x, c) ==
    /\ x \in DOMAIN rows /\ rows[x].caller # c
    /\ End("errored")
    /\ UNCHANGED <<rows, pendingRecorded, pendingLive, nextAdmitSeq, liveQueue, current,
                   answers, heard>>

\* The next ask of branch b arrives.
Ask(b) ==
    LET c == [branch |-> b, index |-> calls[b] + 1]
        s == Wants(c).site
        x == <<s, ordinals[s] + 1>>
    IN  /\ calls' = [calls EXCEPT ![b] = @ + 1]
        /\ ordinals' = [ordinals EXCEPT ![s] = @ + 1]
        /\ AdmitNew(x, c) \/ AdmitRecorded(x, c) \/ InputHashMismatch(x, c)
        /\ UNCHANGED <<cap, life, recorded, session, order>>

Started == \A b \in Branch : calls[b] > 0

\* The script runs up to its first awaits.
StartBranch(b) ==
    /\ run = "running"
    /\ calls[b] = 0 /\ \A e \in 1..(b - 1) : calls[e] > 0
    /\ Ask(b)
    /\ UNCHANGED <<read, overtaken, script>>

\* The child reads an answer and the branch that awaits it continues.
ReadAnswer ==
    /\ run = "running" /\ Started
    /\ read < Len(answers)
    /\ read' = read + 1
    /\ LET got == answers[read + 1]
           b   == rows[got.inst].caller.branch
       IN  IF got.outcome = "ok" /\ calls[b] < Len(script.asks[b])
           THEN Ask(b)
           ELSE UNCHANGED <<journalVars, actorVars, workVars, gateVars, ordinals, calls,
                            answers, heard>>
    /\ UNCHANGED <<overtaken, script>>

Done(b) ==
    \E i \in 1..read :
        LET c == rows[answers[i].inst].caller
        IN  c.branch = b /\ (answers[i].outcome = "failed" \/ c.index = Len(script.asks[b]))

\* settleCompleted: the script returned.
Complete ==
    /\ run = "running" /\ Started
    /\ \A b \in script.awaited : Done(b)
    /\ End("completed")
    /\ UNCHANGED <<rows, cap, life, actorVars, liveQueue, current, session, order, scriptVars,
                   overtaken, script>>

-----------------------------------------------------------------------------
(* The asks are worked on. *)

\* The recorded answers have been given again and the script has gone on from them.
Replayed == read >= Len(order)

\* Mutant: a failure is not written to the row.
SettleUnrecorded(a, outcome) ==
    LET x == current[a]
    IN  /\ x \in ToSet(liveNodes)
        /\ overtaken' = IF Replayed THEN overtaken ELSE "yes"
        /\ rows' = [rows EXCEPT ![x].status = IF outcome = "ok" THEN outcome ELSE @]
        /\ Answer(<<[inst |-> x, outcome |-> outcome]>>)
        /\ liveNodes' = Without(liveNodes, {x})
        /\ Pump(ActorOrder, liveQueue, [current EXCEPT ![a] = None], activeAsks - 1, cap)
        /\ UNCHANGED <<run, cap, life, actorVars, gateVars, ordinals, calls, read, script>>

\* settleOk, settleFailed, finishLiveNode.  The row and its event are two writes,
\* with nothing between them that this model interrupts.
Settle(a, outcome) ==
    LET x == current[a]
    IN  /\ x \in ToSet(liveNodes)
        /\ overtaken' = IF Replayed THEN overtaken ELSE "yes"
        /\ rows' = [rows EXCEPT ![x].status = outcome]
        /\ Answer(<<[inst |-> x, outcome |-> outcome]>>)
        /\ liveNodes' = Without(liveNodes, {x})
        /\ Pump(ActorOrder, liveQueue, [current EXCEPT ![a] = None], activeAsks - 1, cap)
        /\ UNCHANGED <<run, cap, life, actorVars, gateVars, ordinals, calls, read, script>>

\* handleSubmitAttempted, handleTurnEnded, failed: the last report of the ask's turn.
TurnEnds(a, outcome) ==
    /\ session[a] = "ready"
    /\ Settle(a, outcome)
    /\ UNCHANGED session

\* ensureSession resolves and dispatch starts the turn; once the run has settled,
\* dispatch returns and nothing changes.
SessionOpens(a) ==
    /\ run = "running"
    /\ current[a] # None /\ session[a] = "none"
    /\ session' = [session EXCEPT ![a] = "ready"]
    /\ UNCHANGED <<journalVars, actorVars, liveQueue, current, liveNodes, activeAsks,
                   gateVars, scriptVars, overtaken, script>>

\* ensureSession rejects, now or, since the actor keeps the promise, once more.
SessionFails(a) ==
    /\ session[a] \in {"none", "broken"}
    /\ Settle(a, "failed")
    /\ session' = [session EXCEPT ![a] = "broken"]

-----------------------------------------------------------------------------
(* The run is stopped, killed, resumed, retuned. *)

\* Mutant: a raise does not rescan the queues.
RetuneOnly(n) ==
    /\ run = "running" /\ n # cap
    /\ cap' = n
    /\ UNCHANGED <<run, rows, events, life, actorVars, workVars, gateVars, scriptVars,
                   overtaken, script>>

\* setMaxConcurrency, which rescans the queues when it raises the cap.
Retune(n) ==
    /\ run = "running" /\ n # cap
    /\ cap' = n
    /\ IF n > cap THEN Pump(ActorOrder, liveQueue, current, activeAsks, n)
                  ELSE UNCHANGED <<liveQueue, current, activeAsks>>
    /\ UNCHANGED <<run, rows, events, life, actorVars, session, liveNodes, gateVars, scriptVars,
                   overtaken, script>>

\* settleStopped: by the user, the model, the provider or the closing application.
Stop ==
    /\ run = "running" /\ life \in StopsIn
    /\ End("stopped")
    /\ UNCHANGED <<rows, cap, life, actorVars, liveQueue, current, session, order, scriptVars,
                   overtaken, script>>

\* The process dies.
Crash ==
    /\ run = "running" /\ life < MaxLives
    /\ run' = "dead"
    /\ Engine([a \in Actor |-> 0], <<>>)
    /\ UNCHANGED <<rows, events, cap, life, heard, overtaken, script>>

\* reconcileOrphanRuns has made a dead run a stopped one; a stopped run is resumed by
\* a new engine, which restores from the journal.
Resume ==
    /\ run \in {"dead", "stopped"} /\ life < MaxLives
    /\ run' = "running" /\ life' = life + 1
    /\ Engine([a \in Actor |-> Cardinality({ x \in DOMAIN rows : rows[x].actor = a })],
              RecordedOrder)
    /\ UNCHANGED <<rows, events, cap, heard, overtaken, script>>

\* What the script, the driver and the engine do by themselves.
Goes ==
    \/ \E b \in Branch : StartBranch(b)
    \/ ReadAnswer
    \/ Complete
    \/ \E a \in Actor : \/ SessionOpens(a)
                        \/ SessionFails(a)
                        \/ \E o \in {"ok", "failed"} : TurnEnds(a, o)

Next ==
    \/ Goes
    \/ \E n \in Caps : Retune(n)
    \/ Stop
    \/ Crash
    \/ Resume

CanGo ==
    run = "running" /\
        \/ ~Started \/ read < Len(answers)
        \/ \A b \in script.awaited : Done(b)
        \/ \E a \in Busy : current[a] \in ToSet(liveNodes)

\* Weak fairness of Goes, and of nothing else: nobody has to stop, kill, resume or
\* retune a run.  CanGo is ENABLED Goes, in a form that TLC evaluates fast.
Fairness == []<>~CanGo \/ []<><<Goes>>_vars

Spec == Init /\ [][Next]_vars /\ Fairness

-----------------------------------------------------------------------------
Row    == [caller : Caller, actor : Actor, seq : Nat, status : {"running", "ok", "failed"}]
News   == [inst : Instance, outcome : {"ok", "failed"}]

JournalTypes ==
    /\ script \in Scripts
    /\ run \in {"running", "dead", "stopped", "completed", "errored"}
    /\ DOMAIN rows \subseteq Instance /\ \A x \in DOMAIN rows : rows[x] \in Row
    /\ events \in Seq(DOMAIN rows)
    /\ cap \in Caps /\ life \in 1..MaxLives

ActorTypes ==
    /\ recorded \in [Actor -> Nat] /\ nextAdmitSeq \in [Actor -> Nat]
    /\ pendingRecorded \in [Actor -> SUBSET DOMAIN rows]
    /\ pendingLive \in [Actor -> Seq([inst : Instance, caller : Caller])]

WorkTypes ==
    /\ liveQueue \in [Actor -> Seq(DOMAIN rows)]
    /\ current \in [Actor -> DOMAIN rows \cup {None}]
    /\ session \in [Actor -> {"none", "ready", "broken"}]
    /\ liveNodes \in Seq(DOMAIN rows) /\ activeAsks \in Nat

GateTypes ==
    order \in Seq(DOMAIN rows) /\ cursor \in 0..Len(order) /\ parked \subseteq ToSet(order)

ScriptTypes ==
    /\ ordinals \in [Site -> Nat] /\ calls \in [Branch -> Nat]
    /\ answers \in Seq(News) /\ heard \in Seq(News) /\ read \in 0..Len(answers)
    /\ overtaken \in {"no", "yes"}

TypeOK == JournalTypes /\ ActorTypes /\ WorkTypes /\ GateTypes /\ ScriptTypes

\* A deterministic script is never told that it has changed: what it asks again after
\* a restart is what the journal has under that instance (scheduler.ts:136).  It may be
\* when an ask has overtaken recorded answers: no gate holds what settles anew.
ReplayMatches == overtaken = "no" => run # "errored"

\* With the same condition: what a resumed script is answered, and in which order, is
\* what it was answered in its earlier lives, as far as those had come
\* (replay-order.ts:11).
ScheduleReplayed ==
    overtaken = "no" => IsPrefix(answers, heard) \/ IsPrefix(heard, answers)

\* What the script was answered stands in the journal, and no life, late report or
\* second dispatch ever changes it.
AnswersKept ==
    [][ /\ \A i \in DOMAIN answers' : rows'[answers'[i].inst].status = answers'[i].outcome
        /\ \A x \in DOMAIN rows : Settled(x) => x \in DOMAIN rows' /\ rows'[x] = rows[x] ]_vars

\* An actor's transcript grows in the order of the admissions of all lives: its asks
\* have distinct numbers, and all before the one at work have settled.
ActorOrderKept ==
    /\ \A x, y \in DOMAIN rows :
          x # y /\ rows[x].actor = rows[y].actor => rows[x].seq # rows[y].seq
    /\ run = "running" => \A a \in Busy : \A x \in DOMAIN rows :
          rows[x].actor = a /\ rows[x].seq < rows[current[a]].seq => Settled(x)

\* No admitted ask waits while its actor is idle and the cap allows one more.
NoIdleActor ==
    run = "running" /\ Cardinality(Busy) < cap =>
        \A a \in Actor \ Busy : liveQueue[a] = <<>>

\* After the end of a run its journal gets no settlement any more, whatever session,
\* turn or gate still reports to that engine.
QuietAfterEnd ==
    [][ (run \in {"stopped", "completed", "errored"}) => rows' = rows /\ events' = events ]_vars

\* A run that goes on comes to its end: no ask waits for ever for its turn in its
\* actor, for the gate, for the cap or for the script.
RunEnds == (run = "running") ~> (run # "running")
=============================================================================
