------------------------- MODULE AskSchedulerProofs -------------------------
(***************************************************************************)
(* AskScheduler, for any scripts, actors, caps and number of lives: its    *)
(* types; what the script was answered stays in the journal; no actor      *)
(* idles; each actor's asks are worked on in the order of their numbers;   *)
(* after the end of a run no report changes its journal.  And, when a run  *)
(* is stopped at most before its last life: every life is told what the    *)
(* lives before it were told, and asks what they asked.                    *)
(***************************************************************************)
EXTENDS AskScheduler, SelectionsProofs

\* The ends of a run; a dead process is none.
Ended == {"stopped", "completed", "errored"}

\* abortInFlight leaves no live node, and what has settled admits none
\* (scheduler.ts:341): this is all that keeps a late turn or session away.
NoneLive == run # "running" => liveNodes = <<>>

\* Nothing settles once no node is live.
LEMMA LateReport ==
    ASSUME NoneLive, NEW a, NEW outcome, Settle(a, outcome)
    PROVE  run = "running" /\ run' = run
<1>1. run' = run /\ current[a] \in ToSet(liveNodes)
  BY DEF Settle
<1>2. ToSet(<<>>) = {}
  BY DEF ToSet
<1> QED BY <1>1, <1>2 DEF NoneLive

\* An ask is admitted by a running engine, or ends the run.
LEMMA Admission ==
    ASSUME NEW b, Ask(b)
    PROVE  run' = run \/ liveNodes' = <<>>
BY DEF Ask, AdmitNew, AdmitRecorded, InputHashMismatch, End

\* A new run has no live node yet.
LEMMA Initially == Init => NoneLive
BY DEF Init, NoneLive

\* Every step that takes a run out of "running" empties the live nodes, and
\* none but a running engine fills them (scheduler.ts:341).
LEMMA NoneLiveKept == NoneLive /\ [Next]_vars => NoneLive'
<1> SUFFICES ASSUME NoneLive, [Next]_vars PROVE NoneLive'
  OBVIOUS
<1>1. ASSUME NEW b \in Branch, StartBranch(b) PROVE NoneLive'
  BY <1>1, Admission DEF StartBranch, NoneLive
<1>2. CASE ReadAnswer
  <2>1. PICK b : Ask(b) \/ UNCHANGED <<journalVars, workVars>>
    BY <1>2 DEF ReadAnswer
  <2> QED BY <2>1, <1>2, Admission DEF ReadAnswer, NoneLive, journalVars, workVars
<1>3. CASE Complete \/ Stop
  BY <1>3 DEF Complete, Stop, End, NoneLive
<1>4. ASSUME NEW a \in Actor, SessionOpens(a) PROVE NoneLive'
  BY <1>4 DEF SessionOpens, NoneLive, journalVars
<1>5. ASSUME NEW a \in Actor, NEW o, TurnEnds(a, o) PROVE NoneLive'
  BY <1>5, LateReport DEF TurnEnds, NoneLive
<1>6. ASSUME NEW a \in Actor, SessionFails(a) PROVE NoneLive'
  BY <1>6, LateReport DEF SessionFails, NoneLive
<1>7. ASSUME NEW n \in Caps, Retune(n) PROVE NoneLive'
  BY <1>7 DEF Retune, NoneLive
<1>8. CASE Crash \/ Resume
  BY <1>8 DEF Crash, Resume, Engine, NoneLive
<1>9. CASE UNCHANGED vars
  BY <1>9 DEF vars, journalVars, workVars, NoneLive
<1> QED BY <1>1, <1>2, <1>3, <1>4, <1>5, <1>6, <1>7, <1>8, <1>9 DEF Next, Goes

\* Of a run that has ended only Resume moves, and it leaves the journal alone.
LEMMA QuietStep ==
    NoneLive /\ [Next]_vars => (run \in Ended => rows' = rows /\ events' = events)
<1> SUFFICES ASSUME NoneLive, [Next]_vars, run \in Ended
             PROVE  rows' = rows /\ events' = events
  OBVIOUS
<1>1. run # "running"
  BY DEF Ended
<1>2. ~Goes
  <2>1. \A b \in Branch : ~StartBranch(b)
    BY <1>1 DEF StartBranch
  <2>2. ~ReadAnswer /\ ~Complete
    BY <1>1 DEF ReadAnswer, Complete
  <2>3. ASSUME NEW a \in Actor PROVE ~SessionOpens(a) /\ ~SessionFails(a)
    BY <1>1, LateReport DEF SessionOpens, SessionFails
  <2>4. ASSUME NEW a \in Actor, NEW o PROVE ~TurnEnds(a, o)
    BY <1>1, LateReport DEF TurnEnds
  <2> QED BY <2>1, <2>2, <2>3, <2>4 DEF Goes
<1>3. CASE Resume
  BY <1>3 DEF Resume
<1>4. CASE UNCHANGED vars
  BY <1>4 DEF vars, journalVars
<1>5. ~Stop /\ ~Crash /\ \A n \in Caps : ~Retune(n)
  BY <1>1 DEF Stop, Crash, Retune
<1> QED BY <1>2, <1>3, <1>4, <1>5 DEF Next

\* A run that has ended has no live node, whatever is still on its way.
THEOREM NoneLiveAfterEnd == Spec => []NoneLive
BY Initially, NoneLiveKept, PTL DEF Spec

\* No session, turn or gate that still reports to a settled run changes its journal.
THEOREM Quiet == Spec => QuietAfterEnd
<1>1. NoneLive /\ [Next]_vars =>
        [(run \in {"stopped", "completed", "errored"}) => rows' = rows /\ events' = events]_vars
  BY QuietStep DEF Ended
<1> QED BY <1>1, NoneLiveAfterEnd, PTL DEF Spec, QuietAfterEnd

-----------------------------------------------------------------------------
(* The pump. *)

\* There are finitely many actors: ActorOrder lists them.
LEMMA ActorsFinite == IsFiniteSet(Actor)
<1>1. ActorOrder \in Seq(Actor)
  BY ScriptsAssumption
<1>2. ActorOrder \in Surjection(1..Len(ActorOrder), Actor) /\ Len(ActorOrder) \in Nat
  BY <1>1 DEF Surjection, Actor, ToSet
<1> QED BY <1>2, FS_NatSurjection DEF ExistsSurjection

\* The queues and the asks at work hold asks of D.
AsksOf(D, queue, work) ==
    queue \in [Actor -> Seq(D)] /\ work \in [Actor -> D \cup {None}]

\* The actors that have an ask at work.
AtWork(work) == { a \in Actor : work[a] # None }

\* The actors of start are idle and have an ask; they are all such actors of scan; scan
\* holds all such actors.
Ready(start, queue, work) == \A a \in start : a \in Actor /\ work[a] = None /\ queue[a] # <<>>
TakesAll(start, scan, queue, work) ==
    \A k \in 1..Len(scan) : work[scan[k]] = None /\ queue[scan[k]] # <<>> => scan[k] \in start
NoneIdles(queue, work) == \A a \in Actor : work[a] = None => queue[a] = <<>>
Scans(scan, queue, work) ==
    \A a \in Actor : work[a] = None /\ queue[a] # <<>> => \E k \in 1..Len(scan) : scan[k] = a

\* The pump chooses idle actors that have an ask, and when the cap has room left it
\* has chosen all of them that it scans.
LEMMA ChosenActors ==
    ASSUME NEW scan \in Seq(Actor), IsInjective(scan), NEW queue, NEW work,
           NEW used \in Nat, NEW limit \in Nat,
           NEW start, start = Chosen(scan, queue, work, used, limit)
    PROVE  /\ Ready(start, queue, work)
           /\ IsFiniteSet(start) /\ Cardinality(start) \in Nat
           /\ used + Cardinality(start) < limit => TakesAll(start, scan, queue, work)
<1> DEFINE ready == { a \in Actor : work[a] = None /\ queue[a] # <<>> }
<1>7. \A k \in 1..Len(scan) : scan[k] \in ready <=> work[scan[k]] = None /\ queue[scan[k]] # <<>>
  OBVIOUS
<1>9. ready \subseteq Actor
  OBVIOUS
<1> DEFINE idle  == Among(scan, ready)
           free  == IF used < limit THEN limit - used ELSE 0
<1>5. start = { idle[i] : i \in { j \in DOMAIN idle : j <= free } }
  BY DEF Chosen
<1> HIDE DEF ready
<1>1. idle \in Seq(Actor) /\ \A i \in 1..Len(idle) : idle[i] \in ready
  BY AmongSelects
<1>2. \A k \in 1..Len(scan) : scan[k] \in ready => \E i \in 1..Len(idle) : idle[i] = scan[k]
  BY AmongSelects
<1>3. \A i, j \in 1..Len(idle) : i < j =>
        \E k, l \in 1..Len(scan) : k < l /\ idle[i] = scan[k] /\ idle[j] = scan[l]
  BY AmongSelects
<1>4. free \in Nat /\ DOMAIN idle = 1..Len(idle) /\ Len(idle) \in Nat
  BY <1>1
<1>8. used < limit => free = limit - used
  OBVIOUS
<1> HIDE DEF idle, free
<1>10. start \subseteq ready
  BY <1>1, <1>4, <1>5
<1>11. IsFiniteSet(start) /\ Cardinality(start) \in Nat
  BY <1>9, <1>10, ActorsFinite, FS_Subset, FS_CardinalityType
<1>12. \A i, j \in 1..Len(idle) : idle[i] = idle[j] => i = j
  <2>1. \A k, l \in 1..Len(scan) : k < l => scan[k] # scan[l]
    BY DEF IsInjective
  <2>2. \A i, j \in 1..Len(idle) : i < j => idle[i] # idle[j]
    BY <1>3, <2>1
  <2> QED BY <2>2, <1>4
<1>13. ASSUME used + Cardinality(start) < limit, NEW k \in 1..Len(scan), scan[k] \in ready
       PROVE  scan[k] \in start
  <2>1. PICK i \in 1..Len(idle) : idle[i] = scan[k]
    BY <1>2, <1>13
  <2>2. CASE i <= free
    BY <2>1, <2>2, <1>4, <1>5
  <2>3. ASSUME ~(i <= free) PROVE FALSE
    <3> DEFINE f == [m \in 1..free |-> idle[m]]
    <3>1. \A m \in 1..free : m \in 1..Len(idle) /\ idle[m] \in start
      BY <2>1, <2>3, <1>4, <1>5
    <3>2. f \in Injection(1..free, start)
      BY <3>1, <1>12 DEF Injection, IsInjective
    <3>3. Cardinality(1..free) <= Cardinality(start)
      BY <3>2, <1>11, FS_Injection
    <3>4. Cardinality(1..free) = free
      BY <1>4, FS_Interval, SMTT(30)
    <3> QED BY <3>3, <3>4, <1>13, <1>8, <1>11, <1>4
  <2> QED BY <2>2, <2>3
<1> QED BY <1>7, <1>9, <1>10, <1>11, <1>13 DEF ready, Ready, TakesAll

\* The queues and the asks at work once the actors of start have got theirs.
QueueAfter(start, queue) == [a \in Actor |-> IF a \in start THEN Tail(queue[a]) ELSE queue[a]]
WorkAfter(start, queue, work) == [a \in Actor |-> IF a \in start THEN Head(queue[a]) ELSE work[a]]

\* After the pump the count is that of the busy actors, and if the cap has room left
\* no actor idles beside a queue, when the pump scanned those that did.
LEMMA Pumped ==
    ASSUME NEW D, None \notin D,
           NEW queue, NEW work, AsksOf(D, queue, work),
           NEW used \in Nat, used = Cardinality(AtWork(work)),
           NEW limit \in Nat, NEW scan \in Seq(Actor), IsInjective(scan),
           NEW start, start = Chosen(scan, queue, work, used, limit),
           NEW queue2, queue2 = QueueAfter(start, queue),
           NEW work2, work2 = WorkAfter(start, queue, work)
    PROVE  /\ AsksOf(D, queue2, work2)
           /\ used + Cardinality(start) \in Nat
           /\ used + Cardinality(start) = Cardinality(AtWork(work2))
           /\ (/\ used + Cardinality(start) < limit
               /\ used < limit => Scans(scan, queue, work))
              => NoneIdles(queue2, work2)
<1> DEFINE busy == AtWork(work)
<1>a. queue \in [Actor -> Seq(D)] /\ work \in [Actor -> D \cup {None}]
  BY DEF AsksOf
<1>0. used + Cardinality(start) < limit => TakesAll(start, scan, queue, work)
  BY ChosenActors
<1>1. Ready(start, queue, work) /\ IsFiniteSet(start) /\ Cardinality(start) \in Nat
  BY ChosenActors
<1>1a. \A a \in start : a \in Actor /\ work[a] = None /\ queue[a] # <<>>
  BY <1>1 DEF Ready
<1>2. \A a \in start : Head(queue[a]) \in D /\ Tail(queue[a]) \in Seq(D)
  BY <1>1a, <1>a
<1>3. queue2 \in [Actor -> Seq(D)]
  BY <1>2, <1>a DEF QueueAfter
<1>4. work2 \in [Actor -> D \cup {None}]
  BY <1>2, <1>a DEF WorkAfter
<1>5. AtWork(work2) = busy \cup start
  BY <1>1a, <1>2 DEF WorkAfter, AtWork
<1>6. busy \cap start = {}
  BY <1>1a DEF AtWork
<1>7. IsFiniteSet(busy)
  BY ActorsFinite, FS_Subset DEF AtWork
<1>8. Cardinality(busy \cup start) = used + Cardinality(start)
  <2>1. Cardinality(busy \cap start) = 0
    BY <1>6, FS_EmptySet
  <2>2. Cardinality(busy \cup start) = Cardinality(busy) + Cardinality(start) - Cardinality(busy \cap start)
    BY <1>1, <1>7, FS_Union
  <2> QED BY <2>1, <2>2, <1>1
<1>9. ASSUME used + Cardinality(start) < limit,
             used < limit => Scans(scan, queue, work),
             NEW a \in Actor, work2[a] = None
      PROVE  queue2[a] = <<>>
  <2>1. a \notin start
    BY <1>9, <1>2 DEF WorkAfter
  <2>2. work[a] = None /\ queue2[a] = queue[a]
    BY <2>1, <1>9 DEF QueueAfter, WorkAfter
  <2>3. used < limit
    BY <1>9, <1>1
  <2> QED BY <2>1, <2>2, <2>3, <1>9, <1>0 DEF Scans, TakesAll
<1>10. used + Cardinality(start) \in Nat
  BY <1>1
<1>11. used + Cardinality(start) = Cardinality(AtWork(work2))
  BY <1>5, <1>8
<1> QED BY <1>3, <1>4, <1>9, <1>10, <1>11 DEF NoneIdles, AsksOf

-----------------------------------------------------------------------------
(* An actor's asks in line. *)

\* Actor a's queue q and ask at work w, when r are the rows and n is the number of the
\* next admission: the asks in line are a's, they are admitted, they stand in the order
\* of their numbers, the one at work first, and every admitted ask that has not settled
\* is in line.
Line(a, q, w, r, n) ==
    /\ \A i \in 1..Len(q) : r[q[i]].actor = a /\ r[q[i]].seq < n
    /\ \A i, j \in 1..Len(q) : i < j => r[q[i]].seq < r[q[j]].seq
    /\ w # None => /\ r[w].actor = a /\ r[w].seq < n
                   /\ \A i \in 1..Len(q) : r[w].seq < r[q[i]].seq
    /\ \A x \in DOMAIN r : r[x].actor = a /\ r[x].seq < n /\ r[x].status = "running" =>
          x = w \/ \E i \in 1..Len(q) : x = q[i]

\* The first in line goes to work.
LEMMA LineMoves ==
    ASSUME NEW a, NEW r, None \notin DOMAIN r, NEW q \in Seq(DOMAIN r), q # <<>>, NEW n,
           Line(a, q, None, r, n)
    PROVE  Line(a, Tail(q), Head(q), r, n)
<1>1. /\ Len(q) \in Nat /\ Len(q) # 0
      /\ Len(Tail(q)) = Len(q) - 1
      /\ \A i \in 1..Len(Tail(q)) : i \in 1..Len(q) /\ i + 1 \in 1..Len(q) /\ Tail(q)[i] = q[i + 1]
      /\ Head(q) = q[1] /\ 1 \in 1..Len(q)
  OBVIOUS
<1> DEFINE p == Tail(q)  h == Head(q)
<1>2. \A i \in 1..Len(p) : r[p[i]].actor = a /\ r[p[i]].seq < n
  BY <1>1 DEF Line
<1>3. \A i, j \in 1..Len(p) : i < j => r[p[i]].seq < r[p[j]].seq
  <2> SUFFICES ASSUME NEW i \in 1..Len(p), NEW j \in 1..Len(p), i < j
               PROVE  r[p[i]].seq < r[p[j]].seq
    OBVIOUS
  <2>1. i + 1 \in 1..Len(q) /\ j + 1 \in 1..Len(q) /\ i + 1 < j + 1
    BY <1>1
  <2>2. r[q[i + 1]].seq < r[q[j + 1]].seq
    BY <2>1 DEF Line
  <2> QED BY <2>2, <1>1
<1>4. r[h].actor = a /\ r[h].seq < n
  BY <1>1 DEF Line
<1>5. \A i \in 1..Len(p) : r[h].seq < r[p[i]].seq
  <2> SUFFICES ASSUME NEW i \in 1..Len(p) PROVE r[h].seq < r[p[i]].seq
    OBVIOUS
  <2>1. i + 1 \in 1..Len(q) /\ 1 < i + 1 /\ 1 \in 1..Len(q)
    BY <1>1
  <2>2. r[q[1]].seq < r[q[i + 1]].seq
    BY <2>1 DEF Line
  <2> QED BY <2>2, <1>1
<1>6. ASSUME NEW x \in DOMAIN r, r[x].actor = a, r[x].seq < n, r[x].status = "running"
      PROVE  x = h \/ \E i \in 1..Len(p) : x = p[i]
  <2>1. PICK i \in 1..Len(q) : x = q[i]
    BY <1>6 DEF Line
  <2>2. CASE i = 1
    BY <2>1, <2>2, <1>1
  <2>3. CASE i # 1
    <3>1. i - 1 \in 1..Len(p) /\ (i - 1) + 1 = i
      BY <2>3, <1>1
    <3>2. p[i - 1] = q[i]
      BY <3>1, <1>1
    <3> QED BY <3>1, <3>2, <2>1
  <2> QED BY <2>2, <2>3
<1> HIDE DEF p, h
<1>7. Line(a, p, h, r, n)
  BY <1>2, <1>3, <1>4, <1>5, <1>6 DEF Line
<1> QED BY <1>7 DEF p, h

\* An ask at work settles: its line closes up, and no other line changes.
LEMMA LineSettles ==
    ASSUME NEW a, NEW r, NEW q, NEW w, NEW n, NEW x \in DOMAIN r, x # None,
           Line(a, q, w, r, n),
           NEW r2, DOMAIN r2 = DOMAIN r, r2[x].status # "running",
           r2[x].actor = r[x].actor, r2[x].seq = r[x].seq,
           \A y \in DOMAIN r : y # x => r2[y] = r[y],
           \A i \in 1..Len(q) : q[i] \in DOMAIN r, w \in DOMAIN r \cup {None},
           NEW w2, w2 = IF w = x THEN None ELSE w
    PROVE  Line(a, q, w2, r2, n)
<1>1. \A y \in DOMAIN r : r2[y].actor = r[y].actor /\ r2[y].seq = r[y].seq
  OBVIOUS
<1>2. \A y \in DOMAIN r : r2[y].status = "running" => y # x /\ r[y].status = "running"
  OBVIOUS
<1>3. \A i \in 1..Len(q) : r2[q[i]].actor = a /\ r2[q[i]].seq < n
  BY <1>1 DEF Line
<1>4. \A i, j \in 1..Len(q) : i < j => r2[q[i]].seq < r2[q[j]].seq
  BY <1>1 DEF Line
<1>5. w2 # None => /\ r2[w2].actor = a /\ r2[w2].seq < n
                   /\ \A i \in 1..Len(q) : r2[w2].seq < r2[q[i]].seq
  BY <1>1 DEF Line
<1>6. \A y \in DOMAIN r2 : r2[y].actor = a /\ r2[y].seq < n /\ r2[y].status = "running" =>
          y = w2 \/ \E i \in 1..Len(q) : y = q[i]
  BY <1>1, <1>2 DEF Line
<1> QED BY <1>3, <1>4, <1>5, <1>6 DEF Line

\* Asks are admitted: those of actor a join the end of its line in the order of their
\* numbers.
LEMMA LineGrows ==
    ASSUME NEW a, NEW r, NEW q, NEW w, NEW n \in Nat, Line(a, q, w, r, n),
           \A x \in DOMAIN r : r[x].seq \in Nat,
           NEW r2, DOMAIN r \subseteq DOMAIN r2, \A x \in DOMAIN r : r2[x] = r[x],
           \A x \in DOMAIN r2 : r2[x].seq \in Nat,
           q \in Seq(DOMAIN r), w \in DOMAIN r \cup {None},
           NEW more \in Seq(DOMAIN r2), NEW n2 \in Nat, n <= n2,
           \A i \in 1..Len(more) : r2[more[i]].actor = a /\ n <= r2[more[i]].seq
                                                         /\ r2[more[i]].seq < n2,
           \A i, j \in 1..Len(more) : i < j => r2[more[i]].seq < r2[more[j]].seq,
           \A x \in DOMAIN r2 \ DOMAIN r : r2[x].actor = a => n <= r2[x].seq,
           \A x \in DOMAIN r2 : r2[x].actor = a /\ n <= r2[x].seq /\ r2[x].seq < n2
                                                /\ r2[x].status = "running" =>
              \E i \in 1..Len(more) : x = more[i]
    PROVE  Line(a, q \o more, w, r2, n2)
<1> DEFINE p == q \o more  lq == Len(q)  lm == Len(more)
<1>1. /\ lq \in Nat /\ lm \in Nat /\ Len(p) = lq + lm
      /\ \A i \in 1..Len(p) : p[i] = IF i <= lq THEN q[i] ELSE more[i - lq]
  <2>1. q \in Seq(DOMAIN r2)
    BY SeqMonotonic
  <2> QED BY <2>1, ConcatProperties
<1>2. \A i \in 1..lq : q[i] \in DOMAIN r
  OBVIOUS
<1> HIDE DEF p, lq, lm
<1>3. \A i \in 1..Len(p) : /\ i <= lq => i \in 1..lq /\ p[i] = q[i]
                           /\ i > lq  => i - lq \in 1..lm /\ p[i] = more[i - lq]
  <2> SUFFICES ASSUME NEW i \in 1..Len(p)
               PROVE  /\ i <= lq => i \in 1..lq /\ p[i] = q[i]
                      /\ i > lq  => i - lq \in 1..lm /\ p[i] = more[i - lq]
    OBVIOUS
  <2>1. p[i] = IF i <= lq THEN q[i] ELSE more[i - lq]
    BY <1>1
  <2>2. lq \in Nat /\ lm \in Nat /\ i \in Int /\ 1 <= i /\ i <= lq + lm
    BY <1>1
  <2> QED BY <2>1, <2>2
<1>4. \A i \in 1..lq : r2[q[i]].actor = a /\ r2[q[i]].seq < n
  BY <1>2 DEF Line, lq
<1>5. \A i \in 1..Len(p) : r2[p[i]].actor = a /\ r2[p[i]].seq < n2
  <2> SUFFICES ASSUME NEW i \in 1..Len(p) PROVE r2[p[i]].actor = a /\ r2[p[i]].seq < n2
    OBVIOUS
  <2>1. CASE i <= lq
    <3>1. i \in 1..lq /\ p[i] = q[i] /\ q[i] \in DOMAIN r
      BY <2>1, <1>2, <1>3
    <3>2. r2[q[i]].actor = a /\ r2[q[i]].seq < n /\ r2[q[i]].seq \in Nat
      BY <3>1, <1>4
    <3> QED BY <3>1, <3>2
  <2>2. CASE i > lq
    BY <2>2, <1>3 DEF lm
  <2> QED BY <2>1, <2>2, <1>1
<1>6. ASSUME NEW i \in 1..Len(p), NEW j \in 1..Len(p), i < j
      PROVE  r2[p[i]].seq < r2[p[j]].seq
  <2>1. CASE j <= lq
    <3>1. i \in 1..lq /\ j \in 1..lq /\ p[i] = q[i] /\ p[j] = q[j]
      BY <2>1, <1>1, <1>3, <1>6
    <3>2. r[q[i]].seq < r[q[j]].seq
      BY <3>1, <1>6 DEF Line, lq
    <3> QED BY <3>1, <3>2, <1>2
  <2>2. CASE i <= lq /\ j > lq
    <3>1. r2[p[i]].seq < n /\ r2[p[i]].seq \in Nat
      BY <2>2, <1>2, <1>3, <1>4
    <3>2. n <= r2[p[j]].seq /\ r2[p[j]].seq \in Nat
      BY <2>2, <1>3 DEF lm
    <3> QED BY <3>1, <3>2
  <2>3. CASE i > lq
    <3>1. j > lq /\ i - lq < j - lq
      BY <2>3, <1>1, <1>6
    <3> QED BY <2>3, <3>1, <1>3 DEF lm
  <2> QED BY <2>1, <2>2, <2>3, <1>1
<1>7. w # None => /\ r2[w].actor = a /\ r2[w].seq < n2
                  /\ \A i \in 1..Len(p) : r2[w].seq < r2[p[i]].seq
  <2> SUFFICES ASSUME w # None
               PROVE  /\ r2[w].actor = a /\ r2[w].seq < n2
                      /\ \A i \in 1..Len(p) : r2[w].seq < r2[p[i]].seq
    OBVIOUS
  <2>1. w \in DOMAIN r /\ r2[w].actor = a /\ r2[w].seq < n /\ r2[w].seq \in Nat
    BY DEF Line
  <2>2. ASSUME NEW i \in 1..Len(p) PROVE r2[w].seq < r2[p[i]].seq
    <3>1. CASE i <= lq
      <4>1. i \in 1..lq /\ p[i] = q[i] /\ q[i] \in DOMAIN r
        BY <3>1, <1>2, <1>3
      <4>2. r[w].seq < r[q[i]].seq
        BY <4>1 DEF Line, lq
      <4> QED BY <4>1, <4>2, <2>1
    <3>2. CASE i > lq
      <4>1. n <= r2[p[i]].seq /\ r2[p[i]].seq \in Nat
        BY <3>2, <1>3 DEF lm
      <4> QED BY <4>1, <2>1
    <3> QED BY <3>1, <3>2, <1>1
  <2> QED BY <2>1, <2>2
<1>8. ASSUME NEW x \in DOMAIN r2, r2[x].actor = a, r2[x].seq < n2, r2[x].status = "running"
      PROVE  x = w \/ \E i \in 1..Len(p) : x = p[i]
  <2>1. CASE n <= r2[x].seq
    <3>1. PICK i \in 1..lm : x = more[i]
      BY <2>1, <1>8 DEF lm
    <3>2. i + lq \in 1..Len(p) /\ i + lq > lq /\ (i + lq) - lq = i
      <4>1. lq \in Nat /\ lm \in Nat /\ Len(p) = lq + lm /\ i \in Int /\ 1 <= i /\ i <= lm
        BY <1>1
      <4> QED BY <4>1
    <3>3. p[i + lq] = more[i]
      BY <3>2, <1>3
    <3> QED BY <3>1, <3>2, <3>3
  <2>2. CASE ~(n <= r2[x].seq)
    <3>1. x \in DOMAIN r /\ r[x] = r2[x] /\ r[x].seq < n
      BY <2>2, <1>8
    <3>2. x = w \/ \E i \in 1..lq : x = q[i]
      BY <3>1, <1>8 DEF Line, lq
    <3>3. \A i \in 1..lq : i \in 1..Len(p) /\ p[i] = q[i]
      BY <1>1, <1>3
    <3> QED BY <3>2, <3>3
  <2> QED BY <2>1, <2>2
<1>9. Line(a, p, w, r2, n2)
  BY <1>5, <1>6, <1>7, <1>8 DEF Line
<1> QED BY <1>9 DEF p

-----------------------------------------------------------------------------
(* The invariant. *)

\* The asks in the journal, and those that wait to get into it, are the script's, and
\* each goes to the actor that its caller asks.
Asked ==
    /\ \A x \in DOMAIN rows : /\ rows[x].caller \in CallersOf(script)
                              /\ Wants(rows[x].caller).actor = rows[x].actor
    /\ \A a \in Actor : \A i \in 1..Len(pendingLive[a]) :
         /\ pendingLive[a][i].caller \in CallersOf(script)
         /\ Wants(pendingLive[a][i].caller).actor = a

\* A live node has not settled: what settles has no answer yet (scheduler.ts:499).
LiveUnsettled == \A i \in 1..Len(liveNodes) : rows[liveNodes[i]].status = "running"

\* Only settled asks wait in the gate (replay-order.ts:117).
ParkedSettled == \A x \in parked : Settled(x)

\* What the script was answered stands in the journal.
AnswersTrue ==
    \A i \in 1..Len(answers) : /\ answers[i].inst \in DOMAIN rows
                               /\ rows[answers[i].inst].status = answers[i].outcome

\* The asks that wait for their admission: the recorded ones are their actor's; the new
\* ones are not in the journal, were made in this life, and wait once.
WaitOnce ==
    /\ \A a \in Actor : \A x \in pendingRecorded[a] : rows[x].actor = a
    /\ \A a \in Actor : \A i \in 1..Len(pendingLive[a]) :
         /\ pendingLive[a][i].inst \notin DOMAIN rows
         /\ pendingLive[a][i].inst[2] <= ordinals[pendingLive[a][i].inst[1]]
    /\ \A a, d \in Actor : \A i \in 1..Len(pendingLive[a]), j \in 1..Len(pendingLive[d]) :
         pendingLive[a][i].inst = pendingLive[d][j].inst => a = d /\ i = j

\* activeAsks counts the actors at work.
Counted == run = "running" => activeAsks = Cardinality(Busy)

\* Actor a's asks in the journal.
RowsOf(a) == { x \in DOMAIN rows : rows[x].actor = a }

\* The numbers of an actor's asks are distinct; they have no gap, nor do the admissions
\* of this life; and they lie below the rows it found and the admissions it has made.
Distinct ==
    \A x, y \in DOMAIN rows :
        x # y /\ rows[x].actor = rows[y].actor => rows[x].seq # rows[y].seq
Dense ==
    \A x \in DOMAIN rows : \A k \in 0..(rows[x].seq - 1) :
        \E y \in RowsOf(rows[x].actor) : rows[y].seq = k
Admitted ==
    \A a \in Actor : \A k \in 0..(nextAdmitSeq[a] - 1) :
        \E y \in RowsOf(a) : rows[y].seq = k
Below ==
    run = "running" =>
        \A x \in DOMAIN rows : \/ rows[x].seq < recorded[rows[x].actor]
                               \/ rows[x].seq < nextAdmitSeq[rows[x].actor]

\* Each actor's asks of this life stand in line.
Lines == \A a \in Actor : Line(a, liveQueue[a], current[a], rows, nextAdmitSeq[a])

\* The inductive invariant: the types and what the parts above say.
IInv ==
    /\ TypeOK /\ IsFiniteSet(DOMAIN rows)
    /\ NoneLive /\ Asked /\ LiveUnsettled /\ ParkedSettled /\ AnswersTrue
    /\ WaitOnce /\ Counted /\ NoIdleActor
    /\ Distinct /\ Dense /\ Admitted /\ Below /\ Lines

\* An actor whose numbers have no gap has more rows than any of its numbers.
LEMMA NumberBelowCount ==
    ASSUME NEW R, IsFiniteSet(R), NEW r, NEW x \in R, \A y \in R : r[y].seq \in Nat,
           \A k \in 0..(r[x].seq - 1) : \E y \in R : r[y].seq = k
    PROVE  r[x].seq < Cardinality(R)
<1> DEFINE f == [k \in 0..r[x].seq |-> CHOOSE y \in R : r[y].seq = k]
<1>1. r[x].seq \in Nat /\ Cardinality(R) \in Nat
  BY FS_CardinalityType
<1>2. \A k \in 0..r[x].seq : \E y \in R : r[y].seq = k
  BY <1>1
<1>3. \A k \in 0..r[x].seq : f[k] \in R /\ r[f[k]].seq = k
  BY <1>2
<1>4. f \in [0..r[x].seq -> R]
  BY <1>3
<1> HIDE DEF f
<1>5. f \in Injection(0..r[x].seq, R)
  BY <1>3, <1>4 DEF Injection, IsInjective
<1>6. Cardinality(0..r[x].seq) <= Cardinality(R)
  BY <1>5, FS_Injection
<1>7. Cardinality(0..r[x].seq) = r[x].seq + 1
  BY <1>1, FS_Interval, SMTT(30)
<1> QED BY <1>1, <1>6, <1>7
-----------------------------------------------------------------------------
(* Admission. *)

\* The recorded asks that are due have the numbers from the next one on, one each.
LEMMA ReachAndDue ==
    ASSUME NEW a, NEW held, IsFiniteSet(held), nextAdmitSeq[a] \in Nat
    PROVE  /\ Reach(a, held) \in Nat /\ nextAdmitSeq[a] <= Reach(a, held)
           /\ Due(a, held) \in Seq(held)
           /\ Len(Due(a, held)) = Reach(a, held) - nextAdmitSeq[a]
           /\ \A i \in 1..Len(Due(a, held)) : rows[Due(a, held)[i]].seq = nextAdmitSeq[a] + i - 1
<1> DEFINE first == nextAdmitSeq[a]
           all == first..(first + Cardinality(held))
           N == { n \in all : \A k \in first..(n - 1) : \E x \in held : rows[x].seq = k }
           reach == Reach(a, held)
           due == Due(a, held)
<1>1. Cardinality(held) \in Nat /\ first \in Nat
  BY FS_CardinalityType
<1>2. IsFiniteSet(all) /\ \A n \in all : n \in Nat /\ first <= n
  <2>1. first \in Int /\ first + Cardinality(held) \in Int
    BY <1>1
  <2>2. IsFiniteSet(all)
    BY <2>1, FS_Interval
  <2> QED BY <2>2, <1>1
<1>3. N \in SUBSET all /\ \A n \in N : \A k \in first..(n - 1) : \E x \in held : rows[x].seq = k
  OBVIOUS
<1>4. IsFiniteSet(N) /\ N \in SUBSET Nat
  BY <1>2, <1>3, FS_Subset
<1>5. first \in N
  BY <1>1
<1>6. reach = Largest(N)
  BY DEF Reach
<1> HIDE DEF N, reach
<1>7. reach \in N
  BY <1>4, <1>5, <1>6, LargestIsGreatest
<1>8. reach \in Nat /\ first <= reach
  BY <1>2, <1>3, <1>7
<1>9. \A i \in 1..(reach - first) : \E x \in held : rows[x].seq = first + i - 1
  <2> SUFFICES ASSUME NEW i \in 1..(reach - first)
               PROVE  \E x \in held : rows[x].seq = first + i - 1
    OBVIOUS
  <2>1. first + i - 1 \in first..(reach - 1)
    BY <1>1, <1>8
  <2> QED BY <2>1, <1>3, <1>7
<1>10. due = [i \in 1..(reach - first) |-> CHOOSE x \in held : rows[x].seq = first + i - 1]
  BY DEF Due, reach
<1> HIDE DEF due, first
<1>11. \A i \in 1..(reach - first) : due[i] \in held /\ rows[due[i]].seq = first + i - 1
  BY <1>9, <1>10
<1>12. due \in Seq(held) /\ Len(due) = reach - first
  <2>1. due \in [1..(reach - first) -> held]
    BY <1>10, <1>11
  <2>2. reach - first \in Nat
    BY <1>1, <1>8
  <2> QED BY <2>1, <2>2
<1> QED BY <1>8, <1>11, <1>12 DEF first, reach, due

\* What may be drained: recorded asks of actor a, and new asks of the script for it
\* that are not in the journal.
Waiting(a, held, waiting) ==
    /\ held \subseteq RowsOf(a)
    /\ waiting \in Seq([inst : Instance, caller : Caller])
    /\ \A i \in 1..Len(waiting) : /\ waiting[i].inst \notin DOMAIN rows
                                  /\ waiting[i].caller \in CallersOf(script)
                                  /\ Wants(waiting[i].caller).actor = a
    /\ \A i, j \in 1..Len(waiting) : waiting[i].inst = waiting[j].inst => i = j

\* What a drain does: it admits recorded asks up to reach and the new asks, of which
\* those that have not settled get in line and those that have go to the gate.
Drained(a, held, waiting, scan, reach, new, more, hits) ==
    /\ reach \in Nat /\ nextAdmitSeq[a] <= reach
    /\ \A k \in nextAdmitSeq[a]..(reach - 1) : \E x \in held : rows[x].seq = k
    /\ (new = waiting /\ recorded[a] <= reach) \/ new = <<>>
    /\ \E rest \in SUBSET held : pendingRecorded' = [pendingRecorded EXCEPT ![a] = rest]
    /\ pendingLive' = [pendingLive EXCEPT ![a] = IF new = <<>> THEN waiting ELSE <<>>]
    /\ nextAdmitSeq' = [nextAdmitSeq EXCEPT ![a] = reach + Len(new)]
    /\ DOMAIN rows' = DOMAIN rows \cup { new[i].inst : i \in 1..Len(new) }
    /\ \A x \in DOMAIN rows : rows'[x] = rows[x]
    /\ \A i \in 1..Len(new) :
         rows'[new[i].inst] = [caller |-> new[i].caller, actor |-> a, seq |-> reach + i - 1,
                               status |-> "running"]
    /\ more \in Seq(DOMAIN rows')
    /\ \A i \in 1..Len(more) :
         /\ rows'[more[i]].actor = a /\ rows'[more[i]].status = "running"
         /\ nextAdmitSeq[a] <= rows'[more[i]].seq /\ rows'[more[i]].seq < reach + Len(new)
    /\ \A i, j \in 1..Len(more) : i < j => rows'[more[i]].seq < rows'[more[j]].seq
    /\ \A x \in DOMAIN rows' :
         /\ rows'[x].actor = a /\ rows'[x].status = "running"
         /\ nextAdmitSeq[a] <= rows'[x].seq /\ rows'[x].seq < reach + Len(new)
         => \E i \in 1..Len(more) : x = more[i]
    /\ liveNodes' = liveNodes \o more
    /\ hits \in Seq(DOMAIN rows) /\ \A i \in 1..Len(hits) : Settled(hits[i])
    /\ Hold(hits)
    /\ Pump(scan, [liveQueue EXCEPT ![a] = @ \o more], current, activeAsks, cap)

\* drainAdmission does what Drained says.
LEMMA DrainDrains ==
    ASSUME IInv, run = "running", NEW a \in Actor, NEW held, NEW waiting, NEW scan,
           Waiting(a, held, waiting), Drain(a, held, waiting, scan)
    PROVE  \E reach, new, more, hits : Drained(a, held, waiting, scan, reach, new, more, hits)
<1> DEFINE reach == Reach(a, held)
           due   == Due(a, held)
           new   == IF RecordedFirst(a, reach) THEN waiting ELSE <<>>
           born  == [i \in DOMAIN new |-> new[i].inst]
           row(i) == [caller |-> new[i].caller, actor |-> a, seq |-> reach + i - 1,
                      status |-> "running"]
           done  == { x \in held : Settled(x) }
           again == Without(due, done)
           more  == again \o born
           hits  == Among(due, done)
           first == nextAdmitSeq[a]
<1>1. /\ pendingRecorded' = [pendingRecorded EXCEPT ![a] = held \ ToSet(due)]
      /\ pendingLive' = [pendingLive EXCEPT ![a] = IF new = <<>> THEN waiting ELSE <<>>]
      /\ nextAdmitSeq' = [nextAdmitSeq EXCEPT ![a] = reach + Len(new)]
      /\ rows' = [x \in DOMAIN rows \cup ToSet(born) |->
                    IF x \in DOMAIN rows THEN rows[x]
                    ELSE row(CHOOSE i \in DOMAIN new : new[i].inst = x)]
      /\ liveNodes' = liveNodes \o more
      /\ Hold(hits)
      /\ Pump(scan, [liveQueue EXCEPT ![a] = @ \o more], current, activeAsks, cap)
  BY DEF Drain
<1>2. held \subseteq DOMAIN rows /\ \A x \in held : rows[x].actor = a
  BY DEF Waiting, RowsOf
<1>3. IsFiniteSet(held) /\ first \in Nat
  <2>1. IsFiniteSet(DOMAIN rows)
    BY DEF IInv
  <2> QED BY <2>1, <1>2, FS_Subset DEF IInv, TypeOK, ActorTypes
<1>4. /\ reach \in Nat /\ first <= reach
      /\ due \in Seq(held) /\ Len(due) = reach - first
      /\ \A i \in 1..Len(due) : rows[due[i]].seq = first + i - 1
  BY <1>3, ReachAndDue
<1>5. (new = waiting /\ recorded[a] <= reach) \/ new = <<>>
  BY <1>4 DEF RecordedFirst, IInv, TypeOK, ActorTypes
<1>6. new \in Seq([inst : Instance, caller : Caller])
  BY <1>5 DEF Waiting
<1>7. \A x \in held : x \in done <=> rows[x].status # "running"
  BY <1>2 DEF Settled, IInv, TypeOK, JournalTypes, Row
<1>7a. \A x \in done : Settled(x)
  OBVIOUS
<1> HIDE DEF done, due
<1>7b. due \in Seq(held)
  BY <1>4
<1>8. again \in Seq(held) /\ \A i \in 1..Len(again) : again[i] \notin done
  BY <1>7b, WithoutSelects
<1>8a. \A k \in 1..Len(due) : due[k] \notin done => \E i \in 1..Len(again) : again[i] = due[k]
  BY <1>7b, WithoutSelects
<1>9. \A i, j \in 1..Len(again) : i < j =>
        \E k, l \in 1..Len(due) : k < l /\ again[i] = due[k] /\ again[j] = due[l]
  BY <1>7b, WithoutSelects
<1>10. \A i \in 1..Len(again) : \E k \in 1..Len(due) : again[i] = due[k]
  BY <1>7b, WithoutSelects
<1>11. hits \in Seq(held) /\ \A i \in 1..Len(hits) : hits[i] \in done
  BY <1>7b, AmongSelects
<1>12. hits \in Seq(DOMAIN rows) /\ \A i \in 1..Len(hits) : Settled(hits[i])
  BY <1>2, <1>7a, <1>11, SeqMonotonic
<1>13. \A i \in 1..Len(new) : new[i].inst \notin DOMAIN rows
  BY <1>5 DEF Waiting
<1>14. \A i, j \in 1..Len(new) : new[i].inst = new[j].inst => i = j
  BY <1>5 DEF Waiting
<1>15. DOMAIN new = 1..Len(new) /\ Len(new) \in Nat
  BY <1>6
<1> HIDE DEF new
<1>16. born = [i \in 1..Len(new) |-> new[i].inst] /\ ToSet(born) = { new[i].inst : i \in 1..Len(new) }
  BY <1>15 DEF ToSet
<1>17. DOMAIN rows' = DOMAIN rows \cup { new[i].inst : i \in 1..Len(new) }
  BY <1>1, <1>16
<1>18. \A x \in DOMAIN rows : rows'[x] = rows[x]
  BY <1>1
<1>19. ASSUME NEW i \in 1..Len(new) PROVE rows'[new[i].inst] = row(i)
  <2>1. (CHOOSE j \in DOMAIN new : new[j].inst = new[i].inst) = i
    BY <1>14, <1>15
  <2>2. new[i].inst \in ToSet(born) /\ new[i].inst \notin DOMAIN rows
    BY <1>13, <1>16
  <2> QED BY <2>1, <2>2, <1>1
<1>20. born \in Seq(DOMAIN rows') /\ Len(born) = Len(new) /\ \A i \in 1..Len(new) : born[i] = new[i].inst
  BY <1>15, <1>16, <1>17
<1> HIDE DEF reach, due, born, hits, again, first
<1>21. /\ more \in Seq(DOMAIN rows')
       /\ Len(more) = Len(again) + Len(new)
       /\ \A i \in 1..Len(more) : more[i] = IF i <= Len(again) THEN again[i] ELSE born[i - Len(again)]
  <2>1. again \in Seq(DOMAIN rows')
    BY <1>2, <1>8, <1>17, SeqMonotonic
  <2>2. born \in Seq(DOMAIN rows') /\ Len(born) = Len(new)
    BY <1>20
  <2>3. /\ again \o born \in Seq(DOMAIN rows')
        /\ Len(again \o born) = Len(again) + Len(born)
        /\ \A i \in 1..Len(again) + Len(born) :
             (again \o born)[i] = IF i <= Len(again) THEN again[i] ELSE born[i - Len(again)]
    BY <2>1, <2>2, ConcatProperties
  <2> QED BY <2>2, <2>3
<1>22. \A i \in 1..Len(again) :
         /\ again[i] \in DOMAIN rows /\ rows'[again[i]].actor = a
         /\ rows'[again[i]].status = "running"
         /\ first <= rows'[again[i]].seq /\ rows'[again[i]].seq < reach
  <2> SUFFICES ASSUME NEW i \in 1..Len(again)
               PROVE  /\ again[i] \in DOMAIN rows /\ rows'[again[i]].actor = a
                      /\ rows'[again[i]].status = "running"
                      /\ first <= rows'[again[i]].seq /\ rows'[again[i]].seq < reach
    OBVIOUS
  <2>1. again[i] \in held /\ again[i] \notin done
    BY <1>8
  <2>2. again[i] \in DOMAIN rows /\ rows'[again[i]] = rows[again[i]]
    BY <2>1, <1>2, <1>18
  <2>3. rows[again[i]].actor = a /\ rows[again[i]].status = "running"
    BY <2>1, <1>2, <1>7
  <2>4. PICK k \in 1..Len(due) : again[i] = due[k]
    BY <1>10
  <2>5. rows[again[i]].seq = first + k - 1
    BY <2>4, <1>4
  <2>6. Len(due) = reach - first /\ first \in Nat /\ reach \in Nat /\ k \in Nat /\ 1 <= k /\ k <= Len(due)
    BY <1>3, <1>4
  <2> QED BY <2>2, <2>3, <2>5, <2>6
<1>23. \A i \in 1..Len(new) :
         /\ rows'[born[i]].actor = a /\ rows'[born[i]].status = "running"
         /\ rows'[born[i]].seq = reach + i - 1
  <2> SUFFICES ASSUME NEW i \in 1..Len(new)
               PROVE  /\ rows'[born[i]].actor = a /\ rows'[born[i]].status = "running"
                      /\ rows'[born[i]].seq = reach + i - 1
    OBVIOUS
  <2>1. rows'[born[i]] = row(i)
    BY <1>19, <1>20
  <2> QED BY <2>1
<1>24. ASSUME NEW i \in 1..Len(more)
       PROVE  \/ i \in 1..Len(again) /\ more[i] = again[i]
              \/ i > Len(again) /\ i - Len(again) \in 1..Len(new) /\ more[i] = born[i - Len(again)]
  <2>1. Len(again) \in Nat /\ Len(new) \in Nat /\ i \in Int /\ 1 <= i /\ i <= Len(again) + Len(new)
    BY <1>8, <1>15, <1>21
  <2>2. more[i] = IF i <= Len(again) THEN again[i] ELSE born[i - Len(again)]
    BY <1>21
  <2> QED BY <2>1, <2>2
<1>25. /\ \A i \in 1..Len(again) : i \in 1..Len(more) /\ more[i] = again[i]
       /\ \A i \in 1..Len(new) : \E k \in 1..Len(more) : more[k] = born[i]
  <2>1. Len(again) \in Nat /\ Len(new) \in Nat /\ Len(more) = Len(again) + Len(new)
    BY <1>8, <1>15, <1>21
  <2>2. ASSUME NEW i \in 1..Len(again) PROVE i \in 1..Len(more) /\ more[i] = again[i]
    <3>1. i \in 1..Len(more) /\ i <= Len(again)
      BY <2>1
    <3> QED BY <3>1, <1>21
  <2>3. ASSUME NEW i \in 1..Len(new) PROVE \E k \in 1..Len(more) : more[k] = born[i]
    <3>1. Len(again) + i \in 1..Len(more) /\ ~(Len(again) + i <= Len(again))
          /\ (Len(again) + i) - Len(again) = i
      <4>1. i \in Int /\ 1 <= i /\ i <= Len(new)
        OBVIOUS
      <4> QED BY <4>1, <2>1
    <3>2. more[Len(again) + i] = born[i]
      BY <3>1, <1>21
    <3> QED BY <3>1, <3>2
  <2> QED BY <2>2, <2>3
<1> HIDE DEF more
<1>26. ASSUME NEW i \in 1..Len(more)
       PROVE  /\ rows'[more[i]].actor = a /\ rows'[more[i]].status = "running"
              /\ first <= rows'[more[i]].seq /\ rows'[more[i]].seq < reach + Len(new)
  <2>1. CASE i \in 1..Len(again) /\ more[i] = again[i]
    <3>1. rows'[again[i]].seq \in Nat
      <4>1. again[i] \in DOMAIN rows
        BY <2>1, <1>22
      <4> QED BY <4>1, <1>18 DEF IInv, TypeOK, JournalTypes, Row
    <3> QED BY <2>1, <3>1, <1>22, <1>4, <1>15
  <2>2. CASE i > Len(again) /\ i - Len(again) \in 1..Len(new) /\ more[i] = born[i - Len(again)]
    <3> DEFINE j == i - Len(again)
    <3>1. j \in 1..Len(new) /\ more[i] = born[j]
      BY <2>2
    <3> HIDE DEF j
    <3>2. rows'[more[i]].seq = reach + j - 1 /\ rows'[more[i]].actor = a /\ rows'[more[i]].status = "running"
      BY <3>1, <1>23
    <3> QED BY <3>1, <3>2, <1>3, <1>4, <1>15
  <2> QED BY <2>1, <2>2, <1>24
<1>27. ASSUME NEW i \in 1..Len(more), NEW j \in 1..Len(more), i < j
       PROVE  rows'[more[i]].seq < rows'[more[j]].seq
  <2>1. CASE i \in 1..Len(again) /\ j \in 1..Len(again)
    <3>1. PICK k \in 1..Len(due), l \in 1..Len(due) : k < l /\ again[i] = due[k] /\ again[j] = due[l]
      BY <2>1, <1>9, <1>27
    <3>2. rows[again[i]].seq = first + k - 1 /\ rows[again[j]].seq = first + l - 1
      BY <3>1, <1>4
    <3>3. rows'[again[i]] = rows[again[i]] /\ rows'[again[j]] = rows[again[j]]
      BY <2>1, <1>22, <1>18
    <3>4. more[i] = again[i] /\ more[j] = again[j]
      BY <2>1, <1>25
    <3>5. first \in Nat /\ k \in Int /\ l \in Int
      BY <1>3, <1>4
    <3>6. first + k - 1 < first + l - 1
      BY <3>1, <3>5
    <3> QED BY <3>2, <3>3, <3>4, <3>6
  <2>2. CASE i \in 1..Len(again) /\ j > Len(again)
    <3>1. j - Len(again) \in 1..Len(new) /\ more[j] = born[j - Len(again)] /\ more[i] = again[i]
      BY <2>2, <1>24, <1>25
    <3> DEFINE m == j - Len(again)
    <3>2. m \in 1..Len(new) /\ more[j] = born[m]
      BY <3>1
    <3> HIDE DEF m
    <3>3. rows'[more[j]].seq = reach + m - 1
      BY <3>2, <1>23
    <3>4. rows'[more[i]].seq < reach /\ rows'[more[i]].seq \in Nat
      <4>1. again[i] \in DOMAIN rows
        BY <2>2, <1>22
      <4> QED BY <4>1, <2>2, <3>1, <1>18, <1>22 DEF IInv, TypeOK, JournalTypes, Row
    <3> QED BY <3>2, <3>3, <3>4, <1>4
  <2>3. CASE i > Len(again) /\ j > Len(again)
    <3> DEFINE l == i - Len(again)  m == j - Len(again)
    <3>1. l \in 1..Len(new) /\ m \in 1..Len(new) /\ more[i] = born[l] /\ more[j] = born[m]
      BY <2>3, <1>24
    <3>2. l < m
      BY <1>27, <1>8
    <3> HIDE DEF l, m
    <3>3. rows'[more[i]].seq = reach + l - 1 /\ rows'[more[j]].seq = reach + m - 1
      BY <3>1, <1>23
    <3> QED BY <3>1, <3>2, <3>3, <1>4
  <2> QED BY <2>1, <2>2, <2>3, <1>24, <1>27, <1>8
<1>28. ASSUME NEW x \in DOMAIN rows', rows'[x].actor = a, rows'[x].status = "running",
              first <= rows'[x].seq, rows'[x].seq < reach + Len(new)
       PROVE  \E i \in 1..Len(more) : x = more[i]
  <2>1. CASE x \in DOMAIN rows
    <3>1. rows'[x] = rows[x] /\ rows[x].seq \in Nat
      BY <2>1, <1>18 DEF IInv, TypeOK, JournalTypes, Row
    <3>2. rows[x].seq < reach
      <4>1. ASSUME reach <= rows[x].seq PROVE FALSE
        <5>1. new # <<>> /\ recorded[a] <= reach
          BY <4>1, <3>1, <1>28, <1>5, <1>4
        <5>2. rows[x].seq < recorded[a] \/ rows[x].seq < nextAdmitSeq[a]
          BY <2>1, <3>1, <1>28 DEF IInv, Below
        <5>3. recorded[a] \in Nat /\ nextAdmitSeq[a] = first
          BY DEF IInv, TypeOK, ActorTypes, first
        <5> QED BY <4>1, <5>1, <5>2, <5>3, <3>1, <1>3, <1>4
      <4> QED BY <4>1, <3>1, <1>4
    <3> DEFINE k == rows[x].seq - first + 1
    <3>3. k \in 1..Len(due) /\ first + k - 1 = rows[x].seq
      BY <3>1, <3>2, <1>28, <1>3, <1>4
    <3> HIDE DEF k
    <3>4. due[k] \in held /\ rows[due[k]].seq = rows[x].seq
      BY <3>3, <1>4
    <3>5. due[k] = x
      BY <2>1, <3>1, <3>4, <1>2, <1>28 DEF IInv, Distinct
    <3>6. x \notin done
      BY <3>1, <3>4, <3>5, <1>7, <1>28
    <3>7. PICK i \in 1..Len(again) : again[i] = x
      BY <3>3, <3>5, <3>6, <1>8a
    <3> QED BY <3>7, <1>25
  <2>2. CASE x \notin DOMAIN rows
    <3>1. PICK i \in 1..Len(new) : x = new[i].inst
      BY <2>2, <1>17
    <3> QED BY <3>1, <1>20, <1>25
  <2> QED BY <2>1, <2>2
<1>29. \E rest \in SUBSET held : pendingRecorded' = [pendingRecorded EXCEPT ![a] = rest]
  BY <1>1
<1>30. Drained(a, held, waiting, scan, reach, new, more, hits)
  <2>1. \A k \in nextAdmitSeq[a]..(reach - 1) : \E x \in held : rows[x].seq = k
    <3> SUFFICES ASSUME NEW k \in nextAdmitSeq[a]..(reach - 1)
                 PROVE  \E x \in held : rows[x].seq = k
      OBVIOUS
    <3>1. first \in Nat /\ first = nextAdmitSeq[a]
      BY <1>3 DEF first
    <3> DEFINE i == k - first + 1
    <3>2. i \in 1..Len(due) /\ first + i - 1 = k
      <4>1. k \in Int /\ first <= k /\ k < reach /\ Len(due) = reach - first /\ reach \in Nat
        BY <3>1, <1>4
      <4> QED BY <4>1, <3>1
    <3> HIDE DEF i
    <3> QED BY <3>2, <1>4
  <2> QED
    BY <2>1, <1>1, <1>4, <1>5, <1>12, <1>17, <1>18, <1>19, <1>21, <1>26, <1>27, <1>28, <1>29
    DEF Drained, first
<1> QED BY <1>30
-----------------------------------------------------------------------------
(* Answers. *)

\* An answer is added to what the script was told, and its ask to the events.
LEMMA Answered ==
    ASSUME answers \in Seq(News), heard \in Seq(News), NEW D, events \in Seq(D),
           NEW news \in Seq(News), \A i \in 1..Len(news) : news[i].inst \in D, Answer(news)
    PROVE  /\ answers' = answers \o news /\ answers' \in Seq(News)
           /\ events' \in Seq(D) /\ heard' \in Seq(News)
<1> DEFINE xs == [i \in DOMAIN news |-> news[i].inst]
<1>1. DOMAIN news = 1..Len(news) /\ Len(news) \in Nat
  OBVIOUS
<1>2. xs \in Seq(D)
  BY <1>1
<1>3. answers' = answers \o news /\ events' = Logged(xs)
      /\ heard' = IF Len(answers') > Len(heard) THEN answers' ELSE heard
  BY DEF Answer
<1> HIDE DEF xs
<1>4. Without(xs, ToSet(events)) \in Seq(D)
  BY <1>2, WithoutSelects
<1>5. events' \in Seq(D)
  BY <1>3, <1>4 DEF Logged
<1> QED BY <1>3, <1>5

\* The gate lets through, or keeps, only what has settled.
LEMMA HoldHolds ==
    ASSUME IInv, NEW hits \in Seq(DOMAIN rows), \A i \in 1..Len(hits) : Settled(hits[i]),
           Hold(hits)
    PROVE  /\ cursor' \in 0..Len(order)
           /\ parked' \subseteq ToSet(order) /\ \A x \in parked' : Settled(x)
           /\ \E news \in Seq(News) :
                /\ answers' = answers \o news
                /\ \A i \in 1..Len(news) : /\ news[i].inst \in DOMAIN rows
                                           /\ rows[news[i].inst].status = news[i].outcome
           /\ answers' \in Seq(News)
           /\ events' \in Seq(DOMAIN rows) /\ heard' \in Seq(News)
<1> DEFINE ruled  == { order[i] : i \in { j \in DOMAIN order : j > cursor } }
           direct == Without(hits, ruled)
           all    == parked \cup (ToSet(hits) \cap ruled)
           N      == { n \in cursor..Len(order) : \A i \in (cursor + 1)..n : order[i] \in all }
           upto   == Largest(N)
           next   == SubSeq(order, cursor + 1, upto)
           out    == direct \o next
<1>1. /\ cursor' = upto
      /\ parked' = all \ ToSet(out)
      /\ \E news : /\ news = [i \in DOMAIN out |-> [inst |-> out[i], outcome |-> rows[out[i]].status]]
                   /\ Answer(news)
  BY DEF Hold
<1>2. /\ order \in Seq(DOMAIN rows) /\ cursor \in 0..Len(order) /\ parked \subseteq ToSet(order)
      /\ DOMAIN order = 1..Len(order) /\ Len(order) \in Nat
  BY DEF IInv, TypeOK, GateTypes
<1>3. ruled \subseteq ToSet(order)
  BY DEF ToSet
<1>4. all \subseteq ToSet(order) /\ \A x \in all : Settled(x)
  BY <1>2, <1>3 DEF ToSet, IInv, ParkedSettled
<1> HIDE DEF ruled, all
<1>5. /\ IsFiniteSet(N) /\ N \in SUBSET Nat /\ cursor \in N
      /\ \A n \in N : n \in cursor..Len(order) /\ \A i \in (cursor + 1)..n : order[i] \in all
  <2>1. IsFiniteSet(cursor..Len(order)) /\ N \in SUBSET (cursor..Len(order))
    BY <1>2, FS_Interval
  <2>2. cursor \in N
    BY <1>2
  <2> QED BY <2>1, <2>2, <1>2, FS_Subset
<1> HIDE DEF N
<1>6. upto \in cursor..Len(order) /\ \A i \in (cursor + 1)..upto : order[i] \in all
  BY <1>5, LargestIsGreatest
<1>7. \A x \in ToSet(order) : x \in DOMAIN rows
  BY <1>2 DEF ToSet
<1> HIDE DEF upto
<1>8. next \in Seq(all)
  BY <1>2, <1>6, SubSeqProperties
<1>9. direct \in Seq(DOMAIN rows) /\ \A i \in 1..Len(direct) : \E k \in 1..Len(hits) : direct[i] = hits[k]
  BY WithoutSelects
<1> HIDE DEF direct, next
<1> DEFINE S == { x \in DOMAIN rows : Settled(x) }
<1>10. direct \in Seq(S) /\ next \in Seq(S)
  <2>1. \A i \in 1..Len(direct) : direct[i] \in S
    BY <1>9
  <2>2. all \subseteq S
    BY <1>4, <1>7
  <2>3. direct \in Seq(S)
    BY <1>9, <2>1
  <2> QED BY <1>8, <2>2, <2>3, SeqMonotonic
<1>11. out \in Seq(S)
  BY <1>10
<1> HIDE DEF out
<1>12. PICK news : /\ news = [i \in DOMAIN out |-> [inst |-> out[i], outcome |-> rows[out[i]].status]]
                   /\ Answer(news)
  BY <1>1
<1>13. DOMAIN out = 1..Len(out) /\ Len(out) \in Nat /\ \A i \in 1..Len(out) : out[i] \in S
  BY <1>11
<1>14. \A x \in S : x \in DOMAIN rows /\ x \in Instance /\ rows[x].status \in {"ok", "failed"}
  BY DEF Settled, IInv, TypeOK, JournalTypes
<1> HIDE DEF S
<1>15. /\ news \in Seq(News)
       /\ \A i \in 1..Len(news) : news[i].inst \in DOMAIN rows
                                  /\ rows[news[i].inst].status = news[i].outcome
  <2>1. news = [i \in 1..Len(out) |-> [inst |-> out[i], outcome |-> rows[out[i]].status]]
    BY <1>12, <1>13
  <2>2. \A i \in 1..Len(out) : [inst |-> out[i], outcome |-> rows[out[i]].status] \in News
    BY <1>13, <1>14 DEF News
  <2>3. news \in Seq(News) /\ Len(news) = Len(out)
    BY <2>1, <2>2, <1>13
  <2> QED BY <2>1, <2>3, <1>13, <1>14
<1>16. answers \in Seq(News) /\ heard \in Seq(News) /\ events \in Seq(DOMAIN rows)
  BY DEF IInv, TypeOK, ScriptTypes, JournalTypes
<1>17. /\ answers' = answers \o news /\ answers' \in Seq(News)
       /\ events' \in Seq(DOMAIN rows) /\ heard' \in Seq(News)
  <2>1. \A i \in 1..Len(news) : news[i].inst \in DOMAIN rows
    BY <1>15
  <2>2. Answer(news)
    BY <1>12
  <2> QED BY <2>1, <2>2, <1>15, <1>16, Answered
<1>18. cursor' \in 0..Len(order)
  BY <1>1, <1>2, <1>6
<1>19. parked' \subseteq ToSet(order) /\ \A x \in parked' : Settled(x)
  BY <1>1, <1>4
<1>20. \E news2 \in Seq(News) :
         /\ answers' = answers \o news2
         /\ \A i \in 1..Len(news2) : /\ news2[i].inst \in DOMAIN rows
                                     /\ rows[news2[i].inst].status = news2[i].outcome
  BY <1>15, <1>17
<1> QED BY <1>17, <1>18, <1>19, <1>20
-----------------------------------------------------------------------------
(* An admission keeps the invariant. *)

\* What an admission has to know of what it drains: the new asks were made in this
\* life, and none waits at another actor.
Fresh(a, waiting) ==
    /\ \A i \in 1..Len(waiting) : waiting[i].inst[2] <= ordinals'[waiting[i].inst[1]]
    /\ \A d \in Actor \ {a} : \A i \in 1..Len(waiting), j \in 1..Len(pendingLive[d]) :
         waiting[i].inst # pendingLive[d][j].inst

\* What it leaves alone, and what its caller does.
Around ==
    /\ UNCHANGED <<script, run, cap, life, recorded, session, order, overtaken>>
    /\ calls' \in [Branch -> Nat] /\ ordinals' \in [Site -> Nat]
    /\ \A s \in Site : ordinals[s] <= ordinals'[s]
    /\ read' \in 0..Len(answers)

\* The journal after an admission.
LEMMA DrainedRows ==
    ASSUME IInv, NEW a \in Actor, NEW held, NEW waiting, NEW scan, Waiting(a, held, waiting),
           NEW reach, NEW new, NEW more, NEW hits,
           Drained(a, held, waiting, scan, reach, new, more, hits)
    PROVE  /\ new \in Seq([inst : Instance, caller : Caller])
           /\ \A i \in 1..Len(new) : /\ new[i].inst \notin DOMAIN rows
                                     /\ new[i].caller \in CallersOf(script)
                                     /\ Wants(new[i].caller).actor = a
           /\ \A i, j \in 1..Len(new) : new[i].inst = new[j].inst => i = j
           /\ DOMAIN rows \subseteq DOMAIN rows'
           /\ \A x \in DOMAIN rows' \ DOMAIN rows :
                \E i \in 1..Len(new) :
                   /\ x = new[i].inst
                   /\ rows'[x] = [caller |-> new[i].caller, actor |-> a, seq |-> reach + i - 1,
                                  status |-> "running"]
           /\ DOMAIN rows' \subseteq Instance /\ \A x \in DOMAIN rows' : rows'[x] \in Row
           /\ IsFiniteSet(DOMAIN rows')
<1>1. /\ reach \in Nat
      /\ new = waiting \/ new = <<>>
      /\ DOMAIN rows' = DOMAIN rows \cup { new[i].inst : i \in 1..Len(new) }
      /\ \A x \in DOMAIN rows : rows'[x] = rows[x]
      /\ \A i \in 1..Len(new) :
           rows'[new[i].inst] = [caller |-> new[i].caller, actor |-> a, seq |-> reach + i - 1,
                                 status |-> "running"]
  BY DEF Drained
<1>2. /\ new \in Seq([inst : Instance, caller : Caller])
      /\ \A i \in 1..Len(new) : /\ new[i].inst \notin DOMAIN rows
                                /\ new[i].caller \in CallersOf(script)
                                /\ Wants(new[i].caller).actor = a
      /\ \A i, j \in 1..Len(new) : new[i].inst = new[j].inst => i = j
  <2>1. CASE new = waiting
    BY <2>1 DEF Waiting
  <2>2. CASE new = <<>>
    BY <2>2
  <2> QED BY <2>1, <2>2, <1>1
<1>3. Len(new) \in Nat /\ \A i \in 1..Len(new) : new[i].inst \in Instance /\ new[i].caller \in Caller
  <2>0. new \in Seq([inst : Instance, caller : Caller])
    BY <1>2
  <2>1. Len(new) \in Nat /\ \A i \in 1..Len(new) : new[i] \in [inst : Instance, caller : Caller]
    BY <2>0, ElementOfSeq, LenProperties
  <2> QED BY <2>1
<1>4. \A x \in DOMAIN rows' \ DOMAIN rows :
        \E i \in 1..Len(new) :
           /\ x = new[i].inst
           /\ rows'[x] = [caller |-> new[i].caller, actor |-> a, seq |-> reach + i - 1,
                          status |-> "running"]
  BY <1>1
<1>5. DOMAIN rows \subseteq Instance /\ \A x \in DOMAIN rows : rows[x] \in Row
  BY DEF IInv, TypeOK, JournalTypes
<1>6. ASSUME NEW x \in DOMAIN rows' PROVE x \in Instance /\ rows'[x] \in Row
  <2>1. CASE x \in DOMAIN rows
    BY <2>1, <1>1, <1>5
  <2>2. CASE x \notin DOMAIN rows
    <3>1. PICK i \in 1..Len(new) :
            /\ x = new[i].inst
            /\ rows'[x] = [caller |-> new[i].caller, actor |-> a, seq |-> reach + i - 1,
                           status |-> "running"]
      BY <2>2, <1>4
    <3>2. reach + i - 1 \in Nat
      BY <1>1, <1>3
    <3> QED BY <3>1, <3>2, <1>3 DEF Row
  <2> QED BY <2>1, <2>2
<1>7. IsFiniteSet(DOMAIN rows')
  <2> DEFINE S == { new[i].inst : i \in 1..Len(new) }
             f == [i \in 1..Len(new) |-> new[i].inst]
  <2>1. f \in Surjection(1..Len(new), S)
    BY DEF Surjection
  <2>2. IsFiniteSet(S)
    BY <2>1, <1>3, FS_NatSurjection DEF ExistsSurjection
  <2>3. IsFiniteSet(DOMAIN rows)
    BY DEF IInv
  <2>4. DOMAIN rows' = DOMAIN rows \cup S
    BY <1>1
  <2> HIDE DEF S
  <2> QED BY <2>2, <2>3, <2>4, FS_Union
<1> QED BY <1>1, <1>2, <1>4, <1>6, <1>7

\* The numbers after an admission.
LEMMA DrainedNumbers ==
    ASSUME IInv, run = "running", NEW a \in Actor, NEW held, NEW waiting, NEW scan,
           Waiting(a, held, waiting), NEW reach, NEW new, NEW more, NEW hits,
           Drained(a, held, waiting, scan, reach, new, more, hits), Around
    PROVE  Distinct' /\ Dense' /\ Admitted' /\ Below'
<1>1. /\ reach \in Nat /\ nextAdmitSeq[a] <= reach
      /\ \A k \in nextAdmitSeq[a]..(reach - 1) : \E x \in held : rows[x].seq = k
      /\ recorded[a] <= reach \/ new = <<>>
      /\ nextAdmitSeq' = [nextAdmitSeq EXCEPT ![a] = reach + Len(new)]
      /\ \A x \in DOMAIN rows : rows'[x] = rows[x]
  BY DEF Drained
<1>1a. \A i \in 1..Len(new) : new[i].inst \in DOMAIN rows' /\ rows'[new[i].inst].actor = a
                              /\ rows'[new[i].inst].seq = reach + i - 1
  <2>1. /\ DOMAIN rows' = DOMAIN rows \cup { new[i].inst : i \in 1..Len(new) }
        /\ \A i \in 1..Len(new) :
             rows'[new[i].inst] = [caller |-> new[i].caller, actor |-> a, seq |-> reach + i - 1,
                                   status |-> "running"]
    BY DEF Drained
  <2> SUFFICES ASSUME NEW i \in 1..Len(new)
               PROVE  /\ new[i].inst \in DOMAIN rows' /\ rows'[new[i].inst].actor = a
                      /\ rows'[new[i].inst].seq = reach + i - 1
    OBVIOUS
  <2>2. rows'[new[i].inst] = [caller |-> new[i].caller, actor |-> a, seq |-> reach + i - 1,
                              status |-> "running"]
    BY <2>1
  <2>3. new[i].inst \in DOMAIN rows'
    BY <2>1
  <2> QED BY <2>2, <2>3
<1>2. /\ DOMAIN rows \subseteq DOMAIN rows'
      /\ \A x \in DOMAIN rows' \ DOMAIN rows :
           \E i \in 1..Len(new) : x = new[i].inst /\ rows'[x].actor = a /\ rows'[x].seq = reach + i - 1
  <2>1. /\ DOMAIN rows' = DOMAIN rows \cup { new[i].inst : i \in 1..Len(new) }
    BY DEF Drained
  <2> QED BY <2>1, <1>1a
<1>3. Len(new) \in Nat
  BY DrainedRows
<1>4. /\ nextAdmitSeq \in [Actor -> Nat] /\ recorded \in [Actor -> Nat]
      /\ \A x \in DOMAIN rows : rows[x].seq \in Nat /\ rows[x].actor \in Actor
      /\ Distinct /\ Dense /\ Admitted /\ Below
  BY DEF IInv, TypeOK, ActorTypes, JournalTypes, Row
<1>5. recorded' = recorded /\ run' = run
  BY DEF Around
<1>6. \A k \in 0..(reach - 1) : \E y \in DOMAIN rows : rows[y].actor = a /\ rows[y].seq = k
  <2> SUFFICES ASSUME NEW k \in 0..(reach - 1)
               PROVE  \E y \in DOMAIN rows : rows[y].actor = a /\ rows[y].seq = k
    OBVIOUS
  <2>1. CASE k < nextAdmitSeq[a]
    <3>1. k \in 0..(nextAdmitSeq[a] - 1)
      BY <2>1, <1>4
    <3> QED BY <3>1, <1>4 DEF Admitted, RowsOf
  <2>2. CASE ~(k < nextAdmitSeq[a])
    <3>1. k \in nextAdmitSeq[a]..(reach - 1)
      BY <2>2, <1>1, <1>4
    <3> QED BY <3>1, <1>1 DEF Waiting, RowsOf
  <2> QED BY <2>1, <2>2
<1>7. \A k \in 0..(reach + Len(new) - 1) :
        \E y \in DOMAIN rows' : rows'[y].actor = a /\ rows'[y].seq = k
  <2> SUFFICES ASSUME NEW k \in 0..(reach + Len(new) - 1)
               PROVE  \E y \in DOMAIN rows' : rows'[y].actor = a /\ rows'[y].seq = k
    OBVIOUS
  <2>1. CASE k < reach
    <3>1. k \in 0..(reach - 1)
      BY <2>1, <1>1
    <3> QED BY <3>1, <1>1, <1>2, <1>6
  <2>2. CASE ~(k < reach)
    <3> DEFINE i == k - reach + 1
    <3>1. i \in 1..Len(new) /\ reach + i - 1 = k
      BY <2>2, <1>1, <1>3
    <3> HIDE DEF i
    <3> QED BY <3>1, <1>1a
  <2> QED BY <2>1, <2>2
<1>8. \A x \in DOMAIN rows : new # <<>> /\ rows[x].actor = a => rows[x].seq < reach
  <2> SUFFICES ASSUME NEW x \in DOMAIN rows, new # <<>>, rows[x].actor = a
               PROVE  rows[x].seq < reach
    OBVIOUS
  <2>1. rows[x].seq < recorded[a] \/ rows[x].seq < nextAdmitSeq[a]
    BY <1>4 DEF Below
  <2> QED BY <2>1, <1>1, <1>4
<1>9. Distinct'
  <2> SUFFICES ASSUME NEW x \in DOMAIN rows', NEW y \in DOMAIN rows', x # y,
                      rows'[x].actor = rows'[y].actor
               PROVE  rows'[x].seq # rows'[y].seq
    BY DEF Distinct
  <2>1. CASE x \in DOMAIN rows /\ y \in DOMAIN rows
    BY <2>1, <1>1, <1>4 DEF Distinct
  <2>2. ASSUME NEW u \in DOMAIN rows, NEW v \in DOMAIN rows' \ DOMAIN rows,
               rows'[u].actor = rows'[v].actor
        PROVE  rows'[u].seq # rows'[v].seq
    <3>1. PICK i \in 1..Len(new) : rows'[v].actor = a /\ rows'[v].seq = reach + i - 1
      BY <1>2
    <3>2. new # <<>>
      BY <3>1
    <3>3. rows[u].seq < reach /\ rows'[u] = rows[u] /\ rows[u].seq \in Nat
      BY <3>1, <3>2, <2>2, <1>1, <1>4, <1>8
    <3> QED BY <3>1, <3>3, <1>1
  <2>3. CASE x \notin DOMAIN rows /\ y \notin DOMAIN rows
    <3>1. PICK i \in 1..Len(new) : x = new[i].inst /\ rows'[x].seq = reach + i - 1
      BY <2>3, <1>2
    <3>2. PICK j \in 1..Len(new) : y = new[j].inst /\ rows'[y].seq = reach + j - 1
      BY <2>3, <1>2
    <3>3. i # j
      BY <3>1, <3>2
    <3> QED BY <3>1, <3>2, <3>3, <1>1
  <2> QED BY <2>1, <2>2, <2>3
<1>10. Dense'
  <2> SUFFICES ASSUME NEW x \in DOMAIN rows', NEW k \in 0..(rows'[x].seq - 1)
               PROVE  \E y \in DOMAIN rows' : rows'[y].actor = rows'[x].actor /\ rows'[y].seq = k
    BY DEF Dense, RowsOf
  <2>1. CASE x \in DOMAIN rows
    <3>1. rows'[x] = rows[x]
      BY <2>1, <1>1
    <3>2. PICK y \in DOMAIN rows : rows[y].actor = rows[x].actor /\ rows[y].seq = k
      BY <2>1, <3>1, <1>4 DEF Dense, RowsOf
    <3> QED BY <3>1, <3>2, <1>1, <1>2
  <2>2. CASE x \notin DOMAIN rows
    <3>1. PICK i \in 1..Len(new) : rows'[x].actor = a /\ rows'[x].seq = reach + i - 1
      BY <2>2, <1>2
    <3>2. k \in 0..(reach + Len(new) - 1)
      BY <3>1, <1>1, <1>3
    <3> QED BY <3>1, <3>2, <1>7
  <2> QED BY <2>1, <2>2
<1>11. Admitted'
  <2> SUFFICES ASSUME NEW d \in Actor, NEW k \in 0..(nextAdmitSeq'[d] - 1)
               PROVE  \E y \in DOMAIN rows' : rows'[y].actor = d /\ rows'[y].seq = k
    BY DEF Admitted, RowsOf
  <2>1. CASE d = a
    BY <2>1, <1>1, <1>4, <1>7
  <2>2. CASE d # a
    <3>1. nextAdmitSeq'[d] = nextAdmitSeq[d]
      BY <2>2, <1>1, <1>4
    <3>2. PICK y \in DOMAIN rows : rows[y].actor = d /\ rows[y].seq = k
      BY <3>1, <1>4 DEF Admitted, RowsOf
    <3> QED BY <3>2, <1>1, <1>2
  <2> QED BY <2>1, <2>2
<1>12. Below'
  <2> SUFFICES ASSUME NEW x \in DOMAIN rows'
               PROVE  \/ rows'[x].seq < recorded[rows'[x].actor]
                      \/ rows'[x].seq < nextAdmitSeq'[rows'[x].actor]
    BY <1>5 DEF Below
  <2>1. CASE x \in DOMAIN rows
    <3>1. rows'[x] = rows[x] /\ rows[x].actor \in Actor /\ rows[x].seq \in Nat
      BY <2>1, <1>1, <1>4
    <3>2. rows[x].seq < recorded[rows[x].actor] \/ rows[x].seq < nextAdmitSeq[rows[x].actor]
      BY <2>1, <1>4 DEF Below
    <3>3. nextAdmitSeq[rows[x].actor] <= nextAdmitSeq'[rows[x].actor]
      BY <3>1, <1>1, <1>3, <1>4
    <3>4. nextAdmitSeq[rows[x].actor] \in Nat /\ nextAdmitSeq'[rows[x].actor] \in Nat
      BY <3>1, <1>1, <1>3, <1>4
    <3> QED BY <3>1, <3>2, <3>3, <3>4
  <2>2. CASE x \notin DOMAIN rows
    <3>1. PICK i \in 1..Len(new) : rows'[x].actor = a /\ rows'[x].seq = reach + i - 1
      BY <2>2, <1>2
    <3>2. nextAdmitSeq'[a] = reach + Len(new)
      BY <1>1, <1>4
    <3> QED BY <3>1, <3>2, <1>1, <1>3
  <2> QED BY <2>1, <2>2
<1> QED BY <1>9, <1>10, <1>11, <1>12
-----------------------------------------------------------------------------
(* A pump keeps the invariant. *)

\* Each actor's asks stand in line, when the queues are queue and work is at work.
InLine(queue, work, r, n) == \A a \in Actor : Line(a, queue[a], work[a], r, n[a])

\* The pump keeps the lines, the count, and nobody idle when the cap has room.
LEMMA PumpKeeps ==
    ASSUME NEW r, None \notin DOMAIN r, NEW n,
           NEW queue, NEW work, AsksOf(DOMAIN r, queue, work),
           NEW used \in Nat, used = Cardinality(AtWork(work)),
           NEW limit \in Nat, NEW scan \in Seq(Actor), IsInjective(scan),
           InLine(queue, work, r, n), used < limit => Scans(scan, queue, work),
           Pump(scan, queue, work, used, limit)
    PROVE  /\ AsksOf(DOMAIN r, liveQueue', current')
           /\ activeAsks' \in Nat
           /\ activeAsks' = Cardinality(AtWork(current'))
           /\ activeAsks' < limit => NoneIdles(liveQueue', current')
           /\ InLine(liveQueue', current', r, n)
<1>1. PICK start, q2, w2 : /\ start = Chosen(scan, queue, work, used, limit)
                           /\ q2 = QueueAfter(start, queue) /\ w2 = WorkAfter(start, queue, work)
                           /\ liveQueue' = q2 /\ current' = w2
                           /\ activeAsks' = used + Cardinality(start)
  BY DEF Pump, QueueAfter, WorkAfter
<1>1a. start = Chosen(scan, queue, work, used, limit)
  BY <1>1
<1>1b. q2 = QueueAfter(start, queue) /\ w2 = WorkAfter(start, queue, work)
  BY <1>1
<1>2. Ready(start, queue, work)
  BY <1>1a, ChosenActors
<1>3. /\ AsksOf(DOMAIN r, q2, w2)
      /\ used + Cardinality(start) \in Nat
  BY <1>1a, <1>1b, Pumped
<1>4. used + Cardinality(start) = Cardinality(AtWork(w2))
  BY <1>1a, <1>1b, Pumped
<1>5. used + Cardinality(start) < limit => NoneIdles(q2, w2)
  BY <1>1a, <1>1b, Pumped
<1>6. ASSUME NEW a \in Actor PROVE Line(a, liveQueue'[a], current'[a], r, n[a])
  <2>1. CASE a \in start
    <3>1. liveQueue'[a] = Tail(queue[a]) /\ current'[a] = Head(queue[a])
      BY <2>1, <1>1 DEF QueueAfter, WorkAfter
    <3>2. queue[a] \in Seq(DOMAIN r) /\ queue[a] # <<>> /\ Line(a, queue[a], None, r, n[a])
      BY <2>1, <1>2 DEF Ready, InLine, AsksOf
    <3>3. Line(a, Tail(queue[a]), Head(queue[a]), r, n[a])
      BY <3>2, LineMoves
    <3> QED BY <3>1, <3>3
  <2>2. CASE a \notin start
    <3>1. liveQueue'[a] = queue[a] /\ current'[a] = work[a]
      BY <2>2, <1>1 DEF QueueAfter, WorkAfter
    <3> QED BY <3>1 DEF InLine
  <2> QED BY <2>1, <2>2
<1> QED BY <1>1, <1>3, <1>4, <1>5, <1>6 DEF InLine

\* A cap is a number.
LEMMA CapIsNat == Caps \subseteq Nat
BY AskSchedulerAssumption

\* The queues, the work and the live nodes after an admission.
LEMMA DrainedWork ==
    ASSUME IInv, run = "running", NEW a \in Actor, NEW held, NEW waiting,
           NEW scan \in Seq(Actor), IsInjective(scan), \E k \in 1..Len(scan) : scan[k] = a,
           Waiting(a, held, waiting), NEW reach, NEW new, NEW more, NEW hits,
           Drained(a, held, waiting, scan, reach, new, more, hits), Around
    PROVE  WorkTypes' /\ Counted' /\ NoIdleActor' /\ Lines' /\ LiveUnsettled'
<1>1. /\ DOMAIN rows \subseteq DOMAIN rows' /\ DOMAIN rows' \subseteq Instance
      /\ \A x \in DOMAIN rows' : rows'[x] \in Row
  BY DrainedRows
<1>2. /\ reach \in Nat /\ nextAdmitSeq[a] <= reach
      /\ nextAdmitSeq' = [nextAdmitSeq EXCEPT ![a] = reach + Len(new)]
      /\ \A x \in DOMAIN rows : rows'[x] = rows[x]
  BY DEF Drained
<1>3. more \in Seq(DOMAIN rows')
      /\ \A i \in 1..Len(more) :
           /\ rows'[more[i]].actor = a /\ rows'[more[i]].status = "running"
           /\ nextAdmitSeq[a] <= rows'[more[i]].seq /\ rows'[more[i]].seq < reach + Len(new)
  BY DEF Drained
<1>4. \A i, j \in 1..Len(more) : i < j => rows'[more[i]].seq < rows'[more[j]].seq
  BY DEF Drained
<1>5. \A x \in DOMAIN rows' :
         /\ rows'[x].actor = a /\ rows'[x].status = "running"
         /\ nextAdmitSeq[a] <= rows'[x].seq /\ rows'[x].seq < reach + Len(new)
         => \E i \in 1..Len(more) : x = more[i]
  BY DEF Drained
<1>6. liveNodes' = liveNodes \o more
      /\ Pump(scan, [liveQueue EXCEPT ![a] = @ \o more], current, activeAsks, cap)
  BY DEF Drained
<1>7. Len(new) \in Nat
  BY DrainedRows
<1>8. \A x \in DOMAIN rows' \ DOMAIN rows :
        \E i \in 1..Len(new) : rows'[x].actor = a /\ rows'[x].seq = reach + i - 1
  <2> SUFFICES ASSUME NEW x \in DOMAIN rows' \ DOMAIN rows
               PROVE  \E i \in 1..Len(new) : rows'[x].actor = a /\ rows'[x].seq = reach + i - 1
    OBVIOUS
  <2>1. /\ DOMAIN rows' = DOMAIN rows \cup { new[i].inst : i \in 1..Len(new) }
        /\ \A i \in 1..Len(new) :
             rows'[new[i].inst] = [caller |-> new[i].caller, actor |-> a, seq |-> reach + i - 1,
                                   status |-> "running"]
    BY DEF Drained
  <2>2. PICK i \in 1..Len(new) : x = new[i].inst
    BY <2>1
  <2>3. rows'[x] = [caller |-> new[i].caller, actor |-> a, seq |-> reach + i - 1,
                    status |-> "running"]
    BY <2>1, <2>2
  <2> QED BY <2>3
<1>9. /\ liveQueue \in [Actor -> Seq(DOMAIN rows)] /\ current \in [Actor -> DOMAIN rows \cup {None}]
      /\ session \in [Actor -> {"none", "ready", "broken"}]
      /\ liveNodes \in Seq(DOMAIN rows) /\ activeAsks \in Nat
      /\ cap \in Nat /\ nextAdmitSeq \in [Actor -> Nat]
      /\ None \notin DOMAIN rows'
  BY <1>1, CapIsNat, ScriptsAssumption DEF IInv, TypeOK, WorkTypes, JournalTypes, ActorTypes
<1>10. activeAsks = Cardinality(AtWork(current))
  BY DEF IInv, Counted, Busy, AtWork
<1>11. activeAsks < cap => \A d \in Actor : current[d] = None => liveQueue[d] = <<>>
  BY <1>10 DEF IInv, NoIdleActor, Busy, AtWork
<1>12. PICK queue, r, n, work : /\ queue = [liveQueue EXCEPT ![a] = @ \o more]
                                /\ r = rows' /\ n = nextAdmitSeq' /\ work = current
  OBVIOUS
<1>13. AsksOf(DOMAIN r, queue, work)
  <2>1. \A d \in Actor : liveQueue[d] \in Seq(DOMAIN r)
    BY <1>1, <1>9, <1>12, SeqMonotonic
  <2> QED BY <2>1, <1>1, <1>3, <1>9, <1>12 DEF AsksOf
<1>14. activeAsks < cap => Scans(scan, queue, work)
  BY <1>9, <1>11, <1>12 DEF Scans
<1>15. ASSUME NEW d \in Actor PROVE Line(d, queue[d], work[d], r, n[d])
  <2>1. Line(d, liveQueue[d], current[d], rows, nextAdmitSeq[d])
    BY DEF IInv, Lines
  <2>2. /\ liveQueue[d] \in Seq(DOMAIN rows) /\ current[d] \in DOMAIN rows \cup {None}
        /\ nextAdmitSeq[d] \in Nat
        /\ \A x \in DOMAIN rows : rows[x].seq \in Nat
        /\ \A x \in DOMAIN r : r[x].seq \in Nat
        /\ DOMAIN rows \subseteq DOMAIN r /\ \A x \in DOMAIN rows : r[x] = rows[x]
    BY <1>1, <1>2, <1>9, <1>12 DEF IInv, TypeOK, JournalTypes, Row
  <2>3. CASE d = a
    <3>1. queue[d] = liveQueue[d] \o more /\ n[d] = reach + Len(new) /\ work[d] = current[d]
      BY <2>3, <1>2, <1>9, <1>12
    <3>2. reach + Len(new) \in Nat /\ nextAdmitSeq[d] <= reach + Len(new)
      BY <2>2, <2>3, <1>2, <1>7
    <3>3. \A x \in DOMAIN r \ DOMAIN rows : r[x].actor = d => nextAdmitSeq[d] <= r[x].seq
      <4> SUFFICES ASSUME NEW x \in DOMAIN r \ DOMAIN rows PROVE nextAdmitSeq[d] <= r[x].seq
        OBVIOUS
      <4>1. PICK i \in 1..Len(new) : r[x].seq = reach + i - 1
        BY <1>8, <1>12
      <4> QED BY <4>1, <2>2, <2>3, <1>2, <1>7
    <3>4. more \in Seq(DOMAIN r)
          /\ \A i \in 1..Len(more) :
               r[more[i]].actor = d /\ nextAdmitSeq[d] <= r[more[i]].seq
                                    /\ r[more[i]].seq < reach + Len(new)
      BY <2>3, <1>3, <1>12
    <3>5. /\ \A i, j \in 1..Len(more) : i < j => r[more[i]].seq < r[more[j]].seq
          /\ \A x \in DOMAIN r :
               r[x].actor = d /\ nextAdmitSeq[d] <= r[x].seq /\ r[x].seq < reach + Len(new)
                              /\ r[x].status = "running" =>
                 \E i \in 1..Len(more) : x = more[i]
      BY <2>3, <1>4, <1>5, <1>12
    <3>6. Line(d, liveQueue[d] \o more, current[d], r, reach + Len(new))
      BY <2>1, <2>2, <3>2, <3>3, <3>4, <3>5, LineGrows, ZenonT(40)
    <3> QED BY <3>1, <3>6
  <2>4. CASE d # a
    <3>1. queue[d] = liveQueue[d] /\ n[d] = nextAdmitSeq[d] /\ work[d] = current[d]
      BY <2>4, <1>2, <1>9, <1>12
    <3>2. \A x \in DOMAIN r \ DOMAIN rows : r[x].actor # d
      BY <2>4, <1>8, <1>12
    <3>3. \A i \in 1..Len(liveQueue[d]) : liveQueue[d][i] \in DOMAIN rows
      BY <2>2
    <3>4. Line(d, liveQueue[d], current[d], r, nextAdmitSeq[d])
      <4>1. /\ \A i \in 1..Len(liveQueue[d]) : r[liveQueue[d][i]].actor = d
                                               /\ r[liveQueue[d][i]].seq < nextAdmitSeq[d]
            /\ \A i, j \in 1..Len(liveQueue[d]) : i < j =>
                  r[liveQueue[d][i]].seq < r[liveQueue[d][j]].seq
        BY <2>1, <2>2, <3>3 DEF Line
      <4>2. current[d] # None =>
              /\ r[current[d]].actor = d /\ r[current[d]].seq < nextAdmitSeq[d]
              /\ \A i \in 1..Len(liveQueue[d]) : r[current[d]].seq < r[liveQueue[d][i]].seq
        BY <2>1, <2>2, <3>3 DEF Line
      <4>3. \A x \in DOMAIN r :
              r[x].actor = d /\ r[x].seq < nextAdmitSeq[d] /\ r[x].status = "running" =>
                x = current[d] \/ \E i \in 1..Len(liveQueue[d]) : x = liveQueue[d][i]
        BY <2>1, <2>2, <3>2 DEF Line
      <4> QED BY <4>1, <4>2, <4>3 DEF Line
    <3> QED BY <3>1, <3>4
  <2> QED BY <2>3, <2>4
<1>16. PICK used, limit : used = activeAsks /\ limit = cap /\ Pump(scan, queue, work, used, limit)
  BY <1>6, <1>12
<1>17. None \notin DOMAIN r
  BY <1>9, <1>12
<1>18. /\ used \in Nat /\ limit \in Nat
       /\ used = Cardinality(AtWork(work))
       /\ used < limit => Scans(scan, queue, work)
       /\ InLine(queue, work, r, n)
  BY <1>9, <1>10, <1>12, <1>14, <1>15, <1>16 DEF InLine
<1>19. /\ AsksOf(DOMAIN r, liveQueue', current')
       /\ activeAsks' \in Nat
  BY <1>13, <1>16, <1>17, <1>18, PumpKeeps
<1>20. activeAsks' = Cardinality(AtWork(current'))
  BY <1>13, <1>16, <1>17, <1>18, PumpKeeps
<1>21. activeAsks' < limit => NoneIdles(liveQueue', current')
  BY <1>13, <1>16, <1>17, <1>18, PumpKeeps
<1>22. InLine(liveQueue', current', r, n)
  BY <1>13, <1>16, <1>17, <1>18, PumpKeeps
<1>23. liveNodes' \in Seq(DOMAIN rows')
  <2>1. liveNodes \in Seq(DOMAIN rows')
    BY <1>1, <1>9, SeqMonotonic
  <2> QED BY <2>1, <1>3, <1>6
<1>24. session' = session /\ cap' = cap
  BY DEF Around
<1>25. WorkTypes'
  BY <1>9, <1>12, <1>19, <1>23, <1>24 DEF WorkTypes, AsksOf
<1>26. Counted'
  BY <1>20 DEF Counted, Busy, AtWork
<1>27. NoIdleActor'
  BY <1>16, <1>20, <1>21, <1>24 DEF NoIdleActor, Busy, NoneIdles, AtWork
<1>28. Lines'
  BY <1>12, <1>22 DEF Lines, InLine
<1>29. LiveUnsettled'
  <2> SUFFICES ASSUME NEW i \in 1..Len(liveNodes') PROVE rows'[liveNodes'[i]].status = "running"
    BY DEF LiveUnsettled
  <2>1. liveNodes \in Seq(DOMAIN rows') /\ more \in Seq(DOMAIN rows')
    BY <1>1, <1>3, <1>9, SeqMonotonic
  <2>2. /\ Len(liveNodes \o more) = Len(liveNodes) + Len(more)
        /\ \A j \in 1..Len(liveNodes) + Len(more) :
             (liveNodes \o more)[j] = IF j <= Len(liveNodes) THEN liveNodes[j]
                                      ELSE more[j - Len(liveNodes)]
    BY <2>1, ConcatProperties
  <2>3. Len(liveNodes) \in Nat /\ Len(more) \in Nat /\ i \in Int /\ 1 <= i
        /\ i <= Len(liveNodes) + Len(more)
    <3>1. Len(liveNodes') = Len(liveNodes) + Len(more)
      BY <2>2, <1>6
    <3>2. Len(liveNodes) \in Nat /\ Len(more) \in Nat
      BY <2>1, LenProperties
    <3> QED BY <3>1, <3>2
  <2>3a. liveNodes'[i] = IF i <= Len(liveNodes) THEN liveNodes[i] ELSE more[i - Len(liveNodes)]
    BY <2>2, <2>3, <1>6
  <2>4. CASE i <= Len(liveNodes)
    <3>1. i \in 1..Len(liveNodes) /\ liveNodes'[i] = liveNodes[i] /\ liveNodes[i] \in DOMAIN rows
      BY <2>3, <2>3a, <2>4, <1>9, SMTT(30)
    <3> QED BY <3>1, <1>2 DEF IInv, LiveUnsettled
  <2>5. CASE ~(i <= Len(liveNodes))
    <3> DEFINE j == i - Len(liveNodes)
    <3>1. j \in 1..Len(more) /\ liveNodes'[i] = more[j]
      BY <2>3, <2>3a, <2>5
    <3> HIDE DEF j
    <3> QED BY <3>1, <1>3
  <2> QED BY <2>4, <2>5
<1> QED BY <1>25, <1>26, <1>27, <1>28, <1>29
-----------------------------------------------------------------------------
(* An ask keeps the invariant. *)

\* The asks that wait for their admission after one.
LEMMA DrainedWaiters ==
    ASSUME IInv, NEW a \in Actor, NEW held, NEW waiting, NEW scan,
           Waiting(a, held, waiting), Fresh(a, waiting), NEW reach, NEW new, NEW more, NEW hits,
           Drained(a, held, waiting, scan, reach, new, more, hits), Around
    PROVE  ActorTypes' /\ Asked' /\ WaitOnce'
<1>1. /\ reach \in Nat
      /\ new = waiting \/ new = <<>>
      /\ \E rest \in SUBSET held : pendingRecorded' = [pendingRecorded EXCEPT ![a] = rest]
      /\ pendingLive' = [pendingLive EXCEPT ![a] = IF new = <<>> THEN waiting ELSE <<>>]
      /\ nextAdmitSeq' = [nextAdmitSeq EXCEPT ![a] = reach + Len(new)]
      /\ DOMAIN rows' = DOMAIN rows \cup { new[i].inst : i \in 1..Len(new) }
      /\ \A x \in DOMAIN rows : rows'[x] = rows[x]
  BY DEF Drained
<1>2. DOMAIN rows \subseteq DOMAIN rows' /\ Len(new) \in Nat
  <2>1. new \in Seq([inst : Instance, caller : Caller])
    BY DrainedRows
  <2> QED BY <2>1, <1>1, LenProperties
<1>3. /\ recorded \in [Actor -> Nat] /\ nextAdmitSeq \in [Actor -> Nat]
      /\ pendingRecorded \in [Actor -> SUBSET DOMAIN rows]
      /\ pendingLive \in [Actor -> Seq([inst : Instance, caller : Caller])]
  BY DEF IInv, TypeOK, ActorTypes
<1>4. held \subseteq DOMAIN rows /\ \A x \in held : rows[x].actor = a
  BY DEF Waiting, RowsOf
<1>5. /\ waiting \in Seq([inst : Instance, caller : Caller])
      /\ \A i \in 1..Len(waiting) : /\ waiting[i].inst \notin DOMAIN rows
                                    /\ waiting[i].caller \in CallersOf(script)
                                    /\ Wants(waiting[i].caller).actor = a
      /\ \A i, j \in 1..Len(waiting) : waiting[i].inst = waiting[j].inst => i = j
  BY DEF Waiting
<1>6. PICK rest \in SUBSET held : pendingRecorded' = [pendingRecorded EXCEPT ![a] = rest]
  BY <1>1
<1>7. recorded' = recorded /\ script' = script
  BY DEF Around
<1>8. pendingRecorded' \in [Actor -> SUBSET DOMAIN rows']
  BY <1>2, <1>3, <1>4, <1>6
<1>9. pendingLive' \in [Actor -> Seq([inst : Instance, caller : Caller])]
  <2> DEFINE P == Seq([inst : Instance, caller : Caller])
  <2>1. (IF new = <<>> THEN waiting ELSE <<>>) \in P
    BY <1>5
  <2>2. pendingLive \in [Actor -> P]
    BY <1>3
  <2> HIDE DEF P
  <2>3. pendingLive' \in [Actor -> P]
    BY <2>1, <2>2, <1>1
  <2> QED BY <2>3 DEF P
<1>10. nextAdmitSeq' \in [Actor -> Nat]
  BY <1>1, <1>2, <1>3
<1>11. ActorTypes'
  BY <1>3, <1>7, <1>8, <1>9, <1>10 DEF ActorTypes
<1>12. \A d \in Actor : \A x \in pendingRecorded'[d] : rows'[x].actor = d
  <2>1. \A d \in Actor : \A x \in pendingRecorded[d] : x \in DOMAIN rows /\ rows[x].actor = d
    BY <1>3 DEF IInv, WaitOnce
  <2> QED BY <2>1, <1>1, <1>3, <1>4, <1>6
<1>13. /\ \A d \in Actor : d # a => pendingLive'[d] = pendingLive[d]
       /\ pendingLive'[a] = <<>> \/ (pendingLive'[a] = waiting /\ new = <<>>)
  <2>1. DOMAIN pendingLive = Actor
    BY <1>3
  <2> QED BY <2>1, <1>1
<1>14. \A s \in Site : ordinals[s] <= ordinals'[s] /\ ordinals[s] \in Nat /\ ordinals'[s] \in Nat
  BY DEF Around, IInv, TypeOK, ScriptTypes
<1>15. ASSUME NEW d \in Actor, NEW i \in 1..Len(pendingLive'[d])
       PROVE  /\ pendingLive'[d][i].inst \notin DOMAIN rows'
              /\ pendingLive'[d][i].inst[2] <= ordinals'[pendingLive'[d][i].inst[1]]
              /\ pendingLive'[d][i].caller \in CallersOf(script)
              /\ Wants(pendingLive'[d][i].caller).actor = d
  <2>1. CASE d = a
    <3>1. pendingLive'[a] = waiting /\ new = <<>>
      BY <2>1, <1>13, <1>15
    <3>2. DOMAIN rows' = DOMAIN rows
      <4>1. 1..Len(new) = {}
        BY <3>1
      <4> QED BY <4>1, <1>1
    <3> QED BY <2>1, <3>1, <3>2, <1>5, <1>15 DEF Fresh
  <2>2. CASE d # a
    <3>1. pendingLive'[d] = pendingLive[d] /\ i \in 1..Len(pendingLive[d])
      BY <2>2, <1>13
    <3>2. /\ pendingLive[d][i].inst \notin DOMAIN rows
          /\ pendingLive[d][i].inst[2] <= ordinals[pendingLive[d][i].inst[1]]
      BY <3>1 DEF IInv, WaitOnce
    <3>3. /\ pendingLive[d][i].caller \in CallersOf(script)
          /\ Wants(pendingLive[d][i].caller).actor = d
      BY <3>1 DEF IInv, Asked
    <3>4. pendingLive[d][i].inst \in Instance
      <4>1. pendingLive[d] \in Seq([inst : Instance, caller : Caller])
        BY <1>3
      <4>2. pendingLive[d][i] \in [inst : Instance, caller : Caller]
        BY <4>1, <3>1, ElementOfSeq
      <4> QED BY <4>2
    <3>5. pendingLive[d][i].inst \notin DOMAIN rows'
      <4>1. \A j \in 1..Len(waiting) : waiting[j].inst # pendingLive[d][i].inst
        BY <2>2, <3>1 DEF Fresh
      <4>2. \A j \in 1..Len(new) : new[j].inst # pendingLive[d][i].inst
        BY <4>1, <1>1
      <4> QED BY <4>2, <3>2, <1>1
    <3>6. pendingLive[d][i].inst[2] <= ordinals'[pendingLive[d][i].inst[1]]
      <4> DEFINE y == pendingLive[d][i].inst
      <4>1. y \in Site \X (Nat \ {0}) /\ y[2] <= ordinals[y[1]]
        BY <3>2, <3>4 DEF Instance
      <4> HIDE DEF y
      <4>2. y[1] \in Site /\ y[2] \in Nat
        BY <4>1
      <4>3. y[2] <= ordinals'[y[1]]
        BY <4>1, <4>2, <1>14
      <4> QED BY <4>3 DEF y
    <3> QED BY <3>1, <3>3, <3>5, <3>6
  <2> QED BY <2>1, <2>2
<1>16. ASSUME NEW d \in Actor, NEW e \in Actor,
              NEW i \in 1..Len(pendingLive'[d]), NEW j \in 1..Len(pendingLive'[e]),
              pendingLive'[d][i].inst = pendingLive'[e][j].inst
       PROVE  d = e /\ i = j
  <2>1. CASE d = a /\ e = a
    BY <2>1, <1>5, <1>13, <1>16
  <2>2. CASE d = a /\ e # a
    BY <2>2, <1>13, <1>16 DEF Fresh
  <2>3. CASE d # a /\ e = a
    BY <2>3, <1>13, <1>16 DEF Fresh
  <2>4. CASE d # a /\ e # a
    BY <2>4, <1>13, <1>16, SMTT(30) DEF IInv, WaitOnce
  <2> QED BY <2>1, <2>2, <2>3, <2>4
<1>17. WaitOnce'
  BY <1>12, <1>15, <1>16 DEF WaitOnce
<1>18. ASSUME NEW x \in DOMAIN rows'
       PROVE  /\ rows'[x].caller \in CallersOf(script)
              /\ Wants(rows'[x].caller).actor = rows'[x].actor
  <2>1. CASE x \in DOMAIN rows
    BY <2>1, <1>1 DEF IInv, Asked
  <2>2. CASE x \notin DOMAIN rows
    <3>1. PICK i \in 1..Len(new) : x = new[i].inst
      BY <2>2, <1>1
    <3>2. rows'[x] = [caller |-> new[i].caller, actor |-> a, seq |-> reach + i - 1,
                      status |-> "running"]
      BY <3>1 DEF Drained
    <3>3. new[i].caller \in CallersOf(script) /\ Wants(new[i].caller).actor = a
      BY <1>1, <1>5
    <3> QED BY <3>2, <3>3
  <2> QED BY <2>1, <2>2
<1>19. Asked'
  <2>1. \A c : Wants(c)' = Wants(c)
    BY <1>7 DEF Wants
  <2> QED BY <2>1, <1>7, <1>15, <1>18 DEF Asked
<1> QED BY <1>11, <1>17, <1>19

\* Answers go to asks of the journal, and as the journal has them.
LEMMA AnswersStayTrue ==
    ASSUME AnswersTrue, answers \in Seq(News), NEW news \in Seq(News),
           answers' = answers \o news, DOMAIN rows \subseteq DOMAIN rows',
           \A i \in 1..Len(answers) :
              answers[i].inst \in DOMAIN rows =>
                 rows'[answers[i].inst].status = rows[answers[i].inst].status,
           \A i \in 1..Len(news) : /\ news[i].inst \in DOMAIN rows'
                                   /\ rows'[news[i].inst].status = news[i].outcome
    PROVE  AnswersTrue'
<1> SUFFICES ASSUME NEW i \in 1..Len(answers')
             PROVE  /\ answers'[i].inst \in DOMAIN rows'
                    /\ rows'[answers'[i].inst].status = answers'[i].outcome
  BY DEF AnswersTrue
<1>1. /\ Len(answers \o news) = Len(answers) + Len(news)
      /\ \A j \in 1..Len(answers) + Len(news) :
           (answers \o news)[j] = IF j <= Len(answers) THEN answers[j] ELSE news[j - Len(answers)]
  BY ConcatProperties
<1>2. Len(answers) \in Nat /\ Len(news) \in Nat
  BY LenProperties
<1>3. i \in 1..Len(answers) + Len(news)
  BY <1>1
<1>4. answers'[i] = IF i <= Len(answers) THEN answers[i] ELSE news[i - Len(answers)]
  BY <1>1, <1>3
<1>5. CASE i <= Len(answers)
  <2>1. i \in 1..Len(answers) /\ answers'[i] = answers[i]
    BY <1>2, <1>3, <1>4, <1>5
  <2> QED BY <2>1 DEF AnswersTrue
<1>6. CASE ~(i <= Len(answers))
  <2> DEFINE j == i - Len(answers)
  <2>1. j \in 1..Len(news) /\ answers'[i] = news[j]
    BY <1>2, <1>3, <1>4, <1>6
  <2> HIDE DEF j
  <2> QED BY <2>1
<1> QED BY <1>5, <1>6

\* A sequence that grows gets no shorter.
LEMMA Longer ==
    ASSUME NEW s \in Seq(News), NEW t \in Seq(News)
    PROVE  Len(s) <= Len(s \o t) /\ Len(s) \in Nat /\ Len(s \o t) \in Nat
BY ConcatProperties, LenProperties

\* An admission keeps the invariant.
LEMMA DrainKeeps ==
    ASSUME IInv, run = "running", NEW a \in Actor, NEW held, NEW waiting,
           NEW scan \in Seq(Actor), IsInjective(scan), \E k \in 1..Len(scan) : scan[k] = a,
           Waiting(a, held, waiting), Fresh(a, waiting), Drain(a, held, waiting, scan), Around
    PROVE  IInv'
<1>1. PICK reach, new, more, hits : Drained(a, held, waiting, scan, reach, new, more, hits)
  BY DrainDrains
<1>2. /\ DOMAIN rows \subseteq DOMAIN rows' /\ DOMAIN rows' \subseteq Instance
      /\ \A x \in DOMAIN rows' : rows'[x] \in Row
  BY <1>1, DrainedRows
<1>3. IsFiniteSet(DOMAIN rows')
  BY <1>1, DrainedRows
<1>4. /\ \A x \in DOMAIN rows : rows'[x] = rows[x]
      /\ hits \in Seq(DOMAIN rows) /\ \A i \in 1..Len(hits) : Settled(hits[i])
      /\ Hold(hits)
  BY <1>1 DEF Drained
<1>5. Distinct' /\ Dense' /\ Admitted' /\ Below'
  BY <1>1, DrainedNumbers
<1>6. WorkTypes' /\ Counted' /\ NoIdleActor' /\ Lines' /\ LiveUnsettled'
  BY <1>1, DrainedWork
<1>7. ActorTypes' /\ Asked' /\ WaitOnce'
  BY <1>1, DrainedWaiters
<1>8. /\ cursor' \in 0..Len(order)
      /\ parked' \subseteq ToSet(order) /\ \A x \in parked' : Settled(x)
      /\ answers' \in Seq(News)
      /\ events' \in Seq(DOMAIN rows) /\ heard' \in Seq(News)
  BY <1>4, HoldHolds
<1>9. \E news \in Seq(News) :
        /\ answers' = answers \o news
        /\ \A i \in 1..Len(news) : /\ news[i].inst \in DOMAIN rows
                                   /\ rows[news[i].inst].status = news[i].outcome
  BY <1>4, HoldHolds
<1>10. PICK news \in Seq(News) :
         /\ answers' = answers \o news
         /\ \A i \in 1..Len(news) : /\ news[i].inst \in DOMAIN rows
                                    /\ rows[news[i].inst].status = news[i].outcome
  BY <1>9
<1>11. /\ UNCHANGED <<script, run, cap, life, session, order, overtaken>>
       /\ calls' \in [Branch -> Nat] /\ ordinals' \in [Site -> Nat] /\ read' \in 0..Len(answers)
  BY DEF Around
<1>12. /\ script \in Scripts /\ cap \in Caps /\ life \in 1..MaxLives
       /\ run \in {"running", "dead", "stopped", "completed", "errored"}
       /\ order \in Seq(DOMAIN rows) /\ parked \subseteq ToSet(order)
       /\ answers \in Seq(News) /\ overtaken \in {"no", "yes"}
  BY DEF IInv, TypeOK, JournalTypes, GateTypes, ScriptTypes
<1>13. JournalTypes'
  <2>1. events' \in Seq(DOMAIN rows')
    BY <1>2, <1>8, SeqMonotonic
  <2> QED BY <2>1, <1>2, <1>11, <1>12 DEF JournalTypes
<1>14. GateTypes'
  <2>1. order' \in Seq(DOMAIN rows')
    BY <1>2, <1>11, <1>12, SeqMonotonic
  <2> QED BY <2>1, <1>8, <1>11 DEF GateTypes
<1>15. ScriptTypes'
  <2>1. read' \in 0..Len(answers')
    BY <1>10, <1>11, <1>12, Longer
  <2>2. Branch' = Branch
    BY <1>11 DEF Branch
  <2> QED BY <2>1, <2>2, <1>8, <1>11, <1>12 DEF ScriptTypes
<1>16. TypeOK'
  BY <1>6, <1>7, <1>13, <1>14, <1>15 DEF TypeOK
<1>17. AnswersTrue'
  <2>1. /\ \A i \in 1..Len(answers) : answers[i].inst \in DOMAIN rows =>
             rows'[answers[i].inst].status = rows[answers[i].inst].status
        /\ \A i \in 1..Len(news) : /\ news[i].inst \in DOMAIN rows'
                                   /\ rows'[news[i].inst].status = news[i].outcome
    BY <1>2, <1>4, <1>10
  <2> QED BY <2>1, <1>2, <1>10, <1>12, AnswersStayTrue DEF IInv
<1>18. ParkedSettled'
  <2>1. \A x \in parked' : x \in DOMAIN rows
    BY <1>8, <1>12 DEF ToSet
  <2> QED BY <2>1, <1>4, <1>8 DEF ParkedSettled, Settled
<1>19. NoneLive'
  BY <1>11 DEF NoneLive
<1> QED BY <1>3, <1>5, <1>6, <1>7, <1>16, <1>17, <1>18, <1>19 DEF IInv
\* The next ask of a branch is one of the script's.
LEMMA NextCaller ==
    ASSUME script \in Scripts, calls \in [Branch -> Nat],
           NEW b \in Branch, calls[b] < Len(script.asks[b]),
           NEW c, c = [branch |-> b, index |-> calls[b] + 1]
    PROVE  c \in CallersOf(script) /\ Wants(c).actor \in Actor /\ Wants(c).site \in Site
<1>1. DOMAIN script.asks[b] = 1..Len(script.asks[b]) /\ Len(script.asks[b]) \in Nat
  BY ScriptsAssumption DEF Branch
<1>2. calls[b] + 1 \in DOMAIN script.asks[b]
  BY <1>1
<1>3. c \in CallersOf(script)
  BY <1>2 DEF CallersOf, Branch
<1>4. Wants(c).actor \in Actor
  BY <1>3, ScriptsAssumption DEF Wants
<1>5. Wants(c).site \in Site
  <2>1. Wants(c).site \in { script.asks[d.branch][d.index].site : d \in CallersOf(script) }
    BY <1>3 DEF Wants
  <2> QED BY <2>1 DEF Site
<1> QED BY <1>3, <1>4, <1>5

\* A rescan looks at every actor, an admission of a recorded ask at its own.
LEMMA ScansOf ==
    /\ ActorOrder \in Seq(Actor) /\ IsInjective(ActorOrder)
    /\ \A a \in Actor : \E k \in 1..Len(ActorOrder) : ActorOrder[k] = a
    /\ \A a \in Actor : <<a>> \in Seq(Actor) /\ IsInjective(<<a>>)
                        /\ \E k \in 1..Len(<<a>>) : <<a>>[k] = a
<1>1. ActorOrder \in Seq(Actor) /\ IsInjective(ActorOrder)
  BY ScriptsAssumption
<1>2. \A a \in Actor : \E k \in 1..Len(ActorOrder) : ActorOrder[k] = a
  BY <1>1 DEF Actor, ToSet
<1>3. ASSUME NEW a \in Actor
      PROVE  <<a>> \in Seq(Actor) /\ IsInjective(<<a>>) /\ \E k \in 1..Len(<<a>>) : <<a>>[k] = a
  <2>1. <<a>> \in Seq(Actor) /\ Len(<<a>>) = 1 /\ DOMAIN <<a>> = {1} /\ <<a>>[1] = a
    OBVIOUS
  <2> QED BY <2>1 DEF IsInjective
<1> QED BY <1>1, <1>2, <1>3

\* An ask that the journal does not know joins those that wait at its actor.
LEMMA NewWaits ==
    ASSUME IInv, NEW a \in Actor, NEW x \in Instance, x \notin DOMAIN rows,
           NEW c \in CallersOf(script), c \in Caller, Wants(c).actor = a,
           ordinals[x[1]] < x[2], x[2] <= ordinals'[x[1]],
           \A s \in Site : ordinals[s] <= ordinals'[s] /\ ordinals'[s] \in Nat,
           NEW held, held = pendingRecorded[a],
           NEW waiting, waiting = Append(pendingLive[a], [inst |-> x, caller |-> c])
    PROVE  Waiting(a, held, waiting) /\ Fresh(a, waiting)
<1> DEFINE P == pendingLive[a]  T == [inst : Instance, caller : Caller]
<1>1. P \in Seq(T) /\ [inst |-> x, caller |-> c] \in T
  BY DEF IInv, TypeOK, ActorTypes
<1> HIDE DEF T
<1>2. /\ waiting \in Seq(T) /\ Len(waiting) = Len(P) + 1 /\ Len(P) \in Nat
      /\ \A i \in 1..Len(P) : waiting[i] = P[i]
      /\ waiting[Len(P) + 1] = [inst |-> x, caller |-> c]
  BY <1>1
<1>3. \A d \in Actor : \A j \in 1..Len(pendingLive[d]) :
        /\ pendingLive[d][j].inst \notin DOMAIN rows
        /\ pendingLive[d][j].inst[2] <= ordinals[pendingLive[d][j].inst[1]]
  BY DEF IInv, WaitOnce
<1>4. ordinals \in [Site -> Nat] /\ x[1] \in Site /\ x[2] \in Nat
  BY DEF Instance, IInv, TypeOK, ScriptTypes
<1>5. \A d \in Actor : \A j \in 1..Len(pendingLive[d]) : pendingLive[d][j].inst # x
  BY <1>3, <1>4
<1>6. \A j \in 1..Len(P) : P[j].inst \in Instance
  <2>1. \A j \in 1..Len(P) : P[j] \in T
    BY <1>1, ElementOfSeq
  <2> QED BY <2>1 DEF T
<1> HIDE DEF P
<1>7. \A i \in 1..Len(waiting) : i \in 1..Len(P) \/ i = Len(P) + 1
  BY <1>2
<1>8. held \subseteq RowsOf(a)
  BY DEF RowsOf, IInv, WaitOnce, TypeOK, ActorTypes
<1>9. ASSUME NEW i \in 1..Len(waiting)
      PROVE  /\ waiting[i].inst \notin DOMAIN rows
             /\ waiting[i].caller \in CallersOf(script) /\ Wants(waiting[i].caller).actor = a
             /\ waiting[i].inst[2] <= ordinals'[waiting[i].inst[1]]
  <2>1. CASE i \in 1..Len(P)
    <3>1. waiting[i] = P[i]
      BY <2>1, <1>2
    <3>2. P[i].inst \notin DOMAIN rows /\ P[i].inst[2] <= ordinals[P[i].inst[1]]
      BY <2>1, <1>3 DEF P
    <3>3. P[i].caller \in CallersOf(script) /\ Wants(P[i].caller).actor = a
      BY <2>1 DEF P, IInv, Asked
    <3>4. P[i].inst[2] <= ordinals'[P[i].inst[1]]
      <4> DEFINE y == P[i].inst
      <4>1. y \in Site \X (Nat \ {0}) /\ y[2] <= ordinals[y[1]]
        BY <2>1, <3>2, <1>6 DEF Instance
      <4> HIDE DEF y
      <4>2. y[1] \in Site /\ y[2] \in Nat
        BY <4>1
      <4>3. y[2] <= ordinals'[y[1]]
        BY <4>1, <4>2, <1>4
      <4> QED BY <4>3 DEF y
    <3> QED BY <3>1, <3>2, <3>3, <3>4
  <2>2. CASE i = Len(P) + 1
    BY <2>2, <1>2
  <2> QED BY <2>1, <2>2, <1>7
<1>10. \A i, j \in 1..Len(P) : P[i].inst = P[j].inst => i = j
  BY DEF P, IInv, WaitOnce
<1>11. ASSUME NEW i \in 1..Len(waiting), NEW j \in 1..Len(waiting),
              waiting[i].inst = waiting[j].inst
       PROVE  i = j
  <2>1. \A k \in 1..Len(P) : P[k].inst # x
    BY <1>5 DEF P
  <2>2. CASE i \in 1..Len(P) /\ j \in 1..Len(P)
    <3>1. P[i].inst = P[j].inst
      BY <2>2, <1>2, <1>11
    <3> QED BY <2>2, <3>1, <1>10
  <2>3. CASE i \in 1..Len(P) /\ j = Len(P) + 1
    <3>1. P[i].inst = x
      BY <2>3, <1>2, <1>11
    <3> QED BY <2>1, <2>3, <3>1
  <2>4. CASE i = Len(P) + 1 /\ j \in 1..Len(P)
    <3>1. P[j].inst = x
      BY <2>4, <1>2, <1>11
    <3> QED BY <2>1, <2>4, <3>1
  <2>5. CASE i = Len(P) + 1 /\ j = Len(P) + 1
    BY <2>5
  <2> QED BY <2>2, <2>3, <2>4, <2>5, <1>7
<1>12. ASSUME NEW d \in Actor \ {a}, NEW i \in 1..Len(waiting), NEW j \in 1..Len(pendingLive[d])
       PROVE  waiting[i].inst # pendingLive[d][j].inst
  <2>1. CASE i \in 1..Len(P)
    <3>1. waiting[i].inst = pendingLive[a][i].inst /\ i \in 1..Len(pendingLive[a])
      BY <2>1, <1>2 DEF P
    <3> QED BY <3>1, <1>12 DEF IInv, WaitOnce
  <2>2. CASE i = Len(P) + 1
    BY <2>2, <1>2, <1>5
  <2> QED BY <2>1, <2>2, <1>7
<1>13. Waiting(a, held, waiting)
  BY <1>2, <1>8, <1>9, <1>11 DEF Waiting, T
<1>14. Fresh(a, waiting)
  BY <1>9, <1>12 DEF Fresh
<1> QED BY <1>13, <1>14

\* A recorded ask joins the recorded ones.
LEMMA RecordedWaits ==
    ASSUME IInv, NEW a \in Actor, NEW x \in DOMAIN rows, Wants(rows[x].caller).actor = a,
           \A s \in Site : ordinals[s] <= ordinals'[s] /\ ordinals'[s] \in Nat,
           NEW held, held = pendingRecorded[a] \cup {x},
           NEW waiting, waiting = pendingLive[a]
    PROVE  Waiting(a, held, waiting) /\ Fresh(a, waiting)
<1>1. waiting \in Seq([inst : Instance, caller : Caller]) /\ ordinals \in [Site -> Nat]
  BY DEF IInv, TypeOK, ActorTypes, ScriptTypes
<1>2. held \subseteq RowsOf(a)
  BY DEF RowsOf, IInv, WaitOnce, TypeOK, ActorTypes, Asked
<1>3. \A i \in 1..Len(waiting) : /\ waiting[i].inst \notin DOMAIN rows
                                 /\ waiting[i].caller \in CallersOf(script)
                                 /\ Wants(waiting[i].caller).actor = a
  BY DEF IInv, WaitOnce, Asked
<1>4. \A i, j \in 1..Len(waiting) : waiting[i].inst = waiting[j].inst => i = j
  BY DEF IInv, WaitOnce
<1>5. \A d \in Actor \ {a} : \A i \in 1..Len(waiting), j \in 1..Len(pendingLive[d]) :
        waiting[i].inst # pendingLive[d][j].inst
  BY DEF IInv, WaitOnce
<1>6. ASSUME NEW i \in 1..Len(waiting)
      PROVE  waiting[i].inst[2] <= ordinals'[waiting[i].inst[1]]
  <2> DEFINE y == waiting[i].inst
  <2>1. y \in Instance
    <3>1. waiting[i] \in [inst : Instance, caller : Caller]
      BY <1>1, ElementOfSeq
    <3> QED BY <3>1
  <2>2. y[2] <= ordinals[y[1]]
    BY DEF IInv, WaitOnce
  <2> HIDE DEF y
  <2>3. y[1] \in Site /\ y[2] \in Nat
    BY <2>1 DEF Instance
  <2>4. y[2] <= ordinals'[y[1]]
    BY <2>2, <2>3, <1>1
  <2> QED BY <2>4 DEF y
<1> QED BY <1>1, <1>2, <1>3, <1>4, <1>5, <1>6 DEF Waiting, Fresh
-----------------------------------------------------------------------------
(* The end of a run keeps the invariant. *)

\* What neither the journal's rows nor the actors' asks show of an end.
Ending ==
    /\ UNCHANGED <<script, rows, cap, life, actorVars, liveQueue, current, session, order,
                   answers, heard, overtaken>>
    /\ calls' \in [Branch -> Nat] /\ ordinals' \in [Site -> Nat]
    /\ \A s \in Site : ordinals[s] <= ordinals'[s]
    /\ read' \in 0..Len(answers)

\* The end of a run keeps the invariant.
LEMMA EndKeeps ==
    ASSUME IInv, NEW outcome \in Ended, End(outcome), Ending
    PROVE  IInv'
<1>1. /\ UNCHANGED <<script, rows, cap, life, liveQueue, current, session, order,
                     answers, heard, overtaken>>
      /\ UNCHANGED <<recorded, nextAdmitSeq, pendingRecorded, pendingLive>>
      /\ calls' \in [Branch -> Nat] /\ ordinals' \in [Site -> Nat]
      /\ \A s \in Site : ordinals[s] <= ordinals'[s]
      /\ read' \in 0..Len(answers)
  BY DEF Ending, actorVars
<1>2. /\ run' = outcome /\ run' # "running"
      /\ run' \in {"running", "dead", "stopped", "completed", "errored"}
      /\ liveNodes' = <<>> /\ activeAsks' = 0
      /\ cursor' = Len(order) /\ parked' = {}
      /\ events' = Logged(Among(order, parked) \o IF outcome = "errored" THEN <<>> ELSE liveNodes)
  BY DEF End, Ended
<1>3. events' \in Seq(DOMAIN rows)
  <2>1. /\ events \in Seq(DOMAIN rows) /\ order \in Seq(DOMAIN rows)
        /\ liveNodes \in Seq(DOMAIN rows)
    BY DEF IInv, TypeOK, JournalTypes, GateTypes, WorkTypes
  <2>2. Among(order, parked) \in Seq(DOMAIN rows)
    BY <2>1, AmongSelects
  <2> DEFINE live == IF outcome = "errored" THEN <<>> ELSE liveNodes
             cached == Among(order, parked)
             xs == cached \o live
  <2>2a. live \in Seq(DOMAIN rows)
    <3>1. <<>> \in Seq(DOMAIN rows)
      BY EmptySeq
    <3>2. live = <<>> \/ live = liveNodes
      OBVIOUS
    <3> HIDE DEF live
    <3> QED BY <2>1, <3>1, <3>2
  <2>4. events' = Logged(xs)
    BY <1>2
  <2> HIDE DEF live, cached
  <2>3. xs \in Seq(DOMAIN rows)
    BY <2>2, <2>2a DEF cached
  <2> HIDE DEF xs
  <2>5. Without(xs, ToSet(events)) \in Seq(DOMAIN rows)
    BY <2>3, WithoutSelects
  <2> QED BY <2>1, <2>4, <2>5 DEF Logged
<1>4. JournalTypes'
  BY <1>1, <1>2, <1>3 DEF IInv, TypeOK, JournalTypes
<1>5. ActorTypes'
  BY <1>1 DEF IInv, TypeOK, ActorTypes
<1>6. WorkTypes'
  BY <1>1, <1>2 DEF IInv, TypeOK, WorkTypes
<1>7. GateTypes'
  BY <1>1, <1>2 DEF IInv, TypeOK, GateTypes
<1>8. ScriptTypes'
  <2>1. Branch' = Branch
    BY <1>1 DEF Branch
  <2> QED BY <2>1, <1>1 DEF IInv, TypeOK, ScriptTypes
<1>9. TypeOK'
  BY <1>4, <1>5, <1>6, <1>7, <1>8 DEF TypeOK
<1>10. IsFiniteSet(DOMAIN rows') /\ NoneLive' /\ LiveUnsettled' /\ ParkedSettled'
  BY <1>1, <1>2 DEF IInv, NoneLive, LiveUnsettled, ParkedSettled
<1>11. Asked'
  <2>1. \A c : Wants(c)' = Wants(c)
    BY <1>1 DEF Wants
  <2> QED BY <2>1, <1>1 DEF IInv, Asked
<1>12. AnswersTrue' /\ Counted' /\ NoIdleActor'
  BY <1>1, <1>2 DEF IInv, AnswersTrue, Counted, NoIdleActor
<1>13. WaitOnce'
  <2>1. \A a \in Actor : \A i \in 1..Len(pendingLive[a]) :
          pendingLive[a][i].inst[2] <= ordinals'[pendingLive[a][i].inst[1]]
    <3> SUFFICES ASSUME NEW a \in Actor, NEW i \in 1..Len(pendingLive[a])
                 PROVE  pendingLive[a][i].inst[2] <= ordinals'[pendingLive[a][i].inst[1]]
      OBVIOUS
    <3> DEFINE y == pendingLive[a][i].inst
    <3>1. y \in Instance
      <4>1. pendingLive[a] \in Seq([inst : Instance, caller : Caller])
        BY DEF IInv, TypeOK, ActorTypes
      <4>2. pendingLive[a][i] \in [inst : Instance, caller : Caller]
        BY <4>1, ElementOfSeq
      <4> QED BY <4>2
    <3>2. y[2] <= ordinals[y[1]]
      BY DEF IInv, WaitOnce
    <3> HIDE DEF y
    <3>3. y[1] \in Site /\ y[2] \in Nat
      BY <3>1 DEF Instance
    <3>4. ordinals \in [Site -> Nat]
      BY DEF IInv, TypeOK, ScriptTypes
    <3>5. y[2] <= ordinals'[y[1]]
      BY <3>2, <3>3, <3>4, <1>1
    <3> QED BY <3>5 DEF y
  <2>2. /\ \A a \in Actor : \A x \in pendingRecorded[a] : rows[x].actor = a
        /\ \A a \in Actor : \A i \in 1..Len(pendingLive[a]) :
             pendingLive[a][i].inst \notin DOMAIN rows
    BY DEF IInv, WaitOnce
  <2>3. \A a, d \in Actor : \A i \in 1..Len(pendingLive[a]), j \in 1..Len(pendingLive[d]) :
          pendingLive[a][i].inst = pendingLive[d][j].inst => a = d /\ i = j
    BY DEF IInv, WaitOnce
  <2>4. pendingLive' = pendingLive /\ pendingRecorded' = pendingRecorded /\ rows' = rows
    BY <1>1
  <2> QED BY <2>1, <2>2, <2>3, <2>4 DEF WaitOnce
<1>14. Distinct' /\ Dense' /\ Admitted' /\ Below' /\ Lines'
  BY <1>1, <1>2 DEF IInv, Distinct, Dense, Admitted, Below, RowsOf, Lines
<1> QED BY <1>9, <1>10, <1>11, <1>12, <1>13, <1>14 DEF IInv

-----------------------------------------------------------------------------
(* Each step keeps the invariant. *)

\* An ask of the script keeps the invariant: it is admitted, or it ends the run.
LEMMA AskKeeps ==
    ASSUME IInv, run = "running", NEW b \in Branch, calls[b] < Len(script.asks[b]), Ask(b),
           script' = script, overtaken' = overtaken, read' \in 0..Len(answers)
    PROVE  IInv'
<1>1. script \in Scripts /\ calls \in [Branch -> Nat] /\ ordinals \in [Site -> Nat]
  BY DEF IInv, TypeOK, JournalTypes, ScriptTypes
<1>2. PICK c, s, x, a :
        /\ c = [branch |-> b, index |-> calls[b] + 1]
        /\ s = Wants(c).site /\ a = Wants(c).actor /\ x = <<s, ordinals[s] + 1>>
        /\ calls' = [calls EXCEPT ![b] = @ + 1]
        /\ ordinals' = [ordinals EXCEPT ![s] = @ + 1]
        /\ AdmitNew(x, c) \/ AdmitRecorded(x, c) \/ InputHashMismatch(x, c)
        /\ UNCHANGED <<cap, life, recorded, session, order>>
  BY DEF Ask
<1>3. c \in CallersOf(script) /\ a \in Actor /\ s \in Site
  BY <1>1, <1>2, NextCaller
<1>4. c \in Caller
  BY <1>1, <1>3 DEF Caller
<1>5. x \in Instance /\ x[1] = s /\ x[2] = ordinals[s] + 1
  BY <1>1, <1>2, <1>3 DEF Instance
<1>6. /\ calls' \in [Branch -> Nat] /\ ordinals' \in [Site -> Nat]
      /\ \A u \in Site : ordinals[u] <= ordinals'[u] /\ ordinals'[u] \in Nat
      /\ ordinals[s] < x[2] /\ x[2] <= ordinals'[s]
  BY <1>1, <1>2, <1>3, <1>5
<1>7. ASSUME run' = run PROVE Around
  BY <1>2, <1>6, <1>7 DEF Around
<1>8. CASE AdmitNew(x, c)
  <2>1. PICK held, waiting, scan :
          /\ held = pendingRecorded[a]
          /\ waiting = Append(pendingLive[a], [inst |-> x, caller |-> c])
          /\ scan = ActorOrder
          /\ Drain(a, held, waiting, scan) /\ x \notin DOMAIN rows /\ run' = run
    BY <1>2, <1>8 DEF AdmitNew
  <2>2. Waiting(a, held, waiting) /\ Fresh(a, waiting)
    BY <2>1, <1>2, <1>3, <1>4, <1>5, <1>6, NewWaits
  <2>3. scan \in Seq(Actor) /\ IsInjective(scan) /\ \E k \in 1..Len(scan) : scan[k] = a
    BY <2>1, <1>3, ScansOf
  <2>4. Around /\ Drain(a, held, waiting, scan)
    BY <2>1, <1>7
  <2> QED BY <2>2, <2>3, <2>4, <1>3, DrainKeeps
<1>9. CASE AdmitRecorded(x, c)
  <2>1. PICK held, waiting, scan :
          /\ held = pendingRecorded[a] \cup {x} /\ waiting = pendingLive[a] /\ scan = <<a>>
          /\ Drain(a, held, waiting, scan)
          /\ x \in DOMAIN rows /\ rows[x].caller = c /\ run' = run
    BY <1>2, <1>9 DEF AdmitRecorded
  <2>2. Wants(rows[x].caller).actor = a
    BY <2>1, <1>2
  <2>3. Waiting(a, held, waiting) /\ Fresh(a, waiting)
    BY <2>1, <2>2, <1>3, <1>6, RecordedWaits
  <2>4. scan \in Seq(Actor) /\ IsInjective(scan) /\ \E k \in 1..Len(scan) : scan[k] = a
    BY <2>1, <1>3, ScansOf
  <2>5. Around /\ Drain(a, held, waiting, scan)
    BY <2>1, <1>7
  <2> QED BY <2>3, <2>4, <2>5, <1>3, DrainKeeps
<1>10. CASE InputHashMismatch(x, c)
  <2>1. End("errored") /\ "errored" \in Ended
    BY <1>10 DEF InputHashMismatch, Ended
  <2>2. Ending
    BY <1>2, <1>6, <1>10 DEF InputHashMismatch, Ending, actorVars
  <2> QED BY <2>1, <2>2, EndKeeps
<1> QED BY <1>2, <1>8, <1>9, <1>10
\* The settlement of an actor's ask keeps the invariant: it was not settled before, so no
\* answer is about it; it stood first in the line of its actor, and the pump puts the
\* next one to work.
LEMMA SettleKeeps ==
    ASSUME IInv, NEW a \in Actor, NEW outcome \in {"ok", "failed"}, Settle(a, outcome),
           session' \in [Actor -> {"none", "ready", "broken"}]
    PROVE  IInv'
<1>1. PICK x, work, used, news :
        /\ x = current[a] /\ x \in ToSet(liveNodes)
        /\ overtaken' = IF Replayed THEN overtaken ELSE "yes"
        /\ rows' = [rows EXCEPT ![x].status = outcome]
        /\ news = <<[inst |-> x, outcome |-> outcome]>> /\ Answer(news)
        /\ liveNodes' = Without(liveNodes, {x})
        /\ work = [current EXCEPT ![a] = None] /\ used = activeAsks - 1
        /\ Pump(ActorOrder, liveQueue, work, used, cap)
        /\ UNCHANGED <<run, cap, life, actorVars, gateVars, ordinals, calls, read, script>>
  BY DEF Settle
<1>2. run = "running" /\ run' = run
  BY LateReport DEF IInv
<1>3. /\ UNCHANGED <<cap, life, recorded, nextAdmitSeq, pendingRecorded, pendingLive,
                     order, cursor, parked, ordinals, calls, read, script>>
  BY <1>1 DEF actorVars, gateVars
<1>4. /\ events \in Seq(DOMAIN rows) /\ DOMAIN rows \subseteq Instance
      /\ \A y \in DOMAIN rows : rows[y] \in Row
      /\ cap \in Nat /\ cap \in Caps
      /\ liveQueue \in [Actor -> Seq(DOMAIN rows)]
      /\ current \in [Actor -> DOMAIN rows \cup {None}]
      /\ liveNodes \in Seq(DOMAIN rows) /\ activeAsks \in Nat
      /\ answers \in Seq(News) /\ heard \in Seq(News)
  BY CapIsNat DEF IInv, TypeOK, JournalTypes, WorkTypes, ScriptTypes
<1>5. x \in DOMAIN rows /\ rows[x].status = "running"
  <2>0. liveNodes \in Seq(DOMAIN rows) /\ x \in { liveNodes[i] : i \in DOMAIN liveNodes }
    BY <1>1, <1>4 DEF ToSet
  <2>1. PICK i \in 1..Len(liveNodes) : x = liveNodes[i]
    BY <2>0
  <2>2. liveNodes[i] \in DOMAIN rows
    BY <1>4, <2>1, ElementOfSeq
  <2> QED BY <2>1, <2>2 DEF IInv, LiveUnsettled
<1>6. None \notin DOMAIN rows /\ x # None /\ x \in Instance
  BY <1>4, <1>5, ScriptsAssumption
<1>7. /\ DOMAIN rows' = DOMAIN rows
      /\ rows'[x] = [rows[x] EXCEPT !.status = outcome]
      /\ \A y \in DOMAIN rows : y # x => rows'[y] = rows[y]
  BY <1>1, <1>5
<1>8. /\ rows'[x] \in Row /\ rows'[x].status = outcome /\ rows'[x].status # "running"
      /\ rows'[x].actor = rows[x].actor /\ rows'[x].seq = rows[x].seq
      /\ rows'[x].caller = rows[x].caller
  BY <1>4, <1>5, <1>7 DEF Row
<1>9. /\ \A y \in DOMAIN rows' : rows'[y] \in Row
      /\ \A y \in DOMAIN rows : rows'[y].actor = rows[y].actor /\ rows'[y].seq = rows[y].seq
                                /\ rows'[y].caller = rows[y].caller
  BY <1>4, <1>7, <1>8
<1>10. rows[x].actor = a
  <2>1. Line(a, liveQueue[a], current[a], rows, nextAdmitSeq[a])
    BY DEF IInv, Lines
  <2> QED BY <2>1, <1>1, <1>6 DEF Line
<1>11. news \in Seq(News) /\ \A i \in 1..Len(news) : /\ news[i].inst = x
                                                      /\ news[i].outcome = outcome
  <2>1. [inst |-> x, outcome |-> outcome] \in News
    BY <1>6 DEF News
  <2> QED BY <2>1, <1>1
<1>12. /\ answers' = answers \o news /\ answers' \in Seq(News)
       /\ events' \in Seq(DOMAIN rows) /\ heard' \in Seq(News)
  <2>1. \A i \in 1..Len(news) : news[i].inst \in DOMAIN rows
    BY <1>5, <1>11
  <2> QED BY <1>1, <1>4, <1>11, <2>1, Answered
<1>13. liveNodes' \in Seq(DOMAIN rows) /\ \A i \in 1..Len(liveNodes') :
                                            liveNodes'[i] # x /\ rows[liveNodes'[i]].status = "running"
  <2> DEFINE left == Without(liveNodes, {x})
  <2>0. liveNodes \in Seq(DOMAIN rows)
    BY <1>4
  <2>1a. left \in Seq(DOMAIN rows) /\ \A i \in 1..Len(left) : left[i] \notin {x}
    BY <2>0, WithoutSelects
  <2>2a. \A i \in 1..Len(left) : \E k \in 1..Len(liveNodes) : left[i] = liveNodes[k]
    BY <2>0, WithoutSelects
  <2>2b. liveNodes' = left
    BY <1>1
  <2> HIDE DEF left
  <2>1. liveNodes' \in Seq(DOMAIN rows) /\ \A i \in 1..Len(liveNodes') : liveNodes'[i] # x
    BY <2>1a, <2>2b
  <2>2. \A i \in 1..Len(liveNodes') : \E k \in 1..Len(liveNodes) : liveNodes'[i] = liveNodes[k]
    BY <2>2a, <2>2b
  <2>3. \A k \in 1..Len(liveNodes) : rows[liveNodes[k]].status = "running"
    BY DEF IInv, LiveUnsettled
  <2> QED BY <2>1, <2>2, <2>3
<1>14. LiveUnsettled'
  <2> SUFFICES ASSUME NEW i \in 1..Len(liveNodes') PROVE rows'[liveNodes'[i]].status = "running"
    BY DEF LiveUnsettled
  <2>1. liveNodes'[i] \in DOMAIN rows
    BY <1>13, ElementOfSeq
  <2> QED BY <2>1, <1>7, <1>13
<1>15. /\ AsksOf(DOMAIN rows', liveQueue, work)
       /\ work[a] = None /\ \A d \in Actor : d # a => work[d] = current[d]
  BY <1>1, <1>4, <1>7 DEF AsksOf
<1>16. used \in Nat /\ used = Cardinality(AtWork(work))
  <2>1. activeAsks = Cardinality(Busy) /\ Busy = AtWork(current)
    BY <1>2 DEF IInv, Counted, Busy, AtWork
  <2>2. IsFiniteSet(Busy) /\ a \in Busy
    <3>1. Busy \in SUBSET Actor
      BY DEF Busy
    <3> QED BY <3>1, <1>1, <1>6, ActorsFinite, FS_Subset DEF Busy
  <2>3. AtWork(work) = Busy \ {a}
    BY <1>15 DEF AtWork, Busy
  <2>4. Cardinality(Busy \ {a}) = Cardinality(Busy) - 1 /\ IsFiniteSet(Busy \ {a})
    BY <2>2, FS_RemoveElement
  <2>5. Cardinality(Busy \ {a}) \in Nat
    BY <2>4, FS_CardinalityType
  <2> QED BY <2>1, <2>3, <2>4, <2>5, <1>1
<1>17. InLine(liveQueue, work, rows', nextAdmitSeq)
  <2> SUFFICES ASSUME NEW d \in Actor
               PROVE  Line(d, liveQueue[d], work[d], rows', nextAdmitSeq[d])
    BY DEF InLine
  <2>1. PICK r2, q, w, n, w2 : /\ r2 = rows' /\ q = liveQueue[d] /\ w = current[d]
                               /\ n = nextAdmitSeq[d] /\ w2 = work[d]
    OBVIOUS
  <2>2. Line(d, q, w, rows, n)
    BY <2>1 DEF IInv, Lines
  <2>3. w2 = IF w = x THEN None ELSE w
    <3>1. CASE d = a
      BY <3>1, <2>1, <1>1, <1>15
    <3>2. CASE d # a
      <4>1. w = x => rows[x].actor = d
        BY <2>2, <1>6 DEF Line
      <4> QED BY <4>1, <3>2, <2>1, <1>10, <1>15
    <3> QED BY <3>1, <3>2
  <2>4. /\ q \in Seq(DOMAIN rows) /\ w \in DOMAIN rows \cup {None}
        /\ \A i \in 1..Len(q) : q[i] \in DOMAIN rows
    <3>1. q \in Seq(DOMAIN rows) /\ w \in DOMAIN rows \cup {None}
      BY <2>1, <1>4
    <3> QED BY <3>1, ElementOfSeq
  <2>5. /\ DOMAIN r2 = DOMAIN rows /\ r2[x].status # "running"
        /\ r2[x].actor = rows[x].actor /\ r2[x].seq = rows[x].seq
        /\ \A y \in DOMAIN rows : y # x => r2[y] = rows[y]
    BY <2>1, <1>7, <1>8
  <2>6. Line(d, q, w2, r2, n)
    BY <2>2, <2>3, <2>4, <2>5, <1>5, <1>6, LineSettles
  <2> QED BY <2>1, <2>6
<1>18. /\ AsksOf(DOMAIN rows', liveQueue', current')
       /\ activeAsks' \in Nat
       /\ activeAsks' = Cardinality(AtWork(current'))
       /\ activeAsks' < cap => NoneIdles(liveQueue', current')
       /\ InLine(liveQueue', current', rows', nextAdmitSeq)
  <2>1. PICK r2, n, queue, scan : r2 = rows' /\ n = nextAdmitSeq /\ queue = liveQueue
                                  /\ scan = ActorOrder
    OBVIOUS
  <2>2. None \notin DOMAIN r2 /\ AsksOf(DOMAIN r2, queue, work) /\ InLine(queue, work, r2, n)
    BY <2>1, <1>6, <1>7, <1>15, <1>17
  <2>3. scan \in Seq(Actor) /\ IsInjective(scan) /\ Scans(scan, queue, work)
    BY <2>1, ScansOf DEF Scans
  <2>4. Pump(scan, queue, work, used, cap)
    BY <1>1, <2>1
  <2>5. /\ AsksOf(DOMAIN r2, liveQueue', current')
        /\ activeAsks' \in Nat
        /\ activeAsks' = Cardinality(AtWork(current'))
        /\ activeAsks' < cap => NoneIdles(liveQueue', current')
        /\ InLine(liveQueue', current', r2, n)
    BY <2>2, <2>3, <2>4, <1>4, <1>16, PumpKeeps
  <2> QED BY <2>1, <2>5
<1>19. WorkTypes'
  BY <1>7, <1>13, <1>18 DEF WorkTypes, AsksOf
<1>20. Counted' /\ NoIdleActor'
  <2>1. Busy' = AtWork(current')
    BY DEF Busy, AtWork
  <2> QED BY <2>1, <1>3, <1>18 DEF Counted, NoIdleActor, NoneIdles, Busy
<1>21. Lines'
  BY <1>3, <1>18 DEF Lines, InLine
<1>22. JournalTypes' /\ ActorTypes' /\ GateTypes'
  BY <1>2, <1>3, <1>7, <1>9, <1>12
     DEF IInv, TypeOK, JournalTypes, ActorTypes, GateTypes
<1>23. ScriptTypes'
  <2>1. Branch' = Branch
    BY <1>3 DEF Branch
  <2>2. overtaken' \in {"no", "yes"}
    BY <1>1 DEF IInv, TypeOK, ScriptTypes
  <2>3. read' \in 0..Len(answers')
    <3>1. Len(answers) <= Len(answers') /\ Len(answers) \in Nat /\ Len(answers') \in Nat
      BY <1>4, <1>11, <1>12, Longer
    <3> QED BY <3>1, <1>3 DEF IInv, TypeOK, ScriptTypes
  <2> QED BY <2>1, <2>2, <2>3, <1>3, <1>12 DEF IInv, TypeOK, ScriptTypes
<1>24. TypeOK'
  BY <1>19, <1>22, <1>23 DEF TypeOK
<1>25. AnswersTrue'
  <2>1. \A i \in 1..Len(answers) :
           answers[i].inst \in DOMAIN rows =>
             rows'[answers[i].inst].status = rows[answers[i].inst].status
    <3> SUFFICES ASSUME NEW i \in 1..Len(answers), answers[i].inst \in DOMAIN rows
                 PROVE  rows'[answers[i].inst].status = rows[answers[i].inst].status
      OBVIOUS
    <3>1. answers[i] \in News
      BY <1>4, ElementOfSeq
    <3>2. rows[answers[i].inst].status = answers[i].outcome
      BY DEF IInv, AnswersTrue
    <3>3. answers[i].inst # x
      BY <3>1, <3>2, <1>5 DEF News
    <3> QED BY <3>3, <1>7
  <2>2. \A i \in 1..Len(news) : /\ news[i].inst \in DOMAIN rows'
                                /\ rows'[news[i].inst].status = news[i].outcome
    BY <1>5, <1>7, <1>8, <1>11
  <2>3. AnswersTrue /\ DOMAIN rows \subseteq DOMAIN rows'
    BY <1>7 DEF IInv
  <2> QED BY <2>1, <2>2, <2>3, <1>4, <1>11, <1>12, AnswersStayTrue
<1>26. ParkedSettled'
  <2>1. parked \subseteq DOMAIN rows
    <3>1. order \in Seq(DOMAIN rows) /\ parked \subseteq ToSet(order)
      BY DEF IInv, TypeOK, GateTypes
    <3> QED BY <3>1 DEF ToSet
  <2>2. \A y \in parked : rows'[y] = rows[y]
    BY <2>1, <1>5, <1>7 DEF IInv, ParkedSettled, Settled
  <2> QED BY <2>2, <1>3 DEF IInv, ParkedSettled, Settled
<1>27. NoneLive' /\ IsFiniteSet(DOMAIN rows')
  BY <1>2, <1>7 DEF IInv, NoneLive
<1>28. Asked'
  <2>1. \A c : Wants(c)' = Wants(c)
    BY <1>3 DEF Wants
  <2> QED BY <2>1, <1>3, <1>7, <1>9 DEF IInv, Asked
<1>29. WaitOnce'
  <2>1. \A d \in Actor : pendingRecorded[d] \subseteq DOMAIN rows
    BY DEF IInv, TypeOK, ActorTypes
  <2>2. \A d \in Actor : \A y \in pendingRecorded[d] : rows'[y].actor = d
    BY <2>1, <1>9 DEF IInv, WaitOnce
  <2> QED BY <2>2, <1>3, <1>7 DEF IInv, WaitOnce
<1>30. \A d : RowsOf(d)' = RowsOf(d)
  BY <1>7, <1>9 DEF RowsOf
<1>31. Distinct'
  BY <1>7, <1>9 DEF IInv, Distinct
<1>32. Dense'
  <2> SUFFICES ASSUME NEW y \in DOMAIN rows, NEW k \in 0..(rows[y].seq - 1)
               PROVE  \E z \in RowsOf(rows[y].actor) : rows'[z].seq = k
    BY <1>7, <1>9, <1>30 DEF Dense
  <2>1. PICK z \in RowsOf(rows[y].actor) : rows[z].seq = k
    BY DEF IInv, Dense
  <2> QED BY <2>1, <1>9 DEF RowsOf
<1>33. Admitted'
  <2> SUFFICES ASSUME NEW d \in Actor, NEW k \in 0..(nextAdmitSeq[d] - 1)
               PROVE  \E z \in RowsOf(d) : rows'[z].seq = k
    BY <1>3, <1>30 DEF Admitted
  <2>1. PICK z \in RowsOf(d) : rows[z].seq = k
    BY DEF IInv, Admitted
  <2> QED BY <2>1, <1>9 DEF RowsOf
<1>34. Below'
  BY <1>2, <1>3, <1>7, <1>9 DEF IInv, Below
<1> QED BY <1>14, <1>20, <1>21, <1>24, <1>25, <1>26, <1>27, <1>28, <1>29, <1>31, <1>32, <1>33, <1>34
        DEF IInv
\* A new engine keeps the invariant: nothing is at work, and when the run goes on each
\* actor's numbers lie below the rows it has.
LEMMA EngineKeeps ==
    ASSUME IInv, NEW known \in [Actor -> Nat], NEW o \in Seq(DOMAIN rows), Engine(known, o),
           UNCHANGED <<rows, events, cap, heard, overtaken, script>>,
           run' \in {"running", "dead"}, life' \in 1..MaxLives,
           run' = "running" =>
             \A x \in DOMAIN rows : rows[x].seq < known[rows[x].actor]
    PROVE  IInv'
<1>1. /\ recorded' = known
      /\ nextAdmitSeq' = [a \in Actor |-> 0]
      /\ pendingRecorded' = [a \in Actor |-> {}]
      /\ pendingLive' = [a \in Actor |-> <<>>]
      /\ liveQueue' = [a \in Actor |-> <<>>]
      /\ current' = [a \in Actor |-> None]
      /\ session' = [a \in Actor |-> "none"]
      /\ liveNodes' = <<>> /\ activeAsks' = 0
      /\ order' = o /\ cursor' = 0 /\ parked' = {}
      /\ ordinals' = [s \in Site |-> 0]
      /\ calls' = [b \in Branch |-> 0]
      /\ answers' = <<>> /\ read' = 0
  BY DEF Engine
<1>2. /\ <<>> \in Seq(DOMAIN rows) /\ <<>> \in Seq(News) /\ Len(<<>>) = 0
      /\ <<>> \in Seq([inst : Instance, caller : Caller])
      /\ \A q : q = <<>> => ~ \E i \in 1..Len(q) : TRUE
  BY EmptySeq
<1>3. JournalTypes'
  BY DEF IInv, TypeOK, JournalTypes
<1>4. ActorTypes'
  BY <1>1, <1>2 DEF ActorTypes
<1>5. WorkTypes'
  BY <1>1, <1>2 DEF WorkTypes
<1>6. GateTypes'
  <2>1. Len(o) \in Nat
    BY LenProperties
  <2> QED BY <2>1, <1>1 DEF GateTypes
<1>7. ScriptTypes'
  <2>1. Branch' = Branch
    BY DEF Branch
  <2> QED BY <2>1, <1>1, <1>2 DEF IInv, TypeOK, ScriptTypes
<1>8. TypeOK'
  BY <1>3, <1>4, <1>5, <1>6, <1>7 DEF TypeOK
<1>9. /\ IsFiniteSet(DOMAIN rows') /\ NoneLive' /\ LiveUnsettled' /\ ParkedSettled'
      /\ AnswersTrue' /\ Distinct' /\ Dense'
  BY <1>1, <1>2, SMTT(30)
     DEF IInv, NoneLive, LiveUnsettled, ParkedSettled, AnswersTrue, Distinct, Dense, RowsOf
<1>10. Asked'
  <2>1. \A c : Wants(c)' = Wants(c)
    BY DEF Wants
  <2> QED BY <2>1, <1>1, <1>2 DEF IInv, Asked
<1>11. WaitOnce'
  BY <1>1, <1>2 DEF WaitOnce
<1>12. Counted' /\ NoIdleActor'
  <2>1. Busy' = {} /\ Cardinality({}) = 0
    BY <1>1, FS_EmptySet DEF Busy
  <2>2. \A a \in Actor : liveQueue'[a] = <<>>
    BY <1>1
  <2> QED BY <2>1, <2>2, <1>1 DEF Counted, NoIdleActor
<1>13. Admitted'
  BY <1>1 DEF Admitted
<1>14. Below'
  BY <1>1 DEF Below
<1>15. Lines'
  <2> SUFFICES ASSUME NEW a \in Actor
               PROVE  Line(a, liveQueue'[a], current'[a], rows', nextAdmitSeq'[a])
    BY DEF Lines
  <2>1. liveQueue'[a] = <<>> /\ current'[a] = None /\ nextAdmitSeq'[a] = 0
    BY <1>1
  <2>2. \A x \in DOMAIN rows : rows[x].seq \in Nat
    BY DEF IInv, TypeOK, JournalTypes, Row
  <2>3. \A x \in DOMAIN rows : ~(rows[x].seq < 0)
    BY <2>2
  <2> QED BY <2>1, <2>3, <1>2 DEF Line
<1> QED BY <1>8, <1>9, <1>10, <1>11, <1>12, <1>13, <1>14, <1>15 DEF IInv

\* A resumed run: the rows of an actor outnumber each of its numbers.
LEMMA ResumeKeeps ==
    ASSUME IInv, Resume
    PROVE  IInv'
<1> DEFINE known == [a \in Actor |-> Cardinality({ x \in DOMAIN rows : rows[x].actor = a })]
<1>1. \A a \in Actor : IsFiniteSet(RowsOf(a)) /\ Cardinality(RowsOf(a)) \in Nat
  <2> SUFFICES ASSUME NEW a \in Actor
               PROVE  IsFiniteSet(RowsOf(a)) /\ Cardinality(RowsOf(a)) \in Nat
    OBVIOUS
  <2>1. RowsOf(a) \in SUBSET DOMAIN rows /\ IsFiniteSet(DOMAIN rows)
    BY DEF RowsOf, IInv
  <2>2. IsFiniteSet(RowsOf(a))
    BY <2>1, FS_Subset
  <2> QED BY <2>2, FS_CardinalityType
<1>2. \A a \in Actor : known[a] = Cardinality(RowsOf(a))
  BY DEF RowsOf
<1>3. known \in [Actor -> Nat]
  BY <1>1, <1>2
<1>4. /\ Engine(known, RecordedOrder)
      /\ UNCHANGED <<rows, events, cap, heard, overtaken, script>>
      /\ run' = "running" /\ life' = life + 1 /\ life < MaxLives
  BY DEF Resume
<1> HIDE DEF known
<1>5. \A x \in DOMAIN rows : rows[x].seq < known[rows[x].actor]
  <2> SUFFICES ASSUME NEW x \in DOMAIN rows PROVE rows[x].seq < known[rows[x].actor]
    OBVIOUS
  <2>1. PICK a, R : a = rows[x].actor /\ R = RowsOf(a)
    OBVIOUS
  <2>2. a \in Actor /\ \A y \in DOMAIN rows : rows[y].seq \in Nat
    BY <2>1 DEF IInv, TypeOK, JournalTypes, Row
  <2>3. x \in R /\ IsFiniteSet(R) /\ \A y \in R : rows[y].seq \in Nat
    BY <2>1, <2>2, <1>1 DEF RowsOf
  <2>4. \A k \in 0..(rows[x].seq - 1) : \E y \in R : rows[y].seq = k
    BY <2>1 DEF IInv, Dense
  <2>5. rows[x].seq < Cardinality(R)
    BY <2>3, <2>4, NumberBelowCount
  <2> QED BY <2>1, <2>2, <2>5, <1>2
<1>6. RecordedOrder \in Seq(DOMAIN rows)
  <2>1. events \in Seq(DOMAIN rows)
    BY DEF IInv, TypeOK, JournalTypes
  <2> QED BY <2>1, AmongSelects DEF RecordedOrder
<1>7. life' \in 1..MaxLives
  <2>1. life \in 1..MaxLives /\ MaxLives \in Nat
    BY AskSchedulerAssumption DEF IInv, TypeOK, JournalTypes
  <2> QED BY <2>1, <1>4
<1>8. run' \in {"running", "dead"}
  BY <1>4
<1> QED BY <1>3, <1>4, <1>5, <1>6, <1>7, <1>8, EngineKeeps

\* A dead process leaves the journal.
LEMMA CrashKeeps ==
    ASSUME IInv, Crash
    PROVE  IInv'
<1> DEFINE known == [a \in Actor |-> 0]
           o == <<>>
<1>1. /\ Engine(known, o)
      /\ UNCHANGED <<rows, events, cap, heard, overtaken, script>>
      /\ run' = "dead" /\ life' = life
  BY DEF Crash
<1>2. known \in [Actor -> Nat] /\ o \in Seq(DOMAIN rows)
  BY EmptySeq
<1> HIDE DEF known, o
<1>3. life' \in 1..MaxLives /\ run' \in {"running", "dead"} /\ run' # "running"
  BY <1>1 DEF IInv, TypeOK, JournalTypes
<1> QED BY <1>1, <1>2, <1>3, EngineKeeps

\* A raised cap puts asks to work; with a lowered one there is less room than before.
LEMMA RetuneKeeps ==
    ASSUME IInv, NEW n \in Caps, Retune(n)
    PROVE  IInv'
<1>1. /\ run = "running" /\ n # cap /\ cap' = n
      /\ UNCHANGED <<run, rows, events, life, recorded, nextAdmitSeq, pendingRecorded,
                     pendingLive, session, liveNodes, order, cursor, parked, ordinals, calls,
                     answers, read, heard, overtaken, script>>
  BY DEF Retune, actorVars, gateVars, scriptVars
<1>2. cap \in Nat /\ n \in Nat
  BY CapIsNat DEF IInv, TypeOK, JournalTypes
<1>3. /\ liveQueue \in [Actor -> Seq(DOMAIN rows)]
      /\ current \in [Actor -> DOMAIN rows \cup {None}]
      /\ session \in [Actor -> {"none", "ready", "broken"}]
      /\ liveNodes \in Seq(DOMAIN rows) /\ activeAsks \in Nat
  BY DEF IInv, TypeOK, WorkTypes
<1>4. /\ AsksOf(DOMAIN rows, liveQueue', current') /\ activeAsks' \in Nat
      /\ activeAsks' = Cardinality(AtWork(current'))
      /\ activeAsks' < n => NoneIdles(liveQueue', current')
      /\ InLine(liveQueue', current', rows, nextAdmitSeq)
  <2>1. Busy = AtWork(current) /\ activeAsks = Cardinality(AtWork(current))
    BY <1>1 DEF IInv, Counted, Busy, AtWork
  <2>2. InLine(liveQueue, current, rows, nextAdmitSeq) /\ AsksOf(DOMAIN rows, liveQueue, current)
    BY <1>3 DEF IInv, Lines, InLine, AsksOf
  <2>3. CASE n > cap
    <3>1. PICK r, m, queue, work, scan : /\ r = rows /\ m = nextAdmitSeq /\ queue = liveQueue
                                         /\ work = current /\ scan = ActorOrder
      OBVIOUS
    <3>2. None \notin DOMAIN r
      BY <3>1, ScriptsAssumption DEF IInv, TypeOK, JournalTypes
    <3>3. AsksOf(DOMAIN r, queue, work) /\ InLine(queue, work, r, m)
      BY <3>1, <2>2
    <3>4. scan \in Seq(Actor) /\ IsInjective(scan) /\ Scans(scan, queue, work)
      BY <3>1, ScansOf DEF Scans
    <3>5. Pump(scan, queue, work, activeAsks, n)
      BY <3>1, <2>3 DEF Retune
    <3>6. activeAsks = Cardinality(AtWork(work))
      BY <3>1, <2>1
    <3>7. /\ AsksOf(DOMAIN r, liveQueue', current') /\ activeAsks' \in Nat
          /\ activeAsks' = Cardinality(AtWork(current'))
          /\ activeAsks' < n => NoneIdles(liveQueue', current')
          /\ InLine(liveQueue', current', r, m)
      BY <3>2, <3>3, <3>4, <3>5, <3>6, <1>2, <1>3, PumpKeeps
    <3> QED BY <3>1, <3>7
  <2>4. CASE ~(n > cap)
    <3>1. liveQueue' = liveQueue /\ current' = current /\ activeAsks' = activeAsks
      BY <2>4 DEF Retune
    <3>2. activeAsks < n => NoneIdles(liveQueue, current)
      <4> SUFFICES ASSUME activeAsks < n PROVE NoneIdles(liveQueue, current)
        OBVIOUS
      <4>1. activeAsks < cap
        BY <2>4, <1>2, <1>3
      <4>2. Cardinality(Busy) < cap
        BY <4>1, <2>1
      <4>3. \A a \in Actor \ Busy : liveQueue[a] = <<>>
        BY <4>2, <1>1 DEF IInv, NoIdleActor
      <4> QED BY <4>3 DEF NoneIdles, Busy
    <3> QED BY <3>1, <3>2, <2>1, <2>2, <1>3
  <2> QED BY <2>3, <2>4
<1>5. TypeOK'
  <2>1. WorkTypes'
    BY <1>1, <1>3, <1>4 DEF WorkTypes, AsksOf
  <2>2. JournalTypes' /\ ActorTypes' /\ GateTypes'
    BY <1>1 DEF IInv, TypeOK, JournalTypes, ActorTypes, GateTypes
  <2>3. ScriptTypes'
    <3>1. Branch' = Branch
      BY <1>1 DEF Branch
    <3> QED BY <3>1, <1>1 DEF IInv, TypeOK, ScriptTypes
  <2> QED BY <2>1, <2>2, <2>3 DEF TypeOK
<1>6. /\ IsFiniteSet(DOMAIN rows') /\ NoneLive' /\ LiveUnsettled' /\ ParkedSettled'
      /\ AnswersTrue' /\ Distinct' /\ Dense' /\ Admitted' /\ Below' /\ WaitOnce'
  BY <1>1 DEF IInv, NoneLive, LiveUnsettled, ParkedSettled, Settled, AnswersTrue, Distinct, Dense,
              Admitted, Below, RowsOf, WaitOnce
<1>7. Asked'
  <2>1. \A c : Wants(c)' = Wants(c)
    BY <1>1 DEF Wants
  <2> QED BY <2>1, <1>1 DEF IInv, Asked
<1>8. Counted' /\ NoIdleActor'
  <2>1. Busy' = AtWork(current')
    BY DEF Busy, AtWork
  <2> QED BY <2>1, <1>1, <1>4 DEF Counted, NoIdleActor, NoneIdles, Busy
<1>9. Lines'
  BY <1>1, <1>4 DEF Lines, InLine
<1> QED BY <1>5, <1>6, <1>7, <1>8, <1>9 DEF IInv

\* A step of the script's reading that asks nothing, or of a session that opens.
LEMMA ReadKeeps ==
    ASSUME IInv,
           UNCHANGED <<journalVars, actorVars, liveQueue, current, liveNodes, activeAsks,
                       gateVars, ordinals, calls, answers, heard, overtaken, script>>,
           read' \in 0..Len(answers), session' \in [Actor -> {"none", "ready", "broken"}]
    PROVE  IInv'
<1>1. UNCHANGED <<run, rows, events, cap, life, recorded, nextAdmitSeq, pendingRecorded,
                  pendingLive, liveQueue, current, liveNodes, activeAsks, order, cursor, parked,
                  ordinals, calls, answers, heard, overtaken, script>>
  BY DEF journalVars, actorVars, gateVars
<1>2. TypeOK'
  <2>1. JournalTypes' /\ ActorTypes' /\ WorkTypes' /\ GateTypes'
    BY <1>1 DEF IInv, TypeOK, JournalTypes, ActorTypes, WorkTypes, GateTypes
  <2>2. ScriptTypes'
    <3>1. Branch' = Branch
      BY <1>1 DEF Branch
    <3> QED BY <3>1, <1>1 DEF IInv, TypeOK, ScriptTypes
  <2> QED BY <2>1, <2>2 DEF TypeOK
<1>3. /\ IsFiniteSet(DOMAIN rows') /\ NoneLive' /\ LiveUnsettled' /\ ParkedSettled'
      /\ AnswersTrue' /\ Distinct' /\ Dense' /\ Admitted' /\ Below' /\ WaitOnce'
  BY <1>1 DEF IInv, NoneLive, LiveUnsettled, ParkedSettled, Settled, AnswersTrue, Distinct, Dense,
              Admitted, Below, RowsOf, WaitOnce
<1>4. Asked'
  <2>1. \A c : Wants(c)' = Wants(c)
    BY <1>1 DEF Wants
  <2> QED BY <2>1, <1>1 DEF IInv, Asked
<1>5. Counted' /\ NoIdleActor' /\ Lines'
  BY <1>1 DEF IInv, Counted, NoIdleActor, Busy, Lines
<1> QED BY <1>2, <1>3, <1>4, <1>5 DEF IInv

\* The script reads an answer, and the branch that waited for it may ask again.
LEMMA ReadAnswerKeeps ==
    ASSUME IInv, ReadAnswer
    PROVE  IInv'
<1>1. PICK got, b :
        /\ got = answers[read + 1] /\ b = rows[got.inst].caller.branch
        /\ \/ calls[b] < Len(script.asks[b]) /\ Ask(b)
           \/ UNCHANGED <<journalVars, actorVars, workVars, gateVars, ordinals, calls, answers,
                          heard>>
  BY DEF ReadAnswer
<1>2. run = "running" /\ read < Len(answers) /\ read' = read + 1
      /\ UNCHANGED <<overtaken, script>>
  BY DEF ReadAnswer
<1>3. answers \in Seq(News) /\ read \in 0..Len(answers)
  BY DEF IInv, TypeOK, ScriptTypes
<1>4. Len(answers) \in Nat
  BY <1>3, LenProperties
<1>5. read' \in 0..Len(answers) /\ read + 1 \in 1..Len(answers)
  BY <1>2, <1>3, <1>4
<1>6. b \in Branch
  <2>1. got.inst \in DOMAIN rows
    BY <1>1, <1>5 DEF IInv, AnswersTrue
  <2>2. rows[got.inst].caller \in CallersOf(script)
    BY <2>1 DEF IInv, Asked
  <2>3. PICK e \in DOMAIN script.asks :
          \E i \in DOMAIN script.asks[e] : rows[got.inst].caller = [branch |-> e, index |-> i]
    BY <2>2 DEF CallersOf
  <2> QED BY <2>3, <1>1 DEF Branch
<1>7. CASE calls[b] < Len(script.asks[b]) /\ Ask(b)
  BY <1>2, <1>5, <1>6, <1>7, AskKeeps
<1>8. CASE UNCHANGED <<journalVars, actorVars, workVars, gateVars, ordinals, calls, answers,
                       heard>>
  <2>1. /\ UNCHANGED <<journalVars, actorVars, liveQueue, current, liveNodes, activeAsks,
                       gateVars, ordinals, calls, answers, heard, overtaken, script>>
        /\ session' = session
    BY <1>2, <1>8 DEF workVars
  <2>2. session' \in [Actor -> {"none", "ready", "broken"}]
    BY <2>1 DEF IInv, TypeOK, WorkTypes
  <2> QED BY <2>1, <2>2, <1>5, ReadKeeps
<1> QED BY <1>1, <1>7, <1>8
\* An engine that runs the script makes the first ask of a branch only while it has none.
LEMMA StartKeeps ==
    ASSUME IInv, NEW b \in Branch, StartBranch(b)
    PROVE  IInv'
<1>1. /\ run = "running" /\ calls[b] = 0 /\ Ask(b)
      /\ UNCHANGED <<read, overtaken, script>>
  BY DEF StartBranch
<1>2. calls[b] < Len(script.asks[b])
  <2>1. script \in Scripts
    BY DEF IInv, TypeOK, JournalTypes
  <2>2. Len(script.asks[b]) \in Nat \ {0}
    BY <2>1, ScriptsAssumption DEF Branch
  <2> QED BY <2>2, <1>1
<1>3. read' \in 0..Len(answers)
  BY <1>1 DEF IInv, TypeOK, ScriptTypes
<1> QED BY <1>1, <1>2, <1>3, AskKeeps

\* A run that its script or a stop ends.
LEMMA EndsKeep ==
    ASSUME IInv, Complete \/ Stop
    PROVE  IInv'
<1>1. PICK outcome \in Ended : End(outcome)
  BY DEF Complete, Stop, Ended
<1>2. UNCHANGED <<rows, cap, life, actorVars, liveQueue, current, session, order, scriptVars,
                  overtaken, script>>
  BY DEF Complete, Stop
<1>3. ordinals \in [Site -> Nat] /\ calls \in [Branch -> Nat] /\ read \in 0..Len(answers)
  BY DEF IInv, TypeOK, ScriptTypes
<1>4. UNCHANGED <<ordinals, calls, answers, read, heard>>
  BY <1>2 DEF scriptVars
<1>5. \A s \in Site : ordinals[s] <= ordinals'[s]
  BY <1>3, <1>4
<1>6. Ending
  BY <1>2, <1>3, <1>4, <1>5 DEF Ending
<1> QED BY <1>1, <1>6, EndKeeps

\* A run begins with an empty journal.
LEMMA InvariantInitially == Init => IInv
<1> SUFFICES ASSUME Init PROVE IInv
  OBVIOUS
<1>1. /\ script \in Scripts
      /\ run = "running" /\ rows = <<>> /\ events = <<>>
      /\ cap = Largest(Caps) /\ life = 1
      /\ recorded = [a \in Actor |-> 0]
      /\ nextAdmitSeq = [a \in Actor |-> 0]
      /\ pendingRecorded = [a \in Actor |-> {}]
      /\ pendingLive = [a \in Actor |-> <<>>]
      /\ liveQueue = [a \in Actor |-> <<>>]
      /\ current = [a \in Actor |-> None]
      /\ session = [a \in Actor |-> "none"]
      /\ liveNodes = <<>> /\ activeAsks = 0
      /\ order = <<>> /\ cursor = 0 /\ parked = {}
      /\ ordinals = [s \in Site |-> 0]
      /\ calls = [b \in Branch |-> 0]
      /\ answers = <<>> /\ read = 0 /\ heard = <<>>
      /\ overtaken = "no"
  BY DEF Init
<1>2. DOMAIN rows = {} /\ IsFiniteSet({}) /\ Cardinality({}) = 0
  BY <1>1, FS_EmptySet
<1>3. /\ \A D : <<>> \in Seq(D)
      /\ Len(<<>>) = 0 /\ \A q : q = <<>> => ~ \E i \in 1..Len(q) : TRUE
  BY EmptySeq
<1>4. JournalTypes
  <2>1. cap \in Caps
    <3>1. Caps \in SUBSET Nat /\ IsFiniteSet(Caps) /\ Caps # {}
      BY AskSchedulerAssumption
    <3>2. Largest(Caps) \in Caps
      BY <3>1, LargestIsGreatest
    <3> QED BY <3>2, <1>1
  <2>2. life \in 1..MaxLives
    BY <1>1, AskSchedulerAssumption
  <2>3. events \in Seq(DOMAIN rows)
    BY <1>1, <1>3
  <2> QED BY <2>1, <2>2, <2>3, <1>1, <1>2 DEF JournalTypes
<1>5. ActorTypes
  BY <1>1, <1>3 DEF ActorTypes
<1>6. WorkTypes
  BY <1>1, <1>3 DEF WorkTypes
<1>7. GateTypes
  BY <1>1, <1>3 DEF GateTypes
<1>8. ScriptTypes
  BY <1>1, <1>3 DEF ScriptTypes
<1>9. TypeOK
  BY <1>4, <1>5, <1>6, <1>7, <1>8 DEF TypeOK
<1>10. /\ NoneLive /\ Asked /\ LiveUnsettled /\ ParkedSettled /\ AnswersTrue /\ WaitOnce
       /\ Distinct /\ Dense /\ Below
  BY <1>1, <1>2, <1>3 DEF NoneLive, Asked, LiveUnsettled, ParkedSettled, AnswersTrue, WaitOnce,
                          Distinct, Dense, Below
<1>11. Admitted
  BY <1>1 DEF Admitted
<1>12. Counted /\ NoIdleActor
  <2>1. Busy = {}
    BY <1>1 DEF Busy
  <2> QED BY <2>1, <1>1, <1>2 DEF Counted, NoIdleActor
<1>13. Lines
  <2> SUFFICES ASSUME NEW a \in Actor
               PROVE  Line(a, liveQueue[a], current[a], rows, nextAdmitSeq[a])
    BY DEF Lines
  <2>1. liveQueue[a] = <<>> /\ current[a] = None
    BY <1>1
  <2> QED BY <2>1, <1>2, <1>3 DEF Line
<1> QED BY <1>2, <1>9, <1>10, <1>11, <1>12, <1>13 DEF IInv

\* Every step of the run, of its scheduler, of its crashes and resumptions keeps it.
LEMMA InvariantKept == IInv /\ [Next]_vars => IInv'
<1> SUFFICES ASSUME IInv, [Next]_vars PROVE IInv'
  OBVIOUS
<1>1. ASSUME NEW b \in Branch, StartBranch(b) PROVE IInv'
  BY <1>1, StartKeeps
<1>2. CASE ReadAnswer
  BY <1>2, ReadAnswerKeeps
<1>3. CASE Complete \/ Stop
  BY <1>3, EndsKeep
<1>4. ASSUME NEW a \in Actor, SessionOpens(a) PROVE IInv'
  <2>1. /\ UNCHANGED <<journalVars, actorVars, liveQueue, current, liveNodes, activeAsks,
                       gateVars, ordinals, calls, answers, heard, overtaken, script>>
        /\ read' = read /\ session' = [session EXCEPT ![a] = "ready"]
    BY <1>4 DEF SessionOpens, scriptVars
  <2>2. /\ read' \in 0..Len(answers)
        /\ session' \in [Actor -> {"none", "ready", "broken"}]
    BY <2>1 DEF IInv, TypeOK, ScriptTypes, WorkTypes
  <2> QED BY <2>1, <2>2, ReadKeeps
<1>5. ASSUME NEW a \in Actor, NEW o \in {"ok", "failed"}, TurnEnds(a, o) PROVE IInv'
  <2>1. Settle(a, o) /\ session' = session
    BY <1>5 DEF TurnEnds
  <2>2. session' \in [Actor -> {"none", "ready", "broken"}]
    BY <2>1 DEF IInv, TypeOK, WorkTypes
  <2> QED BY <2>1, <2>2, SettleKeeps
<1>6. ASSUME NEW a \in Actor, SessionFails(a) PROVE IInv'
  <2>1. Settle(a, "failed") /\ session' = [session EXCEPT ![a] = "broken"]
    BY <1>6 DEF SessionFails
  <2>2. session' \in [Actor -> {"none", "ready", "broken"}]
    BY <2>1 DEF IInv, TypeOK, WorkTypes
  <2>3. "failed" \in {"ok", "failed"}
    OBVIOUS
  <2> QED BY <2>1, <2>2, <2>3, SettleKeeps
<1>7. ASSUME NEW n \in Caps, Retune(n) PROVE IInv'
  BY <1>7, RetuneKeeps
<1>8. CASE Crash
  BY <1>8, CrashKeeps
<1>9. CASE Resume
  BY <1>9, ResumeKeeps
<1>10. CASE UNCHANGED vars
  <2>1. /\ UNCHANGED <<journalVars, actorVars, liveQueue, current, liveNodes, activeAsks,
                       gateVars, ordinals, calls, answers, heard, overtaken, script>>
        /\ read' = read /\ session' = session
    BY <1>10 DEF vars, workVars, scriptVars
  <2>2. /\ read' \in 0..Len(answers)
        /\ session' \in [Actor -> {"none", "ready", "broken"}]
    BY <2>1 DEF IInv, TypeOK, ScriptTypes, WorkTypes
  <2> QED BY <2>1, <2>2, ReadKeeps
<1> QED BY <1>1, <1>2, <1>3, <1>4, <1>5, <1>6, <1>7, <1>8, <1>9, <1>10 DEF Next, Goes

\* Every run, with its crashes, stops and resumptions, keeps the invariant.
THEOREM SchedulerInvariance == Spec => []IInv
BY InvariantInitially, InvariantKept, PTL DEF Spec

\* Every variable keeps its type.
THEOREM SchedulerTypeCorrect == Spec => []TypeOK
<1>1. IInv => TypeOK
  BY DEF IInv
<1> QED BY <1>1, SchedulerInvariance, PTL

\* No admitted ask waits while its actor is idle and the cap has room (scheduler.ts:391).
THEOREM NobodyIdles == Spec => []NoIdleActor
<1>1. IInv => NoIdleActor
  BY DEF IInv
<1> QED BY <1>1, SchedulerInvariance, PTL

\* An actor's asks have distinct numbers in all lives, and those before the one at work
\* have settled (scheduler.ts:341).
THEOREM ActorsKeepOrder == Spec => []ActorOrderKept
<1>1. ASSUME IInv PROVE ActorOrderKept
  <2>1. \A x, y \in DOMAIN rows :
          x # y /\ rows[x].actor = rows[y].actor => rows[x].seq # rows[y].seq
    BY <1>1 DEF IInv, Distinct
  <2>2. ASSUME NEW a \in Busy, NEW x \in DOMAIN rows, rows[x].actor = a,
               rows[x].seq < rows[current[a]].seq
        PROVE  Settled(x)
    <3>1. /\ a \in Actor /\ current[a] # None
          /\ liveQueue[a] \in Seq(DOMAIN rows) /\ current[a] \in DOMAIN rows
          /\ nextAdmitSeq[a] \in Nat
      BY <1>1, <2>2 DEF IInv, TypeOK, ActorTypes, WorkTypes, Busy
    <3>2. Line(a, liveQueue[a], current[a], rows, nextAdmitSeq[a])
      BY <1>1, <3>1 DEF IInv, Lines
    <3>3. PICK q, w, n : q = liveQueue[a] /\ w = current[a] /\ n = nextAdmitSeq[a]
      OBVIOUS
    <3>4. /\ rows[w].seq < n /\ \A i \in 1..Len(q) : rows[w].seq < rows[q[i]].seq
          /\ rows[x].seq < n /\ rows[x].status = "running" =>
               x = w \/ \E i \in 1..Len(q) : x = q[i]
      BY <3>1, <3>2, <3>3, <2>2 DEF Line
    <3>5. rows[x] \in Row /\ rows[w] \in Row /\ \A i \in 1..Len(q) : rows[q[i]] \in Row
      <4>1. \A y \in DOMAIN rows : rows[y] \in Row
        BY <1>1 DEF IInv, TypeOK, JournalTypes
      <4>2. q \in Seq(DOMAIN rows)
        BY <3>1, <3>3
      <4> QED BY <4>1, <4>2, <3>1, <3>3, ElementOfSeq
    <3>6. /\ rows[x].seq \in Nat /\ rows[w].seq \in Nat
          /\ \A i \in 1..Len(q) : rows[q[i]].seq \in Nat
          /\ rows[x].status \in {"running", "ok", "failed"}
      BY <3>5 DEF Row
    <3>7. rows[x].seq < rows[w].seq
      BY <2>2, <3>3
    <3>8. rows[x].seq < n
      BY <3>1, <3>3, <3>4, <3>6, <3>7
    <3>9. x # w /\ ~ \E i \in 1..Len(q) : x = q[i]
      BY <3>4, <3>6, <3>7
    <3> QED BY <3>4, <3>6, <3>8, <3>9 DEF Settled
  <2> QED BY <2>1, <2>2 DEF ActorOrderKept
<1> QED BY <1>1, SchedulerInvariance, PTL
\* A row, once settled, stays as it is.
RowsStand == \A x \in DOMAIN rows : Settled(x) => x \in DOMAIN rows' /\ rows'[x] = rows[x]

\* An admission adds rows and changes none.
LEMMA AskAddsRows ==
    ASSUME NEW b, Ask(b)
    PROVE  RowsStand
<1>1. PICK c, x : AdmitNew(x, c) \/ AdmitRecorded(x, c) \/ InputHashMismatch(x, c)
  BY DEF Ask
<1>2. ASSUME NEW a, NEW held, NEW waiting, NEW scan, Drain(a, held, waiting, scan)
      PROVE  RowsStand
  <2> DEFINE reach == Reach(a, held)
             new   == IF RecordedFirst(a, reach) THEN waiting ELSE <<>>
             row(i) == [caller |-> new[i].caller, actor |-> a, seq |-> reach + i - 1,
                        status |-> "running"]
             nth(y) == CHOOSE i \in DOMAIN new : new[i].inst = y
             more  == ToSet([i \in DOMAIN new |-> new[i].inst])
  <2>1. rows' = [y \in DOMAIN rows \cup more |->
                   IF y \in DOMAIN rows THEN rows[y] ELSE row(nth(y))]
    BY <1>2 DEF Drain
  <2> HIDE DEF reach, new, row, nth, more
  <2> QED BY <2>1 DEF RowsStand
<1>3. CASE AdmitNew(x, c)
  BY <1>2, <1>3 DEF AdmitNew
<1>4. CASE AdmitRecorded(x, c)
  BY <1>2, <1>4 DEF AdmitRecorded
<1>5. CASE InputHashMismatch(x, c)
  BY <1>5 DEF InputHashMismatch, RowsStand
<1> QED BY <1>1, <1>3, <1>4, <1>5

\* What settles was live and thus had not settled.
LEMMA SettleAnswersFirst ==
    ASSUME IInv, NEW a, NEW outcome, Settle(a, outcome)
    PROVE  RowsStand
<1>1. PICK x : x = current[a] /\ x \in ToSet(liveNodes)
               /\ rows' = [rows EXCEPT ![x].status = outcome]
  BY DEF Settle
<1>2. liveNodes \in Seq(DOMAIN rows)
  BY DEF IInv, TypeOK, WorkTypes
<1>3. PICK i \in 1..Len(liveNodes) : x = liveNodes[i]
  BY <1>1, <1>2 DEF ToSet
<1>4. ~Settled(x)
  BY <1>3 DEF IInv, LiveUnsettled, Settled
<1> QED BY <1>1, <1>4 DEF RowsStand

\* No step changes a settled row.
LEMMA RowsStandKept == IInv /\ [Next]_vars => RowsStand
<1> SUFFICES ASSUME IInv, [Next]_vars PROVE RowsStand
  OBVIOUS
<1>1. rows' = rows => RowsStand
  BY DEF RowsStand
<1>2. ASSUME NEW b \in Branch, StartBranch(b) PROVE RowsStand
  BY <1>2, AskAddsRows DEF StartBranch
<1>3. CASE ReadAnswer
  <2>1. PICK b : Ask(b) \/ rows' = rows
    BY <1>3 DEF ReadAnswer, journalVars
  <2> QED BY <2>1, <1>1, AskAddsRows
<1>4. CASE Complete \/ Stop
  BY <1>4, <1>1 DEF Complete, Stop
<1>5. ASSUME NEW a \in Actor, SessionOpens(a) PROVE RowsStand
  BY <1>5, <1>1 DEF SessionOpens, journalVars
<1>6. ASSUME NEW a \in Actor, NEW o, TurnEnds(a, o) PROVE RowsStand
  BY <1>6, SettleAnswersFirst DEF TurnEnds
<1>7. ASSUME NEW a \in Actor, SessionFails(a) PROVE RowsStand
  BY <1>7, SettleAnswersFirst DEF SessionFails
<1>8. ASSUME NEW n \in Caps, Retune(n) PROVE RowsStand
  BY <1>8, <1>1 DEF Retune
<1>9. CASE Crash \/ Resume
  BY <1>9, <1>1 DEF Crash, Resume
<1>10. CASE UNCHANGED vars
  BY <1>10, <1>1 DEF vars, journalVars
<1> QED BY <1>2, <1>3, <1>4, <1>5, <1>6, <1>7, <1>8, <1>9, <1>10 DEF Next, Goes

\* What the script was answered stands in the journal, and no step of any life changes
\* a row that has settled (scheduler.ts:499).
THEOREM AnswersStand == Spec => AnswersKept
<1> DEFINE Kept ==
      /\ \A i \in DOMAIN answers' : rows'[answers'[i].inst].status = answers'[i].outcome
      /\ \A x \in DOMAIN rows : Settled(x) => x \in DOMAIN rows' /\ rows'[x] = rows[x]
<1>1. ASSUME IInv, IInv', [Next]_vars PROVE Kept
  <2>1. RowsStand
    BY <1>1, RowsStandKept
  <2>2. answers' \in Seq(News) /\ AnswersTrue'
    BY <1>1 DEF IInv, TypeOK, ScriptTypes
  <2>3. DOMAIN answers' = 1..Len(answers')
    BY <2>2
  <2> QED BY <2>1, <2>2, <2>3 DEF RowsStand, AnswersTrue
<1>2. IInv /\ IInv' /\ [Next]_vars => [Kept]_vars
  BY <1>1
<1>3. Spec => [][Kept]_vars
  BY <1>2, SchedulerInvariance, PTL DEF Spec
<1> QED BY <1>3 DEF AnswersKept

-----------------------------------------------------------------------------
(* An ask is admitted once in a life, and answered once. *)

\* Ask x was admitted in this life; it was made in this life.
AdmittedNow(x) == rows[x].seq < nextAdmitSeq[rows[x].actor]
AskedNow(x) == x[2] <= ordinals[x[1]]

\* The recorded asks that wait have been made again and not admitted; what was admitted
\* has been made; what was answered, or waits in the gate, has been admitted.
OnceEach ==
    /\ \A a \in Actor : \A x \in pendingRecorded[a] : nextAdmitSeq[a] <= rows[x].seq /\ AskedNow(x)
    /\ \A x \in DOMAIN rows : AdmittedNow(x) => AskedNow(x)
    /\ \A i \in 1..Len(answers) : AdmittedNow(answers[i].inst)
    /\ \A x \in parked : AdmittedNow(x)

\* What a drain leaves waiting, and what it sends to the gate: recorded asks from reach
\* on wait, those below it that have settled are the hits.
Sorted(a, held, waiting, reach, new, rest, hits) ==
    /\ reach \in Nat /\ nextAdmitSeq[a] <= reach
    /\ \A k \in nextAdmitSeq[a]..(reach - 1) : \E x \in held : rows[x].seq = k
    /\ (new = waiting /\ recorded[a] <= reach) \/ new = <<>>
    /\ Len(new) \in Nat
    /\ rest \subseteq held /\ \A x \in rest : reach + Len(new) <= rows[x].seq
    /\ pendingRecorded' = [pendingRecorded EXCEPT ![a] = rest]
    /\ nextAdmitSeq' = [nextAdmitSeq EXCEPT ![a] = reach + Len(new)]
    /\ DOMAIN rows' = DOMAIN rows \cup { new[i].inst : i \in 1..Len(new) }
    /\ \A x \in DOMAIN rows : rows'[x] = rows[x]
    /\ hits \in Seq(held)
    /\ \A i \in 1..Len(hits) : Settled(hits[i]) /\ rows[hits[i]].seq < reach
    /\ Hold(hits)

\* drainAdmission does what Sorted says.
LEMMA DrainSorts ==
    ASSUME IInv, run = "running", NEW a \in Actor, NEW held, NEW waiting, NEW scan,
           Waiting(a, held, waiting), \A x \in held : nextAdmitSeq[a] <= rows[x].seq,
           Drain(a, held, waiting, scan)
    PROVE  \E reach, new, rest, hits : Sorted(a, held, waiting, reach, new, rest, hits)
<1> DEFINE reach == Reach(a, held)
           due   == Due(a, held)
           new   == IF RecordedFirst(a, reach) THEN waiting ELSE <<>>
           born  == [i \in DOMAIN new |-> new[i].inst]
           row(i) == [caller |-> new[i].caller, actor |-> a, seq |-> reach + i - 1,
                      status |-> "running"]
           nth(y) == CHOOSE i \in DOMAIN new : new[i].inst = y
           done  == { x \in held : Settled(x) }
           hits  == Among(due, done)
           rest  == held \ ToSet(due)
           first == nextAdmitSeq[a]
<1>1. /\ pendingRecorded' = [pendingRecorded EXCEPT ![a] = rest]
      /\ nextAdmitSeq' = [nextAdmitSeq EXCEPT ![a] = reach + Len(new)]
      /\ rows' = [x \in DOMAIN rows \cup ToSet(born) |->
                    IF x \in DOMAIN rows THEN rows[x] ELSE row(nth(x))]
      /\ Hold(hits)
  BY DEF Drain
<1>2. held \subseteq DOMAIN rows /\ \A x \in held : rows[x].actor = a
  BY DEF Waiting, RowsOf
<1>3. IsFiniteSet(held) /\ first \in Nat
  <2>1. IsFiniteSet(DOMAIN rows)
    BY DEF IInv
  <2> QED BY <2>1, <1>2, FS_Subset DEF IInv, TypeOK, ActorTypes
<1>4. /\ reach \in Nat /\ first <= reach
      /\ due \in Seq(held) /\ Len(due) = reach - first
      /\ \A i \in 1..Len(due) : rows[due[i]].seq = first + i - 1
  BY <1>3, ReachAndDue
<1>5. (new = waiting /\ recorded[a] <= reach) \/ new = <<>>
  BY <1>4 DEF RecordedFirst, IInv, TypeOK, ActorTypes
<1>6. new \in Seq([inst : Instance, caller : Caller])
  BY <1>5 DEF Waiting
<1>7. \A x \in done : Settled(x)
  OBVIOUS
<1> HIDE DEF done, due
<1>8. due \in Seq(held)
  BY <1>4
<1>9. hits \in Seq(held) /\ \A i \in 1..Len(hits) : hits[i] \in done
  BY <1>8, AmongSelects
<1>9a. \A i \in 1..Len(hits) : \E k \in 1..Len(due) : hits[i] = due[k]
  BY <1>8, AmongSelects
<1>10. DOMAIN new = 1..Len(new) /\ Len(new) \in Nat
  BY <1>6
<1> HIDE DEF new, hits, reach, nth, row
<1>11. ToSet(born) = { new[i].inst : i \in 1..Len(new) }
  BY <1>10 DEF ToSet
<1> HIDE DEF born
<1>12. DOMAIN rows' = DOMAIN rows \cup { new[i].inst : i \in 1..Len(new) }
       /\ \A x \in DOMAIN rows : rows'[x] = rows[x]
  BY <1>1, <1>11
<1>13. \A i \in 1..Len(hits) : Settled(hits[i]) /\ rows[hits[i]].seq < reach
  <2> SUFFICES ASSUME NEW i \in 1..Len(hits)
               PROVE  Settled(hits[i]) /\ rows[hits[i]].seq < reach
    OBVIOUS
  <2>1. PICK k \in 1..Len(due) : hits[i] = due[k]
    BY <1>9a
  <2>2. rows[due[k]].seq = first + k - 1
    BY <1>4
  <2>3. k \in Int /\ k <= reach - first
    BY <1>4, <1>3
  <2>4. first + k - 1 < reach
    BY <2>3, <1>3, <1>4
  <2> QED BY <2>1, <2>2, <2>4, <1>7, <1>9
<1>14. \A k \in first..(reach - 1) : \E i \in 1..Len(due) : rows[due[i]].seq = k /\ due[i] \in held
  <2> SUFFICES ASSUME NEW k \in first..(reach - 1)
               PROVE  \E i \in 1..Len(due) : rows[due[i]].seq = k /\ due[i] \in held
    OBVIOUS
  <2> DEFINE i == k - first + 1
  <2>1. i \in 1..Len(due) /\ first + i - 1 = k
    <3>1. k \in Int /\ first <= k /\ k < reach /\ Len(due) = reach - first /\ reach \in Nat
      BY <1>3, <1>4
    <3> QED BY <3>1, <1>3
  <2> HIDE DEF i
  <2> QED BY <2>1, <1>4, <1>8, ElementOfSeq
<1>15. ASSUME NEW x \in rest PROVE reach + Len(new) <= rows[x].seq
  <2>1. x \in held /\ \A i \in 1..Len(due) : due[i] # x
    BY <1>8 DEF ToSet
  <2>2. x \in DOMAIN rows /\ rows[x].actor = a /\ first <= rows[x].seq /\ rows[x].seq \in Nat
    BY <2>1, <1>2 DEF IInv, TypeOK, JournalTypes, Row
  <2>3. reach <= rows[x].seq
    <3>1. SUFFICES ASSUME rows[x].seq < reach PROVE FALSE
      BY <2>2, <1>4
    <3>2. rows[x].seq \in first..(reach - 1)
      BY <3>1, <2>2, <1>3, <1>4
    <3>3. PICK i \in 1..Len(due) : rows[due[i]].seq = rows[x].seq /\ due[i] \in held
      BY <3>2, <1>14
    <3>4. due[i] # x /\ due[i] \in DOMAIN rows /\ rows[due[i]].actor = rows[x].actor
      BY <3>3, <2>1, <2>2, <1>2
    <3> QED BY <3>3, <3>4, <2>2 DEF IInv, Distinct
  <2>4. CASE new = waiting /\ recorded[a] <= reach
    <3>1. rows[x].seq < recorded[a] \/ rows[x].seq < nextAdmitSeq[a]
      BY <2>2 DEF IInv, Below
    <3>2. recorded[a] \in Nat
      BY DEF IInv, TypeOK, ActorTypes
    <3> QED BY <2>2, <2>3, <2>4, <3>1, <3>2, <1>3, <1>4
  <2>5. CASE new = <<>>
    BY <2>3, <2>5, <1>4
  <2> QED BY <2>4, <2>5, <1>5
<1>16. rest \subseteq held
  OBVIOUS
<1> HIDE DEF rest, first
<1>17. \A k \in nextAdmitSeq[a]..(reach - 1) : \E x \in held : rows[x].seq = k
  BY <1>14 DEF first
<1>18. nextAdmitSeq[a] <= reach
  BY <1>4 DEF first
<1> QED BY <1>1, <1>4, <1>5, <1>9, <1>10, <1>12, <1>13, <1>15, <1>16, <1>17, <1>18 DEF Sorted

\* What the gate lets through, or keeps, came now or was parked.
LEMMA HoldSources ==
    ASSUME IInv, NEW hits \in Seq(DOMAIN rows), \A i \in 1..Len(hits) : Settled(hits[i]),
           Hold(hits)
    PROVE  /\ parked' \subseteq parked \cup ToSet(hits)
           /\ \E news \in Seq(News) :
                /\ answers' = answers \o news
                /\ \A i \in 1..Len(news) : news[i].inst \in parked \cup ToSet(hits)
<1> DEFINE ruled  == { order[i] : i \in { j \in DOMAIN order : j > cursor } }
           direct == Without(hits, ruled)
           all    == parked \cup (ToSet(hits) \cap ruled)
           N      == { n \in cursor..Len(order) : \A i \in (cursor + 1)..n : order[i] \in all }
           upto   == Largest(N)
           next   == SubSeq(order, cursor + 1, upto)
           out    == direct \o next
           src    == parked \cup ToSet(hits)
<1>1. /\ parked' = all \ ToSet(out)
      /\ \E news : /\ news = [i \in DOMAIN out |-> [inst |-> out[i], outcome |-> rows[out[i]].status]]
                   /\ Answer(news)
  BY DEF Hold
<1>2. /\ order \in Seq(DOMAIN rows) /\ cursor \in 0..Len(order)
      /\ Len(order) \in Nat /\ parked \subseteq ToSet(order)
      /\ DOMAIN hits = 1..Len(hits) /\ DOMAIN order = 1..Len(order)
  BY DEF IInv, TypeOK, GateTypes
<1>3. all \subseteq src
  OBVIOUS
<1>4. \A x \in src : x \in DOMAIN rows /\ Settled(x)
  BY <1>2 DEF ToSet, IInv, ParkedSettled
<1> HIDE DEF ruled, all
<1>5. /\ IsFiniteSet(N) /\ N \in SUBSET Nat /\ cursor \in N
      /\ \A n \in N : n \in cursor..Len(order) /\ \A i \in (cursor + 1)..n : order[i] \in all
  <2>1. IsFiniteSet(cursor..Len(order)) /\ N \in SUBSET (cursor..Len(order))
    BY <1>2, FS_Interval
  <2>2. cursor \in N
    BY <1>2
  <2> QED BY <2>1, <2>2, <1>2, FS_Subset
<1> HIDE DEF N
<1>6. upto \in cursor..Len(order) /\ \A i \in (cursor + 1)..upto : order[i] \in all
  BY <1>5, LargestIsGreatest
<1> HIDE DEF upto
<1>7. next \in Seq(all)
  BY <1>2, <1>6, SubSeqProperties
<1>8. direct \in Seq(DOMAIN rows) /\ \A i \in 1..Len(direct) : \E k \in 1..Len(hits) : direct[i] = hits[k]
  BY WithoutSelects
<1> HIDE DEF direct, next
<1>9. direct \in Seq(src) /\ next \in Seq(src)
  <2>1. \A i \in 1..Len(direct) : direct[i] \in src
    BY <1>2, <1>8 DEF ToSet
  <2>2. direct \in Seq(src)
    BY <1>8, <2>1
  <2> QED BY <1>3, <1>7, <2>2, SeqMonotonic
<1>10. out \in Seq(src)
  BY <1>9
<1> HIDE DEF out
<1>11. PICK news : /\ news = [i \in DOMAIN out |-> [inst |-> out[i], outcome |-> rows[out[i]].status]]
                   /\ Answer(news)
  BY <1>1
<1>12. DOMAIN out = 1..Len(out) /\ Len(out) \in Nat /\ \A i \in 1..Len(out) : out[i] \in src
  BY <1>10
<1>13. \A x \in src : x \in Instance /\ rows[x].status \in {"ok", "failed"}
  BY <1>4 DEF Settled, IInv, TypeOK, JournalTypes
<1> HIDE DEF src
<1>14. news = [i \in 1..Len(out) |-> [inst |-> out[i], outcome |-> rows[out[i]].status]]
  BY <1>11, <1>12
<1>15. \A i \in 1..Len(out) : [inst |-> out[i], outcome |-> rows[out[i]].status] \in News
  BY <1>12, <1>13 DEF News
<1>16. news \in Seq(News) /\ Len(news) = Len(out) /\ \A i \in 1..Len(news) : news[i].inst \in src
  BY <1>12, <1>14, <1>15
<1>17. answers' = answers \o news
  BY <1>11 DEF Answer
<1>18. parked' \subseteq src
  BY <1>1, <1>3
<1> QED BY <1>16, <1>17, <1>18 DEF src

\* An admission admits what was not admitted yet, and answers only what it admitted or
\* the gate had kept.
LEMMA DrainKeepsOnce ==
    ASSUME IInv, IInv', OnceEach, run = "running", NEW a \in Actor, NEW held, NEW waiting, NEW scan,
           Waiting(a, held, waiting), Fresh(a, waiting), Around,
           \A x \in held : nextAdmitSeq[a] <= rows[x].seq /\ x[2] <= ordinals'[x[1]],
           Drain(a, held, waiting, scan)
    PROVE  OnceEach'
<1> DEFINE adm(x) == rows'[x].seq < nextAdmitSeq'[rows'[x].actor]
           ask(x) == x[2] <= ordinals'[x[1]]
<1>1. PICK reach, new, rest, hits : Sorted(a, held, waiting, reach, new, rest, hits)
  BY DrainSorts
<1>2. /\ reach \in Nat /\ nextAdmitSeq[a] <= reach /\ Len(new) \in Nat
      /\ \A k \in nextAdmitSeq[a]..(reach - 1) : \E x \in held : rows[x].seq = k
      /\ (new = waiting /\ recorded[a] <= reach) \/ new = <<>>
      /\ rest \subseteq held /\ \A x \in rest : reach + Len(new) <= rows[x].seq
      /\ pendingRecorded' = [pendingRecorded EXCEPT ![a] = rest]
      /\ nextAdmitSeq' = [nextAdmitSeq EXCEPT ![a] = reach + Len(new)]
      /\ DOMAIN rows' = DOMAIN rows \cup { new[i].inst : i \in 1..Len(new) }
      /\ \A x \in DOMAIN rows : rows'[x] = rows[x]
  BY <1>1 DEF Sorted
<1>3. /\ hits \in Seq(held)
      /\ \A i \in 1..Len(hits) : Settled(hits[i]) /\ rows[hits[i]].seq < reach
      /\ Hold(hits)
  BY <1>1 DEF Sorted
<1>4. held \subseteq DOMAIN rows /\ \A x \in held : rows[x].actor = a
  BY DEF Waiting, RowsOf
<1>5. /\ nextAdmitSeq \in [Actor -> Nat] /\ ordinals \in [Site -> Nat] /\ ordinals' \in [Site -> Nat]
      /\ pendingRecorded \in [Actor -> SUBSET DOMAIN rows]
      /\ DOMAIN rows \subseteq Instance
      /\ \A x \in DOMAIN rows : rows[x].actor \in Actor /\ rows[x].seq \in Nat
      /\ \A s \in Site : ordinals[s] <= ordinals'[s]
      /\ answers \in Seq(News)
  BY DEF IInv, TypeOK, ActorTypes, JournalTypes, Row, ScriptTypes, Around
<1>6. \A x \in DOMAIN rows : AskedNow(x) => ask(x)
  <2> SUFFICES ASSUME NEW x \in DOMAIN rows, AskedNow(x) PROVE ask(x)
    OBVIOUS
  <2>1. x[1] \in Site /\ x[2] \in Nat
    BY <1>5 DEF Instance
  <2> QED BY <2>1, <1>5 DEF AskedNow
<1>7. \A x \in DOMAIN rows : AdmittedNow(x) => adm(x)
  <2> SUFFICES ASSUME NEW x \in DOMAIN rows, AdmittedNow(x) PROVE adm(x)
    OBVIOUS
  <2>1. nextAdmitSeq[rows[x].actor] <= nextAdmitSeq'[rows[x].actor]
        /\ nextAdmitSeq[rows[x].actor] \in Nat /\ nextAdmitSeq'[rows[x].actor] \in Nat
    BY <1>2, <1>5
  <2> QED BY <2>1, <1>2, <1>5 DEF AdmittedNow
<1>8. ASSUME NEW d \in Actor, NEW x \in pendingRecorded'[d]
      PROVE  nextAdmitSeq'[d] <= rows'[x].seq /\ ask(x)
  <2>1. CASE d = a
    <3>1. x \in rest /\ nextAdmitSeq'[d] = reach + Len(new)
      BY <2>1, <1>2, <1>5
    <3>2. x \in held /\ rows'[x] = rows[x] /\ reach + Len(new) <= rows[x].seq
      BY <3>1, <1>2, <1>4
    <3> QED BY <3>1, <3>2 DEF AskedNow
  <2>2. CASE d # a
    <3>1. x \in pendingRecorded[d] /\ nextAdmitSeq'[d] = nextAdmitSeq[d]
      BY <2>2, <1>2, <1>5
    <3>2. x \in DOMAIN rows /\ nextAdmitSeq[d] <= rows[x].seq /\ AskedNow(x)
      BY <3>1, <1>5 DEF OnceEach
    <3> QED BY <3>1, <3>2, <1>2, <1>6
  <2> QED BY <2>1, <2>2
<1>9. ASSUME NEW x \in DOMAIN rows', adm(x)
      PROVE  ask(x)
  <2>1. CASE x \in DOMAIN rows /\ AdmittedNow(x)
    BY <2>1, <1>6 DEF OnceEach
  <2>2. CASE x \in DOMAIN rows /\ ~AdmittedNow(x)
    <3>1. rows'[x] = rows[x] /\ rows[x].actor \in Actor /\ rows[x].seq \in Nat
      BY <2>2, <1>2, <1>5
    <3>2. rows[x].actor = a /\ nextAdmitSeq[a] <= rows[x].seq /\ rows[x].seq < reach + Len(new)
      <4>1. rows[x].seq < nextAdmitSeq'[rows[x].actor]
        BY <3>1, <1>9 DEF AdmittedNow
      <4>2. ~(rows[x].seq < nextAdmitSeq[rows[x].actor])
        BY <2>2 DEF AdmittedNow
      <4>3. rows[x].actor = a
        BY <4>1, <4>2, <3>1, <1>2, <1>5
      <4> QED BY <4>1, <4>2, <4>3, <3>1, <1>2, <1>5
    <3>3. rows[x].seq < reach
      <4>1. CASE new = waiting /\ recorded[a] <= reach
        <5>1. rows[x].seq < recorded[a] \/ rows[x].seq < nextAdmitSeq[a]
          BY <2>2, <3>2 DEF IInv, Below
        <5>2. recorded[a] \in Nat /\ nextAdmitSeq[a] \in Nat
          BY DEF IInv, TypeOK, ActorTypes
        <5> QED BY <4>1, <5>1, <5>2, <3>1, <3>2, <1>2
      <4>2. CASE new = <<>>
        BY <4>2, <3>2, <1>2
      <4> QED BY <4>1, <4>2, <1>2
    <3>4. rows[x].seq \in nextAdmitSeq[a]..(reach - 1)
      BY <3>1, <3>2, <3>3, <1>2, <1>5
    <3>5. PICK y \in held : rows[y].seq = rows[x].seq
      BY <3>4, <1>2
    <3>6. y = x
      BY <3>2, <3>5, <2>2, <1>4 DEF IInv, Distinct
    <3> QED BY <3>5, <3>6 DEF AskedNow
  <2>3. CASE x \notin DOMAIN rows
    <3>1. PICK i \in 1..Len(new) : x = new[i].inst
      BY <2>3, <1>2
    <3>2. new = waiting
      BY <3>1, <1>2
    <3> QED BY <3>1, <3>2 DEF Fresh, AskedNow
  <2> QED BY <2>1, <2>2, <2>3
<1>10. \A x \in parked \cup ToSet(hits) : x \in DOMAIN rows /\ adm(x)
  <2>1. \A x \in parked : x \in DOMAIN rows /\ adm(x)
    BY <1>7 DEF OnceEach, IInv, TypeOK, GateTypes, ToSet
  <2>2. ASSUME NEW i \in 1..Len(hits) PROVE hits[i] \in DOMAIN rows /\ adm(hits[i])
    <3>1. hits[i] \in held /\ rows[hits[i]].seq < reach
      BY <1>3
    <3>2. rows'[hits[i]] = rows[hits[i]] /\ rows[hits[i]].actor = a /\ rows[hits[i]].seq \in Nat
      BY <3>1, <1>2, <1>4, <1>5
    <3>3. nextAdmitSeq'[a] = reach + Len(new)
      BY <1>2, <1>5
    <3>4. rows[hits[i]].seq < reach + Len(new)
      BY <3>1, <3>2, <1>2
    <3> QED BY <3>1, <3>2, <3>3, <3>4, <1>4 DEF AdmittedNow
  <2>3. DOMAIN hits = 1..Len(hits)
    BY <1>3
  <2> QED BY <2>1, <2>2, <2>3 DEF ToSet
<1>11. /\ parked' \subseteq parked \cup ToSet(hits)
       /\ \E news \in Seq(News) :
            /\ answers' = answers \o news
            /\ \A i \in 1..Len(news) : news[i].inst \in parked \cup ToSet(hits)
  <2>1. hits \in Seq(DOMAIN rows) /\ \A i \in 1..Len(hits) : Settled(hits[i])
    BY <1>3, <1>4, SeqMonotonic
  <2> QED BY <2>1, <1>3, HoldSources
<1>12. PICK news \in Seq(News) :
         /\ answers' = answers \o news
         /\ \A i \in 1..Len(news) : news[i].inst \in parked \cup ToSet(hits)
  BY <1>11
<1>13. \A i \in 1..Len(answers) : adm(answers[i].inst)
  BY <1>7 DEF OnceEach, IInv, AnswersTrue
<1>14. ASSUME NEW i \in 1..Len(answers') PROVE adm(answers'[i].inst)
  <2>1. (i \in 1..Len(answers) /\ answers'[i] = answers[i])
        \/ \E j \in 1..Len(news) : answers'[i] = news[j]
    <3>1. answers \in Seq(News) /\ news \in Seq(News) /\ answers' = answers \o news
      BY <1>5, <1>12
    <3> QED BY ONLY <3>1, i \in 1..Len(answers')
  <2> QED BY <2>1, <1>10, <1>12, <1>13
<1>15. \A x \in parked' : adm(x)
  BY <1>10, <1>11
<1> QED BY <1>8, <1>9, <1>14, <1>15 DEF OnceEach, AdmittedNow, AskedNow

\* An ask of the script keeps it: a recorded one that is made now was not admitted yet.
LEMMA AskKeepsOnce ==
    ASSUME IInv, IInv', OnceEach, run = "running", NEW b \in Branch,
           calls[b] < Len(script.asks[b]), Ask(b),
           script' = script, overtaken' = overtaken, read' \in 0..Len(answers)
    PROVE  OnceEach'
<1>1. script \in Scripts /\ calls \in [Branch -> Nat] /\ ordinals \in [Site -> Nat]
  BY DEF IInv, TypeOK, JournalTypes, ScriptTypes
<1>2. PICK c, s, x, a :
        /\ c = [branch |-> b, index |-> calls[b] + 1]
        /\ s = Wants(c).site /\ a = Wants(c).actor /\ x = <<s, ordinals[s] + 1>>
        /\ calls' = [calls EXCEPT ![b] = @ + 1]
        /\ ordinals' = [ordinals EXCEPT ![s] = @ + 1]
        /\ AdmitNew(x, c) \/ AdmitRecorded(x, c) \/ InputHashMismatch(x, c)
        /\ UNCHANGED <<cap, life, recorded, session, order>>
  BY DEF Ask
<1>3. c \in CallersOf(script) /\ a \in Actor /\ s \in Site
  BY <1>1, <1>2, NextCaller
<1>4. c \in Caller
  BY <1>1, <1>3 DEF Caller
<1>5. x \in Instance /\ x[1] = s /\ x[2] = ordinals[s] + 1
  BY <1>1, <1>2, <1>3 DEF Instance
<1>6. /\ calls' \in [Branch -> Nat] /\ ordinals' \in [Site -> Nat]
      /\ \A u \in Site : ordinals[u] <= ordinals'[u] /\ ordinals'[u] \in Nat
      /\ ordinals[s] < x[2] /\ x[2] <= ordinals'[s]
  <2>1. ordinals' = [ordinals EXCEPT ![s] = @ + 1] /\ ordinals \in [Site -> Nat] /\ s \in Site
    BY <1>1, <1>2, <1>3
  <2>2. calls' \in [Branch -> Nat]
    BY <1>1, <1>2
  <2>3. \A u \in Site : ordinals[u] <= ordinals'[u] /\ ordinals'[u] \in Nat
    BY <2>1
  <2>4. ordinals' \in [Site -> Nat] /\ ordinals'[s] = ordinals[s] + 1 /\ ordinals[s] \in Nat
    BY <2>1
  <2> QED BY <2>2, <2>3, <2>4, <1>5
<1>6a. pendingRecorded \in [Actor -> SUBSET DOMAIN rows] /\ DOMAIN rows \subseteq Instance
       /\ nextAdmitSeq \in [Actor -> Nat] /\ \A y \in DOMAIN rows : rows[y].seq \in Nat
  BY DEF IInv, TypeOK, ActorTypes, JournalTypes, Row
<1>6b. \A y \in DOMAIN rows : AskedNow(y) => y[2] <= ordinals'[y[1]]
  <2> SUFFICES ASSUME NEW y \in DOMAIN rows, AskedNow(y) PROVE y[2] <= ordinals'[y[1]]
    OBVIOUS
  <2>1. y[1] \in Site /\ y[2] \in Nat
    BY <1>6a DEF Instance
  <2> QED BY <2>1, <1>1, <1>6 DEF AskedNow
<1>7. ASSUME run' = run PROVE Around
  BY <1>2, <1>6, <1>7 DEF Around
<1>8. CASE AdmitNew(x, c)
  <2>1. PICK held, waiting, scan :
          /\ held = pendingRecorded[a]
          /\ waiting = Append(pendingLive[a], [inst |-> x, caller |-> c])
          /\ scan = ActorOrder
          /\ Drain(a, held, waiting, scan) /\ x \notin DOMAIN rows /\ run' = run
    BY <1>2, <1>8 DEF AdmitNew
  <2>2. Waiting(a, held, waiting) /\ Fresh(a, waiting)
    BY <2>1, <1>2, <1>3, <1>4, <1>5, <1>6, NewWaits
  <2>3. \A y \in held : nextAdmitSeq[a] <= rows[y].seq /\ y[2] <= ordinals'[y[1]]
    BY <2>1, <1>3, <1>6a, <1>6b DEF OnceEach
  <2>4. Around /\ Drain(a, held, waiting, scan)
    BY <2>1, <1>7
  <2> QED BY <2>2, <2>3, <2>4, <1>3, DrainKeepsOnce
<1>9. CASE AdmitRecorded(x, c)
  <2>1. PICK held, waiting, scan :
          /\ held = pendingRecorded[a] \cup {x} /\ waiting = pendingLive[a] /\ scan = <<a>>
          /\ Drain(a, held, waiting, scan)
          /\ x \in DOMAIN rows /\ rows[x].caller = c /\ run' = run
    BY <1>2, <1>9 DEF AdmitRecorded
  <2>2. Wants(rows[x].caller).actor = a
    BY <2>1, <1>2
  <2>3. Waiting(a, held, waiting) /\ Fresh(a, waiting)
    BY <2>1, <2>2, <1>3, <1>6, RecordedWaits
  <2>4. ~AskedNow(x)
    BY <1>1, <1>3, <1>5 DEF AskedNow
  <2>5. nextAdmitSeq[a] <= rows[x].seq
    <3>1. ~(rows[x].seq < nextAdmitSeq[rows[x].actor])
      BY <2>1, <2>4 DEF OnceEach, AdmittedNow
    <3>2. rows[x].actor = a
      BY <2>1, <2>2 DEF IInv, Asked
    <3>3. rows[x].seq \in Nat /\ nextAdmitSeq[a] \in Nat
      BY <2>1, <1>3, <1>6a
    <3> QED BY <3>1, <3>2, <3>3
  <2>6. \A y \in held : nextAdmitSeq[a] <= rows[y].seq /\ y[2] <= ordinals'[y[1]]
    BY <2>1, <2>5, <1>3, <1>5, <1>6, <1>6a, <1>6b DEF OnceEach
  <2>7. Around /\ Drain(a, held, waiting, scan)
    BY <2>1, <1>7
  <2> QED BY <2>3, <2>6, <2>7, <1>3, DrainKeepsOnce
<1>10. CASE InputHashMismatch(x, c)
  <2>1. UNCHANGED <<rows, pendingRecorded, nextAdmitSeq, answers>> /\ parked' = {}
    BY <1>10 DEF InputHashMismatch, End
  <2> QED BY <2>1, <1>6a, <1>6b DEF OnceEach, AdmittedNow, AskedNow
<1> QED BY <1>2, <1>8, <1>9, <1>10

\* What settles was admitted in this life.
LEMMA SettleKeepsOnce ==
    ASSUME IInv, OnceEach, NEW a \in Actor, NEW outcome \in {"ok", "failed"}, Settle(a, outcome)
    PROVE  OnceEach'
<1>1. PICK x, news :
        /\ x = current[a] /\ x \in ToSet(liveNodes) /\ news = <<[inst |-> x, outcome |-> outcome]>>
        /\ rows' = [rows EXCEPT ![x].status = outcome]
        /\ answers' = answers \o news
        /\ UNCHANGED <<actorVars, gateVars, ordinals>>
  BY DEF Settle, Answer
<1>2. /\ UNCHANGED <<nextAdmitSeq, pendingRecorded, parked, ordinals>>
      /\ answers \in Seq(News) /\ liveNodes \in Seq(DOMAIN rows) /\ DOMAIN rows \subseteq Instance
      /\ pendingRecorded \in [Actor -> SUBSET DOMAIN rows] /\ parked \subseteq DOMAIN rows
  <2>1. UNCHANGED <<nextAdmitSeq, pendingRecorded, parked, ordinals>>
    BY <1>1 DEF actorVars, gateVars
  <2>2. /\ answers \in Seq(News) /\ liveNodes \in Seq(DOMAIN rows) /\ DOMAIN rows \subseteq Instance
        /\ pendingRecorded \in [Actor -> SUBSET DOMAIN rows]
        /\ order \in Seq(DOMAIN rows) /\ parked \subseteq ToSet(order)
    BY DEF IInv, TypeOK, ScriptTypes, WorkTypes, ActorTypes, GateTypes, JournalTypes
  <2>3. ToSet(order) \subseteq DOMAIN rows
    BY <2>2 DEF ToSet
  <2> QED BY <2>1, <2>2, <2>3
<1>3. x \in DOMAIN rows /\ x # None
  BY <1>1, <1>2, ScriptsAssumption DEF ToSet
<1>4. DOMAIN rows' = DOMAIN rows
      /\ \A y \in DOMAIN rows : rows'[y].seq = rows[y].seq /\ rows'[y].actor = rows[y].actor
  <2>1. \A y \in DOMAIN rows : y # x => rows'[y] = rows[y]
    BY <1>1
  <2>2. rows'[x] = [rows[x] EXCEPT !.status = outcome]
    BY <1>1, <1>3
  <2>3. rows[x] \in Row
    BY <1>3 DEF IInv, TypeOK, JournalTypes
  <2> QED BY <2>1, <2>2, <2>3, <1>1 DEF Row
<1>5. AdmittedNow(x)
  <2>1. Line(a, liveQueue[a], current[a], rows, nextAdmitSeq[a])
    BY DEF IInv, Lines
  <2>2. rows[x].actor = a /\ rows[x].seq < nextAdmitSeq[a]
    BY <2>1, <1>1, <1>3 DEF Line
  <2> QED BY <2>2 DEF AdmittedNow
<1>6. \A y \in DOMAIN rows : AdmittedNow(y) <=> rows'[y].seq < nextAdmitSeq'[rows'[y].actor]
  BY <1>2, <1>4 DEF AdmittedNow
<1>7. \A i \in 1..Len(answers) : answers[i].inst \in DOMAIN rows
  BY DEF IInv, AnswersTrue
<1>8. news \in Seq(News) /\ \A i \in 1..Len(news) : news[i].inst = x
  <2>1. [inst |-> x, outcome |-> outcome] \in News
    BY <1>2, <1>3 DEF News
  <2> QED BY <2>1, <1>1
<1>9. ASSUME NEW i \in 1..Len(answers')
      PROVE  rows'[answers'[i].inst].seq < nextAdmitSeq'[rows'[answers'[i].inst].actor]
  <2>1. (i \in 1..Len(answers) /\ answers'[i] = answers[i])
        \/ \E j \in 1..Len(news) : answers'[i] = news[j]
    BY <1>1, <1>2, <1>8
  <2>2. CASE i \in 1..Len(answers) /\ answers'[i] = answers[i]
    BY <2>2, <1>6, <1>7 DEF OnceEach
  <2>3. CASE \E j \in 1..Len(news) : answers'[i] = news[j]
    BY <2>3, <1>3, <1>5, <1>6, <1>8
  <2> QED BY <2>1, <2>2, <2>3
<1>10. \A y \in parked : rows'[y].seq < nextAdmitSeq'[rows'[y].actor]
  BY <1>2, <1>6 DEF OnceEach
<1>11. \A d \in Actor : \A y \in pendingRecorded[d] : nextAdmitSeq[d] <= rows'[y].seq /\ AskedNow(y)
  BY <1>2, <1>4 DEF OnceEach
<1>12. \A y \in DOMAIN rows' : rows'[y].seq < nextAdmitSeq'[rows'[y].actor] => AskedNow(y)
  BY <1>4, <1>6 DEF OnceEach
<1> QED BY <1>2, <1>9, <1>10, <1>11, <1>12 DEF OnceEach, AdmittedNow, AskedNow

\* A new engine has admitted and answered nothing.
LEMMA EngineKeepsOnce ==
    ASSUME IInv, NEW known, NEW o, Engine(known, o), rows' = rows
    PROVE  OnceEach'
<1>1. /\ \A a \in Actor : pendingRecorded'[a] = {} /\ nextAdmitSeq'[a] = 0
      /\ answers' = <<>> /\ parked' = {}
  BY DEF Engine
<1>2. \A x \in DOMAIN rows : rows[x].seq \in Nat /\ rows[x].actor \in Actor
  BY DEF IInv, TypeOK, JournalTypes, Row
<1>3. \A x \in DOMAIN rows' : ~(rows'[x].seq < nextAdmitSeq'[rows'[x].actor])
  BY <1>1, <1>2
<1>4. Len(answers') = 0
  BY <1>1
<1> QED BY <1>1, <1>3, <1>4 DEF OnceEach, AdmittedNow

\* Every step keeps it.
LEMMA OnceKept == IInv /\ IInv' /\ OnceEach /\ [Next]_vars => OnceEach'
<1> SUFFICES ASSUME IInv, IInv', OnceEach, [Next]_vars PROVE OnceEach'
  OBVIOUS
<1>0. /\ \A a, o : TurnEnds(a, o) => Settle(a, o)
      /\ \A a : SessionFails(a) => Settle(a, "failed")
  BY DEF TurnEnds, SessionFails
<1>1. ASSUME UNCHANGED <<rows, nextAdmitSeq, pendingRecorded, answers, ordinals>>,
             parked' \subseteq parked
      PROVE  OnceEach'
  BY <1>1 DEF OnceEach, AdmittedNow, AskedNow
<1>2. ASSUME NEW b \in Branch, StartBranch(b) PROVE OnceEach'
  <2>1. /\ run = "running" /\ calls[b] = 0 /\ Ask(b)
        /\ UNCHANGED <<read, overtaken, script>>
    BY <1>2 DEF StartBranch
  <2>2. calls[b] < Len(script.asks[b])
    <3>1. Len(script.asks[b]) \in Nat \ {0}
      BY ScriptsAssumption DEF Branch, IInv, TypeOK, JournalTypes
    <3> QED BY <3>1, <2>1
  <2>3. read' \in 0..Len(answers)
    BY <2>1 DEF IInv, TypeOK, ScriptTypes
  <2> QED BY <2>1, <2>2, <2>3, AskKeepsOnce
<1>3. CASE ReadAnswer
  <2>1. PICK got, b :
          /\ got = answers[read + 1] /\ b = rows[got.inst].caller.branch
          /\ \/ calls[b] < Len(script.asks[b]) /\ Ask(b)
             \/ UNCHANGED <<journalVars, actorVars, workVars, gateVars, ordinals, calls, answers,
                            heard>>
    BY <1>3 DEF ReadAnswer
  <2>2. run = "running" /\ read < Len(answers) /\ read' = read + 1
        /\ UNCHANGED <<overtaken, script>>
    BY <1>3 DEF ReadAnswer
  <2>3. answers \in Seq(News) /\ read \in 0..Len(answers) /\ Len(answers) \in Nat
    BY LenProperties DEF IInv, TypeOK, ScriptTypes
  <2>4. read' \in 0..Len(answers) /\ read + 1 \in 1..Len(answers)
    BY <2>2, <2>3
  <2>5. b \in Branch
    <3>1. got.inst \in DOMAIN rows
      BY <2>1, <2>4 DEF IInv, AnswersTrue
    <3>2. rows[got.inst].caller \in CallersOf(script)
      BY <3>1 DEF IInv, Asked
    <3>3. PICK e \in DOMAIN script.asks :
            \E i \in DOMAIN script.asks[e] : rows[got.inst].caller = [branch |-> e, index |-> i]
      BY <3>2 DEF CallersOf
    <3> QED BY <3>3, <2>1 DEF Branch
  <2>6. CASE calls[b] < Len(script.asks[b]) /\ Ask(b)
    BY <2>2, <2>4, <2>5, <2>6, AskKeepsOnce
  <2>7. CASE UNCHANGED <<journalVars, actorVars, workVars, gateVars, ordinals, calls, answers,
                         heard>>
    BY <2>7, <1>1 DEF journalVars, actorVars, gateVars
  <2> QED BY <2>1, <2>6, <2>7
<1>4. CASE Complete \/ Stop
  BY <1>4, <1>1 DEF Complete, Stop, End, actorVars, scriptVars
<1>5. ASSUME NEW a \in Actor, SessionOpens(a) PROVE OnceEach'
  BY <1>5, <1>1 DEF SessionOpens, journalVars, actorVars, gateVars, scriptVars
<1>6. ASSUME NEW a \in Actor, NEW o \in {"ok", "failed"}, Settle(a, o) PROVE OnceEach'
  BY <1>6, SettleKeepsOnce
<1>7. ASSUME NEW n \in Caps, Retune(n) PROVE OnceEach'
  BY <1>7, <1>1 DEF Retune, actorVars, gateVars, scriptVars
<1>8. CASE Crash
  <2>1. PICK known, o : Engine(known, o) /\ rows' = rows
    BY <1>8 DEF Crash
  <2> QED BY <2>1, EngineKeepsOnce
<1>9. CASE Resume
  <2>1. PICK known, o : Engine(known, o) /\ rows' = rows
    BY <1>9 DEF Resume
  <2> QED BY <2>1, EngineKeepsOnce
<1>10. CASE UNCHANGED vars
  BY <1>10, <1>1 DEF vars, journalVars, actorVars, gateVars, scriptVars
<1> QED BY <1>0, <1>2, <1>3, <1>4, <1>5, <1>6, <1>7, <1>8, <1>9, <1>10 DEF Next, Goes

-----------------------------------------------------------------------------
(* What is selected from a sequence all of whose members are, or are not, of the set. *)

\* A sequence is all that is selected from it and a tail that has nothing of the set.
LEMMA AmongHead ==
    ASSUME NEW T, NEW s \in Seq(T), NEW t \in Seq(T), NEW S,
           \A i \in 1..Len(s) : s[i] \in S, \A i \in 1..Len(t) : t[i] \notin S
    PROVE  Among(s \o t, S) = s
<1> DEFINE u == s \o t
           N == { i \in DOMAIN u : u[i] \in S }
           p == [i \in 1..Len(s) |-> i]
<1>1. /\ Len(s) \in Nat /\ Len(t) \in Nat /\ DOMAIN u = 1..(Len(s) + Len(t))
      /\ \A i \in 1..(Len(s) + Len(t)) : u[i] = IF i <= Len(s) THEN s[i] ELSE t[i - Len(s)]
      /\ DOMAIN s = 1..Len(s)
  BY ConcatProperties
<1>2. Among(u, S) = [i \in DOMAIN Ascending(N) |-> u[Ascending(N)[i]]]
  BY DEF Among
<1> HIDE DEF u
<1>3. N = 1..Len(s)
  <2>1. ASSUME NEW i \in 1..(Len(s) + Len(t)), i > Len(s) PROVE u[i] \notin S
    <3> DEFINE j == i - Len(s)
    <3>1. j \in 1..Len(t) /\ u[i] = t[j]
      BY <2>1, <1>1
    <3> HIDE DEF j
    <3> QED BY <3>1
  <2>2. ASSUME NEW i \in 1..Len(s) PROVE i \in 1..(Len(s) + Len(t)) /\ u[i] \in S
    <3>1. i \in 1..(Len(s) + Len(t)) /\ i <= Len(s)
      BY <1>1
    <3> QED BY <3>1, <1>1
  <2>3. \A i \in N : i \in 1..(Len(s) + Len(t)) /\ u[i] \in S
    BY <1>1
  <2>4. \A i \in 1..(Len(s) + Len(t)) : ~(i > Len(s)) => i \in 1..Len(s)
    BY <1>1
  <2> QED BY <2>1, <2>2, <2>3, <2>4, <1>1
<1> HIDE DEF N
<1>4. N \in SUBSET Nat /\ IsFiniteSet(N)
  BY <1>1, <1>3, FS_Interval
<1>5. p \in Seq(N) /\ Len(p) = Len(s) /\ \A i \in 1..Len(p) : p[i] = i
  BY <1>1, <1>3
<1> HIDE DEF p
<1>6. p = Ascending(N)
  <2>1. \A i, j \in 1..Len(p) : i < j => p[i] < p[j]
    BY <1>5
  <2>2. \A n \in N : \E i \in 1..Len(p) : p[i] = n
    BY <1>3, <1>5
  <2> QED BY <2>1, <2>2, <1>4, <1>5, AscendingIsUnique
<1>7. DOMAIN p = 1..Len(s)
  BY <1>5
<1>8. Among(u, S) = [i \in 1..Len(s) |-> s[i]]
  BY <1>1, <1>2, <1>3, <1>4, <1>5, <1>6, <1>7
<1> QED BY <1>1, <1>8 DEF u

\* Of a sequence in the set nothing is left without it.
LEMMA WithoutAll ==
    ASSUME NEW T, NEW s \in Seq(T), NEW S, \A i \in 1..Len(s) : s[i] \in S
    PROVE  Without(s, S) = <<>>
<1>1. /\ Without(s, S) \in Seq(T) /\ \A i \in 1..Len(Without(s, S)) : Without(s, S)[i] \notin S
  BY WithoutSelects
<1>2. \A i \in 1..Len(Without(s, S)) : \E k \in 1..Len(s) : Without(s, S)[i] = s[k]
  BY WithoutSelects
<1>3. 1..Len(Without(s, S)) = {}
  BY <1>1, <1>2
<1>4. Len(Without(s, S)) = 0
  BY <1>1, <1>3, LenProperties
<1> QED BY <1>1, <1>4, EmptySeq

\* A single one that is not of the set is left.
LEMMA WithoutOne ==
    ASSUME NEW T, NEW x \in T, NEW S, x \notin S
    PROVE  Without(<<x>>, S) = <<x>>
<1> DEFINE s == <<x>>  w == Without(s, S)
<1>1. s \in Seq(T) /\ Len(s) = 1 /\ s[1] = x
  OBVIOUS
<1> HIDE DEF s
<1>2. w \in Seq(T)
  BY <1>1, WithoutSelects, SMTT(30)
<1>3. \E i \in 1..Len(w) : w[i] = x
  <2>1. 1 \in 1..Len(s) /\ s[1] \notin S
    BY <1>1
  <2>2. \A k \in 1..Len(s) : s[k] \notin S => \E i \in 1..Len(w) : w[i] = s[k]
    BY <1>1, WithoutSelects
  <2> QED BY <2>1, <2>2, <1>1
<1>4. \A i, j \in 1..Len(w) : i < j => \E k, l \in 1..Len(s) : k < l
  BY <1>1, WithoutSelects
<1>5. \A k, l \in 1..Len(s) : ~(k < l)
  BY <1>1
<1> HIDE DEF w
<1>6. Len(w) = 1
  <2>1. Len(w) \in Nat /\ Len(w) >= 1
    BY <1>2, <1>3
  <2>2. ASSUME Len(w) >= 2 PROVE FALSE
    <3>1. 1 \in 1..Len(w) /\ 2 \in 1..Len(w) /\ 1 < 2
      BY <2>1, <2>2
    <3> QED BY <3>1, <1>4, <1>5
  <2> DEFINE n == Len(w)
  <2>3. n \in Nat /\ n >= 1 /\ ~(n >= 2)
    BY <2>1, <2>2
  <2> HIDE DEF n
  <2>4. n = 1
    BY <2>3
  <2> QED BY <2>4 DEF n
<1>7. w[1] = x
  BY <1>3, <1>6
<1> QED BY <1>2, <1>6, <1>7 DEF w, s

-----------------------------------------------------------------------------
(* The answers of the earlier lives, given again. *)

\* What the answers of s are about.
Insts(s) == [i \in DOMAIN s |-> s[i].inst]

\* The script is told what it was told in an earlier life, as far as that had come.
AsHeard == \A i \in 1..Len(answers) : i <= Len(heard) /\ answers[i] = heard[i]

\* What settled is what was ever told, each once.
HeardOnce == \A i, j \in 1..Len(heard) : heard[i].inst = heard[j].inst => i = j
HeardSettled ==
    /\ \A x \in DOMAIN rows : Settled(x) => \E i \in 1..Len(heard) : heard[i].inst = x
    /\ \A i \in 1..Len(heard) : /\ heard[i].inst \in DOMAIN rows
                                /\ rows[heard[i].inst].status = heard[i].outcome

\* The gate's order is what was told before this life; as long as the gate has not let it
\* all through nothing else is told, and then all is told.
OrderHeard ==
    run = "running" =>
        /\ Len(order) <= Len(heard) /\ \A i \in 1..Len(order) : order[i] = heard[i].inst
        /\ cursor < Len(order) => Len(heard) = Len(order) /\ Len(answers) = cursor
        /\ cursor = Len(order) => answers = heard

\* A life that can be followed by another leaves a journal from which the gate's order
\* is what was told.
EventsHeard ==
    life < MaxLives =>
        /\ run \in {"running", "dead"} => events = Insts(heard)
        /\ run = "stopped" => RecordedOrder = Insts(heard) /\ life \in StopsIn

\* The gate gives what was told next, and nothing of the journal changes.
LEMMA HoldGivesHeard ==
    ASSUME IInv, run = "running", AsHeard, HeardSettled, OrderHeard,
           NEW hits \in Seq(DOMAIN rows), \A i \in 1..Len(hits) : Settled(hits[i]),
           \A i \in 1..Len(hits), j \in 1..Len(answers) : hits[i] # answers[j].inst,
           Hold(hits)
    PROVE  /\ heard' = heard /\ AsHeard'
           /\ cursor' < Len(order) => Len(heard) = Len(order) /\ Len(answers') = cursor'
           /\ cursor' = Len(order) => answers' = heard
           /\ events = Insts(heard) => events' = events
<1> DEFINE ruled  == { order[i] : i \in { j \in DOMAIN order : j > cursor } }
           direct == Without(hits, ruled)
           all    == parked \cup (ToSet(hits) \cap ruled)
           N      == { n \in cursor..Len(order) : \A i \in (cursor + 1)..n : order[i] \in all }
           upto   == Largest(N)
           next   == SubSeq(order, cursor + 1, upto)
           out    == direct \o next
<1>1. /\ cursor' = upto
      /\ \E news : /\ news = [i \in DOMAIN out |-> [inst |-> out[i], outcome |-> rows[out[i]].status]]
                   /\ Answer(news)
  <2> DEFINE nw == [i \in DOMAIN out |-> [inst |-> out[i], outcome |-> rows[out[i]].status]]
  <2>1. cursor' = upto
    BY DEF Hold
  <2>2. Answer(nw)
    BY DEF Hold
  <2> HIDE DEF nw
  <2>3. \E news : news = nw /\ Answer(news)
    BY <2>2
  <2> QED BY ONLY <2>1, <2>3 DEF nw
<1>2. /\ order \in Seq(DOMAIN rows) /\ cursor \in 0..Len(order)
      /\ DOMAIN order = 1..Len(order) /\ Len(order) \in Nat
      /\ answers \in Seq(News) /\ heard \in Seq(News) /\ events \in Seq(DOMAIN rows)
      /\ Len(heard) \in Nat /\ Len(answers) \in Nat /\ DOMAIN heard = 1..Len(heard)
  BY LenProperties DEF IInv, TypeOK, GateTypes, ScriptTypes, JournalTypes
<1>2a. cursor \in 0..Len(order) /\ Len(order) \in Nat
  BY <1>2
<1>2b. cursor = Len(order) \/ cursor < Len(order)
  BY <1>2a
<1>3. /\ Len(order) <= Len(heard) /\ \A i \in 1..Len(order) : order[i] = heard[i].inst
      /\ cursor < Len(order) => Len(heard) = Len(order) /\ Len(answers) = cursor
      /\ cursor = Len(order) => answers = heard
  BY DEF OrderHeard
<1>4. \A i \in 1..Len(hits) : hits[i] \in ruled
  <2> SUFFICES ASSUME NEW i \in 1..Len(hits) PROVE hits[i] \in ruled
    OBVIOUS
  <2>1. PICK k \in 1..Len(heard) : heard[k].inst = hits[i]
    <3>1. hits[i] \in DOMAIN rows /\ Settled(hits[i])
      BY ElementOfSeq
    <3> QED BY <3>1 DEF HeardSettled
  <2>2. cursor < Len(order)
    <3>1. ASSUME cursor = Len(order) PROVE FALSE
      <4>1. answers = heard
        BY <3>1, <1>3
      <4>2. k \in 1..Len(answers) /\ answers[k].inst = hits[i]
        BY <4>1, <2>1
      <4> QED BY <4>2
    <3> QED BY <3>1, <1>2b
  <2>3. k \in 1..Len(order) /\ order[k] = hits[i]
    BY <1>3, <2>1, <2>2
  <2>4. k > cursor
    <3>1. ASSUME k <= cursor PROVE FALSE
      <4>1. k \in 1..Len(answers)
        <5>1. Len(answers) = cursor
          BY <1>3, <2>2
        <5>2. k \in Int /\ 1 <= k
          BY <2>3
        <5>3. cursor \in Int /\ k \in 1..cursor
          BY <5>2, <3>1, <1>2
        <5> QED BY <5>1, <5>3
      <4>2. answers[k] = heard[k]
        BY <4>1 DEF AsHeard
      <4> QED BY <4>1, <4>2, <2>1
    <3> QED BY <3>1, <1>2, <2>3
  <2> QED BY <2>3, <2>4, <1>2
<1>5. /\ IsFiniteSet(N) /\ N \in SUBSET Nat /\ cursor \in N
      /\ \A n \in N : n \in cursor..Len(order)
  <2>1. IsFiniteSet(cursor..Len(order)) /\ N \in SUBSET (cursor..Len(order))
    BY <1>2, FS_Interval
  <2>2. cursor \in N
    BY <1>2
  <2> QED BY <2>1, <2>2, <1>2, FS_Subset
<1> HIDE DEF ruled, all, N
<1>6. upto \in cursor..Len(order)
  BY <1>5, LargestIsGreatest
<1>7. direct = <<>>
  BY <1>4, WithoutAll
<1> HIDE DEF upto
<1>8. /\ next \in Seq(DOMAIN rows) /\ Len(next) = upto - cursor
      /\ \A i \in 1..(upto - cursor) : next[i] = order[cursor + i]
  <2>1. upto \in Nat /\ cursor \in Nat /\ cursor <= upto /\ upto <= Len(order)
    BY <1>2, <1>6
  <2>2. \A i \in (cursor + 1)..upto : order[i] \in DOMAIN rows
    <3> SUFFICES ASSUME NEW i \in (cursor + 1)..upto PROVE order[i] \in DOMAIN rows
      OBVIOUS
    <3>1. i \in 1..Len(order)
      BY <2>1
    <3> QED BY <3>1, <1>2, ElementOfSeq
  <2> QED BY <2>1, <2>2, <1>2, SubSeqProperties, SMTT(30)
<1> HIDE DEF next, direct
<1>9. out = next
  BY <1>7, <1>8
<1> HIDE DEF out
<1>10. PICK news : /\ news = [i \in DOMAIN out |-> [inst |-> out[i], outcome |-> rows[out[i]].status]]
                   /\ Answer(news)
  BY <1>1
<1> DEFINE n == upto - cursor
<1>11. n \in Nat /\ cursor \in Nat /\ cursor + n = upto /\ upto <= Len(order) /\ upto \in Nat
  BY <1>2, <1>6
<1>12. DOMAIN next = 1..n
  BY <1>8, <1>11
<1>13. /\ cursor + n <= Len(order) /\ Len(order) <= Len(heard)
       /\ news = [i \in 1..n |-> [inst |-> order[cursor + i], outcome |-> rows[order[cursor + i]].status]]
  BY <1>3, <1>8, <1>9, <1>10, <1>11, <1>12
<1> HIDE DEF n
<1>14. \A i \in 1..n : /\ cursor + i \in 1..Len(heard)
                       /\ [inst |-> order[cursor + i], outcome |-> rows[order[cursor + i]].status]
                           = heard[cursor + i]
  <2> SUFFICES ASSUME NEW i \in 1..n
               PROVE  /\ cursor + i \in 1..Len(heard)
                      /\ [inst |-> order[cursor + i], outcome |-> rows[order[cursor + i]].status]
                          = heard[cursor + i]
    OBVIOUS
  <2> DEFINE k == cursor + i
  <2>1. k \in 1..Len(order) /\ k \in 1..Len(heard)
    <3>1. /\ n \in Nat /\ cursor \in Nat /\ Len(order) \in Nat /\ Len(heard) \in Nat
          /\ cursor + n <= Len(order) /\ Len(order) <= Len(heard) /\ i \in 1..n
      BY <1>2, <1>11, <1>13
    <3> QED BY ONLY <3>1
  <2> HIDE DEF k
  <2>2. order[k] = heard[k].inst /\ rows[heard[k].inst].status = heard[k].outcome
    BY <2>1, <1>3 DEF HeardSettled
  <2>3. heard[k] \in News
    BY <2>1, <1>2, ElementOfSeq
  <2>4. heard[k] = [inst |-> heard[k].inst, outcome |-> heard[k].outcome]
    BY <2>3 DEF News
  <2>5. [inst |-> order[k], outcome |-> rows[order[k]].status] = heard[k]
    BY <2>2, <2>4
  <2> QED BY <2>1, <2>5 DEF k
<1>15. news = [i \in 1..n |-> heard[cursor + i]]
  BY <1>13, <1>14
<1>16. /\ news \in Seq(News) /\ Len(news) = n /\ \A i \in 1..n : news[i] = heard[cursor + i]
       /\ DOMAIN news = 1..n
  <2>1. \A i \in 1..n : heard[cursor + i] \in News
    BY <1>2, <1>14, ElementOfSeq
  <2> DEFINE f(i) == heard[cursor + i]
  <2>2. news = [i \in 1..n |-> f(i)] /\ \A i \in 1..n : f(i) \in News
    BY <2>1, <1>15
  <2> HIDE DEF f
  <2>3. news \in Seq(News) /\ Len(news) = n /\ (\A i \in 1..n : news[i] = f(i)) /\ DOMAIN news = 1..n
    BY <2>2, <1>11
  <2> QED BY <2>3 DEF f
<1>17. /\ answers' = answers \o news /\ events' = Logged(Insts(news))
       /\ heard' = IF Len(answers') > Len(heard) THEN answers' ELSE heard
  BY <1>10 DEF Answer, Insts
<1>18. /\ answers' \in Seq(News) /\ Len(answers') = Len(answers) + n
       /\ \A i \in 1..(Len(answers) + n) :
            answers'[i] = IF i <= Len(answers) THEN answers[i] ELSE news[i - Len(answers)]
  <2>1. answers \in Seq(News) /\ news \in Seq(News) /\ Len(news) = n /\ answers' = answers \o news
    BY <1>2, <1>16, <1>17
  <2> QED BY <2>1, ConcatProperties
<1>19. Len(answers') <= Len(heard) /\ \A i \in 1..Len(answers') : answers'[i] = heard[i]
  <2>1. CASE cursor = Len(order)
    <3>1. n = 0 /\ answers = heard
      BY <2>1, <1>3, <1>11, <1>13
    <3> QED BY <3>1, <1>2, <1>18
  <2>2. CASE cursor < Len(order)
    <3>1. Len(answers) = cursor
      BY <2>2, <1>3
    <3>2. ASSUME NEW i \in 1..(cursor + n) PROVE answers'[i] = heard[i]
      <4>1. CASE i <= cursor
        <5>1. i \in 1..Len(answers) /\ answers'[i] = answers[i]
          BY <4>1, <3>1, <1>11, <1>18
        <5> QED BY <5>1 DEF AsHeard
      <4>2. CASE ~(i <= cursor)
        <5> DEFINE j == i - cursor
        <5>1. j \in 1..n /\ cursor + j = i /\ answers'[i] = news[j]
          BY <4>2, <3>1, <1>11, <1>18
        <5> HIDE DEF j
        <5> QED BY <5>1, <1>16
      <4> QED BY <4>1, <4>2
    <3> QED BY <3>1, <3>2, <1>13, <1>18, <1>2, <1>11
  <2> QED BY <2>1, <2>2, <1>2b
<1>20. heard' = heard
  <2>1. ~(Len(answers') > Len(heard))
    <3>1. Len(answers') \in Nat
      BY <1>18, LenProperties
    <3> QED BY <3>1, <1>2, <1>19
  <2> QED BY <2>1, <1>17
<1>21. AsHeard'
  BY <1>2, <1>18, <1>19, <1>20, <1>11 DEF AsHeard
<1>22. ASSUME cursor' < Len(order) PROVE Len(heard) = Len(order) /\ Len(answers') = cursor'
  <2>1. cursor < Len(order)
    BY <1>22, <1>1, <1>2, <1>6, <1>11
  <2> QED BY <2>1, <1>1, <1>3, <1>11, <1>18
<1>23. ASSUME cursor' = Len(order) PROVE answers' = heard
  <2>1. Len(answers') = Len(heard)
    <3>1. CASE cursor = Len(order)
      <4>1. n = 0 /\ answers = heard
        BY <3>1, <1>3, <1>11, <1>13
      <4> QED BY <4>1, <1>2, <1>18
    <3>2. CASE cursor < Len(order)
      BY <3>2, <1>23, <1>1, <1>3, <1>11, <1>18
    <3> QED BY <3>1, <3>2, <1>2b
  <2> QED BY <2>1, <1>2, <1>18, <1>19, SeqEqual
<1>24. ASSUME events = Insts(heard) PROVE events' = events
  <2>1. /\ Insts(news) \in Seq(DOMAIN rows) /\ Len(Insts(news)) = n
        /\ \A i \in 1..n : Insts(news)[i] = heard[cursor + i].inst
    <3>1. Insts(news) = [i \in 1..n |-> heard[cursor + i].inst]
      BY <1>16 DEF Insts
    <3>2. \A i \in 1..n : heard[cursor + i].inst \in DOMAIN rows
      BY <1>14 DEF HeardSettled
    <3> QED BY <3>1, <3>2, <1>11, SMTT(30)
  <2>2. \A k \in 1..Len(heard) : heard[k].inst \in ToSet(events)
    BY <1>24, <1>2 DEF Insts, ToSet
  <2> DEFINE xs == Insts(news)
  <2>3. xs \in Seq(DOMAIN rows) /\ \A i \in 1..Len(xs) : xs[i] \in ToSet(events)
    BY <2>1, <2>2, <1>14
  <2>4. events' = events \o Without(xs, ToSet(events))
    BY <1>17 DEF Logged
  <2> HIDE DEF xs
  <2>5. Without(xs, ToSet(events)) = <<>>
    BY <2>3, WithoutAll
  <2> QED BY <2>4, <2>5, <1>2
<1> QED BY <1>20, <1>21, <1>22, <1>23, <1>24

\* The answers of this life and the journal are those of the earlier lives.
Replaying == AsHeard /\ HeardOnce /\ HeardSettled /\ OrderHeard /\ EventsHeard

\* An admission gives only answers that were given before, or none.
LEMMA DrainKeepsReplaying ==
    ASSUME IInv, OnceEach, Replaying, run = "running",
           NEW a \in Actor, NEW held, NEW waiting, NEW scan,
           Waiting(a, held, waiting), Around,
           \A x \in held : nextAdmitSeq[a] <= rows[x].seq,
           Drain(a, held, waiting, scan)
    PROVE  Replaying' /\ heard' = heard
<1>1. PICK reach, new, rest, hits : Sorted(a, held, waiting, reach, new, rest, hits)
  BY DrainSorts
<1>2. /\ hits \in Seq(held) /\ \A i \in 1..Len(hits) : Settled(hits[i])
      /\ Hold(hits)
  BY <1>1 DEF Sorted
<1>3. held \subseteq DOMAIN rows /\ \A x \in held : rows[x].actor = a
  BY DEF Waiting, RowsOf
<1>4. hits \in Seq(DOMAIN rows)
  BY <1>2, <1>3, SeqMonotonic
<1>5. ASSUME NEW i \in 1..Len(hits), NEW j \in 1..Len(answers) PROVE hits[i] # answers[j].inst
  <2>1. hits[i] \in held
    BY <1>2, ElementOfSeq
  <2>2. nextAdmitSeq[a] <= rows[hits[i]].seq /\ rows[hits[i]].actor = a
    BY <2>1, <1>3
  <2>3. rows[hits[i]].seq \in Nat /\ nextAdmitSeq[a] \in Nat
    BY <2>1, <1>3 DEF IInv, TypeOK, JournalTypes, ActorTypes, Row
  <2>4. ~AdmittedNow(hits[i])
    BY <2>2, <2>3 DEF AdmittedNow
  <2> QED BY <2>4 DEF OnceEach
<1>6. /\ heard' = heard /\ AsHeard'
      /\ cursor' < Len(order) => Len(heard) = Len(order) /\ Len(answers') = cursor'
      /\ cursor' = Len(order) => answers' = heard
      /\ events = Insts(heard) => events' = events
  BY <1>2, <1>4, <1>5, HoldGivesHeard DEF Replaying
<1>7. order' = order /\ run' = run /\ life' = life
  BY DEF Around
<1>8. /\ DOMAIN rows \subseteq DOMAIN rows' /\ \A x \in DOMAIN rows : rows'[x] = rows[x]
      /\ \A x \in DOMAIN rows' \ DOMAIN rows : rows'[x].status = "running"
  <2>1. PICK reach2, new2, more2, hits2 : Drained(a, held, waiting, scan, reach2, new2, more2, hits2)
    BY DrainDrains
  <2>2. DOMAIN rows \subseteq DOMAIN rows' /\ \A x \in DOMAIN rows : rows'[x] = rows[x]
    BY <2>1 DEF Drained
  <2>3. \A x \in DOMAIN rows' \ DOMAIN rows :
          \E i \in 1..Len(new2) :
             /\ x = new2[i].inst
             /\ rows'[x] = [caller |-> new2[i].caller, actor |-> a, seq |-> reach2 + i - 1,
                            status |-> "running"]
    <3>1. DOMAIN rows' = DOMAIN rows \cup { new2[i].inst : i \in 1..Len(new2) }
      BY <2>1 DEF Drained
    <3>2. \A i \in 1..Len(new2) :
            rows'[new2[i].inst] = [caller |-> new2[i].caller, actor |-> a, seq |-> reach2 + i - 1,
                                   status |-> "running"]
      BY <2>1 DEF Drained
    <3> QED BY <3>1, <3>2
  <2> QED BY <2>2, <2>3
<1>9. HeardOnce'
  BY <1>6 DEF Replaying, HeardOnce
<1>10. HeardSettled'
  <2>1. ASSUME NEW x \in DOMAIN rows', rows'[x].status \in {"ok", "failed"}
        PROVE  \E i \in 1..Len(heard) : heard[i].inst = x
    BY <2>1, <1>8 DEF Replaying, HeardSettled, Settled
  <2>2. \A i \in 1..Len(heard) : /\ heard[i].inst \in DOMAIN rows'
                                /\ rows'[heard[i].inst].status = heard[i].outcome
    BY <1>8 DEF Replaying, HeardSettled
  <2> QED BY <2>1, <2>2, <1>6 DEF HeardSettled, Settled
<1>11. OrderHeard'
  BY <1>6, <1>7 DEF Replaying, OrderHeard
<1>12. EventsHeard'
  BY <1>6, <1>7 DEF Replaying, EventsHeard
<1> QED BY <1>6, <1>9, <1>10, <1>11, <1>12 DEF Replaying

\* The end of a run: only a stop leaves a journal that is read again, and what it adds to
\* the events has not settled.
LEMMA EndKeepsReplaying ==
    ASSUME IInv, Replaying, run = "running", NEW outcome \in Ended, End(outcome),
           outcome = "stopped" => life \in StopsIn,
           UNCHANGED <<rows, life, answers, heard>>
    PROVE  Replaying'
<1>1. /\ run' = outcome /\ run' \notin {"running", "dead"}
      /\ events' = Logged(Among(order, parked) \o IF outcome = "errored" THEN <<>> ELSE liveNodes)
  BY DEF End, Ended
<1>2. AsHeard' /\ HeardOnce' /\ HeardSettled' /\ OrderHeard'
  BY <1>1 DEF Replaying, AsHeard, HeardOnce, HeardSettled, OrderHeard, Settled
<1>3. ASSUME life < MaxLives, outcome = "stopped"
      PROVE  RecordedOrder' = Insts(heard)
  <2>1. /\ events \in Seq(DOMAIN rows) /\ order \in Seq(DOMAIN rows) /\ liveNodes \in Seq(DOMAIN rows)
        /\ heard \in Seq(News)
    BY DEF IInv, TypeOK, JournalTypes, GateTypes, WorkTypes, ScriptTypes
  <2>2. events = Insts(heard)
    BY <1>3 DEF Replaying, EventsHeard
  <2> DEFINE cached == Among(order, parked)  xs == cached \o liveNodes
             left == Without(xs, ToSet(events))
             S == { x \in DOMAIN rows : Settled(x) }
  <2>3. events' = events \o left
    BY <1>1, <1>3 DEF Logged
  <2>4. cached \in Seq(DOMAIN rows)
    BY <2>1, AmongSelects
  <2> HIDE DEF cached
  <2>5. xs \in Seq(DOMAIN rows)
    BY <2>1, <2>4
  <2> HIDE DEF xs
  <2>6. left \in Seq(DOMAIN rows) /\ \A i \in 1..Len(left) : left[i] \notin ToSet(events)
    BY <2>5, WithoutSelects
  <2> HIDE DEF left
  <2>7. \A x \in S : x \in ToSet(events)
    <3> SUFFICES ASSUME NEW x \in S PROVE x \in ToSet(events)
      OBVIOUS
    <3>1. PICK i \in 1..Len(heard) : heard[i].inst = x
      BY DEF Replaying, HeardSettled
    <3>2. i \in DOMAIN events /\ events[i] = x
      BY <2>1, <2>2, <3>1 DEF Insts
    <3> QED BY <3>2 DEF ToSet
  <2>8. \A i \in 1..Len(events) : events[i] \in S
    <3> SUFFICES ASSUME NEW i \in 1..Len(events) PROVE events[i] \in S
      OBVIOUS
    <3>1. i \in 1..Len(heard) /\ events[i] = heard[i].inst
      BY <2>1, <2>2 DEF Insts
    <3>2. heard[i].inst \in DOMAIN rows /\ rows[heard[i].inst].status = heard[i].outcome
      BY <3>1 DEF Replaying, HeardSettled
    <3>3. heard[i] \in News
      BY <2>1, <3>1, ElementOfSeq
    <3> QED BY <3>1, <3>2, <3>3 DEF Settled, News
  <2>9. RecordedOrder' = Among(events', S)
    BY DEF RecordedOrder, Settled
  <2> HIDE DEF S
  <2>10. Among(events \o left, S) = events
    BY <2>1, <2>6, <2>7, <2>8, AmongHead
  <2> QED BY <2>2, <2>3, <2>9, <2>10
<1>4. EventsHeard'
  BY <1>1, <1>3 DEF EventsHeard
<1> QED BY <1>2, <1>4 DEF Replaying

\* An ask of the script gives only answers that were given before.
LEMMA AskKeepsReplaying ==
    ASSUME IInv, OnceEach, Replaying, run = "running", NEW b \in Branch,
           calls[b] < Len(script.asks[b]), Ask(b),
           script' = script, overtaken' = overtaken, read' \in 0..Len(answers)
    PROVE  Replaying' /\ heard' = heard
<1>1. script \in Scripts /\ calls \in [Branch -> Nat] /\ ordinals \in [Site -> Nat]
  BY DEF IInv, TypeOK, JournalTypes, ScriptTypes
<1>2. PICK c, s, x, a :
        /\ c = [branch |-> b, index |-> calls[b] + 1]
        /\ s = Wants(c).site /\ a = Wants(c).actor /\ x = <<s, ordinals[s] + 1>>
        /\ calls' = [calls EXCEPT ![b] = @ + 1]
        /\ ordinals' = [ordinals EXCEPT ![s] = @ + 1]
        /\ AdmitNew(x, c) \/ AdmitRecorded(x, c) \/ InputHashMismatch(x, c)
        /\ UNCHANGED <<cap, life, recorded, session, order>>
  BY DEF Ask
<1>3. c \in CallersOf(script) /\ a \in Actor /\ s \in Site
  BY <1>1, <1>2, NextCaller
<1>4. c \in Caller
  BY <1>1, <1>3 DEF Caller
<1>5. x \in Instance /\ x[1] = s /\ x[2] = ordinals[s] + 1
  BY <1>1, <1>2, <1>3 DEF Instance
<1>6. /\ calls' \in [Branch -> Nat] /\ ordinals' \in [Site -> Nat]
      /\ \A u \in Site : ordinals[u] <= ordinals'[u] /\ ordinals'[u] \in Nat
      /\ ordinals[s] < x[2] /\ x[2] <= ordinals'[s]
  BY <1>1, <1>2, <1>3, <1>5
<1>7. ASSUME run' = run PROVE Around
  BY <1>2, <1>6, <1>7 DEF Around
<1>8. CASE AdmitNew(x, c)
  <2>1. PICK held, waiting, scan :
          /\ held = pendingRecorded[a]
          /\ waiting = Append(pendingLive[a], [inst |-> x, caller |-> c])
          /\ Drain(a, held, waiting, scan) /\ x \notin DOMAIN rows /\ run' = run
    BY <1>2, <1>8 DEF AdmitNew
  <2>2. Waiting(a, held, waiting)
    BY <2>1, <1>2, <1>3, <1>4, <1>5, <1>6, NewWaits
  <2>3. \A y \in held : nextAdmitSeq[a] <= rows[y].seq
    BY <2>1, <1>3 DEF OnceEach
  <2>4. Around /\ Drain(a, held, waiting, scan)
    BY <2>1, <1>7
  <2> QED BY <2>2, <2>3, <2>4, <1>3, DrainKeepsReplaying
<1>9. CASE AdmitRecorded(x, c)
  <2>1. PICK held, waiting, scan :
          /\ held = pendingRecorded[a] \cup {x} /\ waiting = pendingLive[a]
          /\ Drain(a, held, waiting, scan)
          /\ x \in DOMAIN rows /\ rows[x].caller = c /\ run' = run
    BY <1>2, <1>9 DEF AdmitRecorded
  <2>2. Wants(rows[x].caller).actor = a
    BY <2>1, <1>2
  <2>3. Waiting(a, held, waiting)
    BY <2>1, <2>2, <1>3, <1>6, RecordedWaits
  <2>4. ~AskedNow(x)
    BY <1>1, <1>3, <1>5 DEF AskedNow
  <2>5. nextAdmitSeq[a] <= rows[x].seq
    <3>1. ~(rows[x].seq < nextAdmitSeq[rows[x].actor])
      BY <2>1, <2>4 DEF OnceEach, AdmittedNow
    <3>2. rows[x].actor = a
      BY <2>1, <2>2 DEF IInv, Asked
    <3>3. rows[x].seq \in Nat /\ nextAdmitSeq[a] \in Nat
      BY <2>1, <1>3 DEF IInv, TypeOK, ActorTypes, JournalTypes, Row
    <3> QED BY <3>1, <3>2, <3>3
  <2>6. \A y \in held : nextAdmitSeq[a] <= rows[y].seq
    BY <2>1, <2>5, <1>3 DEF OnceEach
  <2>7. Around /\ Drain(a, held, waiting, scan)
    BY <2>1, <1>7
  <2> QED BY <2>3, <2>6, <2>7, <1>3, DrainKeepsReplaying
<1>10. CASE InputHashMismatch(x, c)
  <2>1. End("errored") /\ UNCHANGED <<rows, life, answers, heard>>
    BY <1>2, <1>10 DEF InputHashMismatch
  <2>2. "errored" \in Ended /\ "errored" # "stopped"
    BY DEF Ended
  <2> QED BY <2>1, <2>2, EndKeepsReplaying
<1> QED BY <1>2, <1>8, <1>9, <1>10

\* An ask that settles when the recorded answers have been read is told last of all.
LEMMA SettleKeepsReplaying ==
    ASSUME IInv, Replaying, NEW a \in Actor, NEW outcome \in {"ok", "failed"},
           Settle(a, outcome), overtaken' = "no"
    PROVE  Replaying' /\ Len(heard) <= Len(heard') /\ \A i \in 1..Len(heard) : heard'[i] = heard[i]
<1>1. PICK x, news :
        /\ x = current[a] /\ x \in ToSet(liveNodes) /\ news = <<[inst |-> x, outcome |-> outcome]>>
        /\ rows' = [rows EXCEPT ![x].status = outcome]
        /\ Answer(news)
        /\ UNCHANGED <<life, gateVars>>
        /\ Replayed
  BY DEF Settle
<1>2. run = "running" /\ run' = run
  BY LateReport DEF IInv
<1>3. /\ UNCHANGED <<order, cursor>>
      /\ order \in Seq(DOMAIN rows) /\ cursor \in 0..Len(order) /\ Len(order) \in Nat
      /\ answers \in Seq(News) /\ heard \in Seq(News) /\ events \in Seq(DOMAIN rows)
      /\ read \in 0..Len(answers) /\ Len(answers) \in Nat /\ liveNodes \in Seq(DOMAIN rows)
      /\ DOMAIN rows \subseteq Instance
  BY <1>1, LenProperties DEF gateVars, IInv, TypeOK, GateTypes, ScriptTypes, JournalTypes, WorkTypes
<1>4. x \in DOMAIN rows /\ rows[x].status = "running"
  <2>0. liveNodes \in Seq(DOMAIN rows) /\ x \in { liveNodes[i] : i \in DOMAIN liveNodes }
    BY <1>1, <1>3 DEF ToSet
  <2>1. PICK i \in 1..Len(liveNodes) : x = liveNodes[i]
    BY <2>0
  <2>2. liveNodes[i] \in DOMAIN rows
    BY <2>0, ElementOfSeq
  <2> QED BY <2>1, <2>2 DEF IInv, LiveUnsettled
<1>5. cursor = Len(order)
  <2>1. ASSUME cursor < Len(order) PROVE FALSE
    <3>1. Len(answers) = cursor
      BY <2>1, <1>2 DEF Replaying, OrderHeard
    <3>2. read <= cursor /\ read >= Len(order) /\ read \in Int
      BY <3>1, <1>1, <1>3 DEF Replayed
    <3> QED BY <3>2, <2>1, <1>3
  <2> QED BY <2>1, <1>3
<1>6. answers = heard
  BY <1>2, <1>5 DEF Replaying, OrderHeard
<1>7. [inst |-> x, outcome |-> outcome] \in News
  BY <1>3, <1>4 DEF News
<1> DEFINE n == Len(heard)  y == [inst |-> x, outcome |-> outcome]
<1>8. news \in Seq(News) /\ news = <<y>>
  BY <1>1, <1>7
<1>9. /\ answers' = heard \o <<y>>
      /\ n \in Nat /\ heard \o <<y>> \in Seq(News) /\ Len(heard \o <<y>>) = n + 1
      /\ \A i \in 1..n : (heard \o <<y>>)[i] = heard[i]
      /\ (heard \o <<y>>)[n + 1] = y
  BY <1>1, <1>3, <1>6, <1>7, <1>8 DEF Answer
<1>10. heard' = answers'
  <2>1. Len(answers') > n
    BY <1>9
  <2> QED BY <2>1, <1>1 DEF Answer
<1> DEFINE h == heard \o <<y>>
<1>11. /\ heard' = h /\ answers' = h /\ h \in Seq(News) /\ Len(h) = n + 1 /\ n \in Nat
       /\ \A i \in 1..n : h[i] = heard[i]
       /\ h[n + 1].inst = x /\ h[n + 1].outcome = outcome
       /\ \A i \in 1..(n + 1) : i \in 1..n \/ i = n + 1
  BY <1>9, <1>10
<1>12. /\ DOMAIN rows' = DOMAIN rows /\ rows'[x].status = outcome
       /\ \A z \in DOMAIN rows : z # x => rows'[z] = rows[z]
  <2>1. rows'[x] = [rows[x] EXCEPT !.status = outcome]
    BY <1>1, <1>4
  <2>2. rows[x] \in Row
    BY <1>4 DEF IInv, TypeOK, JournalTypes
  <2> QED BY <2>1, <2>2, <1>1 DEF Row
<1>13. \A i \in 1..n : /\ heard[i].inst \in DOMAIN rows /\ heard[i].inst # x
                       /\ rows[heard[i].inst].status = heard[i].outcome
  <2> SUFFICES ASSUME NEW i \in 1..n
               PROVE  /\ heard[i].inst \in DOMAIN rows /\ heard[i].inst # x
                      /\ rows[heard[i].inst].status = heard[i].outcome
    OBVIOUS
  <2>1. heard[i].inst \in DOMAIN rows /\ rows[heard[i].inst].status = heard[i].outcome
    BY DEF Replaying, HeardSettled
  <2>2. heard[i] \in News
    BY <1>3, ElementOfSeq
  <2>3. heard[i].outcome # "running"
    BY <2>2 DEF News
  <2> QED BY <2>1, <2>3, <1>4
<1> HIDE DEF h, y
<1>14. AsHeard'
  BY <1>11 DEF AsHeard
<1>15. HeardOnce'
  <2> SUFFICES ASSUME NEW i \in 1..(n + 1), NEW j \in 1..(n + 1), h[i].inst = h[j].inst PROVE i = j
    BY <1>11 DEF HeardOnce
  <2>1. CASE i \in 1..n /\ j \in 1..n
    BY <2>1, <1>11 DEF Replaying, HeardOnce
  <2>2. CASE i \in 1..n /\ j = n + 1
    <3>1. heard[i].inst = x
      BY <2>2, <1>11
    <3> QED BY <2>2, <3>1, <1>13
  <2>3. CASE i = n + 1 /\ j \in 1..n
    <3>1. heard[j].inst = x
      BY <2>3, <1>11
    <3> QED BY <2>3, <3>1, <1>13
  <2>4. CASE i = n + 1 /\ j = n + 1
    BY <2>4
  <2> QED BY <2>1, <2>2, <2>3, <2>4, <1>11
<1>16. HeardSettled'
  <2>1. ASSUME NEW z \in DOMAIN rows', rows'[z].status \in {"ok", "failed"}
        PROVE  \E i \in 1..(n + 1) : h[i].inst = z
    <3>1. CASE z = x
      <4>1. n + 1 \in 1..(n + 1)
        BY <1>11
      <4> QED BY <4>1, <3>1, <1>11
    <3>2. CASE z # x
      <4>1. z \in DOMAIN rows /\ Settled(z)
        BY <3>2, <2>1, <1>12 DEF Settled
      <4>2. PICK i \in 1..n : heard[i].inst = z
        BY <4>1 DEF Replaying, HeardSettled
      <4>3. i \in 1..(n + 1)
        BY <1>11
      <4> QED BY <4>2, <4>3, <1>11
    <3> QED BY <3>1, <3>2
  <2>2. ASSUME NEW i \in 1..(n + 1)
        PROVE  h[i].inst \in DOMAIN rows' /\ rows'[h[i].inst].status = h[i].outcome
    <3>1. CASE i \in 1..n
      <4>1. h[i] = heard[i]
        BY <3>1, <1>11
      <4> QED BY <3>1, <4>1, <1>12, <1>13
    <3>2. CASE i = n + 1
      BY <3>2, <1>4, <1>11, <1>12
    <3> QED BY <3>1, <3>2, <1>11
  <2> QED BY <2>1, <2>2, <1>11 DEF HeardSettled, Settled
<1>17. OrderHeard'
  <2>1. Len(order) <= n /\ \A i \in 1..Len(order) : order[i] = heard[i].inst
    BY <1>2 DEF Replaying, OrderHeard
  <2>2. \A i \in 1..Len(order) : order[i] = h[i].inst
    <3> SUFFICES ASSUME NEW i \in 1..Len(order) PROVE order[i] = h[i].inst
      OBVIOUS
    <3>1. i \in 1..n
      BY <2>1, <1>3, <1>11
    <3> QED BY <3>1, <2>1, <1>11
  <2>3. Len(order) <= n + 1
    BY <2>1, <1>3, <1>11
  <2>4. ~(cursor < Len(order))
    BY <1>5, <1>3
  <2> QED BY <2>2, <2>3, <2>4, <1>3, <1>11 DEF OrderHeard
<1>18. EventsHeard'
  <2> SUFFICES ASSUME life < MaxLives PROVE events' = Insts(h)
    BY <1>1, <1>2, <1>11 DEF EventsHeard
  <2>1. events = Insts(heard)
    BY <1>2 DEF Replaying, EventsHeard
  <2>2. events' = Logged([i \in DOMAIN news |-> news[i].inst])
    BY <1>1 DEF Answer
  <2>3. [i \in DOMAIN news |-> news[i].inst] = <<x>>
    BY <1>8 DEF y
  <2>4. x \notin ToSet(events)
    <3>1. DOMAIN heard = 1..n
      BY <1>3
    <3> QED BY <3>1, <2>1, <1>13 DEF ToSet, Insts
  <2>5. events' = events \o <<x>>
    <3>1. Without(<<x>>, ToSet(events)) = <<x>>
      BY <2>4, <1>4, WithoutOne
    <3> QED BY <2>2, <2>3, <3>1 DEF Logged
  <2>6. /\ events \o <<x>> \in Seq(Instance) /\ Len(events \o <<x>>) = n + 1
        /\ \A i \in 1..n : (events \o <<x>>)[i] = heard[i].inst
        /\ (events \o <<x>>)[n + 1] = x
    <3>1. events \in Seq(Instance) /\ x \in Instance
      BY <1>3, <1>4, SeqMonotonic
    <3>2. DOMAIN heard = 1..n
      BY <1>3
    <3>3. Len(events) = n /\ \A i \in 1..n : events[i] = heard[i].inst
      BY <2>1, <3>1, <3>2, <1>11 DEF Insts
    <3> QED BY <3>1, <3>3
  <2>7. /\ Insts(h) \in Seq(Instance) /\ Len(Insts(h)) = n + 1
        /\ \A i \in 1..(n + 1) : Insts(h)[i] = h[i].inst
    <3>1. Insts(h) = [i \in 1..(n + 1) |-> h[i].inst]
      BY <1>11 DEF Insts
    <3>2. \A i \in 1..(n + 1) : h[i].inst \in Instance
      <4>1. \A i \in 1..(n + 1) : h[i] \in News
        BY <1>11, ElementOfSeq
      <4> QED BY <4>1 DEF News
    <3> QED BY <3>1, <3>2, <1>11
  <2>8. \A i \in 1..(n + 1) : (events \o <<x>>)[i] = Insts(h)[i]
    BY <2>6, <2>7, <1>11
  <2>9. events \o <<x>> = Insts(h)
    BY <2>6, <2>7, <2>8, SeqEqual
  <2> QED BY <2>5, <2>9
<1>19. Len(heard) <= Len(heard') /\ \A i \in 1..Len(heard) : heard'[i] = heard[i]
  BY <1>11
<1> QED BY <1>14, <1>15, <1>16, <1>17, <1>18, <1>19 DEF Replaying

\* Bound on the stops: a stopped life is the last one, or only the last one follows it.
LateStops == \A l \in StopsIn : l + 1 >= MaxLives

\* Of a run whose every settlement is in the journal's events the gate's order is theirs.
LEMMA AllRecorded ==
    ASSUME IInv, Replaying, events = Insts(heard)
    PROVE  RecordedOrder = Insts(heard)
<1> DEFINE S == { x \in DOMAIN rows : Settled(x) }
<1>1. events \in Seq(DOMAIN rows) /\ heard \in Seq(News)
  BY DEF IInv, TypeOK, JournalTypes, ScriptTypes
<1>2. \A i \in 1..Len(events) : events[i] \in S
  <2> SUFFICES ASSUME NEW i \in 1..Len(events) PROVE events[i] \in S
    OBVIOUS
  <2>1. i \in 1..Len(heard) /\ events[i] = heard[i].inst
    BY <1>1 DEF Insts
  <2>2. heard[i].inst \in DOMAIN rows /\ rows[heard[i].inst].status = heard[i].outcome
    BY <2>1 DEF Replaying, HeardSettled
  <2>3. heard[i] \in News
    BY <1>1, <2>1, ElementOfSeq
  <2> QED BY <2>1, <2>2, <2>3 DEF Settled, News
<1>3. RecordedOrder = Among(events, S)
  BY DEF RecordedOrder
<1> HIDE DEF S
<1>4. <<>> \in Seq(DOMAIN rows) /\ Len(<<>>) = 0 /\ events \o <<>> = events
  BY <1>1, EmptySeq, ConcatEmptySeq
<1>5. Among(events \o <<>>, S) = events
  <2>1. \A i \in 1..Len(<<>>) : <<>>[i] \notin S
    BY <1>4
  <2> QED BY <2>1, <1>1, <1>2, <1>4, AmongHead
<1> QED BY <1>3, <1>4, <1>5

\* A dead process leaves a journal from which the answers are given again.
LEMMA CrashKeepsReplaying ==
    ASSUME IInv, Replaying, Crash
    PROVE  Replaying'
<1>1. /\ run = "running" /\ run' = "dead" /\ answers' = <<>>
      /\ UNCHANGED <<rows, events, life, heard>>
  BY DEF Crash, Engine
<1>2. Len(answers') = 0
  BY <1>1
<1> QED BY <1>1, <1>2 DEF Replaying, AsHeard, HeardOnce, HeardSettled, Settled, OrderHeard,
                          EventsHeard

\* A new engine's gate has the order of what was told.
LEMMA ResumeKeepsReplaying ==
    ASSUME IInv, Replaying, LateStops, Resume
    PROVE  Replaying'
<1>1. /\ run \in {"dead", "stopped"} /\ life < MaxLives /\ run' = "running" /\ life' = life + 1
      /\ order' = RecordedOrder /\ cursor' = 0 /\ answers' = <<>>
      /\ UNCHANGED <<rows, events, heard>>
  BY DEF Resume, Engine
<1>2. heard \in Seq(News) /\ life \in Int /\ MaxLives \in Int
  BY AskSchedulerAssumption DEF IInv, TypeOK, ScriptTypes, JournalTypes
<1>3. RecordedOrder = Insts(heard)
  BY <1>1, AllRecorded DEF Replaying, EventsHeard
<1>4. /\ Len(answers') = 0 /\ Len(heard) \in Nat /\ DOMAIN heard = 1..Len(heard)
      /\ Len(heard) = 0 => heard = <<>>
  BY <1>1, <1>2
<1>5. Len(order') = Len(heard) /\ \A i \in 1..Len(heard) : order'[i] = heard[i].inst
  BY <1>1, <1>3, <1>4 DEF Insts
<1>6. AsHeard'
  BY <1>1, <1>4 DEF AsHeard
<1>7. HeardOnce' /\ HeardSettled'
  BY <1>1 DEF Replaying, HeardOnce, HeardSettled, Settled
<1>8. OrderHeard'
  BY <1>1, <1>4, <1>5 DEF OrderHeard
<1>9. EventsHeard'
  <2> SUFFICES ASSUME life + 1 < MaxLives PROVE events = Insts(heard)
    BY <1>1 DEF EventsHeard
  <2>1. run # "stopped"
    <3>1. ASSUME run = "stopped" PROVE FALSE
      <4>1. life \in StopsIn
        BY <1>1, <3>1 DEF Replaying, EventsHeard
      <4>2. life + 1 >= MaxLives
        BY <4>1 DEF LateStops
      <4> QED BY <4>2, <1>2
    <3> QED BY <3>1
  <2> QED BY <2>1, <1>1 DEF Replaying, EventsHeard
<1> QED BY <1>6, <1>7, <1>8, <1>9 DEF Replaying

\* Every step keeps it, as long as no ask overtakes the recorded answers.
LEMMA ReplayingKept ==
    ASSUME LateStops, IInv, OnceEach, overtaken = "no" => Replaying, [Next]_vars, overtaken' = "no"
    PROVE  Replaying'
<1>0. /\ \A a, o : TurnEnds(a, o) => Settle(a, o)
      /\ \A a : SessionFails(a) => Settle(a, "failed")
  BY DEF TurnEnds, SessionFails
<1>1. ASSUME UNCHANGED <<rows, events, life, run, order, cursor, answers, heard, overtaken>>
      PROVE  Replaying'
  BY <1>1 DEF Replaying, AsHeard, HeardOnce, HeardSettled, OrderHeard, EventsHeard, Settled,
              RecordedOrder
<1>2. ASSUME NEW b \in Branch, StartBranch(b) PROVE Replaying'
  <2>1. /\ run = "running" /\ calls[b] = 0 /\ Ask(b)
        /\ UNCHANGED <<read, overtaken, script>>
    BY <1>2 DEF StartBranch
  <2>2. calls[b] < Len(script.asks[b])
    <3>1. Len(script.asks[b]) \in Nat \ {0}
      BY ScriptsAssumption DEF Branch, IInv, TypeOK, JournalTypes
    <3> QED BY <3>1, <2>1
  <2>3. read' \in 0..Len(answers)
    BY <2>1 DEF IInv, TypeOK, ScriptTypes
  <2> QED BY <2>1, <2>2, <2>3, AskKeepsReplaying
<1>3. CASE ReadAnswer
  <2>1. PICK got, b :
          /\ got = answers[read + 1] /\ b = rows[got.inst].caller.branch
          /\ \/ calls[b] < Len(script.asks[b]) /\ Ask(b)
             \/ UNCHANGED <<journalVars, actorVars, workVars, gateVars, ordinals, calls, answers,
                            heard>>
    BY <1>3 DEF ReadAnswer
  <2>2. run = "running" /\ read < Len(answers) /\ read' = read + 1
        /\ UNCHANGED <<overtaken, script>>
    BY <1>3 DEF ReadAnswer
  <2>3. answers \in Seq(News) /\ read \in 0..Len(answers) /\ Len(answers) \in Nat
    BY LenProperties DEF IInv, TypeOK, ScriptTypes
  <2>4. read' \in 0..Len(answers) /\ read + 1 \in 1..Len(answers)
    BY <2>2, <2>3
  <2>5. b \in Branch
    <3>1. got.inst \in DOMAIN rows
      BY <2>1, <2>4 DEF IInv, AnswersTrue
    <3>2. rows[got.inst].caller \in CallersOf(script)
      BY <3>1 DEF IInv, Asked
    <3>3. PICK e \in DOMAIN script.asks :
            \E i \in DOMAIN script.asks[e] : rows[got.inst].caller = [branch |-> e, index |-> i]
      BY <3>2 DEF CallersOf
    <3> QED BY <3>3, <2>1 DEF Branch
  <2>6. CASE calls[b] < Len(script.asks[b]) /\ Ask(b)
    BY <2>2, <2>4, <2>5, <2>6, AskKeepsReplaying
  <2>7. CASE UNCHANGED <<journalVars, actorVars, workVars, gateVars, ordinals, calls, answers,
                         heard>>
    BY <2>2, <2>7, <1>1 DEF journalVars, gateVars
  <2> QED BY <2>1, <2>6, <2>7
<1>4. CASE Complete \/ Stop
  <2>1. PICK outcome \in Ended : End(outcome) /\ (outcome = "stopped" => life \in StopsIn)
    BY <1>4 DEF Complete, Stop, Ended
  <2>2. run = "running" /\ UNCHANGED <<rows, life, answers, heard, overtaken>>
    BY <1>4 DEF Complete, Stop, scriptVars
  <2> QED BY <2>1, <2>2, EndKeepsReplaying
<1>5. ASSUME NEW a \in Actor, SessionOpens(a) PROVE Replaying'
  BY <1>5, <1>1 DEF SessionOpens, journalVars, gateVars, scriptVars
<1>6. ASSUME NEW a \in Actor, NEW o \in {"ok", "failed"}, Settle(a, o) PROVE Replaying'
  <2>1. overtaken = "no"
    BY <1>6 DEF Settle
  <2> QED BY <2>1, <1>6, SettleKeepsReplaying
<1>7. ASSUME NEW n \in Caps, Retune(n) PROVE Replaying'
  BY <1>7, <1>1 DEF Retune, gateVars, scriptVars
<1>8. CASE Crash
  BY <1>8, CrashKeepsReplaying DEF Crash
<1>9. CASE Resume
  BY <1>9, ResumeKeepsReplaying DEF Resume
<1>10. CASE UNCHANGED vars
  BY <1>10, <1>1 DEF vars, journalVars, gateVars, scriptVars
<1> QED BY <1>0, <1>2, <1>3, <1>4, <1>5, <1>6, <1>7, <1>8, <1>9, <1>10 DEF Next, Goes

\* The inductive invariant of the replay.
RInv == IInv /\ OnceEach /\ (overtaken = "no" => Replaying)

\* Nothing has been told when a run begins.
LEMMA ReplayInitially == Init => RInv
<1> SUFFICES ASSUME Init PROVE RInv
  OBVIOUS
<1>1. IInv
  BY InvariantInitially
<1>2. /\ run = "running" /\ rows = <<>> /\ events = <<>>
      /\ nextAdmitSeq = [a \in Actor |-> 0] /\ pendingRecorded = [a \in Actor |-> {}]
      /\ order = <<>> /\ cursor = 0 /\ parked = {} /\ answers = <<>> /\ heard = <<>>
  BY DEF Init
<1>3. /\ DOMAIN rows = {} /\ Len(<<>>) = 0 /\ ~ \E i \in 1..Len(<<>>) : TRUE
      /\ 0 \in Nat /\ 0 <= 0 /\ ~(0 < 0)
  BY <1>2
<1>4. OnceEach
  BY <1>2, <1>3 DEF OnceEach
<1>5. Insts(heard) = <<>>
  BY <1>2 DEF Insts
<1>6. AsHeard /\ HeardOnce /\ HeardSettled /\ OrderHeard
  BY <1>2, <1>3 DEF AsHeard, HeardOnce, HeardSettled, OrderHeard
<1>7. EventsHeard
  BY <1>2, <1>5 DEF EventsHeard
<1> QED BY <1>1, <1>4, <1>6, <1>7 DEF RInv, Replaying

\* Every step keeps it.
LEMMA ReplayKept == LateStops /\ RInv /\ [Next]_vars => RInv'
BY InvariantKept, OnceKept, ReplayingKept DEF RInv

\* When a run is stopped at most before its last life, crashes as often as you like, and no
\* ask overtakes the recorded answers, every life is given the answers of the lives
\* before it in their order (replay-order.ts:11).
THEOREM ReplayedAsRecorded == LateStops => (Spec => []ScheduleReplayed)
<1>1. RInv => ScheduleReplayed
  <2> SUFFICES ASSUME RInv, overtaken = "no" PROVE IsPrefix(answers, heard)
    BY DEF ScheduleReplayed
  <2>1. AsHeard /\ answers \in Seq(News) /\ heard \in Seq(News)
    BY DEF RInv, Replaying, IInv, TypeOK, ScriptTypes
  <2> QED BY <2>1 DEF IsPrefix, AsHeard
<1>2. LateStops /\ RInv /\ [Next]_vars => RInv'
  BY ReplayKept
<1> SUFFICES ASSUME LateStops PROVE Spec => []ScheduleReplayed
  OBVIOUS
<1>3. RInv /\ [Next]_vars => RInv'
  BY <1>2
<1> QED BY <1>1, <1>3, ReplayInitially, PTL DEF Spec

-----------------------------------------------------------------------------
(* The script's course. *)

\* What the script has asked: of each branch how many asks, of each site how many.
Places == [calls : [Branch -> Nat], ordinals : [Site -> Nat]]
NothingAsked == [calls |-> [b \in Branch |-> 0], ordinals |-> [s \in Site |-> 0]]

\* The script's steps are numbered from 0: first its branches start, then it reads the
\* answers.  Turn is the branch that goes on in step i; after p it asks as CallerAt says,
\* and then has asked what After says.
Width == Len(script.asks)
Turn(i) == IF i < Width THEN i + 1 ELSE rows[heard[i - Width + 1].inst].caller.branch
GoesOn(i, p) ==
    /\ i >= Width => heard[i - Width + 1].outcome = "ok"
    /\ p.calls[Turn(i)] < Len(script.asks[Turn(i)])
CallerAt(i, p) == [branch |-> Turn(i), index |-> p.calls[Turn(i)] + 1]
SiteAt(i, p) == Wants(CallerAt(i, p)).site
After(i, p) ==
    IF GoesOn(i, p)
    THEN [calls    |-> [p.calls EXCEPT ![Turn(i)] = @ + 1],
          ordinals |-> [p.ordinals EXCEPT ![SiteAt(i, p)] = @ + 1]]
    ELSE p

\* P is the course of the script up to its step top, the farthest that any life has come.
Course(P, top) ==
    /\ top \in Nat /\ top <= Width + Len(heard)
    /\ P \in [0..top -> Places] /\ P[0] = NothingAsked
    /\ \A i \in 0..(top - 1) : P[i + 1] = After(i, P[i])
    /\ \A i, j \in 0..top : i <= j => \A s \in Site : P[i].ordinals[s] <= P[j].ordinals[s]
    /\ \A i \in 0..top : \A b \in Branch :
         /\ i <= Width => P[i].calls[b] = IF b <= i THEN 1 ELSE 0
         /\ i > Width => P[i].calls[b] > 0

\* In this life it has come to step pos.
Reached(P, top, pos) ==
    /\ pos \in 0..top
    /\ P[pos].calls = calls /\ P[pos].ordinals = ordinals
    /\ (pos <= Width /\ read = 0) \/ pos = Width + read

\* Caller c makes the ask x somewhere on the course; so it is with all asks known.
Made(P, top, x, c) ==
    \E i \in 0..(top - 1) :
        /\ GoesOn(i, P[i]) /\ c = CallerAt(i, P[i])
        /\ x = <<SiteAt(i, P[i]), P[i].ordinals[SiteAt(i, P[i])] + 1>>
AllMade(P, top) ==
    /\ \A x \in DOMAIN rows : Made(P, top, x, rows[x].caller)
    /\ \A a \in Actor : \A i \in 1..Len(pendingLive[a]) :
         Made(P, top, pendingLive[a][i].inst, pendingLive[a][i].caller)

\* Every life follows one course.
OnCourse ==
    /\ run # "errored"
    /\ \E P, top, pos : Course(P, top) /\ Reached(P, top, pos) /\ AllMade(P, top)

\* The branches are numbered.
LEMMA Branches ==
    ASSUME IInv
    PROVE  /\ Width \in Nat /\ Branch = 1..Width /\ script \in Scripts
           /\ \A b \in Branch : Len(script.asks[b]) \in Nat \ {0}
                               /\ DOMAIN script.asks[b] = 1..Len(script.asks[b])
<1>1. script \in Scripts
  BY DEF IInv, TypeOK, JournalTypes
<1> QED BY <1>1, ScriptsAssumption DEF Width, Branch

\* One of the branches goes on.
LEMMA TurnIsBranch ==
    ASSUME IInv, HeardSettled, NEW i \in Nat, i < Width + Len(heard)
    PROVE  /\ Turn(i) \in Branch
           /\ i >= Width => i - Width + 1 \in 1..Len(heard) /\ heard[i - Width + 1].inst \in DOMAIN rows
<1>1. Width \in Nat /\ Branch = 1..Width /\ Len(heard) \in Nat
  BY Branches, LenProperties DEF IInv, TypeOK, ScriptTypes
<1>2. CASE i < Width
  <2>1. Turn(i) = i + 1
    BY <1>2 DEF Turn
  <2> QED BY <2>1, <1>1, <1>2
<1>3. CASE ~(i < Width)
  <2> DEFINE k == i - Width + 1  x == heard[k].inst
  <2>1. k \in 1..Len(heard)
    BY <1>1, <1>3
  <2>2. Turn(i) = rows[x].caller.branch
    BY <1>3 DEF Turn
  <2> HIDE DEF k
  <2>3. x \in DOMAIN rows
    BY <2>1 DEF HeardSettled
  <2> HIDE DEF x
  <2>4. rows[x].caller \in CallersOf(script)
    BY <2>3 DEF IInv, Asked
  <2>5. PICK e \in DOMAIN script.asks :
          \E j \in DOMAIN script.asks[e] : rows[x].caller = [branch |-> e, index |-> j]
    BY <2>4 DEF CallersOf
  <2>6. Turn(i) \in Branch
    BY <2>2, <2>5 DEF Branch
  <2> QED BY <2>1, <2>3, <2>6 DEF k, x
<1> QED BY <1>2, <1>3

\* What a step of the script adds to what it has asked.
LEMMA StepAdds ==
    ASSUME IInv, NEW i, Turn(i) \in Branch, NEW p \in Places
    PROVE  /\ After(i, p) \in Places
           /\ \A s \in Site : p.ordinals[s] <= After(i, p).ordinals[s]
           /\ \A b \in Branch : p.calls[b] <= After(i, p).calls[b]
           /\ GoesOn(i, p) =>
                /\ SiteAt(i, p) \in Site /\ CallerAt(i, p) \in CallersOf(script)
                /\ After(i, p).ordinals = [p.ordinals EXCEPT ![SiteAt(i, p)] = @ + 1]
                /\ After(i, p).calls = [p.calls EXCEPT ![Turn(i)] = @ + 1]
           /\ ~GoesOn(i, p) => After(i, p) = p
<1>1. p.calls \in [Branch -> Nat] /\ p.ordinals \in [Site -> Nat]
  BY DEF Places
<1>2. CASE GoesOn(i, p)
  <2> DEFINE b == Turn(i)  c == CallerAt(i, p)  s == SiteAt(i, p)
  <2>1. b \in Branch /\ p.calls[b] < Len(script.asks[b])
    BY <1>2 DEF GoesOn
  <2>2. c \in CallersOf(script) /\ s \in Site
    <3>1. script \in Scripts /\ DOMAIN script.asks[b] = 1..Len(script.asks[b])
          /\ Len(script.asks[b]) \in Nat
      BY <2>1, Branches
    <3>2. p.calls[b] + 1 \in DOMAIN script.asks[b]
      BY <3>1, <2>1, <1>1
    <3>3. c = [branch |-> b, index |-> p.calls[b] + 1]
      BY DEF CallerAt
    <3> HIDE DEF c, b
    <3>4. c \in CallersOf(script)
      BY <3>2, <3>3, <2>1 DEF CallersOf, Branch
    <3>5. Wants(c).site \in Site
      <4>1. Wants(c).site \in { script.asks[d.branch][d.index].site : d \in CallersOf(script) }
        BY <3>4 DEF Wants
      <4> QED BY <4>1, <3>1 DEF Site
    <3>6. s = Wants(c).site
      BY DEF SiteAt, c
    <3> QED BY <3>4, <3>5, <3>6
  <2>3. After(i, p) = [calls |-> [p.calls EXCEPT ![b] = @ + 1], ordinals |-> [p.ordinals EXCEPT ![s] = @ + 1]]
    BY <1>2 DEF After
  <2> HIDE DEF b, s
  <2>4. /\ [p.calls EXCEPT ![b] = @ + 1] \in [Branch -> Nat]
        /\ [p.ordinals EXCEPT ![s] = @ + 1] \in [Site -> Nat]
        /\ \A u \in Site : p.ordinals[u] <= [p.ordinals EXCEPT ![s] = @ + 1][u]
        /\ \A u \in Branch : p.calls[u] <= [p.calls EXCEPT ![b] = @ + 1][u]
    BY <1>1, <2>1, <2>2
  <2> QED BY <1>2, <2>2, <2>3, <2>4 DEF Places, b, s
<1>3. CASE ~GoesOn(i, p)
  BY <1>1, <1>3 DEF After
<1> QED BY <1>2, <1>3

\* What the script has not asked yet it asks as its course goes on.
LEMMA CourseGoesOn ==
    ASSUME IInv, HeardSettled, NEW P, NEW top, Course(P, top),
           NEW pos \in 0..top, pos < Width + Len(heard)
    PROVE  \E Q, end : /\ Course(Q, end) /\ top <= end /\ pos + 1 <= end
                       /\ \A i \in 0..top : Q[i] = P[i]
                       /\ Q[pos] = P[pos] /\ Q[pos + 1] = After(pos, P[pos])
<1>0. /\ Width \in Nat /\ Branch = 1..Width /\ Len(heard) \in Nat /\ top \in Nat /\ pos \in Nat
      /\ top <= Width + Len(heard)
      /\ \A b \in Branch : Len(script.asks[b]) \in Nat \ {0}
  BY Branches, LenProperties DEF IInv, TypeOK, ScriptTypes, Course
<1>1. CASE pos < top
  <2>1. pos \in 0..(top - 1) /\ pos + 1 <= top /\ top <= top
    BY <1>0, <1>1
  <2>2. P[pos + 1] = After(pos, P[pos])
    BY <2>1 DEF Course
  <2> QED BY <2>1, <2>2
<1>2. CASE pos = top
  <2> DEFINE q == After(top, P[top])
             Q == [i \in 0..(top + 1) |-> IF i <= top THEN P[i] ELSE q]
  <2>1. /\ P \in [0..top -> Places] /\ P[0] = NothingAsked
        /\ \A i \in 0..(top - 1) : P[i + 1] = After(i, P[i])
        /\ \A i, j \in 0..top : i <= j => \A s \in Site : P[i].ordinals[s] <= P[j].ordinals[s]
        /\ \A i \in 0..top : \A b \in Branch :
             /\ i <= Width => P[i].calls[b] = IF b <= i THEN 1 ELSE 0
             /\ i > Width => P[i].calls[b] > 0
    BY DEF Course
  <2>2. top \in 0..top /\ P[top] \in Places /\ top < Width + Len(heard)
    BY <1>0, <1>2, <2>1
  <2>3. Turn(top) \in Branch
    BY <1>0, <2>2, TurnIsBranch
  <2>4. /\ q \in Places
        /\ \A s \in Site : P[top].ordinals[s] <= q.ordinals[s]
        /\ \A b \in Branch : P[top].calls[b] <= q.calls[b]
        /\ GoesOn(top, P[top]) => q.calls = [P[top].calls EXCEPT ![Turn(top)] = @ + 1]
    BY <2>2, <2>3, StepAdds
  <2>5. /\ \A i \in 0..top : Q[i] = P[i] /\ i <= top /\ i \in 0..(top + 1)
        /\ Q[top + 1] = q /\ \A i \in 0..(top + 1) : i \in 0..top \/ i = top + 1
    BY <1>0
  <2>6. Q \in [0..(top + 1) -> Places]
    BY <2>1, <2>4, <2>5
  <2>7. Q[0] = NothingAsked
    <3>1. 0 \in 0..top
      BY <1>0
    <3> QED BY <3>1, <2>1, <2>5
  <2>8. \A i \in 0..top : Q[i + 1] = After(i, Q[i])
    <3> SUFFICES ASSUME NEW i \in 0..top PROVE Q[i + 1] = After(i, Q[i])
      OBVIOUS
    <3>1. CASE i = top
      BY <3>1, <2>5
    <3>2. CASE i < top
      <4>1. i \in 0..(top - 1) /\ i + 1 \in 0..top
        BY <3>2, <1>0
      <4> QED BY <4>1, <2>1, <2>5
    <3> QED BY <3>1, <3>2, <1>0
  <2> HIDE DEF Q, q
  <2>9. \A i, j \in 0..(top + 1) : i <= j => \A s \in Site : Q[i].ordinals[s] <= Q[j].ordinals[s]
    <3> SUFFICES ASSUME NEW i \in 0..(top + 1), NEW j \in 0..(top + 1), i <= j, NEW s \in Site
                 PROVE  Q[i].ordinals[s] <= Q[j].ordinals[s]
      OBVIOUS
    <3>1. CASE j \in 0..top
      <4>1. i \in 0..top
        BY <3>1, <1>0
      <4> QED BY <3>1, <4>1, <2>1, <2>5
    <3>2. CASE i \in 0..top /\ j = top + 1
      <4>1. P[i].ordinals[s] <= P[top].ordinals[s] /\ P[top].ordinals[s] <= q.ordinals[s]
        BY <3>2, <2>1, <2>2, <2>4, <1>0
      <4>2. P[i] \in Places /\ P[top] \in Places /\ q \in Places
        BY <3>2, <2>1, <2>2, <2>4
      <4>3. P[i].ordinals[s] \in Nat /\ P[top].ordinals[s] \in Nat /\ q.ordinals[s] \in Nat
        BY <4>2 DEF Places
      <4>4. Q[i] = P[i] /\ Q[j] = q
        BY <3>2, <2>5
      <4>5. P[i].ordinals[s] <= q.ordinals[s]
        BY <4>1, <4>3
      <4> QED BY <4>4, <4>5
    <3>3. CASE i = top + 1 /\ j = top + 1
      <4>1. q.ordinals[s] \in Nat
        BY <2>4 DEF Places
      <4> QED BY <4>1, <3>3, <2>5
    <3>4. i = top + 1 => j = top + 1
      BY <1>0
    <3> QED BY <3>1, <3>2, <3>3, <3>4, <2>5
  <2>10. \A b \in Branch : /\ top + 1 <= Width => q.calls[b] = IF b <= top + 1 THEN 1 ELSE 0
                           /\ top + 1 > Width => q.calls[b] > 0
    <3> SUFFICES ASSUME NEW b \in Branch
                 PROVE  /\ top + 1 <= Width => q.calls[b] = IF b <= top + 1 THEN 1 ELSE 0
                        /\ top + 1 > Width => q.calls[b] > 0
      OBVIOUS
    <3>1. P[top].calls \in [Branch -> Nat] /\ q.calls \in [Branch -> Nat] /\ b \in Nat
      BY <2>2, <2>4, <1>0 DEF Places
    <3>2. CASE top < Width
      <4>1. Turn(top) = top + 1 /\ top + 1 \in Branch /\ top <= Width
        BY <3>2, <1>0 DEF Turn
      <4>2. \A e \in Branch : P[top].calls[e] = IF e <= top THEN 1 ELSE 0
        BY <4>1, <2>1, <2>2
      <4>3. P[top].calls[top + 1] = 0
        BY <4>1, <4>2, <1>0
      <4>4. Len(script.asks[top + 1]) \in Nat \ {0}
        BY <4>1, <1>0
      <4>5. GoesOn(top, P[top])
        BY <4>1, <4>3, <4>4, <3>2, <1>0 DEF GoesOn
      <4>6. q.calls = [P[top].calls EXCEPT ![top + 1] = @ + 1]
        BY <4>1, <4>5, <2>4
      <4>7. CASE b = top + 1
        BY <4>1, <4>3, <4>6, <4>7, <3>1, <3>2, <1>0
      <4>8. CASE b # top + 1
        <5>1. q.calls[b] = IF b <= top THEN 1 ELSE 0
          BY <4>2, <4>6, <4>8, <3>1
        <5>2. (b <= top <=> b <= top + 1) /\ ~(top + 1 > Width)
          BY <4>8, <3>1, <3>2, <1>0
        <5> QED BY <5>1, <5>2
      <4> QED BY <4>7, <4>8
    <3>3. CASE top >= Width
      <4>1. P[top].calls[b] > 0
        <5>1. CASE top = Width
          <6>1. P[top].calls[b] = IF b <= top THEN 1 ELSE 0
            BY <5>1, <2>1, <2>2, <1>0
          <6> QED BY <5>1, <6>1, <1>0
        <5>2. CASE top > Width
          BY <5>2, <2>1, <2>2
        <5> QED BY <5>1, <5>2, <3>3, <1>0
      <4>2. P[top].calls[b] <= q.calls[b] /\ P[top].calls[b] \in Nat /\ q.calls[b] \in Nat
        BY <2>4, <3>1
      <4>3. q.calls[b] > 0
        BY <4>1, <4>2
      <4>4. ~(top + 1 <= Width)
        BY <3>3, <1>0
      <4> QED BY <4>3, <4>4
    <3> QED BY <3>2, <3>3, <1>0
  <2>11. \A i \in 0..(top + 1) : \A b \in Branch :
           /\ i <= Width => Q[i].calls[b] = IF b <= i THEN 1 ELSE 0
           /\ i > Width => Q[i].calls[b] > 0
    BY <2>1, <2>5, <2>10
  <2>12. top + 1 \in Nat /\ top + 1 <= Width + Len(heard) /\ (top + 1) - 1 = top
         /\ top <= top + 1
    BY <1>0, <2>2
  <2>13. Course(Q, top + 1)
    BY <2>6, <2>7, <2>8, <2>9, <2>11, <2>12 DEF Course
  <2> QED BY <2>5, <2>12, <2>13, <1>2, <2>2 DEF q
<1> QED BY <1>0, <1>1, <1>2

\* On a course an ask has one caller.
LEMMA OneCaller ==
    ASSUME IInv, HeardSettled, NEW P, NEW top, Course(P, top),
           NEW pos \in 0..(top - 1), GoesOn(pos, P[pos]),
           NEW x, x = <<SiteAt(pos, P[pos]), P[pos].ordinals[SiteAt(pos, P[pos])] + 1>>,
           NEW c, Made(P, top, x, c)
    PROVE  c = CallerAt(pos, P[pos])
<1>0. /\ Width \in Nat /\ Len(heard) \in Nat /\ top \in Nat /\ top <= Width + Len(heard)
      /\ P \in [0..top -> Places]
      /\ \A i \in 0..(top - 1) : P[i + 1] = After(i, P[i])
      /\ \A i, j \in 0..top : i <= j => \A s \in Site : P[i].ordinals[s] <= P[j].ordinals[s]
  BY Branches, LenProperties DEF IInv, TypeOK, ScriptTypes, Course
<1>1. PICK i \in 0..(top - 1) :
        /\ GoesOn(i, P[i]) /\ c = CallerAt(i, P[i])
        /\ x = <<SiteAt(i, P[i]), P[i].ordinals[SiteAt(i, P[i])] + 1>>
  BY DEF Made
<1> DEFINE s == SiteAt(i, P[i])
<1>2. SiteAt(pos, P[pos]) = s /\ P[i].ordinals[s] + 1 = P[pos].ordinals[s] + 1
  BY <1>1
<1>3. ASSUME NEW j \in 0..(top - 1), GoesOn(j, P[j]), SiteAt(j, P[j]) = s
      PROVE  /\ s \in Site /\ P[j].ordinals[s] \in Nat
             /\ P[j + 1].ordinals[s] = P[j].ordinals[s] + 1
  <2>1. j \in Nat /\ j < Width + Len(heard) /\ j \in 0..top
    BY <1>0
  <2>2. Turn(j) \in Branch /\ P[j] \in Places
    BY <2>1, <1>0, TurnIsBranch
  <2>3. /\ SiteAt(j, P[j]) \in Site
        /\ After(j, P[j]).ordinals = [P[j].ordinals EXCEPT ![SiteAt(j, P[j])] = @ + 1]
    BY <2>2, <1>3, StepAdds
  <2> HIDE DEF s
  <2>4. P[j].ordinals \in [Site -> Nat]
    BY <2>2 DEF Places
  <2> QED BY <2>3, <2>4, <1>3, <1>0
<1>4. ASSUME NEW j \in 0..(top - 1), NEW k \in 0..(top - 1), j < k,
             GoesOn(j, P[j]), SiteAt(j, P[j]) = s, GoesOn(k, P[k]), SiteAt(k, P[k]) = s
      PROVE  P[j].ordinals[s] < P[k].ordinals[s]
  <2>1. j + 1 \in 0..top /\ k \in 0..top /\ j + 1 <= k
    BY <1>4, <1>0
  <2>2. /\ s \in Site /\ P[j].ordinals[s] \in Nat /\ P[k].ordinals[s] \in Nat
        /\ P[j + 1].ordinals[s] = P[j].ordinals[s] + 1
    BY <1>3, <1>4
  <2>3. P[j + 1].ordinals[s] <= P[k].ordinals[s]
    BY <2>1, <2>2, <1>0
  <2> QED BY <2>2, <2>3
<1>5. P[i].ordinals[s] \in Nat /\ P[pos].ordinals[s] \in Nat
  BY <1>1, <1>2, <1>3
<1> HIDE DEF s
<1>6. ~(i < pos) /\ ~(pos < i)
  BY <1>1, <1>2, <1>4, <1>5 DEF s
<1>7. i = pos
  BY <1>6, <1>0
<1> QED BY <1>1, <1>7

\* A step that forgets nothing of the script, of who asked and of what was told.
Remembers ==
    /\ script' = script
    /\ DOMAIN rows \subseteq DOMAIN rows' /\ \A x \in DOMAIN rows : rows'[x].caller = rows[x].caller
    /\ Len(heard) <= Len(heard') /\ \A i \in 1..Len(heard) : heard'[i] = heard[i]

\* It leaves the script's steps as they were.
LEMMA StepStays ==
    ASSUME IInv, HeardSettled, Remembers, NEW i \in Nat, i < Width + Len(heard), NEW p
    PROVE  /\ Turn(i)' = Turn(i) /\ (GoesOn(i, p)' <=> GoesOn(i, p))
           /\ CallerAt(i, p)' = CallerAt(i, p) /\ SiteAt(i, p)' = SiteAt(i, p)
           /\ After(i, p)' = After(i, p)
<1>1. Width' = Width /\ script' = script
  BY DEF Remembers, Width
<1>2. CASE i >= Width
  <2> DEFINE k == i - Width + 1  x == heard[k].inst
  <2>1. k \in 1..Len(heard) /\ x \in DOMAIN rows
    BY <1>2, TurnIsBranch
  <2> HIDE DEF k
  <2>2. heard'[k] = heard[k] /\ rows'[x].caller = rows[x].caller
    BY <2>1 DEF Remembers
  <2>3. Turn(i)' = Turn(i)
    <3>1. Width \in Nat /\ ~(i < Width)
      BY <1>2, Branches
    <3>2. Turn(i) = rows[heard[k].inst].caller.branch
      BY <3>1 DEF Turn, k
    <3>3. Turn(i)' = rows'[heard'[k].inst].caller.branch
      BY <3>1, <1>1 DEF Turn, k
    <3> QED BY <3>2, <3>3, <2>2
  <2>4. GoesOn(i, p) <=> heard[k].outcome = "ok" /\ p.calls[Turn(i)] < Len(script.asks[Turn(i)])
    BY <1>2 DEF GoesOn, k
  <2>5. GoesOn(i, p)' <=> heard'[k].outcome = "ok" /\ p.calls[Turn(i)'] < Len(script'.asks[Turn(i)'])
    BY <1>1, <1>2 DEF GoesOn, k
  <2>6. GoesOn(i, p)' <=> GoesOn(i, p)
    BY <2>2, <2>3, <2>4, <2>5, <1>1
  <2> QED BY <2>3, <2>6, <1>1 DEF CallerAt, SiteAt, After, Wants
<1>3. CASE ~(i >= Width)
  <2>1. i < Width /\ ~(i >= Width')
    BY <1>1, <1>3, Branches
  <2>2. Turn(i)' = i + 1 /\ Turn(i) = i + 1
    BY <2>1, <1>1 DEF Turn
  <2>3. GoesOn(i, p)' <=> GoesOn(i, p)
    BY <2>2, <1>1, <1>3 DEF GoesOn
  <2> QED BY <2>2, <2>3, <1>1 DEF CallerAt, SiteAt, After, Wants
<1> QED BY <1>2, <1>3

\* So the course stays the course, and what was asked on it was asked on it.
LEMMA CourseStays ==
    ASSUME IInv, HeardSettled, heard' \in Seq(News), Remembers, NEW P, NEW top, Course(P, top)
    PROVE  /\ Course(P, top)'
           /\ \A x, c : Made(P, top, x, c) => Made(P, top, x, c)'
<1>0. /\ Width \in Nat /\ Len(heard) \in Nat /\ top \in Nat /\ top <= Width + Len(heard)
      /\ Len(heard') \in Nat
  BY Branches, LenProperties DEF IInv, TypeOK, ScriptTypes, Course
<1>1. /\ Width' = Width /\ Branch' = Branch /\ Len(heard) <= Len(heard')
      /\ Places' = Places /\ NothingAsked' = NothingAsked
  BY DEF Remembers, Width, Branch, Places, NothingAsked
<1>2. \A i \in 0..(top - 1) : i \in Nat /\ i < Width + Len(heard)
  BY <1>0
<1>3. \A i \in 0..(top - 1) : P[i + 1] = After(i, P[i])'
  <2> SUFFICES ASSUME NEW i \in 0..(top - 1) PROVE P[i + 1] = After(i, P[i])'
    OBVIOUS
  <2>1. After(i, P[i])' = After(i, P[i])
    BY <1>2, StepStays
  <2> QED BY <2>1 DEF Course
<1>4. top <= Width + Len(heard')
  BY <1>0, <1>1
<1>5. Course(P, top)'
  BY <1>1, <1>3, <1>4 DEF Course
<1>6. ASSUME NEW x, NEW c, Made(P, top, x, c) PROVE Made(P, top, x, c)'
  <2>1. PICK i \in 0..(top - 1) :
          /\ GoesOn(i, P[i]) /\ c = CallerAt(i, P[i])
          /\ x = <<SiteAt(i, P[i]), P[i].ordinals[SiteAt(i, P[i])] + 1>>
    BY <1>6 DEF Made
  <2>2. /\ GoesOn(i, P[i])' /\ CallerAt(i, P[i])' = CallerAt(i, P[i])
        /\ SiteAt(i, P[i])' = SiteAt(i, P[i])
    BY <2>1, <1>2, StepStays
  <2> QED BY <2>1, <2>2 DEF Made
<1> QED BY <1>5, <1>6

\* A course that goes on has made what it had made.
LEMMA MadeFarther ==
    ASSUME NEW P, NEW top \in Nat, NEW Q, NEW end \in Nat, top <= end,
           \A i \in 0..top : Q[i] = P[i], NEW x, NEW c, Made(P, top, x, c)
    PROVE  Made(Q, end, x, c)
<1>1. PICK i \in 0..(top - 1) :
        /\ GoesOn(i, P[i]) /\ c = CallerAt(i, P[i])
        /\ x = <<SiteAt(i, P[i]), P[i].ordinals[SiteAt(i, P[i])] + 1>>
  BY DEF Made
<1>2. i \in 0..(end - 1) /\ i \in 0..top
  OBVIOUS
<1>3. Q[i] = P[i]
  BY <1>2
<1> QED BY <1>1, <1>2, <1>3 DEF Made

\* An admission brings no ask from elsewhere.
LEMMA DrainAdmits ==
    ASSUME IInv, run = "running", NEW a \in Actor, NEW held, NEW waiting, NEW scan,
           Waiting(a, held, waiting), Drain(a, held, waiting, scan)
    PROVE  /\ DOMAIN rows \subseteq DOMAIN rows' /\ \A x \in DOMAIN rows : rows'[x] = rows[x]
           /\ \A x \in DOMAIN rows' \ DOMAIN rows :
                \E i \in 1..Len(waiting) : x = waiting[i].inst /\ rows'[x].caller = waiting[i].caller
           /\ \A d \in Actor : \A i \in 1..Len(pendingLive'[d]) :
                \/ \E j \in 1..Len(waiting) : pendingLive'[d][i] = waiting[j]
                \/ \E j \in 1..Len(pendingLive[d]) : pendingLive'[d][i] = pendingLive[d][j]
<1>1. PICK reach, new, more, hits : Drained(a, held, waiting, scan, reach, new, more, hits)
  BY DrainDrains
<1>2. /\ DOMAIN rows \subseteq DOMAIN rows' /\ \A x \in DOMAIN rows : rows'[x] = rows[x]
      /\ new = waiting \/ new = <<>>
      /\ pendingLive' = [pendingLive EXCEPT ![a] = IF new = <<>> THEN waiting ELSE <<>>]
  <2>1. DOMAIN rows' = DOMAIN rows \cup { new[i].inst : i \in 1..Len(new) }
    BY <1>1 DEF Drained
  <2> QED BY <2>1, <1>1 DEF Drained
<1>3. \A x \in DOMAIN rows' \ DOMAIN rows :
        \E i \in 1..Len(new) :
           /\ x = new[i].inst
           /\ rows'[x] = [caller |-> new[i].caller, actor |-> a, seq |-> reach + i - 1,
                          status |-> "running"]
  <2>1. DOMAIN rows' = DOMAIN rows \cup { new[i].inst : i \in 1..Len(new) }
    BY <1>1 DEF Drained
  <2>2. \A i \in 1..Len(new) :
          rows'[new[i].inst] = [caller |-> new[i].caller, actor |-> a, seq |-> reach + i - 1,
                                status |-> "running"]
    BY <1>1 DEF Drained
  <2> QED BY <2>1, <2>2
<1>4. ~ \E i \in 1..Len(<<>>) : TRUE
  OBVIOUS
<1>5. \A x \in DOMAIN rows' \ DOMAIN rows :
        \E i \in 1..Len(waiting) : x = waiting[i].inst /\ rows'[x].caller = waiting[i].caller
  <2> SUFFICES ASSUME NEW x \in DOMAIN rows' \ DOMAIN rows
               PROVE  \E i \in 1..Len(waiting) : x = waiting[i].inst /\ rows'[x].caller = waiting[i].caller
    OBVIOUS
  <2>1. PICK i \in 1..Len(new) :
           /\ x = new[i].inst
           /\ rows'[x] = [caller |-> new[i].caller, actor |-> a, seq |-> reach + i - 1,
                          status |-> "running"]
    BY <1>3
  <2>2. new = waiting
    BY <2>1, <1>2, <1>4
  <2>3. rows'[x].caller = new[i].caller
    BY <2>1
  <2> QED BY <2>1, <2>2, <2>3
<1>6. ASSUME NEW d \in Actor, NEW i \in 1..Len(pendingLive'[d])
      PROVE  \/ \E j \in 1..Len(waiting) : pendingLive'[d][i] = waiting[j]
             \/ \E j \in 1..Len(pendingLive[d]) : pendingLive'[d][i] = pendingLive[d][j]
  <2>1. pendingLive \in [Actor -> Seq([inst : Instance, caller : Caller])]
    BY DEF IInv, TypeOK, ActorTypes
  <2>2. CASE d # a
    <3>1. pendingLive'[d] = pendingLive[d]
      BY <2>1, <2>2, <1>2
    <3> QED BY <3>1
  <2>3. CASE d = a
    <3>1. pendingLive'[d] = waiting \/ pendingLive'[d] = <<>>
      BY <2>1, <2>3, <1>2
    <3>2. pendingLive'[d] = waiting
      BY <3>1, <1>4
    <3> QED BY <3>2
  <2> QED BY <2>2, <2>3
<1> QED BY <1>2, <1>5, <1>6

\* An ask that the journal has under the same input, or does not have, is the only one
\* that its arrival brings.
LEMMA AskAdmits ==
    ASSUME IInv, run = "running", NEW b \in Branch, calls[b] < Len(script.asks[b]), Ask(b),
           NEW c, c = [branch |-> b, index |-> calls[b] + 1],
           NEW x, x = <<Wants(c).site, ordinals[Wants(c).site] + 1>>,
           x \in DOMAIN rows => rows[x].caller = c
    PROVE  /\ run' = run
           /\ calls' = [calls EXCEPT ![b] = @ + 1]
           /\ ordinals' = [ordinals EXCEPT ![Wants(c).site] = @ + 1]
           /\ DOMAIN rows \subseteq DOMAIN rows' /\ \A y \in DOMAIN rows : rows'[y] = rows[y]
           /\ \A y \in DOMAIN rows' \ DOMAIN rows :
                \/ y = x /\ rows'[y].caller = c
                \/ \E a \in Actor : \E i \in 1..Len(pendingLive[a]) :
                     /\ y = pendingLive[a][i].inst
                     /\ rows'[y].caller = pendingLive[a][i].caller
           /\ \A a \in Actor : \A i \in 1..Len(pendingLive'[a]) :
                \/ pendingLive'[a][i].inst = x /\ pendingLive'[a][i].caller = c
                \/ \E d \in Actor : \E j \in 1..Len(pendingLive[d]) :
                     pendingLive'[a][i] = pendingLive[d][j]
<1>1. script \in Scripts /\ calls \in [Branch -> Nat] /\ ordinals \in [Site -> Nat]
  BY DEF IInv, TypeOK, JournalTypes, ScriptTypes
<1>2. PICK s, a :
        /\ s = Wants(c).site /\ a = Wants(c).actor /\ x = <<s, ordinals[s] + 1>>
        /\ calls' = [calls EXCEPT ![b] = @ + 1]
        /\ ordinals' = [ordinals EXCEPT ![s] = @ + 1]
        /\ AdmitNew(x, c) \/ AdmitRecorded(x, c) \/ InputHashMismatch(x, c)
  BY DEF Ask
<1>3. c \in CallersOf(script) /\ a \in Actor /\ s \in Site
  BY <1>1, <1>2, NextCaller
<1>4. c \in Caller
  BY <1>1, <1>3 DEF Caller
<1>5. x \in Instance /\ x[1] = s /\ x[2] = ordinals[s] + 1
  BY <1>1, <1>2, <1>3 DEF Instance
<1>6. /\ \A u \in Site : ordinals[u] <= ordinals'[u] /\ ordinals'[u] \in Nat
      /\ ordinals[s] < x[2] /\ x[2] <= ordinals'[s]
  BY <1>1, <1>2, <1>3, <1>5
<1>7. ~InputHashMismatch(x, c)
  BY DEF InputHashMismatch
<1>8. PICK held, waiting, scan :
        /\ Drain(a, held, waiting, scan) /\ run' = run
        /\ \/ /\ x \notin DOMAIN rows /\ held = pendingRecorded[a]
              /\ waiting = Append(pendingLive[a], [inst |-> x, caller |-> c])
           \/ /\ x \in DOMAIN rows /\ held = pendingRecorded[a] \cup {x}
              /\ waiting = pendingLive[a]
  <2>1. CASE AdmitNew(x, c)
    BY <2>1, <1>2 DEF AdmitNew
  <2>2. CASE AdmitRecorded(x, c)
    BY <2>2, <1>2 DEF AdmitRecorded
  <2> QED BY <2>1, <2>2, <1>2, <1>7
<1>9. Waiting(a, held, waiting)
  <2>1. CASE x \notin DOMAIN rows
    <3>1. held = pendingRecorded[a] /\ waiting = Append(pendingLive[a], [inst |-> x, caller |-> c])
      BY <2>1, <1>8
    <3> QED BY <2>1, <3>1, <1>2, <1>3, <1>4, <1>5, <1>6, NewWaits
  <2>2. CASE x \in DOMAIN rows
    <3>1. held = pendingRecorded[a] \cup {x} /\ waiting = pendingLive[a]
      BY <2>2, <1>8
    <3>2. Wants(rows[x].caller).actor = a
      BY <2>2, <1>2
    <3> QED BY <2>2, <3>1, <3>2, <1>3, <1>6, RecordedWaits
  <2> QED BY <2>1, <2>2
<1>10. \A i \in 1..Len(waiting) :
         \/ waiting[i].inst = x /\ waiting[i].caller = c
         \/ \E j \in 1..Len(pendingLive[a]) : waiting[i] = pendingLive[a][j]
  <2> DEFINE T == [inst : Instance, caller : Caller]  p == pendingLive[a]
             w == [inst |-> x, caller |-> c]
  <2>1. p \in Seq(T) /\ w \in T /\ w.inst = x /\ w.caller = c
    BY <1>3, <1>4, <1>5 DEF IInv, TypeOK, ActorTypes
  <2> HIDE DEF T, w
  <2>2. waiting = p \/ waiting = Append(p, w)
    BY <1>8 DEF w
  <2> HIDE DEF p
  <2>3. Len(Append(p, w)) = Len(p) + 1 /\ Len(p) \in Nat
        /\ \A i \in 1..Len(p) : Append(p, w)[i] = p[i]
        /\ Append(p, w)[Len(p) + 1] = w
    BY <2>1
  <2>4. \A i \in 1..Len(waiting) : waiting[i] = w \/ \E j \in 1..Len(p) : waiting[i] = p[j]
    <3>1. CASE waiting = p
      BY <3>1
    <3>2. CASE waiting = Append(p, w)
      <4>1. \A i \in 1..(Len(p) + 1) : i \in 1..Len(p) \/ i = Len(p) + 1
        BY <2>3
      <4> QED BY <3>2, <4>1, <2>3
    <3> QED BY <3>1, <3>2, <2>2
  <2> QED BY <2>1, <2>4 DEF p
<1>11. /\ DOMAIN rows \subseteq DOMAIN rows' /\ \A y \in DOMAIN rows : rows'[y] = rows[y]
       /\ \A y \in DOMAIN rows' \ DOMAIN rows :
            \E i \in 1..Len(waiting) : y = waiting[i].inst /\ rows'[y].caller = waiting[i].caller
       /\ \A d \in Actor : \A i \in 1..Len(pendingLive'[d]) :
            \/ \E j \in 1..Len(waiting) : pendingLive'[d][i] = waiting[j]
            \/ \E j \in 1..Len(pendingLive[d]) : pendingLive'[d][i] = pendingLive[d][j]
  <2>1. Drain(a, held, waiting, scan) /\ a \in Actor
    BY <1>3, <1>8
  <2> QED BY <1>9, <2>1, DrainAdmits
<1>12. ASSUME NEW y \in DOMAIN rows' \ DOMAIN rows
       PROVE  \/ y = x /\ rows'[y].caller = c
              \/ \E d \in Actor : \E i \in 1..Len(pendingLive[d]) :
                   /\ y = pendingLive[d][i].inst
                   /\ rows'[y].caller = pendingLive[d][i].caller
  <2>1. PICK i \in 1..Len(waiting) : y = waiting[i].inst /\ rows'[y].caller = waiting[i].caller
    BY <1>11
  <2> QED BY <2>1, <1>3, <1>10
<1>13. ASSUME NEW d \in Actor, NEW i \in 1..Len(pendingLive'[d])
       PROVE  \/ pendingLive'[d][i].inst = x /\ pendingLive'[d][i].caller = c
              \/ \E e \in Actor : \E j \in 1..Len(pendingLive[e]) :
                   pendingLive'[d][i] = pendingLive[e][j]
  <2>1. CASE \E j \in 1..Len(waiting) : pendingLive'[d][i] = waiting[j]
    BY <2>1, <1>3, <1>10
  <2>2. CASE \E j \in 1..Len(pendingLive[d]) : pendingLive'[d][i] = pendingLive[d][j]
    BY <2>2
  <2> QED BY <2>1, <2>2, <1>11
<1> QED BY <1>2, <1>8, <1>11, <1>12, <1>13

\* A script that is on its course asks what the course says, and is never told that it
\* has changed.
LEMMA AskOnCourse ==
    ASSUME IInv, HeardSettled, run = "running", NEW P, NEW top, Course(P, top), AllMade(P, top),
           NEW pos \in 0..top, P[pos].calls = calls, P[pos].ordinals = ordinals,
           pos < Width + Len(heard), GoesOn(pos, P[pos]), Ask(Turn(pos)),
           script' = script, heard' = heard
    PROVE  /\ run' = run
           /\ \E Q, end : /\ Course(Q, end)' /\ AllMade(Q, end)' /\ pos + 1 \in 0..end
                          /\ Q[pos + 1].calls = calls' /\ Q[pos + 1].ordinals = ordinals'
<1>0. top \in Nat /\ pos \in Nat /\ P[pos] \in Places /\ heard \in Seq(News)
  BY DEF Course, IInv, TypeOK, ScriptTypes
<1>1. PICK Q, end : /\ Course(Q, end) /\ top <= end /\ pos + 1 <= end
                    /\ \A i \in 0..top : Q[i] = P[i]
                    /\ Q[pos] = P[pos] /\ Q[pos + 1] = After(pos, P[pos])
  BY CourseGoesOn
<1>2. end \in Nat /\ pos \in 0..(end - 1) /\ pos + 1 \in 0..end
  <2>1. end \in Nat
    BY <1>1 DEF Course
  <2> QED BY <2>1, <1>0, <1>1
<1>3. PICK b, c, s, x :
        /\ b = Turn(pos) /\ c = CallerAt(pos, P[pos]) /\ s = SiteAt(pos, P[pos])
        /\ x = <<s, P[pos].ordinals[s] + 1>>
  OBVIOUS
<1>4. /\ c = [branch |-> b, index |-> calls[b] + 1] /\ s = Wants(c).site
      /\ calls[b] < Len(script.asks[b])
  BY <1>3 DEF CallerAt, SiteAt, GoesOn
<1>5. b \in Branch
  BY <1>0, <1>3, TurnIsBranch
<1>6. Made(Q, end, x, c)
  BY <1>1, <1>2, <1>3 DEF Made
<1>7. \A y, d : Made(P, top, y, d) => Made(Q, end, y, d)
  BY <1>0, <1>1, <1>2, MadeFarther
<1>8. x \in DOMAIN rows => rows[x].caller = c
  <2> SUFFICES ASSUME x \in DOMAIN rows PROVE rows[x].caller = c
    OBVIOUS
  <2>1. Made(Q, end, x, rows[x].caller)
    BY <1>7 DEF AllMade
  <2>2. /\ GoesOn(pos, Q[pos]) /\ c = CallerAt(pos, Q[pos])
        /\ x = <<SiteAt(pos, Q[pos]), Q[pos].ordinals[SiteAt(pos, Q[pos])] + 1>>
    BY <1>1, <1>3
  <2> QED BY <2>1, <2>2, <1>1, <1>2, OneCaller
<1>9. /\ run' = run
      /\ calls' = [calls EXCEPT ![b] = @ + 1] /\ ordinals' = [ordinals EXCEPT ![Wants(c).site] = @ + 1]
      /\ DOMAIN rows \subseteq DOMAIN rows' /\ \A y \in DOMAIN rows : rows'[y] = rows[y]
      /\ \A y \in DOMAIN rows' \ DOMAIN rows :
           \/ y = x /\ rows'[y].caller = c
           \/ \E a \in Actor : \E i \in 1..Len(pendingLive[a]) :
                /\ y = pendingLive[a][i].inst
                /\ rows'[y].caller = pendingLive[a][i].caller
      /\ \A a \in Actor : \A i \in 1..Len(pendingLive'[a]) :
           \/ pendingLive'[a][i].inst = x /\ pendingLive'[a][i].caller = c
           \/ \E d \in Actor : \E j \in 1..Len(pendingLive[d]) :
                pendingLive'[a][i] = pendingLive[d][j]
  <2>1. x = <<Wants(c).site, ordinals[Wants(c).site] + 1>> /\ Ask(b)
    BY <1>3, <1>4
  <2> QED BY <2>1, <1>4, <1>5, <1>8, AskAdmits
<1>10. Remembers
  <2>1. Len(heard) \in Nat
    BY <1>0, LenProperties
  <2> QED BY <2>1, <1>9 DEF Remembers
<1>11. heard' \in Seq(News)
  BY <1>0
<1>12. Course(Q, end)' /\ \A y, d : Made(Q, end, y, d) => Made(Q, end, y, d)'
  BY <1>1, <1>10, <1>11, CourseStays
<1>13. \A y \in DOMAIN rows' : Made(Q, end, y, rows'[y].caller)
  <2> SUFFICES ASSUME NEW y \in DOMAIN rows' PROVE Made(Q, end, y, rows'[y].caller)
    OBVIOUS
  <2>1. CASE y \in DOMAIN rows
    <3>1. Made(P, top, y, rows[y].caller) /\ rows'[y] = rows[y]
      BY <2>1, <1>9 DEF AllMade
    <3> QED BY <3>1, <1>7
  <2>2. CASE y \notin DOMAIN rows
    <3>1. CASE y = x /\ rows'[y].caller = c
      BY <3>1, <1>6
    <3>2. ASSUME NEW a \in Actor, NEW i \in 1..Len(pendingLive[a]),
                 y = pendingLive[a][i].inst, rows'[y].caller = pendingLive[a][i].caller
          PROVE  Made(Q, end, y, rows'[y].caller)
      <4>1. Made(P, top, y, rows'[y].caller)
        BY <3>2 DEF AllMade
      <4> QED BY <4>1, <1>7
    <3> QED BY <2>2, <3>1, <3>2, <1>9
  <2> QED BY <2>1, <2>2
<1>14. \A a \in Actor : \A i \in 1..Len(pendingLive'[a]) :
         Made(Q, end, pendingLive'[a][i].inst, pendingLive'[a][i].caller)
  <2> SUFFICES ASSUME NEW a \in Actor, NEW i \in 1..Len(pendingLive'[a])
               PROVE  Made(Q, end, pendingLive'[a][i].inst, pendingLive'[a][i].caller)
    OBVIOUS
  <2>1. CASE pendingLive'[a][i].inst = x /\ pendingLive'[a][i].caller = c
    BY <2>1, <1>6
  <2>2. ASSUME NEW d \in Actor, NEW j \in 1..Len(pendingLive[d]),
               pendingLive'[a][i] = pendingLive[d][j]
        PROVE  Made(Q, end, pendingLive'[a][i].inst, pendingLive'[a][i].caller)
    <3>1. Made(P, top, pendingLive[d][j].inst, pendingLive[d][j].caller)
      BY DEF AllMade
    <3> QED BY <2>2, <3>1, <1>7
  <2> QED BY <2>1, <2>2, <1>9
<1>15. AllMade(Q, end)'
  <2>1. \A y \in DOMAIN rows' : \A d : d = rows'[y].caller => Made(Q, end, y, d)'
    BY <1>12, <1>13
  <2>2. \A a \in Actor : \A i \in 1..Len(pendingLive'[a]) : \A y, d :
          y = pendingLive'[a][i].inst /\ d = pendingLive'[a][i].caller => Made(Q, end, y, d)'
    BY <1>12, <1>14
  <2> QED BY <2>1, <2>2, SMTT(30) DEF AllMade, Made
<1>16. Q[pos + 1].calls = calls' /\ Q[pos + 1].ordinals = ordinals'
  <2>1. /\ After(pos, P[pos]).ordinals = [P[pos].ordinals EXCEPT ![s] = @ + 1]
        /\ After(pos, P[pos]).calls = [P[pos].calls EXCEPT ![b] = @ + 1]
    BY <1>0, <1>3, <1>5, StepAdds
  <2> QED BY <2>1, <1>1, <1>4, <1>9
<1> QED BY <1>2, <1>9, <1>12, <1>15, <1>16

\* A step that neither asks nor reads leaves the script where it is.
LEMMA OthersStay ==
    ASSUME IInv, HeardSettled, heard' \in Seq(News), Remembers, OnCourse, run' # "errored",
           DOMAIN rows' = DOMAIN rows,
           UNCHANGED <<pendingLive, calls, ordinals, read>>
    PROVE  OnCourse'
<1>1. PICK P, top, pos : Course(P, top) /\ Reached(P, top, pos) /\ AllMade(P, top)
  BY DEF OnCourse
<1>2. Course(P, top)' /\ \A x, c : Made(P, top, x, c) => Made(P, top, x, c)'
  BY <1>1, CourseStays
<1>3. Reached(P, top, pos)'
  <2>1. Width' = Width
    BY DEF Remembers, Width
  <2> QED BY <1>1, <2>1 DEF Reached
<1>4. AllMade(P, top)'
  <2>1. \A x \in DOMAIN rows' : \A c : c = rows'[x].caller => Made(P, top, x, c)'
    BY <1>1, <1>2 DEF AllMade, Remembers
  <2>2. \A a \in Actor : \A i \in 1..Len(pendingLive'[a]) : \A x, c :
          x = pendingLive'[a][i].inst /\ c = pendingLive'[a][i].caller => Made(P, top, x, c)'
    BY <1>1, <1>2 DEF AllMade
  <2> QED BY <2>1, <2>2, SMTT(30) DEF AllMade, Made
<1> QED BY <1>2, <1>3, <1>4 DEF OnCourse

\* A new engine has the script begin its course again.
LEMMA EngineBegins ==
    ASSUME IInv, HeardSettled, OnCourse, NEW known, NEW o, Engine(known, o), run' # "errored",
           UNCHANGED <<rows, heard, script>>
    PROVE  OnCourse'
<1>1. PICK P, top : Course(P, top) /\ AllMade(P, top)
  BY DEF OnCourse
<1>2. heard \in Seq(News) /\ Len(heard) \in Nat /\ Width \in Nat /\ top \in Nat
  BY <1>1, Branches, LenProperties DEF IInv, TypeOK, ScriptTypes, Course
<1>3. Remembers /\ heard' \in Seq(News)
  BY <1>2 DEF Remembers
<1>4. Course(P, top)' /\ \A x, c : Made(P, top, x, c) => Made(P, top, x, c)'
  BY <1>1, <1>3, CourseStays
<1>5. Reached(P, top, 0)'
  <2>1. /\ calls' = [b \in Branch |-> 0] /\ ordinals' = [s \in Site |-> 0] /\ read' = 0
        /\ Width' = Width
    BY DEF Engine, Width, Branch
  <2>2. P[0] = NothingAsked
    BY <1>1 DEF Course
  <2>3. 0 \in 0..top /\ 0 <= Width
    BY <1>2
  <2> QED BY <2>1, <2>2, <2>3 DEF Reached, NothingAsked
<1>6. AllMade(P, top)'
  <2>1. \A x \in DOMAIN rows' : \A c : c = rows'[x].caller => Made(P, top, x, c)'
    BY <1>1, <1>4 DEF AllMade
  <2>2. \A a \in Actor : pendingLive'[a] = <<>>
    BY DEF Engine
  <2>3. ~ \E i \in 1..Len(<<>>) : TRUE
    OBVIOUS
  <2> QED BY <2>1, <2>2, <2>3, SMTT(30) DEF AllMade, Made
<1> QED BY <1>4, <1>5, <1>6 DEF OnCourse

\* A branch that starts is the next one on the course.
LEMMA StartOnCourse ==
    ASSUME IInv, OnceEach, Replaying, OnCourse, NEW b \in Branch, StartBranch(b)
    PROVE  OnCourse'
<1>1. PICK P, top, pos : Course(P, top) /\ Reached(P, top, pos) /\ AllMade(P, top)
  BY DEF OnCourse
<1>2. /\ run = "running" /\ calls[b] = 0 /\ \A e \in 1..(b - 1) : calls[e] > 0
      /\ Ask(b) /\ read' = read /\ overtaken' = overtaken /\ script' = script
  BY DEF StartBranch
<1>3. /\ Width \in Nat /\ Branch = 1..Width /\ Len(heard) \in Nat /\ top \in Nat
      /\ read \in 0..Len(answers) /\ Len(script.asks[b]) \in Nat \ {0}
  BY <1>1, Branches, LenProperties DEF IInv, TypeOK, ScriptTypes, Course
<1>4. /\ pos \in 0..top /\ P[pos].calls = calls /\ P[pos].ordinals = ordinals
      /\ (pos <= Width /\ read = 0) \/ pos = Width + read
      /\ pos <= Width => \A e \in Branch : calls[e] = IF e <= pos THEN 1 ELSE 0
      /\ pos > Width => calls[b] > 0
  BY <1>1 DEF Course, Reached
<1>5. pos < Width /\ b = pos + 1 /\ read = 0
  <2>0. pos \in Nat /\ read \in Nat /\ b \in 1..Width
    BY <1>3, <1>4, LenProperties DEF IInv, TypeOK, ScriptTypes
  <2>1. pos <= Width
    BY <1>2, <1>3, <1>4, <2>0
  <2>2. ~(b <= pos)
    BY <1>2, <1>4, <2>1
  <2>3. ASSUME b > pos + 1 PROVE FALSE
    <3>1. pos + 1 \in 1..(b - 1) /\ pos + 1 \in Branch /\ ~(pos + 1 <= pos)
      BY <2>0, <2>3, <1>3
    <3>2. calls[pos + 1] = 0 /\ calls[pos + 1] > 0
      BY <3>1, <2>1, <1>2, <1>4
    <3> QED BY <3>2
  <2>4. b = pos + 1
    BY <2>0, <2>2, <2>3
  <2>5. pos < Width
    <3>1. pos + 1 <= Width /\ Width \in Nat
      BY <2>0, <2>4, <1>3
    <3> QED BY <3>1, <2>0
  <2>6. read = 0
    BY <1>4, <2>0, <2>5, <1>3
  <2> QED BY <2>4, <2>5, <2>6
<1>6. Turn(pos) = b /\ GoesOn(pos, P[pos]) /\ pos < Width + Len(heard)
  <2>1. Turn(pos) = b
    BY <1>5 DEF Turn
  <2>2. ~(pos >= Width) /\ pos < Width + Len(heard)
    BY <1>3, <1>4, <1>5
  <2>3. P[pos].calls[Turn(pos)] < Len(script.asks[Turn(pos)])
    BY <2>1, <1>2, <1>3, <1>4
  <2> QED BY <2>1, <2>2, <2>3 DEF GoesOn
<1>7. heard' = heard
  <2>1. calls[b] < Len(script.asks[b]) /\ read' \in 0..Len(answers)
    BY <1>2, <1>3
  <2> QED BY <2>1, <1>2, AskKeepsReplaying
<1>8. /\ run' = run
      /\ \E Q, end : /\ Course(Q, end)' /\ AllMade(Q, end)' /\ pos + 1 \in 0..end
                     /\ Q[pos + 1].calls = calls' /\ Q[pos + 1].ordinals = ordinals'
  <2>1. HeardSettled
    BY DEF Replaying
  <2> QED BY <2>1, <1>1, <1>2, <1>4, <1>6, <1>7, AskOnCourse
<1>9. PICK Q, end : /\ Course(Q, end)' /\ AllMade(Q, end)' /\ pos + 1 \in 0..end
                    /\ Q[pos + 1].calls = calls' /\ Q[pos + 1].ordinals = ordinals'
  BY <1>8
<1>10. Reached(Q, end, pos + 1)'
  <2>1. Width' = Width /\ read' = 0 /\ pos + 1 <= Width
    BY <1>2, <1>3, <1>4, <1>5 DEF Width
  <2> QED BY <2>1, <1>9 DEF Reached
<1>11. run' # "errored"
  BY <1>2, <1>8
<1> QED BY <1>9, <1>10, <1>11 DEF OnCourse

\* An answer that is read is the next one on the course.
LEMMA ReadOnCourse ==
    ASSUME IInv, OnceEach, Replaying, OnCourse, ReadAnswer
    PROVE  OnCourse'
<1>1. PICK P, top, pos : Course(P, top) /\ Reached(P, top, pos) /\ AllMade(P, top)
  BY DEF OnCourse
<1>2. PICK got, b :
        /\ got = answers[read + 1] /\ b = rows[got.inst].caller.branch
        /\ IF got.outcome = "ok" /\ calls[b] < Len(script.asks[b])
           THEN Ask(b)
           ELSE UNCHANGED <<journalVars, actorVars, workVars, gateVars, ordinals, calls, answers,
                            heard>>
  BY DEF ReadAnswer
<1>3. /\ run = "running" /\ Started /\ read < Len(answers) /\ read' = read + 1
      /\ overtaken' = overtaken /\ script' = script
  BY DEF ReadAnswer
<1>4. /\ Width \in Nat /\ Branch = 1..Width /\ Len(heard) \in Nat /\ top \in Nat
      /\ read \in Nat /\ Len(answers) \in Nat /\ heard \in Seq(News)
  BY <1>1, Branches, LenProperties DEF IInv, TypeOK, ScriptTypes, Course
<1>5. /\ pos \in 0..top /\ P[pos].calls = calls /\ P[pos].ordinals = ordinals
      /\ (pos <= Width /\ read = 0) \/ pos = Width + read
      /\ pos <= Width => \A e \in Branch : calls[e] = IF e <= pos THEN 1 ELSE 0
  BY <1>1 DEF Course, Reached
<1>6. pos = Width + read
  <2>1. ASSUME pos < Width, read = 0 PROVE FALSE
    <3>1. Width \in Branch /\ ~(Width <= pos) /\ pos <= Width
      BY <2>1, <1>4, <1>5
    <3>2. calls[Width] = 0 /\ calls[Width] > 0
      BY <3>1, <1>3, <1>5 DEF Started
    <3> QED BY <3>2
  <2> QED BY <2>1, <1>4, <1>5
<1>7. HeardSettled /\ read + 1 \in 1..Len(heard) /\ got = heard[read + 1]
  <2>1. read + 1 \in 1..Len(answers)
    BY <1>3, <1>4
  <2>2. read + 1 <= Len(heard) /\ answers[read + 1] = heard[read + 1]
    BY <2>1 DEF Replaying, AsHeard
  <2> QED BY <2>2, <1>2, <1>4 DEF Replaying
<1>8. /\ pos \in Nat /\ pos >= Width /\ ~(pos < Width) /\ pos - Width + 1 = read + 1
      /\ pos < Width + Len(heard)
  BY <1>4, <1>6, <1>7
<1>9. Turn(pos) = b /\ (GoesOn(pos, P[pos]) <=> got.outcome = "ok" /\ calls[b] < Len(script.asks[b]))
  <2>1. Turn(pos) = b
    BY <1>2, <1>7, <1>8 DEF Turn
  <2> QED BY <2>1, <1>5, <1>7, <1>8 DEF GoesOn
<1>10. b \in Branch
  BY <1>7, <1>8, <1>9, TurnIsBranch
<1>11. /\ run' = run
       /\ \E Q, end : /\ Course(Q, end)' /\ AllMade(Q, end)' /\ pos + 1 \in 0..end
                      /\ Q[pos + 1].calls = calls' /\ Q[pos + 1].ordinals = ordinals'
  <2>1. CASE got.outcome = "ok" /\ calls[b] < Len(script.asks[b])
    <3>1. Ask(b)
      BY <2>1, <1>2
    <3>2. heard' = heard
      <4>1. read' \in 0..Len(answers)
        BY <1>3, <1>4
      <4> QED BY <2>1, <3>1, <4>1, <1>3, <1>10, AskKeepsReplaying
    <3>3. Ask(Turn(pos)) /\ GoesOn(pos, P[pos])
      BY <2>1, <3>1, <1>9
    <3> QED BY <3>2, <3>3, <1>1, <1>3, <1>5, <1>7, <1>8, AskOnCourse
  <2>2. CASE ~(got.outcome = "ok" /\ calls[b] < Len(script.asks[b]))
    <3>1. UNCHANGED <<run, rows, pendingLive, ordinals, calls, answers, heard, script>>
      BY <2>2, <1>2, <1>3 DEF journalVars, actorVars
    <3>2. Remembers /\ heard' \in Seq(News)
      BY <3>1, <1>4 DEF Remembers
    <3>3. PICK Q, end : /\ Course(Q, end) /\ top <= end /\ pos + 1 <= end
                        /\ \A i \in 0..top : Q[i] = P[i]
                        /\ Q[pos + 1] = After(pos, P[pos])
      BY <1>1, <1>5, <1>7, <1>8, CourseGoesOn
    <3>4. end \in Nat
      BY <3>3 DEF Course
    <3>5. Course(Q, end)' /\ \A x, c : Made(Q, end, x, c) => Made(Q, end, x, c)'
      BY <3>2, <3>3, <1>7, CourseStays
    <3>6. \A x, c : Made(P, top, x, c) => Made(Q, end, x, c)
      BY <3>3, <3>4, <1>4, MadeFarther
    <3>7. AllMade(Q, end)'
      <4>1. \A x \in DOMAIN rows' : \A c : c = rows'[x].caller => Made(Q, end, x, c)'
        BY <3>1, <3>5, <3>6, <1>1 DEF AllMade
      <4>2. \A a \in Actor : \A i \in 1..Len(pendingLive'[a]) : \A x, c :
              x = pendingLive'[a][i].inst /\ c = pendingLive'[a][i].caller => Made(Q, end, x, c)'
        BY <3>1, <3>5, <3>6, <1>1 DEF AllMade
      <4> QED BY <4>1, <4>2, SMTT(30) DEF AllMade, Made
    <3>8. Q[pos + 1] = P[pos]
      BY <2>2, <3>3, <1>9 DEF After
    <3>9. pos + 1 \in 0..end
      BY <3>3, <3>4, <1>8
    <3> QED BY <3>1, <3>5, <3>7, <3>8, <3>9, <1>5
  <2> QED BY <2>1, <2>2
<1>12. PICK Q, end : /\ Course(Q, end)' /\ AllMade(Q, end)' /\ pos + 1 \in 0..end
                     /\ Q[pos + 1].calls = calls' /\ Q[pos + 1].ordinals = ordinals'
  BY <1>11
<1>13. Reached(Q, end, pos + 1)'
  <2>1. Width' = Width
    BY <1>3 DEF Width
  <2>2. pos + 1 = Width + read'
    BY <1>3, <1>4, <1>6
  <2> QED BY <2>1, <2>2, <1>12 DEF Reached
<1>14. run' # "errored"
  BY <1>3, <1>11
<1> QED BY <1>12, <1>13, <1>14 DEF OnCourse

\* The course has no step yet when a run begins.
LEMMA CourseInitially == Init => OnCourse
<1> SUFFICES ASSUME Init PROVE OnCourse
  OBVIOUS
<1>1. /\ run = "running" /\ rows = <<>> /\ pendingLive = [a \in Actor |-> <<>>]
      /\ calls = [b \in Branch |-> 0] /\ ordinals = [s \in Site |-> 0]
      /\ read = 0 /\ heard = <<>>
  BY DEF Init
<1>2. /\ DOMAIN rows = {} /\ Len(heard) = 0 /\ ~ \E i \in 1..Len(<<>>) : TRUE
  BY <1>1
<1>3. Width \in Nat /\ Branch = 1..Width
  BY InvariantInitially, Branches
<1> DEFINE P == [i \in 0..0 |-> NothingAsked]
<1>4. NothingAsked \in Places
  BY DEF NothingAsked, Places
<1>5. P \in [0..0 -> Places] /\ P[0] = NothingAsked /\ 0..0 = {0} /\ 0..(0 - 1) = {}
  BY <1>4
<1> HIDE DEF P
<1>6. Course(P, 0)
  <2>1. 0 \in Nat /\ 0 <= Width + Len(heard)
    BY <1>2, <1>3
  <2>2. \A i, j \in 0..0 : i <= j => \A s \in Site : P[i].ordinals[s] <= P[j].ordinals[s]
    BY <1>5 DEF NothingAsked
  <2>3. \A i \in 0..0 : \A b \in Branch :
          /\ i <= Width => P[i].calls[b] = IF b <= i THEN 1 ELSE 0
          /\ i > Width => P[i].calls[b] > 0
    BY <1>3, <1>5 DEF NothingAsked
  <2> QED BY <2>1, <2>2, <2>3, <1>5 DEF Course
<1>7. Reached(P, 0, 0)
  BY <1>1, <1>3, <1>5 DEF Reached, NothingAsked
<1>8. AllMade(P, 0)
  <2>1. \A a \in Actor : pendingLive[a] = <<>>
    BY <1>1
  <2> QED BY <2>1, <1>2 DEF AllMade
<1> QED BY <1>1, <1>6, <1>7, <1>8 DEF OnCourse

\* The inductive invariant of the course.
CInv == RInv /\ (overtaken = "no" => OnCourse)

\* Every step keeps the script on its course, as long as no ask overtakes the recorded
\* answers.
LEMMA OnCourseKept ==
    ASSUME CInv, RInv', [Next]_vars, overtaken' = "no"
    PROVE  OnCourse'
<1>1. IInv /\ OnceEach /\ (overtaken = "no" => Replaying /\ OnCourse)
  BY DEF CInv, RInv
<1>2. heard' \in Seq(News)
  BY DEF RInv, IInv, TypeOK, ScriptTypes
<1>3. Len(heard) \in Nat
  BY <1>1, LenProperties DEF IInv, TypeOK, ScriptTypes
<1>4. ASSUME UNCHANGED <<script, rows, heard, pendingLive, calls, ordinals, read, overtaken>>,
             run' # "errored"
      PROVE  OnCourse'
  <2>1. Remembers /\ HeardSettled /\ OnCourse
    BY <1>1, <1>3, <1>4 DEF Remembers, Replaying
  <2> QED BY <2>1, <1>1, <1>2, <1>4, OthersStay
<1>5. overtaken = "no" => run # "errored"
  BY <1>1 DEF OnCourse
<1>6. ASSUME NEW b \in Branch, StartBranch(b) PROVE OnCourse'
  <2>1. overtaken = "no"
    BY <1>6 DEF StartBranch
  <2> QED BY <2>1, <1>1, <1>6, StartOnCourse
<1>7. CASE ReadAnswer
  <2>1. overtaken = "no"
    BY <1>7 DEF ReadAnswer
  <2> QED BY <2>1, <1>1, <1>7, ReadOnCourse
<1>8. CASE Complete \/ Stop
  <2>1. /\ UNCHANGED <<script, rows, heard, pendingLive, calls, ordinals, read, overtaken>>
        /\ run' # "errored"
    BY <1>8 DEF Complete, Stop, End, scriptVars, actorVars
  <2> QED BY <2>1, <1>4
<1>9. ASSUME NEW a \in Actor, SessionOpens(a) PROVE OnCourse'
  <2>1. UNCHANGED <<script, run, rows, heard, pendingLive, calls, ordinals, read, overtaken>>
    BY <1>9 DEF SessionOpens, journalVars, scriptVars, actorVars
  <2> QED BY <2>1, <1>4, <1>5
<1>10. ASSUME NEW a \in Actor, NEW o \in {"ok", "failed"}, Settle(a, o) PROVE OnCourse'
  <2>1. /\ overtaken = "no" /\ script' = script
        /\ UNCHANGED <<run, pendingLive, calls, ordinals, read>>
        /\ rows' = [rows EXCEPT ![current[a]].status = o]
    BY <1>10 DEF Settle, actorVars
  <2>2. Len(heard) <= Len(heard') /\ \A i \in 1..Len(heard) : heard'[i] = heard[i]
    BY <2>1, <1>1, <1>10, SettleKeepsReplaying
  <2>3. DOMAIN rows' = DOMAIN rows /\ \A x \in DOMAIN rows : rows'[x].caller = rows[x].caller
    <3>1. \A x \in DOMAIN rows : rows[x] \in Row
      BY <1>1 DEF IInv, TypeOK, JournalTypes
    <3>2. DOMAIN rows' = DOMAIN rows
      BY <2>1
    <3>3. ASSUME NEW x \in DOMAIN rows PROVE rows'[x].caller = rows[x].caller
      <4>1. CASE x = current[a]
        <5>1. rows'[x] = [rows[x] EXCEPT !.status = o]
          BY <2>1, <4>1
        <5> QED BY <5>1, <3>1 DEF Row
      <4>2. CASE x # current[a]
        BY <2>1, <4>2
      <4> QED BY <4>1, <4>2
    <3> QED BY <3>2, <3>3
  <2>4. Remembers
    BY <2>1, <2>2, <2>3 DEF Remembers
  <2>5. HeardSettled /\ OnCourse /\ run' # "errored"
    BY <2>1, <1>1, <1>5 DEF Replaying
  <2> QED BY <2>1, <2>3, <2>4, <2>5, <1>1, <1>2, OthersStay
<1>11. /\ \A a, o : TurnEnds(a, o) => Settle(a, o)
       /\ \A a : SessionFails(a) => Settle(a, "failed")
  BY DEF TurnEnds, SessionFails
<1>12. ASSUME NEW n \in Caps, Retune(n) PROVE OnCourse'
  <2>1. UNCHANGED <<script, run, rows, heard, pendingLive, calls, ordinals, read, overtaken>>
    BY <1>12 DEF Retune, scriptVars, actorVars
  <2> QED BY <2>1, <1>4, <1>5
<1>13. CASE Crash \/ Resume
  <2>1. PICK known, o : Engine(known, o)
    BY <1>13 DEF Crash, Resume
  <2>2. UNCHANGED <<rows, heard, script, overtaken>> /\ run' # "errored"
    BY <1>13 DEF Crash, Resume
  <2>3. HeardSettled /\ OnCourse
    BY <2>2, <1>1 DEF Replaying
  <2> QED BY <2>1, <2>2, <2>3, <1>1, EngineBegins
<1>14. CASE UNCHANGED vars
  <2>1. UNCHANGED <<script, run, rows, heard, pendingLive, calls, ordinals, read, overtaken>>
    BY <1>14 DEF vars, journalVars, scriptVars, actorVars
  <2> QED BY <2>1, <1>4, <1>5
<1> QED BY <1>6, <1>7, <1>8, <1>9, <1>10, <1>11, <1>12, <1>13, <1>14 DEF Next, Goes

\* When a run is stopped at most before its last life, crashes as often as you like, and no
\* ask overtakes the recorded answers, the script asks in every life what the journal has
\* under that instance, and is never told that it has changed (scheduler.ts:136).
THEOREM NeverMismatched == LateStops => (Spec => []ReplayMatches)
<1>1. Init => CInv
  BY ReplayInitially, CourseInitially DEF CInv
<1>2. LateStops /\ CInv /\ [Next]_vars => CInv'
  BY ReplayKept, OnCourseKept DEF CInv
<1>3. CInv => ReplayMatches
  BY DEF CInv, OnCourse, ReplayMatches
<1> SUFFICES ASSUME LateStops PROVE Spec => []ReplayMatches
  OBVIOUS
<1>4. CInv /\ [Next]_vars => CInv'
  BY <1>2
<1> QED BY <1>1, <1>3, <1>4, PTL DEF Spec
=============================================================================
