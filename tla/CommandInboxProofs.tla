------------------------- MODULE CommandInboxProofs -------------------------
(***************************************************************************)
(* CommandInbox, proved for any calls, commands, table size and number of  *)
(* restarts: what the run checks on three calls of three commands.         *)
(***************************************************************************)
EXTENDS CommandInbox, SequenceTheorems, TLAPS

\* A call that has passed a gate is the first there until it leaves
\* (command-inbox.ts:85).
GatesHeld ==
    \A c \in Call :
        /\ pc[c] \in {"final", "lookup", "session", "recheck"} => HoldsKey(c)
        /\ pc[c] = "recheck" \/ Executing(c) => HoldsSession(c)

\* The in-flight entry of a command is there exactly while it is executed.
InFlightExecutes ==
    /\ \A c \in Call : Executing(c) => inFlight[Key(c)] = c
    /\ \A k \in Command : inFlight[k] # None => Executing(inFlight[k]) /\ Key(inFlight[k]) = k

\* Who awaits a final awaits one of its own command, and nobody is answered twice.
RepliesOnce ==
    \A c \in Call :
        /\ pc[c] # "done" => reply[c] = None /\ final[c] = None
        /\ final[c] = "noop" => reply[c] = "noop"
        /\ pc[c] = "final" => entry[c] \in Call /\ Key(entry[c]) = Key(c)

\* Between its first look at the tables and its admission nothing becomes known
\* of a command: only its own call could make it so.
Deciding(c) == pc[c] \in {"lookup", "session", "recheck"}
NothingKnown == \A c \in Call : Deciding(c) => inFlight[Key(c)] = None /\ live[Key(c)] = None

\* What the runtime has is pinned, and what is pinned keeps the session loaded.
HeldIsPinned ==
    /\ \A k \in Command : held[k] # "no" => k \in Input /\ live[k] = "accepted"
    /\ \A k \in Command : inFlight[k] # None \/ held[k] # "no" => session # "absent"
    /\ \A c \in Call : pc[c] \in {"admit", "execute", "cancel", "fail"} => held[Key(c)] = "no"
    /\ \A c \in Call : pc[c] = "execute" /\ Key(c) \in Input => live[Key(c)] = "accepted"

\* A command on its way to the runtime has not entered the transcript, nor has an
\* input that waits there; and none has entered it twice.
NotYet(c) ==
    \/ LookingUp(c) /\ source[c] = 2
    \/ pc[c] \in {"session", "recheck", "admit", "execute", "cancel", "fail"}
PromotedOnce ==
    /\ \A c \in Call : NotYet(c) => ledger[Key(c)] # "promoted"
    /\ \A k \in Command : held[k] \in {"yes", "removed", "recording"} => ledger[k] # "promoted"
    /\ \A k \in Text : effects[k] = 0 \/ (effects[k] = 1 /\ ledger[k] = "promoted")

\* An index that has been read misses a promotion only while its event is on the
\* way; and the calls that read it then are of other commands.
IndexIsFresh ==
    /\ \A k \in Command :
          index.state = "ready" /\ ledger[k] = "promoted" /\ "accepted" \notin index.facts[k] =>
              held[k] = "promoted"
    /\ \A c \in Call :
          own[c].state = "ready" /\ ledger[Key(c)] = "promoted" =>
              "accepted" \in own[c].facts[Key(c)]
    /\ \A c \in Call : view[c] # "idle" => LookingUp(c)
    /\ \A c \in Call : own[c].state # "absent" => view[c] = "own"

\* An index says of no command that it was accepted unless it was.
Recorded(k) == ledger[k] = "promoted" \/ k \in markers
FactsAreTrue ==
    /\ \A k \in Command : "accepted" \in index.facts[k] => Recorded(k)
    /\ \A c \in Call : \A k \in Command : "accepted" \in own[c].facts[k] => Recorded(k)
    /\ \A k \in Command : held[k] = "recording" => k \in markers

\* The tables remember as carried out only what was.
SettledOnce == \A i, j \in DOMAIN settled : settled[i].command = settled[j].command => i = j
TablesAreTrue ==
    /\ SettledOnce
    /\ \A k \in Command : inFlight[k] = None /\ live[k] # None => Taken(k)
    /\ \A k \in Command : \A i \in SettledAt(k) :
          settled[i].ack # "failed" /\ inFlight[k] = None => Taken(k)

\* What is pinned has a number of its own among those given since the counter began.
Numbered ==
    /\ \A k \in Command : Pinned(k) => seqOf[k] <= seqNo
    /\ \A k, m \in Command : Pinned(k) /\ Pinned(m) /\ seqOf[k] = seqOf[m] => k = m

IInv ==
    /\ TypeOK /\ GatesHeld /\ InFlightExecutes /\ RepliesOnce /\ NothingKnown
    /\ HeldIsPinned /\ PromotedOnce /\ IndexIsFresh /\ FactsAreTrue /\ TablesAreTrue
    /\ DuplicateIsTaken /\ Numbered

-----------------------------------------------------------------------------
(* What the operators on gates and on the table of settled commands do.     *)

\* Leaving a gate takes the call away that holds it, or nothing.
LEMMA ReleasedType ==
    ASSUME NEW gate \in Seq(Call), NEW c
    PROVE  Released(gate, c) \in Seq(Call)
BY HeadTailProperties DEF Released

\* Another call that holds a gate holds it still when this one has left it, or has
\* joined those who wait.
LEMMA ReleasedHead ==
    ASSUME NEW gate \in Seq(Call), NEW c \in Call, NEW d \in Call, d # c,
           gate # <<>>, Head(gate) = d
    PROVE  Released(gate, c) = gate
BY DEF Released

\* Who joins a gate does not change its head.
LEMMA JoinedHead ==
    ASSUME NEW gate \in Seq(Call), NEW c \in Call, gate # <<>>
    PROVE  Append(gate, c) # <<>> /\ Head(Append(gate, c)) = Head(gate)
BY HeadTailAppend, AppendProperties

Entry == [command : Command, ack : Ack]

\* What RemoveAt leaves of a sequence, and where.
LEMMA RemoveAtFacts ==
    ASSUME NEW S, NEW s \in Seq(S), NEW p \in 1..Len(s)
    PROVE  /\ RemoveAt(s, p) \in Seq(S)
           /\ Len(RemoveAt(s, p)) = Len(s) - 1
           /\ \A j \in 1..(Len(s) - 1) : RemoveAt(s, p)[j] = s[IF j < p THEN j ELSE j + 1]
<1> DEFINE f == SubSeq(s, 1, p - 1)
           g == SubSeq(s, p + 1, Len(s))
<1>1. Len(s) \in Nat /\ p \in Nat
  BY LenProperties
<1>2. f \in Seq(S) /\ Len(f) = p - 1 /\ \A i \in 1..(p - 1) : f[i] = s[i]
  BY <1>1, SubSeqProperties
<1>3. g \in Seq(S) /\ Len(g) = Len(s) - p /\ \A i \in 1..(Len(s) - p) : g[i] = s[p + i]
  BY <1>1, SubSeqProperties
<1>4. RemoveAt(s, p) = f \o g
  BY DEF RemoveAt
<1> HIDE DEF f, g
<1>5. /\ f \o g \in Seq(S) /\ Len(f \o g) = Len(f) + Len(g)
      /\ \A i \in 1..(Len(f) + Len(g)) :
            (f \o g)[i] = IF i <= Len(f) THEN f[i] ELSE g[i - Len(f)]
  BY <1>2, <1>3, ConcatProperties
<1>6. ASSUME NEW j \in 1..(Len(s) - 1)
      PROVE  (f \o g)[j] = s[IF j < p THEN j ELSE j + 1]
  <2>1. CASE j < p
    BY <2>1, <1>1, <1>2, <1>3, <1>5
  <2>2. CASE ~(j < p)
    <3>1. (f \o g)[j] = g[j - (p - 1)] /\ j - (p - 1) \in 1..(Len(s) - p)
      BY <2>2, <1>1, <1>2, <1>3, <1>5
    <3>2. p + (j - (p - 1)) = j + 1
      BY <1>1
    <3> QED BY <2>2, <3>1, <3>2, <1>3
  <2> QED BY <2>1, <2>2
<1> QED BY <1>1, <1>2, <1>3, <1>4, <1>5, <1>6

\* Forgetting a command leaves the entries of the others, each once.
LEMMA UnsettledFacts ==
    ASSUME settled \in Seq(Entry), NEW k \in Command
    PROVE  /\ Unsettled(k) \in Seq(Entry)
           /\ Len(Unsettled(k)) <= Len(settled)
           /\ SettledOnce =>
                /\ \A j \in DOMAIN Unsettled(k) :
                      /\ Unsettled(k)[j].command # k
                      /\ \E i \in DOMAIN settled : Unsettled(k)[j] = settled[i]
                /\ \A i, j \in DOMAIN Unsettled(k) :
                      Unsettled(k)[i].command = Unsettled(k)[j].command => i = j
<1>1. CASE SettledAt(k) = {}
  BY <1>1 DEF Unsettled, SettledAt, SettledOnce
<1>2. CASE SettledAt(k) # {}
  <2>1. PICK p \in DOMAIN settled : /\ settled[p].command = k
                                    /\ Unsettled(k) = RemoveAt(settled, p)
    BY <1>2 DEF SettledAt, Unsettled
  <2> DEFINE u == Unsettled(k)
             n == Len(settled)
             from(j) == IF j < p THEN j ELSE j + 1
  <2>2. n \in Nat /\ DOMAIN settled = 1..n /\ p \in 1..n
    BY LenProperties
  <2>3. u \in Seq(Entry) /\ Len(u) = n - 1 /\ \A j \in 1..(n - 1) : u[j] = settled[from(j)]
    BY <2>1, <2>2, RemoveAtFacts
  <2>4. DOMAIN u = 1..(n - 1)
    BY <2>3, LenProperties
  <2> HIDE DEF u, n
  <2>5. \A j \in 1..(n - 1) : from(j) \in 1..n /\ from(j) # p
    BY <2>2
  <2>6. \A i, j \in 1..(n - 1) : from(i) = from(j) => i = j
    BY <2>2
  <2> HIDE DEF from
  <2>7. ASSUME SettledOnce, NEW j \in DOMAIN u
        PROVE  u[j].command # k /\ \E i \in DOMAIN settled : u[j] = settled[i]
    BY <2>1, <2>2, <2>3, <2>4, <2>5, <2>7 DEF SettledOnce
  <2>8. ASSUME SettledOnce, NEW i \in DOMAIN u, NEW j \in DOMAIN u, u[i].command = u[j].command
        PROVE  i = j
    BY <2>2, <2>3, <2>4, <2>5, <2>6, <2>8 DEF SettledOnce
  <2>9. u \in Seq(Entry) /\ Len(u) <= n
    BY <2>2, <2>3
  <2> QED BY <2>7, <2>8, <2>9 DEF u, n
<1> QED BY <1>1, <1>2

\* Remembering one puts it at the end; the oldest goes when there are too many.
LEMMA RememberFacts ==
    ASSUME settled \in Seq(Entry), Len(settled) <= SettledLimit,
           NEW k \in Command, NEW ack \in Ack, Remember(k, ack)
    PROVE  /\ settled' \in Seq(Entry)
           /\ Len(settled') <= SettledLimit
           /\ SettledOnce =>
                /\ SettledOnce'
                /\ \A j \in DOMAIN settled' :
                      \/ settled'[j] = [command |-> k, ack |-> ack]
                      \/ /\ settled'[j].command # k
                         /\ \E i \in DOMAIN settled : settled'[j] = settled[i]
<1> DEFINE u == Unsettled(k)
           e == [command |-> k, ack |-> ack]
           s == Append(u, e)
           n == Len(u)
<1>1. u \in Seq(Entry) /\ n \in Nat /\ n <= SettledLimit /\ SettledLimit \in Nat \ {0}
  BY UnsettledFacts, LenProperties, CommandInboxAssumption
<1>2. SettledOnce =>
        /\ \A j \in DOMAIN u : u[j].command # k /\ \E i \in DOMAIN settled : u[j] = settled[i]
        /\ \A i, j \in DOMAIN u : u[i].command = u[j].command => i = j
  BY UnsettledFacts
<1>3. e \in Entry
  BY DEF Entry
<1> HIDE DEF u, e
<1>4. /\ s \in Seq(Entry) /\ Len(s) = n + 1
      /\ \A i \in 1..n : s[i] = u[i]
      /\ s[n + 1] = e
  BY <1>1, <1>3, AppendProperties
<1>5. settled' = SubSeq(s, IF n + 1 > SettledLimit THEN 2 ELSE 1, n + 1)
  BY <1>4 DEF Remember, Latest, u, e
<1> HIDE DEF s
<1>6. PICK b \in {1, 2} : /\ settled' \in Seq(Entry) /\ Len(settled') = n + 2 - b
                          /\ Len(settled') <= SettledLimit
                          /\ \A j \in 1..(n + 2 - b) : settled'[j] = s[j + b - 1]
  <2>1. CASE n + 1 > SettledLimit
    BY <2>1, <1>1, <1>4, <1>5, SubSeqProperties
  <2>2. CASE ~(n + 1 > SettledLimit)
    BY <2>2, <1>1, <1>4, <1>5, SubSeqProperties
  <2> QED BY <2>1, <2>2
<1>7. DOMAIN settled' = 1..(n + 2 - b) /\ DOMAIN u = 1..n
  BY <1>1, <1>6, LenProperties
<1>8. e.command = k
  BY DEF e
<1>9. ASSUME SettledOnce, NEW j \in DOMAIN settled'
      PROVE  settled'[j] = e \/ (j + b - 1 \in DOMAIN u /\ settled'[j] = u[j + b - 1])
  BY <1>1, <1>4, <1>6, <1>7
<1>10. ASSUME SettledOnce PROVE SettledOnce'
  <2> SUFFICES ASSUME NEW i \in DOMAIN settled', NEW j \in DOMAIN settled',
                      settled'[i].command = settled'[j].command
               PROVE  i = j
    BY DEF SettledOnce
  <2>1. i + b - 1 \in 1..(n + 1) /\ j + b - 1 \in 1..(n + 1) /\ i \in Nat /\ j \in Nat
    BY <1>1, <1>7
  <2>2. \A x, y \in 1..(n + 1) : s[x].command = s[y].command => x = y
    <3>1. ASSUME NEW x \in 1..n PROVE s[x].command # k
      BY <1>2, <1>4, <1>7, <1>10
    <3>2. ASSUME NEW x \in 1..n, NEW y \in 1..n, s[x].command = s[y].command PROVE x = y
      <4>1. x \in DOMAIN u /\ y \in DOMAIN u /\ u[x].command = u[y].command
        BY <3>2, <1>4, <1>7
      <4> QED BY <4>1, <1>2, <1>10
    <3>3. s[n + 1].command = k /\ 1..(n + 1) = 1..n \cup {n + 1}
      BY <1>1, <1>4, <1>8
    <3> QED BY <3>1, <3>2, <3>3
  <2>3. settled'[i] = s[i + b - 1] /\ settled'[j] = s[j + b - 1]
    BY <1>6, <1>7
  <2>4. i + b - 1 = j + b - 1
    BY <2>1, <2>2, <2>3
  <2> QED BY <2>1, <2>4
<1> QED BY <1>2, <1>6, <1>9, <1>10 DEF e

Places == {"new", "key", "final", "lookup", "session", "recheck",
           "admit", "execute", "cancel", "fail", "succeed", "done", "lost"}
RowStatus == {"none", "admitted", "promoted", "cancelled", "discarded"}

\* What a call finds in the tables is an answer.
LEMMA KnownFacts ==
    ASSUME TypeOK, NEW k \in Command
    PROVE  /\ Known(k) \in Ack \cup {None}
           /\ Known(k) = None => live[k] = None
           /\ Known(k) # None /\ live[k] = None =>
                \E i \in DOMAIN settled : settled[i].command = k /\ settled[i].ack = Known(k)
<1>1. \A i \in DOMAIN settled : settled[i] \in Entry
  <2>1. settled \in Seq(Entry)
    BY DEF TypeOK, Entry
  <2> QED BY <2>1, LenProperties, ElementOfSeq
<1>2. CASE SettledAt(k) = {}
  BY <1>2 DEF Known, SettledAck, TypeOK
<1>3. CASE SettledAt(k) # {}
  <2>1. PICK i \in DOMAIN settled : settled[i].command = k /\ SettledAck(k) = settled[i].ack
    BY <1>3 DEF SettledAt, SettledAck
  <2> QED BY <1>1, <2>1 DEF Known, TypeOK, Entry
<1> QED BY <1>2, <1>3

\* A loaded index is one, and a sweep leaves rows.
LEMMA LoadedType ==
    ASSUME TypeOK, NEW i \in Index
    PROVE  Loaded(i) \in Index /\ Swept(i.sweeps) \in [Command -> RowStatus]
BY DEF TypeOK, Loaded, Swept, FactsIn, Index, Facts, RowStatus

\* An index after ensureSession, and one of no session, have the type of an index.
LEMMA EnsuredType ==
    ASSUME TypeOK
    PROVE  Ensured \in Index /\ Absent \in Index
BY DEF TypeOK, Ensured, Absent, Index, Facts, NoFacts

\* So has one whose load has failed.
LEMMA FailedType ==
    ASSUME NEW i \in Index
    PROVE  [i EXCEPT !.state = "failed"] \in Index
BY DEF Index

\* The four parts of TypeOK.
CallTypes ==
    /\ pc \in [Call -> Places]
    /\ reply \in [Call -> Reply \cup {None}]
    /\ entry \in [Call -> Call \cup {None}]
    /\ source \in [Call -> 1..2]
    /\ view \in [Call -> {"idle", "shared", "own"}]
    /\ own \in [Call -> Index]
GateTypes == keyGate \in [Command -> Seq(Call)] /\ sessionGate \in Seq(Call)
TableTypes ==
    /\ inFlight \in [Command -> Call \cup {None}]
    /\ final \in [Call -> Ack \cup {None}]
    /\ live \in [Command -> Ack \cup {None}]
    /\ settled \in Seq(Entry)
    /\ Len(settled) <= SettledLimit
    /\ seqNo \in Nat
    /\ seqOf \in [Command -> Nat]
StoreTypes ==
    /\ index \in Index
    /\ session \in {"absent", "resuming", "loaded"}
    /\ ledger \in [Command -> RowStatus]
    /\ markers \in SUBSET Command
    /\ held \in [Command -> {"no", "yes", "promoted", "removed", "recording"}]
    /\ effects \in [Command -> Nat]
    /\ restarts \in 0..MaxRestarts

\* TypeOK is its parts.
LEMMA TypesInParts == TypeOK <=> asks \in Scenario /\ CallTypes /\ GateTypes /\ TableTypes /\ StoreTypes
BY DEF TypeOK, CallTypes, GateTypes, TableTypes, StoreTypes, Places, RowStatus, Entry

\* A call's key is a command.
LEMMA CommandOfCall == ASSUME TypeOK, NEW c \in Call PROVE Key(c) \in Command
BY CommandInboxAssumption DEF TypeOK, Key

\* An answer keeps the types of the calls.
LEMMA AnswerType ==
    ASSUME CallTypes, Absent \in Index, NEW c \in Call, NEW ack \in Reply, Answer(c, ack)
    PROVE  CallTypes'
BY DEF CallTypes, Answer, Goto, Places

\* A retry is answered like the command, or told that it is one.
LEMMA AnswerKnownType ==
    ASSUME CallTypes, Absent \in Index, NEW c \in Call, NEW ack \in Ack, AnswerKnown(c, ack)
    PROVE  CallTypes'
<1>1. RetryAck(ack) \in Reply /\ ack \in Reply
  BY DEF RetryAck, Reply
<1> QED BY <1>1, AnswerType DEF AnswerKnown

\* What a call does to its own variables.
LEMMA CallTypesStep ==
    ASSUME TypeOK, RepliesOnce, [Next]_vars
    PROVE  CallTypes'
<1> USE DEF Places
<1>0. CallTypes /\ Absent \in Index /\ Ensured \in Index /\ index \in Index /\ \A c \in Call : Key(c) \in Command
  BY TypesInParts, EnsuredType, CommandOfCall DEF StoreTypes
<1>1. ASSUME NEW c \in Call, Arrive(c) PROVE CallTypes'
  BY <1>0, <1>1 DEF Arrive, Goto, CallTypes
<1>2. ASSUME NEW c \in Call, Check(c) PROVE CallTypes'
  <2>1. CASE \E l \in {"lookup", "recheck"} : FoundNothing(c, l)
    BY <2>1, <1>0 DEF FoundNothing, Goto, Await, CallTypes
  <2>2. CASE FoundInFlight(c)
    BY <2>2, <1>0, TypesInParts DEF FoundInFlight, Goto, CallTypes, TableTypes
  <2>3. CASE FoundKnown(c)
    BY <2>3, <1>0, KnownFacts, AnswerKnownType DEF FoundKnown
  <2> QED BY <1>2, <2>1, <2>2, <2>3 DEF Check
<1>3. ASSUME NEW c \in Call, AwaitFinal(c) PROVE CallTypes'
  <2>1. final[entry[c]] \in Ack
    BY <1>3, TypesInParts DEF AwaitFinal, RepliesOnce, CallTypes, TableTypes
  <2> QED BY <1>3, <1>0, <2>1, AnswerKnownType DEF AwaitFinal
<1>4. ASSUME NEW c \in Call, LookupFinds(c) PROVE CallTypes'
  BY <1>0, <1>4, AnswerKnownType DEF LookupFinds, Ack
<1>5. ASSUME NEW c \in Call, LookupNext(c) PROVE CallTypes'
  BY <1>0, <1>5 DEF LookupNext, Await, CallTypes
<1>6. ASSUME NEW c \in Call, LookupFails(c) \/ QueryUnknown(c) \/ Reject(c) \/ Noop(c) \/ ExecuteNoop(c) \/ Succeed(c) \/ Fail(c) PROVE CallTypes'
  BY <1>0, <1>6, AnswerType DEF LookupFails, QueryUnknown, Reject, Noop, ExecuteNoop, Succeed, Fail, Settle, Reply, Ack
<1>7. ASSUME NEW c \in Call, AwaitSession(c) \/ Admit(c) PROVE CallTypes'
  BY <1>0, <1>7 DEF AwaitSession, Admit, NotFound, Goto, CallTypes
<1>8. ASSUME NEW c \in Call, AdmitInput(c) \/ AdmitNoInput(c) \/ AdmitFails(c) \/ Execute(c) \/ ExecuteFails(c) \/ CancelInput(c) PROVE CallTypes'
  BY <1>0, <1>8 DEF AdmitInput, AdmitNoInput, AdmitFails, Execute, ExecuteFails, CancelInput, Goto, CallTypes
<1>9. ASSUME NEW c \in Call, LoadOwn(c) PROVE CallTypes'
  <2>1. /\ Loaded(own[c]) \in Index
        /\ [own[c] EXCEPT !.state = "failed"] \in Index
    BY <1>0, LoadedType, FailedType DEF CallTypes
  <2>2. own' \in [Call -> Index]
    BY <1>0, <1>9, <2>1 DEF LoadOwn, CallTypes
  <2> QED BY <1>0, <1>9, <2>2 DEF LoadOwn, CallTypes
<1>10. CASE LoadFails
  BY <1>0, <1>10, FailedType DEF LoadFails, Detach, CallTypes
<1>11. ASSUME NEW k \in Command, Ingest(k) PROVE CallTypes'
  BY <1>0, <1>11 DEF Ingest, Invalidate, Detach, CallTypes
<1>12. CASE Restart
  BY <1>0, <1>12 DEF Restart, CallTypes
<1>13. CASE UNCHANGED callVars
  BY <1>0, <1>13 DEF callVars, CallTypes
<1> QED
  BY <1>1, <1>2, <1>3, <1>4, <1>5, <1>6, <1>7, <1>8, <1>9, <1>10, <1>11, <1>12, <1>13
  DEF Next, Serve, Look, Decide, AdmitCommand, RunCommand, Reading, vars,
      Load, Promote, RemoveQueued, EndCompact, RecordFact, Deactivate, Resume, SweepOnResume

\* Gates are joined and left by calls.
LEMMA GateTypesStep ==
    ASSUME TypeOK, [Next]_vars
    PROVE  GateTypes'
<1>0. GateTypes /\ \A c \in Call : Key(c) \in Command
  BY TypesInParts, CommandOfCall
<1>1. ASSUME NEW c \in Call, Arrive(c) PROVE GateTypes'
  BY <1>0, <1>1 DEF Arrive, GateTypes
<1>2. ASSUME NEW c \in Call, LeaveKeyGate(c), UNCHANGED sessionGate \/ LeaveSessionGate(c)
      PROVE  GateTypes'
  <2>1. Released(keyGate[Key(c)], c) \in Seq(Call) /\ Released(sessionGate, c) \in Seq(Call)
    BY <1>0, ReleasedType DEF GateTypes
  <2> QED BY <1>0, <1>2, <2>1 DEF LeaveKeyGate, LeaveSessionGate, GateTypes
<1>3. ASSUME NEW c \in Call, AwaitSession(c) PROVE GateTypes'
  BY <1>0, <1>3 DEF AwaitSession, GateTypes
<1>4. CASE Restart
  BY <1>0, <1>4 DEF Restart, GateTypes
<1>5. CASE UNCHANGED gateVars
  BY <1>0, <1>5 DEF gateVars, GateTypes
<1> QED
  BY <1>1, <1>2, <1>3, <1>4, <1>5
  DEF Next, Serve, Look, Decide, AdmitCommand, RunCommand, Reading, vars,
      Check, FoundNothing, FoundInFlight, FoundKnown, AwaitFinal, LookupFinds, LookupNext, LookupFails,
      QueryUnknown, Reject, Noop, Admit, AdmitInput, AdmitNoInput, AdmitFails, Execute, ExecuteFails,
      ExecuteNoop, CancelInput, Succeed, Fail, Settle, LeaveGates, Load, LoadFails, LoadOwn, Promote, RemoveQueued, EndCompact, RecordFact, Deactivate, Resume, SweepOnResume, Ingest, gateVars

\* The inbox's tables.
LEMMA TableTypesStep ==
    ASSUME TypeOK, [Next]_vars
    PROVE  TableTypes'
<1>0. TableTypes /\ \A c \in Call : Key(c) \in Command
  BY TypesInParts, CommandOfCall
<1>a. ASSUME NEW k \in Command, NEW ack \in Ack, Remember(k, ack)
      PROVE  settled' \in Seq(Entry) /\ Len(settled') <= SettledLimit
  BY <1>0, <1>a, RememberFacts DEF TableTypes
<1>1. ASSUME NEW c \in Call, Check(c) PROVE TableTypes'
  <2>1. ASSUME Remember(Key(c), Known(Key(c))), live[Key(c)] = None, Known(Key(c)) # None
        PROVE  settled' \in Seq(Entry) /\ Len(settled') <= SettledLimit
    BY <1>0, <1>a, <2>1, KnownFacts
  <2> QED BY <1>0, <1>1, <2>1 DEF Check, FoundNothing, FoundInFlight, FoundKnown, TableTypes
<1>2. ASSUME NEW c \in Call, Noop(c) PROVE TableTypes'
  BY <1>0, <1>2, <1>a DEF Noop, TableTypes, Ack
<1>3. ASSUME NEW c \in Call, Admit(c) PROVE TableTypes'
  BY <1>0, <1>3 DEF Admit, TableTypes
<1>4. ASSUME NEW c \in Call, AdmitInput(c) PROVE TableTypes'
  <2>1. Unsettled(Key(c)) \in Seq(Entry) /\ Len(Unsettled(Key(c))) <= Len(settled)
    BY <1>0, UnsettledFacts DEF TableTypes
  <2>2. Len(Unsettled(Key(c))) <= SettledLimit
    BY <1>0, <2>1, CommandInboxAssumption, LenProperties DEF TableTypes
  <2> QED BY <1>0, <1>4, <2>1, <2>2 DEF AdmitInput, TableTypes, Ack
<1>5. ASSUME NEW c \in Call, ExecuteNoop(c) PROVE TableTypes'
  BY <1>0, <1>5, <1>a DEF ExecuteNoop, Settle, TableTypes, Ack
<1>6. ASSUME NEW c \in Call, Succeed(c) PROVE TableTypes'
  BY <1>0, <1>6, <1>a DEF Succeed, Settle, TableTypes, Ack
<1>7. ASSUME NEW c \in Call, Fail(c) PROVE TableTypes'
  BY <1>0, <1>7, <1>a DEF Fail, Settle, TableTypes, Ack
<1>8. ASSUME NEW k \in Command, Ingest(k) PROVE TableTypes'
  BY <1>0, <1>8, <1>a DEF Ingest, Release, TableTypes
<1>9. CASE Deactivate \/ Restart
  <2>1. <<>> \in Seq(Entry) /\ Len(<<>>) <= SettledLimit
    BY EmptySeq, CommandInboxAssumption
  <2>2. CASE Deactivate
    BY <1>0, <2>1, <2>2 DEF Deactivate, TableTypes
  <2>3. CASE Restart
    BY <1>0, <2>1, <2>3 DEF Restart, TableTypes
  <2> QED BY <1>9, <2>2, <2>3
<1>10. CASE UNCHANGED tableVars
  BY <1>0, <1>10 DEF tableVars, TableTypes
<1> QED
  BY <1>1, <1>2, <1>3, <1>4, <1>5, <1>6, <1>7, <1>8, <1>9, <1>10
  DEF Next, Serve, Look, Decide, AdmitCommand, RunCommand, Reading, vars,
      Arrive, AwaitFinal, LookupFinds, LookupNext, LookupFails, QueryUnknown, AwaitSession, Reject,
      AdmitNoInput, AdmitFails, Execute, ExecuteFails, CancelInput, Load, LoadFails, LoadOwn, Promote, RemoveQueued, EndCompact, RecordFact, Deactivate, Resume, SweepOnResume

\* The index, the rows and what the runtime holds.
LEMMA StoreTypesStep ==
    ASSUME TypeOK, [Next]_vars
    PROVE  StoreTypes' /\ asks' \in Scenario
<1> DEFINE G == StoreTypes' /\ asks' \in Scenario
<1>0. /\ StoreTypes /\ asks \in Scenario /\ Ensured \in Index /\ Absent \in Index
      /\ \A c \in Call : Key(c) \in Command
      /\ \A c \in Call : own[c] \in Index
  BY TypesInParts, EnsuredType, CommandOfCall DEF CallTypes
<1> USE DEF worldVars, storeVars, RowStatus
<1>1. ASSUME NEW c \in Call, Check(c) \/ Look(c) PROVE G
  BY <1>0, <1>1 DEF Check, FoundNothing, FoundInFlight, FoundKnown, Look, LookupFinds,
       LookupNext, LookupFails, QueryUnknown, AwaitSession, Await, StoreTypes
<1>2. ASSUME NEW c \in Call, AdmitInput(c) PROVE G
  BY <1>0, <1>2 DEF AdmitInput, StoreTypes
<1>3. ASSUME NEW c \in Call, Execute(c) PROVE G
  BY <1>0, <1>3 DEF Execute, StoreTypes
<1>4. ASSUME NEW c \in Call, CancelInput(c) PROVE G
  BY <1>0, <1>4 DEF CancelInput, StoreTypes
<1>5. ASSUME NEW c \in Call, LoadOwn(c) PROVE G
  BY <1>0, <1>5, LoadedType DEF LoadOwn, StoreTypes
<1>6. CASE Load \/ LoadFails
  <2>1. index \in Index
    BY <1>0 DEF StoreTypes
  <2> QED BY <1>0, <1>6, <2>1, LoadedType DEF Load, LoadFails, Detach, StoreTypes
<1>7. ASSUME NEW k \in Command, Promote(k) PROVE G
  BY <1>0, <1>7 DEF Promote, StoreTypes
<1>8. ASSUME NEW k \in Command, RemoveQueued(k) PROVE G
  BY <1>0, <1>8 DEF RemoveQueued, StoreTypes
<1>9. ASSUME NEW k \in Command, Ingest(k) PROVE G
  BY <1>0, <1>9 DEF Ingest, Invalidate, Detach, StoreTypes
<1>10. ASSUME NEW k \in Command, EndCompact(k) PROVE G
  BY <1>0, <1>10 DEF EndCompact, StoreTypes
<1>11. ASSUME NEW k \in Command, RecordFact(k) PROVE G
  <2>1. [index EXCEPT !.facts[k] = @ \cup {"accepted"}] \in Index
    BY <1>0 DEF StoreTypes, Index, Facts
  <2> QED BY <1>0, <1>11, <2>1 DEF RecordFact, StoreTypes
<1>12. CASE Deactivate \/ Resume \/ SweepOnResume
  <2>1. Swept("yes") \in [Command -> RowStatus]
    BY <1>0 DEF Swept, StoreTypes
  <2> QED BY <1>0, <1>12, <2>1 DEF Deactivate, Resume, SweepOnResume, StoreTypes
<1>13. CASE Restart
  BY <1>0, <1>13, CommandInboxAssumption DEF Restart, StoreTypes
<1>14. CASE UNCHANGED <<index, storeVars, worldVars>>
  BY <1>0, <1>14 DEF StoreTypes
<1> QED
  BY <1>1, <1>2, <1>3, <1>4, <1>5, <1>6, <1>7, <1>8, <1>9, <1>10, <1>11, <1>12, <1>13, <1>14
  DEF Next, Serve, Look, Decide, AdmitCommand, RunCommand, Reading, vars,
      Arrive, AwaitFinal, Decide, Reject, Noop, Admit, AdmitNoInput, AdmitFails,
      ExecuteFails, ExecuteNoop, Succeed, Fail

\* Every step keeps the types.
LEMMA TypeStep ==
    ASSUME TypeOK, RepliesOnce, [Next]_vars
    PROVE  TypeOK'
BY CallTypesStep, GateTypesStep, TableTypesStep, StoreTypesStep, TypesInParts
   DEF TypeOK, CallTypes, GateTypes, TableTypes, StoreTypes, Places, RowStatus, Entry

-----------------------------------------------------------------------------
(* Gates.                                                                   *)

\* The calls stay what they are.
LEMMA SameAsks == [Next]_vars => asks' = asks
BY DEF Next, Serve, Look, Decide, AdmitCommand, RunCommand, Reading, vars, worldVars,
       Arrive, Check, AwaitFinal, LookupFinds, LookupNext, LookupFails, QueryUnknown,
       AwaitSession, Reject, Noop, Admit, AdmitInput, AdmitNoInput, AdmitFails, Execute,
       ExecuteFails, ExecuteNoop, CancelInput, Succeed, Fail, Settle, Load, LoadFails, LoadOwn,
       Promote, RemoveQueued, Ingest, EndCompact, RecordFact, Deactivate, Resume,
       SweepOnResume, Restart

\* The ways a step can go through the gates: a call joins one, leaves them, goes on
\* inside, or all is lost.
Goes(c, l) == Goto(c, l) /\ UNCHANGED gateVars
Ends(c) == Goto(c, "done") /\ LeaveGates(c)

\* What a step does to the gates is one of these.
LEMMA GateMoves ==
    ASSUME [Next]_vars
    PROVE  \/ UNCHANGED <<pc, gateVars>>
           \/ \E c \in Call : Ends(c)
           \/ \E c \in Call :
                 \/ Arrive(c) \/ AwaitSession(c) \/ Admit(c)
                 \/ pc[c] = "key" /\ HoldsKey(c) /\ Goes(c, "lookup")
                 \/ pc[c] = "key" /\ HoldsKey(c) /\ Goes(c, "final")
                 \/ pc[c] = "session" /\ HoldsSession(c) /\ Goes(c, "recheck")
                 \/ pc[c] = "admit" /\ Goes(c, "execute")
                 \/ pc[c] = "admit" /\ Goes(c, "fail")
                 \/ pc[c] = "execute" /\ Goes(c, "succeed")
                 \/ pc[c] = "execute" /\ Goes(c, "cancel")
                 \/ pc[c] = "execute" /\ Goes(c, "fail")
                 \/ pc[c] = "cancel" /\ Goes(c, "fail")
           \/ Restart
<1> USE DEF gateVars, callVars, Goes, Ends
<1>1. ASSUME NEW c \in Call, Check(c)
      PROVE  \/ Ends(c)
             \/ pc[c] = "key" /\ HoldsKey(c) /\ (Goes(c, "lookup") \/ Goes(c, "final"))
             \/ pc[c] = "session" /\ HoldsSession(c) /\ Goes(c, "recheck")
  BY <1>1 DEF Check, FoundNothing, FoundInFlight, FoundKnown, AnswerKnown, Answer
<1>2. ASSUME NEW c \in Call, AwaitFinal(c) \/ LookupFinds(c) \/ LookupFails(c) \/ QueryUnknown(c)
      PROVE  Ends(c)
  BY <1>2 DEF AwaitFinal, LookupFinds, LookupFails, QueryUnknown, AnswerKnown, Answer
<1>3. ASSUME NEW c \in Call, Reject(c) \/ Noop(c) \/ ExecuteNoop(c) \/ Succeed(c) \/ Fail(c)
      PROVE  Ends(c)
  BY <1>3 DEF Reject, Noop, ExecuteNoop, Succeed, Fail, Settle, Answer
<1>4. ASSUME NEW c \in Call, LookupNext(c) \/ LoadOwn(c)
      PROVE  UNCHANGED <<pc, gateVars>>
  BY <1>4 DEF LookupNext, LoadOwn
<1>5. ASSUME NEW c \in Call, AdmitCommand(c)
      PROVE  pc[c] = "admit" /\ (Goes(c, "execute") \/ Goes(c, "fail"))
  BY <1>5 DEF AdmitCommand, AdmitInput, AdmitNoInput, AdmitFails
<1>6. ASSUME NEW c \in Call, Execute(c) \/ ExecuteFails(c)
      PROVE  pc[c] = "execute" /\ (Goes(c, "succeed") \/ Goes(c, "cancel") \/ Goes(c, "fail"))
  BY <1>6 DEF Execute, ExecuteFails
<1>7. ASSUME NEW c \in Call, CancelInput(c)
      PROVE  pc[c] = "cancel" /\ Goes(c, "fail")
  BY <1>7 DEF CancelInput
<1>8. ASSUME NEW k \in Command,
             Promote(k) \/ RemoveQueued(k) \/ Ingest(k) \/ EndCompact(k) \/ RecordFact(k)
      PROVE  UNCHANGED <<pc, gateVars>>
  BY <1>8 DEF Promote, RemoveQueued, Ingest, EndCompact, RecordFact
<1>9. CASE Reading \/ Deactivate \/ Resume \/ SweepOnResume \/ UNCHANGED vars
  BY <1>9 DEF Reading, Load, LoadFails, Deactivate, Resume, SweepOnResume, vars
<1> QED
  BY <1>1, <1>2, <1>3, <1>4, <1>5, <1>6, <1>7, <1>8, <1>9
  DEF Next, Serve, Look, Decide, RunCommand

\* Who holds a gate holds it until it leaves it itself.
LEMMA GatesStep ==
    ASSUME TypeOK, GatesHeld, [Next]_vars
    PROVE  GatesHeld'
<1>0. /\ GateTypes /\ asks' = asks /\ pc \in [Call -> Places]
      /\ \A c \in Call : Key(c) \in Command /\ Key(c)' = Key(c)
  BY TypesInParts, CommandOfCall, SameAsks DEF Key, CallTypes
<1> SUFFICES ASSUME NEW d \in Call
             PROVE  /\ pc'[d] \in {"final", "lookup", "session", "recheck"} => HoldsKey(d)'
                    /\ pc'[d] = "recheck" \/ Executing(d)' => HoldsSession(d)'
  BY DEF GatesHeld
<1> USE DEF Places, Executing
<1>1. ASSUME NEW c \in Call, c # d, LeaveKeyGate(c) PROVE HoldsKey(d) => HoldsKey(d)'
  BY <1>0, <1>1, ReleasedHead DEF LeaveKeyGate, HoldsKey, GateTypes
<1>2. ASSUME NEW c \in Call, c # d, LeaveSessionGate(c) PROVE HoldsSession(d) => HoldsSession(d)'
  BY <1>0, <1>2, ReleasedHead DEF LeaveSessionGate, HoldsSession, GateTypes
<1>3. CASE UNCHANGED <<pc, gateVars>>
  BY <1>0, <1>3 DEF GatesHeld, HoldsKey, HoldsSession, gateVars
<1>4. ASSUME NEW c \in Call, Ends(c)
      PROVE  /\ pc'[d] \in {"final", "lookup", "session", "recheck"} => HoldsKey(d)'
             /\ pc'[d] = "recheck" \/ Executing(d)' => HoldsSession(d)'
  BY <1>0, <1>1, <1>2, <1>4 DEF Ends, Goto, LeaveGates, GatesHeld
<1>5. ASSUME NEW c \in Call, Arrive(c)
      PROVE  /\ pc'[d] \in {"final", "lookup", "session", "recheck"} => HoldsKey(d)'
             /\ pc'[d] = "recheck" \/ Executing(d)' => HoldsSession(d)'
  <2>1. HoldsKey(d) => HoldsKey(d)'
    BY <1>0, <1>5, JoinedHead DEF Arrive, HoldsKey, GateTypes
  <2> QED BY <1>0, <1>5, <2>1 DEF Arrive, Goto, GatesHeld, HoldsSession
<1>6. ASSUME NEW c \in Call, AwaitSession(c)
      PROVE  /\ pc'[d] \in {"final", "lookup", "session", "recheck"} => HoldsKey(d)'
             /\ pc'[d] = "recheck" \/ Executing(d)' => HoldsSession(d)'
  <2>1. HoldsSession(d) => HoldsSession(d)'
    BY <1>0, <1>6, JoinedHead DEF AwaitSession, HoldsSession, GateTypes
  <2> QED BY <1>0, <1>6, <2>1 DEF AwaitSession, NotFound, Goto, GatesHeld, HoldsKey
<1>7. ASSUME NEW c \in Call, Admit(c)
      PROVE  /\ pc'[d] \in {"final", "lookup", "session", "recheck"} => HoldsKey(d)'
             /\ pc'[d] = "recheck" \/ Executing(d)' => HoldsSession(d)'
  BY <1>0, <1>1, <1>7 DEF Admit, NotFound, Goto, GatesHeld, HoldsSession
<1>8. ASSUME NEW c \in Call, NEW l, Goes(c, l), pc[c] = "key", HoldsKey(c), l \in {"lookup", "final"}
      PROVE  /\ pc'[d] \in {"final", "lookup", "session", "recheck"} => HoldsKey(d)'
             /\ pc'[d] = "recheck" \/ Executing(d)' => HoldsSession(d)'
  BY <1>0, <1>8 DEF Goes, Goto, GatesHeld, HoldsKey, HoldsSession, gateVars
<1>9. ASSUME NEW c \in Call, Goes(c, "recheck"), pc[c] = "session", HoldsSession(c)
      PROVE  /\ pc'[d] \in {"final", "lookup", "session", "recheck"} => HoldsKey(d)'
             /\ pc'[d] = "recheck" \/ Executing(d)' => HoldsSession(d)'
  BY <1>0, <1>9 DEF Goes, Goto, GatesHeld, HoldsKey, HoldsSession, gateVars
<1>10. ASSUME NEW c \in Call, NEW l, Goes(c, l), Executing(c),
              l \in {"execute", "succeed", "cancel", "fail"}
       PROVE  /\ pc'[d] \in {"final", "lookup", "session", "recheck"} => HoldsKey(d)'
              /\ pc'[d] = "recheck" \/ Executing(d)' => HoldsSession(d)'
  BY <1>0, <1>10 DEF Goes, Goto, GatesHeld, HoldsKey, HoldsSession, gateVars
<1>11. CASE Restart
  BY <1>0, <1>11 DEF Restart
<1> QED
  BY <1>3, <1>4, <1>5, <1>6, <1>7, <1>8, <1>9, <1>10, <1>11, GateMoves

\* So two calls that execute are one.
LEMMA OneAtATime ==
    ASSUME GatesHeld, NEW c \in Call, NEW d \in Call,
           pc[c] = "recheck" \/ Executing(c), pc[d] = "recheck" \/ Executing(d)
    PROVE  c = d
BY DEF GatesHeld, HoldsSession

\* Of the calls of one command one at a time is past its key gate.
LEMMA OneDecides ==
    ASSUME GatesHeld, NEW c \in Call, NEW d \in Call, Key(c) = Key(d),
           pc[c] \in {"final", "lookup", "session", "recheck"},
           pc[d] \in {"final", "lookup", "session", "recheck"}
    PROVE  c = d
BY DEF GatesHeld, HoldsKey

-----------------------------------------------------------------------------
(* Calls: the entry in flight, the replies, and what nobody else can know.   *)

\* Only an admission, an end or a restart changes who is executed.
LEMMA ExecutionMoves ==
    ASSUME TypeOK, [Next]_vars
    PROVE  \/ \E c \in Call : Admit(c)
           \/ \E c \in Call : Executing(c) /\ \E ack \in Ack : Settle(c, ack)
           \/ Restart
           \/ inFlight' = inFlight /\ \A d \in Call : Executing(d)' <=> Executing(d)
<1> USE DEF Executing, Goto
<1>0. pc \in [Call -> Places]
  BY TypesInParts DEF CallTypes
<1>1. ASSUME NEW c \in Call, Arrive(c) \/ Check(c) \/ AwaitFinal(c)
      PROVE  inFlight' = inFlight /\ \A d \in Call : Executing(d)' <=> Executing(d)
  BY <1>0, <1>1 DEF Arrive, Check, AwaitFinal, FoundNothing, FoundInFlight, FoundKnown,
       AnswerKnown, Answer, tableVars
<1>2. ASSUME NEW c \in Call, Look(c) \/ Reject(c) \/ Noop(c) \/ LoadOwn(c)
      PROVE  inFlight' = inFlight /\ \A d \in Call : Executing(d)' <=> Executing(d)
  BY <1>0, <1>2 DEF Look, LookupFinds, LookupNext, LookupFails, QueryUnknown, AwaitSession,
       LookingUp, NotFound, Reject, Noop, LoadOwn, AnswerKnown, Answer, tableVars
<1>3. ASSUME NEW c \in Call, AdmitCommand(c) \/ Execute(c) \/ ExecuteFails(c) \/ CancelInput(c)
      PROVE  inFlight' = inFlight /\ \A d \in Call : Executing(d)' <=> Executing(d)
  BY <1>0, <1>3 DEF AdmitCommand, AdmitInput, AdmitNoInput, AdmitFails, Execute, ExecuteFails,
       CancelInput, tableVars
<1>4. ASSUME NEW c \in Call, ExecuteNoop(c) \/ Succeed(c) \/ Fail(c)
      PROVE  Executing(c) /\ \E ack \in Ack : Settle(c, ack)
  BY <1>4 DEF ExecuteNoop, Succeed, Fail, Ack
<1>5. ASSUME NEW k \in Command,
             Promote(k) \/ RemoveQueued(k) \/ Ingest(k) \/ EndCompact(k) \/ RecordFact(k)
      PROVE  inFlight' = inFlight /\ pc' = pc
  BY <1>5 DEF Promote, RemoveQueued, Ingest, EndCompact, RecordFact, callVars, tableVars
<1>6. CASE Reading \/ Deactivate \/ Resume \/ SweepOnResume \/ UNCHANGED vars
  BY <1>6 DEF Reading, Load, LoadFails, Deactivate, Resume, SweepOnResume, vars, callVars, tableVars
<1> QED
  BY <1>1, <1>2, <1>3, <1>4, <1>5, <1>6 DEF Next, Serve, Decide, RunCommand

\* A call is in flight from its admission until it settles, and is the only one.
LEMMA InFlightStep ==
    ASSUME TypeOK, GatesHeld, InFlightExecutes, [Next]_vars
    PROVE  InFlightExecutes'
<1>0. /\ asks' = asks /\ pc \in [Call -> Places] /\ inFlight \in [Command -> Call \cup {None}]
      /\ \A c \in Call : Key(c) \in Command /\ Key(c)' = Key(c)
  BY TypesInParts, CommandOfCall, SameAsks DEF Key, CallTypes, TableTypes
<1>1. ASSUME NEW c \in Call, Admit(c) PROVE InFlightExecutes'
  <2>1. pc[c] = "recheck"
    BY <1>1 DEF Admit, NotFound
  <2>2. \A d \in Call : ~Executing(d)
    BY <2>1, OneAtATime DEF Executing
  <2>3. \A k \in Command : inFlight[k] = None
    BY <1>0, <2>2 DEF InFlightExecutes
  <2> QED BY <1>0, <1>1, <2>2, <2>3 DEF Admit, Goto, InFlightExecutes, Executing
<1>2. ASSUME NEW c \in Call, Executing(c), NEW ack, Settle(c, ack) PROVE InFlightExecutes'
  <2>1. \A d \in Call : Executing(d) => d = c
    BY <1>2, OneAtATime
  <2>2. \A k \in Command : inFlight[k] # None => k = Key(c)
    BY <1>0, <2>1 DEF InFlightExecutes
  <2> QED BY <1>0, <1>2, <2>1, <2>2 DEF Settle, Answer, Goto, InFlightExecutes, Executing
<1>3. CASE Restart
  BY <1>0, <1>3 DEF Restart, InFlightExecutes, Executing
<1>4. CASE inFlight' = inFlight /\ \A d \in Call : Executing(d)' <=> Executing(d)
  BY <1>0, <1>4 DEF InFlightExecutes
<1> QED BY <1>1, <1>2, <1>3, <1>4, ExecutionMoves

\* Who awaits a final has an entry of its own command; replies and finals are given
\* once, by the step that ends the call.
LEMMA RepliesStep ==
    ASSUME TypeOK, InFlightExecutes, RepliesOnce, [Next]_vars
    PROVE  RepliesOnce'
<1>0. /\ asks' = asks /\ CallTypes /\ TableTypes
      /\ \A c \in Call : Key(c) \in Command /\ Key(c)' = Key(c)
  BY TypesInParts, CommandOfCall, SameAsks DEF Key
<1> SUFFICES ASSUME NEW d \in Call
             PROVE  /\ pc'[d] # "done" => reply'[d] = None /\ final'[d] = None
                    /\ final'[d] = "noop" => reply'[d] = "noop"
                    /\ pc'[d] = "final" => entry'[d] \in Call /\ Key(entry'[d]) = Key(d)
  BY <1>0 DEF RepliesOnce, Key
<1> DEFINE G == /\ pc'[d] # "done" => reply'[d] = None /\ final'[d] = None
                /\ final'[d] = "noop" => reply'[d] = "noop"
                /\ pc'[d] = "final" => entry'[d] \in Call /\ Key(entry'[d]) = Key(d)
<1> USE DEF RepliesOnce, CallTypes, TableTypes
<1>1. ASSUME NEW c \in Call, Answer(c, reply'[c]), pc[c] # "done", final' = final PROVE G
  BY <1>0, <1>1, NoneAssumption DEF Answer, Goto, Reply, Ack
<1>2. ASSUME NEW c \in Call, NEW ack, Settle(c, ack) PROVE G
  BY <1>0, <1>2 DEF Settle, Answer, Goto
<1>3. ASSUME NEW c \in Call, FoundInFlight(c), final' = final, pc[c] # "done" PROVE G
  BY <1>0, <1>3 DEF FoundInFlight, InFlightExecutes, Goto
<1>4. ASSUME NEW c \in Call, NEW l \in Places \ {"done", "final"}, pc[c] # "done", Goto(c, l),
             UNCHANGED <<reply, entry, final>>
      PROVE  G
  BY <1>0, <1>4 DEF Goto, Places
<1>5. CASE UNCHANGED <<pc, reply, entry, final>>
  BY <1>5
<1>6. CASE Restart
  BY <1>0, <1>6 DEF Restart
<1>7. ASSUME NEW c \in Call, Check(c) \/ AwaitFinal(c) PROVE G
  <2>1. CASE AwaitFinal(c)
    BY <1>0, <1>1, <2>1 DEF AwaitFinal, AnswerKnown, Answer, tableVars
  <2>2. CASE Check(c) /\ \E l \in {"lookup", "recheck"} : FoundNothing(c, l)
    <3>1. PICK l \in {"lookup", "recheck"} : FoundNothing(c, l)
      BY <2>2
    <3>2. Goto(c, l) /\ UNCHANGED <<reply, entry, final>> /\ pc[c] # "done"
      BY <2>2, <3>1 DEF Check, FoundNothing
    <3>3. l \in Places \ {"done", "final"}
      BY DEF Places
    <3> QED BY <1>4, <3>2, <3>3
  <2>3. CASE FoundInFlight(c)
    BY <1>3, <1>7, <2>3 DEF Check, AwaitFinal, tableVars
  <2>4. CASE FoundKnown(c)
    BY <1>0, <1>1, <1>7, <2>1, <2>4 DEF Check, FoundKnown, AnswerKnown, Answer
  <2> QED BY <1>7, <2>1, <2>2, <2>3, <2>4 DEF Check
<1>8. ASSUME NEW c \in Call, Arrive(c) \/ AwaitSession(c) \/ Admit(c) PROVE G
  BY <1>4, <1>8 DEF Arrive, AwaitSession, Admit, NotFound, tableVars, Places
<1>9. ASSUME NEW c \in Call, LookupFinds(c) \/ LookupFails(c) \/ QueryUnknown(c) \/ Reject(c) \/ Noop(c)
      PROVE  G
  <2>1. Answer(c, reply'[c]) /\ pc[c] # "done" /\ final' = final
    BY <1>0, <1>9 DEF LookupFinds, LookupFails, QueryUnknown, Reject, Noop, AnswerKnown, Answer,
         LookingUp, NotFound, tableVars
  <2> QED BY <1>1, <2>1
<1>10. ASSUME NEW c \in Call, AdmitCommand(c) PROVE G
  BY <1>4, <1>10 DEF AdmitCommand, AdmitInput, AdmitNoInput, AdmitFails, tableVars, Places
<1>11. ASSUME NEW c \in Call, Execute(c) \/ ExecuteFails(c) \/ CancelInput(c) PROVE G
  BY <1>4, <1>11 DEF Execute, ExecuteFails, CancelInput, tableVars, Places
<1>12. ASSUME NEW c \in Call, ExecuteNoop(c) \/ Succeed(c) \/ Fail(c) PROVE G
  BY <1>2, <1>12 DEF ExecuteNoop, Succeed, Fail
<1>13. ASSUME NEW c \in Call, LookupNext(c) \/ LoadOwn(c) PROVE G
  BY <1>5, <1>13 DEF LookupNext, LoadOwn, tableVars
<1>14. ASSUME NEW k \in Command,
              Promote(k) \/ RemoveQueued(k) \/ Ingest(k) \/ EndCompact(k) \/ RecordFact(k)
       PROVE  G
  BY <1>5, <1>14 DEF Promote, RemoveQueued, Ingest, EndCompact, RecordFact, callVars, tableVars
<1>15. CASE Reading \/ Deactivate \/ Resume \/ SweepOnResume \/ UNCHANGED vars
  BY <1>5, <1>15 DEF Reading, Load, LoadFails, Deactivate, Resume, SweepOnResume, vars, callVars,
       tableVars
<1> HIDE DEF RepliesOnce, CallTypes, TableTypes
<1> QED
  BY <1>6, <1>7, <1>8, <1>9, <1>10, <1>11, <1>12, <1>13, <1>14, <1>15
  DEF Next, Serve, Look, Decide, RunCommand

\* Which steps pin a command, and which begin to decide on one.
LEMMA NothingKnownStep ==
    ASSUME TypeOK, GatesHeld, InFlightExecutes, NothingKnown, [Next]_vars
    PROVE  NothingKnown'
<1>0. /\ asks' = asks /\ CallTypes /\ TableTypes
      /\ \A c \in Call : Key(c) \in Command /\ Key(c)' = Key(c)
  BY TypesInParts, CommandOfCall, SameAsks DEF Key
<1> SUFFICES ASSUME NEW d \in Call, Deciding(d)'
             PROVE  inFlight'[Key(d)] = None /\ live'[Key(d)] = None
  BY <1>0 DEF NothingKnown
<1> DEFINE G == inFlight'[Key(d)] = None /\ live'[Key(d)] = None
<1> USE DEF Deciding, Goto, CallTypes, TableTypes
<1>1. ASSUME NEW c \in Call, Check(c) PROVE G
  <2>1. CASE \E l \in {"lookup", "recheck"} : FoundNothing(c, l)
    BY <1>0, <1>1, <2>1, KnownFacts DEF FoundNothing, Check, NothingKnown
  <2>2. CASE FoundInFlight(c) \/ FoundKnown(c)
    BY <1>0, <1>1, <2>2 DEF FoundInFlight, FoundKnown, AnswerKnown, Answer, Check, NothingKnown
  <2> QED BY <1>1, <2>1, <2>2 DEF Check
<1>2. ASSUME NEW c \in Call, Admit(c) PROVE G
  <2>1. pc[c] = "recheck" /\ Key(c) # Key(d)
    BY <1>0, <1>2, OneDecides DEF Admit, NotFound
  <2> QED BY <1>0, <1>2, <2>1 DEF Admit, NothingKnown
<1>3. ASSUME NEW c \in Call, AdmitInput(c) PROVE G
  <2>1. inFlight[Key(c)] = c /\ c # None
    BY <1>3, NoneAssumption DEF AdmitInput, InFlightExecutes, Executing
  <2> QED BY <1>0, <1>3, <2>1 DEF AdmitInput, NothingKnown
<1>4. ASSUME NEW c \in Call, ExecuteNoop(c) \/ Succeed(c) \/ Fail(c) PROVE G
  <2>1. inFlight[Key(c)] = c /\ c # None
    BY <1>4, NoneAssumption DEF ExecuteNoop, Succeed, Fail, InFlightExecutes, Executing
  <2> QED BY <1>0, <1>4, <2>1 DEF ExecuteNoop, Succeed, Fail, Settle, Answer, NothingKnown
<1>5. ASSUME NEW c \in Call, Arrive(c) \/ AwaitFinal(c) \/ LookupFinds(c) \/ LookupNext(c) \/ LookupFails(c)
      PROVE  G
  BY <1>0, <1>5 DEF Arrive, AwaitFinal, LookupFinds, LookupNext, LookupFails, AnswerKnown, Answer,
       tableVars, NothingKnown
<1>6. ASSUME NEW c \in Call, QueryUnknown(c) \/ AwaitSession(c) \/ Reject(c) \/ Noop(c) \/ LoadOwn(c)
      PROVE  G
  BY <1>0, <1>6 DEF QueryUnknown, AwaitSession, Reject, Noop, LoadOwn, NotFound, Answer,
       tableVars, NothingKnown
<1>7. ASSUME NEW c \in Call, AdmitNoInput(c) \/ AdmitFails(c) \/ Execute(c) \/ ExecuteFails(c) \/ CancelInput(c)
      PROVE  G
  BY <1>0, <1>7 DEF AdmitNoInput, AdmitFails, Execute, ExecuteFails, CancelInput, tableVars, NothingKnown
<1>8. ASSUME NEW k \in Command,
             Promote(k) \/ RemoveQueued(k) \/ EndCompact(k) \/ RecordFact(k) \/ Ingest(k)
      PROVE  G
  BY <1>0, <1>8 DEF Promote, RemoveQueued, EndCompact, RecordFact, Ingest, Release, callVars,
       tableVars, NothingKnown
<1>9. CASE Reading \/ Deactivate \/ Resume \/ SweepOnResume \/ Restart \/ UNCHANGED vars
  BY <1>0, <1>9 DEF Reading, Load, LoadFails, Deactivate, Resume, SweepOnResume, Restart, vars,
       callVars, tableVars, NothingKnown
<1> QED
  BY <1>1, <1>2, <1>3, <1>4, <1>5, <1>6, <1>7, <1>8, <1>9
  DEF Next, Serve, Look, Decide, AdmitCommand, RunCommand

-----------------------------------------------------------------------------
(* The runtime: what it holds is pinned.                                    *)

\* A step that leaves the runtime, the pins and the session alone, and by which no
\* call begins to be executed, has nothing to say about what is held.
LEMMA HeldUndisturbed ==
    ASSUME TypeOK, HeldIsPinned, asks' = asks, UNCHANGED <<held, live, session>>,
           \A k \in Command : inFlight'[k] # None => inFlight[k] # None,
           \A c \in Call : pc'[c] \in {"admit", "execute", "cancel", "fail"} =>
                              pc[c] \in {"admit", "execute", "cancel", "fail"},
           \A c \in Call : pc'[c] = "execute" /\ Key(c) \in Input => pc[c] = "execute"
    PROVE  HeldIsPinned'
BY DEF HeldIsPinned, Key

\* A held input stays pinned.
LEMMA HeldIsPinnedStep ==
    ASSUME TypeOK, GatesHeld, InFlightExecutes, NothingKnown, HeldIsPinned, [Next]_vars
    PROVE  HeldIsPinned'
<1>0. /\ asks' = asks /\ CallTypes /\ TableTypes /\ StoreTypes
      /\ \A c \in Call : Key(c) \in Command /\ Key(c)' = Key(c)
  BY TypesInParts, CommandOfCall, SameAsks DEF Key
<1> USE DEF Goto
<1>1. ASSUME NEW c \in Call, Arrive(c) \/ Check(c) \/ AwaitFinal(c) \/ Look(c) PROVE HeldIsPinned'
  <2>1. /\ UNCHANGED <<held, live, session, inFlight>>
        /\ \A d \in Call : pc'[d] = pc[d] \/ pc'[d] \notin {"admit", "execute", "cancel", "fail"}
    BY <1>0, <1>1 DEF Arrive, Check, AwaitFinal, Look, FoundNothing, FoundInFlight, FoundKnown,
         LookupFinds, LookupNext, LookupFails, QueryUnknown, AwaitSession, AnswerKnown, Answer,
         tableVars, worldVars, CallTypes
  <2> QED BY <1>0, <2>1, HeldUndisturbed
<1>2. ASSUME NEW c \in Call, Reject(c) \/ Noop(c) \/ LoadOwn(c) \/ AdmitNoInput(c) \/ AdmitFails(c)
      PROVE  HeldIsPinned'
  <2>1. /\ UNCHANGED <<held, live, session, inFlight>>
        /\ \A d \in Call : pc'[d] \in {"admit", "execute", "cancel", "fail"} =>
                              pc[d] \in {"admit", "execute", "cancel", "fail"}
        /\ \A d \in Call : pc'[d] = "execute" /\ Key(d) \in Input => pc[d] = "execute"
    BY <1>0, <1>2 DEF Reject, Noop, LoadOwn, AdmitNoInput, AdmitFails, Answer, tableVars, worldVars, CallTypes
  <2> QED BY <1>0, <2>1, HeldUndisturbed
<1>3. ASSUME NEW c \in Call, ExecuteFails(c) \/ CancelInput(c) PROVE HeldIsPinned'
  <2>1. /\ UNCHANGED <<held, live, session, inFlight>>
        /\ \A d \in Call : pc'[d] \in {"admit", "execute", "cancel", "fail"} =>
                              pc[d] \in {"admit", "execute", "cancel", "fail"}
        /\ \A d \in Call : pc'[d] = "execute" => pc[d] = "execute"
    BY <1>0, <1>3 DEF ExecuteFails, CancelInput, tableVars, worldVars, CallTypes
  <2> QED BY <1>0, <2>1, HeldUndisturbed
<1>4. ASSUME NEW c \in Call, Admit(c) PROVE HeldIsPinned'
  <2>1. pc[c] = "recheck" /\ held[Key(c)] = "no"
    BY <1>0, <1>4, NoneAssumption DEF Admit, NotFound, NothingKnown, Deciding, HeldIsPinned, Reply, Ack
  <2> QED BY <1>0, <1>4, <2>1 DEF Admit, HeldIsPinned, worldVars, CallTypes, TableTypes
<1>5. ASSUME NEW c \in Call, AdmitInput(c) PROVE HeldIsPinned'
  BY <1>0, <1>5 DEF AdmitInput, HeldIsPinned, worldVars, CallTypes, TableTypes
<1>6. ASSUME NEW c \in Call, Execute(c) PROVE HeldIsPinned'
  <2>1. inFlight[Key(c)] # None /\ session # "absent" /\ \A d \in Call : Executing(d) => d = c
    BY <1>0, <1>6, OneAtATime, NoneAssumption DEF Execute, InFlightExecutes, Executing, HeldIsPinned
  <2> QED BY <1>0, <1>6, <2>1
       DEF Execute, HeldIsPinned, Executing, tableVars, CallTypes, TableTypes, StoreTypes
<1>7. ASSUME NEW c \in Call, ExecuteNoop(c) \/ Succeed(c) \/ Fail(c) PROVE HeldIsPinned'
  <2>1. \A d \in Call : Executing(d) => d = c
    BY <1>7, OneAtATime DEF ExecuteNoop, Succeed, Fail, Executing
  <2>2. /\ UNCHANGED <<held, session>>
        /\ \A k \in Command : inFlight'[k] # None => inFlight[k] # None
        /\ \A d \in Call : ~Executing(d)'
    BY <1>0, <1>7, <2>1 DEF ExecuteNoop, Succeed, Fail, Settle, Answer, worldVars, Executing, CallTypes, TableTypes
  <2>3. \A k \in Command : held[k] # "no" => live'[k] = live[k] \/ live'[k] = "accepted"
    BY <1>0, <1>7 DEF ExecuteNoop, Succeed, Fail, HeldIsPinned, CallTypes, TableTypes
  <2> QED BY <1>0, <2>2, <2>3 DEF HeldIsPinned, Executing
<1>8. ASSUME NEW k \in Command, Promote(k) \/ RemoveQueued(k) \/ EndCompact(k) \/ RecordFact(k)
      PROVE  HeldIsPinned'
  <2>1. held[k] # "no" /\ UNCHANGED <<pc, inFlight, live, session>> /\ \A m \in Command : m # k => held'[m] = held[m]
    BY <1>0, <1>8 DEF Promote, RemoveQueued, EndCompact, RecordFact, callVars, tableVars, StoreTypes
  <2> QED BY <1>0, <2>1 DEF HeldIsPinned
<1>9. ASSUME NEW k \in Command, Ingest(k) PROVE HeldIsPinned'
  BY <1>0, <1>9 DEF Ingest, Release, HeldIsPinned, TableTypes, StoreTypes
<1>10. CASE Reading \/ UNCHANGED vars
  BY <1>0, <1>10, HeldUndisturbed DEF Reading, Load, LoadFails, vars, callVars, tableVars, worldVars
<1>11. CASE Deactivate \/ Resume \/ SweepOnResume
  BY <1>0, <1>11 DEF Deactivate, Resume, SweepOnResume, Pinned, HeldIsPinned, callVars, tableVars
<1>12. CASE Restart
  BY <1>0, <1>12 DEF Restart, HeldIsPinned
<1> QED
  BY <1>1, <1>2, <1>3, <1>4, <1>5, <1>6, <1>7, <1>8, <1>9, <1>10, <1>11, <1>12
  DEF Next, Serve, Decide, AdmitCommand, RunCommand

-----------------------------------------------------------------------------
(* The ledger and the index: an input takes effect once.                    *)

\* A row becomes promoted by Promote alone, and stays it.
LEMMA LedgerMoves ==
    ASSUME TypeOK, [Next]_vars
    PROVE  \/ \E k \in Command : Promote(k)
           \/ \A k \in Command : ledger'[k] = "promoted" <=> ledger[k] = "promoted"
<1>0. StoreTypes /\ \A c \in Call : Key(c) \in Command
  BY TypesInParts, CommandOfCall
<1> DEFINE G == \A k \in Command : ledger'[k] = "promoted" <=> ledger[k] = "promoted"
<1> USE DEF StoreTypes
<1>1. ASSUME NEW c \in Call, AdmitInput(c) \/ CancelInput(c) PROVE G
  BY <1>0, <1>1 DEF AdmitInput, CancelInput
<1>2. CASE Load \/ \E c \in Call : LoadOwn(c)
  BY <1>0, <1>2 DEF Load, LoadOwn, Swept
<1>3. ASSUME NEW k \in Command, RemoveQueued(k) PROVE G
  BY <1>0, <1>3 DEF RemoveQueued
<1>4. CASE SweepOnResume
  BY <1>0, <1>4 DEF SweepOnResume, Swept
<1>5. CASE UNCHANGED ledger
  BY <1>5
<1> QED
  BY <1>1, <1>2, <1>3, <1>4, <1>5
  DEF Next, Serve, Look, Decide, AdmitCommand, RunCommand, Reading, vars, storeVars,
      Arrive, Check, AwaitFinal, LookupFinds, LookupNext, LookupFails, QueryUnknown, AwaitSession,
      Reject, Noop, Admit, AdmitNoInput, AdmitFails, Execute, ExecuteFails, ExecuteNoop, Succeed,
      Fail, LoadFails, Ingest, EndCompact, RecordFact, Deactivate, Resume, Restart

\* A call that looks up what the shared index says of its command has no event on
\* the way that this index could miss.
LEMMA FreshForReaders ==
    ASSUME TypeOK, NothingKnown, HeldIsPinned, IndexIsFresh, NEW c \in Call,
           LookingUp(c), index.state = "ready", ledger[Key(c)] = "promoted"
    PROVE  "accepted" \in index.facts[Key(c)]
<1>1. Key(c) \in Command /\ live[Key(c)] = None
  BY CommandOfCall DEF NothingKnown, Deciding, LookingUp
<1> QED BY <1>1, NoneAssumption DEF IndexIsFresh, HeldIsPinned, Reply, Ack

\* Nor does it go on to the ledger when the transcript has the command.
LEMMA NotYetMoves ==
    ASSUME TypeOK, NothingKnown, HeldIsPinned, IndexIsFresh, [Next]_vars, NEW d \in Call, NotYet(d)'
    PROVE  NotYet(d) \/ ledger[Key(d)] # "promoted"
<1>0. CallTypes
  BY TypesInParts
<1> USE DEF NotYet, LookingUp, Goto, CallTypes
<1>1. ASSUME NEW c \in Call, LookupNext(c) PROVE NotYet(d) \/ ledger[Key(d)] # "promoted"
  <2>1. CASE c = d
    <3>1. "accepted" \notin IndexOf(d).facts[Key(d)] /\ IndexOf(d).state = "ready"
      BY <1>1, <2>1 DEF LookupNext, FoundAt, Sources
    <3>2. CASE view[d] = "shared"
      BY <1>1, <2>1, <3>1, <3>2, FreshForReaders DEF IndexOf, LookupNext
    <3>3. CASE view[d] # "shared"
      BY <3>1, <3>3 DEF IndexOf, IndexIsFresh
    <3> QED BY <3>2, <3>3
  <2>2. CASE c # d
    BY <1>0, <1>1, <2>2 DEF LookupNext, Await
  <2> QED BY <2>1, <2>2
<1>2. ASSUME NEW c \in Call, Arrive(c) \/ Check(c) \/ AwaitFinal(c) PROVE NotYet(d)
  BY <1>0, <1>2 DEF Arrive, Check, AwaitFinal, FoundNothing, FoundInFlight, FoundKnown, Await,
       AnswerKnown, Answer
<1>3. ASSUME NEW c \in Call, LookupFinds(c) \/ LookupFails(c) \/ QueryUnknown(c) \/ AwaitSession(c)
      PROVE  NotYet(d)
  BY <1>0, <1>3 DEF LookupFinds, LookupFails, QueryUnknown, AwaitSession, NotFound, AnswerKnown, Answer
<1>4. ASSUME NEW c \in Call, Reject(c) \/ Noop(c) \/ Admit(c) \/ LoadOwn(c) PROVE NotYet(d)
  BY <1>0, <1>4 DEF Reject, Noop, Admit, LoadOwn, NotFound, Answer
<1>5. ASSUME NEW c \in Call, AdmitCommand(c) \/ RunCommand(c) \/ CancelInput(c) PROVE NotYet(d)
  BY <1>0, <1>5 DEF AdmitCommand, AdmitInput, AdmitNoInput, AdmitFails, RunCommand, Execute,
       ExecuteFails, ExecuteNoop, Settle, Answer, CancelInput
<1>6. ASSUME NEW c \in Call, Succeed(c) \/ Fail(c) PROVE NotYet(d)
  BY <1>0, <1>6 DEF Succeed, Fail, Settle, Answer
<1>7. ASSUME NEW k \in Command,
             Promote(k) \/ RemoveQueued(k) \/ Ingest(k) \/ EndCompact(k) \/ RecordFact(k)
      PROVE  NotYet(d)
  BY <1>7 DEF Promote, RemoveQueued, Ingest, EndCompact, RecordFact, callVars
<1>8. CASE Reading \/ Deactivate \/ Resume \/ SweepOnResume \/ UNCHANGED vars
  BY <1>8 DEF Reading, Load, LoadFails, Deactivate, Resume, SweepOnResume, vars, callVars
<1>9. CASE Restart
  BY <1>0, <1>9 DEF Restart
<1> QED
  BY <1>1, <1>2, <1>3, <1>4, <1>5, <1>6, <1>7, <1>8, <1>9 DEF Next, Serve, Look, Decide

\* What the runtime does with an input, and how it comes to have taken effect.
LEMMA HeldMoves ==
    ASSUME [Next]_vars
    PROVE  \/ UNCHANGED <<held, effects>>
           \/ \E c \in Call : Execute(c)
           \/ \E k \in Command :
                 Promote(k) \/ RemoveQueued(k) \/ Ingest(k) \/ EndCompact(k) \/ RecordFact(k)
           \/ Restart
BY DEF Next, Serve, Look, Decide, AdmitCommand, RunCommand, Reading, vars, worldVars,
       Arrive, Check, AwaitFinal, LookupFinds, LookupNext, LookupFails, QueryUnknown,
       AwaitSession, Reject, Noop, Admit, AdmitInput, AdmitNoInput, AdmitFails,
       ExecuteFails, ExecuteNoop, CancelInput, Succeed, Fail, Load, LoadFails, LoadOwn,
       Deactivate, Resume, SweepOnResume

\* An input is promoted once: it waits for that only while its row is not.
LEMMA PromotedOnceStep ==
    ASSUME TypeOK, NothingKnown, HeldIsPinned, IndexIsFresh, PromotedOnce, [Next]_vars
    PROVE  PromotedOnce'
<1>0. /\ asks' = asks /\ CallTypes /\ StoreTypes
      /\ \A c \in Call : Key(c) \in Command /\ Key(c)' = Key(c)
      /\ Text \subseteq Command /\ Text \cap Compact = {}
  BY TypesInParts, CommandOfCall, SameAsks, CommandInboxAssumption DEF Key
<1>1. \A c \in Call : NotYet(c)' => ledger[Key(c)] # "promoted"
  BY NotYetMoves DEF PromotedOnce
<1>2. ASSUME NEW k \in Command, Promote(k) PROVE PromotedOnce'
  <2>1. ASSUME NEW c \in Call, NotYet(c)' PROVE Key(c) # k
    <3>1. NotYet(c)
      BY <1>2, <2>1 DEF Promote, callVars, NotYet, LookingUp
    <3>2. live[k] = "accepted" /\ live[k] # None /\ held[k] = "yes"
      BY <1>0, <1>2, NoneAssumption DEF Promote, HeldIsPinned, Reply, Ack
    <3> QED BY <3>1, <3>2 DEF NotYet, LookingUp, Deciding, NothingKnown, HeldIsPinned
  <2>2. ledger[k] # "promoted" /\ effects[k] = 0 /\ effects[k] \in Nat
    BY <1>0, <1>2 DEF Promote, PromotedOnce, StoreTypes
  <2>3. \A m \in Command : m # k => ledger'[m] = ledger[m] /\ effects'[m] = effects[m] /\ held'[m] = held[m]
    BY <1>0, <1>2 DEF Promote, StoreTypes
  <2>4. ledger'[k] = "promoted" /\ effects'[k] = 1 /\ held'[k] = "promoted"
    BY <1>0, <1>2, <2>2 DEF Promote, StoreTypes
  <2> QED BY <1>0, <1>1, <2>1, <2>3, <2>4 DEF PromotedOnce
<1>3. CASE \A k \in Command : ledger'[k] = "promoted" <=> ledger[k] = "promoted"
  <2>1. ASSUME NEW k \in Command, held'[k] \in {"yes", "removed", "recording"}
        PROVE  held[k] \in {"yes", "removed", "recording"} \/ ledger[k] # "promoted"
    <3>1. ASSUME NEW c \in Call, Execute(c) PROVE held[k] = held'[k] \/ ledger[k] # "promoted"
      BY <1>0, <3>1 DEF Execute, PromotedOnce, NotYet, StoreTypes
    <3>2. ASSUME NEW m \in Command,
                 Promote(m) \/ RemoveQueued(m) \/ Ingest(m) \/ EndCompact(m) \/ RecordFact(m)
          PROVE  held[k] \in {"yes", "removed", "recording"}
      BY <1>0, <2>1, <3>2 DEF Promote, RemoveQueued, Ingest, EndCompact, RecordFact, StoreTypes
    <3> QED BY <2>1, <3>1, <3>2, HeldMoves DEF Restart
  <2>2. ASSUME NEW k \in Text PROVE effects'[k] = effects[k] \/ \E m \in Command : Promote(m)
    BY <1>0, HeldMoves DEF Execute, RemoveQueued, Ingest, EndCompact, RecordFact, Restart, StoreTypes
  <2>3. CASE \E m \in Command : Promote(m)
    BY <1>2, <2>3
  <2> QED BY <1>0, <1>1, <1>3, <2>1, <2>2, <2>3 DEF PromotedOnce
<1> QED BY <1>2, <1>3, LedgerMoves

\* What a load reads has every promotion, and nothing as accepted that was not.
LEMMA LoadedFacts ==
    ASSUME TypeOK, NEW i \in Index, NEW k \in Command
    PROVE  /\ ledger[k] = "promoted" => "accepted" \in Loaded(i).facts[k]
           /\ "accepted" \in Loaded(i).facts[k] => Recorded(k)
BY DEF Loaded, FactsIn, Swept, Recorded, TypeOK, Index, Facts

\* ensureSession makes up no fact.
LEMMA EnsuredFacts ==
    ASSUME TypeOK, NEW k \in Command
    PROVE  /\ "accepted" \in Ensured.facts[k] => "accepted" \in index.facts[k]
           /\ Ensured.state = "ready" => Ensured = index
           /\ Absent.facts[k] = {} /\ Absent.state = "absent"
BY DEF Ensured, Absent, NoFacts

\* How the indexes change: one is asked for, read or dropped, or learns a fact.
LEMMA IndexMoves ==
    ASSUME TypeOK, [Next]_vars
    PROVE  \/ index' \in {index, Ensured} /\
                \A c \in Call : \/ own'[c] = own[c] /\ view'[c] = view[c] /\ (LookingUp(c) => pc'[c] = pc[c])
                                \/ /\ own'[c] = Absent
                                   /\ view'[c] = "idle" \/ pc'[c] \in {"lookup", "recheck"}
           \/ Load \/ LoadFails \/ Restart
           \/ \E c \in Call : LoadOwn(c)
           \/ \E k \in Command : Ingest(k) \/ RecordFact(k)
<1>0. CallTypes
  BY TypesInParts
<1> DEFINE Q == /\ index' \in {index, Ensured}
                /\ \A c \in Call : \/ own'[c] = own[c] /\ view'[c] = view[c] /\ (LookingUp(c) => pc'[c] = pc[c])
                                   \/ /\ own'[c] = Absent
                                      /\ view'[c] = "idle" \/ pc'[c] \in {"lookup", "recheck"}
<1> USE DEF CallTypes, Goto, LookingUp
<1>1. ASSUME NEW c \in Call, Arrive(c) \/ Check(c) \/ AwaitFinal(c) PROVE Q
  BY <1>0, <1>1 DEF Arrive, Check, AwaitFinal, FoundNothing, FoundInFlight, FoundKnown, Await,
       AnswerKnown, Answer
<1>2. ASSUME NEW c \in Call, LookupFinds(c) \/ LookupFails(c) \/ QueryUnknown(c) \/ AwaitSession(c)
      PROVE  Q
  BY <1>0, <1>2 DEF LookupFinds, LookupFails, QueryUnknown, AwaitSession, AnswerKnown, Answer
<1>3. ASSUME NEW c \in Call, LookupNext(c) PROVE Q
  BY <1>0, <1>3 DEF LookupNext, LookingUp, Await
<1>4. ASSUME NEW c \in Call, Reject(c) \/ Noop(c) \/ Admit(c) PROVE Q
  BY <1>0, <1>4 DEF Reject, Noop, Admit, Answer
<1>5. ASSUME NEW c \in Call, AdmitCommand(c) \/ RunCommand(c) \/ CancelInput(c) PROVE Q
  BY <1>0, <1>5 DEF AdmitCommand, AdmitInput, AdmitNoInput, AdmitFails, RunCommand, Execute,
       ExecuteFails, ExecuteNoop, Settle, Answer, CancelInput
<1>6. ASSUME NEW c \in Call, Succeed(c) \/ Fail(c) PROVE Q
  BY <1>0, <1>6 DEF Succeed, Fail, Settle, Answer
<1>7. ASSUME NEW k \in Command, Promote(k) \/ RemoveQueued(k) \/ EndCompact(k)
      PROVE  Q
  BY <1>7 DEF Promote, RemoveQueued, EndCompact, callVars
<1>8. CASE Deactivate \/ Resume \/ SweepOnResume \/ UNCHANGED vars
  <2>1. Q
    BY <1>8 DEF Deactivate, Resume, SweepOnResume, vars, callVars
  <2> QED BY <2>1
<1> HIDE DEF Q
<1>9. Q \/ Load \/ LoadFails \/ Restart \/ (\E c \in Call : LoadOwn(c))
        \/ \E k \in Command : Ingest(k) \/ RecordFact(k)
  BY <1>1, <1>2, <1>3, <1>4, <1>5, <1>6, <1>7, <1>8 DEF Next, Serve, Look, Decide, Reading, Q
<1> QED BY <1>9 DEF Q

\* An index that is ready knows every promotion whose event has been ingested.
LEMMA IndexIsFreshStep ==
    ASSUME TypeOK, NothingKnown, HeldIsPinned, IndexIsFresh, [Next]_vars
    PROVE  IndexIsFresh'
<1>0. /\ asks' = asks /\ CallTypes /\ StoreTypes /\ Absent.state = "absent"
      /\ \A c \in Call : Key(c) \in Command /\ Key(c)' = Key(c) /\ own[c] \in Index
  BY TypesInParts, CommandOfCall, SameAsks DEF Key, Absent, CallTypes
<1> DEFINE A(k) == index'.state = "ready" /\ ledger'[k] = "promoted" /\ "accepted" \notin index'.facts[k] =>
                      held'[k] = "promoted"
           B(c) == own'[c].state = "ready" /\ ledger'[Key(c)] = "promoted" =>
                      "accepted" \in own'[c].facts[Key(c)]
           C(c) == /\ view'[c] # "idle" => LookingUp(c)'
                   /\ own'[c].state # "absent" => view'[c] = "own"
<1>1. (\A k \in Command : A(k)) /\ (\A c \in Call : B(c) /\ C(c)) => IndexIsFresh'
  BY <1>0 DEF IndexIsFresh
<1>2. ASSUME NEW k \in Command, held[k] = "promoted", held'[k] # "promoted"
      PROVE  Ingest(k) \/ Restart
  <2>1. ASSUME NEW c \in Call, Execute(c) PROVE FALSE
    BY <1>0, <1>2, <2>1 DEF Execute, HeldIsPinned, StoreTypes
  <2> QED BY <1>0, <1>2, <2>1, HeldMoves
       DEF Promote, RemoveQueued, Ingest, EndCompact, RecordFact, StoreTypes
<1>3. ASSUME NEW k \in Command, Promote(k) PROVE IndexIsFresh'
  <2>1. live[k] # None
    BY <1>3, NoneAssumption DEF Promote, HeldIsPinned, Reply, Ack
  <2>2. \A m \in Command : A(m)
    BY <1>0, <1>3 DEF Promote, IndexIsFresh, StoreTypes
  <2>3. ASSUME NEW c \in Call PROVE B(c) /\ C(c)
    <3>1. own[c].state # "absent" => Key(c) # k
      BY <1>0, <2>1 DEF IndexIsFresh, NothingKnown, Deciding, LookingUp
    <3>2. Key(c) # k => ledger'[Key(c)] = ledger[Key(c)]
      BY <1>0, <1>3 DEF Promote, StoreTypes
    <3>3. own' = own /\ view' = view /\ pc' = pc
      BY <1>3 DEF Promote, callVars
    <3> QED BY <1>0, <3>1, <3>2, <3>3 DEF IndexIsFresh, LookingUp
  <2> QED BY <1>1, <2>2, <2>3
<1>4. ASSUME \A k \in Command : ledger'[k] = "promoted" <=> ledger[k] = "promoted"
      PROVE  IndexIsFresh'
  <2>1. ASSUME index' \in {index, Ensured},
               \A c \in Call : \/ own'[c] = own[c] /\ view'[c] = view[c] /\ (LookingUp(c) => pc'[c] = pc[c])
                               \/ /\ own'[c] = Absent
                                  /\ view'[c] = "idle" \/ pc'[c] \in {"lookup", "recheck"},
               ~ \E k \in Command : Ingest(k), ~Restart
        PROVE  IndexIsFresh'
    <3>1. \A k \in Command : A(k)
      BY <1>2, <1>4, <2>1, EnsuredFacts DEF IndexIsFresh
    <3>2. ASSUME NEW c \in Call PROVE B(c) /\ C(c)
      BY <1>0, <1>4, <2>1 DEF IndexIsFresh, LookingUp
    <3> QED BY <1>1, <3>1, <3>2
  <2>2. CASE Load
    <3>1. index' = Loaded(index) /\ index \in Index /\ UNCHANGED callVars
      BY <1>0, <2>2 DEF Load, StoreTypes
    <3>2. \A k \in Command : A(k)
      BY <1>4, <3>1, LoadedFacts
    <3>3. \A c \in Call : B(c) /\ C(c)
      BY <1>0, <1>4, <3>1 DEF IndexIsFresh, LookingUp, callVars
    <3> QED BY <1>1, <3>2, <3>3
  <2>3. CASE LoadFails
    <3>1. \A k \in Command : A(k)
      BY <1>0, <2>3 DEF LoadFails, Detach
    <3>2. ASSUME NEW c \in Call PROVE B(c) /\ C(c)
      BY <1>0, <1>4, <2>3 DEF LoadFails, Detach, IndexIsFresh, LookingUp, StoreTypes, CallTypes, Index
    <3> QED BY <1>1, <3>1, <3>2
  <2>4. CASE Restart
    BY <1>0, <2>4 DEF Restart, IndexIsFresh
  <2>5. ASSUME NEW c \in Call, LoadOwn(c) PROVE IndexIsFresh'
    <3>1. /\ \/ own' = [own EXCEPT ![c] = Loaded(own[c])]
             \/ own' = [own EXCEPT ![c] = [own[c] EXCEPT !.state = "failed"]]
          /\ own[c].state = "loading"
          /\ UNCHANGED <<pc, view, index, held>>
      BY <2>5 DEF LoadOwn, worldVars
    <3>2. \A k \in Command : A(k)
      BY <1>4, <3>1 DEF IndexIsFresh
    <3>3. ASSUME NEW d \in Call PROVE B(d) /\ C(d)
      <4>1. CASE d = c
        <5>1. own'[c] = Loaded(own[c]) \/ own'[c].state = "failed"
          BY <1>0, <3>1 DEF CallTypes, Index
        <5> QED BY <1>0, <1>4, <3>1, <4>1, <5>1, LoadedFacts DEF IndexIsFresh, LookingUp, CallTypes
      <4>2. CASE d # c
        BY <1>0, <1>4, <3>1, <4>2 DEF IndexIsFresh, LookingUp, CallTypes
      <4> QED BY <4>1, <4>2
    <3> QED BY <1>1, <3>2, <3>3
  <2>6. ASSUME NEW k \in Command, Ingest(k) PROVE IndexIsFresh'
    <3>1. \A m \in Command : A(m)
      BY <1>0, <2>6 DEF Ingest, Invalidate, Detach
    <3>2. ASSUME NEW c \in Call PROVE B(c) /\ C(c)
      <4>1. CASE view[c] = "shared"
        <5>1. LookingUp(c) /\ own'[c] = index /\ view'[c] = "own" /\ pc' = pc
          BY <1>0, <2>6, <4>1 DEF Ingest, Invalidate, Detach, IndexIsFresh
        <5> QED BY <1>0, <1>4, <5>1, FreshForReaders DEF LookingUp
      <4>2. CASE view[c] # "shared"
        BY <1>0, <1>4, <2>6, <4>2 DEF Ingest, Invalidate, Detach, IndexIsFresh, LookingUp
      <4> QED BY <4>1, <4>2
    <3> QED BY <1>1, <3>1, <3>2
  <2>7. ASSUME NEW k \in Command, RecordFact(k) PROVE IndexIsFresh'
    <3>1. /\ index' = index \/ (index'.state = index.state /\ \A m \in Command : index.facts[m] \subseteq index'.facts[m])
          /\ UNCHANGED callVars /\ \A m \in Command : held[m] = "promoted" => held'[m] = "promoted"
      BY <1>0, <2>7 DEF RecordFact, StoreTypes, Index, Facts
    <3>2. \A m \in Command : A(m)
      BY <1>4, <3>1 DEF IndexIsFresh
    <3>3. \A c \in Call : B(c) /\ C(c)
      BY <1>0, <1>4, <3>1 DEF IndexIsFresh, LookingUp, callVars
    <3> QED BY <1>1, <3>2, <3>3
  <2> HIDE DEF A, B, C
  <2> QED BY <2>1, <2>2, <2>3, <2>4, <2>5, <2>6, <2>7, IndexMoves
<1> QED BY <1>3, <1>4, LedgerMoves

\* What has been recorded stays so; and the indexes learn only what was.
LEMMA FactsAreTrueStep ==
    ASSUME TypeOK, HeldIsPinned, FactsAreTrue, [Next]_vars
    PROVE  FactsAreTrue' /\ \A k \in Command : Recorded(k) => Recorded(k)'
<1>0. CallTypes /\ StoreTypes /\ \A c \in Call : own[c] \in Index
  BY TypesInParts DEF CallTypes
<1>1. markers \subseteq markers'
  BY DEF Next, Serve, Look, Decide, AdmitCommand, RunCommand, Reading, vars, storeVars,
       Arrive, Check, AwaitFinal, LookupFinds, LookupNext, LookupFails, QueryUnknown, AwaitSession,
       Reject, Noop, Admit, AdmitInput, AdmitNoInput, AdmitFails, Execute, ExecuteFails, ExecuteNoop,
       CancelInput, Succeed, Fail, Load, LoadFails, LoadOwn, Promote, RemoveQueued, Ingest, EndCompact,
       RecordFact, Deactivate, Resume, SweepOnResume, Restart
<1>2. ASSUME NEW k \in Command, Recorded(k) PROVE Recorded(k)'
  BY <1>0, <1>1, <1>2, LedgerMoves DEF Recorded, Promote, StoreTypes
<1>3. ASSUME NEW k \in Command, held'[k] = "recording" PROVE k \in markers'
  <2>1. ASSUME NEW c \in Call, Execute(c) PROVE held[k] = "recording"
    BY <1>0, <1>3, <2>1 DEF Execute, StoreTypes
  <2>2. ASSUME NEW m \in Command,
               Promote(m) \/ RemoveQueued(m) \/ Ingest(m) \/ EndCompact(m) \/ RecordFact(m)
        PROVE  held[k] = "recording" \/ k \in markers'
    BY <1>0, <1>3, <2>2 DEF Promote, RemoveQueued, Ingest, EndCompact, RecordFact, StoreTypes
  <2> QED BY <1>0, <1>1, <1>3, <2>1, <2>2, HeldMoves DEF Restart, FactsAreTrue
<1> DEFINE A(k) == "accepted" \in index'.facts[k] => Recorded(k)'
           B(c) == \A k \in Command : "accepted" \in own'[c].facts[k] => Recorded(k)'
<1>4. (\A k \in Command : A(k)) /\ (\A c \in Call : B(c)) => FactsAreTrue'
  BY <1>3 DEF FactsAreTrue
<1>5. ASSUME index' \in {index, Ensured}, \A c \in Call : own'[c] = own[c] \/ own'[c] = Absent
      PROVE  FactsAreTrue'
  BY <1>2, <1>4, <1>5, EnsuredFacts DEF FactsAreTrue
<1>6. CASE Load
  <2>1. index' = Loaded(index) /\ index \in Index /\ own' = own
    BY <1>0, <1>6 DEF Load, StoreTypes, callVars
  <2> QED BY <1>2, <1>4, <2>1, LoadedFacts DEF FactsAreTrue
<1>7. CASE LoadFails
  <2>1. \A c \in Call : own'[c] = own[c] \/ own'[c].facts = index.facts
    BY <1>0, <1>7 DEF LoadFails, Detach, StoreTypes, Index
  <2>2. \A k \in Command : A(k)
    BY <1>7, EnsuredFacts DEF LoadFails, Detach
  <2> QED BY <1>2, <1>4, <2>1, <2>2 DEF FactsAreTrue
<1>8. CASE Restart
  <2>1. index' = Absent /\ \A c \in Call : own'[c] = Absent
    BY <1>8 DEF Restart
  <2> QED BY <1>2, <1>4, <2>1, EnsuredFacts
<1>9. ASSUME NEW c \in Call, LoadOwn(c) PROVE FactsAreTrue'
  <2>1. /\ index' = index
        /\ \/ own' = [own EXCEPT ![c] = Loaded(own[c])]
           \/ own' = [own EXCEPT ![c] = [own[c] EXCEPT !.state = "failed"]]
    BY <1>9 DEF LoadOwn
  <2>2. ASSUME NEW d \in Call
        PROVE  own'[d].facts = own[d].facts \/ (own'[d] = Loaded(own[d]) /\ own[d] \in Index)
    BY <1>0, <2>1 DEF CallTypes, Index
  <2>3. \A d \in Call : B(d)
    BY <1>2, <2>2, LoadedFacts DEF FactsAreTrue
  <2> QED BY <1>2, <1>4, <2>1, <2>3 DEF FactsAreTrue
<1>10. ASSUME NEW k \in Command, Ingest(k) PROVE FactsAreTrue'
  <2>1. index' = Absent /\ \A c \in Call : own'[c] \in {own[c], index}
    BY <1>10 DEF Ingest, Invalidate, Detach
  <2> QED BY <1>2, <1>4, <2>1, EnsuredFacts DEF FactsAreTrue
<1>11. ASSUME NEW k \in Command, RecordFact(k) PROVE FactsAreTrue'
  <2>1. k \in markers' /\ own' = own
    BY <1>1, <1>11 DEF RecordFact, FactsAreTrue, callVars
  <2>2. \A m \in Command : m # k => index'.facts[m] = index.facts[m]
    BY <1>0, <1>11 DEF RecordFact, StoreTypes, Index, Facts
  <2> QED BY <1>2, <1>4, <2>1, <2>2 DEF FactsAreTrue, Recorded
<1> HIDE DEF A, B
<1> QED BY <1>2, <1>5, <1>6, <1>7, <1>8, <1>9, <1>10, <1>11, IndexMoves

-----------------------------------------------------------------------------
(* What the tables remember, and whom a duplicate is reported to.           *)

\* A command that has been carried out, or found done, stays so.
LEMMA TakenStays ==
    ASSUME TypeOK, RepliesOnce, HeldIsPinned, FactsAreTrue, [Next]_vars, NEW k \in Command, Taken(k)
    PROVE  Taken(k)'
<1>0. asks' = asks /\ CallTypes /\ TableTypes
  BY TypesInParts, SameAsks
<1>1. Recorded(k) => Recorded(k)'
  BY FactsAreTrueStep
<1>2. ASSUME NEW d \in Call, pc[d] = "done" PROVE UNCHANGED <<reply[d], final[d]>>
  <2> USE DEF CallTypes, TableTypes
  <2>1. ASSUME NEW c \in Call, Arrive(c) \/ Check(c) \/ AwaitFinal(c) \/ Look(c) PROVE UNCHANGED <<reply[d], final[d]>>
    BY <1>0, <1>2, <2>1 DEF Arrive, Check, AwaitFinal, FoundNothing, FoundInFlight, FoundKnown, Look,
         LookupFinds, LookupNext, LookupFails, QueryUnknown, AwaitSession, LookingUp, NotFound,
         AnswerKnown, Answer, tableVars
  <2>2. ASSUME NEW c \in Call, Decide(c) \/ LoadOwn(c) \/ AdmitCommand(c) PROVE UNCHANGED <<reply[d], final[d]>>
    BY <1>0, <1>2, <2>2 DEF Decide, Reject, Noop, Admit, NotFound, Answer, LoadOwn, AdmitCommand,
         AdmitInput, AdmitNoInput, AdmitFails, tableVars
  <2>3. ASSUME NEW c \in Call, RunCommand(c) \/ CancelInput(c) \/ Succeed(c) \/ Fail(c) PROVE UNCHANGED <<reply[d], final[d]>>
    BY <1>0, <1>2, <2>3 DEF RunCommand, Execute, ExecuteFails, ExecuteNoop, CancelInput, Succeed,
         Fail, Settle, Answer, tableVars
  <2>4. ASSUME NEW m \in Command,
               Promote(m) \/ RemoveQueued(m) \/ Ingest(m) \/ EndCompact(m) \/ RecordFact(m)
        PROVE  UNCHANGED <<reply[d], final[d]>>
    BY <2>4 DEF Promote, RemoveQueued, Ingest, EndCompact, RecordFact, callVars, tableVars
  <2>5. CASE Reading \/ Deactivate \/ Resume \/ SweepOnResume \/ Restart \/ UNCHANGED vars
    BY <2>5 DEF Reading, Load, LoadFails, Deactivate, Resume, SweepOnResume, Restart, vars, callVars, tableVars
  <2> QED BY <2>1, <2>2, <2>3, <2>4, <2>5 DEF Next, Serve
<1>3. ASSUME NEW d \in Call, Key(d) = k, final[d] = "accepted" \/ reply[d] = "noop"
      PROVE  Taken(k)'
  <2>1. pc[d] = "done"
    BY <1>0, <1>3, NoneAssumption DEF RepliesOnce, Reply, Ack
  <2>2. final'[d] = "accepted" \/ reply'[d] = "noop"
    BY <1>2, <1>3, <2>1
  <2> QED BY <1>0, <1>3, <2>2 DEF Taken, Key
<1> QED BY <1>1, <1>3 DEF Taken, Recorded

\* What settles without having failed has been carried out, or found done.
LEMMA SettledIsTaken ==
    ASSUME TypeOK, [Next]_vars, NEW c \in Call, ExecuteNoop(c) \/ Succeed(c) \/ Noop(c),
           NEW k \in Command, Key(c) = k
    PROVE  Taken(k)'
<1>0. asks' = asks /\ CallTypes /\ TableTypes
  BY TypesInParts, SameAsks
<1>1. final'[c] = "accepted" \/ reply'[c] = "noop"
  BY <1>0 DEF ExecuteNoop, Succeed, Noop, Settle, Answer, CallTypes, TableTypes
<1> QED BY <1>0, <1>1 DEF Taken, Key

\* What the tables know of a command nobody executes, if it did not fail.
LEMMA KnownIsTaken ==
    ASSUME TypeOK, TablesAreTrue, NEW k \in Command, inFlight[k] = None,
           Known(k) # None, Known(k) # "failed"
    PROVE  Taken(k)
BY KnownFacts DEF TablesAreTrue, SettledAt

\* Which steps remember a settled command.
LEMMA SettledMoves ==
    ASSUME TypeOK, RepliesOnce, HeldIsPinned, FactsAreTrue, TablesAreTrue, [Next]_vars
    PROVE  \/ settled' = settled
           \/ settled' = <<>>
           \/ \E k \in Command : settled' = Unsettled(k)
           \/ \E k \in Command, ack \in Ack :
                 Remember(k, ack) /\ (ack # "failed" /\ inFlight'[k] = None => Taken(k)')
<1>0. asks' = asks /\ TableTypes /\ \A c \in Call : Key(c) \in Command
  BY TypesInParts, SameAsks, CommandOfCall
<1> DEFINE R == \E k \in Command, ack \in Ack :
                   Remember(k, ack) /\ (ack # "failed" /\ inFlight'[k] = None => Taken(k)')
<1>1. ASSUME NEW c \in Call, Check(c), NEW k \in Command, k = Key(c) PROVE settled' = settled \/ R
  <2>1. ASSUME inFlight[k] = None, Known(k) # None, Remember(k, Known(k)) PROVE R
    <3>1. Known(k) \in Ack
      BY <2>1, KnownFacts
    <3>2. Known(k) # "failed" => Taken(k)'
      BY <2>1, KnownIsTaken, TakenStays
    <3> QED BY <2>1, <3>1, <3>2
  <2> HIDE DEF R
  <2> QED BY <1>1, <2>1 DEF Check, FoundNothing, FoundInFlight, FoundKnown
<1>2. ASSUME NEW c \in Call, Noop(c) \/ ExecuteNoop(c), NEW k \in Command, k = Key(c) PROVE R
  <2>1. Taken(k)'
    BY <1>2, SettledIsTaken
  <2> QED BY <1>2, <2>1 DEF Noop, ExecuteNoop, Ack
<1>3. ASSUME NEW c \in Call, Succeed(c), NEW k \in Command, k = Key(c) PROVE settled' = settled \/ R
  <2>1. Taken(k)'
    BY <1>3, SettledIsTaken
  <2> QED BY <1>3, <2>1 DEF Succeed, Ack
<1>4. ASSUME NEW c \in Call, Fail(c) PROVE R
  <2>1. Remember(Key(c), "failed") /\ "failed" \in Ack
    BY <1>4 DEF Fail, Ack
  <2> QED BY <1>0, <2>1
<1>5. ASSUME NEW k \in Command, Ingest(k) PROVE settled' = settled \/ R
  <2>1. live[k] # None /\ inFlight'[k] = None => Taken(k)'
    BY <1>5, TakenStays DEF Ingest, TablesAreTrue
  <2> QED BY <1>0, <1>5, <2>1 DEF Ingest, Release, TableTypes
<1>6. ASSUME NEW c \in Call, AdmitInput(c) PROVE settled' = Unsettled(Key(c))
  BY <1>6 DEF AdmitInput
<1>7. ASSUME Deactivate \/ Restart PROVE settled' = <<>>
  BY <1>7 DEF Deactivate, Restart
<1> HIDE DEF R
<1>8. ASSUME NEW c \in Call, Arrive(c) \/ AwaitFinal(c) \/ Look(c) \/ Reject(c) \/ Admit(c) \/ LoadOwn(c)
      PROVE  settled' = settled
  BY <1>8 DEF Look, tableVars, Arrive, AwaitFinal, LookupFinds, LookupNext, LookupFails, QueryUnknown,
       AwaitSession, Reject, Admit, LoadOwn
<1>9. ASSUME NEW c \in Call,
             AdmitNoInput(c) \/ AdmitFails(c) \/ Execute(c) \/ ExecuteFails(c) \/ CancelInput(c)
      PROVE  settled' = settled
  BY <1>9 DEF tableVars, AdmitNoInput, AdmitFails, Execute, ExecuteFails, CancelInput
<1>10. ASSUME NEW k \in Command, Promote(k) \/ RemoveQueued(k) \/ EndCompact(k) \/ RecordFact(k)
       PROVE  settled' = settled
  BY <1>10 DEF tableVars, Promote, RemoveQueued, EndCompact, RecordFact
<1>11. ASSUME Reading \/ Resume \/ SweepOnResume \/ UNCHANGED vars PROVE settled' = settled
  BY <1>11 DEF Reading, Load, LoadFails, Resume, SweepOnResume, vars, tableVars
<1>12. ASSUME NEW c \in Call, Arrive(c) \/ Serve(c)
       PROVE  settled' = settled \/ R \/ \E k \in Command : settled' = Unsettled(k)
  BY <1>0, <1>1, <1>2, <1>3, <1>4, <1>6, <1>8, <1>9, <1>12
  DEF Serve, Decide, AdmitCommand, RunCommand
<1>13. \/ settled' = settled \/ settled' = <<>> \/ R
       \/ \E k \in Command : settled' = Unsettled(k)
  BY <1>5, <1>7, <1>10, <1>11, <1>12 DEF Next
<1> QED BY <1>13 DEF R

\* Which steps end the execution of a command, and how the tables know of it.
LEMMA Ended ==
    ASSUME TypeOK, InFlightExecutes, [Next]_vars, NEW k \in Command,
           inFlight[k] # None, inFlight'[k] = None
    PROVE  \/ Taken(k)'
           \/ Remember(k, "failed") /\ live'[k] = None
           \/ settled' = <<>> /\ live'[k] = None
<1>0. TableTypes /\ \A c \in Call : Key(c) \in Command
  BY TypesInParts, CommandOfCall
<1>1. CASE Restart
  BY <1>1 DEF Restart
<1>2. ASSUME NEW c \in Call, ExecuteNoop(c) \/ Succeed(c) \/ Fail(c) PROVE k = Key(c)
  BY <1>0, <1>2 DEF ExecuteNoop, Succeed, Fail, Settle, TableTypes
<1>3. ASSUME NEW c \in Call, ExecuteNoop(c) \/ Succeed(c) PROVE Taken(k)'
  BY <1>2, <1>3, SettledIsTaken
<1>4. ASSUME NEW c \in Call, Fail(c) PROVE Remember(k, "failed") /\ live'[k] = None
  BY <1>0, <1>2, <1>4 DEF Fail, TableTypes
<1>5. ASSUME NEW c \in Call, Admit(c) PROVE FALSE
  BY <1>0, <1>5, NoneAssumption DEF Admit, TableTypes
<1> QED
  BY <1>1, <1>3, <1>4, <1>5
  DEF Next, Serve, Look, Decide, AdmitCommand, RunCommand, Reading, vars, tableVars,
      Arrive, Check, AwaitFinal, LookupFinds, LookupNext, LookupFails, QueryUnknown, AwaitSession,
      Reject, Noop, AdmitInput, AdmitNoInput, AdmitFails, Execute, ExecuteFails, CancelInput,
      Load, LoadFails, LoadOwn, Promote, RemoveQueued, Ingest, EndCompact, RecordFact,
      Deactivate, Resume, SweepOnResume

\* Only an input that is about to be executed becomes live.
LEMMA LiveMoves ==
    ASSUME TypeOK, InFlightExecutes, [Next]_vars, NEW k \in Command, live'[k] # None
    PROVE  live[k] # None \/ (inFlight[k] # None /\ inFlight'[k] = inFlight[k])
<1>0. TableTypes /\ \A c \in Call : Key(c) \in Command
  BY TypesInParts, CommandOfCall
<1>1. ASSUME NEW c \in Call, AdmitInput(c) PROVE live[k] # None \/ (inFlight[k] # None /\ inFlight'[k] = inFlight[k])
  BY <1>0, <1>1, NoneAssumption DEF AdmitInput, InFlightExecutes, Executing, TableTypes
<1>2. ASSUME NEW c \in Call, ExecuteNoop(c) \/ Succeed(c) \/ Fail(c) PROVE live[k] # None
  BY <1>0, <1>2 DEF ExecuteNoop, Succeed, Fail, TableTypes
<1>3. ASSUME NEW m \in Command, Ingest(m) PROVE live[k] # None
  BY <1>0, <1>3 DEF Ingest, Release, TableTypes
<1>4. CASE Restart
  BY <1>4 DEF Restart
<1> QED
  BY <1>1, <1>2, <1>3, <1>4
  DEF Next, Serve, Look, Decide, AdmitCommand, RunCommand, Reading, vars, tableVars,
      Arrive, Check, AwaitFinal, LookupFinds, LookupNext, LookupFails, QueryUnknown, AwaitSession,
      Reject, Noop, Admit, AdmitNoInput, AdmitFails, Execute, ExecuteFails, CancelInput,
      Load, LoadFails, LoadOwn, Promote, RemoveQueued, EndCompact, RecordFact,
      Deactivate, Resume, SweepOnResume

\* The tables of settled and live commands stay true.
LEMMA TablesAreTrueStep ==
    ASSUME TypeOK, InFlightExecutes, RepliesOnce, HeldIsPinned, FactsAreTrue, TablesAreTrue, [Next]_vars
    PROVE  TablesAreTrue'
<1>0. TableTypes /\ \A i \in DOMAIN settled : settled[i].command \in Command
  <2>1. TableTypes
    BY TypesInParts
  <2>2. \A i \in DOMAIN settled : settled[i] \in Entry
    BY <2>1, LenProperties, ElementOfSeq DEF TableTypes
  <2> QED BY <2>1, <2>2 DEF Entry
<1>1. ASSUME NEW k \in Command, inFlight'[k] = None, live'[k] # None PROVE Taken(k)'
  <2>1. CASE inFlight[k] = None
    BY <1>1, <2>1, LiveMoves, TakenStays DEF TablesAreTrue
  <2>2. CASE inFlight[k] # None
    BY <1>1, <2>2, Ended
  <2> QED BY <2>1, <2>2
<1> DEFINE T(k) == \A i \in SettledAt(k)' : settled'[i].ack # "failed" /\ inFlight'[k] = None => Taken(k)'
<1>2. SettledOnce' /\ (\A k \in Command : T(k)) => TablesAreTrue'
  BY <1>1 DEF TablesAreTrue
\* An entry that was there says no more than before, unless its execution ends.
<1>3. ASSUME NEW k \in Command, NEW i \in SettledAt(k), settled[i].ack # "failed", inFlight'[k] = None
      PROVE  Taken(k)' \/ Remember(k, "failed") \/ settled' = <<>>
  <2>1. CASE inFlight[k] = None
    BY <1>3, <2>1, TakenStays DEF TablesAreTrue
  <2>2. CASE inFlight[k] # None
    BY <1>3, <2>2, Ended
  <2> QED BY <2>1, <2>2
<1>4. CASE settled' = <<>>
  <2>1. DOMAIN settled' = {}
    BY <1>4
  <2> QED BY <1>2, <2>1 DEF SettledOnce, SettledAt
<1>5. ASSUME NEW k \in Command, NEW i \in SettledAt(k)', settled'[i].ack # "failed", inFlight'[k] = None,
             NEW j \in DOMAIN settled, settled'[i] = settled[j]
      PROVE  Taken(k)'
  <2>1. j \in SettledAt(k) /\ settled[j].ack # "failed" /\ i \in DOMAIN settled' /\ settled'[i].command = k
    BY <1>5 DEF SettledAt
  <2>2. settled' # <<>>
    BY <2>1
  <2>3. ~Remember(k, "failed")
    <3>1. SUFFICES ASSUME Remember(k, "failed") PROVE FALSE
      OBVIOUS
    <3>2. "failed" \in Ack
      BY DEF Ack
    <3>3. settled'[i] = [command |-> k, ack |-> "failed"] \/ settled'[i].command # k
      BY <1>0, <2>1, <3>1, <3>2, RememberFacts DEF TableTypes, TablesAreTrue
    <3> QED BY <1>5, <2>1, <3>3
  <2> QED BY <1>3, <1>5, <2>1, <2>2, <2>3
<1>6. CASE settled' = settled
  <2>1. \A k \in Command : T(k)
    BY <1>5, <1>6 DEF SettledAt
  <2>2. SettledOnce'
    BY <1>6 DEF TablesAreTrue, SettledOnce
  <2> QED BY <1>2, <2>1, <2>2
<1>7. ASSUME NEW k \in Command, settled' = Unsettled(k) PROVE TablesAreTrue'
  <2>1. /\ \A j \in DOMAIN settled' : \E i \in DOMAIN settled : settled'[j] = settled[i]
        /\ SettledOnce'
    BY <1>0, <1>7, UnsettledFacts DEF TableTypes, TablesAreTrue, SettledOnce
  <2>2. \A m \in Command : T(m)
    BY <1>5, <2>1 DEF SettledAt
  <2> QED BY <1>2, <2>1, <2>2
<1>8. ASSUME NEW k \in Command, NEW ack \in Ack, Remember(k, ack),
             ack # "failed" /\ inFlight'[k] = None => Taken(k)'
      PROVE  TablesAreTrue'
  <2>1. /\ SettledOnce'
        /\ \A j \in DOMAIN settled' :
              \/ settled'[j] = [command |-> k, ack |-> ack]
              \/ /\ settled'[j].command # k
                 /\ \E i \in DOMAIN settled : settled'[j] = settled[i]
    BY <1>0, <1>8, RememberFacts DEF TableTypes, TablesAreTrue
  <2>2. ASSUME NEW m \in Command, NEW i \in SettledAt(m)', settled'[i].ack # "failed", inFlight'[m] = None
        PROVE  Taken(m)'
    <3>1. i \in DOMAIN settled' /\ settled'[i].command = m
      BY DEF SettledAt
    <3>2. CASE settled'[i] = [command |-> k, ack |-> ack]
      BY <1>8, <2>2, <3>1, <3>2
    <3>3. CASE \E j \in DOMAIN settled : settled'[i] = settled[j]
      BY <1>5, <2>2, <3>3
    <3> QED BY <2>1, <3>1, <3>2, <3>3
  <2> QED BY <1>2, <2>1, <2>2
<1> HIDE DEF T
<1> QED BY <1>4, <1>6, <1>7, <1>8, SettledMoves

\* Who is told of a duplicate found the command carried out: in flight and since
\* settled, among what is live or settled, or in the facts.
LEMMA DuplicateStep ==
    ASSUME TypeOK, RepliesOnce, HeldIsPinned, FactsAreTrue, TablesAreTrue, DuplicateIsTaken, [Next]_vars
    PROVE  DuplicateIsTaken'
<1>0. asks' = asks /\ CallTypes /\ TableTypes /\ \A c \in Call : Key(c) \in Command /\ Key(c)' = Key(c)
  BY TypesInParts, SameAsks, CommandOfCall DEF Key
<1> SUFFICES ASSUME NEW d \in Call, reply'[d] = "duplicate", NEW k \in Command, Key(d) = k
             PROVE  Taken(k)'
  <2>1. \A d \in Call : reply'[d] = "duplicate" => \A k \in Command : Key(d) = k => Taken(k)'
    OBVIOUS
  <2> QED BY <1>0, <2>1 DEF DuplicateIsTaken
<1>1. CASE reply[d] = "duplicate"
  BY <1>1, TakenStays DEF DuplicateIsTaken
<1>2. CASE reply[d] # "duplicate"
  <2> USE DEF CallTypes, TableTypes
  <2>1. ASSUME NEW c \in Call, NEW ack \in Ack, AnswerKnown(c, ack) PROVE c = d /\ ack # "failed"
    BY <1>0, <1>2, <2>1 DEF AnswerKnown, Answer, RetryAck, Ack
  <2>2. ASSUME NEW c \in Call, NEW ack, Answer(c, ack), ack # "duplicate" PROVE FALSE
    BY <1>0, <1>2, <2>2 DEF Answer
  <2>3. ASSUME NEW c \in Call, Check(c) PROVE Taken(k)'
    <3>1. CASE FoundKnown(c)
      <4>1. inFlight[Key(c)] = None /\ Known(Key(c)) \in Ack /\ c = d /\ Known(Key(c)) # "failed"
        BY <1>0, <2>1, <3>1, KnownFacts DEF FoundKnown
      <4>2. Known(k) # None /\ Known(k) # "failed" /\ inFlight[k] = None
        BY <3>1, <4>1 DEF FoundKnown
      <4> QED BY <4>2, KnownIsTaken, TakenStays
    <3>2. CASE ~FoundKnown(c)
      BY <1>2, <2>3, <3>2 DEF Check, FoundNothing, FoundInFlight
    <3> QED BY <3>1, <3>2
  <2>4. ASSUME NEW c \in Call, AwaitFinal(c) PROVE Taken(k)'
    <3>1. entry[c] \in Call /\ Key(entry[c]) = Key(c) /\ final[entry[c]] \in Ack
      BY <1>0, <2>4 DEF AwaitFinal, RepliesOnce
    <3>2. c = d /\ final[entry[c]] # "failed"
      BY <2>1, <2>4, <3>1 DEF AwaitFinal
    <3>3. Taken(k)
      BY <3>1, <3>2 DEF Taken, RepliesOnce, Ack
    <3> QED BY <3>3, TakenStays
  <2>5. ASSUME NEW c \in Call, LookupFinds(c) PROVE Taken(k)'
    <3>1. c = d /\ source[c] # 2
      BY <2>1, <2>5 DEF LookupFinds, Ack
    <3>2. "accepted" \in IndexOf(c).facts[k]
      BY <1>0, <2>5, <3>1 DEF LookupFinds, FoundAt, Sources
    <3>3. Taken(k)
      BY <3>2 DEF IndexOf, FactsAreTrue, Recorded, Taken
    <3> QED BY <3>3, TakenStays
  <2>6. ASSUME NEW c \in Call, LookupFails(c) \/ QueryUnknown(c) \/ Reject(c) \/ Noop(c) PROVE FALSE
    BY <2>2, <2>6 DEF LookupFails, QueryUnknown, Reject, Noop
  <2>7. ASSUME NEW c \in Call, ExecuteNoop(c) \/ Succeed(c) \/ Fail(c) PROVE FALSE
    BY <2>2, <2>7 DEF ExecuteNoop, Succeed, Fail, Settle
  <2>8. ASSUME NEW c \in Call, Arrive(c) \/ LookupNext(c) \/ AwaitSession(c) \/ Admit(c) \/ LoadOwn(c) PROVE FALSE
    BY <1>2, <2>8 DEF Arrive, LookupNext, AwaitSession, Admit, LoadOwn
  <2>9. ASSUME NEW c \in Call, AdmitCommand(c) \/ Execute(c) \/ ExecuteFails(c) \/ CancelInput(c) PROVE FALSE
    BY <1>2, <2>9 DEF AdmitCommand, AdmitInput, AdmitNoInput, AdmitFails, Execute, ExecuteFails, CancelInput
  <2>10. ASSUME NEW m \in Command,
               Promote(m) \/ RemoveQueued(m) \/ Ingest(m) \/ EndCompact(m) \/ RecordFact(m)
         PROVE  FALSE
    BY <1>2, <2>10 DEF Promote, RemoveQueued, Ingest, EndCompact, RecordFact, callVars
  <2>11. ASSUME Reading \/ Deactivate \/ Resume \/ SweepOnResume \/ Restart \/ UNCHANGED vars PROVE FALSE
    BY <1>2, <2>11 DEF Reading, Load, LoadFails, Deactivate, Resume, SweepOnResume, Restart, vars, callVars
  <2> HIDE DEF CallTypes, TableTypes
  <2> QED
    BY <2>3, <2>4, <2>5, <2>6, <2>7, <2>8, <2>9, <2>10, <2>11 DEF Next, Serve, Look, Decide, RunCommand
<1> QED BY <1>1, <1>2

\* The counter grows with each admission; it starts again when nothing is pinned.
LEMMA NumberedStep ==
    ASSUME TypeOK, InFlightExecutes, Numbered, [Next]_vars
    PROVE  Numbered'
<1>0. TableTypes /\ \A c \in Call : Key(c) \in Command
  BY TypesInParts, CommandOfCall
<1> USE DEF Pinned
<1>1. ASSUME NEW c \in Call, Admit(c) PROVE Numbered'
  BY <1>0, <1>1 DEF Admit, Numbered, TableTypes
<1>2. CASE Restart
  BY <1>2 DEF Restart, Numbered
<1>3. CASE Deactivate
  BY <1>3 DEF Deactivate, Numbered
<1>4. ASSUME UNCHANGED <<seqNo, seqOf>>, \A k \in Command : inFlight'[k] # None => inFlight[k] # None
      PROVE  Numbered'
  BY <1>4, LiveMoves DEF Numbered
<1>5. ASSUME NEW c \in Call, ExecuteNoop(c) \/ Succeed(c) \/ Fail(c) PROVE Numbered'
  BY <1>0, <1>4, <1>5 DEF ExecuteNoop, Succeed, Fail, Settle, TableTypes
<1>6. CASE UNCHANGED <<seqNo, seqOf, inFlight>>
  BY <1>4, <1>6
<1> QED
  BY <1>1, <1>2, <1>3, <1>5, <1>6
  DEF Next, Serve, Look, Decide, AdmitCommand, RunCommand, Reading, vars, tableVars,
      Arrive, Check, AwaitFinal, LookupFinds, LookupNext, LookupFails, QueryUnknown, AwaitSession,
      Reject, Noop, AdmitInput, AdmitNoInput, AdmitFails, Execute, ExecuteFails, CancelInput,
      Load, LoadFails, LoadOwn, Promote, RemoveQueued, Ingest, EndCompact, RecordFact,
      Resume, SweepOnResume

-----------------------------------------------------------------------------
(* The theorems.                                                            *)

\* At the beginning nothing is known and nobody calls.
LEMMA InitInv == Init => IInv
<1> SUFFICES ASSUME Init PROVE IInv
  OBVIOUS
<1> USE DEF Init
<1>1. TypeOK
  <2>1. Absent \in Index
    BY DEF Absent, Index, Facts, NoFacts
  <2>2. <<>> \in Seq(Entry) /\ Len(<<>>) <= SettledLimit
    BY EmptySeq, CommandInboxAssumption
  <2> QED BY <2>1, <2>2, CommandInboxAssumption DEF TypeOK, Reply, Entry
<1>2. \A c \in Call : Key(c) \in Command
  BY <1>1, CommandOfCall
<1>3. GatesHeld /\ InFlightExecutes /\ NothingKnown
  BY DEF GatesHeld, InFlightExecutes, NothingKnown, Executing, Deciding
<1>4. RepliesOnce
  BY NoneAssumption DEF RepliesOnce, Reply, Ack
<1>5. HeldIsPinned /\ PromotedOnce
  BY <1>2, CommandInboxAssumption DEF HeldIsPinned, PromotedOnce, NotYet, LookingUp
<1>6. IndexIsFresh /\ FactsAreTrue
  BY DEF IndexIsFresh, FactsAreTrue, Absent, NoFacts
<1>7. TablesAreTrue
  BY DEF TablesAreTrue, SettledOnce, SettledAt
<1>8. DuplicateIsTaken
  BY NoneAssumption DEF DuplicateIsTaken, Reply
<1>9. Numbered
  BY DEF Numbered, Pinned
<1> QED BY <1>1, <1>3, <1>4, <1>5, <1>6, <1>7, <1>8, <1>9 DEF IInv

\* Every step keeps the invariant.
LEMMA NextInv == IInv /\ [Next]_vars => IInv'
BY TypeStep, GatesStep, InFlightStep, RepliesStep, NothingKnownStep, HeldIsPinnedStep,
   PromotedOnceStep, IndexIsFreshStep, FactsAreTrueStep, TablesAreTrueStep, DuplicateStep, NumberedStep
   DEF IInv

\* Every reachable state satisfies the parts of the invariant together.
THEOREM InboxInvariance == Spec => []IInv
BY InitInv, NextInv, PTL DEF Spec

\* The state of the inbox, the index, the store and the runtime is well formed;
\* the table of settled commands never grows over its limit (command-inbox.ts:489).
THEOREM InboxTypeCorrect == Spec => []TypeOK
<1>1. IInv => TypeOK
  BY DEF IInv
<1> QED BY <1>1, InboxInvariance, PTL

\* One command of the session is executed at a time, by the call that the inbox
\* knows as the one in flight (command-inbox.ts:85, 302).
THEOREM OneCommandExecutes == Spec => []OneExecutes
<1>1. IInv => OneExecutes
  <2> SUFFICES ASSUME IInv PROVE OneExecutes
    OBVIOUS
  <2>1. GatesHeld /\ InFlightExecutes
    BY DEF IInv
  <2> QED BY <2>1, OneAtATime DEF OneExecutes, InFlightExecutes
<1> QED BY <1>1, InboxInvariance, PTL

\* What the runtime holds is pinned in the inbox, and its session stays loaded.
THEOREM HeldInputsArePinned == Spec => []PinnedWhileHeld
<1>1. IInv => PinnedWhileHeld
  BY CommandInboxAssumption DEF IInv, HeldIsPinned, PinnedWhileHeld, Input
<1> QED BY <1>1, InboxInvariance, PTL

\* An input enters the transcript at most once, over any number of retries,
\* evictions, unloads of the session and restarts.
THEOREM InputsTakeEffectOnce == Spec => []EffectsOnce
<1>1. IInv => EffectsOnce
  BY DEF IInv, PromotedOnce, EffectsOnce
<1> QED BY <1>1, InboxInvariance, PTL

\* Only what has been carried out or found done is reported as a duplicate.
THEOREM DuplicatesWereTaken == Spec => []DuplicateIsTaken
<1>1. IInv => DuplicateIsTaken
  BY DEF IInv
<1> QED BY <1>1, InboxInvariance, PTL

\* Two live inputs never have the same number, also when the counter restarts.
THEOREM LiveInputsAreOrdered == Spec => []LiveOrder
<1>1. IInv => LiveOrder
  BY CommandInboxAssumption DEF IInv, Numbered, LiveOrder, Pinned, Input
<1> QED BY <1>1, InboxInvariance, PTL

\* A query that answers unknown does so of a command that is not pinned and has
\* had no effect.
THEOREM UnknownAnswersAreTrue == Spec => UnknownIsUnknown
<1>1. IInv /\ [Next]_vars =>
        [\A q \in Query : reply'[q] = "unknown" /\ reply[q] # "unknown" =>
            ~Pinned(Key(q)) /\ (Key(q) \in Text => effects[Key(q)] = 0)]_vars
  <2> SUFFICES ASSUME IInv, [Next]_vars, NEW q \in Query, reply'[q] = "unknown", reply[q] # "unknown"
               PROVE  ~Pinned(Key(q)) /\ (Key(q) \in Text => effects[Key(q)] = 0)
    OBVIOUS
  <2>0. /\ TypeOK /\ CallTypes /\ TableTypes /\ NothingKnown /\ PromotedOnce /\ q \in Call /\ RepliesOnce
        /\ \A c \in Call : Key(c) \in Command
    BY TypesInParts, CommandOfCall DEF IInv, Query
  <2>1. ASSUME QueryUnknown(q) PROVE ~Pinned(Key(q)) /\ (Key(q) \in Text => effects[Key(q)] = 0)
    <3>1. Deciding(q) /\ NotYet(q)
      BY <2>1 DEF QueryUnknown, NotFound, Deciding, NotYet, LookingUp
    <3> QED BY <2>0, <3>1 DEF NothingKnown, PromotedOnce, Pinned
  <2> USE DEF CallTypes, TableTypes
  <2>2. ASSUME NEW c \in Call, NEW ack, Answer(c, ack), ack # "unknown" PROVE FALSE
    BY <2>0, <2>2 DEF Answer
  <2>3. ASSUME NEW c \in Call, NEW ack \in Ack, AnswerKnown(c, ack) PROVE FALSE
    <3>1. RetryAck(ack) # "unknown" /\ ack # "unknown"
      BY DEF RetryAck, Ack
    <3> QED BY <2>2, <2>3, <3>1 DEF AnswerKnown
  <2>4. ASSUME NEW c \in Call, Check(c) PROVE FALSE
    <3>1. CASE FoundKnown(c)
      BY <2>0, <2>3, <3>1, KnownFacts DEF FoundKnown
    <3>2. CASE ~FoundKnown(c)
      BY <2>4, <3>2 DEF Check, FoundNothing, FoundInFlight
    <3> QED BY <3>1, <3>2
  <2>5. ASSUME NEW c \in Call, AwaitFinal(c) \/ LookupFinds(c) PROVE FALSE
    <3>1. CASE AwaitFinal(c)
      <4>1. final[entry[c]] \in Ack
        BY <2>0, <3>1 DEF AwaitFinal, RepliesOnce
      <4> QED BY <2>3, <3>1, <4>1 DEF AwaitFinal
    <3>2. CASE LookupFinds(c)
      BY <2>3, <3>2 DEF LookupFinds, Ack
    <3> QED BY <2>5, <3>1, <3>2
  <2>6. ASSUME NEW c \in Call, QueryUnknown(c) PROVE c = q
    BY <2>0, <2>6 DEF QueryUnknown, Answer
  <2>7. ASSUME NEW c \in Call, LookupFails(c) \/ Reject(c) \/ Noop(c) PROVE FALSE
    BY <2>2, <2>7 DEF LookupFails, Reject, Noop
  <2>8. ASSUME NEW c \in Call, ExecuteNoop(c) \/ Succeed(c) \/ Fail(c) PROVE FALSE
    BY <2>2, <2>8 DEF ExecuteNoop, Succeed, Fail, Settle
  <2>9. ASSUME NEW c \in Call, Arrive(c) \/ LookupNext(c) \/ AwaitSession(c) \/ Admit(c) \/ LoadOwn(c) PROVE FALSE
    BY <2>9 DEF Arrive, LookupNext, AwaitSession, Admit, LoadOwn
  <2>10. ASSUME NEW c \in Call, AdmitCommand(c) \/ Execute(c) \/ ExecuteFails(c) \/ CancelInput(c) PROVE FALSE
    BY <2>10 DEF AdmitCommand, AdmitInput, AdmitNoInput, AdmitFails, Execute, ExecuteFails, CancelInput
  <2>11. ASSUME NEW m \in Command,
               Promote(m) \/ RemoveQueued(m) \/ Ingest(m) \/ EndCompact(m) \/ RecordFact(m)
         PROVE  FALSE
    BY <2>11 DEF Promote, RemoveQueued, Ingest, EndCompact, RecordFact, callVars
  <2>12. ASSUME Reading \/ Deactivate \/ Resume \/ SweepOnResume \/ Restart \/ UNCHANGED vars PROVE FALSE
    BY <2>12 DEF Reading, Load, LoadFails, Deactivate, Resume, SweepOnResume, Restart, vars, callVars
  <2> HIDE DEF CallTypes, TableTypes
  <2> QED
    BY <2>1, <2>4, <2>5, <2>6, <2>7, <2>8, <2>9, <2>10, <2>11, <2>12
    DEF Next, Serve, Look, Decide, RunCommand
<1> QED BY <1>1, InboxInvariance, PTL DEF Spec, UnknownIsUnknown
=============================================================================
