-------------------------- MODULE TopicDeliverySteps --------------------------
(***************************************************************************)
(* What the operations of the client's store, barrier and decoder do: what *)
(* they ask, what they keep, and what they show.                           *)
(***************************************************************************)
EXTENDS TopicDelivery, SelectionsProofs

\* From the client c to d nothing but its requests, and what it knows of them, changes:
\* what it asks comes after what it has asked, and new subscribes have new numbers.
Asked(c, d) ==
    /\ d.gen >= c.gen
    /\ Len(d.up) >= Len(c.up)
    /\ \A i \in 1..Len(c.up) : d.up[i] = c.up[i]
    /\ \A i \in 1..Len(d.up) : i > Len(c.up) /\ d.up[i].op = "subscribe" =>
         d.up[i].id > c.gen /\ d.up[i].id <= d.gen
    /\ \A i, j \in 1..Len(d.up) :
         i > Len(c.up) /\ i < j /\ d.up[i].op = "subscribe" /\ d.up[j].op = "subscribe" =>
           d.up[i].id # d.up[j].id

\* What it shows, and of which subscription, stays, and no frame is forgotten.
Kept(c, d) ==
    /\ ClientOK(d) /\ Asked(c, d)
    /\ d.sub = c.sub /\ d.staged = c.staged /\ d.view = c.view
    /\ d.dec.settled >= c.dec.settled

\* What is asked in one step and in the next is asked in the two together.
LEMMA AskedOnAndOn ==
    ASSUME NEW c, NEW d, NEW e, ClientOK(c), ClientOK(d), ClientOK(e), Asked(c, d), Asked(d, e)
    PROVE  Asked(c, e)
<1>1. c.up \in Seq(Requests) /\ d.up \in Seq(Requests) /\ e.up \in Seq(Requests)
      /\ c.gen \in Nat /\ d.gen \in Nat /\ e.gen \in Nat
  BY DEF ClientOK, Clients
<1>2. Len(c.up) \in Nat /\ Len(d.up) \in Nat /\ Len(e.up) \in Nat
  BY <1>1
<1>2a. \A i \in 1..Len(e.up) : e.up[i].id \in Nat
  <2>1. \A i \in 1..Len(e.up) : e.up[i] \in Requests
    BY <1>1
  <2> QED BY <2>1 DEF Requests
<1>3. e.gen >= c.gen /\ Len(e.up) >= Len(c.up) /\ \A i \in 1..Len(c.up) : e.up[i] = c.up[i]
  BY <1>1, <1>2 DEF Asked
<1>4. \A i \in 1..Len(e.up) : i > Len(c.up) /\ e.up[i].op = "subscribe" =>
         e.up[i].id > c.gen /\ e.up[i].id <= e.gen
  <2> SUFFICES ASSUME NEW i \in 1..Len(e.up), i > Len(c.up), e.up[i].op = "subscribe"
               PROVE  e.up[i].id > c.gen /\ e.up[i].id <= e.gen
    OBVIOUS
  <2>0. e.up[i].id \in Nat /\ d.gen >= c.gen /\ e.gen >= d.gen
    BY <1>2a DEF Asked
  <2>1. CASE i <= Len(d.up)
    <3>1. i \in 1..Len(d.up) /\ e.up[i] = d.up[i]
      BY <2>1, <1>2 DEF Asked
    <3>2. d.up[i].id > c.gen /\ d.up[i].id <= d.gen
      BY <3>1 DEF Asked
    <3> QED BY <3>1, <3>2, <2>0, <1>1
  <2>2. CASE i > Len(d.up)
    <3>1. e.up[i].id > d.gen /\ e.up[i].id <= e.gen
      BY <2>2 DEF Asked
    <3> QED BY <3>1, <2>0, <1>1
  <2> QED BY <2>1, <2>2, <1>2
<1>5. \A i, j \in 1..Len(e.up) :
         i > Len(c.up) /\ i < j /\ e.up[i].op = "subscribe" /\ e.up[j].op = "subscribe" =>
           e.up[i].id # e.up[j].id
  <2> SUFFICES ASSUME NEW i \in 1..Len(e.up), NEW j \in 1..Len(e.up), i > Len(c.up), i < j,
                      e.up[i].op = "subscribe", e.up[j].op = "subscribe"
               PROVE  e.up[i].id # e.up[j].id
    OBVIOUS
  <2>1. CASE j <= Len(d.up)
    <3>1. i \in 1..Len(d.up) /\ j \in 1..Len(d.up)
      BY <2>1, <1>2
    <3>2. e.up[i] = d.up[i] /\ e.up[j] = d.up[j]
      BY <3>1 DEF Asked
    <3> QED BY <3>1, <3>2 DEF Asked
  <2>2. CASE i <= Len(d.up) /\ j > Len(d.up)
    <3>1. i \in 1..Len(d.up) /\ e.up[i] = d.up[i]
      BY <2>2, <1>2 DEF Asked
    <3>2. e.up[i].id <= d.gen
      BY <3>1 DEF Asked
    <3>3. e.up[j].id > d.gen
      BY <2>2 DEF Asked
    <3> QED BY <3>2, <3>3, <1>1, <1>2a
  <2>3. CASE i > Len(d.up)
    BY <2>3 DEF Asked
  <2> QED BY <2>1, <2>2, <2>3, <1>2
<1> QED BY <1>3, <1>4, <1>5 DEF Asked

\* What two steps keep, the two together keep.
LEMMA KeptOnAndOn ==
    ASSUME NEW c, NEW d, NEW e, ClientOK(c), Kept(c, d), Kept(d, e)
    PROVE  Kept(c, e)
<1>1. c.dec.settled \in Nat /\ d.dec.settled \in Nat /\ e.dec.settled \in Nat
  BY DEF Kept, ClientOK, Clients, Decoders
<1> QED BY <1>1, AskedOnAndOn DEF Kept

\* A step that does nothing keeps everything.
LEMMA KeptAtFirst == ASSUME NEW c, ClientOK(c) PROVE Kept(c, c)
<1>1. c.up \in Seq(Requests) /\ c.gen \in Nat /\ c.dec.settled \in Nat
  BY DEF ClientOK, Clients, Decoders
<1>2. Len(c.up) \in Nat
  BY <1>1
<1> QED BY <1>1, <1>2 DEF Kept, Asked

\* One more request; a subscribe has the number of a new generation.
LEMMA AskedOnce ==
    ASSUME NEW c, ClientOK(c), NEW d, d.gen \in Nat, d.gen >= c.gen,
           NEW m \in Requests, d.up = Append(c.up, m),
           m.op = "subscribe" => m.id > c.gen /\ m.id <= d.gen
    PROVE  d.up \in Seq(Requests) /\ Asked(c, d)
<1>1. c.up \in Seq(Requests) /\ c.gen \in Nat
  BY DEF ClientOK, Clients
<1>2. Len(c.up) \in Nat /\ Len(d.up) = Len(c.up) + 1 /\ d.up \in Seq(Requests)
      /\ d.up[Len(c.up) + 1] = m /\ \A i \in 1..Len(c.up) : d.up[i] = c.up[i]
  BY <1>1
<1>3. \A i \in 1..Len(d.up) : i > Len(c.up) => i = Len(c.up) + 1
  BY <1>2
<1> QED BY <1>2, <1>3 DEF Asked

\* A client with another generation, another flight or another decoder.
LEMMA AnotherFlight ==
    ASSUME NEW c, ClientOK(c), c.sub # 0, NEW f \in Flights \cup {None}, NEW d,
           d = [c EXCEPT !.flight = f]
    PROVE  Kept(c, d)
<1>1. d \in Clients
  BY DEF ClientOK, Clients
<1>2. d.gen = c.gen /\ d.up = c.up /\ d.sub = c.sub /\ d.staged = c.staged /\ d.view = c.view
      /\ d.dec = c.dec /\ d.pending = c.pending /\ d.applied = c.applied
      /\ d.awaiting = c.awaiting
  BY DEF ClientOK, Clients
<1>3. Kept(c, c)
  BY KeptAtFirst
<1> QED BY <1>1, <1>2, <1>3 DEF ClientOK, Kept, Asked

\* ConversationProjectionStore.connect asks one thing, under a new generation.
LEMMA ConnectKeeps ==
    ASSUME NEW c, ClientOK(c), NEW force \in BOOLEAN
    PROVE  Kept(c, Connect(c, force))
<1> DEFINE base == IF force THEN None ELSE Base(c)
           m == [op |-> "subscribe", id |-> c.gen + 1, sub |-> 0, base |-> base, force |-> force]
           d == Connect(c, force)
<1>1. c.gen \in Nat /\ c.up \in Seq(Requests) /\ c.view \in Views \cup {None}
      /\ c.pending \subseteq 1..c.gen /\ c.dec \in Decoders
  BY DEF ClientOK, Clients
<1>2. base \in Bases \cup {None}
  BY <1>1, NoneAssumption DEF Base, Bases, Views
<1>3. m \in Requests
  BY <1>1, <1>2 DEF Requests
<1>4. /\ d.gen = c.gen + 1 /\ d.up = Append(c.up, m) /\ d.sub = c.sub /\ d.staged = c.staged
      /\ d.view = c.view /\ d.dec = c.dec /\ d.flight = None /\ d.applied = c.applied
      /\ d.awaiting = c.awaiting /\ d.pending = c.pending \cup {c.gen + 1}
  BY DEF ClientOK, Clients, Connect
<1>5. d.up \in Seq(Requests) /\ Asked(c, d)
  <2>1. d.gen \in Nat /\ d.gen >= c.gen /\ m.id > c.gen /\ m.id <= d.gen
    BY <1>1, <1>4
  <2> HIDE DEF m, d
  <2> QED BY <2>1, <1>3, <1>4, AskedOnce
<1>6. d.pending \subseteq 1..d.gen /\ d.pending # {}
  BY <1>1, <1>4
<1>7. d \in Clients
  <2>1. d = [c EXCEPT !.gen = d.gen, !.flight = None, !.status = "connecting",
                      !.pending = d.pending, !.up = d.up]
    BY DEF Connect, ClientOK, Clients
  <2>2. d.gen \in Nat /\ d.pending \in SUBSET Nat
    BY <1>1, <1>4
  <2> HIDE DEF d, m
  <2> QED BY <2>1, <2>2, <1>5 DEF ClientOK, Clients
<1> HIDE DEF d, m
<1>8. ClientOK(d)
  BY <1>4, <1>6, <1>7 DEF ClientOK
<1>9. d.dec.settled >= c.dec.settled
  BY <1>1, <1>4 DEF Decoders
<1>10. Kept(c, d)
  BY <1>4, <1>5, <1>8, <1>9 DEF Kept
<1> QED BY <1>10 DEF d

\* What is in assembly is given up; its tombstone keeps the ordinal.
LEMMA AbortKeeps ==
    ASSUME NEW d \in Decoders, d.ord # 0 => d.ord > d.settled
    PROVE  /\ Abort(d) \in Decoders /\ Abort(d).ord = 0 /\ Abort(d).settled >= d.settled
           /\ Abort(d).settled >= d.ord /\ Abort(d).closed = d.closed
           /\ Opened(d) \in Decoders /\ Opened(d).ord = 0 /\ Opened(d).settled >= d.settled
           /\ Opened(d).settled >= d.ord
           /\ Closed(d) \in Decoders /\ Closed(d).ord = 0 /\ Closed(d).settled >= d.settled
           /\ Closed(d).settled >= d.ord
<1>1. d.ord \in Nat /\ d.settled \in Nat
  BY DEF Decoders
<1>2. Abort(d) \in Decoders /\ Abort(d).ord = 0 /\ Abort(d).settled >= d.settled
      /\ Abort(d).settled >= d.ord /\ Abort(d).closed = d.closed
  <2>1. CASE d.ord = 0
    BY <2>1, <1>1 DEF Abort
  <2>2. CASE d.ord # 0
    <3>1. Abort(d) = [d EXCEPT !.ord = 0, !.use = "online", !.parts = {}, !.settled = d.ord]
      BY <2>2 DEF Abort, Release
    <3>2. Abort(d) \in Decoders
      <4>1. Abort(d) = [ord |-> 0, use |-> "online", parts |-> {}, settled |-> d.ord,
                        closed |-> d.closed]
        BY <3>1 DEF Decoders
      <4> QED BY <4>1, <1>1 DEF Decoders
    <3>3. Abort(d).ord = 0 /\ Abort(d).settled = d.ord /\ Abort(d).closed = d.closed
      BY <3>1 DEF Decoders
    <3> QED BY <3>2, <3>3, <2>2, <1>1
  <2> QED BY <2>1, <2>2
<1> DEFINE a == Abort(d)
<1>3. Opened(d) = [a EXCEPT !.closed = FALSE] /\ Closed(d) = [a EXCEPT !.closed = TRUE]
  BY DEF Opened, Closed
<1> HIDE DEF a
<1>4. a \in Decoders /\ a.ord = 0 /\ a.settled >= d.settled /\ a.settled >= d.ord
  BY <1>2 DEF a
<1>5. Opened(d) \in Decoders /\ Opened(d).ord = 0 /\ Opened(d).settled >= d.settled
      /\ Opened(d).settled >= d.ord
  BY <1>3, <1>4 DEF Decoders
<1>6. Closed(d) \in Decoders /\ Closed(d).ord = 0 /\ Closed(d).settled >= d.settled
      /\ Closed(d).settled >= d.ord
  BY <1>3, <1>4 DEF Decoders
<1> QED BY <1>2, <1>5, <1>6

\* A decoder that has forgotten nothing may take the place of another.
LEMMA AnotherDecoder ==
    ASSUME NEW c, ClientOK(c), NEW d \in Decoders, d.settled >= c.dec.settled,
           d.ord # 0 => d.ord > d.settled /\ ~d.closed,
           NEW e, e = [c EXCEPT !.dec = d]
    PROVE  Kept(c, e) /\ e.dec = d /\ e.flight = c.flight
<1>1. e \in Clients
  BY DEF ClientOK, Clients
<1>2. e.gen = c.gen /\ e.up = c.up /\ e.sub = c.sub /\ e.staged = c.staged /\ e.view = c.view
      /\ e.dec = d /\ e.pending = c.pending /\ e.applied = c.applied
      /\ e.awaiting = c.awaiting /\ e.flight = c.flight
  BY DEF ClientOK, Clients
<1>3. Kept(c, c)
  BY KeptAtFirst
<1> QED BY <1>1, <1>2, <1>3 DEF ClientOK, Kept, Asked

\* Opening and closing the decoder's gate leave the settled frames settled.
LEMMA OpenedKeeps ==
    ASSUME NEW c, ClientOK(c)
    PROVE  /\ Kept(c, [c EXCEPT !.dec = Opened(c.dec)])
           /\ Kept(c, [c EXCEPT !.dec = Closed(c.dec)])
<1>1. c.dec \in Decoders /\ (c.dec.ord # 0 => c.dec.ord > c.dec.settled)
  BY DEF ClientOK, Clients
<1>2. /\ Opened(c.dec) \in Decoders /\ Opened(c.dec).ord = 0
      /\ Opened(c.dec).settled >= c.dec.settled
      /\ Closed(c.dec) \in Decoders /\ Closed(c.dec).ord = 0
      /\ Closed(c.dec).settled >= c.dec.settled
  BY <1>1, AbortKeeps
<1> QED BY <1>2, AnotherDecoder

\* The store may stop waiting for the initial frame.
LEMMA AwaitingKeeps ==
    ASSUME NEW c, ClientOK(c), NEW b
    PROVE  Kept(c, [c EXCEPT !.awaiting = c.awaiting /\ b])
<1> DEFINE e == [c EXCEPT !.awaiting = c.awaiting /\ b]
<1>0. (c.awaiting /\ b) \in BOOLEAN
  OBVIOUS
<1>1. e \in Clients
  BY <1>0 DEF ClientOK, Clients
<1>2. e.gen = c.gen /\ e.up = c.up /\ e.sub = c.sub /\ e.staged = c.staged /\ e.view = c.view
      /\ e.dec = c.dec /\ e.pending = c.pending /\ e.applied = c.applied
      /\ e.flight = c.flight /\ (e.awaiting => c.awaiting)
  BY <1>0 DEF ClientOK, Clients
<1> HIDE DEF e
<1>3. Kept(c, c)
  BY KeptAtFirst
<1>4. Kept(c, e)
  BY <1>1, <1>2, <1>3 DEF ClientOK, Kept, Asked
<1> QED BY <1>4 DEF e

\* A resync request changes the recovery, opens the gate and asks once.
LEMMA IssueKeeps ==
    ASSUME NEW c, ClientOK(c), c.flight # None, NEW force \in BOOLEAN
    PROVE  Kept(c, Issue(c, force))
<1> DEFINE snapshot == force \/ ~c.applied
           base == IF c.applied THEN Base(c) ELSE None
           m == [op |-> "resync", id |-> c.flight.id, sub |-> c.sub, base |-> base,
                 force |-> snapshot]
           f == [c.flight EXCEPT !.acked = FALSE, !.seen = FALSE, !.gap = FALSE,
                                 !.upgrade = FALSE, !.mode = None, !.force = snapshot]
           g == [c EXCEPT !.flight = f]
           o == [g EXCEPT !.dec = Opened(g.dec)]
           d == Issue(c, force)
<1>1. /\ c.flight \in Flights /\ c.sub \in Nat \ {0} /\ c.applied \in BOOLEAN
      /\ c.view \in Views \cup {None} /\ c.up \in Seq(Requests) /\ c.gen \in Nat
  BY DEF ClientOK, Clients
<1>2. snapshot \in BOOLEAN
  BY <1>1
<1>3. f \in Flights
  BY <1>1, <1>2 DEF Flights, Modes
<1>4. Kept(c, g)
  <2> HIDE DEF f
  <2> QED BY <1>1, <1>3, AnotherFlight
<1>5. Kept(g, o)
  <2>1. ClientOK(g)
    BY <1>4 DEF Kept
  <2> HIDE DEF g
  <2> QED BY <2>1, OpenedKeeps
<1>6. ClientOK(o) /\ Kept(c, o)
  <2> HIDE DEF g, o
  <2> QED BY <1>4, <1>5, KeptOnAndOn DEF Kept
<1>7. base \in Bases \cup {None}
  BY <1>1, NoneAssumption DEF Base, Bases, Views
<1>8. m \in Requests
  <2> HIDE DEF base, snapshot
  <2> QED BY <1>1, <1>2, <1>7 DEF Requests, Flights
<1>9. d = [o EXCEPT !.up = Append(o.up, m)]
  BY DEF Issue, ClientOK, Clients
<1>9a. o.gen = c.gen
  BY DEF ClientOK, Clients
<1> HIDE DEF o, d, m
<1>10. o \in Clients /\ o.gen \in Nat
  BY <1>6 DEF ClientOK, Clients
<1>11. /\ d.up = Append(o.up, m) /\ d.gen = o.gen /\ d.sub = o.sub /\ d.staged = o.staged
       /\ d.view = o.view /\ d.dec = o.dec /\ d.flight = o.flight /\ d.applied = o.applied
       /\ d.awaiting = o.awaiting /\ d.pending = o.pending
  BY <1>9, <1>10 DEF Clients
<1>12. d.up \in Seq(Requests) /\ Asked(o, d)
  <2>1. m.op # "subscribe" /\ d.gen \in Nat /\ d.gen >= o.gen
    BY <1>10, <1>11 DEF m
  <2> QED BY <2>1, <1>6, <1>8, <1>11, AskedOnce
<1>13. d \in Clients
  <2>1. d = [o EXCEPT !.up = d.up]
    BY <1>9, <1>11
  <2> QED BY <2>1, <1>10, <1>12 DEF Clients
<1>14. ClientOK(d)
  BY <1>6, <1>11, <1>13 DEF ClientOK
<1>15. Kept(o, d)
  <2>1. o.dec.settled \in Nat
    BY <1>10 DEF Clients, Decoders
  <2> QED BY <2>1, <1>11, <1>12, <1>14 DEF Kept
<1>16. Kept(c, d)
  BY <1>6, <1>15, KeptOnAndOn
<1> QED BY <1>16 DEF d

\* A recovery that fails shows nothing and asks nothing.
LEMMA FailKeeps ==
    ASSUME NEW c, ClientOK(c)
    PROVE  Kept(c, Fail(c))
<1> DEFINE d == Fail(c)
<1>1. d \in Clients
  BY DEF Fail, ClientOK, Clients
<1>2. d.gen = c.gen /\ d.up = c.up /\ d.sub = c.sub /\ d.staged = c.staged /\ d.view = c.view
      /\ d.dec = c.dec /\ d.pending = c.pending /\ d.applied = c.applied
      /\ d.awaiting = c.awaiting /\ d.flight = None
  BY DEF Fail, ClientOK, Clients
<1> HIDE DEF d
<1>3. Kept(c, c)
  BY KeptAtFirst
<1>4. Kept(c, d)
  BY <1>1, <1>2, <1>3 DEF ClientOK, Kept, Asked
<1> QED BY <1>4 DEF d

\* A recovery that begins has asked nothing yet.
LEMMA NewFlightKeeps ==
    ASSUME NEW c, ClientOK(c), c.sub # 0
    PROVE  Kept(c, NewFlight(c)) /\ NewFlight(c).flight # None
<1> DEFINE f == [id |-> c.flights + 1, acked |-> FALSE, mode |-> None, seen |-> FALSE,
                 upgrade |-> FALSE, force |-> FALSE, gap |-> FALSE]
           d == NewFlight(c)
<1>1. c.flights + 1 \in Nat
  BY DEF ClientOK, Clients
<1>2. f \in Flights /\ f # None
  <2>1. f \in Flights
    BY <1>1 DEF Flights, Modes
  <2> QED BY <2>1, NoneAssumption
<1>3. d = [c EXCEPT !.flights = c.flights + 1, !.flight = f]
  BY DEF NewFlight, ClientOK, Clients
<1> HIDE DEF d, f
<1>4. d \in Clients
  BY <1>1, <1>2, <1>3 DEF ClientOK, Clients
<1>5. d.gen = c.gen /\ d.up = c.up /\ d.sub = c.sub /\ d.staged = c.staged /\ d.view = c.view
      /\ d.dec = c.dec /\ d.pending = c.pending /\ d.applied = c.applied
      /\ d.awaiting = c.awaiting /\ d.flight = f
  BY <1>3 DEF ClientOK, Clients
<1>6. Kept(c, c)
  BY KeptAtFirst
<1>7. Kept(c, d)
  BY <1>4, <1>5, <1>6 DEF ClientOK, Kept, Asked
<1> QED BY <1>2, <1>5, <1>7 DEF d

\* Whatever requestRecovery decides, what is shown stays.
LEMMA RequestRecoveryKeeps ==
    ASSUME NEW c, ClientOK(c), NEW again \in BOOLEAN, NEW content \in BOOLEAN
    PROVE  Kept(c, RequestRecovery(c, again, content))
<1> DEFINE d == RequestRecovery(c, again, content)
<1>0. c.flight \in Flights \cup {None}
  BY DEF ClientOK, Clients
<1>1. CASE c.sub = 0
  BY <1>1, ConnectKeeps DEF RequestRecovery
<1>2. CASE c.sub # 0 /\ c.flight = None
  <2>1. Kept(c, NewFlight(c)) /\ NewFlight(c).flight # None
    BY <1>2, NewFlightKeeps
  <2>2. Kept(NewFlight(c), Issue(NewFlight(c), content))
    BY <2>1, IssueKeeps DEF Kept
  <2>3. d = Issue(NewFlight(c), content)
    BY <1>2 DEF RequestRecovery
  <2> HIDE DEF d
  <2>4. Kept(c, d)
    BY <2>1, <2>2, <2>3, KeptOnAndOn
  <2> QED BY <2>4 DEF d
<1>3. CASE c.sub # 0 /\ c.flight # None /\ again /\ ~c.flight.force /\ ~c.flight.acked
  <2>1. d = [c EXCEPT !.flight = [c.flight EXCEPT !.upgrade = TRUE]]
    BY <1>3 DEF RequestRecovery, ClientOK, Clients
  <2>2. [c.flight EXCEPT !.upgrade = TRUE] \in Flights
    BY <1>0, <1>3 DEF Flights
  <2> HIDE DEF d
  <2>3. Kept(c, d)
    BY <2>1, <2>2, <1>3, AnotherFlight
  <2> QED BY <2>3 DEF d
<1>4. CASE c.sub # 0 /\ c.flight # None /\ ~again
  BY <1>4, KeptAtFirst DEF RequestRecovery
<1>5. CASE c.sub # 0 /\ c.flight # None /\ again /\ (c.flight.force \/ c.flight.acked)
  <2>1. d \in {Fail(c), Issue(c, TRUE)}
    BY <1>5 DEF RequestRecovery
  <2>2. Kept(c, Fail(c)) /\ Kept(c, Issue(c, TRUE))
    BY <1>5, FailKeeps, IssueKeeps
  <2> QED BY <2>1, <2>2
<1> QED BY <1>1, <1>2, <1>3, <1>4, <1>5

\* Whatever settleFlight decides, what is shown stays.
LEMMA SettleKeeps ==
    ASSUME NEW c, ClientOK(c), c.flight # None
    PROVE  Kept(c, Settle(c))
<1>0. c.sub # 0
  BY DEF ClientOK
<1>1. Settle(c) \in {c, Fail(c), Issue(c, TRUE), Issue(c, FALSE), [c EXCEPT !.flight = None]}
  BY DEF Settle
<1>2. Kept(c, c) /\ Kept(c, Fail(c)) /\ Kept(c, Issue(c, TRUE)) /\ Kept(c, Issue(c, FALSE))
      /\ Kept(c, [c EXCEPT !.flight = None])
  BY <1>0, KeptAtFirst, FailKeeps, IssueKeeps, AnotherFlight
<1> QED BY <1>1, <1>2

\* So does the frame of a recovery, once it has been applied.
LEMMA RecoverySeenKeeps ==
    ASSUME NEW c, ClientOK(c), NEW f
    PROVE  Kept(c, RecoverySeen(c, f))
<1>1. CASE f.use # "recovery" \/ c.flight = None
  BY <1>1, KeptAtFirst DEF RecoverySeen
<1>2. CASE f.use = "recovery" /\ c.flight # None
  <2> DEFINE g == [c EXCEPT !.flight.seen = TRUE]
  <2>1. c.flight \in Flights /\ c.sub # 0
    BY <1>2 DEF ClientOK, Clients
  <2>2. [c.flight EXCEPT !.seen = TRUE] \in Flights /\ [c.flight EXCEPT !.seen = TRUE] # None
    BY <2>1, NoneAssumption DEF Flights
  <2>3. g = [c EXCEPT !.flight = [c.flight EXCEPT !.seen = TRUE]]
        /\ g.flight = [c.flight EXCEPT !.seen = TRUE]
    BY DEF ClientOK, Clients
  <2>4. RecoverySeen(c, f) = Settle(g)
    BY <1>2 DEF RecoverySeen
  <2> HIDE DEF g
  <2>5. Kept(c, g)
    BY <2>1, <2>2, <2>3, AnotherFlight
  <2>6. Kept(g, Settle(g))
    BY <2>2, <2>3, <2>5, SettleKeeps DEF Kept
  <2> QED BY <2>4, <2>5, <2>6, KeptOnAndOn
<1> QED BY <1>1, <1>2

\* An online frame beside a recovery is noted, and not shown.
LEMMA BesideKeeps ==
    ASSUME NEW c, ClientOK(c), c.flight # None
    PROVE  Kept(c, Beside(c))
<1>1. c.flight \in Flights /\ c.sub # 0
  BY DEF ClientOK, Clients
<1>2. [c.flight EXCEPT !.gap = c.flight.gap \/ c.flight.seen] \in Flights
  BY <1>1 DEF Flights
<1>3. Beside(c) = [c EXCEPT !.flight = [c.flight EXCEPT !.gap = c.flight.gap \/ c.flight.seen]]
  BY <1>1 DEF Beside, ClientOK, Clients, Flights
<1> QED BY <1>1, <1>2, <1>3, AnotherFlight

\* A fault of the decoder shows nothing.
LEMMA HandleFaultKeeps ==
    ASSUME NEW c, ClientOK(c), NEW use, NEW content \in BOOLEAN
    PROVE  Kept(c, HandleFault(c, use, content))
<1> DEFINE a == [c EXCEPT !.awaiting = c.awaiting /\ use = "online"]
           again == (use = "recovery")
           d == HandleFault(c, use, content)
<1>1. Kept(c, a) /\ ClientOK(a)
  BY AwaitingKeeps DEF Kept
<1>2. a.flight = c.flight
  BY DEF ClientOK, Clients
<1>3. \/ d = RequestRecovery(a, TRUE, TRUE)
      \/ a.flight # None /\ d = Beside(a)
      \/ d = RequestRecovery(a, again, FALSE)
  BY DEF HandleFault
<1>4. again \in BOOLEAN
  OBVIOUS
<1> HIDE DEF a, d, again
<1>5. Kept(a, d)
  BY <1>1, <1>3, <1>4, RequestRecoveryKeeps, BesideKeeps
<1>6. Kept(c, d)
  BY <1>1, <1>5, KeptOnAndOn
<1> QED BY <1>6 DEF d

-----------------------------------------------------------------------------
(* What shows something. *)

\* The frame f takes what is shown from v to w.
Shown(v, f, w) ==
    \/ f.kind = "snapshot" /\ w = [seq |-> f.to, rows |-> f.rows, num |-> f.num]
    \/ /\ f.kind = "deltas" /\ v # None /\ f.from = v.seq /\ f.to > v.seq
       /\ w = [seq |-> f.to, rows |-> v.rows \o f.rows, num |-> v.num]

\* From c to d the frame f may have been shown.
Took(c, f, d) ==
    /\ ClientOK(d) /\ Asked(c, d)
    /\ d.sub = c.sub /\ d.staged = c.staged
    /\ d.dec.settled >= c.dec.settled
    /\ (d.view = c.view \/ Shown(c.view, f, d.view))

\* A frame may be shown after a step that shows nothing,
LEMMA KeptThenTook ==
    ASSUME NEW c, NEW d, NEW e, NEW f, ClientOK(c), Kept(c, d), Took(d, f, e)
    PROVE  Took(c, f, e)
<1>1. c.dec.settled \in Nat /\ d.dec.settled \in Nat /\ e.dec.settled \in Nat
  BY DEF Kept, Took, ClientOK, Clients, Decoders
<1> QED BY <1>1, AskedOnAndOn DEF Kept, Took

\* or before it.
LEMMA TookThenKept ==
    ASSUME NEW c, NEW d, NEW e, NEW f, ClientOK(c), Took(c, f, d), Kept(d, e)
    PROVE  Took(c, f, e)
<1>1. c.dec.settled \in Nat /\ d.dec.settled \in Nat /\ e.dec.settled \in Nat
  BY DEF Kept, Took, ClientOK, Clients, Decoders
<1> QED BY <1>1, AskedOnAndOn DEF Kept, Took

\* What a frame shows is a view.
LEMMA ShownIsView ==
    ASSUME NEW v \in Views \cup {None}, NEW f \in Frames, NEW w, Shown(v, f, w)
    PROVE  w \in Views
<1>1. CASE w = [seq |-> f.to, rows |-> f.rows, num |-> f.num]
  BY <1>1 DEF Frames, Views
<1>2. CASE v # None /\ w = [seq |-> f.to, rows |-> v.rows \o f.rows, num |-> v.num]
  <2>1. v.rows \in Seq(1..MaxEvents) /\ f.rows \in Seq(1..MaxEvents) /\ v.num \in Nat /\ f.to \in Nat
    BY <1>2 DEF Frames, Views
  <2>2. v.rows \o f.rows \in Seq(1..MaxEvents)
    BY <2>1, ConcatProperties
  <2> QED BY <1>2, <2>1, <2>2 DEF Views
<1> QED BY <1>1, <1>2 DEF Shown

\* A client that shows something else, and has what a subscription needs.
LEMMA AnotherView ==
    ASSUME NEW c, ClientOK(c), c.sub # 0, NEW f \in Frames, NEW w, Shown(c.view, f, w),
           NEW d, d = [c EXCEPT !.view = w, !.applied = TRUE]
    PROVE  Took(c, f, d) /\ d.flight = c.flight
<1>0. w \in Views
  BY ShownIsView DEF ClientOK, Clients
<1>1. d \in Clients
  BY <1>0 DEF ClientOK, Clients
<1>2. d.gen = c.gen /\ d.up = c.up /\ d.sub = c.sub /\ d.staged = c.staged /\ d.view = w
      /\ d.dec = c.dec /\ d.pending = c.pending /\ d.awaiting = c.awaiting
      /\ d.flight = c.flight
  BY DEF ClientOK, Clients
<1>3. Kept(c, c)
  BY KeptAtFirst
<1> QED BY <1>1, <1>2, <1>3 DEF ClientOK, Kept, Took, Asked

\* A step that shows nothing may have been one that shows f.
LEMMA KeptTakes ==
    ASSUME NEW c, NEW d, NEW f, Kept(c, d)
    PROVE  Took(c, f, d)
BY DEF Kept, Took

\* Applying a frame shows it, or asks for another.
LEMMA ApplyTakes ==
    ASSUME NEW c, ClientOK(c), c.sub # 0, NEW f \in Frames, NEW initial \in BOOLEAN
    PROVE  Took(c, f, Apply(c, f, initial))
<1> DEFINE d == Apply(c, f, initial)
           w == [seq |-> f.to, rows |-> f.rows, num |-> f.num]
           x == [seq |-> f.to, rows |-> c.view.rows \o f.rows, num |-> c.view.num]
           s == [c EXCEPT !.view = w, !.applied = TRUE]
           t == [c EXCEPT !.view = x, !.applied = TRUE]
<1>0. f.kind \in {"snapshot", "deltas"} /\ f.to \in Nat /\ c.view \in Views \cup {None}
  BY DEF Frames, ClientOK, Clients
<1>1. CASE f.kind = "snapshot"
  <2>1. d = RecoverySeen(s, f)
    BY <1>1 DEF Apply
  <2>2. Shown(c.view, f, w)
    BY <1>1 DEF Shown
  <2> HIDE DEF d, s, w
  <2>3. Took(c, f, s)
    BY <2>2, AnotherView DEF s
  <2>4. Kept(s, RecoverySeen(s, f))
    BY <2>3, RecoverySeenKeeps DEF Took
  <2>5. Took(c, f, d)
    BY <2>1, <2>3, <2>4, TookThenKept
  <2> QED BY <2>5 DEF d
<1>2. CASE f.kind # "snapshot" /\ c.view # None /\ f.to <= c.view.seq
  BY <1>2, RecoverySeenKeeps, KeptTakes DEF Apply
<1>3. CASE f.kind # "snapshot" /\ c.view # None /\ ~(f.to <= c.view.seq) /\ f.from = c.view.seq
  <2>1. d = RecoverySeen(t, f)
    BY <1>3 DEF Apply, ClientOK, Clients
  <2>2. Shown(c.view, f, x)
    <3>1. f.to > c.view.seq
      BY <1>0, <1>3 DEF Views
    <3> QED BY <3>1, <1>0, <1>3 DEF Shown
  <2> HIDE DEF d, t, x
  <2>3. Took(c, f, t)
    BY <2>2, AnotherView DEF t
  <2>4. Kept(t, RecoverySeen(t, f))
    BY <2>3, RecoverySeenKeeps DEF Took
  <2>5. Took(c, f, d)
    BY <2>1, <2>3, <2>4, TookThenKept
  <2> QED BY <2>5 DEF d
<1>4. CASE f.kind # "snapshot"
           /\ ~(c.view # None /\ (f.to <= c.view.seq \/ f.from = c.view.seq))
  <2> DEFINE again == (f.use = "recovery")
  <2>1. d \in {Connect(c, TRUE), RequestRecovery(c, again, FALSE)}
    BY <1>4 DEF Apply
  <2>2. again \in BOOLEAN
    OBVIOUS
  <2> HIDE DEF again, d
  <2>3. Kept(c, Connect(c, TRUE)) /\ Kept(c, RequestRecovery(c, again, FALSE))
    BY <2>2, ConnectKeeps, RequestRecoveryKeeps
  <2>4. Took(c, f, d)
    BY <2>1, <2>3, KeptTakes
  <2> QED BY <2>4 DEF d
<1> QED BY <1>1, <1>2, <1>3, <1>4

\* So does handling it.
LEMMA HandleFrameTakes ==
    ASSUME NEW c, ClientOK(c), c.sub # 0, NEW f \in Frames
    PROVE  Took(c, f, HandleFrame(c, f))
<1> DEFINE initial == f.use = "initial" /\ c.awaiting
           a == [c EXCEPT !.awaiting = c.awaiting /\ f.use = "online"]
           again == (f.use = "recovery")
           d == HandleFrame(c, f)
<1>1. Kept(c, a) /\ ClientOK(a)
  BY AwaitingKeeps DEF Kept
<1>2. a.sub # 0 /\ initial \in BOOLEAN /\ again \in BOOLEAN
  BY DEF ClientOK, Clients
<1>3. \/ a.flight # None /\ d = Beside(a)
      \/ d = a
      \/ d = RequestRecovery(a, again, FALSE)
      \/ d = Apply(a, f, initial)
  BY DEF HandleFrame
<1> HIDE DEF a, d, initial, again
<1>4. Took(a, f, d)
  <2>1. CASE a.flight # None /\ d = Beside(a)
    BY <2>1, <1>1, BesideKeeps, KeptTakes
  <2>2. CASE d = a
    BY <2>2, <1>1, KeptAtFirst, KeptTakes
  <2>3. CASE d = RequestRecovery(a, again, FALSE)
    BY <2>3, <1>1, <1>2, RequestRecoveryKeeps, KeptTakes
  <2>4. CASE d = Apply(a, f, initial)
    BY <2>4, <1>1, <1>2, ApplyTakes
  <2> QED BY <1>3, <2>1, <2>2, <2>3, <2>4
<1>5. Took(c, f, d)
  BY <1>1, <1>4, KeptThenTook
<1> QED BY <1>5 DEF d

\* What the assembler makes of a wire that it takes.
LEMMA AssembledKeeps ==
    ASSUME NEW d \in Decoders, d.ord # 0 => d.ord > d.settled, ~d.closed,
           NEW w \in WireSet, w.frame.ord > d.settled, w.frame.ord >= d.ord
    PROVE  LET r == Assembled(d, w) IN
           /\ r.dec \in Decoders /\ r.dec.settled >= d.settled
           /\ r.dec.ord # 0 => r.dec.ord > r.dec.settled /\ ~r.dec.closed
           /\ r.out \in {"nothing", "garbled", "unreadable", "frame"}
           /\ r.out = "frame" => r.dec.settled >= w.frame.ord
<1> DEFINE f == w.frame
           e == IF d.ord = f.ord THEN d ELSE [Abort(d) EXCEPT !.ord = f.ord, !.use = f.use]
           whole == Cardinality(e.parts \cup {w.part}) = w.parts
           n == [e EXCEPT !.parts = e.parts \cup {w.part}]
           r == Assembled(d, w)
<1>1. f \in Frames /\ w.part \in Nat /\ w.bad \in {"no", "garbled", "unreadable"}
  BY DEF WireSet
<1>2. f.ord \in Nat /\ f.use \in {"initial", "online", "recovery"}
      /\ d.ord \in Nat /\ d.settled \in Nat /\ d.closed \in BOOLEAN /\ f.ord > d.settled
  BY <1>1 DEF Frames, Decoders
<1>3. e \in Decoders /\ e.ord = f.ord /\ e.settled >= d.settled /\ e.settled < f.ord /\ ~e.closed
  <2>1. CASE d.ord = f.ord
    BY <2>1, <1>2
  <2>2. CASE d.ord # f.ord
    <3> DEFINE a == Abort(d)
    <3>1. a \in Decoders /\ a.settled >= d.settled /\ a.closed = d.closed
      BY AbortKeeps
    <3>2. a.settled < f.ord
      <4>1. a.settled \in {d.settled, d.ord}
        BY <1>2 DEF Abort, Release, Decoders
      <4> QED BY <4>1, <2>2, <1>2
    <3>3. e = [a EXCEPT !.ord = f.ord, !.use = f.use]
      BY <2>2
    <3> HIDE DEF a, e, f
    <3> QED BY <3>1, <3>2, <3>3, <1>2 DEF Decoders
  <2> QED BY <2>1, <2>2
<1>4. \/ r = [dec |-> Release(e, f.ord), out |-> "garbled"]
      \/ r = [dec |-> n, out |-> "nothing"]
      \/ r = [dec |-> Release(e, f.ord), out |-> "unreadable"]
      \/ r = [dec |-> Release(e, f.ord), out |-> "frame"]
  BY DEF Assembled
<1> HIDE DEF r, e, f
<1>5. n \in Decoders /\ n.settled = e.settled /\ n.ord = e.ord /\ n.closed = e.closed
  <2>1. e.parts \cup {w.part} \in SUBSET Nat
    BY <1>1, <1>3 DEF Decoders
  <2> QED BY <2>1, <1>3 DEF Decoders
<1>6. Release(e, f.ord) \in Decoders /\ Release(e, f.ord).settled = f.ord
      /\ Release(e, f.ord).ord = 0
  <2>1. Release(e, f.ord) = [ord |-> 0, use |-> "online", parts |-> {}, settled |-> f.ord,
                             closed |-> e.closed]
    <3>1. e \in Decoders
      BY <1>3
    <3>2. Release(e, f.ord) = [e EXCEPT !.ord = 0, !.use = "online", !.parts = {},
                                        !.settled = f.ord]
      BY DEF Release
    <3> QED BY <3>1, <3>2 DEF Decoders
  <2> QED BY <2>1, <1>2, <1>3 DEF Decoders
<1> HIDE DEF n
<1>7. /\ r.dec \in Decoders /\ r.dec.settled >= d.settled
      /\ r.dec.ord # 0 => r.dec.ord > r.dec.settled /\ ~r.dec.closed
      /\ r.out \in {"nothing", "garbled", "unreadable", "frame"}
      /\ r.out = "frame" => r.dec.settled >= f.ord
  <2>1. CASE r = [dec |-> n, out |-> "nothing"]
    BY <2>1, <1>2, <1>3, <1>5
  <2>2. CASE r.dec = Release(e, f.ord) /\ r.out \in {"garbled", "unreadable", "frame"}
    BY <2>2, <1>2, <1>6
  <2> QED BY <1>4, <2>1, <2>2
<1> QED BY <1>7 DEF r, f

\* A frame is shown when its last wire comes through the gate, and is settled then.
TookInTurn(c, f, d) ==
    /\ Took(c, f, d)
    /\ d.view # c.view => f.ord > c.dec.settled /\ d.dec.settled >= f.ord

\* A step that shows nothing shows nothing out of turn.
LEMMA KeptInTurn ==
    ASSUME NEW c, NEW d, NEW f, Kept(c, d)
    PROVE  TookInTurn(c, f, d)
BY DEF Kept, Took, TookInTurn

\* Decoding a wire shows its frame or nothing, and only in its turn.
LEMMA DecodeTakes ==
    ASSUME NEW c, ClientOK(c), c.sub # 0, NEW w \in WireSet
    PROVE  TookInTurn(c, w.frame, Decode(c, w))
<1> DEFINE f == w.frame
           dec == IF f.use = "recovery" /\ c.dec.closed THEN Opened(c.dec) ELSE c.dec
           r == Assembled(dec, w)
           e == [c EXCEPT !.dec = r.dec]
           shut == [c EXCEPT !.dec = Closed(r.dec)]
           unread == (r.out = "unreadable")
           g == HandleFault(shut, dec.use, FALSE)
           d == Decode(c, w)
<1>1. f \in Frames
  BY DEF WireSet
<1>2. c.dec \in Decoders /\ (c.dec.ord # 0 => c.dec.ord > c.dec.settled /\ ~c.dec.closed)
  BY DEF ClientOK, Clients
<1>3. dec \in Decoders /\ dec.settled >= c.dec.settled
      /\ (dec.ord # 0 => dec.ord > dec.settled /\ ~dec.closed)
  <2>1. c.dec.settled \in Nat
    BY <1>2 DEF Decoders
  <2> QED BY <1>2, <2>1, AbortKeeps
<1>4. f.ord \in Nat /\ dec.ord \in Nat /\ dec.settled \in Nat /\ dec.closed \in BOOLEAN
      /\ c.dec.settled \in Nat
  <2> HIDE DEF dec, f
  <2> QED BY <1>1, <1>2, <1>3 DEF Frames, Decoders
<1>5. CASE dec.closed \/ f.ord <= dec.settled \/ f.ord < dec.ord
  <2>1. d = [c EXCEPT !.dec = dec]
    BY <1>5 DEF Decode
  <2> HIDE DEF d, dec
  <2>2. Kept(c, d)
    BY <2>1, <1>3, AnotherDecoder
  <2>3. TookInTurn(c, f, d)
    BY <2>2, KeptInTurn
  <2> QED BY <2>3 DEF d
<1>6. CASE ~(dec.closed \/ f.ord <= dec.settled \/ f.ord < dec.ord)
  <2>1. \/ d = g
        \/ d = HandleFault(g, f.use, unread)
        \/ d = HandleFault(shut, f.use, unread)
        \/ r.out = "frame" /\ d = HandleFrame(e, f)
        \/ d = e
    BY <1>6 DEF Decode
  <2>2. /\ r.dec \in Decoders /\ r.dec.settled >= dec.settled
        /\ r.dec.ord # 0 => r.dec.ord > r.dec.settled /\ ~r.dec.closed
        /\ r.out \in {"nothing", "garbled", "unreadable", "frame"}
        /\ r.out = "frame" => r.dec.settled >= f.ord
    <3>1. f.ord > dec.settled /\ f.ord >= dec.ord /\ ~dec.closed
      BY <1>4, <1>6
    <3> HIDE DEF dec
    <3> QED BY <3>1, <1>3, AssembledKeeps
  <2>3. unread \in BOOLEAN
    OBVIOUS
  <2> HIDE DEF r, unread, dec
  <2>4. r.dec.settled \in Nat /\ r.dec.settled >= c.dec.settled
    BY <2>2, <1>3, <1>4 DEF Decoders
  <2>5. Kept(c, e) /\ e.dec = r.dec
    BY <2>2, <2>4, AnotherDecoder
  <2>6. Kept(c, shut)
    <3>1. Closed(r.dec) \in Decoders /\ Closed(r.dec).ord = 0
          /\ Closed(r.dec).settled >= r.dec.settled
      BY <2>2, AbortKeeps
    <3>2. Closed(r.dec).settled >= c.dec.settled
      BY <3>1, <2>4, <1>4 DEF Decoders
    <3> QED BY <3>1, <3>2, AnotherDecoder
  <2>7. Kept(c, g)
    <3> HIDE DEF shut
    <3>1. ClientOK(shut)
      BY <2>6 DEF Kept
    <3>2. Kept(shut, g)
      BY <3>1, HandleFaultKeeps
    <3> HIDE DEF g
    <3> QED BY <3>2, <2>6, KeptOnAndOn
  <2> HIDE DEF d, e, shut, g
  <2>8. ClientOK(e) /\ ClientOK(shut) /\ ClientOK(g)
    BY <2>5, <2>6, <2>7 DEF Kept
  <2>9. CASE d = g
    <3>1. TookInTurn(c, f, d)
      BY <2>9, <2>7, KeptInTurn
    <3> QED BY <3>1 DEF d
  <2>10. CASE d = HandleFault(g, f.use, unread)
    <3>1. Kept(g, d)
      BY <2>3, <2>8, <2>10, HandleFaultKeeps
    <3>2. Kept(c, d)
      BY <3>1, <2>7, KeptOnAndOn
    <3>3. TookInTurn(c, f, d)
      BY <3>2, KeptInTurn
    <3> QED BY <3>3 DEF d
  <2>11. CASE d = HandleFault(shut, f.use, unread)
    <3>1. Kept(shut, d)
      BY <2>3, <2>8, <2>11, HandleFaultKeeps
    <3>2. Kept(c, d)
      BY <3>1, <2>6, KeptOnAndOn
    <3>3. TookInTurn(c, f, d)
      BY <3>2, KeptInTurn
    <3> QED BY <3>3 DEF d
  <2>12. CASE r.out = "frame" /\ d = HandleFrame(e, f)
    <3>1. e.sub # 0
      BY <2>5 DEF Kept
    <3>2. Took(e, f, d)
      BY <3>1, <2>8, <2>12, <1>1, HandleFrameTakes
    <3>3. Took(c, f, d)
      BY <3>2, <2>5, KeptThenTook
    <3>4. d.dec.settled >= r.dec.settled /\ r.dec.settled >= f.ord /\ d.dec.settled \in Nat
      BY <3>2, <2>2, <2>5, <2>12 DEF Took, ClientOK, Clients, Decoders
    <3>5. f.ord > c.dec.settled
      <4>1. f.ord > dec.settled
        BY <1>4, <1>6
      <4> QED BY <4>1, <1>3, <1>4
    <3>6. TookInTurn(c, f, d)
      BY <3>3, <3>4, <3>5, <2>4, <1>4 DEF TookInTurn
    <3> QED BY <3>6 DEF d
  <2>13. CASE d = e
    <3>1. TookInTurn(c, f, d)
      BY <2>13, <2>5, KeptInTurn
    <3> QED BY <3>1 DEF d
  <2> QED BY <2>1, <2>9, <2>10, <2>11, <2>12, <2>13
<1> QED BY <1>5, <1>6

-----------------------------------------------------------------------------
(* What is true of rows, frames and views. *)

\* The numbers up to which the projection p has gone, and what it held after s.
Top(p) == p.start + Len(p.log)
Held(p, s) == p.rows \o Rows(SubSeq(p.log, 1, s - p.start))

\* A snapshot is what the projection held, deltas lead from one number to a later one.
FrameTrue(f, p) ==
    /\ f.to \in p.start..Top(p)
    /\ f.kind = "snapshot" => f.rows = Held(p, f.to)
    /\ f.kind = "deltas" => f.from \in p.start..f.to /\ Held(p, f.to) = Held(p, f.from) \o f.rows

\* The view is what the projection held after the number it says.
ViewTrue(v, p) == v.seq \in p.start..Top(p) /\ v.rows = Held(p, v.seq)

\* A sequence whose elements are all in T is a sequence of T.
LEMMA NarrowedSeq ==
    ASSUME NEW S, NEW s \in Seq(S), NEW T, \A i \in 1..Len(s) : s[i] \in T
    PROVE  s \in Seq(T)
<1>1. Len(s) \in Nat /\ s \in [1..Len(s) -> S]
  BY LenProperties
<1>2. s \in [1..Len(s) -> T]
  BY <1>1
<1> QED BY <1>1, <1>2

\* What the log says was added, without the zeros, is rows.
LEMMA RowsAreRows ==
    ASSUME NEW s \in Seq(0..MaxEvents)
    PROVE  Rows(s) \in Seq(1..MaxEvents)
<1> DEFINE r == Without(s, {0})
<1>1. r \in Seq(0..MaxEvents) /\ \A i \in 1..Len(r) : r[i] \notin {0}
  BY WithoutSelects
<1> HIDE DEF r
<1>2. \A i \in 1..Len(r) : r[i] \in 1..MaxEvents
  <2>1. MaxEvents \in Nat
    BY TopicDeliveryAssumption
  <2>2. \A i \in 1..Len(r) : r[i] \in 0..MaxEvents
    BY <1>1, ElementOfSeq
  <2> QED BY <2>1, <2>2, <1>1
<1>4. r \in Seq(1..MaxEvents)
  BY <1>1, <1>2, NarrowedSeq
<1> QED BY <1>4 DEF Rows, r

\* A piece of a sequence has its elements.
LEMMA SubSeqIsSeq ==
    ASSUME NEW T, NEW s \in Seq(T), NEW m \in Nat \ {0}, NEW n \in Int, n <= Len(s)
    PROVE  SubSeq(s, m, n) \in Seq(T)
<1>1. \A i \in m..n : s[i] \in T
  <2>1. Len(s) \in Nat
    OBVIOUS
  <2>2. \A i \in m..n : i \in 1..Len(s)
    BY <2>1
  <2> QED BY <2>2
<1> QED BY <1>1, SubSeqProperties

\* What a projection held is rows.
LEMMA HeldIsSeq ==
    ASSUME NEW p \in Projections, NEW s \in p.start..Top(p)
    PROVE  Held(p, s) \in Seq(1..MaxEvents)
<1>1. p.log \in Seq(0..MaxEvents) /\ p.rows \in Seq(1..MaxEvents) /\ p.start \in Nat
  BY DEF Projections
<1>2. Len(p.log) \in Nat
  BY <1>1
<1>3. s - p.start \in Int /\ s - p.start <= Len(p.log)
  BY <1>1, <1>2 DEF Top
<1>4. SubSeq(p.log, 1, s - p.start) \in Seq(0..MaxEvents)
  <2> DEFINE n == s - p.start
  <2>1. n \in Int /\ n <= Len(p.log) /\ 1 \in Nat \ {0}
    BY <1>3
  <2> HIDE DEF n
  <2>2. SubSeq(p.log, 1, n) \in Seq(0..MaxEvents)
    BY <2>1, <1>1, SubSeqIsSeq
  <2> QED BY <2>2 DEF n
<1>5. Rows(SubSeq(p.log, 1, s - p.start)) \in Seq(1..MaxEvents)
  BY <1>4, RowsAreRows
<1> QED BY <1>1, <1>5, ConcatProperties DEF Held

\* What is held later is what was held before, and what was added in between.
LEMMA HeldGrows ==
    ASSUME NEW p \in Projections, NEW s \in p.start..Top(p), NEW t \in s..Top(p)
    PROVE  /\ Held(p, t) = Held(p, s) \o Rows(SubSeq(p.log, s - p.start + 1, t - p.start))
           /\ Rows(SubSeq(p.log, s - p.start + 1, t - p.start)) \in Seq(1..MaxEvents)
<1> DEFINE k == s - p.start
           n == t - p.start
           a == SubSeq(p.log, 1, k)
           b == SubSeq(p.log, k + 1, n)
<1>1. p.log \in Seq(0..MaxEvents) /\ p.rows \in Seq(1..MaxEvents) /\ p.start \in Nat
  BY DEF Projections
<1>2. Len(p.log) \in Nat
  BY <1>1
<1>3. k \in 0..Len(p.log) /\ n \in k..Len(p.log)
  BY <1>1, <1>2 DEF Top
<1> HIDE DEF k, n
<1>4. a \in Seq(0..MaxEvents) /\ b \in Seq(0..MaxEvents)
  <2>1. 1 \in Nat \ {0} /\ k + 1 \in Nat \ {0} /\ k \in Int /\ n \in Int
        /\ k <= Len(p.log) /\ n <= Len(p.log)
    BY <1>2, <1>3
  <2> QED BY <2>1, <1>1, SubSeqIsSeq
<1>5. SubSeq(p.log, 1, n) = a \o b
  <2>1. 1 \in 1..Len(p.log) + 1 /\ k \in 1 - 1..Len(p.log)
    BY <1>2, <1>3
  <2> QED BY <2>1, <1>1, <1>3, ConcatAdjacentSubSeq
<1> HIDE DEF a, b
<1>6. Rows(a \o b) = Rows(a) \o Rows(b)
  BY <1>4, WithoutOfConcat DEF Rows
<1>7. Rows(a) \in Seq(1..MaxEvents) /\ Rows(b) \in Seq(1..MaxEvents)
  BY <1>4, RowsAreRows
<1>8. p.rows \o (Rows(a) \o Rows(b)) = (p.rows \o Rows(a)) \o Rows(b)
  <2>1. \A S : \A u, v, w \in Seq(S) : (u \o v) \o w = u \o (v \o w)
    BY ConcatAssociative
  <2>2. \A u, v, w \in Seq(1..MaxEvents) : (u \o v) \o w = u \o (v \o w)
    BY <2>1
  <2> HIDE DEF a, b
  <2> QED BY <1>1, <1>7, <2>2
<1> QED BY <1>5, <1>6, <1>7, <1>8 DEF Held, k, n, a, b

\* s is a beginning of s \o t.
LEMMA PrefixOfConcat ==
    ASSUME NEW T, NEW s \in Seq(T), NEW t \in Seq(T)
    PROVE  IsPrefix(s, s \o t)
<1>1. s \o t \in Seq(T) /\ Len(s \o t) = Len(s) + Len(t) /\ Len(s) \in Nat /\ Len(t) \in Nat
      /\ \A i \in 1..Len(s) : (s \o t)[i] = s[i]
  BY ConcatProperties
<1>2. SubSeq(s, 1, Len(s)) = SubSeq(s \o t, 1, Len(s))
  BY <1>1
<1> QED BY <1>1, <1>2 DEF IsPrefix

\* A beginning is shorter, and agrees as far as it goes.
LEMMA PrefixPointwise ==
    ASSUME NEW T, NEW s \in Seq(T), NEW t \in Seq(T)
    PROVE  IsPrefix(s, t) <=> Len(s) <= Len(t) /\ \A i \in 1..Len(s) : s[i] = t[i]
<1>1. Len(s) \in Nat /\ Len(t) \in Nat
  OBVIOUS
<1>2. ASSUME Len(s) <= Len(t)
      PROVE  SubSeq(s, 1, Len(s)) = SubSeq(t, 1, Len(s)) <=> \A i \in 1..Len(s) : s[i] = t[i]
  <2> DEFINE a == SubSeq(s, 1, Len(s))  b == SubSeq(t, 1, Len(s))
  <2>1. /\ a \in Seq(T) /\ Len(a) = Len(s) /\ \A i \in 1..Len(s) : a[i] = s[i]
        /\ b \in Seq(T) /\ Len(b) = Len(s) /\ \A i \in 1..Len(s) : b[i] = t[i]
    BY <1>1, <1>2
  <2> HIDE DEF a, b
  <2>2. a = b <=> \A i \in 1..Len(s) : a[i] = b[i]
    BY <2>1, <1>1, SeqEqual
  <2>3. a = b <=> \A i \in 1..Len(s) : s[i] = t[i]
    BY <2>1, <2>2
  <2> QED BY <2>3 DEF a, b
<1> QED BY <1>1, <1>2 DEF IsPrefix

\* The beginning of a beginning is one.
LEMMA PrefixOfPrefix ==
    ASSUME NEW T, NEW s \in Seq(T), NEW t \in Seq(T), NEW u \in Seq(T),
           IsPrefix(s, t), IsPrefix(t, u)
    PROVE  IsPrefix(s, u)
<1>1. Len(s) <= Len(t) /\ \A i \in 1..Len(s) : s[i] = t[i]
  BY PrefixPointwise
<1>2. Len(t) <= Len(u) /\ \A i \in 1..Len(t) : t[i] = u[i]
  BY PrefixPointwise
<1>3. Len(s) \in Nat /\ Len(t) \in Nat /\ Len(u) \in Nat
  OBVIOUS
<1>4. Len(s) <= Len(u) /\ \A i \in 1..Len(s) : s[i] = u[i]
  BY <1>1, <1>2, <1>3
<1> QED BY <1>4, PrefixPointwise

\* What a projection held is a beginning of what it held later.
LEMMA HeldPrefix ==
    ASSUME NEW p \in Projections, NEW s \in p.start..Top(p), NEW t \in s..Top(p)
    PROVE  IsPrefix(Held(p, s), Held(p, t))
<1> DEFINE r == Rows(SubSeq(p.log, s - p.start + 1, t - p.start))
<1>1. Held(p, t) = Held(p, s) \o r /\ r \in Seq(1..MaxEvents)
  BY HeldGrows
<1>2. Held(p, s) \in Seq(1..MaxEvents)
  BY HeldIsSeq
<1> HIDE DEF r
<1> QED BY <1>1, <1>2, PrefixOfConcat

-----------------------------------------------------------------------------
(* What the client shows.  F are the frames under way, and H the projections of the     *)
(* publisher by their numbering, the last of each.                                      *)

\* f was sent before g; and if it was, it goes no further.
Earlier(f, g) == f.sub < g.sub \/ (f.sub = g.sub /\ f.ord < g.ord)
Behind(f, g)  == f.num < g.num \/ (f.num = g.num /\ f.to <= g.to)

\* Every frame under way is true of the projection it was made from.
FramesTrue(F, H, p) ==
    /\ p \in Projections /\ H \in [Nat -> Projections] /\ H[p.num] = p
    /\ \A f \in F : f \in Frames /\ f.sub # 0 /\ f.num <= p.num /\ FrameTrue(f, H[f.num])
    /\ \A f, g \in F : Earlier(f, g) => Behind(f, g)

\* The frames that the decoder of c would still let through, now or in a later subscription.
Ahead(c, f) == f.sub > c.sub \/ (f.sub = c.sub /\ f.ord > c.dec.settled)

\* A view of an earlier numbering may have been mixed with what came after: the next
\* snapshot replaces it.
Ready(v, f, H) == v.num < f.num \/ (v.num = f.num /\ ViewTrue(v, H[f.num]) /\ v.seq <= f.to)

\* The view is true, and every frame that may still come leads on from it.
Showing(c, F, H, p) ==
    c.view # None =>
        /\ c.view.num <= p.num
        /\ c.view.num = p.num => ViewTrue(c.view, p)
        /\ \A f \in F : Ahead(c, f) => Ready(c.view, f, H)

\* What is shown goes on, or changes to a later numbering.
Onward(v, w) ==
    v # None =>
        /\ w # None
        /\ \/ v.num < w.num
           \/ v.num = w.num /\ v.seq <= w.seq /\ IsPrefix(v.rows, w.rows)

\* Wires of the client's own subscription, F or some of them, take it from c to d.
Moved(c, d, F, H, p) ==
    /\ ClientOK(d) /\ Asked(c, d) /\ d.sub = c.sub /\ d.staged = c.staged
    /\ Showing(d, F, H, p) /\ Onward(c.view, d.view)

Viewed == Views \cup {None}

\* To show the same is to go on,
LEMMA OnwardAtFirst == ASSUME NEW v \in Viewed PROVE Onward(v, v)
<1>1. CASE v # None
  <2>1. v.num \in Nat /\ v.seq \in Nat /\ v.rows \in Seq(1..MaxEvents)
    BY <1>1 DEF Viewed, Views
  <2>2. IsPrefix(v.rows, v.rows)
    <3>1. \A S : \A s \in Seq(S) : IsPrefix(s, s)
      BY PrefixPointwise
    <3> QED BY <2>1, <3>1
  <2> QED BY <2>1, <2>2 DEF Onward
<1> QED BY <1>1 DEF Onward

\* and to go on twice is to go on.
LEMMA OnwardOnAndOn ==
    ASSUME NEW u \in Viewed, NEW v \in Viewed, NEW w \in Viewed, Onward(u, v), Onward(v, w)
    PROVE  Onward(u, w)
<1>1. CASE u # None
  <2>1. v # None /\ w # None
    BY <1>1 DEF Onward
  <2>2. /\ u.num \in Nat /\ u.seq \in Nat /\ u.rows \in Seq(1..MaxEvents)
        /\ v.num \in Nat /\ v.seq \in Nat /\ v.rows \in Seq(1..MaxEvents)
        /\ w.num \in Nat /\ w.seq \in Nat /\ w.rows \in Seq(1..MaxEvents)
    BY <1>1, <2>1 DEF Viewed, Views
  <2>3. CASE u.num < v.num \/ v.num < w.num
    <3>1. u.num <= v.num /\ v.num <= w.num
      BY <1>1, <2>1, <2>2 DEF Onward
    <3> QED BY <2>1, <2>2, <2>3, <3>1 DEF Onward
  <2>4. CASE ~(u.num < v.num) /\ ~(v.num < w.num)
    <3>1. /\ u.num = v.num /\ u.seq <= v.seq /\ IsPrefix(u.rows, v.rows)
          /\ v.num = w.num /\ v.seq <= w.seq /\ IsPrefix(v.rows, w.rows)
      BY <1>1, <2>1, <2>4 DEF Onward
    <3>2. IsPrefix(u.rows, w.rows)
      <4>1. \A S : \A r, s, t \in Seq(S) : IsPrefix(r, s) /\ IsPrefix(s, t) => IsPrefix(r, t)
        BY PrefixOfPrefix
      <4> QED BY <2>2, <3>1, <4>1
    <3> QED BY <2>1, <2>2, <3>1, <3>2 DEF Onward
  <2> QED BY <2>3, <2>4
<1> QED BY <1>1 DEF Onward

\* Two moves are one,
LEMMA MovedOnAndOn ==
    ASSUME NEW c, NEW d, NEW e, NEW F, NEW H, NEW p, ClientOK(c),
           Moved(c, d, F, H, p), Moved(d, e, F, H, p)
    PROVE  Moved(c, e, F, H, p)
<1>1. c.view \in Viewed /\ d.view \in Viewed /\ e.view \in Viewed
  BY DEF Moved, ClientOK, Clients, Viewed
<1> QED BY <1>1, AskedOnAndOn, OnwardOnAndOn DEF Moved

\* and to stay is one.
LEMMA MovedAtFirst ==
    ASSUME NEW c, ClientOK(c), NEW F, NEW H, NEW p, Showing(c, F, H, p)
    PROVE  Moved(c, c, F, H, p)
<1>1. Onward(c.view, c.view)
  BY OnwardAtFirst DEF ClientOK, Clients, Viewed
<1> QED BY <1>1, KeptAtFirst DEF Moved, Kept

\* What keeps what is shown lets no frame through again.
LEMMA KeptMoves ==
    ASSUME NEW c, NEW d, ClientOK(c), Kept(c, d), NEW F, NEW H, NEW p, Showing(c, F, H, p),
           \A f \in F : f \in Frames
    PROVE  Moved(c, d, F, H, p)
<1>1. c.dec.settled \in Nat /\ d.dec.settled \in Nat /\ d.dec.settled >= c.dec.settled
  BY DEF Kept, ClientOK, Clients, Decoders
<1>2. \A f \in F : Ahead(d, f) => Ahead(c, f)
  <2>1. \A f \in F : f.ord \in Nat
    BY DEF Frames
  <2> QED BY <1>1, <2>1 DEF Kept, Ahead
<1>3. Showing(d, F, H, p)
  BY <1>2 DEF Kept, Showing
<1>4. Onward(c.view, d.view)
  BY OnwardAtFirst DEF Kept, ClientOK, Clients, Viewed
<1> QED BY <1>3, <1>4 DEF Kept, Moved

\* A frame that is still ahead of the client takes its view on.
LEMMA ShownIsTrue ==
    ASSUME NEW v \in Viewed, NEW f \in Frames, NEW w, Shown(v, f, w), NEW H, NEW p \in Projections,
           H \in [Nat -> Projections], H[p.num] = p, f.num <= p.num, FrameTrue(f, H[f.num]),
           v # None => v.num <= p.num /\ (v.num = p.num => ViewTrue(v, p)) /\ Ready(v, f, H)
    PROVE  /\ w # None /\ w \in Views /\ w.num <= p.num
           /\ w.num = p.num => ViewTrue(w, p)
           /\ Onward(v, w)
           /\ w.num < f.num \/ (w.num = f.num /\ w.seq = f.to /\ ViewTrue(w, H[f.num]))
<1>1. w \in Views /\ w # None
  <2>1. w \in Views
    BY ShownIsView DEF Viewed
  <2> QED BY <2>1, NoneAssumption
<1>2. f.num \in Nat /\ f.to \in Nat /\ f.from \in Nat /\ p.num \in Nat
      /\ f.rows \in Seq(1..MaxEvents)
  BY DEF Frames, Projections
<1> DEFINE q == H[f.num]
<1>3. q \in Projections /\ q.start \in Nat /\ (f.num = p.num => q = p)
  BY <1>2 DEF Projections
<1>4. Len(q.log) \in Nat
  <2>1. q.log \in Seq(0..MaxEvents)
    BY <1>3 DEF Projections
  <2> QED BY <2>1
<1>4a. Top(q) \in Nat
  BY <1>3, <1>4 DEF Top
<1>5. CASE f.kind = "snapshot"
  <2>1. w = [seq |-> f.to, rows |-> f.rows, num |-> f.num]
    BY <1>5 DEF Shown
  <2>2. w.seq = f.to /\ w.rows = f.rows /\ w.num = f.num
    BY <2>1
  <2>3. ViewTrue(w, q)
    BY <2>2, <1>5 DEF FrameTrue, ViewTrue
  <2>4. Onward(v, w)
    <3>1. CASE v # None /\ v.num < f.num
      BY <3>1, <1>1, <2>2 DEF Onward
    <3>2. CASE v # None /\ v.num = f.num
      <4> HIDE DEF q
      <4>1. ViewTrue(v, q) /\ v.seq <= f.to
        <5>1. v.num \in Nat
          BY <3>2, <1>2
        <5> QED BY <3>2, <1>2, <5>1 DEF Ready, q
      <4>2. v.seq \in q.start..Top(q) /\ f.to \in v.seq..Top(q)
        BY <4>1, <2>2, <2>3, <1>2, <1>3, <1>4a DEF ViewTrue
      <4>3. IsPrefix(Held(q, v.seq), Held(q, f.to))
        BY <4>2, <1>3, HeldPrefix
      <4>4. IsPrefix(v.rows, w.rows)
        BY <4>1, <4>3, <2>2, <2>3 DEF ViewTrue
      <4> QED BY <3>2, <4>1, <4>4, <1>1, <2>2 DEF Onward
    <3>3. v = None \/ v.num < f.num \/ v.num = f.num
      BY DEF Ready
    <3> QED BY <3>1, <3>2, <3>3 DEF Onward
  <2> QED BY <1>1, <1>3, <2>2, <2>3, <2>4
<1>6. CASE f.kind = "deltas"
  <2>1. /\ v # None /\ f.from = v.seq /\ f.to > v.seq
        /\ w = [seq |-> f.to, rows |-> v.rows \o f.rows, num |-> v.num]
    BY <1>6 DEF Shown
  <2>2. w.seq = f.to /\ w.rows = v.rows \o f.rows /\ w.num = v.num
    BY <2>1
  <2>3. v \in Views /\ v.num \in Nat /\ v.seq \in Nat /\ v.rows \in Seq(1..MaxEvents)
    BY <2>1 DEF Viewed, Views
  <2>4. Onward(v, w)
    <3>1. IsPrefix(v.rows, v.rows \o f.rows)
      <4>1. \A S : \A s, t \in Seq(S) : IsPrefix(s, s \o t)
        BY PrefixOfConcat
      <4> QED BY <4>1, <2>3, <1>2
    <3>2. v.seq <= f.to
      BY <2>1, <2>3, <1>2
    <3> QED BY <3>1, <3>2, <1>1, <2>2 DEF Onward
  <2>5. CASE v.num < f.num
    <3>1. w.num < f.num /\ w.num < p.num
      BY <2>5, <2>2, <2>3, <1>2
    <3>2. w.num <= p.num /\ w.num # p.num
      BY <3>1, <2>2, <2>3, <1>2
    <3> QED BY <3>1, <3>2, <2>4, <1>1
  <2>6. CASE ~(v.num < f.num)
    <3>1. v.num = f.num /\ ViewTrue(v, q)
      BY <2>1, <2>6 DEF Ready
    <3>2. ViewTrue(w, q)
      BY <3>1, <2>1, <2>2, <1>6 DEF FrameTrue, ViewTrue
    <3> QED BY <3>1, <3>2, <2>1, <2>2, <2>4, <1>1, <1>3
  <2> QED BY <2>5, <2>6
<1> QED BY <1>5, <1>6 DEF Frames

\* The barrier's central fact: a wire whose frame is true leaves the client showing the
\* truth, and never less than before.
LEMMA DecodeMoves ==
    ASSUME NEW c, ClientOK(c), NEW F, NEW H, NEW p, FramesTrue(F, H, p), Showing(c, F, H, p),
           NEW w \in WireSet, w.frame \in F, w.frame.sub = c.sub
    PROVE  Moved(c, Decode(c, w), F, H, p)
<1> DEFINE f == w.frame
           d == Decode(c, w)
<1>1. f \in Frames /\ f.sub # 0 /\ f.num <= p.num /\ FrameTrue(f, H[f.num])
      /\ p \in Projections /\ H \in [Nat -> Projections] /\ H[p.num] = p
      /\ \A g \in F : g \in Frames
  BY DEF FramesTrue
<1>2. TookInTurn(c, f, d)
  BY <1>1, DecodeTakes
<1> HIDE DEF f, d
<1>3. CASE d.view = c.view
  <2>1. Kept(c, d)
    BY <1>2, <1>3 DEF TookInTurn, Took, Kept
  <2>2. Moved(c, d, F, H, p)
    BY <2>1, <1>1, KeptMoves
  <2> QED BY <2>2 DEF d
<1>4. CASE d.view # c.view
  <2>1. /\ ClientOK(d) /\ Asked(c, d) /\ d.sub = c.sub /\ d.staged = c.staged
        /\ Shown(c.view, f, d.view) /\ f.ord > c.dec.settled /\ d.dec.settled >= f.ord
    BY <1>2, <1>4 DEF TookInTurn, Took
  <2>2. f \in F /\ f.sub = c.sub
    BY DEF f
  <2>3. Ahead(c, f)
    BY <2>1, <2>2 DEF Ahead
  <2>4. c.view # None => c.view.num <= p.num /\ (c.view.num = p.num => ViewTrue(c.view, p))
                         /\ Ready(c.view, f, H)
    BY <2>2, <2>3 DEF Showing
  <2> DEFINE v == d.view
  <2>5. c.view \in Viewed
    BY DEF ClientOK, Clients, Viewed
  <2>6. /\ v # None /\ v \in Views /\ v.num <= p.num
        /\ v.num = p.num => ViewTrue(v, p)
        /\ Onward(c.view, v)
        /\ v.num < f.num \/ (v.num = f.num /\ v.seq = f.to /\ ViewTrue(v, H[f.num]))
    <3>1. Shown(c.view, f, v)
      BY <2>1
    <3> HIDE DEF v
    <3> QED BY <3>1, <2>4, <2>5, <1>1, ShownIsTrue
  <2> HIDE DEF v
  <2>7. ASSUME NEW g \in F, Ahead(d, g) PROVE Ready(v, g, H)
    <3>1. Earlier(f, g)
      <4>1. f.ord \in Nat /\ g.ord \in Nat /\ d.dec.settled \in Nat
        BY <1>1, <2>1 DEF Frames, ClientOK, Clients, Decoders
      <4> QED BY <4>1, <2>1, <2>2, <2>7 DEF Earlier, Ahead
    <3>2. f.num < g.num \/ (f.num = g.num /\ f.to <= g.to)
      BY <3>1, <2>2 DEF FramesTrue, Behind
    <3>3. v.num \in Nat /\ f.num \in Nat /\ g.num \in Nat
      BY <1>1, <2>6 DEF Frames, Views
    <3>4. CASE v.num < f.num \/ f.num < g.num
      <4>1. v.num < g.num
        BY <3>2, <3>3, <3>4, <2>6
      <4> QED BY <4>1 DEF Ready
    <3>5. CASE ~(v.num < f.num \/ f.num < g.num)
      <4>1. v.num = g.num /\ v.seq <= g.to /\ ViewTrue(v, H[g.num])
        BY <3>2, <3>5, <2>6
      <4> QED BY <4>1 DEF Ready
    <3> QED BY <3>4, <3>5
  <2>8. Showing(d, F, H, p)
    BY <2>6, <2>7 DEF Showing, v
  <2>9. Moved(c, d, F, H, p)
    BY <2>1, <2>6, <2>8 DEF Moved, v
  <2> QED BY <2>9 DEF d
<1> QED BY <1>3, <1>4

\* The recursion of DecodeAll is one.
LEMMA DecodeAllRuns ==
    ASSUME NEW c, NEW ws, Len(ws) \in Nat
    PROVE  \E g : /\ g[0] = c /\ \A n \in 1..Len(ws) : g[n] = Decode(g[n - 1], ws[n])
                  /\ DecodeAll(c, ws) = g[Len(ws)]
<1> DEFINE N == Len(ws)
           Runs(g, m) == g = [n \in 0..m |-> IF n = 0 THEN c ELSE Decode(g[n - 1], ws[n])]
           Q == { m \in 0..N : \E g : Runs(g, m) }
<1> HIDE DEF N
<1>0. N \in Nat
  BY DEF N
<1>1. 0 \in Q
  <2>1. Runs([n \in 0..0 |-> c], 0)
    OBVIOUS
  <2>2. \E g : Runs(g, 0)
    BY <2>1
  <2> QED BY <2>2, <1>0
<1>2. ASSUME NEW k \in 0..N, k < N, k \in Q PROVE k + 1 \in Q
  <2>1. PICK g : Runs(g, k)
    BY <1>2
  <2> DEFINE h == [n \in 0..(k + 1) |-> IF n \in 0..k THEN g[n] ELSE Decode(g[k], ws[k + 1])]
  <2>2. ASSUME NEW n \in 0..(k + 1)
        PROVE  h[n] = IF n = 0 THEN c ELSE Decode(h[n - 1], ws[n])
    <3>1. CASE n \in 0..k
      <4>1. h[n] = g[n] /\ g[n] = IF n = 0 THEN c ELSE Decode(g[n - 1], ws[n])
        BY <2>1, <3>1
      <4>2. n # 0 => n - 1 \in 0..k /\ h[n - 1] = g[n - 1]
        BY <3>1
      <4> HIDE DEF h
      <4> QED BY <4>1, <4>2
    <3>2. CASE n = k + 1
      <4>1. n # 0 /\ n - 1 = k /\ k \in 0..(k + 1) /\ n \notin 0..k /\ k \in 0..k
        BY <3>2, <1>0
      <4>2. h[n] = Decode(g[k], ws[k + 1]) /\ h[k] = g[k]
        BY <4>1, <3>2
      <4> HIDE DEF h
      <4> QED BY <4>1, <4>2, <3>2
    <3> QED BY <3>1, <3>2, <1>0
  <2>3. Runs(h, k + 1)
    <3> DEFINE i == [n \in 0..(k + 1) |-> IF n = 0 THEN c ELSE Decode(h[n - 1], ws[n])]
    <3>1. h = i
      <4>1. h = [n \in 0..(k + 1) |-> h[n]]
        OBVIOUS
      <4> HIDE DEF h
      <4> QED BY <4>1, <2>2
    <3> QED BY <3>1
  <2>4. \E x : Runs(x, k + 1)
    <3> HIDE DEF h
    <3> QED BY <2>3
  <2> QED BY <2>4, <1>0, <1>2
<1>3. \A k \in 0..N : k \in Q
  <2> HIDE DEF Q
  <2> QED BY <1>0, <1>1, <1>2, Climb
<1>4. \E g : Runs(g, N)
  <2>1. N \in Q
    <3> HIDE DEF Q
    <3> QED BY <1>0, <1>3
  <2> HIDE DEF Runs
  <2> QED BY <2>1
<1> DEFINE a == CHOOSE g : Runs(g, N)
<1>5. Runs(a, N)
  BY <1>4
<1>6. DecodeAll(c, ws) = a[N]
  BY DEF DecodeAll, N
<1> HIDE DEF a
<1>7. a[0] = c /\ \A n \in 1..N : a[n] = Decode(a[n - 1], ws[n])
  BY <1>0, <1>5
<1> QED BY <1>6, <1>7 DEF N

\* So do all the wires the barrier gives out at once, by induction over them.
LEMMA DecodeAllMoves ==
    ASSUME NEW c, ClientOK(c), NEW F, NEW H, NEW p, FramesTrue(F, H, p), Showing(c, F, H, p),
           NEW ws \in Seq(WireSet),
           \A i \in 1..Len(ws) : ws[i].frame \in F /\ ws[i].frame.sub = c.sub
    PROVE  Moved(c, DecodeAll(c, ws), F, H, p)
<1> DEFINE N == Len(ws)
<1>1. N \in Nat /\ \A i \in 1..N : ws[i] \in WireSet
  OBVIOUS
<1>2. PICK g : /\ g[0] = c /\ \A n \in 1..N : g[n] = Decode(g[n - 1], ws[n])
               /\ DecodeAll(c, ws) = g[N]
  BY <1>1, DecodeAllRuns
<1> DEFINE Q == { m \in 0..N : Moved(c, g[m], F, H, p) }
<1>3. 0 \in Q
  BY <1>1, <1>2, MovedAtFirst
<1>4. ASSUME NEW k \in 0..N, k < N, k \in Q PROVE k + 1 \in Q
  <2> DEFINE d == g[k]  w == ws[k + 1]
  <2>1. k + 1 \in 1..N /\ (k + 1) - 1 = k
    BY <1>1, <1>4
  <2>2. g[k + 1] = Decode(d, w)
    BY <1>2, <2>1
  <2>3. Moved(c, d, F, H, p)
    BY <1>4
  <2>4. w \in WireSet /\ w.frame \in F /\ w.frame.sub = c.sub
    BY <1>1, <2>1
  <2> HIDE DEF d, w
  <2>5. ClientOK(d) /\ d.sub = c.sub /\ Showing(d, F, H, p)
    BY <2>3 DEF Moved
  <2>6. Moved(d, Decode(d, w), F, H, p)
    BY <2>4, <2>5, DecodeMoves
  <2>7. Moved(c, g[k + 1], F, H, p)
    BY <2>2, <2>3, <2>6, MovedOnAndOn
  <2> QED BY <2>1, <2>7
<1> HIDE DEF Q
<1>5. \A k \in 0..N : k \in Q
  BY <1>1, <1>3, <1>4, Climb
<1>6. N \in Q
  BY <1>1, <1>5
<1> QED BY <1>2, <1>6 DEF Q

-----------------------------------------------------------------------------
(* The barrier, and the replies. *)

\* The frames of the wires that the barrier keeps are in F.
StagedIn(c, F) == \A i \in 1..Len(c.staged) : c.staged[i].frame \in F

\* A step of the client from c to d, with the frames F under way.
Went(c, d, F, H, p) ==
    /\ ClientOK(d) /\ Asked(c, d) /\ Showing(d, F, H, p) /\ Onward(c.view, d.view)
    /\ StagedIn(d, F)

\* A move within the subscription is a step of the client.
LEMMA MovedIsWent ==
    ASSUME NEW c, NEW d, NEW F, NEW H, NEW p, StagedIn(c, F), Moved(c, d, F, H, p)
    PROVE  Went(c, d, F, H, p) /\ d.sub = c.sub
BY DEF Moved, Went, StagedIn

\* A step that shows nothing is a step of the client.
LEMMA KeptIsWent ==
    ASSUME NEW c, NEW d, ClientOK(c), Kept(c, d), NEW F, NEW H, NEW p, FramesTrue(F, H, p),
           Showing(c, F, H, p), StagedIn(c, F)
    PROVE  Went(c, d, F, H, p) /\ d.sub = c.sub
<1>1. \A f \in F : f \in Frames
  BY DEF FramesTrue
<1> QED BY <1>1, KeptMoves, MovedIsWent

\* A wire that arrives is decoded, kept or dropped.
LEMMA AcceptWent ==
    ASSUME NEW c, ClientOK(c), NEW F, NEW H, NEW p, FramesTrue(F, H, p), Showing(c, F, H, p),
           StagedIn(c, F), NEW w \in WireSet, w.frame \in F
    PROVE  Went(c, Accept(c, w), F, H, p) /\ Accept(c, w).sub = c.sub
<1> DEFINE d == Accept(c, w)
<1>1. CASE w.frame.sub = c.sub
  <2>1. Moved(c, Decode(c, w), F, H, p)
    BY <1>1, DecodeMoves
  <2> QED BY <1>1, <2>1, MovedIsWent DEF Accept
<1>2. CASE w.frame.sub # c.sub /\ c.pending = {}
  <2>1. Moved(c, c, F, H, p)
    BY MovedAtFirst
  <2> QED BY <1>2, <2>1, MovedIsWent DEF Accept
<1>3. CASE w.frame.sub # c.sub /\ c.pending # {}
  <2>1. d = [c EXCEPT !.staged = Append(c.staged, w)]
    BY <1>3 DEF Accept, ClientOK, Clients
  <2>2. c.staged \in Seq(WireSet) /\ c \in Clients
    BY DEF ClientOK, Clients
  <2>3. Append(c.staged, w) \in Seq(WireSet) /\ Len(Append(c.staged, w)) = Len(c.staged) + 1
        /\ \A i \in 1..Len(c.staged) : Append(c.staged, w)[i] = c.staged[i]
        /\ Append(c.staged, w)[Len(c.staged) + 1] = w /\ Len(c.staged) \in Nat
    BY <2>2
  <2> HIDE DEF d
  <2>4. d \in Clients
    BY <2>1, <2>2, <2>3 DEF Clients
  <2>5. d.gen = c.gen /\ d.up = c.up /\ d.sub = c.sub /\ d.view = c.view
        /\ d.dec = c.dec /\ d.pending = c.pending /\ d.applied = c.applied
        /\ d.awaiting = c.awaiting /\ d.flight = c.flight /\ d.staged = Append(c.staged, w)
    BY <2>1, <2>2 DEF Clients
  <2>6. Kept(c, c)
    BY KeptAtFirst
  <2>7. ClientOK(d) /\ Asked(c, d)
    BY <2>4, <2>5, <2>6, <1>3 DEF ClientOK, Kept, Asked
  <2>8. Showing(d, F, H, p) /\ Onward(c.view, d.view)
    <3>1. Moved(c, c, F, H, p)
      BY MovedAtFirst
    <3> QED BY <2>5, <3>1 DEF Moved, Showing, Ahead
  <2>9. StagedIn(d, F)
    BY <2>3, <2>5 DEF StagedIn
  <2>10. Went(c, d, F, H, p) /\ d.sub = c.sub
    BY <2>5, <2>7, <2>8, <2>9 DEF Went
  <2> QED BY <2>10 DEF d
<1> QED BY <1>1, <1>2, <1>3

\* The reply to a subscribe moves the client to a later subscription, where it shows what it
\* has shown, and the wires ws that were kept for it are decoded in their order.
Begins(c, m, d, ws) ==
    /\ ClientOK(d) /\ Asked(c, d)
    /\ d.gen = c.gen /\ d.up = c.up /\ d.view = c.view /\ d.sub = m.sub /\ d.dec = BlankDecoder
    /\ d.flight = None /\ d.status = "live" /\ d.pending = c.pending \ {m.id}
    /\ d.staged = c.staged \/ d.staged = <<>>
    /\ ws \in Seq(WireSet)
    /\ \A i \in 1..Len(ws) : ws[i].frame.sub = m.sub /\ \E k \in 1..Len(c.staged) : ws[i] = c.staged[k]
    /\ \A i, j \in 1..Len(ws) : i < j =>
         \E k, l \in 1..Len(c.staged) : k < l /\ ws[i] = c.staged[k] /\ ws[j] = c.staged[l]
    /\ \A k \in 1..Len(c.staged) : c.staged[k].frame.sub = m.sub =>
         \E i \in 1..Len(ws) : ws[i] = c.staged[k]

\* Activating is that, and the decoding of those wires.
LEMMA ActivateBegins ==
    ASSUME NEW c, ClientOK(c), NEW m \in Replies, m.sub > c.sub
    PROVE  \E d, ws : Begins(c, m, d, ws) /\ Activate(c, m) = DecodeAll(d, ws)
<1> DEFINE rest == c.pending \ {m.id}
           stay == IF rest = {} THEN <<>> ELSE c.staged
           has == m.had /\ m.mode = "resume"
           d == [c EXCEPT !.flight = None, !.status = "live", !.sub = m.sub, !.applied = has,
                          !.awaiting = TRUE, !.dec = BlankDecoder, !.pending = rest,
                          !.staged = stay]
           s == c.staged
           S == { w \in ToSet(s) : w.frame.sub = m.sub }
           ws == Among(s, S)
<1>1. Activate(c, m) = DecodeAll(d, ws)
  BY DEF Activate, ClientOK, Clients
<1>2. c \in Clients /\ s \in Seq(WireSet) /\ c.pending \in SUBSET Nat /\ c.sub \in Nat
      /\ c.up \in Seq(Requests) /\ c.gen \in Nat /\ c.view \in Viewed
  BY DEF ClientOK, Clients, Viewed
<1>3. has \in BOOLEAN /\ m.sub \in Nat /\ rest \in SUBSET Nat /\ stay \in Seq(WireSet)
  BY <1>2 DEF Replies
<1>4. BlankDecoder \in Decoders /\ BlankDecoder.ord = 0 /\ BlankDecoder.settled = 0
  BY DEF BlankDecoder, Decoders
<1> HIDE DEF has, stay, s
<1>5. d \in Clients
  BY <1>2, <1>3, <1>4 DEF Clients
<1>6. d.gen = c.gen /\ d.up = c.up /\ d.sub = m.sub /\ d.view = c.view /\ d.status = "live"
      /\ d.dec = BlankDecoder /\ d.pending = rest /\ d.flight = None /\ d.staged = stay
  BY <1>2 DEF Clients
<1> HIDE DEF d
<1>7. ClientOK(d) /\ Asked(c, d)
  <2>1. m.sub # 0
    BY <1>2, <1>3
  <2>2. rest \subseteq 1..c.gen /\ (stay # <<>> => rest # {})
    BY DEF ClientOK, stay
  <2>3. Kept(c, c)
    BY KeptAtFirst
  <2> HIDE DEF rest
  <2> QED BY <2>1, <2>2, <2>3, <1>4, <1>5, <1>6 DEF ClientOK, Kept, Asked
<1>8. d.staged = c.staged \/ d.staged = <<>>
  BY <1>6 DEF stay, s
<1>9. /\ \A w \in S : w.frame.sub = m.sub
      /\ \A k \in 1..Len(s) : s[k].frame.sub = m.sub => s[k] \in S
  <2>1. \A k \in 1..Len(s) : s[k] \in ToSet(s)
    BY DEF ToSet
  <2> QED BY <2>1
<1> DEFINE Part(x, y) ==
             /\ x \in Seq(WireSet)
             /\ \A i \in 1..Len(x) : x[i] \in S /\ \E k \in 1..Len(y) : x[i] = y[k]
             /\ \A i, j \in 1..Len(x) : i < j =>
                  \E k, l \in 1..Len(y) : k < l /\ x[i] = y[k] /\ x[j] = y[l]
             /\ \A k \in 1..Len(y) : y[k] \in S => \E i \in 1..Len(x) : x[i] = y[k]
<1>10. Part(ws, s)
  <2> HIDE DEF S
  <2> QED BY <1>2, AmongSelects
<1> HIDE DEF ws, S
<1>11. Begins(c, m, d, ws)
  BY <1>6, <1>7, <1>8, <1>9, <1>10 DEF Begins, s
<1> QED BY <1>1, <1>11

\* What they show goes on.
LEMMA ActivateWent ==
    ASSUME NEW c, ClientOK(c), NEW F, NEW H, NEW p, FramesTrue(F, H, p), Showing(c, F, H, p),
           StagedIn(c, F), NEW m \in Replies, m.sub > c.sub
    PROVE  Went(c, Activate(c, m), F, H, p) /\ Activate(c, m).sub = m.sub
<1> DEFINE e == Activate(c, m)
<1>1. PICK d, ws : Begins(c, m, d, ws) /\ e = DecodeAll(d, ws)
  BY ActivateBegins
<1> HIDE DEF e
<1>2. ClientOK(d) /\ Asked(c, d) /\ d.view = c.view /\ d.sub = m.sub /\ d.dec.settled = 0
      /\ (d.staged = c.staged \/ d.staged = <<>>)
  BY <1>1 DEF Begins, BlankDecoder
<1>3. Showing(d, F, H, p)
  <2>1. ASSUME NEW f \in F, Ahead(d, f) PROVE Ahead(c, f)
    <3>1. f.sub \in Nat /\ c.sub \in Nat /\ m.sub \in Nat
      BY DEF FramesTrue, Frames, ClientOK, Clients, Replies
    <3> QED BY <2>1, <3>1, <1>2 DEF Ahead
  <2> QED BY <2>1, <1>2 DEF Showing
<1>4. ws \in Seq(WireSet) /\ \A i \in 1..Len(ws) : ws[i].frame \in F /\ ws[i].frame.sub = d.sub
  <2>1. /\ ws \in Seq(WireSet) /\ d.sub = m.sub
        /\ \A i \in 1..Len(ws) :
             ws[i].frame.sub = m.sub /\ \E l \in 1..Len(c.staged) : ws[i] = c.staged[l]
    BY <1>1 DEF Begins
  <2>2. \A l \in 1..Len(c.staged) : c.staged[l].frame \in F
    BY DEF StagedIn
  <2>3. \A i \in 1..Len(ws) : ws[i].frame \in F
    BY <2>1, <2>2
  <2> QED BY <2>1, <2>3
<1>5. Moved(d, e, F, H, p)
  BY <1>1, <1>2, <1>3, <1>4, DecodeAllMoves
<1>6. ClientOK(e) /\ Asked(c, e) /\ Showing(e, F, H, p) /\ Onward(c.view, e.view)
  BY <1>2, <1>5, AskedOnAndOn DEF Moved
<1>7. StagedIn(e, F)
  <2>1. e.staged = c.staged \/ Len(e.staged) = 0
    BY <1>2, <1>5 DEF Moved
  <2> QED BY <2>1 DEF StagedIn
<1>8. Went(c, e, F, H, p) /\ e.sub = m.sub
  BY <1>2, <1>5, <1>6, <1>7 DEF Went, Moved
<1> QED BY <1>8 DEF e

\* A subscription that is given up shows nothing.
LEMMA GiveUpWent ==
    ASSUME NEW c, ClientOK(c), NEW F, NEW H, NEW p, FramesTrue(F, H, p), Showing(c, F, H, p),
           StagedIn(c, F), NEW m \in Replies
    PROVE  Went(c, GiveUp(c, m), F, H, p) /\ GiveUp(c, m).sub = c.sub
<1> DEFINE rest == c.pending \ {m.id}
           stay == IF rest = {} THEN <<>> ELSE c.staged
           q == [op |-> "unsubscribe", id |-> 0, sub |-> m.sub, base |-> None, force |-> FALSE]
           d == GiveUp(c, m)
<1>1. c \in Clients /\ c.staged \in Seq(WireSet) /\ c.pending \in SUBSET Nat
      /\ c.up \in Seq(Requests) /\ c.gen \in Nat /\ c.view \in Viewed
  BY DEF ClientOK, Clients, Viewed
<1>2. d = [c EXCEPT !.pending = rest, !.staged = stay, !.up = Append(c.up, q)]
  BY <1>1 DEF GiveUp, Clients
<1>3. q \in Requests /\ q.op # "subscribe"
  BY DEF Requests, Replies
<1>4. rest \in SUBSET Nat /\ rest \subseteq 1..c.gen /\ stay \in Seq(WireSet)
      /\ (stay # <<>> => rest # {}) /\ (stay = c.staged \/ Len(stay) = 0)
  BY <1>1 DEF ClientOK
<1> HIDE DEF rest, stay, q, d
<1>5. d.gen = c.gen /\ d.sub = c.sub /\ d.view = c.view /\ d.applied = c.applied
      /\ d.awaiting = c.awaiting /\ d.up = Append(c.up, q)
      /\ d.dec = c.dec /\ d.pending = rest /\ d.flight = c.flight /\ d.staged = stay
  BY <1>1, <1>2 DEF Clients
<1>6. d.up \in Seq(Requests) /\ Asked(c, d)
  <2>1. d.gen \in Nat /\ d.gen >= c.gen
    BY <1>1, <1>5
  <2> QED BY <2>1, <1>3, <1>5, AskedOnce
<1>7. d \in Clients
  <2>1. d = [c EXCEPT !.pending = rest, !.staged = stay, !.up = d.up]
    BY <1>2, <1>5
  <2> QED BY <2>1, <1>1, <1>4, <1>6 DEF Clients
<1>8. ClientOK(d)
  BY <1>4, <1>5, <1>7 DEF ClientOK
<1>9. Showing(d, F, H, p) /\ Onward(c.view, d.view)
  <2>1. Moved(c, c, F, H, p)
    BY MovedAtFirst
  <2> QED BY <2>1, <1>5 DEF Moved, Showing, Ahead
<1>10. StagedIn(d, F)
  BY <1>4, <1>5 DEF StagedIn
<1>11. Went(c, d, F, H, p) /\ d.sub = c.sub
  BY <1>5, <1>6, <1>8, <1>9, <1>10 DEF Went
<1> QED BY <1>11 DEF d

\* The reply to a resync shows nothing.
LEMMA ResyncedKeeps ==
    ASSUME NEW c, ClientOK(c), c.flight # None, NEW m \in Replies
    PROVE  Kept(c, Resynced(c, m))
<1>1. c.sub # 0 /\ c.flight \in Flights
  BY DEF ClientOK, Clients
<1>2. CASE m.op = "notOwned"
  <2> DEFINE e == [c EXCEPT !.flight = None]
  <2>1. Kept(c, e)
    BY <1>1, AnotherFlight
  <2>2. Resynced(c, m) = Connect(e, FALSE)
    BY <1>2 DEF Resynced
  <2> HIDE DEF e
  <2>3. Kept(e, Connect(e, FALSE))
    BY <2>1, ConnectKeeps DEF Kept
  <2> QED BY <2>1, <2>2, <2>3, KeptOnAndOn
<1>3. CASE m.op # "notOwned"
  <2> DEFINE f == [c.flight EXCEPT !.acked = TRUE, !.mode = m.mode]
             e == [c EXCEPT !.flight = f]
  <2>1. f \in Flights /\ f # None
    <3>1. f \in Flights
      BY <1>1 DEF Flights, Replies, Modes
    <3> QED BY <3>1, NoneAssumption
  <2>2. Resynced(c, m) = Settle(e)
    BY <1>3 DEF Resynced, ClientOK, Clients
  <2>3. e.flight = f
    BY DEF ClientOK, Clients
  <2> HIDE DEF f
  <2>4. Kept(c, e)
    BY <1>1, <2>1, AnotherFlight
  <2> HIDE DEF e
  <2>5. Kept(e, Settle(e))
    BY <2>1, <2>3, <2>4, SettleKeeps DEF Kept
  <2> QED BY <2>2, <2>4, <2>5, KeptOnAndOn
<1> QED BY <1>2, <1>3
===============================================================================
