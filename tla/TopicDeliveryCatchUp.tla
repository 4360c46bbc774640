------------------------ MODULE TopicDeliveryCatchUp ------------------------
(***************************************************************************)
(* TopicDelivery, for any number of events and of troubles and any sizes   *)
(* of the log, the buffer and the snapshots: a live client for which       *)
(* nothing is under way shows everything, unless the end was lost.         *)
(***************************************************************************)
EXTENDS TopicDeliveryProofs

(* What the operations of the client ask.                                  *)

\* The view v is at b or after it, in the same numbering or a later one.
Past(b, v) == v # None /\ (b.num < v.num \/ (b.num = v.num /\ b.seq <= v.seq))

\* After its first k requests the client c asks for a subscription of its generation, and
\* for no other after that.
Subscribing(c, k) ==
    \E i \in 1..Len(c.up) :
        /\ i > k /\ c.up[i].op = "subscribe" /\ c.up[i].id = c.gen
        /\ \A j \in 1..Len(c.up) : j > i => c.up[j].op # "subscribe"

\* From c to d the client asks only to go on from what it shows, and gives nothing up; with
\* a new generation it is not live, and waits for the subscription it asks for.
Onto(c, d) ==
    /\ \A i \in 1..Len(d.up) : i > Len(c.up) =>
         d.up[i].op # "unsubscribe" /\ (d.up[i].base # None => Past(d.up[i].base, d.view))
    /\ c.pending \subseteq d.pending
    /\ d.gen = c.gen => (d.status = "live" => c.status = "live")
    /\ d.gen # c.gen => d.status # "live" /\ d.gen \in d.pending /\ Subscribing(d, Len(c.up))

\* The client is live and recovers nothing, or has only to be told that its recovery is over.
AtRest(c) ==
    /\ c.status = "live"
    /\ c.flight = None \/ (c.flight.seen /\ ~c.flight.gap /\ ~c.flight.upgrade)
Seen(c) == c.flight # None /\ c.flight.seen

\* What becomes of the decoder's d when nothing new is assembled: it goes on, or is given up.
GoesOn(d, e) ==
    /\ e.ord # 0 => e.ord = d.ord /\ e.use = d.use
    /\ e.settled = d.settled \/ (d.ord # 0 /\ e.settled = d.ord)

\* From c to d nothing is shown, and the client comes to rest only where it was at rest.
Meek(c, d) ==
    /\ d.view = c.view /\ Onto(c, d) /\ GoesOn(c.dec, d.dec)
    /\ (Seen(d) => Seen(c))
    /\ (AtRest(d) => AtRest(c) /\ d.dec = c.dec)

\* What is asked from c to d and from d to e is asked from c to e.
LEMMA OntoOnAndOn ==
    ASSUME NEW c, NEW d, NEW e, ClientOK(c), ClientOK(d), ClientOK(e), Asked(c, d), Asked(d, e),
           Onto(c, d), Onto(d, e),
           d.view # None => /\ e.view # None
                            /\ d.view.num < e.view.num
                               \/ (d.view.num = e.view.num /\ d.view.seq <= e.view.seq)
    PROVE  Onto(c, e)
<1>1. c.up \in Seq(Requests) /\ d.up \in Seq(Requests) /\ e.up \in Seq(Requests)
      /\ c.gen \in Nat /\ d.gen \in Nat /\ e.gen \in Nat
      /\ d.view \in Views \cup {None} /\ e.view \in Views \cup {None}
  BY DEF ClientOK, Clients
<1>2. /\ Len(c.up) \in Nat /\ Len(d.up) \in Nat /\ Len(e.up) \in Nat
      /\ Len(c.up) <= Len(d.up) /\ Len(d.up) <= Len(e.up)
      /\ c.gen <= d.gen /\ d.gen <= e.gen
      /\ \A i \in 1..Len(d.up) : e.up[i] = d.up[i]
      /\ \A i \in 1..Len(e.up) : i > Len(d.up) /\ e.up[i].op = "subscribe" =>
           e.up[i].id > d.gen /\ e.up[i].id <= e.gen
  BY <1>1 DEF Asked
<1>3. \A i \in 1..Len(e.up) : e.up[i].id \in Nat /\ e.up[i].base \in Bases \cup {None}
  <2>1. \A i \in 1..Len(e.up) : e.up[i] \in Requests
    BY <1>1
  <2> QED BY <2>1 DEF Requests
<1>4. ASSUME NEW b \in Bases, Past(b, d.view)
      PROVE  Past(b, e.view)
  <2>1. d.view \in Views /\ e.view \in Views /\ e.view # None /\ d.view # None
    BY <1>1, <1>4 DEF Past
  <2>2. d.view.num \in Nat /\ e.view.num \in Nat /\ d.view.seq \in Nat /\ e.view.seq \in Nat
        /\ b.num \in Nat /\ b.seq \in Nat
    BY <2>1 DEF Views, Bases
  <2> QED BY <1>4, <2>1, <2>2 DEF Past
<1>5. ASSUME NEW i \in 1..Len(e.up), i > Len(c.up)
      PROVE  e.up[i].op # "unsubscribe" /\ (e.up[i].base # None => Past(e.up[i].base, e.view))
  <2>1. CASE i <= Len(d.up)
    <3>1. i \in 1..Len(d.up) /\ e.up[i] = d.up[i]
      BY <2>1, <1>2
    <3> QED BY <3>1, <1>3, <1>4, <1>5 DEF Onto
  <2>2. CASE i > Len(d.up)
    BY <2>2, <1>5 DEF Onto
  <2> QED BY <2>1, <2>2, <1>2
<1>6. c.pending \subseteq e.pending
  BY DEF Onto
<1>7. CASE e.gen = c.gen
  <2>1. d.gen = c.gen /\ e.gen = d.gen
    BY <1>7, <1>1, <1>2
  <2> QED BY <2>1, <1>5, <1>6, <1>7 DEF Onto
<1>8. CASE e.gen # c.gen /\ e.gen # d.gen
  <2>1. e.status # "live" /\ e.gen \in e.pending
    BY <1>8 DEF Onto
  <2>2. Subscribing(e, Len(d.up))
    BY <1>8 DEF Onto
  <2>3. Subscribing(e, Len(c.up))
    BY <2>2, <1>2 DEF Subscribing
  <2> QED BY <2>1, <2>3, <1>5, <1>6, <1>8 DEF Onto
<1>9. CASE e.gen # c.gen /\ e.gen = d.gen
  <2>1. d.status # "live" /\ d.gen \in d.pending /\ Subscribing(d, Len(c.up))
    BY <1>9 DEF Onto
  <2>2. e.status # "live" /\ e.gen \in e.pending
    BY <2>1, <1>9 DEF Onto
  <2>3. PICK i \in 1..Len(d.up) :
            /\ i > Len(c.up) /\ d.up[i].op = "subscribe" /\ d.up[i].id = d.gen
            /\ \A j \in 1..Len(d.up) : j > i => d.up[j].op # "subscribe"
    BY <2>1 DEF Subscribing
  <2>4. i \in 1..Len(e.up) /\ e.up[i] = d.up[i]
    BY <1>2
  <2>5. ASSUME NEW j \in 1..Len(e.up), j > i
        PROVE  e.up[j].op # "subscribe"
    <3>1. CASE j <= Len(d.up)
      <4>1. j \in 1..Len(d.up) /\ e.up[j] = d.up[j]
        BY <3>1, <1>2
      <4> QED BY <4>1, <2>3, <2>5
    <3>2. CASE j > Len(d.up)
      BY <3>2, <1>1, <1>2, <1>3, <1>9
    <3> QED BY <3>1, <3>2, <1>2
  <2>6. Subscribing(e, Len(c.up))
    BY <2>3, <2>4, <2>5, <1>9 DEF Subscribing
  <2> QED BY <2>2, <2>6, <1>5, <1>6, <1>9 DEF Onto
<1> QED BY <1>7, <1>8, <1>9

\* Two meek steps are one,
LEMMA MeekOnAndOn ==
    ASSUME NEW c, NEW d, NEW e, ClientOK(c), Kept(c, d), Kept(d, e), Meek(c, d), Meek(d, e)
    PROVE  Meek(c, e)
<1>1. ClientOK(d) /\ ClientOK(e) /\ Asked(c, d) /\ Asked(d, e)
  BY DEF Kept
<1>2. Onto(c, e)
  <2>1. d.view # None => d.view.num = e.view.num /\ d.view.seq <= e.view.seq /\ e.view # None
    <3>1. d.view \in Views \cup {None} /\ e.view = d.view
      BY <1>1 DEF ClientOK, Clients, Meek
    <3> QED BY <3>1 DEF Views
  <2> QED BY <2>1, <1>1, OntoOnAndOn DEF Meek
<1>3. GoesOn(c.dec, e.dec)
  BY DEF Meek, GoesOn
<1> QED BY <1>2, <1>3 DEF Meek

\* and a client that asks nothing, is not live again and assembles as before is meek.
LEMMA MeekAlone ==
    ASSUME NEW c, ClientOK(c), NEW d, d.up = c.up, d.gen = c.gen, d.pending = c.pending,
           d.view = c.view, d.dec = c.dec,
           d.status = "live" => c.status = "live",
           Seen(d) => Seen(c), AtRest(d) => AtRest(c)
    PROVE  Meek(c, d)
<1>1. c.up \in Seq(Requests)
  BY DEF ClientOK, Clients
<1>2. \A i \in 1..Len(d.up) : ~(i > Len(c.up))
  BY <1>1
<1> QED BY <1>2 DEF Meek, Onto, GoesOn

\* A step that does nothing is meek.
LEMMA MeekAtFirst == ASSUME NEW c, ClientOK(c) PROVE Meek(c, c)
BY MeekAlone

\* One more request.
LEMMA OntoOnce ==
    ASSUME NEW c, ClientOK(c), NEW d, NEW m, d.up = Append(c.up, m),
           m.op # "unsubscribe", m.base # None => Past(m.base, d.view),
           c.pending \subseteq d.pending,
           d.gen = c.gen => (d.status = "live" => c.status = "live"),
           d.gen # c.gen => /\ d.status # "live" /\ d.gen \in d.pending
                            /\ m.op = "subscribe" /\ m.id = d.gen
    PROVE  Onto(c, d)
<1>1. c.up \in Seq(Requests)
  BY DEF ClientOK, Clients
<1>2. Len(c.up) \in Nat /\ Len(d.up) = Len(c.up) + 1 /\ d.up[Len(c.up) + 1] = m
  BY <1>1
<1>3. \A i \in 1..Len(d.up) : i > Len(c.up) => i = Len(c.up) + 1
  BY <1>2
<1>4. d.gen # c.gen => Subscribing(d, Len(c.up))
  <2> SUFFICES ASSUME d.gen # c.gen PROVE Subscribing(d, Len(c.up))
    OBVIOUS
  <2> DEFINE k == Len(c.up) + 1
  <2>1. k \in 1..Len(d.up) /\ k > Len(c.up) /\ d.up[k].op = "subscribe" /\ d.up[k].id = d.gen
    BY <1>2
  <2>2. \A j \in 1..Len(d.up) : j > k => d.up[j].op # "subscribe"
    BY <1>2
  <2> HIDE DEF k
  <2> QED BY <2>1, <2>2 DEF Subscribing
<1> QED BY <1>2, <1>3, <1>4 DEF Onto

-----------------------------------------------------------------------------
(* Operations of the store that show nothing.                              *)

\* A new generation asks from what is shown, and is at rest no more.
LEMMA ConnectMeek ==
    ASSUME NEW c, ClientOK(c), NEW force \in BOOLEAN
    PROVE  Meek(c, Connect(c, force)) /\ ~AtRest(Connect(c, force))
<1> DEFINE base == IF force THEN None ELSE Base(c)
           m == [op |-> "subscribe", id |-> c.gen + 1, sub |-> 0, base |-> base, force |-> force]
           d == Connect(c, force)
<1>1. c.gen \in Nat /\ c.view \in Views \cup {None} /\ c.dec \in Decoders
  BY DEF ClientOK, Clients
<1>2. /\ d.gen = c.gen + 1 /\ d.up = Append(c.up, m) /\ d.view = c.view /\ d.dec = c.dec
      /\ d.flight = None /\ d.status = "connecting" /\ d.pending = c.pending \cup {c.gen + 1}
  BY DEF ClientOK, Clients, Connect
<1>3. m.base # None => Past(m.base, d.view)
  BY <1>1, <1>2 DEF Base, Past, Views
<1>4. m.op = "subscribe" /\ m.id = d.gen
  BY <1>2
<1> HIDE DEF m, d
<1>5. Onto(c, d)
  BY <1>1, <1>2, <1>3, <1>4, OntoOnce
<1>6. Meek(c, d) /\ ~AtRest(d)
  BY <1>2, <1>5 DEF Meek, GoesOn, Seen, AtRest
<1> QED BY <1>6 DEF d

\* A resync asks from what is shown; until its frame has come the client is not at rest.
LEMMA IssueMeek ==
    ASSUME NEW c, ClientOK(c), c.flight # None, NEW force \in BOOLEAN
    PROVE  Meek(c, Issue(c, force)) /\ ~AtRest(Issue(c, force))
<1> DEFINE snapshot == force \/ ~c.applied
           base == IF c.applied THEN Base(c) ELSE None
           m == [op |-> "resync", id |-> c.flight.id, sub |-> c.sub, base |-> base,
                 force |-> snapshot]
           f == [c.flight EXCEPT !.acked = FALSE, !.seen = FALSE, !.gap = FALSE,
                                 !.upgrade = FALSE, !.mode = None, !.force = snapshot]
           d == Issue(c, force)
<1>1. c.view \in Views \cup {None} /\ c.dec \in Decoders /\ c.flight \in Flights
  BY DEF ClientOK, Clients
<1>2. /\ d.gen = c.gen /\ d.up = Append(c.up, m) /\ d.view = c.view /\ d.dec = Opened(c.dec)
      /\ d.flight = f /\ d.status = c.status /\ d.pending = c.pending
  BY DEF ClientOK, Clients, Issue
<1>3. m.base # None => Past(m.base, d.view)
  BY <1>1, <1>2 DEF Base, Past, Views
<1>4. m.op # "unsubscribe"
  OBVIOUS
<1>5. f \in Flights /\ ~f.seen /\ f # None
  <2>1. f \in Flights
    BY <1>1 DEF Flights, Modes, ClientOK, Clients
  <2> QED BY <2>1, <1>1, NoneAssumption DEF Flights
<1>6. GoesOn(c.dec, Opened(c.dec))
  <2> DEFINE a == c.dec
  <2>1. CASE a.ord = 0
    <3>1. Opened(a) = [a EXCEPT !.closed = FALSE]
      BY <2>1 DEF Opened, Abort
    <3> QED BY <3>1, <2>1, <1>1 DEF GoesOn, Decoders
  <2>2. CASE a.ord # 0
    <3>1. Opened(a).ord = 0 /\ Opened(a).settled = a.ord
      BY <2>2, <1>1 DEF Opened, Abort, Release, Decoders
    <3> QED BY <3>1, <2>2 DEF GoesOn
  <2> QED BY <2>1, <2>2
<1> HIDE DEF m, d, f
<1>7. Onto(c, d)
  BY <1>2, <1>3, <1>4, OntoOnce
<1>8. Meek(c, d) /\ ~AtRest(d)
  BY <1>2, <1>5, <1>6, <1>7 DEF Meek, Seen, AtRest
<1> QED BY <1>8 DEF d

\* A client whose recovery has failed is not live.
LEMMA FailMeek ==
    ASSUME NEW c, ClientOK(c)
    PROVE  Meek(c, Fail(c)) /\ ~AtRest(Fail(c))
<1> DEFINE d == Fail(c)
<1>1. /\ d.gen = c.gen /\ d.up = c.up /\ d.view = c.view /\ d.dec = c.dec
      /\ d.flight = None /\ d.status = "error" /\ d.pending = c.pending
  BY DEF ClientOK, Clients, Fail
<1> HIDE DEF d
<1>2. ~AtRest(d) /\ ~Seen(d)
  BY <1>1 DEF AtRest, Seen
<1>3. Meek(c, d)
  BY <1>1, <1>2, MeekAlone
<1> QED BY <1>2, <1>3 DEF d

\* A client that changes nothing but its flight.
LEMMA FlightMeek ==
    ASSUME NEW c, ClientOK(c), NEW f, NEW d, d = [c EXCEPT !.flight = f],
           Seen(d) => Seen(c), AtRest(d) => AtRest(c)
    PROVE  Meek(c, d) /\ d.flight = f /\ d.status = c.status
<1>1. /\ d.gen = c.gen /\ d.up = c.up /\ d.view = c.view /\ d.dec = c.dec
      /\ d.flight = f /\ d.status = c.status /\ d.pending = c.pending
  BY DEF ClientOK, Clients
<1> QED BY <1>1, MeekAlone

\* A recovery that begins is not at rest.
LEMMA NewFlightMeek ==
    ASSUME NEW c, ClientOK(c), c.sub # 0
    PROVE  Meek(c, NewFlight(c))
<1> DEFINE f == [id |-> c.flights + 1, acked |-> FALSE, mode |-> None, seen |-> FALSE,
                 upgrade |-> FALSE, force |-> FALSE, gap |-> FALSE]
           d == NewFlight(c)
<1>1. /\ d.gen = c.gen /\ d.up = c.up /\ d.view = c.view /\ d.dec = c.dec
      /\ d.flight = f /\ d.status = c.status /\ d.pending = c.pending
  BY DEF ClientOK, Clients, NewFlight
<1>2. f # None /\ ~f.seen
  BY <1>1, NewFlightKeeps
<1> HIDE DEF d, f
<1>3. ~AtRest(d) /\ ~Seen(d)
  BY <1>1, <1>2 DEF AtRest, Seen
<1>4. Meek(c, d)
  BY <1>1, <1>3, MeekAlone
<1> QED BY <1>4 DEF d

\* A recovery that is asked for is not over; nor is one that is asked for again.
LEMMA RequestRecoveryMeek ==
    ASSUME NEW c, ClientOK(c), c.sub # 0, NEW again \in BOOLEAN, NEW content \in BOOLEAN
    PROVE  LET d == RequestRecovery(c, again, content) IN
           Meek(c, d) /\ (again \/ ~Seen(c) => ~AtRest(d))
<1> DEFINE d == RequestRecovery(c, again, content)
<1>0. c.flight \in Flights \cup {None}
  BY DEF ClientOK, Clients
<1>1. CASE c.flight = None
  <2> DEFINE g == NewFlight(c)
  <2>1. d = Issue(g, content)
    BY <1>1 DEF RequestRecovery
  <2>2. Kept(c, g) /\ g.flight # None /\ Meek(c, g) /\ ClientOK(g)
    BY NewFlightKeeps, NewFlightMeek DEF Kept
  <2> HIDE DEF d, g
  <2>3. Kept(g, d) /\ Meek(g, d) /\ ~AtRest(d)
    BY <2>1, <2>2, IssueKeeps, IssueMeek
  <2>4. Meek(c, d)
    BY <2>2, <2>3, MeekOnAndOn
  <2> QED BY <2>3, <2>4 DEF d
<1>2. CASE c.flight # None /\ ~again
  <2>1. d = c
    BY <1>2 DEF RequestRecovery
  <2> HIDE DEF d
  <2>2. Meek(c, d) /\ (~Seen(c) => ~AtRest(d))
    BY <2>1, <1>2, MeekAtFirst DEF Seen, AtRest
  <2> QED BY <2>2, <1>2 DEF d
<1>3. CASE c.flight # None /\ again /\ ~c.flight.force /\ ~c.flight.acked
  <2> DEFINE f == [c.flight EXCEPT !.upgrade = TRUE]
  <2>1. d = [c EXCEPT !.flight = f]
    BY <1>3 DEF RequestRecovery, ClientOK, Clients
  <2>2. f.upgrade /\ f.seen = c.flight.seen /\ f # None
    BY <1>0, <1>3, NoneAssumption DEF Flights
  <2>3. d.flight = f /\ d.status = c.status
    BY <2>1 DEF ClientOK, Clients
  <2> HIDE DEF d, f
  <2>4. ~AtRest(d) /\ (Seen(d) => Seen(c))
    BY <2>2, <2>3, <1>3 DEF AtRest, Seen
  <2>5. Meek(c, d)
    BY <2>1, <2>4, FlightMeek
  <2> QED BY <2>4, <2>5 DEF d
<1>4. CASE c.flight # None /\ again /\ (c.flight.force \/ c.flight.acked)
  <2>1. d \in {Fail(c), Issue(c, TRUE)}
    BY <1>4 DEF RequestRecovery
  <2> HIDE DEF d
  <2>2. Meek(c, d) /\ ~AtRest(d)
    BY <2>1, <1>4, FailMeek, IssueMeek
  <2> QED BY <2>2 DEF d
<1> QED BY <1>1, <1>2, <1>3, <1>4

\* Whatever settleFlight decides, the client comes to rest only when its recovery is over.
LEMMA SettleMeek ==
    ASSUME NEW c, ClientOK(c), c.flight # None
    PROVE  Meek(c, Settle(c))
<1> DEFINE d == Settle(c)
<1>1. CASE d \in {Fail(c), Issue(c, TRUE), Issue(c, FALSE)}
  <2> HIDE DEF d
  <2>1. Meek(c, d)
    BY <1>1, FailMeek, IssueMeek
  <2> QED BY <2>1 DEF d
<1>2. CASE d = c
  BY <1>2, MeekAtFirst
<1>3. CASE d = [c EXCEPT !.flight = None] /\ c.flight.seen /\ ~c.flight.gap /\ ~c.flight.upgrade
  <2>1. d.flight = None /\ d.status = c.status
    BY <1>3 DEF ClientOK, Clients
  <2>2. d = [c EXCEPT !.flight = None]
    BY <1>3
  <2> HIDE DEF d
  <2>3. ~Seen(d) /\ (AtRest(d) => AtRest(c))
    BY <2>1, <1>3 DEF Seen, AtRest
  <2>4. Meek(c, d)
    BY <2>2, <2>3, FlightMeek
  <2> QED BY <2>4 DEF d
<1> QED BY <1>1, <1>2, <1>3 DEF Settle

\* The store may stop waiting for the initial frame.
LEMMA AwaitingMeek ==
    ASSUME NEW c, ClientOK(c), NEW b, NEW d, d = [c EXCEPT !.awaiting = c.awaiting /\ b]
    PROVE  Meek(c, d) /\ d.flight = c.flight /\ d.view = c.view /\ d.sub = c.sub /\ d.dec = c.dec
<1>1. /\ d.gen = c.gen /\ d.up = c.up /\ d.view = c.view /\ d.dec = c.dec /\ d.sub = c.sub
      /\ d.flight = c.flight /\ d.status = c.status /\ d.pending = c.pending
  BY DEF ClientOK, Clients
<1>2. (Seen(d) => Seen(c)) /\ (AtRest(d) => AtRest(c))
  BY <1>1 DEF Seen, AtRest
<1> QED BY <1>1, <1>2, MeekAlone

\* What has been dropped beside a recovery whose frame was seen keeps it from being over.
LEMMA BesideMeek ==
    ASSUME NEW c, ClientOK(c), c.flight # None
    PROVE  Meek(c, Beside(c)) /\ ~AtRest(Beside(c))
<1> DEFINE g == c.flight.gap \/ c.flight.seen
           f == [c.flight EXCEPT !.gap = g]
           d == Beside(c)
<1>1. c.flight \in Flights
  BY DEF ClientOK, Clients
<1>2. d = [c EXCEPT !.flight = f] /\ d.flight = f
  BY <1>1 DEF Beside, ClientOK, Clients, Flights
<1>3. g \in BOOLEAN /\ (c.flight.seen => g)
  BY <1>1 DEF Flights
<1> HIDE DEF g
<1>4. f \in Flights /\ f.seen = c.flight.seen /\ f.gap = g
  BY <1>1, <1>3 DEF Flights
<1>5. f # None
  BY <1>4, NoneAssumption
<1> HIDE DEF f, d
<1>6. ~AtRest(d) /\ (Seen(d) => Seen(c))
  BY <1>2, <1>3, <1>4, <1>5 DEF AtRest, Seen
<1>7. Meek(c, d)
  BY <1>2, <1>6, FlightMeek
<1> QED BY <1>6, <1>7 DEF d

\* After a fault the client is not at rest: what was lost will be asked for.
LEMMA HandleFaultMeek ==
    ASSUME NEW c, ClientOK(c), c.sub # 0, NEW use \in {"initial", "online", "recovery"},
           NEW content \in BOOLEAN, use = "initial" => ~Seen(c)
    PROVE  LET d == HandleFault(c, use, content) IN Meek(c, d) /\ ~AtRest(d)
<1> DEFINE a == [c EXCEPT !.awaiting = c.awaiting /\ use = "online"]
           again == (use = "recovery")
           d == HandleFault(c, use, content)
<1>1. Kept(c, a) /\ ClientOK(a)
  BY AwaitingKeeps DEF Kept
<1>2. Meek(c, a) /\ a.flight = c.flight /\ a.sub = c.sub
  BY AwaitingMeek
<1>3. \/ d = RequestRecovery(a, TRUE, TRUE)
      \/ a.flight # None /\ d = Beside(a)
      \/ d = RequestRecovery(a, again, FALSE) /\ (use = "online" => a.flight = None)
  BY DEF HandleFault
<1>4. again \in BOOLEAN /\ (~again /\ (use = "online" => a.flight = None) => ~Seen(a))
  BY <1>2 DEF Seen
<1> HIDE DEF a, d, again
<1>5. Kept(a, d) /\ Meek(a, d) /\ ~AtRest(d)
  <2>1. CASE d = RequestRecovery(a, TRUE, TRUE)
    BY <2>1, <1>1, <1>2, RequestRecoveryKeeps, RequestRecoveryMeek
  <2>2. CASE a.flight # None /\ d = Beside(a)
    BY <2>2, <1>1, BesideKeeps, BesideMeek
  <2>3. CASE d = RequestRecovery(a, again, FALSE) /\ (use = "online" => a.flight = None)
    BY <2>3, <1>1, <1>2, <1>4, RequestRecoveryKeeps, RequestRecoveryMeek
  <2> QED BY <1>3, <2>1, <2>2, <2>3
<1>6. Meek(c, d)
  BY <1>1, <1>2, <1>5, MeekOnAndOn
<1> QED BY <1>5, <1>6 DEF d

-----------------------------------------------------------------------------
(* Frames.                                                                 *)

\* From c to d the frame f has been handled.  If the client is at rest then it shows
\* what f brings.
Rested(c, f, d) ==
    /\ Onto(c, d) /\ GoesOn(c.dec, d.dec)
    /\ Seen(d) => d.view # None /\ (Seen(c) \/ f.use = "recovery")
    /\ AtRest(d) =>
         /\ d.dec = c.dec /\ (AtRest(c) \/ f.use = "recovery")
         /\ d.view # None /\ d.view.seq >= f.to
         /\ f.kind = "snapshot" => d.view.num = f.num
         /\ f.kind = "deltas" => c.view # None /\ d.view.num = c.view.num

\* The frame of a recovery is seen.
LEMMA RecoverySeenMeek ==
    ASSUME NEW c, ClientOK(c), NEW f
    PROVE  LET d == RecoverySeen(c, f) IN
           /\ d.view = c.view /\ Onto(c, d) /\ GoesOn(c.dec, d.dec)
           /\ Seen(d) => Seen(c) \/ f.use = "recovery"
           /\ AtRest(d) => d.dec = c.dec /\ (AtRest(c) \/ f.use = "recovery")
<1> DEFINE d == RecoverySeen(c, f)
<1>1. CASE f.use # "recovery" \/ c.flight = None
  <2>1. d = c
    BY <1>1 DEF RecoverySeen
  <2> HIDE DEF d
  <2>2. Meek(c, d)
    BY <2>1, MeekAtFirst
  <2> QED BY <2>2 DEF d, Meek
<1>2. CASE f.use = "recovery" /\ c.flight # None
  <2> DEFINE h == [c.flight EXCEPT !.seen = TRUE]
             g == [c EXCEPT !.flight = h]
  <2>1. c.flight \in Flights /\ c.sub # 0
    BY <1>2 DEF ClientOK, Clients
  <2>2. h \in Flights /\ h # None
    BY <2>1, NoneAssumption DEF Flights
  <2>3. d = Settle(g)
    BY <1>2 DEF RecoverySeen, ClientOK, Clients
  <2>4. /\ g.gen = c.gen /\ g.up = c.up /\ g.view = c.view /\ g.dec = c.dec
        /\ g.flight = h /\ g.status = c.status /\ g.pending = c.pending
    BY DEF ClientOK, Clients
  <2>5. Kept(c, g)
    BY <2>1, <2>2, AnotherFlight
  <2> HIDE DEF g, h, d
  <2>6. Kept(g, d) /\ Meek(g, d) /\ ClientOK(g)
    BY <2>2, <2>3, <2>4, <2>5, SettleKeeps, SettleMeek DEF Kept
  <2>7. Onto(c, g)
    <3>1. c.up \in Seq(Requests)
      BY DEF ClientOK, Clients
    <3>2. \A i \in 1..Len(g.up) : ~(i > Len(c.up))
      BY <3>1, <2>4
    <3> QED BY <3>2, <2>4 DEF Onto
  <2>8. Onto(c, d)
    <3>1. d.view = g.view /\ ClientOK(d) /\ Asked(c, g) /\ Asked(g, d) /\ Onto(g, d)
      BY <2>5, <2>6 DEF Kept, Meek
    <3>2. g.view # None => d.view # None /\ g.view.num = d.view.num /\ g.view.seq <= d.view.seq
      <4>1. g.view \in Views \cup {None}
        BY <2>6 DEF ClientOK, Clients
      <4> QED BY <3>1, <4>1 DEF Views
    <3> QED BY <3>1, <3>2, <2>6, <2>7, OntoOnAndOn
  <2>9. d.view = c.view /\ GoesOn(c.dec, d.dec) /\ (AtRest(d) => d.dec = c.dec)
    BY <2>4, <2>6 DEF Meek
  <2> QED BY <2>8, <2>9, <1>2 DEF d
<1> QED BY <1>1, <1>2

\* A frame that is shown is shown,
LEMMA ShownRests ==
    ASSUME NEW c, ClientOK(c), c.sub # 0, NEW f \in Frames, NEW w, Shown(c.view, f, w),
           NEW s, s = [c EXCEPT !.view = w, !.applied = TRUE]
    PROVE  Rested(c, f, RecoverySeen(s, f))
<1> DEFINE d == RecoverySeen(s, f)
<1>0. Took(c, f, s)
  BY AnotherView
<1>1. ClientOK(s) /\ Asked(c, s)
  BY <1>0 DEF Took
<1>2. /\ s.gen = c.gen /\ s.up = c.up /\ s.view = w /\ s.dec = c.dec
      /\ s.flight = c.flight /\ s.status = c.status /\ s.pending = c.pending
  BY DEF ClientOK, Clients
<1>3. w \in Views /\ w # None /\ w.seq \in Nat /\ f.to \in Nat /\ w.num \in Nat
  <2>1. w \in Views
    BY ShownIsView DEF ClientOK, Clients
  <2> QED BY <2>1, NoneAssumption DEF Views, Frames
<1>4. /\ w.seq = f.to
      /\ f.kind = "snapshot" => w.num = f.num
      /\ f.kind = "deltas" => c.view # None /\ w.num = c.view.num
  <2>1. CASE f.kind = "snapshot" /\ w = [seq |-> f.to, rows |-> f.rows, num |-> f.num]
    BY <2>1
  <2>2. CASE /\ f.kind = "deltas" /\ c.view # None
             /\ w = [seq |-> f.to, rows |-> c.view.rows \o f.rows, num |-> c.view.num]
    BY <2>2
  <2> QED BY <2>1, <2>2 DEF Shown
<1>5. Kept(s, d) /\ ClientOK(d) /\ Asked(s, d)
  BY <1>1, RecoverySeenKeeps DEF Kept
<1>6. /\ d.view = s.view /\ Onto(s, d) /\ GoesOn(s.dec, d.dec)
      /\ Seen(d) => Seen(s) \/ f.use = "recovery"
      /\ AtRest(d) => d.dec = s.dec /\ (AtRest(s) \/ f.use = "recovery")
  BY <1>1, RecoverySeenMeek
<1> HIDE DEF d
<1>7. Onto(c, s)
  <2>1. c.up \in Seq(Requests)
    BY DEF ClientOK, Clients
  <2>2. \A i \in 1..Len(s.up) : ~(i > Len(c.up))
    BY <2>1, <1>2
  <2> QED BY <2>2, <1>2 DEF Onto
<1>8. Onto(c, d)
  <2>1. s.view # None => d.view # None /\ s.view.num = d.view.num /\ s.view.seq <= d.view.seq
    BY <1>2, <1>3, <1>6
  <2> QED BY <2>1, <1>1, <1>5, <1>6, <1>7, OntoOnAndOn
<1>9. (Seen(s) => Seen(c)) /\ (AtRest(s) => AtRest(c))
  BY <1>2 DEF Seen, AtRest
<1>10. Rested(c, f, d)
  <2>1. d.view = w /\ GoesOn(c.dec, d.dec) /\ d.view.seq >= f.to
    BY <1>2, <1>3, <1>4, <1>6
  <2> QED BY <2>1, <1>2, <1>3, <1>4, <1>6, <1>8, <1>9 DEF Rested
<1> QED BY <1>10 DEF d

\* one that need not be shown was covered,
LEMMA CoveredRests ==
    ASSUME NEW c, ClientOK(c), NEW f \in Frames, NEW d, Onto(c, d), GoesOn(c.dec, d.dec),
           d.view = c.view, c.view # None, f.to <= c.view.seq, f.kind = "deltas",
           Seen(d) => Seen(c) \/ f.use = "recovery",
           AtRest(d) => d.dec = c.dec /\ (AtRest(c) \/ f.use = "recovery")
    PROVE  Rested(c, f, d)
<1>1. c.view \in Views
  BY DEF ClientOK, Clients
<1>2. d.view.seq >= f.to
  BY <1>1 DEF Views, Frames
<1> QED BY <1>2 DEF Rested

\* and a client that does not come to rest does what has to be done.
LEMMA RestlessRests ==
    ASSUME NEW c, NEW f, NEW d, Meek(c, d), ~AtRest(d), Seen(c) => c.view # None
    PROVE  Rested(c, f, d)
BY DEF Meek, Rested

\* Applying a frame shows what it brings, or asks for it.
LEMMA ApplyRests ==
    ASSUME NEW c, ClientOK(c), c.sub # 0, NEW f \in Frames, NEW initial \in BOOLEAN,
           Seen(c) => c.view # None,
           f.kind = "deltas" /\ f.use # "recovery" => ~Seen(c)
    PROVE  Rested(c, f, Apply(c, f, initial))
<1> DEFINE d == Apply(c, f, initial)
           w == [seq |-> f.to, rows |-> f.rows, num |-> f.num]
           x == [seq |-> f.to, rows |-> c.view.rows \o f.rows, num |-> c.view.num]
           s == [c EXCEPT !.view = w, !.applied = TRUE]
           t == [c EXCEPT !.view = x, !.applied = TRUE]
<1>0. f.kind \in {"snapshot", "deltas"} /\ f.to \in Nat /\ c.view \in Views \cup {None}
  BY DEF Frames, ClientOK, Clients
<1>1. CASE f.kind = "snapshot"
  <2>1. d = RecoverySeen(s, f)
    BY <1>1 DEF Apply
  <2>2. Shown(c.view, f, w)
    BY <1>1 DEF Shown
  <2> HIDE DEF d, s, w
  <2>3. Rested(c, f, d)
    BY <2>1, <2>2, ShownRests DEF s
  <2> QED BY <2>3 DEF d
<1>2. CASE f.kind # "snapshot" /\ c.view # None /\ f.to <= c.view.seq
  <2>1. d = RecoverySeen(c, f) /\ f.kind = "deltas"
    BY <1>0, <1>2 DEF Apply
  <2> HIDE DEF d
  <2>2. Rested(c, f, d)
    BY <2>1, <1>2, RecoverySeenMeek, CoveredRests
  <2> QED BY <2>2 DEF d
<1>3. CASE f.kind # "snapshot" /\ c.view # None /\ ~(f.to <= c.view.seq) /\ f.from = c.view.seq
  <2>1. d = RecoverySeen(t, f)
    BY <1>3 DEF Apply, ClientOK, Clients
  <2>2. Shown(c.view, f, x)
    <3>1. f.to > c.view.seq
      BY <1>0, <1>3 DEF Views
    <3> QED BY <3>1, <1>0, <1>3 DEF Shown
  <2> HIDE DEF d, t, x
  <2>3. Rested(c, f, d)
    BY <2>1, <2>2, ShownRests DEF t
  <2> QED BY <2>3 DEF d
<1>4. CASE f.kind # "snapshot"
           /\ ~(c.view # None /\ (f.to <= c.view.seq \/ f.from = c.view.seq))
  <2> DEFINE again == (f.use = "recovery")
  <2>1. d \in {Connect(c, TRUE), RequestRecovery(c, again, FALSE)}
    BY <1>4 DEF Apply
  <2>2. again \in BOOLEAN /\ (again \/ ~Seen(c))
    BY <1>0, <1>4
  <2> HIDE DEF again, d
  <2>3. Meek(c, d) /\ ~AtRest(d)
    BY <2>1, <2>2, ConnectMeek, RequestRecoveryMeek
  <2>4. Rested(c, f, d)
    BY <2>3, RestlessRests
  <2> QED BY <2>4 DEF d
<1> QED BY <1>1, <1>2, <1>3, <1>4

\* So does handling it.
LEMMA HandleFrameRests ==
    ASSUME NEW c, ClientOK(c), c.sub # 0, NEW f \in Frames,
           Seen(c) => c.view # None, f.use = "initial" => ~Seen(c)
    PROVE  Rested(c, f, HandleFrame(c, f))
<1> DEFINE initial == f.use = "initial" /\ c.awaiting
           a == [c EXCEPT !.awaiting = c.awaiting /\ f.use = "online"]
           again == (f.use = "recovery")
           known == IF a.view = None THEN 0 ELSE a.view.seq
           d == HandleFrame(c, f)
<1>1. Kept(c, a) /\ ClientOK(a)
  BY AwaitingKeeps DEF Kept
<1>2. Meek(c, a) /\ a.flight = c.flight /\ a.sub = c.sub /\ a.view = c.view /\ a.dec = c.dec
  BY AwaitingMeek
<1>3. initial \in BOOLEAN /\ again \in BOOLEAN /\ f.use \in {"initial", "online", "recovery"}
      /\ f.kind \in {"snapshot", "deltas"} /\ f.to \in Nat
  BY DEF ClientOK, Clients, Frames
<1>4. \/ a.flight # None /\ d = Beside(a)
      \/ d = a /\ f.kind = "deltas" /\ f.to <= known /\ a.flight # None
      \/ d = RequestRecovery(a, again, FALSE) /\ (again \/ f.use = "initial" \/ a.flight = None)
      \/ d = Apply(a, f, initial) /\ (f.kind = "deltas" => again \/ f.use = "initial" \/ a.flight = None)
  <2>1. known \in Nat
    BY <1>1 DEF ClientOK, Clients, Views
  <2>2. d = IF f.use = "online" /\ a.flight # None /\ f.kind = "deltas"
            THEN IF f.to > known THEN Beside(a) ELSE a
            ELSE IF f.kind = "deltas" /\ ~a.applied THEN RequestRecovery(a, again, FALSE)
            ELSE Apply(a, f, initial)
    BY DEF HandleFrame
  <2>3. f.use = "online" \/ f.use = "initial" \/ again
    BY <1>3
  <2> DEFINE p == RequestRecovery(a, again, FALSE)
             q == Apply(a, f, initial)
  <2>4. d = IF f.use = "online" /\ a.flight # None /\ f.kind = "deltas"
            THEN IF f.to > known THEN Beside(a) ELSE a
            ELSE IF f.kind = "deltas" /\ ~a.applied THEN p ELSE q
    BY <2>2
  <2>5. f.to > known \/ f.to <= known
    BY <1>3, <2>1
  <2> HIDE DEF a, d, initial, again, known, p, q
  <2>6. CASE f.use = "online" /\ a.flight # None /\ f.kind = "deltas"
    BY <2>4, <2>5, <2>6
  <2>7. CASE ~(f.use = "online" /\ a.flight # None /\ f.kind = "deltas")
    <3>1. d \in {p, q}
      BY <2>4, <2>7
    <3> QED BY <3>1, <2>3, <2>4, <2>7 DEF p, q
  <2> QED BY <2>6, <2>7
<1>5. /\ Seen(a) => a.view # None
      /\ again \/ f.use = "initial" \/ a.flight = None => again \/ ~Seen(a)
  BY <1>2 DEF Seen
<1> HIDE DEF a, d, initial, again
<1>6. CASE a.flight # None /\ d = Beside(a)
  <2>1. Kept(a, d) /\ Meek(a, d) /\ ~AtRest(d)
    BY <1>1, <1>6, BesideKeeps, BesideMeek
  <2>2. Rested(c, f, d)
    BY <1>1, <1>2, <2>1, MeekOnAndOn, RestlessRests
  <2> QED BY <2>2 DEF d
<1>7. CASE d = a /\ f.kind = "deltas" /\ f.to <= known /\ a.flight # None
  <2>1. CASE AtRest(d)
    <3>1. Seen(d) /\ a.view # None /\ f.to <= c.view.seq /\ c.view # None
      BY <2>1, <1>2, <1>5, <1>7 DEF AtRest, Seen
    <3>2. Rested(c, f, d)
      BY <3>1, <1>2, <1>7, CoveredRests DEF Meek
    <3> QED BY <3>2 DEF d
  <2>2. CASE ~AtRest(d)
    <3>1. Rested(c, f, d)
      BY <2>2, <1>2, <1>7, RestlessRests
    <3> QED BY <3>1 DEF d
  <2> QED BY <2>1, <2>2
<1>8. CASE d = RequestRecovery(a, again, FALSE) /\ (again \/ f.use = "initial" \/ a.flight = None)
  <2>1. Kept(a, d) /\ Meek(a, d) /\ ~AtRest(d)
    BY <1>1, <1>2, <1>3, <1>5, <1>8, RequestRecoveryKeeps, RequestRecoveryMeek
  <2>2. Rested(c, f, d)
    BY <1>1, <1>2, <2>1, MeekOnAndOn, RestlessRests
  <2> QED BY <2>2 DEF d
<1>9. CASE /\ d = Apply(a, f, initial)
           /\ f.kind = "deltas" => again \/ f.use = "initial" \/ a.flight = None
  <2>1. f.kind = "deltas" /\ f.use # "recovery" => ~Seen(a)
    BY <1>5, <1>9 DEF again
  <2>2. Rested(a, f, d)
    BY <2>1, <1>1, <1>2, <1>3, <1>5, <1>9, ApplyRests
  <2>3. Took(a, f, d)
    BY <1>1, <1>2, <1>3, <1>9, ApplyTakes
  <2>4. Onto(c, d)
    <3>1. c.up \in Seq(Requests)
      BY DEF ClientOK, Clients
    <3>2. a.up = c.up /\ a.pending = c.pending /\ a.gen = c.gen /\ a.status = c.status
      BY DEF a, ClientOK, Clients
    <3>3. Onto(a, d)
      BY <2>2 DEF Rested
    <3> QED BY <3>2, <3>3 DEF Onto
  <2>5. (Seen(a) => Seen(c)) /\ (AtRest(a) => AtRest(c))
    BY <1>2 DEF Meek
  <2>6. Rested(c, f, d)
    <3>1. GoesOn(c.dec, d.dec)
      BY <2>2, <1>2 DEF Rested
    <3> QED BY <2>2, <2>4, <2>5, <3>1, <1>2 DEF Rested
  <2> QED BY <2>6 DEF d
<1> QED BY <1>4, <1>6, <1>7, <1>8, <1>9

-----------------------------------------------------------------------------
(* The decoder.                                                            *)

\* What the assembler makes of a wire that it takes, and what it has forgotten then.
LEMMA AssembledGoes ==
    ASSUME NEW d \in Decoders, d.ord # 0 => d.ord > d.settled, ~d.closed,
           NEW w \in WireSet, w.frame.ord > d.settled, w.frame.ord >= d.ord,
           d.ord = w.frame.ord => d.use = w.frame.use
    PROVE  LET r == Assembled(d, w)
               f == w.frame
           IN  /\ ~r.dec.closed
               /\ r.out = "nothing" => /\ r.dec.ord = f.ord /\ r.dec.use = f.use
                                       /\ r.dec.settled < f.ord
               /\ r.out # "nothing" => r.dec.ord = 0 /\ r.dec.settled = f.ord
<1> DEFINE f == w.frame
           e == IF d.ord = f.ord THEN d ELSE [Abort(d) EXCEPT !.ord = f.ord, !.use = f.use]
           whole == Cardinality(e.parts \cup {w.part}) = w.parts
           n == [e EXCEPT !.parts = e.parts \cup {w.part}]
           r == Assembled(d, w)
<1>1. f \in Frames
  BY DEF WireSet
<1>2. f.ord \in Nat /\ d.ord \in Nat /\ d.settled \in Nat /\ f.ord > d.settled
  BY <1>1 DEF Frames, Decoders
<1>3. /\ e.ord = f.ord /\ e.use = f.use /\ e.settled < f.ord /\ ~e.closed
      /\ e = [ord |-> e.ord, use |-> e.use, parts |-> e.parts, settled |-> e.settled,
              closed |-> e.closed]
  <2>1. CASE d.ord = f.ord
    BY <2>1, <1>2 DEF Decoders
  <2>2. CASE d.ord # f.ord
    <3> DEFINE a == Abort(d)
    <3>1. a \in Decoders /\ a.closed = d.closed
      BY AbortKeeps
    <3>2. a.settled < f.ord
      <4>1. a.settled \in {d.settled, d.ord}
        BY <1>2 DEF Abort, Release, Decoders
      <4> QED BY <4>1, <2>2, <1>2
    <3>3. e = [a EXCEPT !.ord = f.ord, !.use = f.use]
      BY <2>2
    <3> HIDE DEF a, e, f
    <3> QED BY <3>1, <3>2, <3>3 DEF Decoders
  <2> QED BY <2>1, <2>2
<1>4. \/ r = [dec |-> Release(e, f.ord), out |-> "garbled"]
      \/ r = [dec |-> n, out |-> "nothing"]
      \/ r = [dec |-> Release(e, f.ord), out |-> "unreadable"]
      \/ r = [dec |-> Release(e, f.ord), out |-> "frame"]
  BY DEF Assembled
<1> HIDE DEF r, e, f
<1>5. n.settled = e.settled /\ n.ord = e.ord /\ n.closed = e.closed /\ n.use = e.use
  BY <1>3
<1>6. Release(e, f.ord).settled = f.ord /\ Release(e, f.ord).ord = 0
      /\ Release(e, f.ord).closed = e.closed
  BY <1>3 DEF Release
<1> HIDE DEF n
<1>7. /\ ~r.dec.closed
      /\ r.out = "nothing" => r.dec.ord = f.ord /\ r.dec.use = f.use /\ r.dec.settled < f.ord
      /\ r.out # "nothing" => r.dec.ord = 0 /\ r.dec.settled = f.ord
  <2>1. CASE r = [dec |-> n, out |-> "nothing"]
    BY <2>1, <1>3, <1>5
  <2>2. CASE r.dec = Release(e, f.ord) /\ r.out \in {"garbled", "unreadable", "frame"}
    BY <2>2, <1>3, <1>6
  <2> QED BY <1>4, <2>1, <2>2
<1> QED BY <1>7 DEF r, f

\* The four things that may become of a wire of the frame f: it is dropped,
Ignored(c, f, d) ==
    /\ Onto(c, d) /\ GoesOn(c.dec, d.dec)
    /\ d.flight = c.flight /\ d.status = c.status /\ d.view = c.view
    /\ c.dec.closed \/ (d.dec = c.dec /\ (f.ord <= c.dec.settled \/ f.ord < c.dec.ord))

\* f is lost with it, or another frame that it replaces,
Faulted(c, f, d) ==
    /\ Onto(c, d) /\ d.view = c.view
    /\ Seen(d) => Seen(c)
    /\ d.dec.ord = 0 /\ d.dec.settled <= f.ord
    /\ ~AtRest(d)

\* f is complete, and handled,
Taken(c, f) == f.ord > c.dec.settled /\ (f.use = "recovery" \/ c.dec.ord \in {0, f.ord})
Completed(c, f, d) ==
    /\ Taken(c, f) /\ Onto(c, d)
    /\ d.dec.ord = 0 /\ d.dec.settled = f.ord
    /\ Seen(d) => d.view # None
    /\ AtRest(d) =>
         /\ ~d.dec.closed /\ (AtRest(c) \/ f.use = "recovery")
         /\ d.view # None /\ d.view.seq >= f.to
         /\ f.kind = "snapshot" => d.view.num = f.num
         /\ f.kind = "deltas" => c.view # None /\ d.view.num = c.view.num

\* or f waits for more wires.
Collected(c, f, d) ==
    /\ Taken(c, f) /\ Onto(c, d)
    /\ d.flight = c.flight /\ d.status = c.status /\ d.view = c.view
    /\ d.dec.ord = f.ord /\ d.dec.use = f.use /\ d.dec.settled < f.ord /\ ~d.dec.closed

\* A client with another decoder.
LEMMA DecoderOnto ==
    ASSUME NEW c, ClientOK(c), NEW a, NEW d, d = [c EXCEPT !.dec = a]
    PROVE  /\ Onto(c, d) /\ d.dec = a /\ d.flight = c.flight /\ d.status = c.status
           /\ d.view = c.view /\ d.sub = c.sub /\ (Seen(d) <=> Seen(c))
<1>1. /\ d.gen = c.gen /\ d.up = c.up /\ d.view = c.view /\ d.dec = a /\ d.sub = c.sub
      /\ d.flight = c.flight /\ d.status = c.status /\ d.pending = c.pending
  BY DEF ClientOK, Clients
<1>2. c.up \in Seq(Requests)
  BY DEF ClientOK, Clients
<1>3. \A i \in 1..Len(d.up) : ~(i > Len(c.up))
  BY <1>1, <1>2
<1> QED BY <1>1, <1>3 DEF Onto, Seen

\* What is asked after the decoder has changed is asked in the two steps together.
LEMMA DecoderThenOnto ==
    ASSUME NEW c, ClientOK(c), NEW a, NEW e, e = [c EXCEPT !.dec = a], NEW d, Onto(e, d)
    PROVE  Onto(c, d)
<1>1. e.gen = c.gen /\ e.up = c.up /\ e.status = c.status /\ e.pending = c.pending
  BY DEF ClientOK, Clients
<1> QED BY <1>1 DEF Onto

\* One of these does: the first frame of a subscription is not looked for in a recovery.
LEMMA DecodeDoes ==
    ASSUME NEW c, ClientOK(c), c.sub # 0, NEW w \in WireSet, NEW f, f = w.frame, f.ord # 0,
           c.dec.ord = f.ord => c.dec.use = f.use,
           Seen(c) => c.view # None /\ c.dec.settled >= 1,
           f.use = "initial" => f.ord = 1,
           c.dec.ord # 0 /\ c.dec.use = "initial" => c.dec.ord = 1
    PROVE  LET d == Decode(c, w) IN
           Ignored(c, f, d) \/ Faulted(c, f, d) \/ Completed(c, f, d) \/ Collected(c, f, d)
<1> DEFINE dec == IF f.use = "recovery" /\ c.dec.closed THEN Opened(c.dec) ELSE c.dec
           r == Assembled(dec, w)
           e == [c EXCEPT !.dec = r.dec]
           shut == [c EXCEPT !.dec = Closed(r.dec)]
           unread == (r.out = "unreadable")
           g == HandleFault(shut, dec.use, FALSE)
           d == Decode(c, w)
<1>1. f \in Frames
  BY DEF WireSet
<1>2. c.dec \in Decoders /\ (c.dec.ord # 0 => c.dec.ord > c.dec.settled /\ ~c.dec.closed)
  BY DEF ClientOK, Clients
<1>3. dec \in Decoders /\ dec.settled >= c.dec.settled
      /\ (dec.ord # 0 => dec.ord > dec.settled /\ ~dec.closed)
  <2>1. c.dec.settled \in Nat
    BY <1>2 DEF Decoders
  <2> QED BY <1>2, <2>1, AbortKeeps
<1>4. f.ord \in Nat /\ dec.ord \in Nat /\ dec.settled \in Nat /\ dec.closed \in BOOLEAN
      /\ c.dec.settled \in Nat /\ c.dec.ord \in Nat /\ dec.use \in {"initial", "online", "recovery"}
      /\ f.use \in {"initial", "online", "recovery"}
  <2> HIDE DEF dec
  <2> QED BY <1>1, <1>2, <1>3 DEF Frames, Decoders
\* Where the gate was closed nothing was in assembly.
<1>5. /\ ~c.dec.closed => dec = c.dec
      /\ c.dec.closed => c.dec.ord = 0 /\ dec.ord = 0 /\ dec.settled = c.dec.settled
      /\ dec # c.dec => f.use = "recovery"
  <2>1. CASE ~c.dec.closed \/ f.use # "recovery"
    BY <2>1, <1>2
  <2>2. CASE c.dec.closed /\ f.use = "recovery"
    <3>1. c.dec.ord = 0 /\ dec = Opened(c.dec)
      BY <2>2, <1>2
    <3>2. dec = [c.dec EXCEPT !.closed = FALSE]
      BY <3>1 DEF Opened, Abort
    <3> QED BY <3>1, <3>2, <2>2, <1>2 DEF Decoders
  <2> QED BY <2>1, <2>2
<1>6. CASE dec.closed \/ f.ord <= dec.settled \/ f.ord < dec.ord
  <2>1. d = [c EXCEPT !.dec = dec]
    BY <1>6 DEF Decode
  <2>2. GoesOn(c.dec, dec)
    <3> HIDE DEF dec
    <3>1. CASE c.dec.closed
      BY <3>1, <1>5 DEF GoesOn
    <3>2. CASE ~c.dec.closed
      BY <3>2, <1>5 DEF GoesOn
    <3> QED BY <3>1, <3>2
  <2> HIDE DEF d, dec
  <2>3. /\ Onto(c, d) /\ d.dec = dec /\ d.flight = c.flight /\ d.status = c.status
        /\ d.view = c.view
    BY <2>1, DecoderOnto
  <2>4. c.dec.closed \/ (d.dec = c.dec /\ (f.ord <= c.dec.settled \/ f.ord < c.dec.ord))
    BY <2>3, <1>5, <1>6
  <2>5. Ignored(c, f, d)
    BY <2>2, <2>3, <2>4 DEF Ignored
  <2> QED BY <2>5 DEF d
<1>7. CASE ~(dec.closed \/ f.ord <= dec.settled \/ f.ord < dec.ord)
  <2> DEFINE over == dec.ord # 0 /\ dec.ord < f.ord /\ f.use # "recovery"
  <2>1. \/ over /\ d = g
        \/ over /\ d = HandleFault(g, f.use, unread)
        \/ r.out # "nothing" /\ d = HandleFault(shut, f.use, unread)
        \/ ~over /\ r.out = "frame" /\ d = HandleFrame(e, f)
        \/ ~over /\ r.out \notin {"garbled", "unreadable", "frame"} /\ d = e
    BY <1>7 DEF Decode
  <2>2. f.ord > dec.settled /\ f.ord >= dec.ord /\ ~dec.closed /\ f.ord > c.dec.settled
    <3> HIDE DEF dec
    <3> QED BY <1>3, <1>4, <1>7
  <2>3. /\ r.dec \in Decoders /\ r.dec.settled >= dec.settled
        /\ r.dec.ord # 0 => r.dec.ord > r.dec.settled /\ ~r.dec.closed
        /\ r.out \in {"nothing", "garbled", "unreadable", "frame"}
        /\ r.out = "frame" => r.dec.settled >= f.ord
    <3> HIDE DEF dec
    <3> QED BY <2>2, <1>3, AssembledKeeps
  <2>4. /\ ~r.dec.closed
        /\ r.out = "nothing" => r.dec.ord = f.ord /\ r.dec.use = f.use /\ r.dec.settled < f.ord
        /\ r.out # "nothing" => r.dec.ord = 0 /\ r.dec.settled = f.ord
    <3>1. dec.ord = f.ord => dec.use = f.use
      BY <1>4, <1>5
    <3> HIDE DEF dec
    <3> QED BY <3>1, <2>2, <1>3, AssembledGoes
  <2>5. unread \in BOOLEAN
    OBVIOUS
  <2>6. ~over => f.use = "recovery" \/ c.dec.ord \in {0, f.ord}
    <3> HIDE DEF dec
    <3> QED BY <2>2, <1>4, <1>5
  <2>7. /\ dec.use = "initial" /\ dec.ord # 0 => dec.ord = 1 /\ c.dec.settled = 0
        /\ f.use = "initial" => f.ord = 1 /\ c.dec.settled = 0 /\ ~over
    <3>1. dec.ord # 0 => dec = c.dec
      BY <1>5
    <3>2. dec.ord # 0 => c.dec.settled < dec.ord
      BY <3>1, <1>2, <1>4
    <3> HIDE DEF dec
    <3> QED BY <3>1, <3>2, <1>2, <1>4, <2>2
  <2> HIDE DEF r, unread, dec, over
  <2>8. r.dec.settled \in Nat /\ r.dec.settled >= c.dec.settled /\ r.dec.ord \in Nat
        /\ r.dec.settled <= f.ord
    BY <2>3, <2>4, <1>3, <1>4 DEF Decoders
  <2>9. Kept(c, e) /\ Onto(c, e) /\ e.dec = r.dec /\ e.flight = c.flight /\ e.status = c.status
        /\ e.view = c.view /\ e.sub = c.sub /\ (Seen(e) <=> Seen(c)) /\ ClientOK(e)
    <3>1. Kept(c, e)
      BY <2>3, <2>8, AnotherDecoder
    <3>2. ClientOK(e)
      BY <3>1 DEF Kept
    <3> HIDE DEF e
    <3> QED BY <3>1, <3>2, DecoderOnto DEF e
  <2>10. /\ Kept(c, shut) /\ shut.dec.ord = 0 /\ shut.dec.settled <= f.ord /\ ClientOK(shut)
         /\ shut.view = c.view /\ shut.sub = c.sub /\ (Seen(shut) <=> Seen(c))
    <3>1. Closed(r.dec) \in Decoders /\ Closed(r.dec).ord = 0
          /\ Closed(r.dec).settled >= r.dec.settled
      BY <2>3, AbortKeeps
    <3>2. Closed(r.dec).settled >= c.dec.settled
      BY <3>1, <2>8, <1>4 DEF Decoders
    <3>3. Kept(c, shut)
      BY <3>1, <3>2, AnotherDecoder
    <3>4. Closed(r.dec).settled <= f.ord
      <4>1. Abort(r.dec).settled \in {r.dec.settled, r.dec.ord} /\ Abort(r.dec) \in Decoders
        <5>1. Abort(r.dec) \in Decoders
          BY <2>3, AbortKeeps
        <5> QED BY <5>1, <2>3 DEF Abort, Release, Decoders
      <4>2. Closed(r.dec).settled = Abort(r.dec).settled
        BY <4>1 DEF Closed, Decoders
      <4>3. r.dec.ord <= f.ord
        BY <2>3, <2>4, <1>4
      <4> QED BY <4>1, <4>2, <4>3, <2>8
    <3>5. ClientOK(shut)
      BY <3>3 DEF Kept
    <3>6. shut.dec = Closed(r.dec) /\ shut.view = c.view /\ shut.sub = c.sub /\ (Seen(shut) <=> Seen(c))
      BY DecoderOnto
    <3> QED BY <3>1, <3>3, <3>4, <3>5, <3>6
  <2>11. ASSUME NEW x, Kept(c, x), ClientOK(x), Onto(c, x), x.view = c.view, x.sub = c.sub,
                x.dec.ord = 0, x.dec.settled <= f.ord, Seen(x) => Seen(c),
                NEW use \in {"initial", "online", "recovery"}, use = "initial" => ~Seen(c),
                NEW b \in BOOLEAN, NEW y, y = HandleFault(x, use, b)
         PROVE  /\ Faulted(c, f, y) /\ Kept(c, y) /\ ClientOK(y) /\ y.sub = c.sub
    <3>1. Kept(x, y)
      BY <2>11, HandleFaultKeeps
    <3>2. Meek(x, y) /\ ~AtRest(y)
      BY <2>11, HandleFaultMeek
    <3>3. Kept(c, y)
      BY <3>1, <2>11, KeptOnAndOn
    <3>4. ClientOK(y) /\ Asked(c, x) /\ Asked(x, y) /\ y.sub = x.sub
      BY <3>1, <2>11 DEF Kept
    <3>5. Onto(c, y)
      <4>1. x.view # None => y.view # None /\ x.view.num = y.view.num /\ x.view.seq <= y.view.seq
        <5>1. x.view \in Views \cup {None} /\ y.view = x.view
          BY <2>11, <3>2 DEF ClientOK, Clients, Meek
        <5> QED BY <5>1 DEF Views
      <4> QED BY <4>1, <3>2, <3>4, <2>11, OntoOnAndOn DEF Meek
    <3>6. y.dec.ord = 0 /\ y.dec.settled <= f.ord
      <4>1. y.dec \in Decoders
        BY <3>4 DEF ClientOK, Clients
      <4> QED BY <4>1, <3>2, <2>11 DEF Meek, GoesOn, Decoders
    <3> QED BY <3>2, <3>3, <3>4, <3>5, <3>6, <2>11 DEF Faulted, Meek
  <2>12. Onto(c, shut)
    BY DecoderOnto
  <2>13. over => Faulted(c, f, g) /\ Kept(c, g) /\ ClientOK(g) /\ g.sub = c.sub
    <3> SUFFICES ASSUME over PROVE Faulted(c, f, g) /\ Kept(c, g) /\ ClientOK(g) /\ g.sub = c.sub
      OBVIOUS
    <3>1. dec.use = "initial" => ~Seen(c)
      <4>1. dec.ord # 0
        BY DEF over
      <4> QED BY <4>1, <2>7, <1>4
    <3> HIDE DEF shut
    <3> QED BY <3>1, <2>10, <2>11, <2>12, <1>4
  <2>14. f.use = "initial" => ~Seen(c)
    BY <2>7, <1>4
  <2> HIDE DEF d, e, shut, g
  <2>15. CASE over /\ d = g
    BY <2>13, <2>15 DEF d
  <2>16. CASE over /\ d = HandleFault(g, f.use, unread)
    <3>1. Faulted(c, f, g) /\ Kept(c, g) /\ ClientOK(g) /\ g.sub = c.sub
      BY <2>13, <2>16
    <3>2. Onto(c, g) /\ g.view = c.view /\ g.dec.ord = 0 /\ g.dec.settled <= f.ord
          /\ (Seen(g) => Seen(c))
      BY <3>1 DEF Faulted
    <3>3. Faulted(c, f, d)
      BY <3>1, <3>2, <2>5, <2>11, <2>14, <2>16, <1>4
    <3> QED BY <3>3 DEF d
  <2>17. CASE r.out # "nothing" /\ d = HandleFault(shut, f.use, unread)
    <3>1. Faulted(c, f, d)
      BY <2>5, <2>10, <2>11, <2>12, <2>14, <2>17, <1>4
    <3> QED BY <3>1 DEF d
  <2>18. CASE ~over /\ r.out = "frame" /\ d = HandleFrame(e, f)
    <3>1. Rested(e, f, d)
      BY <2>9, <2>14, <2>18, <1>1, HandleFrameRests
    <3>2. r.dec.ord = 0 /\ r.dec.settled = f.ord /\ ~r.dec.closed
      BY <2>4, <2>18
    <3>3. d.dec.ord = 0 /\ d.dec.settled = f.ord
      BY <3>1, <3>2, <2>9 DEF Rested, GoesOn
    <3>4. Onto(c, d)
      BY <3>1, DecoderThenOnto DEF Rested, e
    <3>5. AtRest(e) => AtRest(c)
      BY <2>9 DEF AtRest
    <3>6. Taken(c, f)
      BY <2>2, <2>6, <2>18 DEF Taken
    <3>7. Completed(c, f, d)
      <4>1. Seen(d) => d.view # None
        BY <3>1 DEF Rested
      <4>2. ASSUME AtRest(d)
            PROVE  /\ ~d.dec.closed /\ (AtRest(c) \/ f.use = "recovery")
                   /\ d.view # None /\ d.view.seq >= f.to
                   /\ f.kind = "snapshot" => d.view.num = f.num
                   /\ f.kind = "deltas" => c.view # None /\ d.view.num = c.view.num
        BY <4>2, <3>1, <3>2, <3>5, <2>9 DEF Rested
      <4> QED BY <4>1, <4>2, <3>3, <3>4, <3>6 DEF Completed
    <3> QED BY <3>7 DEF d
  <2>19. CASE ~over /\ r.out \notin {"garbled", "unreadable", "frame"} /\ d = e
    <3>1. r.out = "nothing" /\ Taken(c, f)
      BY <2>2, <2>3, <2>6, <2>19 DEF Taken
    <3>2. Collected(c, f, d)
      BY <3>1, <2>4, <2>9, <2>19 DEF Collected
    <3> QED BY <3>2 DEF d
  <2> QED BY <2>1, <2>15, <2>16, <2>17, <2>18, <2>19
<1> QED BY <1>6, <1>7

-----------------------------------------------------------------------------
(* What the client waits for.  G are the frames that the publisher has sent *)
(* on the client's subscription, k of them; n is its numbering; and R are   *)
(* the frames that are still to come.                                       *)

\* The frames of a subscription are numbered, and go on from each other.
SentIn(G, n, k) ==
    /\ \A T \in G : /\ T \in Frames /\ T.ord # 0 /\ T.ord <= k /\ T.num <= n
                    /\ T.use = "initial" => T.ord = 1
    /\ \A T, U \in G : T.ord = U.ord => T = U
    /\ \A T, U \in G : T.ord < U.ord => Behind(T, U)

\* Before its k-th frame, whoever is shown v has had the chance to see the numbering n.
NumKnown(G, v, n, k) ==
    \/ n = 1
    \/ v # None /\ v.num = n
    \/ \E T \in G : T.kind = "snapshot" /\ T.num = n /\ T.ord < k

\* So has who is sent deltas of it.
DeltasKnown(G, v, n) ==
    \A f \in G : f.kind = "deltas" /\ f.num = n =>
        IF f.use = "online" THEN NumKnown(G, v, n, f.ord) ELSE v # None /\ v.num = n

\* The view shows what T brings; or T is to come, or what is in assembly will do.
Covers(v, T) == v # None /\ v.num = T.num /\ v.seq >= T.to
Begun(d, T) == d.ord # 0 /\ (d.ord = T.ord \/ (d.ord > T.ord /\ d.use = "recovery"))
Shall(c, R, T) == Covers(c.view, T) \/ (T \in R /\ T.ord > c.dec.settled) \/ Begun(c.dec, T)

\* The frames that a client has to get, where those of ls were lost.
Awaited(T, v, n, ls) == T.num = n /\ (<<T.sub, T.ord>> \notin ls \/ Renumbers(T, v))

\* A client at rest gets all of them: it has an open gate, and has none forgotten.
Rest(c, R, G, n, ls) ==
    AtRest(c) => ~c.dec.closed /\ \A T \in G : Awaited(T, c.view, n, ls) => Shall(c, R, T)

\* What is in assembly, and what has been settled, was sent; who has seen a recovery has
\* settled its frame, and shows something.
Known(c, G, k) ==
    /\ c.dec.ord # 0 => \E D \in G : D.ord = c.dec.ord /\ D.use = c.dec.use
    /\ c.dec.settled <= k
    /\ Seen(c) => c.view # None /\ c.dec.settled >= 1

\* What is to come is not older than what is in assembly, or than what came and is awaited.
Beyond(c, R) == \A g \in R : c.dec.ord <= g.ord
Tracked(T, R) == T \in R \/ \A g \in R : T.ord <= g.ord

Waits(c, R, G, n, ls, k) ==
    /\ Known(c, G, k) /\ Beyond(c, R) /\ Rest(c, R, G, n, ls)
    /\ \A T \in G : Awaited(T, c.view, n, ls) => Tracked(T, R)

\* The next frame, and what was sent before it.
LEMMA BeforeOrAfter ==
    ASSUME NEW G, NEW n \in Nat, NEW k \in Nat, SentIn(G, n, k), NEW R, R \subseteq G, NEW f \in G,
           \A g \in R : f.ord <= g.ord, NEW T \in G, Tracked(T, R \cup {f})
    PROVE  /\ T.ord > f.ord => T \in R
           /\ T.ord <= f.ord /\ T.num = n => f.num = n /\ T.to <= f.to
<1>1. T.ord \in Nat /\ f.ord \in Nat /\ T.num \in Nat /\ f.num \in Nat /\ T.to \in Nat /\ f.to \in Nat
      /\ f.num <= n
  BY DEF SentIn, Frames
<1>2. T.ord > f.ord => T \in R
  <2> SUFFICES ASSUME T.ord > f.ord, T \notin R PROVE FALSE
    OBVIOUS
  <2>1. T # f
    BY <1>1
  <2>2. T.ord <= f.ord
    BY <2>1 DEF Tracked
  <2> QED BY <2>2, <1>1
<1>3. ASSUME T.ord <= f.ord, T.num = n PROVE f.num = n /\ T.to <= f.to
  <2>1. CASE T.ord = f.ord
    <3>1. T = f
      BY <2>1 DEF SentIn
    <3> QED BY <3>1, <1>1, <1>3
  <2>2. CASE T.ord # f.ord
    <3>1. T.ord < f.ord
      BY <2>2, <1>1, <1>3
    <3>2. Behind(T, f)
      BY <3>1 DEF SentIn
    <3> QED BY <3>2, <1>1, <1>3 DEF Behind
  <2> QED BY <2>1, <2>2
<1> QED BY <1>2, <1>3

\* Deltas that come when the client is at rest, or of a recovery, go onto a view of their
\* numbering: a snapshot of it that was sent before them has been shown.
LEMMA DeltasFit ==
    ASSUME NEW c, ClientOK(c), NEW G, NEW n \in Nat \ {0}, NEW k \in Nat, SentIn(G, n, k),
           NEW R, R \subseteq G, NEW f \in G, \A g \in R : f.ord <= g.ord, NEW ls,
           Waits(c, R \cup {f}, G, n, ls, k), DeltasKnown(G, c.view, n),
           c.view # None, c.view.num <= n, f.kind = "deltas", f.num = n,
           AtRest(c) \/ f.use = "recovery", Taken(c, f)
    PROVE  c.view.num = n
<1>1. c.view \in Views /\ c.view.num \in Nat \ {0} /\ f.ord \in Nat /\ f \in Frames
      /\ c.dec.ord \in Nat /\ c.dec.settled \in Nat
  BY DEF ClientOK, Clients, Views, SentIn, Frames, Decoders
<1>2. CASE f.use # "online"
  BY <1>2 DEF DeltasKnown
<1>3. CASE f.use = "online" /\ n = 1
  BY <1>1, <1>3
<1>4. CASE f.use = "online" /\ n # 1 /\ c.view.num # n
  <2>1. PICK T \in G : T.kind = "snapshot" /\ T.num = n /\ T.ord < f.ord
    BY <1>4 DEF DeltasKnown, NumKnown
  <2>2. T.ord \in Nat /\ T.num > 1
    BY <2>1, <1>4 DEF SentIn, Frames
  <2>3. AtRest(c) /\ Rest(c, R \cup {f}, G, n, ls)
    BY <1>4 DEF Waits
  <2>4. Awaited(T, c.view, n, ls)
    BY <2>1, <2>2, <1>4 DEF Awaited, Renumbers
  <2>5. Shall(c, R \cup {f}, T)
    BY <2>3, <2>4 DEF Rest
  <2>6. ~Covers(c.view, T)
    BY <2>1, <1>4 DEF Covers
  <2>7. T \notin R \cup {f}
    BY <2>1, <2>2, <1>1
  <2>8. ~Begun(c.dec, T)
    <3>1. c.dec.ord \in {0, f.ord}
      BY <1>4 DEF Taken
    <3>2. ASSUME c.dec.ord # 0 PROVE c.dec.use = "online"
      <4>1. PICK D \in G : D.ord = c.dec.ord /\ D.use = c.dec.use
        BY <3>2 DEF Waits, Known
      <4>2. D = f
        BY <3>1, <3>2, <4>1 DEF SentIn
      <4> QED BY <4>1, <4>2, <1>4
    <3> QED BY <3>1, <3>2, <2>1, <2>2, <1>1 DEF Begun
  <2> QED BY <2>5, <2>6, <2>7, <2>8 DEF Shall
<1> QED BY <1>2, <1>3, <1>4

\* What is awaited after something has been shown was awaited before.
LEMMA AwaitedBefore ==
    ASSUME NEW n \in Nat, NEW v \in Viewed, NEW w \in Viewed, Onward(v, w),
           w # None => w.num <= n, NEW T, NEW ls, Awaited(T, w, n, ls)
    PROVE  Awaited(T, v, n, ls)
<1>1. ASSUME v # None, v.num = n PROVE w # None /\ w.num = n
  <2>1. w # None /\ (v.num < w.num \/ v.num = w.num)
    BY <1>1 DEF Onward
  <2>2. w.num \in Nat
    BY <2>1 DEF Viewed, Views
  <2> QED BY <2>1, <2>2, <1>1
<1> QED BY <1>1 DEF Awaited, Renumbers

\* A wire of the next frame leaves the client waiting for those that follow.
LEMMA DecodeWaits ==
    ASSUME NEW c, ClientOK(c), c.sub # 0, NEW G, NEW n \in Nat \ {0}, NEW k \in Nat,
           SentIn(G, n, k), NEW R, R \subseteq G, NEW w \in WireSet, w.frame \in G,
           \A g \in R : w.frame.ord <= g.ord, NEW ls,
           Waits(c, R \cup {w.frame}, G, n, ls, k), DeltasKnown(G, c.view, n),
           c.view # None => c.view.num <= n,
           NEW v, v = Decode(c, w).view, Onward(c.view, v), v # None => v.num <= n
    PROVE  Waits(Decode(c, w), R, G, n, ls, k) /\ Onto(c, Decode(c, w))
<1> DEFINE f == w.frame
           d == Decode(c, w)
<1>1. /\ f \in Frames /\ f \in G /\ f.ord \in Nat /\ f.ord # 0 /\ f.ord <= k /\ f.num <= n
      /\ f.use = "initial" => f.ord = 1
      /\ f.kind \in {"snapshot", "deltas"} /\ f.use \in {"initial", "online", "recovery"}
      /\ \A g \in R : f.ord <= g.ord
  BY DEF SentIn, Frames
<1>2. c.dec.ord \in Nat /\ c.dec.settled \in Nat
      /\ (c.dec.ord # 0 => c.dec.ord > c.dec.settled /\ ~c.dec.closed)
      /\ c.view \in Views \cup {None}
  BY DEF ClientOK, Clients, Decoders
<1>3. Known(c, G, k) /\ Beyond(c, R \cup {f}) /\ Rest(c, R \cup {f}, G, n, ls)
      /\ \A T \in G : Awaited(T, c.view, n, ls) => Tracked(T, R \cup {f})
  BY DEF Waits
<1>4. ASSUME c.dec.ord # 0
      PROVE  \E D \in G : D.ord = c.dec.ord /\ D.use = c.dec.use
  BY <1>3, <1>4 DEF Known
<1>5. c.dec.ord # 0 => c.dec.ord <= k /\ (c.dec.use = "initial" => c.dec.ord = 1)
  BY <1>4 DEF SentIn
<1>6. c.dec.ord = f.ord => c.dec.use = f.use
  BY <1>1, <1>4 DEF SentIn
<1> HIDE DEF f
<1>7. ClientOK(d) /\ d.view \in Views \cup {None} /\ d.dec.ord \in Nat /\ d.dec.settled \in Nat
      /\ d.dec.settled >= c.dec.settled
  <2>1. TookInTurn(c, w.frame, d)
    BY DecodeTakes
  <2> HIDE DEF d
  <2>2. ClientOK(d) /\ d.dec.settled >= c.dec.settled
    BY <2>1 DEF TookInTurn, Took
  <2> QED BY <2>2 DEF ClientOK, Clients, Decoders
<1>8. Ignored(c, f, d) \/ Faulted(c, f, d) \/ Completed(c, f, d) \/ Collected(c, f, d)
  <2>1. Seen(c) => c.view # None /\ c.dec.settled >= 1
    BY <1>3 DEF Known
  <2>2. f = w.frame
    BY DEF f
  <2> QED BY <2>1, <2>2, <1>1, <1>5, <1>6, DecodeDoes
<1> HIDE DEF d
<1>9. Onto(c, d)
  BY <1>8 DEF Ignored, Faulted, Completed, Collected
<1>a. v = d.view /\ v \in Viewed /\ c.view \in Viewed
  BY <1>2, <1>7 DEF d, Viewed
<1>10. ASSUME NEW T \in G, Awaited(T, d.view, n, ls) PROVE Tracked(T, R) /\ Tracked(T, R \cup {f})
  <2>0. Tracked(T, R \cup {f})
    BY <1>3, <1>10, <1>a, AwaitedBefore
  <2> SUFFICES ASSUME T \notin R, NEW g \in R PROVE T.ord <= g.ord
    BY <2>0 DEF Tracked
  <2>1. T.ord \in Nat /\ g.ord \in Nat
    BY DEF SentIn, Frames
  <2>2. ~(T.ord > f.ord)
    BY <2>0, <1>1, BeforeOrAfter
  <2> QED BY <2>1, <2>2, <1>1
<1>11. Beyond(d, R)
  <2> SUFFICES ASSUME NEW g \in R PROVE d.dec.ord <= g.ord
    BY DEF Beyond
  <2>1. g.ord \in Nat /\ f.ord <= g.ord /\ c.dec.ord <= g.ord
    BY <1>1, <1>3 DEF SentIn, Frames, Beyond
  <2>2. d.dec.ord \in {0, f.ord, c.dec.ord}
    BY <1>8 DEF Ignored, GoesOn, Faulted, Completed, Collected
  <2> QED BY <2>1, <2>2, <1>1
<1>12. Known(d, G, k)
  <2>1. CASE Ignored(c, f, d)
    <3>1. GoesOn(c.dec, d.dec) /\ (Seen(d) => Seen(c)) /\ d.view = c.view
      BY <2>1 DEF Ignored, Seen
    <3>2. d.dec.settled <= k
      BY <3>1, <1>3, <1>5 DEF GoesOn, Known
    <3>3. d.dec.ord # 0 => \E D \in G : D.ord = d.dec.ord /\ D.use = d.dec.use
      BY <3>1, <1>4 DEF GoesOn
    <3>4. Seen(d) => d.view # None /\ d.dec.settled >= 1
      BY <3>1, <1>2, <1>3, <1>7 DEF Known
    <3> QED BY <3>2, <3>3, <3>4 DEF Known
  <2>2. CASE Faulted(c, f, d)
    <3>1. d.dec.ord = 0 /\ d.dec.settled <= f.ord /\ (Seen(d) => Seen(c)) /\ d.view = c.view
      BY <2>2 DEF Faulted
    <3>2. d.dec.settled <= k
      BY <3>1, <1>1, <1>7
    <3>3. Seen(d) => d.view # None /\ d.dec.settled >= 1
      BY <3>1, <1>2, <1>3, <1>7 DEF Known
    <3> QED BY <3>1, <3>2, <3>3 DEF Known
  <2>3. CASE Completed(c, f, d)
    <3>1. d.dec.ord = 0 /\ d.dec.settled = f.ord /\ (Seen(d) => d.view # None)
      BY <2>3 DEF Completed
    <3> QED BY <3>1, <1>1 DEF Known
  <2>4. CASE Collected(c, f, d)
    <3>1. d.dec.ord = f.ord /\ d.dec.use = f.use /\ d.dec.settled < f.ord /\ (Seen(d) => Seen(c))
          /\ d.view = c.view
      BY <2>4 DEF Collected, Seen
    <3>2. d.dec.settled <= k
      BY <3>1, <1>1, <1>7
    <3>3. Seen(d) => d.view # None /\ d.dec.settled >= 1
      BY <3>1, <1>2, <1>3, <1>7 DEF Known
    <3> QED BY <3>1, <3>2, <3>3, <1>1 DEF Known
  <2> QED BY <1>8, <2>1, <2>2, <2>3, <2>4
<1>13. Rest(d, R, G, n, ls)
  <2> SUFFICES ASSUME AtRest(d)
               PROVE  ~d.dec.closed /\ \A T \in G : Awaited(T, d.view, n, ls) => Shall(d, R, T)
    BY DEF Rest
  <2>1. CASE Ignored(c, f, d)
    <3>1. AtRest(c) /\ d.view = c.view
      BY <2>1 DEF Ignored, AtRest
    <3>2. ~c.dec.closed /\ \A T \in G : Awaited(T, c.view, n, ls) => Shall(c, R \cup {f}, T)
      BY <3>1, <1>3 DEF Rest
    <3>3. ~(f.ord < c.dec.ord)
      <4>1. c.dec.ord <= f.ord
        BY <1>3 DEF Beyond
      <4> QED BY <4>1, <1>1, <1>2
    <3>4. d.dec = c.dec /\ f.ord <= c.dec.settled
      BY <2>1, <3>2, <3>3 DEF Ignored
    <3>5. ~(f.ord > c.dec.settled)
      BY <3>4, <1>1, <1>2
    <3>6. ASSUME NEW T \in G, Awaited(T, d.view, n, ls) PROVE Shall(d, R, T)
      BY <3>1, <3>2, <3>4, <3>5, <3>6 DEF Shall
    <3> QED BY <3>2, <3>4, <3>6
  <2>2. CASE Faulted(c, f, d)
    BY <2>2 DEF Faulted
  <2>3. CASE Completed(c, f, d)
    <3>1. /\ Taken(c, f) /\ d.dec.ord = 0 /\ d.dec.settled = f.ord
          /\ ~d.dec.closed /\ (AtRest(c) \/ f.use = "recovery")
          /\ d.view # None /\ d.view.seq >= f.to
          /\ f.kind = "snapshot" => d.view.num = f.num
          /\ f.kind = "deltas" => c.view # None /\ d.view.num = c.view.num
      BY <2>3 DEF Completed
    <3>2. ASSUME f.num = n PROVE d.view.num = n
      <4>1. CASE f.kind = "snapshot"
        BY <4>1, <3>1, <3>2
      <4>2. CASE f.kind = "deltas"
        <5>1. Waits(c, R \cup {f}, G, n, ls, k)
          BY DEF f
        <5> QED BY <5>1, <4>2, <3>1, <3>2, <1>1, DeltasFit
      <4> QED BY <4>1, <4>2, <1>1
    <3>3. ASSUME NEW T \in G, Awaited(T, d.view, n, ls) PROVE Shall(d, R, T)
      <4>1. /\ T.ord > f.ord => T \in R
            /\ T.ord <= f.ord /\ T.num = n => f.num = n /\ T.to <= f.to
        BY <3>3, <1>1, <1>10, BeforeOrAfter
      <4>2. T.num = n /\ T.ord \in Nat /\ T.to \in Nat /\ f.to \in Nat /\ d.view \in Views
        BY <3>1, <3>3, <1>1, <1>7 DEF Awaited, SentIn, Frames
      <4>3. d.view.seq \in Nat
        BY <4>2 DEF Views
      <4>4. CASE T.ord <= f.ord
        BY <4>1, <4>2, <4>3, <4>4, <3>1, <3>2 DEF Shall, Covers
      <4>5. CASE T.ord > f.ord
        BY <4>1, <4>5, <3>1 DEF Shall
      <4> QED BY <4>2, <4>4, <4>5, <1>1
    <3> QED BY <3>1, <3>3
  <2>4. CASE Collected(c, f, d)
    <3>1. /\ Taken(c, f) /\ d.view = c.view /\ AtRest(c)
          /\ d.dec.ord = f.ord /\ d.dec.use = f.use /\ d.dec.settled < f.ord /\ ~d.dec.closed
      BY <2>4 DEF Collected, AtRest
    <3>2. ASSUME NEW T \in G, Awaited(T, d.view, n, ls) PROVE Shall(d, R, T)
      <4>1. Shall(c, R \cup {f}, T)
        BY <3>1, <3>2, <1>3 DEF Rest
      <4>2. T.ord \in Nat
        BY DEF SentIn, Frames
      <4>3. CASE Covers(c.view, T)
        BY <4>3, <3>1 DEF Shall
      <4>4. CASE T.ord = f.ord
        BY <4>4, <3>1, <1>1 DEF Shall, Begun
      <4>5. CASE T \in R /\ T.ord # f.ord
        <5>1. T.ord > d.dec.settled
          BY <4>2, <4>5, <3>1, <1>1, <1>7
        <5> QED BY <5>1, <4>5 DEF Shall
      <4>6. CASE Begun(c.dec, T) /\ T.ord # f.ord
        <5>1. c.dec.ord # 0 /\ T.ord <= c.dec.ord /\ (T.ord < c.dec.ord => c.dec.use = "recovery")
          BY <4>6, <4>2, <1>2 DEF Begun
        <5>2. c.dec.ord <= f.ord
          BY <1>3 DEF Beyond
        <5>3. T.ord < f.ord
          BY <5>1, <5>2, <4>2, <4>6, <1>1, <1>2
        <5>4. f.use = "recovery"
          <6>1. CASE c.dec.ord = f.ord
            BY <6>1, <5>1, <5>3, <1>6
          <6>2. CASE c.dec.ord # f.ord
            BY <6>2, <5>1, <3>1 DEF Taken
          <6> QED BY <6>1, <6>2
        <5> QED BY <5>3, <5>4, <3>1, <1>1 DEF Shall, Begun
      <4> QED BY <4>1, <4>3, <4>4, <4>5, <4>6 DEF Shall
    <3> QED BY <3>1, <3>2
  <2> QED BY <1>8, <2>1, <2>2, <2>3, <2>4
<1>14. Waits(d, R, G, n, ls, k)
  BY <1>10, <1>11, <1>12, <1>13 DEF Waits
<1> QED BY <1>9, <1>14 DEF d

\* A numbering that has been shown, or passed, stays so.
LEMMA DeltasStillKnown ==
    ASSUME NEW G, NEW n \in Nat, NEW v \in Viewed, NEW w \in Viewed, Onward(v, w),
           w # None => w.num <= n, DeltasKnown(G, v, n)
    PROVE  DeltasKnown(G, w, n)
<1>1. ASSUME v # None, v.num = n PROVE w # None /\ w.num = n
  <2>1. w # None /\ (v.num < w.num \/ v.num = w.num)
    BY <1>1 DEF Onward
  <2>2. w.num \in Nat
    BY <2>1 DEF Viewed, Views
  <2> QED BY <2>1, <2>2, <1>1
<1> QED BY <1>1 DEF DeltasKnown, NumKnown

\* So do all the wires that the barrier gives out at once.
LEMMA DecodeAllWaits ==
    ASSUME NEW c, ClientOK(c), c.sub # 0, NEW F, NEW H, NEW p, FramesTrue(F, H, p),
           Showing(c, F, H, p), NEW G, NEW n \in Nat \ {0}, n = p.num, NEW k \in Nat,
           SentIn(G, n, k), NEW R, R \subseteq G, NEW ws \in Seq(WireSet),
           \A i \in 1..Len(ws) : /\ ws[i].frame \in F /\ ws[i].frame.sub = c.sub
                                 /\ ws[i].frame \in G
                                 /\ \A g \in R : ws[i].frame.ord <= g.ord,
           \A i, j \in 1..Len(ws) : i < j => ws[i].frame.ord <= ws[j].frame.ord,
           NEW ls, Waits(c, R \cup { ws[i].frame : i \in 1..Len(ws) }, G, n, ls, k),
           DeltasKnown(G, c.view, n)
    PROVE  Waits(DecodeAll(c, ws), R, G, n, ls, k) /\ Onto(c, DecodeAll(c, ws))
<1> DEFINE N == Len(ws)
           Left(m) == R \cup { ws[i].frame : i \in (m + 1)..N }
<1>1. N \in Nat /\ \A i \in 1..N : ws[i] \in WireSet
  OBVIOUS
<1>2. PICK g : /\ g[0] = c /\ \A m \in 1..N : g[m] = Decode(g[m - 1], ws[m])
               /\ DecodeAll(c, ws) = g[N]
  BY <1>1, DecodeAllRuns
<1> DEFINE Good(d, m) == /\ Moved(c, d, F, H, p) /\ Onto(c, d)
                         /\ Waits(d, Left(m), G, n, ls, k)
           Q == { m \in 0..N : Good(g[m], m) }
<1>3. 0 \in Q
  <2>1. Moved(c, c, F, H, p)
    BY MovedAtFirst
  <2>2. Onto(c, c)
    BY MeekAtFirst DEF Meek
  <2>3. Left(0) = R \cup { ws[i].frame : i \in 1..Len(ws) }
    OBVIOUS
  <2> HIDE DEF Left
  <2>4. Good(c, 0)
    BY <2>1, <2>2, <2>3
  <2> HIDE DEF Good
  <2> QED BY <2>4, <1>1, <1>2
<1>4. ASSUME NEW m \in 0..N, m < N, m \in Q PROVE m + 1 \in Q
  <2> DEFINE d == g[m]
             w == ws[m + 1]
             e == g[m + 1]
             f == w.frame
             L == Left(m + 1)
  <2>1. m + 1 \in 1..N /\ (m + 1) - 1 = m
    BY <1>1, <1>4
  <2>2. e = Decode(d, w)
    BY <1>2, <2>1
  <2>3. Good(d, m)
    BY <1>4
  <2>4. w \in WireSet /\ f \in F /\ f.sub = c.sub /\ f \in G
    BY <1>1, <2>1
  <2>5. Left(m) = L \cup {f}
    <3>1. (m + 1)..N = ((m + 1) + 1)..N \cup {m + 1}
      BY <1>1, <1>4
    <3> QED BY <3>1
  <2>6. L \subseteq G /\ \A x \in L : f.ord <= x.ord
    <3>1. ASSUME NEW i \in ((m + 1) + 1)..N
          PROVE  ws[i].frame \in G /\ f.ord <= ws[i].frame.ord
      <4>1. i \in 1..N /\ m + 1 < i
        BY <3>1, <1>1, <1>4
      <4> QED BY <4>1, <2>1
    <3> QED BY <3>1, <2>1
  <2> HIDE DEF d, w, e, f, L, Left
  <2>7. ClientOK(d) /\ d.sub = c.sub /\ Showing(d, F, H, p) /\ Onward(c.view, d.view)
        /\ Asked(c, d) /\ Onto(c, d) /\ Waits(d, L \cup {f}, G, n, ls, k)
        /\ Moved(c, d, F, H, p)
    BY <2>3, <2>5 DEF Moved
  <2>8. Moved(d, e, F, H, p)
    BY <2>2, <2>4, <2>7, DecodeMoves DEF f
  <2>9. ClientOK(e) /\ Asked(d, e) /\ Onward(d.view, e.view)
    BY <2>8 DEF Moved
  <2>10. c.view \in Viewed /\ d.view \in Viewed /\ e.view \in Viewed
    BY <2>7, <2>9 DEF ClientOK, Clients, Viewed
  <2>11. d.view # None => d.view.num <= n
    BY <2>7 DEF Showing
  <2>12. DeltasKnown(G, d.view, n)
    BY <2>7, <2>10, <2>11, DeltasStillKnown
  <2>13. Waits(e, L, G, n, ls, k) /\ Onto(d, e)
    <3>1. d.sub # 0
      BY <2>7
    <3>2. w.frame \in G /\ Waits(d, L \cup {w.frame}, G, n, ls, k) /\ \A x \in L : w.frame.ord <= x.ord
      BY <2>4, <2>6, <2>7 DEF f
    <3>3. e.view = Decode(d, w).view /\ (e.view # None => e.view.num <= n)
      BY <2>2, <2>8 DEF Moved, Showing
    <3> QED BY <3>1, <3>2, <3>3, <2>2, <2>4, <2>6, <2>7, <2>9, <2>11, <2>12, DecodeWaits
  <2>14. Onto(c, e)
    <3>1. d.view # None => /\ e.view # None
                           /\ d.view.num < e.view.num
                              \/ (d.view.num = e.view.num /\ d.view.seq <= e.view.seq)
      BY <2>9 DEF Onward
    <3> QED BY <3>1, <2>7, <2>9, <2>13, OntoOnAndOn
  <2>15. Moved(c, e, F, H, p)
    BY <2>7, <2>8, MovedOnAndOn
  <2>16. Good(e, m + 1)
    BY <2>13, <2>14, <2>15 DEF L
  <2> HIDE DEF Good
  <2> QED BY <2>1, <2>16 DEF e
<1> HIDE DEF Q
<1>5. \A m \in 0..N : m \in Q
  BY <1>1, <1>3, <1>4, Climb
<1>6. N \in Q
  BY <1>1, <1>5
<1>7. Good(g[N], N)
  <2> HIDE DEF Good
  <2> QED BY <1>6 DEF Q
<1>8. Left(N) = R
  <2>1. (N + 1)..N = {}
    BY <1>1
  <2> QED BY <2>1
<1> HIDE DEF Left
<1> QED BY <1>2, <1>7, <1>8

-----------------------------------------------------------------------------
(* The inductive invariant.  G are the frames that were sent on the last    *)
(* subscription.                                                            *)

Sent(G) ==
    /\ SentIn(G, pub.num, srv.ord)
    /\ \A T \in G : T.sub = srv.id /\ (T.num = pub.num => T.to <= Top(pub))
    /\ srv.ord # 0 => \E T \in G : T.ord = srv.ord
    /\ \A f \in OnTheWay : f.sub = srv.id => f \in G

\* The wires of the subscription S travel in the order in which their frames were sent.
On(m, S) == m \in WireSet /\ m.frame.sub = S
Sorted(s, S) ==
    \A i, j \in 1..Len(s) :
        i < j /\ On(s[i], S) /\ On(s[j], S) => s[i].frame.ord <= s[j].frame.ord
Before(s, t, S) ==
    \A i \in 1..Len(s), j \in 1..Len(t) :
        On(s[i], S) /\ On(t[j], S) => s[i].frame.ord <= t[j].frame.ord
Ordered ==
    /\ Sorted(down, srv.id) /\ Sorted(cl.staged, srv.id) /\ Before(cl.staged, down, srv.id)
    /\ \A f \in FramesOf(outbox) : f.sub = srv.id /\ f.ord = srv.ord

\* What the publisher has not sent, a timer or the draining of the connection will send; and
\* what it has sent is what the last frame of the subscription brings, or what the client had.
Sends(G) ==
    /\ srv.live /\ ~srv.held /\ ~timer /\ ~paused => srv.sent = CurrentSeq /\ ~srv.over
    /\ srv.live /\ ~srv.held /\ ~srv.over =>
         \A L \in G : L.ord = srv.ord => L.num = pub.num /\ L.to = srv.sent
    /\ srv.live /\ ~srv.over /\ srv.ord = 0 =>
         cl.view # None /\ cl.view.num = pub.num /\ cl.view.seq >= srv.sent
    /\ srv.live /\ ~srv.over => NumKnown(G, cl.view, pub.num, srv.ord + 1)

\* The client asks to go on from what it shows, or has shown.
Based(c) == \A i \in 1..Len(c.up) : c.up[i].base # None => Past(c.up[i].base, c.view)

\* U are the replies to subscribes that are under way.  A live client has the last
\* subscription and asks for no other; so does one whose latest subscribe has been answered;
\* the others are replaced, and only those are given up.
UnderWay ==
    { m \in Replies : /\ m.op = "subscribe"
                      /\ \/ m \in arrived
                         \/ \E i \in 1..Len(down) : down[i] = m
                         \/ \E i \in 1..Len(outbox) : outbox[i] = m }
Asking(c) == \E i \in 1..Len(c.up) : c.up[i].op = "subscribe"
Seats(c, s, U) ==
    /\ c.status = "live" => s.live /\ c.sub = s.id /\ ~Asking(c)
    /\ \A m \in U : IF m.id = c.gen
                    THEN s.live /\ m.sub = s.id /\ ~Asking(c) /\ c.gen \in c.pending
                    ELSE m.sub < s.id \/ Asking(c)
    /\ \A i \in 1..Len(c.up) : c.up[i].op = "subscribe" =>
         IF c.up[i].id = c.gen
         THEN c.gen \in c.pending /\ \A j \in 1..Len(c.up) : j > i => c.up[j].op # "subscribe"
         ELSE \E j \in 1..Len(c.up) : j > i /\ c.up[j].op = "subscribe"
    /\ \A i \in 1..Len(c.up) : c.up[i].op = "unsubscribe" =>
         /\ c.up[i].sub <= s.id
         /\ c.up[i].sub = s.id => \E j \in 1..Len(c.up) : j < i /\ c.up[j].op = "subscribe"

\* A client that has the last subscription waits for what is still under way on it; for one
\* that is about to get it, that is all it needs.
Yet == { f \in FramesOf(down) \cup FramesOf(outbox) : f.sub = srv.id }
Expects(G) ==
    /\ cl.sub = srv.id /\ cl.sub # 0 => Waits(cl, Yet, G, pub.num, lost, srv.ord)
    /\ cl.sub # srv.id /\ (\E m \in UnderWay : m.id = cl.gen) =>
         \A T \in G : Awaited(T, cl.view, pub.num, lost) => T \in Yet \cup FramesOf(cl.staged)

Delivers(G) ==
    /\ Sent(G) /\ Ordered /\ DeltasKnown(G, cl.view, pub.num) /\ Sends(G)
    /\ Based(cl) /\ Seats(cl, srv, UnderWay) /\ Expects(G)

\* A part of the channel is in order,
LEMMA PartIsSorted ==
    ASSUME NEW s, NEW t, PartOf(s, t), NEW S
    PROVE  /\ Sorted(t, S) => Sorted(s, S)
           /\ \A u : Before(u, t, S) => Before(u, s, S)
<1>1. ASSUME Sorted(t, S) PROVE Sorted(s, S)
  <2> SUFFICES ASSUME NEW i \in 1..Len(s), NEW j \in 1..Len(s), i < j, On(s[i], S), On(s[j], S)
               PROVE  s[i].frame.ord <= s[j].frame.ord
    BY DEF Sorted
  <2>1. PICK k \in 1..Len(t), l \in 1..Len(t) : k < l /\ s[i] = t[k] /\ s[j] = t[l]
    BY DEF PartOf
  <2> QED BY <2>1, <1>1 DEF Sorted
<1>2. ASSUME NEW u, Before(u, t, S) PROVE Before(u, s, S)
  <2>1. \A j \in 1..Len(s) : \E k \in 1..Len(t) : s[j] = t[k]
    BY DEF PartOf
  <2> QED BY <2>1, <1>2 DEF Before
<1> QED BY <1>1, <1>2

\* and so is one to which the wires of a last frame are added.
LEMMA LastIsSorted ==
    ASSUME NEW s \in Seq(Messages), NEW t \in Seq(Messages), NEW S, NEW k,
           Sorted(s, S), \A f \in FramesOf(s) : f.sub = S => f.ord \in Nat /\ f.ord <= k,
           \A f \in FramesOf(t) : f.sub = S => f.ord = k /\ k \in Nat
    PROVE  /\ Sorted(s \o t, S)
           /\ \A u : Before(u, s, S) /\ (\A f \in FramesOf(u) : f.sub = S => f.ord <= k)
                     => Before(u, s \o t, S)
<1>1. /\ Len(s \o t) = Len(s) + Len(t) /\ Len(s) \in Nat /\ Len(t) \in Nat
      /\ \A i \in 1..Len(s) + Len(t) : (s \o t)[i] = IF i <= Len(s) THEN s[i] ELSE t[i - Len(s)]
  BY ConcatProperties
<1> DEFINE w == s \o t
<1>2. \A i \in 1..Len(w) : \/ i \in 1..Len(s) /\ w[i] = s[i]
                           \/ i > Len(s) /\ i - Len(s) \in 1..Len(t) /\ w[i] = t[i - Len(s)]
  BY <1>1
<1>3. \A u : \A i \in 1..Len(u) : On(u[i], S) => u[i].frame \in FramesOf(u) /\ u[i].frame.sub = S
  BY DEF On, FramesOf
<1> HIDE DEF w
<1>4. ASSUME NEW j \in 1..Len(w), On(w[j], S), ~(j \in 1..Len(s))
      PROVE  w[j].frame.ord = k /\ k \in Nat
  <2>1. j - Len(s) \in 1..Len(t) /\ w[j] = t[j - Len(s)]
    BY <1>2, <1>4
  <2> QED BY <2>1, <1>3, <1>4
<1>5. Sorted(w, S)
  <2> SUFFICES ASSUME NEW i \in 1..Len(w), NEW j \in 1..Len(w), i < j, On(w[i], S), On(w[j], S)
               PROVE  w[i].frame.ord <= w[j].frame.ord
    BY DEF Sorted
  <2>1. CASE j \in 1..Len(s)
    <3>1. i \in 1..Len(s)
      BY <2>1, <1>1
    <3>2. w[i] = s[i] /\ w[j] = s[j]
      BY <2>1, <3>1, <1>2
    <3> QED BY <2>1, <3>1, <3>2 DEF Sorted
  <2>2. CASE ~(j \in 1..Len(s)) /\ i \in 1..Len(s)
    <3>1. w[i] = s[i]
      BY <2>2, <1>2
    <3>2. w[i].frame.ord <= k
      BY <3>1, <2>2, <1>3
    <3> QED BY <3>2, <2>2, <1>4
  <2>3. CASE ~(j \in 1..Len(s)) /\ ~(i \in 1..Len(s))
    BY <2>3, <1>4
  <2> QED BY <2>1, <2>2, <2>3
<1>6. ASSUME NEW u, Before(u, s, S), \A f \in FramesOf(u) : f.sub = S => f.ord <= k
      PROVE  Before(u, w, S)
  <2> SUFFICES ASSUME NEW i \in 1..Len(u), NEW j \in 1..Len(w), On(u[i], S), On(w[j], S)
               PROVE  u[i].frame.ord <= w[j].frame.ord
    BY DEF Before
  <2>1. CASE j \in 1..Len(s)
    BY <2>1, <1>2, <1>6 DEF Before
  <2>2. CASE ~(j \in 1..Len(s))
    BY <2>2, <1>3, <1>4, <1>6
  <2> QED BY <2>1, <2>2
<1> QED BY <1>5, <1>6 DEF w

-----------------------------------------------------------------------------
(* What the client asks keeps the invariant.                               *)

\* What it has asked to go on from is still behind what it shows.
LEMMA PastStays ==
    ASSUME NEW b \in Bases, NEW v \in Viewed, NEW w \in Viewed, Onward(v, w), Past(b, v)
    PROVE  Past(b, w)
<1>1. v # None /\ w # None /\ v \in Views /\ w \in Views
  BY DEF Past, Onward, Viewed
<1>2. v.num \in Nat /\ w.num \in Nat /\ v.seq \in Nat /\ w.seq \in Nat
      /\ b.num \in Nat /\ b.seq \in Nat
  BY <1>1 DEF Views, Bases
<1> QED BY <1>1, <1>2 DEF Past, Onward

\* So is what it asks now.
LEMMA BasedAfterAsking ==
    ASSUME NEW c, NEW d, ClientOK(c), ClientOK(d), Asked(c, d), Onto(c, d),
           Onward(c.view, d.view), Based(c)
    PROVE  Based(d)
<1>1. c.up \in Seq(Requests) /\ d.up \in Seq(Requests) /\ c.view \in Viewed /\ d.view \in Viewed
  BY DEF ClientOK, Clients, Viewed
<1>2. Len(c.up) \in Nat /\ Len(d.up) \in Nat /\ \A i \in 1..Len(d.up) : d.up[i] \in Requests
  BY <1>1
<1> SUFFICES ASSUME NEW i \in 1..Len(d.up), d.up[i].base # None PROVE Past(d.up[i].base, d.view)
  BY DEF Based
<1>3. d.up[i].base \in Bases
  BY <1>2 DEF Requests
<1>4. CASE i > Len(c.up)
  BY <1>4 DEF Onto
<1>5. CASE ~(i > Len(c.up))
  <2>1. i \in 1..Len(c.up) /\ d.up[i] = c.up[i]
    BY <1>2, <1>5 DEF Asked
  <2>2. Past(d.up[i].base, c.view)
    BY <2>1 DEF Based
  <2> QED BY <2>2, <1>1, <1>3, PastStays
<1> QED BY <1>4, <1>5

\* What it asks keeps the subscriptions apart.
LEMMA SeatsAfterAsking ==
    ASSUME NEW c, NEW d, ClientOK(c), ClientOK(d), Asked(c, d), Onto(c, d), d.sub = c.sub,
           \A i, j \in 1..Len(d.up) :
             i < j /\ d.up[i].op = "subscribe" /\ d.up[j].op = "subscribe" => d.up[i].id # d.up[j].id,
           NEW s, NEW U, Seats(c, s, U), \A m \in U : m.id \in Nat /\ m.id <= c.gen
    PROVE  Seats(d, s, U)
<1>1. c.up \in Seq(Requests) /\ d.up \in Seq(Requests) /\ c.gen \in Nat /\ d.gen \in Nat
  BY DEF ClientOK, Clients
<1>2. /\ Len(c.up) \in Nat /\ Len(d.up) \in Nat /\ Len(c.up) <= Len(d.up)
      /\ c.gen <= d.gen /\ \A i \in 1..Len(c.up) : i \in 1..Len(d.up) /\ d.up[i] = c.up[i]
  BY <1>1 DEF Asked
<1>3. \A i \in 1..Len(d.up) : d.up[i].id \in Nat
  <2>1. \A i \in 1..Len(d.up) : d.up[i] \in Requests
    BY <1>1
  <2> QED BY <2>1 DEF Requests
<1>4. \A i \in 1..Len(d.up) : i \in 1..Len(c.up) \/ i > Len(c.up)
  BY <1>2
<1>5. \A i \in 1..Len(d.up) : d.up[i].op = "unsubscribe" => i \in 1..Len(c.up) /\ d.up[i] = c.up[i]
  BY <1>2, <1>4 DEF Onto
<1>6. \A i \in 1..Len(d.up) : d.up[i].op = "unsubscribe" =>
         /\ d.up[i].sub <= s.id
         /\ d.up[i].sub = s.id => \E j \in 1..Len(d.up) : j < i /\ d.up[j].op = "subscribe"
  <2> SUFFICES ASSUME NEW i \in 1..Len(d.up), d.up[i].op = "unsubscribe"
               PROVE  /\ d.up[i].sub <= s.id
                      /\ d.up[i].sub = s.id =>
                           \E j \in 1..Len(d.up) : j < i /\ d.up[j].op = "subscribe"
    OBVIOUS
  <2>1. i \in 1..Len(c.up) /\ d.up[i] = c.up[i]
    BY <1>5
  <2>2. /\ c.up[i].sub <= s.id
        /\ c.up[i].sub = s.id => \E j \in 1..Len(c.up) : j < i /\ c.up[j].op = "subscribe"
    BY <2>1 DEF Seats
  <2> QED BY <2>1, <2>2, <1>2
<1>7. CASE d.gen = c.gen
  <2>1. \A i \in 1..Len(d.up) : d.up[i].op = "subscribe" => i \in 1..Len(c.up) /\ d.up[i] = c.up[i]
    <3> SUFFICES ASSUME NEW i \in 1..Len(d.up), d.up[i].op = "subscribe", i > Len(c.up)
                 PROVE  FALSE
      BY <1>2, <1>4
    <3>1. d.up[i].id > c.gen /\ d.up[i].id <= d.gen
      BY DEF Asked
    <3> QED BY <3>1, <1>1, <1>3, <1>7
  <2>2. Asking(d) <=> Asking(c)
    BY <2>1, <1>2 DEF Asking
  <2>3. c.pending \subseteq d.pending /\ (d.status = "live" => c.status = "live")
    BY <1>7 DEF Onto
  <2>4. ASSUME NEW i \in 1..Len(d.up), d.up[i].op = "subscribe"
        PROVE  IF d.up[i].id = d.gen
               THEN d.gen \in d.pending /\ \A j \in 1..Len(d.up) : j > i => d.up[j].op # "subscribe"
               ELSE \E j \in 1..Len(d.up) : j > i /\ d.up[j].op = "subscribe"
    <3>1. i \in 1..Len(c.up) /\ d.up[i] = c.up[i]
      BY <2>1, <2>4
    <3>2. CASE d.up[i].id = d.gen
      <4>1. c.gen \in c.pending /\ \A j \in 1..Len(c.up) : j > i => c.up[j].op # "subscribe"
        BY <3>1, <3>2, <2>4, <1>7 DEF Seats
      <4> QED BY <4>1, <3>2, <2>1, <2>3, <1>7
    <3>3. CASE d.up[i].id # d.gen
      <4>1. \E j \in 1..Len(c.up) : j > i /\ c.up[j].op = "subscribe"
        BY <3>1, <3>3, <2>4, <1>7 DEF Seats
      <4> QED BY <4>1, <3>3, <1>2
    <3> QED BY <3>2, <3>3
  <2>5. d.status = "live" => s.live /\ d.sub = s.id /\ ~Asking(d)
    BY <2>2, <2>3 DEF Seats
  <2>6. \A m \in U : IF m.id = d.gen
                     THEN s.live /\ m.sub = s.id /\ ~Asking(d) /\ d.gen \in d.pending
                     ELSE m.sub < s.id \/ Asking(d)
    BY <2>2, <2>3, <1>7 DEF Seats
  <2> QED BY <2>4, <2>5, <2>6, <1>6 DEF Seats
<1>8. CASE d.gen # c.gen
  <2>1. d.status # "live" /\ d.gen \in d.pending /\ Subscribing(d, Len(c.up))
    BY <1>8 DEF Onto
  <2>2. PICK k \in 1..Len(d.up) :
            /\ k > Len(c.up) /\ d.up[k].op = "subscribe" /\ d.up[k].id = d.gen
            /\ \A j \in 1..Len(d.up) : j > k => d.up[j].op # "subscribe"
    BY <2>1 DEF Subscribing
  <2>3. Asking(d)
    BY <2>2 DEF Asking
  <2>4. ASSUME NEW i \in 1..Len(d.up), d.up[i].op = "subscribe"
        PROVE  IF d.up[i].id = d.gen
               THEN d.gen \in d.pending /\ \A j \in 1..Len(d.up) : j > i => d.up[j].op # "subscribe"
               ELSE \E j \in 1..Len(d.up) : j > i /\ d.up[j].op = "subscribe"
    <3>1. CASE i = k
      BY <3>1, <2>1, <2>2
    <3>2. CASE i # k
      <4>1. i < k
        BY <2>2, <2>4, <3>2, <1>2
      <4>2. d.up[i].id # d.gen
        BY <4>1, <2>2, <2>4
      <4> QED BY <4>1, <4>2, <2>2
    <3> QED BY <3>1, <3>2
  <2>5. \A m \in U : m.id # d.gen
    BY <1>1, <1>2, <1>8
  <2> QED BY <2>1, <2>3, <2>4, <2>5, <1>6 DEF Seats
<1> QED BY <1>7, <1>8

\* A meek step leaves the client waiting.
LEMMA WaitsMeek ==
    ASSUME NEW c, NEW d, ClientOK(c), ClientOK(d), Meek(c, d), NEW G, NEW n, NEW k \in Nat,
           SentIn(G, n, k), NEW R, R \subseteq G, NEW ls, Waits(c, R, G, n, ls, k)
    PROVE  Waits(d, R, G, n, ls, k)
<1>1. /\ d.view = c.view /\ GoesOn(c.dec, d.dec) /\ (Seen(d) => Seen(c))
      /\ (AtRest(d) => AtRest(c) /\ d.dec = c.dec)
  BY DEF Meek
<1>2. c.dec.ord \in Nat /\ c.dec.settled \in Nat /\ (c.dec.ord # 0 => c.dec.ord > c.dec.settled)
      /\ d.dec.ord \in Nat /\ d.dec.settled \in Nat
  BY DEF ClientOK, Clients, Decoders
<1>3. Known(c, G, k) /\ Beyond(c, R) /\ Rest(c, R, G, n, ls)
      /\ \A T \in G : Awaited(T, c.view, n, ls) => Tracked(T, R)
  BY DEF Waits
<1>4. Known(d, G, k)
  <2>1. d.dec.ord # 0 => \E D \in G : D.ord = d.dec.ord /\ D.use = d.dec.use
    BY <1>1, <1>3 DEF GoesOn, Known
  <2>2. c.dec.ord # 0 => c.dec.ord <= k
    BY <1>3 DEF Known, SentIn
  <2>3. d.dec.settled <= k /\ d.dec.settled >= c.dec.settled
    BY <2>2, <1>1, <1>2, <1>3 DEF GoesOn, Known
  <2>4. Seen(d) => d.view # None /\ d.dec.settled >= 1
    BY <2>3, <1>1, <1>2, <1>3 DEF Known
  <2> QED BY <2>1, <2>3, <2>4 DEF Known
<1>5. Beyond(d, R)
  <2> SUFFICES ASSUME NEW g \in R PROVE d.dec.ord <= g.ord
    BY DEF Beyond
  <2>1. g.ord \in Nat /\ c.dec.ord <= g.ord
    BY <1>3 DEF SentIn, Frames, Beyond
  <2>2. d.dec.ord \in {0, c.dec.ord}
    BY <1>1 DEF GoesOn
  <2> QED BY <2>1, <2>2
<1>6. Rest(d, R, G, n, ls)
  BY <1>1, <1>3 DEF Rest, Shall
<1> QED BY <1>1, <1>3, <1>4, <1>5, <1>6 DEF Waits

\* The replies to subscribes that are under way are numbered.
LEMMA UnderWayNumbered ==
    ASSUME Numbered
    PROVE  \A m \in UnderWay :
             /\ m \in Replies /\ Asks(m) /\ m.id \in Nat /\ m.sub \in Nat
             /\ m.id <= cl.gen /\ m.sub <= srv.id /\ (m.id = cl.gen => m.sub > cl.sub)
<1> SUFFICES ASSUME NEW m \in UnderWay
             PROVE  /\ m \in Replies /\ Asks(m) /\ m.id \in Nat /\ m.sub \in Nat
                    /\ m.id <= cl.gen /\ m.sub <= srv.id /\ (m.id = cl.gen => m.sub > cl.sub)
  OBVIOUS
<1>1. m \in Replies /\ m.op = "subscribe"
      /\ (m \in arrived \/ (\E i \in 1..Len(down) : down[i] = m)
                        \/ (\E i \in 1..Len(outbox) : outbox[i] = m))
  BY DEF UnderWay
<1>2. Asks(m)
  BY <1>1 DEF Asks
<1>3. Answers(m, cl, srv)
  BY <1>1 DEF Numbered
<1> QED BY <1>1, <1>2, <1>3 DEF Answers, Replies

\* A numbering that has been shown, or sent, stays known.
LEMMA NumStillKnown ==
    ASSUME NEW G, NEW n \in Nat, NEW v \in Viewed, NEW w \in Viewed, Onward(v, w),
           w # None => w.num <= n, NEW k, NumKnown(G, v, n, k)
    PROVE  NumKnown(G, w, n, k)
<1>1. ASSUME v # None, v.num = n PROVE w # None /\ w.num = n
  <2>1. w # None /\ (v.num < w.num \/ v.num = w.num)
    BY <1>1 DEF Onward
  <2>2. w.num \in Nat
    BY <2>1 DEF Viewed, Views
  <2> QED BY <2>1, <2>2, <1>1
<1> QED BY <1>1 DEF NumKnown

\* What the client shows is of no later numbering than the publisher's.
LEMMA ShownInTime ==
    ASSUME Sound, NEW H, Truth(H)
    PROVE  /\ cl.view \in Viewed /\ pub.num \in Nat \ {0} /\ srv.ord \in Nat /\ srv.id \in Nat
           /\ srv.sent \in Nat /\ ClientOK(cl) /\ cl.sub \in Nat
           /\ cl.view # None => cl.view.num <= pub.num
BY DEF Sound, TypeOK, PublisherOK, ClientOK, Clients, Viewed, Projections, Subscriptions,
       Truth, Showing

\* What the publisher has to send does not depend on the steps of the client.
LEMMA ClientSends ==
    ASSUME Sound, NEW H, Truth(H), NEW G, Sends(G), Sound', NEW K, Truth(K)',
           Onward(cl.view, cl'.view), UNCHANGED serverVars
    PROVE  Sends(G)'
<1>0. pub' = pub /\ srv' = srv /\ timer' = timer /\ paused' = paused
  BY DEF serverVars
<1> DEFINE v == cl.view
           w == cl'.view
<1>1. /\ v \in Viewed /\ w \in Viewed /\ pub.num \in Nat /\ srv.sent \in Nat
      /\ w # None => w.num <= pub.num
  BY <1>0, ShownInTime DEF Sound, TypeOK, PublisherOK, ClientOK, Clients, Viewed, Truth, Showing
<1>2. Onward(v, w)
  OBVIOUS
<1>3. ASSUME v # None, v.num = pub.num, v.seq >= srv.sent
      PROVE  w # None /\ w.num = pub.num /\ w.seq >= srv.sent
  <2>1. w # None /\ (v.num < w.num \/ (v.num = w.num /\ v.seq <= w.seq))
    BY <1>2, <1>3 DEF Onward
  <2>2. w.num \in Nat /\ w.seq \in Nat /\ v.seq \in Nat
    BY <2>1, <1>1, <1>3 DEF Viewed, Views
  <2> QED BY <2>1, <2>2, <1>1, <1>3
<1>4. ASSUME NEW k, NumKnown(G, v, pub.num, k) PROVE NumKnown(G, w, pub.num, k)
  BY <1>1, <1>2, <1>4, NumStillKnown
<1>5. CurrentSeq' = CurrentSeq
  BY <1>0 DEF CurrentSeq
<1>6. srv.live /\ ~srv.over /\ srv.ord = 0 =>
         w # None /\ w.num = pub.num /\ w.seq >= srv.sent
  BY <1>3 DEF Sends
<1>7. srv.live /\ ~srv.over => NumKnown(G, w, pub.num, srv.ord + 1)
  BY <1>4 DEF Sends
<1> QED BY <1>0, <1>5, <1>6, <1>7 DEF Sends

\* A step of the client keeps the invariant if it keeps what is about the client.
LEMMA ClientGoes ==
    ASSUME Sound, NEW H, Truth(H), NEW G, Delivers(G), Sound', NEW K, Truth(K)',
           Onward(cl.view, cl'.view), UNCHANGED serverVars, PartOf(down', down),
           OnTheWay' \subseteq OnTheWay,
           Sorted(cl'.staged, srv.id), Before(cl'.staged, down', srv.id),
           Based(cl'), Seats(cl', srv, UnderWay'), Expects(G)'
    PROVE  Delivers(G)'
<1>0. pub' = pub /\ srv' = srv /\ outbox' = outbox
  BY DEF serverVars
<1>1. Sent(G)'
  <2>1. Sent(G)
    BY DEF Delivers
  <2> QED BY <2>1, <1>0 DEF Sent
<1>2. Ordered'
  <2>1. Ordered
    BY DEF Delivers
  <2>2. Sorted(down', srv.id)
    BY <2>1, PartIsSorted DEF Ordered
  <2> QED BY <2>1, <2>2, <1>0 DEF Ordered
<1>3. DeltasKnown(G, cl'.view, pub.num)
  <2> DEFINE v == cl.view
             w == cl'.view
  <2>1. v \in Viewed /\ w \in Viewed /\ pub.num \in Nat /\ (w # None => w.num <= pub.num)
    BY <1>0, ShownInTime DEF Sound, TypeOK, PublisherOK, ClientOK, Clients, Viewed, Truth, Showing
  <2>2. Onward(v, w) /\ DeltasKnown(G, v, pub.num)
    BY DEF Delivers
  <2> HIDE DEF v, w
  <2>3. DeltasKnown(G, w, pub.num)
    BY <2>1, <2>2, DeltasStillKnown
  <2> QED BY <2>3 DEF w
<1>4. Sends(G)'
  BY ClientSends DEF Delivers
<1>5. Seats(cl', srv', UnderWay')
  BY <1>0
<1> QED BY <1>0, <1>1, <1>2, <1>3, <1>4, <1>5 DEF Delivers

\* Less travels, but no frame of it.
LEMMA QuietGoes ==
    ASSUME Sound, NEW H, Truth(H), NEW G, Delivers(G), Sound', NEW K, Truth(K)',
           UNCHANGED <<serverVars, lost>>, PartOf(down', down), FramesOf(down') = FramesOf(down),
           UnderWay' \subseteq UnderWay, Kept(cl, cl'), Onto(cl, cl'),
           cl.sub = srv.id /\ cl.sub # 0 => Meek(cl, cl')
    PROVE  Delivers(G)'
<1>0. /\ pub' = pub /\ srv' = srv /\ outbox' = outbox /\ lost' = lost
      /\ UNCHANGED serverVars
  BY DEF serverVars
<1>1. /\ ClientOK(cl') /\ Asked(cl, cl') /\ cl'.sub = cl.sub /\ cl'.staged = cl.staged
      /\ cl'.view = cl.view /\ ClientOK(cl) /\ cl.view \in Viewed
  BY ShownInTime DEF Kept
<1>2. Onward(cl.view, cl'.view)
  BY <1>1, OnwardAtFirst
<1>3. /\ Sent(G) /\ Ordered /\ DeltasKnown(G, cl.view, pub.num) /\ Sends(G)
      /\ Based(cl) /\ Seats(cl, srv, UnderWay) /\ Expects(G)
  BY DEF Delivers
<1>4. OnTheWay' \subseteq OnTheWay
  BY <1>0, <1>1 DEF OnTheWay
<1>5. Sorted(cl'.staged, srv.id) /\ Before(cl'.staged, down', srv.id)
  BY <1>1, <1>3, PartIsSorted DEF Ordered
<1>6. Based(cl')
  BY <1>1, <1>2, <1>3, BasedAfterAsking
<1>7. \A m \in UnderWay : m.id \in Nat /\ m.id <= cl.gen
  BY UnderWayNumbered DEF Sound
<1>8. Seats(cl', srv, UnderWay')
  <2>1. \A i, j \in 1..Len(cl'.up) :
          i < j /\ cl'.up[i].op = "subscribe" /\ cl'.up[j].op = "subscribe" =>
            cl'.up[i].id # cl'.up[j].id
    <3>1. Once(cl'.up)
      BY DEF Sound, Distinct
    <3>2. \A i \in 1..Len(cl'.up) : cl'.up[i] \in Requests
      BY <1>1 DEF ClientOK, Clients
    <3> QED BY <3>1, <3>2 DEF Once, Asks
  <2>2. Seats(cl', srv, UnderWay)
    <3> DEFINE c == cl
               d == cl'
               U == UnderWay
               s == srv
    <3>1. /\ ClientOK(c) /\ ClientOK(d) /\ Asked(c, d) /\ Onto(c, d) /\ d.sub = c.sub
          /\ Seats(c, s, U) /\ \A m \in U : m.id \in Nat /\ m.id <= c.gen
          /\ \A i, j \in 1..Len(d.up) :
               i < j /\ d.up[i].op = "subscribe" /\ d.up[j].op = "subscribe" => d.up[i].id # d.up[j].id
      BY <1>1, <1>3, <1>7, <2>1
    <3> HIDE DEF c, d, U, s
    <3>2. Seats(d, s, U)
      BY <3>1, SeatsAfterAsking
    <3> QED BY <3>2 DEF c, d, U, s
  <2> QED BY <2>2 DEF Seats
<1>9. Expects(G)'
  <2>1. Yet' = Yet
    BY <1>0 DEF Yet
  <2>2. ASSUME cl.sub = srv.id, cl.sub # 0
        PROVE  Waits(cl', Yet, G, pub.num, lost, srv.ord)
    <3> DEFINE c == cl
               d == cl'
               n == pub.num
               k == srv.ord
               R == Yet
    <3>1. Meek(c, d) /\ ClientOK(c) /\ ClientOK(d) /\ k \in Nat /\ Waits(c, R, G, n, lost, k)
          /\ SentIn(G, n, k)
      BY <2>2, <1>1, <1>3, ShownInTime DEF Expects, Sent
    <3>2. R \subseteq G
      BY <1>3 DEF Yet, Sent, OnTheWay
    <3> HIDE DEF c, d, n, k, R
    <3>3. Waits(d, R, G, n, lost, k)
      BY <3>1, <3>2, WaitsMeek
    <3> QED BY <3>3 DEF d, n, k, R
  <2>3. ASSUME NEW m \in UnderWay', m.id = cl'.gen PROVE m \in UnderWay /\ m.id = cl.gen
    <3>1. m \in UnderWay /\ m.id \in Nat /\ m.id <= cl.gen
      BY <2>3, <1>7
    <3>2. cl.gen <= cl'.gen /\ cl.gen \in Nat /\ cl'.gen \in Nat
      BY <1>1 DEF Asked, ClientOK, Clients
    <3> QED BY <3>1, <3>2, <2>3
  <2> QED BY <2>1, <2>2, <2>3, <1>0, <1>1, <1>3 DEF Expects
<1> QED BY <1>0, <1>2, <1>4, <1>5, <1>6, <1>8, <1>9, ClientGoes

-----------------------------------------------------------------------------
(* The timers and the replies.                                             *)

\* After a fault nothing else is asked either when the client has no subscription.
LEMMA HandleFaultOnto ==
    ASSUME NEW c, ClientOK(c), NEW use \in {"initial", "online", "recovery"}
    PROVE  Onto(c, HandleFault(c, use, FALSE)) /\ (c.sub = 0 => Meek(c, HandleFault(c, use, FALSE)))
<1> DEFINE a == [c EXCEPT !.awaiting = c.awaiting /\ use = "online"]
           again == (use = "recovery")
           d == HandleFault(c, use, FALSE)
<1>1. Kept(c, a) /\ ClientOK(a)
  BY AwaitingKeeps DEF Kept
<1>2. Meek(c, a) /\ a.flight = c.flight /\ a.sub = c.sub
  BY AwaitingMeek
<1>3. \/ a.flight # None /\ d = Beside(a)
      \/ d = RequestRecovery(a, again, FALSE)
  BY DEF HandleFault
<1>4. /\ again \in BOOLEAN
      /\ a.sub = 0 => a.flight = None /\ RequestRecovery(a, again, FALSE) = Connect(a, TRUE)
  BY <1>1 DEF ClientOK, RequestRecovery
<1> HIDE DEF a, d, again
<1>5. Kept(a, d) /\ Meek(a, d)
  <2>1. CASE a.flight # None /\ d = Beside(a)
    BY <2>1, <1>1, BesideKeeps, BesideMeek
  <2>2. CASE d = RequestRecovery(a, again, FALSE) /\ a.sub # 0
    BY <2>2, <1>1, <1>4, RequestRecoveryKeeps, RequestRecoveryMeek
  <2>3. CASE d = RequestRecovery(a, again, FALSE) /\ a.sub = 0
    <3>1. d = Connect(a, TRUE)
      BY <2>3, <1>4
    <3> QED BY <3>1, <1>1, ConnectKeeps, ConnectMeek
  <2> QED BY <1>3, <2>1, <2>2, <2>3
<1>6. Meek(c, d)
  BY <1>1, <1>2, <1>5, MeekOnAndOn
<1>7. Onto(c, d) /\ (c.sub = 0 => Meek(c, d))
  BY <1>6 DEF Meek
<1> QED BY <1>7 DEF d

\* Nothing of the channel changes.
LEMMA StillTravels ==
    ASSUME Sound, UNCHANGED <<serverVars, down, arrived>>
    PROVE  PartOf(down', down) /\ FramesOf(down') = FramesOf(down) /\ UnderWay' = UnderWay
<1>1. down' = down /\ arrived' = arrived /\ outbox' = outbox
  BY DEF serverVars
<1>2. down \in Seq(Messages)
  BY DEF Sound, TypeOK, ChannelOK, Messages
<1>3. PartOf(down, down)
  BY <1>2, TailIsPart
<1> QED BY <1>1, <1>3 DEF UnderWay

\* The timer of the assembler makes the client ask for the frame it has waited for.
LEMMA ExpireGoes ==
    ASSUME Sound, NEW H, Truth(H), NEW G, Delivers(G), Sound', NEW K, Truth(K)', Expire
    PROVE  Delivers(G)'
<1> DEFINE shut == [cl EXCEPT !.dec = Closed(cl.dec)]
           use == cl.dec.use
           d == HandleFault(shut, use, FALSE)
<1>1. TypeOK /\ ClientOK(cl) /\ use \in {"initial", "online", "recovery"} /\ cl.dec.ord # 0
      /\ UNCHANGED <<serverVars, down, arrived, lost>>
  BY DEF Sound, TypeOK, Expire, historyVars, ClientOK, Clients, Decoders
<1>2. cl' = d
  BY <1>1 DEF Expire, ClientOK, Clients
<1>3. Kept(cl, shut) /\ ClientOK(shut)
  BY <1>1, OpenedKeeps DEF Kept
<1>4. Onto(cl, shut) /\ shut.dec = Closed(cl.dec) /\ shut.view = cl.view /\ shut.sub = cl.sub
      /\ (Seen(shut) <=> Seen(cl))
  BY <1>1, DecoderOnto
<1>5. GoesOn(cl.dec, Closed(cl.dec))
  <2>1. Closed(cl.dec).ord = 0 /\ Closed(cl.dec).settled = cl.dec.ord
    BY <1>1 DEF Closed, Abort, Release, ClientOK, Clients, Decoders
  <2> QED BY <2>1, <1>1 DEF GoesOn
<1> HIDE DEF shut
<1>6. Kept(shut, d) /\ Onto(shut, d)
  BY <1>1, <1>3, HandleFaultKeeps, HandleFaultOnto
<1> HIDE DEF d
<1>7. Kept(cl, d) /\ ClientOK(d)
  <2>1. Kept(cl, d)
    BY <1>1, <1>3, <1>6, KeptOnAndOn
  <2> QED BY <2>1 DEF Kept
<1>8. Onto(cl, d)
  <2>1. shut.view \in Views \cup {None} /\ d.view = shut.view /\ Asked(cl, shut) /\ Asked(shut, d)
    BY <1>3, <1>6 DEF ClientOK, Clients, Kept
  <2>2. shut.view # None => d.view # None /\ shut.view.num = d.view.num /\ shut.view.seq <= d.view.seq
    BY <2>1 DEF Views
  <2> QED BY <2>1, <2>2, <1>1, <1>3, <1>4, <1>6, <1>7, OntoOnAndOn
<1>9. ASSUME cl.sub = srv.id, cl.sub # 0 PROVE Meek(cl, d)
  <2>1. Known(cl, G, srv.ord) /\ SentIn(G, pub.num, srv.ord)
    BY <1>9 DEF Delivers, Expects, Waits, Sent
  <2>2. use = "initial" => ~Seen(shut)
    <3>1. use = "initial" => cl.dec.ord = 1
      BY <2>1, <1>1 DEF Known, SentIn
    <3>2. Seen(cl) => cl.dec.settled >= 1
      BY <2>1 DEF Known
    <3>3. cl.dec.ord > cl.dec.settled /\ cl.dec.settled \in Nat
      BY <1>1 DEF ClientOK, Clients, Decoders
    <3> QED BY <3>1, <3>2, <3>3, <1>4
  <2>3. Meek(shut, d) /\ ~AtRest(d)
    BY <2>2, <1>1, <1>3, <1>4, <1>9, HandleFaultMeek DEF d
  <2>4. d.dec.ord = 0
    <3>1. Closed(cl.dec).ord = 0
      BY <1>1 DEF Closed, Abort, Release, ClientOK, Clients, Decoders
    <3> QED BY <3>1, <2>3, <1>4 DEF Meek, GoesOn
  <2>5. GoesOn(cl.dec, d.dec)
    <3>1. Closed(cl.dec).ord = 0
      BY <1>1 DEF Closed, Abort, Release, ClientOK, Clients, Decoders
    <3>2. d.dec.settled = Closed(cl.dec).settled
      BY <3>1, <2>3, <1>4 DEF Meek, GoesOn
    <3> QED BY <3>2, <2>4, <1>5 DEF GoesOn
  <2> QED BY <2>3, <2>5, <1>4, <1>8 DEF Meek
<1>10. cl' = d /\ Kept(cl, cl') /\ Onto(cl, cl') /\ (cl.sub = srv.id /\ cl.sub # 0 => Meek(cl, cl'))
  BY <1>2, <1>7, <1>8, <1>9 DEF d
<1> QED BY <1>1, <1>10, StillTravels, QuietGoes

\* So does that of a recovery, or it gives the recovery up; the user tries again; and so
\* does a pane with a stale authority.
LEMMA AskingGoes ==
    ASSUME Sound, NEW H, Truth(H), NEW G, Delivers(G), Sound', NEW K, Truth(K)',
           Deadline \/ Retry \/ RecoverFromStaleAuthority
    PROVE  Delivers(G)'
<1>1. ClientOK(cl) /\ UNCHANGED <<serverVars, down, arrived, lost>>
  BY DEF Sound, TypeOK, Deadline, Retry, RecoverFromStaleAuthority, historyVars
<1>2. Kept(cl, cl') /\ Meek(cl, cl')
  <2>1. CASE Deadline
    <3>1. cl' \in {Fail(cl), Issue(cl, TRUE)} /\ cl.flight # None
      BY <2>1 DEF Deadline
    <3> QED BY <3>1, <1>1, FailKeeps, FailMeek, IssueKeeps, IssueMeek
  <2>2. CASE Retry
    BY <2>2, <1>1, ConnectKeeps, ConnectMeek DEF Retry
  <2>3. CASE RecoverFromStaleAuthority /\ cl.sub # 0
    BY <2>3, <1>1, RequestRecoveryKeeps, RequestRecoveryMeek DEF RecoverFromStaleAuthority
  <2>4. CASE RecoverFromStaleAuthority /\ cl.sub = 0
    <3>1. cl' = Connect(cl, TRUE)
      BY <2>4 DEF RecoverFromStaleAuthority, RequestRecovery
    <3> QED BY <3>1, <1>1, ConnectKeeps, ConnectMeek
  <2> QED BY <2>1, <2>2, <2>3, <2>4
<1>3. Onto(cl, cl')
  BY <1>2 DEF Meek
<1> QED BY <1>1, <1>2, <1>3, StillTravels, QuietGoes

\* The reply to a resync.
LEMMA ResyncedMeek ==
    ASSUME NEW c, ClientOK(c), c.flight # None, NEW m \in Replies
    PROVE  Meek(c, Resynced(c, m))
<1>1. c.flight \in Flights /\ c.sub # 0
  BY DEF ClientOK, Clients
<1>2. CASE m.op = "notOwned"
  <2> DEFINE e == [c EXCEPT !.flight = None]
             d == Connect(e, FALSE)
  <2>0. Kept(c, e)
    BY <1>1, AnotherFlight
  <2>1. Kept(c, e) /\ ClientOK(e)
    BY <2>0 DEF Kept
  <2>2. /\ e.gen = c.gen /\ e.up = c.up /\ e.view = c.view /\ e.dec = c.dec
        /\ e.flight = None /\ e.status = c.status /\ e.pending = c.pending
    BY DEF ClientOK, Clients
  <2> HIDE DEF e
  <2>3. Meek(e, d) /\ ~AtRest(d)
    BY <2>1, ConnectMeek
  <2> HIDE DEF d
  <2>4. Meek(c, d)
    BY <2>2, <2>3 DEF Meek, Onto, Seen
  <2> QED BY <2>4, <1>2 DEF Resynced, d, e
<1>3. CASE m.op # "notOwned"
  <2> DEFINE f == [c.flight EXCEPT !.acked = TRUE, !.mode = m.mode]
             e == [c EXCEPT !.flight = f]
  <2>1. f \in Flights /\ f # None /\ f.seen = c.flight.seen /\ f.gap = c.flight.gap
        /\ f.upgrade = c.flight.upgrade
    <3>1. f \in Flights
      BY <1>1 DEF Flights, Replies, Modes
    <3>2. f.seen = c.flight.seen /\ f.gap = c.flight.gap /\ f.upgrade = c.flight.upgrade
      BY <1>1 DEF Flights
    <3> QED BY <3>1, <3>2, NoneAssumption
  <2>2. Resynced(c, m) = Settle(e)
    BY <1>3 DEF Resynced, ClientOK, Clients
  <2>3. e.flight = f /\ e.status = c.status
    BY DEF ClientOK, Clients
  <2> HIDE DEF f
  <2>a. Kept(c, e)
    BY <1>1, <2>1, AnotherFlight
  <2>4. Kept(c, e) /\ ClientOK(e)
    BY <2>a DEF Kept
  <2>5. (Seen(e) => Seen(c)) /\ (AtRest(e) => AtRest(c))
    BY <2>1, <2>3 DEF Seen, AtRest
  <2>6. Meek(c, e)
    BY <2>5, FlightMeek
  <2> HIDE DEF e
  <2>7. Kept(e, Settle(e)) /\ Meek(e, Settle(e))
    BY <2>1, <2>3, <2>4, SettleKeeps, SettleMeek
  <2> QED BY <2>2, <2>4, <2>6, <2>7, MeekOnAndOn
<1> QED BY <1>2, <1>3

\* Where the channel shrinks, nothing new is under way.
LEMMA LessUnderWay ==
    ASSUME PartOf(down', down), outbox' = outbox, arrived' \subseteq arrived
    PROVE  UnderWay' \subseteq UnderWay
<1>1. \A i \in 1..Len(down') : \E k \in 1..Len(down) : down'[i] = down[k]
  BY DEF PartOf
<1> QED BY <1>1 DEF UnderWay

\* The reply to a resync, or one that nobody waits for, goes on.
LEMMA ResyncedGoes ==
    ASSUME Sound, NEW H, Truth(H), NEW G, Delivers(G), Sound', NEW K, Truth(K)',
           NEW m \in arrived, Continue(m), m.op # "subscribe"
    PROVE  Delivers(G)'
<1>1. ClientOK(cl) /\ m \in Replies /\ down \in Seq(Messages)
      /\ arrived' \subseteq arrived /\ down' = down /\ UNCHANGED <<serverVars, lost>> /\ outbox' = outbox
  BY DEF Sound, TypeOK, ChannelOK, Messages, Continue, serverVars, historyVars
<1>2. PartOf(down', down) /\ FramesOf(down') = FramesOf(down)
  BY <1>1, TailIsPart
<1>3. UnderWay' \subseteq UnderWay
  BY <1>1, <1>2, LessUnderWay
<1>4. cl' = cl \/ (cl.flight # None /\ cl' = Resynced(cl, m))
  BY DEF Continue
<1>5. Kept(cl, cl') /\ Meek(cl, cl')
  BY <1>1, <1>4, KeptAtFirst, MeekAtFirst, ResyncedKeeps, ResyncedMeek
<1>6. Onto(cl, cl')
  BY <1>5 DEF Meek
<1> QED BY <1>1, <1>2, <1>3, <1>5, <1>6, QuietGoes

\* A reply arrives.
LEMMA ReplyGoes ==
    ASSUME Sound, NEW H, Truth(H), NEW G, Delivers(G), Sound', NEW K, Truth(K)',
           Deliver, IsReply(Head(down))
    PROVE  Delivers(G)'
<1>1. ClientOK(cl) /\ down \in Seq(Messages) /\ down # <<>> /\ down' = Tail(down) /\ cl' = cl
      /\ arrived' = arrived \cup {Head(down)} /\ UNCHANGED <<serverVars, lost>> /\ outbox' = outbox
  BY DEF Sound, TypeOK, ChannelOK, Messages, Deliver, serverVars, historyVars
<1>2. /\ Len(down') = Len(down) - 1 /\ Len(down) \in Nat
      /\ \A i \in 1..Len(down') : down'[i] = down[i + 1]
  BY <1>1, HeadTailProperties
<1>3. PartOf(down', down)
  BY <1>1, TailIsPart
<1>4. Head(down) = down[1] /\ down[1] \notin WireSet /\ 1 \in 1..Len(down)
  <2>1. Len(down) # 0
    BY <1>1
  <2>2. 1 \in 1..Len(down) /\ Head(down) = down[1] /\ down[1] \in Messages
    BY <2>1, <1>1, <1>2
  <2> QED BY <2>2, ReplyOrWire
<1>5. FramesOf(down') = FramesOf(down)
  <2>1. FramesOf(down') \subseteq FramesOf(down)
    BY <1>3, FramesOfPart
  <2>2. ASSUME NEW i \in 1..Len(down), down[i] \in WireSet
        PROVE  down[i].frame \in FramesOf(down')
    <3>1. i # 1
      BY <2>2, <1>4
    <3>2. i - 1 \in 1..Len(down') /\ (i - 1) + 1 = i
      BY <3>1, <1>2
    <3>3. down'[i - 1] = down[i]
      BY <3>2, <1>2
    <3> QED BY <3>2, <3>3, <2>2 DEF FramesOf
  <2>3. FramesOf(down) \subseteq FramesOf(down')
    BY <2>2 DEF FramesOf
  <2> QED BY <2>1, <2>3
<1>6. UnderWay' \subseteq UnderWay
  <2>1. \A i \in 1..Len(down') : \E k \in 1..Len(down) : down'[i] = down[k]
    BY <1>3 DEF PartOf
  <2> QED BY <2>1, <1>1, <1>4 DEF UnderWay
<1>7. Kept(cl, cl') /\ Meek(cl, cl')
  BY <1>1, KeptAtFirst, MeekAtFirst
<1>8. Onto(cl, cl')
  BY <1>7 DEF Meek
<1> QED BY <1>1, <1>3, <1>5, <1>6, <1>7, <1>8, QuietGoes

\* A client that gives up a subscription that has been replaced.
LEMMA GiveUpSeats ==
    ASSUME NEW c, ClientOK(c), NEW s, NEW U, Seats(c, s, U), NEW m \in U, m \in Replies,
           m.id # c.gen, m.sub <= s.id, NEW V, V \subseteq U
    PROVE  /\ Seats(GiveUp(c, m), s, V) /\ (Based(c) => Based(GiveUp(c, m)))
           /\ LET d == GiveUp(c, m) IN
              /\ d.gen = c.gen /\ d.sub = c.sub /\ d.view = c.view /\ d.dec = c.dec
              /\ d.flight = c.flight /\ d.status = c.status
              /\ \/ d.staged = c.staged
                 \/ d.staged = <<>> /\ c.gen \notin c.pending
<1> DEFINE rest == c.pending \ {m.id}
           stay == IF rest = {} THEN <<>> ELSE c.staged
           q == [op |-> "unsubscribe", id |-> 0, sub |-> m.sub, base |-> None, force |-> FALSE]
           d == GiveUp(c, m)
<1>1. c.up \in Seq(Requests)
  BY DEF ClientOK, Clients
<1>2. /\ d.gen = c.gen /\ d.sub = c.sub /\ d.view = c.view /\ d.dec = c.dec
      /\ d.flight = c.flight /\ d.status = c.status /\ d.staged = stay /\ d.pending = rest
      /\ d.up = Append(c.up, q)
  BY DEF GiveUp, ClientOK, Clients
<1>3. q.op = "unsubscribe" /\ q.sub = m.sub /\ q.base = None
  OBVIOUS
<1>4. c.gen \in c.pending => c.gen \in rest
  OBVIOUS
<1>5. stay = c.staged \/ (stay = <<>> /\ c.gen \notin c.pending)
  BY <1>4
<1> HIDE DEF q, d, rest, stay
<1>6. /\ Len(c.up) \in Nat /\ Len(d.up) = Len(c.up) + 1 /\ d.up[Len(c.up) + 1] = q
      /\ \A i \in 1..Len(c.up) : i \in 1..Len(d.up) /\ d.up[i] = c.up[i]
  BY <1>1, <1>2
<1>7. \A i \in 1..Len(d.up) : (i \in 1..Len(c.up) /\ d.up[i] = c.up[i])
                              \/ (i = Len(c.up) + 1 /\ d.up[i] = q)
  BY <1>6
<1>8. \A i \in 1..Len(d.up) : d.up[i].op = "subscribe" => i \in 1..Len(c.up) /\ d.up[i] = c.up[i]
  BY <1>3, <1>7
<1>9. Asking(d) <=> Asking(c)
  BY <1>6, <1>8 DEF Asking
<1>10. d.status = "live" => s.live /\ d.sub = s.id /\ ~Asking(d)
  BY <1>2, <1>9 DEF Seats
<1>11. \A n \in V : IF n.id = d.gen
                    THEN s.live /\ n.sub = s.id /\ ~Asking(d) /\ d.gen \in d.pending
                    ELSE n.sub < s.id \/ Asking(d)
  BY <1>2, <1>4, <1>9 DEF Seats
<1>12. ASSUME NEW i \in 1..Len(d.up), d.up[i].op = "subscribe"
       PROVE  IF d.up[i].id = d.gen
              THEN d.gen \in d.pending /\ \A j \in 1..Len(d.up) : j > i => d.up[j].op # "subscribe"
              ELSE \E j \in 1..Len(d.up) : j > i /\ d.up[j].op = "subscribe"
  <2>1. i \in 1..Len(c.up) /\ d.up[i] = c.up[i]
    BY <1>8, <1>12
  <2>2. CASE d.up[i].id = d.gen
    <3>1. c.gen \in c.pending /\ \A j \in 1..Len(c.up) : j > i => c.up[j].op # "subscribe"
      BY <2>1, <2>2, <1>2, <1>12 DEF Seats
    <3> QED BY <3>1, <2>2, <1>2, <1>4, <1>8
  <2>3. CASE d.up[i].id # d.gen
    <3>1. \E j \in 1..Len(c.up) : j > i /\ c.up[j].op = "subscribe"
      BY <2>1, <2>3, <1>2, <1>12 DEF Seats
    <3> QED BY <3>1, <2>3, <1>6
  <2> QED BY <2>2, <2>3
<1>13. ASSUME NEW i \in 1..Len(d.up), d.up[i].op = "unsubscribe"
       PROVE  /\ d.up[i].sub <= s.id
              /\ d.up[i].sub = s.id => \E j \in 1..Len(d.up) : j < i /\ d.up[j].op = "subscribe"
  <2>1. CASE i \in 1..Len(c.up) /\ d.up[i] = c.up[i]
    <3>1. /\ c.up[i].sub <= s.id
          /\ c.up[i].sub = s.id => \E j \in 1..Len(c.up) : j < i /\ c.up[j].op = "subscribe"
      BY <2>1, <1>13 DEF Seats
    <3> QED BY <2>1, <3>1, <1>6
  <2>2. CASE i = Len(c.up) + 1 /\ d.up[i] = q
    <3>1. d.up[i].sub = m.sub /\ m.sub <= s.id
      BY <2>2, <1>3
    <3>2. ASSUME m.sub = s.id PROVE Asking(c)
      <4>1. m.sub < s.id \/ Asking(c)
        BY DEF Seats
      <4>2. m.sub \in Nat
        BY DEF Replies
      <4> QED BY <4>1, <4>2, <3>2
    <3>3. m.sub = s.id => \E j \in 1..Len(d.up) : j < i /\ d.up[j].op = "subscribe"
      BY <3>2, <2>2, <1>6 DEF Asking
    <3> QED BY <3>1, <3>3
  <2> QED BY <2>1, <2>2, <1>7
<1>14. Seats(d, s, V)
  BY <1>10, <1>11, <1>12, <1>13 DEF Seats
<1>15. Based(c) => Based(d)
  BY <1>2, <1>3, <1>7 DEF Based
<1> QED BY <1>2, <1>5, <1>14, <1>15 DEF d

\* What a client waits for depends on what it shows, assembles and recovers.
LEMMA WaitsSame ==
    ASSUME NEW c, NEW d, d.view = c.view, d.dec = c.dec, d.flight = c.flight,
           d.status = c.status, NEW G, NEW n, NEW k, NEW R, NEW ls, Waits(c, R, G, n, ls, k)
    PROVE  Waits(d, R, G, n, ls, k)
BY DEF Waits, Known, Beyond, Rest, Shall, AtRest, Seen

\* The reply to a subscribe that has been replaced.
LEMMA GiveUpGoes ==
    ASSUME Sound, NEW H, Truth(H), NEW G, Delivers(G), Sound', NEW K, Truth(K)',
           NEW m \in arrived, Continue(m), m.op = "subscribe", m.id # cl.gen
    PROVE  Delivers(G)'
<1>1. /\ ClientOK(cl) /\ m \in Replies /\ down \in Seq(Messages) /\ cl.view \in Viewed
      /\ arrived' \subseteq arrived /\ down' = down /\ UNCHANGED <<serverVars, lost>>
      /\ pub' = pub /\ srv' = srv /\ outbox' = outbox /\ lost' = lost /\ cl' = GiveUp(cl, m)
  BY ShownInTime DEF Sound, TypeOK, ChannelOK, Messages, Continue, serverVars, historyVars
<1>2. m \in UnderWay
  BY <1>1 DEF UnderWay
<1>3. m.sub <= srv.id
  BY <1>2, UnderWayNumbered DEF Sound
<1>4. PartOf(down', down)
  BY <1>1, TailIsPart
<1>5. UnderWay' \subseteq UnderWay
  BY <1>1, <1>4, LessUnderWay
<1>6. /\ Ordered /\ Based(cl) /\ Seats(cl, srv, UnderWay) /\ Expects(G)
  BY DEF Delivers
<1>7. /\ Seats(cl', srv, UnderWay') /\ Based(cl')
      /\ cl'.gen = cl.gen /\ cl'.sub = cl.sub /\ cl'.view = cl.view /\ cl'.dec = cl.dec
      /\ cl'.flight = cl.flight /\ cl'.status = cl.status
      /\ cl'.staged = cl.staged \/ (cl'.staged = <<>> /\ cl.gen \notin cl.pending)
  <2> DEFINE c == cl
             d == cl'
             s == srv
             U == UnderWay
             V == UnderWay'
  <2>1. /\ ClientOK(c) /\ Seats(c, s, U) /\ m \in U /\ m \in Replies /\ m.id # c.gen
        /\ m.sub <= s.id /\ V \subseteq U /\ d = GiveUp(c, m) /\ Based(c)
    BY <1>1, <1>2, <1>3, <1>5, <1>6
  <2> HIDE DEF c, d, s, U, V
  <2>2. /\ Seats(d, s, V) /\ Based(d)
        /\ d.gen = c.gen /\ d.sub = c.sub /\ d.view = c.view /\ d.dec = c.dec
        /\ d.flight = c.flight /\ d.status = c.status
        /\ d.staged = c.staged \/ (d.staged = <<>> /\ c.gen \notin c.pending)
    BY <2>1, GiveUpSeats
  <2> QED BY <2>2 DEF c, d, s, U, V
<1>8. Onward(cl.view, cl'.view)
  BY <1>1, <1>7, OnwardAtFirst
<1>9. OnTheWay' \subseteq OnTheWay
  BY <1>1, <1>7, FramesOfEmpty DEF OnTheWay
<1>10. Sorted(cl'.staged, srv.id) /\ Before(cl'.staged, down', srv.id)
  <2>1. CASE cl'.staged = cl.staged
    BY <2>1, <1>1, <1>6 DEF Ordered
  <2>2. CASE cl'.staged = <<>>
    <3>1. Len(cl'.staged) = 0
      BY <2>2
    <3> QED BY <3>1 DEF Sorted, Before
  <2> QED BY <2>1, <2>2, <1>7
<1>11. Expects(G)'
  <2>1. Yet' = Yet
    BY <1>1 DEF Yet
  <2>2. ASSUME cl.sub = srv.id, cl.sub # 0
        PROVE  Waits(cl', Yet, G, pub.num, lost, srv.ord)
    <3>1. Waits(cl, Yet, G, pub.num, lost, srv.ord)
      BY <2>2, <1>6 DEF Expects
    <3> DEFINE c == cl
               d == cl'
               n == pub.num
               k == srv.ord
               R == Yet
    <3>2. /\ d.view = c.view /\ d.dec = c.dec /\ d.flight = c.flight /\ d.status = c.status
          /\ Waits(c, R, G, n, lost, k)
      BY <3>1, <1>7
    <3> HIDE DEF c, d, n, k, R
    <3>3. Waits(d, R, G, n, lost, k)
      BY <3>2, WaitsSame
    <3> QED BY <3>3 DEF d, n, k, R
  <2>3. ASSUME NEW r \in UnderWay', r.id = cl'.gen
        PROVE  r \in UnderWay /\ r.id = cl.gen /\ cl'.staged = cl.staged
    <3>1. r \in UnderWay /\ r.id = cl.gen
      BY <2>3, <1>5, <1>7
    <3>2. cl.gen \in cl.pending
      BY <3>1, <1>6 DEF Seats
    <3> QED BY <3>1, <3>2, <1>7
  <2> QED BY <2>1, <2>2, <2>3, <1>1, <1>6, <1>7 DEF Expects
<1> QED BY <1>1, <1>4, <1>7, <1>8, <1>9, <1>10, <1>11, ClientGoes

\* The subscribes of a client have numbers of their own.
LEMMA SubscribesApart ==
    ASSUME NEW c, ClientOK(c), Once(c.up)
    PROVE  \A i, j \in 1..Len(c.up) :
             i < j /\ c.up[i].op = "subscribe" /\ c.up[j].op = "subscribe" => c.up[i].id # c.up[j].id
<1>1. c.up \in Seq(Requests)
  BY DEF ClientOK, Clients
<1>2. \A i \in 1..Len(c.up) : c.up[i] \in Requests
  BY <1>1
<1> QED BY <1>2 DEF Once, Asks

\* No other reply belongs to the subscribe of m.
LEMMA NoOtherReply ==
    ASSUME Sound, NEW m \in arrived, m.op = "subscribe", arrived' = arrived \ {m},
           UNCHANGED <<down, outbox>>
    PROVE  \A r \in UnderWay' : r.id # m.id
<1>1. Distinct /\ m \in Replies /\ Asks(m)
  BY DEF Sound, TypeOK, ChannelOK, Asks
<1> SUFFICES ASSUME NEW r \in UnderWay' PROVE r.id # m.id
  OBVIOUS
<1>2. Asks(r)
  BY DEF UnderWay, Asks
<1>3. CASE r \in arrived'
  BY <1>1, <1>2, <1>3 DEF Distinct
<1>4. CASE \E i \in 1..Len(down) : down[i] = r
  BY <1>1, <1>2, <1>4 DEF Distinct, Off
<1>5. CASE \E i \in 1..Len(outbox) : outbox[i] = r
  BY <1>1, <1>2, <1>5 DEF Distinct, Off
<1> QED BY <1>3, <1>4, <1>5 DEF UnderWay

\* The reply to the latest subscribe brings the last subscription, which the client has not.
LEMMA LatestReply ==
    ASSUME Sound, NEW G, Delivers(G), NEW m \in UnderWay, m.id = cl.gen
    PROVE  /\ srv.live /\ m.sub = srv.id /\ m.sub > cl.sub /\ cl.sub # srv.id /\ srv.id # 0
           /\ ~Asking(cl) /\ cl.gen \in cl.pending
           /\ \A T \in G : Awaited(T, cl.view, pub.num, lost) => T \in Yet \cup FramesOf(cl.staged)
<1>1. Seats(cl, srv, UnderWay) /\ Expects(G)
  BY DEF Delivers
<1>2. srv.live /\ m.sub = srv.id /\ ~Asking(cl) /\ cl.gen \in cl.pending
  BY <1>1 DEF Seats
<1>3. m.sub > cl.sub /\ m.sub \in Nat /\ cl.sub \in Nat
  BY UnderWayNumbered DEF Sound, TypeOK, ClientOK, Clients
<1>4. cl.sub # srv.id /\ srv.id # 0
  BY <1>2, <1>3
<1> QED BY <1>1, <1>2, <1>3, <1>4 DEF Expects

\* What has been kept for it, in order, is all that is awaited and not to come.
LEMMA BegunWaits ==
    ASSUME NEW c, NEW m, NEW d, NEW ws, Begins(c, m, d, ws), NEW G, NEW n, NEW k \in Nat,
           SentIn(G, n, k), \A T \in G : T.sub = m.sub, NEW ls, NEW B,
           \A g \in B : g.ord \in Nat, \A i \in 1..Len(ws) : ws[i].frame \in B,
           \A T \in G : Awaited(T, c.view, n, ls) => T \in B \cup FramesOf(c.staged)
    PROVE  Waits(d, B, G, n, ls, k)
<1>1. d.view = c.view /\ d.flight = None /\ d.dec.ord = 0 /\ d.dec.settled = 0 /\ ~d.dec.closed
  BY DEF Begins, BlankDecoder
<1>2. ASSUME NEW T \in G, Awaited(T, d.view, n, ls) PROVE T \in B
  <2>1. T \in B \cup FramesOf(c.staged) /\ T.sub = m.sub
    BY <1>1, <1>2
  <2>2. ASSUME T \in FramesOf(c.staged) PROVE T \in B
    <3>1. PICK i \in 1..Len(c.staged) : T = c.staged[i].frame
      BY <2>2 DEF FramesOf
    <3>2. PICK j \in 1..Len(ws) : ws[j] = c.staged[i]
      BY <2>1, <3>1 DEF Begins
    <3> QED BY <3>1, <3>2
  <2> QED BY <2>1, <2>2
<1>3. \A T \in G : T.ord \in Nat /\ T.ord > 0
  BY DEF SentIn, Frames
<1>4. Beyond(d, B)
  BY <1>1 DEF Beyond
<1>5. Known(d, G, k)
  BY <1>1 DEF Known, Seen
<1>6. Rest(d, B, G, n, ls)
  BY <1>1, <1>2, <1>3 DEF Rest, Shall
<1>7. \A T \in G : Awaited(T, d.view, n, ls) => Tracked(T, B)
  BY <1>2 DEF Tracked
<1> QED BY <1>4, <1>5, <1>6, <1>7 DEF Waits

\* The wires that the barrier has kept are decoded in the order in which they were sent.
LEMMA BegunInOrder ==
    ASSUME NEW c, NEW m, NEW d, NEW ws, Begins(c, m, d, ws), Sorted(c.staged, m.sub),
           NEW t, Before(c.staged, t, m.sub)
    PROVE  /\ \A i, j \in 1..Len(ws) : i < j => ws[i].frame.ord <= ws[j].frame.ord
           /\ \A i \in 1..Len(ws), g \in FramesOf(t) : g.sub = m.sub => ws[i].frame.ord <= g.ord
<1>1. \A i \in 1..Len(ws) : On(ws[i], m.sub)
  BY DEF Begins, On
<1>2. ASSUME NEW i \in 1..Len(ws), NEW j \in 1..Len(ws), i < j
      PROVE  ws[i].frame.ord <= ws[j].frame.ord
  <2>1. PICK k \in 1..Len(c.staged), l \in 1..Len(c.staged) :
               k < l /\ ws[i] = c.staged[k] /\ ws[j] = c.staged[l]
    BY <1>2 DEF Begins
  <2> QED BY <2>1, <1>1 DEF Sorted
<1>3. ASSUME NEW i \in 1..Len(ws), NEW g \in FramesOf(t), g.sub = m.sub
      PROVE  ws[i].frame.ord <= g.ord
  <2>1. PICK k \in 1..Len(c.staged) : ws[i] = c.staged[k]
    BY DEF Begins
  <2>2. PICK j \in 1..Len(t) : t[j] \in WireSet /\ g = t[j].frame
    BY DEF FramesOf
  <2>3. On(c.staged[k], m.sub) /\ On(t[j], m.sub)
    BY <2>1, <2>2, <1>1, <1>3 DEF On
  <2> QED BY <2>1, <2>2, <2>3 DEF Before
<1> QED BY <1>2, <1>3

\* A client that has just taken the last subscription has its place.
LEMMA TakenSeats ==
    ASSUME NEW c, NEW d, NEW s, NEW U, NEW V, Seats(c, s, U), ~Asking(c), s.live, d.sub = s.id,
           d.gen = c.gen, d.up = c.up, V \subseteq U, \A r \in V : r.id # c.gen
    PROVE  Seats(d, s, V)
<1>1. ~Asking(d)
  BY DEF Asking
<1>2. \A r \in V : r.sub < s.id
  BY DEF Seats
<1>3. \A i \in 1..Len(d.up) : d.up[i].op # "subscribe"
  BY <1>1 DEF Asking
<1>4. \A i \in 1..Len(d.up) : d.up[i].op = "unsubscribe" =>
         /\ d.up[i].sub <= s.id
         /\ d.up[i].sub = s.id => \E j \in 1..Len(d.up) : j < i /\ d.up[j].op = "subscribe"
  BY DEF Seats
<1> QED BY <1>1, <1>2, <1>3, <1>4 DEF Seats

\* The reply to the latest subscribe.
LEMMA ActivateGoes ==
    ASSUME Sound, NEW H, Truth(H), NEW G, Delivers(G), Sound', NEW K, Truth(K)',
           NEW m \in arrived, Continue(m), m.op = "subscribe", m.id = cl.gen
    PROVE  Delivers(G)'
<1>1. /\ ClientOK(cl) /\ m \in Replies /\ down \in Seq(Messages) /\ cl.view \in Viewed
      /\ arrived' = arrived \ {m} /\ arrived' \subseteq arrived
      /\ down' = down /\ UNCHANGED <<serverVars, lost>>
      /\ pub' = pub /\ srv' = srv /\ outbox' = outbox /\ lost' = lost /\ cl' = Activate(cl, m)
  BY ShownInTime DEF Sound, TypeOK, ChannelOK, Messages, Continue, serverVars, historyVars
<1>2. m \in UnderWay
  BY <1>1 DEF UnderWay
<1>3. /\ srv.live /\ m.sub = srv.id /\ m.sub > cl.sub /\ cl.sub # srv.id /\ srv.id # 0
      /\ ~Asking(cl)
      /\ \A T \in G : Awaited(T, cl.view, pub.num, lost) => T \in Yet \cup FramesOf(cl.staged)
  BY <1>2, LatestReply
<1>4. PartOf(down', down)
  BY <1>1, TailIsPart
<1>5. UnderWay' \subseteq UnderWay
  BY <1>1, <1>4, LessUnderWay
<1>6. \A r \in UnderWay' : r.id # cl.gen
  BY <1>1, NoOtherReply
<1>7. /\ Sent(G) /\ Ordered /\ DeltasKnown(G, cl.view, pub.num) /\ Based(cl)
      /\ Seats(cl, srv, UnderWay)
  BY DEF Delivers
<1>8. /\ SentIn(G, pub.num, srv.ord) /\ \A T \in G : T.sub = srv.id
      /\ \A f \in OnTheWay : f.sub = srv.id => f \in G
  BY <1>7 DEF Sent
<1>9. /\ Yet \subseteq G
      /\ \A g \in Yet : g \in FramesOf(down) \/ g.ord = srv.ord
  BY <1>7, <1>8 DEF Yet, OnTheWay, Ordered
<1>10. PICK d : /\ ClientOK(d) /\ Asked(cl, d) /\ d.gen = cl.gen /\ d.up = cl.up /\ d.view = cl.view
                /\ d.sub = m.sub /\ (d.staged = cl.staged \/ d.staged = <<>>)
                /\ Moved(d, cl', OnTheWay, H, pub) /\ Onto(d, cl')
                /\ Waits(cl', Yet, G, pub.num, lost, srv.ord)
  <2> DEFINE c == cl
             e == cl'
             F == OnTheWay
             p == pub
             n == pub.num
             k == srv.ord
             R == Yet
             t == down
             ls == lost
  <2>1. /\ ClientOK(c) /\ FramesTrue(F, H, p) /\ Showing(c, F, H, p) /\ StagedIn(c, F)
        /\ m.sub > c.sub /\ e = Activate(c, m) /\ n \in Nat \ {0} /\ n = p.num /\ k \in Nat
    BY <1>1, <1>3, ShownInTime, StagedOnTheWay DEF Truth, Sound
  <2>2. /\ SentIn(G, n, k) /\ \A T \in G : T.sub = m.sub
        /\ \A f \in F : f.sub = m.sub => f \in G
    BY <1>3, <1>8
  <2>3. DeltasKnown(G, c.view, n) /\ Sorted(c.staged, m.sub) /\ Before(c.staged, t, m.sub)
    BY <1>3, <1>7 DEF Ordered
  <2>4. R \subseteq G /\ (\A g \in R : g \in FramesOf(t) \/ g.ord = k)
        /\ \A T \in G : Awaited(T, c.view, n, ls) => T \in R \cup FramesOf(c.staged)
    BY <1>3, <1>9
  <2>5. m \in Replies /\ m.sub > c.sub
    BY <1>1, <1>3
  <2> HIDE DEF c, e, F, p, n, k, R, t, ls
  <2>6. PICK d, ws : Begins(c, m, d, ws) /\ e = DecodeAll(d, ws)
    BY <2>1, <2>5, ActivateBegins
  <2>7. /\ ClientOK(d) /\ Asked(c, d) /\ d.gen = c.gen /\ d.up = c.up /\ d.view = c.view
        /\ d.sub = m.sub /\ d.dec.settled = 0 /\ d.pending = c.pending \ {m.id}
        /\ d.staged = c.staged \/ d.staged = <<>>
    BY <2>6 DEF Begins, BlankDecoder
  <2>8. Showing(d, F, H, p)
    <3>1. ASSUME NEW f \in F, Ahead(d, f) PROVE Ahead(c, f)
      <4>1. f.sub \in Nat /\ c.sub \in Nat /\ m.sub \in Nat
        BY <2>1, <2>5 DEF FramesTrue, Frames, ClientOK, Clients, Replies
      <4> QED BY <2>5, <3>1, <4>1, <2>7 DEF Ahead
    <3> QED BY <2>1, <3>1, <2>7 DEF Showing
  <2>9. ws \in Seq(WireSet)
        /\ \A i \in 1..Len(ws) : ws[i].frame \in F /\ ws[i].frame.sub = d.sub /\ ws[i].frame \in G
    <3>1. /\ ws \in Seq(WireSet) /\ d.sub = m.sub
          /\ \A i \in 1..Len(ws) :
               ws[i].frame.sub = m.sub /\ \E l \in 1..Len(c.staged) : ws[i] = c.staged[l]
      BY <2>6 DEF Begins
    <3>2. \A l \in 1..Len(c.staged) : c.staged[l].frame \in F
      BY <2>1 DEF StagedIn
    <3>3. \A i \in 1..Len(ws) : ws[i].frame \in F
      BY <3>1, <3>2
    <3> QED BY <3>1, <3>3, <2>2
  <2>10. Moved(d, e, F, H, p)
    BY <2>1, <2>6, <2>7, <2>8, <2>9, DecodeAllMoves
  <2>11. d.sub # 0
    BY <2>1, <2>5, <2>7 DEF Replies, ClientOK, Clients
  <2> DEFINE B == R \cup { ws[i].frame : i \in 1..Len(ws) }
  <2>12. Waits(d, B, G, n, ls, k)
    <3>1. \A i \in 1..Len(ws) : ws[i].frame \in B
      OBVIOUS
    <3>2. \A T \in G : Awaited(T, c.view, n, ls) => T \in B \cup FramesOf(c.staged)
      BY <2>4
    <3>3. \A g \in B : g.ord \in Nat
      BY <2>2, <2>4, <2>9 DEF SentIn, Frames
    <3> HIDE DEF B
    <3> QED BY <2>1, <2>2, <2>6, <3>1, <3>2, <3>3, BegunWaits
  <2>13. \A i, j \in 1..Len(ws) : i < j => ws[i].frame.ord <= ws[j].frame.ord
    BY <2>3, <2>6, BegunInOrder
  <2>14. \A i \in 1..Len(ws), g \in R : ws[i].frame.ord <= g.ord
    <3>1. \A i \in 1..Len(ws), g \in FramesOf(t) : g.sub = m.sub => ws[i].frame.ord <= g.ord
      BY <2>3, <2>6, BegunInOrder
    <3>2. \A i \in 1..Len(ws) : ws[i].frame.ord <= k
      BY <2>2, <2>9 DEF SentIn
    <3> QED BY <2>2, <2>4, <3>1, <3>2
  <2>15. DeltasKnown(G, d.view, n)
    BY <2>3, <2>7
  <2>16. Waits(e, R, G, n, ls, k) /\ Onto(d, e)
    <3>1. e = DecodeAll(d, ws) /\ ClientOK(d) /\ R \subseteq G
          /\ FramesTrue(F, H, p) /\ n \in Nat \ {0} /\ n = p.num /\ k \in Nat /\ SentIn(G, n, k)
      BY <2>1, <2>2, <2>4, <2>6, <2>7
    <3> QED BY <3>1, <2>8, <2>9, <2>11, <2>12, <2>13, <2>14, <2>15, DecodeAllWaits
  <2> QED BY <2>7, <2>10, <2>16 DEF c, e, F, p, n, k, R, t, ls
<1>11. /\ ClientOK(cl') /\ Asked(d, cl') /\ cl'.sub = d.sub /\ cl'.staged = d.staged
       /\ Onward(d.view, cl'.view)
  BY <1>10 DEF Moved
<1>12. Seats(cl', srv, UnderWay')
  <2> DEFINE c == cl
             e == cl'
             s == srv
             U == UnderWay
             V == UnderWay'
  <2>1. Seats(d, s, V)
    <3>1. /\ Seats(c, s, U) /\ ~Asking(c) /\ s.live /\ d.sub = s.id /\ d.gen = c.gen /\ d.up = c.up
          /\ V \subseteq U /\ \A r \in V : r.id # c.gen
      BY <1>3, <1>5, <1>6, <1>7, <1>10
    <3> HIDE DEF c, s, U, V
    <3> QED BY <3>1, TakenSeats
  <2>2. ClientOK(e) /\ Once(e.up)
    BY <1>11 DEF Sound, Distinct
  <2>3. \A r \in V : r.id \in Nat /\ r.id <= d.gen
    BY <1>5, <1>10, UnderWayNumbered DEF Sound
  <2>4. Asked(d, e) /\ Onto(d, e) /\ e.sub = d.sub
    BY <1>10, <1>11
  <2> HIDE DEF c, e, s, U, V
  <2>5. \A i, j \in 1..Len(e.up) :
          i < j /\ e.up[i].op = "subscribe" /\ e.up[j].op = "subscribe" => e.up[i].id # e.up[j].id
    BY <2>2, SubscribesApart
  <2>6. Seats(e, s, V)
    BY <1>10, <2>1, <2>2, <2>3, <2>4, <2>5, SeatsAfterAsking
  <2> QED BY <2>6 DEF e, s, V
<1>13. Based(cl')
  <2>1. Based(d)
    BY <1>7, <1>10 DEF Based
  <2> DEFINE e == cl'
  <2>2. ClientOK(e) /\ Asked(d, e) /\ Onto(d, e) /\ Onward(d.view, e.view)
    BY <1>10, <1>11
  <2> HIDE DEF e
  <2>3. Based(e)
    BY <1>10, <2>1, <2>2, BasedAfterAsking
  <2> QED BY <2>3 DEF e
<1>14. Onward(cl.view, cl'.view)
  BY <1>10, <1>11
<1>15. OnTheWay' \subseteq OnTheWay
  BY <1>1, <1>10, <1>11, FramesOfEmpty DEF OnTheWay
<1>16. Sorted(cl'.staged, srv.id) /\ Before(cl'.staged, down', srv.id)
  <2>1. CASE cl'.staged = cl.staged
    BY <2>1, <1>1, <1>7 DEF Ordered
  <2>2. CASE cl'.staged = <<>>
    <3>1. Len(cl'.staged) = 0
      BY <2>2
    <3> QED BY <3>1 DEF Sorted, Before
  <2> QED BY <2>1, <2>2, <1>10, <1>11
<1>17. Expects(G)'
  <2>1. Yet' = Yet
    BY <1>1 DEF Yet
  <2>2. cl'.sub = srv.id
    BY <1>3, <1>10, <1>11
  <2> QED BY <2>1, <2>2, <1>1, <1>10 DEF Expects
<1> QED BY <1>1, <1>4, <1>12, <1>13, <1>14, <1>15, <1>16, <1>17, ClientGoes

-----------------------------------------------------------------------------
(* A wire.                                                                  *)

\* A fault of any kind shows nothing,
LEMMA FaultMeek ==
    ASSUME NEW c, ClientOK(c), c.sub # 0, NEW use \in {"initial", "online", "recovery"},
           NEW content \in BOOLEAN, NEW d, d = HandleFault(c, use, content)
    PROVE  Kept(c, d) /\ Meek(c, d)
<1> DEFINE a == [c EXCEPT !.awaiting = c.awaiting /\ use = "online"]
           again == (use = "recovery")
<1>1. Kept(c, a) /\ ClientOK(a)
  BY AwaitingKeeps DEF Kept
<1>2. Meek(c, a) /\ a.sub = c.sub
  BY AwaitingMeek
<1>3. \/ d = RequestRecovery(a, TRUE, TRUE)
      \/ a.flight # None /\ d = Beside(a)
      \/ d = RequestRecovery(a, again, FALSE)
  BY DEF HandleFault
<1>4. again \in BOOLEAN
  OBVIOUS
<1> HIDE DEF a, again
<1>5. Kept(a, d) /\ Meek(a, d)
  <2>1. CASE d = RequestRecovery(a, TRUE, TRUE)
    BY <2>1, <1>1, <1>2, RequestRecoveryKeeps, RequestRecoveryMeek
  <2>2. CASE a.flight # None /\ d = Beside(a)
    BY <2>2, <1>1, BesideKeeps, BesideMeek
  <2>3. CASE d = RequestRecovery(a, again, FALSE)
    BY <2>3, <1>1, <1>2, <1>4, RequestRecoveryKeeps, RequestRecoveryMeek
  <2> QED BY <1>3, <2>1, <2>2, <2>3
<1> QED BY <1>1, <1>2, <1>5, KeptOnAndOn, MeekOnAndOn

\* a frame asks only to go on,
LEMMA FrameOnto ==
    ASSUME NEW c, ClientOK(c), c.sub # 0, NEW f \in Frames
    PROVE  Onto(c, HandleFrame(c, f))
<1> DEFINE initial == f.use = "initial" /\ c.awaiting
           a == [c EXCEPT !.awaiting = c.awaiting /\ f.use = "online"]
           again == (f.use = "recovery")
           d == HandleFrame(c, f)
           w == [seq |-> f.to, rows |-> f.rows, num |-> f.num]
           x == [seq |-> f.to, rows |-> a.view.rows \o f.rows, num |-> a.view.num]
           s == [a EXCEPT !.view = w, !.applied = TRUE]
           t == [a EXCEPT !.view = x, !.applied = TRUE]
<1>1. Kept(c, a) /\ ClientOK(a)
  BY AwaitingKeeps DEF Kept
<1>2. Meek(a, a) /\ a.sub = c.sub
  BY <1>1, AwaitingMeek, MeekAtFirst
<1>3. a.up = c.up /\ a.pending = c.pending /\ a.gen = c.gen /\ a.status = c.status
  BY DEF ClientOK, Clients
<1>4. again \in BOOLEAN /\ f.kind \in {"snapshot", "deltas"} /\ f.to \in Nat
      /\ a.view \in Views \cup {None}
  BY <1>1 DEF Frames, ClientOK, Clients
<1>5. \/ a.flight # None /\ d = Beside(a)
      \/ d = a
      \/ d = RequestRecovery(a, again, FALSE)
      \/ d = Apply(a, f, initial)
  BY DEF HandleFrame
<1>6. \/ Apply(a, f, initial) = RecoverySeen(s, f) /\ f.kind = "snapshot"
      \/ Apply(a, f, initial) = RecoverySeen(a, f)
      \/ Apply(a, f, initial) = RecoverySeen(t, f) /\ f.kind # "snapshot"
         /\ a.view # None /\ ~(f.to <= a.view.seq) /\ f.from = a.view.seq
      \/ Apply(a, f, initial) \in {Connect(a, TRUE), RequestRecovery(a, again, FALSE)}
  <2>1. t = [a EXCEPT !.view = [seq |-> f.to, rows |-> @.rows \o f.rows, num |-> @.num],
                      !.applied = TRUE]
    BY <1>1 DEF ClientOK, Clients
  <2> HIDE DEF a, initial, t
  <2> QED BY <2>1 DEF Apply
<1> HIDE DEF a, initial, again, d
<1>7. ASSUME d = Apply(a, f, initial) PROVE Onto(a, d)
  <2>1. CASE d = RecoverySeen(s, f) /\ f.kind = "snapshot"
    <3>1. Shown(a.view, f, w)
      BY <2>1 DEF Shown
    <3> HIDE DEF w
    <3>2. Rested(a, f, RecoverySeen(s, f))
      BY <3>1, <1>1, <1>2, ShownRests
    <3> QED BY <3>2, <2>1 DEF Rested
  <2>2. CASE d = RecoverySeen(a, f)
    BY <2>2, <1>1, RecoverySeenMeek
  <2>3. CASE d = RecoverySeen(t, f) /\ f.kind # "snapshot"
             /\ a.view # None /\ ~(f.to <= a.view.seq) /\ f.from = a.view.seq
    <3>1. f.to > a.view.seq
      BY <1>4, <2>3 DEF Views
    <3>2. Shown(a.view, f, x)
      BY <3>1, <1>4, <2>3 DEF Shown
    <3> HIDE DEF x
    <3>3. Rested(a, f, RecoverySeen(t, f))
      BY <3>2, <1>1, <1>2, ShownRests
    <3> QED BY <3>3, <2>3 DEF Rested
  <2>4. CASE d \in {Connect(a, TRUE), RequestRecovery(a, again, FALSE)}
    <3>1. Meek(a, d)
      BY <2>4, <1>1, <1>2, <1>4, ConnectMeek, RequestRecoveryMeek
    <3> QED BY <3>1 DEF Meek
  <2> QED BY <1>6, <1>7, <2>1, <2>2, <2>3, <2>4
<1>8. Onto(a, d)
  <2>1. CASE a.flight # None /\ d = Beside(a)
    <3>1. Meek(a, d)
      BY <2>1, <1>1, BesideMeek
    <3> QED BY <3>1 DEF Meek
  <2>2. CASE d = a
    BY <2>2, <1>2 DEF Meek
  <2>3. CASE d = RequestRecovery(a, again, FALSE)
    <3>1. Meek(a, d)
      BY <2>3, <1>1, <1>2, <1>4, RequestRecoveryMeek
    <3> QED BY <3>1 DEF Meek
  <2> QED BY <1>5, <1>7, <2>1, <2>2, <2>3
<1>9. Onto(c, d)
  BY <1>3, <1>8 DEF Onto
<1> QED BY <1>9 DEF d

\* and so does a wire.
LEMMA DecodeOnto ==
    ASSUME NEW c, ClientOK(c), c.sub # 0, NEW w \in WireSet
    PROVE  Onto(c, Decode(c, w))
<1> DEFINE f == w.frame
           dec == IF f.use = "recovery" /\ c.dec.closed THEN Opened(c.dec) ELSE c.dec
           r == Assembled(dec, w)
           e == [c EXCEPT !.dec = r.dec]
           shut == [c EXCEPT !.dec = Closed(r.dec)]
           unread == (r.out = "unreadable")
           g == HandleFault(shut, dec.use, FALSE)
           d == Decode(c, w)
<1>1. f \in Frames
  BY DEF WireSet
<1>2. c.dec \in Decoders /\ (c.dec.ord # 0 => c.dec.ord > c.dec.settled /\ ~c.dec.closed)
  BY DEF ClientOK, Clients
<1>3. dec \in Decoders /\ dec.settled >= c.dec.settled
      /\ (dec.ord # 0 => dec.ord > dec.settled /\ ~dec.closed)
  <2>1. c.dec.settled \in Nat
    BY <1>2 DEF Decoders
  <2> QED BY <1>2, <2>1, AbortKeeps
<1>4. /\ dec.use \in {"initial", "online", "recovery"} /\ f.use \in {"initial", "online", "recovery"}
      /\ f.ord \in Nat /\ dec.ord \in Nat /\ dec.settled \in Nat /\ c.dec.settled \in Nat
  <2> HIDE DEF dec
  <2> QED BY <1>1, <1>2, <1>3 DEF Decoders, Frames
<1>5. CASE dec.closed \/ f.ord <= dec.settled \/ f.ord < dec.ord
  <2>1. d = [c EXCEPT !.dec = dec]
    BY <1>5 DEF Decode
  <2> HIDE DEF dec, d
  <2>2. Onto(c, d)
    BY <2>1, DecoderOnto
  <2> QED BY <2>2 DEF d
<1>6. CASE ~(dec.closed \/ f.ord <= dec.settled \/ f.ord < dec.ord)
  <2>1. \/ d = g
        \/ d = HandleFault(g, f.use, unread)
        \/ d = HandleFault(shut, f.use, unread)
        \/ d = HandleFrame(e, f)
        \/ d = e
    BY <1>6 DEF Decode
  <2>2. /\ r.dec \in Decoders /\ r.dec.settled >= dec.settled
        /\ r.dec.ord # 0 => r.dec.ord > r.dec.settled /\ ~r.dec.closed
    <3>1. f.ord > dec.settled /\ f.ord >= dec.ord /\ ~dec.closed
      BY <1>4, <1>6
    <3> HIDE DEF dec
    <3> QED BY <3>1, <1>3, AssembledKeeps
  <2>3. unread \in BOOLEAN
    OBVIOUS
  <2> HIDE DEF r, unread, dec
  <2>4. r.dec.settled \in Nat /\ r.dec.settled >= c.dec.settled
    BY <2>2, <1>3, <1>4 DEF Decoders
  <2>5. ClientOK(e) /\ Onto(c, e) /\ e.sub = c.sub
    <3>1. Kept(c, e)
      BY <2>2, <2>4, AnotherDecoder
    <3>2. Onto(c, e) /\ e.sub = c.sub
      BY DecoderOnto
    <3> QED BY <3>1, <3>2 DEF Kept
  <2>6. ClientOK(shut) /\ shut.sub = c.sub
    <3>1. Closed(r.dec) \in Decoders /\ Closed(r.dec).ord = 0
          /\ Closed(r.dec).settled >= r.dec.settled
      BY <2>2, AbortKeeps
    <3>2. Closed(r.dec).settled >= c.dec.settled
      BY <3>1, <2>4, <1>4 DEF Decoders
    <3>3. Kept(c, shut)
      BY <3>1, <3>2, AnotherDecoder
    <3>4. shut.sub = c.sub
      BY DecoderOnto
    <3> QED BY <3>3, <3>4 DEF Kept
  <2> DEFINE h == HandleFault(g, f.use, unread)
             i == HandleFault(shut, f.use, unread)
             j == HandleFrame(e, f)
             a == Closed(r.dec)
  <2>7. ASSUME NEW y, Onto(shut, y) PROVE Onto(c, y)
    <3>1. shut = [c EXCEPT !.dec = a]
      OBVIOUS
    <3> HIDE DEF shut, a
    <3> QED BY <3>1, <2>7, DecoderThenOnto
  <2>8. Kept(shut, g) /\ Meek(shut, g)
    <3> HIDE DEF shut
    <3>1. FALSE \in BOOLEAN
      OBVIOUS
    <3> HIDE DEF g
    <3> QED BY <3>1, <1>4, <2>6, FaultMeek DEF g
  <2>9. Onto(shut, h)
    <3> HIDE DEF shut, g
    <3>1. ClientOK(g) /\ g.sub # 0
      BY <2>6, <2>8 DEF Kept
    <3> HIDE DEF h
    <3>2. Kept(g, h) /\ Meek(g, h)
      BY <3>1, <2>3, <1>4, FaultMeek DEF h
    <3>3. Meek(shut, h)
      BY <2>6, <2>8, <3>2, MeekOnAndOn
    <3> QED BY <3>3 DEF Meek
  <2>10. Onto(shut, i)
    <3> HIDE DEF shut, i
    <3>1. Meek(shut, i)
      BY <2>3, <2>6, <1>4, FaultMeek DEF i
    <3> QED BY <3>1 DEF Meek
  <2>11. Onto(c, j)
    <3>1. Onto(e, j)
      <4> HIDE DEF e
      <4> QED BY <1>1, <2>5, FrameOnto
    <3> DEFINE b == r.dec
    <3>2. e = [c EXCEPT !.dec = b]
      OBVIOUS
    <3> HIDE DEF e, b, j
    <3> QED BY <3>1, <3>2, DecoderThenOnto
  <2>12. Onto(shut, g)
    BY <2>8 DEF Meek
  <2> HIDE DEF d, e, shut, g, h, i, j
  <2>13. Onto(c, d)
    <3>1. d = g \/ d = h \/ d = i \/ d = j \/ d = e
      BY <2>1 DEF h, i, j
    <3> QED BY <3>1, <2>5, <2>7, <2>9, <2>10, <2>11, <2>12
  <2> QED BY <2>13 DEF d
<1> QED BY <1>5, <1>6

\* A client whose requests and replies are the same has the same place.
LEMMA SeatsSame ==
    ASSUME NEW c, NEW d, d.status = c.status, d.sub = c.sub, d.up = c.up, d.gen = c.gen,
           d.pending = c.pending, NEW s, NEW U, NEW V, V \subseteq U, Seats(c, s, U)
    PROVE  Seats(d, s, V)
BY DEF Seats, Asking

\* The first of a channel that is in order is the oldest.
LEMMA HeadIsOldest ==
    ASSUME NEW s \in Seq(Messages), s # <<>>, Head(s) \in WireSet, NEW S, Head(s).frame.sub = S
    PROVE  /\ Sorted(s, S) => \A g \in FramesOf(Tail(s)) : g.sub = S => Head(s).frame.ord <= g.ord
           /\ \A u : Before(u, s, S) =>
                \A g \in FramesOf(u) : g.sub = S => g.ord <= Head(s).frame.ord
<1>1. /\ Len(s) \in Nat /\ Len(s) # 0 /\ Head(s) = s[1] /\ Len(Tail(s)) = Len(s) - 1
      /\ \A i \in 1..Len(Tail(s)) : Tail(s)[i] = s[i + 1]
  BY HeadTailProperties
<1>2. 1 \in 1..Len(s) /\ On(s[1], S)
  BY <1>1 DEF On
<1>3. ASSUME Sorted(s, S), NEW g \in FramesOf(Tail(s)), g.sub = S PROVE Head(s).frame.ord <= g.ord
  <2>1. PICK i \in 1..Len(Tail(s)) : Tail(s)[i] \in WireSet /\ g = Tail(s)[i].frame
    BY DEF FramesOf
  <2>2. i + 1 \in 1..Len(s) /\ 1 < i + 1 /\ s[i + 1] = Tail(s)[i]
    BY <1>1
  <2>3. On(s[i + 1], S)
    BY <2>1, <2>2, <1>3 DEF On
  <2>4. s[1].frame.ord <= s[i + 1].frame.ord
    BY <2>2, <2>3, <1>2, <1>3 DEF Sorted
  <2> QED BY <2>1, <2>2, <2>4, <1>1
<1>4. ASSUME NEW u, Before(u, s, S), NEW g \in FramesOf(u), g.sub = S
      PROVE  g.ord <= Head(s).frame.ord
  <2>1. PICK i \in 1..Len(u) : u[i] \in WireSet /\ g = u[i].frame
    BY DEF FramesOf
  <2>2. On(u[i], S)
    BY <2>1, <1>4 DEF On
  <2> QED BY <2>1, <2>2, <1>1, <1>2, <1>4 DEF Before
<1> QED BY <1>3, <1>4

\* A wire leaves the channel, as w or damaged.
WireComes(w) ==
    /\ down # <<>> /\ Head(down) \in WireSet /\ w.frame = Head(down).frame /\ down' = Tail(down)
    /\ UNCHANGED <<serverVars, arrived>>

\* It was the oldest of its subscription.
LEMMA WireLeaves ==
    ASSUME Sound, NEW G, Delivers(G), NEW w, WireComes(w), NEW f, f = w.frame
    PROVE  /\ pub' = pub /\ srv' = srv /\ outbox' = outbox
           /\ PartOf(down', down) /\ UnderWay' \subseteq UnderWay
           /\ f \in OnTheWay /\ FramesOf(down) = FramesOf(down') \cup {f}
           /\ f.sub # srv.id => Yet' = Yet
           /\ f.sub = srv.id =>
                /\ Yet = Yet' \cup {f} /\ f \in G
                /\ \A g \in Yet' : f.ord <= g.ord
                /\ \A g \in FramesOf(down') : g.sub = srv.id => f.ord <= g.ord
                /\ \A g \in FramesOf(cl.staged) : g.sub = srv.id => g.ord <= f.ord
<1>1. /\ down \in Seq(Messages) /\ down # <<>> /\ Head(down) \in WireSet /\ f = Head(down).frame
      /\ down' = Tail(down)
      /\ pub' = pub /\ srv' = srv /\ outbox' = outbox /\ arrived' = arrived
  BY DEF WireComes, Sound, TypeOK, ChannelOK, Messages, serverVars
<1>2. PartOf(down', down)
  BY <1>1, TailIsPart
<1>3. UnderWay' \subseteq UnderWay
  BY <1>1, <1>2, LessUnderWay
<1>4. /\ Len(down) \in Nat /\ Len(down) # 0 /\ Head(down) = down[1] /\ Len(down') = Len(down) - 1
      /\ \A i \in 1..Len(down') : down'[i] = down[i + 1]
  BY <1>1, HeadTailProperties
<1>5. FramesOf(down) = FramesOf(down') \cup {f}
  <2>1. FramesOf(down') \subseteq FramesOf(down)
    BY <1>2, FramesOfPart
  <2>2. f \in FramesOf(down)
    BY <1>1, <1>4 DEF FramesOf
  <2>3. ASSUME NEW i \in 1..Len(down), down[i] \in WireSet
        PROVE  down[i].frame \in FramesOf(down') \cup {f}
    <3>1. CASE i = 1
      BY <3>1, <1>1, <1>4
    <3>2. CASE i # 1
      <4>1. i - 1 \in 1..Len(down') /\ (i - 1) + 1 = i
        BY <3>2, <1>4
      <4>2. down'[i - 1] = down[i]
        BY <4>1, <1>4
      <4> QED BY <4>1, <4>2, <2>3 DEF FramesOf
    <3> QED BY <3>1, <3>2
  <2>4. FramesOf(down) \subseteq FramesOf(down') \cup {f}
    BY <2>3 DEF FramesOf
  <2> QED BY <2>1, <2>2, <2>4
<1>6. f \in OnTheWay
  BY <1>5 DEF OnTheWay
<1>7. f.sub # srv.id => Yet' = Yet
  BY <1>1, <1>5 DEF Yet
<1>8. ASSUME f.sub = srv.id
      PROVE  /\ Yet = Yet' \cup {f} /\ f \in G
             /\ \A g \in Yet' : f.ord <= g.ord
             /\ \A g \in FramesOf(down') : g.sub = srv.id => f.ord <= g.ord
             /\ \A g \in FramesOf(cl.staged) : g.sub = srv.id => g.ord <= f.ord
  <2>1. Yet = Yet' \cup {f}
    BY <1>1, <1>5, <1>8 DEF Yet
  <2>2. Sent(G) /\ Ordered
    BY DEF Delivers
  <2>3. f \in G /\ f.ord <= srv.ord
    BY <2>2, <1>6, <1>8 DEF Sent, SentIn
  <2>4. /\ \A g \in FramesOf(down') : g.sub = srv.id => f.ord <= g.ord
        /\ \A g \in FramesOf(cl.staged) : g.sub = srv.id => g.ord <= f.ord
    <3> DEFINE S == srv.id
               u == cl.staged
    <3>1. Sorted(down, S) /\ Before(u, down, S) /\ Head(down).frame.sub = S
      BY <2>2, <1>1, <1>8 DEF Ordered
    <3> HIDE DEF S, u
    <3>2. /\ \A g \in FramesOf(Tail(down)) : g.sub = S => Head(down).frame.ord <= g.ord
          /\ \A g \in FramesOf(u) : g.sub = S => g.ord <= Head(down).frame.ord
      BY <3>1, <1>1, HeadIsOldest
    <3> QED BY <3>2, <1>1 DEF S, u
  <2>5. \A g \in Yet' : f.ord <= g.ord
    <3>1. \A g \in FramesOf(outbox) : g.ord = srv.ord
      BY <2>2 DEF Ordered
    <3> QED BY <2>3, <2>4, <3>1, <1>1 DEF Yet
  <2> QED BY <2>1, <2>3, <2>4, <2>5
<1> QED BY <1>1, <1>2, <1>3, <1>5, <1>6, <1>7, <1>8

\* A wire that nobody waits for is dropped.
LEMMA DropGoes ==
    ASSUME Sound, NEW H, Truth(H), NEW G, Delivers(G), Sound', NEW K, Truth(K)',
           NEW w, WireComes(w), lost' = lost, w.frame.sub # cl.sub, cl.pending = {}, cl' = cl
    PROVE  Delivers(G)'
<1> DEFINE f == w.frame
<1>1. /\ pub' = pub /\ srv' = srv /\ outbox' = outbox
      /\ PartOf(down', down) /\ UnderWay' \subseteq UnderWay
      /\ FramesOf(down) = FramesOf(down') \cup {f}
      /\ (f.sub # srv.id => Yet' = Yet)
  BY WireLeaves
<1>2. UNCHANGED serverVars /\ cl.view \in Viewed
  BY ShownInTime DEF WireComes
<1>3. Ordered /\ Based(cl) /\ Seats(cl, srv, UnderWay) /\ Expects(G)
  BY DEF Delivers
<1>4. Onward(cl.view, cl'.view)
  BY <1>2, OnwardAtFirst
<1>5. OnTheWay' \subseteq OnTheWay
  BY <1>1 DEF OnTheWay
<1>6. Sorted(cl'.staged, srv.id) /\ Before(cl'.staged, down', srv.id)
  BY <1>1, <1>3, PartIsSorted DEF Ordered
<1>7. Seats(cl', srv, UnderWay')
  BY <1>1, <1>3, SeatsSame
<1>8. Expects(G)'
  <2>1. ASSUME cl.sub = srv.id, cl.sub # 0 PROVE Waits(cl, Yet', G, pub.num, lost, srv.ord)
    BY <2>1, <1>1, <1>3 DEF Expects
  <2>2. \A m \in UnderWay' : m.id # cl.gen
    BY <1>1, <1>3 DEF Seats
  <2> QED BY <2>1, <2>2, <1>1 DEF Expects
<1> QED BY <1>1, <1>2, <1>3, <1>4, <1>5, <1>6, <1>7, <1>8, ClientGoes

\* A wire is kept behind all that are kept.
LEMMA AppendIsSorted ==
    ASSUME NEW s \in Seq(WireSet), NEW w \in WireSet, NEW f, f = w.frame, NEW S,
           NEW t, t \in Seq(Messages), Sorted(s, S), Before(s, t, S),
           f.sub = S => /\ \A g \in FramesOf(s) : g.sub = S => g.ord <= f.ord
                        /\ \A g \in FramesOf(t) : g.sub = S => f.ord <= g.ord
    PROVE  /\ Sorted(Append(s, w), S) /\ Before(Append(s, w), t, S)
           /\ FramesOf(Append(s, w)) = FramesOf(s) \cup {f}
<1> DEFINE r == Append(s, w)
<1>1. /\ Len(s) \in Nat /\ Len(r) = Len(s) + 1 /\ r[Len(s) + 1] = w
      /\ \A i \in 1..Len(s) : r[i] = s[i]
  OBVIOUS
<1> HIDE DEF r
<1>2. \A i \in 1..Len(r) : (i \in 1..Len(s) /\ r[i] = s[i]) \/ (i = Len(s) + 1 /\ r[i] = w)
  BY <1>1
<1>3. \A u : \A i \in 1..Len(u) : On(u[i], S) => u[i].frame \in FramesOf(u) /\ u[i].frame.sub = S
  BY DEF On, FramesOf
<1>4. f.ord \in Nat
  BY DEF WireSet, Frames
<1>5. Sorted(r, S)
  <2> SUFFICES ASSUME NEW i \in 1..Len(r), NEW j \in 1..Len(r), i < j, On(r[i], S), On(r[j], S)
               PROVE  r[i].frame.ord <= r[j].frame.ord
    BY DEF Sorted
  <2>1. i \in 1..Len(s) /\ r[i] = s[i]
    BY <1>1, <1>2
  <2>2. CASE j \in 1..Len(s) /\ r[j] = s[j]
    BY <2>1, <2>2 DEF Sorted
  <2>3. CASE j = Len(s) + 1 /\ r[j] = w
    <3>1. f.sub = S
      BY <2>3 DEF On
    <3>2. s[i].frame \in FramesOf(s) /\ s[i].frame.sub = S
      BY <2>1, <1>3
    <3> QED BY <3>1, <3>2, <2>1, <2>3
  <2> QED BY <1>2, <2>2, <2>3
<1>6. Before(r, t, S)
  <2> SUFFICES ASSUME NEW i \in 1..Len(r), NEW j \in 1..Len(t), On(r[i], S), On(t[j], S)
               PROVE  r[i].frame.ord <= t[j].frame.ord
    BY DEF Before
  <2>1. CASE i \in 1..Len(s) /\ r[i] = s[i]
    BY <2>1 DEF Before
  <2>2. CASE i = Len(s) + 1 /\ r[i] = w
    <3>1. f.sub = S
      BY <2>2 DEF On
    <3>2. t[j].frame \in FramesOf(t) /\ t[j].frame.sub = S
      BY <1>3
    <3> QED BY <3>1, <3>2, <2>2
  <2> QED BY <1>2, <2>1, <2>2
<1>7. FramesOf(r) = FramesOf(s) \cup {f}
  <2>1. \A i \in 1..Len(s) : i \in 1..Len(r)
    BY <1>1
  <2>2. Len(s) + 1 \in 1..Len(r)
    BY <1>1
  <2>3. FramesOf(r) \subseteq FramesOf(s) \cup {f}
    BY <1>2 DEF FramesOf
  <2>4. FramesOf(s) \subseteq FramesOf(r)
    BY <2>1, <1>1 DEF FramesOf
  <2>5. f \in FramesOf(r)
    BY <2>2, <1>1 DEF FramesOf
  <2> QED BY <2>3, <2>4, <2>5
<1> QED BY <1>5, <1>6, <1>7 DEF r

\* While a subscribe is unanswered, a wire of another subscription is kept.
LEMMA KeepGoes ==
    ASSUME Sound, NEW H, Truth(H), NEW G, Delivers(G), Sound', NEW K, Truth(K)',
           NEW w \in WireSet, WireComes(w), lost' = lost, w.frame.sub # cl.sub,
           cl' = [cl EXCEPT !.staged = Append(@, w)]
    PROVE  Delivers(G)'
<1> DEFINE f == w.frame
<1>1. /\ pub' = pub /\ srv' = srv /\ outbox' = outbox
      /\ PartOf(down', down) /\ UnderWay' \subseteq UnderWay
      /\ f \in OnTheWay /\ FramesOf(down) = FramesOf(down') \cup {f}
      /\ (f.sub # srv.id => Yet' = Yet)
      /\ (f.sub = srv.id =>
           /\ Yet = Yet' \cup {f}
           /\ \A g \in FramesOf(down') : g.sub = srv.id => f.ord <= g.ord
           /\ \A g \in FramesOf(cl.staged) : g.sub = srv.id => g.ord <= f.ord)
  BY WireLeaves
<1>2. UNCHANGED serverVars /\ cl.view \in Viewed /\ ClientOK(cl)
  BY ShownInTime DEF WireComes
<1>3. Ordered /\ Based(cl) /\ Seats(cl, srv, UnderWay) /\ Expects(G)
  BY DEF Delivers
<1>4. /\ cl'.gen = cl.gen /\ cl'.up = cl.up /\ cl'.sub = cl.sub /\ cl'.view = cl.view
      /\ cl'.dec = cl.dec /\ cl'.pending = cl.pending /\ cl'.flight = cl.flight
      /\ cl'.status = cl.status /\ cl'.staged = Append(cl.staged, w)
      /\ cl.staged \in Seq(WireSet)
  BY <1>2 DEF ClientOK, Clients
<1>5. /\ Sorted(cl'.staged, srv.id) /\ Before(cl'.staged, down', srv.id)
      /\ FramesOf(cl'.staged) = FramesOf(cl.staged) \cup {f}
  <2> DEFINE s == cl.staged
             S == srv.id
             t == down'
  <2>1. s \in Seq(WireSet) /\ Sorted(s, S) /\ Before(s, down, S)
    BY <1>3, <1>4 DEF Ordered
  <2>2. t \in Seq(Messages) /\ Before(s, t, S)
    BY <1>1, <2>1, PartIsSorted DEF PartOf
  <2>3. f.sub = S => /\ \A g \in FramesOf(s) : g.sub = S => g.ord <= f.ord
                     /\ \A g \in FramesOf(t) : g.sub = S => f.ord <= g.ord
    BY <1>1
  <2> HIDE DEF s, S, t
  <2>4. /\ Sorted(Append(s, w), S) /\ Before(Append(s, w), t, S)
        /\ FramesOf(Append(s, w)) = FramesOf(s) \cup {f}
    BY <2>1, <2>2, <2>3, AppendIsSorted
  <2> QED BY <2>4, <1>4 DEF s, S, t
<1>6. Onward(cl.view, cl'.view)
  BY <1>2, <1>4, OnwardAtFirst
<1>7. OnTheWay' \subseteq OnTheWay
  BY <1>1, <1>5 DEF OnTheWay
<1>8. Seats(cl', srv, UnderWay')
  <2> DEFINE c == cl
             d == cl'
             s == srv
             U == UnderWay
             V == UnderWay'
  <2>1. /\ d.status = c.status /\ d.sub = c.sub /\ d.up = c.up /\ d.gen = c.gen
        /\ d.pending = c.pending /\ V \subseteq U /\ Seats(c, s, U)
    BY <1>1, <1>3, <1>4
  <2> HIDE DEF c, d, s, U, V
  <2>2. Seats(d, s, V)
    BY <2>1, SeatsSame
  <2> QED BY <2>2 DEF d, s, V
<1>9. Based(cl')
  BY <1>3, <1>4 DEF Based
<1>10. Expects(G)'
  <2>1. ASSUME cl.sub = srv.id, cl.sub # 0 PROVE Waits(cl', Yet', G, pub.num, lost, srv.ord)
    <3>1. Waits(cl, Yet', G, pub.num, lost, srv.ord)
      BY <2>1, <1>1, <1>3 DEF Expects
    <3> DEFINE c == cl
               d == cl'
               n == pub.num
               k == srv.ord
               R == Yet'
    <3>2. /\ d.view = c.view /\ d.dec = c.dec /\ d.flight = c.flight /\ d.status = c.status
          /\ Waits(c, R, G, n, lost, k)
      BY <3>1, <1>4
    <3> HIDE DEF c, d, n, k, R
    <3>3. Waits(d, R, G, n, lost, k)
      BY <3>2, WaitsSame
    <3> QED BY <3>3 DEF d, n, k, R
  <2>2. ASSUME cl.sub # srv.id, NEW m \in UnderWay', m.id = cl.gen,
               NEW T \in G, Awaited(T, cl.view, pub.num, lost)
        PROVE  T \in Yet' \cup FramesOf(cl'.staged)
    <3>1. T \in Yet \cup FramesOf(cl.staged)
      BY <2>2, <1>1, <1>3 DEF Expects
    <3>2. Yet \subseteq Yet' \cup {f}
      BY <1>1
    <3> QED BY <3>1, <3>2, <1>5
  <2> QED BY <2>1, <2>2, <1>1, <1>4 DEF Expects
<1> QED BY <1>1, <1>2, <1>5, <1>6, <1>7, <1>8, <1>9, <1>10, ClientGoes

\* A wire of the client's subscription is decoded.
LEMMA DecodeGoes ==
    ASSUME Sound, NEW H, Truth(H), NEW G, Delivers(G), Sound', NEW K, Truth(K)',
           NEW w \in WireSet, WireComes(w), lost' = lost, w.frame.sub = cl.sub, cl' = Decode(cl, w)
    PROVE  Delivers(G)'
<1> DEFINE f == w.frame
<1>1. /\ pub' = pub /\ srv' = srv /\ outbox' = outbox
      /\ PartOf(down', down) /\ UnderWay' \subseteq UnderWay
      /\ f \in OnTheWay /\ FramesOf(down) = FramesOf(down') \cup {f}
      /\ (f.sub # srv.id => Yet' = Yet)
      /\ (f.sub = srv.id =>
           /\ Yet = Yet' \cup {f} /\ f \in G
           /\ \A g \in Yet' : f.ord <= g.ord)
  BY WireLeaves
<1>2. /\ UNCHANGED serverVars /\ cl.view \in Viewed /\ ClientOK(cl)
      /\ pub.num \in Nat \ {0} /\ srv.ord \in Nat
      /\ (cl.view # None => cl.view.num <= pub.num)
  BY ShownInTime DEF WireComes
<1>3. /\ Sent(G) /\ Ordered /\ Based(cl) /\ Seats(cl, srv, UnderWay) /\ Expects(G)
      /\ DeltasKnown(G, cl.view, pub.num)
  BY DEF Delivers
<1>4. cl.sub # 0
  BY <1>1 DEF Truth, FramesTrue
<1>5. Moved(cl, cl', OnTheWay, H, pub)
  <2> DEFINE c == cl
             F == OnTheWay
             p == pub
  <2>1. ClientOK(c) /\ FramesTrue(F, H, p) /\ Showing(c, F, H, p) /\ f \in F /\ f.sub = c.sub
    BY <1>1, <1>2 DEF Truth
  <2> HIDE DEF c, F, p
  <2>2. Moved(c, Decode(c, w), F, H, p)
    BY <2>1, DecodeMoves
  <2> QED BY <2>2 DEF c, F, p
<1>6. /\ ClientOK(cl') /\ Asked(cl, cl') /\ cl'.sub = cl.sub /\ cl'.staged = cl.staged
      /\ Onward(cl.view, cl'.view)
  BY <1>5 DEF Moved
<1>7. cl'.view # None => cl'.view.num <= pub.num
  BY <1>1 DEF Truth, Showing
<1>8. Onto(cl, cl')
  <2> DEFINE c == cl
  <2>1. ClientOK(c) /\ c.sub # 0
    BY <1>2, <1>4
  <2> HIDE DEF c
  <2>2. Onto(c, Decode(c, w))
    BY <2>1, DecodeOnto
  <2> QED BY <2>2 DEF c
<1>9. ASSUME cl.sub = srv.id PROVE Waits(cl', Yet', G, pub.num, lost, srv.ord)
  <2> DEFINE c == cl
             d == cl'
             n == pub.num
             k == srv.ord
             R == Yet'
             ls == lost
             v == cl'.view
  <2>1. ClientOK(c) /\ c.sub # 0 /\ n \in Nat \ {0} /\ k \in Nat /\ d = Decode(c, w)
        /\ (c.view # None => c.view.num <= n) /\ v = d.view /\ Onward(c.view, v)
        /\ (v # None => v.num <= n)
    BY <1>2, <1>4, <1>6, <1>7
  <2>2. SentIn(G, n, k) /\ DeltasKnown(G, c.view, n)
    BY <1>3 DEF Sent
  <2>3. R \cup {w.frame} = Yet /\ w.frame \in G /\ \A g \in R : w.frame.ord <= g.ord
    BY <1>1, <1>9
  <2>4. R \subseteq G
    <3>1. Yet \subseteq G
      BY <1>3 DEF Yet, Sent, OnTheWay
    <3> QED BY <3>1, <2>3
  <2>5. Waits(c, R \cup {w.frame}, G, n, ls, k)
    BY <2>3, <1>3, <1>4, <1>9 DEF Expects
  <2> HIDE DEF c, d, n, k, R, ls, v
  <2>6. v = Decode(c, w).view
    BY <2>1
  <2>7. Waits(Decode(c, w), R, G, n, ls, k)
    BY <2>1, <2>2, <2>3, <2>4, <2>5, <2>6, DecodeWaits
  <2>8. Waits(d, R, G, n, ls, k)
    BY <2>1, <2>7
  <2> QED BY <2>8 DEF d, n, k, R, ls
<1>10. OnTheWay' \subseteq OnTheWay
  BY <1>1, <1>6 DEF OnTheWay
<1>11. Sorted(cl'.staged, srv.id) /\ Before(cl'.staged, down', srv.id)
  BY <1>1, <1>3, <1>6, PartIsSorted DEF Ordered
<1>12. Based(cl') /\ Seats(cl', srv, UnderWay')
  <2> DEFINE c == cl
             d == cl'
             s == srv
             U == UnderWay
             V == UnderWay'
  <2>1. /\ ClientOK(c) /\ ClientOK(d) /\ Asked(c, d) /\ Onto(c, d) /\ d.sub = c.sub
        /\ Onward(c.view, d.view) /\ Based(c) /\ Seats(c, s, U) /\ V \subseteq U
    BY <1>1, <1>2, <1>3, <1>6, <1>8
  <2>2. (\A m \in U : m.id \in Nat /\ m.id <= c.gen) /\ Once(d.up)
    BY UnderWayNumbered DEF Sound, Distinct
  <2> HIDE DEF c, d, s, U, V
  <2>3. Based(d)
    BY <2>1, BasedAfterAsking
  <2>4. \A i, j \in 1..Len(d.up) :
          i < j /\ d.up[i].op = "subscribe" /\ d.up[j].op = "subscribe" => d.up[i].id # d.up[j].id
    BY <2>1, <2>2, SubscribesApart
  <2>5. Seats(d, s, U)
    BY <2>1, <2>2, <2>4, SeatsAfterAsking
  <2>6. Seats(d, s, V)
    BY <2>1, <2>5, SeatsSame
  <2> QED BY <2>3, <2>6 DEF d, s, V
<1>13. Expects(G)'
  <2>1. ASSUME cl.sub # srv.id, NEW m \in UnderWay', m.id = cl'.gen,
               NEW T \in G, Awaited(T, cl'.view, pub.num, lost)
        PROVE  T \in Yet' \cup FramesOf(cl'.staged)
    <3>1. m \in UnderWay /\ m.id = cl.gen
      <4>1. m \in UnderWay /\ m.id \in Nat /\ m.id <= cl.gen
        BY <2>1, <1>1, UnderWayNumbered DEF Sound
      <4>2. cl.gen <= cl'.gen /\ cl.gen \in Nat /\ cl'.gen \in Nat
        BY <1>2, <1>6 DEF Asked, ClientOK, Clients
      <4> QED BY <4>1, <4>2, <2>1
    <3>2. Awaited(T, cl.view, pub.num, lost)
      <4> DEFINE v == cl.view
                 u == cl'.view
                 n == pub.num
                 ls == lost
      <4>1. /\ n \in Nat /\ v \in Viewed /\ u \in Viewed /\ Onward(v, u) /\ (u # None => u.num <= n)
            /\ Awaited(T, u, n, ls)
        BY <2>1, <1>2, <1>6, <1>7 DEF ClientOK, Clients, Viewed
      <4> HIDE DEF v, u, n, ls
      <4>2. Awaited(T, v, n, ls)
        BY <4>1, AwaitedBefore
      <4> QED BY <4>2 DEF v, n, ls
    <3>3. T \in Yet \cup FramesOf(cl.staged)
      BY <2>1, <3>1, <3>2, <1>3 DEF Expects
    <3>4. Yet' = Yet
      BY <2>1, <1>1
    <3> QED BY <3>3, <3>4, <1>6
  <2> QED BY <2>1, <1>1, <1>6, <1>9 DEF Expects
<1> QED BY <1>1, <1>2, <1>6, <1>10, <1>11, <1>12, <1>13, ClientGoes

\* A wire that comes, damaged or not.
LEMMA WireGoes ==
    ASSUME Sound, NEW H, Truth(H), NEW G, Delivers(G), Sound', NEW K, Truth(K)',
           NEW w \in WireSet, WireComes(w), lost' = lost, cl' = Accept(cl, w)
    PROVE  Delivers(G)'
<1>1. CASE w.frame.sub = cl.sub
  <2>1. cl' = Decode(cl, w)
    BY <1>1 DEF Accept
  <2> QED BY <1>1, <2>1, DecodeGoes
<1>2. CASE w.frame.sub # cl.sub /\ cl.pending = {}
  <2>1. cl' = cl
    BY <1>2 DEF Accept
  <2> QED BY <1>2, <2>1, DropGoes
<1>3. CASE w.frame.sub # cl.sub /\ cl.pending # {}
  <2>1. cl' = [cl EXCEPT !.staged = Append(@, w)]
    BY <1>3 DEF Accept
  <2> QED BY <1>3, <2>1, KeepGoes
<1> QED BY <1>1, <1>2, <1>3

\* Frames that are lost are awaited no longer, unless the client has to do with them still.
LEMMA LostWaits ==
    ASSUME NEW c, ClientOK(c), NEW G, NEW n, NEW k, SentIn(G, n, k), NEW R, NEW Q, R \subseteq Q,
           NEW ls, NEW ms, ls \subseteq ms, Waits(c, Q, G, n, ls, k),
           \A T \in Q : T \in R \/ /\ \A g \in R : T.ord <= g.ord
                                   /\ Awaited(T, c.view, n, ms) => T.ord = c.dec.ord
    PROVE  Waits(c, R, G, n, ms, k)
<1>1. Known(c, G, k) /\ Beyond(c, Q) /\ Rest(c, Q, G, n, ls)
      /\ \A T \in G : Awaited(T, c.view, n, ls) => Tracked(T, Q)
  BY DEF Waits
<1>2. \A T : Awaited(T, c.view, n, ms) => Awaited(T, c.view, n, ls)
  BY DEF Awaited
<1>3. Beyond(c, R)
  BY <1>1 DEF Beyond
<1>4. Rest(c, R, G, n, ms)
  <2> SUFFICES ASSUME AtRest(c), NEW T \in G, Awaited(T, c.view, n, ms)
               PROVE  ~c.dec.closed /\ Shall(c, R, T)
    BY <1>1 DEF Rest
  <2>1. Shall(c, Q, T) /\ T.ord # 0
    BY <1>1, <1>2 DEF Rest, SentIn
  <2>2. ASSUME T \in Q, T \notin R PROVE Shall(c, R, T)
    <3>1. T.ord = c.dec.ord /\ T.ord # 0
      BY <2>1, <2>2
    <3> QED BY <3>1 DEF Shall, Begun
  <2>3. ASSUME T \notin Q PROVE Shall(c, R, T)
    BY <2>1, <2>3 DEF Shall
  <2>4. ASSUME T \in R PROVE Shall(c, R, T)
    BY <2>1, <2>4 DEF Shall
  <2>5. ~c.dec.closed
    BY <1>1 DEF Rest
  <2> QED BY <2>2, <2>3, <2>4, <2>5
<1>5. \A T \in G : Awaited(T, c.view, n, ms) => Tracked(T, R)
  BY <1>1, <1>2 DEF Tracked
<1> QED BY <1>1, <1>3, <1>4, <1>5 DEF Waits

\* The frames of the wires among the messages.
LEMMA FramedIsFramesOf ==
    ASSUME NEW s \in Seq(Messages)
    PROVE  Framed(s) = FramesOf(s)
<1>1. \A i \in 1..Len(s) : s[i] \in Messages /\ (s[i] \in WireSet <=> ~IsReply(s[i]))
  <2>1. \A i \in 1..Len(s) : s[i] \in Messages
    OBVIOUS
  <2> QED BY <2>1, ReplyOrWire DEF Messages
<1>2. \A m : m \in ToSet(s) <=> \E i \in 1..Len(s) : m = s[i]
  BY DEF ToSet
<1>3. ASSUME NEW f \in Framed(s) PROVE f \in FramesOf(s)
  <2>1. PICK m \in ToSet(s) : ~IsReply(m) /\ f = m.frame
    BY DEF Framed
  <2> QED BY <2>1, <1>1, <1>2 DEF FramesOf
<1>4. ASSUME NEW f \in FramesOf(s) PROVE f \in Framed(s)
  <2>1. PICK i \in 1..Len(s) : s[i] \in WireSet /\ f = s[i].frame
    BY DEF FramesOf
  <2> QED BY <2>1, <1>1, <1>2 DEF Framed
<1> QED BY <1>3, <1>4

\* A wire is lost: its frame is awaited no longer, unless the client has to do with it still.
LEMMA LostGoes ==
    ASSUME Sound, NEW H, Truth(H), NEW G, Delivers(G), Sound', NEW K, Truth(K)',
           NEW w, WireComes(w), cl' = cl,
           \/ Traced(w.frame, down') /\ lost' = lost
           \/ lost' = lost \cup {<<w.frame.sub, w.frame.ord>>} /\ ~Renumbers(w.frame, cl.view)
    PROVE  Delivers(G)'
<1> DEFINE f == w.frame
<1>1. /\ pub' = pub /\ srv' = srv /\ outbox' = outbox
      /\ PartOf(down', down) /\ UnderWay' \subseteq UnderWay
      /\ FramesOf(down) = FramesOf(down') \cup {f}
      /\ (f.sub # srv.id => Yet' = Yet)
      /\ (f.sub = srv.id => /\ Yet = Yet' \cup {f}
                            /\ \A g \in Yet' : f.ord <= g.ord)
  BY WireLeaves
<1>2. UNCHANGED serverVars /\ cl.view \in Viewed /\ ClientOK(cl) /\ srv.ord \in Nat
  BY ShownInTime DEF WireComes
<1>3. Sent(G) /\ Ordered /\ Based(cl) /\ Seats(cl, srv, UnderWay) /\ Expects(G)
  BY DEF Delivers
<1>4. Onward(cl.view, cl'.view)
  BY <1>2, OnwardAtFirst
<1>5. OnTheWay' \subseteq OnTheWay
  BY <1>1 DEF OnTheWay
<1>6. Sorted(cl'.staged, srv.id) /\ Before(cl'.staged, down', srv.id)
  BY <1>1, <1>3, PartIsSorted DEF Ordered
<1>7. Seats(cl', srv, UnderWay')
  BY <1>1, <1>3, SeatsSame
<1>8. Framed(down') = FramesOf(down') /\ Framed(cl.staged) = FramesOf(cl.staged)
  <2>1. down' \in Seq(Messages)
    BY DEF Sound, TypeOK, ChannelOK, Messages
  <2>2. cl.staged \in Seq(Messages)
    <3>1. cl.staged \in Seq(WireSet)
      BY <1>2 DEF ClientOK, Clients
    <3> QED BY <3>1 DEF Messages
  <2> QED BY <2>1, <2>2, FramedIsFramesOf
<1>9. lost \subseteq lost'
  OBVIOUS
<1>10. ASSUME f.sub = srv.id, f \notin Yet', Awaited(f, cl.view, pub.num, lost')
       PROVE  \/ f.sub # cl.sub /\ f \in FramesOf(cl.staged)
              \/ f.sub = cl.sub /\ f.ord = cl.dec.ord
  <2>1. Traced(f, down')
    BY <1>10 DEF Awaited
  <2>2. f \notin FramesOf(down')
    BY <1>1, <1>10 DEF Yet
  <2> QED BY <2>1, <2>2, <1>8 DEF Traced
<1>11. Expects(G)'
  <2>1. ASSUME cl.sub = srv.id, cl.sub # 0 PROVE Waits(cl, Yet', G, pub.num, lost', srv.ord)
    <3> DEFINE c == cl
               n == pub.num
               k == srv.ord
               Q == Yet
               R == Yet'
               ls == lost
               ms == lost'
    <3>1. /\ ClientOK(c) /\ ls \subseteq ms /\ R \subseteq Q /\ Waits(c, Q, G, n, ls, k)
          /\ SentIn(G, n, k)
      BY <2>1, <1>1, <1>2, <1>3, <1>9 DEF Expects, Sent
    <3>2. \A T \in Q : T \in R \/ /\ \A g \in R : T.ord <= g.ord
                                  /\ Awaited(T, c.view, n, ms) => T.ord = c.dec.ord
      BY <2>1, <1>1, <1>10
    <3> HIDE DEF c, n, k, Q, R, ls, ms
    <3>3. Waits(c, R, G, n, ms, k)
      BY <3>1, <3>2, LostWaits
    <3> QED BY <3>3 DEF c, n, k, R, ms
  <2>2. ASSUME cl.sub # srv.id, NEW m \in UnderWay', m.id = cl.gen,
               NEW T \in G, Awaited(T, cl.view, pub.num, lost')
        PROVE  T \in Yet' \cup FramesOf(cl.staged)
    <3>1. Awaited(T, cl.view, pub.num, lost)
      BY <2>2, <1>9 DEF Awaited
    <3>2. T \in Yet \cup FramesOf(cl.staged)
      BY <2>2, <3>1, <1>1, <1>3 DEF Expects
    <3>3. CASE T \in FramesOf(cl.staged) \/ T \in Yet'
      BY <3>3
    <3>4. CASE T \notin Yet' /\ T \in Yet
      <4>1. T = f /\ f.sub = srv.id
        BY <3>4, <1>1
      <4> QED BY <4>1, <3>4, <2>2, <1>10
    <3> QED BY <3>2, <3>3, <3>4
  <2> QED BY <2>1, <2>2, <1>1 DEF Expects
<1> QED BY <1>1, <1>2, <1>3, <1>4, <1>5, <1>6, <1>7, <1>11, ClientGoes

\* A wire is lost or damaged.
LEMMA DamageGoes ==
    ASSUME Sound, NEW H, Truth(H), NEW G, Delivers(G), Sound', NEW K, Truth(K)', ~mixed',
           NEW how \in {"lost", "garbled", "unreadable"}, Damage(how)
    PROVE  Delivers(G)'
<1> DEFINE h == Head(down)
           w == [h EXCEPT !.bad = how]
<1>1. down # <<>> /\ down' = Tail(down) /\ ~IsReply(h) /\ UNCHANGED <<serverVars, arrived>>
  BY DEF Damage
<1>2. h \in WireSet
  <2>1. down \in Seq(Messages)
    BY DEF Sound, TypeOK, ChannelOK, Messages
  <2>2. h \in Messages
    BY <2>1, <1>1
  <2> QED BY <2>2, <1>1, ReplyOrWire DEF Messages
<1>3. WireComes(h)
  BY <1>1, <1>2 DEF WireComes
<1>4. CASE how = "lost"
  <2>1. /\ cl' = cl
        /\ \/ Traced(h.frame, down') /\ lost' = lost
           \/ lost' = lost \cup {<<h.frame.sub, h.frame.ord>>} /\ ~Renumbers(h.frame, cl.view)
    BY <1>1, <1>4 DEF Damage, historyVars
  <2> HIDE DEF h
  <2> QED BY <2>1, <1>3, LostGoes
<1>5. CASE how # "lost"
  <2>1. cl' = Accept(cl, w) /\ lost' = lost
    BY <1>5 DEF Damage, historyVars
  <2>2. w \in WireSet /\ w.frame = h.frame
    <3> HIDE DEF h
    <3> QED BY <1>2, <1>5 DEF WireSet
  <2>3. WireComes(w)
    BY <1>3, <2>2 DEF WireComes
  <2> HIDE DEF h, w
  <2> QED BY <2>1, <2>2, <2>3, WireGoes
<1> QED BY <1>4, <1>5

\* A reply or a wire comes.
LEMMA DeliverGoes ==
    ASSUME Sound, NEW H, Truth(H), NEW G, Delivers(G), Sound', NEW K, Truth(K)', Deliver
    PROVE  Delivers(G)'
<1>1. CASE IsReply(Head(down))
  BY <1>1, ReplyGoes
<1>2. CASE ~IsReply(Head(down))
  <2> DEFINE h == Head(down)
  <2>1. /\ down # <<>> /\ down' = Tail(down) /\ UNCHANGED <<serverVars, arrived, lost>>
        /\ cl' = Accept(cl, h)
    BY <1>2 DEF Deliver, historyVars
  <2>2. h \in WireSet
    <3>1. down \in Seq(Messages)
      BY DEF Sound, TypeOK, ChannelOK, Messages
    <3>2. h \in Messages
      BY <3>1, <2>1
    <3> QED BY <3>2, <1>2, ReplyOrWire DEF Messages
  <2>3. WireComes(h)
    BY <2>1, <2>2 DEF WireComes
  <2> HIDE DEF h
  <2> QED BY <2>1, <2>2, <2>3, WireGoes
<1> QED BY <1>1, <1>2

\* The continuation of a reply runs.
LEMMA ContinueGoes ==
    ASSUME Sound, NEW H, Truth(H), NEW G, Delivers(G), Sound', NEW K, Truth(K)',
           NEW m \in arrived, Continue(m)
    PROVE  Delivers(G)'
BY ActivateGoes, GiveUpGoes, ResyncedGoes

-----------------------------------------------------------------------------
(* The publisher.                                                           *)

\* From c to d only the client's requests may change.
Alike(c, d) ==
    /\ d.view = c.view /\ d.dec = c.dec /\ d.flight = c.flight /\ d.status = c.status
    /\ d.sub = c.sub /\ d.gen = c.gen /\ d.pending = c.pending /\ d.staged = c.staged

\* The client has the same place with a subscription of the same number.
LEMMA SeatsOfServer ==
    ASSUME NEW c, NEW s, NEW t, t.id = s.id, t.live = s.live, NEW U, NEW V, V \subseteq U,
           Seats(c, s, U)
    PROVE  Seats(c, t, V)
BY DEF Seats

\* The last subscription is not given up, and a request that asks for none takes no place.
LEMMA SeatsAfterTaking ==
    ASSUME NEW c, NEW d, ClientOK(c), c.up # <<>>, d.up = Tail(c.up), Alike(c, d),
           Head(c.up).op # "subscribe", NEW s, NEW U, Seats(c, s, U)
    PROVE  /\ Seats(d, s, U)
           /\ Head(c.up).op = "unsubscribe" => Head(c.up).sub # s.id
<1> DEFINE u == c.up
           t == Tail(u)
<1>1. u \in Seq(Requests) /\ u # <<>>
  BY DEF ClientOK, Clients
<1>2. /\ Len(u) \in Nat /\ Len(u) # 0 /\ Head(u) = u[1] /\ Len(t) = Len(u) - 1
      /\ \A i \in 1..Len(t) : t[i] = u[i + 1]
  BY <1>1, HeadTailProperties
<1> HIDE DEF t
<1>3. \A i \in 1..Len(t) : i + 1 \in 1..Len(u) /\ t[i] = u[i + 1]
  BY <1>2
<1>4. \A i \in 1..Len(u) : u[i].op = "subscribe" => i - 1 \in 1..Len(t) /\ t[i - 1] = u[i]
  <2> SUFFICES ASSUME NEW i \in 1..Len(u), u[i].op = "subscribe"
               PROVE  i - 1 \in 1..Len(t) /\ t[i - 1] = u[i]
    OBVIOUS
  <2>1. i # 1
    BY <1>2
  <2>2. i - 1 \in 1..Len(t) /\ (i - 1) + 1 = i
    BY <2>1, <1>2
  <2> QED BY <2>2, <1>2
<1>5. d.up = t
  BY DEF t
<1> HIDE DEF u
<1>6. c.up = u
  BY DEF u
<1>7. Asking(d) <=> Asking(c)
  <2>1. ASSUME Asking(d) PROVE Asking(c)
    BY <2>1, <1>3, <1>5, <1>6 DEF Asking
  <2>2. ASSUME Asking(c) PROVE Asking(d)
    BY <2>2, <1>4, <1>5, <1>6 DEF Asking
  <2> QED BY <2>1, <2>2
<1>8. ASSUME NEW i \in 1..Len(t), t[i].op = "subscribe"
      PROVE  IF t[i].id = d.gen
             THEN d.gen \in d.pending /\ \A j \in 1..Len(t) : j > i => t[j].op # "subscribe"
             ELSE \E j \in 1..Len(t) : j > i /\ t[j].op = "subscribe"
  <2>1. i + 1 \in 1..Len(u) /\ u[i + 1] = t[i]
    BY <1>3
  <2>2. CASE t[i].id = d.gen
    <3>1. c.gen \in c.pending /\ \A j \in 1..Len(u) : j > i + 1 => u[j].op # "subscribe"
      BY <2>1, <2>2, <1>6, <1>8 DEF Seats, Alike
    <3>2. ASSUME NEW j \in 1..Len(t), j > i PROVE t[j].op # "subscribe"
      <4>1. j + 1 \in 1..Len(u) /\ j + 1 > i + 1 /\ t[j] = u[j + 1]
        BY <3>2, <1>3
      <4> QED BY <4>1, <3>1
    <3> QED BY <2>2, <3>1, <3>2 DEF Alike
  <2>3. CASE t[i].id # d.gen
    <3>1. PICK j \in 1..Len(u) : j > i + 1 /\ u[j].op = "subscribe"
      BY <2>1, <2>3, <1>6, <1>8 DEF Seats, Alike
    <3>2. j - 1 \in 1..Len(t) /\ t[j - 1].op = "subscribe" /\ j - 1 > i
      BY <3>1, <1>4
    <3> QED BY <2>3, <3>2
  <2> QED BY <2>2, <2>3
<1>9. ASSUME NEW i \in 1..Len(t), t[i].op = "unsubscribe"
      PROVE  /\ t[i].sub <= s.id
             /\ t[i].sub = s.id => \E j \in 1..Len(t) : j < i /\ t[j].op = "subscribe"
  <2>1. i + 1 \in 1..Len(u) /\ u[i + 1] = t[i]
    BY <1>3
  <2>2. /\ u[i + 1].sub <= s.id
        /\ u[i + 1].sub = s.id => \E j \in 1..Len(u) : j < i + 1 /\ u[j].op = "subscribe"
    BY <2>1, <1>6, <1>9 DEF Seats
  <2>3. ASSUME t[i].sub = s.id PROVE \E j \in 1..Len(t) : j < i /\ t[j].op = "subscribe"
    <3>1. PICK j \in 1..Len(u) : j < i + 1 /\ u[j].op = "subscribe"
      BY <2>1, <2>2, <2>3
    <3>2. j - 1 \in 1..Len(t) /\ t[j - 1].op = "subscribe" /\ j - 1 < i
      BY <3>1, <1>4
    <3> QED BY <3>2
  <2> QED BY <2>1, <2>2, <2>3
<1>10. ASSUME Head(u).op = "unsubscribe" PROVE Head(u).sub # s.id
  <2> SUFFICES ASSUME u[1].sub = s.id PROVE FALSE
    BY <1>2
  <2>1. 1 \in 1..Len(u) /\ u[1].op = "unsubscribe"
    BY <1>2, <1>10
  <2>2. \E j \in 1..Len(u) : j < 1 /\ u[j].op = "subscribe"
    BY <2>1, <1>6 DEF Seats
  <2> QED BY <2>2
<1>11. Seats(d, s, U)
  <2>1. d.status = "live" => s.live /\ d.sub = s.id /\ ~Asking(d)
    BY <1>7 DEF Seats, Alike
  <2>2. \A m \in U : IF m.id = d.gen
                     THEN s.live /\ m.sub = s.id /\ ~Asking(d) /\ d.gen \in d.pending
                     ELSE m.sub < s.id \/ Asking(d)
    BY <1>7 DEF Seats, Alike
  <2> QED BY <2>1, <2>2, <1>5, <1>8, <1>9 DEF Seats
<1> QED BY <1>6, <1>10, <1>11

\* What is based stays so when the first request is taken.
LEMMA BasedAfterTaking ==
    ASSUME NEW c, NEW d, ClientOK(c), c.up # <<>>, d.up = Tail(c.up), d.view = c.view, Based(c)
    PROVE  Based(d) /\ (Head(c.up).base # None => Past(Head(c.up).base, c.view))
<1> DEFINE u == c.up
           t == Tail(u)
<1>1. u \in Seq(Requests) /\ u # <<>>
  BY DEF ClientOK, Clients
<1>2. /\ Len(u) \in Nat /\ Len(u) # 0 /\ Head(u) = u[1] /\ Len(t) = Len(u) - 1
      /\ \A i \in 1..Len(t) : t[i] = u[i + 1]
  BY <1>1, HeadTailProperties
<1> HIDE DEF t
<1>3. \A i \in 1..Len(t) : i + 1 \in 1..Len(u) /\ t[i] = u[i + 1]
  BY <1>2
<1>4. d.up = t
  BY DEF t
<1>5. Based(d)
  BY <1>3, <1>4 DEF Based
<1>6. 1 \in 1..Len(u)
  BY <1>2
<1> QED BY <1>2, <1>5, <1>6 DEF Based

\* After a rehydration nothing of the new numbering has been sent.
LEMMA RenumberedWaits ==
    ASSUME NEW c, NEW G, NEW n \in Nat, NEW k, SentIn(G, n, k), NEW o \in Nat, o > n, NEW R, NEW ls,
           Waits(c, R, G, n, ls, k)
    PROVE  Waits(c, R, G, o, ls, k)
<1>1. \A T \in G : ~Awaited(T, c.view, o, ls)
  BY DEF SentIn, Frames, Awaited
<1>2. Known(c, G, k) /\ Beyond(c, R) /\ (AtRest(c) => ~c.dec.closed)
  BY DEF Waits, Rest
<1> QED BY <1>1, <1>2 DEF Waits, Rest

\* The server goes on and sends nothing.
LEMMA ServerGoes ==
    ASSUME Sound, NEW G, Delivers(G), Sound', Alike(cl, cl'), lost' = lost,
           FramesOf(down') \cup FramesOf(outbox') = FramesOf(down) \cup FramesOf(outbox),
           UnderWay' \subseteq UnderWay, srv'.id = srv.id, srv'.ord = srv.ord,
           (pub'.num = pub.num /\ Top(pub) <= Top(pub')) \/ pub'.num > pub.num,
           Ordered', Based(cl)', Seats(cl', srv', UnderWay'), Sends(G)'
    PROVE  Delivers(G)'
<1>1. /\ Sent(G) /\ Ordered /\ DeltasKnown(G, cl.view, pub.num) /\ Expects(G)
  BY DEF Delivers
<1>2. /\ pub.num \in Nat /\ pub'.num \in Nat /\ Top(pub) \in Nat /\ Top(pub') \in Nat
      /\ pub'.num >= pub.num
  <2>1. pub.num \in Nat /\ Top(pub) \in Nat
    BY TopIsCurrent DEF Sound, Projections
  <2>2. pub' \in Projections /\ pub'.num \in Nat
    BY DEF Sound, TypeOK, PublisherOK, Projections
  <2>3. pub'.start \in Nat /\ pub'.log \in Seq(0..MaxEvents)
    BY <2>2 DEF Projections
  <2>4. Top(pub') \in Nat
    BY <2>3 DEF Top
  <2> QED BY <2>1, <2>2, <2>4
<1>3. cl'.view = cl.view /\ cl'.staged = cl.staged /\ cl'.gen = cl.gen /\ cl'.sub = cl.sub
      /\ cl'.dec = cl.dec /\ cl'.flight = cl.flight /\ cl'.status = cl.status
  BY DEF Alike
<1>4. OnTheWay' = OnTheWay /\ Yet' = Yet
  BY <1>3 DEF OnTheWay, Yet
<1>5. SentIn(G, pub.num, srv.ord) /\ \A T \in G : T \in Frames /\ T.num <= pub.num
  BY <1>1 DEF Sent, SentIn
<1>6. Sent(G)'
  <2>1. SentIn(G, pub'.num, srv.ord)
    <3>1. \A T \in G : T.num <= pub'.num
      BY <1>2, <1>5 DEF Frames
    <3> QED BY <1>5, <3>1 DEF SentIn
  <2>2. ASSUME NEW T \in G PROVE T.sub = srv.id /\ (T.num = pub'.num => T.to <= Top(pub'))
    <3>1. T.sub = srv.id /\ (T.num = pub.num => T.to <= Top(pub)) /\ T.num <= pub.num
          /\ T.num \in Nat /\ T.to \in Nat
      BY <1>1, <1>5 DEF Sent, Frames
    <3> QED BY <3>1, <1>2
  <2>3. /\ srv.ord # 0 => \E T \in G : T.ord = srv.ord
        /\ \A f \in OnTheWay : f.sub = srv.id => f \in G
    BY <1>1 DEF Sent
  <2> QED BY <2>1, <2>2, <2>3, <1>4 DEF Sent
<1>7. DeltasKnown(G, cl'.view, pub'.num)
  <2>1. CASE pub'.num = pub.num
    BY <2>1, <1>1, <1>3
  <2>2. CASE pub'.num > pub.num
    <3>1. \A T \in G : T.num # pub'.num
      BY <2>2, <1>2, <1>5 DEF Frames
    <3> QED BY <3>1 DEF DeltasKnown
  <2> QED BY <1>2, <2>1, <2>2
<1>8. Expects(G)'
  <2>1. ASSUME cl.sub = srv.id, cl.sub # 0 PROVE Waits(cl', Yet, G, pub'.num, lost, srv.ord)
    <3> DEFINE c == cl
               d == cl'
               n == pub.num
               o == pub'.num
               k == srv.ord
               R == Yet
    <3>1. /\ Waits(c, R, G, n, lost, k) /\ SentIn(G, n, k) /\ n \in Nat /\ o \in Nat
          /\ o = n \/ o > n
      BY <2>1, <1>1, <1>2, <1>5 DEF Expects
    <3>2. d.view = c.view /\ d.dec = c.dec /\ d.flight = c.flight /\ d.status = c.status
      BY <1>3
    <3> HIDE DEF c, d, n, o, k, R
    <3>3. Waits(c, R, G, o, lost, k)
      BY <3>1, RenumberedWaits
    <3>4. Waits(d, R, G, o, lost, k)
      BY <3>2, <3>3, WaitsSame
    <3> QED BY <3>4 DEF d, o, k, R
  <2>2. ASSUME cl.sub # srv.id, NEW m \in UnderWay', m.id = cl.gen,
               NEW T \in G, Awaited(T, cl.view, pub'.num, lost)
        PROVE  T \in Yet \cup FramesOf(cl.staged)
    <3>1. T.num = pub'.num /\ T.num <= pub.num /\ T.num \in Nat
      BY <2>2, <1>5 DEF Awaited, Frames
    <3>2. pub'.num = pub.num
      BY <3>1, <1>2
    <3> QED BY <3>2, <2>2, <1>1 DEF Expects
  <2> QED BY <2>1, <2>2, <1>3, <1>4 DEF Expects
<1> QED BY <1>6, <1>7, <1>8 DEF Delivers

\* One more frame is awaited by who waits for those before it.
LEMMA AnotherWaits ==
    ASSUME NEW c, ClientOK(c), NEW G, NEW n, NEW k \in Nat, SentIn(G, n, k), NEW R, R \subseteq G,
           NEW ls, Waits(c, R, G, n, ls, k), NEW f, f.ord = k + 1
    PROVE  Waits(c, R \cup {f}, G \cup {f}, n, ls, k + 1)
<1>1. c.dec.ord \in Nat /\ c.dec.settled \in Nat /\ \A T \in G : T.ord \in Nat /\ T.ord <= k
  BY DEF ClientOK, Clients, Decoders, SentIn, Frames
<1>2. Known(c, G, k) /\ Beyond(c, R) /\ Rest(c, R, G, n, ls)
      /\ \A T \in G : Awaited(T, c.view, n, ls) => Tracked(T, R)
  BY DEF Waits
<1>3. Known(c, G \cup {f}, k + 1)
  BY <1>1, <1>2 DEF Known
<1>4. Beyond(c, R \cup {f})
  <2>1. c.dec.ord <= k
    BY <1>1, <1>2 DEF Known
  <2> QED BY <2>1, <1>1, <1>2 DEF Beyond
<1>5. Rest(c, R \cup {f}, G \cup {f}, n, ls)
  <2>1. f.ord > c.dec.settled
    BY <1>1, <1>2 DEF Known
  <2> QED BY <2>1, <1>2 DEF Rest, Shall
<1>6. \A T \in G \cup {f} : Awaited(T, c.view, n, ls) => Tracked(T, R \cup {f})
  BY <1>1, <1>2 DEF Tracked
<1> QED BY <1>3, <1>4, <1>5, <1>6 DEF Waits

\* One more frame of the subscription goes on from those before it.
LEMMA AnotherSent ==
    ASSUME NEW G, NEW n \in Nat, NEW k \in Nat, SentIn(G, n, k), NEW f \in Frames, f.ord = k + 1,
           f.num = n, f.use = "initial" => f.ord = 1, \A T \in G : T.num = n => T.to <= f.to
    PROVE  SentIn(G \cup {f}, n, k + 1)
<1>1. \A T \in G : /\ T \in Frames /\ T.ord # 0 /\ T.ord \in Nat /\ T.ord <= k /\ T.num <= n
                   /\ T.num \in Nat /\ (T.use = "initial" => T.ord = 1)
  BY DEF SentIn, Frames
<1>2. \A T \in G \cup {f} : /\ T \in Frames /\ T.ord # 0 /\ T.ord <= k + 1 /\ T.num <= n
                            /\ T.use = "initial" => T.ord = 1
  BY <1>1
<1>3. \A T, U \in G \cup {f} : T.ord = U.ord => T = U
  BY <1>1 DEF SentIn
<1>4. ASSUME NEW T \in G \cup {f}, NEW U \in G \cup {f}, T.ord < U.ord PROVE Behind(T, U)
  <2>1. CASE U = f
    <3>1. T \in G
      BY <2>1, <1>4
    <3>2. T.num <= n /\ T.num \in Nat /\ (T.num = n => T.to <= f.to)
      BY <3>1, <1>1
    <3> QED BY <2>1, <3>2 DEF Behind
  <2>2. CASE U \in G
    <3>1. T \in G
      BY <2>2, <1>1, <1>4
    <3> QED BY <2>2, <3>1, <1>4 DEF SentIn
  <2> QED BY <2>1, <2>2
<1> QED BY <1>2, <1>3, <1>4 DEF SentIn

\* The server sends the next frame of the subscription.
LEMMA FrameGoes ==
    ASSUME Sound, NEW G, Delivers(G), Sound', Alike(cl, cl'), lost' = lost, pub' = pub,
           NEW f, NextFrame(f, srv), f.use # "initial", srv'.id = srv.id, srv'.ord = f.ord,
           FramesOf(down') \cup FramesOf(outbox') = FramesOf(down) \cup FramesOf(outbox) \cup {f},
           UnderWay' \subseteq UnderWay, Ordered', Based(cl)', Seats(cl', srv', UnderWay'),
           f.kind = "deltas" => IF f.use = "online" THEN NumKnown(G, cl.view, pub.num, f.ord)
                                ELSE cl.view # None /\ cl.view.num = pub.num,
           Sends(G \cup {f})'
    PROVE  Delivers(G \cup {f})'
<1>1. Sent(G) /\ Ordered /\ DeltasKnown(G, cl.view, pub.num) /\ Expects(G) /\ ClientOK(cl)
  BY DEF Delivers, Sound, TypeOK
<1>2. /\ pub.num \in Nat /\ srv.ord \in Nat /\ Top(pub) \in Nat
      /\ f \in Frames /\ f.sub = srv.id /\ f.ord = srv.ord + 1 /\ f.num = pub.num /\ f.to = Top(pub)
  BY TopIsCurrent DEF Sound, Projections, Subscriptions, NextFrame
<1>3. cl'.view = cl.view /\ cl'.staged = cl.staged /\ cl'.gen = cl.gen /\ cl'.sub = cl.sub
      /\ cl'.dec = cl.dec /\ cl'.flight = cl.flight /\ cl'.status = cl.status
  BY DEF Alike
<1>4. OnTheWay' = OnTheWay \cup {f} /\ Yet' = Yet \cup {f}
  BY <1>2, <1>3 DEF OnTheWay, Yet
<1>5. /\ SentIn(G, pub.num, srv.ord)
      /\ \A T \in G : T \in Frames /\ T.sub = srv.id /\ (T.num = pub.num => T.to <= Top(pub))
      /\ \A g \in OnTheWay : g.sub = srv.id => g \in G
  BY <1>1 DEF Sent, SentIn
<1>6. SentIn(G \cup {f}, pub.num, srv.ord + 1)
  <2> DEFINE n == pub.num
             k == srv.ord
  <2>1. /\ n \in Nat /\ k \in Nat /\ SentIn(G, n, k) /\ f \in Frames /\ f.ord = k + 1 /\ f.num = n
        /\ f.use # "initial" /\ \A T \in G : T.num = n => T.to <= f.to
    BY <1>2, <1>5
  <2> HIDE DEF n, k
  <2>2. SentIn(G \cup {f}, n, k + 1)
    BY <2>1, AnotherSent
  <2> QED BY <2>2 DEF n, k
<1>7. Sent(G \cup {f})'
  <2>1. \A T \in G \cup {f} : T.sub = srv.id /\ (T.num = pub.num => T.to <= Top(pub))
    BY <1>2, <1>5
  <2>2. \A g \in OnTheWay' : g.sub = srv.id => g \in G \cup {f}
    BY <1>4, <1>5
  <2>3. \E T \in G \cup {f} : T.ord = srv'.ord
    OBVIOUS
  <2> QED BY <1>2, <1>6, <2>1, <2>2, <2>3 DEF Sent
<1>8. DeltasKnown(G \cup {f}, cl'.view, pub'.num)
  <2> DEFINE n == pub.num
             v == cl.view
  <2>1. \A T \in G : T.ord \in Nat
    BY <1>5 DEF Frames
  <2>2. \A k \in Nat : NumKnown(G, v, n, k) => NumKnown(G \cup {f}, v, n, k)
    BY DEF NumKnown
  <2>3. f.ord \in Nat
    BY <1>2
  <2>4. DeltasKnown(G, v, n)
    BY <1>1
  <2>5. f.kind = "deltas" => IF f.use = "online" THEN NumKnown(G, v, n, f.ord)
                             ELSE v # None /\ v.num = n
    OBVIOUS
  <2> HIDE DEF n, v
  <2>6. DeltasKnown(G \cup {f}, v, n)
    BY <2>1, <2>2, <2>3, <2>4, <2>5 DEF DeltasKnown
  <2> QED BY <2>6, <1>3 DEF n, v
<1>9. Expects(G \cup {f})'
  <2>1. ASSUME cl.sub = srv.id, cl.sub # 0
        PROVE  Waits(cl', Yet \cup {f}, G \cup {f}, pub.num, lost, srv.ord + 1)
    <3> DEFINE c == cl
               d == cl'
               n == pub.num
               k == srv.ord
               R == Yet
    <3>1. /\ ClientOK(c) /\ Waits(c, R, G, n, lost, k) /\ SentIn(G, n, k) /\ k \in Nat
          /\ f.ord = k + 1
      BY <2>1, <1>1, <1>2, <1>5 DEF Expects
    <3>2. R \subseteq G
      BY <1>5 DEF Yet, OnTheWay
    <3>3. d.view = c.view /\ d.dec = c.dec /\ d.flight = c.flight /\ d.status = c.status
      BY <1>3
    <3> HIDE DEF c, d, n, k, R
    <3>4. Waits(c, R \cup {f}, G \cup {f}, n, lost, k + 1)
      BY <3>1, <3>2, AnotherWaits
    <3> DEFINE S == R \cup {f}
               E == G \cup {f}
               j == k + 1
    <3>5. Waits(c, S, E, n, lost, j)
      BY <3>4
    <3> HIDE DEF S, E, j
    <3>6. Waits(d, S, E, n, lost, j)
      BY <3>3, <3>5, WaitsSame
    <3> QED BY <3>6 DEF d, n, k, R, S, E, j
  <2>2. ASSUME cl.sub # srv.id, NEW m \in UnderWay', m.id = cl.gen,
               NEW T \in G \cup {f}, Awaited(T, cl.view, pub.num, lost)
        PROVE  T \in Yet \cup {f} \cup FramesOf(cl.staged)
    <3>1. CASE T = f
      BY <3>1
    <3>2. CASE T \in G
      BY <3>2, <2>2, <1>1 DEF Expects
    <3> QED BY <3>1, <3>2
  <2> QED BY <2>1, <2>2, <1>2, <1>3, <1>4 DEF Expects
<1> QED BY <1>7, <1>8, <1>9 DEF Delivers

\* What is under way in two channels, exactly.
LEMMA FramesOfBoth ==
    ASSUME NEW s \in Seq(Messages), NEW t \in Seq(Messages)
    PROVE  FramesOf(s \o t) = FramesOf(s) \cup FramesOf(t)
<1>1. /\ Len(s \o t) = Len(s) + Len(t) /\ Len(s) \in Nat /\ Len(t) \in Nat
      /\ \A i \in 1..Len(s) + Len(t) : (s \o t)[i] = IF i <= Len(s) THEN s[i] ELSE t[i - Len(s)]
  BY ConcatProperties
<1> DEFINE w == s \o t
<1>2. \A i \in 1..Len(s) : i \in 1..Len(w) /\ w[i] = s[i]
  BY <1>1
<1>3. \A i \in 1..Len(t) : Len(s) + i \in 1..Len(w) /\ w[Len(s) + i] = t[i]
  BY <1>1
<1>4. FramesOf(w) \subseteq FramesOf(s) \cup FramesOf(t)
  BY FramesOfConcat
<1> HIDE DEF w
<1>5. FramesOf(s) \subseteq FramesOf(w)
  BY <1>2 DEF FramesOf
<1>6. FramesOf(t) \subseteq FramesOf(w)
  BY <1>3 DEF FramesOf
<1> QED BY <1>4, <1>5, <1>6 DEF w

\* A flush sends the next frame,
LEMMA FlushSends ==
    ASSUME Sound, NEW H, Truth(H), NEW G, Delivers(G), Sound',
           UNCHANGED <<pub, outbox, arrived, cl, lost>>, ~Overtaken, srv.live, ~srv.held,
           NEW f, NextFrame(f, srv), f.use = "online", f.kind = "deltas" => ~srv.over,
           down' = down \o Wires(f), FramesOf(down') = FramesOf(down) \cup {f},
           srv' = [srv EXCEPT !.buf = <<>>, !.over = FALSE, !.sent = f.to, !.ord = f.ord]
    PROVE  Delivers(G \cup {f})'
<1>1. /\ Sent(G) /\ Ordered /\ Sends(G) /\ Based(cl) /\ Seats(cl, srv, UnderWay)
  BY DEF Delivers
<1>2. /\ srv.ord \in Nat /\ f \in Frames /\ f.sub = srv.id /\ f.ord = srv.ord + 1 /\ f.ord \in Nat
      /\ f.num = pub.num /\ f.to = CurrentSeq /\ srv \in Subscriptions
      /\ f.kind \in {"snapshot", "deltas"}
  BY TopIsCurrent DEF Sound, Subscriptions, NextFrame, Frames
<1>3. /\ srv'.id = srv.id /\ srv'.ord = f.ord /\ srv'.live = srv.live /\ ~srv'.over
      /\ srv'.sent = f.to
  BY <1>2 DEF Subscriptions
<1>4. /\ down \in Seq(Messages) /\ Wires(f) \in Seq(Messages) /\ outbox \in Seq(Messages)
      /\ FramesOf(Wires(f)) = {f} /\ \A i \in 1..Len(Wires(f)) : Wires(f)[i] \in WireSet
  BY <1>2, WiresOfFrame DEF Sound, TypeOK, ChannelOK, Messages
<1>5. FramesOf(outbox) = {}
  <2>1. Len(outbox) <= 1
    BY <1>4 DEF Overtaken
  <2>2. \A i \in 1..Len(outbox) : outbox[i] \in Replies
    BY <1>4, <2>1 DEF Sound, TypeOK, ChannelOK
  <2> QED BY <2>2, ReplyOrWire DEF FramesOf
<1>6. Ordered'
  <2> DEFINE S == srv.id
             s == down
             t == Wires(f)
             k == f.ord
             u == cl.staged
  <2>1. \A g \in FramesOf(s) \cup FramesOf(u) : g.sub = S => g.ord <= k /\ g.ord \in Nat
    <3>1. \A g \in OnTheWay : g \in Frames /\ (g.sub = srv.id => g.ord <= srv.ord)
      BY DEF Truth, FramesTrue, Newest
    <3> QED BY <3>1, <1>2 DEF OnTheWay, Frames
  <2>2. /\ s \in Seq(Messages) /\ t \in Seq(Messages) /\ Sorted(s, S) /\ Before(u, s, S)
        /\ \A g \in FramesOf(t) : g.ord = k /\ k \in Nat
    BY <1>1, <1>2, <1>4 DEF Ordered
  <2> HIDE DEF S, s, t, k, u
  <2>3. Sorted(s \o t, S) /\ Before(u, s \o t, S)
    BY <2>1, <2>2, LastIsSorted
  <2>4. Sorted(down', srv.id) /\ Before(cl.staged, down', srv.id)
    BY <2>3 DEF S, s, t, u
  <2> QED BY <2>4, <1>1, <1>3, <1>5 DEF Ordered
<1>7. UnderWay' \subseteq UnderWay
  <2> SUFFICES ASSUME NEW m \in UnderWay' PROVE m \in UnderWay
    OBVIOUS
  <2>1. /\ m \in Replies /\ m.op = "subscribe"
        /\ m \in arrived \/ (\E i \in 1..Len(down') : down'[i] = m)
                         \/ (\E i \in 1..Len(outbox) : outbox[i] = m)
    BY DEF UnderWay
  <2>2. ASSUME NEW i \in 1..Len(down'), down'[i] = m PROVE \E j \in 1..Len(down) : down[j] = m
    <3> DEFINE t == Wires(f)
    <3>1. /\ Len(down') = Len(down) + Len(t) /\ Len(down) \in Nat /\ Len(t) \in Nat
          /\ down'[i] = IF i <= Len(down) THEN down[i] ELSE t[i - Len(down)]
      BY <1>4, <2>2, ConcatProperties
    <3>2. CASE i <= Len(down)
      BY <3>1, <3>2, <2>2
    <3>3. CASE ~(i <= Len(down))
      <4>1. i - Len(down) \in 1..Len(t) /\ t[i - Len(down)] = m
        BY <3>1, <3>3, <2>2
      <4>2. m \in WireSet
        BY <4>1, <1>4
      <4> QED BY <4>2, <2>1, ReplyOrWire
    <3> QED BY <3>2, <3>3
  <2> QED BY <2>1, <2>2 DEF UnderWay
<1>8. Seats(cl', srv', UnderWay')
  <2> DEFINE c == cl
             s == srv
             t == srv'
             U == UnderWay
             V == UnderWay'
  <2>1. t.id = s.id /\ t.live = s.live /\ V \subseteq U /\ Seats(c, s, U)
    BY <1>1, <1>3, <1>7
  <2> HIDE DEF c, s, t, U, V
  <2>2. Seats(c, t, V)
    BY <2>1, SeatsOfServer
  <2> QED BY <2>2 DEF c, t, V
<1>9. \A T \in G : T.ord \in Nat /\ T.ord <= srv.ord
  BY <1>1 DEF Sent, SentIn, Frames
<1>10. f.kind = "deltas" => NumKnown(G, cl.view, pub.num, f.ord)
  BY <1>1, <1>2 DEF Sends
<1>11. Sends(G \cup {f})'
  <2>1. CurrentSeq' = CurrentSeq
    BY DEF CurrentSeq
  <2>2. \A L \in G \cup {f} : L.ord = f.ord => L = f
    BY <1>2, <1>9
  <2>3. NumKnown(G \cup {f}, cl.view, pub.num, f.ord + 1)
    <3> DEFINE v == cl.view
               n == pub.num
               k == f.ord
    <3>1. f.ord = k /\ k \in Nat /\ k + 1 \in Nat /\ f.num = n /\ (\A T \in G : T.ord \in Nat)
      BY <1>2, <1>9
    <3>2. f.kind = "deltas" => NumKnown(G, v, n, k)
      BY <1>10
    <3> HIDE DEF v, n, k
    <3>3. NumKnown(G \cup {f}, v, n, k + 1)
      <4>1. CASE f.kind = "deltas"
        BY <3>1, <3>2, <4>1 DEF NumKnown
      <4>2. CASE f.kind = "snapshot"
        BY <3>1, <4>2 DEF NumKnown
      <4> QED BY <4>1, <4>2, <1>2
    <3> QED BY <3>1, <3>3 DEF v, n
  <2>4. f.ord # 0
    BY <1>2
  <2> QED BY <1>2, <1>3, <2>1, <2>2, <2>3, <2>4 DEF Sends
<1>12. Based(cl)'
  BY <1>1
<1>13. Alike(cl, cl') /\ pub' = pub /\ lost' = lost
       /\ FramesOf(down') \cup FramesOf(outbox') = FramesOf(down) \cup FramesOf(outbox) \cup {f}
       /\ f.use # "initial"
  BY DEF Alike
<1>14. f.kind = "deltas" => IF f.use = "online" THEN NumKnown(G, cl.view, pub.num, f.ord)
                            ELSE cl.view # None /\ cl.view.num = pub.num
  BY <1>10
<1> QED BY <1>3, <1>6, <1>7, <1>8, <1>11, <1>12, <1>13, <1>14, FrameGoes

\* or nothing.
LEMMA FlushGoes ==
    ASSUME Sound, NEW H, Truth(H), NEW G, Delivers(G), Sound',
           Flush, UNCHANGED <<pub, outbox, arrived, cl, lost>>, ~Overtaken
    PROVE  \E E : Delivers(E)'
<1>1. TypeOK /\ BufferTrue /\ srv \in Subscriptions /\ Top(pub) = CurrentSeq
      /\ pub \in Projections /\ down \in Seq(Messages)
  BY TopIsCurrent DEF Sound, TypeOK, PublisherOK, ChannelOK, Messages
<1>2. CASE srv.live /\ ~srv.held /\ srv.over
  <2>0. PICK f : f = Snapshot(srv, "online")
    OBVIOUS
  <2>1. NextFrame(f, srv)
    BY <2>0, <1>1, SnapshotIsNext
  <2>2. /\ down' = down \o Wires(f)
        /\ srv' = [srv EXCEPT !.buf = <<>>, !.over = FALSE, !.sent = f.to, !.ord = f.ord]
    BY <2>0, <1>2 DEF Flush
  <2>3. f.use = "online" /\ f.kind = "snapshot"
    BY <2>0 DEF Snapshot, Frame
  <2>4. FramesOf(down') = FramesOf(down) \cup {f}
    <3> DEFINE w == Wires(f)
    <3>1. w \in Seq(Messages) /\ FramesOf(w) = {f} /\ down' = down \o w
      BY <2>1, <2>2, WiresOfFrame DEF NextFrame
    <3> HIDE DEF w
    <3> QED BY <1>1, <3>1, FramesOfBoth
  <2>5. Delivers(G \cup {f})'
    BY <1>2, <2>1, <2>2, <2>3, <2>4, FlushSends
  <2> QED BY <2>5
<1>3. CASE /\ ~(srv.live /\ ~srv.held /\ srv.over)
           /\ srv.live /\ ~srv.held /\ ~(srv.buf = <<>> /\ srv.sent = CurrentSeq)
  <2>0. PICK f : f = Frame(srv, "deltas", "online", srv.sent, srv.buf)
    OBVIOUS
  <2>1. NextFrame(f, srv)
    <3>1. srv.sent \in pub.start..CurrentSeq /\ srv.buf = Since(pub, srv.sent)
      BY <1>1, <1>3 DEF BufferTrue, BufferHolds, Buffers
    <3> DEFINE n == srv.sent
               r == srv.buf
    <3>2. n \in pub.start..CurrentSeq /\ r = Since(pub, n)
      BY <3>1
    <3> HIDE DEF n, r
    <3>3. NextFrame(Frame(srv, "deltas", "online", n, r), srv)
      BY <1>1, <3>2, DeltasAreNext
    <3> QED BY <2>0, <3>3 DEF n, r
  <2>2. /\ down' = down \o Wires(f)
        /\ srv' = [srv EXCEPT !.buf = <<>>, !.over = FALSE, !.sent = f.to, !.ord = f.ord]
    BY <2>0, <1>3 DEF Flush
  <2>3. f.use = "online"
    BY <2>0 DEF Frame
  <2>4. FramesOf(down') = FramesOf(down) \cup {f}
    <3> DEFINE w == Wires(f)
    <3>1. w \in Seq(Messages) /\ FramesOf(w) = {f} /\ down' = down \o w
      BY <2>1, <2>2, WiresOfFrame DEF NextFrame
    <3> HIDE DEF w
    <3> QED BY <1>1, <3>1, FramesOfBoth
  <2>5. Delivers(G \cup {f})'
    BY <1>3, <2>1, <2>2, <2>3, <2>4, FlushSends
  <2> QED BY <2>5
<1>4. CASE /\ ~(srv.live /\ ~srv.held /\ srv.over)
           /\ ~(srv.live /\ ~srv.held /\ ~(srv.buf = <<>> /\ srv.sent = CurrentSeq))
  <2>1. srv' = srv /\ down' = down
    BY <1>4 DEF Flush
  <2>2. Sent(G) /\ Ordered /\ Sends(G) /\ Based(cl) /\ Seats(cl, srv, UnderWay)
    BY DEF Delivers
  <2>3. UnderWay' = UnderWay
    BY <2>1 DEF UnderWay
  <2>4. Sends(G)'
    <3>1. CurrentSeq' = CurrentSeq
      BY DEF CurrentSeq
    <3> QED BY <1>4, <2>1, <2>2, <3>1 DEF Sends
  <2>5. Ordered' /\ Based(cl)' /\ Seats(cl', srv', UnderWay') /\ Alike(cl, cl')
    BY <2>1, <2>2, <2>3 DEF Ordered, Alike
  <2>6. pub'.num = pub.num /\ Top(pub) <= Top(pub')
    BY <1>1, TopIsCurrent
  <2>7. Delivers(G)'
    BY <2>1, <2>3, <2>4, <2>5, <2>6, ServerGoes
  <2> QED BY <2>7
<1> QED BY <1>2, <1>3, <1>4

\* The timer runs out,
LEMMA FlushTimerGoes ==
    ASSUME Sound, NEW H, Truth(H), NEW G, Delivers(G), Sound', FlushTimer, ~mixed'
    PROVE  \E E : Delivers(E)'
<1>1. Flush /\ UNCHANGED <<pub, outbox, arrived, cl, lost>> /\ ~Overtaken
  BY DEF FlushTimer
<1> QED BY <1>1, FlushGoes

\* or the connection drains.
LEMMA DrainedGoes ==
    ASSUME Sound, NEW H, Truth(H), NEW G, Delivers(G), Sound', Drained
    PROVE  \E E : Delivers(E)'
<1>1. Flush /\ UNCHANGED <<pub, outbox, arrived, cl, lost>> /\ Len(outbox) = 0
  BY DEF Drained, historyVars
<1>2. ~Overtaken
  BY <1>1 DEF Overtaken
<1> QED BY <1>1, <1>2, FlushGoes

\* Only the publisher goes on.
LEMMA PublisherGoes ==
    ASSUME Sound, NEW G, Delivers(G), Sound', UNCHANGED <<outbox, down, arrived, cl, lost>>,
           srv'.id = srv.id, srv'.ord = srv.ord, srv'.live = srv.live,
           (pub'.num = pub.num /\ Top(pub) <= Top(pub')) \/ pub'.num > pub.num,
           Sends(G)'
    PROVE  Delivers(G)'
<1>1. Ordered /\ Based(cl) /\ Seats(cl, srv, UnderWay)
  BY DEF Delivers
<1>2. UnderWay' = UnderWay
  BY DEF UnderWay
<1>3. Ordered' /\ Based(cl)' /\ Alike(cl, cl')
  BY <1>1 DEF Ordered, Alike
<1>4. Seats(cl', srv', UnderWay')
  <2> DEFINE c == cl
             s == srv
             t == srv'
             U == UnderWay
  <2>1. t.id = s.id /\ t.live = s.live /\ Seats(c, s, U)
    BY <1>1
  <2> HIDE DEF c, s, t, U
  <2>2. Seats(c, t, U)
    BY <2>1, SeatsOfServer
  <2>3. cl' = cl
    OBVIOUS
  <2> QED BY <1>2, <2>2, <2>3 DEF c, t, U
<1> QED BY <1>2, <1>3, <1>4, ServerGoes

\* The connection saturates, and has to drain.
LEMMA SaturatedGoes ==
    ASSUME Sound, NEW G, Delivers(G), Sound', Saturated
    PROVE  Delivers(G)'
<1>1. UNCHANGED <<pub, srv, outbox, down, arrived, cl, lost>> /\ paused'
  BY DEF Saturated, historyVars
<1>2. Sends(G)
  BY DEF Delivers
<1>3. Sends(G)'
  <2>1. CurrentSeq' = CurrentSeq
    BY <1>1 DEF CurrentSeq
  <2> QED BY <1>1, <1>2, <2>1 DEF Sends
<1>4. pub'.num = pub.num /\ Top(pub) <= Top(pub')
  BY <1>1, TopIsCurrent DEF Sound
<1> QED BY <1>1, <1>3, <1>4, PublisherGoes

\* An event arms the timer.
LEMMA IngestGoes ==
    ASSUME Sound, NEW G, Delivers(G), Sound', NEW empty \in BOOLEAN, Ingest(empty)
    PROVE  Delivers(G)'
<1> DEFINE e == IF empty THEN 0 ELSE events'
           r == Rows(<<e>>)
<1>1. TypeOK /\ srv \in Subscriptions /\ Sends(G)
  BY TopIsCurrent DEF Sound, Delivers
<1>2. events' \in 1..MaxEvents /\ e \in 0..MaxEvents
  BY <1>1, TopicDeliveryAssumption DEF TypeOK, Ingest
<1>3. pub' = Logged(e) /\ srv' = Buffered(srv, r) /\ timer' = (timer \/ (srv.live /\ ~paused))
      /\ UNCHANGED <<paused, outbox, down, arrived, cl, lost>>
  BY DEF Ingest, historyVars
<1>4. <<e>> \in Seq(0..MaxEvents)
  BY <1>2
<1> HIDE DEF e
<1>5. pub'.num = pub.num /\ CurrentSeq' = CurrentSeq + 1
  BY <1>1, <1>2, <1>3, LoggedIsTrue
<1>6. r \in Seq(1..MaxEvents)
  BY <1>4, RowsAreRows
<1> HIDE DEF r
<1>7. /\ srv'.id = srv.id /\ srv'.sent = srv.sent /\ srv'.ord = srv.ord /\ srv'.held = srv.held
      /\ srv'.live = srv.live
      /\ (srv'.live /\ ~srv'.over => ~srv.over)
  <2>1. Len(srv.buf) <= MaxOps
    BY <1>1 DEF TypeOK, PublisherOK
  <2> QED BY <1>1, <1>3, <1>6, <2>1, BufferedIsTrue
<1>8. Top(pub) <= Top(pub')
  <2>1. Top(pub) = CurrentSeq /\ CurrentSeq \in Nat
    BY <1>1, TopIsCurrent
  <2>2. Top(pub') = CurrentSeq'
    BY DEF Top, CurrentSeq
  <2> QED BY <1>5, <2>1, <2>2
<1>9. Sends(G)'
  <2>1. ~(srv'.live /\ ~timer' /\ ~paused')
    BY <1>3, <1>7
  <2> QED BY <1>1, <1>3, <1>5, <1>7, <2>1 DEF Sends
<1> QED BY <1>3, <1>5, <1>7, <1>8, <1>9, PublisherGoes

\* A rehydration leaves everything to a snapshot.
LEMMA RehydrateGoes ==
    ASSUME Sound, NEW G, Delivers(G), Sound', NEW n \in 1..CurrentSeq, Rehydrate(n)
    PROVE  Delivers(G)'
<1>1. srv \in Subscriptions /\ pub.num \in Nat
  BY TopIsCurrent DEF Sound, Projections
<1>2. pub'.num = pub.num + 1 /\ timer' = (srv.live /\ ~paused)
      /\ UNCHANGED <<paused, outbox, down, arrived, cl, lost>>
  BY DEF Rehydrate, historyVars
<1> DEFINE b == <<>>
           s == [srv EXCEPT !.buf = b, !.over = TRUE, !.sent = 0, !.held = FALSE]
<1>3. s.id = srv.id /\ s.ord = srv.ord /\ s.live = srv.live /\ s.over = TRUE
  BY <1>1 DEF Subscriptions
<1>4. srv' = IF srv.live THEN s ELSE srv
  BY DEF Rehydrate
<1> HIDE DEF s
<1>5. /\ srv'.id = srv.id /\ srv'.ord = srv.ord /\ srv'.live = srv.live
      /\ srv'.live => srv'.over
  BY <1>3, <1>4
<1>6. Sends(G)'
  <2>1. ~(srv'.live /\ ~timer' /\ ~paused')
    BY <1>2, <1>5
  <2> QED BY <1>5, <2>1 DEF Sends
<1>7. pub'.num > pub.num
  BY <1>1, <1>2
<1> QED BY <1>2, <1>5, <1>6, <1>7, PublisherGoes

\* What is under way in the parts of a channel is under way in the whole, and the reverse.
LEMMA InEither ==
    ASSUME NEW s \in Seq(Messages), NEW t \in Seq(Messages), NEW w, w = s \o t,
           NEW i \in 1..Len(w)
    PROVE  (\E j \in 1..Len(s) : s[j] = w[i]) \/ (\E j \in 1..Len(t) : t[j] = w[i])
<1>1. /\ Len(w) = Len(s) + Len(t) /\ Len(s) \in Nat /\ Len(t) \in Nat
      /\ w[i] = IF i <= Len(s) THEN s[i] ELSE t[i - Len(s)]
  BY ConcatProperties
<1>2. CASE i <= Len(s)
  BY <1>1, <1>2
<1>3. CASE ~(i <= Len(s))
  <2>1. i - Len(s) \in 1..Len(t) /\ t[i - Len(s)] = w[i]
    BY <1>1, <1>3
  <2> QED BY <2>1
<1> QED BY <1>2, <1>3

\* The reply and its wires are written.
LEMMA RespondGoes ==
    ASSUME Sound, NEW H, Truth(H), NEW G, Delivers(G), Sound', Respond
    PROVE  Delivers(G)'
<1>1. /\ Sent(G) /\ Ordered /\ Sends(G) /\ Based(cl) /\ Seats(cl, srv, UnderWay)
  BY DEF Delivers
<1>2. /\ srv \in Subscriptions /\ srv.ord \in Nat /\ srv.live \in BOOLEAN /\ srv.held \in BOOLEAN
      /\ down \in Seq(Messages) /\ outbox \in Seq(Messages) /\ Top(pub) = CurrentSeq
      /\ CurrentSeq \in Nat
  BY TopIsCurrent DEF Sound, TypeOK, ChannelOK, Messages, Subscriptions
<1>3. /\ down' = down \o outbox /\ outbox' = <<>>
      /\ UNCHANGED <<pub, paused, arrived, cl, lost>>
      /\ srv.held => timer' = (timer \/ ~paused)
      /\ ~srv.held => srv' = srv /\ timer' = timer
  BY DEF Respond, historyVars
<1>4. PICK f : f = Last(outbox).frame
  OBVIOUS
<1>5. /\ srv'.id = srv.id /\ srv'.ord = srv.ord /\ srv'.live = srv.live /\ srv'.over = srv.over
      /\ srv.held => srv'.sent = f.to
  <2>1. CASE srv.held
    <3>1. srv' = [srv EXCEPT !.held = FALSE, !.sent = f.to]
      BY <2>1, <1>4 DEF Respond
    <3> QED BY <3>1, <1>2 DEF Subscriptions
  <2>2. CASE ~srv.held
    BY <2>2, <1>3
  <2> QED BY <2>1, <2>2
<1>6. FramesOf(down') \cup FramesOf(outbox') = FramesOf(down) \cup FramesOf(outbox)
  <2>1. FramesOf(down') = FramesOf(down) \cup FramesOf(outbox)
    BY <1>2, <1>3, FramesOfBoth
  <2> QED BY <2>1, <1>3, FramesOfEmpty
<1>7. UnderWay' \subseteq UnderWay
  <2> SUFFICES ASSUME NEW m \in UnderWay' PROVE m \in UnderWay
    OBVIOUS
  <2>1. /\ m \in Replies /\ m.op = "subscribe"
        /\ m \in arrived \/ (\E i \in 1..Len(down') : down'[i] = m)
                         \/ (\E i \in 1..Len(outbox') : outbox'[i] = m)
    BY <1>3 DEF UnderWay
  <2>2. ASSUME NEW i \in 1..Len(down'), down'[i] = m PROVE m \in UnderWay
    <3> DEFINE w == down'
               s == down
               t == outbox
    <3>0. w = s \o t /\ s \in Seq(Messages) /\ t \in Seq(Messages) /\ i \in 1..Len(w) /\ w[i] = m
      BY <2>2, <1>2, <1>3
    <3> HIDE DEF w, s, t
    <3>0a. (\E j \in 1..Len(s) : s[j] = w[i]) \/ (\E j \in 1..Len(t) : t[j] = w[i])
      BY <3>0, InEither
    <3>1. (\E j \in 1..Len(down) : down[j] = m) \/ (\E j \in 1..Len(outbox) : outbox[j] = m)
      BY <3>0, <3>0a DEF s, t
    <3> QED BY <3>1, <2>1 DEF UnderWay
  <2>3. Len(outbox') = 0
    BY <1>3
  <2> QED BY <2>1, <2>2, <2>3 DEF UnderWay
<1>8. Ordered'
  <2> DEFINE S == srv.id
             s == down
             t == outbox
             k == srv.ord
             u == cl.staged
  <2>1. \A g \in FramesOf(s) \cup FramesOf(u) : g.sub = S => g.ord <= k /\ g.ord \in Nat
    <3>1. \A g \in OnTheWay : g \in Frames /\ (g.sub = srv.id => g.ord <= srv.ord)
      BY DEF Truth, FramesTrue, Newest
    <3> QED BY <3>1 DEF OnTheWay, Frames
  <2>2. /\ s \in Seq(Messages) /\ t \in Seq(Messages) /\ Sorted(s, S) /\ Before(u, s, S)
        /\ \A g \in FramesOf(t) : g.ord = k /\ k \in Nat
    BY <1>1, <1>2 DEF Ordered
  <2> HIDE DEF S, s, t, k, u
  <2>3. Sorted(s \o t, S) /\ Before(u, s \o t, S)
    BY <2>1, <2>2, LastIsSorted
  <2>4. Sorted(down', srv.id) /\ Before(cl.staged, down', srv.id)
    BY <1>3, <2>3 DEF S, s, t, u
  <2>5. FramesOf(outbox') = {}
    BY <1>3, FramesOfEmpty
  <2> QED BY <2>4, <2>5, <1>1, <1>3, <1>5 DEF Ordered
<1>9. Seats(cl', srv', UnderWay')
  <2> DEFINE c == cl
             s == srv
             t == srv'
             U == UnderWay
             V == UnderWay'
  <2>1. t.id = s.id /\ t.live = s.live /\ V \subseteq U /\ Seats(c, s, U)
    BY <1>1, <1>5, <1>7
  <2> HIDE DEF c, s, t, U, V
  <2>2. Seats(c, t, V)
    BY <2>1, SeatsOfServer
  <2>3. cl' = cl
    BY <1>3
  <2> QED BY <2>2, <2>3 DEF c, t, V
<1>10. Sends(G)'
  <2>1. CurrentSeq' = CurrentSeq
    BY <1>3 DEF CurrentSeq
  <2>2. CASE ~srv.held
    BY <2>1, <2>2, <1>1, <1>3 DEF Sends
  <2>3. CASE srv.held
    <3>1. Reserved(srv, outbox, pub)
      BY <2>3 DEF Sound, BufferTrue, BufferHolds
    <3>2. /\ Len(outbox) \in 1..Len(outbox) /\ outbox[Len(outbox)] \in WireSet
          /\ f = outbox[Len(outbox)].frame /\ f.num = pub.num
      BY <3>1, <1>2, <1>4 DEF Reserved, Last
    <3>3. f \in FramesOf(outbox)
      BY <3>2 DEF FramesOf
    <3>4. f.sub = srv.id /\ f.ord = srv.ord /\ f \in G
      BY <3>3, <1>1 DEF Ordered, Sent, OnTheWay
    <3>5. srv.ord # 0 /\ \A L \in G : L.ord = srv.ord => L = f
      BY <3>4, <1>1 DEF Sent, SentIn
    <3>6. ~(~timer' /\ ~paused')
      BY <2>3, <1>3
    <3> QED BY <3>2, <3>5, <3>6, <2>1, <2>3, <1>1, <1>3, <1>5 DEF Sends
  <2> QED BY <2>2, <2>3
<1>11. Based(cl)' /\ Alike(cl, cl') /\ lost' = lost
       /\ pub'.num = pub.num /\ Top(pub) <= Top(pub')
  BY <1>1, <1>2, <1>3 DEF Alike
<1> QED BY <1>5, <1>6, <1>7, <1>8, <1>9, <1>10, <1>11, ServerGoes

-----------------------------------------------------------------------------
(* Requests.                                                                *)

\* A request other than a subscribe is taken.
LEMMA TakenGoes ==
    ASSUME Sound, NEW G, Delivers(G), NEW op, Takes(op), op # "subscribe"
    PROVE  /\ Alike(cl, cl') /\ Based(cl)' /\ Seats(cl', srv, UnderWay) /\ outbox = <<>>
           /\ Head(cl.up).base # None => Past(Head(cl.up).base, cl.view)
           /\ op = "unsubscribe" => Head(cl.up).sub # srv.id
<1>1. /\ ClientOK(cl) /\ cl.up # <<>> /\ cl' = [cl EXCEPT !.up = Tail(cl.up)]
      /\ Head(cl.up).op = op /\ outbox = <<>>
  BY DEF Sound, TypeOK, Takes
<1>2. cl \in Clients
  BY <1>1 DEF ClientOK
<1>3. Alike(cl, cl') /\ cl'.up = Tail(cl.up)
  <2> DEFINE u == Tail(cl.up)
  <2>1. cl' = [cl EXCEPT !.up = u]
    BY <1>1
  <2> HIDE DEF u
  <2>2. Alike(cl, cl') /\ cl'.up = u
    BY <1>2, <2>1 DEF Alike, Clients
  <2> QED BY <2>2 DEF u
<1>4. Seats(cl, srv, UnderWay) /\ Based(cl)
  BY DEF Delivers
<1> DEFINE c == cl
           d == cl'
           s == srv
           U == UnderWay
<1>5. /\ ClientOK(c) /\ c.up # <<>> /\ d.up = Tail(c.up) /\ Alike(c, d) /\ d.view = c.view
      /\ Head(c.up).op # "subscribe" /\ Seats(c, s, U) /\ Based(c)
  BY <1>1, <1>3, <1>4 DEF Alike
<1> HIDE DEF c, d, s, U
<1>6. Seats(d, s, U) /\ (Head(c.up).op = "unsubscribe" => Head(c.up).sub # s.id)
  BY <1>5, SeatsAfterTaking
<1>7. Based(d) /\ (Head(c.up).base # None => Past(Head(c.up).base, c.view))
  BY <1>5, BasedAfterTaking
<1> QED BY <1>1, <1>3, <1>6, <1>7 DEF c, d, s, U

\* Only replaced subscriptions are given up.
LEMMA UnsubscribeGoes ==
    ASSUME Sound, NEW G, Delivers(G), Sound', HandleUnsubscribe
    PROVE  Delivers(G)'
<1>1. Takes("unsubscribe") /\ UNCHANGED <<pub, paused, outbox, down, arrived, lost>>
  BY DEF HandleUnsubscribe, historyVars
<1>2. /\ Alike(cl, cl') /\ Based(cl)' /\ Seats(cl', srv, UnderWay)
      /\ Head(cl.up).sub # srv.id
  BY <1>1, TakenGoes
<1>3. srv' = srv /\ timer' = timer
  BY <1>2 DEF HandleUnsubscribe
<1>4. Ordered /\ Sends(G)
  BY DEF Delivers
<1>5. UnderWay' = UnderWay
  BY <1>1 DEF UnderWay
<1>6. Ordered'
  BY <1>1, <1>2, <1>3, <1>4 DEF Ordered, Alike
<1>7. Sends(G)'
  <2>1. CurrentSeq' = CurrentSeq /\ cl'.view = cl.view
    BY <1>1, <1>2 DEF CurrentSeq, Alike
  <2> QED BY <1>1, <1>3, <1>4, <2>1 DEF Sends
<1>8. pub'.num = pub.num /\ Top(pub) <= Top(pub')
  BY <1>1, TopIsCurrent DEF Sound
<1>9. Seats(cl', srv', UnderWay')
  BY <1>2, <1>3, <1>5
<1> QED BY <1>1, <1>2, <1>3, <1>5, <1>6, <1>7, <1>8, <1>9, ServerGoes

\* No frame comes with the reply itself.
LEMMA ReplyFrames ==
    ASSUME NEW r \in Replies, NEW w \in Seq(WireSet)
    PROVE  /\ \A i \in 1..Len(<<r>> \o w) : (<<r>> \o w)[i] = r \/ (<<r>> \o w)[i] \in WireSet
           /\ FramesOf(<<r>> \o w) = FramesOf(w)
<1> DEFINE o == <<r>>
           v == w
           x == o \o v
<1>1. /\ o \in Seq(Messages) /\ v \in Seq(Messages) /\ Len(o) = 1 /\ o[1] = r
      /\ \A i \in 1..Len(v) : v[i] \in WireSet
  <2>1. \A i \in 1..Len(w) : w[i] \in WireSet
    OBVIOUS
  <2>2. \A i \in 1..Len(w) : w[i] \in Messages
    BY <2>1 DEF Messages
  <2>3. w \in Seq(Messages)
    BY <2>2, NarrowedSeq
  <2> QED BY <2>1, <2>3 DEF Messages
<1> HIDE DEF o, v
<1>2. x = o \o v /\ Len(x) = Len(o) + Len(v) /\ Len(v) \in Nat
      /\ \A i \in 1..Len(o) + Len(v) : x[i] = IF i <= Len(o) THEN o[i] ELSE v[i - Len(o)]
  BY <1>1, ConcatProperties
<1> HIDE DEF x
<1>3. \A i \in 1..Len(x) : x[i] = r \/ x[i] \in WireSet
  <2> SUFFICES ASSUME NEW i \in 1..Len(x) PROVE x[i] = r \/ x[i] \in WireSet
    OBVIOUS
  <2>1. CASE i = 1
    BY <2>1, <1>1, <1>2
  <2>2. CASE i # 1
    <3>1. i - 1 \in 1..Len(v) /\ x[i] = v[i - 1]
      BY <2>2, <1>1, <1>2
    <3> QED BY <3>1, <1>1
  <2> QED BY <2>1, <2>2
<1>4. FramesOf(o) = {}
  BY <1>1, ReplyOrWire DEF FramesOf
<1>5. FramesOf(x) = FramesOf(o) \cup FramesOf(v)
  BY <1>1, <1>2, FramesOfBoth
<1> QED BY <1>3, <1>4, <1>5 DEF o, v, x

\* The reply is one more, if it answers a subscribe.
LEMMA ReplyUnderWay ==
    ASSUME NEW r \in Replies, NEW w \in Seq(WireSet), outbox' = <<r>> \o w,
           UNCHANGED <<down, arrived>>
    PROVE  /\ UnderWay' \subseteq UnderWay \cup {r} /\ FramesOf(outbox') = FramesOf(w)
           /\ r.op # "subscribe" => UnderWay' \subseteq UnderWay
<1> DEFINE x == outbox'
<1>1. (\A i \in 1..Len(x) : x[i] = r \/ x[i] \in WireSet) /\ FramesOf(x) = FramesOf(w)
  BY ReplyFrames
<1> HIDE DEF x
<1>2. ASSUME NEW m \in UnderWay' PROVE m.op = "subscribe" /\ (m \in UnderWay \/ m = r)
  <2>1. /\ m \in Replies /\ m.op = "subscribe"
        /\ m \in arrived \/ (\E i \in 1..Len(down) : down[i] = m)
                         \/ (\E i \in 1..Len(x) : x[i] = m)
    BY DEF UnderWay, x
  <2>2. (\E i \in 1..Len(x) : x[i] = m) => m = r
    BY <1>1, <2>1, ReplyOrWire
  <2> QED BY <2>1, <2>2 DEF UnderWay
<1> QED BY <1>1, <1>2 DEF x

\* A resync of a subscription the publisher does not have.
LEMMA NotOwnedGoes ==
    ASSUME Sound, NEW G, Delivers(G), Sound', Takes("resync"), NEW m, m = Head(cl.up),
           outbox' = <<Reply("notOwned", m.id, m.sub, None, FALSE)>>,
           UNCHANGED <<pub, srv, timer, paused, down, arrived, lost>>
    PROVE  Delivers(G)'
<1>1. PICK r : r = Reply("notOwned", m.id, m.sub, None, FALSE)
  OBVIOUS
<1>2. r \in Replies /\ r.op # "subscribe"
  <2>1. m \in Requests
    BY RequestTaken
  <2> QED BY <1>1, <2>1 DEF Reply, Replies, Requests, Modes
<1>3. PICK w : w = <<>>
  OBVIOUS
<1>4. w \in Seq(WireSet) /\ outbox' = <<r>> \o w /\ FramesOf(w) = {}
  <2>1. <<r>> \o <<>> = <<r>>
    OBVIOUS
  <2> QED BY <2>1, <1>1, <1>3, FramesOfEmpty
<1>5. UnderWay' \subseteq UnderWay /\ FramesOf(outbox') = {}
  BY <1>2, <1>4, ReplyUnderWay
<1>6. Alike(cl, cl') /\ Based(cl)' /\ Seats(cl', srv, UnderWay) /\ outbox = <<>>
  BY TakenGoes
<1>7. Ordered /\ Sends(G)
  BY DEF Delivers
<1>8. Ordered'
  BY <1>5, <1>6, <1>7 DEF Ordered, Alike
<1>9. Sends(G)'
  <2>1. CurrentSeq' = CurrentSeq /\ cl'.view = cl.view
    BY <1>6 DEF CurrentSeq, Alike
  <2> QED BY <1>7, <2>1 DEF Sends
<1>10. pub'.num = pub.num /\ Top(pub) <= Top(pub')
  BY TopIsCurrent DEF Sound
<1>11. Seats(cl', srv', UnderWay')
  <2> DEFINE d == cl'
             s == srv
             U == UnderWay
             V == UnderWay'
  <2>1. V \subseteq U /\ Seats(d, s, U)
    BY <1>5, <1>6
  <2> HIDE DEF d, s, U, V
  <2>2. Seats(d, s, V)
    BY <2>1, SeatsOfServer
  <2>3. srv' = srv
    OBVIOUS
  <2> QED BY <2>2, <2>3 DEF d, s, V
<1>12. FramesOf(down') \cup FramesOf(outbox') = FramesOf(down) \cup FramesOf(outbox)
  BY <1>5, <1>6, FramesOfEmpty
<1> QED BY <1>5, <1>6, <1>8, <1>9, <1>10, <1>11, <1>12, ServerGoes

\* A client that goes on from what it has shown, of the publisher's numbering, shows that
\* numbering.
LEMMA PastIsKnown ==
    ASSUME Sound, NEW H, Truth(H), NEW b, Past(b, cl.view), b \in Bases, b.num = pub.num
    PROVE  cl.view # None /\ cl.view.num = pub.num /\ cl.view.seq >= b.seq
<1>1. cl.view \in Viewed /\ cl.view # None /\ cl.view.num <= pub.num /\ pub.num \in Nat
  BY ShownInTime DEF Past
<1>2. cl.view.num \in Nat /\ cl.view.seq \in Nat /\ b.seq \in Nat
  BY <1>1 DEF Viewed, Views, Bases
<1> QED BY <1>1, <1>2 DEF Past

\* The frame f is reserved for the reply to a resync.
LEMMA RecoveryGoes ==
    ASSUME Sound, NEW H, Truth(H), NEW G, Delivers(G), Sound', Takes("resync"),
           NEW m, m = Head(cl.up), srv.live, NEW f, NextFrame(f, srv), f.use = "recovery",
           f.kind = "deltas" => m.base \in Bases /\ m.base.num = pub.num,
           NEW r \in Replies, r.op # "subscribe", outbox' = <<r>> \o Wires(f),
           srv'.id = srv.id, srv'.ord = f.ord, srv'.live = srv.live, srv'.held, ~srv'.over,
           UNCHANGED <<pub, down, arrived, lost>>
    PROVE  Delivers(G \cup {f})'
<1>1. /\ Sent(G) /\ Ordered /\ Sends(G)
  BY DEF Delivers
<1>2. /\ srv.ord \in Nat /\ f \in Frames /\ f.sub = srv.id /\ f.ord = srv.ord + 1 /\ f.ord \in Nat
      /\ f.num = pub.num /\ f.kind \in {"snapshot", "deltas"} /\ f.use # "initial"
  BY TopIsCurrent DEF Sound, Subscriptions, NextFrame, Frames
<1>3. PICK w : w = Wires(f)
  OBVIOUS
<1>4. w \in Seq(WireSet) /\ FramesOf(w) = {f}
  BY <1>2, <1>3, WiresOfFrame
<1>5. UnderWay' \subseteq UnderWay /\ FramesOf(outbox') = {f}
  BY <1>3, <1>4, ReplyUnderWay
<1>6. /\ Alike(cl, cl') /\ Based(cl)' /\ Seats(cl', srv, UnderWay) /\ outbox = <<>>
      /\ m.base # None => Past(m.base, cl.view)
  BY TakenGoes
<1>7. Ordered'
  BY <1>1, <1>2, <1>5, <1>6 DEF Ordered, Alike
<1>8. Seats(cl', srv', UnderWay')
  <2> DEFINE d == cl'
             s == srv
             t == srv'
             U == UnderWay
             V == UnderWay'
  <2>1. V \subseteq U /\ Seats(d, s, U) /\ t.id = s.id /\ t.live = s.live
    BY <1>5, <1>6
  <2> HIDE DEF d, s, t, U, V
  <2>2. Seats(d, t, V)
    BY <2>1, SeatsOfServer
  <2> QED BY <2>2 DEF d, t, V
<1>9. f.kind = "deltas" => cl.view # None /\ cl.view.num = pub.num
  <2> SUFFICES ASSUME f.kind = "deltas" PROVE cl.view # None /\ cl.view.num = pub.num
    OBVIOUS
  <2>1. PICK b : b = m.base
    OBVIOUS
  <2>2. b \in Bases /\ b.num = pub.num /\ Past(b, cl.view)
    BY <2>1, <1>6, NoneAssumption
  <2> QED BY <2>2, PastIsKnown
<1>10. Sends(G \cup {f})'
  <2>1. cl'.view = cl.view
    BY <1>6 DEF Alike
  <2>2. NumKnown(G \cup {f}, cl'.view, pub.num, srv'.ord + 1)
    <3>1. CASE f.kind = "snapshot"
      BY <1>2, <3>1 DEF NumKnown
    <3>2. CASE f.kind = "deltas"
      BY <1>9, <2>1, <3>2 DEF NumKnown
    <3> QED BY <1>2, <3>1, <3>2
  <2>3. srv'.ord # 0
    BY <1>2
  <2> QED BY <2>2, <2>3 DEF Sends
<1>11. FramesOf(down') \cup FramesOf(outbox') = FramesOf(down) \cup FramesOf(outbox) \cup {f}
  BY <1>5, <1>6, FramesOfEmpty
<1>12. f.kind = "deltas" => IF f.use = "online" THEN NumKnown(G, cl.view, pub.num, f.ord)
                            ELSE cl.view # None /\ cl.view.num = pub.num
  BY <1>9
<1> QED BY <1>2, <1>5, <1>6, <1>7, <1>8, <1>10, <1>11, <1>12, FrameGoes

\* What is answered for the subscription s.
LEMMA AnswerIs ==
    ASSUME NEW m \in Requests, m.op \in {"subscribe", "resync"}, NEW s \in Subscriptions,
           NEW mode \in Modes, NEW f,
           f # None => NextFrame(f, s), NEW how, Answer(m, s, mode, f, how)
    PROVE  \E r \in Replies :
             /\ r.op = m.op /\ r.id = m.id /\ r.sub = s.id
             /\ f # None => outbox' = <<r>> \o Wires(f)
             /\ f = None => outbox' = <<r>> \o <<>>
             /\ srv'.id = s.id /\ srv'.live = s.live /\ srv'.over = s.over
             /\ srv'.held = (f # None)
             /\ srv'.ord = IF f # None THEN f.ord ELSE s.ord
             /\ srv'.sent = IF how = "resume" THEN m.base.seq ELSE 0
             /\ ~mixed' => (how = "resume" => m.base.num = pub.num)
             /\ timer' = FALSE
<1>1. PICK r : r = Reply(m.op, m.id, s.id, mode, m.base # None)
  OBVIOUS
<1>2. r \in Replies /\ r.op = m.op /\ r.id = m.id /\ r.sub = s.id
  BY <1>1 DEF Reply, Replies, Requests, Subscriptions
<1>3. PICK ord : ord = IF f # None THEN f.ord ELSE s.ord
  OBVIOUS
<1>4. PICK sent : sent = IF how = "resume" THEN m.base.seq ELSE 0
  OBVIOUS
<1>5. PICK held : held = (f # None)
  OBVIOUS
<1>6. srv' = [s EXCEPT !.held = held, !.ord = ord, !.sent = sent]
  BY <1>3, <1>4, <1>5 DEF Answer
<1>7. /\ srv'.id = s.id /\ srv'.live = s.live /\ srv'.over = s.over
      /\ srv'.held = held /\ srv'.ord = ord /\ srv'.sent = sent
  BY <1>6 DEF Subscriptions
<1>8. /\ f # None => outbox' = <<r>> \o Wires(f)
      /\ f = None => outbox' = <<r>> \o <<>>
      /\ ~mixed' => (how = "resume" => m.base.num = pub.num)
      /\ timer' = FALSE
  BY <1>1 DEF Answer
<1> QED BY <1>2, <1>3, <1>4, <1>5, <1>7, <1>8

\* A resync is handled.
LEMMA ResyncGoes ==
    ASSUME Sound, NEW H, Truth(H), NEW G, Delivers(G), Sound', ~mixed', HandleResync
    PROVE  \E E : Delivers(E)'
<1> DEFINE b == <<>>
           s == [srv EXCEPT !.buf = b, !.over = FALSE]
<1>0. PICK m : m = Head(cl.up)
  OBVIOUS
<1>1. TypeOK /\ srv \in Subscriptions
  BY TopIsCurrent DEF Sound
<1>2. Takes("resync") /\ UNCHANGED <<pub, paused, down, arrived, lost>>
  BY DEF HandleResync
<1>3. \/ /\ outbox' = <<Reply("notOwned", m.id, m.sub, None, FALSE)>>
         /\ UNCHANGED <<srv, timer, mixed>>
      \/ srv.live /\ Answer(m, s, "snapshot", Snapshot(s, "recovery"), "snapshot")
      \/ /\ srv.live /\ Resumable(m.base)
         /\ Answer(m, s, "resume", Replay(s, "recovery", m.base), "resume")
  BY <1>0 DEF HandleResync
<1>4. m \in Requests /\ m.op = "resync" /\ m.base \in Bases \cup {None}
  BY <1>0, <1>2, RequestTaken DEF Requests
<1>6. b \in Seq(1..MaxEvents) /\ b = <<>>
  OBVIOUS
<1> HIDE DEF b
<1>7. s \in Subscriptions /\ ~s.over /\ s.id = srv.id /\ s.ord = srv.ord /\ s.live = srv.live
  BY <1>1, <1>6 DEF Subscriptions
<1> HIDE DEF s
<1>9. CASE /\ outbox' = <<Reply("notOwned", m.id, m.sub, None, FALSE)>>
           /\ UNCHANGED <<srv, timer, mixed>>
  BY <1>0, <1>2, <1>9, NotOwnedGoes
<1>10. ASSUME srv.live, NEW f, NextFrame(f, s), f.use = "recovery", NEW mode \in Modes, NEW how,
              f.kind = "deltas" => m.base \in Bases /\ how = "resume", Answer(m, s, mode, f, how)
       PROVE  Delivers(G \cup {f})'
  <2>1. f # None
    BY <1>10, NoneAssumption DEF NextFrame
  <2>2. PICK r \in Replies :
             /\ r.op = m.op /\ outbox' = <<r>> \o Wires(f)
             /\ srv'.id = s.id /\ srv'.live = s.live /\ srv'.over = s.over
             /\ srv'.held = (f # None) /\ srv'.ord = f.ord
             /\ ~mixed' => (how = "resume" => m.base.num = pub.num)
    <3>1. f # None => NextFrame(f, s)
      BY <1>10
    <3>2. m.op \in {"subscribe", "resync"}
      BY <1>4
    <3>3. s \in Subscriptions /\ m \in Requests /\ Answer(m, s, mode, f, how)
      BY <1>4, <1>7, <1>10
    <3>4. \E r \in Replies :
             /\ r.op = m.op /\ r.id = m.id /\ r.sub = s.id
             /\ f # None => outbox' = <<r>> \o Wires(f)
             /\ f = None => outbox' = <<r>> \o <<>>
             /\ srv'.id = s.id /\ srv'.live = s.live /\ srv'.over = s.over
             /\ srv'.held = (f # None)
             /\ srv'.ord = IF f # None THEN f.ord ELSE s.ord
             /\ srv'.sent = IF how = "resume" THEN m.base.seq ELSE 0
             /\ ~mixed' => (how = "resume" => m.base.num = pub.num)
             /\ timer' = FALSE
      BY <3>1, <3>2, <3>3, AnswerIs
    <3> QED BY <2>1, <3>4
  <2>3. NextFrame(f, srv)
    BY <1>7, <1>10 DEF NextFrame
  <2>4. /\ r.op # "subscribe" /\ srv'.id = srv.id /\ srv'.ord = f.ord /\ srv'.live = srv.live
        /\ srv'.held /\ ~srv'.over
        /\ f.kind = "deltas" => m.base \in Bases /\ m.base.num = pub.num
    BY <2>1, <2>2, <1>4, <1>7, <1>10
  <2> QED BY <1>0, <1>2, <1>10, <2>2, <2>3, <2>4, RecoveryGoes
<1>11. CASE srv.live /\ Answer(m, s, "snapshot", Snapshot(s, "recovery"), "snapshot")
  <2>0. PICK f : f = Snapshot(s, "recovery")
    OBVIOUS
  <2>1. NextFrame(f, s)
    BY <2>0, <1>1, <1>7, SnapshotIsNext
  <2>2. f.use = "recovery" /\ f.kind = "snapshot" /\ "snapshot" \in Modes
    BY <2>0 DEF Snapshot, Frame, Modes
  <2>3. Delivers(G \cup {f})'
    BY <2>0, <2>1, <2>2, <1>10, <1>11
  <2> QED BY <2>3
<1>12. CASE /\ srv.live /\ Resumable(m.base)
            /\ Answer(m, s, "resume", Replay(s, "recovery", m.base), "resume")
  <2>0. PICK f : f = Replay(s, "recovery", m.base)
    OBVIOUS
  <2>1. NextFrame(f, s) /\ m.base \in Bases
    BY <2>0, <1>1, <1>4, <1>7, <1>12, ReplayIsNext
  <2>2. f.use = "recovery" /\ "resume" \in Modes
    BY <2>0 DEF Replay, Frame, Modes
  <2>3. Delivers(G \cup {f})'
    BY <2>0, <2>1, <2>2, <1>10, <1>12
  <2> QED BY <2>3
<1> QED BY <1>3, <1>9, <1>11, <1>12

\* The client that gets its latest subscribe answered asks for no other; one that has
\* replaced it still asks.
LEMMA SeatsAfterSubscribing ==
    ASSUME NEW c, NEW d, ClientOK(c), c.up # <<>>, d.up = Tail(c.up), Alike(c, d),
           Head(c.up).op = "subscribe", NEW s, NEW U, Seats(c, s, U),
           s.id \in Nat, \A m \in U : m.sub \in Nat /\ m.sub <= s.id,
           NEW t, t.id = s.id + 1, t.live,
           NEW r, r.id = Head(c.up).id, r.sub = t.id, NEW V, V \subseteq U \cup {r}
    PROVE  Seats(d, t, V)
<1> DEFINE u == c.up
           e == Tail(u)
<1>1. u \in Seq(Requests) /\ u # <<>>
  BY DEF ClientOK, Clients
<1>2. /\ Len(u) \in Nat /\ Len(u) # 0 /\ Head(u) = u[1] /\ Len(e) = Len(u) - 1
      /\ \A i \in 1..Len(e) : e[i] = u[i + 1]
  BY <1>1, HeadTailProperties
<1> HIDE DEF e
<1>3. \A i \in 1..Len(e) : i + 1 \in 1..Len(u) /\ e[i] = u[i + 1]
  BY <1>2
<1>4. \A i \in 1..Len(u) : i > 1 => i - 1 \in 1..Len(e) /\ e[i - 1] = u[i]
  <2> SUFFICES ASSUME NEW i \in 1..Len(u), i > 1
               PROVE  i - 1 \in 1..Len(e) /\ e[i - 1] = u[i]
    OBVIOUS
  <2>1. i - 1 \in 1..Len(e) /\ (i - 1) + 1 = i
    BY <1>2
  <2> QED BY <2>1, <1>2
<1>5. d.up = e
  BY DEF e
<1>6. 1 \in 1..Len(u) /\ u[1].op = "subscribe" /\ r.id = u[1].id
      /\ \A i \in 1..Len(u) : u[i].sub \in Nat
  <2>1. \A i \in 1..Len(u) : u[i] \in Requests
    BY <1>1
  <2> QED BY <1>2, <2>1 DEF Requests
<1>7. c.up = u
  OBVIOUS
<1> HIDE DEF u
<1>8. Asking(c)
  BY <1>6, <1>7 DEF Asking
<1>9. IF r.id = c.gen THEN c.gen \in c.pending /\ ~Asking(d) ELSE Asking(d)
  <2>1. CASE r.id = c.gen
    <3>1. c.gen \in c.pending /\ \A j \in 1..Len(u) : j > 1 => u[j].op # "subscribe"
      BY <2>1, <1>6, <1>7 DEF Seats
    <3>2. \A i \in 1..Len(e) : e[i].op # "subscribe"
      <4> SUFFICES ASSUME NEW i \in 1..Len(e) PROVE e[i].op # "subscribe"
        OBVIOUS
      <4>1. i + 1 \in 1..Len(u) /\ i + 1 > 1 /\ e[i] = u[i + 1]
        BY <1>3
      <4> QED BY <3>1, <4>1
    <3>3. ~Asking(d)
      BY <3>2, <1>5 DEF Asking
    <3> QED BY <2>1, <3>1, <3>3
  <2>2. CASE r.id # c.gen
    <3>1. PICK j \in 1..Len(u) : j > 1 /\ u[j].op = "subscribe"
      BY <2>2, <1>6, <1>7 DEF Seats
    <3>2. Asking(d)
      BY <3>1, <1>4, <1>5 DEF Asking
    <3> QED BY <2>2, <3>2
  <2> QED BY <2>1, <2>2
<1>10. ASSUME NEW i \in 1..Len(e), e[i].op = "subscribe"
       PROVE  IF e[i].id = d.gen
              THEN d.gen \in d.pending /\ \A j \in 1..Len(e) : j > i => e[j].op # "subscribe"
              ELSE \E j \in 1..Len(e) : j > i /\ e[j].op = "subscribe"
  <2>1. i + 1 \in 1..Len(u) /\ u[i + 1] = e[i]
    BY <1>3
  <2>2. CASE e[i].id = d.gen
    <3>1. c.gen \in c.pending /\ \A j \in 1..Len(u) : j > i + 1 => u[j].op # "subscribe"
      BY <2>1, <2>2, <1>7, <1>10 DEF Seats, Alike
    <3>2. ASSUME NEW j \in 1..Len(e), j > i PROVE e[j].op # "subscribe"
      <4>1. j + 1 \in 1..Len(u) /\ j + 1 > i + 1 /\ e[j] = u[j + 1]
        BY <3>2, <1>3
      <4> QED BY <4>1, <3>1
    <3> QED BY <2>2, <3>1, <3>2 DEF Alike
  <2>3. CASE e[i].id # d.gen
    <3>1. PICK j \in 1..Len(u) : j > i + 1 /\ u[j].op = "subscribe"
      BY <2>1, <2>3, <1>7, <1>10 DEF Seats, Alike
    <3>2. j - 1 \in 1..Len(e) /\ e[j - 1].op = "subscribe" /\ j - 1 > i
      BY <3>1, <1>4
    <3> QED BY <2>3, <3>2
  <2> QED BY <2>2, <2>3
<1>11. ASSUME NEW i \in 1..Len(e), e[i].op = "unsubscribe"
       PROVE  e[i].sub <= t.id /\ e[i].sub # t.id
  <2>1. i + 1 \in 1..Len(u) /\ u[i + 1] = e[i]
    BY <1>3
  <2>2. u[i + 1].sub <= s.id
    BY <2>1, <1>7, <1>11 DEF Seats
  <2>3. e[i].sub \in Nat /\ e[i].sub <= s.id
    BY <2>1, <2>2, <1>6
  <2> QED BY <2>3
<1>12. d.status # "live"
  BY <1>8 DEF Seats, Alike
<1>13. ASSUME NEW m \in V
       PROVE  IF m.id = d.gen
              THEN t.live /\ m.sub = t.id /\ ~Asking(d) /\ d.gen \in d.pending
              ELSE m.sub < t.id \/ Asking(d)
  <2>1. CASE m = r
    BY <2>1, <1>9 DEF Alike
  <2>2. CASE m \in U
    <3>1. m.id # c.gen
      BY <2>2, <1>8 DEF Seats
    <3>2. m.sub < t.id
      BY <2>2
    <3> QED BY <3>1, <3>2 DEF Alike
  <2> QED BY <2>1, <2>2
<1> QED BY <1>5, <1>10, <1>11, <1>12, <1>13 DEF Seats

\* So it is for the client and the last subscription once the publisher has answered.
LEMMA SeatsSubscribed ==
    ASSUME Numbered, Seats(cl, srv, UnderWay), ClientOK(cl), cl.up # <<>>, cl'.up = Tail(cl.up),
           Alike(cl, cl'), Head(cl.up).op = "subscribe", srv.id \in Nat, srv'.id = srv.id + 1,
           srv'.live, NEW r, r.id = Head(cl.up).id, r.sub = srv'.id,
           UnderWay' \subseteq UnderWay \cup {r}
    PROVE  Seats(cl', srv', UnderWay')
<1> DEFINE c == cl
           d == cl'
           s == srv
           t == srv'
           U == UnderWay
           V == UnderWay'
<1>1. /\ ClientOK(c) /\ c.up # <<>> /\ d.up = Tail(c.up) /\ Alike(c, d)
      /\ Head(c.up).op = "subscribe" /\ Seats(c, s, U) /\ s.id \in Nat
      /\ t.id = s.id + 1 /\ t.live /\ r.id = Head(c.up).id /\ r.sub = t.id
      /\ V \subseteq U \cup {r}
  OBVIOUS
<1>2. \A k \in U : k.sub \in Nat /\ k.sub <= s.id
  BY UnderWayNumbered
<1> HIDE DEF c, d, s, t, U, V
<1>3. Seats(d, t, V)
  BY <1>1, <1>2, SeatsAfterSubscribing
<1> QED BY <1>3 DEF d, t, V

\* The publisher begins a subscription, whose first frame is in E, if there is one.
LEMMA SubscribedGoes ==
    ASSUME Sound, NEW H, Truth(H), NEW G, Delivers(G), Sound', Takes("subscribe"),
           NEW m, m = Head(cl.up), UNCHANGED <<pub, down, arrived, lost>>,
           NEW r \in Replies, r.id = m.id, r.sub = srv.id + 1,
           NEW w \in Seq(WireSet), outbox' = <<r>> \o w, NEW E, FramesOf(w) = E,
           \A T \in E : /\ T \in Frames /\ T.sub = srv.id + 1 /\ T.ord = 1 /\ T.num = pub.num
                        /\ T.to = CurrentSeq
                        /\ T.kind = "deltas" => /\ m.base \in Bases /\ m.base.num = pub.num
                                                /\ T.use # "online",
           \A T, U \in E : T = U,
           srv'.id = srv.id + 1, srv'.live, ~srv'.over, srv'.held = (E # {}),
           srv'.ord = IF E = {} THEN 0 ELSE 1,
           E = {} => /\ m.base \in Bases /\ m.base.num = pub.num /\ m.base.seq = CurrentSeq
                     /\ srv'.sent = m.base.seq
    PROVE  Delivers(E)'
<1>1. /\ Seats(cl, srv, UnderWay) /\ Based(cl)
  BY DEF Delivers
<1>2. /\ srv.id \in Nat /\ CurrentSeq \in Nat /\ Top(pub) = CurrentSeq /\ Numbered
      /\ pub.num \in Nat /\ ClientOK(cl) /\ cl \in Clients /\ cl.sub \in Nat
  BY TopIsCurrent, ShownInTime DEF Sound, ClientOK
<1>3. /\ cl.up # <<>> /\ cl' = [cl EXCEPT !.up = Tail(cl.up)] /\ m.op = "subscribe" /\ outbox = <<>>
  BY DEF Takes
<1>4. Alike(cl, cl') /\ cl'.up = Tail(cl.up)
  <2> DEFINE u == Tail(cl.up)
  <2>1. cl' = [cl EXCEPT !.up = u]
    BY <1>3
  <2> HIDE DEF u
  <2>2. Alike(cl, cl') /\ cl'.up = u
    BY <1>2, <2>1 DEF Alike, Clients
  <2> QED BY <2>2 DEF u
<1>5. Based(cl') /\ (m.base # None => Past(m.base, cl.view))
  <2> DEFINE c == cl
             d == cl'
  <2>1. /\ ClientOK(c) /\ c.up # <<>> /\ d.up = Tail(c.up) /\ d.view = c.view /\ Based(c)
        /\ m = Head(c.up)
    BY <1>1, <1>2, <1>3, <1>4 DEF Alike
  <2> HIDE DEF c, d
  <2>2. Based(d) /\ (m.base # None => Past(m.base, c.view))
    BY <2>1, BasedAfterTaking
  <2> QED BY <2>2 DEF c, d
<1>6. /\ UnderWay' \subseteq UnderWay \cup {r}
      /\ FramesOf(outbox') = E
  BY ReplyUnderWay
<1>7. Seats(cl', srv', UnderWay')
  <2>1. ClientOK(cl) /\ cl.up # <<>> /\ cl'.up = Tail(cl.up) /\ Alike(cl, cl')
    BY <1>2, <1>3, <1>4
  <2>2. /\ Head(cl.up).op = "subscribe" /\ r.id = Head(cl.up).id /\ r.sub = srv'.id
        /\ srv'.id = srv.id + 1 /\ srv'.live
    BY <1>3
  <2> QED BY <1>1, <1>2, <1>6, <2>1, <2>2, SeatsSubscribed
<1>8. ASSUME m.base \in Bases, m.base.num = pub.num
      PROVE  cl'.view # None /\ cl'.view.num = pub.num /\ cl'.view.seq >= m.base.seq
  <2>1. PICK b : b = m.base
    OBVIOUS
  <2>2. b \in Bases /\ b.num = pub.num /\ Past(b, cl.view)
    BY <2>1, <1>5, <1>8, NoneAssumption
  <2>3. cl.view # None /\ cl.view.num = pub.num /\ cl.view.seq >= b.seq
    BY <2>2, PastIsKnown
  <2> QED BY <2>1, <2>3, <1>4 DEF Alike
<1>9. \A f \in FramesOf(down') \cup FramesOf(cl'.staged) : f.sub # srv'.id
  <2>1. \A f \in OnTheWay : f \in Frames /\ f.sub <= srv.id
    BY DEF Truth, FramesTrue, Newest
  <2>2. \A f \in FramesOf(down') \cup FramesOf(cl'.staged) : f \in OnTheWay
    BY <1>4 DEF OnTheWay, Alike
  <2> QED BY <2>1, <2>2, <1>2 DEF Frames
<1>10. Sent(E)'
  <2>1. /\ \A T \in E : T \in Frames /\ T.ord # 0 /\ T.ord <= srv'.ord /\ T.num <= pub.num
        /\ \A T \in E : T.use = "initial" => T.ord = 1
        /\ \A T, U \in E : T.ord = U.ord => T = U
        /\ \A T, U \in E : T.ord < U.ord => Behind(T, U)
    BY <1>2
  <2>2. SentIn(E, pub.num, srv'.ord)
    BY <2>1 DEF SentIn
  <2>3. \A T \in E : T.sub = srv'.id /\ T.to <= Top(pub)
    BY <1>2
  <2>4. srv'.ord # 0 => \E T \in E : T.ord = srv'.ord
    OBVIOUS
  <2>5. \A f \in OnTheWay' : f.sub = srv'.id => f \in E
    BY <1>6, <1>9 DEF OnTheWay
  <2> QED BY <2>2, <2>3, <2>4, <2>5 DEF Sent
<1>11. Ordered'
  <2>1. \A f \in FramesOf(outbox') : f.sub = srv'.id /\ f.ord = srv'.ord
    BY <1>6
  <2>2. \A i \in 1..Len(down') : ~On(down'[i], srv'.id)
    BY <1>9 DEF On, FramesOf
  <2>3. \A i \in 1..Len(cl'.staged) : ~On(cl'.staged[i], srv'.id)
    BY <1>9 DEF On, FramesOf
  <2> QED BY <2>1, <2>2, <2>3 DEF Ordered, Sorted, Before
<1>12. DeltasKnown(E, cl'.view, pub.num)
  BY <1>8 DEF DeltasKnown
<1>13. NumKnown(E, cl'.view, pub.num, srv'.ord + 1)
  <2>1. CASE E = {}
    BY <2>1, <1>8 DEF NumKnown
  <2>2. ASSUME NEW T \in E PROVE NumKnown(E, cl'.view, pub.num, srv'.ord + 1)
    <3>1. T.kind \in {"snapshot", "deltas"} /\ T.ord = 1 /\ T.num = pub.num /\ srv'.ord = 1
      BY DEF Frames
    <3>2. CASE T.kind = "deltas"
      BY <3>2, <1>8 DEF NumKnown
    <3>3. CASE T.kind = "snapshot"
      BY <3>1, <3>3 DEF NumKnown
    <3> QED BY <3>1, <3>2, <3>3
  <2> QED BY <2>1, <2>2
<1>14. Sends(E)'
  <2>1. CurrentSeq' = CurrentSeq
    BY DEF CurrentSeq
  <2>2. E = {} => cl'.view # None /\ cl'.view.num = pub.num /\ cl'.view.seq >= srv'.sent
    BY <1>8
  <2>3. srv'.live /\ ~srv'.held /\ ~timer' /\ ~paused' => srv'.sent = CurrentSeq' /\ ~srv'.over
    <3>1. ~srv'.held => E = {}
      OBVIOUS
    <3> QED BY <3>1, <2>1
  <2>4. srv'.live /\ ~srv'.held /\ ~srv'.over =>
          \A L \in E : L.ord = srv'.ord => L.num = pub'.num /\ L.to = srv'.sent
    <3>1. ~srv'.held => E = {}
      OBVIOUS
    <3> QED BY <3>1
  <2>5. srv'.live /\ ~srv'.over /\ srv'.ord = 0 =>
          cl'.view # None /\ cl'.view.num = pub'.num /\ cl'.view.seq >= srv'.sent
    <3>1. srv'.ord = 0 => E = {}
      OBVIOUS
    <3>2. pub' = pub
      OBVIOUS
    <3> QED BY <3>1, <3>2, <2>2
  <2>6. srv'.live /\ ~srv'.over => NumKnown(E, cl'.view, pub'.num, srv'.ord + 1)
    <3>1. pub' = pub
      OBVIOUS
    <3> QED BY <3>1, <1>13
  <2> QED BY <2>3, <2>4, <2>5, <2>6 DEF Sends
<1>15. Expects(E)'
  <2>1. cl'.sub # srv'.id
    <3>1. cl.sub <= srv.id /\ cl'.sub = cl.sub
      BY <1>2, <1>4 DEF Numbered, Alike
    <3> QED BY <3>1, <1>2
  <2>2. \A T \in E : T \in Yet'
    BY <1>6 DEF Yet
  <2> QED BY <2>1, <2>2 DEF Expects
<1> QED BY <1>5, <1>7, <1>10, <1>11, <1>12, <1>14, <1>15 DEF Delivers

\* A subscribe is handled.
LEMMA SubscribeGoes ==
    ASSUME Sound, NEW H, Truth(H), NEW G, Delivers(G), Sound', ~mixed', HandleSubscribe
    PROVE  \E E : Delivers(E)'
<1> DEFINE b == <<>>
           s == [id |-> srv.id + 1, sent |-> 0, buf |-> b, over |-> FALSE, ord |-> 0,
                 held |-> FALSE, live |-> TRUE]
<1>0. PICK m : m = Head(cl.up)
  OBVIOUS
<1>1. TypeOK /\ srv.id \in Nat
  BY TopIsCurrent DEF Sound, Subscriptions
<1>2. Takes("subscribe") /\ UNCHANGED <<pub, paused, down, arrived, lost>>
  BY DEF HandleSubscribe
<1>3. \/ Answer(m, s, "snapshot", Snapshot(s, "initial"), "snapshot")
      \/ Resumable(m.base) /\ m.base.seq = CurrentSeq /\ Answer(m, s, "resume", None, "resume")
      \/ Resumable(m.base) /\ Answer(m, s, "resume", Replay(s, "initial", m.base), "resume")
  BY <1>0 DEF HandleSubscribe
<1>4. m \in Requests /\ m.op = "subscribe" /\ m.base \in Bases \cup {None}
  BY <1>0, <1>2, RequestTaken DEF Requests
<1>6. b \in Seq(1..MaxEvents) /\ b = <<>>
  OBVIOUS
<1> HIDE DEF b
<1>7. s \in Subscriptions /\ ~s.over /\ s.id = srv.id + 1 /\ s.ord = 0 /\ s.live
  BY <1>1, <1>6 DEF Subscriptions
<1> HIDE DEF s
<1>8. ASSUME NEW f, f # None => NextFrame(f, s), NEW mode \in Modes, NEW how, Answer(m, s, mode, f, how)
      PROVE  \E r \in Replies :
               /\ r.op = m.op /\ r.id = m.id /\ r.sub = s.id
               /\ f # None => outbox' = <<r>> \o Wires(f)
               /\ f = None => outbox' = <<r>> \o <<>>
               /\ srv'.id = s.id /\ srv'.live = s.live /\ srv'.over = s.over
               /\ srv'.held = (f # None)
               /\ srv'.ord = IF f # None THEN f.ord ELSE s.ord
               /\ srv'.sent = IF how = "resume" THEN m.base.seq ELSE 0
               /\ ~mixed' => (how = "resume" => m.base.num = pub.num)
               /\ timer' = FALSE
  <2>1. m.op \in {"subscribe", "resync"}
    BY <1>4
  <2>2. s \in Subscriptions /\ m \in Requests
    BY <1>4, <1>7
  <2> QED BY <2>1, <2>2, <1>8, AnswerIs
<1>9. ASSUME NEW f, NextFrame(f, s), f.use = "initial", NEW mode \in Modes, NEW how,
             f.kind = "deltas" => m.base \in Bases /\ how = "resume", Answer(m, s, mode, f, how)
      PROVE  Delivers({f})'
  <2>1. f # None
    BY <1>9, NoneAssumption DEF NextFrame
  <2>2. PICK r \in Replies :
             /\ r.id = m.id /\ r.sub = s.id /\ outbox' = <<r>> \o Wires(f)
             /\ srv'.id = s.id /\ srv'.live = s.live /\ srv'.over = s.over
             /\ srv'.held = (f # None) /\ srv'.ord = f.ord
             /\ ~mixed' => (how = "resume" => m.base.num = pub.num)
    <3>1. f # None => NextFrame(f, s)
      BY <1>9
    <3> QED BY <2>1, <3>1, <1>8, <1>9
  <2>3. PICK w : w = Wires(f)
    OBVIOUS
  <2>4. PICK E : E = {f}
    OBVIOUS
  <2>5. w \in Seq(WireSet) /\ FramesOf(w) = E
    BY <2>3, <2>4, <1>9, WiresOfFrame DEF NextFrame
  <2>6. /\ f \in Frames /\ f.sub = srv.id + 1 /\ f.ord = 1 /\ f.num = pub.num /\ f.to = CurrentSeq
        /\ f.kind = "deltas" => m.base \in Bases /\ m.base.num = pub.num /\ f.use # "online"
    BY <2>2, <1>7, <1>9 DEF NextFrame
  <2>7. /\ srv'.id = srv.id + 1 /\ srv'.live /\ ~srv'.over /\ srv'.held = (E # {}) /\ E # {}
        /\ srv'.ord = IF E = {} THEN 0 ELSE 1
    BY <2>1, <2>2, <2>4, <2>6, <1>7
  <2>8. /\ r.sub = srv.id + 1 /\ outbox' = <<r>> \o w /\ r.id = m.id
        /\ \A T \in E : T = f
    BY <2>2, <2>3, <2>4, <1>7
  <2>9. Delivers(E)'
    BY <1>0, <1>2, <2>5, <2>6, <2>7, <2>8, SubscribedGoes
  <2> QED BY <2>4, <2>9
<1>10. CASE Answer(m, s, "snapshot", Snapshot(s, "initial"), "snapshot")
  <2>0. PICK f : f = Snapshot(s, "initial")
    OBVIOUS
  <2>1. NextFrame(f, s)
    BY <2>0, <1>1, <1>7, SnapshotIsNext
  <2>2. f.use = "initial" /\ f.kind = "snapshot" /\ "snapshot" \in Modes
    BY <2>0 DEF Snapshot, Frame, Modes
  <2>3. Delivers({f})'
    BY <2>0, <2>1, <2>2, <1>9, <1>10
  <2> QED BY <2>3
<1>11. CASE Resumable(m.base) /\ Answer(m, s, "resume", Replay(s, "initial", m.base), "resume")
  <2>0. PICK f : f = Replay(s, "initial", m.base)
    OBVIOUS
  <2>1. NextFrame(f, s) /\ m.base \in Bases
    BY <2>0, <1>1, <1>4, <1>7, <1>11, ReplayIsNext
  <2>2. f.use = "initial" /\ "resume" \in Modes
    BY <2>0 DEF Replay, Frame, Modes
  <2>3. Delivers({f})'
    BY <2>0, <2>1, <2>2, <1>9, <1>11
  <2> QED BY <2>3
<1>12. CASE Resumable(m.base) /\ m.base.seq = CurrentSeq /\ Answer(m, s, "resume", None, "resume")
  <2>1. "resume" \in Modes /\ m.base \in Bases
    BY <1>4, <1>12 DEF Modes, Resumable
  <2>2. PICK r \in Replies :
             /\ r.id = m.id /\ r.sub = s.id /\ outbox' = <<r>> \o <<>>
             /\ srv'.id = s.id /\ srv'.live = s.live /\ srv'.over = s.over
             /\ srv'.held = FALSE /\ srv'.ord = s.ord /\ srv'.sent = m.base.seq
             /\ ~mixed' => m.base.num = pub.num
    BY <2>1, <1>8, <1>12
  <2>3. PICK w : w = <<>>
    OBVIOUS
  <2>4. PICK E : E = {}
    OBVIOUS
  <2>5. w \in Seq(WireSet) /\ FramesOf(w) = E
    BY <2>3, <2>4, FramesOfEmpty
  <2>6. /\ srv'.id = srv.id + 1 /\ srv'.live /\ ~srv'.over /\ srv'.held = (E # {}) /\ E = {}
        /\ srv'.ord = IF E = {} THEN 0 ELSE 1
    BY <2>2, <2>4, <1>7
  <2>7. /\ r.sub = srv.id + 1 /\ outbox' = <<r>> \o w /\ r.id = m.id
        /\ m.base \in Bases /\ m.base.num = pub.num /\ m.base.seq = CurrentSeq /\ srv'.sent = m.base.seq
    BY <2>1, <2>2, <2>3, <1>7, <1>12
  <2>8. Delivers(E)'
    BY <1>0, <1>2, <2>5, <2>6, <2>7, SubscribedGoes
  <2> QED BY <2>8
<1> QED BY <1>3, <1>10, <1>11, <1>12

-----------------------------------------------------------------------------
(* The client that opens the conversation, and the one that opens it again. *)

\* A client that has nothing under way asks once, from what it shows.
LEMMA FreshSeats ==
    ASSUME NEW c, Fresh(c), NEW d, d = Connect(c, FALSE), NEW s
    PROVE  Based(d) /\ Seats(d, s, {})
<1> DEFINE b == Base(c)
           g == c.gen + 1
           x == [op |-> "subscribe", id |-> g, sub |-> 0, base |-> b, force |-> FALSE]
           u == Append(c.up, x)
           q == c.pending \cup {g}
<1>1. c \in Clients /\ c.up = <<>>
  BY DEF Fresh, ClientOK
<1>2. (\A i \in 1..Len(u) : i = 1) /\ u[1] = x
  BY <1>1
<1>3. x.op = "subscribe" /\ x.id = g /\ x.base = b /\ g \in q
  OBVIOUS
<1>4. b # None => Past(b, c.view)
  <2>1. CASE c.view = None
    BY <2>1 DEF Base
  <2>2. CASE c.view # None
    <3>1. c.view \in Views
      BY <1>1, <2>2 DEF Clients
    <3>2. c.view.seq \in Nat
      BY <3>1 DEF Views
    <3>3. b.seq = c.view.seq /\ b.num = c.view.num
      BY <2>2 DEF Base
    <3> QED BY <2>2, <3>2, <3>3 DEF Past
  <2> QED BY <2>1, <2>2
<1>5. d = [c EXCEPT !.gen = g, !.flight = None, !.status = "connecting", !.pending = q, !.up = u]
  BY DEF Connect
<1> HIDE DEF b, g, x, u, q
<1>6. d.gen = g /\ d.status = "connecting" /\ d.pending = q /\ d.up = u /\ d.view = c.view
  BY <1>1, <1>5 DEF Clients
<1>7. \A i \in 1..Len(d.up) : i = 1 /\ d.up[i] = x
  BY <1>2, <1>6
<1>8. Based(d)
  BY <1>3, <1>4, <1>6, <1>7 DEF Based
<1>9. Seats(d, s, {})
  <2>1. \A i \in 1..Len(d.up) : d.up[i].op = "subscribe" /\ d.up[i].id = d.gen /\ d.gen \in d.pending
    BY <1>3, <1>6, <1>7
  <2>2. \A i, j \in 1..Len(d.up) : ~(j > i)
    <3> SUFFICES ASSUME NEW i \in 1..Len(d.up), NEW j \in 1..Len(d.up) PROVE ~(j > i)
      OBVIOUS
    <3>1. i = 1 /\ j = 1
      BY <1>7
    <3> QED BY <3>1
  <2>3. d.status # "live"
    BY <1>6
  <2> QED BY <2>1, <2>2, <2>3 DEF Seats
<1> QED BY <1>8, <1>9

\* The client is replaced by another, or its connection is.
LEMMA ReplaceGoes ==
    ASSUME Sound, NEW G, Delivers(G), Replace
    PROVE  Delivers(G)'
<1> DEFINE gen == cl.gen + 1
           e == <<>>
           c == [cl EXCEPT !.gen = gen, !.flight = None, !.sub = 0, !.applied = FALSE,
                           !.awaiting = FALSE, !.dec = BlankDecoder, !.pending = {},
                           !.staged = e, !.up = e]
           t == [srv EXCEPT !.live = FALSE, !.held = FALSE]
<1>1. TypeOK /\ srv \in Subscriptions /\ ClientOK(cl) /\ cl \in Clients
  BY TopIsCurrent DEF Sound, TypeOK, ClientOK
<1>2. cl' = Connect(c, FALSE) /\ srv' = t
  BY <1>1 DEF Replace, Clients
<1>3. /\ down' = <<>> /\ arrived' = {} /\ outbox' = <<>> /\ pub' = pub
  BY DEF Replace
<1>4. BlankDecoder \in Decoders /\ BlankDecoder.ord = 0
  BY DEF BlankDecoder, Decoders
<1>5. e \in Seq(WireSet) /\ e \in Seq(Requests) /\ e = <<>>
  OBVIOUS
<1>6. gen \in Nat
  BY <1>1 DEF Clients
<1> HIDE DEF gen, e
<1>7. Fresh(c) /\ c.view = cl.view
  <2>1. c \in Clients
    BY <1>1, <1>4, <1>5, <1>6 DEF Clients
  <2>2. /\ c.flight = None /\ c.sub = 0 /\ c.applied = FALSE /\ c.awaiting = FALSE
        /\ c.dec = BlankDecoder /\ c.pending = {} /\ c.staged = e /\ c.up = e /\ c.view = cl.view
    BY <1>1 DEF Clients
  <2> HIDE DEF c
  <2>3. ClientOK(c)
    BY <1>4, <1>5, <2>1, <2>2 DEF ClientOK
  <2> QED BY <1>5, <2>2, <2>3 DEF Fresh
<1> HIDE DEF c
<1>8. cl'.sub = 0 /\ cl'.staged = <<>> /\ cl'.view = cl.view
  BY <1>2, <1>7, ConnectFresh
<1>9. t.id = srv.id /\ t.ord = srv.ord /\ ~t.live
  BY <1>1 DEF Subscriptions
<1> HIDE DEF t
<1>10. srv'.id = srv.id /\ srv'.ord = srv.ord /\ ~srv'.live
  BY <1>2, <1>9
<1>11. Based(cl') /\ Seats(cl', srv', {})
  <2> DEFINE d == cl'
             s == srv'
  <2>1. d = Connect(c, FALSE)
    BY <1>2
  <2> HIDE DEF d, s
  <2>2. Based(d) /\ Seats(d, s, {})
    BY <1>7, <2>1, FreshSeats
  <2> QED BY <2>2 DEF d, s
<1>12. /\ SentIn(G, pub'.num, srv'.ord) /\ DeltasKnown(G, cl'.view, pub'.num)
       /\ \A T \in G : T.sub = srv'.id /\ (T.num = pub'.num => T.to <= Top(pub'))
       /\ srv'.ord # 0 => \E T \in G : T.ord = srv'.ord
  <2>1. /\ SentIn(G, pub.num, srv.ord) /\ DeltasKnown(G, cl.view, pub.num)
        /\ \A T \in G : T.sub = srv.id /\ (T.num = pub.num => T.to <= Top(pub))
        /\ srv.ord # 0 => \E T \in G : T.ord = srv.ord
    BY DEF Delivers, Sent
  <2> QED BY <1>3, <1>8, <1>10, <2>1
<1>13. /\ FramesOf(down') = {} /\ FramesOf(outbox') = {} /\ FramesOf(cl'.staged) = {}
       /\ Len(down') = 0 /\ Len(outbox') = 0 /\ Len(cl'.staged) = 0
  BY <1>3, <1>8, FramesOfEmpty
<1>14. UnderWay' = {} /\ OnTheWay' = {}
  BY <1>3, <1>13 DEF UnderWay, OnTheWay
<1>15. Sent(G)'
  BY <1>12, <1>14 DEF Sent
<1>16. Ordered'
  BY <1>13 DEF Ordered, Sorted, Before
<1>17. Sends(G)'
  BY <1>10 DEF Sends
<1>18. Expects(G)'
  BY <1>8, <1>14 DEF Expects
<1> QED BY <1>11, <1>12, <1>14, <1>15, <1>16, <1>17, <1>18 DEF Delivers

\* At first nothing has been sent.
LEMMA DeliversAtFirst == ASSUME Init PROVE Delivers({})
<1> DEFINE e == <<>>
           c == [status |-> "connecting", gen |-> 0, sub |-> 0, view |-> None, applied |-> FALSE,
                 awaiting |-> FALSE, flight |-> None, flights |-> 0, dec |-> BlankDecoder,
                 pending |-> {}, staged |-> e, up |-> e]
<1>1. /\ srv.id = 0 /\ srv.ord = 0 /\ ~srv.live /\ down = <<>> /\ outbox = <<>> /\ arrived = {}
  BY DEF Init
<1>2. e \in Seq(WireSet) /\ e \in Seq(Requests) /\ e = <<>>
  OBVIOUS
<1>3. cl = Connect(c, FALSE)
  BY DEF Init, BlankClient
<1>4. BlankDecoder \in Decoders /\ BlankDecoder.ord = 0
  BY DEF BlankDecoder, Decoders
<1>5. /\ c = [status |-> "connecting", gen |-> 0, sub |-> 0, view |-> None, applied |-> FALSE,
              awaiting |-> FALSE, flight |-> None, flights |-> 0, dec |-> BlankDecoder,
              pending |-> {}, staged |-> e, up |-> e]
  OBVIOUS
<1> HIDE DEF e, c
<1>6. Fresh(c)
  <2>1. c \in Clients
    BY <1>2, <1>4, <1>5 DEF Clients
  <2>2. ClientOK(c)
    BY <1>2, <1>4, <1>5, <2>1 DEF ClientOK
  <2> QED BY <1>2, <1>5, <2>2 DEF Fresh
<1>7. cl.sub = 0 /\ cl.staged = <<>>
  BY <1>3, <1>6, ConnectFresh
<1>8. Based(cl) /\ Seats(cl, srv, {})
  <2> DEFINE d == cl
             s == srv
  <2>1. d = Connect(c, FALSE)
    BY <1>3
  <2> HIDE DEF d, s
  <2>2. Based(d) /\ Seats(d, s, {})
    BY <1>6, <2>1, FreshSeats
  <2> QED BY <2>2 DEF d, s
<1>9. /\ FramesOf(down) = {} /\ FramesOf(outbox) = {} /\ FramesOf(cl.staged) = {}
      /\ Len(down) = 0 /\ Len(outbox) = 0 /\ Len(cl.staged) = 0
  BY <1>1, <1>7, FramesOfEmpty
<1>10. UnderWay = {} /\ OnTheWay = {}
  BY <1>1, <1>9 DEF UnderWay, OnTheWay
<1>11. Sent({}) /\ DeltasKnown({}, cl.view, pub.num)
  BY <1>1, <1>10 DEF Sent, SentIn, DeltasKnown
<1>12. Ordered
  BY <1>9 DEF Ordered, Sorted, Before
<1>13. Sends({})
  BY <1>1 DEF Sends
<1>14. Expects({})
  BY <1>7, <1>10 DEF Expects
<1> QED BY <1>8, <1>10, <1>11, <1>12, <1>13, <1>14 DEF Delivers

-----------------------------------------------------------------------------
(* Every step keeps the invariant, as long as the numbering of what is shown *)
(* is known.                                                                 *)

\* Once mixed, always mixed.
LEMMA MixedStays ==
    ASSUME [Next]_vars, ~mixed'
    PROVE  ~mixed
<1>1. CASE FlushTimer \/ HandleSubscribe \/ HandleResync
  BY <1>1 DEF FlushTimer, Flush, HandleSubscribe, HandleResync, Answer
<1>2. CASE HandleUnsubscribe \/ Respond \/ Deliver \/ Expire \/ Deadline
  BY <1>2 DEF HandleUnsubscribe, Respond, Deliver, Expire, Deadline, historyVars
<1>3. ASSUME NEW m \in arrived, Continue(m) PROVE ~mixed
  BY <1>3 DEF Continue, historyVars
<1>4. CASE Goes
  BY <1>1, <1>2, <1>3, <1>4 DEF Goes
<1>5. ASSUME NEW empty \in BOOLEAN, Ingest(empty) PROVE ~mixed
  BY <1>5 DEF Ingest, historyVars
<1>6. CASE Saturated \/ Drained
  BY <1>6 DEF Saturated, Drained, Flush, historyVars
<1>7. ASSUME NEW n \in 1..CurrentSeq, Rehydrate(n) PROVE ~mixed
  BY <1>7 DEF Rehydrate, historyVars
<1>8. ASSUME NEW how \in {"lost", "garbled", "unreadable"}, Damage(how) PROVE ~mixed
  BY <1>8 DEF Damage, historyVars
<1>9. CASE Retry \/ RecoverFromStaleAuthority \/ Replace
  BY <1>9 DEF Retry, RecoverFromStaleAuthority, Replace, historyVars
<1>10. CASE UNCHANGED vars
  BY <1>10 DEF vars, historyVars
<1> QED BY <1>4, <1>5, <1>6, <1>7, <1>8, <1>9, <1>10 DEF Next

\* A step that changes nothing.
LEMMA NothingGoes ==
    ASSUME NEW G, Delivers(G), UNCHANGED vars
    PROVE  Delivers(G)'
<1>1. UNCHANGED <<pub, srv, timer, paused, outbox, down, arrived, cl, lost>>
  BY DEF vars, serverVars, historyVars
<1>2. OnTheWay' = OnTheWay /\ UnderWay' = UnderWay /\ Yet' = Yet /\ CurrentSeq' = CurrentSeq
  BY <1>1 DEF OnTheWay, UnderWay, Yet, CurrentSeq
<1>3. Sent(G)'
  BY <1>1, <1>2 DEF Delivers, Sent
<1>4. Ordered'
  BY <1>1 DEF Delivers, Ordered
<1>5. DeltasKnown(G, cl'.view, pub'.num)
  BY <1>1 DEF Delivers
<1>6. Sends(G)'
  BY <1>1, <1>2 DEF Delivers, Sends
<1>7. Based(cl') /\ Seats(cl', srv', UnderWay')
  BY <1>1, <1>2 DEF Delivers
<1>8. Expects(G)'
  BY <1>1, <1>2 DEF Delivers, Expects
<1> QED BY <1>3, <1>4, <1>5, <1>6, <1>7, <1>8 DEF Delivers

\* Every step.
LEMMA StepDelivers ==
    ASSUME Sound, NEW H, Truth(H), NEW G, Delivers(G), [Next]_vars, ~mixed'
    PROVE  \E E : Delivers(E)'
<1>1. Sound'
  BY StepSound
<1>2. PICK K : Truth(K)'
  <2>1. \E K : Truth(K)'
    BY StepSound
  <2> QED BY <2>1
<1>3. CASE Goes
  <2>1. CASE FlushTimer
    BY <1>1, <2>1, FlushTimerGoes
  <2>2. CASE HandleSubscribe
    BY <1>1, <2>2, SubscribeGoes
  <2>3. CASE HandleResync
    BY <1>1, <2>3, ResyncGoes
  <2>4. CASE HandleUnsubscribe
    BY <1>1, <2>4, UnsubscribeGoes
  <2>5. CASE Respond
    BY <1>1, <2>5, RespondGoes
  <2>6. CASE Deliver
    BY <1>1, <1>2, <2>6, DeliverGoes
  <2>7. ASSUME NEW m \in arrived, Continue(m) PROVE Delivers(G)'
    BY <1>1, <1>2, <2>7, ContinueGoes
  <2>8. CASE Expire
    BY <1>1, <1>2, <2>8, ExpireGoes
  <2>9. CASE Deadline
    BY <1>1, <1>2, <2>9, AskingGoes
  <2> QED BY <1>3, <2>1, <2>2, <2>3, <2>4, <2>5, <2>6, <2>7, <2>8, <2>9 DEF Goes
<1>4. ASSUME NEW empty \in BOOLEAN, Ingest(empty) PROVE Delivers(G)'
  BY <1>1, <1>4, IngestGoes
<1>5. CASE Saturated
  BY <1>1, <1>5, SaturatedGoes
<1>6. CASE Drained
  BY <1>1, <1>6, DrainedGoes
<1>7. ASSUME NEW n \in 1..CurrentSeq, Rehydrate(n) PROVE Delivers(G)'
  BY <1>1, <1>7, RehydrateGoes
<1>8. ASSUME NEW how \in {"lost", "garbled", "unreadable"}, Damage(how) PROVE Delivers(G)'
  BY <1>1, <1>2, <1>8, DamageGoes
<1>9. CASE Retry \/ RecoverFromStaleAuthority
  BY <1>1, <1>2, <1>9, AskingGoes
<1>10. CASE Replace
  BY <1>10, ReplaceGoes
<1>11. CASE UNCHANGED vars
  BY <1>11, NothingGoes
<1> QED BY <1>3, <1>4, <1>5, <1>6, <1>7, <1>8, <1>9, <1>10, <1>11 DEF Next

\* When all is quiet, the client shows what the last frame of the subscription brings, or
\* what it had when nothing was to be sent.
LEMMA QuietHasAll ==
    ASSUME Sound, NEW H, Truth(H), NEW G, Delivers(G), Quiet, <<srv.id, srv.ord>> \notin lost
    PROVE  /\ srv.live /\ cl.sub = srv.id
           /\ cl.view # None /\ cl.view.num = pub.num /\ cl.view.seq >= CurrentSeq
<1>1. /\ outbox = <<>> /\ down = <<>> /\ ~timer /\ ~paused
      /\ cl.status = "live" /\ cl.flight = None /\ cl.dec.ord = 0
  BY DEF Quiet
<1>2. srv.live /\ cl.sub = srv.id
  BY <1>1 DEF Delivers, Seats
<1>3. ~srv.held /\ srv.id # 0
  BY <1>1, <1>2 DEF Sound, TypeOK, PublisherOK, Numbered
<1>4. srv.sent = CurrentSeq /\ ~srv.over
  BY <1>1, <1>2, <1>3 DEF Delivers, Sends
<1>5. Yet = {}
  BY <1>1, FramesOfEmpty DEF Yet
<1>6. CASE srv.ord = 0
  <2>1. cl.view # None /\ cl.view.num = pub.num /\ cl.view.seq >= srv.sent
    BY <1>2, <1>4, <1>6 DEF Delivers, Sends
  <2> QED BY <1>2, <1>4, <2>1
<1>7. CASE srv.ord # 0
  <2>1. PICK T \in G : T.ord = srv.ord
    BY <1>7 DEF Delivers, Sent
  <2>2. T.sub = srv.id
    BY DEF Delivers, Sent
  <2>3. T.num = pub.num /\ T.to = CurrentSeq
    BY <1>2, <1>3, <1>4, <2>1 DEF Delivers, Sends
  <2>4. Awaited(T, cl.view, pub.num, lost)
    BY <2>1, <2>2, <2>3 DEF Awaited
  <2>5. Rest(cl, {}, G, pub.num, lost)
    BY <1>2, <1>3, <1>5 DEF Delivers, Expects, Waits
  <2>6. Shall(cl, {}, T)
    BY <1>1, <2>4, <2>5 DEF Rest, AtRest
  <2>7. Covers(cl.view, T)
    BY <1>1, <2>6 DEF Shall, Begun
  <2> QED BY <1>2, <2>3, <2>7 DEF Covers
<1> QED BY <1>6, <1>7

-----------------------------------------------------------------------------
(* The theorem. *)

\* The inductive invariant.
CIInv == IInv /\ (mixed \/ \E G : Delivers(G))

\* The invariant of the numbering, and of what is delivered while the numbering of what is
\* shown is known, holds always.
THEOREM CatchUpInvariance == Spec => []CIInv
<1>1. Init => CIInv
  <2> SUFFICES ASSUME Init PROVE CIInv
    OBVIOUS
  <2>1. IInv /\ Delivers({})
    BY InitSound, DeliversAtFirst
  <2> QED BY <2>1 DEF CIInv
<1>2. CIInv /\ [Next]_vars => CIInv'
  <2> SUFFICES ASSUME CIInv, [Next]_vars PROVE CIInv'
    OBVIOUS
  <2>1. PICK H : Truth(H)
    BY DEF CIInv, IInv
  <2>2. Sound
    BY DEF CIInv, IInv
  <2>3. Sound' /\ (\E K : Truth(K)')
    BY <2>1, <2>2, StepSound
  <2>4. ASSUME ~mixed' PROVE \E E : Delivers(E)'
    <3>1. ~mixed
      BY <2>4, MixedStays
    <3>2. PICK G : Delivers(G)
      BY <3>1 DEF CIInv
    <3> QED BY <2>1, <2>2, <2>4, <3>2, StepDelivers
  <2> QED BY <2>3, <2>4 DEF CIInv, IInv
<1> QED BY <1>1, <1>2, PTL DEF Spec

\* When nothing is under way and no recovery is open, the client shows everything the
\* publisher has, unless the last frame of all is the one that was lost: no wake-up of a
\* flush is lost (topicPublisher.ts) and no recovery ends too early (flightController.ts).
THEOREM CatchesUp == Spec => []CaughtUp
<1>1. CIInv => CaughtUp
  <2> SUFFICES ASSUME CIInv, Quiet, ~mixed, <<srv.id, srv.ord>> \notin lost
               PROVE  /\ srv.live /\ cl.sub = srv.id
                      /\ cl.view # None /\ cl.view.num = pub.num /\ cl.view.seq = CurrentSeq
                      /\ cl.view.rows = RowsAt(CurrentSeq)
    BY DEF CaughtUp
  <2>1. PICK H : Truth(H)
    BY DEF CIInv, IInv
  <2>2. Sound
    BY DEF CIInv, IInv
  <2>3. PICK G : Delivers(G)
    BY DEF CIInv
  <2>4. /\ srv.live /\ cl.sub = srv.id
        /\ cl.view # None /\ cl.view.num = pub.num /\ cl.view.seq >= CurrentSeq
    BY <2>1, <2>2, <2>3, QuietHasAll
  <2>5. ViewTrue(cl.view, pub)
    BY <2>1, <2>4 DEF Truth, Showing
  <2>6. Top(pub) = CurrentSeq /\ CurrentSeq \in Nat /\ pub.start \in Nat
    BY <2>2, TopIsCurrent DEF Sound
  <2>7. cl.view.seq = CurrentSeq
    BY <2>4, <2>5, <2>6 DEF ViewTrue
  <2> QED BY <2>4, <2>5, <2>7 DEF ViewTrue, Held, RowsAt
<1> QED BY <1>1, CatchUpInvariance, PTL
=============================================================================
