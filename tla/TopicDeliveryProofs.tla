------------------------- MODULE TopicDeliveryProofs -------------------------
(***************************************************************************)
(* TopicDelivery, for any number of events and of troubles and any sizes   *)
(* of the log, the buffer and the snapshots: its types; what the client    *)
(* shows is what the publisher held; and what it shows never goes back.    *)
(***************************************************************************)
EXTENDS TopicDeliverySteps

Messages == Replies \cup WireSet

\* The frames of the wires in s, and all that are under way.
FramesOf(s) == { s[i].frame : i \in { k \in 1..Len(s) : s[k] \in WireSet } }
OnTheWay == FramesOf(down) \cup FramesOf(outbox) \cup FramesOf(cl.staged)

\* A reply is no wire.
LEMMA ReplyOrWire ==
    /\ \A m \in Replies : IsReply(m) /\ m \notin WireSet /\ m \notin Requests
    /\ \A w \in WireSet : ~IsReply(w) /\ w \notin Replies /\ w \notin Requests
<1>1. ASSUME NEW m \in Replies PROVE "op" \in DOMAIN m /\ "base" \notin DOMAIN m
  BY DEF Replies
<1>2. ASSUME NEW w \in WireSet PROVE "op" \notin DOMAIN w
  BY DEF WireSet
<1>3. ASSUME NEW q \in Requests PROVE "op" \in DOMAIN q /\ "base" \in DOMAIN q
  BY DEF Requests
<1> QED BY <1>1, <1>2, <1>3 DEF IsReply

\* Nothing is under way in an empty channel.
LEMMA FramesOfEmpty == FramesOf(<<>>) = {}
BY DEF FramesOf

\* What is under way in two channels.
LEMMA FramesOfConcat ==
    ASSUME NEW s \in Seq(Messages), NEW t \in Seq(Messages)
    PROVE  FramesOf(s \o t) \subseteq FramesOf(s) \cup FramesOf(t)
<1>1. /\ Len(s \o t) = Len(s) + Len(t) /\ Len(s) \in Nat /\ Len(t) \in Nat
      /\ \A i \in 1..Len(s) + Len(t) : (s \o t)[i] = IF i <= Len(s) THEN s[i] ELSE t[i - Len(s)]
  BY ConcatProperties
<1> SUFFICES ASSUME NEW i \in 1..Len(s) + Len(t), (s \o t)[i] \in WireSet
             PROVE  (s \o t)[i].frame \in FramesOf(s) \cup FramesOf(t)
  BY <1>1 DEF FramesOf
<1>2. CASE i <= Len(s)
  BY <1>1, <1>2 DEF FramesOf
<1>3. CASE ~(i <= Len(s))
  <2>1. i - Len(s) \in 1..Len(t) /\ (s \o t)[i] = t[i - Len(s)]
    BY <1>1, <1>3
  <2> QED BY <2>1 DEF FramesOf
<1> QED BY <1>2, <1>3

\* What is taken from a channel leaves no new frame in it.
LEMMA FramesOfTail ==
    ASSUME NEW s \in Seq(Messages), s # <<>>
    PROVE  /\ FramesOf(Tail(s)) \subseteq FramesOf(s)
           /\ s[1] \in WireSet => s[1].frame \in FramesOf(s)
<1>1. Tail(s) \in Seq(Messages) /\ Len(Tail(s)) = Len(s) - 1 /\ Len(s) \in Nat
      /\ \A i \in 1..Len(Tail(s)) : Tail(s)[i] = s[i + 1]
  BY HeadTailProperties
<1>2. \A i \in 1..Len(Tail(s)) : i + 1 \in 1..Len(s)
  BY <1>1
<1>3. 1 \in 1..Len(s)
  <2>1. Len(s) # 0
    OBVIOUS
  <2> QED BY <2>1, <1>1
<1> QED BY <1>1, <1>2, <1>3 DEF FramesOf

\* A frame and its wires.
LEMMA WiresOfFrame ==
    ASSUME NEW f \in Frames
    PROVE  /\ Wires(f) \in Seq(Messages) /\ Wires(f) \in Seq(WireSet) /\ Len(Wires(f)) >= 1
           /\ \A i \in 1..Len(Wires(f)) : Wires(f)[i] \in WireSet /\ Wires(f)[i].frame = f
           /\ FramesOf(Wires(f)) = {f}
<1> DEFINE parts == IF f.kind = "snapshot" THEN SnapshotParts ELSE 1
           w(p) == [frame |-> f, part |-> p, parts |-> parts, bad |-> "no"]
<1>1. parts \in Nat /\ parts >= 1
  BY TopicDeliveryAssumption
<1>2. Wires(f) = [p \in 1..parts |-> w(p)]
  BY DEF Wires
<1> HIDE DEF parts
<1>3. \A p \in 1..parts : w(p) \in WireSet /\ w(p).frame = f
  BY <1>1 DEF WireSet
<1> HIDE DEF w
<1>4. Wires(f) \in Seq(WireSet) /\ Len(Wires(f)) = parts
      /\ \A i \in 1..parts : Wires(f)[i] \in WireSet /\ Wires(f)[i].frame = f
  BY <1>1, <1>2, <1>3
<1>5. Wires(f) \in Seq(Messages)
  BY <1>4, SeqMonotonic DEF Messages
<1>6. FramesOf(Wires(f)) = {f}
  <2>1. 1 \in 1..parts
    BY <1>1
  <2> QED BY <2>1, <1>4 DEF FramesOf
<1> QED BY <1>1, <1>4, <1>5, <1>6

-----------------------------------------------------------------------------
(* The inductive invariant. *)

\* The last of the frames under way is the last that was sent.
Newest(F, s) == \A f \in F : f.sub <= s.id /\ (f.sub = s.id => f.ord <= s.ord)

\* H remembers the projections of earlier numberings; the last is the publisher's.
Truth(H) ==
    /\ FramesTrue(OnTheWay, H, pub)
    /\ Newest(OnTheWay, srv)
    /\ Showing(cl, OnTheWay, H, pub)

\* The reply to the latest subscribe brings a later subscription than the client has.
Asks(m) == m \in Replies \cup Requests /\ m.op = "subscribe"
Answers(m, c, s) ==
    Asks(m) => m.sub <= s.id /\ m.id <= c.gen /\ (m.id = c.gen => m.sub > c.sub)
Numbered ==
    /\ cl.sub <= srv.id /\ (srv.live => srv.id # 0)
    /\ \A m \in arrived : Answers(m, cl, srv)
    /\ \A i \in 1..Len(down) : Answers(down[i], cl, srv)
    /\ \A i \in 1..Len(outbox) : Answers(outbox[i], cl, srv)
    /\ \A i \in 1..Len(cl.up) : Asks(cl.up[i]) => cl.up[i].id <= cl.gen

\* No two requests and replies that are under way belong to one subscribe.
Once(s) == \A i, j \in 1..Len(s) : i < j /\ Asks(s[i]) /\ Asks(s[j]) => s[i].id # s[j].id
Apart(s, t) ==
    \A i \in 1..Len(s), j \in 1..Len(t) : Asks(s[i]) /\ Asks(t[j]) => s[i].id # t[j].id
Off(A, s) == \A m \in A, i \in 1..Len(s) : Asks(m) /\ Asks(s[i]) => m.id # s[i].id
Distinct ==
    /\ Once(down) /\ Once(cl.up)
    /\ Apart(down, outbox) /\ Apart(down, cl.up) /\ Apart(outbox, cl.up)
    /\ Off(arrived, down) /\ Off(arrived, outbox) /\ Off(arrived, cl.up)
    /\ \A m, n \in arrived : Asks(m) /\ Asks(n) /\ m.id = n.id => m = n

\* What the projection p has added since the last frame is in the buffer of s, unless that
\* has run over.  The last frame is the one in the outbox o while it is reserved.
Since(p, n) == Rows(SubSeq(p.log, n - p.start + 1, Len(p.log)))
Buffers(s, n, p) == n \in p.start..Top(p) /\ s.buf = Since(p, n)
Reserved(s, o, p) ==
    /\ Len(o) > 1 /\ Last(o) \in WireSet
    /\ Last(o).frame.num = p.num /\ Last(o).frame.to \in p.start..Top(p)
    /\ s.over \/ Buffers(s, Last(o).frame.to, p)
BufferHolds(s, o, p) ==
    /\ s.held => Reserved(s, o, p)
    /\ s.live /\ ~s.held /\ ~s.over => Buffers(s, s.sent, p)
BufferTrue == BufferHolds(srv, outbox, pub)

\* The whole.  H is not a variable: it is enough that there are such projections.
Sound == TypeOK /\ Numbered /\ Distinct /\ BufferTrue
IInv  == Sound /\ \E H : Truth(H)

-----------------------------------------------------------------------------
(* Fewer frames, and one more. *)

\* What is true of the frames under way is true of fewer.
LEMMA FewerFrames ==
    ASSUME NEW F, NEW G, G \subseteq F, NEW H, NEW p, FramesTrue(F, H, p), NEW s, Newest(F, s),
           NEW c, Showing(c, F, H, p)
    PROVE  FramesTrue(G, H, p) /\ Newest(G, s) /\ Showing(c, G, H, p)
BY DEF FramesTrue, Newest, Showing

\* A frame that the last subscription sends next, and that goes as far as the publisher,
\* may be added to those under way.
LEMMA LaterIsLast ==
    ASSUME NEW F, NEW H, NEW p, FramesTrue(F, H, p), NEW s \in Subscriptions, Newest(F, s),
           NEW c, ClientOK(c), Showing(c, F, H, p), NEW f \in Frames,
           f.sub # 0, f.sub > s.id \/ (f.sub = s.id /\ f.ord > s.ord),
           f.num = p.num, f.to = Top(p), FrameTrue(f, p)
    PROVE  /\ FramesTrue(F \cup {f}, H, p)
           /\ Newest(F \cup {f}, [s EXCEPT !.id = f.sub, !.ord = f.ord])
           /\ Showing(c, F \cup {f}, H, p)
<1>1. f.sub \in Nat /\ f.ord \in Nat /\ f.num \in Nat /\ f.to \in Nat /\ s.id \in Nat /\ s.ord \in Nat
      /\ p.num \in Nat /\ H[f.num] = p
  BY DEF Frames, Subscriptions, FramesTrue, Projections
<1>2. \A g \in F : g.sub \in Nat /\ g.ord \in Nat /\ g.num \in Nat /\ g.to \in Nat
  BY DEF FramesTrue, Frames
<1>3. \A g \in F : ~Earlier(f, g) /\ Behind(g, f)
  <2> SUFFICES ASSUME NEW g \in F PROVE ~Earlier(f, g) /\ Behind(g, f)
    OBVIOUS
  <2>1. g.sub <= s.id /\ (g.sub = s.id => g.ord <= s.ord)
    BY DEF Newest
  <2>2. ~Earlier(f, g)
    BY <2>1, <1>1, <1>2 DEF Earlier
  <2>3. g.num <= p.num /\ FrameTrue(g, H[g.num])
    BY DEF FramesTrue
  <2>4. g.num = p.num => g.to <= f.to
    <3>1. p.log \in Seq(0..MaxEvents) /\ p.start \in Nat
      BY DEF FramesTrue, Projections
    <3>2. Len(p.log) \in Nat
      BY <3>1
    <3>3. g.num = p.num => g.to <= Top(p)
      BY <2>3, <1>1, <3>1, <3>2 DEF FrameTrue, Top
    <3> QED BY <3>3
  <2>5. Behind(g, f)
    BY <2>3, <2>4, <1>1, <1>2 DEF Behind
  <2> QED BY <2>2, <2>5
<1>4. ~Earlier(f, f)
  BY <1>1 DEF Earlier
<1>5. FramesTrue(F \cup {f}, H, p)
  BY <1>1, <1>3, <1>4 DEF FramesTrue
<1>6. Newest(F \cup {f}, [s EXCEPT !.id = f.sub, !.ord = f.ord])
  <2> DEFINE t == [s EXCEPT !.id = f.sub, !.ord = f.ord]
  <2>1. t.id = f.sub /\ t.ord = f.ord
    BY DEF Subscriptions
  <2> HIDE DEF t
  <2>2. \A g \in F : g.sub <= f.sub /\ (g.sub = f.sub => g.ord <= f.ord)
    BY <1>1, <1>2 DEF Newest
  <2>3. Newest(F \cup {f}, t)
    BY <2>1, <2>2, <1>1 DEF Newest
  <2> QED BY <2>3 DEF t
<1>7. ASSUME c.view # None PROVE Ready(c.view, f, H)
  <2>1. c.view \in Views
    BY <1>7 DEF ClientOK, Clients
  <2>2. c.view.num \in Nat /\ c.view.seq \in Nat
    BY <2>1 DEF Views
  <2>3. c.view.num <= p.num /\ (c.view.num = p.num => ViewTrue(c.view, p))
    BY <1>7 DEF Showing
  <2>4. p.log \in Seq(0..MaxEvents) /\ p.start \in Nat
    BY DEF FramesTrue, Projections
  <2>5. Len(p.log) \in Nat
    BY <2>4
  <2> QED BY <2>2, <2>3, <2>4, <2>5, <1>1 DEF Ready, ViewTrue, Top
<1>8. Showing(c, F \cup {f}, H, p)
  BY <1>7 DEF Showing
<1> QED BY <1>5, <1>6, <1>8

\* s lists some of the messages of t in their order.
PartOf(s, t) ==
    /\ s \in Seq(Messages)
    /\ \A i \in 1..Len(s) : \E k \in 1..Len(t) : s[i] = t[k]
    /\ \A i, j \in 1..Len(s) : i < j => \E k, l \in 1..Len(t) : k < l /\ s[i] = t[k] /\ s[j] = t[l]

\* A channel, and what is left of it.
LEMMA TailIsPart ==
    ASSUME NEW s \in Seq(Messages)
    PROVE  PartOf(s, s) /\ PartOf(<<>>, s) /\ (s # <<>> => PartOf(Tail(s), s))
<1>1. PartOf(s, s) /\ PartOf(<<>>, s)
  BY DEF PartOf
<1>2. ASSUME s # <<>> PROVE PartOf(Tail(s), s)
  <2>1. Tail(s) \in Seq(Messages) /\ Len(Tail(s)) = Len(s) - 1 /\ Len(s) \in Nat
        /\ \A i \in 1..Len(Tail(s)) : Tail(s)[i] = s[i + 1]
    BY <1>2, HeadTailProperties
  <2>2. \A i \in 1..Len(Tail(s)) : i + 1 \in 1..Len(s)
    BY <2>1
  <2>3. \A i, j \in 1..Len(Tail(s)) : i < j => i + 1 < j + 1
    BY <2>1
  <2> DEFINE t == Tail(s)
  <2>4. \A i, j \in 1..Len(t) : i < j =>
          \E k, l \in 1..Len(s) : k < l /\ t[i] = s[k] /\ t[j] = s[l]
    <3> SUFFICES ASSUME NEW i \in 1..Len(t), NEW j \in 1..Len(t), i < j
                 PROVE  \E k, l \in 1..Len(s) : k < l /\ t[i] = s[k] /\ t[j] = s[l]
      OBVIOUS
    <3>1. i + 1 \in 1..Len(s) /\ j + 1 \in 1..Len(s) /\ i + 1 < j + 1
          /\ t[i] = s[i + 1] /\ t[j] = s[j + 1]
      BY <2>1, <2>2, <2>3
    <3> QED BY <3>1
  <2> QED BY <2>1, <2>2, <2>4 DEF PartOf
<1> QED BY <1>1, <1>2

\* A part of the messages has no more frames.
LEMMA FramesOfPart ==
    ASSUME NEW s, NEW t, PartOf(s, t)
    PROVE  FramesOf(s) \subseteq FramesOf(t)
<1> SUFFICES ASSUME NEW i \in 1..Len(s), s[i] \in WireSet PROVE s[i].frame \in FramesOf(t)
  BY DEF FramesOf
<1>1. PICK k \in 1..Len(t) : s[i] = t[k]
  BY DEF PartOf
<1> QED BY <1>1 DEF FramesOf

-----------------------------------------------------------------------------
(* A step of the client, which takes messages from the channel. *)

\* What is still on its way after the step.
Taking ==
    /\ PartOf(down', down) /\ arrived' \subseteq arrived
    /\ pub' = pub /\ srv' = srv /\ outbox' = outbox

\* The client stays with its subscription, or takes the one its latest subscribe has got.
Subscribed ==
    \/ cl'.sub = cl.sub
    \/ /\ cl'.sub <= srv.id
       /\ \A m \in arrived' : Asks(m) => m.id # cl.gen
       /\ \A i \in 1..Len(down') : Asks(down'[i]) => down'[i].id # cl.gen
       /\ \A i \in 1..Len(outbox) : Asks(outbox[i]) => outbox[i].id # cl.gen

\* The frames of the wires the barrier keeps.
LEMMA FramesOfStaged ==
    ASSUME NEW c, ClientOK(c), NEW F
    PROVE  /\ FramesOf(c.staged) \subseteq F => StagedIn(c, F)
           /\ StagedIn(c, F) => FramesOf(c.staged) \subseteq F
<1>1. c.staged \in Seq(WireSet)
  BY DEF ClientOK, Clients
<1>2. \A i \in 1..Len(c.staged) : c.staged[i] \in WireSet
  BY <1>1
<1> QED BY <1>2 DEF StagedIn, FramesOf

\* They are under way.
LEMMA StagedOnTheWay ==
    ASSUME TypeOK
    PROVE  StagedIn(cl, OnTheWay)
BY FramesOfStaged DEF TypeOK, OnTheWay

\* A step of the client keeps the truth of what is under way and shown,
LEMMA TruthAfterTaking ==
    ASSUME TypeOK, NEW H, Truth(H), Went(cl, cl', OnTheWay, H, pub), Taking
    PROVE  Truth(H)'
<1> DEFINE F == OnTheWay
<1>1. OnTheWay' \subseteq F
  <2>1. FramesOf(down') \subseteq F
    BY FramesOfPart DEF Taking, OnTheWay
  <2>2. FramesOf(outbox') \subseteq F
    BY DEF Taking, OnTheWay
  <2>3. FramesOf(cl'.staged) \subseteq F
    <3> HIDE DEF F
    <3>1. ClientOK(cl') /\ StagedIn(cl', F)
      BY DEF Went, F
    <3> QED BY <3>1, FramesOfStaged
  <2> HIDE DEF F
  <2> QED BY <2>1, <2>2, <2>3 DEF OnTheWay
<1>2. FramesTrue(F, H, pub) /\ Newest(F, srv) /\ Showing(cl', F, H, pub)
  BY DEF Truth, Went
<1> DEFINE G == OnTheWay'
<1> HIDE DEF F, G
<1>3. FramesTrue(G, H, pub) /\ Newest(G, srv) /\ Showing(cl', G, H, pub)
  BY <1>1, <1>2, FewerFrames DEF G
<1> QED BY <1>3 DEF Truth, Taking, G

\* What the client has asked in the step is numbered above all that was under way.
LEMMA NumberedAfterTaking ==
    ASSUME TypeOK, Numbered, Distinct, ClientOK(cl'), Asked(cl, cl'), Taking, Subscribed
    PROVE  Numbered' /\ Distinct'
<1>0. /\ cl.gen \in Nat /\ cl'.gen \in Nat /\ cl'.gen >= cl.gen
      /\ cl.up \in Seq(Requests) /\ cl'.up \in Seq(Requests)
      /\ Len(cl.up) \in Nat /\ Len(cl'.up) \in Nat
  <2>1. cl.gen \in Nat /\ cl'.gen \in Nat /\ cl.up \in Seq(Requests) /\ cl'.up \in Seq(Requests)
    BY DEF TypeOK, ClientOK, Clients
  <2> QED BY <2>1 DEF Asked
<1>1. \A m \in Replies \cup Requests : m.id \in Nat
  BY DEF Replies, Requests
<1>2. \A m : Answers(m, cl, srv) /\ (Asks(m) => m.id # cl.gen \/ cl'.sub = cl.sub) /\ cl'.sub <= srv.id
             => Answers(m, cl', srv)
  <2> SUFFICES ASSUME NEW m, Answers(m, cl, srv), Asks(m), m.id # cl.gen \/ cl'.sub = cl.sub
               PROVE  Answers(m, cl', srv)
    BY DEF Answers, Asks
  <2>1. m.id \in Nat
    BY <1>1 DEF Asks
  <2> QED BY <2>1, <1>0 DEF Answers, Asks, Taking
<1>3. cl'.sub <= srv.id
  BY DEF Subscribed, Numbered
<1>4. \A m \in arrived' : Answers(m, cl', srv)
  BY <1>2, <1>3 DEF Taking, Subscribed, Numbered
<1>5. \A i \in 1..Len(down') : Answers(down'[i], cl', srv)
  <2>1. \A i \in 1..Len(down') : Answers(down'[i], cl, srv)
    BY DEF Taking, PartOf, Numbered
  <2> QED BY <2>1, <1>2, <1>3 DEF Subscribed
<1>6. \A i \in 1..Len(outbox') : Answers(outbox'[i], cl', srv)
  BY <1>2, <1>3 DEF Taking, Subscribed, Numbered
\* A request is one of the old ones or a new one.
<1>7. \A i \in 1..Len(cl'.up) : Asks(cl'.up[i]) =>
        \/ i <= Len(cl.up) /\ i \in 1..Len(cl.up) /\ cl'.up[i] = cl.up[i] /\ cl'.up[i].id <= cl.gen
        \/ i > Len(cl.up) /\ cl'.up[i].id > cl.gen /\ cl'.up[i].id <= cl'.gen
  <2> SUFFICES ASSUME NEW i \in 1..Len(cl'.up), Asks(cl'.up[i])
               PROVE \/ /\ i <= Len(cl.up) /\ i \in 1..Len(cl.up) /\ cl'.up[i] = cl.up[i]
                        /\ cl'.up[i].id <= cl.gen
                     \/ i > Len(cl.up) /\ cl'.up[i].id > cl.gen /\ cl'.up[i].id <= cl'.gen
    OBVIOUS
  <2>1. CASE i <= Len(cl.up)
    <3>1. i \in 1..Len(cl.up)
      BY <2>1, <1>0
    <3>2. cl'.up[i] = cl.up[i]
      BY <3>1 DEF Asked
    <3> QED BY <2>1, <3>1, <3>2 DEF Numbered
  <2>2. CASE i > Len(cl.up)
    BY <2>2 DEF Asked, Asks
  <2> QED BY <2>1, <2>2, <1>0
<1>8. \A i \in 1..Len(cl'.up) : Asks(cl'.up[i]) => cl'.up[i].id \in Nat /\ cl'.up[i].id <= cl'.gen
  <2>1. \A i \in 1..Len(cl'.up) : Asks(cl'.up[i]) => cl'.up[i].id \in Nat
    BY <1>1 DEF Asks
  <2> QED BY <2>1, <1>0, <1>7
<1>9. Numbered'
  <2>1. \A i \in 1..Len(cl'.up) : Asks(cl'.up[i]) => cl'.up[i].id <= cl'.gen
    BY <1>8
  <2> QED BY <2>1, <1>3, <1>4, <1>5, <1>6 DEF Numbered, Taking
<1>10. Once(down')
  <2> SUFFICES ASSUME NEW i \in 1..Len(down'), NEW j \in 1..Len(down'), i < j,
                      Asks(down'[i]), Asks(down'[j])
               PROVE  down'[i].id # down'[j].id
    BY DEF Once
  <2>1. PICK k \in 1..Len(down), l \in 1..Len(down) :
          k < l /\ down'[i] = down[k] /\ down'[j] = down[l]
    BY DEF Taking, PartOf
  <2> QED BY <2>1 DEF Distinct, Once
<1>11. Once(cl'.up)
  <2> SUFFICES ASSUME NEW i \in 1..Len(cl'.up), NEW j \in 1..Len(cl'.up), i < j,
                      Asks(cl'.up[i]), Asks(cl'.up[j])
               PROVE  cl'.up[i].id # cl'.up[j].id
    BY DEF Once
  <2>1. CASE i > Len(cl.up)
    BY <2>1 DEF Asked, Asks
  <2>2. CASE i <= Len(cl.up) /\ j <= Len(cl.up)
    <3>1. i \in 1..Len(cl.up) /\ j \in 1..Len(cl.up) /\ cl'.up[i] = cl.up[i] /\ cl'.up[j] = cl.up[j]
      BY <2>2, <1>0, <1>7
    <3> QED BY <3>1 DEF Distinct, Once
  <2>3. CASE i <= Len(cl.up) /\ j > Len(cl.up)
    <3>1. cl'.up[i].id <= cl.gen /\ cl'.up[j].id > cl.gen
      BY <2>3, <1>0, <1>7
    <3> QED BY <3>1, <1>0, <1>8
  <2> QED BY <2>1, <2>2, <2>3, <1>0
\* What was apart from the old requests is apart from the new ones.
<1>12. ASSUME NEW m, Asks(m), m.id <= cl.gen, NEW i \in 1..Len(cl'.up), Asks(cl'.up[i]),
              \A k \in 1..Len(cl.up) : Asks(cl.up[k]) => m.id # cl.up[k].id
       PROVE  m.id # cl'.up[i].id
  <2>1. m.id \in Nat
    BY <1>1, <1>12 DEF Asks
  <2>2. CASE i \in 1..Len(cl.up) /\ cl'.up[i] = cl.up[i]
    BY <2>2, <1>12
  <2>3. CASE cl'.up[i].id > cl.gen
    BY <2>1, <2>3, <1>0, <1>8, <1>12
  <2> QED BY <2>2, <2>3, <1>7, <1>12
<1>13. Apart(down', outbox) /\ Apart(down', cl'.up)
  <2>1. \A i \in 1..Len(down') : \E k \in 1..Len(down) : down'[i] = down[k]
    BY DEF Taking, PartOf
  <2>2. Apart(down', outbox)
    BY <2>1 DEF Apart, Distinct
  <2>3. ASSUME NEW i \in 1..Len(down'), NEW j \in 1..Len(cl'.up), Asks(down'[i]), Asks(cl'.up[j])
        PROVE  down'[i].id # cl'.up[j].id
    <3>1. PICK k \in 1..Len(down) : down'[i] = down[k]
      BY <2>1
    <3>2. down[k].id <= cl.gen /\ \A n \in 1..Len(cl.up) : Asks(cl.up[n]) => down[k].id # cl.up[n].id
      BY <2>3, <3>1 DEF Numbered, Answers, Distinct, Apart
    <3> QED BY <2>3, <3>1, <3>2, <1>12
  <2> QED BY <2>2, <2>3 DEF Apart
<1>14. Apart(outbox, cl'.up)
  <2> SUFFICES ASSUME NEW i \in 1..Len(outbox), NEW j \in 1..Len(cl'.up), Asks(outbox[i]),
                      Asks(cl'.up[j])
               PROVE  outbox[i].id # cl'.up[j].id
    BY DEF Apart
  <2>1. outbox[i].id <= cl.gen /\ \A n \in 1..Len(cl.up) : Asks(cl.up[n]) => outbox[i].id # cl.up[n].id
    BY DEF Numbered, Answers, Distinct, Apart
  <2> QED BY <2>1, <1>12
<1>15. Off(arrived', down') /\ Off(arrived', outbox)
  <2>1. \A i \in 1..Len(down') : \E k \in 1..Len(down) : down'[i] = down[k]
    BY DEF Taking, PartOf
  <2> QED BY <2>1 DEF Taking, Distinct, Off
<1>16. Off(arrived', cl'.up)
  <2> SUFFICES ASSUME NEW m \in arrived', NEW j \in 1..Len(cl'.up), Asks(m), Asks(cl'.up[j])
               PROVE  m.id # cl'.up[j].id
    BY DEF Off
  <2>1. m.id <= cl.gen /\ \A n \in 1..Len(cl.up) : Asks(cl.up[n]) => m.id # cl.up[n].id
    BY DEF Taking, Numbered, Answers, Distinct, Off
  <2> QED BY <2>1, <1>12
<1>17. \A m, n \in arrived' : Asks(m) /\ Asks(n) /\ m.id = n.id => m = n
  BY DEF Taking, Distinct
<1>18. Distinct'
  BY <1>10, <1>11, <1>13, <1>14, <1>15, <1>16, <1>17 DEF Distinct, Once, Apart, Off, Asks, Taking
<1> QED BY <1>9, <1>18

\* A step of the client keeps the invariant.
LEMMA ClientStep ==
    ASSUME Sound, NEW H, Truth(H), Went(cl, cl', OnTheWay, H, pub), Taking, Subscribed,
           UNCHANGED <<timer, paused, events>>, mixed' \in BOOLEAN, troubles' \in 0..MaxTroubles
    PROVE  Sound' /\ Truth(H)' /\ Onward(cl.view, cl'.view)
<1>1. TypeOK /\ Numbered /\ Distinct /\ BufferTrue /\ ClientOK(cl') /\ Asked(cl, cl')
      /\ Onward(cl.view, cl'.view)
  BY DEF Sound, Went
<1>2. Numbered' /\ Distinct'
  BY <1>1, NumberedAfterTaking
<1>3. Truth(H)'
  BY <1>1, TruthAfterTaking
<1>4. TypeOK'
  <2>1. PublisherOK'
    BY <1>1 DEF TypeOK, PublisherOK, CurrentSeq, Taking
  <2>2. ChannelOK'
    <3>1. down' \in Seq(Messages)
      BY DEF Taking, PartOf
    <3> QED BY <3>1, <1>1 DEF TypeOK, ChannelOK, Taking, Messages
  <2> QED BY <2>1, <2>2, <1>1 DEF TypeOK
<1>5. BufferTrue'
  BY <1>1 DEF BufferTrue, Taking
<1> QED BY <1>1, <1>2, <1>3, <1>4, <1>5 DEF Sound

\* A step of the client alone.
LEMMA ClientAlone ==
    ASSUME Sound, NEW H, Truth(H), Kept(cl, cl'), UNCHANGED <<serverVars, down, arrived, events, mixed>>,
           troubles' \in 0..MaxTroubles
    PROVE  Sound' /\ Truth(H)' /\ Onward(cl.view, cl'.view)
<1>1. TypeOK /\ ClientOK(cl) /\ StagedIn(cl, OnTheWay)
      /\ FramesTrue(OnTheWay, H, pub) /\ Showing(cl, OnTheWay, H, pub)
  BY StagedOnTheWay DEF Sound, TypeOK, Truth
<1>2. Went(cl, cl', OnTheWay, H, pub) /\ cl'.sub = cl.sub
  <2> DEFINE F == OnTheWay
  <2> HIDE DEF F
  <2>1. StagedIn(cl, F) /\ FramesTrue(F, H, pub) /\ Showing(cl, F, H, pub)
    BY <1>1 DEF F
  <2>2. Went(cl, cl', F, H, pub) /\ cl'.sub = cl.sub
    BY <1>1, <2>1, KeptIsWent
  <2> QED BY <2>2 DEF F
<1>3. Taking
  <2>1. down \in Seq(Messages)
    BY <1>1 DEF TypeOK, ChannelOK, Messages
  <2> QED BY <2>1, TailIsPart DEF Taking, serverVars
<1>4. Subscribed
  BY <1>2 DEF Subscribed
<1>5. mixed' \in BOOLEAN
  BY <1>1 DEF TypeOK
<1> QED BY <1>2, <1>3, <1>4, <1>5, ClientStep DEF serverVars

\* The troubles stay within their bound,
LEMMA TroubleCounts ==
    ASSUME TypeOK, Trouble \/ UNCHANGED troubles
    PROVE  troubles' \in 0..MaxTroubles
BY TopicDeliveryAssumption DEF TypeOK, Trouble

\* those of the timers too.
LEMMA RunsOutCounts ==
    ASSUME TypeOK, NEW awaited, RunsOut(awaited)
    PROVE  troubles' \in 0..MaxTroubles
BY TroubleCounts DEF RunsOut

\* The timer of the assembler.
LEMMA ExpireKeeps ==
    ASSUME Sound, NEW H, Truth(H), Expire
    PROVE  Sound' /\ Truth(H)' /\ Onward(cl.view, cl'.view)
<1> DEFINE shut == [cl EXCEPT !.dec = Closed(cl.dec)]
           d == HandleFault(shut, cl.dec.use, FALSE)
<1>1. TypeOK /\ ClientOK(cl)
  BY DEF Sound, TypeOK
<1>2. cl' = d
  BY <1>1 DEF Expire, ClientOK, Clients
<1>3. Kept(cl, shut)
  BY <1>1, OpenedKeeps
<1> HIDE DEF shut
<1>4. Kept(shut, d)
  BY <1>3, HandleFaultKeeps DEF Kept
<1> HIDE DEF d
<1>5. Kept(cl, cl')
  BY <1>1, <1>2, <1>3, <1>4, KeptOnAndOn
<1>6. troubles' \in 0..MaxTroubles
  BY <1>1, RunsOutCounts DEF Expire
<1> QED BY <1>5, <1>6, ClientAlone DEF Expire, historyVars

\* The timer of a recovery.
LEMMA DeadlineKeeps ==
    ASSUME Sound, NEW H, Truth(H), Deadline
    PROVE  Sound' /\ Truth(H)' /\ Onward(cl.view, cl'.view)
<1>1. TypeOK /\ ClientOK(cl)
  BY DEF Sound, TypeOK
<1>2. Kept(cl, Fail(cl)) /\ Kept(cl, Issue(cl, TRUE))
  BY <1>1, FailKeeps, IssueKeeps DEF Deadline
<1>3. Kept(cl, cl')
  BY <1>2 DEF Deadline
<1>4. troubles' \in 0..MaxTroubles
  BY <1>1, RunsOutCounts DEF Deadline
<1> QED BY <1>3, <1>4, ClientAlone DEF Deadline, historyVars

\* The store is asked to try again, or told that its authority is stale.
LEMMA RetryKeeps ==
    ASSUME Sound, NEW H, Truth(H), Retry \/ RecoverFromStaleAuthority
    PROVE  Sound' /\ Truth(H)' /\ Onward(cl.view, cl'.view)
<1>1. TypeOK /\ ClientOK(cl)
  BY DEF Sound, TypeOK
<1>2. Kept(cl, Connect(cl, FALSE)) /\ Kept(cl, RequestRecovery(cl, FALSE, FALSE))
  BY <1>1, ConnectKeeps, RequestRecoveryKeeps
<1>3. Kept(cl, cl')
  BY <1>2 DEF Retry, RecoverFromStaleAuthority
<1>4. troubles' \in 0..MaxTroubles
  BY <1>1, TroubleCounts DEF Retry, RecoverFromStaleAuthority
<1> QED BY <1>3, <1>4, ClientAlone DEF Retry, RecoverFromStaleAuthority, historyVars

\* The client takes a wire from the channel.
LEMMA WireTaken ==
    ASSUME Sound, NEW H, Truth(H), down # <<>>, down' = Tail(down),
           NEW w \in WireSet, w.frame = Head(down).frame, ~IsReply(Head(down)),
           cl' = cl \/ cl' = Accept(cl, w),
           UNCHANGED <<serverVars, arrived, events>>, mixed' \in BOOLEAN,
           troubles' \in 0..MaxTroubles
    PROVE  Sound' /\ Truth(H)' /\ Onward(cl.view, cl'.view)
<1>1. TypeOK /\ ClientOK(cl) /\ StagedIn(cl, OnTheWay)
      /\ FramesTrue(OnTheWay, H, pub) /\ Showing(cl, OnTheWay, H, pub)
  BY StagedOnTheWay DEF Sound, TypeOK, Truth
<1>2. down \in Seq(Messages)
  BY <1>1 DEF TypeOK, ChannelOK, Messages
<1>3. Taking
  BY <1>2, TailIsPart DEF Taking, serverVars
<1>4. w.frame \in OnTheWay
  <2>1. Head(down) = down[1] /\ Head(down) \in Messages
    BY <1>2
  <2>2. Head(down) \in WireSet
    BY <2>1, ReplyOrWire DEF Messages
  <2> QED BY <2>1, <2>2, <1>2, FramesOfTail DEF OnTheWay
<1>5. Went(cl, cl', OnTheWay, H, pub) /\ cl'.sub = cl.sub
  <2> DEFINE F == OnTheWay
  <2> HIDE DEF F
  <2>1. StagedIn(cl, F) /\ FramesTrue(F, H, pub) /\ Showing(cl, F, H, pub) /\ w.frame \in F
    BY <1>1, <1>4 DEF F
  <2>2. Went(cl, Accept(cl, w), F, H, pub) /\ Accept(cl, w).sub = cl.sub
    BY <1>1, <2>1, AcceptWent
  <2>3. Kept(cl, cl)
    BY <1>1, KeptAtFirst
  <2>4. Went(cl, cl, F, H, pub)
    BY <1>1, <2>1, <2>3, KeptIsWent
  <2>5. Went(cl, cl', F, H, pub) /\ cl'.sub = cl.sub
    BY <2>2, <2>4
  <2> QED BY <2>5 DEF F
<1>6. Subscribed
  BY <1>5 DEF Subscribed
<1> QED BY <1>3, <1>5, <1>6, ClientStep DEF serverVars

\* A wire is lost or damaged.
LEMMA DamageKeeps ==
    ASSUME Sound, NEW H, Truth(H), NEW how \in {"lost", "garbled", "unreadable"}, Damage(how)
    PROVE  Sound' /\ Truth(H)' /\ Onward(cl.view, cl'.view)
<1> DEFINE h == Head(down)
           w == [h EXCEPT !.bad = IF how = "lost" THEN h.bad ELSE how]
<1>1. TypeOK
  BY DEF Sound
<1>2. down # <<>> /\ down' = Tail(down) /\ ~IsReply(h)
      /\ UNCHANGED <<serverVars, arrived, events>> /\ mixed' \in BOOLEAN
      /\ troubles' \in 0..MaxTroubles
  <2>1. mixed' \in BOOLEAN
    BY <1>1 DEF Damage, TypeOK, historyVars
  <2> QED BY <1>1, <2>1, TroubleCounts DEF Damage
<1>3. h \in WireSet
  <2>1. down \in Seq(Messages)
    BY <1>1 DEF TypeOK, ChannelOK, Messages
  <2>2. h \in Messages
    BY <2>1, <1>2
  <2> QED BY <2>2, <1>2, ReplyOrWire DEF Messages
<1>4. cl' = cl \/ cl' = Accept(cl, w)
  BY DEF Damage
<1>5. w \in WireSet /\ w.frame = h.frame
  <2> HIDE DEF h
  <2> QED BY <1>3 DEF WireSet
<1> HIDE DEF w
<1> QED BY <1>2, <1>4, <1>5, WireTaken

\* The head of the channel is apart from the rest of it.
LEMMA HeadIsApart ==
    ASSUME TypeOK, Numbered, Distinct, down # <<>>, NEW m, m = Head(down)
    PROVE  /\ Answers(m, cl, srv) /\ m \in Messages
           /\ \A i \in 1..Len(Tail(down)) :
                /\ Answers(Tail(down)[i], cl, srv)
                /\ Asks(m) /\ Asks(Tail(down)[i]) => m.id # Tail(down)[i].id
           /\ Off({m}, outbox) /\ Off({m}, cl.up)
           /\ \A n \in arrived : Asks(m) /\ Asks(n) => m.id # n.id
<1>1. down \in Seq(Messages)
  BY DEF TypeOK, ChannelOK, Messages
<1>2. Tail(down) \in Seq(Messages) /\ Len(Tail(down)) = Len(down) - 1 /\ Len(down) \in Nat
      /\ \A i \in 1..Len(Tail(down)) : Tail(down)[i] = down[i + 1]
  BY <1>1, HeadTailProperties
<1>3. 1 \in 1..Len(down)
  <2>1. Len(down) # 0
    BY <1>1
  <2> QED BY <2>1, <1>2
<1>4. m = down[1] /\ m \in Messages
  BY <1>1, <1>3
<1>5. \A i \in 1..Len(Tail(down)) : i + 1 \in 1..Len(down) /\ 1 < i + 1
  BY <1>2
<1>6. Answers(m, cl, srv)
  BY <1>3, <1>4 DEF Numbered
<1>7. \A i \in 1..Len(Tail(down)) : Answers(Tail(down)[i], cl, srv)
  BY <1>2, <1>5 DEF Numbered
<1>8. \A i \in 1..Len(Tail(down)) : Asks(m) /\ Asks(Tail(down)[i]) => m.id # Tail(down)[i].id
  BY <1>2, <1>3, <1>4, <1>5 DEF Distinct, Once
<1>9. Off({m}, outbox) /\ Off({m}, cl.up)
  BY <1>3, <1>4 DEF Distinct, Apart, Off
<1>10. \A n \in arrived : Asks(m) /\ Asks(n) => m.id # n.id
  BY <1>3, <1>4 DEF Distinct, Off
<1> QED BY <1>4, <1>6, <1>7, <1>8, <1>9, <1>10

\* A message arrives.
LEMMA DeliverKeeps ==
    ASSUME Sound, NEW H, Truth(H), Deliver
    PROVE  Sound' /\ Truth(H)' /\ Onward(cl.view, cl'.view)
<1> DEFINE m == Head(down)
<1>1. TypeOK /\ Numbered /\ Distinct /\ BufferTrue
      /\ down \in Seq(Messages) /\ down # <<>> /\ down' = Tail(down)
      /\ UNCHANGED <<serverVars, events, troubles, historyVars>>
  BY DEF Sound, TypeOK, ChannelOK, Messages, Deliver
<1> HIDE DEF m
<1>3. CASE ~IsReply(Head(down))
  <2>1. cl' = Accept(cl, Head(down)) /\ UNCHANGED arrived
    BY <1>3 DEF Deliver
  <2>2. Head(down) \in WireSet
    BY <1>1, <1>3, ReplyOrWire DEF Messages
  <2>3. troubles' \in 0..MaxTroubles
    BY <1>1 DEF TypeOK
  <2>4. mixed' \in BOOLEAN /\ events' = events
    BY <1>1 DEF historyVars, TypeOK
  <2> QED BY <1>1, <1>3, <2>1, <2>2, <2>3, <2>4, WireTaken
<1>4. CASE IsReply(Head(down))
  <2>1. arrived' = arrived \cup {m} /\ cl' = cl
    BY <1>4 DEF Deliver, m
  <2>2. m \in Replies
    BY <1>1, <1>4, ReplyOrWire DEF Messages, m
  <2>3. pub' = pub /\ srv' = srv /\ timer' = timer /\ paused' = paused /\ outbox' = outbox
        /\ events' = events /\ troubles' = troubles /\ mixed' = mixed
    BY <1>1 DEF serverVars, historyVars
  <2>4. PartOf(down', down)
    BY <1>1, TailIsPart
  <2>5. TypeOK'
    <3>1. down' \in Seq(Messages)
      BY <2>4 DEF PartOf
    <3>2. ChannelOK'
      BY <1>1, <2>1, <2>2, <2>3, <3>1 DEF TypeOK, ChannelOK, Messages
    <3>3. PublisherOK'
      BY <1>1, <2>3 DEF TypeOK, PublisherOK, CurrentSeq
    <3> QED BY <1>1, <2>1, <2>3, <3>2, <3>3 DEF TypeOK
  <2>6. /\ Answers(m, cl, srv) /\ m \in Messages
        /\ \A i \in 1..Len(down') :
             /\ Answers(down'[i], cl, srv)
             /\ Asks(m) /\ Asks(down'[i]) => m.id # down'[i].id
        /\ Off({m}, outbox) /\ Off({m}, cl.up)
        /\ \A n \in arrived : Asks(m) /\ Asks(n) => m.id # n.id
    BY <1>1, HeadIsApart DEF m
  <2>7. Numbered'
    BY <1>1, <2>1, <2>3, <2>6 DEF Numbered
  <2>8. Distinct'
    <3> DEFINE s == down'
    <3>1. \A i \in 1..Len(s) : \E k \in 1..Len(down) : s[i] = down[k]
      BY <2>4 DEF PartOf
    <3>2. Once(s)
      <4> SUFFICES ASSUME NEW i \in 1..Len(s), NEW j \in 1..Len(s), i < j, Asks(s[i]), Asks(s[j])
                   PROVE  s[i].id # s[j].id
        BY DEF Once
      <4>1. PICK k \in 1..Len(down), l \in 1..Len(down) :
              k < l /\ down'[i] = down[k] /\ down'[j] = down[l]
        BY <2>4 DEF PartOf
      <4> QED BY <4>1, <1>1 DEF Distinct, Once
    <3>3. Apart(s, outbox) /\ Apart(s, cl.up) /\ Off(arrived, s)
      BY <1>1, <3>1 DEF Distinct, Apart, Off
    <3>4. Off(arrived \cup {m}, s)
      BY <3>3, <2>6 DEF Off
    <3>5. Off(arrived \cup {m}, outbox) /\ Off(arrived \cup {m}, cl.up)
      BY <1>1, <2>6 DEF Off, Distinct
    <3>6. \A n, o \in arrived \cup {m} : Asks(n) /\ Asks(o) /\ n.id = o.id => n = o
      BY <1>1, <2>6 DEF Distinct
    <3> HIDE DEF s
    <3> QED BY <1>1, <2>1, <2>3, <3>2, <3>3, <3>4, <3>5, <3>6 DEF Distinct, s
  <2>9. BufferTrue'
    BY <1>1, <2>1, <2>3 DEF BufferTrue
  <2>10. Truth(H)' /\ Onward(cl.view, cl'.view)
    <3>1. OnTheWay' \subseteq OnTheWay
      BY <2>1, <2>3, <2>4, FramesOfPart DEF OnTheWay
    <3> DEFINE F == OnTheWay
               G == OnTheWay'
    <3>2. FramesTrue(F, H, pub) /\ Newest(F, srv) /\ Showing(cl, F, H, pub)
      BY DEF Truth
    <3>3. cl.view \in Viewed
      BY <1>1 DEF TypeOK, ClientOK, Clients, Viewed
    <3> HIDE DEF F, G
    <3>4. FramesTrue(G, H, pub) /\ Newest(G, srv) /\ Showing(cl, G, H, pub)
      BY <3>1, <3>2, FewerFrames DEF F, G
    <3>5. Onward(cl.view, cl.view)
      BY <3>3, OnwardAtFirst
    <3> QED BY <2>1, <2>3, <3>4, <3>5 DEF Truth, G
  <2> QED BY <2>5, <2>7, <2>8, <2>9, <2>10 DEF Sound
<1> QED BY <1>3, <1>4

\* The continuation of a reply runs.
LEMMA ContinueKeeps ==
    ASSUME Sound, NEW H, Truth(H), NEW m \in arrived, Continue(m)
    PROVE  Sound' /\ Truth(H)' /\ Onward(cl.view, cl'.view)
<1>1. TypeOK /\ Numbered /\ Distinct /\ ClientOK(cl) /\ StagedIn(cl, OnTheWay)
      /\ FramesTrue(OnTheWay, H, pub) /\ Showing(cl, OnTheWay, H, pub)
      /\ arrived' = arrived \ {m} /\ UNCHANGED <<serverVars, down, events, troubles, historyVars>>
  BY StagedOnTheWay DEF Sound, TypeOK, Truth, Continue
<1>2. m \in Replies
  BY <1>1 DEF TypeOK, ChannelOK
<1>3. Taking
  <2>1. down \in Seq(Messages)
    BY <1>1 DEF TypeOK, ChannelOK, Messages
  <2> QED BY <1>1, <2>1, TailIsPart DEF Taking, serverVars
<1>4. troubles' \in 0..MaxTroubles /\ mixed' \in BOOLEAN /\ UNCHANGED <<timer, paused, events>>
  BY <1>1 DEF TypeOK, serverVars, historyVars
<1> DEFINE F == OnTheWay
<1>5. StagedIn(cl, F) /\ FramesTrue(F, H, pub) /\ Showing(cl, F, H, pub)
  BY <1>1
<1> HIDE DEF F
<1>6. CASE m.op = "subscribe" /\ m.id = cl.gen
  <2>1. m.sub > cl.sub /\ m.sub <= srv.id /\ Asks(m)
    BY <1>1, <1>2, <1>6 DEF Numbered, Answers, Asks
  <2>2. cl' = Activate(cl, m)
    BY <1>6 DEF Continue
  <2>3. Went(cl, cl', F, H, pub) /\ cl'.sub = m.sub
    BY <1>1, <1>2, <1>5, <2>1, <2>2, ActivateWent
  <2>4. Subscribed
    <3>1. \A n \in arrived' : Asks(n) => n.id # cl.gen
      BY <1>1, <1>6, <2>1 DEF Distinct
    <3>2. \A i \in 1..Len(down) : Asks(down[i]) => down[i].id # cl.gen
      BY <1>1, <1>6, <2>1 DEF Distinct, Off
    <3>3. \A i \in 1..Len(outbox) : Asks(outbox[i]) => outbox[i].id # cl.gen
      BY <1>1, <1>6, <2>1 DEF Distinct, Off
    <3> QED BY <1>1, <2>1, <2>3, <3>1, <3>2, <3>3 DEF Subscribed
  <2>5. Went(cl, cl', OnTheWay, H, pub)
    BY <2>3 DEF F
  <2> QED BY <1>3, <1>4, <2>4, <2>5, ClientStep
<1>7. CASE ~(m.op = "subscribe" /\ m.id = cl.gen)
  <2>1. Went(cl, cl', F, H, pub) /\ cl'.sub = cl.sub
    <3>1. CASE m.op = "subscribe"
      <4>1. cl' = GiveUp(cl, m)
        BY <1>7, <3>1 DEF Continue
      <4> QED BY <1>1, <1>2, <1>5, <4>1, GiveUpWent
    <3>2. CASE m.op # "subscribe"
      <4>1. cl' = cl \/ (cl.flight # None /\ cl' = Resynced(cl, m))
        BY <3>2 DEF Continue
      <4>2. Kept(cl, cl')
        BY <1>1, <1>2, <4>1, KeptAtFirst, ResyncedKeeps
      <4> QED BY <1>1, <1>5, <4>2, KeptIsWent
    <3> QED BY <3>1, <3>2
  <2>2. Subscribed
    BY <2>1 DEF Subscribed
  <2>3. Went(cl, cl', OnTheWay, H, pub)
    BY <2>1 DEF F
  <2> QED BY <1>3, <1>4, <2>2, <2>3, ClientStep
<1> QED BY <1>6, <1>7

-----------------------------------------------------------------------------
(* Events. *)

\* The elements of a piece of a sequence.
LEMMA PieceOfSeq ==
    ASSUME NEW T, NEW s \in Seq(T), NEW k \in 0..Len(s), NEW n \in k..Len(s)
    PROVE  /\ SubSeq(s, k + 1, n) \in Seq(T) /\ Len(SubSeq(s, k + 1, n)) = n - k
           /\ \A i \in 1..n - k : SubSeq(s, k + 1, n)[i] = s[k + i]
<1>1. Len(s) \in Nat /\ k \in Nat /\ n \in Nat /\ k + 1 \in Int /\ n \in Int
      /\ n - (k + 1) + 1 = n - k
  OBVIOUS
<1>2. \A i \in k + 1..n : i \in 1..Len(s)
  BY <1>1
<1>3. \A i \in k + 1..n : s[i] \in T
  BY <1>2
<1> DEFINE m == k + 1
           b == SubSeq(s, m, n)
<1>4. m \in Int /\ \A i \in m..n : s[i] \in T
  BY <1>1, <1>3
<1>5. n - m + 1 = n - k /\ (m <= n => n - m + 1 = n - k) /\ (~(m <= n) => n - k = 0)
      /\ \A i \in 1..n - k : m + i - 1 = k + i
  BY <1>1
<1> HIDE DEF m
<1>6. b \in Seq(T) /\ Len(b) = (IF m <= n THEN n - m + 1 ELSE 0)
      /\ \A i \in 1..n - m + 1 : b[i] = s[m + i - 1]
  BY <1>1, <1>4, SubSeqProperties
<1> HIDE DEF b
<1>7. b \in Seq(T) /\ Len(b) = n - k /\ \A i \in 1..n - k : b[i] = s[k + i]
  BY <1>5, <1>6
<1> QED BY <1>7 DEF b, m

\* A log that grows keeps what it has said.
LEMMA HeldStays ==
    ASSUME NEW p \in Projections, NEW q \in Projections, NEW e \in 0..MaxEvents,
           q.start = p.start, q.rows = p.rows, q.log = Append(p.log, e)
    PROVE  /\ Top(p) \in Nat /\ Top(q) = Top(p) + 1
           /\ \A s \in p.start..Top(p) :
                /\ Held(q, s) = Held(p, s)
                /\ Since(q, s) = Since(p, s) \o Rows(<<e>>)
<1> DEFINE l == p.log
           n == Len(l)
<1>1. l \in Seq(0..MaxEvents) /\ n \in Nat /\ p.start \in Nat
  BY DEF Projections
<1>2. q.log \in Seq(0..MaxEvents) /\ Len(q.log) = n + 1
      /\ \A i \in 1..n + 1 : q.log[i] = IF i <= n THEN l[i] ELSE e
  BY <1>1
<1>3. Top(p) \in Nat /\ Top(q) = Top(p) + 1
  <2>1. Top(p) = p.start + n
    BY DEF Top
  <2>2. Top(q) = p.start + (n + 1)
    BY <1>2 DEF Top
  <2> HIDE DEF n, l
  <2> QED BY <1>1, <2>1, <2>2
<1>4. ASSUME NEW s \in p.start..Top(p)
      PROVE  Held(q, s) = Held(p, s) /\ Since(q, s) = Since(p, s) \o Rows(<<e>>)
  <2> DEFINE k == s - p.start
             g == q.log
  <2>1. k \in 0..n
    BY <1>1 DEF Top
  <2> HIDE DEF k, l, n, g
  <2>2. l \in Seq(0..MaxEvents) /\ g \in Seq(0..MaxEvents) /\ n \in Nat /\ Len(l) = n /\ Len(g) = n + 1
        /\ \A i \in 1..n + 1 : g[i] = IF i <= n THEN l[i] ELSE e
    BY <1>1, <1>2 DEF g, l, n
  <2>3. SubSeq(g, 1, k) = SubSeq(l, 1, k)
    BY <2>1, <2>2
  <2>4. SubSeq(g, k + 1, n + 1) = SubSeq(l, k + 1, n) \o <<e>>
    <3>1. SubSeq(l, k + 1, n) \in Seq(0..MaxEvents) /\ Len(SubSeq(l, k + 1, n)) = n - k
          /\ \A i \in 1..n - k : SubSeq(l, k + 1, n)[i] = l[k + i]
      <4>1. k \in 0..Len(l) /\ n \in k..Len(l)
        BY <2>1, <2>2
      <4>2. l \in Seq(0..MaxEvents)
        BY <2>2
      <4> QED BY <4>1, <4>2, PieceOfSeq
    <3>2. SubSeq(g, k + 1, n + 1) \in Seq(0..MaxEvents) /\ Len(SubSeq(g, k + 1, n + 1)) = n + 1 - k
          /\ \A i \in 1..n + 1 - k : SubSeq(g, k + 1, n + 1)[i] = g[k + i]
      <4> DEFINE o == n + 1
      <4>1. k \in 0..Len(g) /\ o \in k..Len(g)
        BY <2>1, <2>2
      <4> HIDE DEF o
      <4>2. SubSeq(g, k + 1, o) \in Seq(0..MaxEvents) /\ Len(SubSeq(g, k + 1, o)) = o - k
            /\ \A i \in 1..o - k : SubSeq(g, k + 1, o)[i] = g[k + i]
        BY <4>1, <2>2, PieceOfSeq
      <4>3. o = n + 1
        BY DEF o
      <4>4. SubSeq(g, k + 1, n + 1) = SubSeq(g, k + 1, o) /\ o - k = n + 1 - k
        BY <2>1, <2>2, <4>3
      <4> QED BY <4>2, <4>4
    <3> DEFINE a == SubSeq(l, k + 1, n)
               b == SubSeq(g, k + 1, n + 1)
    <3> HIDE DEF a, b
    <3>3. a \o <<e>> \in Seq(0..MaxEvents) /\ Len(a \o <<e>>) = n + 1 - k
          /\ \A i \in 1..n + 1 - k : (a \o <<e>>)[i] = IF i <= n - k THEN a[i] ELSE e
      BY <2>1, <2>2, <3>1 DEF a
    <3>4. b \in Seq(0..MaxEvents) /\ Len(b) = n + 1 - k
          /\ \A i \in 1..n + 1 - k : b[i] = g[k + i]
      BY <3>2 DEF b
    <3>5. \A i \in 1..n + 1 - k : b[i] = (a \o <<e>>)[i]
      <4> SUFFICES ASSUME NEW i \in 1..n + 1 - k PROVE b[i] = (a \o <<e>>)[i]
        OBVIOUS
      <4>1. k + i \in 1..n + 1 /\ (k + i <= n <=> i <= n - k)
        BY <2>1, <2>2
      <4>2. a[i] = l[k + i] \/ ~(i <= n - k)
        BY <2>1, <2>2, <3>1 DEF a
      <4>3. g[k + i] = IF k + i <= n THEN l[k + i] ELSE e
        BY <4>1, <2>2
      <4> QED BY <4>1, <4>2, <4>3, <3>3, <3>4
    <3>6. b = a \o <<e>>
      BY <3>3, <3>4, <3>5
    <3> QED BY <3>6 DEF a, b
  <2>5. Rows(SubSeq(l, k + 1, n) \o <<e>>) = Rows(SubSeq(l, k + 1, n)) \o Rows(<<e>>)
    <3>0. SubSeq(l, k + 1, n) \in Seq(0..MaxEvents)
      <4>1. k \in 0..Len(l) /\ n \in k..Len(l)
        BY <2>1, <2>2
      <4>2. l \in Seq(0..MaxEvents)
        BY <2>2
      <4> QED BY <4>1, <4>2, PieceOfSeq
    <3>1. SubSeq(l, k + 1, n) \in Seq(0..MaxEvents) /\ <<e>> \in Seq(0..MaxEvents)
      <4>1. <<e>> \in Seq(0..MaxEvents)
        OBVIOUS
      <4> QED BY <4>1, <3>0
    <3> DEFINE a == SubSeq(l, k + 1, n)
               b == <<e>>
    <3> HIDE DEF a, b
    <3>2. a \in Seq(0..MaxEvents) /\ b \in Seq(0..MaxEvents)
      BY <3>1 DEF a, b
    <3>3. Rows(a \o b) = Rows(a) \o Rows(b)
      BY <3>2, WithoutOfConcat DEF Rows
    <3> QED BY <3>3 DEF a, b
  <2>6. Held(q, s) = q.rows \o Rows(SubSeq(g, 1, k))
        /\ Held(p, s) = p.rows \o Rows(SubSeq(l, 1, k))
    BY DEF Held, g, l, k
  <2>7. SubSeq(q.log, s - q.start + 1, Len(q.log)) = SubSeq(g, k + 1, n + 1)
        /\ SubSeq(p.log, s - p.start + 1, Len(p.log)) = SubSeq(l, k + 1, n)
    BY <2>2 DEF g, l, n, k
  <2> QED BY <2>3, <2>4, <2>5, <2>6, <2>7 DEF Since
<1> QED BY <1>3, <1>4

\* H is extended, or brought up to date, with the projection q.
LEMMA TruthAfterLogging ==
    ASSUME NEW F, NEW H, NEW p, FramesTrue(F, H, p), NEW c, ClientOK(c), Showing(c, F, H, p),
           NEW q \in Projections, NEW G, G = [H EXCEPT ![q.num] = q],
           \/ q.num = p.num + 1
           \/ /\ q.num = p.num /\ q.start = p.start /\ Top(p) <= Top(q)
              /\ \A s \in p.start..Top(p) : Held(q, s) = Held(p, s)
    PROVE  FramesTrue(F, G, q) /\ Showing(c, F, G, q)
<1>1. p \in Projections /\ H \in [Nat -> Projections] /\ p.num \in Nat /\ q.num \in Nat
      /\ p.num <= q.num
  <2>1. q.num = p.num + 1 \/ q.num = p.num
    OBVIOUS
  <2>2. p \in Projections /\ H \in [Nat -> Projections]
    BY DEF FramesTrue
  <2>3. p.num \in Nat /\ q.num \in Nat
    BY <2>2 DEF Projections
  <2> QED BY <2>1, <2>2, <2>3
<1>2. G \in [Nat -> Projections] /\ G[q.num] = q
      /\ \A n \in Nat : n # q.num => G[n] = H[n]
  BY <1>1
<1>3. Top(p) \in Nat /\ Top(q) \in Nat /\ p.start \in Nat /\ q.start \in Nat
  <2>1. \A r \in Projections : r.log \in Seq(0..MaxEvents) /\ r.start \in Nat
    BY DEF Projections
  <2>2. \A r \in Projections : Len(r.log) \in Nat
    BY <2>1
  <2>3. \A r \in Projections : Top(r) \in Nat
    BY <2>1, <2>2 DEF Top
  <2> QED BY <1>1, <2>1, <2>3
\* What is true of an earlier numbering stays so, and of this one too.
<1>4. ASSUME NEW n \in Nat, n <= p.num
      PROVE  \/ G[n] = H[n]
             \/ /\ H[n] = p /\ G[n] = q /\ q.start = p.start /\ Top(p) <= Top(q)
                /\ \A s \in p.start..Top(p) : Held(q, s) = Held(p, s)
  BY <1>1, <1>2, <1>4 DEF FramesTrue
<1>5. ASSUME NEW f \in Frames, f.num <= p.num, FrameTrue(f, H[f.num])
      PROVE  FrameTrue(f, G[f.num])
  <2>1. f.num \in Nat /\ f.to \in Nat /\ f.from \in Nat
    BY DEF Frames
  <2>2. CASE G[f.num] = H[f.num]
    BY <2>2, <1>5
  <2>3. CASE /\ H[f.num] = p /\ G[f.num] = q /\ q.start = p.start /\ Top(p) <= Top(q)
             /\ \A s \in p.start..Top(p) : Held(q, s) = Held(p, s)
    <3>1. FrameTrue(f, p)
      BY <2>3, <1>5
    <3>2. f.to \in p.start..Top(p) /\ f.to \in q.start..Top(q) /\ Held(q, f.to) = Held(p, f.to)
      BY <3>1, <2>1, <2>3, <1>3 DEF FrameTrue
    <3>3. f.kind = "deltas" => f.from \in q.start..f.to /\ Held(q, f.from) = Held(p, f.from)
      BY <3>1, <3>2, <2>1, <2>3, <1>3 DEF FrameTrue
    <3>4. FrameTrue(f, q)
      BY <3>1, <3>2, <3>3 DEF FrameTrue
    <3> QED BY <2>3, <3>4
  <2> QED BY <2>1, <2>2, <2>3, <1>4, <1>5
<1>6. ASSUME NEW v \in Views, v.num <= p.num, ViewTrue(v, H[v.num])
      PROVE  ViewTrue(v, G[v.num])
  <2>1. v.num \in Nat /\ v.seq \in Nat
    BY DEF Views
  <2>2. CASE G[v.num] = H[v.num]
    BY <2>2, <1>6
  <2>3. CASE /\ H[v.num] = p /\ G[v.num] = q /\ q.start = p.start /\ Top(p) <= Top(q)
             /\ \A s \in p.start..Top(p) : Held(q, s) = Held(p, s)
    BY <2>1, <2>3, <1>3, <1>6 DEF ViewTrue
  <2> QED BY <2>1, <2>2, <2>3, <1>4, <1>6
<1>7. FramesTrue(F, G, q)
  <2>1. \A f \in F : f \in Frames /\ f.sub # 0 /\ f.num <= p.num /\ FrameTrue(f, H[f.num])
    BY DEF FramesTrue
  <2>2. \A f \in F : f.num \in Nat
    BY <2>1 DEF Frames
  <2>3. \A f \in F : f.num <= q.num
    BY <2>1, <2>2, <1>1
  <2>4. \A f \in F : FrameTrue(f, G[f.num])
    BY <2>1, <1>5
  <2> QED BY <2>1, <2>3, <2>4, <1>2 DEF FramesTrue
<1>8. ASSUME c.view # None
      PROVE  /\ c.view.num <= q.num
             /\ c.view.num = q.num => ViewTrue(c.view, q)
             /\ \A f \in F : Ahead(c, f) => Ready(c.view, f, G)
  <2> DEFINE v == c.view
  <2>1. v \in Views
    BY <1>8 DEF ClientOK, Clients
  <2>2. v.num \in Nat /\ v.num <= p.num /\ (v.num = p.num => ViewTrue(v, p))
    BY <1>8, <2>1 DEF Showing, Views
  <2>3. \A f \in F : Ahead(c, f) => Ready(v, f, H)
    BY <1>8 DEF Showing
  <2> HIDE DEF v
  <2>4. v.num <= q.num
    BY <2>2, <1>1
  <2>5. v.num = q.num => ViewTrue(v, q)
    <3>1. v.num = p.num => ViewTrue(v, H[v.num])
      BY <2>2 DEF FramesTrue
    <3>2. v.num = q.num => v.num = p.num
      BY <1>1, <2>2
    <3> QED BY <3>1, <3>2, <2>1, <2>2, <1>2, <1>6
  <2>6. ASSUME NEW f \in F, Ahead(c, f) PROVE Ready(v, f, G)
    <3>1. v.num < f.num \/ (v.num = f.num /\ ViewTrue(v, H[f.num]) /\ v.seq <= f.to)
      BY <2>3, <2>6 DEF Ready
    <3>2. v.num = f.num /\ ViewTrue(v, H[f.num]) => ViewTrue(v, G[f.num])
      BY <2>1, <2>2, <1>6
    <3> QED BY <3>1, <3>2 DEF Ready
  <2> QED BY <2>4, <2>5, <2>6 DEF v
<1>9. Showing(c, F, G, q)
  BY <1>8 DEF Showing
<1> QED BY <1>7, <1>9

\* What is added to the buffer of a subscription.
LEMMA BufferedIsTrue ==
    ASSUME NEW s \in Subscriptions, Len(s.buf) <= MaxOps, NEW r \in Seq(1..MaxEvents)
    PROVE  LET t == Buffered(s, r)
           IN  /\ t \in Subscriptions /\ Len(t.buf) <= MaxOps
               /\ t.id = s.id /\ t.sent = s.sent /\ t.ord = s.ord /\ t.held = s.held /\ t.live = s.live
               /\ (s.over /\ s.live => t.over)
               /\ (t.live /\ ~t.over => ~s.over /\ t.buf = s.buf \o r)
<1> DEFINE t == Buffered(s, r)
<1>1. s.buf \in Seq(1..MaxEvents) /\ MaxOps \in Nat
  BY TopicDeliveryAssumption DEF Subscriptions
<1>2. s.buf \o r \in Seq(1..MaxEvents) /\ Len(s.buf \o r) = Len(s.buf) + Len(r)
      /\ Len(s.buf) \in Nat /\ Len(r) \in Nat
  BY <1>1
<1>3. CASE ~s.live \/ s.over \/ r = <<>>
  <2>1. t = s
    BY <1>3 DEF Buffered
  <2>2. r = <<>> => s.buf = s.buf \o r
    BY <1>1, <1>2
  <2> HIDE DEF t
  <2>3. s.live \in BOOLEAN /\ s.over \in BOOLEAN
    BY DEF Subscriptions
  <2> QED BY <1>3, <2>1, <2>2, <2>3 DEF t
<1>4. CASE ~(~s.live \/ s.over \/ r = <<>>) /\ Len(s.buf) + Len(r) > MaxOps
  <2>1. t = [s EXCEPT !.buf = <<>>, !.over = TRUE]
    BY <1>4 DEF Buffered
  <2> DEFINE b == <<>>
  <2>0. b \in Seq(1..MaxEvents) /\ t = [s EXCEPT !.buf = b, !.over = TRUE]
    BY <2>1
  <2> HIDE DEF t, b
  <2>2. t \in Subscriptions /\ t.buf = <<>> /\ t.over = TRUE /\ t.id = s.id /\ t.sent = s.sent
        /\ t.ord = s.ord /\ t.held = s.held /\ t.live = s.live
    <3>1. t \in Subscriptions
      BY <2>0 DEF Subscriptions
    <3>2. t.buf = b /\ t.over = TRUE /\ t.id = s.id /\ t.sent = s.sent
          /\ t.ord = s.ord /\ t.held = s.held /\ t.live = s.live
      BY <2>0 DEF Subscriptions
    <3> QED BY <3>1, <3>2 DEF b
  <2>3. Len(t.buf) <= MaxOps
    BY <1>1, <2>2
  <2> QED BY <2>2, <2>3 DEF t
<1>5. CASE ~(~s.live \/ s.over \/ r = <<>>) /\ ~(Len(s.buf) + Len(r) > MaxOps)
  <2>1. t = [s EXCEPT !.buf = s.buf \o r]
    BY <1>5 DEF Buffered
  <2> DEFINE b == s.buf \o r
  <2>2. t = [s EXCEPT !.buf = b] /\ b \in Seq(1..MaxEvents) /\ Len(b) <= MaxOps
    BY <1>1, <1>2, <1>5, <2>1
  <2> HIDE DEF t, b
  <2>3. t \in Subscriptions /\ t.buf = b /\ t.over = s.over /\ t.id = s.id /\ t.sent = s.sent
        /\ t.ord = s.ord /\ t.held = s.held /\ t.live = s.live
    BY <2>2 DEF Subscriptions
  <2> QED BY <1>5, <2>2, <2>3 DEF t, b
<1> QED BY <1>3, <1>4, <1>5

\* The publisher's numbers are within its log.
LEMMA TopIsCurrent ==
    ASSUME TypeOK
    PROVE  /\ Top(pub) = CurrentSeq /\ CurrentSeq \in Nat /\ pub.start \in Nat /\ pub.start <= CurrentSeq
           /\ pub \in Projections /\ srv \in Subscriptions
           /\ pub.log \in Seq(0..MaxEvents) /\ Len(pub.log) \in Nat
<1>1. pub \in Projections /\ srv \in Subscriptions
  BY DEF TypeOK, PublisherOK
<1>2. pub.log \in Seq(0..MaxEvents) /\ pub.start \in Nat
  BY <1>1 DEF Projections
<1>3. Len(pub.log) \in Nat
  BY <1>2
<1> QED BY <1>1, <1>2, <1>3 DEF Top, CurrentSeq

\* An event adds its row, or nothing, at the end of the log.
LEMMA LoggedIsTrue ==
    ASSUME TypeOK, NEW e \in 0..MaxEvents, pub' = Logged(e)
    PROVE  /\ pub' \in Projections /\ pub'.num = pub.num /\ pub'.start = pub.start
           /\ pub'.rows = pub.rows /\ pub'.log = Append(pub.log, e)
           /\ CurrentSeq' = CurrentSeq + 1
           /\ pub'.floor \in pub'.start..CurrentSeq'
<1>1. CurrentSeq \in Nat /\ pub.start \in Nat /\ pub.floor \in Nat /\ pub \in Projections
      /\ pub.floor \in pub.start..CurrentSeq /\ pub.log \in Seq(0..MaxEvents) /\ Len(pub.log) \in Nat
      /\ CurrentSeq = pub.start + Len(pub.log)
  BY TopIsCurrent DEF TypeOK, PublisherOK, Projections, CurrentSeq
<1> DEFINE l == Append(pub.log, e)
           f == IF CurrentSeq + 1 > pub.floor + Retention THEN CurrentSeq + 1 - Retention ELSE pub.floor
<1>2. l \in Seq(0..MaxEvents) /\ Len(l) = Len(pub.log) + 1
  BY <1>1
<1>3. f \in Nat /\ f \in pub.start..CurrentSeq + 1
  <2>1. Retention \in Nat
    BY TopicDeliveryAssumption
  <2> DEFINE c == CurrentSeq
             g == pub.floor
             a == pub.start
  <2>2. c \in Nat /\ g \in Nat /\ a \in Nat /\ g \in a..c
    BY <1>1
  <2> HIDE DEF c, g, a
  <2>3. (IF c + 1 > g + Retention THEN c + 1 - Retention ELSE g) \in a..c + 1
    BY <2>1, <2>2
  <2>4. \A n \in a..c + 1 : n \in Nat
    BY <2>2
  <2>5. f = IF c + 1 > g + Retention THEN c + 1 - Retention ELSE g
    BY DEF c, g
  <2> HIDE DEF f
  <2>6. f \in a..c + 1
    BY <2>3, <2>5
  <2> QED BY <2>4, <2>6 DEF a, c
<1>4. pub' = [pub EXCEPT !.log = l, !.floor = f]
  BY DEF Logged
<1> HIDE DEF l, f
<1>5. pub' \in Projections /\ pub'.num = pub.num /\ pub'.start = pub.start /\ pub'.rows = pub.rows
      /\ pub'.log = l /\ pub'.floor = f
  BY <1>1, <1>2, <1>3, <1>4 DEF Projections
<1>6. CurrentSeq' = CurrentSeq + 1
  <2>1. CurrentSeq' = pub'.start + Len(pub'.log)
    BY DEF CurrentSeq
  <2>2. CurrentSeq' = pub.start + (Len(pub.log) + 1)
    BY <2>1, <1>2, <1>5
  <2> QED BY <2>2, <1>1
<1>7. pub'.floor \in pub'.start..CurrentSeq'
  BY <1>3, <1>5, <1>6
<1> QED BY <1>5, <1>6, <1>7 DEF l

\* A step of the publisher that sends nothing.
LEMMA PublisherAlone ==
    ASSUME Sound, NEW H, Truth(H), UNCHANGED <<outbox, down, arrived, cl>>, mixed' \in BOOLEAN,
           PublisherOK', BufferTrue', events' \in 1..MaxEvents, troubles' \in 0..MaxTroubles,
           srv'.id = srv.id, srv'.ord = srv.ord, srv'.live = srv.live,
           pub' \in Projections,
           \/ pub'.num = pub.num + 1
           \/ /\ pub'.num = pub.num /\ pub'.start = pub.start /\ CurrentSeq <= CurrentSeq'
              /\ \A s \in pub.start..CurrentSeq : Held(pub', s) = Held(pub, s)
    PROVE  Sound' /\ (\E G : Truth(G)') /\ Onward(cl.view, cl'.view)
<1> DEFINE F == OnTheWay
<1>0. PICK q, G : q = pub' /\ G = [H EXCEPT ![q.num] = q]
  OBVIOUS
<1>1. TypeOK /\ Numbered /\ Distinct /\ ClientOK(cl)
  BY DEF Sound, TypeOK
<1>2. FramesTrue(F, H, pub) /\ Newest(F, srv) /\ Showing(cl, F, H, pub)
  BY DEF Truth
<1>3. OnTheWay' = F
  BY DEF OnTheWay
<1>4. TypeOK'
  <2>1. ChannelOK'
    BY <1>1 DEF TypeOK, ChannelOK
  <2> QED BY <1>1, <2>1 DEF TypeOK
<1>5. Numbered'
  BY <1>1 DEF Numbered, Answers
<1>6. Distinct'
  BY <1>1 DEF Distinct
<1>7. Truth(G)'
  <2>1. \/ q.num = pub.num + 1
        \/ /\ q.num = pub.num /\ q.start = pub.start /\ Top(pub) <= Top(q)
           /\ \A s \in pub.start..Top(pub) : Held(q, s) = Held(pub, s)
    BY <1>0 DEF Top, CurrentSeq
  <2> HIDE DEF F
  <2>2. q \in Projections /\ G = [H EXCEPT ![q.num] = q]
    BY <1>0
  <2>3. FramesTrue(F, G, q) /\ Showing(cl, F, G, q)
    BY <1>1, <1>2, <2>1, <2>2, TruthAfterLogging
  <2>4. Newest(F, srv')
    BY <1>2 DEF Newest
  <2>5. Newest(OnTheWay', srv') /\ FramesTrue(OnTheWay', G, pub') /\ Showing(cl', OnTheWay', G, pub')
    BY <1>0, <1>3, <2>3, <2>4
  <2> QED BY <2>5 DEF Truth
<1>8. Onward(cl.view, cl'.view)
  <2>1. cl.view \in Viewed
    BY <1>1 DEF ClientOK, Clients, Viewed
  <2> QED BY <2>1, OnwardAtFirst
<1> QED BY <1>4, <1>5, <1>6, <1>7, <1>8 DEF Sound

\* An event of the session.
LEMMA IngestKeeps ==
    ASSUME Sound, NEW H, Truth(H), NEW empty \in BOOLEAN, Ingest(empty)
    PROVE  Sound' /\ (\E G : Truth(G)') /\ Onward(cl.view, cl'.view)
<1> DEFINE e == IF empty THEN 0 ELSE events'
           r == Rows(<<e>>)
<1>1. TypeOK /\ BufferTrue
  BY DEF Sound
<1>2. events' \in 1..MaxEvents /\ e \in 0..MaxEvents
  BY <1>1, TopicDeliveryAssumption DEF TypeOK, Ingest
<1>3. pub' = Logged(e) /\ srv' = Buffered(srv, r) /\ timer' = (timer \/ (srv.live /\ ~paused))
      /\ UNCHANGED <<paused, outbox, down, arrived, cl, troubles, historyVars>>
  BY DEF Ingest
<1> HIDE DEF e
<1>4. /\ pub' \in Projections /\ pub'.num = pub.num /\ pub'.start = pub.start
      /\ pub'.rows = pub.rows /\ pub'.log = Append(pub.log, e)
      /\ CurrentSeq' = CurrentSeq + 1
      /\ pub'.floor \in pub'.start..CurrentSeq'
  BY <1>1, <1>2, <1>3, LoggedIsTrue
<1>5. /\ Top(pub) = CurrentSeq /\ CurrentSeq \in Nat /\ pub.start \in Nat /\ pub.start <= CurrentSeq
      /\ pub \in Projections /\ srv \in Subscriptions
  BY <1>1, TopIsCurrent
<1>6. /\ \A s \in pub.start..CurrentSeq : Held(pub', s) = Held(pub, s)
      /\ Top(pub') = Top(pub) + 1
      /\ \A s \in pub.start..Top(pub) : Since(pub', s) = Since(pub, s) \o r
  <2> DEFINE q == pub'
  <2>1. q \in Projections /\ q.start = pub.start /\ q.rows = pub.rows /\ q.log = Append(pub.log, e)
    BY <1>4
  <2> HIDE DEF q, r
  <2>2. /\ Top(q) = Top(pub) + 1
        /\ \A s \in pub.start..Top(pub) :
             Held(q, s) = Held(pub, s) /\ Since(q, s) = Since(pub, s) \o Rows(<<e>>)
    BY <1>2, <1>5, <2>1, HeldStays
  <2> QED BY <2>2, <1>5 DEF q, r
<1>7. r \in Seq(1..MaxEvents)
  <2>1. <<e>> \in Seq(0..MaxEvents)
    BY <1>2
  <2> QED BY <2>1, RowsAreRows
<1> DEFINE t == Buffered(srv, r)
<1> HIDE DEF r
<1>8. /\ t \in Subscriptions /\ Len(t.buf) <= MaxOps
      /\ t.id = srv.id /\ t.sent = srv.sent /\ t.ord = srv.ord /\ t.held = srv.held /\ t.live = srv.live
      /\ (srv.over /\ srv.live => t.over)
      /\ (t.live /\ ~t.over => ~srv.over /\ t.buf = srv.buf \o r)
  <2>1. Len(srv.buf) <= MaxOps
    BY <1>1 DEF TypeOK, PublisherOK
  <2> QED BY <1>5, <1>7, <2>1, BufferedIsTrue
<1>9. srv' = t
  BY <1>3
<1> HIDE DEF t
<1>10. PublisherOK'
  <2>1. srv'.live => srv'.sent <= CurrentSeq'
    <3>1. srv.live => srv.sent <= CurrentSeq
      BY <1>1 DEF TypeOK, PublisherOK
    <3>2. srv.sent \in Nat
      BY <1>5 DEF Subscriptions
    <3> QED BY <3>1, <3>2, <1>4, <1>5, <1>8, <1>9
  <2>2. srv'.held => srv'.live /\ outbox' # <<>>
    BY <1>1, <1>3, <1>8, <1>9 DEF TypeOK, PublisherOK
  <2>3. timer' \in BOOLEAN /\ paused' \in BOOLEAN /\ (timer' => ~paused')
    BY <1>1, <1>3 DEF TypeOK, PublisherOK
  <2> QED BY <2>1, <2>2, <2>3, <1>4, <1>8, <1>9 DEF PublisherOK
<1>11. BufferTrue'
  <2> DEFINE q == pub'
  <2>1. q.num = pub.num /\ q.start = pub.start /\ Top(q) = Top(pub) + 1
        /\ \A s \in pub.start..Top(pub) : Since(q, s) = Since(pub, s) \o r
    BY <1>4, <1>6
  <2>2. srv.held => srv.live
    BY <1>1 DEF TypeOK, PublisherOK
  <2> HIDE DEF q
  <2>3. \A n : Buffers(srv, n, pub) /\ t.buf = srv.buf \o r => Buffers(t, n, q)
    <3> SUFFICES ASSUME NEW n \in pub.start..Top(pub), srv.buf = Since(pub, n), t.buf = srv.buf \o r
                 PROVE  n \in q.start..Top(q) /\ t.buf = Since(q, n)
      BY DEF Buffers
    <3>1. Top(pub) \in Nat /\ pub.start \in Nat
      BY <1>5
    <3>2. n \in q.start..Top(q)
      BY <2>1, <3>1
    <3> QED BY <2>1, <3>2
  <2>4. BufferHolds(srv, outbox, pub)
    BY <1>1 DEF BufferTrue
  <2>4a. \A n \in pub.start..Top(pub) : n \in q.start..Top(q)
    <3>1. Top(pub) \in Nat /\ pub.start \in Nat
      BY <1>5
    <3> QED BY <2>1, <3>1
  <2>5. BufferHolds(t, outbox, q)
    BY <1>8, <2>1, <2>2, <2>3, <2>4, <2>4a DEF BufferHolds, Reserved
  <2>6. BufferHolds(srv', outbox', pub')
    BY <1>3, <1>9, <2>5 DEF q
  <2> QED BY <2>6 DEF BufferTrue
<1>12. mixed' \in BOOLEAN /\ troubles' \in 0..MaxTroubles
  BY <1>1, <1>3 DEF historyVars, TypeOK
<1> QED BY <1>2, <1>3, <1>4, <1>5, <1>6, <1>8, <1>9, <1>10, <1>11, <1>12, PublisherAlone

\* A rehydration begins a numbering; what is under way belongs to earlier ones.
LEMMA RehydrateKeeps ==
    ASSUME Sound, NEW H, Truth(H), NEW n \in 1..CurrentSeq, Rehydrate(n)
    PROVE  Sound' /\ (\E G : Truth(G)') /\ Onward(cl.view, cl'.view)
<1>1. TypeOK
  BY DEF Sound
<1>2. /\ pub \in Projections /\ srv \in Subscriptions /\ CurrentSeq \in Nat /\ n \in Nat
      /\ pub.num \in Nat /\ events \in Nat /\ events <= MaxEvents /\ MaxEvents \in Nat
  BY <1>1, TopIsCurrent, TopicDeliveryAssumption DEF TypeOK, Projections
<1> DEFINE rows == [e \in 1..events |-> e]
           q == [num |-> pub.num + 1, start |-> n, rows |-> rows, log |-> <<>>, floor |-> n]
<1>3. rows \in Seq(1..MaxEvents)
  <2>1. \A e \in 1..events : e \in 1..MaxEvents
    BY <1>2
  <2> QED BY <1>2, <2>1
<1>4. pub' = q /\ timer' = (srv.live /\ ~paused)
      /\ UNCHANGED <<paused, outbox, down, arrived, cl, events, historyVars>>
  BY DEF Rehydrate
<1> HIDE DEF rows
<1>5. q \in Projections /\ q.num = pub.num + 1 /\ q.start = n /\ q.floor = n /\ q.log = <<>>
  <2>1. q.log \in Seq(0..MaxEvents)
    OBVIOUS
  <2> QED BY <1>2, <1>3, <2>1 DEF Projections
<1> HIDE DEF q
<1>6. CurrentSeq' = n
  BY <1>2, <1>4, <1>5 DEF CurrentSeq
<1> DEFINE b == <<>>
           s == IF srv.live THEN [srv EXCEPT !.buf = b, !.over = TRUE, !.sent = 0, !.held = FALSE]
                ELSE srv
<1>7. b \in Seq(1..MaxEvents) /\ Len(b) <= MaxOps
  BY TopicDeliveryAssumption
<1>8. srv' = s
  BY DEF Rehydrate
<1> HIDE DEF b
<1>9. /\ s \in Subscriptions /\ s.id = srv.id /\ s.ord = srv.ord /\ s.live = srv.live
      /\ (s.live => s.over /\ ~s.held /\ s.sent = 0 /\ s.buf = b)
      /\ (~s.live => s = srv)
  <2>1. s \in Subscriptions
    BY <1>2, <1>7 DEF Subscriptions
  <2>2. s.id = srv.id /\ s.ord = srv.ord /\ s.live = srv.live
    BY <1>2 DEF Subscriptions
  <2>3. srv.live => s.over /\ ~s.held /\ s.sent = 0 /\ s.buf = b
    BY <1>2 DEF Subscriptions
  <2> HIDE DEF s
  <2>4. ~srv.live => s = srv
    BY DEF s
  <2> QED BY <2>1, <2>2, <2>3, <2>4
<1> HIDE DEF s
<1>10. ~(s.held)
  BY <1>1, <1>9 DEF TypeOK, PublisherOK
<1>11. PublisherOK'
  <2>1. (s.live => s.sent <= n) /\ Len(s.buf) <= MaxOps
    BY <1>1, <1>2, <1>7, <1>9 DEF TypeOK, PublisherOK
  <2>2. q.floor \in q.start..n
    BY <1>2, <1>5
  <2>3. timer' \in BOOLEAN /\ paused' \in BOOLEAN /\ (timer' => ~paused')
    BY <1>1, <1>2, <1>4 DEF TypeOK, PublisherOK, Subscriptions
  <2> QED BY <1>4, <1>5, <1>6, <1>8, <1>9, <1>10, <2>1, <2>2, <2>3 DEF PublisherOK
<1>12. BufferTrue'
  <2>1. BufferHolds(s, outbox', q)
    BY <1>9, <1>10 DEF BufferHolds
  <2> QED BY <1>4, <1>8, <2>1 DEF BufferTrue
<1>13. troubles' \in 0..MaxTroubles /\ mixed' \in BOOLEAN
  BY <1>1, <1>4, TroubleCounts DEF Rehydrate, historyVars, TypeOK
<1>14. events' \in 1..MaxEvents
  BY <1>1, <1>4 DEF TypeOK
<1> QED BY <1>4, <1>5, <1>8, <1>9, <1>11, <1>12, <1>13, <1>14, PublisherAlone

-----------------------------------------------------------------------------
(* Frames that are sent. *)

\* A frame made of what the publisher holds is true.
LEMMA SinceIsPiece ==
    ASSUME NEW p \in Projections, NEW n \in p.start..Top(p)
    PROVE  /\ Held(p, Top(p)) = Held(p, n) \o Since(p, n)
           /\ Since(p, n) \in Seq(1..MaxEvents) /\ Held(p, Top(p)) \in Seq(1..MaxEvents)
<1>1. p.log \in Seq(0..MaxEvents) /\ p.start \in Nat
  BY DEF Projections
<1>2. Len(p.log) \in Nat /\ Top(p) = p.start + Len(p.log)
  BY <1>1 DEF Top
<1> DEFINE t == Top(p)
<1>3. t \in n..Top(p) /\ t \in p.start..Top(p) /\ t - p.start = Len(p.log)
  BY <1>1, <1>2
<1> HIDE DEF t
<1>4. Held(p, t) = Held(p, n) \o Rows(SubSeq(p.log, n - p.start + 1, t - p.start))
      /\ Rows(SubSeq(p.log, n - p.start + 1, t - p.start)) \in Seq(1..MaxEvents)
      /\ Held(p, t) \in Seq(1..MaxEvents)
  BY <1>3, HeldGrows, HeldIsSeq
<1> QED BY <1>3, <1>4 DEF Since, t

\* The frame f is the next of the subscription s.
NextFrame(f, s) ==
    /\ f \in Frames /\ f.sub = s.id /\ f.ord = s.ord + 1 /\ f.num = pub.num /\ f.to = CurrentSeq
    /\ FrameTrue(f, pub)

\* A snapshot is true and next,
LEMMA SnapshotIsNext ==
    ASSUME TypeOK, NEW s \in Subscriptions, NEW use \in {"initial", "online", "recovery"}
    PROVE  NextFrame(Snapshot(s, use), s)
<1> DEFINE f == Snapshot(s, use)
           rows == RowsAt(CurrentSeq)
<1>1. /\ Top(pub) = CurrentSeq /\ CurrentSeq \in Nat /\ pub.start \in Nat /\ pub.start <= CurrentSeq
      /\ pub \in Projections /\ pub.num \in Nat \ {0} /\ s.id \in Nat /\ s.ord \in Nat
  BY TopIsCurrent DEF Projections, Subscriptions
<1>2. CurrentSeq \in pub.start..Top(pub)
  BY <1>1
<1>3. rows = Held(pub, CurrentSeq) /\ rows \in Seq(1..MaxEvents)
  BY <1>1, <1>2, HeldIsSeq DEF RowsAt, Held
<1> HIDE DEF rows
<1>4. f = [sub |-> s.id, ord |-> s.ord + 1, kind |-> "snapshot", use |-> use, from |-> 0,
           to |-> CurrentSeq, rows |-> rows, num |-> pub.num]
  BY DEF Snapshot, Frame, rows
<1> HIDE DEF f
<1>5. f \in Frames
  BY <1>1, <1>3, <1>4 DEF Frames
<1>6. f.sub = s.id /\ f.ord = s.ord + 1 /\ f.num = pub.num /\ f.to = CurrentSeq
      /\ f.kind = "snapshot" /\ f.rows = rows
  BY <1>4
<1>7. FrameTrue(f, pub)
  BY <1>1, <1>2, <1>3, <1>6 DEF FrameTrue
<1>8. NextFrame(f, s)
  BY <1>5, <1>6, <1>7 DEF NextFrame
<1> QED BY <1>8 DEF f

\* and so are deltas with what has been added since the number they start from.
LEMMA DeltasAreNext ==
    ASSUME TypeOK, NEW s \in Subscriptions, NEW use \in {"initial", "online", "recovery"},
           NEW n \in pub.start..CurrentSeq, NEW rows, rows = Since(pub, n)
    PROVE  NextFrame(Frame(s, "deltas", use, n, rows), s)
<1> DEFINE f == Frame(s, "deltas", use, n, rows)
<1>1. /\ Top(pub) = CurrentSeq /\ CurrentSeq \in Nat /\ pub.start \in Nat /\ pub.start <= CurrentSeq
      /\ pub \in Projections /\ pub.num \in Nat \ {0} /\ s.id \in Nat /\ s.ord \in Nat
  BY TopIsCurrent DEF Projections, Subscriptions
<1>2. CurrentSeq \in pub.start..Top(pub) /\ n \in pub.start..Top(pub) /\ n \in Nat
  BY <1>1
<1>3. Held(pub, CurrentSeq) = Held(pub, n) \o rows /\ rows \in Seq(1..MaxEvents)
  BY <1>1, <1>2, SinceIsPiece
<1>4. f = [sub |-> s.id, ord |-> s.ord + 1, kind |-> "deltas", use |-> use, from |-> n,
           to |-> CurrentSeq, rows |-> rows, num |-> pub.num]
  BY DEF Frame
<1> HIDE DEF f
<1>5. f \in Frames
  BY <1>1, <1>2, <1>3, <1>4 DEF Frames
<1>6. f.sub = s.id /\ f.ord = s.ord + 1 /\ f.num = pub.num /\ f.to = CurrentSeq
      /\ f.kind = "deltas" /\ f.rows = rows /\ f.from = n
  BY <1>4
<1>7. FrameTrue(f, pub)
  BY <1>1, <1>2, <1>3, <1>6 DEF FrameTrue
<1>8. NextFrame(f, s)
  BY <1>5, <1>6, <1>7 DEF NextFrame
<1> QED BY <1>8 DEF f

\* What is apart from the parts is apart from the whole.
LEMMA ConcatIsApart ==
    ASSUME NEW s \in Seq(Messages), NEW t \in Seq(Messages)
    PROVE  /\ Once(s) /\ Once(t) /\ Apart(s, t) => Once(s \o t)
           /\ \A u : Apart(s, u) /\ Apart(t, u) => Apart(s \o t, u)
           /\ \A u : Apart(u, s) /\ Apart(u, t) => Apart(u, s \o t)
           /\ \A A : Off(A, s) /\ Off(A, t) => Off(A, s \o t)
           /\ \A c, v : /\ \A i \in 1..Len(s) : Answers(s[i], c, v)
                        /\ \A i \in 1..Len(t) : Answers(t[i], c, v)
                        => \A i \in 1..Len(s \o t) : Answers((s \o t)[i], c, v)
<1> DEFINE w == s \o t
<1>1. /\ Len(w) = Len(s) + Len(t) /\ Len(s) \in Nat /\ Len(t) \in Nat
      /\ \A i \in 1..Len(s) + Len(t) : w[i] = IF i <= Len(s) THEN s[i] ELSE t[i - Len(s)]
  BY ConcatProperties
<1> HIDE DEF w
<1>2. \A i \in 1..Len(w) :
        \/ i \in 1..Len(s) /\ w[i] = s[i]
        \/ i > Len(s) /\ i - Len(s) \in 1..Len(t) /\ w[i] = t[i - Len(s)]
  <2> SUFFICES ASSUME NEW i \in 1..Len(w)
               PROVE  \/ i \in 1..Len(s) /\ w[i] = s[i]
                      \/ i > Len(s) /\ i - Len(s) \in 1..Len(t) /\ w[i] = t[i - Len(s)]
    OBVIOUS
  <2>1. CASE i <= Len(s)
    BY <1>1, <2>1
  <2>2. CASE ~(i <= Len(s))
    BY <1>1, <2>2
  <2> QED BY <2>1, <2>2
<1>3. ASSUME Once(s), Once(t), Apart(s, t) PROVE Once(w)
  <2> SUFFICES ASSUME NEW i \in 1..Len(w), NEW j \in 1..Len(w), i < j, Asks(w[i]), Asks(w[j])
               PROVE  w[i].id # w[j].id
    BY DEF Once
  <2>1. CASE i \in 1..Len(s) /\ w[i] = s[i] /\ j \in 1..Len(s) /\ w[j] = s[j]
    BY <1>3, <2>1 DEF Once
  <2>2. CASE i \in 1..Len(s) /\ w[i] = s[i] /\ j - Len(s) \in 1..Len(t) /\ w[j] = t[j - Len(s)]
    BY <1>3, <2>2 DEF Apart
  <2>3. CASE i > Len(s) /\ i - Len(s) \in 1..Len(t) /\ w[i] = t[i - Len(s)]
    <3>1. j > Len(s) /\ j - Len(s) \in 1..Len(t) /\ w[j] = t[j - Len(s)]
      BY <1>1, <1>2, <2>3
    <3>2. i - Len(s) < j - Len(s)
      BY <1>1
    <3> QED BY <1>3, <2>3, <3>1, <3>2 DEF Once
  <2> QED BY <1>2, <2>1, <2>2, <2>3
<1>4. \A u : Apart(s, u) /\ Apart(t, u) => Apart(w, u)
  BY <1>2 DEF Apart
<1>5. ASSUME NEW u, Apart(u, s), Apart(u, t) PROVE Apart(u, w)
  <2> SUFFICES ASSUME NEW i \in 1..Len(u), NEW j \in 1..Len(w), Asks(u[i]), Asks(w[j])
               PROVE  u[i].id # w[j].id
    BY DEF Apart
  <2>1. CASE j \in 1..Len(s) /\ w[j] = s[j]
    BY <1>5, <2>1 DEF Apart
  <2>2. CASE j - Len(s) \in 1..Len(t) /\ w[j] = t[j - Len(s)]
    BY <1>5, <2>2 DEF Apart
  <2> QED BY <1>2, <2>1, <2>2
<1>6. \A A : Off(A, s) /\ Off(A, t) => Off(A, w)
  BY <1>2 DEF Off
<1>7. \A c, v : /\ \A i \in 1..Len(s) : Answers(s[i], c, v)
                /\ \A i \in 1..Len(t) : Answers(t[i], c, v)
                => \A i \in 1..Len(w) : Answers(w[i], c, v)
  BY <1>2
<1> QED BY <1>3, <1>4, <1>5, <1>6, <1>7 DEF w

\* Wires ask nothing.
LEMMA WiresAskNothing ==
    ASSUME NEW s, \A i \in 1..Len(s) : s[i] \in WireSet
    PROVE  /\ Once(s)
           /\ \A u : Apart(s, u) /\ Apart(u, s)
           /\ \A A : Off(A, s)
           /\ \A c, v : \A i \in 1..Len(s) : Answers(s[i], c, v)
<1>1. \A i \in 1..Len(s) : ~Asks(s[i])
  BY ReplyOrWire DEF Asks
<1> QED BY <1>1 DEF Once, Apart, Off, Answers

\* Nothing has been added since the last event.
LEMMA NothingSince ==
    ASSUME TypeOK
    PROVE  Buffers([buf |-> <<>>], CurrentSeq, pub)
<1>1. /\ Top(pub) = CurrentSeq /\ CurrentSeq \in Nat /\ pub.start \in Nat /\ pub.start <= CurrentSeq
      /\ pub \in Projections
  BY TopIsCurrent
<1> DEFINE n == CurrentSeq
<1>2. n \in pub.start..Top(pub) /\ n = Top(pub)
  BY <1>1
<1> HIDE DEF n
<1>3. Held(pub, n) = Held(pub, n) \o Since(pub, n)
      /\ Since(pub, n) \in Seq(1..MaxEvents) /\ Held(pub, n) \in Seq(1..MaxEvents)
  BY <1>1, <1>2, SinceIsPiece
<1>4. Since(pub, n) = <<>>
  <2> DEFINE s == Held(pub, n)
             t == Since(pub, n)
  <2>1. s \in Seq(1..MaxEvents) /\ t \in Seq(1..MaxEvents) /\ s = s \o t
    BY <1>3
  <2> HIDE DEF s, t
  <2>2. t = <<>>
    BY <2>1, ConcatEqualIffEmpty
  <2> QED BY <2>2 DEF t
<1> QED BY <1>2, <1>4 DEF Buffers, n

\* A flush sends the next frame.
LEMMA FrameSent ==
    ASSUME Sound, NEW H, Truth(H), srv.live, ~srv.held, NEW f, NextFrame(f, srv),
           srv' = [srv EXCEPT !.buf = <<>>, !.over = FALSE, !.sent = f.to, !.ord = f.ord],
           down' = down \o Wires(f),
           UNCHANGED <<pub, outbox, arrived, cl, events, troubles>>, mixed' \in BOOLEAN,
           timer' \in BOOLEAN, paused' \in BOOLEAN, timer' => ~paused'
    PROVE  Sound' /\ Truth(H)' /\ Onward(cl.view, cl'.view)
<1> DEFINE F == OnTheWay
           b == <<>>
           s == [srv EXCEPT !.buf = b, !.over = FALSE, !.sent = f.to, !.ord = f.ord]
<1>1. TypeOK /\ Numbered /\ Distinct /\ BufferTrue /\ ClientOK(cl)
      /\ FramesTrue(F, H, pub) /\ Newest(F, srv) /\ Showing(cl, F, H, pub)
  BY DEF Sound, TypeOK, Truth
<1>2. down \in Seq(Messages) /\ Wires(f) \in Seq(Messages)
      /\ (\A i \in 1..Len(Wires(f)) : Wires(f)[i] \in WireSet) /\ FramesOf(Wires(f)) = {f}
  BY <1>1, WiresOfFrame DEF TypeOK, ChannelOK, Messages, NextFrame
<1>3. srv \in Subscriptions /\ f \in Frames /\ f.sub = srv.id /\ f.ord = srv.ord + 1
      /\ f.num = pub.num /\ f.to = CurrentSeq /\ FrameTrue(f, pub) /\ CurrentSeq \in Nat
      /\ f.ord \in Nat /\ Top(pub) = CurrentSeq
  BY <1>1, TopIsCurrent DEF NextFrame, Frames
<1>4. b \in Seq(1..MaxEvents) /\ Len(b) <= MaxOps
  BY TopicDeliveryAssumption
<1>5. srv' = s
  OBVIOUS
<1>6. Buffers([buf |-> b], CurrentSeq, pub)
  BY <1>1, NothingSince
<1> HIDE DEF b
<1>7. s \in Subscriptions /\ s.id = srv.id /\ s.ord = f.ord /\ s.live = srv.live /\ s.held = srv.held
      /\ s.buf = b /\ ~s.over /\ s.sent = CurrentSeq
  <2>1. s \in Subscriptions
    BY <1>3, <1>4 DEF Subscriptions
  <2>2. s.id = srv.id /\ s.ord = f.ord /\ s.live = srv.live /\ s.held = srv.held
      /\ s.buf = b /\ ~s.over /\ s.sent = CurrentSeq
    BY <1>3 DEF Subscriptions
  <2> QED BY <2>1, <2>2
<1> HIDE DEF s
<1>8. TypeOK'
  <2>1. down' \in Seq(Messages)
    BY <1>2, ConcatProperties
  <2>2. ChannelOK'
    BY <1>1, <2>1 DEF TypeOK, ChannelOK, Messages
  <2>3. CurrentSeq' = CurrentSeq
    BY DEF CurrentSeq
  <2>4. s.sent <= CurrentSeq
    BY <1>3, <1>7
  <2>5. PublisherOK'
    BY <1>1, <1>4, <1>5, <1>7, <2>3, <2>4 DEF TypeOK, PublisherOK
  <2> QED BY <1>1, <2>2, <2>5 DEF TypeOK
<1>9. /\ Once(down') /\ Apart(down', outbox) /\ Apart(down', cl.up) /\ Off(arrived, down')
      /\ \A i \in 1..Len(down') : Answers(down'[i], cl, srv)
  <2> DEFINE w == Wires(f)
  <2>2. w \in Seq(Messages) /\ down' = down \o w /\ \A i \in 1..Len(w) : w[i] \in WireSet
    BY <1>2
  <2> HIDE DEF w
  <2>1. /\ Once(w) /\ Apart(down, w) /\ Apart(w, outbox) /\ Apart(w, cl.up) /\ Off(arrived, w)
        /\ \A i \in 1..Len(w) : Answers(w[i], cl, srv)
    <3>1. /\ Once(w)
          /\ \A u : Apart(w, u) /\ Apart(u, w)
          /\ \A A : Off(A, w)
          /\ \A c, v : \A i \in 1..Len(w) : Answers(w[i], c, v)
      BY <2>2, WiresAskNothing
    <3> QED BY <3>1
  <2>3. /\ Once(down) /\ Apart(down, outbox) /\ Apart(down, cl.up) /\ Off(arrived, down)
        /\ \A i \in 1..Len(down) : Answers(down[i], cl, srv)
    BY <1>1 DEF Distinct, Numbered
  <2> QED BY <1>2, <2>1, <2>2, <2>3, ConcatIsApart
<1>10. Numbered'
  <2>1. \A m, c : Answers(m, c, srv) => Answers(m, c, s)
    BY <1>7 DEF Answers
  <2> QED BY <1>1, <1>5, <1>7, <1>9, <2>1 DEF Numbered
<1>11. Distinct'
  BY <1>1, <1>9 DEF Distinct
<1>12. BufferTrue'
  <2>1. BufferHolds(s, outbox, pub)
    BY <1>6, <1>7 DEF BufferHolds, Buffers
  <2> QED BY <1>5, <2>1 DEF BufferTrue
<1>13. Truth(H)' /\ Onward(cl.view, cl'.view)
  <2> DEFINE G == OnTheWay'
  <2>1. G \subseteq F \cup {f}
    BY <1>2, FramesOfConcat DEF OnTheWay
  <2>2. srv.id # 0
    BY <1>1 DEF Numbered
  <2> HIDE DEF F, G
  <2> DEFINE E == F \cup {f}
             r == [srv EXCEPT !.id = f.sub, !.ord = f.ord]
  <2>3. FramesTrue(E, H, pub) /\ Newest(E, r) /\ Showing(cl, E, H, pub)
    <3>1. f.ord > srv.ord
      BY <1>3 DEF Subscriptions
    <3> QED BY <1>1, <1>3, <2>2, <3>1, LaterIsLast
  <2>4. Newest(E, s)
    <3>1. r.id = s.id /\ r.ord = s.ord
      BY <1>3, <1>7 DEF Subscriptions
    <3> HIDE DEF E, r
    <3> QED BY <2>3, <3>1 DEF Newest
  <2> HIDE DEF E
  <2>5. FramesTrue(G, H, pub) /\ Newest(G, s) /\ Showing(cl, G, H, pub)
    <3>1. G \subseteq E
      BY <2>1 DEF E
    <3> QED BY <2>3, <2>4, <3>1, FewerFrames
  <2>6. cl.view \in Viewed
    BY <1>1 DEF ClientOK, Clients, Viewed
  <2>7. Onward(cl.view, cl.view)
    BY <2>6, OnwardAtFirst
  <2> QED BY <1>5, <2>5, <2>7 DEF Truth, G
<1> QED BY <1>8, <1>10, <1>11, <1>12, <1>13 DEF Sound

\* Only timers and the state of the connection change.
LEMMA NothingSent ==
    ASSUME Sound, NEW H, Truth(H), UNCHANGED <<pub, srv, outbox, down, arrived, cl, events>>, mixed' \in BOOLEAN,
           timer' \in BOOLEAN, paused' \in BOOLEAN, timer' => ~paused',
           troubles' \in 0..MaxTroubles
    PROVE  Sound' /\ (\E G : Truth(G)') /\ Onward(cl.view, cl'.view)
<1>1. TypeOK /\ BufferTrue
  BY DEF Sound
<1>2. PublisherOK'
  BY <1>1 DEF TypeOK, PublisherOK, CurrentSeq
<1>3. BufferTrue'
  BY <1>1 DEF BufferTrue
<1>4. /\ pub' \in Projections /\ pub'.num = pub.num /\ pub'.start = pub.start
      /\ events' \in 1..MaxEvents
      /\ \A s \in pub.start..CurrentSeq : Held(pub', s) = Held(pub, s)
  BY <1>1 DEF TypeOK, PublisherOK
<1>5. CurrentSeq <= CurrentSeq'
  <2>1. CurrentSeq' = CurrentSeq
    BY DEF CurrentSeq
  <2> QED BY <2>1, <1>1, TopIsCurrent
<1> QED BY <1>2, <1>3, <1>4, <1>5, PublisherAlone

\* A flush, whatever it sends,
LEMMA FlushKeeps ==
    ASSUME Sound, NEW H, Truth(H), Flush, timer' = FALSE, paused' \in BOOLEAN,
           UNCHANGED <<pub, outbox, arrived, cl, events, troubles>>, mixed' \in BOOLEAN
    PROVE  Sound' /\ (\E G : Truth(G)') /\ Onward(cl.view, cl'.view)
<1>1. TypeOK /\ BufferTrue /\ srv \in Subscriptions /\ Top(pub) = CurrentSeq
  BY TopIsCurrent DEF Sound
<1>2. CASE srv.live /\ ~srv.held /\ srv.over
  <2> DEFINE f == Snapshot(srv, "online")
  <2>1. NextFrame(f, srv)
    BY <1>1, SnapshotIsNext
  <2>2. /\ down' = down \o Wires(f)
        /\ srv' = [srv EXCEPT !.buf = <<>>, !.over = FALSE, !.sent = f.to, !.ord = f.ord]
    BY <1>2 DEF Flush
  <2> HIDE DEF f
  <2>3. Sound' /\ Truth(H)' /\ Onward(cl.view, cl'.view)
    BY <1>2, <2>1, <2>2, FrameSent
  <2> QED BY <2>3
<1>3. CASE /\ ~(srv.live /\ ~srv.held /\ srv.over)
           /\ srv.live /\ ~srv.held /\ ~(srv.buf = <<>> /\ srv.sent = CurrentSeq)
  <2> DEFINE f == Frame(srv, "deltas", "online", srv.sent, srv.buf)
  <2>1. NextFrame(f, srv)
    <3>1. srv.sent \in pub.start..CurrentSeq /\ srv.buf = Since(pub, srv.sent)
      BY <1>1, <1>3 DEF BufferTrue, BufferHolds, Buffers
    <3> DEFINE n == srv.sent
               r == srv.buf
    <3>2. n \in pub.start..CurrentSeq /\ r = Since(pub, n)
      BY <3>1
    <3> HIDE DEF n, r
    <3>3. NextFrame(Frame(srv, "deltas", "online", n, r), srv)
      BY <1>1, <3>2, DeltasAreNext
    <3> QED BY <3>3 DEF n, r
  <2>2. /\ down' = down \o Wires(f)
        /\ srv' = [srv EXCEPT !.buf = <<>>, !.over = FALSE, !.sent = f.to, !.ord = f.ord]
    BY <1>3 DEF Flush
  <2> HIDE DEF f
  <2>3. Sound' /\ Truth(H)' /\ Onward(cl.view, cl'.view)
    BY <1>3, <2>1, <2>2, FrameSent
  <2> QED BY <2>3
<1>4. CASE /\ ~(srv.live /\ ~srv.held /\ srv.over)
           /\ ~(srv.live /\ ~srv.held /\ ~(srv.buf = <<>> /\ srv.sent = CurrentSeq))
  <2>1. UNCHANGED <<srv, down>>
    BY <1>4 DEF Flush
  <2>2. troubles' \in 0..MaxTroubles
    BY <1>1 DEF TypeOK
  <2> QED BY <2>1, <2>2, NothingSent
<1> QED BY <1>2, <1>3, <1>4

\* by the timer, and by the connection that drains.
LEMMA TimerKeeps ==
    ASSUME Sound, NEW H, Truth(H), FlushTimer \/ Saturated \/ Drained
    PROVE  Sound' /\ (\E G : Truth(G)') /\ Onward(cl.view, cl'.view)
<1>1. TypeOK
  BY DEF Sound
<1>2. CASE FlushTimer \/ Drained
  <2>1. /\ Flush /\ timer' = FALSE /\ paused' \in BOOLEAN
        /\ UNCHANGED <<pub, outbox, arrived, cl, events, troubles>>
        /\ mixed' \in BOOLEAN
    BY <1>1, <1>2 DEF FlushTimer, Drained, historyVars, TypeOK, PublisherOK
  <2> QED BY <2>1, FlushKeeps
<1>3. CASE Saturated
  <2>1. /\ timer' = FALSE /\ paused' = TRUE /\ troubles' \in 0..MaxTroubles
        /\ UNCHANGED <<pub, srv, outbox, down, arrived, cl, events>>
        /\ mixed' \in BOOLEAN
    BY <1>1, <1>3, TroubleCounts DEF Saturated, historyVars, TypeOK
  <2> QED BY <2>1, NothingSent
<1> QED BY <1>2, <1>3

-----------------------------------------------------------------------------
(* Requests. *)

\* What is left of the requests when the first is taken.
LEMMA RequestTaken ==
    ASSUME Sound, NEW op, Takes(op), NEW m, m = Head(cl.up)
    PROVE  /\ m \in Requests /\ m.op = op /\ outbox = <<>>
           /\ ClientOK(cl') /\ cl'.up = Tail(cl.up) /\ cl'.view = cl.view /\ cl'.sub = cl.sub
           /\ cl'.gen = cl.gen /\ cl'.staged = cl.staged /\ cl'.dec = cl.dec
           /\ (Asks(m) => m.id <= cl.gen)
           /\ \A i \in 1..Len(cl'.up) : Asks(cl'.up[i]) => cl'.up[i].id <= cl.gen
           /\ Once(cl'.up) /\ Apart(down, cl'.up) /\ Off(arrived, cl'.up)
           /\ \A i \in 1..Len(cl'.up) : Asks(m) /\ Asks(cl'.up[i]) => m.id # cl'.up[i].id
           /\ \A i \in 1..Len(down) : Asks(m) /\ Asks(down[i]) => m.id # down[i].id
           /\ \A n \in arrived : Asks(m) /\ Asks(n) => n.id # m.id
<1>1. /\ TypeOK /\ Numbered /\ Distinct /\ ClientOK(cl) /\ cl \in Clients /\ cl.up \in Seq(Requests)
      /\ cl.up # <<>> /\ m.op = op /\ outbox = <<>> /\ cl' = [cl EXCEPT !.up = Tail(cl.up)]
  BY DEF Sound, TypeOK, ClientOK, Clients, Takes
<1> DEFINE u == cl.up
           t == Tail(u)
<1>2. /\ t \in Seq(Requests) /\ Len(t) = Len(u) - 1 /\ Len(u) \in Nat
      /\ \A i \in 1..Len(t) : t[i] = u[i + 1]
  BY <1>1, HeadTailProperties
<1>3. 1 \in 1..Len(u) /\ m = u[1] /\ m \in Requests
  <2>1. Len(u) # 0
    BY <1>1
  <2>2. 1 \in 1..Len(u)
    BY <2>1, <1>2
  <2> QED BY <2>2, <1>1
<1>4. \A i \in 1..Len(t) : i + 1 \in 1..Len(u) /\ 1 < i + 1
  BY <1>2
<1> HIDE DEF t
<1>5. /\ cl' \in Clients /\ cl'.up = t /\ cl'.view = cl.view /\ cl'.sub = cl.sub /\ cl'.gen = cl.gen
      /\ cl'.staged = cl.staged /\ cl'.dec = cl.dec /\ cl'.pending = cl.pending
      /\ cl'.applied = cl.applied /\ cl'.awaiting = cl.awaiting /\ cl'.flight = cl.flight
  <2>1. cl' = [cl EXCEPT !.up = t]
    BY <1>1 DEF t
  <2>2. cl' \in Clients
    BY <1>1, <1>2, <2>1 DEF Clients
  <2> QED BY <1>1, <2>1, <2>2 DEF Clients
<1>6. ClientOK(cl')
  BY <1>1, <1>5 DEF ClientOK
<1>7. (Asks(m) => m.id <= cl.gen) /\ \A i \in 1..Len(t) : Asks(t[i]) => t[i].id <= cl.gen
  BY <1>1, <1>2, <1>3, <1>4 DEF Numbered
<1>8. Once(t)
  <2> SUFFICES ASSUME NEW i \in 1..Len(t), NEW j \in 1..Len(t), i < j, Asks(t[i]), Asks(t[j])
               PROVE  t[i].id # t[j].id
    BY DEF Once
  <2>1. i + 1 \in 1..Len(u) /\ j + 1 \in 1..Len(u) /\ i + 1 < j + 1 /\ t[i] = u[i + 1] /\ t[j] = u[j + 1]
    BY <1>2, <1>4
  <2>2. Once(u)
    BY <1>1 DEF Distinct
  <2> HIDE DEF u
  <2> QED BY <2>1, <2>2 DEF Once
<1>8a. Once(u) /\ Apart(down, u) /\ Off(arrived, u)
  BY <1>1 DEF Distinct
<1>8b. \A i \in 1..Len(t) : i + 1 \in 1..Len(u) /\ 1 < i + 1 /\ t[i] = u[i + 1]
  BY <1>2, <1>4
<1>8c. 1 \in 1..Len(u) /\ m = u[1]
  BY <1>3
<1> HIDE DEF u
<1>9. Apart(down, t) /\ Off(arrived, t)
  <2>1. Apart(down, t)
    BY <1>8a, <1>8b DEF Apart
  <2>2. Off(arrived, t)
    BY <1>8a, <1>8b DEF Off
  <2> QED BY <2>1, <2>2
<1>10. \A i \in 1..Len(t) : Asks(m) /\ Asks(t[i]) => m.id # t[i].id
  BY <1>8a, <1>8b, <1>8c DEF Once
<1>11. /\ \A i \in 1..Len(down) : Asks(m) /\ Asks(down[i]) => m.id # down[i].id
       /\ \A n \in arrived : Asks(m) /\ Asks(n) => n.id # m.id
  BY <1>1, <1>3 DEF Distinct, Apart, Off
<1> QED BY <1>1, <1>3, <1>5, <1>6, <1>7, <1>8, <1>9, <1>10, <1>11 DEF t, u

\* The reply r to the request m, and the wires w that belong to it.
LEMMA Replied ==
    ASSUME Sound, NEW op, Takes(op), NEW m, m = Head(cl.up), NEW r \in Replies, NEW w \in Seq(WireSet),
           Asks(r) => Asks(m) /\ r.id = m.id /\ r.sub > cl.sub /\ r.sub <= srv'.id,
           outbox' = <<r>> \o w, UNCHANGED <<down, arrived>>,
           srv' \in Subscriptions, srv'.id >= srv.id, srv'.live => srv'.id # 0
    PROVE  /\ ChannelOK' /\ Numbered' /\ Distinct'
           /\ Len(outbox') = 1 + Len(w) /\ (Len(w) > 0 => Last(outbox') = w[Len(w)])
           /\ OnTheWay' \subseteq OnTheWay \cup FramesOf(w)
<1> DEFINE o == <<r>>
           v == srv'
           d == cl'
           x == o \o w
<1>1. TypeOK /\ Numbered /\ Distinct /\ srv \in Subscriptions /\ ClientOK(cl)
  BY TopIsCurrent DEF Sound, TypeOK
<1>2. /\ m \in Requests /\ m.op = op /\ outbox = <<>>
      /\ ClientOK(d) /\ d.up = Tail(cl.up) /\ d.view = cl.view /\ d.sub = cl.sub
      /\ d.gen = cl.gen /\ d.staged = cl.staged /\ d.dec = cl.dec
      /\ (Asks(m) => m.id <= cl.gen)
      /\ \A i \in 1..Len(d.up) : Asks(d.up[i]) => d.up[i].id <= cl.gen
      /\ Once(d.up) /\ Apart(down, d.up) /\ Off(arrived, d.up)
      /\ \A i \in 1..Len(d.up) : Asks(m) /\ Asks(d.up[i]) => m.id # d.up[i].id
      /\ \A i \in 1..Len(down) : Asks(m) /\ Asks(down[i]) => m.id # down[i].id
      /\ \A n \in arrived : Asks(m) /\ Asks(n) => n.id # m.id
  BY RequestTaken
<1>3. v \in Subscriptions /\ v.id >= srv.id /\ (v.live => v.id # 0) /\ v.id \in Nat /\ srv.id \in Nat
  BY <1>1 DEF Subscriptions
<1>4. Asks(r) => Asks(m) /\ r.id = m.id /\ r.sub > cl.sub /\ r.sub <= v.id
  OBVIOUS
<1>5. o \in Seq(Messages) /\ Len(o) = 1 /\ o[1] = r /\ w \in Seq(Messages) /\ Len(w) \in Nat
      /\ \A i \in 1..Len(w) : w[i] \in WireSet
  <2>1. w \in Seq(Messages)
    <3>1. \A i \in 1..Len(w) : w[i] \in WireSet
      OBVIOUS
    <3>2. \A i \in 1..Len(w) : w[i] \in Messages
      BY <3>1 DEF Messages
    <3> QED BY <3>2, NarrowedSeq
  <2> QED BY <2>1 DEF Messages
<1>6. outbox' = x
  OBVIOUS
<1> HIDE DEF o, v, d
<1>7. x \in Seq(Messages) /\ Len(x) = 1 + Len(w)
      /\ \A i \in 1..1 + Len(w) : x[i] = IF i <= 1 THEN o[i] ELSE w[i - 1]
  <2>1. /\ x \in Seq(Messages) /\ Len(x) = Len(o) + Len(w)
        /\ \A i \in 1..Len(o) + Len(w) : x[i] = IF i <= Len(o) THEN o[i] ELSE w[i - Len(o)]
    BY <1>5, ConcatProperties
  <2> HIDE DEF x
  <2> QED BY <2>1, <1>5
<1>8. FramesOf(x) \subseteq FramesOf(w)
  <2>1. FramesOf(o) = {}
    BY <1>5, ReplyOrWire DEF FramesOf
  <2> QED BY <1>5, <2>1, FramesOfConcat
<1>9. \A i \in 1..1 : ~Asks(o[i]) \/ (o[i] = r /\ Asks(r))
  BY <1>5
<1>10. /\ Apart(down, o) /\ Apart(o, d.up) /\ Off(arrived, o)
       /\ \A i \in 1..Len(o) : Answers(o[i], cl, v)
  <2>1. /\ \A i \in 1..Len(d.up) : Asks(r) /\ Asks(d.up[i]) => r.id # d.up[i].id
        /\ \A i \in 1..Len(down) : Asks(r) /\ Asks(down[i]) => down[i].id # r.id
        /\ \A n \in arrived : Asks(r) /\ Asks(n) => n.id # r.id
    BY <1>2, <1>4
  <2>2. Apart(down, o)
    BY <1>5, <2>1 DEF Apart
  <2>3. Apart(o, d.up)
    BY <1>5, <2>1 DEF Apart
  <2>4. Off(arrived, o)
    BY <1>5, <2>1 DEF Off
  <2>5. Answers(r, cl, v)
    BY <1>2, <1>4 DEF Answers
  <2> QED BY <1>5, <2>2, <2>3, <2>4, <2>5
<1>11. /\ \A u : Apart(w, u) /\ Apart(u, w)
       /\ \A A : Off(A, w)
       /\ \A c, u : \A i \in 1..Len(w) : Answers(w[i], c, u)
  BY <1>5, WiresAskNothing
<1>12. /\ Apart(down, x) /\ Apart(x, d.up) /\ Off(arrived, x)
       /\ \A i \in 1..Len(x) : Answers(x[i], cl, v)
  BY <1>5, <1>10, <1>11, ConcatIsApart
<1> HIDE DEF x
<1>13. ChannelOK'
  <2>1. \A i \in 1..Len(x) : x[i] \in Replies <=> i = 1
    <3> SUFFICES ASSUME NEW i \in 1..Len(x) PROVE x[i] \in Replies <=> i = 1
      OBVIOUS
    <3>1. CASE i = 1
      BY <1>5, <1>7, <3>1
    <3>2. CASE i # 1
      <4>1. i - 1 \in 1..Len(w) /\ x[i] = w[i - 1]
        BY <1>5, <1>7, <3>2
      <4> QED BY <4>1, <3>2, <1>5, ReplyOrWire
    <3> QED BY <3>1, <3>2
  <2>2. DOMAIN x = 1..Len(x)
    BY <1>7
  <2> QED BY <1>1, <1>6, <1>7, <2>1, <2>2 DEF TypeOK, ChannelOK, Messages
<1>14. Numbered'
  <2>1. \A n : Answers(n, cl, srv) => Answers(n, d, v)
    <3> SUFFICES ASSUME NEW n, Answers(n, cl, srv), Asks(n) PROVE Answers(n, d, v)
      BY DEF Answers
    <3>1. n.sub <= srv.id /\ n.sub \in Nat
      BY DEF Answers, Asks, Replies, Requests
    <3>2. n.sub <= v.id
      BY <1>3, <3>1
    <3> QED BY <1>2, <3>2 DEF Answers
  <2>2. \A n : Answers(n, cl, v) => Answers(n, d, v)
    BY <1>2 DEF Answers
  <2>3. d.sub <= v.id
    <3>1. cl.sub <= srv.id /\ cl.sub \in Nat
      BY <1>1 DEF Numbered, ClientOK, Clients
    <3> QED BY <3>1, <1>2, <1>3
  <2>4. \A n \in arrived : Answers(n, d, v)
    BY <1>1, <2>1 DEF Numbered
  <2>5. \A i \in 1..Len(down) : Answers(down[i], d, v)
    BY <1>1, <2>1 DEF Numbered
  <2>6. \A i \in 1..Len(x) : Answers(x[i], d, v)
    BY <1>12, <2>2
  <2>7. \A i \in 1..Len(d.up) : Asks(d.up[i]) => d.up[i].id <= d.gen
    BY <1>2
  <2> QED BY <1>3, <1>6, <2>3, <2>4, <2>5, <2>6, <2>7 DEF Numbered, v, d
<1>15. Distinct'
  <2>1. Once(down) /\ Off(arrived, down)
        /\ \A n, k \in arrived : Asks(n) /\ Asks(k) /\ n.id = k.id => n = k
    BY <1>1 DEF Distinct
  <2> QED BY <1>2, <1>6, <1>12, <2>1 DEF Distinct, d
<1>16. Len(w) > 0 => Last(x) = w[Len(w)]
  <2> SUFFICES ASSUME Len(w) > 0 PROVE Last(x) = w[Len(w)]
    OBVIOUS
  <2>1. Len(x) \in 1..1 + Len(w) /\ ~(Len(x) <= 1) /\ Len(x) - 1 = Len(w)
    BY <1>5, <1>7
  <2>2. x[Len(x)] = w[Len(x) - 1]
    BY <1>7, <2>1
  <2> QED BY <2>1, <2>2 DEF Last
<1>17. OnTheWay' \subseteq OnTheWay \cup FramesOf(w)
  <2>1. FramesOf(d.staged) = FramesOf(cl.staged)
    BY <1>2
  <2> QED BY <1>6, <1>8, <2>1 DEF OnTheWay, d
<1> QED BY <1>6, <1>7, <1>13, <1>14, <1>15, <1>16, <1>17

\* A subscribe or a resync is answered for the subscription s, which starts afresh.
LEMMA AnswerKeeps ==
    ASSUME Sound, NEW H, Truth(H), NEW op \in {"subscribe", "resync"}, Takes(op),
           NEW m, m = Head(cl.up),
           NEW s \in Subscriptions, s.live, s.id # 0, s.buf = <<>>, ~s.over,
           s.id > srv.id \/ (op = "resync" /\ s.id = srv.id /\ s.ord = srv.ord),
           NEW mode \in Modes, NEW f, f = None \/ NextFrame(f, s), NEW how,
           how = "resume" => m.base \in Bases /\ m.base.seq <= CurrentSeq,
           f = None => how = "resume" /\ m.base.seq = CurrentSeq,
           Answer(m, s, mode, f, how),
           UNCHANGED <<pub, paused, down, arrived, events, troubles>>
    PROVE  Sound' /\ Truth(H)' /\ Onward(cl.view, cl'.view)
<1> DEFINE F == OnTheWay
           r == Reply(m.op, m.id, s.id, mode, m.base # None)
           w == IF f # None THEN Wires(f) ELSE <<>>
           held == f # None
           sent == IF how = "resume" THEN m.base.seq ELSE 0
           ord == IF held THEN f.ord ELSE s.ord
           t == [s EXCEPT !.held = held, !.ord = ord, !.sent = sent]
<1>1. TypeOK /\ Numbered /\ Distinct /\ BufferTrue /\ ClientOK(cl) /\ srv \in Subscriptions
      /\ CurrentSeq \in Nat /\ Top(pub) = CurrentSeq
      /\ FramesTrue(F, H, pub) /\ Newest(F, srv) /\ Showing(cl, F, H, pub)
  BY TopIsCurrent DEF Sound, TypeOK, Truth
<1>2. outbox' = <<r>> \o w /\ srv' = t /\ mixed' \in BOOLEAN /\ timer' = FALSE
  <2>1. outbox' = <<r>> \o w
    BY DEF Answer
  <2>2. srv' = t
    BY DEF Answer
  <2>3. mixed' \in BOOLEAN
    BY <1>1 DEF Answer, TypeOK
  <2> QED BY <2>1, <2>2, <2>3 DEF Answer
<1>3. /\ m \in Requests /\ m.op = op /\ ClientOK(cl') /\ cl'.view = cl.view /\ cl'.sub = cl.sub
      /\ cl'.dec = cl.dec /\ cl.view \in Viewed
  BY <1>1, RequestTaken DEF ClientOK, Clients, Viewed
<1>4. sent \in Nat /\ sent <= CurrentSeq
  <2>1. how = "resume" => m.base.seq \in Nat
    BY DEF Bases
  <2> QED BY <2>1, <1>1
<1>5. f # None => f \in Frames /\ f.sub = s.id /\ f.ord = s.ord + 1 /\ f.num = pub.num
                  /\ f.to = CurrentSeq /\ FrameTrue(f, pub) /\ f.ord \in Nat
  BY DEF NextFrame, Frames
<1> HIDE DEF sent
<1>6. s.ord \in Nat /\ s.id \in Nat /\ ord \in Nat /\ held \in BOOLEAN /\ srv.id \in Nat /\ srv.ord \in Nat
  BY <1>1, <1>5 DEF Subscriptions
<1> HIDE DEF ord
<1>7. /\ t \in Subscriptions /\ t.id = s.id /\ t.ord = ord /\ t.sent = sent /\ t.held = held
      /\ t.buf = <<>> /\ ~t.over /\ t.live
  <2> HIDE DEF held
  <2>1. t \in Subscriptions
    BY <1>4, <1>6 DEF Subscriptions
  <2>2. t.id = s.id /\ t.ord = ord /\ t.sent = sent /\ t.held = held /\ t.buf = s.buf
        /\ t.over = s.over /\ t.live = s.live
    BY DEF Subscriptions
  <2> HIDE DEF t
  <2> QED BY <2>1, <2>2
<1> HIDE DEF t
<1>8. /\ w \in Seq(WireSet)
      /\ held => /\ Len(w) >= 1 /\ Len(w) \in Nat
                 /\ w[Len(w)] \in WireSet /\ w[Len(w)].frame = f /\ FramesOf(w) = {f}
      /\ ~held => FramesOf(w) = {}
  <2>1. CASE held
    <3>1. w = Wires(f) /\ f \in Frames
      BY <2>1, <1>5
    <3> HIDE DEF w
    <3>2. /\ w \in Seq(WireSet) /\ Len(w) >= 1 /\ FramesOf(w) = {f}
          /\ \A i \in 1..Len(w) : w[i] \in WireSet /\ w[i].frame = f
      BY <3>1, WiresOfFrame
    <3>3. Len(w) \in 1..Len(w)
      BY <3>2
    <3> QED BY <3>2, <3>3, <2>1
  <2>2. CASE ~held
    BY <2>2, FramesOfEmpty
  <2> QED BY <2>1, <2>2
<1> HIDE DEF w
<1>9. r \in Replies /\ r.op = op /\ r.id = m.id /\ r.sub = s.id
  BY <1>3, <1>6 DEF Reply, Replies, Requests
<1>10. Asks(r) => Asks(m) /\ r.id = m.id /\ r.sub > cl.sub /\ r.sub <= srv'.id
  <2> SUFFICES ASSUME Asks(r) PROVE Asks(m) /\ r.id = m.id /\ r.sub > cl.sub /\ r.sub <= srv'.id
    OBVIOUS
  <2>1. op = "subscribe" /\ Asks(m)
    BY <1>3, <1>9 DEF Asks
  <2>2. s.id > srv.id
    BY <2>1
  <2>3. cl.sub <= srv.id /\ cl.sub \in Nat
    BY <1>1 DEF Numbered, ClientOK, Clients
  <2>4. r.id = m.id /\ r.sub = s.id /\ srv'.id = s.id
    BY <1>2, <1>7, <1>9
  <2>5. srv.id \in Nat /\ s.id \in Nat
    BY <1>6
  <2> QED BY <2>1, <2>2, <2>3, <2>4, <2>5
<1> HIDE DEF r
<1>11. srv' \in Subscriptions /\ srv'.id >= srv.id /\ (srv'.live => srv'.id # 0)
  BY <1>2, <1>6, <1>7
<1>12. /\ ChannelOK' /\ Numbered' /\ Distinct'
       /\ Len(outbox') = 1 + Len(w) /\ (Len(w) > 0 => Last(outbox') = w[Len(w)])
       /\ OnTheWay' \subseteq F \cup FramesOf(w)
  BY <1>2, <1>8, <1>9, <1>10, <1>11, Replied
<1>13. TypeOK'
  <2>1. CurrentSeq' = CurrentSeq
    BY DEF CurrentSeq
  <2>2. Len(t.buf) <= MaxOps
    BY <1>7, TopicDeliveryAssumption
  <2>3. outbox' # <<>>
    <3>1. Len(outbox') # 0
      <4>1. Len(w) \in Nat
        BY <1>8
      <4> QED BY <4>1, <1>12
    <3> QED BY <3>1
  <2>4. PublisherOK'
    BY <1>1, <1>2, <1>4, <1>7, <2>1, <2>2, <2>3 DEF TypeOK, PublisherOK
  <2> QED BY <1>1, <1>2, <1>3, <1>12, <2>4 DEF TypeOK
<1>14. BufferTrue'
  <2>1. \A n : Buffers([buf |-> <<>>], n, pub) => Buffers(t, n, pub)
    BY <1>7 DEF Buffers
  <2>2. Buffers(t, CurrentSeq, pub)
    BY <1>1, <2>1, NothingSince
  <2>3. held => Reserved(t, outbox', pub)
    <3>1. CurrentSeq \in pub.start..Top(pub)
      BY <2>2 DEF Buffers
    <3> QED BY <1>5, <1>8, <1>12, <2>2, <3>1 DEF Reserved
  <2>4. ~held => sent = CurrentSeq
    BY DEF sent
  <2>5. BufferHolds(t, outbox', pub)
    BY <1>7, <2>2, <2>3, <2>4 DEF BufferHolds
  <2> QED BY <1>2, <2>5 DEF BufferTrue
<1>15. Truth(H)' /\ Onward(cl.view, cl'.view)
  <2> DEFINE G == OnTheWay'
             E == F \cup FramesOf(w)
  <2>1. G \subseteq E
    BY <1>12
  <2> HIDE DEF F, G
  <2>2. FramesTrue(E, H, pub) /\ Newest(E, t) /\ Showing(cl, E, H, pub)
    <3>1. CASE held
      <4> DEFINE q == [srv EXCEPT !.id = f.sub, !.ord = f.ord]
                 D == F \cup {f}
      <4>1. f.sub > srv.id \/ (f.sub = srv.id /\ f.ord > srv.ord)
        BY <3>1, <1>5, <1>6
      <4>2. FramesTrue(D, H, pub) /\ Newest(D, q) /\ Showing(cl, D, H, pub)
        BY <3>1, <4>1, <1>1, <1>5, LaterIsLast
      <4>3. q.id = t.id /\ q.ord = t.ord
        BY <3>1, <1>1, <1>5, <1>7 DEF Subscriptions, ord
      <4> HIDE DEF q, D
      <4>4. Newest(D, t)
        BY <4>2, <4>3 DEF Newest
      <4>5. E = D
        BY <3>1, <1>8 DEF D
      <4> QED BY <4>2, <4>4, <4>5
    <3>2. CASE ~held
      <4>1. E = F
        BY <3>2, <1>8
      <4>2. t.id > srv.id \/ (t.id = srv.id /\ t.ord = srv.ord)
        BY <3>2, <1>7 DEF ord
      <4>3. \A g \in F : g.sub \in Nat
        BY <1>1 DEF FramesTrue, Frames
      <4>4. Newest(F, t)
        BY <1>1, <1>6, <1>7, <4>2, <4>3 DEF Newest
      <4> QED BY <1>1, <4>1, <4>4
    <3> QED BY <3>1, <3>2
  <2> HIDE DEF E
  <2>3. FramesTrue(G, H, pub) /\ Newest(G, t) /\ Showing(cl, G, H, pub)
    BY <2>1, <2>2, FewerFrames
  <2>4. Showing(cl', G, H, pub)
    BY <1>3, <2>3 DEF Showing, Ahead
  <2>5. Onward(cl.view, cl'.view)
    BY <1>3, OnwardAtFirst
  <2> QED BY <1>2, <2>3, <2>4, <2>5 DEF Truth, G
<1> QED BY <1>12, <1>13, <1>14, <1>15 DEF Sound

\* What a client has can be gone on from.
LEMMA ReplayIsNext ==
    ASSUME TypeOK, NEW s \in Subscriptions, NEW use \in {"initial", "online", "recovery"},
           NEW base \in Bases \cup {None}, Resumable(base)
    PROVE  base \in Bases /\ base.seq <= CurrentSeq /\ NextFrame(Replay(s, use, base), s)
<1>1. base \in Bases /\ base.seq \in Nat /\ base.seq >= pub.floor /\ base.seq <= CurrentSeq
  BY DEF Resumable, Bases
<1>2. pub.floor \in pub.start..CurrentSeq /\ CurrentSeq \in Nat /\ pub.start \in Nat
  BY TopIsCurrent DEF TypeOK, PublisherOK
<1> DEFINE n == base.seq
           rows == RowsSince(n)
<1>3. n \in pub.start..CurrentSeq
  BY <1>1, <1>2
<1>4. rows = Since(pub, n)
  BY DEF RowsSince, Since
<1>5. Replay(s, use, base) = Frame(s, "deltas", use, n, rows)
  BY DEF Replay
<1> HIDE DEF n, rows
<1>6. NextFrame(Frame(s, "deltas", use, n, rows), s)
  BY <1>3, <1>4, DeltasAreNext
<1> QED BY <1>1, <1>5, <1>6

\* A subscribe is handled.
LEMMA SubscribeKeeps ==
    ASSUME Sound, NEW H, Truth(H), HandleSubscribe
    PROVE  Sound' /\ Truth(H)' /\ Onward(cl.view, cl'.view)
<1> DEFINE m == Head(cl.up)
           b == <<>>
           s == [id |-> srv.id + 1, sent |-> 0, buf |-> b, over |-> FALSE, ord |-> 0,
                 held |-> FALSE, live |-> TRUE]
<1>1. TypeOK /\ srv \in Subscriptions /\ srv.id \in Nat
  BY TopIsCurrent DEF Sound, Subscriptions
<1>2. Takes("subscribe") /\ UNCHANGED <<pub, paused, down, arrived, events, troubles>>
  BY DEF HandleSubscribe
<1>3. \/ ~Resumable(m.base) /\ Answer(m, s, "snapshot", Snapshot(s, "initial"), "snapshot")
      \/ Resumable(m.base) /\ m.base.seq = CurrentSeq /\ Answer(m, s, "resume", None, "resume")
      \/ Resumable(m.base) /\ Answer(m, s, "resume", Replay(s, "initial", m.base), "resume")
  BY DEF HandleSubscribe
<1> HIDE DEF m
<1>4. m \in Requests
  BY <1>2, RequestTaken DEF m
<1>5. m.base \in Bases \cup {None}
  BY <1>4 DEF Requests
<1>6. b \in Seq(1..MaxEvents) /\ b = <<>>
  OBVIOUS
<1> HIDE DEF b
<1>7. s \in Subscriptions /\ s.live /\ s.id # 0 /\ s.buf = <<>> /\ ~s.over /\ s.id > srv.id
  BY <1>1, <1>6 DEF Subscriptions
<1> HIDE DEF s
<1>8. m = Head(cl.up)
  BY DEF m
<1>9. CASE ~Resumable(m.base) /\ Answer(m, s, "snapshot", Snapshot(s, "initial"), "snapshot")
  <2> DEFINE f == Snapshot(s, "initial")
  <2>1. NextFrame(f, s)
    BY <1>1, <1>7, SnapshotIsNext
  <2>2. f # None /\ "snapshot" \in Modes
    BY <2>1, NoneAssumption DEF NextFrame, Modes
  <2>3. Answer(m, s, "snapshot", f, "snapshot")
    BY <1>9
  <2> HIDE DEF f
  <2> QED BY <1>2, <1>7, <1>8, <2>1, <2>2, <2>3, AnswerKeeps
<1>10. CASE Resumable(m.base) /\ m.base.seq = CurrentSeq /\ Answer(m, s, "resume", None, "resume")
  <2>1. m.base \in Bases /\ m.base.seq <= CurrentSeq /\ "resume" \in Modes
    BY <1>1, <1>5, <1>7, <1>10, ReplayIsNext DEF Modes
  <2> QED BY <1>2, <1>7, <1>8, <1>10, <2>1, AnswerKeeps
<1>11. CASE Resumable(m.base) /\ Answer(m, s, "resume", Replay(s, "initial", m.base), "resume")
  <2> DEFINE f == Replay(s, "initial", m.base)
  <2>1. m.base \in Bases /\ m.base.seq <= CurrentSeq /\ NextFrame(f, s) /\ "resume" \in Modes
    BY <1>1, <1>5, <1>7, <1>11, ReplayIsNext DEF Modes
  <2>2. f # None /\ Answer(m, s, "resume", f, "resume")
    BY <1>11, <2>1, NoneAssumption DEF NextFrame
  <2> HIDE DEF f
  <2> QED BY <1>2, <1>7, <1>8, <2>1, <2>2, AnswerKeeps
<1> QED BY <1>3, <1>9, <1>10, <1>11

\* The subscription is not the one the publisher has.
LEMMA NotOwnedKeeps ==
    ASSUME Sound, NEW H, Truth(H), Takes("resync"), NEW m, m = Head(cl.up),
           outbox' = <<Reply("notOwned", m.id, m.sub, None, FALSE)>>,
           UNCHANGED <<pub, srv, timer, paused, down, arrived, events, troubles, mixed>>
    PROVE  Sound' /\ Truth(H)' /\ Onward(cl.view, cl'.view)
<1> DEFINE F == OnTheWay
           r == Reply("notOwned", m.id, m.sub, None, FALSE)
           w == <<>>
<1>1. TypeOK /\ Numbered /\ BufferTrue /\ srv \in Subscriptions /\ srv.id \in Nat
      /\ FramesTrue(F, H, pub) /\ Newest(F, srv) /\ Showing(cl, F, H, pub)
  BY TopIsCurrent DEF Sound, Truth, Subscriptions
<1>2. /\ m \in Requests /\ outbox = <<>> /\ ClientOK(cl') /\ cl'.view = cl.view /\ cl'.sub = cl.sub
      /\ cl'.dec = cl.dec /\ cl.view \in Viewed
  BY <1>1, RequestTaken DEF TypeOK, ClientOK, Clients, Viewed
<1>3. r \in Replies /\ r.op = "notOwned"
  BY <1>2 DEF Reply, Replies, Requests, Modes
<1> HIDE DEF r
<1>4. w \in Seq(WireSet) /\ outbox' = <<r>> \o w /\ Len(w) = 0 /\ FramesOf(w) = {}
  <2>1. <<r>> \o <<>> = <<r>>
    OBVIOUS
  <2> QED BY <2>1, FramesOfEmpty DEF r
<1> HIDE DEF w
<1>5. ~Asks(r) /\ srv' \in Subscriptions /\ srv'.id >= srv.id /\ (srv'.live => srv'.id # 0)
  BY <1>1, <1>3 DEF Asks, Numbered
<1>6. ChannelOK' /\ Numbered' /\ Distinct' /\ OnTheWay' \subseteq F \cup FramesOf(w)
  BY <1>3, <1>4, <1>5, Replied
<1>7. ~srv.held
  BY <1>1, <1>2 DEF TypeOK, PublisherOK
<1>8. TypeOK'
  <2>1. PublisherOK'
    BY <1>1, <1>7 DEF TypeOK, PublisherOK, CurrentSeq
  <2> QED BY <1>1, <1>2, <1>6, <2>1 DEF TypeOK
<1>9. BufferTrue'
  <2>1. BufferHolds(srv, outbox', pub)
    BY <1>1, <1>7 DEF BufferTrue, BufferHolds
  <2> QED BY <2>1 DEF BufferTrue
<1>10. Truth(H)' /\ Onward(cl.view, cl'.view)
  <2> DEFINE G == OnTheWay'
  <2>1. G \subseteq F
    BY <1>4, <1>6
  <2> HIDE DEF F, G
  <2>2. FramesTrue(G, H, pub) /\ Newest(G, srv) /\ Showing(cl, G, H, pub)
    BY <1>1, <2>1, FewerFrames
  <2>3. Showing(cl', G, H, pub)
    BY <1>2, <2>2 DEF Showing, Ahead
  <2>4. Onward(cl.view, cl'.view)
    BY <1>2, OnwardAtFirst
  <2> QED BY <2>2, <2>3, <2>4 DEF Truth, G
<1> QED BY <1>6, <1>8, <1>9, <1>10 DEF Sound

\* A resync is handled.
LEMMA ResyncKeeps ==
    ASSUME Sound, NEW H, Truth(H), HandleResync
    PROVE  Sound' /\ Truth(H)' /\ Onward(cl.view, cl'.view)
<1> DEFINE m == Head(cl.up)
           b == <<>>
           s == [srv EXCEPT !.buf = b, !.over = FALSE]
<1>1. TypeOK /\ Numbered /\ srv \in Subscriptions /\ srv.id \in Nat
  BY TopIsCurrent DEF Sound, Subscriptions
<1>2. Takes("resync") /\ UNCHANGED <<pub, paused, down, arrived, events, troubles>>
  BY DEF HandleResync
<1>3. \/ /\ outbox' = <<Reply("notOwned", m.id, m.sub, None, FALSE)>>
         /\ UNCHANGED <<srv, timer, mixed>>
      \/ srv.live /\ Answer(m, s, "snapshot", Snapshot(s, "recovery"), "snapshot")
      \/ /\ srv.live /\ Resumable(m.base)
         /\ Answer(m, s, "resume", Replay(s, "recovery", m.base), "resume")
  BY DEF HandleResync
<1> HIDE DEF m
<1>4. m \in Requests
  BY <1>2, RequestTaken DEF m
<1>5. m.base \in Bases \cup {None}
  BY <1>4 DEF Requests
<1>6. b \in Seq(1..MaxEvents) /\ b = <<>>
  OBVIOUS
<1> HIDE DEF b
<1>7. /\ s \in Subscriptions /\ s.buf = <<>> /\ ~s.over /\ s.id = srv.id /\ s.ord = srv.ord
      /\ (srv.live => s.live /\ s.id # 0)
  <2>1. s \in Subscriptions
    BY <1>1, <1>6 DEF Subscriptions
  <2>2. s.buf = <<>> /\ ~s.over /\ s.id = srv.id /\ s.ord = srv.ord /\ s.live = srv.live
    BY <1>1, <1>6 DEF Subscriptions
  <2> HIDE DEF s
  <2> QED BY <1>1, <2>1, <2>2 DEF Numbered
<1> HIDE DEF s
<1>8. m = Head(cl.up)
  BY DEF m
<1>9. CASE /\ outbox' = <<Reply("notOwned", m.id, m.sub, None, FALSE)>>
           /\ UNCHANGED <<srv, timer, mixed>>
  BY <1>2, <1>8, <1>9, NotOwnedKeeps
<1>10. CASE srv.live /\ Answer(m, s, "snapshot", Snapshot(s, "recovery"), "snapshot")
  <2> DEFINE f == Snapshot(s, "recovery")
  <2>1. NextFrame(f, s)
    BY <1>1, <1>7, SnapshotIsNext
  <2>2. f # None /\ "snapshot" \in Modes
    BY <2>1, NoneAssumption DEF NextFrame, Modes
  <2>3. Answer(m, s, "snapshot", f, "snapshot")
    BY <1>10
  <2> HIDE DEF f
  <2> QED BY <1>2, <1>7, <1>8, <1>10, <2>1, <2>2, <2>3, AnswerKeeps
<1>11. CASE /\ srv.live /\ Resumable(m.base)
            /\ Answer(m, s, "resume", Replay(s, "recovery", m.base), "resume")
  <2> DEFINE f == Replay(s, "recovery", m.base)
  <2>1. m.base \in Bases /\ m.base.seq <= CurrentSeq /\ NextFrame(f, s) /\ "resume" \in Modes
    BY <1>1, <1>5, <1>7, <1>11, ReplayIsNext DEF Modes
  <2>2. f # None /\ Answer(m, s, "resume", f, "resume")
    BY <1>11, <2>1, NoneAssumption DEF NextFrame
  <2> HIDE DEF f
  <2> QED BY <1>2, <1>7, <1>8, <1>11, <2>1, <2>2, AnswerKeeps
<1> QED BY <1>3, <1>9, <1>10, <1>11

\* An unsubscribe is handled.
LEMMA UnsubscribeKeeps ==
    ASSUME Sound, NEW H, Truth(H), HandleUnsubscribe
    PROVE  Sound' /\ Truth(H)' /\ Onward(cl.view, cl'.view)
<1> DEFINE F == OnTheWay
           t == [srv EXCEPT !.live = FALSE]
<1>1. TypeOK /\ Numbered /\ Distinct /\ BufferTrue /\ srv \in Subscriptions
      /\ FramesTrue(F, H, pub) /\ Newest(F, srv) /\ Showing(cl, F, H, pub)
  BY TopIsCurrent DEF Sound, Truth
<1>2. /\ Takes("unsubscribe") /\ (srv' = srv \/ srv' = t) /\ (timer' = timer \/ timer' = FALSE)
      /\ UNCHANGED <<pub, paused, outbox, down, arrived, events, troubles, mixed>>
  BY DEF HandleUnsubscribe, historyVars
<1> DEFINE m == Head(cl.up)
<1>3. /\ m \in Requests /\ outbox = <<>>
      /\ ClientOK(cl') /\ cl'.view = cl.view /\ cl'.sub = cl.sub
      /\ cl'.gen = cl.gen /\ cl'.staged = cl.staged /\ cl'.dec = cl.dec
      /\ \A i \in 1..Len(cl'.up) : Asks(cl'.up[i]) => cl'.up[i].id <= cl.gen
      /\ Once(cl'.up) /\ Apart(down, cl'.up) /\ Off(arrived, cl'.up)
      /\ cl.view \in Viewed
  BY <1>1, <1>2, RequestTaken DEF TypeOK, ClientOK, Clients, Viewed
<1> HIDE DEF m
<1>4. /\ srv' \in Subscriptions /\ srv'.id = srv.id /\ srv'.ord = srv.ord /\ srv'.buf = srv.buf
      /\ srv'.sent = srv.sent /\ srv'.held = srv.held /\ srv'.over = srv.over
      /\ (srv'.live => srv.live)
  <2>1. /\ t \in Subscriptions /\ t.id = srv.id /\ t.ord = srv.ord /\ t.buf = srv.buf
        /\ t.sent = srv.sent /\ t.held = srv.held /\ t.over = srv.over /\ ~t.live
    BY <1>1 DEF Subscriptions
  <2> HIDE DEF t
  <2> QED BY <1>1, <1>2, <2>1
<1>5. ~srv.held
  BY <1>1, <1>3 DEF TypeOK, PublisherOK
<1>6. TypeOK'
  <2>1. PublisherOK'
    <3>1. PublisherOK
      BY <1>1 DEF TypeOK
    <3>2. timer' \in BOOLEAN /\ paused' \in BOOLEAN /\ (timer' => ~paused')
      <4>1. timer \in BOOLEAN /\ paused \in BOOLEAN /\ (timer => ~paused)
        BY <3>1 DEF PublisherOK
      <4>2. (timer' = timer \/ timer' = FALSE) /\ paused' = paused
        BY <1>2
      <4>3. CASE timer' = timer
        BY <4>1, <4>2, <4>3
      <4>4. CASE timer' = FALSE
        BY <4>1, <4>2, <4>4
      <4> QED BY <4>2, <4>3, <4>4
    <3>3. CurrentSeq' = CurrentSeq /\ pub' = pub /\ outbox' = outbox
      BY <1>2 DEF CurrentSeq
    <3>4. pub \in Projections /\ pub.floor \in pub.start..CurrentSeq
          /\ (srv.live => srv.sent <= CurrentSeq) /\ Len(srv.buf) <= MaxOps
      BY <3>1 DEF PublisherOK
    <3> QED BY <1>4, <1>5, <3>2, <3>3, <3>4 DEF PublisherOK
  <2>2. ChannelOK'
    BY <1>1, <1>2 DEF TypeOK, ChannelOK
  <2> QED BY <1>1, <1>2, <1>3, <2>1, <2>2 DEF TypeOK
<1>7. Numbered'
  <2>1. \A n : Answers(n, cl, srv) => Answers(n, cl', srv')
    BY <1>3, <1>4 DEF Answers
  <2> QED BY <1>1, <1>2, <1>3, <1>4, <2>1 DEF Numbered
<1>8. Distinct'
  <2>1. Apart(outbox, cl'.up)
    BY <1>3 DEF Apart
  <2> QED BY <1>1, <1>2, <1>3, <2>1 DEF Distinct
<1>9. BufferTrue'
  <2>1. \A n : Buffers(srv, n, pub) => Buffers(srv', n, pub)
    BY <1>4 DEF Buffers
  <2>2. BufferHolds(srv, outbox, pub)
    BY <1>1 DEF BufferTrue
  <2>3. BufferHolds(srv', outbox, pub)
    BY <1>4, <1>5, <2>1, <2>2 DEF BufferHolds
  <2> QED BY <1>2, <2>3 DEF BufferTrue
<1>10. Truth(H)' /\ Onward(cl.view, cl'.view)
  <2>1. OnTheWay' = F
    BY <1>2, <1>3 DEF OnTheWay
  <2> HIDE DEF F
  <2>2. Newest(F, srv')
    BY <1>1, <1>4 DEF Newest
  <2>3. Showing(cl', F, H, pub)
    BY <1>1, <1>3 DEF Showing, Ahead
  <2>4. Onward(cl.view, cl'.view)
    BY <1>3, OnwardAtFirst
  <2> QED BY <1>1, <1>2, <2>1, <2>2, <2>3, <2>4 DEF Truth
<1> QED BY <1>6, <1>7, <1>8, <1>9, <1>10 DEF Sound

\* The reply is written and what was reserved for it committed.
LEMMA RespondKeeps ==
    ASSUME Sound, NEW H, Truth(H), Respond
    PROVE  Sound' /\ Truth(H)' /\ Onward(cl.view, cl'.view)
<1> DEFINE F == OnTheWay
           f == Last(outbox).frame
           t == IF srv.held THEN [srv EXCEPT !.held = FALSE, !.sent = f.to] ELSE srv
<1>1. TypeOK /\ Numbered /\ Distinct /\ BufferTrue /\ srv \in Subscriptions
      /\ FramesTrue(F, H, pub) /\ Newest(F, srv) /\ Showing(cl, F, H, pub)
      /\ Top(pub) = CurrentSeq /\ CurrentSeq \in Nat /\ pub.start \in Nat
      /\ down \in Seq(Messages) /\ outbox \in Seq(Messages)
      /\ cl.view \in Viewed
  BY TopIsCurrent DEF Sound, Truth, TypeOK, ChannelOK, Messages, ClientOK, Clients, Viewed
<1>2. /\ down' = down \o outbox /\ outbox' = <<>> /\ srv' = t
      /\ (timer' = timer \/ timer' = (timer \/ ~paused))
      /\ UNCHANGED <<pub, paused, arrived, cl, events, troubles, mixed>>
  BY DEF Respond, historyVars
<1>3. srv.held => srv.live /\ f.to \in pub.start..CurrentSeq /\ f.to \in Nat
                  /\ (srv.over \/ Buffers(srv, f.to, pub))
  <2>1. srv.held => srv.live /\ f.to \in pub.start..Top(pub) /\ (srv.over \/ Buffers(srv, f.to, pub))
    BY <1>1 DEF BufferTrue, BufferHolds, Reserved, TypeOK, PublisherOK
  <2> HIDE DEF f
  <2> QED BY <1>1, <2>1
<1> HIDE DEF f
<1>4. /\ t \in Subscriptions /\ t.id = srv.id /\ t.ord = srv.ord /\ t.buf = srv.buf
      /\ t.over = srv.over /\ t.live = srv.live /\ ~t.held
      /\ t.sent = IF srv.held THEN f.to ELSE srv.sent
  <2>1. CASE srv.held
    <3> DEFINE q == [srv EXCEPT !.held = FALSE, !.sent = f.to]
    <3>1. /\ q \in Subscriptions /\ q.id = srv.id /\ q.ord = srv.ord /\ q.buf = srv.buf
          /\ q.over = srv.over /\ q.live = srv.live /\ ~q.held /\ q.sent = f.to
      BY <1>1, <1>3, <2>1 DEF Subscriptions
    <3>2. t = q
      BY <2>1
    <3> HIDE DEF q, t
    <3> QED BY <2>1, <3>1, <3>2
  <2>2. CASE ~srv.held
    <3>1. t = srv
      BY <2>2
    <3> HIDE DEF t
    <3> QED BY <1>1, <2>2, <3>1
  <2> QED BY <2>1, <2>2
<1> HIDE DEF t
<1>5. TypeOK'
  <2>1. down' \in Seq(Messages)
    BY <1>1, <1>2, ConcatProperties
  <2>2. ChannelOK'
    BY <1>1, <1>2, <2>1 DEF TypeOK, ChannelOK, Messages
  <2>3. CurrentSeq' = CurrentSeq
    BY <1>2 DEF CurrentSeq
  <2>4. t.live => t.sent <= CurrentSeq
    BY <1>1, <1>3, <1>4 DEF TypeOK, PublisherOK
  <2>5. timer' \in BOOLEAN /\ (timer' => ~paused)
    <3>1. timer \in BOOLEAN /\ paused \in BOOLEAN /\ (timer => ~paused)
      BY <1>1 DEF TypeOK, PublisherOK
    <3>2. timer' = timer \/ timer' = (timer \/ ~paused)
      BY <1>2
    <3>3. CASE timer' = timer
      BY <3>1, <3>3
    <3>4. CASE timer' = (timer \/ ~paused)
      <4>1. timer' \in BOOLEAN
        BY <3>4
      <4>2. timer' => ~paused
        BY <3>1, <3>4
      <4> QED BY <4>1, <4>2
    <3> QED BY <3>2, <3>3, <3>4
  <2>6. PublisherOK'
    BY <1>1, <1>2, <1>4, <2>3, <2>4, <2>5 DEF TypeOK, PublisherOK
  <2> QED BY <1>1, <1>2, <2>2, <2>6 DEF TypeOK
\* Of what the outbox holds only the first can be a reply.
<1>6. Once(outbox)
  <2> SUFFICES ASSUME NEW i \in 1..Len(outbox), NEW j \in 1..Len(outbox), i < j,
                      Asks(outbox[i]), Asks(outbox[j])
               PROVE  FALSE
    BY DEF Once
  <2>1. \A k \in 1..Len(outbox) : k # 1 => outbox[k] \notin Replies
    BY <1>1 DEF TypeOK, ChannelOK
  <2>2. j # 1
    OBVIOUS
  <2>3. outbox[j] \in Messages /\ outbox[j] \notin Replies
    BY <1>1, <2>1, <2>2
  <2> QED BY <2>3, ReplyOrWire DEF Messages, Asks
<1>7. /\ Once(down') /\ Apart(down', cl.up) /\ Off(arrived, down')
      /\ \A i \in 1..Len(down') : Answers(down'[i], cl, srv)
  <2>1. /\ Once(down) /\ Apart(down, outbox) /\ Apart(down, cl.up) /\ Apart(outbox, cl.up)
        /\ Off(arrived, down) /\ Off(arrived, outbox)
        /\ \A i \in 1..Len(down) : Answers(down[i], cl, srv)
        /\ \A i \in 1..Len(outbox) : Answers(outbox[i], cl, srv)
    BY <1>1 DEF Distinct, Numbered
  <2> QED BY <1>1, <1>2, <1>6, <2>1, ConcatIsApart
<1>8. Numbered'
  <2>1. \A n : Answers(n, cl, srv) => Answers(n, cl, t)
    BY <1>4 DEF Answers
  <2> QED BY <1>1, <1>2, <1>4, <1>7, <2>1 DEF Numbered
<1>9. Distinct'
  <2> DEFINE e == <<>>
  <2>1. Apart(down', e) /\ Apart(e, cl.up) /\ Off(arrived, e)
    BY DEF Apart, Off
  <2> QED BY <1>1, <1>2, <1>7, <2>1 DEF Distinct
<1>10. BufferTrue'
  <2>1. \A n : Buffers(srv, n, pub) => Buffers(t, n, pub)
    BY <1>4 DEF Buffers
  <2>2. BufferHolds(srv, outbox, pub)
    BY <1>1 DEF BufferTrue
  <2>3. BufferHolds(t, <<>>, pub)
    BY <1>3, <1>4, <2>1, <2>2 DEF BufferHolds
  <2> QED BY <1>2, <2>3 DEF BufferTrue
<1>11. Truth(H)' /\ Onward(cl.view, cl'.view)
  <2> DEFINE G == OnTheWay'
  <2>1. G \subseteq F
    BY <1>1, <1>2, FramesOfConcat, FramesOfEmpty DEF OnTheWay
  <2> HIDE DEF F, G
  <2>2. FramesTrue(G, H, pub) /\ Newest(G, srv) /\ Showing(cl, G, H, pub)
    BY <1>1, <2>1, FewerFrames
  <2>3. Newest(G, t)
    BY <1>4, <2>2 DEF Newest
  <2>4. Onward(cl.view, cl.view)
    BY <1>1, OnwardAtFirst
  <2> QED BY <1>2, <2>2, <2>3, <2>4 DEF Truth, G
<1> QED BY <1>5, <1>8, <1>9, <1>10, <1>11 DEF Sound

-----------------------------------------------------------------------------
(* The connection is replaced. *)

\* A client that has nothing under way, and has asked nothing.
Fresh(c) ==
    /\ ClientOK(c) /\ c.sub = 0 /\ c.up = <<>> /\ c.staged = <<>>

\* A client that has nothing under way asks once.
LEMMA ConnectFresh ==
    ASSUME NEW c, Fresh(c), NEW d, d = Connect(c, FALSE)
    PROVE  /\ ClientOK(d) /\ d.sub = 0 /\ d.staged = <<>> /\ d.view = c.view
           /\ Once(d.up) /\ \A i \in 1..Len(d.up) : Asks(d.up[i]) => d.up[i].id <= d.gen
<1>1. Kept(c, d)
  BY ConnectKeeps DEF Fresh
<1>2. Asked(c, d) /\ Len(c.up) = 0 /\ ClientOK(d)
  BY <1>1 DEF Fresh, Kept
<1>3. \A i \in 1..Len(d.up) : i > Len(c.up)
  BY <1>2
<1>4. \A i \in 1..Len(d.up) : Asks(d.up[i]) => d.up[i].id <= d.gen
  BY <1>2, <1>3 DEF Asked, Asks
<1>5. Once(d.up)
  <2> SUFFICES ASSUME NEW i \in 1..Len(d.up), NEW j \in 1..Len(d.up), i < j,
                      Asks(d.up[i]), Asks(d.up[j])
               PROVE  d.up[i].id # d.up[j].id
    BY DEF Once
  <2>1. i > Len(c.up) /\ d.up[i].op = "subscribe" /\ d.up[j].op = "subscribe"
    BY <1>3 DEF Asks
  <2>2. \A k, l \in 1..Len(d.up) :
           k > Len(c.up) /\ k < l /\ d.up[k].op = "subscribe" /\ d.up[l].op = "subscribe" =>
             d.up[k].id # d.up[l].id
    BY <1>2 DEF Asked
  <2> QED BY <2>1, <2>2
<1> QED BY <1>1, <1>4, <1>5 DEF Kept, Fresh

\* The connection is replaced: nothing of the old one is under way.
LEMMA ReplaceKeeps ==
    ASSUME Sound, NEW H, Truth(H), Replace
    PROVE  Sound' /\ Truth(H)' /\ Onward(cl.view, cl'.view)
<1> DEFINE F == OnTheWay
           gen == cl.gen + 1
           e == <<>>
           c == [cl EXCEPT !.gen = gen, !.flight = None, !.sub = 0, !.applied = FALSE,
                           !.awaiting = FALSE, !.dec = BlankDecoder, !.pending = {},
                           !.staged = e, !.up = e]
           t == [srv EXCEPT !.live = FALSE, !.held = FALSE]
<1>1. TypeOK /\ BufferTrue /\ srv \in Subscriptions /\ ClientOK(cl) /\ cl \in Clients
      /\ FramesTrue(F, H, pub) /\ Newest(F, srv) /\ Showing(cl, F, H, pub)
      /\ cl.view \in Viewed
  BY TopIsCurrent DEF Sound, Truth, TypeOK, ClientOK, Clients, Viewed
<1>2. cl' = Connect(c, FALSE) /\ srv' = t
  BY <1>1 DEF Replace, Clients
<1>3. /\ down' = <<>> /\ arrived' = {} /\ outbox' = <<>> /\ timer' = FALSE /\ paused' = FALSE
      /\ UNCHANGED <<pub, events, mixed>>
  BY DEF Replace, historyVars
<1>4. troubles' \in 0..MaxTroubles
  BY <1>1, TroubleCounts DEF Replace
<1>5. BlankDecoder \in Decoders /\ BlankDecoder.ord = 0
  BY DEF BlankDecoder, Decoders
<1>6. e \in Seq(WireSet) /\ e \in Seq(Requests) /\ e = <<>>
  OBVIOUS
<1>7. gen \in Nat
  BY <1>1 DEF Clients
<1> HIDE DEF gen, e
<1>8. Fresh(c) /\ c.view = cl.view
  <2>1. c \in Clients
    BY <1>1, <1>5, <1>6, <1>7 DEF Clients
  <2>2. /\ c.flight = None /\ c.sub = 0 /\ c.applied = FALSE /\ c.awaiting = FALSE
        /\ c.dec = BlankDecoder /\ c.pending = {} /\ c.staged = e /\ c.up = e /\ c.view = cl.view
    BY <1>1 DEF Clients
  <2> HIDE DEF c
  <2>3. ClientOK(c)
    BY <1>5, <1>6, <2>1, <2>2 DEF ClientOK
  <2> QED BY <1>6, <2>2, <2>3 DEF Fresh
<1> HIDE DEF c
<1>9. /\ ClientOK(cl') /\ cl'.sub = 0 /\ cl'.staged = <<>> /\ cl'.view = cl.view
      /\ Once(cl'.up) /\ \A i \in 1..Len(cl'.up) : Asks(cl'.up[i]) => cl'.up[i].id <= cl'.gen
  BY <1>2, <1>8, ConnectFresh
<1>10. t \in Subscriptions /\ ~t.live /\ ~t.held /\ t.buf = srv.buf /\ t.id = srv.id /\ t.id \in Nat
       /\ t.ord = srv.ord
  BY <1>1 DEF Subscriptions
<1> HIDE DEF t
<1>11. TypeOK'
  <2>1. PublisherOK'
    BY <1>1, <1>2, <1>3, <1>10 DEF TypeOK, PublisherOK, CurrentSeq
  <2>2. ChannelOK'
    BY <1>3 DEF ChannelOK
  <2> QED BY <1>1, <1>3, <1>4, <1>9, <2>1, <2>2 DEF TypeOK
<1>12. Numbered'
  <2>1. cl'.sub <= srv'.id /\ ~srv'.live
    <3>1. srv' = t
      BY <1>2
    <3>2. cl'.sub = 0
      BY <1>9
    <3>3. t.id \in Nat /\ 0 <= t.id /\ ~t.live
      BY <1>10
    <3> QED BY <3>1, <3>2, <3>3
  <2>2. Len(down') = 0 /\ Len(outbox') = 0
    BY <1>3
  <2> QED BY <1>3, <1>9, <2>1, <2>2 DEF Numbered
<1>13. Distinct'
  BY <1>3, <1>9 DEF Distinct, Once, Apart, Off
<1>14. BufferTrue'
  <2>1. BufferHolds(t, <<>>, pub)
    BY <1>10 DEF BufferHolds
  <2> QED BY <1>2, <1>3, <2>1 DEF BufferTrue
<1>15. Truth(H)' /\ Onward(cl.view, cl'.view)
  <2> DEFINE G == {}
  <2>1. OnTheWay' = G
    BY <1>3, <1>9, FramesOfEmpty DEF OnTheWay
  <2>2. G \subseteq F
    OBVIOUS
  <2> HIDE DEF F, G
  <2>3. FramesTrue(G, H, pub) /\ Newest(G, srv) /\ Showing(cl, G, H, pub)
    BY <1>1, <2>2, FewerFrames
  <2>4. Newest(G, t) /\ Showing(cl', G, H, pub)
    BY <1>9, <2>3 DEF Newest, Showing, G
  <2>5. Onward(cl.view, cl'.view)
    BY <1>1, <1>9, OnwardAtFirst
  <2> QED BY <1>2, <1>3, <2>1, <2>3, <2>4, <2>5 DEF Truth
<1> QED BY <1>11, <1>12, <1>13, <1>14, <1>15 DEF Sound

-----------------------------------------------------------------------------
(* The theorems. *)

\* The invariant holds at first, with one numbering,
LEMMA InitSound == ASSUME Init PROVE IInv
<1> DEFINE e == <<>>
           l == <<1>>
           c == [status |-> "connecting", gen |-> 0, sub |-> 0, view |-> None, applied |-> FALSE,
                 awaiting |-> FALSE, flight |-> None, flights |-> 0, dec |-> BlankDecoder,
                 pending |-> {}, staged |-> e, up |-> e]
<1>1. /\ pub = [num |-> 1, start |-> 0, rows |-> e, log |-> l, floor |-> 0]
      /\ srv = [id |-> 0, sent |-> 0, buf |-> e, over |-> FALSE, ord |-> 0, held |-> FALSE,
                live |-> FALSE]
      /\ timer = FALSE /\ paused = FALSE /\ outbox = <<>> /\ down = <<>> /\ arrived = {}
      /\ events = 1 /\ troubles = 0 /\ mixed = FALSE
  BY DEF Init
<1>2. /\ e \in Seq(1..MaxEvents) /\ e \in Seq(WireSet) /\ e \in Seq(Requests) /\ e = <<>> /\ Len(e) = 0
      /\ l \in Seq(0..MaxEvents) /\ Len(l) = 1
      /\ MaxEvents \in Nat /\ MaxEvents >= 1 /\ MaxOps \in Nat /\ MaxTroubles \in Nat
  BY TopicDeliveryAssumption
<1>3. cl = Connect(c, FALSE)
  BY DEF Init, BlankClient
<1>4. BlankDecoder \in Decoders /\ BlankDecoder.ord = 0
  BY DEF BlankDecoder, Decoders
<1>5. /\ c = [status |-> "connecting", gen |-> 0, sub |-> 0, view |-> None, applied |-> FALSE,
              awaiting |-> FALSE, flight |-> None, flights |-> 0, dec |-> BlankDecoder,
              pending |-> {}, staged |-> e, up |-> e]
  OBVIOUS
<1> HIDE DEF e, c, l
<1>6. Fresh(c) /\ c.view = None
  <2>1. c \in Clients
    BY <1>2, <1>4, <1>5 DEF Clients
  <2>2. ClientOK(c)
    BY <1>2, <1>4, <1>5, <2>1 DEF ClientOK
  <2> QED BY <1>2, <1>5, <2>2 DEF Fresh
<1>7. /\ ClientOK(cl) /\ cl.sub = 0 /\ cl.staged = <<>> /\ cl.view = None
      /\ Once(cl.up) /\ \A i \in 1..Len(cl.up) : Asks(cl.up[i]) => cl.up[i].id <= cl.gen
  BY <1>3, <1>6, ConnectFresh
<1>8. pub \in Projections /\ pub.floor = 0 /\ pub.start = 0 /\ CurrentSeq = 1 /\ pub.num = 1
  BY <1>1, <1>2 DEF Projections, CurrentSeq
<1>9. srv \in Subscriptions /\ ~srv.live /\ ~srv.held /\ srv.buf = e /\ srv.id = 0
  BY <1>1, <1>2 DEF Subscriptions
<1>10. TypeOK
  <2>1. pub.floor \in pub.start..CurrentSeq
    BY <1>8
  <2>2. (srv.live => srv.sent <= CurrentSeq) /\ Len(srv.buf) <= MaxOps
    BY <1>2, <1>9
  <2>3. srv.held => srv.live /\ outbox # <<>>
    BY <1>9
  <2>4. timer \in BOOLEAN /\ paused \in BOOLEAN /\ (timer => ~paused)
    BY <1>1
  <2>5. PublisherOK
    BY <1>8, <1>9, <2>1, <2>2, <2>3, <2>4 DEF PublisherOK
  <2>6. ChannelOK
    BY <1>1 DEF ChannelOK
  <2>7. events \in 1..MaxEvents
    BY <1>1, <1>2
  <2>8. troubles \in 0..MaxTroubles
    BY <1>1, <1>2
  <2>9. mixed \in BOOLEAN
    BY <1>1
  <2> QED BY <1>7, <2>5, <2>6, <2>7, <2>8, <2>9 DEF TypeOK
<1>11. Numbered /\ Distinct
  BY <1>1, <1>7, <1>9 DEF Numbered, Distinct, Once, Apart, Off
<1>12. BufferTrue
  BY <1>9 DEF BufferTrue, BufferHolds
<1>13. OnTheWay = {}
  BY <1>1, <1>7, FramesOfEmpty DEF OnTheWay
<1> DEFINE H == [n \in Nat |-> pub]
<1>14. Truth(H)
  BY <1>7, <1>8, <1>13 DEF Truth, FramesTrue, Newest, Showing
<1> QED BY <1>10, <1>11, <1>12, <1>14 DEF IInv, Sound

\* and every step keeps it, perhaps with another numbering; what is shown goes on.
LEMMA StepSound ==
    ASSUME Sound, NEW H, Truth(H), [Next]_vars
    PROVE  Sound' /\ (\E G : Truth(G)') /\ Onward(cl.view, cl'.view)
<1>1. CASE Goes
  <2>1. CASE FlushTimer
    BY <2>1, TimerKeeps
  <2>2. CASE HandleSubscribe
    BY <2>2, SubscribeKeeps
  <2>3. CASE HandleResync
    BY <2>3, ResyncKeeps
  <2>4. CASE HandleUnsubscribe
    BY <2>4, UnsubscribeKeeps
  <2>5. CASE Respond
    BY <2>5, RespondKeeps
  <2>6. CASE Deliver
    BY <2>6, DeliverKeeps
  <2>7. ASSUME NEW m \in arrived, Continue(m)
        PROVE  Sound' /\ (\E G : Truth(G)') /\ Onward(cl.view, cl'.view)
    BY <2>7, ContinueKeeps
  <2>8. CASE Expire
    BY <2>8, ExpireKeeps
  <2>9. CASE Deadline
    BY <2>9, DeadlineKeeps
  <2> QED BY <1>1, <2>1, <2>2, <2>3, <2>4, <2>5, <2>6, <2>7, <2>8, <2>9 DEF Goes
<1>2. ASSUME NEW empty \in BOOLEAN, Ingest(empty)
      PROVE  Sound' /\ (\E G : Truth(G)') /\ Onward(cl.view, cl'.view)
  BY <1>2, IngestKeeps
<1>3. CASE Saturated \/ Drained
  BY <1>3, TimerKeeps
<1>4. ASSUME NEW n \in 1..CurrentSeq, Rehydrate(n)
      PROVE  Sound' /\ (\E G : Truth(G)') /\ Onward(cl.view, cl'.view)
  BY <1>4, RehydrateKeeps
<1>5. ASSUME NEW how \in {"lost", "garbled", "unreadable"}, Damage(how)
      PROVE  Sound' /\ (\E G : Truth(G)') /\ Onward(cl.view, cl'.view)
  BY <1>5, DamageKeeps
<1>6. CASE Retry \/ RecoverFromStaleAuthority
  BY <1>6, RetryKeeps
<1>7. CASE Replace
  BY <1>7, ReplaceKeeps
<1>8. CASE UNCHANGED vars
  <2>1. UNCHANGED <<pub, srv, timer, paused, outbox, down, arrived, cl, events, troubles, mixed>>
    BY <1>8 DEF vars, serverVars, historyVars
  <2>2. /\ timer \in BOOLEAN /\ paused \in BOOLEAN /\ (timer => ~paused)
        /\ troubles \in 0..MaxTroubles /\ mixed \in BOOLEAN
    BY DEF Sound, TypeOK, PublisherOK
  <2> QED BY <2>1, <2>2, NothingSent
<1> QED BY <1>1, <1>2, <1>3, <1>4, <1>5, <1>6, <1>7, <1>8 DEF Next

\* The inductive invariant holds always.
THEOREM DeliveryInvariance == Spec => []IInv
<1>1. Init => IInv
  BY InitSound
<1>2. IInv /\ [Next]_vars => IInv'
  <2> SUFFICES ASSUME IInv, [Next]_vars PROVE IInv'
    OBVIOUS
  <2>1. PICK H : Truth(H)
    BY DEF IInv
  <2>2. Sound' /\ (\E G : Truth(G)')
    BY <2>1, StepSound DEF IInv
  <2> QED BY <2>2 DEF IInv
<1> QED BY <1>1, <1>2, PTL DEF Spec

\* The state of the publisher, the channel and the client is as the types say, for any
\* sizes of the log, the buffer and the snapshots: no subscription has been sent more than
\* there is, the buffer stays within subscriberBufferMaxOps, a saturated connection has no
\* flush timer, and a frame in assembly is newer than all that are settled.
THEOREM DeliveryTypeCorrect == Spec => []TypeOK
<1>1. IInv => TypeOK
  BY DEF IInv, Sound
<1> QED BY <1>1, DeliveryInvariance, PTL

\* What the client shows is what the publisher held after the event the client says it
\* has seen (the water mark of conversationProjectionStore.ts:409), whatever was lost,
\* damaged, resumed, overtaken or asked for twice.
THEOREM ViewsMatch == Spec => []ViewMatches
<1>1. IInv => ViewMatches
  <2> SUFFICES ASSUME IInv, cl.view # None, cl.view.num = pub.num
               PROVE  cl.view.seq <= CurrentSeq /\ cl.view.rows = RowsAt(cl.view.seq)
    BY DEF ViewMatches
  <2>1. PICK H : Truth(H)
    BY DEF IInv
  <2>2. ViewTrue(cl.view, pub)
    BY <2>1 DEF Truth, Showing
  <2>3. TypeOK
    BY DEF IInv, Sound
  <2>4. Top(pub) = CurrentSeq /\ CurrentSeq \in Nat /\ pub.start \in Nat
    BY <2>3, TopIsCurrent
  <2> QED BY <2>2, <2>4 DEF ViewTrue, Held, RowsAt
<1> QED BY <1>1, DeliveryInvariance, PTL

\* The client never goes back behind what it has shown, except to another numbering.
THEOREM ShownNeverBackwards == Spec => NeverBackwards
<1> DEFINE A == cl.view # None /\ (cl.view)'.num = cl.view.num =>
                  (cl.view)'.seq >= cl.view.seq /\ IsPrefix(cl.view.rows, (cl.view)'.rows)
<1>1. IInv /\ [Next]_vars => [A]_vars
  <2> SUFFICES ASSUME IInv, [Next]_vars, cl.view # None, cl'.view.num = cl.view.num
               PROVE  cl'.view.seq >= cl.view.seq /\ IsPrefix(cl.view.rows, cl'.view.rows)
    OBVIOUS
  <2>1. PICK H : Truth(H)
    BY DEF IInv
  <2>2. Onward(cl.view, cl'.view) /\ TypeOK'
    BY <2>1, StepSound DEF IInv, Sound
  <2>3. cl.view \in Views
    BY DEF IInv, Sound, TypeOK, ClientOK, Clients
  <2>4. cl.view.num \in Nat /\ cl.view.seq \in Nat
    BY <2>3 DEF Views
  <2>5. cl'.view \in Views
    BY <2>2 DEF Onward, TypeOK, ClientOK, Clients
  <2>6. cl'.view.seq \in Nat
    BY <2>5 DEF Views
  <2> QED BY <2>2, <2>4, <2>6 DEF Onward
<1>2. Spec => [][A]_vars
  BY <1>1, DeliveryInvariance, PTL DEF Spec
<1> QED BY <1>2 DEF NeverBackwards
==============================================================================
