---------------------------- MODULE TopicDelivery ----------------------------
(***************************************************************************)
(* The delivery of one conversation to one client: the publisher in the    *)
(* agent's process with its flush timer and its back pressure, the request *)
(* and reply channel, and the client's projection store behind the barrier *)
(* that holds wires back until their subscription is known, the assembler  *)
(* of fragments and the gate of the decoder.                               *)
(*                                                                         *)
(* An event adds its own row to the conversation, or produces no delta: a  *)
(* row is the number of its event.  Rows are kept in the order they were   *)
(* added in, so that a row lost, added twice or in the wrong place shows.  *)
(* A frame is sent as one wire or as several.  The agent handles requests  *)
(* one at a time and writes the reply before the wires that belong to it;  *)
(* the continuation of a reply may run after wires that arrived later.     *)
(***************************************************************************)
EXTENDS Selections, SequencesExt

CONSTANTS
    MaxEvents,      \* bound on the events of the session
    MaxOps,         \* subscriberBufferMaxOps
    Retention,      \* eventRetentionPerSession
    SnapshotParts,  \* the wires a snapshot is sent as; deltas are one wire
    MaxTroubles,    \* bound on what disturbs a delivery: lost and damaged wires, timers that
                    \* run out early, saturations of the connection, rehydrations of the
                    \* publisher, and calls of the store from outside
    None

ASSUME TopicDeliveryAssumption ==
    /\ MaxTroubles \in Nat
    /\ {MaxEvents, MaxOps, Retention, SnapshotParts} \subseteq Nat \ {0}

\* What is sent, asked and answered, and what the two ends keep.
Frames == [sub : Nat, ord : Nat, kind : {"snapshot", "deltas"},
           use : {"initial", "online", "recovery"}, from : Nat, to : Nat,
           rows : Seq(1..MaxEvents), num : Nat \ {0}]
WireSet == [frame : Frames, part : Nat, parts : Nat, bad : {"no", "garbled", "unreadable"}]
Bases == [seq : Nat, num : Nat]
Modes == {"snapshot", "resume", None}
Requests == [op : {"subscribe", "resync", "unsubscribe"}, id : Nat, sub : Nat,
             base : Bases \cup {None}, force : BOOLEAN]
Replies == [op : {"subscribe", "resync", "notOwned"}, id : Nat, sub : Nat, mode : Modes,
            had : BOOLEAN]
Projections == [num : Nat \ {0}, start : Nat, rows : Seq(1..MaxEvents), log : Seq(0..MaxEvents),
                floor : Nat]
Subscriptions == [id : Nat, sent : Nat, buf : Seq(1..MaxEvents), over : BOOLEAN, ord : Nat,
                  held : BOOLEAN, live : BOOLEAN]
Views == [seq : Nat, rows : Seq(1..MaxEvents), num : Nat \ {0}]
Decoders == [ord : Nat, use : {"initial", "online", "recovery"}, parts : SUBSET Nat,
             settled : Nat, closed : BOOLEAN]
Flights == [id : Nat, acked : BOOLEAN, mode : Modes, seen : BOOLEAN, upgrade : BOOLEAN,
            force : BOOLEAN, gap : BOOLEAN]
Clients == [status : {"connecting", "live", "error"}, gen : Nat, sub : Nat,
            view : Views \cup {None}, applied : BOOLEAN, awaiting : BOOLEAN,
            flight : Flights \cup {None}, flights : Nat, dec : Decoders,
            pending : SUBSET Nat, staged : Seq(WireSet), up : Seq(Requests)]

ASSUME NoneAssumption == None \notin Frames \cup Bases \cup Views \cup Flights

VARIABLES
    pub,        \* the publisher's projection and its log
    srv,        \* the client's subscription, as the publisher keeps it
    timer,      \* is the flush timer armed?
    paused,     \* is the connection saturated?
    outbox,     \* the reply to the request at hand, with its wires
    down,       \* what travels to the client: replies and wires
    arrived,    \* replies whose continuation has not run
    cl,         \* the client: store, transport and decoder; cl.up travels to the agent
    events,     \* the events so far
    troubles,   \* the disturbances so far
    lost,       \* history: the frames of which the last wires were lost
    mixed       \* history: may numbers of one numbering be taken for those of another?

serverVars == <<pub, srv, timer, paused, outbox>>
historyVars == <<lost, mixed>>
vars == <<serverVars, down, arrived, cl, events, troubles, historyVars>>

Rows(s) == Without(s, {0})

\* The publisher numbers events from start, which a rehydration sets; rows is what it
\* held then, and log what each event since has added, 0 for nothing.  What the code
\* keeps of the log is the part above floor.
CurrentSeq == pub.start + Len(pub.log)
RowsAt(s)  == pub.rows \o Rows(SubSeq(pub.log, 1, s - pub.start))
RowsSince(s) == Rows(SubSeq(pub.log, s - pub.start + 1, Len(pub.log)))

Resumable(base) == base # None /\ base.seq >= pub.floor /\ base.seq <= CurrentSeq

Frame(s, kind, use, from, rows) ==
    [sub |-> s.id, ord |-> s.ord + 1, kind |-> kind, use |-> use, from |-> from,
     to |-> CurrentSeq, rows |-> rows, num |-> pub.num]

\* A mutant of Snapshot: it is declared up to what the subscription has been sent.
SnapshotAsSent(s, use) == [Frame(s, "snapshot", use, 0, RowsAt(CurrentSeq)) EXCEPT !.to = s.sent]

Snapshot(s, use)      == Frame(s, "snapshot", use, 0, RowsAt(CurrentSeq))
Replay(s, use, base)  == Frame(s, "deltas", use, base.seq, RowsSince(base.seq))

Wires(f) ==
    LET parts == IF f.kind = "snapshot" THEN SnapshotParts ELSE 1 IN
    [p \in 1..parts |-> [frame |-> f, part |-> p, parts |-> parts, bad |-> "no"]]
Reply(op, id, sub, mode, had) ==
    [op |-> op, id |-> id, sub |-> sub, mode |-> mode, had |-> had]
IsReply(m) == "op" \in DOMAIN m

-----------------------------------------------------------------------------
(* The store.  Its operations take the client's state and return the next. *)

BlankDecoder == [ord |-> 0, use |-> "online", parts |-> {}, settled |-> 0, closed |-> FALSE]

\* release and settle: the tombstone keeps the ordinal.
Release(d, ord) == [d EXCEPT !.ord = 0, !.use = "online", !.parts = {}, !.settled = ord]
Abort(d) == IF d.ord = 0 THEN d ELSE Release(d, d.ord)
Opened(d) == [Abort(d) EXCEPT !.closed = FALSE]
Closed(d) == [Abort(d) EXCEPT !.closed = TRUE]

Base(c) == IF c.view = None THEN None ELSE [seq |-> c.view.seq, num |-> c.view.num]

Connect(c, force) ==
    LET base == IF force THEN None ELSE Base(c) IN
    [c EXCEPT !.gen = @ + 1, !.flight = None, !.status = "connecting",
              !.pending = @ \cup {c.gen + 1},
              !.up = Append(@, [op |-> "subscribe", id |-> c.gen + 1, sub |-> 0,
                                base |-> base, force |-> force])]

\* A resync request.  Before it leaves, the transport opens the decoder's gate.
Issue(c, force) ==
    LET snapshot == force \/ ~c.applied IN
    [c EXCEPT !.flight = [@ EXCEPT !.acked = FALSE, !.seen = FALSE, !.gap = FALSE,
                                   !.upgrade = FALSE, !.mode = None, !.force = snapshot],
              !.dec = Opened(@),
              !.up = Append(@, [op |-> "resync", id |-> c.flight.id, sub |-> c.sub,
                                base |-> IF c.applied THEN Base(c) ELSE None,
                                force |-> snapshot])]

Fail(c) == [c EXCEPT !.flight = None, !.status = "error"]

NewFlight(c) ==
    [c EXCEPT !.flights = @ + 1,
              !.flight = [id |-> c.flights + 1, acked |-> FALSE, mode |-> None, seen |-> FALSE,
                          upgrade |-> FALSE, force |-> FALSE, gap |-> FALSE]]

\* again: the trouble is with the recovery itself; content: its content is unreadable.
RequestRecovery(c, again, content) ==
    IF c.sub = 0                          THEN Connect(c, TRUE)
    ELSE IF c.flight = None               THEN Issue(NewFlight(c), content)
    ELSE IF ~again                        THEN c
    ELSE IF c.flight.force                THEN Fail(c)
    ELSE IF ~c.flight.acked               THEN [c EXCEPT !.flight.upgrade = TRUE]
    ELSE IF c.flight.mode = "resume"      THEN Issue(c, TRUE)
    ELSE Fail(c)

Settle(c) ==
    IF ~c.flight.acked THEN c
    ELSE IF c.flight.upgrade
         THEN IF ~c.flight.force /\ c.flight.mode = "resume" THEN Issue(c, TRUE) ELSE Fail(c)
    ELSE IF ~c.flight.seen THEN c
    ELSE IF c.flight.gap THEN Issue(c, FALSE)
    ELSE [c EXCEPT !.flight = None]

RecoverySeen(c, f) ==
    IF f.use # "recovery" \/ c.flight = None THEN c
    ELSE Settle([c EXCEPT !.flight.seen = TRUE])

Apply(c, f, initial) ==
    IF f.kind = "snapshot"
    THEN RecoverySeen([c EXCEPT !.view = [seq |-> f.to, rows |-> f.rows, num |-> f.num],
                                !.applied = TRUE], f)
    ELSE IF c.view # None /\ f.to <= c.view.seq THEN RecoverySeen(c, f)
    ELSE IF c.view # None /\ f.from = c.view.seq
    THEN RecoverySeen([c EXCEPT !.view = [seq |-> f.to, rows |-> @.rows \o f.rows, num |-> @.num],
                                !.applied = TRUE], f)
    ELSE IF initial THEN Connect(c, TRUE) ELSE RequestRecovery(c, f.use = "recovery", FALSE)

\* What comes online while a recovery is under way is not applied: the recovery covers
\* it, or, once its frame has been seen, another one must follow.
Beside(c) == [c EXCEPT !.flight.gap = @ \/ c.flight.seen]

HandleFrame(c0, f) ==
    LET initial == f.use = "initial" /\ c0.awaiting
        c == [c0 EXCEPT !.awaiting = @ /\ f.use = "online"]
        known == IF c.view = None THEN 0 ELSE c.view.seq
    IN  IF f.use = "online" /\ c.flight # None /\ f.kind = "deltas"
        THEN IF f.to > known THEN Beside(c) ELSE c
        ELSE IF f.kind = "deltas" /\ ~c.applied
        THEN RequestRecovery(c, f.use = "recovery", FALSE)
        ELSE Apply(c, f, initial)

HandleFault(c0, use, content) ==
    LET c == [c0 EXCEPT !.awaiting = @ /\ use = "online"] IN
    IF content THEN RequestRecovery(c, TRUE, TRUE)
    ELSE IF use = "online" /\ c.flight # None THEN Beside(c)
    ELSE RequestRecovery(c, use = "recovery", FALSE)

-----------------------------------------------------------------------------
(* The decoder: fragments to frames, and the gate that a fault closes.     *)

\* The assembler takes a wire of a frame that is neither settled nor older than the one
\* in assembly, and says what comes of it.
Assembled(d0, w) ==
    LET f == w.frame
        d == IF d0.ord = f.ord THEN d0 ELSE [Abort(d0) EXCEPT !.ord = f.ord, !.use = f.use]
        whole == Cardinality(d.parts \cup {w.part}) = w.parts
    IN  IF w.bad = "garbled" THEN [dec |-> Release(d, f.ord), out |-> "garbled"]
        ELSE IF ~whole
        THEN [dec |-> [d EXCEPT !.parts = @ \cup {w.part}], out |-> "nothing"]
        ELSE [dec |-> Release(d, f.ord),
              out |-> IF w.bad = "unreadable" THEN "unreadable" ELSE "frame"]

\* A recovery opens the gate, and replaces what is in assembly.  A newer frame of
\* another kind replaces it as well, but that is a fault, and the frame is lost with it.
Decode(c0, w) ==
    LET f == w.frame
        dec == IF f.use = "recovery" /\ c0.dec.closed THEN Opened(c0.dec) ELSE c0.dec
        superseded == dec.ord # 0 /\ dec.ord < f.ord /\ f.use # "recovery"
        r == Assembled(dec, w)
        c == [c0 EXCEPT !.dec = r.dec]
        shut == [c0 EXCEPT !.dec = Closed(r.dec)]
        bad == r.out \in {"garbled", "unreadable"}
    IN  IF dec.closed \/ f.ord <= dec.settled \/ f.ord < dec.ord THEN [c0 EXCEPT !.dec = dec]
        ELSE IF superseded
        THEN LET g == HandleFault(shut, dec.use, FALSE)
             IN  IF bad THEN HandleFault(g, f.use, r.out = "unreadable") ELSE g
        ELSE IF bad THEN HandleFault(shut, f.use, r.out = "unreadable")
        ELSE IF r.out = "frame" THEN HandleFrame(c, f)
        ELSE c

\* The wires ws, one after the other.
DecodeAll(c, ws) ==
    LET after[n \in 0..Len(ws)] == IF n = 0 THEN c ELSE Decode(after[n - 1], ws[n])
    IN  after[Len(ws)]

\* The barrier: wires of the active subscription pass, and while the reply to a
\* subscribe is outstanding the others are kept.
Accept(c, w) ==
    IF w.frame.sub = c.sub THEN Decode(c, w)
    ELSE IF c.pending # {} THEN [c EXCEPT !.staged = Append(@, w)]
    ELSE c

\* The reply m to the subscribe of this generation: the store takes the subscription
\* and the barrier gives out the wires it has kept for it.
Activate(c, m) ==
    LET rest == c.pending \ {m.id}
        d == [c EXCEPT !.flight = None, !.status = "live", !.sub = m.sub,
                       !.applied = m.had /\ m.mode = "resume", !.awaiting = TRUE,
                       !.dec = BlankDecoder, !.pending = rest,
                       !.staged = IF rest = {} THEN <<>> ELSE @]
    IN  DecodeAll(d, Among(c.staged, { w \in ToSet(c.staged) : w.frame.sub = m.sub }))

\* The reply to a subscribe that has been replaced: the subscription is given up.
GiveUp(c, m) ==
    LET rest == c.pending \ {m.id} IN
    [c EXCEPT !.pending = rest, !.staged = IF rest = {} THEN <<>> ELSE @,
              !.up = Append(@, [op |-> "unsubscribe", id |-> 0, sub |-> m.sub,
                                base |-> None, force |-> FALSE])]

\* A mutant of Resynced: a frame that has come before its reply is forgotten.
ResyncedOnly(c, m) ==
    IF m.op = "notOwned" THEN Connect([c EXCEPT !.flight = None], FALSE)
    ELSE [c EXCEPT !.flight.acked = TRUE, !.flight.mode = m.mode]

Resynced(c, m) ==
    IF m.op = "notOwned" THEN Connect([c EXCEPT !.flight = None], FALSE)
    ELSE Settle([c EXCEPT !.flight.acked = TRUE, !.flight.mode = m.mode])

-----------------------------------------------------------------------------
BlankClient ==
    [status |-> "connecting", gen |-> 0, sub |-> 0, view |-> None, applied |-> FALSE,
     awaiting |-> FALSE, flight |-> None, flights |-> 0, dec |-> BlankDecoder,
     pending |-> {}, staged |-> <<>>, up |-> <<>>]

\* A conversation with one row, and a client that opens it.
Init ==
    /\ pub = [num |-> 1, start |-> 0, rows |-> <<>>, log |-> <<1>>, floor |-> 0]
    /\ srv = [id |-> 0, sent |-> 0, buf |-> <<>>, over |-> FALSE, ord |-> 0, held |-> FALSE,
              live |-> FALSE]
    /\ timer = FALSE /\ paused = FALSE /\ outbox = <<>> /\ down = <<>> /\ arrived = {}
    /\ cl = Connect(BlankClient, FALSE)
    /\ events = 1 /\ troubles = 0 /\ lost = {} /\ mixed = FALSE

Trouble == troubles < MaxTroubles /\ troubles' = troubles + 1

(* The publisher. *)

Buffered(s, rows) ==
    IF ~s.live \/ s.over \/ rows = <<>> THEN s
    ELSE IF Len(s.buf) + Len(rows) > MaxOps THEN [s EXCEPT !.buf = <<>>, !.over = TRUE]
    ELSE [s EXCEPT !.buf = @ \o rows]

\* The log keeps the last Retention events, and its floor never goes down.
Logged(e) ==
    [pub EXCEPT !.log = Append(@, e),
                !.floor = IF CurrentSeq + 1 > @ + Retention THEN CurrentSeq + 1 - Retention ELSE @]

\* A mutant of Ingest: it arms the timer of a saturated connection too.
IngestArming(empty) ==
    /\ events < MaxEvents /\ events' = events + 1
    /\ LET e == IF empty THEN 0 ELSE events' IN
       pub' = Logged(e) /\ srv' = Buffered(srv, Rows(<<e>>))
    /\ timer' = (timer \/ srv.live)
    /\ UNCHANGED <<paused, outbox, down, arrived, cl, troubles, historyVars>>

\* An event of the session, which may produce no delta.
Ingest(empty) ==
    /\ events < MaxEvents /\ events' = events + 1
    /\ LET e == IF empty THEN 0 ELSE events' IN
       pub' = Logged(e) /\ srv' = Buffered(srv, Rows(<<e>>))
    /\ timer' = (timer \/ (srv.live /\ ~paused))
    /\ UNCHANGED <<paused, outbox, down, arrived, cl, troubles, historyVars>>

\* A frame that is sent before the wires of an unwritten reply overtakes them: they are of
\* an earlier numbering, since a frame that is reserved for a reply holds flushes back.
Overtaken == Len(outbox) > 1 /\ ~srv.held

\* reserveFlush, emitReservation and commit.
Flush ==
    LET send(f, s) == /\ down' = down \o Wires(f)
                      /\ srv' = [s EXCEPT !.buf = <<>>, !.over = FALSE, !.sent = f.to,
                                          !.ord = f.ord]
    IN  IF srv.live /\ ~srv.held /\ srv.over THEN send(Snapshot(srv, "online"), srv)
        ELSE IF srv.live /\ ~srv.held /\ ~(srv.buf = <<>> /\ srv.sent = CurrentSeq)
        THEN send(Frame(srv, "deltas", "online", srv.sent, srv.buf), srv)
        ELSE UNCHANGED <<srv, down>>

FlushTimer ==
    /\ timer /\ timer' = FALSE
    /\ Flush
    /\ mixed' = (mixed \/ Overtaken)
    /\ UNCHANGED <<pub, paused, outbox, arrived, cl, events, troubles, lost>>

\* setConnectionFlowState, a request like others.
Saturated ==
    /\ ~paused /\ outbox = <<>> /\ Trouble
    /\ paused' = TRUE /\ timer' = FALSE
    /\ UNCHANGED <<pub, srv, outbox, down, arrived, cl, events, historyVars>>

Drained ==
    /\ paused /\ outbox = <<>>
    /\ paused' = FALSE /\ timer' = FALSE
    /\ Flush
    /\ UNCHANGED <<pub, outbox, arrived, cl, events, troubles, historyVars>>

\* The publisher takes the projection of the n events that are made from what has been
\* persisted, under the same epoch.  It flushes before it goes on to other work, or its
\* timer does that.
Rehydrate(n) ==
    /\ Trouble
    /\ pub' = [num |-> pub.num + 1, start |-> n, rows |-> [e \in 1..events |-> e],
               log |-> <<>>, floor |-> n]
    /\ srv' = IF srv.live THEN [srv EXCEPT !.buf = <<>>, !.over = TRUE, !.sent = 0, !.held = FALSE]
              ELSE srv
    /\ timer' = (srv.live /\ ~paused)
    /\ UNCHANGED <<paused, outbox, down, arrived, cl, events, historyVars>>

-----------------------------------------------------------------------------
(* Requests. *)

Takes(op) ==
    /\ cl.up # <<>> /\ Head(cl.up).op = op /\ outbox = <<>>
    /\ cl' = [cl EXCEPT !.up = Tail(@)]

\* The frame f, if there is one, is reserved for the reply.
Answer(m, s, mode, f, how) ==
    LET held == f # None IN
    /\ srv' = [s EXCEPT !.held = held, !.ord = IF held THEN f.ord ELSE @,
                        !.sent = IF how = "resume" THEN m.base.seq ELSE 0]
    /\ outbox' = <<Reply(m.op, m.id, s.id, mode, m.base # None)>>
                 \o (IF held THEN Wires(f) ELSE <<>>)
    /\ mixed' = (mixed \/ (how = "resume" /\ m.base.num # pub.num))
    /\ timer' = FALSE

HandleSubscribe ==
    /\ Takes("subscribe")
    /\ LET m == Head(cl.up)
           s == [id |-> srv.id + 1, sent |-> 0, buf |-> <<>>, over |-> FALSE, ord |-> 0,
                 held |-> FALSE, live |-> TRUE]
       IN  IF ~Resumable(m.base)
           THEN Answer(m, s, "snapshot", Snapshot(s, "initial"), "snapshot")
           ELSE IF m.base.seq = CurrentSeq THEN Answer(m, s, "resume", None, "resume")
           ELSE Answer(m, s, "resume", Replay(s, "initial", m.base), "resume")
    /\ UNCHANGED <<pub, paused, down, arrived, events, troubles, lost>>

\* A mutant of HandleResync: the buffer is kept.
HandleResyncKeeping ==
    /\ Takes("resync")
    /\ LET m == Head(cl.up) IN
       IF ~srv.live \/ m.sub # srv.id
       THEN /\ outbox' = <<Reply("notOwned", m.id, m.sub, None, FALSE)>>
            /\ UNCHANGED <<srv, timer, mixed>>
       ELSE IF m.force \/ ~Resumable(m.base)
       THEN Answer(m, srv, "snapshot", Snapshot(srv, "recovery"), "snapshot")
       ELSE Answer(m, srv, "resume", Replay(srv, "recovery", m.base), "resume")
    /\ UNCHANGED <<pub, paused, down, arrived, events, troubles, lost>>

\* A recovery starts from what the client has; the frame that was reserved, the buffer
\* and the overflow are forgotten.
HandleResync ==
    /\ Takes("resync")
    /\ LET m == Head(cl.up)
           s == [srv EXCEPT !.buf = <<>>, !.over = FALSE]
       IN  IF ~srv.live \/ m.sub # srv.id
           THEN /\ outbox' = <<Reply("notOwned", m.id, m.sub, None, FALSE)>>
                /\ UNCHANGED <<srv, timer, mixed>>
           ELSE IF m.force \/ ~Resumable(m.base)
           THEN Answer(m, s, "snapshot", Snapshot(s, "recovery"), "snapshot")
           ELSE Answer(m, s, "resume", Replay(s, "recovery", m.base), "resume")
    /\ UNCHANGED <<pub, paused, down, arrived, events, troubles, lost>>

HandleUnsubscribe ==
    /\ Takes("unsubscribe")
    /\ IF srv.live /\ Head(cl.up).sub = srv.id
       THEN srv' = [srv EXCEPT !.live = FALSE] /\ timer' = FALSE
       ELSE UNCHANGED <<srv, timer>>
    /\ UNCHANGED <<pub, paused, outbox, down, arrived, events, troubles, historyVars>>

\* A mutant of Respond: nothing is flushed after the commit.
RespondUnarmed ==
    /\ outbox # <<>>
    /\ down' = down \o outbox /\ outbox' = <<>>
    /\ srv' = IF srv.held THEN [srv EXCEPT !.held = FALSE, !.sent = Last(outbox).frame.to] ELSE srv
    /\ UNCHANGED <<pub, timer, paused, arrived, cl, events, troubles, historyVars>>

\* The reply is written with its wires and the reservation committed; what has come in
\* between is flushed by the timer.
Respond ==
    /\ outbox # <<>>
    /\ down' = down \o outbox /\ outbox' = <<>>
    /\ IF srv.held
       THEN /\ srv' = [srv EXCEPT !.held = FALSE, !.sent = Last(outbox).frame.to]
            /\ timer' = (timer \/ ~paused)
       ELSE UNCHANGED <<srv, timer>>
    /\ UNCHANGED <<pub, paused, arrived, cl, events, troubles, historyVars>>

-----------------------------------------------------------------------------
(* The channel, and the client. *)

Deliver ==
    /\ down # <<>> /\ down' = Tail(down)
    /\ IF IsReply(Head(down)) THEN arrived' = arrived \cup {Head(down)} /\ UNCHANGED cl
       ELSE cl' = Accept(cl, Head(down)) /\ UNCHANGED arrived
    /\ UNCHANGED <<serverVars, events, troubles, historyVars>>

\* The frames of the wires among ms; and the client still has to do with the frame f: a
\* wire of it is to come, or one is kept by the barrier or in assembly.
Framed(ms) == { m.frame : m \in { w \in ToSet(ms) : ~IsReply(w) } }
Traced(f, ms) ==
    \/ f \in Framed(ms)
    \/ f.sub # cl.sub /\ f \in Framed(cl.staged)
    \/ f.sub = cl.sub /\ f.ord = cl.dec.ord

\* The snapshot f would bring the view v the numbers of a rehydrated projection.
Renumbers(f, v) == f.kind = "snapshot" /\ f.num > 1 /\ (v = None \/ v.num # f.num)

\* A wire is lost, or comes damaged: its envelope or checksum is wrong, or the client
\* cannot read the content of its frame.
Damage(how) ==
    /\ down # <<>> /\ ~IsReply(Head(down)) /\ Trouble
    /\ down' = Tail(down)
    /\ LET w == Head(down)
           f == w.frame
       IN  IF how # "lost"
           THEN cl' = Accept(cl, [w EXCEPT !.bad = how]) /\ UNCHANGED historyVars
           ELSE /\ IF Traced(f, Tail(down)) THEN UNCHANGED historyVars
                   ELSE /\ lost' = lost \cup {<<f.sub, f.ord>>}
                        /\ mixed' = (mixed \/ Renumbers(f, cl.view))
                /\ UNCHANGED cl
    /\ UNCHANGED <<serverVars, arrived, events>>

Continue(m) ==
    /\ m \in arrived /\ arrived' = arrived \ {m}
    /\ cl' = IF m.op = "subscribe" THEN IF m.id = cl.gen THEN Activate(cl, m) ELSE GiveUp(cl, m)
             ELSE IF cl.flight # None /\ cl.flight.id = m.id THEN Resynced(cl, m)
             ELSE cl
    /\ UNCHANGED <<serverVars, down, events, troubles, historyVars>>

\* A timer runs out: at once, when what it waits for will not come.
RunsOut(awaited) == IF awaited THEN Trouble ELSE UNCHANGED troubles
Coming == Framed(down)

\* The assembly of a frame takes too long.
Expire ==
    /\ cl.dec.ord # 0
    /\ RunsOut(\E f \in Coming : f.sub = cl.sub /\ f.ord = cl.dec.ord)
    /\ cl' = HandleFault([cl EXCEPT !.dec = Closed(@)], cl.dec.use, FALSE)
    /\ UNCHANGED <<serverVars, down, arrived, events, historyVars>>

\* The frame of an acknowledged recovery does not come.
Deadline ==
    /\ cl.flight # None /\ cl.flight.acked /\ ~cl.flight.seen /\ ~cl.flight.upgrade
    /\ RunsOut(cl.dec.use = "recovery" \/ \E f \in Coming : f.sub = cl.sub /\ f.use = "recovery")
    /\ cl' = IF cl.flight.force THEN Fail(cl) ELSE Issue(cl, TRUE)
    /\ UNCHANGED <<serverVars, down, arrived, events, historyVars>>

\* The user asks for another try.
Retry ==
    /\ cl.status = "error"
    /\ cl' = Connect(cl, FALSE)
    /\ UNCHANGED <<serverVars, down, arrived, events, troubles, historyVars>>

\* A command or query of the pane was refused as stale.
RecoverFromStaleAuthority ==
    /\ Trouble
    /\ cl' = RequestRecovery(cl, FALSE, FALSE)
    /\ UNCHANGED <<serverVars, down, arrived, events, historyVars>>

\* The transport is replaced: whatever travels on the old one is not seen any more.
Replace ==
    /\ Trouble
    /\ cl' = Connect([cl EXCEPT !.gen = @ + 1, !.flight = None, !.sub = 0, !.applied = FALSE,
                                !.awaiting = FALSE, !.dec = BlankDecoder, !.pending = {},
                                !.staged = <<>>, !.up = <<>>], FALSE)
    /\ down' = <<>> /\ arrived' = {} /\ outbox' = <<>>
    /\ srv' = [srv EXCEPT !.live = FALSE, !.held = FALSE] /\ timer' = FALSE /\ paused' = FALSE
    /\ UNCHANGED <<pub, events, historyVars>>

-----------------------------------------------------------------------------
Goes ==
    \/ FlushTimer
    \/ HandleSubscribe \/ HandleResync \/ HandleUnsubscribe \/ Respond
    \/ Deliver \/ \E m \in arrived : Continue(m)
    \/ Expire \/ Deadline

Next ==
    \/ Goes
    \/ \E empty \in BOOLEAN : Ingest(empty)
    \/ Saturated \/ Drained
    \/ \E n \in 1..CurrentSeq : Rehydrate(n)
    \/ \E how \in {"lost", "garbled", "unreadable"} : Damage(how)
    \/ Retry \/ RecoverFromStaleAuthority \/ Replace

CanGo ==
    \/ timer \/ cl.up # <<>> \/ outbox # <<>> \/ down # <<>> \/ arrived # {}
    \/ cl.dec.ord # 0
    \/ cl.flight # None /\ cl.flight.acked /\ ~cl.flight.seen /\ ~cl.flight.upgrade

\* Weak fairness of Goes: what the agent, the channel and the client do of themselves
\* goes on.  Nobody has to make events, damage, saturate or drain.  CanGo is ENABLED
\* Goes, in a form that TLC evaluates fast.
Fairness == []<>~CanGo \/ []<><<Goes>>_vars

Spec == Init /\ [][Next]_vars /\ Fairness

-----------------------------------------------------------------------------
\* A client without a subscription has applied nothing and recovers nothing; wires are kept
\* only while a subscribe is outstanding; and what is in assembly is newer than all that
\* are settled, behind an open gate.
ClientOK(c) ==
    /\ c \in Clients
    /\ c.pending \subseteq 1..c.gen
    /\ (c.applied \/ c.awaiting \/ c.flight # None => c.sub # 0)
    /\ (c.staged # <<>> => c.pending # {})
    /\ (c.dec.ord # 0 => c.dec.ord > c.dec.settled /\ ~c.dec.closed)

\* A subscription has been sent no more than there is, a frame is reserved only while its
\* reply is unwritten, and a saturated connection has no flush timer.
PublisherOK ==
    /\ pub \in Projections /\ pub.floor \in pub.start..CurrentSeq
    /\ srv \in Subscriptions
    /\ (srv.live => srv.sent <= CurrentSeq) /\ Len(srv.buf) <= MaxOps
    /\ (srv.held => srv.live /\ outbox # <<>>)
    /\ timer \in BOOLEAN /\ paused \in BOOLEAN /\ (timer => ~paused)

\* One reply, and then its wires.
ChannelOK ==
    /\ outbox \in Seq(Replies \cup WireSet)
    /\ \A i \in DOMAIN outbox : outbox[i] \in Replies <=> i = 1
    /\ down \in Seq(Replies \cup WireSet) /\ arrived \subseteq Replies

\* Types, and what the values of the fields have to do with each other.
TypeOK ==
    /\ PublisherOK /\ ChannelOK /\ ClientOK(cl)
    /\ events \in 1..MaxEvents /\ troubles \in 0..MaxTroubles /\ mixed \in BOOLEAN

\* What the client shows is what the publisher held after the event it says it has seen:
\* no row is lost, added twice or out of place, whatever was lost, resumed, overtaken or
\* asked for twice (the water mark of conversationProjectionStore.ts:409).
ViewMatches ==
    cl.view # None /\ cl.view.num = pub.num =>
        cl.view.seq <= CurrentSeq /\ cl.view.rows = RowsAt(cl.view.seq)

\* The client never goes back behind what it has shown, except to another numbering:
\* whatever snapshot or replay comes, the rows it shows are a beginning of those to come.
NeverBackwards ==
    [][ cl.view # None /\ cl.view'.num = cl.view.num =>
            cl.view'.seq >= cl.view.seq /\ IsPrefix(cl.view.rows, cl.view'.rows) ]_vars

\* When nothing is under way, no timer is armed and the connection drains, a live client
\* has everything, unless the last frame of all is the one that was lost: no wake-up of a
\* flush is lost and no recovery ends too early.
Quiet ==
    /\ cl.up = <<>> /\ outbox = <<>> /\ down = <<>> /\ arrived = {} /\ ~timer /\ ~paused
    /\ cl.status = "live" /\ cl.flight = None /\ cl.dec.ord = 0
CaughtUp ==
    Quiet /\ ~mixed /\ <<srv.id, srv.ord>> \notin lost =>
        /\ srv.live /\ cl.sub = srv.id
        /\ cl.view # None /\ cl.view.num = pub.num /\ cl.view.seq = CurrentSeq
        /\ cl.view.rows = RowsAt(CurrentSeq)

\* A recovery does not stay open for ever: its frame is applied, or it is replaced or
\* given up, and a later gap can start another.
FlightCloses == (cl.flight # None) ~> (cl.flight = None)
=============================================================================
