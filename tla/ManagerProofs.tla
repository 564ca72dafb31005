--------------------------- MODULE ManagerProofs ----------------------------
(***************************************************************************)
(* Proofs about the manager, for any number of seats, nested loops and     *)
(* delayed logins, and any choice of what may fail.  ManagerInv is         *)
(* inductive.  StateGood, its main part, is about a state record as the    *)
(* handlers take and return it, so that each handler has one lemma.        *)
(***************************************************************************)
EXTENDS Manager, FiniteSetTheorems, SequenceTheorems, TLAPS

-----------------------------------------------------------------------------
(* The inductive invariant.                                                *)

StateType ==
    [manager : ManagerType, seat : [Objects -> SeatType],
     loops : Seq(FrameType), daemon : DaemonType]

\* A seat object s that was made stays in the table until the stop of the
\* daemon, or until the second object for its id takes its place.
Placed(st, s) ==
    \/ st.daemon.sigterm = "spent"
    \/ st.manager.seats[s[1]] = s
    \/ s[2] = 1 /\ st.seat[<<s[1], 2>>].obj # "none"

\* The reference counts: a seat exists as long as somebody holds it, but for
\* x, on which the running handler has a reference to give back.  A session
\* that was told to end has _session_terminated_cb connected.
SeatGood(st, x, s) ==
    /\ st.seat[s].obj = "live" /\ s # x => Held(st, s)
    /\ Held(st, s) => st.seat[s].obj = "live"
    /\ st.seat[s].session # "none" => st.seat[s].obj = "live"
    /\ st.seat[s].session = "ending" => st.seat[s].stop
    /\ st.seat[s].stop => st.daemon.sigterm = "spent"
    /\ st.seat[s].obj # "none" => Placed(st, s)

\* _create_seat runs at most twice for an id: a second object for it is still
\* to be made when a watch waits or when tlm_manager_start has not got there.
IdGood(st, i) ==
    /\ st.manager.seats[i] # NoSeat => st.manager.seats[i][1] = i
    /\ st.seat[<<i, 1>>].obj = "none" => st.seat[<<i, 2>>].obj = "none"
    /\ i \in st.manager.watches => st.seat[<<i, 2>>].obj = "none"

AddGood(st, t) ==
    /\ t.id \notin st.manager.watches
    /\ st.seat[<<t.id, 2>>].obj = "none"
    /\ ~t.again => st.seat[<<t.id, 1>>].obj = "none"

TodoGood(st) ==
    /\ \A k \in DOMAIN st.manager.todo : AddGood(st, st.manager.todo[k])
    /\ \A j, k \in DOMAIN st.manager.todo :
        st.manager.todo[j].id = st.manager.todo[k].id => j = k

\* Frames that continue a function of a seat have the seat.
FrameGood(st, f) ==
    /\ f.kind # "plain" => f.seat \in Objects /\ st.seat[f.seat].obj # "none"
    /\ f.caller = "delayed" => f.kind = "login"
    /\ f.kind = "replaced" => f.caller = "add"
    /\ f.kind = "removed" => st.daemon.sigterm = "spent"

\* The main loop is left only after a stop.
DaemonGood(st) ==
    st.daemon.main \in {"quitting", "disposing", "exited"} =>
        st.daemon.sigterm = "spent"

StateGood(st, x) ==
    /\ st \in StateType
    /\ \A s \in Objects : SeatGood(st, x, s)
    /\ \A i \in Ids : IdGood(st, i)
    /\ TodoGood(st)
    /\ \A k \in DOMAIN st.loops : FrameGood(st, st.loops[k])
    /\ DaemonGood(st)

\* The end of main(), and the table when the manager was disposed of.
ExitGood ==
    /\ daemon.main = "disposing" => manager.watches = {} /\ ~manager.leaked
    /\ daemon.main = "exited" /\ manager.watches = {} /\ ~manager.leaked =>
            loops = <<>> /\ Empty(Now)

ManagerInv ==
    /\ StateGood(Now, NoSeat)
    /\ ExitGood
    /\ fault \in {"none", "error", "watch", "start"}
-----------------------------------------------------------------------------
(* Seat objects, and one field of a state at a time.                       *)

\* The objects of an id are two, and none of them is NULL.
LEMMA ObjectFacts ==
    /\ NoSeat \notin Objects
    /\ \A i \in Ids : <<i, 1>> \in Objects /\ <<i, 2>> \in Objects
    /\ \A s \in Objects :
        s[1] \in Ids /\ s[2] \in {1, 2} /\ s = <<s[1], s[2]>>
BY NoSeatAssumption DEF Objects

\* The elements of a sequence over S are in S.
LEMMA ElementType ==
    ASSUME NEW S, NEW q \in Seq(S) PROVE \A k \in DOMAIN q : q[k] \in S
OBVIOUS

\* f keeps a reference on its seat.
Holds(f) == f.caller = "delayed" \/ f.kind = "removed"

\* The seat s becomes v.
PutSeat(st, s, v) == [st EXCEPT !.seat[s] = v]

\* The fields of a state n that differs from st in the seat s only.
LEMMA SeatFields ==
    ASSUME NEW st \in StateType, NEW s \in Objects, NEW v \in SeatType,
           NEW n, n = PutSeat(st, s, v)
    PROVE  /\ n \in StateType /\ n.manager = st.manager /\ n.loops = st.loops
           /\ n.daemon = st.daemon /\ n.seat[s] = v
           /\ \A t \in Objects : t # s => n.seat[t] = st.seat[t]
BY DEF StateType, PutSeat

\* Nothing but the counts depends on more of a seat than that it was made.
LEMMA SameObjects ==
    ASSUME NEW st, NEW x, StateGood(st, x), NEW n \in StateType,
           n.manager = st.manager, n.loops = st.loops, n.daemon = st.daemon,
           \A t \in Objects : n.seat[t].obj = "none" <=> st.seat[t].obj = "none"
    PROVE  /\ \A t \in Objects : Placed(st, t) => Placed(n, t)
           /\ \A i \in Ids : IdGood(n, i)
           /\ TodoGood(n)
           /\ \A k \in DOMAIN n.loops : FrameGood(n, n.loops[k])
           /\ DaemonGood(n)
<1>0. st \in StateType
  BY DEF StateGood
<1>1. \A i \in Ids :
        /\ n.seat[<<i, 1>>].obj = "none" <=> st.seat[<<i, 1>>].obj = "none"
        /\ n.seat[<<i, 2>>].obj = "none" <=> st.seat[<<i, 2>>].obj = "none"
  BY ObjectFacts, Zenon
<1>2. \A t \in Objects : Placed(st, t) => Placed(n, t)
  BY <1>1, ObjectFacts DEF Placed
<1>3. \A i \in Ids : IdGood(n, i)
  BY <1>1, Zenon DEF StateGood, IdGood
<1>4. \A k \in DOMAIN st.manager.todo : st.manager.todo[k].id \in Ids
  <2>1. st.manager.todo \in Seq([id : Ids, again : BOOLEAN])
    BY <1>0 DEF StateType, ManagerType
  <2>2. \A k \in DOMAIN st.manager.todo :
            st.manager.todo[k] \in [id : Ids, again : BOOLEAN]
    BY <2>1, ElementType, Zenon
  <2>3. QED
    BY <2>2
<1>5. TodoGood(n)
  BY <1>1, <1>4 DEF StateGood, TodoGood, AddGood
<1>6. \A k \in DOMAIN n.loops : FrameGood(n, n.loops[k])
  BY DEF StateGood, FrameGood
<1>7. DaemonGood(n)
  BY DEF StateGood, DaemonGood
<1>8. QED
  BY <1>2, <1>3, <1>5, <1>6, <1>7

\* A seat that changes keeps the counts, unless it gives up its last
\* reference of a delayed login: y is then the seat.
LEMMA SeatUpdateGood ==
    ASSUME NEW st, NEW x, StateGood(st, x), NEW s \in Objects,
           NEW v \in SeatType, NEW y,
           NEW n, n = PutSeat(st, s, v),
           v.obj = st.seat[s].obj, v.stop = st.seat[s].stop,
           v.session # "none" => v.obj = "live",
           v.session = "ending" => v.stop,
           v.delayed > 0 \/ v.leaked => v.obj = "live",
           \/ y = x /\ (st.seat[s].delayed > 0 \/ st.seat[s].leaked
                           => v.delayed > 0 \/ v.leaked)
           \/ y = s /\ x \notin Objects
    PROVE  StateGood(n, y)
<1>1. st \in StateType
  BY DEF StateGood
<1>2. /\ n \in StateType /\ n.manager = st.manager /\ n.loops = st.loops
      /\ n.daemon = st.daemon /\ n.seat[s] = v
      /\ \A t \in Objects : t # s => n.seat[t] = st.seat[t]
  BY <1>1, SeatFields
<1>3. \A t \in Objects : n.seat[t].obj = st.seat[t].obj
  BY <1>2
<1>4. ASSUME NEW t \in Objects PROVE SeatGood(n, y, t)
  <2>1. SeatGood(st, x, t)
    BY DEF StateGood
  <2>2. Placed(st, t) => Placed(n, t)
    BY <1>2, <1>3, SameObjects
  <2>3. CASE t = s
    <3>1. Held(n, t) => Held(st, t) \/ v.delayed > 0 \/ v.leaked
      BY <1>2, <2>3 DEF Held
    <3>2. Held(st, t) /\ t # y => Held(n, t)
      BY <1>2, <2>3 DEF Held
    <3>3. QED
      BY <2>1, <2>2, <2>3, <3>1, <3>2, <1>2 DEF SeatGood
  <2>4. CASE t # s
    <3>1. Held(n, t) <=> Held(st, t)
      BY <1>2, <2>4 DEF Held
    <3>2. QED
      BY <2>1, <2>2, <2>4, <3>1, <1>2 DEF SeatGood
  <2>5. QED
    BY <2>3, <2>4
<1>5. QED
  BY <1>2, <1>3, <1>4, SameObjects DEF StateGood

\* What a step of the daemon leaves alone when it only drops sessions.
Drops(st, n) ==
    /\ n.manager = st.manager /\ n.daemon = st.daemon
    /\ \A s \in Objects : n.seat[s].session \in {st.seat[s].session, "none"}

\* g_object_unref on a seat.
LEMMA UnrefGood ==
    ASSUME NEW st, NEW s, StateGood(st, s),
           s = NoSeat \/ (s \in Objects /\ st.seat[s].obj # "none"),
           NEW n, n = Unref(st, s)
    PROVE  /\ StateGood(n, NoSeat) /\ Drops(st, n) /\ n.loops = st.loops
           /\ \A t \in Objects : t # s => n.seat[t] = st.seat[t]
<1>0. st \in StateType
  BY DEF StateGood
<1>1. CASE s = NoSeat
  BY <1>1 DEF Unref, Drops
<1>2. CASE s \in Objects /\ Held(st, s)
  <2>1. n = st
    BY <1>2 DEF Unref
  <2>2. \A t \in Objects : SeatGood(st, NoSeat, t)
    BY <1>2 DEF StateGood, SeatGood
  <2>3. StateGood(st, NoSeat)
    BY <2>2 DEF StateGood
  <2>4. QED
    BY <2>1, <2>3 DEF Drops
<1>3. CASE s \in Objects /\ ~Held(st, s)
  <2> DEFINE v == [st.seat[s] EXCEPT !.obj = "freed", !.session = "none"]
  <2>1. st.seat[s] \in SeatType
    BY <1>0, <1>3 DEF StateType
  <2>2. /\ v \in SeatType /\ v.obj = "freed" /\ v.session = "none"
        /\ v.stop = st.seat[s].stop /\ v.delayed = st.seat[s].delayed
        /\ v.leaked = st.seat[s].leaked
    BY <2>1 DEF SeatType
  <2>3. n = PutSeat(st, s, v)
    BY <1>3, ObjectFacts DEF Unref, PutSeat
  <2> HIDE DEF v
  <2>4. /\ n \in StateType /\ n.manager = st.manager /\ n.loops = st.loops
        /\ n.daemon = st.daemon /\ n.seat[s] = v
        /\ \A t \in Objects : t # s => n.seat[t] = st.seat[t]
    BY <1>0, <1>3, <2>2, <2>3, SeatFields
  <2>5. \A t \in Objects : n.seat[t].obj = "none" <=> st.seat[t].obj = "none"
    BY <1>3, <2>2, <2>4, ObjectFacts
  <2>6. ASSUME NEW t \in Objects PROVE SeatGood(n, NoSeat, t)
    <3>1. SeatGood(st, s, t)
      BY DEF StateGood
    <3>2. Placed(st, t) => Placed(n, t)
      BY <2>4, <2>5, SameObjects
    <3>3. Held(n, t) <=> Held(st, t)
      BY <2>2, <2>4 DEF Held
    <3>4. CASE t = s
      BY <1>3, <2>2, <2>4, <3>1, <3>2, <3>3, <3>4,
         ObjectFacts DEF SeatGood
    <3>5. CASE t # s
      BY <2>4, <3>1, <3>2, <3>3, <3>5 DEF SeatGood
    <3>6. QED
      BY <3>4, <3>5
  <2>7. Drops(st, n)
    BY <2>2, <2>4 DEF Drops
  <2>8. StateGood(n, NoSeat)
    BY <2>4, <2>5, <2>6, SameObjects DEF StateGood
  <2>9. QED
    BY <2>4, <2>7, <2>8
<1>4. QED
  BY <1>1, <1>2, <1>3

-----------------------------------------------------------------------------
(* Nested loops.                                                           *)

\* Some frame keeps a reference on t.
FrameHolds(stk, t) == \E k \in DOMAIN stk : stk[k].seat = t /\ Holds(stk[k])

\* Held, with the frames apart.
LEMMA HeldByFrames ==
    ASSUME NEW st, NEW t
    PROVE  Held(st, t) <=>
            \/ \E i \in Ids : st.manager.seats[i] = t
            \/ st.seat[t].delayed > 0
            \/ st.seat[t].leaked
            \/ FrameHolds(st.loops, t)
BY DEF Held, Holds, FrameHolds

\* a has the frames of b and the frame f.
Adds(a, b, f) ==
    /\ \A k \in DOMAIN a : a[k] = f \/ \E j \in DOMAIN b : a[k] = b[j]
    /\ \E k \in DOMAIN a : a[k] = f
    /\ \A j \in DOMAIN b : \E k \in DOMAIN a : a[k] = b[j]

\* ... and their references.
LEMMA AddsHolds ==
    ASSUME NEW a, NEW b, NEW f, NEW t, Adds(a, b, f)
    PROVE  FrameHolds(a, t) <=> FrameHolds(b, t) \/ (Holds(f) /\ f.seat = t)
BY DEF Adds, FrameHolds

\* A handler is interrupted: f may take over its reference on x.
LEMMA NestedGood ==
    ASSUME NEW st, NEW x, StateGood(st, x), NEW f \in FrameType,
           FrameGood(st, f),
           Holds(f) => f.seat \in Objects /\ st.seat[f.seat].obj = "live",
           NEW y, y = x \/ (Holds(f) /\ f.seat = x /\ y = NoSeat),
           NEW n \in Nested(st, f)
    PROVE  StateGood(n, y) /\ Drops(st, n) /\ n.seat = st.seat
<1>0. st \in StateType
  BY DEF StateGood
<1>1. n = [st EXCEPT !.loops = <<f>> \o st.loops]
  BY DEF Nested
<1>2. st.loops \in Seq(FrameType)
  BY <1>0 DEF StateType
<1>3. /\ n \in StateType /\ n.manager = st.manager /\ n.seat = st.seat
      /\ n.daemon = st.daemon /\ n.loops = <<f>> \o st.loops
  <2> DEFINE l == <<f>> \o st.loops
  <2>1. l \in Seq(FrameType)
    BY <1>2
  <2> HIDE DEF l
  <2>2. /\ n \in StateType /\ n.manager = st.manager /\ n.seat = st.seat
        /\ n.daemon = st.daemon /\ n.loops = l
    BY <1>0, <1>1, <2>1 DEF StateType, l
  <2>3. QED
    BY <2>2 DEF l
<1>4. Adds(n.loops, st.loops, f)
  <2>1. /\ DOMAIN n.loops = 1..(Len(st.loops) + 1) /\ n.loops[1] = f
        /\ \A k \in 2..(Len(st.loops) + 1) : n.loops[k] = st.loops[k - 1]
        /\ DOMAIN st.loops = 1..Len(st.loops) /\ Len(st.loops) \in Nat
    BY <1>3, <1>2
  <2>2. \A j \in DOMAIN st.loops :
            j + 1 \in DOMAIN n.loops /\ n.loops[j + 1] = st.loops[j]
    BY <2>1
  <2>3. \A k \in DOMAIN n.loops :
            k = 1 \/ (k - 1 \in DOMAIN st.loops /\ n.loops[k] = st.loops[k - 1])
    BY <2>1
  <2>4. QED
    BY <2>1, <2>2, <2>3 DEF Adds
<1>5. ASSUME NEW t \in Objects
      PROVE  Held(n, t) <=> Held(st, t) \/ (Holds(f) /\ f.seat = t)
  <2>1. FrameHolds(n.loops, t) <=>
            FrameHolds(st.loops, t) \/ (Holds(f) /\ f.seat = t)
    BY <1>4, AddsHolds
  <2>2. QED
    BY <1>3, <2>1, HeldByFrames
<1>6. ASSUME NEW t \in Objects PROVE SeatGood(n, y, t)
  <2>1. SeatGood(st, x, t)
    BY DEF StateGood
  <2>2. Placed(st, t) => Placed(n, t)
    BY <1>3 DEF Placed
  <2>3. QED
    BY <1>3, <1>5, <2>1, <2>2, ObjectFacts DEF SeatGood
<1>7. \A k \in DOMAIN n.loops : FrameGood(n, n.loops[k])
  <2>1. \A g : FrameGood(n, g) <=> FrameGood(st, g)
    BY <1>3 DEF FrameGood
  <2>2. QED
    BY <1>4, <2>1 DEF StateGood, Adds
<1>8. (\A i \in Ids : IdGood(n, i)) /\ TodoGood(n) /\ DaemonGood(n)
  BY <1>3 DEF StateGood, IdGood, TodoGood, AddGood, DaemonGood
<1>9. QED
  BY <1>3, <1>6, <1>7, <1>8 DEF StateGood, Drops

\* The innermost loop returns to the function of its frame, with the
\* reference of the frame.
LEMMA PoppedGood ==
    ASSUME NEW st, StateGood(st, NoSeat), st.loops # <<>>,
           NEW f, f = Head(st.loops),
           NEW n, n = [st EXCEPT !.loops = Tail(@)]
    PROVE  /\ f \in FrameType /\ FrameGood(n, f)
           /\ StateGood(n, IF Holds(f) THEN f.seat ELSE NoSeat)
           /\ n.manager = st.manager /\ n.daemon = st.daemon
           /\ n.seat = st.seat
<1>0. st \in StateType
  BY DEF StateGood
<1>1. st.loops \in Seq(FrameType)
  BY <1>0 DEF StateType
<1>2. /\ n \in StateType /\ n.manager = st.manager /\ n.seat = st.seat
      /\ n.daemon = st.daemon /\ n.loops = Tail(st.loops)
  <2>1. Tail(st.loops) \in Seq(FrameType)
    BY <1>1
  <2>2. QED
    BY <1>0, <2>1 DEF StateType
<1>3. Adds(st.loops, n.loops, f)
  <2>1. /\ DOMAIN st.loops = 1..Len(st.loops) /\ st.loops[1] = f
        /\ DOMAIN n.loops = 1..(Len(st.loops) - 1)
        /\ Len(st.loops) \in Nat /\ Len(st.loops) # 0
        /\ \A k \in 1..(Len(st.loops) - 1) : n.loops[k] = st.loops[k + 1]
    BY <1>1, <1>2
  <2>2. \A j \in DOMAIN n.loops :
            j + 1 \in DOMAIN st.loops /\ st.loops[j + 1] = n.loops[j]
    BY <2>1
  <2>3. \A k \in DOMAIN st.loops :
            k = 1 \/ (k - 1 \in DOMAIN n.loops /\ st.loops[k] = n.loops[k - 1])
    BY <2>1
  <2>4. 1 \in DOMAIN st.loops
    BY <2>1
  <2>5. QED
    BY <2>1, <2>2, <2>3, <2>4 DEF Adds
<1>4. f \in FrameType
  BY <1>1
<1>5. ASSUME NEW t \in Objects
      PROVE  Held(st, t) <=> Held(n, t) \/ (Holds(f) /\ f.seat = t)
  <2>1. FrameHolds(st.loops, t) <=>
            FrameHolds(n.loops, t) \/ (Holds(f) /\ f.seat = t)
    BY <1>3, AddsHolds
  <2>2. QED
    BY <1>2, <2>1, HeldByFrames
<1> DEFINE y == IF Holds(f) THEN f.seat ELSE NoSeat
<1>6. ASSUME NEW t \in Objects PROVE SeatGood(n, y, t)
  <2>1. SeatGood(st, NoSeat, t)
    BY DEF StateGood
  <2>2. Placed(st, t) => Placed(n, t)
    BY <1>2 DEF Placed
  <2>3. QED
    BY <1>2, <1>5, <2>1, <2>2, ObjectFacts DEF SeatGood
<1>7. FrameGood(n, f) /\ \A k \in DOMAIN n.loops : FrameGood(n, n.loops[k])
  <2>1. \A g : FrameGood(n, g) <=> FrameGood(st, g)
    BY <1>2 DEF FrameGood
  <2>2. QED
    BY <1>3, <2>1 DEF StateGood, Adds
<1>8. (\A i \in Ids : IdGood(n, i)) /\ TodoGood(n) /\ DaemonGood(n)
  BY <1>2 DEF StateGood, IdGood, TodoGood, AddGood, DaemonGood
<1>9. QED
  BY <1>2, <1>4, <1>6, <1>7, <1>8 DEF StateGood

-----------------------------------------------------------------------------
(* The handlers.                                                           *)

\* PlainFrame and other frames that continue nothing hold nothing.
LEMMA PlainGood ==
    ASSUME NEW st, StateGood(st, NoSeat), NEW f, NEW em \in BOOLEAN,
           f = PlainFrame \/ f = Frame("plain", NoSeat, "ended", em),
           NEW n \in Nested(st, f)
    PROVE  StateGood(n, NoSeat) /\ Drops(st, n)
<1>1. f.kind = "plain" /\ f.caller \in {"none", "ended"}
  BY DEF PlainFrame, Frame
<1>2. f \in FrameType
  <2> DEFINE no == FALSE
  <2>1. no \in BOOLEAN /\ PlainFrame = Frame("plain", NoSeat, "none", no)
    BY Zenon DEF PlainFrame
  <2> HIDE DEF no
  <2>2. QED
    BY <2>1 DEF Frame, FrameType
<1>3. FrameGood(st, f) /\ ~Holds(f)
  BY <1>1 DEF FrameGood, Holds
<1>4. QED
  BY <1>2, <1>3, NestedGood

\* The session whose end was handled is disposed of.
LEMMA EndedGood ==
    ASSUME NEW st, StateGood(st, NoSeat), NEW em \in BOOLEAN,
           NEW n \in Ended(st, em)
    PROVE  StateGood(n, NoSeat) /\ Drops(st, n)
<1>1. CASE em
  BY <1>1, PlainGood DEF Ended
<1>2. CASE ~em
  BY <1>2 DEF Ended, Drops
<1>3. QED
  BY <1>1, <1>2

\* A closure or the table gives its reference back.
LEMMA UnrefLastGood ==
    ASSUME NEW st, NEW s \in Objects, StateGood(st, s),
           st.seat[s].obj # "none", NEW n \in UnrefLast(st, s)
    PROVE  StateGood(n, NoSeat) /\ Drops(st, n)
<1> DEFINE m == Unref(st, s)
<1>1. StateGood(m, NoSeat) /\ Drops(st, m)
  BY UnrefGood
<1>2. n = m \/ n \in Nested(m, PlainFrame)
  BY DEF UnrefLast
<1> HIDE DEF m
<1>3. CASE n \in Nested(m, PlainFrame)
  <2>1. StateGood(n, NoSeat) /\ Drops(m, n)
    BY <1>1, <1>3, PlainGood
  <2>2. QED
    BY <1>1, <2>1 DEF Drops
<1>4. QED
  BY <1>1, <1>2, <1>3

\* What the caller of a login has a reference on.
Due(f) == IF f.caller = "delayed" THEN f.seat ELSE NoSeat

\* The caller of a login goes on.
LEMMA FinishGood ==
    ASSUME NEW st, NEW f \in FrameType, StateGood(st, Due(f)),
           f.caller = "delayed" =>
                f.seat \in Objects /\ st.seat[f.seat].obj # "none",
           NEW n \in Finish(st, f)
    PROVE  StateGood(n, NoSeat) /\ Drops(st, n)
<1>1. CASE f.caller = "delayed"
  <2>1. n \in UnrefLast(st, f.seat) /\ StateGood(st, f.seat)
    BY <1>1 DEF Finish, Due
  <2>2. QED
    BY <1>1, <2>1, UnrefLastGood
<1>2. CASE f.caller = "ended"
  <2>1. n \in Ended(st, f.emitter) /\ StateGood(st, NoSeat)
    BY <1>2 DEF Finish, Due
  <2>2. f.emitter \in BOOLEAN
    BY DEF FrameType
  <2>3. QED
    BY <2>1, <2>2, EndedGood
<1>3. CASE f.caller \notin {"delayed", "ended"}
  BY <1>3 DEF Finish, Due, Drops
<1>4. QED
  BY <1>1, <1>2, <1>3

\* No session that tlm_manager_stop has ended comes back.
NoRelogin(st, n) ==
    \A s \in Objects :
        st.seat[s].session = "ending" => n.seat[s].session # "up"

\* The login of s starts no session but that of s.
LogsIn(st, n, s) ==
    \A t \in Objects :
        \/ n.seat[t].session \in {st.seat[t].session, "none"}
        \/ t = s /\ st.seat[t].session = "none"

\* What a login changes in the seat s before the caller goes on.
LEMMA LoginUpdateGood ==
    ASSUME NEW st, NEW x, StateGood(st, x), NEW s \in Objects,
           st.seat[s].obj = "live", st.seat[s].session = "none",
           NEW v \in SeatType, v.obj = "live", v.stop = st.seat[s].stop,
           v.session \in {st.seat[s].session, "up"},
           v.delayed >= st.seat[s].delayed, v.leaked = st.seat[s].leaked,
           NEW m, m = PutSeat(st, s, v)
    PROVE  /\ StateGood(m, x) /\ m.seat[s] = v
           /\ m.manager = st.manager /\ m.daemon = st.daemon
           /\ LogsIn(st, m, s)
           /\ \A n : Drops(m, n) \/ LogsIn(m, n, s) => LogsIn(st, n, s)
<1>0. st \in StateType /\ st.seat[s] \in SeatType
  BY DEF StateGood, StateType
<1>1. /\ m.manager = st.manager /\ m.loops = st.loops
      /\ m.daemon = st.daemon /\ m.seat[s] = v
      /\ \A t \in Objects : t # s => m.seat[t] = st.seat[t]
  BY <1>0, SeatFields
<1>2. v.session # "ending"
  BY DEF SeatType
<1>3. st.seat[s].delayed > 0 \/ st.seat[s].leaked => v.delayed > 0 \/ v.leaked
  BY <1>0 DEF SeatType
<1>4. StateGood(m, x)
  BY <1>2, <1>3, SeatUpdateGood
<1>5. QED
  BY <1>1, <1>4 DEF LogsIn, Drops

\* tlm_seat_create_session on a seat that exists.
LEMMA CreateSessionGood ==
    ASSUME NEW st, NEW f \in FrameType, StateGood(st, Due(f)),
           f.kind = "login", f.seat \in Objects, st.seat[f.seat].obj = "live",
           NEW n \in CreateSession(st, f)
    PROVE  /\ StateGood(n, NoSeat) /\ LogsIn(st, n, f.seat)
           /\ n.manager = st.manager /\ n.daemon = st.daemon
<1> DEFINE s == f.seat
           old == st.seat[s]
<1>0. st \in StateType /\ old \in SeatType
  BY DEF StateGood, StateType
<1>1. CASE old.session # "none"
  <2>1. n \in Finish(st, f)
    BY <1>1 DEF CreateSession
  <2>2. StateGood(n, NoSeat) /\ Drops(st, n)
    BY <2>1, FinishGood
  <2>3. QED
    BY <2>2 DEF Drops, LogsIn
<1>2. CASE old.session = "none"
  <2> DEFINE yes == TRUE
             waits == [old EXCEPT !.delayed = @ + 1]
             tried == [old EXCEPT !.tried = yes]
             up == [tried EXCEPT !.session = "up"]
             a == PutSeat(st, s, waits)
             b == PutSeat(st, s, tried)
             c == PutSeat(b, s, up)
  <2>1. \/ n \in Finish(a, f) \/ n \in Finish(b, f) \/ n \in Finish(c, f)
        \/ n \in Nested(b, f)
    <3>1. b.seat[s] = tried
      BY <1>0 DEF PutSeat, StateType
    <3>2. CreateSession(st, f) \subseteq
            Finish(a, f) \cup Finish(b, f) \cup Finish(c, f) \cup Nested(b, f)
      BY <1>2, <3>1 DEF CreateSession, PutSeat
    <3>3. QED
      BY <3>2
  <2>2. yes \in BOOLEAN
    OBVIOUS
  <2> HIDE DEF yes
  <2>3. /\ waits \in SeatType /\ waits.obj = "live" /\ waits.stop = old.stop
        /\ waits.session = old.session /\ waits.delayed = old.delayed + 1
        /\ waits.leaked = old.leaked
    BY <1>0 DEF SeatType
  <2>4. /\ tried \in SeatType /\ tried.obj = "live" /\ tried.stop = old.stop
        /\ tried.session = old.session /\ tried.delayed = old.delayed
        /\ tried.leaked = old.leaked
    BY <1>0, <2>2 DEF SeatType
  <2>5. /\ up \in SeatType /\ up.obj = "live" /\ up.stop = old.stop
        /\ up.session = "up" /\ up.delayed = old.delayed
        /\ up.leaked = old.leaked
    BY <2>4 DEF SeatType
  <2>6. old.delayed \in Nat
    BY <1>0 DEF SeatType
  <2> HIDE DEF waits, tried, up
  <2>7. /\ StateGood(a, Due(f)) /\ a.seat[s] = waits
        /\ a.manager = st.manager /\ a.daemon = st.daemon
        /\ \A k : Drops(a, k) => LogsIn(st, k, s)
    <3>1. waits.delayed >= old.delayed
      BY <2>3, <2>6
    <3>2. QED
      BY <1>2, <2>3, <3>1, LoginUpdateGood
  <2>8. /\ StateGood(b, Due(f)) /\ b.seat[s] = tried
        /\ b.manager = st.manager /\ b.daemon = st.daemon
        /\ \A k : Drops(b, k) \/ LogsIn(b, k, s) => LogsIn(st, k, s)
    <3>1. tried.delayed >= old.delayed
      BY <2>4, <2>6
    <3>2. QED
      BY <1>2, <2>4, <3>1, LoginUpdateGood
  <2>9. /\ StateGood(c, Due(f)) /\ c.seat[s] = up
        /\ c.manager = b.manager /\ c.daemon = b.daemon
        /\ \A k : Drops(c, k) => LogsIn(b, k, s)
    <3>1. up.delayed >= tried.delayed
      BY <2>4, <2>5, <2>6
    <3>2. QED
      BY <1>2, <2>4, <2>5, <2>8, <3>1, LoginUpdateGood
  <2> HIDE DEF a, b, c
  <2>10. CASE n \in Finish(a, f)
    <3>1. StateGood(n, NoSeat) /\ Drops(a, n)
      BY <2>3, <2>7, <2>10, FinishGood
    <3>2. QED
      BY <2>7, <3>1 DEF Drops
  <2>11. CASE n \in Finish(b, f)
    <3>1. StateGood(n, NoSeat) /\ Drops(b, n)
      BY <2>4, <2>8, <2>11, FinishGood
    <3>2. QED
      BY <2>8, <3>1 DEF Drops
  <2>12. CASE n \in Finish(c, f)
    <3>1. StateGood(n, NoSeat) /\ Drops(c, n)
      BY <2>5, <2>9, <2>12, FinishGood
    <3>2. QED
      BY <2>8, <2>9, <3>1 DEF Drops
  <2>13. CASE n \in Nested(b, f)
    <3>1. FrameGood(b, f)
      BY <2>4, <2>8 DEF FrameGood
    <3>2. Due(f) = NoSeat \/ (Holds(f) /\ f.seat = Due(f))
      BY DEF Due, Holds
    <3>3. StateGood(n, NoSeat) /\ Drops(b, n)
      BY <2>4, <2>8, <2>13, <3>1, <3>2, NestedGood
    <3>4. QED
      BY <2>8, <3>3 DEF Drops
  <2>14. QED
    BY <2>1, <2>10, <2>11, <2>12, <2>13
<1>3. QED
  BY <1>1, <1>2

\* The automatic login of a new seat.
LEMMA LoginFirstGood ==
    ASSUME NEW st, NEW f \in FrameType, StateGood(st, NoSeat),
           f.caller = "add", f.seat \in Objects,
           NEW n \in LoginFirst(st, f)
    PROVE  /\ StateGood(n, NoSeat) /\ LogsIn(st, n, f.seat)
           /\ n.manager = st.manager /\ n.daemon = st.daemon
<1> DEFINE g == [f EXCEPT !.kind = "login"]
<1>1. /\ g \in FrameType /\ g.kind = "login" /\ g.caller = "add"
      /\ g.seat = f.seat
  BY DEF FrameType
<1>2. \/ n = st
      \/ st.seat[f.seat].obj = "live" /\ n \in CreateSession(st, g)
  BY DEF LoginFirst
<1> HIDE DEF g
<1>3. CASE n = st
  BY <1>3 DEF LogsIn
<1>4. CASE st.seat[f.seat].obj = "live" /\ n \in CreateSession(st, g)
  <2>1. Due(g) = NoSeat
    BY <1>1 DEF Due
  <2>2. QED
    BY <1>1, <1>4, <2>1, CreateSessionGood
<1>5. QED
  BY <1>2, <1>3, <1>4

\* A new seat has no session, and nobody told it to stop.
LEMMA NewSeatType ==
    /\ NewSeat \in SeatType /\ NewSeat.obj = "live" /\ NewSeat.session = "none"
    /\ ~NewSeat.stop
<1> DEFINE no == FALSE
<1>1. /\ NewSeat = [obj |-> "live", session |-> "none", stop |-> no,
                    tried |-> no, delayed |-> 0, leaked |-> no]
      /\ no \in BOOLEAN
  BY Zenon DEF NewSeat
<1>2. ~NewSeat.stop
  BY DEF NewSeat
<1> HIDE DEF no
<1>3. QED
  BY <1>1, <1>2 DEF SeatType

\* g_hash_table_insert of the seat s.
Insert(st, s, i) ==
    [st EXCEPT !.seat[s] = NewSeat, !.manager.seats[i] = s]

\* s is the next object for i, and another is to come only after the first.
MayInsert(st, s, i) ==
    /\ s = IF st.seat[<<i, 1>>].obj = "none" THEN <<i, 1>> ELSE <<i, 2>>
    /\ st.seat[<<i, 2>>].obj = "none"
    /\ \A k \in DOMAIN st.manager.todo :
            st.manager.todo[k].id = i =>
                /\ st.seat[<<i, 1>>].obj = "none"
                /\ st.manager.todo[k].again
    /\ i \in st.manager.watches => st.seat[<<i, 1>>].obj = "none"

\* The seat s, of which there was none, takes the place of another or of none.
LEMMA InsertGood ==
    ASSUME NEW st, StateGood(st, NoSeat), NEW i \in Ids,
           NEW s, MayInsert(st, s, i),
           NEW m, m = Insert(st, s, i)
    PROVE  /\ StateGood(m, st.manager.seats[i]) /\ s \in Objects
           /\ m.seat[s].obj = "live" /\ st.seat[s].session = "none"
           /\ m.daemon = st.daemon /\ m.manager.seats[i] = s
           /\ m.manager.watches = st.manager.watches
           /\ m.manager.leaked = st.manager.leaked
           /\ \/ st.manager.seats[i] = NoSeat
              \/ /\ st.manager.seats[i] \in Objects
                 /\ m.seat[st.manager.seats[i]].obj = "live"
           /\ \A t \in Objects :
                st.seat[t].session = "ending" => m.seat[t].session = "ending"
<1> DEFINE old == st.manager.seats[i]
<1>0. st \in StateType /\ st.manager \in ManagerType
  BY DEF StateGood, StateType
<1>1. /\ s \in Objects /\ s[1] = i /\ s = <<i, s[2]>>
      /\ st.seat[s].obj = "none" /\ st.seat[<<i, 2>>].obj = "none"
      /\ \/ s = <<i, 1>>
         \/ /\ s = <<i, 2>> /\ st.seat[<<i, 1>>].obj # "none"
            /\ i \notin st.manager.watches
      /\ <<i, 1>> # <<i, 2>>
  BY ObjectFacts DEF MayInsert
<1>2. /\ m \in StateType /\ m.loops = st.loops /\ m.daemon = st.daemon
      /\ m.seat = [st.seat EXCEPT ![s] = NewSeat]
      /\ m.manager = [st.manager EXCEPT !.seats[i] = s]
  <2>1. [st.seat EXCEPT ![s] = NewSeat] \in [Objects -> SeatType]
    BY <1>0, <1>1, NewSeatType DEF StateType
  <2>2. [st.manager EXCEPT !.seats[i] = s] \in ManagerType
    BY <1>0, <1>1 DEF ManagerType
  <2> DEFINE a == [st.seat EXCEPT ![s] = NewSeat]
             b == [st.manager EXCEPT !.seats[i] = s]
  <2>3. m = [st EXCEPT !.seat = a, !.manager = b]
    BY DEF Insert
  <2> HIDE DEF a, b
  <2>4. /\ m \in StateType /\ m.loops = st.loops /\ m.daemon = st.daemon
        /\ m.seat = a /\ m.manager = b
    BY <1>0, <2>1, <2>2, <2>3 DEF StateType, a, b
  <2>5. QED
    BY <2>4 DEF a, b
<1>3. /\ m.seat[s] = NewSeat
      /\ \A t \in Objects : t # s => m.seat[t] = st.seat[t]
  BY <1>0, <1>1, <1>2 DEF StateType
<1>4. /\ m.manager.seats[i] = s
      /\ \A j \in Ids : j # i => m.manager.seats[j] = st.manager.seats[j]
      /\ m.manager.watches = st.manager.watches
      /\ m.manager.leaked = st.manager.leaked
      /\ m.manager.todo = st.manager.todo
      /\ m.loops = st.loops /\ m.daemon = st.daemon
  BY <1>0, <1>2 DEF ManagerType
<1>5. \A t \in Objects : SeatGood(st, NoSeat, t)
  BY DEF StateGood
<1>6. \A j \in Ids : IdGood(st, j)
  BY DEF StateGood
<1>7. old = NoSeat \/ (old \in Objects /\ st.seat[old].obj = "live")
  <2>1. old \in Objects \cup {NoSeat}
    BY <1>0 DEF ManagerType
  <2>2. old \in Objects => Held(st, old)
    BY DEF Held
  <2>3. QED
    BY <1>5, <2>1, <2>2 DEF SeatGood
<1>8. \A t \in Objects : st.seat[t].obj # "none" => m.seat[t].obj # "none"
  BY <1>1, <1>3
<1>9. ASSUME NEW t \in Objects PROVE SeatGood(m, old, t)
  <2>1. SeatGood(st, NoSeat, t)
    BY <1>5
  <2>2. CASE t = s
    <3>1. Held(m, s) /\ Placed(m, s)
      BY <1>1, <1>4 DEF Held, Placed
    <3>2. QED
      BY <1>3, <2>2, <3>1, NewSeatType DEF SeatGood
  <2>3. CASE t # s
    <3>1. Held(m, t) => Held(st, t)
      BY <1>3, <1>4, <2>3 DEF Held
    <3>2. Held(st, t) /\ t # old => Held(m, t)
      BY <1>3, <1>4, <2>3 DEF Held
    <3>3. st.seat[t].obj # "none" /\ Placed(st, t) => Placed(m, t)
      <4>1. CASE t[1] = i
        <5>1. t = <<i, 1>> \/ t = <<i, 2>>
          BY <4>1, ObjectFacts
        <5>2. st.seat[t].obj # "none" => t = <<i, 1>> /\ s = <<i, 2>>
          BY <1>1, <5>1, <2>3
        <5>3. QED
          BY <1>3, <4>1, <5>2, NewSeatType DEF Placed
      <4>2. CASE t[1] # i
        <5>1. t[1] \in Ids /\ <<t[1], 2>> \in Objects
          BY ObjectFacts
        <5>2. QED
          BY <1>2, <1>4, <1>8, <4>2, <5>1 DEF Placed
      <4>3. QED
        BY <4>1, <4>2
    <3>4. t # NoSeat
      BY ObjectFacts
    <3>5. QED
      BY <1>2, <1>3, <2>1, <2>3, <3>1, <3>2, <3>3, <3>4 DEF SeatGood
  <2>4. QED
    BY <2>2, <2>3
<1>10. ASSUME NEW j \in Ids PROVE IdGood(m, j)
  <2>1. IdGood(st, j)
    BY <1>6
  <2>2. CASE j = i
    <3>1. m.manager.seats[i][1] = i
      BY <1>1, <1>4
    <3>2. m.seat[<<i, 1>>].obj = "none" => m.seat[<<i, 2>>].obj = "none"
      BY <1>1, <1>3, <1>8, NewSeatType, ObjectFacts
    <3>3. i \in m.manager.watches => m.seat[<<i, 2>>].obj = "none"
      BY <1>1, <1>3, <1>4, ObjectFacts
    <3>4. QED
      BY <2>2, <3>1, <3>2, <3>3 DEF IdGood
  <2>3. CASE j # i
    <3>1. /\ <<j, 1>> \in Objects /\ <<j, 2>> \in Objects
          /\ <<j, 1>> # s /\ <<j, 2>> # s
      BY <1>1, <2>3, ObjectFacts
    <3>2. QED
      BY <1>3, <1>4, <2>1, <2>3, <3>1 DEF IdGood
  <2>4. QED
    BY <2>2, <2>3
<1>11. TodoGood(m)
  <2>1. TodoGood(st)
    BY DEF StateGood
  <2>2. st.manager.todo \in Seq([id : Ids, again : BOOLEAN])
    BY <1>0 DEF ManagerType
  <2>3. \A k \in DOMAIN st.manager.todo :
            st.manager.todo[k] \in [id : Ids, again : BOOLEAN]
    BY <2>2, ElementType, Zenon
  <2>4. ASSUME NEW t \in [id : Ids, again : BOOLEAN], AddGood(st, t),
               t.id = i => s = <<i, 1>> /\ t.again
        PROVE  AddGood(m, t)
    <3>1. t.id \in Ids
      OBVIOUS
    <3>2. CASE t.id = i
      BY <1>1, <1>3, <1>4, <2>4, <3>2, ObjectFacts DEF AddGood
    <3>3. CASE t.id # i
      <4>1. /\ <<t.id, 1>> \in Objects /\ <<t.id, 2>> \in Objects
            /\ <<t.id, 1>> # s /\ <<t.id, 2>> # s
        BY <1>1, <3>1, <3>3, ObjectFacts
      <4>2. QED
        BY <1>3, <1>4, <2>4, <4>1 DEF AddGood
    <3>4. QED
      BY <3>2, <3>3
  <2>5. \A k \in DOMAIN st.manager.todo :
            st.manager.todo[k].id = i =>
                s = <<i, 1>> /\ st.manager.todo[k].again
    BY DEF MayInsert
  <2>6. \A k \in DOMAIN st.manager.todo : AddGood(m, st.manager.todo[k])
    BY <2>1, <2>3, <2>4, <2>5, Zenon DEF TodoGood
  <2>7. QED
    BY <1>4, <2>1, <2>6, Zenon DEF TodoGood
<1>12. \A k \in DOMAIN m.loops : FrameGood(m, m.loops[k])
  BY <1>4, <1>8 DEF StateGood, FrameGood
<1>13. DaemonGood(m)
  BY <1>2 DEF StateGood, DaemonGood
<1>14. StateGood(m, old)
  BY <1>2, <1>9, <1>10, <1>11, <1>12, <1>13 DEF StateGood
<1>15. \A t \in Objects :
            st.seat[t].session = "ending" => m.seat[t].session = "ending"
  BY <1>1, <1>3, <1>5 DEF SeatGood
<1>16. old = NoSeat \/ (old \in Objects /\ m.seat[old].obj = "live")
  BY <1>1, <1>3, <1>7
<1>17. st.seat[s].session = "none"
  BY <1>1, <1>5 DEF SeatGood
<1>18. QED
  BY <1>1, <1>2, <1>3, <1>4, <1>14, <1>15, <1>16, <1>17, NewSeatType

\* _create_seat.
LEMMA CreateSeatGood ==
    ASSUME NEW st, StateGood(st, NoSeat), NEW i \in Ids,
           NEW s, MayInsert(st, s, i),
           NEW n \in CreateSeat(st, i)
    PROVE  /\ StateGood(n, NoSeat) /\ NoRelogin(st, n)
           /\ n.daemon = st.daemon
           /\ n.manager.watches = st.manager.watches
           /\ n.manager.leaked = st.manager.leaked
<1> DEFINE no == FALSE
           f == Frame("replaced", s, "add", no)
           old == st.manager.seats[i]
           m == Insert(st, s, i)
           u == Unref(m, old)
<1>1. n \in Nested(u, f) \/ n \in LoginFirst(u, f)
  BY DEF CreateSeat, Insert, MayInsert
<1>2. no \in BOOLEAN
  OBVIOUS
<1> HIDE DEF no, m
<1>3. m = Insert(st, s, i)
  BY DEF m
<1>4. /\ StateGood(m, old) /\ s \in Objects
      /\ m.seat[s].obj = "live" /\ st.seat[s].session = "none"
      /\ m.daemon = st.daemon /\ m.manager.seats[i] = s
      /\ m.manager.watches = st.manager.watches
      /\ m.manager.leaked = st.manager.leaked
      /\ old = NoSeat \/ (old \in Objects /\ m.seat[old].obj = "live")
      /\ \A t \in Objects :
            st.seat[t].session = "ending" => m.seat[t].session = "ending"
  BY <1>3, InsertGood
<1>5. StateGood(u, NoSeat) /\ Drops(m, u)
  BY <1>4, UnrefGood
<1>6. u.seat[s].obj = "live"
  <2>1. Held(u, s)
    BY <1>4, <1>5 DEF Drops, Held
  <2>2. QED
    BY <1>4, <1>5, <2>1 DEF StateGood, SeatGood
<1>7. /\ u.daemon = st.daemon /\ u.manager.watches = st.manager.watches
       /\ u.manager.leaked = st.manager.leaked
       /\ \A t \in Objects : st.seat[t].session = "ending" =>
                u.seat[t].session \in {"ending", "none"}
  BY <1>4, <1>5 DEF Drops
<1>8. /\ f \in FrameType /\ f.kind = "replaced" /\ f.caller = "add"
       /\ f.seat = s
  BY <1>2, <1>4 DEF Frame, FrameType
<1> HIDE DEF u, f
<1>9. CASE n \in Nested(u, f)
  <2>1. FrameGood(u, f) /\ ~Holds(f)
    BY <1>4, <1>6, <1>8 DEF FrameGood, Holds
  <2>2. StateGood(n, NoSeat) /\ Drops(u, n)
    BY <1>5, <1>8, <1>9, <2>1, NestedGood
  <2>3. QED
    BY <1>7, <2>2 DEF Drops, NoRelogin
<1>10. CASE n \in LoginFirst(u, f)
  <2>1. /\ StateGood(n, NoSeat) /\ LogsIn(u, n, s)
        /\ n.manager = u.manager /\ n.daemon = u.daemon
    BY <1>4, <1>5, <1>8, <1>10, LoginFirstGood
  <2>2. NoRelogin(st, n)
    BY <1>4, <1>7, <2>1 DEF NoRelogin, LogsIn
  <2>3. QED
    BY <1>7, <2>1, <2>2
<1>11. QED
  BY <1>1, <1>9, <1>10

-----------------------------------------------------------------------------
(* The stop of the daemon.                                                 *)

\* A handler need not have a reference.
LEMMA Weaken ==
    ASSUME NEW st, StateGood(st, NoSeat), NEW x PROVE StateGood(st, x)
<1>1. \A t \in Objects : SeatGood(st, x, t)
  BY ObjectFacts DEF StateGood, SeatGood
<1>2. QED
  BY <1>1 DEF StateGood

\* The daemon becomes d; a SIGTERM that was handled stays so.
PutDaemon(st, d) == [st EXCEPT !.daemon = d]

\* Seats do not depend on more of the daemon than a stop.
LEMMA PutDaemonGood ==
    ASSUME NEW st, NEW x, StateGood(st, x), NEW d \in DaemonType,
           st.daemon.sigterm = "spent" => d.sigterm = "spent",
           d.main \in {"quitting", "disposing", "exited"} =>
                d.sigterm = "spent",
           NEW n, n = PutDaemon(st, d)
    PROVE  /\ StateGood(n, x) /\ n.manager = st.manager /\ n.seat = st.seat
           /\ n.loops = st.loops /\ n.daemon = d
<1>0. st \in StateType
  BY DEF StateGood
<1>1. /\ n \in StateType /\ n.manager = st.manager /\ n.seat = st.seat
      /\ n.loops = st.loops /\ n.daemon = d
  BY <1>0 DEF StateType, PutDaemon
<1>2. \A t \in Objects : Held(n, t) <=> Held(st, t)
  BY <1>1 DEF Held
<1>3. \A t \in Objects : SeatGood(n, x, t)
  BY <1>1, <1>2 DEF StateGood, SeatGood, Placed
<1>4. (\A i \in Ids : IdGood(n, i)) /\ TodoGood(n) /\ DaemonGood(n)
  BY <1>1 DEF StateGood, IdGood, TodoGood, AddGood, DaemonGood
<1>5. \A k \in DOMAIN n.loops : FrameGood(n, n.loops[k])
  BY <1>1 DEF StateGood, FrameGood
<1>6. QED
  BY <1>1, <1>3, <1>4, <1>5 DEF StateGood

\* manager-stopped.
LEMMA StoppedGood ==
    ASSUME NEW st, NEW x, StateGood(st, x), st.daemon.sigterm = "spent",
           NEW n, n = Stopped(st)
    PROVE  /\ StateGood(n, x) /\ n.manager = st.manager /\ n.seat = st.seat
           /\ n.loops = st.loops
           /\ n.daemon.main = IF st.daemon.main = "running" THEN "quitting"
                              ELSE st.daemon.main
<1> DEFINE d == [st.daemon EXCEPT !.main = IF @ = "running" THEN "quitting"
                                           ELSE @]
<1>1. st.daemon \in DaemonType
  BY DEF StateGood, StateType
<1>2. /\ d \in DaemonType /\ d.sigterm = "spent"
      /\ d.main = IF st.daemon.main = "running" THEN "quitting"
                  ELSE st.daemon.main
  BY <1>1 DEF DaemonType
<1>3. n = PutDaemon(st, d)
  BY DEF Stopped, PutDaemon
<1> HIDE DEF d
<1>4. QED
  BY <1>2, <1>3, PutDaemonGood

\* What the removal of a seat leaves: main() may be told, if no seat is left.
Removes(st, n) ==
    /\ n.manager = st.manager
    /\ \/ n.daemon.main = st.daemon.main
       \/ n.daemon.main = "quitting" /\ Empty(st)
    /\ \A s \in Objects : n.seat[s].session \in {st.seat[s].session, "none"}

\* _session_terminated_cb after the removal.
LEMMA AfterRemovalGood ==
    ASSUME NEW st, NEW f \in FrameType, StateGood(st, f.seat),
           f.seat \in Objects, st.seat[f.seat].obj # "none",
           st.daemon.sigterm = "spent", NEW n \in AfterRemoval(st, f)
    PROVE  StateGood(n, NoSeat) /\ Removes(st, n)
<1> DEFINE m == IF Empty(st) THEN Stopped(st) ELSE st
           u == Unref(m, f.seat)
           g == Frame("plain", NoSeat, "ended", f.emitter)
<1>1. n \in Nested(u, g) \/ n \in Ended(u, f.emitter)
  BY DEF AfterRemoval
<1>2. f.emitter \in BOOLEAN
  BY DEF FrameType
<1>3. /\ StateGood(m, f.seat) /\ m.manager = st.manager /\ m.seat = st.seat
      /\ \/ m.daemon.main = st.daemon.main
         \/ m.daemon.main = "quitting" /\ Empty(st)
  BY StoppedGood
<1> HIDE DEF m
<1>4. StateGood(u, NoSeat) /\ Drops(m, u)
  BY <1>3, UnrefGood
<1> HIDE DEF u
<1>5. StateGood(n, NoSeat) /\ Drops(u, n)
  BY <1>1, <1>2, <1>4, EndedGood, PlainGood
<1>6. QED
  BY <1>3, <1>4, <1>5 DEF Drops, Removes

\* g_hash_table_remove of the seat of i, without its effect on the seat.
OffTable(st, i) == [st EXCEPT !.manager.seats[i] = NoSeat]

\* The seat that was there, if any, has lost the reference of the table.
LEMMA RemoveGood ==
    ASSUME NEW st, StateGood(st, NoSeat), NEW i \in Ids,
           st.daemon.sigterm = "spent", NEW m, m = OffTable(st, i)
    PROVE  /\ StateGood(m, st.manager.seats[i])
           /\ m.seat = st.seat /\ m.loops = st.loops /\ m.daemon = st.daemon
           /\ m.manager.watches = st.manager.watches
           /\ m.manager.leaked = st.manager.leaked
           /\ \/ st.manager.seats[i] = NoSeat
              \/ /\ st.manager.seats[i] \in Objects
                 /\ st.seat[st.manager.seats[i]].obj = "live"
<1> DEFINE old == st.manager.seats[i]
           b == [st.manager EXCEPT !.seats[i] = NoSeat]
<1>0. st \in StateType /\ st.manager \in ManagerType
  BY DEF StateGood, StateType
<1>1. /\ b \in ManagerType /\ b.watches = st.manager.watches
      /\ b.leaked = st.manager.leaked /\ b.todo = st.manager.todo
      /\ b.seats[i] = NoSeat
      /\ \A j \in Ids : j # i => b.seats[j] = st.manager.seats[j]
  BY <1>0 DEF ManagerType
<1>2. m = [st EXCEPT !.manager = b]
  BY DEF OffTable
<1> HIDE DEF b
<1>3. /\ m \in StateType /\ m.manager = b /\ m.seat = st.seat
      /\ m.loops = st.loops /\ m.daemon = st.daemon
  BY <1>0, <1>1, <1>2 DEF StateType
<1>4. old = NoSeat \/ (old \in Objects /\ Held(st, old))
  BY <1>0 DEF ManagerType, Held
<1>5. old = NoSeat \/ (old \in Objects /\ st.seat[old].obj = "live")
  BY <1>4 DEF StateGood, SeatGood
<1>6. ASSUME NEW t \in Objects PROVE SeatGood(m, old, t)
  <2>1. SeatGood(st, NoSeat, t) /\ t # NoSeat
    BY ObjectFacts DEF StateGood
  <2>2. Held(m, t) => Held(st, t)
    BY <1>1, <1>3, <2>1 DEF Held
  <2>3. Held(st, t) /\ t # old => Held(m, t)
    BY <1>1, <1>3 DEF Held
  <2>4. QED
    BY <1>3, <2>1, <2>2, <2>3 DEF SeatGood, Placed
<1>7. \A j \in Ids : IdGood(m, j)
  BY <1>1, <1>3 DEF StateGood, IdGood
<1>8. TodoGood(m) /\ DaemonGood(m)
  BY <1>1, <1>3 DEF StateGood, TodoGood, AddGood, DaemonGood
<1>9. \A k \in DOMAIN m.loops : FrameGood(m, m.loops[k])
  BY <1>3 DEF StateGood, FrameGood
<1>10. QED
  BY <1>1, <1>3, <1>5, <1>6, <1>7, <1>8, <1>9 DEF StateGood

\* What a handler may do to the daemon, and to sessions that are ending.
Moves(st, n) ==
    /\ n.manager.watches = st.manager.watches
    /\ n.manager.leaked = st.manager.leaked
    /\ \/ n.daemon.main = st.daemon.main
       \/ n.daemon.main = "quitting" /\ Empty(n)
    /\ NoRelogin(st, n)

\* _session_terminated_cb.
LEMMA SessionTerminatedCbGood ==
    ASSUME NEW st, StateGood(st, NoSeat), NEW s \in Objects,
           st.seat[s].obj = "live", st.daemon.sigterm = "spent",
           NEW em \in BOOLEAN, NEW n \in SessionTerminatedCb(st, s, em)
    PROVE  /\ StateGood(n, NoSeat)
           /\ n.manager.watches = st.manager.watches
           /\ n.manager.leaked = st.manager.leaked
           /\ \/ n.daemon.main = st.daemon.main
              \/ n.daemon.main = "quitting" /\ Empty(n)
           /\ \A t \in Objects :
                n.seat[t].session \in {st.seat[t].session, "none"}
<1> DEFINE f == Frame("removed", s, "ended", em)
           old == st.manager.seats[s[1]]
           other == IF old = s THEN NoSeat ELSE old
           m == OffTable(st, s[1])
           u == Unref(m, other)
<1>1. n \in Nested(u, f) \/ n \in AfterRemoval(u, f)
  BY DEF SessionTerminatedCb, OffTable
<1>2. /\ f \in FrameType /\ f.kind = "removed" /\ f.seat = s
      /\ f.caller = "ended" /\ Holds(f)
  BY DEF Frame, FrameType, Holds
<1>3. s[1] \in Ids /\ s # NoSeat
  BY ObjectFacts
<1> HIDE DEF f, m
<1>4. /\ StateGood(m, old) /\ m.seat = st.seat /\ m.daemon = st.daemon
      /\ m.manager.watches = st.manager.watches
      /\ m.manager.leaked = st.manager.leaked
      /\ old = NoSeat \/ (old \in Objects /\ st.seat[old].obj = "live")
  BY <1>3, RemoveGood DEF m
<1>5. /\ StateGood(u, s) /\ u.seat[s] = st.seat[s] /\ Drops(m, u)
      /\ \/ StateGood(u, NoSeat)
         \/ u = m /\ old = s
  <2>1. CASE old = s
    <3>1. u = m
      BY <2>1 DEF Unref
    <3>2. QED
      BY <1>4, <2>1, <3>1 DEF Drops
  <2>2. CASE old # s
    <3>1. /\ StateGood(u, NoSeat) /\ Drops(m, u) /\ u.seat[s] = m.seat[s]
      BY <1>4, <2>2, UnrefGood
    <3>2. QED
      BY <1>4, <3>1, Weaken
  <2>3. QED
    BY <2>1, <2>2
<1>6. /\ u.manager = m.manager /\ u.daemon = st.daemon
      /\ \A t \in Objects : u.seat[t].session \in {st.seat[t].session, "none"}
  BY <1>4, <1>5 DEF Drops
<1> HIDE DEF u
<1>7. CASE n \in Nested(u, f)
  <2>1. FrameGood(u, f)
    BY <1>2, <1>5, <1>6 DEF FrameGood
  <2>2. StateGood(n, NoSeat) /\ Drops(u, n)
    BY <1>2, <1>5, <1>7, <2>1, NestedGood
  <2>3. QED
    BY <1>4, <1>6, <2>2 DEF Drops
<1>8. CASE n \in AfterRemoval(u, f)
  <2>1. StateGood(n, NoSeat) /\ Removes(u, n)
    BY <1>2, <1>5, <1>6, <1>8, AfterRemovalGood
  <2>2. QED
    BY <1>4, <1>6, <2>1 DEF Removes, Empty
<1>9. QED
  BY <1>1, <1>7, <1>8

\* _handle_session_terminated of the seat.
LEMMA HandleSessionTerminatedGood ==
    ASSUME NEW st, StateGood(st, NoSeat), NEW s \in Objects,
           st.seat[s].session # "none", NEW relogin \in BOOLEAN,
           NEW em \in BOOLEAN,
           NEW n \in HandleSessionTerminated(st, s, relogin, em)
    PROVE  StateGood(n, NoSeat) /\ Moves(st, n)
<1> DEFINE v == [st.seat[s] EXCEPT !.session = "none"]
           m == PutSeat(st, s, v)
           f == Frame("login", s, "ended", em)
<1>0. st \in StateType /\ st.seat[s] \in SeatType
  BY DEF StateGood, StateType
<1>1. SeatGood(st, NoSeat, s)
  BY DEF StateGood
<1>2. /\ v \in SeatType /\ v.session = "none" /\ v.obj = st.seat[s].obj
      /\ v.stop = st.seat[s].stop /\ v.delayed = st.seat[s].delayed
      /\ v.leaked = st.seat[s].leaked
  BY <1>0 DEF SeatType
<1>3. /\ m.manager = st.manager /\ m.daemon = st.daemon /\ m.seat[s] = v
      /\ \A t \in Objects : t # s => m.seat[t] = st.seat[t]
  BY <1>0, <1>2, SeatFields
<1>4. v.obj = "live" /\ (st.seat[s].session = "ending" => v.stop)
  BY <1>1, <1>2 DEF SeatGood
<1>5. StateGood(m, NoSeat)
  BY <1>2, <1>4, SeatUpdateGood
<1>6. \/ v.stop /\ n \in SessionTerminatedCb(m, s, em)
      \/ ~v.stop /\ n \in CreateSession(m, f)
      \/ n \in Ended(m, em)
  <2>1. HandleSessionTerminated(st, s, relogin, em) =
            IF m.seat[s].stop THEN SessionTerminatedCb(m, s, em)
            ELSE IF relogin THEN CreateSession(m, f) ELSE Ended(m, em)
    BY DEF HandleSessionTerminated, PutSeat
  <2>2. QED
    BY <1>3, <2>1
<1>7. /\ f \in FrameType /\ f.kind = "login" /\ f.seat = s
      /\ f.caller = "ended" /\ Due(f) = NoSeat
  BY DEF Frame, FrameType, Due
<1> HIDE DEF v, m, f
<1>8. CASE v.stop /\ n \in SessionTerminatedCb(m, s, em)
  <2>1. m.daemon.sigterm = "spent"
    BY <1>1, <1>2, <1>3, <1>8 DEF SeatGood
  <2>2. m.seat[s].obj = "live"
    BY <1>3, <1>4
  <2>3. /\ StateGood(n, NoSeat)
        /\ n.manager.watches = m.manager.watches
        /\ n.manager.leaked = m.manager.leaked
        /\ \/ n.daemon.main = m.daemon.main
           \/ n.daemon.main = "quitting" /\ Empty(n)
        /\ \A t \in Objects :
                n.seat[t].session \in {m.seat[t].session, "none"}
    BY <1>5, <1>8, <2>1, <2>2, SessionTerminatedCbGood
  <2>4. NoRelogin(st, n)
    BY <1>2, <1>3, <2>3 DEF NoRelogin
  <2>5. QED
    BY <1>3, <2>3, <2>4 DEF Moves
<1>9. CASE ~v.stop /\ n \in CreateSession(m, f)
  <2>1. /\ StateGood(n, NoSeat) /\ LogsIn(m, n, s)
        /\ n.manager = m.manager /\ n.daemon = m.daemon
    BY <1>3, <1>4, <1>5, <1>7, <1>9, CreateSessionGood
  <2>2. NoRelogin(st, n)
    BY <1>3, <1>4, <1>9, <2>1 DEF NoRelogin, LogsIn
  <2>3. QED
    BY <1>3, <2>1, <2>2 DEF Moves
<1>10. CASE n \in Ended(m, em)
  <2>1. StateGood(n, NoSeat) /\ Drops(m, n)
    BY <1>5, <1>10, EndedGood
  <2>2. NoRelogin(st, n)
    BY <1>2, <1>3, <2>1 DEF NoRelogin, Drops
  <2>3. QED
    BY <1>3, <2>1, <2>2 DEF Moves, Drops
<1>11. QED
  BY <1>6, <1>8, <1>9, <1>10

\* tlm_manager_stop.
LEMMA StopGood ==
    ASSUME NEW st, StateGood(st, NoSeat), st.daemon.sigterm = "spent",
           NEW n, n = Stop(st)
    PROVE  StateGood(n, NoSeat) /\ Moves(st, n)
<1> DEFINE yes == TRUE
           Listed == {s \in Objects : \E i \in Ids : st.manager.seats[i] = s}
           Up == {s \in Listed : st.seat[s].session # "none"}
           T == [i \in Ids |-> IF st.manager.seats[i] \in Up
                               THEN st.manager.seats[i] ELSE NoSeat]
           A == [s \in Objects |->
                    IF s \in Up
                    THEN [st.seat[s] EXCEPT !.stop = yes, !.session = "ending"]
                    ELSE IF s \in Listed THEN [st.seat[s] EXCEPT !.stop = yes]
                    ELSE st.seat[s]]
           a == [st EXCEPT !.manager.seats = T, !.seat = A]
           B == [s \in Objects |->
                    IF s \in Listed \ Up /\ ~Held(a, s)
                    THEN [a.seat[s] EXCEPT !.obj = "freed"] ELSE a.seat[s]]
           b == [a EXCEPT !.seat = B]
<1>0. /\ st \in StateType /\ st.manager \in ManagerType
      /\ \A s \in Objects : st.seat[s] \in SeatType
  BY DEF StateGood, StateType
<1>1. n = IF Up = {} THEN Stopped(b) ELSE b
  BY DEF Stop
<1>2. yes \in BOOLEAN /\ yes
  OBVIOUS
<1> HIDE DEF yes
<1>3. /\ \A s \in Listed : s \in Objects /\ Held(st, s)
      /\ \A s \in Objects \ Listed : \A i \in Ids : st.manager.seats[i] # s
      /\ \A s \in Up : s \in Listed /\ st.seat[s].session # "none"
      /\ \A s \in Listed \ Up : st.seat[s].session = "none"
  BY DEF Held
<1>4. \A i \in Ids : st.manager.seats[i] \in Listed \cup {NoSeat}
  BY <1>0 DEF ManagerType
<1> HIDE DEF Listed, Up
<1>5. ASSUME NEW s \in Objects
      PROVE  /\ A[s] \in SeatType /\ A[s].obj = st.seat[s].obj
             /\ A[s].delayed = st.seat[s].delayed
             /\ A[s].leaked = st.seat[s].leaked
             /\ s \in Up => A[s].session = "ending" /\ A[s].stop
             /\ s \notin Up => A[s].session = st.seat[s].session
             /\ s \notin Listed => A[s] = st.seat[s]
  <2>1. st.seat[s] \in SeatType
    BY <1>0
  <2>2. CASE s \in Up
    <3>1. A[s] = [st.seat[s] EXCEPT !.stop = yes, !.session = "ending"]
      BY <2>2
    <3>2. QED
      BY <1>2, <1>3, <2>1, <2>2, <3>1 DEF SeatType
  <2>3. CASE s \in Listed \ Up
    <3>1. A[s] = [st.seat[s] EXCEPT !.stop = yes]
      BY <2>3
    <3>2. QED
      BY <1>2, <2>1, <2>3, <3>1 DEF SeatType
  <2>4. CASE s \notin Listed
    <3>1. s \notin Up
      BY <1>3, <2>4
    <3>2. QED
      BY <2>1, <2>4, <3>1
  <2>5. QED
    BY <2>2, <2>3, <2>4
<1>6. A \in [Objects -> SeatType]
  BY <1>5
<1>7. /\ T \in [Ids -> Objects \cup {NoSeat}]
      /\ \A i \in Ids : T[i] = IF st.manager.seats[i] \in Up
                               THEN st.manager.seats[i] ELSE NoSeat
  BY <1>0 DEF ManagerType
<1> HIDE DEF T, A
<1> DEFINE c == [st.manager EXCEPT !.seats = T]
<1>8. /\ c \in ManagerType /\ c.seats = T /\ c.watches = st.manager.watches
      /\ c.leaked = st.manager.leaked /\ c.todo = st.manager.todo
  BY <1>0, <1>7 DEF ManagerType
<1>9. a = [st EXCEPT !.manager = c, !.seat = A]
  OBVIOUS
<1> HIDE DEF c
<1>10. /\ a.manager = c /\ a.seat = A /\ a.loops = st.loops
       /\ a.daemon = st.daemon /\ a \in StateType
  BY <1>0, <1>6, <1>8, <1>9 DEF StateType
<1> HIDE DEF a
<1>11. ASSUME NEW s \in Objects
       PROVE  /\ B[s] \in SeatType
              /\ B[s].obj = IF s \in Listed \ Up /\ ~Held(a, s) THEN "freed"
                            ELSE st.seat[s].obj
              /\ B[s].session = A[s].session /\ B[s].stop = A[s].stop
              /\ B[s].delayed = st.seat[s].delayed
              /\ B[s].leaked = st.seat[s].leaked
              /\ s \notin Listed => B[s] = st.seat[s]
  <2>1. A[s] \in SeatType /\ a.seat[s] = A[s]
    BY <1>5, <1>10
  <2>2. CASE s \in Listed \ Up /\ ~Held(a, s)
    <3>1. B[s] = [A[s] EXCEPT !.obj = "freed"]
      BY <2>1, <2>2
    <3> HIDE DEF B
    <3>2. QED
      BY <1>5, <2>1, <2>2, <3>1 DEF SeatType
  <2>3. CASE ~(s \in Listed \ Up /\ ~Held(a, s))
    <3>1. B[s] = A[s]
      BY <2>1, <2>3
    <3> HIDE DEF B
    <3>2. QED
      BY <1>5, <2>1, <2>3, <3>1
  <2>4. QED
    BY <2>2, <2>3
<1>12. B \in [Objects -> SeatType]
  BY <1>11
<1> HIDE DEF B
<1>13. /\ b.manager = c /\ b.seat = B /\ b.loops = st.loops
       /\ b.daemon = st.daemon /\ b \in StateType
  BY <1>10, <1>12 DEF StateType
<1> HIDE DEF b
<1>14. ASSUME NEW s \in Objects PROVE SeatGood(b, NoSeat, s)
  <2>1. SeatGood(st, NoSeat, s) /\ s # NoSeat
    BY ObjectFacts DEF StateGood
  <2>2. Held(b, s) <=> Held(a, s)
    BY <1>5, <1>10, <1>11, <1>13 DEF Held
  <2>3. Held(a, s) => Held(st, s)
    BY <1>5, <1>7, <1>8, <1>10, <2>1 DEF Held
  <2>4. s \in Up => Held(a, s)
    <3>1. ASSUME s \in Up PROVE \E i \in Ids : st.manager.seats[i] = s
      BY <1>3, <3>1 DEF Listed
    <3>2. QED
      BY <1>7, <1>8, <1>10, <3>1 DEF Held
  <2>5. s \notin Listed => (Held(a, s) <=> Held(st, s))
    BY <1>3, <1>5, <1>7, <1>8, <1>10, <2>1 DEF Held
  <2>6. b.seat[s] = B[s] /\ b.daemon.sigterm = "spent"
    BY <1>13
  <2>7. Placed(b, s)
    BY <2>6 DEF Placed
  <2>8. CASE s \in Up
    BY <1>3, <1>5, <1>11, <2>1, <2>2, <2>4, <2>6, <2>7, <2>8 DEF SeatGood
  <2>9. CASE s \in Listed \ Up
    BY <1>3, <1>5, <1>11, <2>1, <2>2, <2>3, <2>6, <2>7, <2>9 DEF SeatGood
  <2>10. CASE s \notin Listed
    <3>1. b.seat[s] = st.seat[s]
      BY <1>11, <2>6, <2>10
    <3>2. QED
      BY <2>1, <2>2, <2>5, <2>6, <2>7, <2>10, <3>1 DEF SeatGood
  <2>11. QED
    BY <2>8, <2>9, <2>10
<1>15. \A s \in Objects : b.seat[s].obj = "none" <=> st.seat[s].obj = "none"
  <2>1. \A s \in Listed : st.seat[s].obj = "live"
    BY <1>3 DEF StateGood, SeatGood
  <2>2. QED
    BY <1>11, <1>13, <2>1
<1>16. \A i \in Ids :
        /\ b.seat[<<i, 1>>].obj = "none" <=> st.seat[<<i, 1>>].obj = "none"
        /\ b.seat[<<i, 2>>].obj = "none" <=> st.seat[<<i, 2>>].obj = "none"
  BY <1>15, ObjectFacts, Zenon
<1>17. \A i \in Ids : IdGood(b, i)
  BY <1>7, <1>8, <1>13, <1>16 DEF StateGood, IdGood
<1>18. TodoGood(b)
  <2>1. st.manager.todo \in Seq([id : Ids, again : BOOLEAN])
    BY <1>0 DEF ManagerType
  <2>2. \A k \in DOMAIN st.manager.todo :
            st.manager.todo[k] \in [id : Ids, again : BOOLEAN]
    BY <2>1, ElementType, Zenon
  <2>3. \A t \in [id : Ids, again : BOOLEAN] : AddGood(st, t) => AddGood(b, t)
    BY <1>8, <1>13, <1>16 DEF AddGood
  <2>4. TodoGood(st) /\ b.manager.todo = st.manager.todo
    BY <1>8, <1>13 DEF StateGood
  <2>5. QED
    BY <2>2, <2>3, <2>4 DEF TodoGood
<1>19. \A k \in DOMAIN b.loops : FrameGood(b, b.loops[k])
  BY <1>13, <1>15 DEF StateGood, FrameGood
<1>20. DaemonGood(b)
  BY <1>13 DEF StateGood, DaemonGood
<1>21. StateGood(b, NoSeat)
  BY <1>13, <1>14, <1>17, <1>18, <1>19, <1>20 DEF StateGood
<1>22. NoRelogin(st, b)
  BY <1>5, <1>11, <1>13 DEF NoRelogin
<1>23. CASE Up # {}
  BY <1>1, <1>8, <1>13, <1>21, <1>22, <1>23 DEF Moves
<1>24. CASE Up = {}
  <2>1. n = Stopped(b) /\ b.daemon.sigterm = "spent"
    BY <1>1, <1>13, <1>24
  <2>2. /\ StateGood(n, NoSeat) /\ n.manager = b.manager /\ n.seat = b.seat
        /\ n.daemon.main = b.daemon.main \/ n.daemon.main = "quitting"
    BY <1>21, <2>1, StoppedGood
  <2>3. Empty(n)
    BY <1>7, <1>8, <1>13, <1>24, <2>2 DEF Empty
  <2>4. QED
    BY <1>8, <1>13, <1>22, <2>2, <2>3 DEF Moves, NoRelogin
<1>25. QED
  BY <1>23, <1>24

\* Nothing has been made, or nothing is left: the start, and a daemon that was
\* killed.
LEMMA ClearGood ==
    ASSUME NEW n \in StateType, n.seat = [s \in Objects |-> NoObject],
           n.loops = <<>>, n.manager.seats = [i \in Ids |-> NoSeat],
           n.manager.watches = {}, DaemonGood(n),
           \A j, k \in DOMAIN n.manager.todo :
                n.manager.todo[j].id = n.manager.todo[k].id => j = k
    PROVE  StateGood(n, NoSeat)
<1>1. /\ NoObject.obj = "none" /\ NoObject.session = "none" /\ ~NoObject.stop
      /\ ~NoObject.leaked /\ NoObject.delayed = 0
  BY DEF NoObject, NewSeat
<1>2. \A s \in Objects : n.seat[s] = NoObject
  OBVIOUS
<1>3. DOMAIN n.loops = {}
  OBVIOUS
<1>4. \A s \in Objects : ~Held(n, s)
  BY <1>1, <1>2, <1>3, ObjectFacts DEF Held
<1>5. \A s \in Objects : SeatGood(n, NoSeat, s)
  BY <1>1, <1>2, <1>4 DEF SeatGood
<1>6. \A i \in Ids : IdGood(n, i)
  BY <1>1, <1>2, ObjectFacts DEF IdGood
<1>7. n.manager.todo \in Seq([id : Ids, again : BOOLEAN])
  BY DEF StateType, ManagerType
<1>8. \A k \in DOMAIN n.manager.todo :
        n.manager.todo[k] \in [id : Ids, again : BOOLEAN]
  BY <1>7, ElementType, Zenon
<1>9. \A t \in [id : Ids, again : BOOLEAN] : AddGood(n, t)
  BY <1>1, <1>2, ObjectFacts DEF AddGood
<1>10. TodoGood(n)
  BY <1>8, <1>9, Zenon DEF TodoGood
<1>11. QED
  BY <1>3, <1>5, <1>6, <1>10 DEF StateGood

-----------------------------------------------------------------------------
(* What tlm_manager_start and a watch take from the manager before they    *)
(* create the seat.                                                        *)

\* The manager becomes b, with the same table.
PutManager(st, b) == [st EXCEPT !.manager = b]

\* What a seat needs of the manager is the table, the watches and todo.
LEMMA PutManagerGood ==
    ASSUME NEW st, StateGood(st, NoSeat), NEW b \in ManagerType,
           b.seats = st.manager.seats,
           \A i \in b.watches : st.seat[<<i, 2>>].obj = "none",
           NEW n, n = PutManager(st, b), TodoGood(n)
    PROVE  /\ StateGood(n, NoSeat) /\ n.manager = b /\ n.seat = st.seat
           /\ n.loops = st.loops /\ n.daemon = st.daemon
<1>0. st \in StateType
  BY DEF StateGood
<1>1. /\ n \in StateType /\ n.manager = b /\ n.seat = st.seat
      /\ n.loops = st.loops /\ n.daemon = st.daemon
  BY <1>0 DEF StateType, PutManager
<1>2. \A t \in Objects : Held(n, t) <=> Held(st, t)
  BY <1>1 DEF Held
<1>3. \A t \in Objects : SeatGood(n, NoSeat, t)
  BY <1>1, <1>2 DEF StateGood, SeatGood, Placed
<1>4. \A i \in Ids : IdGood(n, i)
  BY <1>1 DEF StateGood, IdGood
<1>5. DaemonGood(n) /\ \A k \in DOMAIN n.loops : FrameGood(n, n.loops[k])
  BY <1>1 DEF StateGood, DaemonGood, FrameGood
<1>6. QED
  BY <1>1, <1>3, <1>4, <1>5 DEF StateGood

\* The object that _create_seat makes for i.
NextObject(st, i) ==
    IF st.seat[<<i, 1>>].obj = "none" THEN <<i, 1>> ELSE <<i, 2>>

\* A watch that has fired.
LEMMA FiredGood ==
    ASSUME NEW st, StateGood(st, NoSeat), NEW i \in Ids,
           i \in st.manager.watches,
           NEW r, r = [st EXCEPT !.manager.watches = @ \ {i}]
    PROVE  /\ StateGood(r, NoSeat) /\ MayInsert(r, NextObject(r, i), i)
           /\ r.seat = st.seat /\ r.daemon = st.daemon
<1>0. st \in StateType /\ st.manager \in ManagerType
  BY DEF StateGood, StateType
<1> DEFINE b == [st.manager EXCEPT !.watches = @ \ {i}]
<1>1. /\ b \in ManagerType /\ b.seats = st.manager.seats
      /\ b.watches = st.manager.watches \ {i} /\ b.todo = st.manager.todo
  BY <1>0 DEF ManagerType
<1>2. r = PutManager(st, b)
  BY DEF PutManager
<1> HIDE DEF b
<1>3. r.manager = b /\ r.seat = st.seat /\ r.daemon = st.daemon
  BY <1>0, <1>2 DEF StateType, PutManager
<1>4. TodoGood(r)
  BY <1>1, <1>3 DEF StateGood, TodoGood, AddGood
<1>5. \A j \in b.watches : st.seat[<<j, 2>>].obj = "none"
  <2>1. b.watches \subseteq Ids
    BY <1>1, ManagerAssumption DEF ManagerType
  <2>2. QED
    BY <1>1, <2>1 DEF StateGood, IdGood
<1>6. StateGood(r, NoSeat)
  BY <1>1, <1>2, <1>4, <1>5, PutManagerGood
<1>7. MayInsert(r, NextObject(r, i), i)
  <2>1. r.seat[<<i, 2>>].obj = "none"
    BY <1>3 DEF StateGood, IdGood
  <2>2. \A k \in DOMAIN r.manager.todo : r.manager.todo[k].id # i
    <3>1. TodoGood(st) /\ r.manager.todo = st.manager.todo
      BY <1>1, <1>3 DEF StateGood
    <3>2. \A k \in DOMAIN r.manager.todo : AddGood(st, r.manager.todo[k])
      BY <3>1 DEF TodoGood
    <3>3. \A e : AddGood(st, e) => e.id # i
      BY DEF AddGood
    <3>4. QED
      BY <3>2, <3>3, Zenon
  <2>3. i \notin r.manager.watches
    BY <1>1, <1>3
  <2>4. QED
    BY <2>1, <2>2, <2>3 DEF MayInsert, NextObject
<1>8. QED
  BY <1>3, <1>6, <1>7

\* tlm_manager_start has taken the first of the ids: q is what is left of it,
\* w its watch.
Taken(st, q, w, leak) ==
    [st EXCEPT !.manager.todo = q \o Tail(@),
               !.manager.watches = @ \cup w,
               !.manager.leaked = @ \/ leak]

\* Each id stays in one place: in todo, in the watches, or in neither.
LEMMA TakenGood ==
    ASSUME NEW st, StateGood(st, NoSeat), st.manager.todo # <<>>,
           NEW t, t = Head(st.manager.todo),
           NEW q, NEW w, NEW leak \in BOOLEAN,
           \/ q = <<>> /\ w = {}
           \/ /\ ~t.again /\ t.id \in Watched
              /\ \/ q = <<[id |-> t.id, again |-> TRUE]>> /\ w = {}
                 \/ q = <<>> /\ w = {t.id},
           NEW r, r = Taken(st, q, w, leak)
    PROVE  /\ StateGood(r, NoSeat)
           /\ MayInsert(r, NextObject(r, t.id), t.id) /\ t.id \in Ids
           /\ r.seat = st.seat /\ r.daemon = st.daemon
<1> DEFINE E == [id : Ids, again : BOOLEAN]
           todo == st.manager.todo
           i == t.id
           p == q \o Tail(todo)
           l == st.manager.leaked \/ leak
           b == [st.manager EXCEPT !.todo = p,
                    !.watches = st.manager.watches \cup w, !.leaked = l]
<1>0. /\ st \in StateType /\ st.manager \in ManagerType /\ todo \in Seq(E)
      /\ TodoGood(st)
  BY DEF StateGood, StateType, ManagerType
<1> HIDE DEF todo
<1>1. t = todo[1] /\ 1 \in DOMAIN todo
  BY <1>0 DEF todo
<1>2. t \in E
  <2>1. \A k \in DOMAIN todo : todo[k] \in E
    BY <1>0, ElementType, Zenon
  <2>2. QED
    BY <1>1, <2>1, Zenon
<1>3. i \in Ids
  BY <1>2
<1>4. /\ i \notin st.manager.watches /\ st.seat[<<i, 2>>].obj = "none"
      /\ ~t.again => st.seat[<<i, 1>>].obj = "none"
  BY <1>0, <1>1 DEF TodoGood, AddGood, todo
<1> DEFINE first == [id |-> i, again |-> TRUE]
<1>5. /\ p \in Seq(E)
      /\ \/ /\ DOMAIN p = 1..(Len(todo) - 1)
            /\ \A k \in DOMAIN p : p[k] = todo[k + 1]
         \/ /\ DOMAIN p = DOMAIN todo /\ p[1] = first
            /\ w = {} /\ ~t.again
            /\ \A k \in DOMAIN p : k # 1 => p[k] = todo[k]
  <2>1. Tail(todo) \in Seq(E) /\ Len(Tail(todo)) = Len(todo) - 1
        /\ Len(todo) \in Nat /\ Len(todo) >= 1 /\ DOMAIN todo = 1..Len(todo)
        /\ \A k \in 1..(Len(todo) - 1) : Tail(todo)[k] = todo[k + 1]
    BY <1>0, <1>1
  <2> DEFINE tl == Tail(todo)
  <2> HIDE DEF tl
  <2>2. CASE q = <<>>
    <3>1. p = tl
      BY <2>1, <2>2 DEF tl
    <3> HIDE DEF p
    <3>2. p \in Seq(E) /\ Len(p) = Len(todo) - 1
      BY <2>1, <3>1 DEF tl
    <3>3. DOMAIN p = 1..(Len(todo) - 1)
      BY <3>2
    <3>4. \A k \in DOMAIN p : p[k] = todo[k + 1]
      BY <2>1, <3>1, <3>3 DEF tl
    <3>5. QED
      BY <3>2, <3>3, <3>4
  <2>3. CASE q = <<first>> /\ w = {} /\ ~t.again
    <3>1. first \in E
      <4> DEFINE yes == TRUE
      <4>1. yes \in BOOLEAN
        OBVIOUS
      <4> HIDE DEF yes
      <4>2. [id |-> i, again |-> yes] \in E
        BY <1>3, <4>1
      <4>3. QED
        BY <4>2, Zenon DEF yes
    <3> HIDE DEF first
    <3>2. p = <<first>> \o tl /\ tl \in Seq(E) /\ Len(tl) = Len(todo) - 1
      BY <2>1, <2>3 DEF tl
    <3>3. p \in Seq(E) /\ DOMAIN p = 1..Len(todo) /\ p[1] = first
      BY <2>1, <3>1, <3>2
    <3>4. ASSUME NEW k \in DOMAIN p, k # 1 PROVE p[k] = tl[k - 1]
      <4>1. k \in 2..(Len(tl) + 1) /\ Len(tl) \in Nat
        BY <2>1, <3>2, <3>3, <3>4
      <4> HIDE DEF p
      <4>2. (<<first>> \o tl)[k] = tl[k - 1]
        BY <3>1, <3>2, <4>1
      <4>3. QED
        BY <3>2, <4>2
    <3>5. \A k \in DOMAIN p : k # 1 => p[k] = todo[k]
      BY <2>1, <3>3, <3>4 DEF tl
    <3>6. QED
      BY <2>1, <2>3, <3>3, <3>5
  <2>4. QED
    BY <2>2, <2>3
<1>6. l \in BOOLEAN
  BY <1>0 DEF ManagerType
<1>7. st.manager.watches \cup w \subseteq Watched
  BY <1>0 DEF ManagerType
<1>8. r = PutManager(st, b)
  BY DEF PutManager, Taken, todo
<1> HIDE DEF p, l
<1>9. /\ b \in ManagerType /\ b.seats = st.manager.seats
      /\ b.watches = st.manager.watches \cup w /\ b.todo = p
  BY <1>0, <1>5, <1>6, <1>7 DEF ManagerType
<1> HIDE DEF b
<1>10. r.manager = b /\ r.seat = st.seat /\ r.daemon = st.daemon
  BY <1>0, <1>8 DEF StateType, PutManager
<1>11. /\ w = {} \/ (w = {i} /\ ~t.again)
  OBVIOUS
<1>12. /\ \A j, k \in DOMAIN todo : todo[j].id = todo[k].id => j = k
       /\ \A k \in DOMAIN todo : AddGood(st, todo[k])
       /\ \A k \in DOMAIN todo : k # 1 => todo[k].id # i
       /\ DOMAIN todo = 1..Len(todo) /\ Len(todo) \in Nat
  BY <1>0, <1>1 DEF TodoGood, todo
<1>13. ASSUME NEW e, AddGood(st, e), e.id # i PROVE AddGood(r, e)
  BY <1>9, <1>10, <1>11, <1>13 DEF AddGood
<1>14. first.id = i /\ first.again
  OBVIOUS
<1> HIDE DEF first
<1>15. /\ TodoGood(r)
       /\ \A k \in DOMAIN p :
            p[k].id = i => st.seat[<<i, 1>>].obj = "none" /\ p[k].again
  <2>1. CASE /\ DOMAIN p = 1..(Len(todo) - 1)
             /\ \A k \in DOMAIN p : p[k] = todo[k + 1]
    <3>1. \A k \in DOMAIN p : k + 1 \in DOMAIN todo /\ k + 1 # 1
      BY <1>12, <2>1
    <3>2. \A k \in DOMAIN p : AddGood(r, p[k]) /\ p[k].id # i
      BY <1>12, <1>13, <2>1, <3>1
    <3>3. ASSUME NEW j \in DOMAIN p, NEW k \in DOMAIN p, p[j].id = p[k].id
          PROVE  j = k
      <4>1. j + 1 = k + 1
        BY <1>12, <2>1, <3>1, <3>3
      <4>2. QED
        BY <2>1, <4>1
    <3>4. QED
      BY <1>9, <1>10, <3>2, <3>3 DEF TodoGood
  <2>2. CASE /\ DOMAIN p = DOMAIN todo /\ p[1] = first
             /\ w = {} /\ ~t.again
             /\ \A k \in DOMAIN p : k # 1 => p[k] = todo[k]
    <3>1. AddGood(r, first)
      BY <1>4, <1>9, <1>10, <1>14, <2>2 DEF AddGood
    <3>2. \A k \in DOMAIN p : AddGood(r, p[k])
      BY <1>12, <1>13, <2>2, <3>1
    <3>3. \A k \in DOMAIN p : k = 1 <=> p[k].id = i
      BY <1>12, <1>14, <2>2
    <3>4. \A j, k \in DOMAIN p : p[j].id = p[k].id => j = k
      BY <1>12, <2>2, <3>3
    <3>5. \A k \in DOMAIN p :
            p[k].id = i => st.seat[<<i, 1>>].obj = "none" /\ p[k].again
      BY <1>4, <1>14, <2>2, <3>3
    <3>6. QED
      BY <1>9, <1>10, <3>2, <3>4, <3>5 DEF TodoGood
  <2>3. QED
    BY <1>5, <2>1, <2>2
<1>16. \A j \in b.watches : st.seat[<<j, 2>>].obj = "none"
  <2>1. st.manager.watches \subseteq Ids
    BY <1>0, ManagerAssumption DEF ManagerType
  <2>2. \A j \in st.manager.watches : st.seat[<<j, 2>>].obj = "none"
    BY <2>1 DEF StateGood, IdGood
  <2>3. QED
    BY <1>4, <1>9, <1>11, <2>2
<1>17. StateGood(r, NoSeat)
  BY <1>8, <1>9, <1>15, <1>16, PutManagerGood
<1>18. i \in r.manager.watches => st.seat[<<i, 1>>].obj = "none"
  BY <1>4, <1>9, <1>10, <1>11
<1>19. MayInsert(r, NextObject(r, i), i)
  BY <1>4, <1>9, <1>10, <1>15, <1>18 DEF MayInsert, NextObject
<1>20. QED
  BY <1>3, <1>10, <1>17, <1>19

-----------------------------------------------------------------------------
(* The actions.                                                            *)

Faults == {"none", "error", "watch", "start"}

\* What a step may not do (StoppedWhenEmpty and NoReloginInStop).
StepGood ==
    /\ daemon.main # "quitting" /\ daemon'.main = "quitting"
            => \A i \in Ids : manager'.seats[i] = NoSeat
    /\ \A s \in Objects :
            seat[s].session = "ending" => seat'[s].session # "up"

\* The state record of the next state.
LEMMA NextRecord ==
    ASSUME NEW n \in StateType, Becomes(n) PROVE Now' = n
BY DEF Becomes, Now, StateType

\* The fields of the current state.
LEMMA NowFields ==
    /\ Now.manager = manager /\ Now.seat = seat /\ Now.loops = loops
    /\ Now.daemon = daemon
BY DEF Now

\* A handler that has gone from the current state to n.
LEMMA HandlerStep ==
    ASSUME NEW n, StateGood(n, NoSeat), Becomes(n), daemon.main # "exited",
           \/ n.daemon.main = daemon.main
           \/ n.daemon.main = "quitting" /\ Empty(n),
           daemon.main = "disposing" =>
                n.manager.watches = {} /\ ~n.manager.leaked,
           NoRelogin(Now, n), fault' \in Faults
    PROVE  ManagerInv' /\ StepGood
<1>1. n \in StateType
  BY DEF StateGood
<1>2. Now' = n
  BY <1>1, NextRecord
<1>3. /\ manager' = n.manager /\ seat' = n.seat /\ loops' = n.loops
      /\ daemon' = n.daemon
  BY DEF Becomes
<1>4. StateGood(Now, NoSeat)'
  BY <1>2
<1>5. ExitGood'
  BY <1>3 DEF ExitGood
<1>6. StepGood
  BY <1>3, NowFields DEF StepGood, NoRelogin, Empty
<1>7. QED
  BY <1>4, <1>5, <1>6 DEF ManagerInv, Faults

\* ... with Moves.
LEMMA MovesStep ==
    ASSUME ManagerInv, NEW n, StateGood(n, NoSeat), Becomes(n),
           daemon.main # "exited", Moves(Now, n), fault' \in Faults
    PROVE  ManagerInv' /\ StepGood
<1>1. daemon.main = "disposing" => n.manager.watches = {} /\ ~n.manager.leaked
  BY NowFields DEF ManagerInv, ExitGood, Moves
<1>2. QED
  BY <1>1, NowFields, HandlerStep DEF Moves

\* The history keeps its type when it is left alone ...
LEMMA FaultKept == ManagerInv /\ UNCHANGED fault => fault' \in Faults
BY DEF ManagerInv, Faults

\* ... and when something came in the way of a stop.
LEMMA HindersGood ==
    ASSUME ManagerInv, NEW c, NEW w \in Faults, Hinders(c, w)
    PROVE  fault' \in Faults
BY DEF ManagerInv, Faults, Hinders

\* tlm_manager_start adds a seat.
LEMMA AddSeatGood == ManagerInv /\ AddSeat => ManagerInv' /\ StepGood
<1> SUFFICES ASSUME ManagerInv, AddSeat PROVE ManagerInv' /\ StepGood
  OBVIOUS
<1> DEFINE t == Head(manager.todo)
           again == <<[id |-> t.id, again |-> TRUE]>>
           Rest(ag, w, leak) ==
             [Now EXCEPT !.manager.todo =
                            (IF ag THEN <<[id |-> t.id, again |-> TRUE]>>
                             ELSE <<>>) \o Tail(@),
                         !.manager.watches = @ \cup w,
                         !.manager.leaked = @ \/ leak]
<1>1. /\ daemon.main = "starting" /\ manager.todo # <<>> /\ UNCHANGED fault
      /\ StateGood(Now, NoSeat)
  BY DEF AddSeat, ManagerInv
<1>2. PICK q, w, leak :
        /\ leak \in BOOLEAN
        /\ \/ q = <<>> /\ w = {}
           \/ /\ ~t.again /\ t.id \in Watched
              /\ (q = again /\ w = {}) \/ (q = <<>> /\ w = {t.id})
        /\ \E n \in CreateSeat(Taken(Now, q, w, leak), t.id) : Becomes(n)
  <2>1. \/ \E n \in CreateSeat(Rest(FALSE, {}, FALSE), t.id) : Becomes(n)
        \/ /\ ~t.again /\ t.id \in Watched
           /\ \/ \E n \in CreateSeat(Rest(TRUE, {}, FALSE), t.id) : Becomes(n)
              \/ \E n \in CreateSeat(Rest(FALSE, {t.id}, FALSE), t.id) :
                    Becomes(n)
              \/ \E n \in CreateSeat(Rest(FALSE, {}, TRUE), t.id) : Becomes(n)
    BY Zenon DEF AddSeat
  <2>2. \A w, leak : /\ Rest(FALSE, w, leak) = Taken(Now, <<>>, w, leak)
                     /\ Rest(TRUE, w, leak) = Taken(Now, again, w, leak)
    BY DEF Taken
  <2> HIDE DEF t, again, Rest
  <2> DEFINE G(q, w, leak) ==
        /\ leak \in BOOLEAN
        /\ \/ q = <<>> /\ w = {}
           \/ /\ ~t.again /\ t.id \in Watched
              /\ (q = again /\ w = {}) \/ (q = <<>> /\ w = {t.id})
        /\ \E n \in CreateSeat(Taken(Now, q, w, leak), t.id) : Becomes(n)
  <2>3. \/ G(<<>>, {}, FALSE) \/ G(again, {}, FALSE)
        \/ G(<<>>, {t.id}, FALSE) \/ G(<<>>, {}, TRUE)
    BY <2>1, <2>2, Zenon
  <2>4. \E q, w, leak : G(q, w, leak)
    <3> HIDE DEF G
    <3>1. QED
      BY <2>3, Zenon
  <2>5. QED
    BY <2>4, Zenon
<1>3. PICK n \in CreateSeat(Taken(Now, q, w, leak), t.id) : Becomes(n)
  BY <1>2
<1> DEFINE r == Taken(Now, q, w, leak)
<1>4. /\ StateGood(r, NoSeat) /\ t.id \in Ids
      /\ MayInsert(r, NextObject(r, t.id), t.id)
      /\ r.seat = Now.seat /\ r.daemon = Now.daemon
  BY <1>1, <1>2, NowFields, TakenGood
<1> HIDE DEF r
<1>5. StateGood(n, NoSeat) /\ NoRelogin(r, n) /\ n.daemon = r.daemon
  BY <1>3, <1>4, CreateSeatGood DEF r
<1>6. NoRelogin(Now, n) /\ n.daemon.main = daemon.main
  BY <1>4, <1>5, NowFields DEF NoRelogin
<1>7. QED
  BY <1>1, <1>3, <1>5, <1>6, FaultKept, HandlerStep

\* _seat_watch_cb.
LEMMA WatchFiresGood ==
    ASSUME ManagerInv, NEW i \in Ids, WatchFires(i)
    PROVE  ManagerInv' /\ StepGood
<1> DEFINE r == [Now EXCEPT !.manager.watches = @ \ {i}]
<1>1. PICK n \in CreateSeat(r, i) : Becomes(n)
  BY DEF WatchFires
<1>2. /\ StateGood(Now, NoSeat) /\ i \in Now.manager.watches
      /\ daemon.main \notin {"exited", "disposing"}
  BY NowFields DEF WatchFires, Dispatching, ManagerInv, ExitGood
<1>3. /\ StateGood(r, NoSeat) /\ MayInsert(r, NextObject(r, i), i)
      /\ r.seat = Now.seat /\ r.daemon = Now.daemon
  BY <1>2, FiredGood
<1> HIDE DEF r
<1>4. StateGood(n, NoSeat) /\ NoRelogin(r, n) /\ n.daemon = r.daemon
  BY <1>1, <1>3, CreateSeatGood
<1>5. NoRelogin(Now, n) /\ n.daemon.main = daemon.main
  BY <1>3, <1>4, NowFields DEF NoRelogin
<1>6. fault' \in Faults
  BY HindersGood DEF WatchFires, Faults
<1>7. QED
  BY <1>1, <1>2, <1>4, <1>5, <1>6, HandlerStep

\* A login by the root observer: the table holds the seat.
LEMMA LoginUserGood ==
    ASSUME ManagerInv, NEW i \in Ids, LoginUser(i)
    PROVE  ManagerInv' /\ StepGood
<1> DEFINE s == manager.seats[i]
           no == FALSE
           f == Frame("login", s, "request", no)
<1>1. PICK n \in CreateSession(Now, f) : Becomes(n)
  BY DEF LoginUser
<1>2. /\ StateGood(Now, NoSeat) /\ s # NoSeat /\ daemon.main # "exited"
      /\ UNCHANGED fault
  BY DEF LoginUser, Dispatching, ManagerInv
<1>3. s \in Objects /\ Held(Now, s)
  BY <1>2, NowFields DEF StateGood, StateType, ManagerType, Held
<1>4. Now.seat[s].obj = "live"
  BY <1>2, <1>3 DEF StateGood, SeatGood
<1>5. no \in BOOLEAN
  OBVIOUS
<1> HIDE DEF no
<1>6. /\ f \in FrameType /\ f.kind = "login" /\ f.seat = s
      /\ Due(f) = NoSeat
  BY <1>3, <1>5 DEF Frame, FrameType, Due
<1> HIDE DEF f, s
<1>7. /\ StateGood(n, NoSeat) /\ LogsIn(Now, n, s)
      /\ n.manager = Now.manager /\ n.daemon = Now.daemon
  BY <1>1, <1>2, <1>3, <1>4, <1>6, CreateSessionGood
<1>8. Moves(Now, n)
  BY <1>7 DEF Moves, LogsIn, NoRelogin
<1>9. QED
  BY <1>1, <1>2, <1>7, <1>8, FaultKept, MovesStep

\* A request on the socket of the session leaks a reference.
LEMMA SeatRequestGood ==
    ASSUME ManagerInv, NEW s \in Objects, SeatRequest(s)
    PROVE  ManagerInv' /\ StepGood
<1> DEFINE yes == TRUE
           v == [seat[s] EXCEPT !.leaked = yes]
           n == PutSeat(Now, s, v)
<1>1. /\ StateGood(Now, NoSeat) /\ daemon.main # "exited"
      /\ seat[s].session # "none" /\ UNCHANGED fault
  BY DEF SeatRequest, Dispatching, ManagerInv
<1>2. Now \in StateType /\ seat[s] \in SeatType
  BY <1>1, NowFields DEF StateGood, StateType
<1>3. SeatGood(Now, NoSeat, s)
  BY <1>1 DEF StateGood
<1>4. yes \in BOOLEAN /\ yes
  OBVIOUS
<1>5. Becomes(n)
  BY DEF SeatRequest, Becomes, PutSeat, Now
<1> HIDE DEF yes
<1>6. /\ v \in SeatType /\ v.leaked /\ v.obj = seat[s].obj
      /\ v.stop = seat[s].stop /\ v.session = seat[s].session
  BY <1>2, <1>4 DEF SeatType
<1>7. v.obj = "live" /\ (v.session = "ending" => v.stop)
  BY <1>1, <1>3, <1>6, NowFields DEF SeatGood
<1> HIDE DEF v
<1>8. /\ n.manager = Now.manager /\ n.daemon = Now.daemon /\ n.seat[s] = v
      /\ \A t \in Objects : t # s => n.seat[t] = Now.seat[t]
  BY <1>2, <1>6, SeatFields
<1>9. StateGood(n, NoSeat)
  BY <1>1, <1>6, <1>7, NowFields, SeatUpdateGood
<1>10. Moves(Now, n)
  BY <1>6, <1>8, NowFields DEF Moves, NoRelogin
<1> HIDE DEF n
<1>11. QED
  BY <1>1, <1>5, <1>9, <1>10, FaultKept, MovesStep

\* _delayed_session: the closure holds the seat until the login returns.
LEMMA DelayedSessionGood ==
    ASSUME ManagerInv, NEW s \in Objects, DelayedSession(s)
    PROVE  ManagerInv' /\ StepGood
<1> DEFINE v == [Now.seat[s] EXCEPT !.delayed = @ - 1]
           m == PutSeat(Now, s, v)
           no == FALSE
           f == Frame("login", s, "delayed", no)
<1>1. PICK n \in CreateSession(m, f) : Becomes(n)
  BY DEF DelayedSession, PutSeat
<1>2. /\ StateGood(Now, NoSeat) /\ daemon.main # "exited"
      /\ Now.seat[s].delayed > 0 /\ UNCHANGED fault
  BY NowFields DEF DelayedSession, Dispatching, ManagerInv
<1>3. Now \in StateType /\ Now.seat[s] \in SeatType
  BY <1>2 DEF StateGood, StateType
<1>4. SeatGood(Now, NoSeat, s) /\ Held(Now, s)
  BY <1>2 DEF StateGood, Held
<1>5. /\ v \in SeatType /\ v.obj = Now.seat[s].obj
      /\ v.stop = Now.seat[s].stop /\ v.session = Now.seat[s].session
  BY <1>2, <1>3 DEF SeatType
<1>6. v.obj = "live" /\ (v.session = "ending" => v.stop)
  BY <1>4, <1>5 DEF SeatGood
<1> HIDE DEF v
<1>7. /\ m.manager = Now.manager /\ m.daemon = Now.daemon /\ m.seat[s] = v
      /\ \A t \in Objects : t # s => m.seat[t] = Now.seat[t]
  BY <1>3, <1>5, SeatFields
<1>8. StateGood(m, s)
  BY <1>2, <1>5, <1>6, ObjectFacts, SeatUpdateGood
<1>9. no \in BOOLEAN
  OBVIOUS
<1> HIDE DEF no, m
<1>10. f \in FrameType /\ f.kind = "login" /\ f.seat = s /\ Due(f) = s
  BY <1>9 DEF Frame, FrameType, Due
<1> HIDE DEF f
<1>11. /\ StateGood(n, NoSeat) /\ LogsIn(m, n, s)
       /\ n.manager = m.manager /\ n.daemon = m.daemon
  BY <1>1, <1>6, <1>7, <1>8, <1>10, CreateSessionGood
<1>12. Moves(Now, n)
  BY <1>5, <1>7, <1>11 DEF Moves, LogsIn, NoRelogin
<1>13. QED
  BY <1>1, <1>2, <1>11, <1>12, FaultKept, MovesStep

\* The end of a session, with the stop or the login that follows.
LEMMA SessionTerminatedGood ==
    ASSUME ManagerInv, NEW s \in Objects, SessionTerminated(s)
    PROVE  ManagerInv' /\ StepGood
<1>1. PICK relogin \in {AutoLogin, TRUE}, em \in BOOLEAN :
        \E n \in HandleSessionTerminated(Now, s, relogin, em) : Becomes(n)
  BY DEF SessionTerminated
<1>2. PICK n \in HandleSessionTerminated(Now, s, relogin, em) : Becomes(n)
  BY <1>1
<1>3. relogin \in BOOLEAN
  BY ManagerAssumption
<1>4. /\ StateGood(Now, NoSeat) /\ daemon.main # "exited"
      /\ Now.seat[s].session # "none" /\ UNCHANGED fault
  BY NowFields DEF SessionTerminated, Dispatching, ManagerInv
<1>5. StateGood(n, NoSeat) /\ Moves(Now, n)
  BY <1>2, <1>3, <1>4, HandleSessionTerminatedGood
<1>6. QED
  BY <1>2, <1>4, <1>5, FaultKept, MovesStep

\* _handle_error.
LEMMA SessionErrorGood ==
    ASSUME ManagerInv, NEW s \in Objects, SessionError(s)
    PROVE  ManagerInv' /\ StepGood
<1> DEFINE v == [Now.seat[s] EXCEPT !.session = "none"]
           m == PutSeat(Now, s, v)
<1>1. PICK em \in BOOLEAN : \E n \in Ended(m, em) : Becomes(n)
  BY DEF SessionError, PutSeat
<1>2. PICK n \in Ended(m, em) : Becomes(n)
  BY <1>1
<1>3. StateGood(Now, NoSeat) /\ daemon.main # "exited"
  BY DEF SessionError, Dispatching, ManagerInv
<1>4. Now \in StateType /\ Now.seat[s] \in SeatType
  BY <1>3 DEF StateGood, StateType
<1>5. /\ v \in SeatType /\ v.obj = Now.seat[s].obj /\ v.session = "none"
      /\ v.stop = Now.seat[s].stop /\ v.delayed = Now.seat[s].delayed
      /\ v.leaked = Now.seat[s].leaked
  BY <1>4 DEF SeatType
<1> HIDE DEF v
<1>6. /\ m.manager = Now.manager /\ m.daemon = Now.daemon /\ m.seat[s] = v
      /\ \A t \in Objects : t # s => m.seat[t] = Now.seat[t]
  BY <1>4, <1>5, SeatFields
<1>7. v.delayed > 0 \/ v.leaked => v.obj = "live"
  <2>1. v.delayed > 0 \/ v.leaked => Held(Now, s)
    BY <1>5 DEF Held
  <2>2. QED
    BY <1>3, <1>5, <2>1 DEF StateGood, SeatGood
<1>8. StateGood(m, NoSeat)
  BY <1>3, <1>5, <1>7, SeatUpdateGood
<1> HIDE DEF m
<1>9. StateGood(n, NoSeat) /\ Drops(m, n)
  BY <1>2, <1>8, EndedGood
<1>10. Moves(Now, n)
  BY <1>5, <1>6, <1>9 DEF Moves, Drops, NoRelogin
<1>11. fault' \in Faults
  BY HindersGood DEF SessionError, Faults
<1>12. QED
  BY <1>2, <1>3, <1>9, <1>10, <1>11, MovesStep

\* A nested loop returns to the function that ran it.
LEMMA LoopReturnsGood == ManagerInv /\ LoopReturns => ManagerInv' /\ StepGood
<1> SUFFICES ASSUME ManagerInv, LoopReturns PROVE ManagerInv' /\ StepGood
  OBVIOUS
<1> DEFINE f == Head(loops)
           st == [Now EXCEPT !.loops = Tail(@)]
<1>1. /\ StateGood(Now, NoSeat) /\ Now.loops # <<>> /\ f = Head(Now.loops)
      /\ daemon.main # "exited" /\ UNCHANGED fault
  BY NowFields DEF LoopReturns, ManagerInv
<1>2. /\ f \in FrameType /\ FrameGood(st, f)
      /\ StateGood(st, IF Holds(f) THEN f.seat ELSE NoSeat)
      /\ st.manager = Now.manager /\ st.daemon = Now.daemon
      /\ st.seat = Now.seat
  BY <1>1, PoppedGood
<1>3. f.kind \in {"plain", "login", "replaced", "removed"}
  BY <1>2 DEF FrameType
<1>4. \/ f.kind \in {"plain", "login"} /\ \E n \in Finish(st, f) : Becomes(n)
      \/ f.kind = "replaced" /\ \E n \in LoginFirst(st, f) : Becomes(n)
      \/ f.kind = "removed" /\ \E n \in AfterRemoval(st, f) : Becomes(n)
  <2> DEFINE W == CASE f.kind \in {"plain", "login"} -> Finish(st, f)
                    [] f.kind = "replaced" -> LoginFirst(st, f)
                    [] f.kind = "removed" -> AfterRemoval(st, f)
  <2>1. \E n \in W : Becomes(n)
    BY Zenon DEF LoopReturns
  <2>2. \/ f.kind \in {"plain", "login"} /\ W = Finish(st, f)
        \/ f.kind = "replaced" /\ W = LoginFirst(st, f)
        \/ f.kind = "removed" /\ W = AfterRemoval(st, f)
    <3> HIDE DEF f, st
    <3>1. QED
      BY <1>3
  <2> HIDE DEF W, f, st
  <2>3. QED
    BY <2>1, <2>2, Zenon
<1> HIDE DEF f, st
<1>5. CASE f.kind \in {"plain", "login"} /\ \E n \in Finish(st, f) : Becomes(n)
  <2>1. PICK n \in Finish(st, f) : Becomes(n)
    BY <1>5
  <2>2. StateGood(st, Due(f))
    BY <1>2, <1>5 DEF Due, Holds
  <2>3. f.caller = "delayed" =>
            f.seat \in Objects /\ st.seat[f.seat].obj # "none"
    BY <1>2 DEF FrameGood
  <2>4. StateGood(n, NoSeat) /\ Drops(st, n)
    BY <1>2, <2>1, <2>2, <2>3, FinishGood
  <2>5. Moves(Now, n)
    BY <1>2, <2>4 DEF Drops, Moves, NoRelogin
  <2>6. QED
    BY <1>1, <2>1, <2>4, <2>5, FaultKept, MovesStep
<1>6. CASE f.kind = "replaced" /\ \E n \in LoginFirst(st, f) : Becomes(n)
  <2>1. PICK n \in LoginFirst(st, f) : Becomes(n)
    BY <1>6
  <2>2. f.caller = "add" /\ f.seat \in Objects
    BY <1>2, <1>6 DEF FrameGood
  <2>3. StateGood(st, NoSeat)
    BY <1>2, <1>6, <2>2 DEF Holds
  <2>4. /\ StateGood(n, NoSeat) /\ LogsIn(st, n, f.seat)
        /\ n.manager = st.manager /\ n.daemon = st.daemon
    BY <1>2, <2>1, <2>2, <2>3, LoginFirstGood
  <2>5. Moves(Now, n)
    BY <1>2, <2>4 DEF LogsIn, Moves, NoRelogin
  <2>6. QED
    BY <1>1, <2>1, <2>4, <2>5, FaultKept, MovesStep
<1>7. CASE f.kind = "removed" /\ \E n \in AfterRemoval(st, f) : Becomes(n)
  <2>1. PICK n \in AfterRemoval(st, f) : Becomes(n)
    BY <1>7
  <2>2. /\ f.seat \in Objects /\ st.seat[f.seat].obj # "none"
        /\ st.daemon.sigterm = "spent"
    BY <1>2, <1>7 DEF FrameGood
  <2>3. StateGood(st, f.seat)
    BY <1>2, <1>7 DEF Holds
  <2>4. StateGood(n, NoSeat) /\ Removes(st, n)
    BY <1>2, <2>1, <2>2, <2>3, AfterRemovalGood
  <2>5. Moves(Now, n)
    BY <1>2, <2>4 DEF Removes, Moves, NoRelogin, Empty
  <2>6. QED
    BY <1>1, <2>1, <2>4, <2>5, FaultKept, MovesStep
<1>8. QED
  BY <1>4, <1>5, <1>6, <1>7

\* SIGTERM is delivered, or ends the process.
LEMMA SendSigtermGood == ManagerInv /\ SendSigterm => ManagerInv' /\ StepGood
<1> SUFFICES ASSUME ManagerInv, SendSigterm PROVE ManagerInv' /\ StepGood
  OBVIOUS
<1>1. PICK n : n = Sigterm(Now)
  OBVIOUS
<1>2. /\ StateGood(Now, NoSeat) /\ daemon.main # "exited" /\ UNCHANGED fault
      /\ Becomes(n)
  BY <1>1 DEF SendSigterm, ManagerInv
<1>3. Now \in StateType /\ daemon \in DaemonType
  BY <1>2, NowFields DEF StateGood, StateType
<1>4. CASE daemon.sigterm # "spent"
  <2> DEFINE d == [daemon EXCEPT !.sigterm = "pending"]
  <2>1. d \in DaemonType /\ d.main = daemon.main
    BY <1>3 DEF DaemonType
  <2>2. n = PutDaemon(Now, d)
    BY <1>1, <1>4, NowFields DEF Sigterm, PutDaemon
  <2> HIDE DEF d
  <2>3. daemon.main \notin {"quitting", "disposing", "exited"}
    BY <1>2, <1>4, NowFields DEF StateGood, DaemonGood
  <2>4. /\ StateGood(n, NoSeat) /\ n.manager = Now.manager
        /\ n.seat = Now.seat /\ n.daemon = d
    BY <1>2, <1>4, <2>1, <2>2, <2>3, NowFields, PutDaemonGood
  <2>5. Moves(Now, n)
    BY <2>1, <2>4, NowFields DEF Moves, NoRelogin
  <2>6. QED
    BY <1>2, <2>4, <2>5, FaultKept, MovesStep
<1>5. CASE daemon.sigterm = "spent"
  <2>1. n = [manager |-> NoManager, seat |-> [s \in Objects |-> NoObject],
             loops |-> <<>>,
             daemon |-> [main |-> "killed", sigterm |-> "spent"]]
    BY <1>1, <1>5, NowFields DEF Sigterm
  <2>2. /\ manager' = NoManager /\ seat' = [s \in Objects |-> NoObject]
        /\ loops' = <<>> /\ daemon' = [main |-> "killed", sigterm |-> "spent"]
    BY <1>2, <2>1 DEF Becomes
  <2>3. NoManager \in ManagerType /\ NoManager.todo = <<>>
    <3> DEFINE no == FALSE
    <3>1. /\ NoManager = [seats |-> [i \in Ids |-> NoSeat], watches |-> {},
                          leaked |-> no, todo |-> <<>>]
          /\ no \in BOOLEAN
      BY Zenon DEF NoManager
    <3> HIDE DEF no
    <3>2. <<>> \in Seq([id : Ids, again : BOOLEAN])
      OBVIOUS
    <3>3. QED
      BY <3>1, <3>2 DEF ManagerType
  <2>4. NoManager.seats = [i \in Ids |-> NoSeat] /\ NoManager.watches = {}
    BY DEF NoManager
  <2>5. /\ n.manager = NoManager /\ n.seat = [s \in Objects |-> NoObject]
        /\ n.loops = <<>> /\ n.daemon.main = "killed"
        /\ n.daemon \in DaemonType
    BY <2>1 DEF DaemonType
  <2>6. n \in StateType
    <3>1. [s \in Objects |-> NoObject] \in [Objects -> SeatType]
      BY NewSeatType DEF NoObject, SeatType
    <3>2. <<>> \in Seq(FrameType)
      OBVIOUS
    <3>3. [main |-> "killed", sigterm |-> "spent"] \in DaemonType
      BY DEF DaemonType
    <3> DEFINE a == [s \in Objects |-> NoObject]
               d == [main |-> "killed", sigterm |-> "spent"]
    <3> HIDE DEF a, d
    <3>4. n = [manager |-> NoManager, seat |-> a, loops |-> <<>>, daemon |-> d]
      BY <2>1 DEF a, d
    <3>5. QED
      BY <2>3, <3>1, <3>2, <3>3, <3>4 DEF StateType, a, d
  <2>7. DaemonGood(n)
    BY <2>5 DEF DaemonGood
  <2>8. StateGood(n, NoSeat)
    <3>1. \A j, k \in DOMAIN n.manager.todo :
            n.manager.todo[j].id = n.manager.todo[k].id => j = k
      BY <2>3, <2>5
    <3>2. QED
      BY <2>4, <2>5, <2>6, <2>7, <3>1, ClearGood
  <2>9. Now' = n
    BY <1>2, <2>6, NextRecord
  <2>10. ExitGood'
    BY <2>2 DEF ExitGood
  <2>11. StepGood
    <3>1. NoObject.session = "none" /\ daemon'.main = "killed"
      BY <2>2 DEF NoObject, NewSeat
    <3>2. QED
      BY <2>2, <3>1 DEF StepGood
  <2>12. QED
    BY <1>2, <2>8, <2>9, <2>10, <2>11, FaultKept DEF ManagerInv, Faults
<1>6. QED
  BY <1>4, <1>5

\* _on_sigterm_cb.
LEMMA OnSigtermGood == ManagerInv /\ OnSigterm => ManagerInv' /\ StepGood
<1> SUFFICES ASSUME ManagerInv, OnSigterm PROVE ManagerInv' /\ StepGood
  OBVIOUS
<1> DEFINE d == [daemon EXCEPT !.sigterm = "spent"]
           m == PutDaemon(Now, d)
<1>1. PICK n : n = Stop(m)
  OBVIOUS
<1>2. Becomes(n)
  BY <1>1, NowFields DEF OnSigterm, PutDaemon
<1>3. StateGood(Now, NoSeat) /\ daemon.main # "exited"
  BY DEF OnSigterm, Dispatching, ManagerInv
<1>4. daemon \in DaemonType
  BY <1>3, NowFields DEF StateGood, StateType
<1>5. d \in DaemonType /\ d.main = daemon.main /\ d.sigterm = "spent"
  BY <1>4 DEF DaemonType
<1> HIDE DEF d
<1>6. /\ StateGood(m, NoSeat) /\ m.manager = Now.manager
      /\ m.seat = Now.seat /\ m.daemon = d
  BY <1>3, <1>5, PutDaemonGood
<1> HIDE DEF m
<1>7. StateGood(n, NoSeat) /\ Moves(m, n)
  BY <1>1, <1>5, <1>6, StopGood
<1>8. Moves(Now, n)
  BY <1>5, <1>6, <1>7, NowFields DEF Moves, NoRelogin
<1>9. fault' \in Faults
  BY HindersGood DEF OnSigterm, Faults
<1>10. QED
  BY <1>2, <1>3, <1>7, <1>8, <1>9, MovesStep

\* main() enters and leaves its loop, and returns.
LEMMA MainGood ==
    ManagerInv /\ (RunLoop \/ LeaveLoop \/ Exit) => ManagerInv' /\ StepGood
<1> SUFFICES ASSUME ManagerInv, RunLoop \/ LeaveLoop \/ Exit
             PROVE  ManagerInv' /\ StepGood
  OBVIOUS
<1>1. /\ UNCHANGED <<manager, seat, loops, fault>> /\ loops = <<>>
      /\ StateGood(Now, NoSeat) /\ ExitGood
  BY DEF RunLoop, LeaveLoop, Exit, ManagerInv
<1>2. daemon \in DaemonType /\ (daemon.main \in {"quitting", "disposing"}
                                => daemon.sigterm = "spent")
  BY <1>1, NowFields DEF StateGood, StateType, DaemonGood
<1>3. PICK main : /\ daemon' = [daemon EXCEPT !.main = main]
                  /\ \/ daemon.main = "starting" /\ main = "running"
                     \/ /\ daemon.main = "quitting"
                        /\ main = IF manager.watches # {} \/ manager.leaked
                                  THEN "exited" ELSE "disposing"
                     \/ /\ daemon.main = "disposing" /\ main = "exited"
                        /\ Empty(Now)
  BY DEF RunLoop, LeaveLoop, Exit
<1>4. /\ daemon' \in DaemonType /\ daemon'.main = main
      /\ daemon'.sigterm = daemon.sigterm
  BY <1>2, <1>3 DEF DaemonType
<1>5. PICK d : d = daemon'
  OBVIOUS
<1>6. PICK n : n = PutDaemon(Now, d)
  OBVIOUS
<1>7. /\ StateGood(n, NoSeat) /\ n.manager = Now.manager
      /\ n.seat = Now.seat /\ n.loops = Now.loops /\ n.daemon = d
  <2>1. /\ d \in DaemonType
        /\ Now.daemon.sigterm = "spent" => d.sigterm = "spent"
    BY <1>4, <1>5, NowFields
  <2>2. d.main \in {"quitting", "disposing", "exited"} => d.sigterm = "spent"
    BY <1>2, <1>3, <1>4, <1>5
  <2>3. QED
    BY <1>1, <1>6, <2>1, <2>2, PutDaemonGood
<1>8. Becomes(n)
  BY <1>1, <1>5, <1>7, NowFields DEF Becomes
<1>9. n \in StateType
  BY <1>7 DEF StateGood
<1>10. Now' = n
  BY <1>8, <1>9, NextRecord
<1>11. ExitGood'
  BY <1>1, <1>3, <1>4, NowFields DEF ExitGood, Empty, Now
<1>12. StepGood
  BY <1>1, <1>3, <1>4 DEF StepGood
<1>13. QED
  BY <1>1, <1>7, <1>10, <1>11, <1>12 DEF ManagerInv

\* tlm_manager_dispose drops a seat of the table.
LEMMA DisposeSeatGood ==
    ASSUME ManagerInv, NEW i \in Ids, DisposeSeat(i)
    PROVE  ManagerInv' /\ StepGood
<1> DEFINE old == Now.manager.seats[i]
           m == OffTable(Now, i)
<1>1. PICK n \in UnrefLast(m, old) : Becomes(n)
  BY NowFields DEF DisposeSeat, OffTable
<1>2. /\ StateGood(Now, NoSeat) /\ daemon.main = "disposing"
      /\ old # NoSeat /\ UNCHANGED fault
  BY NowFields DEF DisposeSeat, ManagerInv
<1>3. Now.daemon.sigterm = "spent"
  BY <1>2, NowFields DEF StateGood, DaemonGood
<1>4. /\ StateGood(m, old) /\ m.seat = Now.seat /\ m.daemon = Now.daemon
      /\ m.manager.watches = Now.manager.watches
      /\ m.manager.leaked = Now.manager.leaked
      /\ old \in Objects /\ m.seat[old].obj = "live"
  BY <1>2, <1>3, RemoveGood
<1> HIDE DEF m, old
<1>5. StateGood(n, NoSeat) /\ Drops(m, n)
  BY <1>1, <1>4, UnrefLastGood
<1>6. Moves(Now, n)
  BY <1>4, <1>5 DEF Drops, Moves, NoRelogin
<1>7. QED
  BY <1>1, <1>2, <1>5, <1>6, FaultKept, MovesStep

\* ManagerInv is inductive: one case per action.
LEMMA ManagerStep ==
    ManagerInv /\ [ManagerNext]_vars =>
        ManagerInv' /\ (StepGood \/ UNCHANGED vars)
<1> SUFFICES ASSUME ManagerInv, [ManagerNext]_vars
             PROVE  ManagerInv' /\ (StepGood \/ UNCHANGED vars)
  OBVIOUS
<1>1. CASE UNCHANGED vars
  BY <1>1 DEF vars, ManagerInv, ExitGood, Now, Empty
<1>2. CASE Main
  BY <1>2, AddSeatGood, MainGood, DisposeSeatGood DEF Main
<1>3. CASE \E i \in Ids : WatchFires(i) \/ LoginUser(i)
  BY <1>3, WatchFiresGood, LoginUserGood
<1>4. CASE \E s \in Objects :
            \/ SeatRequest(s) \/ DelayedSession(s)
            \/ SessionTerminated(s) \/ SessionError(s)
  BY <1>4, SeatRequestGood, DelayedSessionGood, SessionTerminatedGood,
     SessionErrorGood
<1>5. CASE LoopReturns \/ SendSigterm \/ OnSigterm
  BY <1>5, LoopReturnsGood, SendSigtermGood, OnSigtermGood
<1>6. QED
  BY <1>1, <1>2, <1>3, <1>4, <1>5 DEF ManagerNext

\* The ids that tlm_manager_start goes through, each once.
LEMMA TodoStart ==
    LET ids == {[id |-> i, again |-> FALSE] : i \in Ids} IN
    /\ SetToSeq(ids) \in Seq([id : Ids, again : BOOLEAN])
    /\ \A j, k \in DOMAIN SetToSeq(ids) :
        SetToSeq(ids)[j].id = SetToSeq(ids)[k].id => j = k
<1> DEFINE no == FALSE
           ids == {[id |-> i, again |-> no] : i \in Ids}
           E == [id : Ids, again : BOOLEAN]
           q == SetToSeq(ids)
<1>0. no \in BOOLEAN
  OBVIOUS
<1>1. SUFFICES /\ q \in Seq(E)
               /\ \A j, k \in DOMAIN q : q[j].id = q[k].id => j = k
  BY Zenon DEF no
<1> HIDE DEF no
<1>2. ids \subseteq E /\ \A a, b \in ids : a.id = b.id => a = b
  BY <1>0
<1>3. IsFiniteSet(ids)
  <2> DEFINE F == [i \in Ids |-> [id |-> i, again |-> no]]
  <2>1. F \in Bijection(Ids, ids)
    BY DEF Bijection, Injection, Surjection, IsInjective
  <2>2. ExistsBijection(Ids, ids)
    BY <2>1 DEF ExistsBijection
  <2>3. QED
    BY <2>2, ManagerAssumption, FS_Bijection
<1> HIDE DEF ids
<1>4. /\ Cardinality(ids) \in Nat
      /\ \E g \in [1..Cardinality(ids) -> ids] : IsInjective(g)
  <2>1. Cardinality(ids) \in Nat /\ ExistsBijection(1..Cardinality(ids), ids)
    BY <1>3, FS_CardinalityType
  <2>2. QED
    BY <2>1 DEF ExistsBijection, Bijection, Injection
<1>5. q \in [1..Cardinality(ids) -> ids] /\ IsInjective(q)
  BY <1>4 DEF SetToSeq
<1> HIDE DEF q
<1>6. q \in [1..Cardinality(ids) -> E] /\ DOMAIN q = 1..Cardinality(ids)
  BY <1>2, <1>5
<1>7. q \in Seq(E)
  <2> DEFINE c == Cardinality(ids)
  <2> HIDE DEF c
  <2>1. c \in Nat /\ q \in [1..c -> E]
    BY <1>4, <1>6 DEF c
  <2>2. [1..c -> E] \in {[1..n -> E] : n \in Nat}
    BY <2>1
  <2>3. Seq(E) = UNION {[1..n -> E] : n \in Nat}
    BY SeqDef, Zenon
  <2>4. QED
    BY <2>1, <2>2, <2>3, Zenon
<1>8. \A j, k \in DOMAIN q : q[j].id = q[k].id => j = k
  BY <1>2, <1>5, <1>6 DEF IsInjective
<1>9. QED
  BY <1>7, <1>8

\* ManagerInv holds when tlm_manager_start begins.
LEMMA ManagerStart == ManagerInit => ManagerInv
<1> SUFFICES ASSUME ManagerInit PROVE ManagerInv
  OBVIOUS
<1> DEFINE ids == {[id |-> i, again |-> FALSE] : i \in Ids}
           q == SetToSeq(ids)
<1>1. /\ q \in Seq([id : Ids, again : BOOLEAN])
      /\ \A j, k \in DOMAIN q : q[j].id = q[k].id => j = k
  BY TodoStart, Zenon
<1>2. manager = [NoManager EXCEPT !.todo = q]
  BY DEF ManagerInit
<1> HIDE DEF ids, q
<1>3. NoManager.seats = [i \in Ids |-> NoSeat] /\ NoManager.watches = {}
  BY DEF NoManager
<1>4. NoManager \in ManagerType
  <2> DEFINE no == FALSE
  <2>1. /\ NoManager = [seats |-> [i \in Ids |-> NoSeat], watches |-> {},
                        leaked |-> no, todo |-> <<>>]
        /\ no \in BOOLEAN
    BY Zenon DEF NoManager
  <2> HIDE DEF no
  <2>2. <<>> \in Seq([id : Ids, again : BOOLEAN])
    OBVIOUS
  <2>3. QED
    BY <2>1, <2>2 DEF ManagerType
<1>5. /\ manager \in ManagerType /\ manager.todo = q
      /\ manager.seats = [i \in Ids |-> NoSeat] /\ manager.watches = {}
  BY <1>1, <1>2, <1>3, <1>4 DEF ManagerType
<1>6. seat \in [Objects -> SeatType]
  BY NewSeatType DEF ManagerInit, NoObject, SeatType
<1>7. /\ loops \in Seq(FrameType) /\ daemon \in DaemonType
      /\ daemon.main = "starting"
  BY DEF ManagerInit, DaemonType
<1>8. Now \in StateType
  BY <1>5, <1>6, <1>7 DEF Now, StateType
<1>9. DaemonGood(Now)
  BY <1>7, NowFields DEF DaemonGood
<1>10. /\ Now.seat = [s \in Objects |-> NoObject] /\ Now.loops = <<>>
  BY NowFields DEF ManagerInit
<1>11. StateGood(Now, NoSeat)
  BY <1>1, <1>5, <1>8, <1>9, <1>10, NowFields, ClearGood
<1>12. QED
  BY <1>7, <1>11 DEF ManagerInv, ExitGood, ManagerInit

\* ManagerInv holds throughout.
LEMMA AlwaysManagerInv == ManagerSpec => []ManagerInv
<1>1. ManagerInv /\ [ManagerNext]_vars => ManagerInv'
  BY ManagerStep
<1>2. QED
  BY <1>1, ManagerStart, PTL DEF ManagerSpec

-----------------------------------------------------------------------------
(* The theorems.                                                           *)

\* The state of the manager, its seats and its nested loops is well typed.
THEOREM ManagerTypeCorrect == ManagerSpec => []ManagerTypeOK
<1>1. ManagerInv => ManagerTypeOK
  BY NowFields DEF ManagerInv, StateGood, StateType, ManagerTypeOK
<1>2. QED
  BY <1>1, AlwaysManagerInv, PTL

\* tlm_seat_create_session and _create_seat come back from a nested loop to a
\* seat that still exists, unless tlm_manager_stop or the watch of the seat
\* ran in the loop: the reference counts of TlmSeat are right.
THEOREM LoginKeepsSeat == ManagerSpec => []SeatOutlivesLogin
<1>1. ManagerInv => SeatOutlivesLogin
  <2> SUFFICES ASSUME ManagerInv, NEW k \in DOMAIN loops,
                      loops[k].kind \in {"login", "replaced"},
                      seat[loops[k].seat].obj = "freed"
               PROVE  /\ loops[k].caller # "delayed"
                      /\ \/ daemon.sigterm = "spent"
                         \/ /\ loops[k].seat[2] = 1
                            /\ seat[<<loops[k].seat[1], 2>>].obj # "none"
    BY DEF SeatOutlivesLogin
  <2> DEFINE f == loops[k]
             s == f.seat
  <2>1. StateGood(Now, NoSeat) /\ FrameGood(Now, f)
    BY NowFields DEF ManagerInv, StateGood
  <2>2. s \in Objects
    BY <2>1 DEF FrameGood
  <2>3. SeatGood(Now, NoSeat, s)
    BY <2>1, <2>2 DEF StateGood
  <2>4. ~Held(Now, s)
    BY <2>3, NowFields DEF SeatGood
  <2>5. f.caller # "delayed"
    BY <2>4, NowFields DEF Held
  <2>6. \A i \in Ids : manager.seats[i] # s
    BY <2>4, NowFields DEF Held
  <2>7. Placed(Now, s) /\ s[1] \in Ids
    BY <2>2, <2>3, NowFields, ObjectFacts DEF SeatGood
  <2>8. QED
    BY <2>5, <2>6, <2>7, NowFields DEF Placed
<1>2. QED
  BY <1>1, AlwaysManagerInv, PTL

\* When main() has disposed of the manager no session runs on, but on seats
\* that a delayed login or a leaked reference holds.
THEOREM ExitLeavesNothing == ManagerSpec => []ExitClean
<1>1. ManagerInv => ExitClean
  <2> SUFFICES ASSUME ManagerInv, daemon.main = "exited",
                      manager.watches = {}, ~manager.leaked,
                      NEW s \in Objects, seat[s].session # "none"
               PROVE  seat[s].leaked \/ seat[s].delayed > 0
    BY DEF ExitClean
  <2>1. loops = <<>> /\ Empty(Now) /\ StateGood(Now, NoSeat)
    BY DEF ManagerInv, ExitGood
  <2>2. SeatGood(Now, NoSeat, s) /\ s # NoSeat
    BY <2>1, ObjectFacts DEF StateGood
  <2>3. Held(Now, s)
    BY <2>2, NowFields DEF SeatGood
  <2>4. DOMAIN loops = {}
    BY <2>1
  <2>5. QED
    BY <2>1, <2>2, <2>3, <2>4, NowFields DEF Held, Empty
<1>2. QED
  BY <1>1, AlwaysManagerInv, PTL

\* manager-stopped reaches main() only when the table of seats is empty.
THEOREM StopsWhenEmpty == ManagerSpec => StoppedWhenEmpty
<1>1. ManagerInv /\ [ManagerNext]_vars =>
        [daemon.main # "quitting" /\ daemon'.main = "quitting"
         => \A i \in Ids : manager'.seats[i] = NoSeat]_vars
  BY ManagerStep DEF StepGood
<1>2. QED
  BY <1>1, AlwaysManagerInv, PTL DEF ManagerSpec, StoppedWhenEmpty

\* The end of a session that tlm_manager_stop has terminated starts no other.
THEOREM StopIsFinal == ManagerSpec => NoReloginInStop
<1>1. ManagerInv /\ [ManagerNext]_vars =>
        [\A s \in Objects :
            seat[s].session = "ending" => seat'[s].session # "up"]_vars
  BY ManagerStep DEF StepGood
<1>2. QED
  BY <1>1, AlwaysManagerInv, PTL DEF ManagerSpec, NoReloginInStop
=============================================================================
