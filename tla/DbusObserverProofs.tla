------------------------- MODULE DbusObserverProofs -------------------------
(***************************************************************************)
(* Proofs about the D-Bus observers, for any number of requests, clients   *)
(* and nested loops.  ObserverInv is inductive; BusGood, its part about    *)
(* requests and answers, also holds between two calls of a handler.        *)
(***************************************************************************)
EXTENDS DbusObserver, TLAPS

-----------------------------------------------------------------------------
(* The inductive invariant.                                                *)

\* The observers with the answers given.
BusType == [observer : [Observers -> ObserverType],
            answers : [Requests -> Seq(Answers)]]

\* The requests that an observer o holds.
HeldBy(o) == ToSet(o.request_queue) \cup ({o.active_request} \ {NoRequest})

\* A request is in one place of the observer, and the idle source is attached
\* only when there is a request in the queue.
QueueGood(o) ==
    /\ \A i, j \in DOMAIN o.request_queue :
            o.request_queue[i] = o.request_queue[j] => i = j
    /\ o.active_request \notin ToSet(o.request_queue)
    /\ o.request_id => o.request_queue # <<>>

\* q was made, and on an observer that takes such calls.
Accepted(c, q) == c[q].type # "none" /\ Handled(c[q].to, c[q].type)

\* An observer holds what was made on it, is accepted, and is not answered;
\* what was accepted and is not held any more has one answer.
BusGood(b, c) ==
    /\ b \in BusType
    /\ \A name \in Observers : QueueGood(b.observer[name])
    /\ \A name \in Observers : \A q \in HeldBy(b.observer[name]) :
            c[q].to = name /\ Accepted(c, q)
    /\ \A q \in Requests :
            Len(b.answers[q]) =
                IF Accepted(c, q) /\ q \notin HeldBy(b.observer[c[q].to])
                THEN 1 ELSE 0

\* A request is active only in a login that waits in a nested loop of the
\* seat, or in the observer who that is being called.
ActiveGood(b, c, stk, who) ==
    \A name \in Observers \ {who} :
        b.observer[name].active_request # NoRequest =>
            /\ name = "root" /\ name \in ToSet(stk)
            /\ c[b.observer[name].active_request].type # "logout"

\* The seat has no session, and so no observer.
SeatGone(o) == /\ ~o.alive /\ o.clients = {} /\ o.request_queue = <<>>
               /\ ~o.request_id /\ o.active_request = NoRequest

\* The invariant between two callbacks.
ObserverInv ==
    /\ BusGood(bus, call)
    /\ call \in [Requests -> CallType]
    /\ session \in BOOLEAN
    /\ loops \in Seq(Observers \cup {"other"})
    /\ ActiveGood(bus, call, loops, "nobody")
    /\ ~session => SeatGone(bus.observer["seat"])
-----------------------------------------------------------------------------
(* One observer changes, and some of its requests are answered.            *)

\* The observer name becomes o, and the requests in qs get the answer a.
Settle(b, name, o, qs, a) ==
    [observer |-> [b.observer EXCEPT ![name] = o],
     answers |-> [q \in Requests |->
        IF q \in qs THEN Append(b.answers[q], a) ELSE b.answers[q]]]

\* What is answered was held, and is held no longer.
LEMMA SettleGood ==
    ASSUME NEW b, NEW c \in [Requests -> CallType], BusGood(b, c),
           NEW name \in Observers, NEW o \in ObserverType, QueueGood(o),
           NEW qs, qs \subseteq HeldBy(b.observer[name]),
           HeldBy(o) = HeldBy(b.observer[name]) \ qs, NEW a \in Answers
    PROVE  LET n == Settle(b, name, o, qs, a) IN
           /\ BusGood(n, c)
           /\ n.observer[name] = o
           /\ \A m \in Observers : m # name => n.observer[m] = b.observer[m]
<1> DEFINE n == Settle(b, name, o, qs, a)
<1>1. /\ b.observer \in [Observers -> ObserverType]
      /\ n.observer[name] = o
      /\ \A m \in Observers : m # name => n.observer[m] = b.observer[m]
      /\ \A q \in Requests :
            n.answers[q] = IF q \in qs THEN Append(b.answers[q], a)
                           ELSE b.answers[q]
  BY DEF BusGood, BusType, Settle
<1>2. n \in BusType
  BY DEF BusGood, BusType, Settle
<1> HIDE DEF n
<1>3. \A m \in Observers : QueueGood(n.observer[m])
  BY <1>1 DEF BusGood
<1>4. \A m \in Observers : HeldBy(n.observer[m]) \subseteq HeldBy(b.observer[m])
  BY <1>1
<1>5. \A m \in Observers : \A q \in HeldBy(n.observer[m]) :
            c[q].to = m /\ Accepted(c, q)
  BY <1>4 DEF BusGood
<1>6. ASSUME NEW q \in Requests
      PROVE  Len(n.answers[q]) =
                IF Accepted(c, q) /\ q \notin HeldBy(n.observer[c[q].to])
                THEN 1 ELSE 0
  <2>1. /\ b.answers[q] \in Seq(Answers)
        /\ Len(Append(b.answers[q], a)) = Len(b.answers[q]) + 1
        /\ c[q].to \in Observers
    BY DEF BusGood, BusType, CallType
  <2>2. CASE q \in qs
    <3>1. c[q].to = name /\ Accepted(c, q) /\ q \notin HeldBy(n.observer[name])
      BY <1>1, <2>2 DEF BusGood
    <3>2. Len(b.answers[q]) = 0
      BY <2>2, <3>1 DEF BusGood
    <3>3. n.answers[q] = Append(b.answers[q], a)
      BY <1>1, <2>2
    <3>4. Len(n.answers[q]) = 1
      BY <2>1, <3>2, <3>3
    <3>5. QED
      BY <3>1, <3>4
  <2>3. CASE q \notin qs
    <3>1. q \in HeldBy(n.observer[c[q].to]) <=>
                q \in HeldBy(b.observer[c[q].to])
      BY <1>1, <2>1, <2>3
    <3>2. n.answers[q] = b.answers[q]
      BY <1>1, <2>3
    <3>3. QED
      BY <3>1, <3>2 DEF BusGood
  <2>4. QED
    BY <2>2, <2>3
<1>7. QED
  BY <1>1, <1>2, <1>3, <1>5, <1>6 DEF BusGood, n

\* ... of which none is answered.
LEMMA Moved ==
    ASSUME NEW b, NEW c \in [Requests -> CallType], BusGood(b, c),
           NEW name \in Observers, NEW o \in ObserverType, QueueGood(o),
           HeldBy(o) = HeldBy(b.observer[name])
    PROVE  LET n == [b EXCEPT !.observer[name] = o] IN
           /\ BusGood(n, c)
           /\ n.observer[name] = o
           /\ \A m \in Observers : m # name => n.observer[m] = b.observer[m]
<1> DEFINE n == [b EXCEPT !.observer[name] = o]
<1>1. n = Settle(b, name, o, {}, "ok")
  <2>1. b.answers = [q \in Requests |-> b.answers[q]]
    BY DEF BusGood, BusType
  <2>2. [q \in Requests |-> IF q \in {} THEN Append(b.answers[q], "ok")
                            ELSE b.answers[q]] = b.answers
    BY <2>1
  <2>3. n = [observer |-> [b.observer EXCEPT ![name] = o],
             answers |-> b.answers]
    <3> DEFINE f == [b.observer EXCEPT ![name] = o]
    <3>1. n = [b EXCEPT !.observer = f]
      OBVIOUS
    <3>2. b = [observer |-> b.observer, answers |-> b.answers]
      BY DEF BusGood, BusType
    <3> HIDE DEF f, n
    <3>3. n = [observer |-> f, answers |-> b.answers]
      BY <3>1, <3>2
    <3>4. QED
      BY <3>3 DEF f
  <2>4. QED
    BY <2>2, <2>3 DEF Settle
<1>2. /\ {} \subseteq HeldBy(b.observer[name]) /\ "ok" \in Answers
      /\ HeldBy(o) = HeldBy(b.observer[name]) \ {}
  BY DEF Answers
<1> HIDE DEF n
<1>3. /\ BusGood(n, c) /\ n.observer[name] = o
      /\ \A m \in Observers : m # name => n.observer[m] = b.observer[m]
  BY <1>1, <1>2, SettleGood
<1>4. QED
  BY <1>3 DEF n

\* _complete_request and _dispose_request on the active request.
LEMMA CompleteActiveGood ==
    ASSUME NEW b, NEW c \in [Requests -> CallType], BusGood(b, c),
           NEW name \in Observers, NEW a \in Answers,
           NEW n, n = CompleteActive(b, name, a)
    PROVE  /\ BusGood(n, c)
           /\ n.observer[name] =
                [b.observer[name] EXCEPT !.active_request = NoRequest]
           /\ \A m \in Observers : m # name => n.observer[m] = b.observer[m]
<1> DEFINE o == [b.observer[name] EXCEPT !.active_request = NoRequest]
           qs == {b.observer[name].active_request} \ {NoRequest}
           answers == [q \in Requests |->
                IF q \in qs THEN Append(b.answers[q], a) ELSE b.answers[q]]
<1>1. /\ b \in BusType /\ b.observer \in [Observers -> ObserverType]
      /\ b.observer[name] \in ObserverType
  BY DEF BusGood, BusType
<1>2. o \in ObserverType
  BY <1>1 DEF ObserverType
<1>3. n = Settle(b, name, o, qs, a)
  <2>1. n = [[b EXCEPT !.answers = answers] EXCEPT
                !.observer[name].active_request = NoRequest]
    BY DEF CompleteActive, Complete
  <2>2. Settle(b, name, o, qs, a) =
            [observer |-> [b.observer EXCEPT ![name] = o], answers |-> answers]
    BY DEF Settle
  <2> HIDE DEF answers
  <2>3. [b EXCEPT !.answers = answers] =
            [observer |-> b.observer, answers |-> answers]
    BY <1>1 DEF BusType
  <2>4. QED
    BY <1>1, <2>1, <2>2, <2>3
<1>5. /\ QueueGood(b.observer[name])
      /\ o.request_queue = b.observer[name].request_queue
      /\ o.request_id = b.observer[name].request_id
      /\ o.active_request = NoRequest
      /\ ToSet(o.request_queue) \subseteq Requests
  BY <1>1 DEF BusGood, ObserverType, ToSet
<1>6. /\ QueueGood(o)
      /\ qs \subseteq HeldBy(b.observer[name])
      /\ HeldBy(o) = HeldBy(b.observer[name]) \ qs
  BY <1>5, ObserverAssumption DEF QueueGood, HeldBy
<1> HIDE DEF o, qs
<1>7. /\ BusGood(n, c) /\ n.observer[name] = o
      /\ \A m \in Observers : m # name => n.observer[m] = b.observer[m]
  BY <1>2, <1>3, <1>6, SettleGood
<1>8. QED
  BY <1>7 DEF o

\* _process_next_request_in_idle.
LEMMA InIdleGood ==
    ASSUME NEW o \in ObserverType, QueueGood(o)
    PROVE  LET p == ProcessNextInIdle(o) IN
           /\ p \in ObserverType /\ QueueGood(p) /\ HeldBy(p) = HeldBy(o)
           /\ p.active_request = o.active_request
<1>1. CASE o.request_queue = <<>>
  BY <1>1 DEF ProcessNextInIdle
<1>2. CASE o.request_queue # <<>>
  <2> DEFINE p == [o EXCEPT !.request_id = TRUE]
  <2>1. /\ p \in ObserverType /\ p.request_queue = o.request_queue
        /\ p.active_request = o.active_request
    BY DEF ObserverType
  <2>2. ProcessNextInIdle(o) = p
    BY <1>2 DEF ProcessNextInIdle
  <2> HIDE DEF p
  <2>3. QED
    BY <1>2, <2>1, <2>2 DEF QueueGood, HeldBy
<1>3. QED
  BY <1>1, <1>2

\* A signal of the seat leaves root without an active request.
LEMMA SeatSignalGood ==
    ASSUME NEW b, NEW c \in [Requests -> CallType], BusGood(b, c),
           NEW a \in Answers, NEW n, n = SeatSignal(b, a)
    PROVE  /\ BusGood(n, c)
           /\ n.observer["root"].active_request = NoRequest
           /\ n.observer["seat"] = b.observer["seat"]
<1>1. CASE b.observer["root"].active_request = NoRequest
  BY <1>1 DEF SeatSignal
<1>2. CASE b.observer["root"].active_request # NoRequest
  <2> DEFINE m == CompleteActive(b, "root", a)
             o == ProcessNextInIdle(m.observer["root"])
  <2>1. n = [m EXCEPT !.observer["root"] = o]
    BY <1>2 DEF SeatSignal
  <2>2. "root" \in Observers /\ "seat" \in Observers /\ "seat" # "root"
    BY DEF Observers
  <2>3. /\ BusGood(m, c)
        /\ m.observer["root"] =
                [b.observer["root"] EXCEPT !.active_request = NoRequest]
        /\ m.observer["seat"] = b.observer["seat"]
    BY <2>2, CompleteActiveGood
  <2>4. b.observer["root"] \in ObserverType
    BY <2>2 DEF BusGood, BusType
  <2>5. m.observer["root"].active_request = NoRequest
    BY <2>3, <2>4 DEF ObserverType
  <2> HIDE DEF m
  <2>6. m.observer["root"] \in ObserverType /\ QueueGood(m.observer["root"])
    BY <2>2, <2>3 DEF BusGood, BusType
  <2>7. /\ o \in ObserverType /\ QueueGood(o)
        /\ HeldBy(o) = HeldBy(m.observer["root"])
        /\ o.active_request = NoRequest
    BY <2>5, <2>6, InIdleGood
  <2> HIDE DEF o
  <2>8. QED
    BY <2>1, <2>2, <2>3, <2>7, Moved
<1>3. QED
  BY <1>1, <1>2

\* A request is taken off the queue.
LEMMA QueueTail ==
    ASSUME NEW s \in Seq(Requests), s # <<>>,
           \A i, j \in DOMAIN s : s[i] = s[j] => i = j
    PROVE  /\ Head(s) \in Requests /\ Tail(s) \in Seq(Requests)
           /\ ToSet(s) = ToSet(Tail(s)) \cup {Head(s)}
           /\ Head(s) \notin ToSet(Tail(s))
           /\ \A i, j \in DOMAIN Tail(s) : Tail(s)[i] = Tail(s)[j] => i = j
<1>1. /\ Len(s) \in Nat /\ Len(s) > 0 /\ DOMAIN s = 1..Len(s)
      /\ Head(s) = s[1] /\ Tail(s) \in Seq(Requests)
      /\ Len(Tail(s)) = Len(s) - 1 /\ DOMAIN Tail(s) = 1..(Len(s) - 1)
      /\ \A i \in DOMAIN Tail(s) : Tail(s)[i] = s[i + 1]
  OBVIOUS
<1>2. ToSet(s) \subseteq ToSet(Tail(s)) \cup {Head(s)}
  <2>1. ASSUME NEW i \in DOMAIN s
        PROVE  s[i] \in ToSet(Tail(s)) \cup {Head(s)}
    <3>1. CASE i = 1
      BY <1>1, <3>1
    <3>2. CASE i # 1
      <4>1. i - 1 \in DOMAIN Tail(s) /\ Tail(s)[i - 1] = s[i]
        BY <1>1, <3>2
      <4>2. QED
        BY <4>1 DEF ToSet
    <3>3. QED
      BY <3>1, <3>2
  <2>2. QED
    BY <2>1 DEF ToSet
<1>3. ToSet(Tail(s)) \cup {Head(s)} \subseteq ToSet(s)
  BY <1>1 DEF ToSet
<1>4. Head(s) \notin ToSet(Tail(s))
  BY <1>1 DEF ToSet
<1>5. \A i, j \in DOMAIN Tail(s) : Tail(s)[i] = Tail(s)[j] => i = j
  BY <1>1
<1>6. QED
  BY <1>1, <1>2, <1>3, <1>4, <1>5

\* A request joins the queue.
LEMMA QueueAppend ==
    ASSUME NEW s \in Seq(Requests), NEW q \in Requests, q \notin ToSet(s),
           \A i, j \in DOMAIN s : s[i] = s[j] => i = j
    PROVE  LET t == Append(s, q) IN
           /\ t \in Seq(Requests) /\ t # <<>>
           /\ ToSet(t) = ToSet(s) \cup {q}
           /\ \A i, j \in DOMAIN t : t[i] = t[j] => i = j
<1> DEFINE t == Append(s, q)
<1>1. /\ t \in Seq(Requests) /\ t # <<>>
      /\ Len(s) \in Nat /\ DOMAIN s = 1..Len(s) /\ DOMAIN t = 1..(Len(s) + 1)
      /\ t[Len(s) + 1] = q /\ \A i \in DOMAIN s : t[i] = s[i]
  OBVIOUS
<1> HIDE DEF t
<1>2. ToSet(t) = ToSet(s) \cup {q}
  <2>1. \A i \in DOMAIN t : t[i] \in ToSet(s) \cup {q}
    BY <1>1 DEF ToSet
  <2>2. \A i \in DOMAIN s : s[i] \in ToSet(t)
    BY <1>1 DEF ToSet
  <2>3. q \in ToSet(t)
    BY <1>1 DEF ToSet
  <2>4. QED
    BY <2>1, <2>2, <2>3 DEF ToSet
<1>3. \A i, j \in DOMAIN t : t[i] = t[j] => i = j
  BY <1>1 DEF ToSet
<1>4. QED
  BY <1>1, <1>2, <1>3 DEF t

\* A call of a nested loop.
LEMMA LoopPushed ==
    ASSUME NEW w \in Observers \cup {"other"},
           NEW s \in Seq(Observers \cup {"other"})
    PROVE  /\ <<w>> \o s \in Seq(Observers \cup {"other"})
           /\ ToSet(<<w>> \o s) = ToSet(s) \cup {w}
<1> DEFINE t == <<w>> \o s
<1>1. /\ t \in Seq(Observers \cup {"other"}) /\ Len(s) \in Nat
      /\ DOMAIN s = 1..Len(s) /\ DOMAIN t = 1..(Len(s) + 1) /\ t[1] = w
      /\ \A i \in DOMAIN s : t[i + 1] = s[i]
      /\ \A i \in DOMAIN t : i # 1 => t[i] = s[i - 1]
  OBVIOUS
<1> HIDE DEF t
<1>2. \A i \in DOMAIN t : t[i] \in ToSet(s) \cup {w}
  BY <1>1 DEF ToSet
<1>3. \A i \in DOMAIN s : s[i] \in ToSet(t)
  BY <1>1 DEF ToSet
<1>4. w \in ToSet(t)
  BY <1>1 DEF ToSet
<1>5. QED
  BY <1>1, <1>2, <1>3, <1>4 DEF ToSet, t

\* _process_request makes a request active.
LEMMA StartedGood ==
    ASSUME NEW o \in ObserverType, QueueGood(o), o.request_id
    PROVE  LET p == Started(o) IN
           /\ p \in ObserverType /\ QueueGood(p) /\ HeldBy(p) = HeldBy(o)
           /\ p.active_request = Chosen(o) /\ Chosen(o) \in HeldBy(o)
           /\ Chosen(o) \in Requests
<1> DEFINE s == o.request_queue
<1>1. /\ s \in Seq(Requests) /\ s # <<>>
      /\ \A i, j \in DOMAIN s : s[i] = s[j] => i = j
  BY DEF ObserverType, QueueGood
<1>2. /\ Head(s) \in Requests /\ Tail(s) \in Seq(Requests)
      /\ ToSet(s) = ToSet(Tail(s)) \cup {Head(s)}
      /\ Head(s) \notin ToSet(Tail(s))
      /\ \A i, j \in DOMAIN Tail(s) : Tail(s)[i] = Tail(s)[j] => i = j
  BY <1>1, QueueTail
<1> DEFINE rest == IF o.active_request # NoRequest THEN s ELSE Tail(s)
           a == Chosen(o)
           p == [o EXCEPT !.request_id = FALSE, !.active_request = a,
                          !.request_queue = rest]
<1>3. Started(o) = p
  BY DEF Started
<1>4. /\ rest \in Seq(Requests) /\ a \in Requests /\ a \notin ToSet(rest)
      /\ \A i, j \in DOMAIN rest : rest[i] = rest[j] => i = j
      /\ HeldBy(o) = ToSet(rest) \cup {a}
  <2>1. CASE o.active_request # NoRequest
    BY <1>1, <2>1 DEF Chosen, ObserverType, HeldBy, QueueGood
  <2>2. CASE o.active_request = NoRequest
    BY <1>1, <1>2, <2>2 DEF Chosen, HeldBy
  <2>3. QED
    BY <2>1, <2>2
<1> HIDE DEF rest, a
<1>5. /\ p \in ObserverType /\ p.request_queue = rest
      /\ p.active_request = a /\ p.request_id = FALSE
  BY <1>4 DEF ObserverType
<1> HIDE DEF p
<1>6. QueueGood(p) /\ HeldBy(p) = HeldBy(o)
  BY <1>4, <1>5, ObserverAssumption DEF QueueGood, HeldBy
<1>7. QED
  BY <1>3, <1>4, <1>5, <1>6 DEF a

\* tlm_dbus_observer_dispose answers everything the seat's observer holds.
LEMMA DisposeGood ==
    ASSUME NEW b, NEW c \in [Requests -> CallType], BusGood(b, c),
           NEW n, n = DisposeObserver(b)
    PROVE  /\ BusGood(n, c) /\ SeatGone(n.observer["seat"])
           /\ n.observer["root"] = b.observer["root"]
<1> DEFINE m == CompleteActive(b, "seat", "aborted")
           old == m.observer["seat"]
           qs == ToSet(b.observer["seat"].request_queue)
           o == [ServerStop(old) EXCEPT !.alive = FALSE, !.request_id = FALSE,
                                        !.request_queue = <<>>]
           answers == [q \in Requests |->
                IF q \in qs THEN Append(m.answers[q], "aborted")
                ELSE m.answers[q]]
<1>1. /\ "seat" \in Observers /\ "root" \in Observers /\ "root" # "seat"
      /\ "aborted" \in Answers
  BY DEF Observers, Answers
<1>2. /\ BusGood(m, c)
      /\ old = [b.observer["seat"] EXCEPT !.active_request = NoRequest]
      /\ m.observer["root"] = b.observer["root"]
  BY <1>1, CompleteActiveGood
<1>3. n = Settle(m, "seat", o, qs, "aborted")
  <2>1. n = [[m EXCEPT !.answers = answers] EXCEPT !.observer["seat"] =
                [ServerStop(@) EXCEPT !.alive = FALSE, !.request_id = FALSE,
                                      !.request_queue = <<>>]]
    BY DEF DisposeObserver, Complete
  <2>2. Settle(m, "seat", o, qs, "aborted") =
            [observer |-> [m.observer EXCEPT !["seat"] = o],
             answers |-> answers]
    BY DEF Settle
  <2>3. m \in BusType
    BY <1>2 DEF BusGood
  <2> HIDE DEF answers, m
  <2>4. [m EXCEPT !.answers = answers] =
            [observer |-> m.observer, answers |-> answers]
    BY <2>3 DEF BusType
  <2>5. QED
    BY <2>1, <2>2, <2>4
<1>4. b.observer["seat"] \in ObserverType
  BY <1>1 DEF BusGood, BusType
<1>5. /\ old \in ObserverType
      /\ old.request_queue = b.observer["seat"].request_queue
      /\ old.active_request = NoRequest
  BY <1>2, <1>4 DEF ObserverType
<1> HIDE DEF m, old
<1>6. /\ o \in ObserverType /\ o.request_queue = <<>> /\ ~o.request_id
      /\ o.active_request = NoRequest /\ o.clients = {} /\ ~o.alive
  <2> DEFINE s == ServerStop(old)
             no == FALSE
             empty == <<>>
  <2>1. s \in ObserverType /\ s.clients = {} /\ s.active_request = NoRequest
    BY <1>5 DEF ObserverType, ServerStop
  <2>2. no \in BOOLEAN /\ empty \in Seq(Requests)
    OBVIOUS
  <2>3. o = [s EXCEPT !.alive = no, !.request_id = no, !.request_queue = empty]
    OBVIOUS
  <2> HIDE DEF s, no, empty, o
  <2>4. /\ o \in ObserverType /\ o.request_queue = empty /\ o.request_id = no
        /\ o.active_request = NoRequest /\ o.clients = {} /\ o.alive = no
    BY <2>1, <2>2, <2>3 DEF ObserverType
  <2>5. QED
    BY <2>4 DEF no, empty
<1> HIDE DEF o
<1>7. ToSet(<<>>) = {}
  BY DEF ToSet
<1>8. /\ QueueGood(o) /\ HeldBy(o) = {} /\ HeldBy(old) = qs
  BY <1>5, <1>6, <1>7 DEF QueueGood, HeldBy
<1> HIDE DEF qs
<1>9. BusGood(n, c) /\ n.observer["seat"] = o
      /\ n.observer["root"] = m.observer["root"]
  BY <1>1, <1>2, <1>3, <1>6, <1>8, SettleGood DEF old
<1>10. QED
  BY <1>2, <1>6, <1>9 DEF SeatGone

\* tlm_dbus_observer_new for a new session.
LEMMA NewObserverGood ==
    ASSUME NEW b, NEW c \in [Requests -> CallType], BusGood(b, c),
           SeatGone(b.observer["seat"]),
           NEW n, n = [b EXCEPT !.observer["seat"] = NewObserver]
    PROVE  /\ BusGood(n, c) /\ n.observer["seat"] = NewObserver
           /\ n.observer["root"] = b.observer["root"]
<1>1. "seat" \in Observers /\ "root" \in Observers /\ "root" # "seat"
  BY DEF Observers
<1>2. ToSet(<<>>) = {}
  BY DEF ToSet
<1>3. NewObserver \in ObserverType
  BY DEF NewObserver, ObserverType
<1>4. /\ QueueGood(NewObserver) /\ HeldBy(NewObserver) = {}
      /\ HeldBy(b.observer["seat"]) = {}
  BY <1>2 DEF QueueGood, HeldBy, NewObserver, SeatGone
<1>5. QED
  BY <1>1, <1>3, <1>4, Moved

-----------------------------------------------------------------------------
(* The seat's functions.                                                   *)

\* What a handler leaves.
Left == /\ BusGood(bus', call)
        /\ session' \in BOOLEAN
        /\ loops' \in Seq(Observers \cup {"other"})
        /\ ActiveGood(bus', call, loops', "nobody")
        /\ ~session' => SeatGone(bus'.observer["seat"])

\* Who calls the seat.
Callers == Observers \cup {"other"}

\* "other" is no observer.
LEMMA NoCaller ==
    ASSUME NEW b, NEW c, NEW stk,
           \/ ActiveGood(b, c, stk, "other")
           \/ ActiveGood(b, c, stk, "nobody")
    PROVE  \A who \in {"other", "nobody"} : ActiveGood(b, c, stk, who)
BY DEF ActiveGood, Observers

\* The call returns, and its request is no longer active.
LEMMA ReturnsGood ==
    ASSUME call \in [Requests -> CallType], NEW b, BusGood(b, call),
           NEW who \in Callers, NEW stk, ActiveGood(b, call, stk, who),
           Returns(b, who)
    PROVE  /\ BusGood(bus', call) /\ ActiveGood(bus', call, stk, "nobody")
           /\ SeatGone(b.observer["seat"]) => SeatGone(bus'.observer["seat"])
<1>1. CASE who = "other"
  BY <1>1, NoCaller DEF Returns
<1>2. CASE who # "other"
  <2>1. who \in Observers /\ "ok" \in Answers /\ "seat" \in Observers
    BY <1>2 DEF Callers, Answers, Observers
  <2>2. bus' = CompleteActive(b, who, "ok")
    BY <1>2 DEF Returns
  <2>3. /\ BusGood(bus', call)
        /\ bus'.observer[who] =
                [b.observer[who] EXCEPT !.active_request = NoRequest]
        /\ \A m \in Observers : m # who => bus'.observer[m] = b.observer[m]
    BY <2>1, <2>2, CompleteActiveGood
  <2>4. b.observer[who] \in ObserverType
    BY <2>1 DEF BusGood, BusType
  <2>5. bus'.observer[who].active_request = NoRequest
    BY <2>3, <2>4 DEF ObserverType
  <2>6. ActiveGood(bus', call, stk, "nobody")
    <3>1. ASSUME NEW name \in Observers,
                 bus'.observer[name].active_request # NoRequest
          PROVE  /\ name = "root" /\ name \in ToSet(stk)
                 /\ call[bus'.observer[name].active_request].type # "logout"
      <4>1. name # who /\ bus'.observer[name] = b.observer[name]
        BY <2>3, <2>5, <3>1
      <4>2. QED
        BY <3>1, <4>1 DEF ActiveGood
    <3>2. QED
      BY <3>1 DEF ActiveGood
  <2>7. ASSUME SeatGone(b.observer["seat"])
        PROVE  SeatGone(bus'.observer["seat"])
    <3>1. CASE who = "seat"
      BY <2>3, <2>4, <2>7, <3>1 DEF SeatGone, ObserverType
    <3>2. CASE who # "seat"
      BY <2>1, <2>3, <2>7, <3>2
    <3>3. QED
      BY <3>1, <3>2
  <2>8. QED
    BY <2>3, <2>6, <2>7
<1>3. QED
  BY <1>1, <1>2

\* _handle_seat_session_error, whoever has called the seat.
LEMMA ErrorGood ==
    ASSUME call \in [Requests -> CallType], NEW b, BusGood(b, call),
           NEW who, NEW stk, ActiveGood(b, call, stk, who),
           NEW n, n = SeatSessionError(b)
    PROVE  /\ BusGood(n, call) /\ ActiveGood(n, call, stk, who)
           /\ n.observer["root"].active_request = NoRequest
           /\ n.observer["seat"] = b.observer["seat"]
<1>1. /\ BusGood(n, call)
      /\ n.observer["root"].active_request = NoRequest
      /\ n.observer["seat"] = b.observer["seat"]
  BY SeatSignalGood DEF SeatSessionError, Answers
<1>2. QED
  BY <1>1 DEF ActiveGood, Observers

\* tlm_seat_create_session.
LEMMA CreateSessionGood ==
    ASSUME call \in [Requests -> CallType],
           loops \in Seq(Observers \cup {"other"}),
           NEW b, BusGood(b, call),
           NEW who \in Callers, ActiveGood(b, call, loops, who),
           NEW has \in BOOLEAN,
           ~has => who # "seat" /\ SeatGone(b.observer["seat"]),
           \/ b.observer["root"].active_request = NoRequest
           \/ call[b.observer["root"].active_request].type # "logout",
           CreateSession(b, has, who)
    PROVE  Left
<1>1. CASE /\ Returns(SeatSessionError(b), who)
           /\ session' = has
           /\ UNCHANGED loops
  <2> DEFINE n == SeatSessionError(b)
  <2>1. /\ BusGood(n, call) /\ ActiveGood(n, call, loops, who)
        /\ n.observer["seat"] = b.observer["seat"]
    BY ErrorGood
  <2> HIDE DEF n
  <2>2. Returns(n, who)
    BY <1>1 DEF n
  <2>3. QED
    BY <1>1, <2>1, <2>2, ReturnsGood DEF Left
<1>2. CASE /\ ~has
           /\ Returns([b EXCEPT !.observer["seat"] = NewObserver], who)
           /\ session' = TRUE
           /\ UNCHANGED loops
  <2> DEFINE n == [b EXCEPT !.observer["seat"] = NewObserver]
  <2>1. /\ BusGood(n, call) /\ n.observer["seat"] = NewObserver
        /\ n.observer["root"] = b.observer["root"]
    BY <1>2, NewObserverGood
  <2> HIDE DEF n
  <2>2. ActiveGood(n, call, loops, who)
    BY <2>1 DEF ActiveGood, Observers, NewObserver
  <2>3. Returns(n, who)
    BY <1>2 DEF n
  <2>4. QED
    BY <1>2, <2>1, <2>2, <2>3, ReturnsGood DEF Left
<1>3. CASE ~has /\ Returns(b, who) /\ session' = FALSE /\ UNCHANGED loops
  BY <1>3, ReturnsGood DEF Left
<1>4. CASE ~has /\ bus' = b /\ session' = FALSE /\ loops' = <<who>> \o loops
  <2>1. /\ loops' \in Seq(Observers \cup {"other"})
        /\ ToSet(loops') = ToSet(loops) \cup {who}
    BY <1>4, LoopPushed DEF Callers
  <2>2. ActiveGood(b, call, loops', "nobody")
    BY <1>4, <2>1 DEF ActiveGood, Observers, SeatGone
  <2>3. QED
    BY <1>4, <2>1, <2>2 DEF Left
<1>5. QED
  BY <1>1, <1>2, <1>3, <1>4 DEF CreateSession

\* tlm_seat_terminate_session.
LEMMA TerminateSessionGood ==
    ASSUME call \in [Requests -> CallType],
           loops \in Seq(Observers \cup {"other"}), session \in BOOLEAN,
           NEW b, BusGood(b, call),
           NEW who \in Callers, ActiveGood(b, call, loops, who),
           ~session => SeatGone(b.observer["seat"]),
           TerminateSession(b, who)
    PROVE  Left
<1> DEFINE n == IF session THEN b ELSE SeatSessionError(b)
<1>1. /\ BusGood(n, call) /\ ActiveGood(n, call, loops, who)
      /\ n.observer["seat"] = b.observer["seat"]
  BY ErrorGood
<1>2. Returns(n, who) /\ UNCHANGED <<session, loops>>
  BY DEF TerminateSession
<1> HIDE DEF n
<1>3. QED
  BY <1>1, <1>2, ReturnsGood DEF Left

-----------------------------------------------------------------------------
(* The actions.                                                            *)

\* A handler that makes no call keeps the invariant.
LEMMA LeftKeeps ==
    ASSUME ObserverInv, Left, UNCHANGED call
    PROVE  ObserverInv'
BY DEF ObserverInv, Left, BusGood, ActiveGood, Accepted

\* Whatever is active in root's observer, it is no logout.
LEMMA RootActive ==
    ASSUME ObserverInv
    PROVE  \/ bus.observer["root"].active_request = NoRequest
           \/ call[bus.observer["root"].active_request].type # "logout"
BY DEF ObserverInv, ActiveGood, Observers

\* One observer changes and holds what it held.
LEMMA KeptGood ==
    ASSUME ObserverInv, NEW name \in Observers, NEW o \in ObserverType,
           QueueGood(o), HeldBy(o) = HeldBy(bus.observer[name]),
           o.active_request = bus.observer[name].active_request,
           name = "seat" /\ ~session => SeatGone(o),
           bus' = [bus EXCEPT !.observer[name] = o],
           UNCHANGED <<session, loops>>
    PROVE  Left
<1>1. /\ BusGood(bus', call) /\ bus'.observer[name] = o
      /\ \A m \in Observers : m # name => bus'.observer[m] = bus.observer[m]
  <2> DEFINE n == [bus EXCEPT !.observer[name] = o]
  <2>1. BusGood(bus, call) /\ call \in [Requests -> CallType]
    BY DEF ObserverInv
  <2>2. /\ BusGood(n, call) /\ n.observer[name] = o
        /\ \A m \in Observers : m # name => n.observer[m] = bus.observer[m]
    BY <2>1, Moved
  <2> HIDE DEF n
  <2>3. bus' = n
    BY DEF n
  <2>4. QED
    BY <2>2, <2>3
<1>2. \A m \in Observers :
        bus'.observer[m].active_request = bus.observer[m].active_request
  BY <1>1
<1>3. ActiveGood(bus', call, loops, "nobody")
  BY <1>2 DEF ObserverInv, ActiveGood
<1>4. ~session => SeatGone(bus'.observer["seat"])
  BY <1>1 DEF ObserverInv, Observers
<1>5. QED
  BY <1>1, <1>3, <1>4 DEF Left, ObserverInv

\* _handle_dbus_client_added and _handle_dbus_client_removed.
LEMMA ClientsGood ==
    ASSUME ObserverInv, NEW name \in Observers, NEW k \in Clients,
           ClientAdded(name, k) \/ ClientRemoved(name, k)
    PROVE  ObserverInv'
<1> DEFINE p == bus.observer[name]
<1>1. /\ p \in ObserverType /\ QueueGood(p) /\ bus \in BusType
      /\ name = "seat" /\ ~session => SeatGone(p)
  BY DEF ObserverInv, BusGood, BusType
<1>2. PICK cs \in SUBSET Clients :
        /\ bus' = [bus EXCEPT !.observer[name].clients = cs]
        /\ name = "seat" => session
  <2>1. /\ p.clients \cup {k} \in SUBSET Clients
        /\ p.clients \ {k} \in SUBSET Clients
    BY <1>1 DEF ObserverType
  <2>2. session \in BOOLEAN
    BY DEF ObserverInv
  <2>3. QED
    BY <1>1, <2>1, <2>2 DEF ClientAdded, ClientRemoved, SeatGone
<1> DEFINE o == [p EXCEPT !.clients = cs]
<1>3. /\ o \in ObserverType /\ o.request_queue = p.request_queue
      /\ o.active_request = p.active_request /\ o.request_id = p.request_id
  BY <1>1 DEF ObserverType
<1>4. bus' = [bus EXCEPT !.observer[name] = o]
  BY <1>2
<1> HIDE DEF o, p
<1>5. QueueGood(o) /\ HeldBy(o) = HeldBy(p)
  BY <1>1, <1>3 DEF QueueGood, HeldBy
<1>6. UNCHANGED <<call, session, loops>>
  BY DEF ClientAdded, ClientRemoved
<1>7. Left
  BY <1>2, <1>3, <1>4, <1>5, <1>6, KeptGood DEF p
<1>8. QED
  BY <1>6, <1>7, LeftKeeps

\* A method call that the observer does not take, or takes into its queue.
LEMMA MethodCallGood ==
    ASSUME ObserverInv, NEW name \in Observers,
           NEW type \in {"login", "logout", "switch"}, NEW q \in Requests,
           MethodCall(name, type, q)
    PROVE  ObserverInv'
<1> DEFINE d == [call EXCEPT ![q] = [type |-> type, to |-> name]]
           p == bus.observer[name]
<1>1. /\ call \in [Requests -> CallType] /\ d \in [Requests -> CallType]
      /\ d[q].type = type /\ d[q].to = name
      /\ \A r \in Requests : r # q => d[r] = call[r]
  BY DEF ObserverInv, CallType
<1>2. /\ call[q].type = "none" /\ call' = d /\ p.clients # {}
      /\ UNCHANGED <<session, loops>>
  BY DEF MethodCall
<1> HIDE DEF d
<1>3. /\ bus \in BusType /\ bus.observer \in [Observers -> ObserverType]
      /\ p \in ObserverType /\ QueueGood(p)
  BY DEF ObserverInv, BusGood, BusType
<1>4. \A m \in Observers : HeldBy(bus.observer[m]) \subseteq Requests
  <2>1. ASSUME NEW m \in Observers, NEW r \in HeldBy(bus.observer[m])
        PROVE  r \in Requests
    BY <1>3 DEF HeldBy, ObserverType, ToSet
  <2>2. QED
    BY <2>1
<1>5. \A m \in Observers : q \notin HeldBy(bus.observer[m])
  BY <1>2 DEF ObserverInv, BusGood, Accepted
<1>6. \A r \in Requests : r # q => (Accepted(d, r) <=> Accepted(call, r))
  BY <1>1 DEF Accepted
<1>7. ~Accepted(call, q) /\ (Accepted(d, q) <=> Handled(name, type))
  BY <1>1, <1>2 DEF Accepted
<1>8. Len(bus.answers[q]) = 0
  BY <1>7 DEF ObserverInv, BusGood
<1>9. /\ name = "seat" => session
      /\ session \in BOOLEAN
  BY <1>2 DEF ObserverInv, SeatGone
<1>10. CASE ~Handled(name, type)
  <2>1. bus' = bus
    BY <1>10 DEF MethodCall
  <2>2. ASSUME NEW m \in Observers, NEW r \in HeldBy(bus.observer[m])
        PROVE  d[r].to = m /\ Accepted(d, r)
    BY <1>1, <1>4, <1>5, <1>6 DEF ObserverInv, BusGood
  <2>3. ASSUME NEW r \in Requests
        PROVE  Len(bus.answers[r]) =
                IF Accepted(d, r) /\ r \notin HeldBy(bus.observer[d[r].to])
                THEN 1 ELSE 0
    BY <1>1, <1>6, <1>7, <1>8, <1>10 DEF ObserverInv, BusGood
  <2>4. BusGood(bus, d)
    BY <2>2, <2>3 DEF ObserverInv, BusGood
  <2>5. ActiveGood(bus, d, loops, "nobody")
    <3>1. ASSUME NEW m \in Observers, bus.observer[m].active_request # NoRequest
          PROVE  bus.observer[m].active_request \in Requests \ {q}
      BY <1>4, <1>5, <3>1 DEF HeldBy
    <3>2. QED
      BY <1>1, <3>1 DEF ActiveGood, ObserverInv
  <2>6. QED
    BY <1>1, <1>2, <1>9, <2>1, <2>4, <2>5 DEF ObserverInv
<1>11. CASE Handled(name, type)
  <2> DEFINE s == Append(p.request_queue, q)
             r1 == [p EXCEPT !.request_queue = s]
             o == AddRequest(p, q)
  <2>1. bus' = [bus EXCEPT !.observer[name] = o]
    BY <1>11 DEF MethodCall
  <2>2. q \notin HeldBy(p)
    BY <1>5
  <2>3. /\ s \in Seq(Requests) /\ s # <<>>
        /\ ToSet(s) = ToSet(p.request_queue) \cup {q}
        /\ \A i, j \in DOMAIN s : s[i] = s[j] => i = j
    BY <1>3, <2>2, QueueAppend DEF QueueGood, HeldBy, ObserverType
  <2> HIDE DEF s, p
  <2>4. /\ r1 \in ObserverType /\ r1.request_queue = s
        /\ r1.active_request = p.active_request
        /\ r1.request_id = p.request_id
    BY <1>3, <2>3 DEF ObserverType
  <2>5. o = ProcessNextInIdle(r1)
    BY DEF AddRequest, s
  <2> HIDE DEF r1, o
  <2>6. QueueGood(r1) /\ HeldBy(r1) = HeldBy(p) \cup {q}
    <3>1. p.active_request # q
      BY <2>2, ObserverAssumption DEF HeldBy
    <3>2. QED
      BY <1>3, <2>3, <2>4, <3>1 DEF QueueGood, HeldBy
  <2>7. /\ o \in ObserverType /\ QueueGood(o)
        /\ HeldBy(o) = HeldBy(p) \cup {q}
        /\ o.active_request = p.active_request
    BY <2>4, <2>5, <2>6, InIdleGood
  <2>8. /\ bus' \in BusType /\ bus'.answers = bus.answers
        /\ bus'.observer[name] = o
        /\ \A m \in Observers : m # name => bus'.observer[m] = bus.observer[m]
    BY <1>3, <2>1, <2>7 DEF BusType
  <2>9. ASSUME NEW m \in Observers, NEW r \in HeldBy(bus'.observer[m])
        PROVE  d[r].to = m /\ Accepted(d, r)
    <3>1. CASE r = q
      BY <1>1, <1>5, <1>7, <1>11, <2>8, <3>1
    <3>2. CASE r # q
      <4>1. r \in HeldBy(bus.observer[m])
        BY <2>7, <2>8, <3>2 DEF p
      <4>2. QED
        BY <1>1, <1>4, <1>6, <3>2, <4>1 DEF ObserverInv, BusGood
    <3>3. QED
      BY <3>1, <3>2
  <2>10. ASSUME NEW r \in Requests
         PROVE  Len(bus'.answers[r]) =
                IF Accepted(d, r) /\ r \notin HeldBy(bus'.observer[d[r].to])
                THEN 1 ELSE 0
    <3>1. CASE r = q
      BY <1>1, <1>8, <2>7, <2>8, <3>1
    <3>2. CASE r # q
      <4>1. /\ d[r] = call[r] /\ d[r].to \in Observers
            /\ Accepted(d, r) <=> Accepted(call, r)
        BY <1>1, <1>6, <3>2 DEF CallType
      <4>2. r \in HeldBy(bus'.observer[d[r].to]) <=>
                r \in HeldBy(bus.observer[d[r].to])
        BY <2>7, <2>8, <3>2, <4>1 DEF p
      <4>3. QED
        BY <2>8, <4>1, <4>2 DEF ObserverInv, BusGood
    <3>3. QED
      BY <3>1, <3>2
  <2>11. \A m \in Observers : QueueGood(bus'.observer[m])
    BY <2>7, <2>8 DEF ObserverInv, BusGood
  <2>12. BusGood(bus', d)
    BY <2>8, <2>9, <2>10, <2>11 DEF BusGood
  <2>13. ActiveGood(bus', d, loops, "nobody")
    <3>1. \A m \in Observers :
            bus'.observer[m].active_request = bus.observer[m].active_request
      BY <2>7, <2>8 DEF p
    <3>2. ASSUME NEW m \in Observers, bus.observer[m].active_request # NoRequest
          PROVE  bus.observer[m].active_request \in Requests \ {q}
      BY <1>4, <1>5, <3>2 DEF HeldBy
    <3>3. QED
      BY <1>1, <3>1, <3>2 DEF ActiveGood, ObserverInv
  <2>14. ~session => SeatGone(bus'.observer["seat"])
    BY <1>9, <2>8 DEF ObserverInv, Observers
  <2>15. QED
    BY <1>1, <1>2, <1>9, <2>12, <2>13, <2>14 DEF ObserverInv
<1>12. QED
  BY <1>10, <1>11

\* The observer name has made its next request active.
LEMMA RequestStarted ==
    ASSUME ObserverInv, NEW name \in Observers,
           bus.observer[name].request_id,
           NEW b, b = [bus EXCEPT !.observer[name] =
                            Started(bus.observer[name])]
    PROVE  LET q == Chosen(bus.observer[name]) IN
           /\ BusGood(b, call) /\ ActiveGood(b, call, loops, name)
           /\ ~session => /\ name # "seat"
                          /\ SeatGone(b.observer["seat"])
           /\ q \in Requests /\ call[q].to = name /\ Accepted(call, q)
           /\ \/ call[q].type = "logout"
              \/ b.observer["root"].active_request = NoRequest
              \/ call[b.observer["root"].active_request].type # "logout"
<1> DEFINE o == bus.observer[name]
           p == Started(o)
           q == Chosen(o)
<1>1. o \in ObserverType /\ QueueGood(o) /\ name \in Callers
  BY DEF ObserverInv, BusGood, BusType, Callers
<1>2. /\ p \in ObserverType /\ QueueGood(p) /\ HeldBy(p) = HeldBy(o)
      /\ p.active_request = q /\ q \in HeldBy(o) /\ q \in Requests
  BY <1>1, StartedGood
<1>3. call[q].to = name /\ Accepted(call, q)
  BY <1>2 DEF ObserverInv, BusGood
<1> HIDE DEF p, q
<1>4. /\ BusGood(b, call) /\ b.observer[name] = p
      /\ \A m \in Observers : m # name => b.observer[m] = bus.observer[m]
  <2> DEFINE n == [bus EXCEPT !.observer[name] = p]
  <2>1. BusGood(bus, call) /\ call \in [Requests -> CallType]
    BY DEF ObserverInv
  <2>2. /\ BusGood(n, call) /\ n.observer[name] = p
        /\ \A m \in Observers : m # name => n.observer[m] = bus.observer[m]
    BY <1>2, <2>1, Moved
  <2> HIDE DEF n
  <2>3. b = n
    BY DEF n, p
  <2>4. QED
    BY <2>2, <2>3
<1>5. ActiveGood(b, call, loops, name)
  <2>1. ASSUME NEW m \in Observers \ {name},
               b.observer[m].active_request # NoRequest
        PROVE  /\ m = "root" /\ m \in ToSet(loops)
               /\ call[b.observer[m].active_request].type # "logout"
    BY <1>4, <2>1 DEF ObserverInv, ActiveGood, Observers
  <2>2. QED
    BY <2>1 DEF ActiveGood
<1>6. ASSUME ~session
      PROVE  name # "seat" /\ SeatGone(b.observer["seat"])
  BY <1>4, <1>6 DEF ObserverInv, SeatGone, Observers
<1>7. \/ call[q].type = "logout"
      \/ b.observer["root"].active_request = NoRequest
      \/ call[b.observer["root"].active_request].type # "logout"
  <2>1. CASE name = "root"
    BY <1>2, <1>4, <2>1
  <2>2. CASE name # "root"
    BY <1>4, <2>2, RootActive DEF Observers
  <2>3. QED
    BY <2>1, <2>2
<1>8. QED
  BY <1>2, <1>3, <1>4, <1>5, <1>6, <1>7 DEF q

\* _process_request.
LEMMA ProcessRequestGood ==
    ASSUME ObserverInv, NEW name \in Observers, ProcessRequest(name)
    PROVE  ObserverInv'
<1> DEFINE o == bus.observer[name]
           b == [bus EXCEPT !.observer[name] = Started(o)]
           q == Chosen(o)
<1>1. /\ o.request_id /\ Call(b, name, call[q].type) /\ UNCHANGED call
  BY DEF ProcessRequest
<1>2. /\ BusGood(b, call) /\ ActiveGood(b, call, loops, name)
      /\ ~session => name # "seat" /\ SeatGone(b.observer["seat"])
      /\ \/ call[q].type = "logout"
         \/ b.observer["root"].active_request = NoRequest
         \/ call[b.observer["root"].active_request].type # "logout"
  BY <1>1, RequestStarted
<1>3. /\ call \in [Requests -> CallType] /\ session \in BOOLEAN
      /\ loops \in Seq(Observers \cup {"other"}) /\ name \in Callers
  BY DEF ObserverInv, Callers
<1> HIDE DEF b, q
<1>4. CASE call[q].type = "login" /\ CreateSession(b, session, name)
  BY <1>1, <1>2, <1>3, <1>4, CreateSessionGood, LeftKeeps
<1>5. CASE TerminateSession(b, name)
  BY <1>1, <1>2, <1>3, <1>5, TerminateSessionGood, LeftKeeps
<1>6. CASE call[q].type = "switch" /\ SwitchUser(b, name)
  <2>1. CASE Returns(b, name) /\ UNCHANGED <<session, loops>>
    BY <1>1, <1>2, <1>3, <2>1, ReturnsGood, LeftKeeps DEF Left
  <2>2. CASE session /\ TerminateSession(b, name)
    BY <1>5, <2>2
  <2>3. CASE ~session /\ CreateSession(b, FALSE, name)
    BY <1>1, <1>2, <1>3, <1>6, <2>3, CreateSessionGood, LeftKeeps
  <2>4. QED
    BY <1>6, <2>1, <2>2, <2>3 DEF SwitchUser
<1>7. QED
  BY <1>1, <1>4, <1>5, <1>6 DEF Call

\* _process_request of a request for a seat that is not known.
LEMMA SeatNotFoundGood ==
    ASSUME ObserverInv, SeatNotFound
    PROVE  ObserverInv'
<1> DEFINE b == [bus EXCEPT !.observer["root"] = Started(bus.observer["root"])]
<1>1. /\ bus.observer["root"].request_id
      /\ bus' = CompleteActive(b, "root", "failed")
      /\ UNCHANGED <<call, session, loops>>
      /\ "root" \in Observers /\ "seat" \in Observers /\ "seat" # "root"
  BY DEF SeatNotFound, Observers
<1>2. /\ BusGood(b, call) /\ ActiveGood(b, call, loops, "root")
      /\ ~session => SeatGone(b.observer["seat"])
  BY <1>1, RequestStarted
<1> HIDE DEF b
<1>3. call \in [Requests -> CallType] /\ "failed" \in Answers
  BY DEF ObserverInv, Answers
<1>4. /\ BusGood(bus', call)
      /\ bus'.observer["root"] =
                [b.observer["root"] EXCEPT !.active_request = NoRequest]
      /\ bus'.observer["seat"] = b.observer["seat"]
  BY <1>1, <1>2, <1>3, CompleteActiveGood
<1>5. b.observer["root"] \in ObserverType
  BY <1>1, <1>2 DEF BusGood, BusType
<1>6. bus'.observer["root"].active_request = NoRequest
  BY <1>4, <1>5 DEF ObserverType
<1>7. ActiveGood(bus', call, loops, "nobody")
  BY <1>2, <1>4, <1>6 DEF ActiveGood, Observers
<1>8. Left
  BY <1>1, <1>2, <1>4, <1>7 DEF Left, ObserverInv
<1>9. QED
  BY <1>1, <1>8, LeftKeeps

\* A nested loop returns to its caller.
LEMMA LoopReturnsGood ==
    ASSUME ObserverInv, LoopReturns
    PROVE  ObserverInv'
<1> DEFINE b == SeatSessionError(bus)
           who == Head(loops)
<1>1. /\ loops # <<>> /\ Returns(b, who) /\ loops' = Tail(loops)
      /\ UNCHANGED <<call, session>>
  BY DEF LoopReturns
<1>2. /\ loops \in Seq(Observers \cup {"other"})
      /\ call \in [Requests -> CallType] /\ BusGood(bus, call)
      /\ ActiveGood(bus, call, loops, "nobody")
  BY DEF ObserverInv
<1>3. /\ who \in Callers /\ loops' \in Seq(Observers \cup {"other"})
  BY <1>1, <1>2 DEF Callers
<1>4. /\ BusGood(b, call) /\ ActiveGood(b, call, loops, "nobody")
      /\ b.observer["root"].active_request = NoRequest
      /\ b.observer["seat"] = bus.observer["seat"]
  BY <1>2, ErrorGood
<1> HIDE DEF b, who
<1>5. ActiveGood(b, call, Tail(loops), who)
  BY <1>4 DEF ActiveGood, Observers
<1>6. /\ BusGood(bus', call) /\ ActiveGood(bus', call, Tail(loops), "nobody")
      /\ SeatGone(b.observer["seat"]) => SeatGone(bus'.observer["seat"])
  BY <1>1, <1>2, <1>3, <1>4, <1>5, ReturnsGood
<1>7. Left
  BY <1>1, <1>3, <1>4, <1>6 DEF Left, ObserverInv
<1>8. QED
  BY <1>1, <1>7, LeftKeeps

\* What the seat does on its own.
LEMMA SeatGood ==
    ASSUME ObserverInv,
           SessionCreated \/ SessionTerminated \/ SessionError \/ OtherLogin
    PROVE  ObserverInv'
<1>1. /\ loops \in Seq(Observers \cup {"other"}) /\ session \in BOOLEAN
      /\ call \in [Requests -> CallType] /\ BusGood(bus, call)
      /\ ActiveGood(bus, call, loops, "nobody")
      /\ "ok" \in Answers /\ "failed" \in Answers /\ "other" \in Callers
      /\ UNCHANGED call
  BY DEF ObserverInv, Answers, Callers, SessionCreated, SessionTerminated,
         SessionError, OtherLogin
<1>2. ASSUME NEW n, \/ n = bus
                    \/ \E a \in Answers : n = SeatSignal(bus, a)
      PROVE  /\ BusGood(n, call) /\ ActiveGood(n, call, loops, "nobody")
             /\ n.observer["seat"] = bus.observer["seat"]
             /\ \/ n.observer["root"].active_request = NoRequest
                \/ call[n.observer["root"].active_request].type # "logout"
  <2>1. CASE n = bus
    BY <1>1, <2>1, RootActive
  <2>2. ASSUME NEW a \in Answers, n = SeatSignal(bus, a)
        PROVE  /\ BusGood(n, call)
               /\ n.observer["root"].active_request = NoRequest
               /\ n.observer["seat"] = bus.observer["seat"]
    BY <1>1, <2>2, SeatSignalGood
  <2>3. ASSUME NEW a \in Answers, n = SeatSignal(bus, a)
        PROVE  ActiveGood(n, call, loops, "nobody")
    BY <1>1, <2>2, <2>3 DEF ActiveGood, Observers
  <2>4. QED
    BY <1>2, <2>1, <2>2, <2>3
<1>3. ASSUME NEW n, BusGood(n, call), ActiveGood(n, call, loops, "nobody"),
             NEW d, d = DisposeObserver(n)
      PROVE  /\ BusGood(d, call) /\ ActiveGood(d, call, loops, "nobody")
             /\ SeatGone(d.observer["seat"])
             /\ d.observer["root"] = n.observer["root"]
  <2>1. /\ BusGood(d, call) /\ SeatGone(d.observer["seat"])
        /\ d.observer["root"] = n.observer["root"]
    BY <1>1, <1>3, DisposeGood
  <2>2. QED
    BY <1>3, <2>1 DEF ActiveGood, Observers, SeatGone
<1>4. CASE SessionCreated
  <2>1. /\ \/ bus' = bus
           \/ \E a \in Answers : bus' = SeatSignal(bus, a)
        /\ session /\ UNCHANGED <<session, loops>>
    BY <1>1, <1>4 DEF SessionCreated, SeatSessionCreated
  <2>2. Left
    BY <1>1, <1>2, <2>1 DEF Left
  <2>3. QED
    BY <1>1, <2>2, LeftKeeps
<1>5. CASE SessionTerminated
  <2> DEFINE n == SeatSessionTerminated(bus)
             d == DisposeObserver(n)
  <2>1. n = bus \/ \E a \in Answers : n = SeatSignal(bus, a)
    BY <1>1 DEF SeatSessionTerminated
  <2>2. \/ bus' = d /\ session' = FALSE /\ UNCHANGED loops
        \/ CreateSession(d, FALSE, "other")
    BY <1>5 DEF SessionTerminated
  <2> HIDE DEF n
  <2>3. /\ BusGood(n, call) /\ ActiveGood(n, call, loops, "nobody")
        /\ \/ n.observer["root"].active_request = NoRequest
           \/ call[n.observer["root"].active_request].type # "logout"
    BY <1>2, <2>1
  <2> HIDE DEF d
  <2>4. /\ BusGood(d, call) /\ ActiveGood(d, call, loops, "nobody")
        /\ SeatGone(d.observer["seat"])
        /\ d.observer["root"] = n.observer["root"]
    BY <1>3, <2>3 DEF d
  <2>5. ActiveGood(d, call, loops, "other")
    BY <2>4, NoCaller
  <2>6. CASE bus' = d /\ session' = FALSE /\ UNCHANGED loops
    BY <1>1, <2>4, <2>6, LeftKeeps DEF Left
  <2>7. CASE CreateSession(d, FALSE, "other")
    BY <1>1, <2>3, <2>4, <2>5, <2>7, CreateSessionGood, LeftKeeps
  <2>8. QED
    BY <2>2, <2>6, <2>7
<1>6. CASE SessionError
  <2> DEFINE n == SeatSessionError(bus)
             d == DisposeObserver(n)
  <2>1. /\ \E a \in Answers : n = SeatSignal(bus, a)
        /\ bus' = d /\ session' = FALSE /\ UNCHANGED loops
    BY <1>1, <1>6 DEF SessionError, SeatSessionError
  <2> HIDE DEF n
  <2>2. BusGood(n, call) /\ ActiveGood(n, call, loops, "nobody")
    BY <1>2, <2>1
  <2> HIDE DEF d
  <2>3. /\ BusGood(d, call) /\ ActiveGood(d, call, loops, "nobody")
        /\ SeatGone(d.observer["seat"])
    BY <1>3, <2>2 DEF d
  <2>4. QED
    BY <1>1, <2>1, <2>3, LeftKeeps DEF Left
<1>7. CASE OtherLogin
  <2>1. CreateSession(bus, session, "other")
    BY <1>7 DEF OtherLogin
  <2>2. ActiveGood(bus, call, loops, "other")
    BY <1>1, NoCaller
  <2>3. ~session => SeatGone(bus.observer["seat"])
    BY DEF ObserverInv
  <2>4. QED
    BY <1>1, <2>1, <2>2, <2>3, RootActive, CreateSessionGood, LeftKeeps
<1>8. QED
  BY <1>4, <1>5, <1>6, <1>7

-----------------------------------------------------------------------------
(* The theorems.                                                           *)

\* ObserverInv is inductive: one case per action.
LEMMA ObserverStep == ObserverInv /\ [ObserverNext]_vars => ObserverInv'
<1> SUFFICES ASSUME ObserverInv, [ObserverNext]_vars PROVE ObserverInv'
  OBVIOUS
<1>1. CASE UNCHANGED vars
  BY <1>1 DEF vars, ObserverInv, BusGood, ActiveGood, Accepted
<1>2. QED
  BY <1>1, ClientsGood, MethodCallGood, ProcessRequestGood, SeatNotFoundGood,
     LoopReturnsGood, SeatGood
     DEF ObserverNext

\* The manager's observer waits for clients; the seat has no session.
LEMMA ObserverStart == ObserverInit => ObserverInv
<1> SUFFICES ASSUME ObserverInit PROVE ObserverInv
  OBVIOUS
<1>1. ToSet(<<>>) = {}
  BY DEF ToSet
<1>2. /\ NewObserver \in ObserverType /\ QueueGood(NewObserver)
      /\ HeldBy(NewObserver) = {} /\ NewObserver.active_request = NoRequest
  BY <1>1 DEF NewObserver, ObserverType, QueueGood, HeldBy
<1>3. /\ NoObserver \in ObserverType /\ ~NoObserver.alive
      /\ NoObserver.clients = {} /\ NoObserver.request_queue = <<>>
      /\ ~NoObserver.request_id /\ NoObserver.active_request = NoRequest
  <2>1. /\ NewObserver.clients = {} /\ NewObserver.request_queue = <<>>
        /\ ~NewObserver.request_id /\ NewObserver.active_request = NoRequest
    BY DEF NewObserver
  <2> DEFINE no == FALSE
  <2>2. no \in BOOLEAN /\ NoObserver = [NewObserver EXCEPT !.alive = no]
    BY Zenon DEF NoObserver
  <2> HIDE DEF no
  <2>3. /\ NoObserver \in ObserverType /\ NoObserver.alive = no
        /\ NoObserver.clients = {} /\ NoObserver.request_queue = <<>>
        /\ NoObserver.request_id = NewObserver.request_id
        /\ NoObserver.active_request = NoRequest
    BY <1>2, <2>1, <2>2 DEF ObserverType
  <2>4. QED
    BY <2>1, <2>3, Zenon DEF no
<1>4. /\ NoObserver \in ObserverType /\ QueueGood(NoObserver)
      /\ HeldBy(NoObserver) = {} /\ SeatGone(NoObserver)
      /\ NoObserver.active_request = NoRequest
  BY <1>1, <1>3 DEF ObserverType, QueueGood, HeldBy, SeatGone
<1>5. /\ bus \in BusType
      /\ bus.observer["root"] = NewObserver /\ bus.observer["seat"] = NoObserver
      /\ \A q \in Requests : bus.answers[q] = <<>>
  BY <1>2, <1>4 DEF ObserverInit, BusType, Observers
<1>6. /\ call \in [Requests -> CallType]
      /\ \A q \in Requests : ~Accepted(call, q)
  BY DEF ObserverInit, CallType, Accepted, Observers
<1>7. BusGood(bus, call)
  BY <1>2, <1>4, <1>5, <1>6 DEF BusGood, Observers
<1>8. ActiveGood(bus, call, loops, "nobody")
  BY <1>2, <1>4, <1>5 DEF ActiveGood, Observers
<1>9. loops \in Seq(Observers \cup {"other"})
  BY DEF ObserverInit
<1>10. session \in BOOLEAN
  BY DEF ObserverInit
<1>11. QED
  BY <1>4, <1>5, <1>6, <1>7, <1>8, <1>9, <1>10, Zenon DEF ObserverInv

\* ObserverInv holds throughout.
LEMMA AlwaysObserverInv == ObserverSpec => []ObserverInv
BY ObserverStart, ObserverStep, PTL DEF ObserverSpec

\* The state of the observers, the requests and the loops is well typed.
THEOREM ObserverTypeCorrect == ObserverSpec => []ObserverTypeOK
<1>1. ObserverInv => ObserverTypeOK
  BY DEF ObserverInv, BusGood, BusType, ObserverTypeOK
<1>2. QED
  BY <1>1, AlwaysObserverInv, PTL

\* A method call gets one answer and no second one, however nested loops, the
\* seat's signals and the end of the observer meet (_process_request,
\* _complete_request, _stop_dbus_server).
THEOREM RequestsAnsweredOnce == ObserverSpec => []AnsweredOnce
<1>1. ASSUME ObserverInv PROVE AnsweredOnce
  <2>1. \A name \in Observers : Held(name) = HeldBy(bus.observer[name])
    BY DEF Held, HeldBy
  <2>2. ASSUME NEW q \in Requests, NEW name \in Observers,
               q \in HeldBy(bus.observer[name])
        PROVE  call[q].to = name /\ bus.answers[q] = <<>>
    <3>1. call[q].to = name /\ Len(bus.answers[q]) = 0
      BY <1>1, <2>2 DEF ObserverInv, BusGood
    <3>2. bus.answers[q] \in Seq(Answers)
      BY <1>1 DEF ObserverInv, BusGood, BusType
    <3>3. QED
      BY <3>1, <3>2
  <2>3. ASSUME NEW q \in Requests
        PROVE  Len(bus.answers[q]) =
                IF \/ call[q].type = "none"
                   \/ ~Handled(call[q].to, call[q].type)
                   \/ q \in Held(call[q].to)
                THEN 0 ELSE 1
    <3>1. call[q].to \in Observers
      BY <1>1 DEF ObserverInv, CallType
    <3>2. QED
      BY <1>1, <2>1, <3>1 DEF ObserverInv, BusGood, Accepted
  <2>4. QED
    BY <2>1, <2>2, <2>3 DEF AnsweredOnce
<1>2. QED
  BY <1>1, AlwaysObserverInv, PTL

\* Between callbacks only a login in a nested loop is active, and never a
\* logout (_process_request, _handle_seat_session_terminated).
THEOREM OnlyLoopsActive == ObserverSpec => []ActiveInLoop
<1>1. ObserverInv => ActiveInLoop
  BY DEF ObserverInv, ActiveGood, ActiveInLoop, Observers
<1>2. QED
  BY <1>1, AlwaysObserverInv, PTL
=============================================================================
