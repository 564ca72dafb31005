----------------------------- MODULE SeatProofs -----------------------------
(***************************************************************************)
(* Proofs about TlmSeat with its TlmSessionRemote objects, for any number  *)
(* of objects, users and nested loops.  SeatInv is inductive; ThrottleInv  *)
(* and SwitchInv are inductive relative to it.  The handlers are proved as *)
(* SeatGood, which also holds between two of their calls.                  *)
(***************************************************************************)
EXTENDS Seat, SessionRemoteProofs

-----------------------------------------------------------------------------
(* The stack of nested loops.                                              *)

\* The objects the loops wait for, and the ones whose emission they run in.
WaitingOf(stk) == {stk[i].waits : i \in DOMAIN stk}
EmittingOf(stk) == {stk[i].emitter : i \in DOMAIN stk} \ {NoRemote}

\* No two loops wait for one object, or run inside the emission of one.
Apart(stk) ==
    \A i, j \in DOMAIN stk :
        \/ i = j
        \/ /\ stk[i].waits # stk[j].waits
           /\ stk[i].emitter = stk[j].emitter => stk[i].emitter = NoRemote

\* A loop is entered.
LEMMA Push ==
    ASSUME NEW stk \in Seq(FrameType), NEW f \in FrameType,
           NEW t, t = <<f>> \o stk
    PROVE  /\ t \in Seq(FrameType)
           /\ WaitingOf(t) = WaitingOf(stk) \cup {f.waits}
           /\ EmittingOf(t) = EmittingOf(stk) \cup ({f.emitter} \ {NoRemote})
           /\ /\ Apart(stk)
              /\ f.waits \notin WaitingOf(stk)
              /\ f.emitter \notin EmittingOf(stk)
              => Apart(t)
<1>1. /\ t \in Seq(FrameType)
      /\ Len(stk) \in Nat /\ DOMAIN stk = 1..Len(stk)
      /\ DOMAIN t = 1..(Len(stk) + 1)
  OBVIOUS
<1>2. t[1] = f /\ \A i \in DOMAIN stk : t[i + 1] = stk[i]
  OBVIOUS
<1>3. \A i \in DOMAIN t : i = 1 \/ (i - 1 \in DOMAIN stk /\ t[i] = stk[i - 1])
  BY <1>1, <1>2
<1>4. 1 \in DOMAIN t /\ \A i \in DOMAIN stk : i + 1 \in DOMAIN t
  BY <1>1
<1>5. WaitingOf(t) = WaitingOf(stk) \cup {f.waits}
  BY <1>2, <1>3, <1>4 DEF WaitingOf
<1>6. EmittingOf(t) = EmittingOf(stk) \cup ({f.emitter} \ {NoRemote})
  <2>1. \A x : x \in EmittingOf(t)
            => x \in EmittingOf(stk) \cup ({f.emitter} \ {NoRemote})
    BY <1>2, <1>3 DEF EmittingOf
  <2>2. \A x : x \in EmittingOf(stk) \cup ({f.emitter} \ {NoRemote})
            => x \in EmittingOf(t)
    BY <1>2, <1>4 DEF EmittingOf
  <2>3. QED
    BY <2>1, <2>2
<1>7. ASSUME Apart(stk), f.waits \notin WaitingOf(stk),
             f.emitter \notin EmittingOf(stk)
      PROVE  Apart(t)
  <2> SUFFICES ASSUME NEW i \in DOMAIN t, NEW j \in DOMAIN t, i # j
               PROVE  /\ t[i].waits # t[j].waits
                      /\ t[i].emitter = t[j].emitter => t[i].emitter = NoRemote
    BY DEF Apart
  <2>1. CASE i = 1
    BY <1>2, <1>3, <1>7, <2>1 DEF WaitingOf, EmittingOf
  <2>2. CASE j = 1
    BY <1>2, <1>3, <1>7, <2>2 DEF WaitingOf, EmittingOf
  <2>3. CASE i # 1 /\ j # 1
    <3>1. i - 1 # j - 1
      BY <1>1
    <3>2. QED
      BY <1>3, <1>7, <2>3, <3>1 DEF Apart
  <2>4. QED
    BY <2>1, <2>2, <2>3
<1>8. QED
  BY <1>1, <1>5, <1>6, <1>7

\* The innermost loop returns.
LEMMA Pop ==
    ASSUME NEW stk \in Seq(FrameType), stk # <<>>, Apart(stk)
    PROVE  /\ Head(stk) \in FrameType /\ Tail(stk) \in Seq(FrameType)
           /\ Apart(Tail(stk))
           /\ WaitingOf(Tail(stk)) = WaitingOf(stk) \ {Head(stk).waits}
           /\ EmittingOf(Tail(stk)) = EmittingOf(stk) \ {Head(stk).emitter}
           /\ Head(stk).waits \in WaitingOf(stk)
           /\ Head(stk).emitter \in EmittingOf(stk) \cup {NoRemote}
<1> DEFINE t == Tail(stk)
<1>1. /\ t \in Seq(FrameType) /\ Len(t) = Len(stk) - 1 /\ Len(stk) \in Nat
      /\ Len(stk) > 0 /\ DOMAIN t = 1..(Len(stk) - 1)
      /\ DOMAIN stk = 1..Len(stk) /\ stk[1] = Head(stk)
  OBVIOUS
<1>2. \A i \in DOMAIN t : t[i] = stk[i + 1] /\ i + 1 \in DOMAIN stk /\ i + 1 # 1
  BY <1>1
<1>3. \A i \in DOMAIN stk : i = 1 \/ (i - 1 \in DOMAIN t /\ t[i - 1] = stk[i])
  BY <1>1
<1>4. 1 \in DOMAIN stk /\ stk[1] \in FrameType
  BY <1>1
<1> HIDE DEF t
<1>5. Apart(t)
  <2> SUFFICES ASSUME NEW i \in DOMAIN t, NEW j \in DOMAIN t, i # j
               PROVE  /\ t[i].waits # t[j].waits
                      /\ t[i].emitter = t[j].emitter => t[i].emitter = NoRemote
    BY DEF Apart
  <2>1. i + 1 # j + 1
    BY <1>1
  <2>2. QED
    BY <1>2, <2>1 DEF Apart
<1>6. \A i \in DOMAIN t :
        /\ t[i].waits # stk[1].waits
        /\ t[i].emitter = stk[1].emitter => t[i].emitter = NoRemote
  BY <1>2, <1>4 DEF Apart
<1>7. WaitingOf(t) = WaitingOf(stk) \ {stk[1].waits}
  BY <1>2, <1>3, <1>6 DEF WaitingOf
<1>8. EmittingOf(t) = EmittingOf(stk) \ {stk[1].emitter}
  BY <1>2, <1>3, <1>6 DEF EmittingOf
<1>9. QED
  BY <1>1, <1>4, <1>5, <1>7, <1>8 DEF t, WaitingOf, EmittingOf

-----------------------------------------------------------------------------
(* What the operators of SessionRemote leave of an object.                 *)

\* The object stays what it is to its owner.
SameTo(p, q) == q.obj = p.obj /\ q.user = p.user

\* Signals, timers and answers leave an object with its owner and its user.
LEMMA KeepsOwner ==
    ASSUME NEW p \in RemoteType, NEW src
    PROVE  /\ SameTo(p, Terminate(p))
           /\ Terminate(p).is_sessiond_up = p.is_sessiond_up
           /\ Terminate(p).can_emit_signal = p.can_emit_signal
           /\ SameTo(p, TerminateTimeout(p, src))
           /\ TerminateTimeout(p, src).is_sessiond_up = p.is_sessiond_up
           /\ TerminateTimeout(p, src).can_emit_signal = p.can_emit_signal
           /\ SameTo(p, ChildDown(p))
           /\ SameTo(p, CreateReply(p))
           /\ CreateReply(p).is_sessiond_up = p.is_sessiond_up
           /\ CreateReply(p).can_emit_signal = p.can_emit_signal
           /\ SameTo(p, [p EXCEPT !.sd = "exited"])
BY DEF RemoteType, SameTo, Terminate, TerminateTimeout, ForgetTimer, Unarm,
       ChildDown, CreateReply

\* tlm_session_remote_dispose marks the object.
LEMMA BeginDisposeFields ==
    ASSUME NEW p \in RemoteType
    PROVE  BeginDispose(p).obj = "disposing"
BY DEF RemoteType, BeginDispose, Terminate

\* Past its loop, the object is finalized.
LEMMA EndDisposeFields ==
    ASSUME NEW p
    PROVE  EndDispose(p).obj = "finalized"
BY DEF EndDispose, Unborn

\* tlm_session_remote_new and the sessionCreate call make a live object.
LEMMA NewRemoteFields ==
    ASSUME NEW u
    PROVE  /\ NewRemote(u).obj = "live"
           /\ CreateCall(NewRemote(u)).obj = "live"
           /\ CreateCall(NewRemote(u)).user = u
           /\ CreateCall(NewRemote(u)).is_sessiond_up
           /\ CreateCall(NewRemote(u)).can_emit_signal
BY DEF NewRemote, Started, CreateCall

-----------------------------------------------------------------------------
(* The inductive invariant.                                                *)

\* The invariant between two calls of a handler that holds a reference of its
\* own on e: an object is live exactly when the seat, an emission under a loop
\* or the handler holds it, and is in dispose exactly when a loop waits for
\* it; the seat's session can be signalled and has its observer.
SeatGood(rem, s, con, stk, e) ==
    /\ rem = [r \in Remotes |-> rem[r]]
    /\ \A r \in Remotes : Good(rem[r])
    /\ s \in SeatType
    /\ stk \in Seq(FrameType) /\ Apart(stk)
    /\ e \in Remotes \cup {NoRemote}
    /\ e \notin EmittingOf(stk)
    /\ s.session \notin EmittingOf(stk)
    /\ s.session = e => e = NoRemote
    /\ \A r \in Remotes :
        rem[r].obj = "live" <=> r \in EmittingOf(stk) \cup {s.session, e}
    /\ \A r \in Remotes : rem[r].obj = "disposing" <=> r \in WaitingOf(stk)
    /\ con = {s.session} \ {NoRemote}
    /\ s.session \in Remotes => /\ rem[s.session].is_sessiond_up
                                /\ rem[s.session].can_emit_signal
                                /\ rem[s.session].user \in Users
    /\ s.dbus_observer = s.session
    /\ s.prev_dbus_observer = NoRemote

\* Between two callbacks no handler holds a reference.
SeatInv == SeatGood(remote, seat, connected, stack, NoRemote)

\* The seat t points to the same objects as s.
SameLinks(s, t) ==
    /\ t \in SeatType
    /\ t.session = s.session
    /\ t.dbus_observer = s.dbus_observer
    /\ t.prev_dbus_observer = s.prev_dbus_observer

\* Fields of the seat that point to no object are free to change.
LEMMA OtherFieldsGood ==
    ASSUME NEW rem, NEW s, NEW con, NEW stk, NEW e,
           SeatGood(rem, s, con, stk, e),
           NEW t, SameLinks(s, t)
    PROVE  SeatGood(rem, t, con, stk, e)
BY DEF SeatGood, SameLinks

\* An object may change while it stays with its owner.
LEMMA OneObjectGood ==
    ASSUME NEW rem, NEW s, NEW con, NEW stk, NEW e,
           SeatGood(rem, s, con, stk, e),
           NEW r \in Remotes, NEW q, Good(q), SameTo(rem[r], q),
           r = s.session => q.is_sessiond_up /\ q.can_emit_signal
    PROVE  SeatGood([rem EXCEPT ![r] = q], s, con, stk, e)
<1> DEFINE m == [rem EXCEPT ![r] = q]
<1>1. /\ m = [x \in Remotes |-> m[x]] /\ m[r] = q
      /\ \A x \in Remotes : x # r => m[x] = rem[x]
  BY DEF SeatGood
<1> HIDE DEF m
<1>2. SeatGood(m, s, con, stk, e)
  BY <1>1 DEF SeatGood, SameTo
<1>3. QED
  BY <1>2 DEF m

\* The emission of e drops the last reference: e is finalized, or a loop is
\* entered that waits for it.
LEMMA UnrefGood ==
    ASSUME NEW rem, NEW s, NEW con, NEW stk, NEW e \in Remotes,
           SeatGood(rem, s, con, stk, e),
           Unref(rem, stk, e), seat' = s, connected' = con
    PROVE  SeatInv'
<1> DEFINE p == BeginDispose(rem[e])
<1>0. e # NoRemote
  BY SeatAssumption
<1>1. rem[e].obj = "live" /\ Good(rem[e]) /\ rem[e] \in RemoteType
  BY DEF SeatGood, Good
<1>2. Good(p) /\ p.obj = "disposing"
  BY <1>1, BeginDisposeGood, BeginDisposeFields
<1>3. Good(EndDispose(p)) /\ EndDispose(p).obj = "finalized"
  BY <1>2, FreedGood, EndDisposeFields
<1>4. e \notin WaitingOf(stk)
  BY <1>1 DEF SeatGood
<1>5. CASE p.is_sessiond_up
  <2> DEFINE f == [waits |-> e, emitter |-> NoRemote]
  <2>1. f \in FrameType /\ f.waits = e /\ f.emitter = NoRemote
    BY DEF FrameType
  <2>2. remote' = [rem EXCEPT ![e] = p] /\ stack' = <<f>> \o stk
    BY <1>5 DEF Unref
  <2>3. /\ stack' \in Seq(FrameType) /\ Apart(stack')
        /\ WaitingOf(stack') = WaitingOf(stk) \cup {e}
        /\ EmittingOf(stack') = EmittingOf(stk)
    <3> HIDE DEF f
    <3>1. f.emitter \notin EmittingOf(stk)
      BY <2>1 DEF EmittingOf
    <3>2. stk \in Seq(FrameType) /\ Apart(stk)
      BY DEF SeatGood
    <3>3. {f.emitter} \ {NoRemote} = {}
      BY <2>1
    <3>4. /\ stack' \in Seq(FrameType)
          /\ WaitingOf(stack') = WaitingOf(stk) \cup {f.waits}
          /\ EmittingOf(stack') =
                 EmittingOf(stk) \cup ({f.emitter} \ {NoRemote})
          /\ Apart(stk) /\ f.waits \notin WaitingOf(stk)
             /\ f.emitter \notin EmittingOf(stk) => Apart(stack')
      BY <2>1, <2>2, <3>2, Push
    <3>5. QED
      BY <1>4, <2>1, <3>1, <3>2, <3>3, <3>4
  <2> HIDE DEF f, p
  <2>4. /\ remote' = [x \in Remotes |-> remote'[x]] /\ remote'[e] = p
        /\ \A x \in Remotes : x # e => remote'[x] = rem[x]
    BY <2>2 DEF SeatGood
  <2>5. NoRemote \notin EmittingOf(stack')
    BY DEF EmittingOf
  <2>6. /\ \A r \in Remotes : Good(remote'[r])
        /\ \A r \in Remotes : remote'[r].obj = "live"
                <=> r \in EmittingOf(stack') \cup {s.session, NoRemote}
        /\ \A r \in Remotes :
                remote'[r].obj = "disposing" <=> r \in WaitingOf(stack')
    BY <1>0, <1>2, <2>3, <2>4, SeatAssumption DEF SeatGood
  <2>7. s.session \in Remotes => /\ remote'[s.session].is_sessiond_up
                                 /\ remote'[s.session].can_emit_signal
                                 /\ remote'[s.session].user \in Users
    BY <1>0, <2>4 DEF SeatGood
  <2>8. SeatGood(remote', s, con, stack', NoRemote)
    BY <2>3, <2>4, <2>5, <2>6, <2>7 DEF SeatGood
  <2>9. QED
    BY <2>8 DEF SeatInv
<1>6. CASE ~p.is_sessiond_up
  <2>2. remote' = [rem EXCEPT ![e] = EndDispose(p)] /\ stack' = stk
    BY <1>6 DEF Unref
  <2> HIDE DEF p
  <2>4. /\ remote' = [x \in Remotes |-> remote'[x]]
        /\ remote'[e] = EndDispose(p)
        /\ \A x \in Remotes : x # e => remote'[x] = rem[x]
    BY <2>2 DEF SeatGood
  <2>5. SeatGood(remote', s, con, stack', NoRemote)
    BY <1>0, <1>3, <1>4, <2>2, <2>4, SeatAssumption DEF SeatGood, EmittingOf
  <2>6. QED
    BY <2>5 DEF SeatInv
<1>7. QED
  BY <1>5, <1>6

\* tlm_seat_create_session returns to its caller, an emission or the main
\* loop.
LEMMA ReturnGood ==
    ASSUME NEW rem, NEW s, NEW con, NEW stk, NEW e,
           SeatGood(rem, s, con, stk, e),
           Return(rem, s, stk, e), connected' = con
    PROVE  SeatInv'
<1>1. CASE e = NoRemote
  BY <1>1 DEF Return, SeatInv
<1>2. CASE e # NoRemote
  <2>1. e \in Remotes /\ s \in SeatType
    BY <1>2 DEF SeatGood
  <2>2. SameLinks(s, ResetNext(s))
    BY <2>1 DEF ResetNext, SeatType, Names, SameLinks
  <2>3. SeatGood(rem, ResetNext(s), con, stk, e)
    BY <2>2, OtherFieldsGood
  <2>4. QED
    BY <1>2, <2>1, <2>3, UnrefGood DEF Return
<1>3. QED
  BY <1>1, <1>2

\* A session is made for an empty seat.
LEMMA BornGood ==
    ASSUME NEW rem, NEW s, NEW con, NEW stk, NEW e,
           SeatGood(rem, s, con, stk, e), s.session = NoRemote,
           NEW r \in Remotes, Free(rem[r]), NEW u \in Users,
           NEW t \in SeatType, t.session = r, t.dbus_observer = r,
           t.prev_dbus_observer = NoRemote
    PROVE  SeatGood([rem EXCEPT ![r] = CreateCall(NewRemote(u))], t,
                    con \cup {r}, stk, e)
<1> DEFINE q == CreateCall(NewRemote(u))
           m == [rem EXCEPT ![r] = q]
<1>1. /\ Good(q) /\ q.obj = "live" /\ q.user \in Users
      /\ q.is_sessiond_up /\ q.can_emit_signal
  BY NewGood, EventsGood, NewRemoteFields
<1> HIDE DEF q
<1>2. /\ m = [x \in Remotes |-> m[x]] /\ m[r] = q
      /\ \A x \in Remotes : x # r => m[x] = rem[x]
  BY DEF SeatGood
<1> HIDE DEF m
<1>3. rem[r].obj # "live" /\ rem[r].obj # "disposing" /\ r # NoRemote
  BY SeatAssumption DEF Free
<1>4. r \notin EmittingOf(stk) /\ r # e /\ r \notin WaitingOf(stk)
  BY <1>3 DEF SeatGood
<1>5. \A x \in Remotes :
        /\ Good(m[x])
        /\ m[x].obj = "live" <=> x \in EmittingOf(stk) \cup {r, e}
        /\ m[x].obj = "disposing" <=> x \in WaitingOf(stk)
  <2> TAKE x \in Remotes
  <2>1. CASE x = r
    BY <1>1, <1>2, <1>4, <2>1
  <2>2. CASE x # r
    BY <1>2, <2>2, SeatAssumption DEF SeatGood
  <2>3. QED
    BY <2>1, <2>2
<1>6. SeatGood(m, t, con \cup {r}, stk, e)
  BY <1>1, <1>2, <1>3, <1>4, <1>5 DEF SeatGood
<1>7. QED
  BY <1>6 DEF m, q

\* A session whose observer cannot be made is unreferenced at once.
LEMMA UnobservedGood ==
    ASSUME NEW rem, NEW s, NEW con, NEW stk, NEW e,
           SeatGood(rem, s, con, stk, e), s.session = NoRemote,
           NEW r \in Remotes, Free(rem[r]), NEW u \in Users,
           seat' \in SeatType, seat'.session = NoRemote,
           seat'.dbus_observer = NoRemote, seat'.prev_dbus_observer = NoRemote,
           connected' = con,
           remote' = [rem EXCEPT ![r] = BeginDispose(NewRemote(u))],
           stack' = <<[waits |-> r, emitter |-> e]>> \o stk
    PROVE  SeatInv'
<1> DEFINE q == BeginDispose(NewRemote(u))
           f == [waits |-> r, emitter |-> e]
<1>1. Good(q) /\ q.obj = "disposing"
  <2>1. NewRemote(u) \in RemoteType
    BY NewGood DEF Good
  <2>2. QED
    BY <2>1, NewGood, BeginDisposeGood, BeginDisposeFields
<1> HIDE DEF q
<1>2. /\ remote' = [x \in Remotes |-> remote'[x]] /\ remote'[r] = q
      /\ \A x \in Remotes : x # r => remote'[x] = rem[x]
  BY DEF SeatGood, q
<1>3. rem[r].obj # "live" /\ rem[r].obj # "disposing" /\ r # NoRemote
  BY SeatAssumption DEF Free
<1>4. /\ r \notin EmittingOf(stk) /\ r # e /\ r \notin WaitingOf(stk)
      /\ stk \in Seq(FrameType) /\ Apart(stk) /\ e \notin EmittingOf(stk)
  BY <1>3 DEF SeatGood
<1>5. f \in FrameType /\ f.waits = r /\ f.emitter = e
  BY DEF FrameType, SeatGood
<1>6. stack' = <<f>> \o stk
  OBVIOUS
<1> HIDE DEF f
<1>7. /\ stack' \in Seq(FrameType)
      /\ WaitingOf(stack') = WaitingOf(stk) \cup {f.waits}
      /\ EmittingOf(stack') = EmittingOf(stk) \cup ({f.emitter} \ {NoRemote})
      /\ Apart(stk) /\ f.waits \notin WaitingOf(stk)
             /\ f.emitter \notin EmittingOf(stk) => Apart(stack')
  BY <1>4, <1>5, <1>6, Push
<1>8. NoRemote \notin EmittingOf(stack')
  BY DEF EmittingOf
<1>9. \A x \in Remotes :
        /\ Good(remote'[x])
        /\ remote'[x].obj = "live"
                <=> x \in EmittingOf(stack') \cup {NoRemote}
        /\ remote'[x].obj = "disposing" <=> x \in WaitingOf(stack')
  BY <1>1, <1>2, <1>4, <1>5, <1>7, SeatAssumption DEF SeatGood
<1>10. SeatGood(remote', seat', connected', stack', NoRemote)
  BY <1>2, <1>4, <1>5, <1>7, <1>8, <1>9, SeatAssumption DEF SeatGood
<1>11. QED
  BY <1>10 DEF SeatInv

\* tlm_seat_create_session from the spawn on, failures included.
LEMMA LaunchGood ==
    ASSUME NEW rem, NEW s, NEW con, NEW stk, NEW e, NEW name \in Names,
           SeatGood(rem, s, con, stk, e), s.session = NoRemote,
           name = NoUser => s.default_active,
           Launch(rem, s, con, stk, name, e)
    PROVE  SeatInv'
<1>1. CASE connected' = con /\ Return(rem, s, stk, e)
  BY <1>1, ReturnGood
<1> DEFINE u == LoginName(s, name)
<1>2. u \in Users /\ s \in SeatType
  BY SeatAssumption DEF LoginName, Names, SeatGood
<1> HIDE DEF u
<1>3. ASSUME NEW r \in Remotes
      PROVE  LET fresh == [s EXCEPT !.session = r, !.dbus_observer = r,
                               !.prev_dbus_observer = s.dbus_observer]
                 none == [fresh EXCEPT !.session = NoRemote,
                                       !.dbus_observer = NoRemote] IN
             /\ fresh \in SeatType /\ fresh.session = r
             /\ fresh.dbus_observer = r /\ fresh.prev_dbus_observer = NoRemote
             /\ none \in SeatType /\ none.session = NoRemote
             /\ none.dbus_observer = NoRemote
             /\ none.prev_dbus_observer = NoRemote
  BY <1>2 DEF SeatType, SeatGood
<1>4. ASSUME NEW r \in Remotes, Free(rem[r]), connected' = con,
             remote' = [rem EXCEPT ![r] = BeginDispose(NewRemote(u))],
             seat' = [[s EXCEPT !.session = r, !.dbus_observer = r,
                               !.prev_dbus_observer = s.dbus_observer]
                       EXCEPT !.session = NoRemote, !.dbus_observer = NoRemote],
             stack' = <<[waits |-> r, emitter |-> e]>> \o stk
      PROVE  SeatInv'
  BY <1>2, <1>3, <1>4, UnobservedGood
<1>5. ASSUME NEW r \in Remotes, Free(rem[r]), connected' = con \cup {r},
             Return([rem EXCEPT ![r] = CreateCall(NewRemote(u))],
                    [s EXCEPT !.session = r, !.dbus_observer = r,
                              !.prev_dbus_observer = s.dbus_observer],
                    stk, e)
      PROVE  SeatInv'
  <2> DEFINE t == [s EXCEPT !.session = r, !.dbus_observer = r,
                            !.prev_dbus_observer = s.dbus_observer]
             m == [rem EXCEPT ![r] = CreateCall(NewRemote(u))]
  <2>1. /\ t \in SeatType /\ t.session = r
        /\ t.dbus_observer = r /\ t.prev_dbus_observer = NoRemote
    BY <1>3
  <2>2. Return(m, t, stk, e)
    BY <1>5
  <2> HIDE DEF t
  <2>3. SeatGood(m, t, con \cup {r}, stk, e)
    BY <1>2, <1>5, <2>1, BornGood
  <2> HIDE DEF m
  <2>4. QED
    BY <1>5, <2>2, <2>3, ReturnGood
<1>6. QED
  BY <1>1, <1>4, <1>5 DEF Launch, u

\* What a delayed login changes of the seat.
LEMMA DelayFields ==
    ASSUME NEW s \in SeatType, NEW name \in Names
    PROVE  LET t == Delay(s, name) IN
           /\ SameLinks(s, t)
           /\ t.prev_count = IF s.prev_count < 4 THEN s.prev_count + 1 ELSE 4
           /\ t.next_user = s.next_user
           /\ t.default_active = s.default_active
           /\ t.delayed = [s.delayed EXCEPT ![name] = s.delayed[name] + 1]
<1> DEFINE n == IF s.prev_count < 4 THEN s.prev_count + 1 ELSE 4
           d == [s.delayed EXCEPT ![name] = s.delayed[name] + 1]
<1>1. n \in 0..4 /\ d \in [Names -> Nat]
  BY DEF SeatType
<1>2. Delay(s, name) = [s EXCEPT !.prev_count = n, !.delayed = d]
  BY DEF Delay, Counted, SeatType
<1> HIDE DEF n, d
<1>3. QED
  BY <1>1, <1>2 DEF SeatType, SameLinks, n, d

\* What an attempt to log in changes of the seat before the spawn.
LEMMA DefaultedFields ==
    ASSUME NEW s \in SeatType, NEW name \in Names
    PROVE  LET t == Defaulted(Counted(s), name) IN
           /\ SameLinks(s, t)
           /\ t.prev_count = IF s.prev_count < 4 THEN s.prev_count + 1 ELSE 4
           /\ t.next_user = s.next_user
           /\ t.default_active = (s.default_active \/ name = NoUser)
           /\ t.delayed = s.delayed
<1> DEFINE n == IF s.prev_count < 4 THEN s.prev_count + 1 ELSE 4
           a == s.default_active \/ name = NoUser
<1>1. n \in 0..4 /\ a \in BOOLEAN
  BY DEF SeatType
<1>2. Defaulted(Counted(s), name) =
        [s EXCEPT !.prev_count = n, !.default_active = a]
  BY DEF Defaulted, Counted, SeatType
<1> HIDE DEF n, a
<1>3. QED
  BY <1>1, <1>2 DEF SeatType, SameLinks, n, a

\* tlm_seat_create_session, from any caller.
LEMMA CreateSessionGood ==
    ASSUME NEW rem, NEW s, NEW con, NEW stk, NEW e, NEW name \in Names,
           SeatGood(rem, s, con, stk, e),
           CreateSession(rem, s, con, stk, name, e)
    PROVE  SeatInv'
<1>0. s \in SeatType
  BY DEF SeatGood
<1>1. CASE connected' = con /\ Return(rem, s, stk, e)
  BY <1>1, ReturnGood
<1>2. CASE connected' = con /\ Return(rem, Delay(s, name), stk, e)
  <2>1. SeatGood(rem, Delay(s, name), con, stk, e)
    BY <1>0, DelayFields, OtherFieldsGood
  <2>2. QED
    BY <1>2, <2>1, ReturnGood
<1>3. CASE /\ s.session = NoRemote
           /\ Launch(rem, Defaulted(Counted(s), name), con, stk, name, e)
  <2> DEFINE t == Defaulted(Counted(s), name)
  <2>1. /\ SameLinks(s, t)
        /\ t.default_active = (s.default_active \/ name = NoUser)
    BY <1>0, DefaultedFields
  <2>2. Launch(rem, t, con, stk, name, e)
    BY <1>3
  <2> HIDE DEF t
  <2>3. SeatGood(rem, t, con, stk, e)
    BY <2>1, OtherFieldsGood
  <2>4. QED
    BY <1>3, <2>1, <2>2, <2>3, LaunchGood DEF SameLinks
<1>4. QED
  BY <1>1, <1>2, <1>3 DEF CreateSession

\* _close_active_session hands the session over to the emission that closes
\* it.
LEMMA ClosedGood ==
    ASSUME SeatInv, NEW r \in connected, NEW q, Good(q), SameTo(remote[r], q)
    PROVE  /\ r \in Remotes /\ r = seat.session
           /\ SeatGood([remote EXCEPT ![r] = q],
                       [Closed(seat) EXCEPT !.dbus_observer = NoRemote],
                       connected \ {seat.session}, stack, r)
<1> DEFINE m == [remote EXCEPT ![r] = q]
           s == [Closed(seat) EXCEPT !.dbus_observer = NoRemote]
<1>1. seat \in SeatType /\ r \in Remotes /\ r = seat.session /\ r # NoRemote
  BY DEF SeatInv, SeatGood, SeatType
<1>2. /\ m = [x \in Remotes |-> m[x]] /\ m[r] = q
      /\ \A x \in Remotes : x # r => m[x] = remote[x]
  BY <1>1 DEF SeatInv, SeatGood
<1>3. /\ s \in SeatType /\ s.session = NoRemote /\ s.dbus_observer = NoRemote
      /\ s.prev_dbus_observer = seat.prev_dbus_observer
  BY <1>1 DEF SeatType, Closed
<1> HIDE DEF m, s
<1>4. NoRemote \notin EmittingOf(stack)
  BY DEF EmittingOf
<1>5. \A x \in Remotes :
        /\ Good(m[x])
        /\ m[x].obj = "live" <=> x \in EmittingOf(stack) \cup {NoRemote, r}
        /\ m[x].obj = "disposing" <=> x \in WaitingOf(stack)
  <2> TAKE x \in Remotes
  <2>1. CASE x = r
    BY <1>1, <1>2, <2>1 DEF SeatInv, SeatGood, SameTo
  <2>2. CASE x # r
    BY <1>1, <1>2, <2>2 DEF SeatInv, SeatGood
  <2>3. QED
    BY <2>1, <2>2
<1>6. SeatGood(m, s, connected \ {seat.session}, stack, r)
  BY <1>1, <1>2, <1>3, <1>4, <1>5, SeatAssumption DEF SeatInv, SeatGood
<1>7. QED
  BY <1>1, <1>6 DEF m, s

\* _handle_session_terminated.
LEMMA TerminatedGood ==
    ASSUME SeatInv, NEW r \in connected, NEW q, Good(q), SameTo(remote[r], q),
           HandleSessionTerminated([remote EXCEPT ![r] = q], r)
    PROVE  SeatInv'
<1> DEFINE m == [remote EXCEPT ![r] = q]
           s == [Closed(seat) EXCEPT !.dbus_observer = NoRemote]
           con == connected \ {seat.session}
<1>1. SeatGood(m, s, con, stack, r) /\ r \in Remotes
  BY ClosedGood
<1>2. s.next_user \in Names
  BY <1>1 DEF SeatGood, SeatType
<1>3. \/ CreateSession(m, s, con, stack, s.next_user, r)
      \/ seat' = s /\ connected' = con /\ Unref(m, stack, r)
  BY DEF HandleSessionTerminated
<1> HIDE DEF m, s, con
<1>4. QED
  BY <1>1, <1>2, <1>3, CreateSessionGood, UnrefGood

\* _handle_error.
LEMMA FatalErrorGood ==
    ASSUME SeatInv, NEW r \in connected, NEW q, Good(q), SameTo(remote[r], q),
           HandleFatalError([remote EXCEPT ![r] = q], r)
    PROVE  SeatInv'
<1> DEFINE m == [remote EXCEPT ![r] = q]
           s == [Closed(seat) EXCEPT !.dbus_observer = NoRemote]
           con == connected \ {seat.session}
<1>1. SeatGood(m, s, con, stack, r) /\ r \in Remotes
  BY ClosedGood
<1>3. seat' = s /\ connected' = con /\ Unref(m, stack, r)
  BY DEF HandleFatalError
<1> HIDE DEF m, s, con
<1>4. QED
  BY <1>1, <1>3, UnrefGood

\* tlm_seat_terminate_session.
LEMMA TerminateSessionGood ==
    ASSUME SeatInv, NEW s, SameLinks(seat, s), TerminateSession(s)
    PROVE  SeatInv'
<1> DEFINE t == [s EXCEPT !.default_active = FALSE]
<1>1. SameLinks(seat, t) /\ seat' = t
  BY DEF TerminateSession, SameLinks, SeatType
<1> HIDE DEF t
<1>2. SeatGood(remote, t, connected, stack, NoRemote)
  BY <1>1, OtherFieldsGood DEF SeatInv
<1>3. connected' = connected /\ stack' = stack
  BY DEF TerminateSession
<1>4. CASE s.session = NoRemote
  BY <1>1, <1>2, <1>3, <1>4 DEF TerminateSession, SeatInv
<1>5. CASE s.session # NoRemote
  <2> DEFINE r == s.session
             q == Terminate(remote[r])
  <2>1. r \in Remotes /\ r = t.session
    BY <1>1, <1>5 DEF SameLinks, SeatType
  <2>2. /\ remote[r].obj = "live" /\ Good(remote[r])
        /\ remote[r].is_sessiond_up /\ remote[r].can_emit_signal
    BY <1>2, <2>1 DEF SeatGood
  <2>3. remote' = [remote EXCEPT ![r] = q]
    BY <1>5 DEF TerminateSession
  <2>4. /\ Good(q) /\ SameTo(remote[r], q)
        /\ q.is_sessiond_up /\ q.can_emit_signal
    BY <2>2, TerminateGood, KeepsOwner DEF Good
  <2> HIDE DEF q, r
  <2>5. SeatGood(remote', t, connected, stack, NoRemote)
    BY <1>2, <2>1, <2>3, <2>4, OneObjectGood
  <2>6. QED
    BY <1>1, <1>3, <2>5 DEF SeatInv
<1>6. QED
  BY <1>4, <1>5

\* The D-Bus requests, and a delayed login that comes due.
LEMMA RequestsGood ==
    ASSUME SeatInv, NEW n \in Names,
           \/ Requests
           \/ DelayedSession(n)
    PROVE  SeatInv'
<1>0. /\ SeatGood(remote, seat, connected, stack, NoRemote)
      /\ seat \in SeatType /\ SameLinks(seat, seat)
  BY DEF SeatInv, SeatGood, SameLinks
<1>1. ASSUME NEW u \in Users, LoginUser(u)
      PROVE  SeatInv'
  BY <1>0, <1>1, CreateSessionGood DEF LoginUser, Names
<1>2. ASSUME NEW u \in Users, SwitchUser(u)
      PROVE  SeatInv'
  <2>1. CASE CreateSession(remote, seat, connected, stack, u, NoRemote)
    BY <1>0, <2>1, CreateSessionGood DEF Names
  <2>2. CASE TerminateSession([ResetNext(seat) EXCEPT !.next_user = u])
    <3>1. SameLinks(seat, [ResetNext(seat) EXCEPT !.next_user = u])
      BY <1>0 DEF SameLinks, SeatType, ResetNext, Names
    <3>2. QED
      BY <2>2, <3>1, TerminateSessionGood
  <2>3. QED
    BY <1>2, <2>1, <2>2 DEF SwitchUser
<1>3. CASE LogoutUser
  BY <1>0, <1>3, TerminateSessionGood DEF LogoutUser
<1>4. CASE DelayedSession(n)
  <2> DEFINE d == [seat.delayed EXCEPT ![n] = seat.delayed[n] - 1]
             s == [seat EXCEPT !.delayed = d]
  <2>1. seat.delayed[n] \in Nat /\ seat.delayed[n] > 0
    BY <1>0, <1>4 DEF DelayedSession, SeatType
  <2>2. d \in [Names -> Nat]
    BY <1>0, <2>1 DEF SeatType
  <2>3. CreateSession(remote, s, connected, stack, n, NoRemote)
    BY <1>0, <1>4 DEF DelayedSession, SeatType
  <2> HIDE DEF d
  <2>4. SameLinks(seat, s)
    BY <1>0, <2>2 DEF SameLinks, SeatType
  <2> HIDE DEF s
  <2>5. SeatGood(remote, s, connected, stack, NoRemote)
    BY <1>0, <2>4, OtherFieldsGood
  <2>6. QED
    BY <2>3, <2>5, CreateSessionGood
<1>5. QED
  BY <1>1, <1>2, <1>3, <1>4 DEF Requests

\* An event of an object that its owner does not see.
LEMMA UnseenGood ==
    ASSUME SeatInv, NEW r \in Remotes, NEW q, Good(q), SameTo(remote[r], q),
           r \in connected => q.is_sessiond_up /\ q.can_emit_signal,
           remote' = [remote EXCEPT ![r] = q], UNCHANGED seatVars
    PROVE  SeatInv'
<1>1. r = seat.session => r \in connected
  BY SeatAssumption DEF SeatInv, SeatGood
<1>2. SeatGood(remote', seat, connected, stack, NoRemote)
  BY <1>1, OneObjectGood DEF SeatInv
<1>3. QED
  BY <1>2 DEF SeatInv, seatVars

\* Signals, timers, answers and the child watch of an object.
LEMMA EventsKeepSeat ==
    ASSUME SeatInv, NEW r \in Remotes, RemoteEvents(r)
    PROVE  SeatInv'
<1>0. /\ Good(remote[r]) /\ remote[r] \in RemoteType
      /\ remote = [remote EXCEPT ![r] = remote[r]]
      /\ SameTo(remote[r], remote[r])
      /\ r \in connected =>
            remote[r].is_sessiond_up /\ remote[r].can_emit_signal
      /\ r \in connected => remote[r].obj = "live"
  BY DEF SeatInv, SeatGood, Good, SameTo
<1>1. CASE SessionCreated(r)
  <2>1. seat' = [seat EXCEPT !.prev_dbus_observer = NoRemote]
    BY <1>1 DEF SessionCreated
  <2>2. SameLinks(seat, seat')
    BY <2>1 DEF SeatInv, SeatGood, SameLinks, SeatType
  <2>3. SeatGood(remote, seat', connected, stack, NoRemote)
    BY <2>2, OtherFieldsGood DEF SeatInv
  <2>4. QED
    BY <1>1, <2>3 DEF SessionCreated, SeatInv
<1>2. CASE SessionTerminated(r)
  BY <1>0, <1>2, TerminatedGood DEF SessionTerminated
<1>3. CASE SessionError(r)
  BY <1>0, <1>3, FatalErrorGood DEF SessionError
<1>4. ASSUME NEW src \in {"current", "lost"}, TerminateTimer(r, src)
      PROVE  SeatInv'
  <2> DEFINE q == TerminateTimeout(remote[r], src)
  <2>1. /\ Good(q) /\ SameTo(remote[r], q)
        /\ r \in connected => q.is_sessiond_up /\ q.can_emit_signal
    BY <1>0, <1>4, TimeoutGood, KeepsOwner DEF TerminateTimer
  <2>2. \/ r \in connected /\ HandleFatalError([remote EXCEPT ![r] = q], r)
        \/ remote' = [remote EXCEPT ![r] = q] /\ UNCHANGED seatVars
    BY <1>4 DEF TerminateTimer, Only
  <2> HIDE DEF q
  <2>3. QED
    BY <2>1, <2>2, FatalErrorGood, UnseenGood
<1>5. CASE SessiondDown(r)
  <2> DEFINE q == ChildDown(remote[r])
  <2>1. Good(q) /\ SameTo(remote[r], q)
    BY <1>0, <1>5, EventsGood, KeepsOwner DEF SessiondDown
  <2>2. \/ /\ r \in connected
           /\ HandleSessionTerminated([remote EXCEPT ![r] = q], r)
        \/ /\ r \notin connected
           /\ remote' = [remote EXCEPT ![r] = q] /\ UNCHANGED seatVars
    BY <1>0, <1>5 DEF SessiondDown, Only
  <2> HIDE DEF q
  <2>3. QED
    BY <2>1, <2>2, TerminatedGood, UnseenGood
<1>6. CASE CreateAnswered(r)
  <2>1. /\ Good(CreateReply(remote[r]))
        /\ SameTo(remote[r], CreateReply(remote[r]))
        /\ r \in connected => /\ CreateReply(remote[r]).is_sessiond_up
                              /\ CreateReply(remote[r]).can_emit_signal
    BY <1>0, EventsGood, KeepsOwner
  <2>2. QED
    BY <1>6, <2>1, UnseenGood DEF CreateAnswered, ReplyArrives
<1>7. CASE DanglingCallback(r)
  <2>1. r \notin connected
    BY <1>0, <1>7
       DEF DanglingCallback, DanglingTimerFires, DanglingReplyArrives
  <2>2. CASE DanglingTimerFires(r)
    <3> DEFINE q == [remote[r] EXCEPT !.lost = remote[r].lost - 1]
    <3>1. Good(q)
      BY <1>0, <2>2, FreedGood DEF DanglingTimerFires
    <3>2. SameTo(remote[r], q)
      BY <1>0 DEF SameTo, RemoteType
    <3>3. remote' = [remote EXCEPT ![r] = q] /\ UNCHANGED seatVars
      BY <1>0, <1>7, <2>2 DEF DanglingCallback, DanglingTimerFires
    <3> HIDE DEF q
    <3>4. QED
      BY <2>1, <3>1, <3>2, <3>3, UnseenGood
  <2>3. CASE DanglingReplyArrives(r)
    BY <1>0, <1>7, <2>1, <2>3, EventsGood, KeepsOwner, UnseenGood
       DEF DanglingCallback, DanglingReplyArrives
  <2>4. QED
    BY <1>7, <2>2, <2>3 DEF DanglingCallback
<1>8. CASE SessiondEnds(r)
  <2> DEFINE q == [remote[r] EXCEPT !.sd = "exited"]
  <2>1. Good(q) /\ SameTo(remote[r], q)
    BY <1>0, <1>8, EventsGood, KeepsOwner DEF SessiondEnds, SessiondExits
  <2>2. q.is_sessiond_up = remote[r].is_sessiond_up
        /\ q.can_emit_signal = remote[r].can_emit_signal
    BY <1>0 DEF RemoteType
  <2>3. remote' = [remote EXCEPT ![r] = q] /\ UNCHANGED seatVars
    BY <1>0, <1>8 DEF SessiondEnds, SessiondExits
  <2> HIDE DEF q
  <2>4. QED
    BY <1>0, <2>1, <2>2, <2>3, UnseenGood
<1>9. QED
  BY <1>1, <1>2, <1>3, <1>4, <1>5, <1>6, <1>7, <1>8 DEF RemoteEvents

\* The innermost loop ends: its object is finalized, and the handler under
\* it goes on with an invariant of its own (e is the object it holds).
LEMMA LoopPopped ==
    ASSUME SeatInv, NEW r \in Remotes, LoopReturns(r)
    PROVE  LET m == [remote EXCEPT ![r] = EndDispose(remote[r])]
               stk == Tail(stack)
               e == Head(stack).emitter IN
           /\ SeatGood(m, seat, connected, stk, e)
           /\ Return(m, seat, stk, e)
           /\ seat.session # r
           /\ EmittingOf(stk) \subseteq EmittingOf(stack)
           /\ e \in EmittingOf(stack) \cup {NoRemote}
<1> DEFINE q == EndDispose(remote[r])
           m == [remote EXCEPT ![r] = q]
           stk == Tail(stack)
           e == Head(stack).emitter
<1>1. /\ stack \in Seq(FrameType) /\ stack # <<>> /\ Apart(stack)
      /\ Head(stack).waits = r
  BY DEF SeatInv, SeatGood, LoopReturns
<1>2. /\ stk \in Seq(FrameType) /\ Apart(stk)
      /\ WaitingOf(stk) = WaitingOf(stack) \ {r}
      /\ EmittingOf(stk) = EmittingOf(stack) \ {e}
      /\ r \in WaitingOf(stack)
      /\ e \in EmittingOf(stack) \cup {NoRemote}
      /\ e \in Remotes \cup {NoRemote}
  BY <1>1, Pop DEF FrameType
<1>3. Good(q) /\ q.obj = "finalized" /\ remote[r].obj = "disposing"
  BY <1>2, FreedGood, EndDisposeFields DEF SeatInv, SeatGood
<1>4. /\ m = [x \in Remotes |-> m[x]] /\ m[r] = q
      /\ \A x \in Remotes : x # r => m[x] = remote[x]
  BY DEF SeatInv, SeatGood
<1>5. Return(m, seat, stk, e) /\ connected' = connected
  BY DEF LoopReturns
<1> HIDE DEF q, m, stk, e
<1>6. NoRemote \notin EmittingOf(stack)
  BY DEF EmittingOf
<1>7. \A x \in Remotes :
        /\ Good(m[x])
        /\ m[x].obj = "live" <=> x \in EmittingOf(stk) \cup {seat.session, e}
        /\ m[x].obj = "disposing" <=> x \in WaitingOf(stk)
  <2> TAKE x \in Remotes
  <2>1. CASE x = r
    BY <1>2, <1>3, <1>4, <2>1, SeatAssumption DEF SeatInv, SeatGood
  <2>2. CASE x # r
    BY <1>2, <1>4, <2>2, SeatAssumption DEF SeatInv, SeatGood
  <2>3. QED
    BY <2>1, <2>2
<1>8. seat.session # r
  BY <1>3 DEF SeatInv, SeatGood
<1>9. SeatGood(m, seat, connected, stk, e)
  BY <1>2, <1>4, <1>6, <1>7, <1>8, SeatAssumption DEF SeatInv, SeatGood
<1>10. QED
  BY <1>2, <1>5, <1>8, <1>9 DEF q, m, stk, e

\* The innermost nested loop returns.
LEMMA LoopReturnsGood ==
    ASSUME SeatInv, NEW r \in Remotes, LoopReturns(r)
    PROVE  SeatInv'
<1>1. connected' = connected
  BY DEF LoopReturns
<1>2. QED
  BY <1>1, LoopPopped, ReturnGood

\* SeatInv is inductive: one case per action.
LEMMA SeatStep == SeatInv /\ [SeatNext]_vars => SeatInv'
<1> SUFFICES ASSUME SeatInv, [SeatNext]_vars
             PROVE  SeatInv'
  OBVIOUS
<1>1. CASE UNCHANGED vars
  BY <1>1 DEF vars, seatVars, SeatInv
<1>2. CASE SecondPasses
  <2>1. SameLinks(seat, seat')
    BY <1>2 DEF SecondPasses, SameLinks, SeatType, SeatInv, SeatGood
  <2>2. SeatGood(remote, seat', connected, stack, NoRemote)
    BY <2>1, OtherFieldsGood DEF SeatInv
  <2>3. QED
    BY <1>2, <2>2 DEF SecondPasses, SeatInv
<1>3. NoUser \in Names
  BY DEF Names
<1>4. QED
  BY <1>1, <1>2, <1>3, RequestsGood, EventsKeepSeat, LoopReturnsGood
     DEF SeatNext

\* The seat as _create_seat leaves it.
LEMMA SeatStart == SeatInit => SeatInv
<1> SUFFICES ASSUME SeatInit
             PROVE  SeatInv
  OBVIOUS
<1>1. /\ stack \in Seq(FrameType) /\ Apart(stack)
      /\ EmittingOf(stack) = {} /\ WaitingOf(stack) = {}
  <2>1. stack = <<>>
    BY DEF SeatInit
  <2>2. stack \in Seq(FrameType) /\ Len(stack) = 0
    BY <2>1
  <2>3. DOMAIN stack = 1..0
    BY <2>2
  <2>4. QED
    BY <2>2, <2>3 DEF Apart, EmittingOf, WaitingOf
<1> DEFINE s == Defaulted(Counted(EmptySeat(TRUE)), NoUser)
<1>2. ASSUME NEW b \in BOOLEAN
      PROVE  /\ EmptySeat(b) \in SeatType /\ EmptySeat(b).session = NoRemote
             /\ EmptySeat(b).dbus_observer = NoRemote
             /\ EmptySeat(b).prev_dbus_observer = NoRemote
  BY DEF EmptySeat, SeatType, Names
<1>3. /\ s \in SeatType /\ s.session = NoRemote
      /\ s.dbus_observer = NoRemote /\ s.prev_dbus_observer = NoRemote
  <2>1. NoUser \in Names /\ EmptySeat(TRUE) \in SeatType
    BY <1>2 DEF Names
  <2>2. SameLinks(EmptySeat(TRUE), s)
    BY <2>1, DefaultedFields
  <2>3. QED
    BY <1>2, <2>2 DEF SameLinks
<1> HIDE DEF s
<1>4. CASE /\ RemoteInit /\ seat \in SeatType /\ seat.session = NoRemote
           /\ seat.dbus_observer = NoRemote
           /\ seat.prev_dbus_observer = NoRemote
  <2>1. /\ remote = [r \in Remotes |-> remote[r]]
        /\ \A r \in Remotes : Good(remote[r]) /\ remote[r].obj = "unborn"
    BY <1>4, UnbornGood DEF RemoteInit, Unborn
  <2>2. connected = {}
    BY <1>4 DEF SeatInit
  <2>3. SeatGood(remote, seat, connected, stack, NoRemote)
    BY <1>1, <1>4, <2>1, <2>2, SeatAssumption DEF SeatGood
  <2>4. QED
    BY <2>3 DEF SeatInv
<1>5. ASSUME NEW r \in Remotes,
             remote = [q \in Remotes |->
                        IF q = r THEN CreateCall(NewRemote(DefaultUser))
                                 ELSE Unborn],
             seat = [s EXCEPT !.session = r, !.dbus_observer = r]
      PROVE  SeatInv
  <2>1. /\ Good(CreateCall(NewRemote(DefaultUser)))
        /\ CreateCall(NewRemote(DefaultUser)).obj = "live"
        /\ CreateCall(NewRemote(DefaultUser)).user = DefaultUser
        /\ CreateCall(NewRemote(DefaultUser)).is_sessiond_up
        /\ CreateCall(NewRemote(DefaultUser)).can_emit_signal
    BY SeatAssumption, NewGood, EventsGood, NewRemoteFields
  <2>2. /\ remote = [q \in Remotes |-> remote[q]]
        /\ remote[r] = CreateCall(NewRemote(DefaultUser))
        /\ \A q \in Remotes : Good(remote[q])
        /\ \A q \in Remotes : q # r => remote[q].obj = "unborn"
    BY <1>5, <2>1, UnbornGood DEF Unborn
  <2>3. /\ seat \in SeatType /\ seat.session = r /\ seat.dbus_observer = r
        /\ seat.prev_dbus_observer = NoRemote
    BY <1>3, <1>5 DEF SeatType
  <2>4. connected = {r} /\ r # NoRemote
    BY <2>3, SeatAssumption DEF SeatInit
  <2>5. SeatGood(remote, seat, connected, stack, NoRemote)
    BY <1>1, <2>1, <2>2, <2>3, <2>4, SeatAssumption DEF SeatGood
  <2>6. QED
    BY <2>5 DEF SeatInv
<1>6. QED
  BY <1>2, <1>3, <1>4, <1>5 DEF SeatInit, s

\* SeatInv holds throughout.
LEMMA AlwaysSeatInv == SeatSpec => []SeatInv
BY SeatStart, SeatStep, PTL DEF SeatSpec

\* Every TlmSessionRemote object has one owner, for any number of objects,
\* users and loops and whatever fails (tlm_seat_create_session,
\* _handle_session_terminated, _handle_error, the loop in dispose).
THEOREM SeatOwnership == SeatSpec => []OwnedOnce
<1>1. SeatInv => OwnedOnce
  <2> SUFFICES ASSUME SeatInv
               PROVE  OwnedOnce
    OBVIOUS
  <2>1. Waiting = WaitingOf(stack) /\ Emitting = EmittingOf(stack)
    BY DEF Waiting, WaitingOf, Emitting, EmittingOf, Frames
  <2>2. /\ EmittingOf(stack) \subseteq Remotes
        /\ WaitingOf(stack) \subseteq Remotes
    <3>1. \A i \in DOMAIN stack : stack[i] \in FrameType
      BY DEF SeatInv, SeatGood
    <3>2. \A i \in DOMAIN stack :
            /\ stack[i].waits \in Remotes
            /\ stack[i].emitter \in Remotes \cup {NoRemote}
      BY <3>1 DEF FrameType
    <3>3. QED
      BY <3>2 DEF EmittingOf, WaitingOf
  <2>3. seat.session \in Remotes \cup {NoRemote}
    BY DEF SeatInv, SeatGood, SeatType
  <2>4. /\ {r \in Remotes : remote[r].obj = "live"} =
            ({seat.session} \ {NoRemote}) \cup Emitting
        /\ {r \in Remotes : remote[r].obj = "disposing"} = Waiting
    <3>1. \A r \in Remotes :
            /\ remote[r].obj = "live"
                    <=> r \in EmittingOf(stack) \cup {seat.session, NoRemote}
            /\ remote[r].obj = "disposing" <=> r \in WaitingOf(stack)
      BY DEF SeatInv, SeatGood
    <3>2. QED
      BY <2>1, <2>2, <2>3, <3>1, SeatAssumption
  <2>5. /\ seat.session \notin Emitting
        /\ connected = {seat.session} \ {NoRemote}
        /\ \A r \in connected :
            remote[r].is_sessiond_up /\ remote[r].can_emit_signal
    BY <2>1, <2>3 DEF SeatInv, SeatGood
  <2>6. \A i, j \in DOMAIN stack :
            stack[i].waits = stack[j].waits => i = j
    BY DEF SeatInv, SeatGood, Apart
  <2>7. QED
    BY <2>4, <2>5, <2>6 DEF OwnedOnce
<1>2. QED
  BY <1>1, AlwaysSeatInv, PTL

\* The seat's D-Bus observer is the one of its session
\* (tlm_seat_create_session, _close_active_session).
THEOREM LoginObjectExported == SeatSpec => []ObserverExported
<1>1. SeatInv => ObserverExported
  BY DEF SeatInv, SeatGood, ObserverExported
<1>2. QED
  BY <1>1, AlwaysSeatInv, PTL

-----------------------------------------------------------------------------
(* The throttle.                                                           *)

\* The count of attempts is ahead of the count of sessionds started since the
\* last quiet second.
Counting(s, n) == n \in Nat /\ n <= s.prev_count /\ n <= 3

\* The count between two callbacks.
ThrottleInv == Counting(seat, spawns)

\* Returning from tlm_seat_create_session leaves the throttle alone.
LEMMA ReturnCounts ==
    ASSUME NEW rem, NEW s \in SeatType, NEW stk, NEW e, Return(rem, s, stk, e)
    PROVE  seat'.prev_count = s.prev_count
BY DEF Return, ResetNext, SeatType

\* A login starts at most one sessiond.
LEMMA LaunchCounts ==
    ASSUME NEW rem, NEW s \in SeatType, NEW con, NEW stk, NEW name, NEW e,
           Launch(rem, s, con, stk, name, e)
    PROVE  /\ spawns' \in {spawns, spawns + 1}
           /\ seat'.prev_count = s.prev_count
<1>1. CASE Return(rem, s, stk, e) /\ UNCHANGED spawns
  BY <1>1, ReturnCounts
<1>2. ASSUME NEW r \in Remotes
      PROVE  LET fresh == [s EXCEPT !.session = r, !.dbus_observer = r,
                               !.prev_dbus_observer = s.dbus_observer]
                 none == [fresh EXCEPT !.session = NoRemote,
                                       !.dbus_observer = NoRemote] IN
             /\ fresh \in SeatType /\ fresh.prev_count = s.prev_count
             /\ none.prev_count = s.prev_count
  BY DEF SeatType
<1>3. ASSUME NEW r \in Remotes,
             seat' = [[s EXCEPT !.session = r, !.dbus_observer = r,
                               !.prev_dbus_observer = s.dbus_observer]
                       EXCEPT !.session = NoRemote, !.dbus_observer = NoRemote]
      PROVE  seat'.prev_count = s.prev_count
  BY <1>2, <1>3
<1>4. ASSUME NEW r \in Remotes, NEW m,
             Return(m, [s EXCEPT !.session = r, !.dbus_observer = r,
                                 !.prev_dbus_observer = s.dbus_observer],
                    stk, e)
      PROVE  seat'.prev_count = s.prev_count
  <2> DEFINE t == [s EXCEPT !.session = r, !.dbus_observer = r,
                            !.prev_dbus_observer = s.dbus_observer]
  <2>1. t \in SeatType /\ t.prev_count = s.prev_count
    BY <1>2
  <2>2. Return(m, t, stk, e)
    BY <1>4
  <2> HIDE DEF t
  <2>3. QED
    BY <2>1, <2>2, ReturnCounts
<1>5. QED
  BY <1>1, <1>3, <1>4 DEF Launch

\* Each start has been counted before, and none comes after the third.
LEMMA CreateSessionCounts ==
    ASSUME NEW rem, NEW s \in SeatType, NEW con, NEW stk,
           NEW name \in Names, NEW e, Counting(s, spawns),
           CreateSession(rem, s, con, stk, name, e)
    PROVE  ThrottleInv'
<1>0. s.prev_count \in 0..4 /\ spawns \in Nat
  BY DEF SeatType, Counting
<1>1. CASE Return(rem, s, stk, e) /\ UNCHANGED spawns
  BY <1>1, ReturnCounts DEF ThrottleInv, Counting
<1>2. CASE Return(rem, Delay(s, name), stk, e) /\ UNCHANGED spawns
  <2>1. /\ Delay(s, name) \in SeatType
        /\ Delay(s, name).prev_count =
                IF s.prev_count < 4 THEN s.prev_count + 1 ELSE 4
    BY DelayFields DEF SameLinks
  <2>2. seat'.prev_count = Delay(s, name).prev_count
    BY <1>2, <2>1, ReturnCounts
  <2>3. QED
    BY <1>0, <1>2, <2>1, <2>2 DEF ThrottleInv, Counting
<1>3. CASE /\ ~Throttled(s)
           /\ Launch(rem, Defaulted(Counted(s), name), con, stk, name, e)
  <2> DEFINE t == Defaulted(Counted(s), name)
  <2>1. /\ t \in SeatType
        /\ t.prev_count = IF s.prev_count < 4 THEN s.prev_count + 1 ELSE 4
    BY DefaultedFields DEF SameLinks
  <2>2. Launch(rem, t, con, stk, name, e)
    BY <1>3
  <2> HIDE DEF t
  <2>3. spawns' \in {spawns, spawns + 1} /\ seat'.prev_count = t.prev_count
    BY <2>1, <2>2, LaunchCounts
  <2>4. QED
    BY <1>0, <1>3, <2>1, <2>3 DEF ThrottleInv, Counting, Throttled
<1>4. QED
  BY <1>1, <1>2, <1>3 DEF CreateSession

\* ThrottleInv is inductive relative to SeatInv, which types the seat.
LEMMA ThrottleStep ==
    ASSUME SeatInv, ThrottleInv, [SeatNext]_vars
    PROVE  ThrottleInv'
<1>0. seat \in SeatType /\ Counting(seat, spawns)
  BY DEF SeatInv, SeatGood, ThrottleInv
<1>1. ASSUME UNCHANGED spawns, seat'.prev_count = seat.prev_count
      PROVE  ThrottleInv'
  BY <1>1 DEF ThrottleInv, Counting
<1>2. ASSUME NEW u \in Users,
             CreateSession(remote, seat, connected, stack, u, NoRemote)
      PROVE  ThrottleInv'
  BY <1>0, <1>2, CreateSessionCounts DEF Names
<1>3. ASSUME NEW s \in SeatType, s.prev_count = seat.prev_count,
             TerminateSession(s)
      PROVE  ThrottleInv'
  BY <1>1, <1>3 DEF TerminateSession, SeatType
<1>4. CASE Requests
  <2>1. ASSUME NEW u \in Users, SwitchUser(u)
        PROVE  ThrottleInv'
    <3>1. /\ [ResetNext(seat) EXCEPT !.next_user = u] \in SeatType
          /\ [ResetNext(seat) EXCEPT !.next_user = u].prev_count
                = seat.prev_count
      BY <1>0 DEF ResetNext, SeatType, Names
    <3>2. QED
      BY <1>2, <1>3, <2>1, <3>1 DEF SwitchUser
  <2>2. QED
    BY <1>0, <1>2, <1>3, <1>4, <2>1 DEF Requests, LoginUser, LogoutUser
<1>5. ASSUME NEW n \in Names, DelayedSession(n)
      PROVE  ThrottleInv'
  <2> DEFINE s == [seat EXCEPT !.delayed[n] = @ - 1]
  <2>1. seat.delayed[n] \in Nat /\ seat.delayed[n] > 0
    BY <1>0, <1>5 DEF DelayedSession, SeatType
  <2>2. s \in SeatType /\ s.prev_count = seat.prev_count
    BY <1>0, <2>1 DEF SeatType
  <2>3. CreateSession(remote, s, connected, stack, n, NoRemote)
    BY <1>5 DEF DelayedSession
  <2> HIDE DEF s
  <2>4. Counting(s, spawns)
    BY <1>0, <2>2 DEF Counting
  <2>5. QED
    BY <2>2, <2>3, <2>4, CreateSessionCounts
<1>6. ASSUME NEW rem, NEW r, HandleSessionTerminated(rem, r)
      PROVE  ThrottleInv'
  <2> DEFINE s == [Closed(seat) EXCEPT !.dbus_observer = NoRemote]
             con == connected \ {seat.session}
  <2>1. /\ s \in SeatType /\ s.prev_count = seat.prev_count
        /\ s.next_user \in Names
    BY <1>0 DEF SeatType, Closed
  <2>2. \/ CreateSession(rem, s, con, stack, s.next_user, r)
        \/ seat' = s /\ UNCHANGED spawns
    BY <1>6 DEF HandleSessionTerminated
  <2> HIDE DEF s, con
  <2>3. Counting(s, spawns)
    BY <1>0, <2>1 DEF Counting
  <2>4. QED
    BY <1>1, <2>1, <2>2, <2>3, CreateSessionCounts
<1>7. ASSUME NEW rem, NEW r, HandleFatalError(rem, r)
      PROVE  ThrottleInv'
  <2>1. seat'.prev_count = seat.prev_count
    BY <1>0, <1>7 DEF HandleFatalError, Closed, SeatType
  <2>2. QED
    BY <1>1, <1>7, <2>1 DEF HandleFatalError
<1>8. ASSUME NEW r \in Remotes, RemoteEvents(r)
      PROVE  ThrottleInv'
  <2>1. CASE SessionCreated(r)
    <3>1. seat'.prev_count = seat.prev_count
      BY <1>0, <2>1 DEF SessionCreated, SeatType
    <3>2. QED
      BY <1>1, <2>1, <3>1 DEF SessionCreated
  <2>2. CASE UNCHANGED seatVars
    BY <1>1, <2>2 DEF seatVars
  <2>3. CASE SessionTerminated(r)
    BY <1>6, <2>3 DEF SessionTerminated
  <2>4. CASE SessionError(r)
    BY <1>7, <2>4 DEF SessionError
  <2>5. ASSUME NEW src, TerminateTimer(r, src)
        PROVE  ThrottleInv'
    BY <1>7, <2>2, <2>5 DEF TerminateTimer, Only
  <2>6. CASE SessiondDown(r)
    BY <1>6, <2>2, <2>6 DEF SessiondDown, Only
  <2>7. QED
    BY <1>8, <2>1, <2>2, <2>3, <2>4, <2>5, <2>6
       DEF RemoteEvents, CreateAnswered, DanglingCallback, SessiondEnds
<1>9. ASSUME NEW r \in Remotes, LoopReturns(r)
      PROVE  ThrottleInv'
  <2>1. seat'.prev_count = seat.prev_count
    BY <1>0, <1>9, ReturnCounts DEF LoopReturns
  <2>2. QED
    BY <1>1, <1>9, <2>1 DEF LoopReturns
<1>10. CASE SecondPasses
  <2>1. spawns' = 0 /\ seat'.prev_count = 0
    BY <1>0, <1>10 DEF SecondPasses, SeatType
  <2>2. QED
    BY <2>1 DEF ThrottleInv, Counting
<1>11. CASE UNCHANGED vars
  BY <1>1, <1>11 DEF vars, seatVars
<1>12. QED
  BY <1>4, <1>5, <1>8, <1>9, <1>10, <1>11 DEF SeatNext

\* ThrottleInv holds throughout.
LEMMA AlwaysThrottleInv == SeatSpec => []ThrottleInv
<1>1. SeatInit => ThrottleInv
  <2> DEFINE s == Defaulted(Counted(EmptySeat(TRUE)), NoUser)
  <2>1. /\ EmptySeat(TRUE) \in SeatType /\ NoUser \in Names
        /\ EmptySeat(TRUE).prev_count = 0 /\ EmptySeat(FALSE).prev_count = 0
    BY DEF EmptySeat, SeatType, Names
  <2>2. s.prev_count = 1 /\ s \in SeatType
    <3> DEFINE none == EmptySeat(TRUE)
    <3>1. none \in SeatType /\ none.prev_count = 0
      BY <2>1
    <3>2. s = Defaulted(Counted(none), NoUser)
      OBVIOUS
    <3> HIDE DEF none, s
    <3>3. QED
      BY <2>1, <3>1, <3>2, DefaultedFields DEF SameLinks
  <2> HIDE DEF s
  <2>3. \A r : [s EXCEPT !.session = r, !.dbus_observer = r].prev_count = 1
    BY <2>2 DEF SeatType
  <2>4. SeatInit => \/ spawns = 0 /\ seat \in {EmptySeat(FALSE), s}
                    \/ /\ spawns = 1
                       /\ \E r : seat = [s EXCEPT !.session = r,
                                                  !.dbus_observer = r]
    BY DEF SeatInit, s
  <2>5. SeatInit => \/ spawns = 0 /\ seat.prev_count \in {0, 1}
                    \/ spawns = 1 /\ seat.prev_count = 1
    BY <2>1, <2>2, <2>3, <2>4, Zenon
  <2>6. QED
    BY <2>5 DEF ThrottleInv, Counting
<1>2. SeatInv /\ ThrottleInv /\ [SeatNext]_vars => ThrottleInv'
  BY ThrottleStep
<1>3. QED
  BY <1>1, <1>2, AlwaysSeatInv, PTL DEF SeatSpec

\* At most three sessionds start without a quiet second, whatever asks for
\* them (the throttle of tlm_seat_create_session).
THEOREM LoginsThrottled == SeatSpec => []ThrottleHolds
<1>1. ThrottleInv => ThrottleHolds
  BY DEF ThrottleInv, Counting, ThrottleHolds
<1>2. QED
  BY <1>1, AlwaysThrottleInv, PTL

\* The state of TlmSeat and of its objects is well typed.
THEOREM SeatTypeCorrect == SeatSpec => []SeatTypeOK
<1>1. SeatInv /\ ThrottleInv => SeatTypeOK
  <2> SUFFICES ASSUME SeatInv, ThrottleInv
               PROVE  SeatTypeOK
    OBVIOUS
  <2>1. RemoteTypeOK
    BY DEF SeatInv, SeatGood, Good, RemoteTypeOK
  <2>2. seat \in SeatType /\ stack \in Seq(FrameType) /\ spawns \in Nat
    BY DEF SeatInv, SeatGood, ThrottleInv, Counting
  <2>3. connected \subseteq Remotes
    BY DEF SeatInv, SeatGood, SeatType
  <2>4. QED
    BY <2>1, <2>2, <2>3 DEF SeatTypeOK
<1>2. QED
  BY <1>1, AlwaysSeatInv, AlwaysThrottleInv, PTL

-----------------------------------------------------------------------------
(* The seat implements module Login.                                       *)

\* The user Login is shown.
User(rem, s) == IF s.session = NoRemote THEN NoUser ELSE rem[s.session].user

\* What the refinement needs beyond SeatInv, and only has without failures:
\* no handler waits under a loop, and a pending switch has a session to end
\* and has turned the default user off.
SwitchInv ==
    /\ EmittingOf(stack) = {}
    /\ seat.next_user # NoUser => /\ seat.session # NoRemote
                                  /\ ~seat.default_active

\* Returning to an emission clears next_user and shows Login nothing else.
LEMMA ReturnMaps ==
    ASSUME NEW rem, NEW s, NEW con, NEW stk, NEW e,
           SeatGood(rem, s, con, stk, e), Return(rem, s, stk, e)
    PROVE  /\ User(remote', seat') = User(rem, s)
           /\ seat'.session = s.session
           /\ seat'.default_active = s.default_active
           /\ seat'.delayed = s.delayed
           /\ seat'.next_user = IF e = NoRemote THEN s.next_user ELSE NoUser
           /\ EmittingOf(stack') = EmittingOf(stk)
<1>0. s \in SeatType /\ stk \in Seq(FrameType)
  BY DEF SeatGood
<1>1. CASE e = NoRemote
  BY <1>1 DEF Return
<1>2. CASE e # NoRemote
  <2>1. e \in Remotes /\ s.session # e
    BY <1>2 DEF SeatGood
  <2>2. /\ ResetNext(s).session = s.session
        /\ ResetNext(s).default_active = s.default_active
        /\ ResetNext(s).delayed = s.delayed
        /\ ResetNext(s).next_user = NoUser
    BY <1>0 DEF ResetNext, SeatType
  <2>3. seat' = ResetNext(s) /\ Unref(rem, stk, e)
    BY <1>2 DEF Return
  <2>4. s.session # NoRemote => remote'[s.session] = rem[s.session]
    <3>1. /\ rem = [x \in Remotes |-> rem[x]]
          /\ s.session \in Remotes \cup {NoRemote}
      BY DEF SeatGood, SeatType
    <3>2. \E q : remote' = [rem EXCEPT ![e] = q]
      BY <2>3 DEF Unref
    <3>3. QED
      BY <2>1, <3>1, <3>2
  <2>5. EmittingOf(stack') = EmittingOf(stk)
    <3>1. CASE stack' = stk
      BY <3>1
    <3>2. CASE stack' = <<[waits |-> e, emitter |-> NoRemote]>> \o stk
      <4> DEFINE f == [waits |-> e, emitter |-> NoRemote]
      <4>1. f \in FrameType /\ f.emitter = NoRemote /\ stack' = <<f>> \o stk
        BY <2>1, <3>2 DEF FrameType
      <4> HIDE DEF f
      <4>2. EmittingOf(stack') = EmittingOf(stk) \cup ({f.emitter} \ {NoRemote})
        BY <1>0, <4>1, Push
      <4>3. QED
        BY <4>1, <4>2
    <3>3. QED
      BY <2>3, <3>1, <3>2 DEF Unref
  <2>6. QED
    BY <1>2, <2>2, <2>3, <2>4, <2>5 DEF User
<1>3. QED
  BY <1>1, <1>2

\* tlm_seat_create_session refuses, delays or logs in the user it is to.
LEMMA CreateSessionMaps ==
    ASSUME NEW rem, NEW s, NEW con, NEW stk, NEW e, NEW name \in Names,
           Failures = {}, SeatGood(rem, s, con, stk, e),
           CreateSession(rem, s, con, stk, name, e)
    PROVE  /\ EmittingOf(stack') = EmittingOf(stk)
           /\ seat'.next_user = IF e = NoRemote THEN s.next_user ELSE NoUser
           /\ \/ /\ s.session # NoRemote /\ seat'.session = s.session
                 /\ User(remote', seat') = User(rem, s)
                 /\ seat'.delayed = s.delayed
                 /\ seat'.default_active = s.default_active
              \/ /\ s.session = NoRemote /\ seat'.session = NoRemote
                 /\ seat'.delayed =
                        [s.delayed EXCEPT ![name] = s.delayed[name] + 1]
              \/ /\ s.session = NoRemote /\ seat'.session \in Remotes
                 /\ User(remote', seat') =
                        IF s.default_active \/ name = NoUser
                        THEN DefaultUser ELSE name
                 /\ seat'.delayed = s.delayed
<1>0. s \in SeatType
  BY DEF SeatGood
<1>1. CASE s.session # NoRemote
  <2>1. Return(rem, s, stk, e)
    BY <1>1 DEF CreateSession
  <2>2. QED
    BY <1>1, <2>1, ReturnMaps
<1>2. CASE s.session = NoRemote /\ Throttled(s)
  <2> DEFINE t == Delay(s, name)
  <2>1. Return(rem, t, stk, e)
    BY <1>2 DEF CreateSession
  <2>2. /\ SameLinks(s, t) /\ t.next_user = s.next_user
        /\ t.default_active = s.default_active
        /\ t.delayed = [s.delayed EXCEPT ![name] = s.delayed[name] + 1]
    BY <1>0, DelayFields
  <2> HIDE DEF t
  <2>3. SeatGood(rem, t, con, stk, e)
    BY <2>2, OtherFieldsGood
  <2>4. QED
    BY <1>2, <2>1, <2>2, <2>3, ReturnMaps DEF SameLinks
<1>3. CASE s.session = NoRemote /\ ~Throttled(s)
  <2> DEFINE t == Defaulted(Counted(s), name)
  <2>1. /\ SameLinks(s, t) /\ t.next_user = s.next_user
        /\ t.default_active = (s.default_active \/ name = NoUser)
        /\ t.delayed = s.delayed
    BY <1>0, DefaultedFields
  <2>2. Launch(rem, t, con, stk, name, e)
    BY <1>3 DEF CreateSession
  <2> HIDE DEF t
  <2>3. SeatGood(rem, t, con, stk, e) /\ t \in SeatType
    BY <2>1, OtherFieldsGood DEF SameLinks
  <2> DEFINE u == LoginName(t, name)
  <2>4. u \in Users
    BY <2>1, SeatAssumption DEF LoginName, Names
  <2>5. u = IF s.default_active \/ name = NoUser THEN DefaultUser ELSE name
    BY <2>1 DEF LoginName
  <2>6. PICK r \in Remotes :
            /\ Free(rem[r])
            /\ Return([rem EXCEPT ![r] = CreateCall(NewRemote(u))],
                      [t EXCEPT !.session = r, !.dbus_observer = r,
                                !.prev_dbus_observer = t.dbus_observer],
                      stk, e)
    BY <2>2 DEF Launch
  <2> HIDE DEF u
  <2> DEFINE fresh == [t EXCEPT !.session = r, !.dbus_observer = r,
                                !.prev_dbus_observer = t.dbus_observer]
             m == [rem EXCEPT ![r] = CreateCall(NewRemote(u))]
  <2>7. /\ fresh \in SeatType /\ fresh.session = r /\ fresh.dbus_observer = r
        /\ fresh.prev_dbus_observer = NoRemote
        /\ fresh.next_user = t.next_user /\ fresh.delayed = t.delayed
    BY <1>3, <2>1, <2>3 DEF SeatType, SeatGood, SameLinks
  <2>8. Return(m, fresh, stk, e)
    BY <2>6
  <2>9. m[r].user = u
    BY <2>3, NewRemoteFields DEF SeatGood
  <2> HIDE DEF fresh
  <2>10. SeatGood(m, fresh, con \cup {r}, stk, e)
    BY <1>3, <2>1, <2>3, <2>4, <2>6, <2>7, BornGood DEF SameLinks
  <2> HIDE DEF m
  <2>11. User(m, fresh) = u
    BY <2>7, <2>9, SeatAssumption DEF User
  <2>12. QED
    BY <1>3, <2>1, <2>5, <2>7, <2>8, <2>10, <2>11, ReturnMaps
<1>4. QED
  BY <1>1, <1>2, <1>3

\* A step as module Login sees it.
LoginStep == L!LoginNext \/ UNCHANGED L!loginVars

\* The steps Login allows, in terms of the seat: nothing, a login or a
\* delayed one, a delayed login coming due, a switch asked for, and the end
\* of a session.
LEMMA LoginSteps ==
    ASSUME NEW n \in Names
    PROVE  LET old == User(remote, seat)
               new == User(remote', seat')
               guests == {DefaultUser} \cup ({n} \ {NoUser})
               more == [seat.delayed EXCEPT ![n] = seat.delayed[n] + 1]
               less == [seat.delayed EXCEPT ![n] = seat.delayed[n] - 1]
               next == seat.next_user IN
           /\ /\ new = old /\ seat'.next_user = next
              /\ seat'.delayed = seat.delayed
              => LoginStep
           /\ /\ old = NoUser /\ seat'.next_user = next
              /\ \/ new \in guests /\ seat'.delayed = seat.delayed
                 \/ new = NoUser /\ seat'.delayed = more
              => LoginStep
           /\ /\ seat.delayed[n] > 0 /\ seat'.delayed = less
              /\ seat'.next_user = next
              /\ IF old = NoUser THEN new \in guests ELSE new = old
              => LoginStep
           /\ /\ n # NoUser /\ old # NoUser /\ new = old
              /\ seat'.next_user = n /\ seat'.delayed = seat.delayed
              => LoginStep
           /\ /\ old # NoUser /\ next = n /\ seat'.next_user = NoUser
              /\ \/ /\ seat'.delayed = seat.delayed
                    /\ \/ n = NoUser /\ new \in {NoUser, DefaultUser}
                       \/ n # NoUser /\ new = n
                 \/ new = NoUser /\ seat'.delayed = more
              => LoginStep
BY DEF LoginStep, User, Names, L!LoginNext, L!loginVars, L!Names, L!Guests,
       L!Arrive, L!PutOff, L!Repay, L!Ask, L!Leave, L!Change

\* Somebody is logged in exactly when the seat has a session.
LEMMA UserKnown ==
    ASSUME SeatInv
    PROVE  /\ User(remote, seat) = NoUser <=> seat.session = NoRemote
           /\ seat \in SeatType /\ NoUser \in Names
           /\ seat.next_user \in Names
           /\ seat.session \in Remotes \cup {NoRemote}
BY RemoteAssumption DEF SeatInv, SeatGood, User, SeatType, Names

\* An event that its owner does not see is a stuttering step.
LEMMA UnseenMaps ==
    ASSUME SeatInv, SwitchInv, NEW r \in Remotes, NEW q,
           q.user = remote[r].user \/ r # seat.session,
           remote' = [remote EXCEPT ![r] = q], UNCHANGED seatVars
    PROVE  LoginStep /\ SwitchInv'
<1>1. User(remote', seat') = User(remote, seat)
  BY UserKnown DEF User, seatVars, SeatInv, SeatGood
<1>2. seat' = seat /\ stack' = stack
  BY DEF seatVars
<1>3. QED
  BY <1>1, <1>2, UserKnown, LoginSteps DEF SwitchInv

\* A request to log in.
LEMMA LoginMaps ==
    ASSUME SeatInv, SwitchInv, Failures = {}, NEW n \in Names,
           CreateSession(remote, seat, connected, stack, n, NoRemote)
    PROVE  LoginStep /\ SwitchInv'
<1>1. SeatGood(remote, seat, connected, stack, NoRemote)
  BY DEF SeatInv
<1>2. CASE seat.session # NoRemote
  <2>1. /\ EmittingOf(stack') = EmittingOf(stack)
        /\ seat'.next_user = seat.next_user /\ seat'.session = seat.session
        /\ User(remote', seat') = User(remote, seat)
        /\ seat'.delayed = seat.delayed
        /\ seat'.default_active = seat.default_active
    BY <1>1, <1>2, CreateSessionMaps
  <2>2. QED
    BY <2>1, LoginSteps DEF SwitchInv
<1>3. CASE seat.session = NoRemote
  <2>1. /\ EmittingOf(stack') = EmittingOf(stack)
        /\ seat'.next_user = seat.next_user
        /\ \/ /\ seat'.session = NoRemote
              /\ seat'.delayed =
                    [seat.delayed EXCEPT ![n] = seat.delayed[n] + 1]
           \/ /\ User(remote', seat') =
                    IF seat.default_active \/ n = NoUser
                    THEN DefaultUser ELSE n
              /\ seat'.delayed = seat.delayed
    BY <1>1, <1>3, CreateSessionMaps
  <2>2. User(remote, seat) = NoUser
    BY <1>3, UserKnown
  <2>3. seat'.session = NoRemote => User(remote', seat') = NoUser
    BY DEF User
  <2>4. QED
    BY <1>3, <2>1, <2>2, <2>3, LoginSteps DEF SwitchInv
<1>4. QED
  BY <1>2, <1>3

\* A delayed login that comes due.
LEMMA DelayedMaps ==
    ASSUME SeatInv, SwitchInv, Failures = {}, NEW n \in Names,
           DelayedSession(n)
    PROVE  LoginStep /\ SwitchInv'
<1> DEFINE d == [seat.delayed EXCEPT ![n] = seat.delayed[n] - 1]
           s == [seat EXCEPT !.delayed = d]
<1>0. seat \in SeatType /\ seat.delayed \in [Names -> Nat]
  BY UserKnown DEF SeatType
<1>1. seat.delayed[n] \in Nat /\ seat.delayed[n] > 0
  BY <1>0 DEF DelayedSession
<1>2. d \in [Names -> Nat]
  BY <1>0, <1>1
<1>3. CreateSession(remote, s, connected, stack, n, NoRemote)
  BY <1>0 DEF DelayedSession, SeatType
<1>4. [d EXCEPT ![n] = d[n] + 1] = seat.delayed
  BY <1>0, <1>1
<1> HIDE DEF d
<1>5. /\ SameLinks(seat, s) /\ s.delayed = d /\ s.next_user = seat.next_user
      /\ s.default_active = seat.default_active /\ s.session = seat.session
  BY <1>0, <1>2 DEF SameLinks, SeatType
<1> HIDE DEF s
<1>6. SeatGood(remote, s, connected, stack, NoRemote)
  BY <1>5, OtherFieldsGood DEF SeatInv
<1>7. User(remote, s) = User(remote, seat)
  BY <1>5 DEF User
<1>8. CASE seat.session # NoRemote
  <2>1. /\ EmittingOf(stack') = EmittingOf(stack)
        /\ seat'.next_user = seat.next_user /\ seat'.session = seat.session
        /\ User(remote', seat') = User(remote, seat)
        /\ seat'.delayed = d
        /\ seat'.default_active = seat.default_active
    BY <1>3, <1>5, <1>6, <1>7, <1>8, CreateSessionMaps
  <2>2. User(remote, seat) # NoUser
    BY <1>8, UserKnown
  <2>3. LoginStep
    BY <1>1, <2>1, <2>2, LoginSteps DEF d
  <2>4. QED
    BY <2>1, <2>3 DEF SwitchInv
<1>9. CASE seat.session = NoRemote
  <2>1. /\ EmittingOf(stack') = EmittingOf(stack)
        /\ seat'.next_user = seat.next_user
        /\ \/ seat'.session = NoRemote /\ seat'.delayed = seat.delayed
           \/ /\ User(remote', seat') =
                    IF seat.default_active \/ n = NoUser
                    THEN DefaultUser ELSE n
              /\ seat'.delayed = d
    BY <1>3, <1>4, <1>5, <1>6, <1>9, CreateSessionMaps
  <2>2. User(remote, seat) = NoUser
    BY <1>9, UserKnown
  <2>3. seat'.session = NoRemote => User(remote', seat') = NoUser
    BY DEF User
  <2>4. LoginStep
    BY <1>1, <2>1, <2>2, <2>3, LoginSteps DEF d
  <2>5. QED
    BY <1>9, <2>1, <2>4 DEF SwitchInv
<1>10. QED
  BY <1>8, <1>9

\* A request to log out or to switch: the session lives on for now.
LEMMA TerminateMaps ==
    ASSUME SeatInv, SwitchInv, NEW s, SameLinks(seat, s),
           s.delayed = seat.delayed,
           \/ s.next_user = seat.next_user
           \/ s.next_user \in Users /\ seat.session # NoRemote,
           TerminateSession(s)
    PROVE  LoginStep /\ SwitchInv'
<1>1. /\ seat'.session = seat.session /\ seat'.next_user = s.next_user
      /\ seat'.delayed = seat.delayed /\ ~seat'.default_active
      /\ stack' = stack
  BY DEF TerminateSession, SameLinks, SeatType
<1>2. User(remote', seat') = User(remote, seat)
  <2>1. CASE seat.session = NoRemote
    BY <1>1, <2>1 DEF User
  <2>2. CASE seat.session # NoRemote
    <3> DEFINE r == seat.session
    <3>1. r \in Remotes /\ s.session = r
      BY <2>2, UserKnown DEF SameLinks
    <3>2. /\ remote[r] \in RemoteType
          /\ remote = [x \in Remotes |-> remote[x]]
      BY <3>1 DEF SeatInv, SeatGood, Good
    <3>3. Terminate(remote[r]).user = remote[r].user
      BY <3>2, KeepsOwner DEF SameTo
    <3>4. remote' = [remote EXCEPT ![r] = Terminate(remote[r])]
      BY <2>2, <3>1 DEF TerminateSession
    <3>5. QED
      BY <1>1, <2>2, <3>1, <3>2, <3>3, <3>4 DEF User
  <2>3. QED
    BY <2>1, <2>2
<1>3. LoginStep
  <2>1. CASE s.next_user = seat.next_user
    BY <1>1, <1>2, <2>1, UserKnown, LoginSteps
  <2>2. CASE s.next_user \in Users /\ seat.session # NoRemote
    <3>1. User(remote, seat) # NoUser /\ s.next_user # NoUser
          /\ s.next_user \in Names
      BY <2>2, UserKnown, RemoteAssumption DEF Names
    <3>2. QED
      BY <1>1, <1>2, <3>1, LoginSteps
  <2>3. QED
    BY <2>1, <2>2
<1>4. QED
  BY <1>1, <1>3 DEF SwitchInv

\* The end of a session, with the login that follows it.
LEMMA TerminatedMaps ==
    ASSUME SeatInv, SwitchInv, Failures = {},
           NEW r \in connected, NEW q, Good(q), SameTo(remote[r], q),
           HandleSessionTerminated([remote EXCEPT ![r] = q], r)
    PROVE  LoginStep /\ SwitchInv'
<1> DEFINE m == [remote EXCEPT ![r] = q]
           s == [Closed(seat) EXCEPT !.dbus_observer = NoRemote]
           con == connected \ {seat.session}
           n == seat.next_user
<1>1. SeatGood(m, s, con, stack, r) /\ r \in Remotes /\ r = seat.session
  BY ClosedGood
<1>2. r # NoRemote /\ User(remote, seat) # NoUser /\ n \in Names
  BY <1>1, UserKnown, SeatAssumption
<1>3. /\ s.next_user = n /\ s.session = NoRemote
      /\ s.delayed = seat.delayed /\ s.default_active = seat.default_active
  BY UserKnown DEF SeatType, Closed
<1>4. \/ CreateSession(m, s, con, stack, n, r)
      \/ n = NoUser /\ seat' = s /\ connected' = con /\ Unref(m, stack, r)
  BY <1>3 DEF HandleSessionTerminated
<1> HIDE DEF m, s, con, n
<1>5. CASE CreateSession(m, s, con, stack, n, r)
  <2>1. /\ EmittingOf(stack') = EmittingOf(stack)
        /\ seat'.next_user = NoUser
        /\ \/ /\ seat'.session = NoRemote
              /\ seat'.delayed =
                    [seat.delayed EXCEPT ![n] = seat.delayed[n] + 1]
           \/ /\ User(remote', seat') =
                    IF seat.default_active \/ n = NoUser
                    THEN DefaultUser ELSE n
              /\ seat'.delayed = seat.delayed
    BY <1>1, <1>2, <1>3, <1>5, CreateSessionMaps
  <2>2. seat'.session = NoRemote => User(remote', seat') = NoUser
    BY DEF User
  <2>3. n # NoUser => ~seat.default_active
    BY DEF SwitchInv, n
  <2>4. LoginStep
    BY <1>2, <2>1, <2>2, <2>3, LoginSteps DEF n
  <2>5. QED
    BY <2>1, <2>4 DEF SwitchInv
<1>6. CASE n = NoUser /\ seat' = s /\ connected' = con /\ Unref(m, stack, r)
  <2>1. ResetNext(s) = s
    BY <1>1, <1>3, <1>6 DEF ResetNext, SeatGood, SeatType
  <2>2. Return(m, s, stack, r)
    BY <1>2, <1>6, <2>1 DEF Return
  <2>3. /\ seat'.session = NoRemote /\ seat'.next_user = NoUser
        /\ seat'.delayed = seat.delayed
        /\ EmittingOf(stack') = EmittingOf(stack)
    BY <1>1, <1>2, <1>3, <2>2, ReturnMaps
  <2>4. User(remote', seat') = NoUser
    BY <2>3 DEF User
  <2>5. LoginStep
    BY <1>2, <1>6, <2>3, <2>4, LoginSteps DEF n
  <2>6. QED
    BY <2>3, <2>5 DEF SwitchInv
<1>7. QED
  BY <1>4, <1>5, <1>6

\* Every event of an object.
LEMMA EventsMap ==
    ASSUME SeatInv, SwitchInv, Failures = {}, FatalErrors = FALSE,
           NEW r \in Remotes, RemoteEvents(r)
    PROVE  LoginStep /\ SwitchInv'
<1>0. /\ Good(remote[r]) /\ remote[r] \in RemoteType
      /\ remote = [x \in Remotes |-> remote[x]]
      /\ remote = [remote EXCEPT ![r] = remote[r]]
      /\ SameTo(remote[r], remote[r])
      /\ r \in connected => remote[r].can_emit_signal
  BY DEF SeatInv, SeatGood, Good, SameTo
<1>1. CASE SessionCreated(r)
  <2>1. /\ seat'.session = seat.session /\ seat'.next_user = seat.next_user
        /\ seat'.delayed = seat.delayed
        /\ seat'.default_active = seat.default_active
        /\ stack' = stack /\ remote' = remote
    BY <1>1, UserKnown DEF SessionCreated, SeatType
  <2>2. User(remote', seat') = User(remote, seat)
    BY <2>1 DEF User
  <2>3. QED
    BY <2>1, <2>2, UserKnown, LoginSteps DEF SwitchInv
<1>2. CASE SessionTerminated(r)
  BY <1>0, <1>2, TerminatedMaps DEF SessionTerminated
<1>3. ASSUME NEW src, TerminateTimer(r, src)
      PROVE  LoginStep /\ SwitchInv'
  <2> DEFINE q == TerminateTimeout(remote[r], src)
  <2>1. q.user = remote[r].user
    BY <1>0, KeepsOwner DEF SameTo
  <2>2. remote' = [remote EXCEPT ![r] = q] /\ UNCHANGED seatVars
    BY <1>3 DEF TerminateTimer, Only
  <2> HIDE DEF q
  <2>3. QED
    BY <2>1, <2>2, UnseenMaps
<1>4. CASE SessiondDown(r)
  <2> DEFINE q == ChildDown(remote[r])
  <2>1. Good(q) /\ SameTo(remote[r], q)
    BY <1>0, <1>4, EventsGood, KeepsOwner DEF SessiondDown
  <2>2. \/ /\ r \in connected
           /\ HandleSessionTerminated([remote EXCEPT ![r] = q], r)
        \/ remote' = [remote EXCEPT ![r] = q] /\ UNCHANGED seatVars
    BY <1>4 DEF SessiondDown, Only
  <2> HIDE DEF q
  <2>3. QED
    BY <2>1, <2>2, TerminatedMaps, UnseenMaps DEF SameTo
<1>5. CASE CreateAnswered(r) \/ DanglingCallback(r) \/ SessiondEnds(r)
  <2>1. /\ UNCHANGED seatVars
        /\ \E q : q.user = remote[r].user /\ remote' = [remote EXCEPT ![r] = q]
    <3>1. CASE CreateAnswered(r) \/ DanglingReplyArrives(r)
      <4> DEFINE q == CreateReply(remote[r])
      <4>1. q.user = remote[r].user /\ remote' = [remote EXCEPT ![r] = q]
        BY <1>0, <3>1, KeepsOwner
           DEF SameTo, CreateAnswered, ReplyArrives, DanglingReplyArrives
      <4>2. QED
        BY <1>5, <4>1 DEF CreateAnswered, DanglingCallback, SessiondEnds
    <3>2. CASE DanglingTimerFires(r)
      <4> DEFINE q == [remote[r] EXCEPT !.lost = remote[r].lost - 1]
      <4>1. q.user = remote[r].user /\ remote' = [remote EXCEPT ![r] = q]
        BY <1>0, <3>2 DEF RemoteType, DanglingTimerFires
      <4>2. QED
        BY <1>5, <4>1 DEF CreateAnswered, DanglingCallback, SessiondEnds
    <3>3. CASE SessiondEnds(r)
      <4> DEFINE q == [remote[r] EXCEPT !.sd = "exited"]
      <4>1. q.user = remote[r].user /\ remote' = [remote EXCEPT ![r] = q]
        BY <1>0, <3>3 DEF RemoteType, SessiondEnds, SessiondExits
      <4>2. QED
        BY <1>5, <4>1 DEF CreateAnswered, DanglingCallback, SessiondEnds
    <3>4. QED
      BY <1>5, <3>1, <3>2, <3>3 DEF DanglingCallback
  <2>2. QED
    BY <2>1, UnseenMaps
<1>6. QED
  BY <1>1, <1>2, <1>3, <1>4, <1>5 DEF RemoteEvents, SessionError

\* Without failures no handler waits under a nested loop for its login.
LEMMA LoopReturnsMaps ==
    ASSUME SeatInv, SwitchInv, NEW r \in Remotes, LoopReturns(r)
    PROVE  LoginStep /\ SwitchInv'
<1> DEFINE m == [remote EXCEPT ![r] = EndDispose(remote[r])]
           stk == Tail(stack)
           e == Head(stack).emitter
<1>1. /\ SeatGood(m, seat, connected, stk, e) /\ Return(m, seat, stk, e)
      /\ seat.session # r
      /\ EmittingOf(stk) \subseteq EmittingOf(stack)
      /\ e \in EmittingOf(stack) \cup {NoRemote}
  BY LoopPopped
<1>2. User(m, seat) = User(remote, seat)
  BY <1>1, UserKnown DEF User, SeatInv, SeatGood
<1> HIDE DEF m, stk, e
<1>3. e = NoRemote /\ EmittingOf(stk) = {}
  BY <1>1 DEF SwitchInv
<1>4. /\ User(remote', seat') = User(remote, seat)
      /\ seat'.session = seat.session
      /\ seat'.default_active = seat.default_active
      /\ seat'.delayed = seat.delayed
      /\ seat'.next_user = seat.next_user
      /\ EmittingOf(stack') = {}
  BY <1>1, <1>2, <1>3, ReturnMaps
<1>5. QED
  BY <1>4, UserKnown, LoginSteps DEF SwitchInv

\* Every step of the seat is a step of Login or leaves Login alone.
LEMMA StepMaps ==
    ASSUME SeatInv, SwitchInv, Failures = {}, FatalErrors = FALSE,
           [SeatNext]_vars
    PROVE  LoginStep /\ SwitchInv'
<1>0. seat \in SeatType /\ SameLinks(seat, seat) /\ NoUser \in Names
  BY UserKnown DEF SameLinks
<1>1. ASSUME NEW u \in Users, LoginUser(u)
      PROVE  LoginStep /\ SwitchInv'
  BY <1>1, LoginMaps DEF LoginUser, Names
<1>2. ASSUME NEW u \in Users, SwitchUser(u)
      PROVE  LoginStep /\ SwitchInv'
  <2>1. CASE seat.session = NoRemote
    BY <1>2, <2>1, LoginMaps DEF SwitchUser, Names
  <2>2. CASE seat.session # NoRemote
    <3> DEFINE s == [ResetNext(seat) EXCEPT !.next_user = u]
    <3>1. /\ SameLinks(seat, s) /\ s.delayed = seat.delayed
          /\ s.next_user = u
      BY <1>0 DEF SameLinks, SeatType, ResetNext, Names
    <3>2. TerminateSession(s)
      BY <1>2, <2>2 DEF SwitchUser
    <3> HIDE DEF s
    <3>3. QED
      BY <2>2, <3>1, <3>2, TerminateMaps
  <2>3. QED
    BY <2>1, <2>2
<1>3. CASE LogoutUser
  BY <1>0, <1>3, TerminateMaps DEF LogoutUser
<1>4. CASE SecondPasses
  <2>1. /\ seat'.session = seat.session /\ seat'.next_user = seat.next_user
        /\ seat'.delayed = seat.delayed
        /\ seat'.default_active = seat.default_active
        /\ stack' = stack /\ remote' = remote
    BY <1>0, <1>4 DEF SecondPasses, SeatType
  <2>2. User(remote', seat') = User(remote, seat)
    BY <2>1 DEF User
  <2>3. QED
    BY <1>0, <2>1, <2>2, LoginSteps DEF SwitchInv
<1>5. CASE UNCHANGED vars
  <2>1. UNCHANGED <<remote, seat, stack>>
    BY <1>5 DEF vars, seatVars
  <2>2. User(remote', seat') = User(remote, seat)
    BY <2>1
  <2>3. QED
    BY <1>0, <2>1, <2>2, LoginSteps DEF SwitchInv
<1>6. QED
  BY <1>1, <1>2, <1>3, <1>4, <1>5, DelayedMaps, EventsMap, LoopReturnsMaps
     DEF SeatNext, Requests

\* The seat starts as Login does.
LEMMA InitMaps == SeatInit => L!LoginInit /\ SwitchInv
<1> SUFFICES ASSUME SeatInit
             PROVE  L!LoginInit /\ SwitchInv
  OBVIOUS
<1> DEFINE s == Defaulted(Counted(EmptySeat(TRUE)), NoUser)
           none == [n \in Names |-> 0]
<1>1. \A b \in BOOLEAN : /\ EmptySeat(b) \in SeatType
                         /\ EmptySeat(b).session = NoRemote
                         /\ EmptySeat(b).next_user = NoUser
                         /\ EmptySeat(b).delayed = none
  BY DEF EmptySeat, SeatType, Names
<1>2. /\ s \in SeatType /\ s.session = NoRemote
      /\ s.next_user = NoUser /\ s.delayed = none
  <2> DEFINE e == EmptySeat(TRUE)
  <2>1. /\ e \in SeatType /\ e.session = NoRemote
        /\ e.next_user = NoUser /\ e.delayed = none /\ NoUser \in Names
    BY <1>1 DEF Names
  <2>2. s = Defaulted(Counted(e), NoUser)
    OBVIOUS
  <2> HIDE DEF e, s
  <2>3. QED
    BY <2>1, <2>2, DefaultedFields DEF SameLinks
<1> HIDE DEF s
<1>3. /\ seat.next_user = NoUser /\ seat.delayed = none
      /\ User(remote, seat) \in {NoUser, DefaultUser}
  <2>1. CASE seat \in {EmptySeat(FALSE), s}
    BY <1>1, <1>2, <2>1 DEF User
  <2>2. ASSUME NEW r \in Remotes,
               remote = [q \in Remotes |->
                        IF q = r THEN CreateCall(NewRemote(DefaultUser))
                                 ELSE Unborn],
               seat = [s EXCEPT !.session = r, !.dbus_observer = r]
        PROVE  /\ seat.next_user = NoUser /\ seat.delayed = none
               /\ User(remote, seat) \in {NoUser, DefaultUser}
    <3>1. /\ seat.session = r /\ seat.next_user = NoUser
          /\ seat.delayed = none
      BY <1>2, <2>2 DEF SeatType
    <3>2. remote[r].user = DefaultUser
      BY <2>2, NewRemoteFields
    <3>3. QED
      BY <3>1, <3>2 DEF User
  <2>3. QED
    BY <2>1, <2>2 DEF SeatInit, s
<1>4. EmittingOf(stack) = {}
  <2>1. stack = <<>>
    BY DEF SeatInit
  <2>2. stack \in Seq(FrameType) /\ Len(stack) = 0
    BY <2>1
  <2>3. DOMAIN stack = 1..0
    BY <2>2
  <2>4. QED
    BY <2>3 DEF EmittingOf
<1>5. QED
  BY <1>3, <1>4 DEF L!LoginInit, L!Names, Names, User, SwitchInv

\* As long as every sessiond starts and no session ends in an error that
\* _handle_error acts on, the seat implements Login: a switch is carried out
\* by the end of the session it ends, by a login or by a delayed one.
THEOREM SeatImplementsLogin ==
    ASSUME Failures = {}, FatalErrors = FALSE
    PROVE  SeatSpec => ImplementsLogin
<1>1. SeatInit => L!LoginInit /\ SwitchInv
  BY InitMaps
<1>2. SeatInv /\ SwitchInv /\ [SeatNext]_vars
        => [L!LoginNext]_(L!loginVars) /\ SwitchInv'
  BY StepMaps DEF LoginStep
<1>3. QED
  BY <1>1, <1>2, AlwaysSeatInv, PTL DEF SeatSpec, ImplementsLogin, L!LoginSpec
=============================================================================
