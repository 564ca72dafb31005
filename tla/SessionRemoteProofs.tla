------------------------ MODULE SessionRemoteProofs ------------------------
(***************************************************************************)
(* Proofs about TlmSessionRemote, for any number of objects and of lost    *)
(* timers.  Each operator of SessionRemote keeps Sound, the conjunction of *)
(* the per-object invariants; the theorems follow action by action.        *)
(***************************************************************************)
EXTENDS SessionRemote, TLAPS

Good(p) == p \in RemoteType /\ Sound(p)

\* A fresh private area is sound (tlm_session_remote_init).
LEMMA UnbornGood == Good(Unborn)
BY RemoteAssumption
   DEF Good, RemoteType, Unborn, Sound, WatchConsistent, SignalKnown,
       Escalating, DisposeConsistent, InUse, Armed

\* tlm_session_remote_new makes a sound object, with or without its proxy.
LEMMA NewGood ==
    ASSUME NEW u \in Users
    PROVE  /\ Good(NewRemote(u)) /\ NewRemote(u).obj = "live"
           /\ Good(Spawned(u)) /\ Spawned(u).obj = "live"
<1>1. ASSUME NEW emits \in BOOLEAN
      PROVE  Good(Started(u, emits)) /\ Started(u, emits).obj = "live"
  BY DEF Started, Good, RemoteType, Sound, WatchConsistent, SignalKnown,
         Escalating, DisposeConsistent, InUse, Armed
<1>2. QED
  BY <1>1 DEF Spawned, NewRemote

\* What terminate changes when sessiond is up: the signal and the timers.
LEMMA TerminateFields ==
    ASSUME NEW p \in RemoteType, p.is_sessiond_up
    PROVE  /\ Terminate(p) \in RemoteType
           /\ Terminate(p).last_sig = "SIGHUP"
           /\ Terminate(p).timer_id
           /\ \A f \in {"obj", "is_sessiond_up", "can_emit_signal",
                        "child_watch_id", "sd"} : Terminate(p)[f] = p[f]
<1> DEFINE n == IF p.timer_id THEN p.lost + 1 ELSE p.lost
<1>1. Kill(p.sd, "SIGHUP") = p.sd
  BY DEF Kill
<1>2. Terminate(p) = [p EXCEPT !.sd = p.sd, !.last_sig = "SIGHUP",
                               !.timer_id = TRUE, !.lost = n]
  BY <1>1 DEF Terminate
<1>3. n \in Nat
  BY DEF RemoteType
<1>4. QED
  BY <1>2, <1>3 DEF RemoteType

\* tlm_session_remote_terminate keeps an object sound that is live or enters
\* dispose, whether or not an earlier timer is overwritten.
LEMMA TerminateGood ==
    ASSUME NEW p, Good(p), p.obj = "live"
    PROVE  Good(Terminate(p))
<1>1. CASE ~p.is_sessiond_up
  BY <1>1 DEF Terminate
<1>2. CASE p.is_sessiond_up
  <2>1. p \in RemoteType
    BY DEF Good
  <2>2. QED
    BY <1>2, <2>1, TerminateFields
       DEF Good, Sound, WatchConsistent, SignalKnown, Escalating,
           DisposeConsistent, InUse, Armed
<1>3. QED
  BY <1>1, <1>2

\* Entering dispose keeps an object sound: it is told to end and waited for.
LEMMA BeginDisposeGood ==
    ASSUME NEW p, Good(p), p.obj = "live"
    PROVE  Good(BeginDispose(p))
<1> DEFINE q == [p EXCEPT !.obj = "disposing", !.can_emit_signal = FALSE]
<1>1. /\ q \in RemoteType
      /\ q.obj = "disposing" /\ ~q.can_emit_signal
      /\ q.is_sessiond_up = p.is_sessiond_up
      /\ q.child_watch_id = p.child_watch_id
      /\ q.last_sig = p.last_sig /\ q.sd = p.sd
      /\ q.timer_id = p.timer_id /\ q.lost = p.lost
  BY DEF Good, RemoteType
<1>2. BeginDispose(p) = Terminate(q)
  BY DEF BeginDispose
<1> HIDE DEF q
<1>3. CASE ~q.is_sessiond_up
  <2>1. Terminate(q) = q
    BY <1>3 DEF Terminate
  <2>2. QED
    BY <1>1, <1>2, <1>3, <2>1
       DEF Good, Sound, WatchConsistent, SignalKnown, Escalating,
           DisposeConsistent, InUse, Armed
<1>4. CASE q.is_sessiond_up
  BY <1>1, <1>2, <1>4, TerminateFields
     DEF Good, Sound, WatchConsistent, SignalKnown, Escalating,
         DisposeConsistent, InUse, Armed
<1>5. QED
  BY <1>3, <1>4

\* A timeout, of the current source or of a lost one, keeps an object sound.
LEMMA TimeoutGood ==
    ASSUME NEW p, Good(p), InUse(p), NEW src \in {"current", "lost"},
           IF src = "lost" THEN p.lost > 0 ELSE p.timer_id
    PROVE  Good(TerminateTimeout(p, src))
<1>1. p.last_sig \in {"SIGHUP", "SIGTERM", "SIGKILL"}
  BY DEF Good, RemoteType, Sound, SignalKnown, Armed
<1>2. CASE p.last_sig = "SIGHUP"
  BY <1>2 DEF Good, RemoteType, TerminateTimeout, Kill, Sound, WatchConsistent,
       SignalKnown, Escalating, DisposeConsistent, InUse, Armed
<1>3. CASE p.last_sig = "SIGTERM"
  BY <1>3 DEF Good, RemoteType, TerminateTimeout, Kill, Sound, WatchConsistent,
       SignalKnown, Escalating, DisposeConsistent, InUse, Armed
<1>4. CASE p.last_sig = "SIGKILL"
  <2> DEFINE n == IF src = "lost"
                  THEN IF p.timer_id THEN p.lost - 1 + 1 ELSE p.lost - 1
                  ELSE p.lost
             q == [p EXCEPT !.timer_id = FALSE, !.lost = n]
  <2>1. n \in Nat
    BY DEF Good, RemoteType
  <2>2. TerminateTimeout(p, src) = ForgetTimer(Unarm(p, src))
    BY <1>4 DEF TerminateTimeout
  <2>3. ForgetTimer(Unarm(p, src)) = q
    <3>1. CASE src = "lost"
      BY <3>1 DEF ForgetTimer, Unarm, Good, RemoteType
    <3>2. CASE src = "current"
      BY <3>2 DEF ForgetTimer, Unarm, Good, RemoteType
    <3>3. QED
      BY <3>1, <3>2
  <2>4. /\ q \in RemoteType /\ ~q.timer_id /\ q.obj = p.obj
        /\ q.is_sessiond_up = p.is_sessiond_up
        /\ q.can_emit_signal = p.can_emit_signal
        /\ q.child_watch_id = p.child_watch_id
        /\ q.last_sig = p.last_sig /\ q.sd = p.sd
    BY <2>1 DEF Good, RemoteType
  <2> HIDE DEF q
  <2>5. QED
    BY <1>4, <2>2, <2>3, <2>4
       DEF Good, Sound, WatchConsistent, SignalKnown, Escalating,
           DisposeConsistent, InUse
<1>5. QED
  BY <1>1, <1>2, <1>3, <1>4

\* The child watch, the process's end and the answer to sessionCreate keep an
\* object sound.
LEMMA EventsGood ==
    ASSUME NEW p, Good(p)
    PROVE  /\ p.sd = "exited" => Good(ChildDown(p))
           /\ p.sd \in {"running", "killed"} => Good([p EXCEPT !.sd = "exited"])
           /\ Good(CreateReply(p))
           /\ p.obj = "live" => Good(CreateCall(p))
<1>1. ASSUME p.sd = "exited" PROVE Good(ChildDown(p))
  BY <1>1 DEF Good, RemoteType, ChildDown, Sound, WatchConsistent, SignalKnown,
       Escalating, DisposeConsistent, InUse, Armed
<1>2. ASSUME p.sd \in {"running", "killed"}
      PROVE  Good([p EXCEPT !.sd = "exited"])
  BY <1>2 DEF Good, RemoteType, Sound, WatchConsistent, SignalKnown,
       Escalating, DisposeConsistent, InUse, Armed
<1>3. Good(CreateReply(p)) /\ Good(CreateCall(p))
  BY DEF Good, RemoteType, CreateReply, CreateCall, Sound, WatchConsistent,
       SignalKnown, Escalating, DisposeConsistent, InUse, Armed
<1>4. QED
  BY <1>1, <1>2, <1>3

\* The end of dispose leaves sound remains, and so does a callback on them.
LEMMA FreedGood ==
    ASSUME NEW p, Good(p)
    PROVE  /\ Good(EndDispose(p))
           /\ p.obj = "finalized" /\ p.lost > 0 =>
                Good([p EXCEPT !.lost = @ - 1])
<1>1. Good(EndDispose(p))
  BY RemoteAssumption
     DEF Good, RemoteType, EndDispose, Unborn, Sound, WatchConsistent,
         SignalKnown, Escalating, DisposeConsistent, InUse, Armed
<1>2. ASSUME p.obj = "finalized", p.lost > 0
      PROVE  Good([p EXCEPT !.lost = @ - 1])
  BY <1>2 DEF Good, RemoteType, Sound, WatchConsistent, SignalKnown,
       Escalating, DisposeConsistent, InUse, Armed
<1>3. QED
  BY <1>1, <1>2

-----------------------------------------------------------------------------
AllGood == /\ remote = [r \in Remotes |-> remote[r]]
           /\ \A r \in Remotes : Good(remote[r])

\* Replacing one object by a sound one keeps all objects sound.
LEMMA UpdateGood ==
    ASSUME AllGood, NEW r \in Remotes, NEW q, Good(q),
           remote' = [remote EXCEPT ![r] = q]
    PROVE  AllGood'
BY DEF AllGood, Good

\* Every step of RemoteNext keeps all objects sound: AllGood is inductive.
LEMMA StepGood ==
    ASSUME AllGood, [RemoteNext]_remote
    PROVE  AllGood'
<1>1. CASE UNCHANGED remote
  BY <1>1 DEF AllGood, Good
<1>2. CASE RemoteNext
  <2> PICK r \in Remotes :
        \/ \E u \in Users : New(r, u) \/ NewFails(r, u)
        \/ Create(r)
        \/ OwnerTerminates(r)
        \/ \E src \in {"current", "lost"} : TimerFires(r, src)
        \/ SessiondExits(r)
        \/ ChildWatchFires(r)
        \/ ReplyArrives(r)
        \/ DisposeBegin(r)
        \/ DisposeEnd(r)
        \/ DanglingTimerFires(r)
        \/ DanglingReplyArrives(r)
    BY <1>2 DEF RemoteNext
  <2>0. Good(remote[r])
    BY DEF AllGood
  <2>1. ASSUME NEW u \in Users, New(r, u) PROVE AllGood'
    BY <2>1, NewGood, UpdateGood DEF New
  <2>2. ASSUME NEW u \in Users, NewFails(r, u) PROVE AllGood'
    BY <2>2, NewGood, BeginDisposeGood, UpdateGood DEF NewFails
  <2>3. CASE Create(r)
    BY <2>0, <2>3, EventsGood, UpdateGood DEF Create
  <2>4. CASE OwnerTerminates(r)
    BY <2>0, <2>4, TerminateGood, UpdateGood DEF OwnerTerminates
  <2>5. ASSUME NEW src \in {"current", "lost"}, TimerFires(r, src)
        PROVE  AllGood'
    <3>1. Good(TerminateTimeout(remote[r], src))
      BY <2>0, <2>5, TimeoutGood DEF TimerFires
    <3>2. QED
      BY <2>5, <3>1, UpdateGood DEF TimerFires
  <2>6. CASE SessiondExits(r)
    BY <2>0, <2>6, EventsGood, UpdateGood DEF SessiondExits
  <2>7. CASE ChildWatchFires(r)
    BY <2>0, <2>7, EventsGood, UpdateGood DEF ChildWatchFires
  <2>8. CASE ReplyArrives(r)
    BY <2>0, <2>8, EventsGood, UpdateGood DEF ReplyArrives
  <2>9. CASE DisposeBegin(r)
    BY <2>0, <2>9, BeginDisposeGood, UpdateGood DEF DisposeBegin
  <2>10. CASE DisposeEnd(r)
    BY <2>0, <2>10, FreedGood, UpdateGood DEF DisposeEnd
  <2>11. CASE DanglingTimerFires(r)
    BY <2>0, <2>11, FreedGood, UpdateGood DEF DanglingTimerFires
  <2>12. CASE DanglingReplyArrives(r)
    BY <2>0, <2>12, EventsGood, UpdateGood DEF DanglingReplyArrives
  <2>13. QED
    BY <2>1, <2>2, <2>3, <2>4, <2>5, <2>6, <2>7, <2>8, <2>9, <2>10, <2>11, <2>12
<1>3. QED
  BY <1>1, <1>2

\* All objects are sound in every state, whatever their owner does.
THEOREM AlwaysGood == RemoteSpec => []AllGood
<1>1. RemoteInit => AllGood
  BY UnbornGood DEF RemoteInit, AllGood
<1>2. AllGood /\ [RemoteNext]_remote => AllGood'
  BY StepGood
<1>3. QED
  BY <1>1, <1>2, PTL DEF RemoteSpec

\* The private data of every TlmSessionRemote keep their types.
THEOREM RemoteTypeCorrect == RemoteSpec => []RemoteTypeOK
<1>1. AllGood => RemoteTypeOK
  BY DEF AllGood, Good, RemoteTypeOK
<1>2. QED
  BY <1>1, AlwaysGood, PTL

\* The escalation SIGHUP, SIGTERM, SIGKILL of _terminate_timeout never stalls
\* and never meets an unknown signal, for any number of lost timers.
THEOREM RemoteNeverStalls == RemoteSpec => []NeverStalls
<1>1. AllGood => NeverStalls
  BY DEF AllGood, Good, NeverStalls
<1>2. QED
  BY <1>1, AlwaysGood, PTL
=============================================================================
