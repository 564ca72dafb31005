------------------------------- MODULE Seat -------------------------------
(***************************************************************************)
(* TlmSeat (src/daemon/tlm-seat.c) with the TlmSessionRemote objects it    *)
(* creates: logins, logouts and user switches on one seat, automatic       *)
(* re-login, and its throttle.                                             *)
(*                                                                         *)
(* g_signal_emit holds a reference on the emitter.  When a handler of the  *)
(* seat drops the seat's own reference on the session that is emitting,    *)
(* dispose therefore runs when the emission ends, after the whole handler, *)
(* re-login included.  dispose runs the main loop until the session's      *)
(* sessiond is gone, and any callback of the daemon may run inside: the    *)
(* nested loops form the stack of the model.  Only the loop on top can     *)
(* return.                                                                 *)
(***************************************************************************)
EXTENDS SessionRemote, Sequences, FiniteSetsExt

CONSTANTS
    NoRemote,       \* the NULL session or observer
    DefaultUser,    \* priv->default_user, from DEFAULT_USER
    AutoLogins,     \* values AUTO_LOGIN may have
    Failures,       \* steps of a login that may fail: "spawn", "observer"
    FatalErrors,    \* whether a session may end with an error: one sessiond
                    \* reports, or a process that outlives SIGKILL too long
    MaxDelayed      \* bound: delayed logins waiting at a time

ASSUME SeatAssumption ==
    /\ NoRemote \notin Remotes
    /\ DefaultUser \in Users
    /\ AutoLogins \subseteq BOOLEAN
    /\ FatalErrors \in BOOLEAN
    /\ Failures \subseteq {"spawn", "observer"}
    /\ MaxDelayed \in Nat

VARIABLES
    seat,       \* struct _TlmSeatPrivate
    connected,  \* sessions whose signals are connected to the seat's handlers
    stack,      \* nested main loops, innermost first
    spawns      \* history: sessionds started since a quiet second

seatVars == <<seat, connected, stack, spawns>>
vars == <<remote, seatVars>>

Names == Users \cup {NoUser}

(***************************************************************************)
(* auto_login is AUTO_LOGIN of the configuration the seat refers to.  An   *)
(* observer is named by the session it was made for; next_user stands      *)
(* for all of next_*; delayed says how many _delayed_session timeouts wait *)
(* for each user name.  prev_count is 0 once prev_time is a second ago:    *)
(* the next attempt then sets it to 1 whatever it was.  It stops at 4,     *)
(* since the code only compares it with 3.                                 *)
(***************************************************************************)
SeatType ==
    [auto_login : BOOLEAN,
     session : Remotes \cup {NoRemote},
     next_user : Names,
     default_active : BOOLEAN,
     dbus_observer : Remotes \cup {NoRemote},
     prev_dbus_observer : Remotes \cup {NoRemote},
     prev_count : 0..4,
     delayed : [Names -> Nat]]

(***************************************************************************)
(* A nested loop: the object in dispose and, when the loop runs inside a   *)
(* tlm_seat_create_session that _handle_session_terminated called, the     *)
(* session whose emission that is.                                         *)
(***************************************************************************)
FrameType ==
    [waits : Remotes, emitter : Remotes \cup {NoRemote}]

\* tlm_seat_init.
EmptySeat(auto) ==
    [auto_login |-> auto, session |-> NoRemote, next_user |-> NoUser,
     default_active |-> FALSE, dbus_observer |-> NoRemote,
     prev_dbus_observer |-> NoRemote, prev_count |-> 0,
     delayed |-> [n \in Names |-> 0]]

-----------------------------------------------------------------------------
(* Pieces of handlers.  Their arguments are the state they start from: rem, *)
(* s, con and stk are the values of remote, seat, connected and stack.      *)

\* _reset_next.
ResetNext(s) == [s EXCEPT !.next_user = NoUser]

\* The last reference on r goes: dispose, and finalize unless dispose waits.
Unref(rem, stk, r) ==
    LET p == BeginDispose(rem[r]) IN
    IF p.is_sessiond_up
    THEN /\ remote' = [rem EXCEPT ![r] = p]
         /\ stack' = <<[waits |-> r, emitter |-> NoRemote]>> \o stk
    ELSE /\ remote' = [rem EXCEPT ![r] = EndDispose(p)]
         /\ stack' = stk

\* tlm_seat_create_session returns.  In _handle_session_terminated (emitter
\* is the session that ended) _reset_next and the end of the emission follow.
Return(rem, s, stk, emitter) ==
    IF emitter = NoRemote
    THEN remote' = rem /\ seat' = s /\ stack' = stk
    ELSE seat' = ResetNext(s) /\ Unref(rem, stk, emitter)

\* Mutant: one login too many.
ThrottledLate(s) == s.prev_count > 3

\* The relogin throttle: a login less than a second after the last attempt.
Throttled(s) == s.prev_count >= 3

Counted(s) == [s EXCEPT !.prev_count = IF @ < 4 THEN @ + 1 ELSE 4]

\* Bound on the delayed logins of all users.
RoomToDelay(s) == MapThenSumSet(LAMBDA n : s.delayed[n], Names) < MaxDelayed

\* _delayed_session will try again in 10 seconds.
Delay(s, name) == [Counted(s) EXCEPT !.delayed[name] = @ + 1]

\* No user name: the default user becomes active.
Defaulted(s, name) == [s EXCEPT !.default_active = @ \/ name = NoUser]

\* The user tlm_session_remote_new is called with.
LoginName(s, name) == IF s.default_active THEN DefaultUser ELSE name

\* tlm_seat_create_session, from the spawn on.  Without its observer the new
\* session is unreferenced at once, in a nested loop.
Launch(rem, s, con, stk, name, emitter) ==
    \/ /\ "spawn" \in Failures
       /\ connected' = con
       /\ Return(rem, s, stk, emitter)
       /\ UNCHANGED spawns
    \/ \E r \in Remotes :
        LET u == LoginName(s, name)
            fresh == [s EXCEPT !.session = r, !.dbus_observer = r,
                               !.prev_dbus_observer = s.dbus_observer] IN
        /\ Free(rem[r])
        /\ spawns' = spawns + 1
        /\ \/ /\ "observer" \in Failures
              /\ connected' = con
              /\ remote' = [rem EXCEPT ![r] = BeginDispose(NewRemote(u))]
              /\ seat' = [fresh EXCEPT !.session = NoRemote,
                                       !.dbus_observer = NoRemote]
              /\ stack' = <<[waits |-> r, emitter |-> emitter]>> \o stk
           \/ /\ connected' = con \cup {r}
              /\ Return([rem EXCEPT ![r] = CreateCall(NewRemote(u))],
                        fresh, stk, emitter)

\* tlm_seat_create_session.
CreateSession(rem, s, con, stk, name, emitter) ==
    \/ /\ s.session # NoRemote
       /\ connected' = con
       /\ Return(rem, s, stk, emitter)
       /\ UNCHANGED spawns
    \/ /\ s.session = NoRemote
       /\ Throttled(s)
       /\ RoomToDelay(s)
       /\ connected' = con
       /\ Return(rem, Delay(s, name), stk, emitter)
       /\ UNCHANGED spawns
    \/ /\ s.session = NoRemote
       /\ ~Throttled(s)
       /\ Launch(rem, Defaulted(Counted(s), name), con, stk, name, emitter)

\* _close_active_session; the emission still holds the session.
Closed(s) == [s EXCEPT !.session = NoRemote]

\* Mutant: _reset_next comes before the login that needs next_user.
HandleSessionTerminatedResetsFirst(rem, r) ==
    CreateSession(rem,
                  ResetNext([Closed(seat) EXCEPT !.dbus_observer = NoRemote]),
                  connected \ {seat.session}, stack, NoUser, r)

\* Mutant: only a switch is followed by a login.
HandleSessionTerminatedNoRelogin(rem, r) ==
    LET s == [Closed(seat) EXCEPT !.dbus_observer = NoRemote]
        con == connected \ {seat.session} IN
    IF s.next_user # NoUser
    THEN CreateSession(rem, s, con, stack, s.next_user, r)
    ELSE /\ seat' = s
         /\ connected' = con
         /\ Unref(rem, stack, r)
         /\ UNCHANGED spawns

\* _handle_session_terminated, run by the emission of r.
HandleSessionTerminated(rem, r) ==
    LET s == [Closed(seat) EXCEPT !.dbus_observer = NoRemote]
        con == connected \ {seat.session} IN
    IF s.auto_login \/ s.next_user # NoUser
    THEN CreateSession(rem, s, con, stack, s.next_user, r)
    ELSE /\ seat' = s
         /\ connected' = con
         /\ Unref(rem, stack, r)
         /\ UNCHANGED spawns

\* Mutant: the observer of the closed session stays.
HandleFatalErrorKeepsObserver(rem, r) ==
    /\ seat' = Closed(seat)
    /\ connected' = connected \ {seat.session}
    /\ Unref(rem, stack, r)
    /\ UNCHANGED spawns

\* _handle_error for an error that ends the session, run by the emission of r.
HandleFatalError(rem, r) ==
    /\ seat' = [Closed(seat) EXCEPT !.dbus_observer = NoRemote]
    /\ connected' = connected \ {seat.session}
    /\ Unref(rem, stack, r)
    /\ UNCHANGED spawns

\* A callback of r that changes r and nothing else.
Only(rem) == remote' = rem /\ UNCHANGED seatVars

\* tlm_seat_terminate_session.
TerminateSession(s) ==
    /\ seat' = [s EXCEPT !.default_active = FALSE]
    /\ IF s.session = NoRemote THEN remote' = remote
       ELSE /\ remote[s.session].timer_id => remote[s.session].lost < MaxLost
            /\ remote' = [remote EXCEPT ![s.session] = Terminate(@)]
    /\ UNCHANGED <<connected, stack, spawns>>

-----------------------------------------------------------------------------
(* Calls from the D-Bus observers, the manager and the auth plugin.        *)

\* loginUser.
LoginUser(u) == CreateSession(remote, seat, connected, stack, u, NoRemote)

LogoutUser == TerminateSession(seat)

\* tlm_seat_switch_user, the user authenticated (tlm_authenticate_user);
\* otherwise nothing changes.
SwitchUser(u) ==
    IF seat.session = NoRemote
    THEN CreateSession(remote, seat, connected, stack, u, NoRemote)
    ELSE TerminateSession([ResetNext(seat) EXCEPT !.next_user = u])

(* Sources of the main loop, outermost or nested.                          *)

\* Mutant: the timeout fires although no closure is left.
DelayedSessionUnchecked(name) ==
    CreateSession(remote, [seat EXCEPT !.delayed[name] = @ - 1],
                  connected, stack, name, NoRemote)

\* _delayed_session.
DelayedSession(name) ==
    /\ seat.delayed[name] > 0
    /\ CreateSession(remote, [seat EXCEPT !.delayed[name] = @ - 1],
                     connected, stack, name, NoRemote)

\* sessiond answers sessionCreate before it does anything, and D-Bus keeps
\* the order, so its signals come after the answer.

\* D-Bus signal session-created, and _handle_session_created.
SessionCreated(r) ==
    /\ r \in connected
    /\ remote[r].call = "done"
    /\ seat' = [seat EXCEPT !.prev_dbus_observer = NoRemote]
    /\ UNCHANGED <<remote, connected, stack, spawns>>

\* D-Bus signal session-terminated: the user's process is gone.
SessionTerminated(r) ==
    /\ InUse(remote[r])
    /\ remote[r].call = "done"
    /\ remote[r].can_emit_signal /\ r \in connected
    /\ HandleSessionTerminated(remote, r)

\* D-Bus signal error with a code that _handle_error acts on.
SessionError(r) ==
    /\ FatalErrors
    /\ InUse(remote[r])
    /\ remote[r].call = "done"
    /\ remote[r].can_emit_signal /\ r \in connected
    /\ HandleFatalError(remote, r)

\* _terminate_timeout.
TerminateTimer(r, src) ==
    LET p == remote[r]
        rem == [remote EXCEPT ![r] = TerminateTimeout(p, src)] IN
    /\ InUse(p)
    /\ IF src = "lost" THEN p.lost > 0 ELSE p.timer_id
    /\ IF TimeoutEmits(p) /\ r \in connected
       THEN FatalErrors /\ HandleFatalError(rem, r)
       ELSE Only(rem)

\* _on_child_down_cb.
SessiondDown(r) ==
    LET p == remote[r]
        rem == [remote EXCEPT ![r] = ChildDown(p)] IN
    /\ p.sd = "exited" /\ p.child_watch_id
    /\ IF p.can_emit_signal /\ r \in connected
       THEN HandleSessionTerminated(rem, r)
       ELSE Only(rem)

\* _session_created_async_cb; its errors are not the ones the seat acts on.
CreateAnswered(r) == ReplyArrives(r) /\ UNCHANGED seatVars

DanglingCallback(r) == /\ DanglingTimerFires(r) \/ DanglingReplyArrives(r)
                       /\ UNCHANGED seatVars

\* Mutant: the handler under the loop is not resumed.
LoopReturnsToNobody(r) ==
    /\ stack # <<>>
    /\ Head(stack).waits = r
    /\ ~remote[r].is_sessiond_up
    /\ Return([remote EXCEPT ![r] = EndDispose(@)], seat, Tail(stack), NoRemote)
    /\ UNCHANGED <<connected, spawns>>

\* The innermost nested loop sees is_sessiond_up clear: dispose returns, then
\* the code that was waiting for it.
LoopReturns(r) ==
    /\ stack # <<>>
    /\ Head(stack).waits = r
    /\ ~remote[r].is_sessiond_up
    /\ Return([remote EXCEPT ![r] = EndDispose(@)], seat, Tail(stack),
              Head(stack).emitter)
    /\ UNCHANGED <<connected, spawns>>

(* The rest of the world.                                                  *)

\* A second goes by without a login attempt.
SecondPasses == /\ seat.prev_count > 0
                /\ seat' = [seat EXCEPT !.prev_count = 0]
                /\ spawns' = 0
                /\ UNCHANGED <<remote, connected, stack>>

SessiondEnds(r) == SessiondExits(r) /\ UNCHANGED seatVars

Requests ==
    \/ \E u \in Users : LoginUser(u) \/ SwitchUser(u)
    \/ LogoutUser

RemoteEvents(r) ==
    \/ SessionCreated(r)
    \/ SessionTerminated(r)
    \/ SessionError(r)
    \/ \E src \in {"current", "lost"} : TerminateTimer(r, src)
    \/ SessiondDown(r)
    \/ CreateAnswered(r)
    \/ DanglingCallback(r)
    \/ SessiondEnds(r)

\* The seat as _create_seat leaves it: with AUTO_LOGIN the default user has
\* been logged in, or his sessiond could not be started.
SeatInit ==
    /\ stack = <<>>
    /\ \/ /\ FALSE \in AutoLogins
          /\ RemoteInit /\ seat = EmptySeat(FALSE) /\ spawns = 0
       \/ /\ TRUE \in AutoLogins /\ "spawn" \in Failures
          /\ RemoteInit /\ seat = Defaulted(Counted(EmptySeat(TRUE)), NoUser)
          /\ spawns = 0
       \/ /\ TRUE \in AutoLogins
          /\ \E r \in Remotes :
                /\ remote = [q \in Remotes |->
                        IF q = r THEN CreateCall(NewRemote(DefaultUser))
                                 ELSE Unborn]
                /\ seat = [Defaulted(Counted(EmptySeat(TRUE)), NoUser) EXCEPT
                            !.session = r, !.dbus_observer = r]
          /\ spawns = 1
    /\ connected = {seat.session} \ {NoRemote}

SeatNext ==
    \/ Requests
    \/ \E n \in Names : DelayedSession(n)
    \/ \E r \in Remotes : RemoteEvents(r)
    \/ \E r \in Remotes : LoopReturns(r)
    \/ SecondPasses

SeatSpec == SeatInit /\ [][SeatNext]_vars

\* As in SessionRemote; seconds pass and the delayed logins fire.  Fairness is
\* strong for the nested loops: after the loops inside it have ended, a loop
\* finishes the batch of sources it was dispatching and tests its flag.
SeatFairness ==
    /\ \A r \in Remotes :
        /\ \A src \in {"current", "lost"} : WF_vars(TerminateTimer(r, src))
        /\ WF_vars(remote[r].sd = "killed" /\ SessiondEnds(r))
        /\ WF_vars(SessiondDown(r))
        /\ WF_vars(DanglingCallback(r))
        /\ WF_vars(CreateAnswered(r))
        /\ SF_vars(LoopReturns(r))
    /\ WF_vars(SecondPasses)
    /\ \A n \in Names : WF_vars(DelayedSession(n))

SeatFairSpec == SeatSpec /\ SeatFairness

-----------------------------------------------------------------------------
(* Properties.                                                             *)

\* Type invariant of the seat.
SeatTypeOK ==
    /\ RemoteTypeOK
    /\ seat \in SeatType
    /\ connected \subseteq Remotes
    /\ stack \in Seq(FrameType)
    /\ spawns \in Nat

Frames == {stack[i] : i \in DOMAIN stack}
Waiting == {f.waits : f \in Frames}
Emitting == {f.emitter : f \in Frames} \ {NoRemote}

\* Every TlmSessionRemote object has one owner, however the handlers and the
\* nested loops interleave: the live ones are the seat's session and the
\* sessions still held by an emission, the ones in dispose are those some
\* nested loop waits for, each once.  The seat listens to its session only,
\* whose sessiond is up, so tlm_seat_terminate_session never finds it gone.
OwnedOnce ==
    /\ {r \in Remotes : remote[r].obj = "live"} =
            ({seat.session} \ {NoRemote}) \cup Emitting
    /\ seat.session \notin Emitting
    /\ {r \in Remotes : remote[r].obj = "disposing"} = Waiting
    /\ \A i, j \in DOMAIN stack :
            stack[i].waits = stack[j].waits => i = j
    /\ connected = {seat.session} \ {NoRemote}
    /\ \A r \in connected :
            remote[r].is_sessiond_up /\ remote[r].can_emit_signal

\* A user who is logged in has a login object of his own, and nobody else
\* has one: the seat's D-Bus observer is always the one made for its session
\* ("whenever a user is logged in, a dbus login object is also exported").
ObserverExported ==
    /\ seat.dbus_observer = seat.session
    /\ seat.prev_dbus_observer = NoRemote

\* The throttle of tlm_seat_create_session: however sessions die and whoever
\* asks for new ones, at most 3 sessionds start without a quiet second.
ThrottleHolds == spawns <= 3

\* The seat keeps what module Login promises to the users, however session
\* objects, sessiond processes, nested loops and the throttle interleave: a
\* switch is carried out by the end of the session it ends, by the login of
\* the user switched to or by a login owed to him.
L == INSTANCE Login WITH
    Nobody <- NoUser,
    user <- IF seat.session = NoRemote THEN NoUser
            ELSE remote[seat.session].user,
    next <- seat.next_user,
    owed <- seat.delayed

ImplementsLogin == L!LoginSpec

\* Each nested loop returns: no dispose waits for ever under another one.
LoopsReturn ==
    \A r \in Remotes : r \in Waiting ~> r \notin Waiting

\* With AUTO_LOGIN the seat never stays empty, throttled or not, as long as
\* no login fails and no session ends in error.
AutoLoginKeepsSeat ==
    seat.auto_login /\ seat.session = NoRemote ~> seat.session # NoRemote

\* loginUser logs in the user it names (@username: "name of the user").
RequestedUser ==
    [][\A u \in Users :
        LoginUser(u) /\ seat'.session # seat.session
        => remote'[seat'.session].user = u]_vars
=============================================================================
