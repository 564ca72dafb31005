------------------------------ MODULE Manager ------------------------------
(***************************************************************************)
(* TlmManager and main() of the login daemon (src/daemon/tlm-manager.c,    *)
(* src/daemon/tlm-main.c): the seats from tlm_manager_start to the end of  *)
(* the process, with the reference counts of TlmSeat.                      *)
(*                                                                         *)
(* A seat is reduced to whether it has a session; what its functions do    *)
(* inside is in module Seat.  What matters here is that they may run a     *)
(* nested main loop (see there), in which the signals of the daemon, the   *)
(* file watches and other seats go on, and after which the interrupted     *)
(* function continues.  loops is the stack of what is to be continued.     *)
(***************************************************************************)
EXTENDS Naturals, FiniteSets, SequencesExt

CONSTANTS
    Ids,        \* ids of the active seats: NSEATS of them, or from logind
    Watched,    \* those with NWATCH files to wait for
    NoSeat,     \* the NULL seat
    AutoLogin,  \* AUTO_LOGIN, or an initial user
    Failures,   \* what may fail: "spawn", "observer", "session", "watch"
    MaxNested,  \* bound: nested loops at a time
    MaxDelayed  \* bound: delayed logins of a seat

ASSUME ManagerAssumption ==
    /\ IsFiniteSet(Ids) /\ Watched \subseteq Ids
    /\ AutoLogin \in BOOLEAN
    /\ Failures \subseteq {"spawn", "observer", "session", "watch"}
    /\ MaxNested \in Nat /\ MaxDelayed \in Nat

\* TlmSeat objects: _create_seat runs at most twice for an id.
Objects == Ids \X {1, 2}

ASSUME NoSeatAssumption == NoSeat \notin Objects

VARIABLES
    manager,    \* struct _TlmManagerPrivate and the ids still to be added
    seat,       \* seat[s]: a TlmSeat object
    loops,      \* what follows each nested loop, innermost first
    daemon,     \* main() and the signal handlers
    fault       \* history: what first came in the way of a stop

vars == <<manager, seat, loops, daemon, fault>>

(***************************************************************************)
(* watches: ids whose TlmSeatWatchClosure, which holds a reference on the  *)
(* manager, waits for files.  leaked: a closure that was never attached    *)
(* holds one for ever.  todo: what tlm_manager_start has left, again being *)
(* the _create_seat of _add_seat after that of a watch that was ready.     *)
(***************************************************************************)
ManagerType ==
    [seats : [Ids -> Objects \cup {NoSeat}],
     watches : SUBSET Watched,
     leaked : BOOLEAN,
     todo : Seq([id : Ids, again : BOOLEAN])]

(***************************************************************************)
(* A session is "ending" when tlm_manager_stop has terminated it.  stop:   *)
(* _session_terminated_cb is connected.  tried: a login was attempted, and *)
(* one that follows may be throttled, or not when a second has passed      *)
(* (module Seat has the counter).  delayed: the closures that wait.        *)
(* leaked: a request on the seat's own socket has left a reference behind. *)
(***************************************************************************)
SeatType ==
    [obj : {"none", "live", "freed"},
     session : {"none", "up", "ending"},
     stop : BOOLEAN,
     tried : BOOLEAN,
     delayed : Nat,
     leaked : BOOLEAN]

(***************************************************************************)
(* What follows a nested loop: nothing of its own ("plain"), the rest of   *)
(* _create_seat for seat ("replaced"), of a tlm_seat_create_session        *)
(* without its observer ("login") or of _session_terminated_cb             *)
(* ("removed"); then the rest of the caller.  emitter: the session whose   *)
(* end called it has a sessiond that is still up, and is disposed of after *)
(* the handler.                                                            *)
(***************************************************************************)
FrameType ==
    [kind : {"plain", "replaced", "login", "removed"},
     seat : Objects \cup {NoSeat},
     caller : {"add", "delayed", "ended", "request", "none"},
     emitter : BOOLEAN]

DaemonType ==
    [main : {"starting", "running", "quitting", "disposing", "exited",
             "killed"},
     sigterm : {"armed", "pending", "spent"}]

Frame(kind, s, caller, emitter) ==
    [kind |-> kind, seat |-> s, caller |-> caller, emitter |-> emitter]

PlainFrame == Frame("plain", NoSeat, "none", FALSE)

NoManager == [seats |-> [i \in Ids |-> NoSeat], watches |-> {},
              leaked |-> FALSE, todo |-> <<>>]

NewSeat == [obj |-> "live", session |-> "none", stop |-> FALSE, tried |-> FALSE,
            delayed |-> 0, leaked |-> FALSE]

NoObject == [NewSeat EXCEPT !.obj = "none"]

-----------------------------------------------------------------------------
(* Handlers are functions from states to sets of states; st has the fields *)
(* manager, seat, loops and daemon.                                        *)

Now == [manager |-> manager, seat |-> seat, loops |-> loops,
        daemon |-> daemon]

Becomes(st) == /\ manager' = st.manager /\ seat' = st.seat
               /\ loops' = st.loops /\ daemon' = st.daemon

Empty(st) == \A i \in Ids : st.manager.seats[i] = NoSeat

\* The handler is interrupted by a nested loop that f follows.
Nested(st, f) ==
    IF Len(st.loops) < MaxNested THEN {[st EXCEPT !.loops = <<f>> \o @]} ELSE {}

\* References on a seat: the table, closures of delayed logins, waiting or
\* running, an emission of the seat that waits, and what requests on the
\* seat's own socket have leaked.
Held(st, s) ==
    \/ \E i \in Ids : st.manager.seats[i] = s
    \/ st.seat[s].delayed > 0
    \/ st.seat[s].leaked
    \/ \E k \in DOMAIN st.loops :
            /\ st.loops[k].seat = s
            /\ st.loops[k].caller = "delayed" \/ st.loops[k].kind = "removed"

\* A reference on s has gone.  When it was the last, tlm_seat_dispose drops
\* the session too, and waits for its sessiond.
Unref(st, s) ==
    IF s = NoSeat \/ Held(st, s) THEN st
    ELSE [st EXCEPT !.seat[s].obj = "freed", !.seat[s].session = "none"]

UnrefWaits(st, s) ==
    s # NoSeat /\ ~Held(st, s) /\ st.seat[s].session # "none"

\* manager-stopped, once main() has connected to it: g_main_loop_quit, which
\* means nothing to a loop that is not running yet.
Stopped(st) ==
    [st EXCEPT !.daemon.main = IF @ = "running" THEN "quitting" ELSE @]

\* The handler of a session's end returns, and the session is unreferenced.
Ended(st, emitter) ==
    IF emitter THEN Nested(st, PlainFrame) ELSE {st}

\* A caller whose last step is to drop its reference on s.
UnrefLast(st, s) ==
    IF UnrefWaits(st, s) THEN Nested(Unref(st, s), PlainFrame)
    ELSE {Unref(st, s)}

\* The caller of a tlm_seat_create_session for f.seat goes on.
Finish(st, f) ==
    CASE f.caller = "delayed" -> UnrefLast(st, f.seat)
      [] f.caller = "ended" -> Ended(st, f.emitter)
      [] OTHER -> {st}

\* tlm_seat_create_session, called for f.seat by f.caller.
CreateSession(st, f) ==
    LET s == f.seat
        tried == [st EXCEPT !.seat[s].tried = TRUE] IN
    IF st.seat[s].session # "none" THEN Finish(st, f)
    ELSE UNION
        {IF st.seat[s].tried /\ st.seat[s].delayed < MaxDelayed
         THEN Finish([st EXCEPT !.seat[s].delayed = @ + 1], f) ELSE {},
         Finish([tried EXCEPT !.seat[s].session = "up"], f),
         IF "spawn" \in Failures THEN Finish(tried, f) ELSE {},
         IF "observer" \in Failures THEN Nested(tried, f) ELSE {}}

\* _create_seat, after the insertion: the automatic login.
LoginFirst(st, f) ==
    IF AutoLogin /\ st.seat[f.seat].obj = "live"
    THEN CreateSession(st, [f EXCEPT !.kind = "login"])
    ELSE {st}

\* _create_seat.  g_hash_table_insert drops the seat that was there.
CreateSeat(st, i) ==
    LET s == IF st.seat[<<i, 1>>].obj = "none" THEN <<i, 1>> ELSE <<i, 2>>
        f == Frame("replaced", s, "add", FALSE)
        old == st.manager.seats[i]
        n == [st EXCEPT !.seat[s] = NewSeat, !.manager.seats[i] = s] IN
    IF UnrefWaits(n, old) THEN Nested(Unref(n, old), f)
    ELSE LoginFirst(Unref(n, old), f)

\* _session_terminated_cb after the removal, and the end of the emission of
\* f.seat, which may have been the last to hold it.
AfterRemoval(st, f) ==
    LET n == IF Empty(st) THEN Stopped(st) ELSE st IN
    IF UnrefWaits(n, f.seat)
    THEN Nested(Unref(n, f.seat), Frame("plain", NoSeat, "ended", f.emitter))
    ELSE Ended(Unref(n, f.seat), f.emitter)

\* Mutant: the size of the table is looked at before the removal.
SessionTerminatedCbTestsFirst(st, s, emitter) ==
    Ended([(IF Empty(st) THEN Stopped(st) ELSE st)
            EXCEPT !.manager.seats[s[1]] = NoSeat], emitter)

\* _session_terminated_cb for the end of s.  It removes whatever seat has the
\* id of s.
SessionTerminatedCb(st, s, emitter) ==
    LET f == Frame("removed", s, "ended", emitter)
        other == IF st.manager.seats[s[1]] = s THEN NoSeat
                 ELSE st.manager.seats[s[1]]
        n == [st EXCEPT !.manager.seats[s[1]] = NoSeat] IN
    IF UnrefWaits(n, other) THEN Nested(Unref(n, other), f)
    ELSE AfterRemoval(Unref(n, other), f)

\* SIGTERM is sent.  The handler is taken away when it has run, and the
\* default action ends the process with all that it knew.
Sigterm(st) ==
    IF st.daemon.sigterm = "spent"
    THEN [manager |-> NoManager, seat |-> [s \in Objects |-> NoObject],
          loops |-> <<>>, daemon |-> [main |-> "killed", sigterm |-> "spent"]]
    ELSE [st EXCEPT !.daemon.sigterm = "pending"]

\* Mutant: the answer of _session_terminated_cb is not looked at.
HandleSessionTerminatedIgnoresStop(st, s, relogin, emitter) ==
    CreateSession([st EXCEPT !.seat[s].session = "none"],
                  Frame("login", s, "ended", emitter))

\* _handle_session_terminated of s.  relogin: AUTO_LOGIN, or a switch waits.
HandleSessionTerminated(st, s, relogin, emitter) ==
    LET n == [st EXCEPT !.seat[s].session = "none"] IN
    IF n.seat[s].stop THEN SessionTerminatedCb(n, s, emitter)
    ELSE IF relogin THEN CreateSession(n, Frame("login", s, "ended", emitter))
    ELSE Ended(n, emitter)

\* Mutant: a seat without a session makes the others be forgotten.
StopForgetsDelayed(st) ==
    Stopped([st EXCEPT !.manager.seats = [i \in Ids |->
                IF @[i] # NoSeat /\ st.seat[@[i]].session # "none"
                THEN @[i] ELSE NoSeat]])

\* tlm_manager_stop: seats that have a session are told to end it, the others
\* leave the table.
Stop(st) ==
    LET Listed == {s \in Objects : \E i \in Ids : st.manager.seats[i] = s}
        Up == {s \in Listed : st.seat[s].session # "none"}
        n == [st EXCEPT
                !.manager.seats = [i \in Ids |->
                    IF @[i] \in Up THEN @[i] ELSE NoSeat],
                !.seat = [s \in Objects |->
                    IF s \in Up
                    THEN [@[s] EXCEPT !.stop = TRUE, !.session = "ending"]
                    ELSE IF s \in Listed THEN [@[s] EXCEPT !.stop = TRUE]
                    ELSE @[s]]]
        m == [n EXCEPT !.seat = [s \in Objects |->
                IF s \in Listed \ Up /\ ~Held(n, s)
                THEN [@[s] EXCEPT !.obj = "freed"] ELSE @[s]]] IN
    IF Up = {} THEN Stopped(m) ELSE m

-----------------------------------------------------------------------------
(* Actions.                                                                *)

\* Callbacks run in the main loop and in nested loops.
Dispatching == /\ daemon.main \notin {"exited", "killed"}
               /\ daemon.main \in {"running", "quitting"} \/ loops # <<>>

Hinders(cond, what) == fault' = IF cond /\ fault = "none" THEN what ELSE fault

\* tlm_manager_start adds a seat.  Files to watch that are all there run
\* _seat_watch_cb at once and _create_seat a second time.
AddSeat ==
    LET next == Head(manager.todo)
        i == next.id
        Rest(again, w, leak) ==
            [Now EXCEPT !.manager.todo =
                            (IF again THEN <<[id |-> i, again |-> TRUE]>>
                             ELSE <<>>) \o Tail(@),
                        !.manager.watches = @ \cup w,
                        !.manager.leaked = @ \/ leak] IN
    /\ daemon.main = "starting" /\ loops = <<>>
    /\ manager.todo # <<>>
    /\ \/ /\ next.again \/ i \notin Watched
          /\ \E n \in CreateSeat(Rest(FALSE, {}, FALSE), i) : Becomes(n)
       \/ /\ ~next.again /\ i \in Watched
          /\ \E n \in CreateSeat(Rest(TRUE, {}, FALSE), i) : Becomes(n)
       \/ /\ ~next.again /\ i \in Watched
          /\ \E n \in CreateSeat(Rest(FALSE, {i}, FALSE), i) : Becomes(n)
       \/ /\ ~next.again /\ i \in Watched /\ "watch" \in Failures
          /\ \E n \in CreateSeat(Rest(FALSE, {}, TRUE), i) : Becomes(n)
    /\ UNCHANGED fault

\* main() enters the main loop.
RunLoop == /\ daemon.main = "starting" /\ loops = <<>>
           /\ manager.todo = <<>>
           /\ daemon' = [daemon EXCEPT !.main = "running"]
           /\ UNCHANGED <<manager, seat, loops, fault>>

\* _seat_watch_cb with the last file.
WatchFires(i) ==
    /\ Dispatching
    /\ i \in manager.watches
    /\ \E n \in CreateSeat([Now EXCEPT !.manager.watches = @ \ {i}], i) :
            Becomes(n)
    /\ Hinders(daemon.sigterm = "spent", "watch")

\* A login by the root observer, or a switch without a session.
LoginUser(i) ==
    /\ Dispatching /\ daemon.main # "disposing"
    /\ manager.seats[i] # NoSeat
    /\ \E n \in CreateSession(Now, Frame("login", manager.seats[i],
                                         "request", FALSE)) : Becomes(n)
    /\ UNCHANGED fault

\* A logout or switch on the socket of the session: _process_request takes a
\* reference that nobody gives back.
SeatRequest(s) ==
    /\ Dispatching
    /\ seat[s].session # "none"
    /\ seat' = [seat EXCEPT ![s].leaked = TRUE]
    /\ UNCHANGED <<manager, loops, daemon, fault>>

\* Mutant: the timeout fires although no closure is left.
DelayedSessionUnchecked(s) ==
    /\ Dispatching
    /\ \E n \in CreateSession([Now EXCEPT !.seat[s].delayed = @ - 1],
                              Frame("login", s, "delayed", FALSE)) : Becomes(n)
    /\ UNCHANGED fault

\* Mutant: the closure's reference goes before the login.
DelayedSessionUnrefsFirst(s) ==
    /\ Dispatching
    /\ seat[s].delayed > 0
    /\ \E n \in CreateSession(Unref([Now EXCEPT !.seat[s].delayed = @ - 1], s),
                              Frame("login", s, "delayed", FALSE)) : Becomes(n)
    /\ UNCHANGED fault

\* _delayed_session.
DelayedSession(s) ==
    /\ Dispatching
    /\ seat[s].delayed > 0
    /\ \E n \in CreateSession([Now EXCEPT !.seat[s].delayed = @ - 1],
                              Frame("login", s, "delayed", FALSE)) : Becomes(n)
    /\ UNCHANGED fault

\* The session of s ends, reported by sessiond or by its exit.
SessionTerminated(s) ==
    /\ Dispatching
    /\ seat[s].session # "none"
    /\ \E relogin \in {AutoLogin, TRUE}, emitter \in BOOLEAN :
        \E n \in HandleSessionTerminated(Now, s, relogin, emitter) : Becomes(n)
    /\ UNCHANGED fault

\* _handle_error for an error that ends the session.
SessionError(s) ==
    /\ Dispatching
    /\ "session" \in Failures
    /\ seat[s].session # "none"
    /\ \E emitter \in BOOLEAN :
        \E n \in Ended([Now EXCEPT !.seat[s].session = "none"], emitter) :
            Becomes(n)
    /\ Hinders(daemon.sigterm = "spent", "error")

\* The sessiond of the innermost loop is gone.
LoopReturns ==
    LET f == Head(loops)
        st == [Now EXCEPT !.loops = Tail(@)] IN
    /\ loops # <<>> /\ daemon.main \notin {"exited", "killed"}
    /\ \E n \in CASE f.kind \in {"plain", "login"} -> Finish(st, f)
                  [] f.kind = "replaced" -> LoginFirst(st, f)
                  [] f.kind = "removed" -> AfterRemoval(st, f) : Becomes(n)
    /\ UNCHANGED fault

SendSigterm == /\ daemon.main \notin {"exited", "killed"}
               /\ daemon.sigterm # "pending"
               /\ Becomes(Sigterm(Now))
               /\ UNCHANGED fault

\* _on_sigterm_cb.
OnSigterm ==
    /\ Dispatching
    /\ daemon.sigterm = "pending"
    /\ Becomes(Stop([Now EXCEPT !.daemon.sigterm = "spent"]))
    /\ Hinders(daemon.main = "starting", "start")

\* Mutant: main() returns without dropping the manager.
LeaveLoopAtOnce ==
    /\ daemon.main = "quitting" /\ loops = <<>>
    /\ daemon' = [daemon EXCEPT !.main = "exited"]
    /\ UNCHANGED <<manager, seat, loops, fault>>

\* main() drops the manager.  It is disposed of unless a watch holds it.
LeaveLoop ==
    /\ daemon.main = "quitting" /\ loops = <<>>
    /\ daemon' = [daemon EXCEPT !.main =
            IF manager.watches # {} \/ manager.leaked THEN "exited"
            ELSE "disposing"]
    /\ UNCHANGED <<manager, seat, loops, fault>>

\* tlm_manager_dispose drops the seats of the table.
DisposeSeat(i) ==
    /\ daemon.main = "disposing" /\ loops = <<>>
    /\ manager.seats[i] # NoSeat
    /\ \E n \in UnrefLast([Now EXCEPT !.manager.seats[i] = NoSeat],
                          manager.seats[i]) : Becomes(n)
    /\ UNCHANGED fault

\* main() returns.
Exit == /\ daemon.main = "disposing" /\ loops = <<>> /\ Empty(Now)
        /\ daemon' = [daemon EXCEPT !.main = "exited"]
        /\ UNCHANGED <<manager, seat, loops, fault>>

ManagerInit ==
    /\ manager = [NoManager EXCEPT !.todo =
                    SetToSeq({[id |-> i, again |-> FALSE] : i \in Ids})]
    /\ seat = [s \in Objects |-> NoObject]
    /\ loops = <<>>
    /\ daemon = [main |-> "starting", sigterm |-> "armed"]
    /\ fault = "none"

\* main() itself, outside callbacks.
Main == \/ AddSeat
        \/ RunLoop
        \/ LeaveLoop
        \/ \E i \in Ids : DisposeSeat(i)
        \/ Exit

ManagerNext ==
    \/ Main
    \/ \E i \in Ids : WatchFires(i) \/ LoginUser(i)
    \/ \E s \in Objects :
        \/ SeatRequest(s)
        \/ DelayedSession(s)
        \/ SessionTerminated(s)
        \/ SessionError(s)
    \/ LoopReturns
    \/ SendSigterm
    \/ OnSigterm

ManagerSpec == ManagerInit /\ [][ManagerNext]_vars

(***************************************************************************)
(* main() goes on when the code it called returns, nested loops return     *)
(* (LoopsReturn of module Seat), SIGTERM is dispatched, and a session that *)
(* was told to end does, or reports an error (TerminateEnds of module      *)
(* SessionRemote).  Nothing else has to happen.                            *)
(***************************************************************************)
ManagerFairSpec ==
    /\ ManagerSpec
    /\ SF_vars(Main)
    /\ \A d \in 1..MaxNested : SF_vars(Len(loops) = d /\ LoopReturns)
    /\ WF_vars(OnSigterm)
    /\ \A s \in Objects :
        WF_vars(seat[s].session = "ending" /\
                    (SessionTerminated(s) \/ SessionError(s)))

-----------------------------------------------------------------------------
(* Properties.                                                             *)

\* Type invariant.
ManagerTypeOK ==
    /\ manager \in ManagerType
    /\ seat \in [Objects -> SeatType]
    /\ loops \in Seq(FrameType)
    /\ daemon \in DaemonType
    /\ fault \in {"none", "error", "watch", "start"}

\* tlm_seat_create_session and _create_seat come back from a nested loop to a
\* seat that still exists, unless tlm_manager_stop or the watch of the seat
\* ran in the loop; a delayed login holds its seat in any case.
SeatOutlivesLogin ==
    \A k \in DOMAIN loops :
        LET f == loops[k] IN
        f.kind \in {"login", "replaced"} /\ seat[f.seat].obj = "freed" =>
            /\ f.caller # "delayed"
            /\ \/ daemon.sigterm = "spent"
               \/ f.seat[2] = 1 /\ seat[<<f.seat[1], 2>>].obj # "none"

\* When main() returns after dropping the last reference on the manager, no
\* session runs on, but on seats that a delayed login or a leaked reference
\* holds: seats added while the daemon was stopping are ended too.
ExitClean ==
    daemon.main = "exited" /\ manager.watches = {} /\ ~manager.leaked =>
        \A s \in Objects :
            seat[s].session # "none" => seat[s].leaked \/ seat[s].delayed > 0

\* manager-stopped reaches main() when the last seat has left the table and
\* not before, in whatever order tlm_manager_stop meets the seats.
StoppedWhenEmpty ==
    [][daemon.main # "quitting" /\ daemon'.main = "quitting"
       => \A i \in Ids : manager'.seats[i] = NoSeat]_vars

\* The end of a session that tlm_manager_stop has terminated starts no other:
\* _session_terminated_cb stops the automatic login and a waiting switch.
NoReloginInStop ==
    [][\A s \in Objects :
        seat[s].session = "ending" => seat'[s].session # "up"]_vars

Gone == daemon.main \in {"exited", "killed"}

\* SIGTERM ends the daemon, unless it was dispatched in a nested loop of
\* tlm_manager_start, or while the daemon stops a session ends in error or a
\* watch adds its seat.
StopEnds == daemon.sigterm # "armed" ~> Gone \/ fault # "none"
=============================================================================
