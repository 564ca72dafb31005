--------------------------- MODULE SessionRemote ---------------------------
(***************************************************************************)
(* TlmSessionRemote (src/daemon/tlm-session-remote.c): the login daemon's  *)
(* handle on one tlm-sessiond child process.  It spawns the child, watches *)
(* for its exit, talks D-Bus with it over a pipe, and ends it with SIGHUP, *)
(* SIGTERM and SIGKILL, one terminate timeout apart.                       *)
(*                                                                         *)
(* The daemon has one thread and a GLib main loop, so a callback runs to   *)
(* completion unless it enters a nested loop.  The only nested loop is the *)
(* one in tlm_session_remote_dispose, which is why disposal is two         *)
(* actions, DisposeBegin and DisposeEnd.                                   *)
(*                                                                         *)
(* Every operation is first an operator from the private data of an object *)
(* to its new value; module Seat builds its handlers from the same         *)
(* operators.  The actions below let an arbitrary owner call them.         *)
(***************************************************************************)
EXTENDS Naturals

CONSTANTS
    Remotes,    \* identities of TlmSessionRemote objects (reused once freed)
    Users,      \* user names
    NoUser,     \* the NULL user name
    MaxLost     \* bound: repeated calls of terminate that lose a timer id

ASSUME RemoteAssumption == NoUser \notin Users /\ MaxLost \in Nat

VARIABLE remote     \* remote[r]: the private data of object r

(***************************************************************************)
(* struct _TlmSessionRemotePrivate, with what surrounds it:                *)
(*   obj     life of the GObject; "disposing" is the nested loop of        *)
(*           dispose, "finalized" is freed memory                          *)
(*   lost    timeout sources still attached whose id timer_id no longer    *)
(*           holds: nothing can remove them any more                       *)
(*   call    the asynchronous sessionCreate call                           *)
(*   sd      the sessiond process: "killed" has been sent SIGKILL,         *)
(*           "exited" is a zombie, "reaped" has been waited for            *)
(* timer_id and child_watch_id only say whether the id is non-zero.        *)
(***************************************************************************)
RemoteType ==
    [obj : {"unborn", "live", "disposing", "finalized"},
     is_sessiond_up : BOOLEAN,
     can_emit_signal : BOOLEAN,
     child_watch_id : BOOLEAN,
     last_sig : {"none", "SIGHUP", "SIGTERM", "SIGKILL"},
     timer_id : BOOLEAN,
     lost : Nat,
     call : {"none", "pending", "done"},
     sd : {"none", "running", "killed", "exited", "reaped"},
     user : Users \cup {NoUser}]

\* tlm_session_remote_init.
Unborn ==
    [obj |-> "unborn", is_sessiond_up |-> FALSE, can_emit_signal |-> FALSE,
     child_watch_id |-> FALSE, last_sig |-> "none", timer_id |-> FALSE,
     lost |-> 0, call |-> "none", sd |-> "none", user |-> NoUser]

-----------------------------------------------------------------------------
(* Operators on one object.                                                *)

\* A new object with its child spawned and watched.
Started(u, emits) ==
    [obj |-> "live", is_sessiond_up |-> TRUE, can_emit_signal |-> emits,
     child_watch_id |-> TRUE, last_sig |-> "none", timer_id |-> FALSE,
     lost |-> 0, call |-> "none", sd |-> "running", user |-> u]

\* tlm_session_remote_new up to the D-Bus proxy.
Spawned(u) == Started(u, FALSE)

\* tlm_session_remote_new when the proxy could be made.
NewRemote(u) == Started(u, TRUE)

\* tlm_session_remote_create: the asynchronous call, user_data unreferenced.
CreateCall(p) == [p EXCEPT !.call = "pending"]

\* External: kill(2) on the child; only SIGKILL is certain to end it.
Kill(sd, sig) == IF sd = "running" /\ sig = "SIGKILL" THEN "killed" ELSE sd

\* Timeout sources that will call _terminate_timeout on the object.
Armed(p) == p.timer_id \/ p.lost > 0

\* Mutant: terminate sends SIGHUP and arms no timer.
TerminateWithoutTimer(p) ==
    IF ~p.is_sessiond_up THEN p
    ELSE [p EXCEPT !.sd = Kill(@, "SIGHUP"), !.last_sig = "SIGHUP"]

\* tlm_session_remote_terminate.  timer_id is assigned whether or not it
\* holds the id of an earlier timer, whose source then can't be removed.
Terminate(p) ==
    IF ~p.is_sessiond_up THEN p
    ELSE [p EXCEPT !.sd = Kill(@, "SIGHUP"),
                   !.last_sig = "SIGHUP",
                   !.timer_id = TRUE,
                   !.lost = IF p.timer_id THEN @ + 1 ELSE @]

\* Mutant: one source is removed by its id and once more by its return value.
UnarmTwice(p, src) == [p EXCEPT !.timer_id = FALSE, !.lost = @ - 1]

\* The source that fired returned G_SOURCE_REMOVE.
Unarm(p, src) ==
    IF src = "lost" THEN [p EXCEPT !.lost = @ - 1]
                    ELSE [p EXCEPT !.timer_id = FALSE]

\* priv->timer_id = 0 without removing the source it stands for.
ForgetTimer(p) ==
    [p EXCEPT !.timer_id = FALSE,
              !.lost = IF p.timer_id THEN @ + 1 ELSE @]

\* Mutant: the SIGHUP branch returns G_SOURCE_REMOVE.
TerminateTimeoutStops(p, src) ==
    CASE p.last_sig = "SIGHUP" -> [Unarm(p, src) EXCEPT !.last_sig = "SIGTERM"]
      [] p.last_sig = "SIGTERM" ->
            [p EXCEPT !.sd = Kill(@, "SIGKILL"), !.last_sig = "SIGKILL"]
      [] OTHER -> ForgetTimer(Unarm(p, src))

\* _terminate_timeout, called by the source whose id is timer_id ("current")
\* or by a lost one.
TerminateTimeout(p, src) ==
    CASE p.last_sig = "SIGHUP" ->
            [p EXCEPT !.sd = Kill(@, "SIGTERM"), !.last_sig = "SIGTERM"]
      [] p.last_sig = "SIGTERM" ->
            [p EXCEPT !.sd = Kill(@, "SIGKILL"), !.last_sig = "SIGKILL"]
      [] p.last_sig = "SIGKILL" -> ForgetTimer(Unarm(p, src))
      [] OTHER -> Unarm(p, src)

\* The SIGKILL branch of _terminate_timeout emits session-error.
TimeoutEmits(p) == p.last_sig = "SIGKILL" /\ p.can_emit_signal

\* _on_child_down_cb; it emits session-terminated if can_emit_signal.
ChildDown(p) ==
    [p EXCEPT !.is_sessiond_up = FALSE, !.child_watch_id = FALSE,
              !.timer_id = FALSE, !.sd = "reaped"]

\* Mutant: dispose waits for a child it has not told to end.
BeginDisposeSilently(p) ==
    [p EXCEPT !.obj = "disposing", !.can_emit_signal = FALSE]

\* Mutant: dispose removes the child watch ahead of its loop.
BeginDisposeUnwatched(p) ==
    Terminate([p EXCEPT !.obj = "disposing", !.can_emit_signal = FALSE,
                        !.child_watch_id = FALSE])

\* tlm_session_remote_dispose up to its nested loop.
BeginDispose(p) ==
    Terminate([p EXCEPT !.obj = "disposing", !.can_emit_signal = FALSE])

\* tlm_session_remote_dispose from its nested loop on, and finalize: timer
\* and watch removed, memory freed.  What is left are the lost timers and the
\* call that still hold its address.
EndDispose(p) ==
    [Unborn EXCEPT !.obj = "finalized", !.lost = p.lost,
                   !.call = IF p.call = "pending" THEN "pending" ELSE "none"]

\* _session_created_async_cb: the answer, or the error of a closed connection.
CreateReply(p) == [p EXCEPT !.call = "done"]

\* An identity the allocator may hand out: nothing refers to the old object.
Free(p) == \/ p.obj = "unborn"
           \/ p.obj = "finalized" /\ p.lost = 0 /\ p.call # "pending"

-----------------------------------------------------------------------------
(* The object under an arbitrary owner.                                    *)

RemoteInit == remote = [r \in Remotes |-> Unborn]

New(r, u) == /\ Free(remote[r])
             /\ remote' = [remote EXCEPT ![r] = NewRemote(u)]

\* The proxy can't be made: the new object is unreferenced at once.
NewFails(r, u) == /\ Free(remote[r])
                  /\ remote' = [remote EXCEPT ![r] = BeginDispose(Spawned(u))]

Create(r) == /\ remote[r].obj = "live"
             /\ remote[r].call = "none"
             /\ remote' = [remote EXCEPT ![r] = CreateCall(@)]

OwnerTerminates(r) == /\ remote[r].obj = "live"
                      /\ remote[r].timer_id => remote[r].lost < MaxLost
                      /\ remote' = [remote EXCEPT ![r] = Terminate(@)]

InUse(p) == p.obj \in {"live", "disposing"}

TimerFires(r, src) ==
    /\ InUse(remote[r])
    /\ IF src = "lost" THEN remote[r].lost > 0 ELSE remote[r].timer_id
    /\ remote' = [remote EXCEPT ![r] = TerminateTimeout(@, src)]

\* External: the process ends, by itself or because of a signal.
SessiondExits(r) == /\ remote[r].sd \in {"running", "killed"}
                    /\ remote' = [remote EXCEPT ![r].sd = "exited"]

ChildWatchFires(r) == /\ remote[r].sd = "exited"
                      /\ remote[r].child_watch_id
                      /\ remote' = [remote EXCEPT ![r] = ChildDown(@)]

ReplyArrives(r) == /\ InUse(remote[r])
                   /\ remote[r].call = "pending"
                   /\ remote' = [remote EXCEPT ![r] = CreateReply(@)]

DisposeBegin(r) == /\ remote[r].obj = "live"
                   /\ remote' = [remote EXCEPT ![r] = BeginDispose(@)]

DisposeEnd(r) == /\ remote[r].obj = "disposing"
                 /\ ~remote[r].is_sessiond_up
                 /\ remote' = [remote EXCEPT ![r] = EndDispose(@)]

\* Callbacks that reach freed memory.  What they do there is undefined; the
\* model only lets the source or the call go away.
DanglingTimerFires(r) == /\ remote[r].obj = "finalized"
                         /\ remote[r].lost > 0
                         /\ remote' = [remote EXCEPT ![r].lost = @ - 1]

DanglingReplyArrives(r) == /\ remote[r].obj = "finalized"
                           /\ remote[r].call = "pending"
                           /\ remote' = [remote EXCEPT ![r] = CreateReply(@)]

RemoteNext ==
    \E r \in Remotes :
        \/ \E u \in Users : New(r, u) \/ NewFails(r, u)
        \/ Create(r)
        \/ OwnerTerminates(r)
        \/ \E src \in {"current", "lost"} : TimerFires(r, src)
        \/ SessiondExits(r)
        \/ ChildWatchFires(r)
        \/ ReplyArrives(r)
        \/ DisposeBegin(r)
        \/ DisposeEnd(r)
        \/ DanglingTimerFires(r)
        \/ DanglingReplyArrives(r)

RemoteSpec == RemoteInit /\ [][RemoteNext]_remote

\* The loop dispatches ready sources, a timeout source becomes ready again
\* after each period, and the kernel ends a process that got SIGKILL.
KilledExits(r) == remote[r].sd = "killed" /\ SessiondExits(r)

RemoteFairness ==
    \A r \in Remotes :
        /\ \A src \in {"current", "lost"} : WF_remote(TimerFires(r, src))
        /\ WF_remote(KilledExits(r))
        /\ WF_remote(ChildWatchFires(r))
        /\ WF_remote(DisposeEnd(r))

RemoteFairSpec == RemoteSpec /\ RemoteFairness

-----------------------------------------------------------------------------
(* Properties.                                                             *)

\* Type invariant of the private data.
RemoteTypeOK == remote \in [Remotes -> RemoteType]

\* The child watch is attached exactly while is_sessiond_up says so and the
\* process has not been reaped: dispose's loop waits for a flag that some
\* source can still clear.
WatchConsistent(p) ==
    /\ p.is_sessiond_up <=> p.child_watch_id
    /\ p.is_sessiond_up <=> p.sd \in {"running", "killed", "exited"}

\* A timeout can only find a signal in last_sig: the branch of
\* _terminate_timeout that warns of an "unknown signaling state" is dead.
SignalKnown(p) == InUse(p) /\ Armed(p) => p.last_sig # "none"

\* Between the first signal and SIGKILL some timer is armed while sessiond
\* is up, whatever ids were lost, and SIGKILL really went out.
Escalating(p) ==
    /\ p.is_sessiond_up /\ p.last_sig \in {"SIGHUP", "SIGTERM"} => Armed(p)
    /\ p.last_sig = "SIGKILL" => p.sd # "running"

\* An object in dispose has begun to end its child; a freed one has no child,
\* no watch and no removable timer.
DisposeConsistent(p) ==
    /\ p.obj = "disposing" /\ p.is_sessiond_up => p.last_sig # "none"
    /\ p.obj \in {"unborn", "finalized"} => ~p.is_sessiond_up /\ ~p.timer_id
    /\ p.obj = "unborn" => p.lost = 0
    /\ p.timer_id => p.is_sessiond_up
    /\ p.can_emit_signal => p.obj = "live"

Sound(p) == /\ WatchConsistent(p)
            /\ SignalKnown(p)
            /\ Escalating(p)
            /\ DisposeConsistent(p)

\* Once the termination of a sessiond has begun, nothing the object does
\* stops the escalation before SIGKILL: terminate calls that overwrite
\* timer_id, timeouts of lost sources, or entering dispose.
NeverStalls == \A r \in Remotes : Sound(remote[r])

\* Disposal returns: the nested loop of tlm_session_remote_dispose ends.
DisposeReturns ==
    \A r \in Remotes :
        remote[r].obj = "disposing" ~> remote[r].obj = "finalized"

\* A terminate call ends the child: a sessiond that was sent SIGHUP is
\* eventually reaped, whatever it does with the signals it can catch.
TerminateEnds ==
    \A r \in Remotes :
        remote[r].last_sig = "SIGHUP" ~> ~remote[r].is_sessiond_up
=============================================================================
