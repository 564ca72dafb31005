---------------------------- MODULE Termination ----------------------------
(***************************************************************************)
(* The end of a session across three processes: the login daemon, which    *)
(* escalates towards sessiond (SessionRemote), sessiond, which escalates   *)
(* towards the user's process (Session), and that process.  Both           *)
(* escalations take their step every TERMINATE_TIMEOUT seconds, so this    *)
(* module has a clock.  Everything else is short beside a second: time     *)
(* passes only when no process has anything left to do.                    *)
(***************************************************************************)
EXTENDS Session, Sequences

CONSTANT Timeout    \* TERMINATE_TIMEOUT, the same for both processes

ASSUME TerminationAssumption == Timeout \in Nat \ {0}

VARIABLES
    daemon,     \* whether the login daemon is up
    handle,     \* the daemon's TlmSessionRemote
    due,        \* seconds until sessiond's timer fires, and the handle's,
                \* the lost ones first
    obeys,      \* signals that end the user's process, beside SIGKILL
    told,       \* signals the user's process has got
    again,      \* history: sessiond was sent SIGHUP a second time
    early       \* history: the process group was signalled before setsid

links == <<daemon, handle, due, obeys, told, again, early>>
tvars == <<vars, links>>

R == INSTANCE SessionRemote WITH
    Remotes <- {"handle"}, Users <- {"user"}, NoUser <- "nobody",
    remote <- [r \in {"handle"} |-> handle]

\* sessiond has been started and sessionCreate is on its way.
TerminationInit ==
    /\ SessionInit
    /\ daemon = TRUE
    /\ handle = R!CreateCall(R!NewRemote("user"))
    /\ due = [sessiond |-> Timeout, handle |-> <<>>]
    /\ obeys \in SUBSET {"SIGHUP", "SIGTERM"}
    /\ told = {}
    /\ again = FALSE /\ early = FALSE

-----------------------------------------------------------------------------
(* sessiond and the user's process: steps of Session.                      *)

\* Each escalation step of sessiond sends the next signal and leaves a timer.
Escalated == priv'.last_sig # priv.last_sig

\* A forked child has sessiond's signal handlers, and the signal is lost.
Track ==
    /\ due' = IF Escalated THEN [due EXCEPT !.sessiond = Timeout] ELSE due
    /\ told' = IF Escalated /\ child = "running"
               THEN told \cup {priv'.last_sig} ELSE told
    /\ early' = (early \/ (Escalated /\ child = "forked"))
    /\ UNCHANGED <<daemon, handle, obeys, again>>

Create == SessionCreate /\ Track

SessiondTimer == due.sessiond = 0 /\ TerminateTimeout("current") /\ Track

SessiondQuits == (\E sig \in {"SIGHUP", "SIGTERM"} : QuitSignal(sig)) /\ Track

\* The other end of the pipe is gone.
PipeClosed == ~daemon /\ ConnectionClosed /\ Track

SessiondGoesOn == (ChildDown \/ DisposeReturns \/ ChildSetsid) /\ Track

\* External: the user's process ends by itself, or of a signal.
UserLeaves == ChildExits /\ Track

UserObeys == /\ child = "killed" \/ (child = "running" /\ obeys \cap told # {})
             /\ UserLeaves

-----------------------------------------------------------------------------
(* The login daemon.                                                       *)

\* kill(2) on sessiond, or on its zombie.
Kill(sig) == IF main \in {"loop", "disposing", "paused"} THEN Signal(sig)
             ELSE UNCHANGED vars

\* tlm_session_remote_terminate leaves h: SIGHUP is sent, a timer armed.
Hangs(h) ==
    /\ handle' = h
    /\ due' = [due EXCEPT !.handle = Append(@, Timeout)]
    /\ again' = (again \/ handle.last_sig # "none")
    /\ Kill("SIGHUP")
    /\ UNCHANGED <<daemon, obeys, told, early>>

\* tlm_seat_terminate_session: logout, switch, the daemon's own stop.
Logout == /\ daemon /\ handle.obj = "live"
          /\ handle.timer_id => handle.lost < MaxLost
          /\ Hangs(R!Terminate(handle))

\* The seat drops the handle, sessiond being up.
Dropped == /\ daemon /\ handle.obj = "live"
           /\ Hangs(R!BeginDispose(handle))

\* sessiond's report of the end arrives.
EndArrives == "terminated" \in sent /\ Dropped

\* An error arrives, one of those that end the session.
ErrorArrives == "error" \in sent /\ Dropped

\* _terminate_timeout of the handle.  sessiond does not outlive SIGKILL here.
DaemonTimer(i) ==
    LET src == IF i > handle.lost THEN "current" ELSE "lost"
        h == R!TerminateTimeout(handle, src) IN
    /\ daemon /\ R!InUse(handle)
    /\ handle.last_sig # "SIGKILL"
    /\ due.handle[i] = 0
    /\ due' = [due EXCEPT !.handle[i] = Timeout]
    /\ handle' = h
    /\ Kill(h.last_sig)
    /\ UNCHANGED <<daemon, obeys, told, again, early>>

\* The handle's child watch; the seat drops the handle if it still has it.
\* What lost timers do to a freed handle is not followed.
SessiondDown ==
    /\ daemon /\ R!InUse(handle)
    /\ main \in {"exited", "left", "died"}
    /\ handle.child_watch_id
    /\ handle' = R!EndDispose(R!ChildDown(handle))
    /\ due' = [due EXCEPT !.handle = <<>>]
    /\ UNCHANGED <<vars, daemon, obeys, told, again, early>>

\* External: the login daemon dies.  PR_SET_PDEATHSIG sends SIGHUP.
DaemonDies ==
    /\ daemon /\ R!InUse(handle)
    /\ daemon' = FALSE
    /\ due' = [due EXCEPT !.handle = <<>>]
    /\ again' = (again \/ handle.last_sig # "none")
    /\ Kill("SIGHUP")
    /\ UNCHANGED <<handle, obeys, told, early>>

-----------------------------------------------------------------------------

\* What takes no time once it is possible.
Prompt ==
    \/ SessiondTimer \/ SessiondQuits \/ PipeClosed \/ SessiondGoesOn
    \/ UserObeys
    \/ EndArrives \/ SessiondDown
    \/ \E i \in DOMAIN due.handle : DaemonTimer(i)

\* What each process has to do that takes no time.
SessiondReady ==
    \/ /\ Running
       /\ \/ pending # {}
          \/ /\ priv.timer_id /\ due.sessiond = 0
             /\ priv.last_sig = "SIGKILL" => Stuck
          \/ child = "exited" /\ priv.child_watch_id
    \/ main = "loop" /\ ~daemon
    \/ main = "disposing" /\ ~priv.is_child_up

UserReady ==
    \/ child \in {"forked", "killed"}
    \/ child = "running" /\ obeys \cap told # {}

DaemonReady ==
    /\ daemon /\ R!InUse(handle)
    /\ \/ handle.obj = "live" /\ "terminated" \in sent
       \/ main \in {"exited", "left", "died"} /\ handle.child_watch_id
       \/ /\ handle.last_sig # "SIGKILL"
          /\ \E i \in DOMAIN due.handle : due.handle[i] = 0

\* Prompt is possible: a signal, a timeout that is due, an end to report.
Ready == SessiondReady \/ UserReady \/ DaemonReady

Less(n) == IF n > 0 THEN n - 1 ELSE 0

\* A second passes.
Tick == /\ ~Ready
        /\ priv.timer_id \/ due.handle # <<>>
        /\ due' = [sessiond |-> Less(due.sessiond),
                   handle |-> [i \in DOMAIN due.handle |->
                                    Less(due.handle[i])]]
        /\ UNCHANGED <<vars, daemon, handle, obeys, told, again, early>>

TerminationNext ==
    \/ Create \/ UserLeaves
    \/ Logout \/ ErrorArrives \/ DaemonDies
    \/ Prompt
    \/ Tick

TerminationSpec == TerminationInit /\ [][TerminationNext]_tvars

TerminationFairSpec ==
    TerminationSpec /\ WF_tvars(Prompt) /\ WF_tvars(Tick)

-----------------------------------------------------------------------------
(* Properties.                                                             *)

\* For the login daemon the session is over, and the seat is free.
Over == daemon /\ ~handle.is_sessiond_up

\* "Logout the user": when the session is over for the login daemon, no
\* process of the user is left, after one logout of a session that was up.
NobodyLeft ==
    Over /\ ~again /\ ~early => child \in {"none", "exited", "reaped"}

\* The two escalations leave sessiond the time it needs: the process of a
\* user that obeys SIGTERM, or SIGHUP, is reaped and its PAM session closed
\* before SIGKILL reaches sessiond.  Only a second SIGHUP, or one ahead of
\* the child's setsid, kills sessiond before that.
OrderlyLogout ==
    Over /\ obeys # {} /\ ~again /\ ~early /\ main # "left" =>
        /\ main = "exited"
        /\ child \in {"none", "reaped"}
        /\ priv.auth_session = NoAuth
        /\ tty # "ours" /\ rtdir # "ours"

\* When the login daemon dies, sessiond ends the session by itself and cleans
\* up, whichever of SIGHUP and the closed connection comes first and even if
\* the user's process obeys nothing.  (In pause() it stays if the SIGHUP was
\* caught before.)
OrphanCleansUp ==
    ~daemon ~> again \/ early \/ main \in {"exited", "left", "paused"}

\* A logout always frees the seat: however often the session is terminated and
\* wherever in its clean-up a second SIGHUP, a signal ahead of setsid or the
\* SIGKILL of the daemon meets sessiond, with a user's process that obeys
\* nothing too, the handle's escalation goes on until the end is noticed.
LogoutEnds == handle.last_sig # "none" ~> ~daemon \/ Over
=============================================================================
