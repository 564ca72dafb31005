------------------------------ MODULE Session ------------------------------
(***************************************************************************)
(* One tlm-sessiond process (src/sessiond): main.c with its quit signals,  *)
(* TlmSessionDaemon, which relays D-Bus, TlmSession, which opens the PAM   *)
(* session and runs the user's process, and TlmAuthSession.                *)
(*                                                                         *)
(* The process has one thread and a GLib main loop.  Once asked to quit it *)
(* disposes of the session, and tlm_session_dispose runs the loop until    *)
(* the user's process is gone.  Signals to sessiond come from the login    *)
(* daemon (module SessionRemote) or from its death (PR_SET_PDEATHSIG).     *)
(***************************************************************************)
EXTENDS Naturals

CONSTANTS
    ForkFails,  \* whether fork may fail
    Stuck,      \* whether the child may outlive SIGKILL by a timeout
    MaxLost     \* bound: terminate calls that lose a timer id

ASSUME SessionAssumption ==
    ForkFails \in BOOLEAN /\ Stuck \in BOOLEAN /\ MaxLost \in Nat

VARIABLES
    main,       \* the process: where main() is
    handlers,   \* signals with a GLib handler; the others have default action
    pending,    \* signals caught and not yet dispatched by the loop
    priv,       \* struct _TlmSessionPrivate
    child,      \* the user's process; "forked" has not called setsid yet
    tty, rtdir, \* who has prepared the terminal and the runtime directory
    sent        \* D-Bus signals and errors sent to the login daemon

vars == <<main, handlers, pending, priv, child, tty, rtdir, sent>>

\* struct _TlmAuthSessionPrivate: the PAM handle, and what PAM holds for it,
\* credentials and an open session.
AuthType == [pam_handle : BOOLEAN, cred : BOOLEAN, open : BOOLEAN]

\* tty_dev and xdg_runtime_dir say whether the string is set; lost counts the
\* timers whose id timer_id no longer holds; started says that sessionCreate
\* has been called.
PrivType ==
    [auth_session : AuthType,
     is_child_up : BOOLEAN,
     child_watch_id : BOOLEAN,
     last_sig : {"none", "SIGHUP", "SIGTERM", "SIGKILL"},
     timer_id : BOOLEAN,
     lost : Nat,
     can_emit_signal : BOOLEAN,
     tty_dev : BOOLEAN,
     xdg_runtime_dir : BOOLEAN,
     setup_runtime_dir : BOOLEAN,
     started : BOOLEAN]

Owners == {"free", "ours", "other"}

NoAuth == [pam_handle |-> FALSE, cred |-> FALSE, open |-> FALSE]

\* tlm_session_init.
NewPriv == [auth_session |-> NoAuth, is_child_up |-> FALSE,
            child_watch_id |-> FALSE, last_sig |-> "none",
            timer_id |-> FALSE, lost |-> 0, can_emit_signal |-> TRUE,
            tty_dev |-> FALSE, xdg_runtime_dir |-> FALSE,
            setup_runtime_dir |-> FALSE, started |-> FALSE]

SessionInit ==
    /\ main = "loop"
    /\ handlers = {"SIGHUP", "SIGTERM"}
    /\ pending = {}
    /\ priv = NewPriv
    /\ child = "none"
    /\ tty = "free" /\ rtdir = "free"
    /\ sent = {}

-----------------------------------------------------------------------------
(* TlmAuthSession; a is the object a call starts from.                     *)

\* tlm_auth_session_new, after pam_start.
AuthSessionNew == [NoAuth EXCEPT !.pam_handle = TRUE]

\* tlm_auth_session_open.  It fails when the credentials can't be established
\* or the session can't be opened; when they can't be reinitialized after
\* that, the session is closed again.
AuthSessionOpen(a) == [a EXCEPT !.cred = TRUE, !.open = TRUE]
AuthSessionOpenFails(a) == {a, [a EXCEPT !.cred = TRUE]}

\* tlm_auth_session_dispose and _auth_session_stop: credentials, session and
\* handle go, whether or not the session was opened.
AuthSessionStop(a) == IF a.pam_handle THEN NoAuth ELSE a

(* Pieces of handlers; p is the private data they start from.              *)

\* g_signal_emit of TlmSession, relayed over D-Bus by TlmSessionDaemon.
Emit(p, sigs) == sent' = IF p.can_emit_signal THEN sent \cup sigs ELSE sent

\* Mutant: the strings stay set after their files were cleaned up.
ClearedKeepsStrings(p) ==
    [p EXCEPT !.timer_id = FALSE, !.child_watch_id = FALSE,
              !.auth_session = AuthSessionStop(@)]

\* _clear_session.  It removes the child watch and the timer, closes the PAM
\* session (_auth_session_stop) and forgets the strings, so that a second
\* call finds nothing to undo.
Cleared(p) ==
    [p EXCEPT !.tty_dev = FALSE, !.xdg_runtime_dir = FALSE,
              !.timer_id = FALSE, !.child_watch_id = FALSE,
              !.auth_session = AuthSessionStop(@)]

Undo(p) ==
    /\ tty' = IF p.tty_dev THEN "free" ELSE tty
    /\ rtdir' = IF p.setup_runtime_dir /\ p.xdg_runtime_dir
                THEN "free" ELSE rtdir

ClearSession(p) == priv' = Cleared(p) /\ Undo(p)

\* A signal to sessiond: a handled one waits for the loop, others are fatal.
\* In pause() a handled signal makes the call return, and exit(0) follows,
\* which leaves the PAM session as it is.
SignalSelf(sig) ==
    CASE sig \notin handlers -> main' = "died" /\ pending' = {}
      [] sig \in handlers /\ main = "paused" -> main' = "left" /\ pending' = {}
      [] OTHER -> pending' = pending \cup {sig} /\ UNCHANGED main

\* External: what a signal does to the user's process for certain.
Hit(sig) == IF sig = "SIGKILL" /\ child \in {"forked", "running"}
            THEN "killed" ELSE child

\* killpg (getpgid (child_pid), sig), main() being at m.  A child that has
\* not called setsid is in the group of sessiond and of the login daemon, and
\* so is "child" 0, which _on_child_down_cb leaves behind.
KillPg(sig, m, caught) ==
    /\ child' = Hit(sig)
    /\ IF child \notin {"forked", "reaped"} THEN main' = m /\ pending' = caught
       ELSE IF sig \in handlers' THEN main' = m /\ pending' = caught \cup {sig}
       ELSE main' = "died" /\ pending' = {}

\* Mutants: no timer is armed; the PAM session is closed ahead of the child.
HangupWithoutTimer(p) == [p EXCEPT !.last_sig = "SIGHUP"]

HangupClosesPam(p) == [p EXCEPT !.last_sig = "SIGHUP", !.timer_id = TRUE,
                                !.auth_session = NoAuth]

\* tlm_session_terminate for a child that is up: last_sig and timer.
Hangup(p) ==
    [p EXCEPT !.last_sig = "SIGHUP", !.timer_id = TRUE,
              !.lost = IF p.timer_id THEN @ + 1 ELSE @]

\* tlm_session_terminate, main() going to m.
Terminate(p, m, caught) ==
    IF ~p.is_child_up
    THEN /\ ClearSession(p)
         /\ Emit(p, {"terminated"})
         /\ main' = m /\ pending' = caught
         /\ UNCHANGED child
    ELSE /\ priv' = Hangup(p)
         /\ KillPg("SIGHUP", m, caught)
         /\ UNCHANGED <<tty, rtdir, sent>>

\* TlmSessionDaemon and TlmSession go: tlm_session_dispose up to its loop.
Dispose(caught) ==
    Terminate([priv EXCEPT !.can_emit_signal = FALSE], "disposing", caught)

-----------------------------------------------------------------------------
(* tlm_session_start, called by sessionCreate.                             *)

\* Input data missing, or pam_start fails.
StartFails == /\ priv' = [priv EXCEPT !.started = TRUE]
              /\ Emit(priv, {"error"})
              /\ UNCHANGED <<main, child, tty, rtdir>>

\* pam_authenticate fails, or the session can't be opened after it; a is
\* what is left of the TlmAuthSession.
AuthFails(how, a) ==
    /\ priv' = [priv EXCEPT !.started = TRUE, !.auth_session = a]
    /\ Emit(priv, how)
    /\ UNCHANGED <<main, child, tty, rtdir>>

\* tlm_auth_session_authenticate fails: the PAM handle is kept.
AuthenticateFails == AuthFails({"error"}, AuthSessionNew)

\* The private data once the PAM session is open.
Opened(p) == [p EXCEPT !.started = TRUE,
                       !.auth_session = AuthSessionOpen(AuthSessionNew)]

\* PAUSE_SESSION: created is sent, then pause() and exit (0).  A signal that
\* was caught before does not wake pause().
PauseSession ==
    /\ priv' = Opened(priv)
    /\ Emit(priv, {"authenticated", "created"})
    /\ main' = "paused"
    /\ UNCHANGED <<child, tty, rtdir>>

\* _prepare_terminal: tty_dev stays set only if the terminal is ready.
PrepareTerminal(p, term) == [p EXCEPT !.tty_dev = (term = "ready")]

\* _exec_user_session: runtime directory, terminal, fork.  Without a
\* terminal there is no fork; a failed fork looks like one that succeeded.
ExecUserSession(dir, term, forks) ==
    /\ priv' = [PrepareTerminal(Opened(priv), term) EXCEPT
                    !.setup_runtime_dir = dir, !.xdg_runtime_dir = TRUE,
                    !.is_child_up = (term # "fails"),
                    !.child_watch_id = (term # "fails" /\ forks)]
    /\ rtdir' = IF dir THEN "ours" ELSE rtdir
    /\ tty' = IF term = "ready" THEN "ours" ELSE tty
    /\ child' = IF term # "fails" /\ forks THEN "forked" ELSE child
    /\ Emit(priv, {"authenticated", "created"})
    /\ UNCHANGED main

\* _handle_session_create_from_dbus; the login daemon calls it once.
SessionCreate ==
    /\ main = "loop" /\ ~priv.started
    /\ \/ StartFails
       \/ AuthenticateFails
       \/ \E a \in AuthSessionOpenFails(AuthSessionNew) :
            AuthFails({"authenticated", "error"}, a)
       \/ PauseSession
       \/ \E dir \in BOOLEAN, term \in {"none", "ready", "fails"},
             forks \in {TRUE, ~ForkFails} : ExecUserSession(dir, term, forks)
    /\ UNCHANGED <<handlers, pending>>

-----------------------------------------------------------------------------
(* The other sources of the loop.                                          *)

\* _handle_session_terminate_from_dbus.
SessionTerminate ==
    /\ main = "loop" /\ priv.started
    /\ priv.timer_id => priv.lost < MaxLost
    /\ UNCHANGED handlers
    /\ Terminate(priv, main, pending)

\* _on_connection_closed: the daemon object goes, and with it main's loop.
ConnectionClosed == /\ main = "loop"
                    /\ UNCHANGED handlers
                    /\ Dispose(pending)

\* _handle_quit_signal.  It returns FALSE: its source goes and the signal has
\* its default action again.  main() then disposes of everything.
QuitSignal(sig) ==
    /\ sig \in pending
    /\ main \in {"loop", "disposing"}
    /\ handlers' = handlers \ {sig}
    /\ IF main = "loop" THEN Dispose(pending \ {sig})
       ELSE /\ pending' = pending \ {sig}
            /\ UNCHANGED <<main, priv, child, tty, rtdir, sent>>

Running == main \in {"loop", "disposing"}

\* Mutant: the source that fired is always taken for a lost one.
TimerGoneWrongSource(p, src) == [p EXCEPT !.timer_id = FALSE, !.lost = @ - 1]

\* The source that fired is removed, and timer_id is set to 0 whichever
\* source timer_id stands for.
TimerGone(p, src) ==
    [p EXCEPT !.timer_id = FALSE,
              !.lost = IF src = "lost" /\ ~p.timer_id THEN @ - 1 ELSE @]

\* Mutant: every timeout sends SIGTERM.
TerminateTimeoutNoKill(src) ==
    /\ Running
    /\ child # "forked"
    /\ IF src = "lost" THEN priv.lost > 0 ELSE priv.timer_id
    /\ priv' = [priv EXCEPT !.last_sig = "SIGTERM"]
    /\ KillPg("SIGTERM", main, pending)
    /\ UNCHANGED <<handlers, tty, rtdir, sent>>

\* _terminate_timeout.  A forked child reaches setsid long before a timeout.
TerminateTimeout(src) ==
    /\ Running
    /\ child # "forked"
    /\ IF src = "lost" THEN priv.lost > 0 ELSE priv.timer_id
    /\ priv.last_sig = "SIGKILL" => Stuck
    /\ UNCHANGED handlers
    /\ CASE priv.last_sig = "SIGHUP" ->
                /\ priv' = [priv EXCEPT !.last_sig = "SIGTERM"]
                /\ KillPg("SIGTERM", main, pending)
                /\ UNCHANGED <<tty, rtdir, sent>>
         [] priv.last_sig = "SIGTERM" ->
                /\ priv' = [priv EXCEPT !.last_sig = "SIGKILL"]
                /\ KillPg("SIGKILL", main, pending)
                /\ UNCHANGED <<tty, rtdir, sent>>
         [] priv.last_sig = "SIGKILL" ->
                /\ ClearSession(TimerGone(priv, src))
                /\ Emit(priv, {"error"})
                /\ UNCHANGED <<main, pending, child>>

\* Mutant: the end is reported before _clear_session was called.
ChildDownUncleared ==
    /\ Running
    /\ child = "exited" /\ priv.child_watch_id
    /\ child' = "reaped"
    /\ priv' = [priv EXCEPT !.is_child_up = FALSE, !.child_watch_id = FALSE]
    /\ Emit(priv, {"terminated"})
    /\ UNCHANGED <<main, handlers, pending, tty, rtdir>>

\* _on_child_down_cb.
ChildDown ==
    /\ Running
    /\ child = "exited" /\ priv.child_watch_id
    /\ child' = "reaped"
    /\ ClearSession([priv EXCEPT !.is_child_up = FALSE])
    /\ Emit(priv, {"terminated"})
    /\ UNCHANGED <<main, handlers, pending>>

\* Mutant: dispose does not wait for the child.
DisposeReturnsAtOnce ==
    /\ main = "disposing"
    /\ main' = "exited"
    /\ UNCHANGED <<handlers, pending, priv, child, tty, rtdir, sent>>

\* The loop of tlm_session_dispose ends and main() returns.
DisposeReturns ==
    /\ main = "disposing"
    /\ ~priv.is_child_up
    /\ main' = "exited"
    /\ UNCHANGED <<handlers, pending, priv, child, tty, rtdir, sent>>

-----------------------------------------------------------------------------
(* The rest of the world.                                                  *)

\* External: the login daemon, or its death, signals sessiond.
Signal(sig) == /\ main \in {"loop", "disposing", "paused"}
               /\ SignalSelf(sig)
               /\ UNCHANGED <<handlers, priv, child, tty, rtdir, sent>>

\* The child of fork() calls setsid.
ChildSetsid == /\ child = "forked"
               /\ child' = "running"
               /\ UNCHANGED <<main, handlers, pending, priv, tty, rtdir, sent>>

\* External: the user's process ends.
ChildExits == /\ child \in {"forked", "running", "killed"}
              /\ child' = "exited"
              /\ UNCHANGED <<main, handlers, pending, priv, tty, rtdir, sent>>

\* External: once the login daemon knows that this session is over it may
\* start another, which takes the terminal and the runtime directory.
SuccessorStarts == /\ sent \cap {"terminated", "error"} # {}
                   /\ tty' = "other" /\ rtdir' = "other"
                   /\ UNCHANGED <<main, handlers, pending, priv, child, sent>>

SessionNext ==
    \/ SessionCreate
    \/ SessionTerminate
    \/ ConnectionClosed
    \/ \E sig \in {"SIGHUP", "SIGTERM"} : QuitSignal(sig)
    \/ \E src \in {"current", "lost"} : TerminateTimeout(src)
    \/ ChildDown
    \/ DisposeReturns
    \/ \E sig \in {"SIGHUP", "SIGTERM", "SIGKILL"} : Signal(sig)
    \/ ChildSetsid
    \/ ChildExits
    \/ SuccessorStarts

SessionSpec == SessionInit /\ [][SessionNext]_vars

\* The loop dispatches what is ready, a forked child gets to setsid, and the
\* kernel ends a process that got SIGKILL.
SessionFairness ==
    /\ \A sig \in {"SIGHUP", "SIGTERM"} : WF_vars(QuitSignal(sig))
    /\ \A src \in {"current", "lost"} : WF_vars(TerminateTimeout(src))
    /\ WF_vars(ChildDown)
    /\ WF_vars(DisposeReturns)
    /\ WF_vars(ChildSetsid)
    /\ WF_vars(child = "killed" /\ ChildExits)

SessionFairSpec == SessionSpec /\ SessionFairness

-----------------------------------------------------------------------------
(* Properties.                                                             *)

\* Type invariant of the process.
SessionTypeOK ==
    /\ main \in {"loop", "disposing", "paused", "exited", "left", "died"}
    /\ handlers \subseteq {"SIGHUP", "SIGTERM"}
    /\ pending \subseteq handlers
    /\ priv \in PrivType
    /\ child \in {"none", "forked", "running", "killed", "exited", "reaped"}
    /\ tty \in Owners /\ rtdir \in Owners
    /\ sent \subseteq {"authenticated", "created", "terminated", "error"}

\* main() returns only after the user's process was reaped, the PAM session
\* closed, the terminal reset and the runtime directory deleted, whichever
\* of signals, D-Bus calls and the child's end came first.
CleanExit ==
    main = "exited" =>
        /\ child \in {"none", "reaped"}
        /\ priv.auth_session = NoAuth
        /\ tty # "ours" /\ rtdir # "ours"

\* When sessiond reports session-terminated, nothing of the session is left
\* for the login daemon's next session to collide with.
TerminatedIsClean ==
    "terminated" \in sent =>
        /\ child \in {"none", "reaped"}
        /\ priv.auth_session = NoAuth
        /\ tty # "ours" /\ rtdir # "ours"

\* The user's process never runs without its PAM session while sessiond is
\* there: _clear_session comes after the child is gone or was sent SIGKILL.
PamCoversChild ==
    Running /\ child \in {"forked", "running"} => priv.auth_session.open

\* Clean-up is done once: a session that has reported its end no longer
\* touches the terminal and the runtime directory its successor prepared,
\* although _clear_session runs again when sessiond quits.
SuccessorUntouched ==
    [][/\ tty = "other" => tty' = "other"
       /\ rtdir = "other" => rtdir' = "other"]_vars

\* A sessiond that began to quit ends, whatever signals the user's process
\* ignores.  The loop of tlm_session_dispose can only be left for ever when
\* there is no child watch: fork failed, or the child outlived SIGKILL by a
\* timeout and _clear_session removed the watch.
QuitEnds ==
    main = "disposing" ~> \/ main \in {"exited", "died"}
                          \/ priv.is_child_up /\ ~priv.child_watch_id
=============================================================================
