--------------------------- MODULE SessionProofs ---------------------------
(***************************************************************************)
(* Proofs about one tlm-sessiond process, for any number of lost timers    *)
(* and whether or not fork may fail or the child may outlive SIGKILL.      *)
(* SessionInv is inductive; the four invariants of Session follow from it, *)
(* and so does the action property SuccessorUntouched.                     *)
(***************************************************************************)
EXTENDS Session, TLAPS

-----------------------------------------------------------------------------
(* The inductive invariant.                                                *)

\* tlm_session_start has not been called: nothing is held or armed, and
\* nothing was reported.
Fresh ==
    ~priv.started =>
        /\ ~priv.is_child_up /\ child = "none"
        /\ priv.auth_session = NoAuth
        /\ tty = "free" /\ rtdir = "free"
        /\ ~priv.tty_dev /\ ~priv.xdg_runtime_dir
        /\ ~priv.timer_id /\ priv.lost = 0 /\ priv.last_sig = "none"
        /\ sent = {}

\* PAM holds credentials or a session only for a handle, so that
\* _auth_session_stop leaves nothing.
PamNeedsHandle == ~priv.auth_session.pam_handle => priv.auth_session = NoAuth

\* is_child_up covers the whole life of the child up to its reaping (it is
\* also set when fork failed), and a child that has not been sent SIGKILL
\* has its PAM session.
ChildIsUp ==
    /\ ~priv.is_child_up => child \in {"none", "reaped"}
    /\ child = "reaped" => ~priv.is_child_up
    /\ child \in {"forked", "running"} => priv.auth_session.open

\* Every timer, one whose id was lost too, finds a signal to escalate from;
\* after SIGKILL the child is no longer alive.
TimersEscalate ==
    /\ priv.timer_id \/ priv.lost > 0 => priv.last_sig # "none"
    /\ priv.last_sig = "SIGKILL" => child \notin {"forked", "running"}

\* What this session has prepared is recorded in the strings by which
\* _clear_session undoes it.
FilesRecorded ==
    /\ tty = "ours" => priv.tty_dev
    /\ rtdir = "ours" => priv.setup_runtime_dir /\ priv.xdg_runtime_dir

\* _clear_session has been through, or has nothing to undo.
Released == /\ priv.auth_session = NoAuth
            /\ ~priv.tty_dev /\ ~priv.xdg_runtime_dir

\* Once dispose has begun, a session without a child has been cleared.
DisposedOnce ==
    main \in {"disposing", "exited"} /\ ~priv.is_child_up => Released

\* tlm_session_dispose returns only when the child is gone.
ExitedChildless == main = "exited" => ~priv.is_child_up

\* A reported end finds the strings cleared, a reported termination the rest
\* as well, and only a reported end lets a successor in.
EndReported ==
    /\ sent \cap {"terminated", "error"} # {} =>
            ~priv.tty_dev /\ ~priv.xdg_runtime_dir
    /\ "terminated" \in sent => ~priv.is_child_up /\ Released
    /\ "other" \in {tty, rtdir} => sent \cap {"terminated", "error"} # {}

SessionInv ==
    /\ SessionTypeOK /\ Fresh /\ PamNeedsHandle /\ ChildIsUp
    /\ TimersEscalate /\ FilesRecorded /\ DisposedOnce
    /\ ExitedChildless /\ EndReported

-----------------------------------------------------------------------------
(* Steps of the world and of dispose, which leave the private data alone.  *)

\* main() starts with nothing held.
LEMMA InitInv == SessionInit => SessionInv
BY DEF SessionInit, SessionInv, SessionTypeOK, Fresh, PamNeedsHandle,
       ChildIsUp, TimersEscalate, FilesRecorded, DisposedOnce, Released,
       ExitedChildless, EndReported, NewPriv, NoAuth, PrivType, AuthType,
       Owners

\* setsid in the child: it stays up, with its PAM session.
LEMMA ChildSetsidInv == SessionInv /\ ChildSetsid => SessionInv'
BY DEF ChildSetsid, SessionInv, SessionTypeOK, Fresh, PamNeedsHandle,
       ChildIsUp, TimersEscalate, FilesRecorded, DisposedOnce, Released,
       ExitedChildless, EndReported

\* The child ends, and is not reaped yet.
LEMMA ChildExitsInv == SessionInv /\ ChildExits => SessionInv'
BY DEF ChildExits, SessionInv, SessionTypeOK, Fresh, PamNeedsHandle,
       ChildIsUp, TimersEscalate, FilesRecorded, DisposedOnce, Released,
       ExitedChildless, EndReported

\* A successor takes the terminal and the directory after the end was told.
LEMMA SuccessorStartsInv == SessionInv /\ SuccessorStarts => SessionInv'
BY DEF SuccessorStarts, SessionInv, SessionTypeOK, Fresh, PamNeedsHandle,
       ChildIsUp, TimersEscalate, FilesRecorded, DisposedOnce, Released,
       ExitedChildless, EndReported, Owners

\* The loop of tlm_session_dispose ends only without a child.
LEMMA DisposeReturnsInv == SessionInv /\ DisposeReturns => SessionInv'
BY DEF DisposeReturns, SessionInv, SessionTypeOK, Fresh, PamNeedsHandle,
       ChildIsUp, TimersEscalate, FilesRecorded, DisposedOnce, Released,
       ExitedChildless, EndReported

\* A signal to sessiond is caught, wakes pause() or is fatal.
LEMMA SignalInv ==
    ASSUME NEW sig \in {"SIGHUP", "SIGTERM", "SIGKILL"}
    PROVE  SessionInv /\ Signal(sig) => SessionInv'
BY DEF Signal, SignalSelf, SessionInv, SessionTypeOK, Fresh, PamNeedsHandle,
       ChildIsUp, TimersEscalate, FilesRecorded, DisposedOnce, Released,
       ExitedChildless, EndReported

-----------------------------------------------------------------------------
(* What the pieces of the handlers do to the private data.                 *)

\* _clear_session leaves no PAM session, no string and no timer.
LEMMA ClearedFields ==
    ASSUME NEW p \in PrivType,
           ~p.auth_session.pam_handle => p.auth_session = NoAuth
    PROVE  /\ Cleared(p) \in PrivType
           /\ Cleared(p).auth_session = NoAuth
           /\ ~Cleared(p).tty_dev /\ ~Cleared(p).xdg_runtime_dir
           /\ ~Cleared(p).timer_id
           /\ \A f \in {"is_child_up", "last_sig", "lost", "started"} :
                Cleared(p)[f] = p[f]
<1>1. AuthSessionStop(p.auth_session) = NoAuth
  BY DEF AuthSessionStop
<1>2. NoAuth \in AuthType
  BY DEF NoAuth, AuthType
<1>3. Cleared(p) = [p EXCEPT !.tty_dev = FALSE, !.xdg_runtime_dir = FALSE,
                             !.timer_id = FALSE, !.child_watch_id = FALSE,
                             !.auth_session = NoAuth]
  BY <1>1 DEF Cleared
<1>4. Cleared(p) \in PrivType
  BY <1>2, <1>3, Zenon DEF PrivType
<1>5. QED
  BY <1>3, <1>4 DEF PrivType

\* tlm_session_terminate changes the signal and the timers of a live child.
LEMMA HangupFields ==
    ASSUME NEW p \in PrivType
    PROVE  /\ Hangup(p) \in PrivType
           /\ Hangup(p).last_sig = "SIGHUP"
           /\ \A f \in {"is_child_up", "auth_session", "tty_dev", "started",
                        "xdg_runtime_dir", "setup_runtime_dir"} :
                Hangup(p)[f] = p[f]
<1> DEFINE n == IF p.timer_id THEN p.lost + 1 ELSE p.lost
<1>1. n \in Nat
  BY DEF PrivType
<1>2. Hangup(p) = [p EXCEPT !.last_sig = "SIGHUP", !.timer_id = TRUE,
                            !.lost = n]
  BY DEF Hangup
<1>3. QED
  BY <1>1, <1>2 DEF PrivType

-----------------------------------------------------------------------------
(* The handlers.                                                           *)

\* _on_child_down_cb: the child is reaped and the session cleared before the
\* end is reported.
LEMMA ChildDownInv == SessionInv /\ ChildDown => SessionInv'
<1> SUFFICES ASSUME SessionInv, ChildDown
             PROVE  SessionInv'
  OBVIOUS
<1> DEFINE p == [priv EXCEPT !.is_child_up = FALSE]
<1>1. /\ p \in PrivType /\ ~p.is_child_up
      /\ p.auth_session = priv.auth_session
      /\ p.started = priv.started /\ p.last_sig = priv.last_sig
      /\ p.lost = priv.lost /\ p.tty_dev = priv.tty_dev
      /\ p.xdg_runtime_dir = priv.xdg_runtime_dir
      /\ p.setup_runtime_dir = priv.setup_runtime_dir
  BY DEF SessionInv, SessionTypeOK, PrivType
<1>2. ClearSession(p)
  BY DEF ChildDown
<1> HIDE DEF p
<1>3. ~p.auth_session.pam_handle => p.auth_session = NoAuth
  BY <1>1 DEF SessionInv, PamNeedsHandle
<1>4. QED
  BY <1>1, <1>2, <1>3, ClearedFields
  DEF ChildDown, ClearSession, Undo, Emit, Running,
       SessionInv, SessionTypeOK, Fresh, PamNeedsHandle,
       ChildIsUp, TimersEscalate, FilesRecorded, DisposedOnce, Released,
       ExitedChildless, EndReported, Owners

\* The private data as it is, with can_emit_signal set or not.
SameButEmit(p) ==
    /\ p \in PrivType
    /\ \A f \in {"is_child_up", "auth_session", "last_sig", "timer_id", "lost",
                 "tty_dev", "xdg_runtime_dir", "setup_runtime_dir",
                 "started"} : p[f] = priv[f]

\* tlm_session_terminate, called over D-Bus or on the way into dispose.
LEMMA TerminateInv ==
    ASSUME SessionInv, main = "loop",
           NEW p, SameButEmit(p), p.can_emit_signal => p.started,
           NEW m \in {"loop", "disposing"},
           NEW caught, caught \subseteq handlers', handlers' \subseteq handlers,
           Terminate(p, m, caught)
    PROVE  SessionInv'
<1>1. ~p.auth_session.pam_handle => p.auth_session = NoAuth
  BY DEF SessionInv, PamNeedsHandle, SameButEmit
<1>2. CASE ~p.is_child_up
  <2>1. /\ priv' = Cleared(p) /\ Undo(p) /\ Emit(p, {"terminated"})
        /\ main' = m /\ pending' = caught /\ child' = child
    BY <1>2 DEF Terminate, ClearSession
  <2>2. QED
    BY <1>1, <1>2, <2>1, ClearedFields
    DEF SameButEmit, Undo, Emit, SessionInv, SessionTypeOK, Fresh,
        PamNeedsHandle, ChildIsUp, TimersEscalate, FilesRecorded,
        DisposedOnce, Released,
        ExitedChildless, EndReported, Owners
<1>3. CASE p.is_child_up
  <2>1. /\ priv' = Hangup(p) /\ KillPg("SIGHUP", m, caught)
        /\ UNCHANGED <<tty, rtdir, sent>>
    BY <1>3 DEF Terminate
  <2>2. /\ child' = child
        /\ main' \in {"loop", "disposing", "died"}
        /\ pending' \subseteq handlers'
    BY <2>1 DEF KillPg, Hit
  <2>3. QED
    BY <1>1, <1>3, <2>1, <2>2, HangupFields
    DEF SameButEmit, SessionInv, SessionTypeOK, Fresh, PamNeedsHandle,
        ChildIsUp, TimersEscalate, FilesRecorded, DisposedOnce, Released,
        ExitedChildless, EndReported, Owners
<1>4. QED
  BY <1>2, <1>3

\* tlm_session_dispose up to its loop: the end is not reported.
LEMMA DisposeInv ==
    ASSUME SessionInv, main = "loop",
           NEW caught, caught \subseteq handlers', handlers' \subseteq handlers,
           Dispose(caught)
    PROVE  SessionInv'
<1> DEFINE p == [priv EXCEPT !.can_emit_signal = FALSE]
<1>1. SameButEmit(p) /\ ~p.can_emit_signal
  BY DEF SessionInv, SessionTypeOK, SameButEmit, PrivType
<1>2. Terminate(p, "disposing", caught)
  BY DEF Dispose
<1> HIDE DEF p
<1>3. QED
  BY <1>1, <1>2, TerminateInv

\* _handle_session_terminate_from_dbus.
LEMMA SessionTerminateInv == SessionInv /\ SessionTerminate => SessionInv'
<1> SUFFICES ASSUME SessionInv, SessionTerminate
             PROVE  SessionInv'
  OBVIOUS
<1>1. SameButEmit(priv) /\ priv.started /\ main = "loop"
  BY DEF SessionTerminate, SessionInv, SessionTypeOK, SameButEmit
<1>2. pending \subseteq handlers' /\ handlers' = handlers
  BY DEF SessionTerminate, SessionInv, SessionTypeOK
<1>3. Terminate(priv, "loop", pending)
  BY DEF SessionTerminate
<1>4. QED
  BY <1>1, <1>2, <1>3, TerminateInv

\* _on_connection_closed.
LEMMA ConnectionClosedInv == SessionInv /\ ConnectionClosed => SessionInv'
BY DisposeInv DEF ConnectionClosed, SessionInv, SessionTypeOK

\* _handle_quit_signal, in the main loop and in the loop of dispose.
LEMMA QuitSignalInv ==
    ASSUME SessionInv, NEW sig, QuitSignal(sig)
    PROVE  SessionInv'
<1>1. /\ handlers' \subseteq handlers
      /\ pending \ {sig} \subseteq handlers'
  BY DEF QuitSignal, SessionInv, SessionTypeOK
<1>2. CASE main = "loop"
  BY <1>1, <1>2, DisposeInv DEF QuitSignal
<1>3. CASE main = "disposing"
  BY <1>1, <1>3 DEF QuitSignal, SessionInv, SessionTypeOK, Fresh,
     PamNeedsHandle, ChildIsUp, TimersEscalate, FilesRecorded, DisposedOnce,
     Released, ExitedChildless, EndReported
<1>4. QED
  BY <1>2, <1>3 DEF QuitSignal

\* _terminate_timeout escalates, or gives up a child that outlived SIGKILL.
LEMMA TerminateTimeoutInv ==
    ASSUME SessionInv, NEW src \in {"current", "lost"}, TerminateTimeout(src)
    PROVE  SessionInv'
<1>1. /\ priv \in PrivType /\ priv.lost \in Nat
      /\ src = "lost" => priv.lost > 0
      /\ priv.last_sig \in {"SIGHUP", "SIGTERM", "SIGKILL"}
      /\ child # "forked" /\ handlers' = handlers /\ Running
      /\ priv.started
  BY DEF TerminateTimeout, SessionInv, SessionTypeOK, PrivType,
         TimersEscalate, Fresh
<1>2. ASSUME NEW to \in {"SIGTERM", "SIGKILL"},
             priv' = [priv EXCEPT !.last_sig = to],
             KillPg(to, main, pending), UNCHANGED <<tty, rtdir, sent>>
      PROVE  SessionInv'
  <2>1. /\ priv' \in PrivType /\ priv'.last_sig = to
        /\ \A f \in {"is_child_up", "auth_session", "timer_id", "lost",
                 "tty_dev", "xdg_runtime_dir", "setup_runtime_dir",
                 "started"} : priv'[f] = priv[f]
    BY <1>1, <1>2 DEF PrivType
  <2>2. /\ child' = IF to = "SIGKILL" /\ child = "running"
                    THEN "killed" ELSE child
        /\ main' \in {main, "died"}
        /\ pending' \subseteq handlers'
    BY <1>1, <1>2 DEF KillPg, Hit, SessionInv, SessionTypeOK
  <2>3. QED
    BY <1>1, <1>2, <2>1, <2>2 DEF SessionInv, SessionTypeOK, Fresh,
     PamNeedsHandle, ChildIsUp, TimersEscalate, FilesRecorded, DisposedOnce,
     Released, ExitedChildless, EndReported, Running
<1>3. ASSUME priv.last_sig = "SIGKILL",
             ClearSession(TimerGone(priv, src)), Emit(priv, {"error"}),
             UNCHANGED <<main, pending, child>>
      PROVE  SessionInv'
  <2> DEFINE p == TimerGone(priv, src)
  <2> DEFINE n == IF src = "lost" /\ ~priv.timer_id THEN priv.lost - 1
                  ELSE priv.lost
  <2>1. n \in Nat
    BY <1>1
  <2>2. p = [priv EXCEPT !.timer_id = FALSE, !.lost = n]
    BY DEF TimerGone
  <2> HIDE DEF n
  <2>3. /\ p \in PrivType
        /\ \A f \in {"is_child_up", "auth_session", "last_sig",
                 "tty_dev", "xdg_runtime_dir", "setup_runtime_dir",
                 "started"} : p[f] = priv[f]
    BY <1>1, <2>1, <2>2 DEF PrivType
  <2>4. ClearSession(p)
    BY <1>3
  <2> HIDE DEF p
  <2>5. ~p.auth_session.pam_handle => p.auth_session = NoAuth
    BY <2>3 DEF SessionInv, PamNeedsHandle
  <2>6. QED
    BY <1>1, <1>3, <2>3, <2>4, <2>5, ClearedFields
    DEF ClearSession, Undo, Emit, Running, SessionInv, SessionTypeOK, Fresh,
        PamNeedsHandle, ChildIsUp, TimersEscalate, FilesRecorded,
        DisposedOnce, Released, ExitedChildless, EndReported, Owners
<1>4. QED
  <2>1. CASE priv.last_sig = "SIGHUP"
    BY <1>2, <2>1 DEF TerminateTimeout
  <2>2. CASE priv.last_sig = "SIGTERM"
    BY <1>2, <2>2 DEF TerminateTimeout
  <2>3. CASE priv.last_sig = "SIGKILL"
    BY <1>3, <2>3 DEF TerminateTimeout
  <2>4. QED
    BY <1>1, <2>1, <2>2, <2>3

\* _handle_session_create_from_dbus: every way tlm_session_start can end.
LEMMA SessionCreateInv == SessionInv /\ SessionCreate => SessionInv'
<1> SUFFICES ASSUME SessionInv, SessionCreate
             PROVE  SessionInv'
  OBVIOUS
<1>1. /\ priv \in PrivType /\ main = "loop" /\ ~priv.started
      /\ UNCHANGED <<handlers, pending>>
      /\ sent' \subseteq {"authenticated", "created", "error"}
  BY DEF SessionCreate, SessionInv, SessionTypeOK, Fresh, Emit, StartFails,
     AuthFails, AuthenticateFails, PauseSession, ExecUserSession
<1>2. ASSUME NEW a \in AuthType, a.pam_handle \/ a = NoAuth,
             NEW m \in {"loop", "paused"},
             priv' = [priv EXCEPT !.started = TRUE, !.auth_session = a],
             main' = m, UNCHANGED <<child, tty, rtdir>>
      PROVE  SessionInv'
  <2>1. /\ priv' \in PrivType /\ priv'.auth_session = a /\ priv'.started
        /\ \A f \in {"is_child_up", "timer_id", "lost", "last_sig",
                 "tty_dev", "xdg_runtime_dir", "setup_runtime_dir"} :
                 priv'[f] = priv[f]
    BY <1>1, <1>2 DEF PrivType
  <2>2. QED
    BY <1>1, <1>2, <2>1 DEF SessionInv, SessionTypeOK, Fresh,
     PamNeedsHandle, ChildIsUp, TimersEscalate, FilesRecorded, DisposedOnce,
     Released, ExitedChildless, EndReported
<1>3. CASE StartFails
  <2>1. /\ priv' \in PrivType /\ priv'.started
        /\ \A f \in {"is_child_up", "timer_id", "lost", "last_sig",
                 "tty_dev", "xdg_runtime_dir", "setup_runtime_dir",
                 "auth_session"} : priv'[f] = priv[f]
    BY <1>1, <1>3 DEF PrivType, StartFails
  <2>2. QED
    BY <1>1, <1>3, <2>1 DEF StartFails, SessionInv, SessionTypeOK, Fresh,
     PamNeedsHandle, ChildIsUp, TimersEscalate, FilesRecorded, DisposedOnce,
     Released, ExitedChildless, EndReported
<1>4. ASSUME NEW how,
             NEW a \in {AuthSessionNew} \cup
                        AuthSessionOpenFails(AuthSessionNew),
             AuthFails(how, a)
      PROVE  SessionInv'
  <2>1. a \in AuthType /\ a.pam_handle
    BY DEF AuthSessionNew, AuthSessionOpenFails, AuthType, NoAuth
  <2>2. QED
    BY <1>1, <1>2, <1>4, <2>1 DEF AuthFails
<1>5. CASE PauseSession
  <2> DEFINE a == AuthSessionOpen(AuthSessionNew)
  <2>1. a \in AuthType /\ a.pam_handle
    BY DEF AuthSessionNew, AuthSessionOpen, AuthType, NoAuth
  <2>2. priv' = [priv EXCEPT !.started = TRUE, !.auth_session = a]
    BY <1>5 DEF PauseSession, Opened
  <2> HIDE DEF a
  <2>3. QED
    BY <1>2, <1>5, <2>1, <2>2 DEF PauseSession
<1>6. ASSUME NEW dir \in BOOLEAN, NEW term \in {"none", "ready", "fails"},
             NEW forks \in BOOLEAN, ExecUserSession(dir, term, forks)
      PROVE  SessionInv'
  <2> DEFINE a == AuthSessionOpen(AuthSessionNew)
  <2>1. a \in AuthType /\ a.pam_handle /\ a.open
    BY DEF AuthSessionNew, AuthSessionOpen, AuthType, NoAuth
  <2> DEFINE ready == term = "ready"
             up == term # "fails"
             watched == term # "fails" /\ forks
  <2>2. ready \in BOOLEAN /\ up \in BOOLEAN /\ watched \in BOOLEAN
    OBVIOUS
  <2>3. priv' = [priv EXCEPT !.started = TRUE, !.auth_session = a,
                    !.tty_dev = ready,
                    !.setup_runtime_dir = dir, !.xdg_runtime_dir = TRUE,
                    !.is_child_up = up, !.child_watch_id = watched]
    BY <1>6 DEF ExecUserSession, Opened, PrepareTerminal
  <2>4. /\ rtdir' = IF dir THEN "ours" ELSE rtdir
        /\ tty' = IF ready THEN "ours" ELSE tty
        /\ child' = IF watched THEN "forked" ELSE child
        /\ watched => up
        /\ main' = main
    BY <1>6 DEF ExecUserSession
  <2> HIDE DEF a, ready, up, watched
  <2>5. priv' \in PrivType
    BY <1>1, <2>1, <2>2, <2>3, ZenonT(30) DEF PrivType
  <2>6. /\ priv'.auth_session = a /\ priv'.started
        /\ priv'.tty_dev = ready
        /\ priv'.setup_runtime_dir = dir /\ priv'.xdg_runtime_dir
        /\ priv'.is_child_up = up
        /\ priv'.timer_id = priv.timer_id /\ priv'.lost = priv.lost
        /\ priv'.last_sig = priv.last_sig
    BY <1>1, <2>3 DEF PrivType
  <2>7. sent' \cap {"terminated", "error"} = {}
    BY <1>1, <1>6 DEF ExecUserSession, Emit, SessionInv, Fresh
  <2>8. SessionTypeOK'
    BY <1>1, <2>4, <2>5 DEF SessionInv, SessionTypeOK, Owners
  <2>9. Fresh' /\ PamNeedsHandle' /\ FilesRecorded' /\ EndReported'
    BY <1>1, <2>1, <2>4, <2>6, <2>7
    DEF SessionInv, Fresh, PamNeedsHandle, FilesRecorded, EndReported
  <2>10. ChildIsUp' /\ TimersEscalate' /\ DisposedOnce' /\ ExitedChildless'
    BY <1>1, <2>1, <2>4, <2>6
    DEF SessionInv, Fresh, ChildIsUp, TimersEscalate, DisposedOnce,
        ExitedChildless
  <2>11. QED
    BY <2>8, <2>9, <2>10 DEF SessionInv
<1>7. QED
  BY <1>3, <1>4, <1>5, <1>6, SessionAssumption
  DEF SessionCreate, AuthenticateFails

\* Every step of sessiond, of its child and of the world keeps SessionInv.
LEMMA StepInv == SessionInv /\ [SessionNext]_vars => SessionInv'
<1> SUFFICES ASSUME SessionInv, [SessionNext]_vars
             PROVE  SessionInv'
  OBVIOUS
<1>1. CASE UNCHANGED vars
  BY <1>1 DEF vars, SessionInv, SessionTypeOK, Fresh, PamNeedsHandle,
     ChildIsUp, TimersEscalate, FilesRecorded, DisposedOnce, Released,
     ExitedChildless, EndReported
<1>2. QED
  BY <1>1, SessionCreateInv, SessionTerminateInv, ConnectionClosedInv,
     QuitSignalInv, TerminateTimeoutInv, ChildDownInv, DisposeReturnsInv,
     SignalInv, ChildSetsidInv, ChildExitsInv, SuccessorStartsInv
  DEF SessionNext

\* SessionInv is an invariant.
LEMMA AlwaysSessionInv == SessionSpec => []SessionInv
BY InitInv, StepInv, PTL DEF SessionSpec

-----------------------------------------------------------------------------
(* The theorems.                                                           *)

\* The state of sessiond keeps its type.  In particular the timer that fires
\* is one that was armed, and a caught signal has a handler.
THEOREM SessionTypeCorrect == SessionSpec => []SessionTypeOK
<1>1. SessionInv => SessionTypeOK
  BY DEF SessionInv
<1>2. QED
  BY <1>1, AlwaysSessionInv, PTL

\* main() returns only when tlm_session_dispose has waited for the user's
\* process and _clear_session has undone all that tlm_session_start did.
THEOREM ExitIsClean == SessionSpec => []CleanExit
<1>1. SessionInv => CleanExit
  BY DEF SessionInv, CleanExit, ChildIsUp, ExitedChildless, DisposedOnce,
         Released, FilesRecorded
<1>2. QED
  BY <1>1, AlwaysSessionInv, PTL

\* session-terminated is sent after the child was reaped, PAM closed, the
\* terminal reset and the runtime directory deleted.
THEOREM TerminatedLeavesNothing == SessionSpec => []TerminatedIsClean
<1>1. SessionInv => TerminatedIsClean
  BY DEF SessionInv, TerminatedIsClean, ChildIsUp, EndReported, Released,
         FilesRecorded
<1>2. QED
  BY <1>1, AlwaysSessionInv, PTL

\* The user's process never runs without its PAM session: _clear_session
\* comes after the child is gone or was sent SIGKILL.
THEOREM PamAlwaysCovers == SessionSpec => []PamCoversChild
<1>1. SessionInv => PamCoversChild
  BY DEF SessionInv, PamCoversChild, ChildIsUp
<1>2. QED
  BY <1>1, AlwaysSessionInv, PTL

\* What a step may not do to a successor's terminal and directory.
OthersKept ==
    /\ tty = "other" => tty' = "other"
    /\ rtdir = "other" => rtdir' = "other"

\* Whatever clears the session after its end was reported finds the strings
\* gone and touches neither.
LEMMA StepKeepsOthers == SessionInv /\ [SessionNext]_vars => OthersKept
<1> SUFFICES ASSUME SessionInv, [SessionNext]_vars, "other" \in {tty, rtdir}
             PROVE  OthersKept
  BY DEF OthersKept
<1>1. ~priv.tty_dev /\ ~priv.xdg_runtime_dir /\ priv.started
  BY DEF SessionInv, EndReported, Fresh
<1>2. ASSUME NEW p, ~p.tty_dev, ~p.xdg_runtime_dir, Undo(p)
      PROVE  OthersKept
  BY <1>2 DEF Undo, OthersKept
<1>3. ASSUME NEW p, ~p.tty_dev, ~p.xdg_runtime_dir, NEW m, NEW caught,
             Terminate(p, m, caught)
      PROVE  OthersKept
  BY <1>2, <1>3 DEF Terminate, ClearSession, OthersKept
<1>4. ASSUME NEW caught, Dispose(caught)
      PROVE  OthersKept
  BY <1>1, <1>3, <1>4 DEF Dispose, SessionInv, SessionTypeOK, PrivType
<1>5. CASE SessionTerminate
  BY <1>1, <1>3, <1>5 DEF SessionTerminate
<1>6. CASE ConnectionClosed
  BY <1>4, <1>6 DEF ConnectionClosed
<1>7. ASSUME NEW sig, QuitSignal(sig)
      PROVE  OthersKept
  BY <1>4, <1>7 DEF QuitSignal, OthersKept
<1>8. ASSUME NEW src, TerminateTimeout(src)
      PROVE  OthersKept
  <2>1. priv \in PrivType
    BY DEF SessionInv, SessionTypeOK
  <2>2. ~TimerGone(priv, src).tty_dev /\ ~TimerGone(priv, src).xdg_runtime_dir
    BY <1>1, <2>1 DEF TimerGone, PrivType
  <2>3. priv.last_sig \in {"SIGHUP", "SIGTERM", "SIGKILL"}
    BY <1>8, <2>1 DEF SessionInv, TimersEscalate, PrivType, TerminateTimeout
  <2>4. Undo(TimerGone(priv, src)) \/ UNCHANGED <<tty, rtdir>>
    BY <1>8, <2>3 DEF TerminateTimeout, ClearSession
  <2>5. QED
    BY <1>2, <2>2, <2>4 DEF OthersKept
<1>9. CASE ChildDown
  <2> DEFINE p == [priv EXCEPT !.is_child_up = FALSE]
  <2>1. ~p.tty_dev /\ ~p.xdg_runtime_dir
    BY <1>1 DEF SessionInv, SessionTypeOK, PrivType
  <2>2. Undo(p)
    BY <1>9 DEF ChildDown, ClearSession
  <2> HIDE DEF p
  <2>3. QED
    BY <1>2, <2>1, <2>2
<1>10. CASE SuccessorStarts
  BY <1>10 DEF SuccessorStarts, OthersKept
<1>11. CASE UNCHANGED <<tty, rtdir>>
  BY <1>11 DEF OthersKept
<1>12. QED
  BY <1>1, <1>5, <1>6, <1>7, <1>8, <1>9, <1>10, <1>11
  DEF SessionNext, vars, SessionCreate, DisposeReturns, Signal, ChildSetsid,
      ChildExits

\* A session that reported its end never again touches the terminal or the
\* runtime directory, however often _clear_session runs after that.
THEOREM SuccessorNeverTouched == SessionSpec => SuccessorUntouched
<1>1. SessionInv /\ [SessionNext]_vars => [OthersKept]_vars
  BY StepKeepsOthers
<1>2. QED
  BY <1>1, AlwaysSessionInv, PTL DEF SessionSpec, SuccessorUntouched, OthersKept
=============================================================================
