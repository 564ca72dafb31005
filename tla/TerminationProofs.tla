------------------------- MODULE TerminationProofs -------------------------
(***************************************************************************)
(* Proofs about the end of a session across the login daemon, sessiond and *)
(* the user's process, for any terminate timeout and any number of         *)
(* repeated logouts.  sessiond does what module Session says (InSession),  *)
(* so SessionInv holds here too, and with it what Session promises; the    *)
(* race of the two escalations is in Orderly, which is inductive relative  *)
(* to it for a normal logout.                                              *)
(***************************************************************************)
EXTENDS Termination, SessionProofs

-----------------------------------------------------------------------------
(* The handle.                                                             *)

\* The handle is there as long as the daemon counts on sessiond, and no timer
\* is armed before the first signal.  What the user's process obeys is fixed.
HandleInv ==
    /\ handle \in R!RemoteType
    /\ DOMAIN due = {"sessiond", "handle"}
    /\ R!InUse(handle) => handle.is_sessiond_up
    /\ handle.last_sig = "none" => due.handle = <<>>
    /\ obeys \subseteq {"SIGHUP", "SIGTERM"}

\* The signal of a timeout of the handle is the next one.
LEMMA TimeoutSignal ==
    ASSUME NEW p \in R!RemoteType, NEW src,
           p.last_sig \in {"SIGHUP", "SIGTERM"}
    PROVE  /\ R!TerminateTimeout(p, src) \in R!RemoteType
           /\ R!TerminateTimeout(p, src).last_sig =
                IF p.last_sig = "SIGHUP" THEN "SIGTERM" ELSE "SIGKILL"
           /\ R!TerminateTimeout(p, src).obj = p.obj
           /\ R!TerminateTimeout(p, src).is_sessiond_up = p.is_sessiond_up
BY DEF R!TerminateTimeout, R!Kill, R!RemoteType

\* tlm_session_remote_terminate with sessiond up sends SIGHUP.
LEMMA TerminateSignal ==
    ASSUME NEW p \in R!RemoteType, p.is_sessiond_up
    PROVE  /\ R!Terminate(p) \in R!RemoteType
           /\ R!Terminate(p).last_sig = "SIGHUP"
           /\ R!Terminate(p).obj = p.obj
           /\ R!Terminate(p).is_sessiond_up
<1> DEFINE n == IF p.timer_id THEN p.lost + 1 ELSE p.lost
<1>1. R!Kill(p.sd, "SIGHUP") = p.sd
  BY DEF R!Kill
<1>2. R!Terminate(p) = [p EXCEPT !.sd = p.sd, !.last_sig = "SIGHUP",
                                 !.timer_id = TRUE, !.lost = n]
  BY <1>1 DEF R!Terminate
<1>3. n \in Nat
  BY DEF R!RemoteType
<1>4. QED
  BY <1>2, <1>3 DEF R!RemoteType

\* So does its disposal.
LEMMA DisposeSignal ==
    ASSUME NEW p \in R!RemoteType, p.is_sessiond_up
    PROVE  /\ R!BeginDispose(p) \in R!RemoteType
           /\ R!BeginDispose(p).last_sig = "SIGHUP"
           /\ R!BeginDispose(p).obj = "disposing"
           /\ R!BeginDispose(p).is_sessiond_up
<1> DEFINE q == [p EXCEPT !.obj = "disposing", !.can_emit_signal = FALSE]
<1>1. /\ q \in R!RemoteType /\ q.is_sessiond_up
      /\ q.obj = "disposing"
  BY DEF R!RemoteType
<1>2. R!BeginDispose(p) = R!Terminate(q)
  BY DEF R!BeginDispose
<1>3. QED
  <2> HIDE DEF q
  <2>1. QED
    BY <1>1, <1>2, TerminateSignal

\* A handle whose sessiond is gone is freed.
LEMMA DisposeEnds ==
    ASSUME NEW p \in R!RemoteType
    PROVE  /\ R!EndDispose(R!ChildDown(p)) \in R!RemoteType
           /\ R!EndDispose(R!ChildDown(p)).obj = "finalized"
BY DEF R!EndDispose, R!ChildDown, R!RemoteType, R!Unborn

\* sessiond has just been created for the handle.
LEMMA InitHandle == TerminationInit => HandleInv
<1> SUFFICES ASSUME TerminationInit PROVE HandleInv
  OBVIOUS
<1> DEFINE s == R!NewRemote("user")
<1>1. s \in R!RemoteType /\ s.is_sessiond_up
  BY DEF R!NewRemote, R!Started, R!RemoteType
<1>2. handle = [s EXCEPT !.call = "pending"]
  BY DEF TerminationInit, R!CreateCall
<1>3. handle \in R!RemoteType /\ handle.is_sessiond_up
  <2> HIDE DEF s
  <2>1. QED
    BY <1>1, <1>2 DEF R!RemoteType
<1>4. QED
  BY <1>3 DEF TerminationInit, HandleInv

\* Every SIGHUP of the daemon leaves a handle with its timer.
LEMMA HangsHandle ==
    ASSUME HandleInv, NEW h \in R!RemoteType, Hangs(h),
           h.last_sig = "SIGHUP", h.is_sessiond_up
    PROVE  HandleInv'
BY DEF HandleInv, Hangs

\* Steps of sessiond and of the user's process leave the handle alone.
LEMMA TrackHandle == HandleInv /\ Track => HandleInv'
BY DEF HandleInv, Track

\* The daemon's timer fires only after a signal, and sends the next one.
LEMMA DaemonTimerSends ==
    ASSUME HandleInv, NEW i \in DOMAIN due.handle, DaemonTimer(i)
    PROVE  /\ handle.last_sig \in {"SIGHUP", "SIGTERM"}
           /\ handle' \in R!RemoteType
           /\ handle'.last_sig =
                IF handle.last_sig = "SIGHUP" THEN "SIGTERM" ELSE "SIGKILL"
           /\ handle'.obj = handle.obj
           /\ handle'.is_sessiond_up = handle.is_sessiond_up
           /\ Kill(handle'.last_sig)
<1>1. handle.last_sig # "none"
  BY DEF HandleInv
<1>2. handle.last_sig \in {"SIGHUP", "SIGTERM"}
  BY <1>1 DEF DaemonTimer, HandleInv, R!RemoteType
<1>3. PICK src : handle' = R!TerminateTimeout(handle, src)
  BY DEF DaemonTimer
<1>4. Kill(handle'.last_sig)
  BY DEF DaemonTimer
<1>5. QED
  BY <1>2, <1>3, <1>4, TimeoutSignal DEF HandleInv

\* Both escalations keep the handle consistent.
LEMMA NextHandle == HandleInv /\ [TerminationNext]_tvars => HandleInv'
<1> SUFFICES ASSUME HandleInv, [TerminationNext]_tvars
             PROVE  HandleInv'
  OBVIOUS
<1>1. CASE Track
  BY <1>1, TrackHandle
<1>2. CASE Logout
  <2>1. handle \in R!RemoteType /\ handle.is_sessiond_up
    BY <1>2 DEF Logout, HandleInv, R!InUse
  <2>2. QED
    BY <1>2, <2>1, TerminateSignal, HangsHandle DEF Logout
<1>3. CASE Dropped
  <2>1. handle \in R!RemoteType /\ handle.is_sessiond_up
    BY <1>3 DEF Dropped, HandleInv, R!InUse
  <2>2. QED
    BY <1>3, <2>1, DisposeSignal, HangsHandle DEF Dropped
<1>4. CASE \E i \in DOMAIN due.handle : DaemonTimer(i)
  <2>1. PICK i \in DOMAIN due.handle : DaemonTimer(i)
    BY <1>4
  <2>2. DOMAIN due' = DOMAIN due /\ UNCHANGED obeys
    BY <2>1 DEF DaemonTimer
  <2>3. QED
    BY <2>1, <2>2, DaemonTimerSends DEF HandleInv, R!InUse
<1>5. CASE SessiondDown
  BY <1>5, DisposeEnds DEF SessiondDown, HandleInv, R!InUse
<1>6. CASE DaemonDies
  BY <1>6 DEF DaemonDies, HandleInv
<1>7. CASE Tick
  <2>1. handle.last_sig = "none" => due'.handle = <<>>
    BY <1>7 DEF Tick, HandleInv
  <2>2. QED
    BY <1>7, <2>1 DEF Tick, HandleInv
<1>8. CASE UNCHANGED tvars
  BY <1>8 DEF tvars, links, HandleInv
<1>9. QED
  BY <1>1, <1>2, <1>3, <1>4, <1>5, <1>6, <1>7, <1>8
  DEF TerminationNext, Prompt, Create, UserLeaves, UserObeys, SessiondTimer,
      SessiondQuits, PipeClosed, SessiondGoesOn, ErrorArrives, EndArrives

-----------------------------------------------------------------------------
(* sessiond is the one of module Session.                                  *)

\* What the login daemon does is a signal to sessiond, or nothing to it.
LEMMA KillIsSignal ==
    ASSUME NEW sig \in {"SIGHUP", "SIGTERM", "SIGKILL"}, Kill(sig)
    PROVE  [SessionNext]_vars
BY DEF Kill, SessionNext

\* Every step of the three processes is one of sessiond's or leaves it alone.
LEMMA NextInSession ==
    HandleInv /\ [TerminationNext]_tvars => [SessionNext]_vars
<1> SUFFICES ASSUME HandleInv, [TerminationNext]_tvars
             PROVE  [SessionNext]_vars
  OBVIOUS
<1>1. CASE Create \/ UserLeaves \/ SessiondGoesOn \/ PipeClosed
  BY <1>1 DEF Create, UserLeaves, SessiondGoesOn, PipeClosed, SessionNext
<1>2. CASE SessiondTimer \/ SessiondQuits
  BY <1>2 DEF SessiondTimer, SessiondQuits, SessionNext
<1>3. CASE Logout \/ Dropped \/ DaemonDies
  BY <1>3, KillIsSignal DEF Logout, Dropped, DaemonDies, Hangs
<1>4. CASE \E i \in DOMAIN due.handle : DaemonTimer(i)
  BY <1>4, DaemonTimerSends, KillIsSignal
<1>5. CASE SessiondDown \/ Tick
  BY <1>5 DEF SessiondDown, Tick
<1>6. CASE UNCHANGED tvars
  BY <1>6 DEF tvars
<1>7. QED
  BY <1>1, <1>2, <1>3, <1>4, <1>5, <1>6
  DEF TerminationNext, Prompt, UserObeys, ErrorArrives, EndArrives

\* sessiond beside the login daemon and its clock is the process of module
\* Session: what was proved of that one under arbitrary signals holds here.
THEOREM InSession == TerminationSpec => SessionSpec
<1>1. TerminationInit => SessionInit /\ HandleInv
  BY InitHandle DEF TerminationInit
<1>2. QED
  BY <1>1, NextHandle, NextInSession, PTL DEF TerminationSpec, SessionSpec

\* SessionInv and the handle's invariant hold in every state.
LEMMA AlwaysBoth == TerminationSpec => [](SessionInv /\ HandleInv)
<1>1. TerminationInit => SessionInv /\ HandleInv
  BY InitHandle, InitInv DEF TerminationInit
<1>2. SessionInv /\ HandleInv /\ [TerminationNext]_tvars
        => (SessionInv /\ HandleInv)'
  BY NextHandle, NextInSession, StepInv
<1>3. QED
  BY <1>1, <1>2, PTL DEF TerminationSpec

-----------------------------------------------------------------------------
(* The race of the two escalations.                                        *)

\* One logout of a session that was up, of a user that obeys a signal, with
\* the login daemon there: what OrderlyLogout is about.
Normal == daemon /\ ~again /\ ~early /\ obeys # {}

\* sessiond's escalation has just sent SIGTERM.
JustTermed == priv.last_sig = "SIGTERM" /\ due.sessiond = Timeout

\* The seconds the handle's timer has left.
Left == due.handle[1]

\* Nothing was asked of sessiond yet.
PhaseNone ==
    /\ due.handle = <<>>
    /\ handlers = {"SIGHUP", "SIGTERM"}
    /\ pending = {}
    /\ main \in {"loop", "paused"}

\* SIGHUP was sent.  sessiond passes it on in the second it gets it, so its
\* timer runs with the handle's; at the end it may come first.
PhaseHup ==
    /\ due.handle \in [{1} -> 0..Timeout]
    /\ "SIGTERM" \in handlers
    /\ pending \subseteq {"SIGHUP"}
    /\ main = "loop" => Left = Timeout /\ pending = {"SIGHUP"}
    /\ main = "disposing" /\ priv.is_child_up =>
        /\ priv.timer_id
        /\ \/ priv.last_sig = "SIGHUP" /\ due.sessiond = Left
           \/ JustTermed /\ Left = 0

\* SIGTERM was sent.  sessiond's timer has fired or is due, and there is a
\* whole timeout left for the user's process to end and to be reaped.
PhaseTerm ==
    /\ due.handle \in [{1} -> 0..Timeout]
    /\ main \notin {"loop", "paused"}
    /\ main = "disposing" =>
        /\ Left = Timeout
        /\ priv.is_child_up =>
            /\ priv.timer_id
            /\ \/ priv.last_sig = "SIGHUP" /\ due.sessiond = 0
               \/ JustTermed

Phase == /\ handle.last_sig = "none" => PhaseNone
         /\ handle.last_sig = "SIGHUP" => PhaseHup
         /\ handle.last_sig = "SIGTERM" => PhaseTerm
         /\ handle.last_sig = "SIGKILL" =>
                /\ main \in {"exited", "left"}
                /\ due.handle \in [{1} -> 0..Timeout]

\* sessiond on its own: a child that is up is watched, and has been told of
\* what was sent.
ChildOrderly ==
    /\ main # "died"
    /\ priv.timer_id => priv.is_child_up
    /\ main \in {"loop", "paused"} =>
            priv.last_sig = "none" /\ ~priv.timer_id
    /\ priv.is_child_up =>
            priv.child_watch_id /\ child \notin {"none", "reaped"}
    /\ child = "forked" => priv.last_sig = "none"
    /\ child = "running" =>
        /\ priv.last_sig # "none" => "SIGHUP" \in told
        /\ priv.last_sig \in {"SIGTERM", "SIGKILL"} => "SIGTERM" \in told

\* The handle is there as long as sessiond may be, and in its phase.
Orderly == /\ ChildOrderly
           /\ due.sessiond \in 0..Timeout
           /\ IF R!InUse(handle) THEN Phase ELSE main \in {"exited", "left"}

\* A normal logout is orderly in every state.
OrderlyInv == SessionInv /\ HandleInv /\ (Normal => Orderly)

\* A state of a normal logout.
OrderlyState == SessionInv /\ HandleInv /\ Normal /\ Orderly

\* The history only grows, and what the user's process obeys is fixed.
LEMMA NormalBefore == [TerminationNext]_tvars /\ Normal' => Normal
<1> SUFFICES ASSUME [TerminationNext]_tvars, Normal' PROVE Normal
  OBVIOUS
<1>1. CASE Track
  BY <1>1 DEF Track, Normal
<1>2. CASE Logout \/ Dropped
  <2>1. /\ again' = (again \/ handle.last_sig # "none")
        /\ UNCHANGED <<daemon, obeys, early>>
    BY <1>2 DEF Logout, Dropped, Hangs
  <2>2. QED
    BY <2>1, Zenon DEF Normal
<1>3. CASE \E i \in DOMAIN due.handle : DaemonTimer(i)
  BY <1>3 DEF DaemonTimer, Normal
<1>4. CASE SessiondDown \/ Tick
  <2>1. UNCHANGED <<daemon, obeys, again, early>>
    BY <1>4 DEF SessiondDown, Tick
  <2>2. QED
    BY <2>1 DEF Normal
<1>5. CASE DaemonDies
  BY <1>5 DEF DaemonDies, Normal
<1>6. CASE UNCHANGED tvars
  BY <1>6 DEF tvars, links, Normal
<1>7. QED
  BY <1>1, <1>2, <1>3, <1>4, <1>5, <1>6
  DEF TerminationNext, Prompt, Create, UserLeaves, UserObeys, SessiondTimer,
      SessiondQuits, PipeClosed, SessiondGoesOn, ErrorArrives, EndArrives

\* sessiond has just been started.
LEMMA InitOrderly == TerminationInit => Orderly
<1> SUFFICES ASSUME TerminationInit PROVE Orderly
  OBVIOUS
<1>1. ChildOrderly
  BY DEF TerminationInit, SessionInit, NewPriv, ChildOrderly
<1>2. due.sessiond \in 0..Timeout /\ due.handle = <<>>
  BY TerminationAssumption DEF TerminationInit
<1>3. handle.last_sig = "none" /\ R!InUse(handle)
  BY DEF TerminationInit, R!CreateCall, R!NewRemote, R!Started, R!InUse
<1>4. Phase
  BY <1>2, <1>3 DEF Phase, PhaseNone, TerminationInit, SessionInit
<1>5. QED
  BY <1>1, <1>2, <1>3, <1>4 DEF Orderly

\* A step of sessiond that sends nothing leaves clock and handle alone.
LEMMA TrackQuiet ==
    ASSUME Track, priv'.last_sig = priv.last_sig
    PROVE  UNCHANGED <<due, handle, told>>
BY DEF Track, Escalated

\* Where main() is tells the phase.
LEMMA Disposing ==
    ASSUME OrderlyState, main = "disposing"
    PROVE  R!InUse(handle) /\ handle.last_sig \in {"SIGHUP", "SIGTERM"}
BY DEF OrderlyState, Orderly, HandleInv, R!RemoteType, Phase, PhaseNone

LEMMA Looping ==
    ASSUME OrderlyState, main = "loop"
    PROVE  R!InUse(handle) /\ handle.last_sig \in {"none", "SIGHUP"}
BY DEF OrderlyState, Orderly, HandleInv, R!RemoteType, Phase, PhaseTerm

-----------------------------------------------------------------------------
(* sessiond and the user's process.                                        *)

\* sessionCreate arms nothing, and a child that is up has been forked.
LEMMA CreateFields ==
    ASSUME SessionInv, SessionCreate, ForkFails = FALSE
    PROVE  /\ priv'.last_sig = "none" /\ ~priv'.timer_id
           /\ priv'.is_child_up => priv'.child_watch_id /\ child' = "forked"
           /\ child' \in {"none", "forked"}
           /\ main' \in {"loop", "paused"}
           /\ UNCHANGED <<handlers, pending>>
<1>1. /\ priv \in PrivType
      /\ priv.last_sig = "none" /\ ~priv.timer_id /\ ~priv.is_child_up
      /\ child = "none" /\ main = "loop"
  BY DEF SessionInv, SessionTypeOK, Fresh, SessionCreate
<1>2. UNCHANGED <<handlers, pending>>
  BY DEF SessionCreate
<1>3. CASE StartFails
  BY <1>1, <1>2, <1>3 DEF StartFails, PrivType
<1>4. ASSUME NEW how, NEW a, AuthFails(how, a)
      PROVE  /\ priv'.last_sig = "none" /\ ~priv'.timer_id
             /\ ~priv'.is_child_up
             /\ UNCHANGED <<main, child>>
  BY <1>1, <1>4 DEF AuthFails, PrivType
<1>5. CASE PauseSession
  BY <1>1, <1>2, <1>5 DEF PauseSession, Opened, PrivType
<1>6. ASSUME NEW dir \in BOOLEAN, NEW term,
             ExecUserSession(dir, term, TRUE)
      PROVE  /\ priv'.last_sig = "none" /\ ~priv'.timer_id
             /\ priv'.is_child_up =>
                    priv'.child_watch_id /\ child' = "forked"
             /\ child' \in {"none", "forked"}
             /\ UNCHANGED main
  BY <1>1, <1>6 DEF ExecUserSession, PrepareTerminal, Opened, PrivType
<1>7. QED
  BY <1>1, <1>2, <1>3, <1>4, <1>5, <1>6
  DEF SessionCreate, AuthenticateFails

\* sessionCreate may still come when SIGHUP is waiting to be dispatched.
LEMMA CreateOrderly ==
    ASSUME OrderlyState, Create, ForkFails = FALSE
    PROVE  Orderly'
<1>1. /\ priv'.last_sig = "none" /\ ~priv'.timer_id
      /\ priv'.is_child_up => priv'.child_watch_id /\ child' = "forked"
      /\ child' \in {"none", "forked"}
      /\ main' \in {"loop", "paused"}
      /\ UNCHANGED <<handlers, pending>>
  BY CreateFields DEF OrderlyState, Create
<1>2. main = "loop" /\ priv.last_sig = "none"
  BY DEF OrderlyState, Orderly, ChildOrderly, Create, SessionCreate
<1>3. UNCHANGED <<due, handle, told>>
  BY <1>1, <1>2, TrackQuiet DEF Create
<1>4. ChildOrderly'
  BY <1>1 DEF ChildOrderly
<1>5. Phase /\ R!InUse(handle)
  BY <1>2, Looping DEF OrderlyState, Orderly
<1>6. Phase'
  BY <1>1, <1>2, <1>3, <1>5, Looping
  DEF Phase, PhaseNone, PhaseHup, PhaseTerm, Left
<1>7. QED
  BY <1>3, <1>4, <1>5, <1>6 DEF Orderly, OrderlyState, R!InUse

\* setsid, the end of the user's process and its reaping.
LEMMA ChildStepOrderly ==
    ASSUME OrderlyState, ChildSetsid \/ ChildExits \/ ChildDown, Track
    PROVE  Orderly'
<1>1. priv \in PrivType /\ PamNeedsHandle
  BY DEF OrderlyState, SessionInv, SessionTypeOK
<1>2. CASE ChildSetsid \/ ChildExits
  <2>1. UNCHANGED <<priv, main, handlers, pending>>
    BY <1>2 DEF ChildSetsid, ChildExits
  <2>2. UNCHANGED <<due, handle, told>>
    BY <2>1, TrackQuiet
  <2>3. ChildOrderly'
    BY <1>2, <2>1, <2>2
    DEF ChildSetsid, ChildExits, ChildOrderly, OrderlyState, Orderly
  <2>4. QED
    BY <2>1, <2>2, <2>3
    DEF Orderly, OrderlyState, R!InUse, Phase, PhaseNone, PhaseHup,
        PhaseTerm, Left, JustTermed
<1>3. CASE ChildDown
  <2> DEFINE p == [priv EXCEPT !.is_child_up = FALSE]
  <2>1. /\ p \in PrivType /\ ~p.is_child_up
        /\ p.last_sig = priv.last_sig
        /\ p.auth_session = priv.auth_session
    BY <1>1 DEF PrivType
  <2>2. priv' = Cleared(p)
    BY <1>3 DEF ChildDown, ClearSession
  <2>3. /\ ~priv'.timer_id
        /\ priv'.last_sig = priv.last_sig
        /\ ~priv'.is_child_up
    <3> HIDE DEF p
    <3>1. QED
      BY <1>1, <2>1, <2>2, ClearedFields DEF PamNeedsHandle
  <2>4. child' = "reaped" /\ UNCHANGED <<main, handlers, pending>>
    BY <1>3 DEF ChildDown
  <2>5. UNCHANGED <<due, handle, told>>
    BY <2>3, TrackQuiet
  <2>6. ChildOrderly'
    BY <2>3, <2>4 DEF ChildOrderly, OrderlyState, Orderly
  <2>7. QED
    BY <2>3, <2>4, <2>5, <2>6
    DEF Orderly, OrderlyState, R!InUse, Phase, PhaseNone, PhaseHup,
        PhaseTerm, Left, JustTermed
<1>4. QED
  BY <1>2, <1>3

\* main() returns.
LEMMA DisposeReturnsOrderly ==
    ASSUME OrderlyState, DisposeReturns, Track
    PROVE  Orderly'
<1>1. main = "disposing" /\ main' = "exited"
  BY DEF DisposeReturns
<1>2. UNCHANGED <<priv, child, handlers, pending>>
  BY DEF DisposeReturns
<1>3. UNCHANGED <<due, handle, told>>
  BY <1>2, TrackQuiet
<1>4. ChildOrderly'
  BY <1>1, <1>2, <1>3 DEF ChildOrderly, OrderlyState, Orderly
<1>5. QED
  BY <1>1, <1>2, <1>3, <1>4, Disposing
  DEF Orderly, OrderlyState, R!InUse, Phase, PhaseHup, PhaseTerm, Left

\* sessiond's timer: SIGTERM goes out, at the latest when the handle's timer
\* has just fired too, and never SIGKILL.
LEMMA SessiondTimerOrderly ==
    ASSUME OrderlyState, SessiondTimer
    PROVE  Orderly'
<1>1. /\ due.sessiond = 0 /\ priv.timer_id /\ Running /\ child # "forked"
  BY DEF SessiondTimer, TerminateTimeout
<1>2. /\ main = "disposing" /\ priv.is_child_up
      /\ child \notin {"none", "reaped", "forked"}
  BY <1>1 DEF OrderlyState, Orderly, ChildOrderly, Running
<1>3. R!InUse(handle) /\ Phase
  BY <1>2, Disposing DEF OrderlyState, Orderly
<1>4. due.sessiond # Timeout
  BY <1>1, TerminationAssumption
<1>5. priv.last_sig = "SIGHUP"
  BY <1>1, <1>2, <1>3, <1>4, Disposing
  DEF Phase, PhaseHup, PhaseTerm, JustTermed
<1>6. /\ priv' = [priv EXCEPT !.last_sig = "SIGTERM"]
      /\ KillPg("SIGTERM", main, pending)
      /\ UNCHANGED handlers
  BY <1>5 DEF SessiondTimer, TerminateTimeout
<1>7. UNCHANGED <<main, pending, child>>
  BY <1>2, <1>6 DEF KillPg, Hit
<1>8. /\ priv'.last_sig = "SIGTERM"
      /\ \A f \in {"timer_id", "is_child_up", "child_watch_id"} :
            priv'[f] = priv[f]
  BY <1>6 DEF OrderlyState, SessionInv, SessionTypeOK, PrivType
<1>9. /\ due' = [due EXCEPT !.sessiond = Timeout]
      /\ told' = IF child = "running" THEN told \cup {"SIGTERM"} ELSE told
      /\ UNCHANGED handle
  BY <1>5, <1>8 DEF SessiondTimer, Track, Escalated
<1>10. due'.sessiond = Timeout /\ due'.handle = due.handle
  BY <1>9 DEF OrderlyState, HandleInv
<1>11. ChildOrderly'
  BY <1>2, <1>5, <1>7, <1>8, <1>9 DEF OrderlyState, Orderly, ChildOrderly
<1>12. handle.last_sig = "SIGHUP" => PhaseHup'
  BY <1>1, <1>2, <1>3, <1>5, <1>6, <1>7, <1>8, <1>10
  DEF Phase, PhaseHup, JustTermed, Left
<1>13. handle.last_sig = "SIGTERM" => PhaseTerm'
  BY <1>1, <1>2, <1>3, <1>5, <1>6, <1>7, <1>8, <1>10
  DEF Phase, PhaseTerm, JustTermed, Left
<1>14. Phase'
  BY <1>2, <1>9, <1>12, <1>13, Disposing DEF Phase
<1>15. due'.sessiond \in 0..Timeout
  BY <1>10, TerminationAssumption
<1>16. QED
  BY <1>3, <1>9, <1>11, <1>14, <1>15 DEF Orderly, R!InUse

\* What dispose does to a child that is up, setsid done: SIGHUP and a timer.
LEMMA DisposeHangs ==
    ASSUME OrderlyState, NEW caught, Dispose(caught), Track, main = "loop",
           priv.is_child_up, ~early'
    PROVE  /\ priv'.last_sig = "SIGHUP" /\ priv'.timer_id
           /\ priv'.is_child_up /\ priv'.child_watch_id
           /\ main' = "disposing" /\ pending' = caught
           /\ child \notin {"none", "reaped", "forked"}
           /\ UNCHANGED <<child, handle>>
           /\ due'.sessiond = Timeout /\ due'.handle = due.handle
           /\ child = "running" => "SIGHUP" \in told'
<1> DEFINE p == [priv EXCEPT !.can_emit_signal = FALSE]
<1>1. /\ priv.last_sig = "none" /\ priv.child_watch_id
      /\ child \notin {"none", "reaped"}
      /\ priv \in PrivType
  BY DEF OrderlyState, Orderly, ChildOrderly, SessionInv, SessionTypeOK
<1>2. p \in PrivType /\ p.is_child_up /\ p.child_watch_id
  BY <1>1 DEF PrivType
<1>3. priv' = Hangup(p) /\ KillPg("SIGHUP", "disposing", caught)
  BY <1>2 DEF Dispose, Terminate
<1>4. /\ priv'.last_sig = "SIGHUP" /\ priv'.timer_id
      /\ priv'.is_child_up /\ priv'.child_watch_id
  <2> HIDE DEF p
  <2>1. QED
    BY <1>2, <1>3 DEF Hangup, PrivType
<1>5. Escalated
  BY <1>1, <1>4 DEF Escalated
<1>6. child # "forked"
  BY <1>5 DEF Track
<1>7. main' = "disposing" /\ pending' = caught /\ UNCHANGED child
  BY <1>1, <1>3, <1>6 DEF KillPg, Hit
<1>8. /\ due' = [due EXCEPT !.sessiond = Timeout]
      /\ UNCHANGED handle
      /\ child = "running" => "SIGHUP" \in told'
  BY <1>4, <1>5 DEF Track
<1>9. QED
  BY <1>1, <1>4, <1>6, <1>7, <1>8 DEF OrderlyState, HandleInv

\* Without a child dispose clears the session.
LEMMA DisposeClears ==
    ASSUME OrderlyState, NEW caught, Dispose(caught), Track, main = "loop",
           ~priv.is_child_up
    PROVE  /\ priv'.last_sig = "none"
           /\ ~priv'.timer_id /\ ~priv'.is_child_up
           /\ main' = "disposing" /\ pending' = caught
           /\ UNCHANGED <<child, handle, due, told>>
<1> DEFINE p == [priv EXCEPT !.can_emit_signal = FALSE]
<1>1. /\ priv.last_sig = "none" /\ priv \in PrivType /\ PamNeedsHandle
  BY DEF OrderlyState, Orderly, ChildOrderly, SessionInv, SessionTypeOK
<1>2. /\ p \in PrivType /\ ~p.is_child_up
      /\ p.last_sig = "none" /\ p.auth_session = priv.auth_session
  BY <1>1 DEF PrivType
<1>3. /\ priv' = Cleared(p)
      /\ main' = "disposing" /\ pending' = caught /\ UNCHANGED child
  BY <1>2 DEF Dispose, Terminate, ClearSession
<1>4. priv'.last_sig = "none" /\ ~priv'.timer_id /\ ~priv'.is_child_up
  <2> HIDE DEF p
  <2>1. QED
    BY <1>1, <1>2, <1>3, ClearedFields DEF PamNeedsHandle
<1>5. QED
  BY <1>1, <1>3, <1>4, TrackQuiet

\* The SIGHUP is dispatched in the second it came, and passed on.
LEMMA SessiondQuitsOrderly ==
    ASSUME OrderlyState, SessiondQuits, ~early'
    PROVE  Orderly'
<1>1. PICK sig \in {"SIGHUP", "SIGTERM"} : QuitSignal(sig)
  BY DEF SessiondQuits
<1>2. /\ sig \in pending /\ main \in {"loop", "disposing"}
      /\ handlers' = handlers \ {sig} /\ Track
  BY <1>1 DEF QuitSignal, SessiondQuits
<1>3. CASE main = "loop"
  <2>1. R!InUse(handle) /\ PhaseHup /\ handle.last_sig = "SIGHUP"
    BY <1>2, <1>3, Looping DEF OrderlyState, Orderly, Phase, PhaseNone
  <2>2. sig = "SIGHUP" /\ Left = Timeout
    BY <1>2, <1>3, <2>1 DEF PhaseHup
  <2>3. Dispose(pending \ {sig})
    BY <1>1, <1>3 DEF QuitSignal
  <2>4. CASE priv.is_child_up
    <3>1. /\ priv'.last_sig = "SIGHUP" /\ priv'.timer_id
          /\ priv'.is_child_up /\ priv'.child_watch_id
          /\ main' = "disposing" /\ pending' = pending \ {sig}
          /\ child \notin {"none", "reaped", "forked"}
          /\ UNCHANGED <<child, handle>>
          /\ due'.sessiond = Timeout /\ due'.handle = due.handle
          /\ child = "running" => "SIGHUP" \in told'
      BY <1>2, <1>3, <2>3, <2>4, DisposeHangs
    <3>2. ChildOrderly'
      BY <3>1 DEF ChildOrderly
    <3>3. PhaseHup'
      BY <1>2, <2>1, <2>2, <3>1 DEF PhaseHup, Left
    <3>4. QED
      BY <2>1, <3>1, <3>2, <3>3, TerminationAssumption
      DEF Orderly, Phase, R!InUse
  <2>5. CASE ~priv.is_child_up
    <3>1. /\ priv'.last_sig = "none"
          /\ ~priv'.timer_id /\ ~priv'.is_child_up
          /\ main' = "disposing" /\ pending' = pending \ {sig}
          /\ UNCHANGED <<child, handle, due, told>>
      BY <1>2, <1>3, <2>3, <2>5, DisposeClears
    <3>2. ChildOrderly'
      BY <3>1 DEF ChildOrderly
    <3>3. PhaseHup'
      BY <1>2, <2>1, <2>2, <3>1 DEF PhaseHup, Left
    <3>4. QED
      BY <2>1, <3>1, <3>2, <3>3
      DEF Orderly, OrderlyState, Phase, R!InUse
  <2>6. QED
    BY <2>4, <2>5
<1>4. CASE main = "disposing"
  <2>1. /\ pending' = pending \ {sig}
        /\ UNCHANGED <<main, priv, child>>
    BY <1>1, <1>4 DEF QuitSignal
  <2>2. UNCHANGED <<due, handle, told>>
    BY <1>2, <2>1, TrackQuiet
  <2>3. ChildOrderly'
    BY <2>1, <2>2 DEF OrderlyState, Orderly, ChildOrderly
  <2>4. R!InUse(handle) /\ Phase /\ handle.last_sig \in {"SIGHUP", "SIGTERM"}
    BY <1>4, Disposing DEF OrderlyState, Orderly
  <2>5. handle.last_sig = "SIGHUP" => PhaseHup'
    BY <1>2, <1>4, <2>1, <2>2, <2>4
    DEF Phase, PhaseHup, Left, JustTermed
  <2>6. handle.last_sig = "SIGTERM" => PhaseTerm'
    BY <1>4, <2>1, <2>2, <2>4 DEF Phase, PhaseTerm, Left, JustTermed
  <2>7. QED
    BY <2>2, <2>3, <2>4, <2>5, <2>6
    DEF Orderly, OrderlyState, Phase, R!InUse
<1>5. QED
  BY <1>2, <1>3, <1>4

-----------------------------------------------------------------------------
(* The login daemon and the clock.                                         *)

\* The first SIGHUP, of a logout or of the handle's disposal.
LEMMA HangsOrderly ==
    ASSUME OrderlyState, NEW h, Hangs(h), ~again',
           h.last_sig = "SIGHUP", R!InUse(h), R!InUse(handle)
    PROVE  Orderly'
<1>1. handle.last_sig = "none"
  <2>1. again' = (again \/ handle.last_sig # "none")
    BY DEF Hangs
  <2>2. QED
    BY <2>1, Zenon
<1>2. /\ due.handle = <<>> /\ handlers = {"SIGHUP", "SIGTERM"}
      /\ pending = {} /\ main \in {"loop", "paused"}
  BY <1>1 DEF OrderlyState, Orderly, Phase, PhaseNone
<1>3. /\ handle' = h /\ UNCHANGED <<told, priv, child, handlers>>
      /\ due' = [due EXCEPT !.handle = Append(due.handle, Timeout)]
      /\ \/ main = "loop" /\ main' = "loop" /\ pending' = {"SIGHUP"}
         \/ main = "paused" /\ main' = "left" /\ pending' = {}
  BY <1>2 DEF Hangs, Kill, Signal, SignalSelf
<1>4. due'.sessiond = due.sessiond /\ due'.handle = <<Timeout>>
  BY <1>2, <1>3 DEF OrderlyState, HandleInv
<1>5. due'.handle \in [{1} -> 0..Timeout] /\ due'.handle[1] = Timeout
  BY <1>4, TerminationAssumption
<1>6. ChildOrderly'
  BY <1>3 DEF OrderlyState, Orderly, ChildOrderly
<1>7. PhaseHup'
  BY <1>2, <1>3, <1>5 DEF PhaseHup, Left
<1>8. QED
  BY <1>3, <1>4, <1>6, <1>7 DEF OrderlyState, Orderly, Phase, R!InUse

\* Logout, and the handle dropped by the seat.
LEMMA LogoutOrderly ==
    ASSUME OrderlyState, Logout \/ Dropped, ~again'
    PROVE  Orderly'
<1>1. handle.obj = "live" /\ R!InUse(handle)
  BY DEF Logout, Dropped, R!InUse
<1>2. handle \in R!RemoteType /\ handle.is_sessiond_up
  BY <1>1 DEF OrderlyState, HandleInv
<1>3. PICK h : Hangs(h) /\ h \in {R!Terminate(handle), R!BeginDispose(handle)}
  BY DEF Logout, Dropped
<1>4. h.last_sig = "SIGHUP" /\ R!InUse(h)
  BY <1>1, <1>2, <1>3, TerminateSignal, DisposeSignal DEF R!InUse
<1>5. QED
  BY <1>1, <1>3, <1>4, HangsOrderly

\* The handle's timer: SIGTERM finds sessiond with its own timer due or past,
\* and SIGKILL finds it gone.
LEMMA DaemonTimerOrderly ==
    ASSUME OrderlyState, NEW i \in DOMAIN due.handle, DaemonTimer(i)
    PROVE  Orderly'
<1>1. /\ handle.last_sig \in {"SIGHUP", "SIGTERM"}
      /\ handle'.last_sig =
            IF handle.last_sig = "SIGHUP" THEN "SIGTERM" ELSE "SIGKILL"
      /\ handle'.obj = handle.obj
      /\ Kill(handle'.last_sig)
  BY DaemonTimerSends DEF OrderlyState
<1>2. /\ R!InUse(handle) /\ due.handle[i] = 0 /\ UNCHANGED told
      /\ due' = [due EXCEPT !.handle = [due.handle EXCEPT ![i] = Timeout]]
  BY DEF DaemonTimer
<1>3. R!InUse(handle') /\ Phase
  BY <1>1, <1>2 DEF OrderlyState, Orderly, R!InUse
<1>4. due.handle \in [{1} -> 0..Timeout]
  BY <1>1, <1>3 DEF Phase, PhaseHup, PhaseTerm
<1>5. i = 1 /\ Left = 0 /\ Left # Timeout
  BY <1>2, <1>4, TerminationAssumption DEF Left
<1>6. /\ due'.sessiond = due.sessiond
      /\ due'.handle = [due.handle EXCEPT ![1] = Timeout]
  BY <1>2, <1>5 DEF OrderlyState, HandleInv
<1>7. due'.handle \in [{1} -> 0..Timeout] /\ Left' = Timeout
  BY <1>4, <1>6, TerminationAssumption DEF Left
<1>8. ChildOrderly /\ due'.sessiond \in 0..Timeout
      /\ main \in {"loop", "disposing", "paused", "exited", "left"}
  BY <1>6 DEF OrderlyState, Orderly, ChildOrderly, SessionInv, SessionTypeOK
<1>9. CASE handle.last_sig = "SIGHUP"
  <2>1. PhaseHup /\ handle'.last_sig = "SIGTERM"
    BY <1>1, <1>3, <1>9 DEF Phase
  <2>2. main # "loop" /\ "SIGTERM" \in handlers
    BY <1>5, <2>1 DEF PhaseHup
  <2>3. /\ UNCHANGED <<priv, child>>
        /\ \/ main = "paused" /\ main' = "left"
           \/ main \in {"disposing", "exited", "left"} /\ UNCHANGED main
    BY <1>1, <1>8, <2>1, <2>2 DEF Kill, Signal, SignalSelf, vars
  <2>4. ChildOrderly'
    BY <1>2, <1>8, <2>3 DEF ChildOrderly
  <2>5. main' = "disposing" /\ priv'.is_child_up =>
            /\ priv'.timer_id
            /\ \/ priv'.last_sig = "SIGHUP" /\ due'.sessiond = 0
               \/ JustTermed'
    BY <1>5, <1>6, <2>1, <2>3 DEF PhaseHup, JustTermed
  <2>6. PhaseTerm'
    BY <1>7, <2>3, <2>5 DEF PhaseTerm
  <2>7. QED
    BY <1>3, <1>8, <2>1, <2>4, <2>6 DEF Orderly, Phase
<1>10. CASE handle.last_sig = "SIGTERM"
  <2>1. main \in {"exited", "left"} /\ handle'.last_sig = "SIGKILL"
    BY <1>1, <1>3, <1>5, <1>8, <1>10 DEF Phase, PhaseTerm
  <2>2. UNCHANGED <<main, priv, child>>
    BY <1>1, <2>1 DEF Kill, vars
  <2>3. ChildOrderly'
    BY <1>2, <1>8, <2>2 DEF ChildOrderly
  <2>4. QED
    BY <1>3, <1>7, <1>8, <2>1, <2>2, <2>3 DEF Orderly, Phase
<1>11. QED
  BY <1>1, <1>9, <1>10

\* The handle's child watch.
LEMMA SessiondDownOrderly ==
    ASSUME OrderlyState, SessiondDown
    PROVE  Orderly'
<1>1. main \in {"exited", "left"}
  BY DEF SessiondDown, OrderlyState, Orderly, ChildOrderly
<1>2. /\ handle' = R!EndDispose(R!ChildDown(handle))
      /\ due' = [due EXCEPT !.handle = <<>>]
      /\ UNCHANGED <<main, priv, child, told>>
  BY DEF SessiondDown, vars
<1>3. due'.sessiond = due.sessiond
  BY <1>2 DEF OrderlyState, HandleInv
<1>4. ~R!InUse(handle')
  BY <1>2, DisposeEnds DEF OrderlyState, HandleInv, R!InUse
<1>5. ChildOrderly'
  BY <1>2 DEF OrderlyState, Orderly, ChildOrderly
<1>6. QED
  BY <1>1, <1>2, <1>3, <1>4, <1>5 DEF OrderlyState, Orderly

\* No second passes while sessiond has SIGTERM to handle: its child, which
\* was told what it obeys, ends first and is reaped.
LEMMA TermTakesNoTime ==
    ASSUME OrderlyState, handle.last_sig = "SIGTERM", main = "disposing"
    PROVE  Ready
<1>1. R!InUse(handle) /\ PhaseTerm /\ ChildOrderly /\ obeys # {}
  BY Disposing DEF OrderlyState, Orderly, Phase, Normal
<1>2. CASE ~priv.is_child_up
  BY <1>2 DEF Ready, SessiondReady
<1>3. CASE priv.is_child_up
  <2>1. /\ priv.timer_id /\ priv.child_watch_id
        /\ child \in {"forked", "running", "killed", "exited"}
    BY <1>1, <1>3
    DEF PhaseTerm, ChildOrderly, OrderlyState, SessionInv, SessionTypeOK
  <2>2. CASE child \in {"forked", "killed"}
    BY <2>2 DEF Ready, UserReady
  <2>3. CASE child = "exited"
    BY <2>1, <2>3 DEF Ready, SessiondReady, Running
  <2>4. CASE child = "running" /\ priv.last_sig = "SIGHUP"
    <3>1. due.sessiond = 0
      BY <1>1, <1>3, <2>4 DEF PhaseTerm, JustTermed
    <3>2. QED
      BY <2>1, <2>4, <3>1 DEF Ready, SessiondReady, Running
  <2>5. CASE child = "running" /\ priv.last_sig # "SIGHUP"
    <3>1. priv.last_sig = "SIGTERM"
      BY <1>1, <1>3, <2>5 DEF PhaseTerm, JustTermed
    <3>2. {"SIGHUP", "SIGTERM"} \subseteq told
      BY <1>1, <2>5, <3>1 DEF ChildOrderly
    <3>3. obeys \subseteq {"SIGHUP", "SIGTERM"}
      BY DEF OrderlyState, HandleInv
    <3>4. QED
      BY <1>1, <2>5, <3>2, <3>3 DEF Ready, UserReady
  <2>6. QED
    BY <2>1, <2>2, <2>3, <2>4, <2>5
<1>4. QED
  BY <1>2, <1>3

\* A second passes: both timers run down together.
LEMMA TickOrderly ==
    ASSUME OrderlyState, Tick
    PROVE  Orderly'
<1>1. /\ ~Ready
      /\ due' = [sessiond |-> Less(due.sessiond),
                 handle |-> [i \in DOMAIN due.handle |->
                                Less(due.handle[i])]]
      /\ UNCHANGED <<main, handlers, pending, priv, child, handle, told>>
  BY DEF Tick, vars
<1>2. /\ due'.sessiond = Less(due.sessiond)
      /\ due'.handle = [i \in DOMAIN due.handle |-> Less(due.handle[i])]
  BY <1>1
<1>3. due.sessiond \in 0..Timeout /\ due'.sessiond \in 0..Timeout
  BY <1>2, TerminationAssumption DEF OrderlyState, Orderly, Less
<1>4. ChildOrderly'
  BY <1>1 DEF OrderlyState, Orderly, ChildOrderly
<1>5. CASE ~R!InUse(handle)
  BY <1>1, <1>3, <1>4, <1>5 DEF OrderlyState, Orderly, R!InUse
<1>6. CASE R!InUse(handle)
  <2>1. Phase /\ daemon /\ handle.last_sig \in
            {"none", "SIGHUP", "SIGTERM", "SIGKILL"}
    BY <1>6 DEF OrderlyState, Orderly, HandleInv, R!RemoteType, Normal
  <2>2. handle.last_sig # "none"
    BY <2>1
    DEF Tick, Phase, PhaseNone, OrderlyState, Orderly, ChildOrderly
  <2>3. due.handle \in [{1} -> 0..Timeout]
    BY <2>1, <2>2 DEF Phase, PhaseHup, PhaseTerm
  <2>4. /\ due'.handle \in [{1} -> 0..Timeout]
        /\ Left' = Less(Left) /\ Left \in 0..Timeout
    BY <1>2, <2>3, TerminationAssumption DEF Left, Less
  <2>5. CASE handle.last_sig = "SIGHUP"
    <3>1. PhaseHup
      BY <2>1, <2>5 DEF Phase
    <3>2. Left # 0
      BY <1>1, <1>6, <2>1, <2>3, <2>5 DEF Ready, DaemonReady, Left
    <3>3. main # "loop"
      BY <1>1, <3>1 DEF Ready, SessiondReady, Running, PhaseHup
    <3>4. main = "disposing" /\ priv.is_child_up =>
            priv.timer_id /\ priv.last_sig = "SIGHUP" /\ due.sessiond = Left
      BY <3>1, <3>2 DEF PhaseHup
    <3>5. main' = "disposing" /\ priv'.is_child_up =>
            /\ priv'.timer_id /\ priv'.last_sig = "SIGHUP"
            /\ due'.sessiond = Left'
      BY <1>1, <1>2, <2>4, <3>4
    <3>6. PhaseHup'
      BY <1>1, <2>4, <3>1, <3>3, <3>5 DEF PhaseHup
    <3>7. QED
      BY <1>1, <1>3, <1>4, <1>6, <2>5, <3>6 DEF Orderly, Phase, R!InUse
  <2>6. CASE handle.last_sig = "SIGTERM"
    <3>1. main # "disposing"
      BY <1>1, <2>6, TermTakesNoTime
    <3>2. PhaseTerm'
      BY <1>1, <2>1, <2>4, <2>6, <3>1 DEF Phase, PhaseTerm
    <3>3. QED
      BY <1>1, <1>3, <1>4, <1>6, <2>6, <3>2 DEF Orderly, Phase, R!InUse
  <2>7. CASE handle.last_sig = "SIGKILL"
    BY <1>1, <1>3, <1>4, <1>6, <2>1, <2>4, <2>7 DEF Orderly, Phase, R!InUse
  <2>8. QED
    BY <2>1, <2>2, <2>5, <2>6, <2>7
<1>7. QED
  BY <1>5, <1>6

-----------------------------------------------------------------------------

\* Every step of a normal logout is orderly.
LEMMA NextOrderly ==
    ASSUME ForkFails = FALSE, OrderlyInv, [TerminationNext]_tvars
    PROVE  OrderlyInv'
<1>1. (SessionInv /\ HandleInv)'
  BY NextHandle, NextInSession, StepInv DEF OrderlyInv
<1>2. SUFFICES ASSUME Normal' PROVE Orderly'
  BY <1>1 DEF OrderlyInv
<1>3. OrderlyState
  BY <1>2, NormalBefore DEF OrderlyInv, OrderlyState
<1>4. daemon' /\ ~again' /\ ~early'
  BY <1>2 DEF Normal
<1>5. CASE Create
  BY <1>3, <1>5, CreateOrderly
<1>6. CASE UserLeaves \/ SessiondGoesOn
  BY <1>3, <1>6, ChildStepOrderly, DisposeReturnsOrderly
  DEF UserLeaves, SessiondGoesOn
<1>7. CASE SessiondTimer \/ SessiondQuits
  BY <1>3, <1>4, <1>7, SessiondTimerOrderly, SessiondQuitsOrderly
<1>8. CASE PipeClosed
  BY <1>3, <1>8 DEF PipeClosed, OrderlyState, Normal
<1>9. CASE Logout \/ Dropped
  BY <1>3, <1>4, <1>9, LogoutOrderly
<1>10. CASE \E i \in DOMAIN due.handle : DaemonTimer(i)
  BY <1>3, <1>10, DaemonTimerOrderly
<1>11. CASE SessiondDown \/ Tick
  BY <1>3, <1>11, SessiondDownOrderly, TickOrderly
<1>12. CASE DaemonDies
  BY <1>4, <1>12 DEF DaemonDies
<1>13. CASE UNCHANGED tvars
  BY <1>3, <1>13
  DEF tvars, links, vars, OrderlyState, Orderly, ChildOrderly, R!InUse,
      Phase, PhaseNone, PhaseHup, PhaseTerm, Left, JustTermed
<1>14. QED
  BY <1>5, <1>6, <1>7, <1>8, <1>9, <1>10, <1>11, <1>12, <1>13
  DEF TerminationNext, Prompt, UserObeys, ErrorArrives, EndArrives

\* The login daemon learns of the end only from a sessiond that has left.
LEMMA OrderlyImplies == OrderlyInv => OrderlyLogout
<1> SUFFICES ASSUME OrderlyInv, Over, obeys # {}, ~again, ~early,
                    main # "left"
             PROVE  /\ main = "exited"
                    /\ child \in {"none", "reaped"}
                    /\ priv.auth_session = NoAuth
                    /\ tty # "ours" /\ rtdir # "ours"
  BY DEF OrderlyLogout
<1>1. Orderly /\ ~R!InUse(handle)
  BY DEF OrderlyInv, Over, Normal, HandleInv
<1>2. main = "exited"
  BY <1>1 DEF Orderly
<1>3. QED
  BY <1>2 DEF OrderlyInv, SessionInv, ExitedChildless, DisposedOnce, Released,
              ChildIsUp, FilesRecorded

\* The two escalations never race against an obedient user, whatever the
\* terminate timeout is and wherever in the session the logout falls: SIGKILL
\* reaches sessiond only after the child was reaped and the PAM session
\* closed.  fork has to succeed: after a failed one is_child_up stays set
\* with nobody to clear it, and sessiond is killed in dispose.
THEOREM LogoutIsOrderly ==
    ASSUME ForkFails = FALSE
    PROVE  TerminationSpec => []OrderlyLogout
<1>1. TerminationInit => OrderlyInv
  BY InitHandle, InitInv, InitOrderly DEF TerminationInit, OrderlyInv
<1>2. OrderlyInv /\ [TerminationNext]_tvars => OrderlyInv'
  BY NextOrderly
<1>3. QED
  BY <1>1, <1>2, OrderlyImplies, PTL DEF TerminationSpec
=============================================================================
