--------------------------- MODULE DbusObserver ---------------------------
(***************************************************************************)
(* TlmDbusObserver (src/daemon/tlm-dbus-observer.c) with the P2P server    *)
(* and the login adapters behind it: D-Bus requests to log in, log out and *)
(* switch, queued, handed to the seat, and answered.                       *)
(*                                                                         *)
(* Two observers share the seat.  "root" belongs to the manager, lives as  *)
(* long as the daemon, and is connected to the seat's signals while it has *)
(* an active request.  "seat" belongs to the seat's session, lives with    *)
(* it, and is connected to no signal of the seat.                          *)
(*                                                                         *)
(* The seat is reduced to whether it has a session and to what its         *)
(* functions may do to their caller: return, emit session-error, or, when  *)
(* a new session has to be thrown away, run a nested main loop first (see  *)
(* module Seat).  Inside that loop the observers go on.                    *)
(***************************************************************************)
EXTENDS Naturals, SequencesExt

CONSTANTS
    Requests,   \* identities of method calls, each made at most once
    NoRequest,  \* the NULL request
    Clients,    \* connections to an observer's socket
    MaxNested   \* bound: nested loops at a time

ASSUME ObserverAssumption == NoRequest \notin Requests /\ MaxNested \in Nat

VARIABLES
    bus,        \* the observers, and the answers given to each request
    call,       \* call[q]: what request q asks for and which observer got it
    session,    \* whether the seat has a session
    loops       \* who is in a nested loop of the seat, innermost first

vars == <<bus, call, session, loops>>

Observers == {"root", "seat"}

\* struct _TlmDbusObserverPrivate, and the clients of its TlmDbusServerP2P;
\* request_id says whether the idle source is attached.
ObserverType ==
    [alive : BOOLEAN,
     clients : SUBSET Clients,
     request_queue : Seq(Requests),
     request_id : BOOLEAN,
     active_request : Requests \cup {NoRequest}]

Answers == {"ok", "failed", "aborted"}

CallType == [type : {"none", "login", "logout", "switch"},
             to : Observers]

\* tlm_dbus_observer_new with a server that could be started.
NewObserver == [alive |-> TRUE, clients |-> {}, request_queue |-> <<>>,
                request_id |-> FALSE, active_request |-> NoRequest]

NoObserver == [NewObserver EXCEPT !.alive = FALSE]

-----------------------------------------------------------------------------
(* Operators on an observer o and on the value b of bus.                   *)

\* _process_next_request_in_idle.
ProcessNextInIdle(o) ==
    IF o.request_queue # <<>> THEN [o EXCEPT !.request_id = TRUE] ELSE o

\* tlm_dbus_login_adapter_request_completed for the requests in qs.
Complete(b, qs, a) ==
    [b EXCEPT !.answers = [q \in Requests |->
        IF q \in qs THEN Append(b.answers[q], a) ELSE b.answers[q]]]

\* _complete_request or _dispose_request on the active request, if any.
CompleteActive(b, name, a) ==
    [Complete(b, {b.observer[name].active_request} \ {NoRequest}, a)
        EXCEPT !.observer[name].active_request = NoRequest]

\* A signal of the seat that completes root's active request with a, and
\* schedules the next one.
SeatSignal(b, a) ==
    IF b.observer["root"].active_request = NoRequest THEN b
    ELSE [CompleteActive(b, "root", a)
            EXCEPT !.observer["root"] = ProcessNextInIdle(@)]

\* _handle_seat_session_error.
SeatSessionError(b) == SeatSignal(b, "failed")

ActiveType(b) ==
    LET q == b.observer["root"].active_request IN
    IF q = NoRequest THEN "none" ELSE call[q].type

\* _handle_seat_session_created.
SeatSessionCreated(b) ==
    IF ActiveType(b) = "logout" THEN b ELSE SeatSignal(b, "ok")

\* _handle_seat_session_terminated.
SeatSessionTerminated(b) ==
    IF ActiveType(b) = "logout" THEN SeatSignal(b, "ok") ELSE b

\* _tlm_dbus_server_p2p_stop: nobody listens to the connections any more, and
\* the adapters and the socket go.
ServerStop(o) == [o EXCEPT !.clients = {}]

\* Mutant: dispose frees the queue without answering what is in it.
DisposeObserverSilently(b) == [b EXCEPT !.observer["seat"] = NoObserver]

\* tlm_dbus_observer_dispose on the seat's observer: _stop_dbus_server aborts
\* the active request and what is queued, and drops the clients.
DisposeObserver(b) ==
    [Complete(CompleteActive(b, "seat", "aborted"),
              ToSet(b.observer["seat"].request_queue), "aborted")
        EXCEPT !.observer["seat"] =
            [ServerStop(@) EXCEPT !.alive = FALSE, !.request_id = FALSE,
                                  !.request_queue = <<>>]]

-----------------------------------------------------------------------------
(* The seat.  caller is the observer whose _process_request called it, or  *)
(* "other": a delayed login, the re-login of an ended session, a plugin.   *)

\* Mutant: a login is left to the session-created signal to complete.
ReturnsUncompleted(b, caller) == bus' = b

\* The call returns to its caller.  _process_request then completes its
\* active request ("Clean up the active_request always").
Returns(b, caller) ==
    bus' = IF caller = "other" THEN b ELSE CompleteActive(b, caller, "ok")

\* tlm_seat_create_session on a seat with (has) or without a session.
CreateSession(b, has, caller) ==
    \/ \* session-error: there is a session, or it can't be started
       /\ Returns(SeatSessionError(b), caller)
       /\ session' = has
       /\ UNCHANGED loops
    \/ \* a session with its observer
       /\ ~has
       /\ Returns([b EXCEPT !.observer["seat"] = NewObserver], caller)
       /\ session' = TRUE
       /\ UNCHANGED loops
    \/ \* throttled: tried again later
       /\ ~has
       /\ Returns(b, caller)
       /\ session' = FALSE
       /\ UNCHANGED loops
    \/ \* no observer: the session is disposed of in a nested loop
       /\ ~has
       /\ Len(loops) < MaxNested
       /\ bus' = b
       /\ session' = FALSE
       /\ loops' = <<caller>> \o loops

\* tlm_seat_terminate_session.
TerminateSession(b, caller) ==
    /\ Returns(IF session THEN b ELSE SeatSessionError(b), caller)
    /\ UNCHANGED <<session, loops>>

\* tlm_seat_switch_user, or a switch that is refused: to the user who is
\* there, or without a valid password.
SwitchUser(b, caller) ==
    \/ Returns(b, caller) /\ UNCHANGED <<session, loops>>
    \/ session /\ TerminateSession(b, caller)
    \/ ~session /\ CreateSession(b, FALSE, caller)

-----------------------------------------------------------------------------
(* Clients.                                                                *)

\* _on_client_request and _handle_dbus_client_added.
ClientAdded(name, c) ==
    /\ bus.observer[name].alive
    /\ \A n \in Observers : c \notin bus.observer[n].clients
    /\ bus' = [bus EXCEPT !.observer[name].clients = @ \cup {c}]
    /\ UNCHANGED <<call, session, loops>>

\* _on_connection_closed and _handle_dbus_client_removed.  Its requests stay
\* in the queue: they hold the adapter.
ClientRemoved(name, c) ==
    /\ c \in bus.observer[name].clients
    /\ bus' = [bus EXCEPT !.observer[name].clients = @ \ {c}]
    /\ UNCHANGED <<call, session, loops>>

\* _connect_dbus_adapter: the seat's observer does not take logins, and
\* nobody answers the call.
Handled(name, type) == name = "root" \/ type # "login"

\* Mutant: a request that could not be allocated is queued all the same.
AddRequestNull(o, q) ==
    ProcessNextInIdle([o EXCEPT !.request_queue = Append(@, NoRequest)])

\* _add_request.
AddRequest(o, q) ==
    ProcessNextInIdle([o EXCEPT !.request_queue = Append(@, q)])

\* loginUser, logoutUser or switchUser arrives.
MethodCall(name, type, q) ==
    /\ bus.observer[name].clients # {}
    /\ call[q].type = "none"
    /\ call' = [call EXCEPT ![q] = [type |-> type, to |-> name]]
    /\ bus' = IF Handled(name, type)
              THEN [bus EXCEPT !.observer[name] = AddRequest(@, q)]
              ELSE bus
    /\ UNCHANGED <<session, loops>>

-----------------------------------------------------------------------------
(* The observers' idle source.                                             *)

\* The request handed to the seat, which may have been active before: then
\* _process_request runs in a nested loop of that request's own login.
Chosen(o) == IF o.active_request # NoRequest THEN o.active_request
             ELSE Head(o.request_queue)

\* The observer with its chosen request active and its idle source gone.
Started(o) ==
    [o EXCEPT !.request_id = FALSE,
              !.active_request = Chosen(o),
              !.request_queue = IF o.active_request # NoRequest THEN @
                                ELSE Tail(@)]

Call(b, name, type) ==
    \/ type = "login" /\ CreateSession(b, session, name)
    \/ type = "logout" /\ TerminateSession(b, name)
    \/ type = "switch" /\ SwitchUser(b, name)

\* _process_request that finds its seat.
ProcessRequest(name) ==
    LET o == bus.observer[name] IN
    /\ o.request_id
    /\ Call([bus EXCEPT !.observer[name] = Started(o)], name,
            call[Chosen(o)].type)
    /\ UNCHANGED call

\* _process_request of a request that names no seat the manager knows.
SeatNotFound ==
    LET o == bus.observer["root"] IN
    /\ o.request_id
    /\ o.active_request = NoRequest
    /\ bus' = CompleteActive([bus EXCEPT !.observer["root"] = Started(o)],
                             "root", "failed")
    /\ UNCHANGED <<call, session, loops>>

-----------------------------------------------------------------------------
(* The seat on its own.                                                    *)

\* Mutant: the caller of the login is not resumed.
LoopReturnsToNobody == /\ loops # <<>>
                       /\ loops' = Tail(loops)
                       /\ UNCHANGED <<bus, call, session>>

\* The dispose loop of a session without an observer returns; session-error
\* follows, and the rest of the caller.
LoopReturns ==
    /\ loops # <<>>
    /\ Returns(SeatSessionError(bus), Head(loops))
    /\ loops' = Tail(loops)
    /\ UNCHANGED <<call, session>>

\* _handle_session_created.
SessionCreated == /\ session
                  /\ bus' = SeatSessionCreated(bus)
                  /\ UNCHANGED <<call, session, loops>>

\* _handle_session_terminated: signal, observer gone, re-login or not.
SessionTerminated ==
    LET b == DisposeObserver(SeatSessionTerminated(bus)) IN
    /\ session
    /\ UNCHANGED call
    /\ \/ bus' = b /\ session' = FALSE /\ UNCHANGED loops
       \/ CreateSession(b, FALSE, "other")

\* _handle_error for an error that ends the session.
SessionError == /\ session
                /\ bus' = DisposeObserver(SeatSessionError(bus))
                /\ session' = FALSE
                /\ UNCHANGED <<call, loops>>

\* A delayed login, or one of an auth plugin.
OtherLogin == CreateSession(bus, session, "other") /\ UNCHANGED call

ObserverInit ==
    /\ bus = [observer |-> [name \in Observers |->
                    IF name = "root" THEN NewObserver ELSE NoObserver],
              answers |-> [q \in Requests |-> <<>>]]
    /\ call = [q \in Requests |-> [type |-> "none", to |-> "root"]]
    /\ session = FALSE
    /\ loops = <<>>

ObserverNext ==
    \/ \E name \in Observers :
        \/ \E c \in Clients : ClientAdded(name, c) \/ ClientRemoved(name, c)
        \/ \E type \in {"login", "logout", "switch"}, q \in Requests :
                MethodCall(name, type, q)
        \/ ProcessRequest(name)
    \/ SeatNotFound
    \/ LoopReturns
    \/ SessionCreated
    \/ SessionTerminated
    \/ SessionError
    \/ OtherLogin

ObserverSpec == ObserverInit /\ [][ObserverNext]_vars

\* Idle sources are dispatched, and dispose loops return (LoopsReturn of
\* module Seat).
ObserverFairSpec ==
    /\ ObserverSpec
    /\ \A name \in Observers : WF_vars(ProcessRequest(name))
    /\ WF_vars(LoopReturns)

-----------------------------------------------------------------------------
(* Properties.                                                             *)

\* Type invariant.
ObserverTypeOK ==
    /\ bus.observer \in [Observers -> ObserverType]
    /\ bus.answers \in [Requests -> Seq(Answers)]
    /\ call \in [Requests -> CallType]
    /\ session \in BOOLEAN
    /\ loops \in Seq(Observers \cup {"other"})

Held(name) == ToSet(bus.observer[name].request_queue) \cup
              ({bus.observer[name].active_request} \ {NoRequest})

\* A method call is answered once: it is queued or active in the observer it
\* was made on and has no answer yet, or it has one answer and nobody holds
\* it, however nested loops, synchronous signals of the seat and the end of
\* the observer meet.  Only a login on the seat's object has neither.
AnsweredOnce ==
    \A q \in Requests :
        /\ \A name \in Observers :
            q \in Held(name) => call[q].to = name /\ bus.answers[q] = <<>>
        /\ Len(bus.answers[q]) =
            IF \/ call[q].type = "none"
               \/ ~Handled(call[q].to, call[q].type)
               \/ q \in Held(call[q].to)
            THEN 0 ELSE 1

\* Between callbacks a request is active only in a login that is waiting in a
\* nested loop, so a logout is never active when the seat's signals come and
\* "Logout request should only be completed on session terminated signal" is
\* never the case that completes one.
ActiveInLoop ==
    \A name \in Observers :
        bus.observer[name].active_request # NoRequest =>
            /\ name = "root" /\ name \in ToSet(loops)
            /\ call[bus.observer[name].active_request].type # "logout"

\* The idle source moves the queue: a request at the head of a queue whose
\* idle source is attached is answered.
ScheduledAnswered ==
    \A q \in Requests, name \in Observers :
        /\ bus.observer[name].request_id
        /\ bus.observer[name].active_request = NoRequest
        /\ q = Head(bus.observer[name].request_queue)
        ~> bus.answers[q] # <<>>

\* Every request the observer accepted is answered in the end: "request
\* queue has request(s) to be processed" schedules _process_request.
QueueDrains ==
    \A q \in Requests :
        (\E name \in Observers : q \in Held(name)) ~> bus.answers[q] # <<>>
=============================================================================
