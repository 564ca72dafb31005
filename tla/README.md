# TLA+ development of TLM, the Tiny Login Manager

TLM (`src/`) logs users in on the seats of a device. The login daemon `tlm`
starts one `tlm-sessiond` process for each session; `tlm-sessiond` opens the
PAM session and runs the user's process. Both are single-threaded GLib
programs: callbacks run to completion unless they enter a nested main loop.

## 1. The system

| Component | State | Operations | Interacts with |
|---|---|---|---|
| Session handle `TlmSessionRemote` (`daemon/tlm-session-remote.c`) | sessiond's pid, child watch, `is_sessiond_up`, last signal, timeout source, D-Bus proxy | new, create, terminate, timeout, child down, dispose | seat (signals), sessiond (kill, pipe D-Bus) |
| Seat `TlmSeat` (`daemon/tlm-seat.c`) | current session, `next_*` of a pending switch, `default_active`, login observer, relogin throttle | create / terminate session, switch user, delayed login, session created / terminated / error | manager, observers, session handles |
| Login observer `TlmDbusObserver` (`daemon/tlm-dbus-observer.c`, `daemon/dbus/tlm-dbus-login-adapter.c`) | queue of D-Bus requests, the active one, adapters | login / logout / switch requests, completion by seat signals, client gone | seat, manager, P2P server |
| P2P server (`daemon/dbus/tlm-dbus-server-p2p.c`) | socket, clients | start, stop, client added / closed | observer |
| Manager `TlmManager`, `tlm-main` | seats, file watches, started flag | seat added / removed, start, stop, SIGHUP, prepare user login / logout | seats, plugins, logind |
| sessiond `main`, `TlmSessionDaemon` | main loop, signal handlers, connection | quit signal, connection closed, relays | login daemon |
| User session `TlmSession` (`sessiond/tlm-session.c`) | user process, PAM handle, terminal, runtime directory, escalation | start, terminate, timeout, child down, dispose | PAM, kernel |
| PAM session `TlmAuthSession` | PAM handle | start, authenticate, open, stop | PAM |
| File watcher `tlm_utils_watch_for_files` (`common/tlm-utils.c`) | awaited names by directory, inotify watches, the kernel's event queue | start, callback, free | manager, launcher, kernel |
| Launcher (`utils/tlm-launcher.c`) | position in its script, monitored children, idle sources, file watcher | run a command, wait for files, continue, child down | file watcher, kernel |
| Configuration `TlmConfig` (`common/tlm-config.c`) | table of groups, path of the file | load, reload, getters and setters | all |
| Account plugins (`plugins/default`, `plugins/gumd`) and auth plugins | none of their own; user accounts and home directories | validity, set-up and clean-up of guests, SIGUSR1 | manager, seat, gumd, shell commands |
| Client, error, log and D-Bus data helpers | none | conversions, one call | all |

What is hard here:

* **Nested loops.** `tlm_session_remote_dispose` runs the main loop until its
  sessiond is gone. Any callback may run inside, start a session, end it and
  dispose of it: a stack of half-finished handlers.
* **Two reports of one event.** A session's end is reported by D-Bus and by
  the child watch, in either order, and either may find the handle live,
  emitting, in dispose or freed.
* **Escalation.** SIGHUP, SIGTERM, SIGKILL a timeout apart, in the daemon
  towards sessiond and in sessiond towards the user's process group, with
  timer ids that a second `terminate` overwrites.
* **Unreferenced callbacks.** Timers and pending calls that hold a raw address.
* **Restart storms, pending switches, failing steps** of a login in progress.
* **Check, then watch.** A file may appear between any two system calls of the
  watcher, alone or with others, and in a directory that appears with it.
* **Cached configuration.** SIGHUP replaces table and plugin under seats that
  keep what they read from the old ones.

What makes each part correct: the handle ends its child and returns; the seat
owns each handle once, gives each session its own login object, carries out
switches, obeys its throttle and does not stay empty with AUTO_LOGIN; sessiond
leaves no process, PAM session, terminal or directory behind and never undoes
its successor's set-up; the observer answers each request once; the manager
stops once its seats are empty; the watcher's tables stay one structure and the
end of a wait is reported once; a guest finds nothing of the guest before, and
only guests' homes are cleaned.

## 2. Modules

| Module | Models | Role |
|---|---|---|
| `SessionRemote` | `TlmSessionRemote` | operators on the private data of one handle, and the handles under an arbitrary owner |
| `Seat` | `TlmSeat` with its handles | composes: extends `SessionRemote` and builds the seat's handlers from its operators |
| `Login` | what a seat promises its users | abstract specification, implemented by `Seat` |
| `Session` | one `tlm-sessiond`: `main.c`, `TlmSessionDaemon`, `TlmSession`, `TlmAuthSession` | |
| `Termination` | login daemon, sessiond and user's process at the end of a session | composes: extends `Session`, instantiates `SessionRemote` |
| `DbusObserver` | `TlmDbusObserver`, login adapters, P2P server | the root observer and the seat's, over an abstract seat |
| `Manager` | `TlmManager`, `tlm-main` | all seats, over an abstract seat, from start to exit |
| `FileWatch` | `tlm_utils_watch_for_files` and inotify | steps of the watcher, up to each system call |
| `Launcher` | `tlm-launcher` | composes: extends `FileWatch` and drives it with a script |
| `Config` | `TlmConfig` | loading and reloading, getters and setters |
| `Accounts` | the account plugins, SIGHUP, guests of one seat | composes: extends `Config`, over a seat without session objects |
| `SessionRemoteProofs`, `SeatProofs`, `SessionProofs`, `DbusObserverProofs`, `ManagerProofs`, `LauncherProofs`, `AccountsProofs`, `TerminationProofs` | | theorems on the module each is named after (section 4); `SeatProofs` uses the lemmas of `SessionRemoteProofs`, `TerminationProofs` those of `SessionProofs` |
| `MCSessionRemote`, `MCSeat` | | TLC instances with symmetry |
| `MCLauncher`, `MCAccounts` | | TLC instances: scripts and files, configuration files |

`PROJECT.json` maps every definition to its lines.

### SessionRemote

`remote[r]` is `struct _TlmSessionRemotePrivate` with the life of the object
around it (`obj`), the sessiond process (`sd`), the pending call (`call`) and
`lost`: the number of timeout sources that are still attached but whose id
`timer_id` no longer holds. `lost` is where the model is finer than the
struct: `tlm_session_remote_terminate` assigns `timer_id` without looking at
it, and each such loss is a source nobody can remove. `dispose` is two steps
because of its loop; every other callback is one. `Free` lets an identity be
reused once nothing refers to the freed object. Callbacks on freed memory
(`DanglingTimerFires`, `DanglingReplyArrives`) are undefined behaviour in the
code; the model reports that they can happen (section 5) and otherwise lets the
source go without an effect, so that everything else is checked as if the
allocator were kind.

### Seat

`g_signal_emit` keeps the emitter alive, so the handle a handler drops is
disposed of only when the emission ends, after the whole handler, the re-login
included. `Unref` and `Return` express this; `stack` is the stack of nested
loops. A frame records the handle being disposed of and, when the loop runs in
a login that `_handle_session_terminated` has called (its observer could not be
made), the session whose emission is still to be finished. `LoopReturns` pops
the top frame and performs the rest of that handler: `_reset_next`, then the
dispose of the emitter, which may push a new frame.

The throttle counts attempts with a clock; the model keeps the counter and one
action, `SecondPasses`, for a second without an attempt. `spawns` is a history
variable. `next_service`, password and environment travel with `next_user` and
are left out. The auth plugin and the D-Bus observers call the same three
functions; the requests are unrestricted. `auto_login` is read once per
behaviour, from `AutoLogins`.

The `stop` answer of the manager's signal handler and `tlm_seat_dispose` are in
`Manager`. The X11 branch, where the daemon sends SIGTERM to its own process
group, is not modelled. A D-Bus proxy that can't be made is in `SessionRemote`
(`NewFails`) only: with a NULL bus name the proxy's constructor does not fail.

### Login

The abstract seat has three variables: the user logged in, the user switched
to, and the logins owed because of the throttle. `Seat` implements it under

    user <- the user of the seat's session, or nobody
    next <- seat.next_user
    owed <- seat.delayed

so handles, processes, timers, observers and nested loops disappear. The
refinement says that nobody comes who was not asked for (or is not the default
user), that a switch is carried out by the very step that ends the session it
ends, or owed from then on, that a later switch replaces an earlier one, and
that a delayed login takes place at most once. It holds while no login fails and
no session ends in error: `_handle_error` leaves `next_user` set on an empty
seat, which `Login` has no state for (section 5). `Guests` is as weak as it is
because of the `default_active` disagreement of section 5.

### Session

`main` says where `main()` is; `handlers` are the signals that still have their
GLib handler: `_handle_quit_signal` returns FALSE, which restores the default
action, so a second SIGHUP or SIGTERM kills sessiond in its clean-up. `child` is
the user's process. Between `fork` and `setsid` it is in the process group of
sessiond and of the login daemon, and `killpg` reaches them too; the same
happens with `child_pid` 0 after the child was reaped and a lost timer fires.
`tty` and `rtdir` say who prepared the terminal and the runtime directory, and
`SuccessorStarts` is the next session of the same seat taking them over.
`sent` collects what was relayed to the daemon. `PAUSE_SESSION` is the branch
into `pause()`, which leaves by `exit (0)` without clean-up. `auth_session` is
the `TlmAuthSession`: it has a PAM handle, and PAM holds credentials and an open
session for it. Authentication can fail, and opening can fail before or after
the credentials are established; `AuthSessionStop` undoes what there is.

### Termination

One handle, with the operators of `SessionRemote`, one sessiond, with the actions
of `Session`, and a clock for the timeouts of both, which are the same setting.
The signals the handle sends are the signals sessiond gets. `obeys` is chosen at
the start: the signals that end the user's process. Everything but a timeout is
short beside a second, so `Tick` is possible only when no process is `Ready` to
take a step (`Prompt`).
Two timers that are due in the same second fire in either order. A logout may be
repeated and the daemon may die at any time.

### DbusObserver

`bus.observer` holds the private data of the two observers that can reach a
seat: the manager's ("root") and the one exported for the session ("seat").
They differ in what they are connected to. The root observer listens to the
seat's signals while one of its requests is active; the other never does, is
made and disposed of with the session, and does not take logins. `bus.answers`
is the history of the answers each method call got. The seat is what module
`Seat` shows of it: it has a session or not, and its functions return, emit
session-error, or run a nested loop first, in which the observers go on and
`_process_request` may be entered again. `loops` says whose call waits there.
Requests hold their adapter, so a client that leaves changes nothing for its
requests and `_on_dbus_adapter_dispose` finds none.

### Manager

`manager.seats` is the table, `seat[s]` a `TlmSeat` object with its references:
the table, delayed logins, and the reference that `_process_request` takes for
a request on the seat's own socket and never gives back. An object is freed when
the last reference goes; a session it still has is ended in a nested loop.
`_add_seat` creates a seat with files to watch at once, and the watch creates it
again, which drops the first; when all files exist, both happen inside
`tlm_manager_start`. Handlers are functions from a state to the set of states
they may lead to, because most of them can be cut in two by a nested loop; a
frame of `loops` says what follows the loop. `tried` replaces the throttle's
counter: a login after an earlier attempt may be delayed or not, as attempts
within a second or a quiet second in between decide. `fault` is a history
variable that names the first of three events that keep a stop from ending.

Not modelled: `_manager_on_seat_added` and `_manager_on_seat_removed`. Both free
strings and drop a reference that belong to the message, so the first such
signal is undefined behaviour (the second also tests its condition the wrong way
round). SIGHUP reloads data; like SIGTERM's, its handler runs once.

### FileWatch and Launcher

`info[w]` is the `WatchInfo` of one call of `tlm_utils_watch_for_files`:
`dir_table` (names awaited, by directory), `wd_table` (descriptors the program
knows), and beside them the watches and the queue the kernel has. `job` is the
call or callback under way; it advances one system call at a time, so `Appears`
can happen between the check for a directory, the watch and the second check
for the file. One `read` takes the whole queue and only its first event is
looked at, as in the code. `found`, `finals` and `failed` are history variables.
A wait names files, not directories of other paths (section 5).

`Launcher` reads its script line by line. A W line starts a watcher and stops
reading only if a source was returned; `_on_socket_ready` adds an idle source
for each final report, also for one inside the call. A child whose `exec` fails
goes on with the script (`CloneReads`). `calm` restricts when files appear, not
what the launcher does: the `Calm...` properties are about behaviours in which
each file finds the launcher at rest, the type and table invariants about all.
`atOnce` is a history variable: the W lines whose wait was over before it began.
Two things go wrong in calm behaviours, too, and are conditions in the formulas
rather than bounds of the instance. A wait that was over at once leaves an idle
source behind that makes the launcher skip a later wait, so `CalmWaitsForFiles`
excepts the W lines after one in `atOnce`. And a file that exists and joins a
list that its directory already has is never noticed (`Overlooks`), so
`CalmGetsThrough` has as a premise that this does not happen.

### Config and Accounts

`Config` keeps what is told apart in a text: the number it begins with and the
words after it, or its spelling. Group names, seat ids and user names are
sequences of texts: `seat1` is `<<Word("seat"), Number(1)>>`, `seat01` is
`<<Word("seat"), Spelled(1, "01")>>`. `SeatNum` is what `atoi` reads after
"seat", in an int, and `%S` prints that number, so the two have the same one, and
`atoi` and `sscanf` are modelled by what they do. `Half` is 2^(w-1) for a `gint` of w bits, small enough in the
run that both ends of the range are stored and read back.

`Accounts` has one seat, whose session is the name of its user, and the homes as
sets of files, plain and hidden ones, which is all that `rm -rf dir/*` tells apart.
Plugin methods are sets of outcomes: they run shell commands or ask gumd, and
any of these may fail. The configuration files may change until SIGHUP has been
handled; the handler runs once. `login` records how the current session began.

## 3. Runs

| Run | Instance | Shows |
|---|---|---|
| `remote` | 2 handles, 2 lost timers | `NeverStalls`: in every order of owner calls, timers and exits, a sessiond that was sent a signal has a timer that leads on to SIGKILL; `DisposeReturns`, `TerminateEnds`: the loop ends and the child is reaped |
| `seat_safety` | 3 handles, AUTO_LOGIN, failing spawns and observers, errors | `OwnedOnce`, `ObserverExported`, `ThrottleHolds` |
| `seat_switch` | 2 handles, 2 users, one delayed login, with and without AUTO_LOGIN, no errors | `ImplementsLogin`: the refinement of `Login`; `LoopsReturn`, `AutoLoginKeepsSeat` |
| `session` | one sessiond, 2 lost timers, fork may fail, child may be stuck | `CleanExit`, `TerminatedIsClean`, `PamCoversChild`, `SuccessorUntouched`, `QuitEnds` |
| `termination` | one handle and sessiond, a repeated logout, timeouts of 2 seconds | `OrderlyLogout`: a process that obeys SIGHUP or SIGTERM is reaped, and its PAM session, terminal and directory released, before SIGKILL reaches sessiond; `OrphanCleansUp`: without the daemon, sessiond ends even a process that obeys nothing; `LogoutEnds`: a logout frees the seat, also when a second SIGHUP, one ahead of `setsid` or SIGKILL meets sessiond in its clean-up |
| `observer` | 3 calls, a client, 2 nested loops | `AnsweredOnce`: each call gets exactly one answer, also when its login is re-entered or its observer ends; `ActiveInLoop`: what `_process_request` finds when it is entered again; `ScheduledAnswered` |
| `manager` | 2 seats, one watched, failing observers, watches and sessions | `SeatOutlivesLogin`, `ExitClean`, `StoppedWhenEmpty`, `NoReloginInStop`, and `StopEnds`: SIGTERM ends the daemon but for three interleavings |
| `launcher` | script M, W (2 files of one directory), L, W, L; 4 paths, any of them there at the start; calm and not | `TablesAgree`: through every order of events a watched directory has names awaited in it, is watched once, and kernel and program agree; `CalmFinalOnce`: one report of the end; `CalmWaitsForFiles`: commands start after the files of the W lines before them exist, but for W lines after one that was over at once; `CalmGetsThrough`: the script gets to its end if no existing file is overlooked |
| `accounts` | one seat, 2 places for the file with 3 contents, unreadable or unparsable, one named user | `GuestStartsClean`, `NamedHomesKept`; `SeatsApart`: which seats share a guest, and that those of NSEATS never do with `%S`; `ReadsBack`: setters and getters agree over the whole range of the integers |
| `requested_user`, `user_outlives`, `queue_stuck` | small instances | counterexamples, section 5 |

**Bounds.** Two handles let a session start while another is in dispose; three
let a third start in a loop inside a loop, with the failed observer's frame in
between. A fourth only repeats this: a new frame needs a new session and the
seat holds one. With all handles in use a login waits for one to be freed,
which only removes interleavings. `MaxLost` limits the owner's repeated
terminate calls, not the loss in dispose; each lost timer behaves like the
others, and the theorems cover any number. `MaxDelayed` is one delayed login at
a time where delays are of interest; in `seat_safety` it is 0, so a throttled
attempt is not taken there. `prev_count` stops at 4, the code compares it with
3. Users are two where the property tells users apart and one elsewhere.
Three calls let one wait in the queue while another is active in a loop and the
third arrives there; two nested loops let the root observer's login wait below
one of the seat's own. Two seats let `tlm_manager_stop` meet one with and one
without a session, in either order; the watched one is made twice, as often as
the code can. `Manager` has one nested loop at a time: what loops do inside
loops is the subject of `Seat`. Its safety properties were also checked once with
two (2.1 million states).
A timeout of 2 seconds lets a second logout come between the
timeouts of the first; with one repeated logout and the seat's own dispose the
handle has up to three timers.
The launcher's script has one wait for two files in one directory that may be
missing (so they are listed under it, then added by an event) and a second wait
for a file at the root; with the M line it can also end in the middle. Every set
of files that has its directories may be there at the start, so that each wait
can be over at once, or half over. Two
places let a file shadow another; the three contents differ in plugin,
preparation, AUTO_LOGIN and template, two of them with a group for the seat. They
give it the same guest, so that gumd and the default plugin prepare one account
in turn; a seat keeps its first guest, so a second would not be touched. The
seat ids are the eight of NSEATS and `seat01`, `seat1a`, `seat` and
`vt0`, with the numbers 1, 1, 0 and 0. `Half` is 4: integers of 3 bits have
both ends, a sign and a carry, and `seat4` to `seat7` turn negative;
`SettersReadBack` covers every width.

**Deadlock** is checked for the handles, the seat and the observers. sessiond,
the login daemon and the launcher really end (and a second SIGHUP ends the
daemon of `Accounts`), so the runs of `Session`, `Termination`, `Manager`,
`Launcher` and `Accounts` have `CHECK_DEADLOCK FALSE`.

**Fairness.** Weak fairness for sources of the loop: GLib dispatches what is
ready, and a timeout source that returned `G_SOURCE_CONTINUE` becomes ready
again. The kernel ends a process that got SIGKILL (weak fairness on that exit
only; nothing else about sessiond or the user's process is assumed). A nested
loop tests its flag after each iteration, but only when the loops inside it have
returned, and those may come and go; it gets strong fairness, since after an
inner loop returns control comes back to it before anything else can nest. In
`seat_switch` no request, exit or D-Bus signal is assumed to happen. The modules
over an abstract seat assume what is checked below them: nested loops return
(`LoopsReturn`) and a session that was told to end does, or reports an error
(`TerminateEnds`); `main()` goes on when what it called returns. In
`Termination` what is prompt happens, then time passes. The launcher's
process runs, and its loop dispatches what is ready; no file is assumed to
appear, `CalmGetsThrough` has that as a premise.

## 4. Proofs

Eight modules hold proofs that TLAPS checks. Each theorem is about the
specification a run checks, for every value of the constants: any number of
handles, users, seats, calls, clients, files and script lines, any depth of
nested loops and any number of lost timers. The bounds of section 3 are
constants too, so no bound is left in a theorem.

| Module | Theorem | States, of the component's specification |
|---|---|---|
| `SessionRemoteProofs` | `RemoteTypeCorrect`, `RemoteNeverStalls` | `RemoteTypeOK`, `NeverStalls` |
| `SeatProofs` | `SeatTypeCorrect`, `SeatOwnership`, `LoginObjectExported`, `LoginsThrottled` | `SeatTypeOK`, `OwnedOnce`, `ObserverExported`, `ThrottleHolds` |
| | `SeatImplementsLogin` | `ImplementsLogin`, the refinement of `Login` |
| `SessionProofs` | `SessionTypeCorrect`, `ExitIsClean`, `TerminatedLeavesNothing`, `PamAlwaysCovers`, `SuccessorNeverTouched` | `SessionTypeOK`, `CleanExit`, `TerminatedIsClean`, `PamCoversChild`, `SuccessorUntouched` |
| `TerminationProofs` | `InSession` | sessiond in the composition is that of `Session`: `SessionSpec` under the identity, so the five theorems above hold in it |
| | `LogoutIsOrderly` | `OrderlyLogout` |
| `DbusObserverProofs` | `ObserverTypeCorrect`, `RequestsAnsweredOnce`, `OnlyLoopsActive` | `ObserverTypeOK`, `AnsweredOnce`, `ActiveInLoop` |
| `ManagerProofs` | `ManagerTypeCorrect`, `LoginKeepsSeat`, `ExitLeavesNothing`, `StopsWhenEmpty`, `StopIsFinal` | `ManagerTypeOK`, `SeatOutlivesLogin`, `ExitClean`, `StoppedWhenEmpty`, `NoReloginInStop` |
| `LauncherProofs` | `LauncherTypeCorrect`, `WatchTablesAgree`, `EndReportedOnce` | `LauncherTypeOK`, `TablesAgree`, `CalmFinalOnce` |
| | `FinalIsHonest` | in a calm world a wait that inotify did not fail reports its end only when all files of its line exist |
| | `ScriptWaits` | `CalmWaitsForFiles` |
| `AccountsProofs` | `AccountsTypeCorrect`, `GuestsStartClean`, `OtherHomesKept`, `SettersReadBack` | `AccountsTypeOK`, `GuestStartsClean`, `NamedHomesKept`, `ReadsBack` |

`StopsWhenEmpty`, `StopIsFinal`, `SuccessorNeverTouched` and `OtherHomesKept`
are about steps, the refinement about behaviours, the others are invariants.

**Assumptions.** The named assumptions of the modules are types of the
constants, and that the values standing for NULL (`NoRemote`, `NoSeat`,
`NoRequest`, `Null`) are none of the objects. Beyond that: the set of seat
ids is finite (`ManagerAssumption`; `tlm_manager_stop` counts them); the
directory of every path is a path or the root, and what exists at first has
its directory (`FileWatchAssumption`, `LauncherAssumption`); a W line names at
least one file and no directory of another path. The last one is a
restriction: see section 5 for `W:d,d/s`.

**Hypotheses.** Two theorems have hypotheses of their own.
`SeatImplementsLogin` has `Failures = {}` and `FatalErrors = FALSE`, for the
reason given under `Login`. `LogoutIsOrderly` has `ForkFails = FALSE`: a failed
`fork` looks like a success, and dispose then waits for a child that never was,
until SIGKILL finds the PAM session open.

**The arguments.** In every module one lemma per operator or handler shows
that it keeps the invariant, one lemma puts the actions together, and the
theorems follow.

* *Handles.* `Good(p)` (the record is typed and `Sound`) is an invariant of
  each handle on its own. That a timer is armed while a signalled sessiond is
  up (`Escalating`) is not inductive alone: the timeout that runs in the
  SIGKILL state removes its source and clears `timer_id`, and only because
  SIGKILL went out is no timer needed any more; entering dispose needs
  `DisposeConsistent`, a timeout needs `SignalKnown` to rule out the default
  branch, and the child's end needs `WatchConsistent`.
* *Seat.* `SeatInv` says of the stack that no two loops wait for one handle
  and no two run inside one emission (`Apart`), that what a loop waits for is
  in dispose and what it emits for is live, and that the seat's session is
  neither. Handlers are cut by nested loops, so the invariant is stated for
  the parts between (`SeatGood`), with the emitting session as a parameter,
  and a handler is proved as the sequence of its calls. The throttle
  (`ThrottleInv`) needs that `prev_count` counts at least the starts since a
  quiet second. For the refinement `SwitchInv` adds what holds without errors
  only: no handler waits under a loop, and a pending switch has a session to
  end and has turned the default user off. Each step is then mapped to a step
  of `Login` or to a stutter.
* *sessiond.* `SessionInv` ties what is held to what the private data records
  (`FilesRecorded`, `PamNeedsHandle`, `ChildIsUp`), since `_clear_session` acts
  on the records. `CleanExit` needs that a child in its life has `is_child_up`
  (`ChildIsUp`) and that dispose runs once (`DisposedOnce`); PAM covers the child
  because a clean-up with the child up comes after SIGKILL only
  (`TimersEscalate`), which in turn needs `Fresh`: a session that starts has
  not recorded a SIGKILL from before.
  A successor is safe because a reported end left no record (`EndReported`).
* *Termination.* `InSession` maps each step of the composition to a step of
  `Session` or to a stutter, so `SessionInv` holds of its sessiond; `HandleInv` is
  the type of the handle and of its timers. `Orderly` relates the two
  escalations, for a `Normal` logout (the daemon lives, nothing is sent twice or
  before the child's `setsid`, the process obeys some signal), by the last signal
  of the handle: sessiond passes SIGHUP on in the second it gets it, so both
  timers run together (`PhaseHup`); when the handle sends SIGTERM, sessiond's own
  SIGTERM was sent or is due in the same second, and a whole timeout is left for
  the process to end and be reaped (`PhaseTerm`); before SIGKILL sessiond is gone.
  That time does not pass meanwhile is `TermTakesNoTime`.
* *Observers.* `BusGood` says that a request is in one place of one observer, was
  accepted there, and is unanswered exactly as long as it is held. It holds
  between any two calls of a handler, so that re-entry finds it. `ActiveGood`
  relates the active request to the stack of loops.
* *Manager.* `StateGood` is about the state record that the handlers take and
  return, with a parameter for the seat on which the running handler has a
  reference to give back. Its core is the reference count: an object exists
  exactly as long as the table, a delayed login (one that waits in a loop
  too), a leaked reference or a removal under way holds it (`SeatGood`); at most
  two objects are made for an id (`IdGood`), and until a stop an object is in the
  table or was replaced there (`Placed`).
* *Watcher and launcher.* `WatchInv` is about the tables in the middle of
  `_add_watch`, too: the kernel is ahead of `wd_table` by one watch in step
  "file" and in no other; and a directory that is waited for is listed once, has
  names of its own and no watch yet (`ListsGood`, `PendingGood`), so that the
  event of its appearance adds its first watch. `RunInv` says that a watcher
  before its start and after its end is blank, so a line that starts one finds
  no old table. `CalmInv` is the reason why the end of a wait is reported once as
  long as the world is calm: the path of a queued event exists and nothing below
  it does (`FreshEvents`), hence none of the files that wait for a directory is
  there when it appears, and a report with `is_final` is followed by
  `watch_info_free` at once.
* *What a wait waits for.* `WaitInv` says that nothing is lost (`OnTheWay`): every
  file of the line exists, is being added or is on a list, and every directory
  with a list is watched, or is being added or on a list itself; and that
  `nwatch` is no less than the number of watches. So when `nwatch` is 0 and
  nothing is being added, no list is left: the shortest directory with one would
  be on the list of a shorter one (`AllFound`, `CountedOut`). Each step of
  `_add_watch` and of the callback hands a path on to the next of these places.
  It needs `CalmInv`: a name is taken off for a path that exists, and no directory
  is taken for the file that waits for it.
* *The order of a script.* As long as no W line was read after one that was over at
  once (`InStep`), `LayerInv` says that one watcher at most is at work or has a
  source, that the launcher does not read on beside it, and that an idle source
  is there only after its end, and while the launcher reads only after a wait that
  was over at once. So a line is read when the waits above it are over. The first W
  line read after one in `atOnce` ends this; what was passed until then stays
  (`PassedInv`), and the wait that was over at once itself has reported its end
  (`AtOnceInv`), which by `WaitInv` means that its files exist.
* *Accounts.* `GuestStartsClean` is inductive with `Tidy`: an account that does
  not exist has no files. gumd does not look at the home directory of an account
  it has just made. `NamedHomesKept` needs that the default user is active only
  when his name is known (`SeatGood`); that the configuration is one of the
  tables on disk, overridden or not (`DaemonGood`), bounds the names.
  `SettersReadBack` is about the operators of `Config`: one text of a table
  changes and no other (`StringSet`), the text of a number begins with that number
  (`NumberText`), and the conversions to `gint` and `guint` keep every number of
  their ranges (`NumbersFit`).

Proving found nothing wrong with the code that section 5 does not have, but
three things about the models: the users of `Accounts` have to include those
a template gives with a plugin that only the environment names; a W line that
names a directory and a file in it is outside of what `FileWatch` models; and
`CalmFinalOnce` holds of watchers with a failed inotify call as well, so it
is now stated for all.

**Model-checked only.** Liveness (`DisposeReturns`, `TerminateEnds`,
`LoopsReturn`, `AutoLoginKeepsSeat`, `QuitEnds`, `ScheduledAnswered`, `StopEnds`,
`CalmGetsThrough`, `OrphanCleansUp`, `LogoutEnds`): fairness is outside the
prover's reach. `SeatsApart`: what a template gives is a concatenation over its
words, hence an induction over data. Its names are sequences of texts; that two
of them run together to the same string is not looked for.

## 5. Disagreements between the code and what it says

* `requested_user`: `default_active` is reset by `tlm_seat_terminate_session`
  only. After the default user's session ended in error, `loginUser` for
  another user starts a session for the default user.
* `user_outlives`: the daemon sends SIGHUP, and sessiond passes it on and arms its
  own timer. Two timeouts later sessiond would send SIGKILL to a process that
  obeyed neither signal, but the daemon sends SIGKILL to sessiond then. The
  process runs on with its PAM session open and the seat is free for the next
  user. (The same comes of a second logout, whose SIGHUP has its default action
  in sessiond, and of a logout before the child's `setsid`.)
* `queue_stuck`: two calls arrive before the idle source runs.
  `_process_request` answers the first itself and schedules nothing; the second
  waits until a third call comes.

Seen while modelling, with no run of their own:

*Handles and seats.* Log out just as the user's process ends: sessiond reports
that over D-Bus before it exits; the seat drops the handle, whose dispose calls terminate
again and overwrites `timer_id`; the handle is freed and the first timer
fires with its address (`DanglingTimerFires`). sessiond dies before it answers
`sessionCreate`; the seat frees the handle; the failed call's callback then uses
it (`DanglingReplyArrives`). `_handle_error` does not look at `next_user`: a
session that ends in error while a switch is pending leaves the seat empty, and
the user switched to comes when some later session ends, against
`org.O1.Tlm.Login.xml`, "and login new user". `SeatOutlivesLogin` needs its exceptions, for
`tlm_manager_stop` and a watch do free a seat whose `tlm_seat_create_session`
waits in a nested loop; a switch that is refused and a login that is only
delayed are answered with success; `loginUser` on a seat's socket is not
answered; the comments above `_handle_seat_session_created` and
`_handle_seat_session_terminated` say that they complete requests, but
`ActiveInLoop` shows that a logout is complete before; `prev_dbus_observer` is always
NULL when it is set (`ObserverExported` shows it), against the comment above the
assignment; the default of `TERMINATE_TIMEOUT` is 3 in the code and 10 in
`tlm-config-general.h`; `AUTO_LOGIN` is on by default and "off" in `tlm.conf`.

*Stop.* SIGTERM while a login is under way; the login fails. `_handle_error` ends
the session without session-terminated, the seat stays in the manager's table
and the daemon does not end. `StopEnds` names the other two ways: SIGTERM in a
nested loop of `tlm_manager_start` (the quit comes before the main loop runs and
is lost), and a watch that adds its seat meanwhile.

*sessiond.* A failed `fork` is taken for a child with pid -1: session-created is
sent, `is_child_up` is set, nothing runs, and dispose waits for a child that does
not exist until the daemon kills sessiond, with the PAM session open. `putenv` is
given strings that are freed at once. With `PAUSE_SESSION`
a SIGHUP that was caught during authentication does not end `pause()`.

*Watcher and launcher.* Two W lines in a row, the file of the first exists: its
final report inside `tlm_utils_watch_for_files` adds an idle source although the
launcher reads on, and the source then continues the script past the second W
line, whose file does not exist ("Wait for socket ready before moving forward",
`tlm-launcher.c:134`), and so on from wait to wait; `CalmWaitsForFiles` without its
condition on `atOnce` fails in run `launcher`. This needs no file to appear at an
unlucky moment, nor does the next: a file that exists already
is not noticed when its directory has a list, as the second of two files of a
missing first one has (`W:d/s,d/t` with d and d/t there), and the wait never
ends; `CalmGetsThrough` without its condition on `Overlooks` fails, too. With
`calm` FALSE there is more.
One `read` takes all events and only the first is used,
so files that appear together may never be noticed; `is_final` is reported more than
once when several files are found in a directory that appeared, and the
manager's callback frees its closure at the first; a
directory that appears between the check for it and the check in the recursive
`_add_watch` is taken for the file, which is then reported without being there
(never while calm, as `FinalIsHonest` shows).
A child that cannot `exec` goes on with its parent's script. With `W:d,d/s` and d
missing, d is listed twice, as a file and as a directory; its one event takes
one of the two off and the wait never ends. If d appears between the
two checks, d is watched already when its event makes the callback watch it once
more, and inotify returns the same descriptor. The model's scripts exclude such a
line: it gives each watch a descriptor of its own.

*Configuration and accounts.* `tlm_config_get_string_default` returns NULL, not
the default, for a missing group, so an empty configuration loads no account
plugin; `DEFAULT_USER` of `[General]` is ignored for a seat that has a group of
its own; the default user's name is kept through reloads; a failed reload leaves an
empty table; `tlm_config_get_int` returns 0, not the default, for a text that is
no number; with `%S` the seats `seat1`, `seat01` and `seat1a` share a guest, and so
do all ids without the "seat" prefix, whose number is 0; a template
that ends in `%` is read past its end. A failed preparation is only logged; the
default plugin leaves hidden files (`rm -rf dir/*`) and takes every exit status for
success; a logout cleans the home of a session that still runs; a second SIGHUP
kills the daemon. The default auth plugin's SIGUSR1 asks for a switch without a
name, which `tlm_authenticate_user` always refuses.

## 6. What is left

The plan of proofs is carried out: every invariant and action property that a
run checks is a theorem, but for `SeatsApart` (section 4). Liveness stays with
TLC.

Not modelled: the X11 branch of the seat and the SeatNew and SeatRemoved handlers
(section 2); the directory scan for auth plugins; the P2P server's socket file;
the client, which makes one call and prints its answer; utmp entries, passwd
look-ups, command line splitting, environment, logging, errors and D-Bus
data, which wrap library calls or convert data and have no behaviour over time.
