------------------------------ MODULE Accounts ------------------------------
(***************************************************************************)
(* The accounts of the users who log in on one seat: the account plugin    *)
(* that the manager loads, at start and again on SIGHUP, and what its      *)
(* methods do to the default user's account when the seat announces his    *)
(* login and logout (prepare-user-login, prepare-user-logout).             *)
(*                                                                         *)
(* The seat is module Seat without session objects: a session is the name  *)
(* of its user, and a throttled login is one that comes later: LoginUser   *)
(* again, or DelayedSession for the default user.  A switch without a name *)
(* comes from the default auth plugin, on SIGUSR1.  The daemon has one     *)
(* thread, and the plugins wait for the commands they run, so a handler is *)
(* one step; sessions run beside it.                                       *)
(***************************************************************************)
EXTENDS Config, SequencesExt

CONSTANTS
    SeatIds,    \* ids of seats, cut after "seat" if they begin with that
    SeatId,     \* the seat modelled
    Named,      \* users who log in by name
    Installed   \* account plugins with a shared object to load

ASSUME AccountsAssumption ==
    /\ SeatId \in SeatIds
    /\ Installed \subseteq {"default", "gumd"}
    /\ Null \notin Named \cup {"default", "gumd"}

VARIABLES
    account_plugin, \* the plugin loaded, or Null
    daemon,         \* "armed" while SIGHUP has its handler
    seat,           \* struct _TlmSeatPrivate
    accounts,       \* user accounts and home directories
    login           \* history: how the session began

vars == <<disk, config, account_plugin, daemon, seat, accounts, login>>

-----------------------------------------------------------------------------
(* What the manager and the seat read from the configuration.              *)

AutoLogin == GetBoolean(config.config_table, General, "AUTO_LOGIN", TRUE)

PrepareDefault ==
    GetBoolean(config.config_table, General, "PREPARE_DEFAULT", FALSE)

\* _build_user_name: the number of a seat id is what atoi reads after "seat",
\* 0 if the id begins otherwise.
SeatNum(id) ==
    IF Head(id) = Word("seat") /\ Len(id) > 1 THEN Atoi(id[2]) ELSE 0

\* Mutant: %I gives the seat number as well.
BuildUserNameByNumber(template, id) ==
    FlattenSeq([i \in DOMAIN template |->
        IF template[i] \in {"%S", "%I"} THEN <<Number(SeatNum(id))>>
        ELSE <<Word(template[i])>>])

\* An escape other than %S and %I leaves nothing.
BuildUserName(template, id) ==
    FlattenSeq([i \in DOMAIN template |->
        CASE template[i] = "%S" -> <<Number(SeatNum(id))>>
          [] template[i] = "%I" -> id
          [] template[i] = "%?" -> <<>>
          [] OTHER -> <<Word(template[i])>>])

\* DEFAULT_USER of the seat's group, or of General if there is no such group.
NameTemplate(t, id) ==
    LET mine == GetStringDefault(t, id, "DEFAULT_USER", Word("guest")) IN
    IF mine # Null THEN mine
    ELSE GetStringDefault(t, General, "DEFAULT_USER", Word("guest"))

DefaultUser(t, id) ==
    LET template == NameTemplate(t, id) IN
    IF template = Null THEN Null ELSE BuildUserName(template.words, id)

\* The tables the configuration may hold: those of the files, or none, with
\* what the environment adds.
Tables == {LoadEnvironment([Cleaned EXCEPT !.config_table = t]).config_table :
                t \in Contents \cup {<<>>}}

Users == Named \cup ({DefaultUser(t, SeatId) : t \in Tables} \ {Null})

\* _load_plugin_file: the shared object opens and has the plugin's type.
LoadPluginFile(name) == IF name \in Installed THEN name ELSE Null

\* Mutant: the name is taken for the plugin.
LoadAccountsPluginUnchecked(t) ==
    LET name == GetStringDefault(t, General, "ACCOUNTS_PLUGIN",
                                 Word("default")) IN
    IF name = Null THEN Null ELSE Head(name.words)

\* _load_accounts_plugin with the name the configuration gives.
LoadAccountsPlugin(t) ==
    LET name == GetStringDefault(t, General, "ACCOUNTS_PLUGIN",
                                 Word("default")) IN
    IF name = Null THEN Null ELSE LoadPluginFile(Head(name.words))

-----------------------------------------------------------------------------
(* The methods of the plugins.  Each is the set of its outcomes: what it   *)
(* returns and what has become of the account a.  The default plugin runs  *)
(* a command and takes any exit status for success.                        *)

AccountType ==
    [exists : BOOLEAN, homedir : BOOLEAN, files : SUBSET {"plain", "hidden"}]

Outcome(ret, a) == [ret |-> ret, account |-> a]

\* is_valid_user; gumd may not answer.
DefaultIsValidUser(a) == {a.exists}
GumdIsValidUser(a) == {a.exists, FALSE}

IsValidUser(a) == IF account_plugin = "gumd" THEN GumdIsValidUser(a)
                                             ELSE DefaultIsValidUser(a)

\* setup_guest_user_account of the default plugin: useradd.
DefaultSetup(a) ==
    {Outcome(FALSE, a), Outcome(TRUE, a),
     Outcome(TRUE, [a EXCEPT !.exists = TRUE, !.homedir = TRUE])}

\* setup_guest_user_account of the gumd plugin.
GumdSetup(a) ==
    {Outcome(FALSE, a)} \cup
    {Outcome(TRUE, [a EXCEPT !.exists = TRUE, !.homedir = TRUE]) :
        new \in {TRUE} \ {a.exists}}

\* cleanup_guest_user of the default plugin: rm -rf of what "*" matches.
DefaultCleanup(a) ==
    IF ~a.exists THEN {Outcome(FALSE, a)}
    ELSE {Outcome(FALSE, a), Outcome(TRUE, a),
          Outcome(TRUE, [a EXCEPT !.files = @ \ {"plain"}])}

\* Mutant: the home directory is not deleted before it is created.
GumdCleanupKeepsFiles(a) ==
    IF ~a.exists THEN {Outcome(FALSE, a)}
    ELSE {Outcome(TRUE, [a EXCEPT !.homedir = TRUE])}

\* cleanup_guest_user of the gumd plugin: the home directory is deleted and
\* created again, either of which may fail.
GumdCleanup(a) ==
    IF ~a.exists THEN {Outcome(FALSE, a)}
    ELSE {Outcome(FALSE, a),
          Outcome(FALSE, [a EXCEPT !.homedir = FALSE, !.files = {}]),
          Outcome(TRUE, [a EXCEPT !.homedir = TRUE, !.files = {}])}

\* tlm_account_plugin_cleanup_guest_user.
CleanupGuestUser(a) ==
    CASE account_plugin = Null -> {Outcome(FALSE, a)}
      [] account_plugin = "default" -> DefaultCleanup(a)
      [] account_plugin = "gumd" -> GumdCleanup(a)

\* tlm_account_plugin_setup_guest_user_account.
SetupGuestUserAccount(a) ==
    IF account_plugin = "gumd" THEN GumdSetup(a) ELSE DefaultSetup(a)

\* tlm_manager_setup_guest_user.
SetupGuestUser(a) ==
    IF account_plugin = Null THEN {Outcome(FALSE, a)}
    ELSE UNION {IF valid THEN CleanupGuestUser(a)
                ELSE SetupGuestUserAccount(a) : valid \in IsValidUser(a)}

\* _prepare_user_login_cb and _prepare_user_logout_cb; a failure is logged.
PrepareUserLogin(u) ==
    IF PrepareDefault THEN SetupGuestUser(accounts[u])
    ELSE {Outcome(FALSE, accounts[u])}

PrepareUserLogout(u) ==
    IF PrepareDefault THEN CleanupGuestUser(accounts[u])
    ELSE {Outcome(FALSE, accounts[u])}

-----------------------------------------------------------------------------
(* The seat.                                                               *)

NoLogin == [by |-> Null, found |-> {}]

\* The session of u begins, or can't: no account, or no sessiond.
Begin(s, acc, u, by) ==
    \/ /\ u # Null
       /\ acc[u].exists
       /\ seat' = [s EXCEPT !.session = u]
       /\ login' = [by |-> by, found |-> acc[u].files]
    \/ seat' = s /\ login' = NoLogin

\* tlm_seat_create_session.
CreateSession(s, name) ==
    LET known == IF name = Null /\ s.default_user = Null
                 THEN DefaultUser(config.config_table, SeatId)
                 ELSE s.default_user
        t == [s EXCEPT !.default_user = known,
                       !.default_active = @ \/ (name = Null /\ known # Null)]
        user == IF t.default_active THEN known ELSE name IN
    \/ /\ s.session # Null
       /\ seat' = s /\ UNCHANGED <<accounts, login>>
    \/ /\ s.session = Null
       /\ seat' = [s EXCEPT !.delayed = @ \/ name = Null]
       /\ login' = NoLogin /\ UNCHANGED accounts
    \/ /\ s.session = Null
       /\ name # Null \/ known = Null
       /\ accounts' = accounts
       /\ Begin(t, accounts, user, Null)
    \/ /\ s.session = Null
       /\ name = Null /\ known # Null
       /\ \E o \in PrepareUserLogin(known) :
            /\ accounts' = [accounts EXCEPT ![known] = o.account]
            /\ Begin(t, accounts', user,
                     IF o.ret THEN account_plugin ELSE Null)

\* Mutant: whoever is logged in is prepared for logout.
TerminateSessionAnyUser(s) ==
    /\ seat' = [s EXCEPT !.default_active = FALSE]
    /\ IF s.session = Null THEN accounts' = accounts
       ELSE \E o \in PrepareUserLogout(s.session) :
                accounts' = [accounts EXCEPT ![s.session] = o.account]
    /\ UNCHANGED login

\* tlm_seat_terminate_session: the session ends later, or there is none.
TerminateSession(s) ==
    /\ seat' = [s EXCEPT !.default_active = FALSE]
    /\ IF ~s.default_active THEN accounts' = accounts
       ELSE \E o \in PrepareUserLogout(s.default_user) :
                accounts' = [accounts EXCEPT ![s.default_user] = o.account]
    /\ UNCHANGED login

Up == daemon # "dead"
Daemon == <<disk, config, account_plugin, daemon>>

\* _create_seat.
CreateSeat ==
    /\ Up /\ ~seat.created
    /\ LET s == [seat EXCEPT !.created = TRUE] IN
       IF AutoLogin THEN CreateSession(s, Null)
       ELSE seat' = s /\ UNCHANGED <<accounts, login>>
    /\ UNCHANGED Daemon

LoginUser(u) == Up /\ seat.created /\ CreateSession(seat, u) /\ UNCHANGED Daemon

LogoutUser == Up /\ seat.created /\ TerminateSession(seat) /\ UNCHANGED Daemon

\* tlm_authenticate_user: PAM says yes or no.
AuthenticateUser(u) == IF u = Null THEN {FALSE} ELSE {TRUE, FALSE}

\* tlm_seat_switch_user; without authentication the session goes on.
SwitchUser(u) ==
    /\ Up /\ seat.created
    /\ \E authenticated \in AuthenticateUser(u) :
        IF ~authenticated THEN UNCHANGED <<seat, accounts, login>>
        ELSE IF seat.session = Null THEN CreateSession(seat, u)
        ELSE TerminateSession([seat EXCEPT !.next_user = u])
    /\ UNCHANGED Daemon

\* _delayed_session.
DelayedSession ==
    /\ Up /\ seat.delayed
    /\ CreateSession([seat EXCEPT !.delayed = FALSE], Null)
    /\ UNCHANGED Daemon

\* _handle_session_terminated; _reset_next follows the login.
SessionTerminated ==
    LET s == [seat EXCEPT !.session = Null, !.next_user = Null] IN
    /\ Up /\ seat.session # Null
    /\ IF AutoLogin \/ seat.next_user # Null
       THEN CreateSession(s, seat.next_user)
       ELSE seat' = s /\ login' = NoLogin /\ UNCHANGED accounts
    /\ UNCHANGED Daemon

\* _handle_error.
SessionError == /\ Up /\ seat.session # Null
                /\ seat' = [seat EXCEPT !.session = Null]
                /\ login' = NoLogin
                /\ UNCHANGED <<Daemon, accounts>>

\* External: the session stores a file in its home directory.
Write(f) == /\ Up /\ seat.session # Null
            /\ accounts[seat.session].homedir
            /\ accounts' = [accounts EXCEPT ![seat.session].files = @ \cup {f}]
            /\ UNCHANGED <<Daemon, seat, login>>

\* _on_sighup_cb and tlm_manager_sighup_received.  The handler returns FALSE
\* and is gone.
Sighup == /\ daemon = "armed"
          /\ daemon' = "unarmed"
          /\ Reload
          /\ account_plugin' = LoadAccountsPlugin(config'.config_table)
          /\ UNCHANGED <<disk, seat, accounts, login>>

\* External: SIGHUP has its default action again.
SighupAgain == /\ daemon = "unarmed"
               /\ daemon' = "dead"
               /\ UNCHANGED <<disk, config, account_plugin>>
               /\ UNCHANGED <<seat, accounts, login>>

EditFile(p, f) == /\ daemon = "armed"
                  /\ Edit(p, f)
                  /\ UNCHANGED <<account_plugin, daemon, seat, accounts, login>>

\* tlm_manager_init; the guests' homes are as earlier runs left them.
AccountsInit ==
    /\ ConfigInit
    /\ account_plugin = LoadAccountsPlugin(config.config_table)
    /\ daemon = "armed"
    /\ seat = [created |-> FALSE, session |-> Null, default_user |-> Null,
               default_active |-> FALSE, next_user |-> Null, delayed |-> FALSE]
    /\ accounts \in [Users -> {a \in AccountType : a.exists = a.homedir
                                        /\ (a.exists \/ a.files = {})}]
    /\ \A u \in Named : accounts[u].exists /\ accounts[u].files = {}
    /\ login = NoLogin

AccountsNext ==
    \/ CreateSeat
    \/ \E u \in Named : LoginUser(u)
    \/ \E u \in Named \cup {Null} : SwitchUser(u)
    \/ LogoutUser
    \/ DelayedSession
    \/ SessionTerminated
    \/ SessionError
    \/ \E f \in {"plain", "hidden"} : Write(f)
    \/ Sighup
    \/ SighupAgain
    \/ \E p \in DOMAIN disk, f \in Files : EditFile(p, f)

AccountsSpec == AccountsInit /\ [][AccountsNext]_vars

-----------------------------------------------------------------------------
(* Properties.                                                             *)

\* Type invariant.
AccountsTypeOK ==
    /\ config.config_file_path \in DOMAIN disk \cup {Null}
    /\ account_plugin \in Installed \cup {Null}
    /\ daemon \in {"armed", "unarmed", "dead"}
    /\ seat \in [created : BOOLEAN, session : Users \cup {Null},
                 default_user : Users \cup {Null}, default_active : BOOLEAN,
                 next_user : Named \cup {Null}, delayed : BOOLEAN]
    /\ accounts \in [Users -> AccountType]
    /\ login \in [by : Installed \cup {Null},
                  found : SUBSET {"plain", "hidden"}]

\* A guest whose login the gumd plugin has prepared finds nothing of the
\* guests before him, whether they logged out, died or were cut off by an
\* error, whether or not the account existed, and whatever was reloaded or
\* failed in between.  (The default plugin promises less: rm -rf leaves the
\* hidden files, and its failure passes for success.)
GuestStartsClean == login.by = "gumd" => login.found = {}

\* Only the account of a guest is ever cleaned: files go from a home
\* directory only on a seat where the default user is active, and only from
\* that user's; a user who logged in by name keeps his.
NamedHomesKept ==
    [][\A u \in Users : ~(accounts[u].files \subseteq accounts'[u].files) =>
            /\ u = seat'.default_user
            /\ seat.default_active \/ seat'.default_active]_vars

\* What a setter stores the getter of the same type reads back, over the
\* whole range of the type, and no other key of the table changes, the same
\* key of other groups included.
ReadsBack ==
    LET t == config.config_table
        Kept(new, group, key) ==
            \A g \in DOMAIN t : \A k \in DOMAIN t[g] :
                <<g, k>> # <<group, key>> => GetString(new, g, k) = t[g][k] IN
    \A g \in {General, SeatId} :
        /\ \A n \in Ints : LET new == SetInt(t, g, "VTNR", n) IN
            GetInt(new, g, "VTNR", 7) = n /\ Kept(new, g, "VTNR")
        /\ \A n \in Uints : LET new == SetUint(t, g, "VTNR", n) IN
            GetUint(new, g, "VTNR", 7) = n /\ Kept(new, g, "VTNR")
        /\ \A b \in BOOLEAN : LET new == SetBoolean(t, g, "VTNR", b) IN
            GetBoolean(new, g, "VTNR", ~b) = b /\ Kept(new, g, "VTNR")

\* Id n of the seats that NSEATS makes.
VirtualSeat(n) == <<Word("seat"), Number(n)>>
VirtualSeats == {VirtualSeat(n) : n \in Uints}

\* Which seats share a default user, so that the login of one guest cleans
\* the home directory under the session of the other.  With the same template
\* two seats do exactly when it has no %I and, if it has %S, atoi finds the
\* same number in their ids: seat1 and seat01 or seat1a, and every two ids
\* that do not begin with "seat".  The seats of NSEATS never share a %S,
\* also where their unsigned numbers turn negative in atoi's int.
SeatsApart ==
    LET t == config.config_table IN
    \A i, j \in {[id |-> id, num |-> SeatNum(id), user |-> DefaultUser(t, id),
                  template |-> NameTemplate(t, id)] :
                        id \in SeatIds \cup VirtualSeats} :
        LET escapes == Range(i.template.words)
            shared == /\ "%I" \notin escapes
                      /\ "%S" \in escapes => i.num = j.num IN
        i # j /\ i.template # Null /\ i.template = j.template =>
            /\ i.user = j.user <=> shared
            /\ {i.id, j.id} \subseteq VirtualSeats /\ "%S" \in escapes
                    => ~shared
=============================================================================
