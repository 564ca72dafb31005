--------------------------- MODULE AccountsProofs ---------------------------
(***************************************************************************)
(* Proofs about the accounts of the users of a seat, for any configuration *)
(* files, plugins, seat ids and users, and whether or not the environment  *)
(* names a plugin.  AccountsInv is inductive.                              *)
(***************************************************************************)
EXTENDS Accounts, TLAPS, WellFoundedInduction

-----------------------------------------------------------------------------
(* The configuration.                                                      *)

\* The places _load_config looks at.
PlaceSet == {Places[i] : i \in DOMAIN Places}

\* Min finds the least of a set of positions.
LEMMA MinFound ==
    ASSUME NEW S \in SUBSET Nat, S # {}
    PROVE  Min(S) \in S
<1> DEFINE R == {ss \in Nat \X Nat : ss[1] < ss[2]}
<1>1. IsWellFoundedOn(R, Nat)
  BY NatLessThanWellFounded, Zenon DEF OpToRel
<1>2. PICK x \in S : \A y \in S : ~(<<y, x>> \in R)
  <2> HIDE DEF R
  <2> QED  BY <1>1, WFMin
<1>3. \A y \in S : x <= y
  <2>1. ASSUME NEW y \in S, y < x PROVE <<y, x>> \in R
    <3>1. <<y, x>> \in Nat \X Nat
      OBVIOUS
    <3>2. <<y, x>>[1] = y /\ <<y, x>>[2] = x
      OBVIOUS
    <3>3. QED
      BY <2>1, <3>1, <3>2, Zenon
  <2> HIDE DEF R
  <2>2. \A y \in S : ~(y < x)
    BY <1>2, <2>1, Zenon
  <2>3. QED
    BY <2>2
<1>4. QED
  BY <1>3 DEF Min

\* _load_config ends with a place that it has looked at, or none.
LEMMA PathFound ==
    ASSUME NEW d
    PROVE  \/ ConfigFilePath(d) = Null
           \/ /\ ConfigFilePath(d) \in PlaceSet
              /\ d[ConfigFilePath(d)] # Unreadable
<1> DEFINE readable == {i \in DOMAIN Places : d[Places[i]] # Unreadable}
<1>1. CASE readable = {}
  BY <1>1 DEF ConfigFilePath
<1>2. CASE readable # {}
  <2>1. readable \subseteq Nat
    BY ConfigAssumption
  <2>2. Min(readable) \in readable
    BY <1>2, <2>1, MinFound
  <2>3. ConfigFilePath(d) = Places[Min(readable)]
    BY <1>2 DEF ConfigFilePath
  <2>4. QED
    BY <2>2, <2>3 DEF PlaceSet
<1>3. QED
  BY <1>1, <1>2

\* _initialize makes one of the tables, from one of the places.
LEMMA InitializeTyped ==
    ASSUME NEW d \in [PlaceSet -> Files]
    PROVE  /\ Initialize(d).config_file_path \in PlaceSet \cup {Null}
           /\ Initialize(d).config_table \in Tables
<1> DEFINE c == LoadConfig(d)
<1>1. /\ c = [config_file_path |-> c.config_file_path,
              config_table |-> c.config_table]
      /\ c.config_file_path \in PlaceSet \cup {Null}
      /\ c.config_table \in Contents \cup {<<>>}
  BY PathFound DEF LoadConfig, Cleaned, Files
<1> HIDE DEF c
<1>2. /\ LoadEnvironment(c).config_file_path = c.config_file_path
      /\ LoadEnvironment(c).config_table =
            LoadEnvironment([Cleaned EXCEPT !.config_table =
                                c.config_table]).config_table
  BY <1>1 DEF LoadEnvironment, Cleaned
<1>3. QED
  BY <1>1, <1>2 DEF Initialize, Tables, c

\* The user of a seat without a name, if the configuration gives one.
LEMMA DefaultUserKnown ==
    ASSUME NEW t \in Tables
    PROVE  DefaultUser(t, SeatId) \in Users \cup {Null}
BY DEF Users

-----------------------------------------------------------------------------
(* What the plugins make of an account.                                    *)

\* An account that does not exist has no home directory and no files.
Tidy(a) == a \in AccountType /\ (~a.exists => ~a.homedir /\ a.files = {})

\* Every outcome is a tidy account, and gumd reports success only over an
\* empty home directory.
Sure(o) == /\ Tidy(o.account) /\ o.ret \in BOOLEAN
           /\ account_plugin = "gumd" /\ o.ret => o.account.files = {}

\* How an outcome is sure.
LEMMA SureOutcome ==
    ASSUME NEW b, Tidy(b), NEW r \in BOOLEAN,
           account_plugin = "gumd" /\ r => b.files = {}
    PROVE  Sure(Outcome(r, b))
BY DEF Outcome, Sure

\* useradd, rm -rf, and what gumd does to a home directory.
LEMMA AccountChanges ==
    ASSUME NEW a, Tidy(a)
    PROVE  LET new == [a EXCEPT !.exists = TRUE, !.homedir = TRUE]
               less == [a EXCEPT !.files = a.files \ {"plain"}]
               gone == [a EXCEPT !.homedir = FALSE, !.files = {}]
               empty == [a EXCEPT !.homedir = TRUE, !.files = {}] IN
           /\ Tidy(new) /\ new.files = a.files
           /\ a.exists => /\ Tidy(less) /\ Tidy(gone) /\ Tidy(empty)
                          /\ empty.files = {}
BY DEF Tidy, AccountType

\* tlm_account_plugin_cleanup_guest_user, with any plugin.
LEMMA CleanupSure ==
    ASSUME NEW a, Tidy(a), account_plugin \in Installed \cup {Null},
           NEW o \in CleanupGuestUser(a)
    PROVE  Sure(o)
<1>1. ASSUME account_plugin = Null PROVE Sure(o)
  <2>1. o = Outcome(FALSE, a)
    BY <1>1, AccountsAssumption DEF CleanupGuestUser
  <2>2. QED
    BY <2>1 DEF Outcome, Sure
<1>2. ASSUME account_plugin = "default" PROVE Sure(o)
  <2>1. o \in DefaultCleanup(a)
    BY <1>2, AccountsAssumption DEF CleanupGuestUser
  <2>2. QED
    BY <1>2, <2>1, SureOutcome, AccountChanges DEF DefaultCleanup
<1>3. ASSUME account_plugin = "gumd" PROVE Sure(o)
  <2>1. o \in GumdCleanup(a)
    BY <1>3, AccountsAssumption DEF CleanupGuestUser
  <2>2. QED
    <3>1. CASE ~a.exists
      BY <2>1, <3>1, SureOutcome DEF GumdCleanup
    <3>2. CASE a.exists
      <4> DEFINE gone == [a EXCEPT !.homedir = FALSE, !.files = {}]
                 empty == [a EXCEPT !.homedir = TRUE, !.files = {}]
      <4>1. Tidy(gone) /\ Tidy(empty) /\ empty.files = {}
        BY <3>2, AccountChanges
      <4>2. o \in {Outcome(FALSE, a), Outcome(FALSE, gone),
                   Outcome(TRUE, empty)}
        BY <2>1, <3>2 DEF GumdCleanup
      <4> HIDE DEF gone, empty
      <4>3. QED
        BY <4>1, <4>2, SureOutcome
    <3>3. QED
      BY <3>1, <3>2
<1>4. QED
  BY <1>1, <1>2, <1>3, AccountsAssumption

\* tlm_manager_setup_guest_user, whether or not the account is found.
LEMMA SetupSure ==
    ASSUME NEW a, Tidy(a), account_plugin \in Installed \cup {Null},
           NEW o \in SetupGuestUser(a)
    PROVE  Sure(o)
<1>1. ASSUME o \in SetupGuestUserAccount(a) PROVE Sure(o)
  <2>1. CASE account_plugin = "gumd"
    <3>1. \/ o = Outcome(FALSE, a)
          \/ /\ ~a.exists
             /\ o = Outcome(TRUE, [a EXCEPT !.exists = TRUE, !.homedir = TRUE])
      BY <1>1, <2>1 DEF SetupGuestUserAccount, GumdSetup, Tidy, AccountType
    <3>2. QED
      BY <3>1, SureOutcome, AccountChanges DEF Tidy
  <2>2. CASE account_plugin # "gumd"
    BY <1>1, <2>2, SureOutcome, AccountChanges
       DEF SetupGuestUserAccount, DefaultSetup
  <2>3. QED
    BY <2>1, <2>2
<1>2. ASSUME account_plugin = Null PROVE Sure(o)
  <2>1. o = Outcome(FALSE, a)
    BY <1>2 DEF SetupGuestUser
  <2>2. QED
    BY <1>2, <2>1, AccountsAssumption DEF Outcome, Sure
<1>3. QED
  BY <1>1, <1>2, CleanupSure DEF SetupGuestUser

\* prepare-user-login and prepare-user-logout leave the account tidy.
LEMMA PrepareSure ==
    ASSUME NEW u, Tidy(accounts[u]), account_plugin \in Installed \cup {Null},
           NEW o \in PrepareUserLogin(u) \cup PrepareUserLogout(u)
    PROVE  Sure(o)
<1>1. CASE PrepareDefault
  BY <1>1, CleanupSure, SetupSure DEF PrepareUserLogin, PrepareUserLogout
<1>2. CASE ~PrepareDefault
  <2>1. o = Outcome(FALSE, accounts[u])
    BY <1>2 DEF PrepareUserLogin, PrepareUserLogout
  <2>2. QED
    BY <2>1, SureOutcome
<1>3. QED
  BY <1>1, <1>2

-----------------------------------------------------------------------------
(* The inductive invariant.                                                *)

\* The seat is well typed, and the default user is active only when known.
SeatGood(s) ==
    /\ s \in [created : BOOLEAN, session : Users \cup {Null},
              default_user : Users \cup {Null}, default_active : BOOLEAN,
              next_user : Named \cup {Null}, delayed : BOOLEAN]
    /\ s.default_active => s.default_user # Null

\* Every account is tidy.
AccountsGood(acc) ==
    /\ acc \in [Users -> AccountType]
    /\ \A u \in Users : Tidy(acc[u])

\* A login gumd has prepared found nothing.
LoginGood(l) ==
    /\ l \in [by : Installed \cup {Null}, found : SUBSET {"plain", "hidden"}]
    /\ l.by = "gumd" => l.found = {}

\* What the manager keeps: one of the tables, and a plugin that is installed.
DaemonGood ==
    /\ disk \in [PlaceSet -> Files]
    /\ config.config_file_path \in PlaceSet \cup {Null}
    /\ config.config_table \in Tables
    /\ account_plugin \in Installed \cup {Null}
    /\ daemon \in {"armed", "unarmed", "dead"}

\* GuestStartsClean is part of it; it is Tidy that makes it inductive, as gumd
\* does not look at the home directory of an account it has just made.
AccountsInv ==
    /\ DaemonGood /\ SeatGood(seat) /\ AccountsGood(accounts)
    /\ LoginGood(login)

\* What a handler does to the seat, the accounts and the history; files only
\* go from the home of the default user, and only when he is active.
HandlerGood ==
    /\ SeatGood(seat') /\ AccountsGood(accounts') /\ LoginGood(login')
    /\ \A u \in Users :
        \/ accounts[u].files \subseteq accounts'[u].files
        \/ /\ u = seat'.default_user
           /\ seat.default_active \/ seat'.default_active

\* A seat without a session.
LEMMA NoLoginGood == LoginGood(NoLogin)
BY AccountsAssumption DEF LoginGood, NoLogin

\* A session begins, or can't, over accounts that are good.
LEMMA BeginGood ==
    ASSUME NEW s, SeatGood(s), NEW acc, AccountsGood(acc),
           NEW u \in Users \cup {Null}, NEW by \in Installed \cup {Null},
           by = "gumd" /\ u # Null => acc[u].files = {},
           Begin(s, acc, u, by)
    PROVE  /\ SeatGood(seat') /\ LoginGood(login')
           /\ seat'.default_user = s.default_user
           /\ seat'.default_active = s.default_active
<1>1. CASE /\ u # Null /\ acc[u].exists
           /\ seat' = [s EXCEPT !.session = u]
           /\ login' = [by |-> by, found |-> acc[u].files]
  <2>1. u \in Users
    BY <1>1
  <2>2. acc[u].files \in SUBSET {"plain", "hidden"}
    BY <2>1 DEF AccountsGood, AccountType
  <2>3. LoginGood(login')
    BY <1>1, <2>2 DEF LoginGood
  <2>4. QED
    BY <1>1, <2>3 DEF SeatGood
<1>2. CASE seat' = s /\ login' = NoLogin
  BY <1>2, NoLoginGood
<1>3. QED
  BY <1>1, <1>2 DEF Begin

\* tlm_seat_create_session, from any caller.
LEMMA CreateSessionGood ==
    ASSUME AccountsInv, NEW s, SeatGood(s), NEW name \in Named \cup {Null},
           CreateSession(s, name)
    PROVE  HandlerGood
<1> DEFINE known == IF name = Null /\ s.default_user = Null
                    THEN DefaultUser(config.config_table, SeatId)
                    ELSE s.default_user
           active == s.default_active \/ (name = Null /\ known # Null)
           t == [s EXCEPT !.default_user = known, !.default_active = active]
           user == IF t.default_active THEN known ELSE name
<1>1. known \in Users \cup {Null} /\ active \in BOOLEAN
  BY DefaultUserKnown DEF AccountsInv, DaemonGood, SeatGood
<1>2. active => known # Null
  BY DEF SeatGood
<1>3. CreateSession(s, name) <=>
      \/ /\ s.session # Null
         /\ seat' = s /\ UNCHANGED <<accounts, login>>
      \/ /\ s.session = Null
         /\ seat' = [s EXCEPT !.delayed = @ \/ name = Null]
         /\ login' = NoLogin /\ UNCHANGED accounts
      \/ /\ s.session = Null
         /\ name # Null \/ known = Null
         /\ accounts' = accounts
         /\ Begin(t, accounts, user, Null)
      \/ /\ s.session = Null
         /\ name = Null /\ known # Null
         /\ \E o \in PrepareUserLogin(known) :
              /\ accounts' = [accounts EXCEPT ![known] = o.account]
              /\ Begin(t, accounts', user,
                       IF o.ret THEN account_plugin ELSE Null)
  BY DEF CreateSession
<1> HIDE DEF known, active
<1>4. /\ SeatGood(t) /\ t.default_user = known /\ t.default_active = active
      /\ user \in Users \cup {Null}
  BY <1>1, <1>2 DEF SeatGood, Users
<1> HIDE DEF t, user
<1>5. CASE s.session # Null /\ seat' = s /\ UNCHANGED <<accounts, login>>
  BY <1>5 DEF HandlerGood, AccountsInv
<1>6. CASE /\ seat' = [s EXCEPT !.delayed = @ \/ name = Null]
           /\ login' = NoLogin /\ UNCHANGED accounts
  <2> DEFINE d == s.delayed \/ name = Null
  <2>1. d \in BOOLEAN
    OBVIOUS
  <2> HIDE DEF d
  <2>2. SeatGood([s EXCEPT !.delayed = d])
    BY <2>1 DEF SeatGood
  <2>3. QED
    BY <1>6, <2>2, NoLoginGood DEF HandlerGood, AccountsInv, d
<1>7. CASE /\ name # Null \/ known = Null
           /\ accounts' = accounts
           /\ Begin(t, accounts, user, Null)
  BY <1>4, <1>7, BeginGood, AccountsAssumption DEF HandlerGood, AccountsInv
<1>8. CASE /\ name = Null /\ known # Null
           /\ \E o \in PrepareUserLogin(known) :
                /\ accounts' = [accounts EXCEPT ![known] = o.account]
                /\ Begin(t, accounts', user,
                         IF o.ret THEN account_plugin ELSE Null)
  <2>1. PICK o \in PrepareUserLogin(known) :
                /\ accounts' = [accounts EXCEPT ![known] = o.account]
                /\ Begin(t, accounts', user,
                         IF o.ret THEN account_plugin ELSE Null)
    BY <1>8
  <2> DEFINE by == IF o.ret THEN account_plugin ELSE Null
  <2>2. known \in Users
    BY <1>1, <1>8
  <2>3. Sure(o)
    BY <2>2, PrepareSure DEF AccountsInv, DaemonGood, AccountsGood
  <2>4. /\ AccountsGood(accounts') /\ accounts'[known] = o.account
        /\ \A v \in Users : v # known => accounts'[v] = accounts[v]
    <3>1. Tidy(o.account) /\ AccountsGood(accounts)
      BY <2>3 DEF AccountsInv, Sure
    <3>2. QED
      BY <2>1, <2>2, <3>1 DEF AccountsGood, Tidy
  <2>5. active
    BY <1>8 DEF active
  <2>6. user = known
    BY <1>4, <2>5 DEF user
  <2>7. /\ by \in Installed \cup {Null}
        /\ by = "gumd" => accounts'[known].files = {}
    BY <2>3, <2>4, AccountsAssumption DEF Sure, AccountsInv, DaemonGood
  <2> HIDE DEF by
  <2>8. Begin(t, accounts', user, by)
    BY <2>1 DEF by
  <2>9. /\ SeatGood(seat') /\ LoginGood(login')
        /\ seat'.default_user = known /\ seat'.default_active
    BY <1>4, <2>4, <2>5, <2>6, <2>7, <2>8, BeginGood
  <2>10. QED
    BY <2>4, <2>9 DEF HandlerGood
<1>9. QED
  BY <1>3, <1>5, <1>6, <1>7, <1>8

\* tlm_seat_terminate_session.
LEMMA TerminateSessionGood ==
    ASSUME AccountsInv, NEW s, SeatGood(s),
           s.default_active = seat.default_active, TerminateSession(s)
    PROVE  HandlerGood
<1>1. SeatGood(seat') /\ seat'.default_user = s.default_user
  BY DEF TerminateSession, SeatGood
<1>2. LoginGood(login')
  BY DEF TerminateSession, AccountsInv
<1>3. CASE ~s.default_active
  BY <1>1, <1>2, <1>3 DEF TerminateSession, HandlerGood, AccountsInv
<1>4. CASE s.default_active
  <2> DEFINE u == s.default_user
  <2>1. u \in Users
    BY <1>4 DEF SeatGood
  <2>2. PICK o \in PrepareUserLogout(u) :
            accounts' = [accounts EXCEPT ![u] = o.account]
    BY <1>4 DEF TerminateSession
  <2>3. Sure(o)
    BY <2>1, PrepareSure DEF AccountsInv, DaemonGood, AccountsGood
  <2> HIDE DEF u
  <2>4. /\ AccountsGood(accounts')
        /\ \A v \in Users : v # u => accounts'[v] = accounts[v]
    <3>1. Tidy(o.account) /\ AccountsGood(accounts)
      BY <2>3 DEF AccountsInv, Sure
    <3>2. QED
      BY <2>1, <2>2, <3>1 DEF AccountsGood, Tidy
  <2>5. QED
    BY <1>1, <1>2, <1>4, <2>4 DEF HandlerGood, u
<1>5. QED
  BY <1>3, <1>4 DEF SeatGood

\* A handler that leaves the daemon alone keeps the invariant.
LEMMA HandlerKeeps ==
    ASSUME AccountsInv, HandlerGood, UNCHANGED Daemon
    PROVE  AccountsInv'
BY DEF AccountsInv, HandlerGood, DaemonGood, Daemon, SeatGood, AccountsGood,
       LoginGood, Tidy

\* Nothing is done to the seat or the accounts.
LEMMA IdleGood ==
    ASSUME AccountsInv, UNCHANGED <<seat, accounts, login>>
    PROVE  HandlerGood
BY DEF AccountsInv, HandlerGood

\* Another value of one of the seat's fields.
LEMMA SeatFields ==
    ASSUME NEW s, SeatGood(s)
    PROVE  /\ SeatGood([s EXCEPT !.created = TRUE])
           /\ SeatGood([s EXCEPT !.delayed = FALSE])
           /\ SeatGood([s EXCEPT !.session = Null])
           /\ SeatGood([s EXCEPT !.session = Null, !.next_user = Null])
           /\ \A u \in Named \cup {Null} :
                /\ SeatGood([s EXCEPT !.next_user = u])
                /\ [s EXCEPT !.next_user = u].default_active = s.default_active
BY DEF SeatGood

\* The handlers of the seat, those that log in and out.
LEMMA SeatHandlersGood ==
    ASSUME AccountsInv,
           \/ CreateSeat
           \/ \E u \in Named : LoginUser(u)
           \/ \E u \in Named \cup {Null} : SwitchUser(u)
           \/ LogoutUser
           \/ DelayedSession
           \/ SessionTerminated
    PROVE  HandlerGood /\ UNCHANGED Daemon
<1>1. SeatGood(seat)
  BY DEF AccountsInv
<1>2. CASE CreateSeat
  <2> DEFINE s == [seat EXCEPT !.created = TRUE]
  <2>1. SeatGood(s)
    BY <1>1, SeatFields
  <2>2. /\ UNCHANGED Daemon
        /\ \/ CreateSession(s, Null)
           \/ seat' = s /\ UNCHANGED <<accounts, login>>
    BY <1>2 DEF CreateSeat
  <2> HIDE DEF s
  <2>3. QED
    BY <2>1, <2>2, CreateSessionGood DEF HandlerGood, AccountsInv
<1>3. CASE \E u \in Named : LoginUser(u)
  BY <1>1, <1>3, CreateSessionGood DEF LoginUser
<1>4. CASE \E u \in Named \cup {Null} : SwitchUser(u)
  <2>1. PICK u \in Named \cup {Null} : SwitchUser(u)
    BY <1>4
  <2> DEFINE s == [seat EXCEPT !.next_user = u]
  <2>2. SeatGood(s) /\ s.default_active = seat.default_active
    BY <1>1, SeatFields
  <2>3. /\ UNCHANGED Daemon
        /\ \/ UNCHANGED <<seat, accounts, login>>
           \/ CreateSession(seat, u)
           \/ TerminateSession(s)
    BY <2>1 DEF SwitchUser
  <2> HIDE DEF s
  <2>4. QED
    BY <1>1, <2>2, <2>3, CreateSessionGood, TerminateSessionGood, IdleGood
<1>5. CASE LogoutUser
  BY <1>1, <1>5, TerminateSessionGood DEF LogoutUser
<1>6. CASE DelayedSession
  <2> DEFINE s == [seat EXCEPT !.delayed = FALSE]
  <2>1. SeatGood(s) /\ CreateSession(s, Null) /\ UNCHANGED Daemon
    BY <1>1, <1>6, SeatFields DEF DelayedSession
  <2> HIDE DEF s
  <2>2. QED
    BY <2>1, CreateSessionGood
<1>7. CASE SessionTerminated
  <2> DEFINE s == [seat EXCEPT !.session = Null, !.next_user = Null]
  <2>1. SeatGood(s) /\ seat.next_user \in Named \cup {Null}
    BY <1>1, SeatFields DEF SeatGood
  <2>2. /\ UNCHANGED Daemon
        /\ \/ CreateSession(s, seat.next_user)
           \/ seat' = s /\ login' = NoLogin /\ UNCHANGED accounts
    BY <1>7 DEF SessionTerminated
  <2> HIDE DEF s
  <2>3. QED
    BY <2>1, <2>2, CreateSessionGood, NoLoginGood DEF HandlerGood, AccountsInv
<1>8. QED
  BY <1>2, <1>3, <1>4, <1>5, <1>6, <1>7

\* _handle_error, and the session's own writing.
LEMMA SessionGood ==
    ASSUME AccountsInv,
           SessionError \/ \E f \in {"plain", "hidden"} : Write(f)
    PROVE  HandlerGood /\ UNCHANGED Daemon
<1>1. CASE SessionError
  BY <1>1, SeatFields, NoLoginGood DEF SessionError, HandlerGood, AccountsInv
<1>2. CASE \E f \in {"plain", "hidden"} : Write(f)
  <2>1. PICK f \in {"plain", "hidden"} : Write(f)
    BY <1>2
  <2> DEFINE u == seat.session
             a == [accounts[u] EXCEPT !.files = @ \cup {f}]
  <2>2. u \in Users /\ accounts[u].homedir /\ Tidy(accounts[u])
    BY <2>1 DEF Write, AccountsInv, SeatGood, AccountsGood
  <2>3. Tidy(a) /\ accounts[u].files \subseteq a.files
    BY <2>2 DEF Tidy, AccountType
  <2>4. /\ accounts' = [accounts EXCEPT ![u] = a]
        /\ UNCHANGED <<Daemon, seat, login>>
    BY <2>1, <2>2 DEF Write, AccountsInv, AccountsGood
  <2> HIDE DEF u, a
  <2>5. /\ AccountsGood(accounts')
        /\ \A v \in Users : accounts[v].files \subseteq accounts'[v].files
    BY <2>2, <2>3, <2>4 DEF AccountsInv, AccountsGood, Tidy
  <2>6. QED
    BY <2>4, <2>5 DEF HandlerGood, AccountsInv
<1>3. QED
  BY <1>1, <1>2

\* The configuration and the plugin change, the seat does not.
LEMMA DaemonStep ==
    ASSUME AccountsInv,
           \/ Sighup
           \/ SighupAgain
           \/ \E p \in DOMAIN disk, f \in Files : EditFile(p, f)
    PROVE  HandlerGood /\ DaemonGood'
<1>1. UNCHANGED <<seat, accounts, login>>
  BY DEF Sighup, SighupAgain, EditFile
<1>2. HandlerGood
  BY <1>1, IdleGood
<1>3. DaemonGood
  BY DEF AccountsInv
<1>4. CASE Sighup
  <2>1. config' = Initialize(disk) /\ disk' = disk
    BY <1>4 DEF Sighup, Reload
  <2>2. /\ config'.config_file_path \in PlaceSet \cup {Null}
        /\ config'.config_table \in Tables
    BY <1>3, <2>1, InitializeTyped DEF DaemonGood
  <2>3. account_plugin' \in Installed \cup {Null}
    BY <1>4 DEF Sighup, LoadAccountsPlugin, LoadPluginFile
  <2>4. QED
    BY <1>2, <1>3, <1>4, <2>1, <2>2, <2>3 DEF DaemonGood, Sighup
<1>5. CASE SighupAgain
  BY <1>2, <1>3, <1>5 DEF DaemonGood, SighupAgain
<1>6. CASE \E p \in DOMAIN disk, f \in Files : EditFile(p, f)
  BY <1>2, <1>3, <1>6 DEF DaemonGood, EditFile, Edit
<1>7. QED
  BY <1>4, <1>5, <1>6

\* Every step keeps the parts of the invariant.
LEMMA StepGood ==
    ASSUME AccountsInv, [AccountsNext]_vars
    PROVE  HandlerGood /\ AccountsInv'
<1>1. CASE HandlerGood /\ DaemonGood'
  BY <1>1 DEF HandlerGood, AccountsInv, SeatGood, AccountsGood, LoginGood, Tidy
<1>2. CASE UNCHANGED vars
  BY <1>2, IdleGood, HandlerKeeps DEF vars, Daemon
<1>3. QED
  BY <1>1, <1>2, SeatHandlersGood, SessionGood, DaemonStep, HandlerKeeps
     DEF AccountsNext

\* The daemon starts with the configuration it finds.
LEMMA StartGood == AccountsInit => AccountsInv
<1> SUFFICES ASSUME AccountsInit PROVE AccountsInv
  OBVIOUS
<1>1. disk \in [PlaceSet -> Files] /\ config = Initialize(disk)
  BY DEF AccountsInit, ConfigInit, PlaceSet
<1>2. DaemonGood
  <2>1. account_plugin \in Installed \cup {Null}
    BY DEF AccountsInit, LoadAccountsPlugin, LoadPluginFile
  <2>2. QED
    BY <1>1, <2>1, InitializeTyped DEF DaemonGood, AccountsInit
<1>3. SeatGood(seat)
  BY DEF AccountsInit, SeatGood
<1>4. AccountsGood(accounts)
  BY DEF AccountsInit, AccountsGood, Tidy, AccountType
<1>5. QED
  BY <1>2, <1>3, <1>4, NoLoginGood DEF AccountsInv, AccountsInit

\* AccountsInv holds throughout.
LEMMA AlwaysAccountsInv == AccountsSpec => []AccountsInv
BY StartGood, StepGood, PTL DEF AccountsSpec

\* The state of the accounts, the seat and the configuration is well typed.
THEOREM AccountsTypeCorrect == AccountsSpec => []AccountsTypeOK
<1>1. AccountsInv => AccountsTypeOK
  BY DEF AccountsInv, AccountsTypeOK, DaemonGood, SeatGood, AccountsGood,
         LoginGood
<1>2. QED
  BY <1>1, AlwaysAccountsInv, PTL

\* A guest whose login the gumd plugin has prepared finds nothing of the
\* guests before him (tlm_manager_setup_guest_user, _cleanup_guest_user).
THEOREM GuestsStartClean == AccountsSpec => []GuestStartsClean
<1>1. AccountsInv => GuestStartsClean
  BY DEF AccountsInv, LoginGood, GuestStartsClean
<1>2. QED
  BY <1>1, AlwaysAccountsInv, PTL

\* Files go only from the home directory of an active default user
\* (_prepare_user_login_cb, _prepare_user_logout_cb).
THEOREM OtherHomesKept == AccountsSpec => NamedHomesKept
<1> DEFINE A == \A u \in Users :
                    ~(accounts[u].files \subseteq accounts'[u].files) =>
                        /\ u = seat'.default_user
                        /\ seat.default_active \/ seat'.default_active
<1>1. AccountsInv /\ [AccountsNext]_vars => [A]_vars
  BY StepGood DEF HandlerGood
<1> HIDE DEF A
<1>2. AccountsSpec => [][A]_vars
  BY <1>1, AlwaysAccountsInv, PTL DEF AccountsSpec
<1>3. QED
  BY <1>2 DEF A, NamedHomesKept

-----------------------------------------------------------------------------
(* Getters and setters of the configuration.                               *)

\* A string that was set is found, and nothing else is disturbed: a group
\* that is new begins empty, one that is there keeps its other keys.
LEMMA StringSet ==
    ASSUME NEW t, NEW group, NEW key, NEW value
    PROVE  /\ GetString(SetString(t, group, key, value), group, key) = value
           /\ \A g \in DOMAIN t : \A k \in DOMAIN t[g] :
                <<g, k>> # <<group, key>> =>
                    GetString(SetString(t, group, key, value), g, k) = t[g][k]
<1> DEFINE old == IF group \in DOMAIN t THEN t[group] ELSE <<>>
           mine == Insert(old, key, value)
           new == Insert(t, group, mine)
<1>1. SetString(t, group, key, value) = new
  BY DEF SetString
<1>2. DOMAIN mine = DOMAIN old \cup {key} /\ mine[key] = value
  BY DEF Insert
<1>3. \A k \in DOMAIN old \ {key} : mine[k] = old[k]
  BY DEF Insert
<1>4. DOMAIN new = DOMAIN t \cup {group} /\ new[group] = mine
  <2> HIDE DEF mine
  <2>1. QED
    BY DEF Insert
<1>5. \A g \in DOMAIN t \ {group} : new[g] = t[g]
  <2> HIDE DEF mine
  <2>1. QED
    BY DEF Insert
<1>6. GetString(new, group, key) = value
  <2> HIDE DEF new, mine
  <2>1. QED
    BY <1>2, <1>4 DEF GetString, HasKey, HasGroup
<1>7. ASSUME NEW g \in DOMAIN t, NEW k \in DOMAIN t[g],
             <<g, k>> # <<group, key>>
      PROVE  GetString(new, g, k) = t[g][k]
  <2>1. CASE g = group
    <3>1. old = t[g] /\ k # key
      BY <1>7, <2>1
    <3> HIDE DEF new, mine, old
    <3>2. QED
      BY <1>2, <1>3, <1>4, <2>1, <3>1 DEF GetString, HasKey, HasGroup
  <2>2. CASE g # group
    <3> HIDE DEF new, mine, old
    <3>1. QED
      BY <1>4, <1>5, <2>2 DEF GetString, HasKey, HasGroup
  <2>3. QED
    BY <2>1, <2>2
<1>8. QED
  <2> HIDE DEF new
  <2>1. QED
    BY <1>1, <1>6, <1>7

\* The conversions to gint and guint keep the numbers that fit.
LEMMA NumbersFit ==
    /\ \A n \in Ints : Int32(n) = n
    /\ \A n \in Uints : Uint(n) = n
<1>1. ASSUME NEW n \in Ints PROVE Int32(n) = n
  <2>1. Uint(n) = IF n >= 0 THEN n ELSE n + 2 * Half
    BY ConfigAssumption DEF Ints, Uint
  <2>2. QED
    BY <2>1, ConfigAssumption DEF Int32, Ints
<1>2. ASSUME NEW n \in Uints PROVE Uint(n) = n
  BY ConfigAssumption DEF Uint, Uints
<1>3. QED
  BY <1>1, <1>2

\* The text of a number begins with it.
LEMMA NumberText ==
    ASSUME NEW n \in Ints \cup Uints
    PROVE  /\ Number(n) # Null
           /\ Number(n).lead # <<>> /\ Head(Number(n).lead) = n
<1>1. Number(n) # Null
  BY NullAssumption
<1>2. QED
  BY <1>1 DEF Number

\* Each getter reads what the setter of its type has stored in any table.
LEMMA GettersRead ==
    ASSUME NEW t, NEW group, NEW key, NEW other
    PROVE  /\ \A n \in Ints :
                GetInt(SetInt(t, group, key, n), group, key, other) = n
           /\ \A n \in Uints :
                GetUint(SetUint(t, group, key, n), group, key, other) = n
           /\ \A b \in BOOLEAN :
                GetBoolean(SetBoolean(t, group, key, b), group, key, other) = b
<1>1. ASSUME NEW n \in Ints
      PROVE  GetInt(SetInt(t, group, key, n), group, key, other) = n
  <2>1. GetString(SetInt(t, group, key, n), group, key) = Number(n)
    BY StringSet DEF SetInt
  <2>2. QED
    BY <2>1, NumberText, NumbersFit DEF GetInt, Atoi
<1>2. ASSUME NEW n \in Uints
      PROVE  GetUint(SetUint(t, group, key, n), group, key, other) = n
  <2>1. GetString(SetUint(t, group, key, n), group, key) = Number(n)
    BY StringSet DEF SetUint
  <2>2. ~(Head(Number(n).lead) < 0)
    BY NumberText, ConfigAssumption DEF Uints
  <2>3. QED
    BY <2>1, <2>2, NumberText, NumbersFit DEF GetUint
<1>3. ASSUME NEW b \in BOOLEAN
      PROVE  GetBoolean(SetBoolean(t, group, key, b), group, key, other) = b
  <2> DEFINE n == IF b THEN 1 ELSE 0
             text == Number(n)
  <2>1. GetString(SetBoolean(t, group, key, b), group, key) = text
    BY StringSet DEF SetBoolean, SetInt
  <2>2. n \in Ints \cup Uints
    BY ConfigAssumption DEF Ints, Uints
  <2>3. text # Null /\ text.lead # <<>> /\ Head(text.lead) = n
    BY <2>2, NumberText
  <2>4. Int32(n) # 0 <=> b
    BY ConfigAssumption DEF Int32, Uint
  <2>5. ~Starts(text, {"false", "no"}) /\ ~Starts(text, {"true", "yes"})
    BY <2>3 DEF Starts
  <2>6. QED
    <3> HIDE DEF text, n
    <3>1. GetBoolean(SetBoolean(t, group, key, b), group, key, other)
            = (Int32(n) # 0)
      BY <2>1, <2>3, <2>5 DEF GetBoolean
    <3>2. QED
      BY <2>4, <3>1
<1>4. QED
  BY <1>1, <1>2, <1>3

\* Whatever was loaded and set before, a number or truth value that fits its
\* type is read back as it was stored, at every width of gint, and the rest
\* of the configuration stays as it was.
THEOREM SettersReadBack == AccountsSpec => []ReadsBack
<1>1. ReadsBack
  <2> DEFINE t == config.config_table
             Kept(new, group, key) ==
                \A g \in DOMAIN t : \A k \in DOMAIN t[g] :
                    <<g, k>> # <<group, key>> =>
                        GetString(new, g, k) = t[g][k]
  <2>1. ASSUME NEW g, NEW value
        PROVE  Kept(SetString(t, g, "VTNR", value), g, "VTNR")
    <3> HIDE DEF t
    <3>1. QED
      BY StringSet
  <2>2. ASSUME NEW g, NEW n \in Ints
        PROVE  LET new == SetInt(t, g, "VTNR", n) IN
               GetInt(new, g, "VTNR", 7) = n /\ Kept(new, g, "VTNR")
    <3> HIDE DEF t, Kept
    <3>1. QED
      BY <2>1, GettersRead DEF SetInt
  <2>3. ASSUME NEW g, NEW n \in Uints
        PROVE  LET new == SetUint(t, g, "VTNR", n) IN
               GetUint(new, g, "VTNR", 7) = n /\ Kept(new, g, "VTNR")
    <3> HIDE DEF t, Kept
    <3>1. QED
      BY <2>1, GettersRead DEF SetUint
  <2>4. ASSUME NEW g, NEW b \in BOOLEAN
        PROVE  LET new == SetBoolean(t, g, "VTNR", b) IN
               GetBoolean(new, g, "VTNR", ~b) = b /\ Kept(new, g, "VTNR")
    <3> HIDE DEF t, Kept
    <3>1. Kept(SetBoolean(t, g, "VTNR", b), g, "VTNR")
      BY <2>1 DEF SetBoolean, SetInt
    <3>2. GetBoolean(SetBoolean(t, g, "VTNR", b), g, "VTNR", ~b) = b
      BY GettersRead
    <3>3. QED
      BY <3>1, <3>2
  <2>5. QED
    BY <2>2, <2>3, <2>4 DEF ReadsBack
<1>2. QED
  BY <1>1, PTL
=============================================================================
