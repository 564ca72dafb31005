----------------------------- MODULE Launcher ------------------------------
(***************************************************************************)
(* tlm-launcher (src/utils/tlm-launcher.c): runs a script of commands and  *)
(* of files to wait for, with module FileWatch for the waiting.            *)
(***************************************************************************)
EXTENDS FileWatch

CONSTANTS
    Script,     \* lines: [c |-> "M"], [c |-> "L"], [c |-> "W", files |-> ..]
    Existing,   \* the sets of files that may exist when it starts
    Calm        \* whether files may appear only while the launcher is at rest

Lines == DOMAIN Script

\* A W line names files, not the directories of others: for "W:d,d/s" the
\* watcher would add a watch on d that inotify has given it already.
ASSUME LauncherAssumption ==
    /\ Lines \subseteq Nat \ {0}
    /\ \A l \in Lines : Script[l].c = "W" =>
            Script[l].files \in Seq(Paths \ Dirs) \ {<<>>}
    /\ Watchers = {l \in Lines : Script[l].c = "W"}
    /\ Calm \subseteq BOOLEAN
    /\ \A e \in Existing : e \subseteq Paths
    /\ \A e \in Existing : \A p \in e : Dir(p) \in e \cup {<<>>}

VARIABLES
    launcher,   \* the process and its TlmLauncher
    launched,   \* history: commands the launcher has started
    clones,     \* children that failed to exec: the lines they read next
    calm,       \* the choice among Calm made for this behaviour
    atOnce      \* history: W lines whose wait was over before it began

launcherVars == <<launcher, launched, clones, calm, atOnce>>
vars == <<watchVars, launcherVars>>

(***************************************************************************)
(* line: the next line of fp; open: fp is not NULL; busy: inside           *)
(* _tlm_launcher_process; idles: _continue_launch sources; childs: the     *)
(* commands monitored, down: those of them that have ended.                *)
(***************************************************************************)
LauncherType ==
    [up : BOOLEAN, line : Nat, open : BOOLEAN, busy : BOOLEAN, idles : Nat,
     socket_watcher : Lines \cup {0}, childs : SUBSET Lines,
     down : SUBSET Lines]

LauncherInit ==
    /\ exists \in Existing
    /\ WatchInit
    /\ launcher = [up |-> TRUE, line |-> 1, open |-> TRUE, busy |-> TRUE,
                   idles |-> 0, socket_watcher |-> 0, childs |-> {},
                   down |-> {}]
    /\ launched = {}
    /\ clones = {}
    /\ calm \in Calm
    /\ atOnce = {}

-----------------------------------------------------------------------------
(* _tlm_launcher_process.                                                  *)

Processing == launcher.up /\ launcher.busy /\ job = NoJob

Line == Script[launcher.line]

\* An M or L line: fork fails, or the command runs, or the child can't exec
\* it and goes on with the script itself.
Launch ==
    LET l == launcher.line
        forked == [launcher EXCEPT !.line = l + 1,
                      !.childs = IF Line.c = "M" THEN @ \cup {l} ELSE @] IN
    /\ Processing
    /\ l \in Lines /\ Line.c \in {"M", "L"}
    /\ \/ /\ launcher' = [launcher EXCEPT !.line = l + 1]
          /\ UNCHANGED <<launched, clones>>
       \/ /\ launcher' = forked
          /\ launched' = launched \cup {l}
          /\ UNCHANGED clones
       \/ /\ launcher' = forked
          /\ clones' = clones \cup {l + 1}
          /\ UNCHANGED launched
    /\ UNCHANGED <<watchVars, calm, atOnce>>

\* A W line.
Wait ==
    /\ Processing
    /\ launcher.line \in Watchers
    /\ StartWatch(launcher.line, Line.files)
    /\ launcher' = [launcher EXCEPT !.line = @ + 1, !.socket_watcher = 0]
    /\ UNCHANGED <<launched, clones, calm, atOnce>>

\* The end of the file.
CloseScript ==
    /\ Processing
    /\ launcher.line \notin Lines
    /\ launcher' = [launcher EXCEPT !.open = FALSE, !.busy = FALSE]
    /\ UNCHANGED <<watchVars, launched, clones, calm, atOnce>>

\* _on_socket_ready, for n final reports of w.
SocketReady(l, w, n) ==
    IF n = 0 THEN l
    ELSE [l EXCEPT !.socket_watcher = 0, !.idles = @ + n]

\* The end of a wait is reported inside tlm_utils_watch_for_files.
OverAtOnce == job.mode = "start" /\ finals' # finals

\* Mutant: the launcher reads on although there is a source to wait for.
WatchStepReadsOn ==
    /\ job # NoJob /\ launcher.up
    /\ JobStep
    /\ launcher' = SocketReady(launcher, job.w, finals'[job.w] - finals[job.w])
    /\ atOnce' = IF OverAtOnce THEN atOnce \cup {job.w} ELSE atOnce
    /\ UNCHANGED <<launched, clones, calm>>

\* A step of the file watcher.  At its end tlm_utils_watch_for_files returns
\* the id of its source: the launcher waits for it, or reads on.
WatchStep ==
    LET w == job.w
        l == SocketReady(launcher, w, finals'[w] - finals[w])
        waits == job.mode = "start" /\ job'.mode = "none"
                 /\ info'[w].source IN
    /\ job # NoJob /\ launcher.up
    /\ JobStep
    /\ launcher' = IF waits
                   THEN [l EXCEPT !.socket_watcher = w, !.busy = FALSE]
                   ELSE l
    /\ atOnce' = IF OverAtOnce THEN atOnce \cup {w} ELSE atOnce
    /\ UNCHANGED <<launched, clones, calm>>

-----------------------------------------------------------------------------
(* The main loop.                                                          *)

InLoop == launcher.up /\ ~launcher.busy /\ job = NoJob

FilesChanged(w) == /\ InLoop
                   /\ WatcherCallback(w)
                   /\ UNCHANGED launcherVars

\* _on_child_down_cb; after the last child the launcher sends itself SIGINT.
ChildDown(l) ==
    /\ InLoop
    /\ l \in launcher.down
    /\ launcher' = [launcher EXCEPT !.childs = @ \ {l}, !.down = @ \ {l},
                                    !.up = launcher.childs # {l}]
    /\ UNCHANGED <<watchVars, launched, clones, calm, atOnce>>

\* Idle sources have the lowest priority.
NothingElse == /\ \A w \in Watchers : ~EventsReady(w)
               /\ launcher.down = {}

\* Mutant: the source is not removed by what it returns.
ContinueLaunchAgain ==
    /\ InLoop /\ NothingElse
    /\ launcher' = [launcher EXCEPT !.idles = @ - 1,
                                    !.busy = @ \/ launcher.open]
    /\ UNCHANGED <<watchVars, launched, clones, calm, atOnce>>

\* _continue_launch.
ContinueLaunch ==
    /\ InLoop /\ NothingElse
    /\ launcher.idles > 0
    /\ launcher' = [launcher EXCEPT !.idles = @ - 1,
                                    !.busy = @ \/ launcher.open]
    /\ UNCHANGED <<watchVars, launched, clones, calm, atOnce>>

-----------------------------------------------------------------------------
(* The rest of the world.                                                  *)

AtRest == InLoop /\ NothingElse /\ launcher.idles = 0

\* External: whoever creates the awaited files.
FileAppears(p) == /\ calm => AtRest
                  /\ Appears(p)
                  /\ UNCHANGED launcherVars

\* External: a monitored command ends.
CommandEnds(l) ==
    /\ l \in launcher.childs \ launcher.down
    /\ launcher' = [launcher EXCEPT !.down = @ \cup {l}]
    /\ UNCHANGED <<watchVars, launched, clones, calm, atOnce>>

\* A child that could not exec runs the lines that follow, as the launcher
\* does; what it waits for may keep it at a W line for any time.
CloneReads(l) ==
    /\ l \in clones \cap Lines
    /\ clones' = (clones \ {l}) \cup {l + 1}
    /\ UNCHANGED <<watchVars, launcher, launched, calm, atOnce>>

LauncherNext ==
    \/ Launch \/ Wait \/ CloseScript \/ WatchStep
    \/ \E w \in Watchers : FilesChanged(w)
    \/ \E l \in Lines : ChildDown(l) \/ CommandEnds(l) \/ CloneReads(l)
    \/ ContinueLaunch
    \/ \E p \in Paths : FileAppears(p)

LauncherSpec == LauncherInit /\ [][LauncherNext]_vars

\* The process runs and its main loop dispatches what is ready.
LauncherFairness ==
    /\ WF_vars(Launch \/ Wait \/ CloseScript \/ WatchStep)
    /\ WF_vars(ContinueLaunch \/ (\E w \in Watchers : FilesChanged(w))
                              \/ (\E l \in Lines : ChildDown(l)))

LauncherFairSpec == LauncherSpec /\ LauncherFairness

-----------------------------------------------------------------------------
(* Properties.                                                             *)

\* Type invariant of the launcher and its watchers.
LauncherTypeOK ==
    /\ exists \subseteq Paths
    /\ launcher \in LauncherType
    /\ launched \subseteq Lines
    /\ clones \subseteq Nat
    /\ atOnce \subseteq Watchers
    /\ \A w \in Watchers :
        /\ info[w].source \in BOOLEAN
        /\ \A d \in Dirs : info[w].dir_table[d] \in Seq(STRING)
        /\ \A x \in info[w].wd_table \cup info[w].kernel :
                x[1] \in 1..info[w].wds /\ x[2] \in Dirs
    /\ job.mode \in {"none", "start", "event", "read"}
    /\ job # NoJob => job.nwatch \in Nat

\* The two tables of a watcher stay one structure through every order of
\* events: a directory that is watched has names awaited in it (the callback
\* takes the list of a known descriptor for non-empty), it is watched once,
\* and between two callbacks the kernel holds exactly those watches.
TablesAgree ==
    \A w \in Watchers :
        /\ \A x \in info[w].wd_table : info[w].dir_table[x[2]] # <<>>
        /\ \A x, y \in info[w].wd_table : x[2] = y[2] => x = y
        /\ info[w].wd_table \subseteq info[w].kernel
        /\ job = NoJob => info[w].kernel = info[w].wd_table

\* The files a line of the script waits for.
Files(w) == {Script[w].files[k] : k \in DOMAIN Script[w].files}

\* "W: socket/file -> Wait for socket ready before moving forward": a command
\* is launched only when the files of the W lines before it exist.  That holds
\* on two conditions.  Files appear one at a time, each after the launcher has
\* dealt with the one before.  And no wait before was over at once: the idle
\* source of such a wait, which the launcher did not stop for, makes it read
\* on while it waits for a later one (tlm-launcher.c:127).  For that wait
\* itself the files are there.
CalmWaitsForFiles ==
    calm => \A l \in launched, w \in Watchers \ failed :
        w < l /\ (\A v \in atOnce : w <= v) => Files(w) \subseteq exists

\* When files appear one at a time the end of a wait is reported once, as the
\* callback of the manager needs, which frees its closure at is_final.
CalmFinalOnce == calm => \A w \in Watchers : finals[w] <= 1

\* A file that exists joins the list of its directory, which another file of
\* the wait has made: nobody looks whether it exists, and no event will come.
Overlooks == /\ Adding("dir")
             /\ info[job.w].dir_table[Dir(job.path)] # <<>>
             /\ Exists(job.path)

\* When files appear one at a time, none is overlooked in the way above and no
\* inotify call fails, a launcher whose files all exist in the end gets to the
\* end of its script, unless its last monitored command ended before.
CalmGetsThrough ==
    [](calm /\ failed = {} /\ ~Overlooks) /\ <>(exists = Paths)
        => <>(~launcher.open \/ ~launcher.up)
=============================================================================
