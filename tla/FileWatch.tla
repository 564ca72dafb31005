----------------------------- MODULE FileWatch -----------------------------
(***************************************************************************)
(* tlm_utils_watch_for_files (src/common/tlm-utils.c): wait with inotify   *)
(* until files exist that may not exist yet, nor their directories.  The   *)
(* launcher waits for sockets with it, the manager for the files of a      *)
(* seat.                                                                   *)
(*                                                                         *)
(* The program has one thread.  What it does with a list of files is a job *)
(* whose steps end at system calls, so that files appear between any two   *)
(* of them.  inotify fills a queue per watcher; one read takes every event *)
(* that is queued, since the buffer has room for a path of any length.     *)
(***************************************************************************)
EXTENDS Naturals, FiniteSets, SequencesExt

CONSTANTS
    Paths,      \* files and directories that may appear: sequences of names
    Watchers    \* calls of tlm_utils_watch_for_files

\* The directory and the name of a path; <<>> is the root directory.
Dir(p) == Front(p)
Name(p) == Last(p)
Dirs == {Dir(p) : p \in Paths}

ASSUME FileWatchAssumption ==
    /\ Paths \subseteq Seq(STRING) \ {<<>>}
    /\ Dirs \subseteq Paths \cup {<<>>}

VARIABLES
    exists,     \* the paths that exist; nothing is deleted
    info,       \* WatchInfo of each watcher
    job,        \* the call or callback being executed
    found,      \* history: items reported to the callback of each watcher
    finals,     \* history: how often is_final was reported
    failed      \* history: watchers of which an inotify call failed

watchVars == <<exists, info, job, found, finals, failed>>

(***************************************************************************)
(* dir_table maps a directory to the names awaited in it, none for no      *)
(* entry.  wd_table and kernel are the watches the program and the kernel  *)
(* know, as pairs of descriptor and directory; wds counts descriptors.  An *)
(* event without a name is IN_IGNORED, which inotify_rm_watch causes.      *)
(***************************************************************************)
NewInfo ==
    [dir_table |-> [d \in Dirs |-> <<>>], wd_table |-> {}, kernel |-> {},
     queue |-> <<>>, wds |-> 0, source |-> FALSE]

NoName == "ignored"
Event(wd, name) == [wd |-> wd, name |-> name]

NoJob == [mode |-> "none"]

\* todo: items still to add, the first being added; path: the path _add_watch
\* was called with, a directory above the item once it has recursed.
AddJob(w, mode, items, n) ==
    [mode |-> mode, w |-> w, todo |-> items, path |-> Head(items),
     step |-> "dir", nwatch |-> n]

ReadJob(w, n) == [mode |-> "read", w |-> w, nwatch |-> n]

WatchInit ==
    /\ info = [w \in Watchers |-> NewInfo]
    /\ job = NoJob
    /\ found = [w \in Watchers |-> {}]
    /\ finals = [w \in Watchers |-> 0]
    /\ failed = {}

Exists(p) == p = <<>> \/ p \in exists

-----------------------------------------------------------------------------
(* Pieces.                                                                 *)

\* Mutant: the end of the wait is reported apart from its last item, too.
ReportTwice(w, item, final) ==
    /\ found' = [found EXCEPT ![w] = @ \cup {item}]
    /\ finals' = [finals EXCEPT ![w] = IF final THEN @ + 2 ELSE @]

\* info->cb (item, final).
Report(w, item, final) ==
    /\ found' = [found EXCEPT ![w] = @ \cup {item}]
    /\ finals' = [finals EXCEPT ![w] = IF final THEN @ + 1 ELSE @]

NoReport == UNCHANGED <<found, finals>>

\* inotify_rm_watch.
Unwatched(i, wd, d) ==
    [i EXCEPT !.kernel = @ \ {<<wd, d>>},
              !.queue = Append(@, Event(wd, NoName))]

\* _watch_info_free: descriptor, watches and tables go.
Freed == NewInfo

\* The end of the list: no item is left to wait for, or the source is added.
Finished(i, n) == IF n = 0 THEN Freed ELSE [i EXCEPT !.source = TRUE]

\* What follows an item: the next one, or the end of the list.  i is the
\* watcher's info after the item, n the count of watches.
NextItem(i, n) ==
    LET rest == Tail(job.todo) IN
    IF rest # <<>>
    THEN /\ job' = AddJob(job.w, job.mode, rest, n)
         /\ info' = [info EXCEPT ![job.w] = i]
    ELSE IF job.mode = "start"
         THEN /\ job' = NoJob
              /\ info' = [info EXCEPT ![job.w] = Finished(i, n)]
         ELSE /\ job' = ReadJob(job.w, n)
              /\ info' = [info EXCEPT ![job.w] = i]

\* WATCH_ADDED.
Added(i) == NextItem(i, job.nwatch + 1) /\ NoReport

\* WATCH_READY.  In the callback is_final only counts the watches so far.
Ready(i) ==
    /\ Report(job.w, Head(job.todo),
              job.nwatch = 0 /\ (job.mode = "start" => Len(job.todo) = 1))
    /\ NextItem(i, job.nwatch)

-----------------------------------------------------------------------------
(* _add_watch, up to each system call.                                     *)

Adding(step) == job.mode \in {"start", "event"} /\ job.step = step

\* The directory is being watched, or waited for: the name joins its list.
\* Whether the file exists is not looked at.
AddToList ==
    LET i == info[job.w]  d == Dir(job.path) IN
    /\ Adding("dir")
    /\ i.dir_table[d] # <<>>
    /\ Added([i EXCEPT !.dir_table[d] = Append(@, Name(job.path))])
    /\ UNCHANGED <<exists, failed>>

\* A new list; a missing directory is itself waited for.
AddList ==
    LET i == info[job.w]  d == Dir(job.path) IN
    /\ Adding("dir")
    /\ i.dir_table[d] = <<>>
    /\ info' = [info EXCEPT
                    ![job.w].dir_table[d] = <<Name(job.path)>>]
    /\ job' = IF Exists(d) THEN [job EXCEPT !.step = "watch"]
                           ELSE [job EXCEPT !.path = d]
    /\ NoReport
    /\ UNCHANGED <<exists, failed>>

\* inotify_add_watch.
AddWatch ==
    LET i == info[job.w]  d == Dir(job.path) IN
    /\ Adding("watch")
    /\ \/ /\ info' = [info EXCEPT
                ![job.w].wds = @ + 1,
                ![job.w].kernel = @ \cup {<<i.wds + 1, d>>}]
          /\ job' = [job EXCEPT !.step = "file"]
          /\ UNCHANGED failed
       \/ /\ failed' = failed \cup {job.w}
          /\ NextItem([i EXCEPT !.dir_table[d] = <<>>], job.nwatch)
    /\ NoReport
    /\ UNCHANGED exists

\* Mutant: a file that is there already is waited for.
CheckFileNever ==
    LET i == info[job.w]  d == Dir(job.path) IN
    /\ Adding("file")
    /\ Added([i EXCEPT !.wd_table = @ \cup {<<i.wds, d>>}])
    /\ UNCHANGED <<exists, failed>>

\* The file is looked for once more, now that its directory is watched.
CheckFile ==
    LET i == info[job.w]  d == Dir(job.path) IN
    /\ Adding("file")
    /\ IF Exists(job.path)
       THEN Ready([Unwatched(i, i.wds, d) EXCEPT !.dir_table[d] = <<>>])
       ELSE Added([i EXCEPT !.wd_table = @ \cup {<<i.wds, d>>}])
    /\ UNCHANGED <<exists, failed>>

-----------------------------------------------------------------------------
(* _inotify_watcher_cb.                                                    *)

\* The source of w is dispatched.
EventsReady(w) == info[w].source /\ info[w].queue # <<>>

WatcherCallback(w) ==
    /\ job = NoJob
    /\ EventsReady(w)
    /\ job' = ReadJob(w, Cardinality(info[w].wd_table))
    /\ UNCHANGED <<exists, info, failed>> /\ NoReport

\* read returns more than an event without a name.
Readable(q) == Len(q) > 1 \/ (q # <<>> /\ q[1].name # NoName)

\* The callback returns; without a watch its source goes, and WatchInfo.
CallbackReturns ==
    LET i == info[job.w] IN
    /\ job.mode = "read"
    /\ job.nwatch = 0 \/ ~Readable(i.queue)
    /\ job' = NoJob
    /\ info' = [info EXCEPT ![job.w] =
            IF job.nwatch = 0 THEN Freed ELSE [i EXCEPT !.queue = <<>>]]
    /\ UNCHANGED <<exists, failed>> /\ NoReport

\* The directory the first event is about, if the program watches it.
EventDirs(i) == {x[2] : x \in {y \in i.wd_table : y[1] = i.queue[1].wd}}

\* The first event is for a name that is awaited in a watched directory.
Awaited(i) ==
    \E d \in EventDirs(i) : Contains(i.dir_table[d], i.queue[1].name)

\* The first event is of no interest; with it go the others that were read.
IgnoreEvents ==
    LET i == info[job.w] IN
    /\ job.mode = "read" /\ job.nwatch # 0
    /\ Readable(i.queue)
    /\ ~Awaited(i)
    /\ info' = [info EXCEPT ![job.w].queue = <<>>]
    /\ UNCHANGED <<exists, job, failed>> /\ NoReport

\* Mutant: the watch of an empty list stays in the table.
TakenKeepsWatch(i, wd, d, name) ==
    LET rest == RemoveFirst(i.dir_table[d], name)
        j == [i EXCEPT !.dir_table[d] = rest, !.queue = <<>>] IN
    IF rest # <<>> THEN j ELSE Unwatched(j, wd, d)

\* The events were read and name was taken off its list, and the watch off
\* an empty list.
Taken(i, wd, d, name) ==
    LET rest == RemoveFirst(i.dir_table[d], name)
        j == [i EXCEPT !.dir_table[d] = rest, !.queue = <<>>] IN
    IF rest # <<>> THEN j
    ELSE [Unwatched(j, wd, d) EXCEPT !.wd_table = @ \ {<<wd, d>>}]

\* The first event is awaited.  Files that wait for a directory that has
\* appeared are added now, anything else is reported.
TakeEvent ==
    LET i == info[job.w]  e == i.queue[1] IN
    /\ job.mode = "read" /\ job.nwatch # 0
    /\ Readable(i.queue) /\ Awaited(i)
    /\ \E d \in EventDirs(i) :
        LET p == Append(d, e.name)
            j == Taken(i, e.wd, d, e.name)
            n == IF j.dir_table[d] = <<>> THEN job.nwatch - 1
                                          ELSE job.nwatch
            list == IF p \in Dirs THEN j.dir_table[p] ELSE <<>> IN
        IF list = <<>>
        THEN /\ Report(job.w, p, n = 0)
             /\ job' = ReadJob(job.w, n)
             /\ info' = [info EXCEPT ![job.w] = j]
        ELSE /\ NoReport
             /\ job' = AddJob(job.w, "event",
                          [k \in DOMAIN list |-> Append(p, list[k])], n)
             /\ info' = [info EXCEPT ![job.w] =
                          [j EXCEPT !.dir_table[p] = <<>>]]
    /\ UNCHANGED <<exists, failed>>

JobStep ==
    \/ AddToList \/ AddList \/ AddWatch \/ CheckFile
    \/ CallbackReturns \/ IgnoreEvents \/ TakeEvent

-----------------------------------------------------------------------------

\* tlm_utils_watch_for_files is called for a list of files.  Without an
\* inotify descriptor it returns 0 at once.
StartWatch(w, files) ==
    /\ job = NoJob
    /\ \/ job' = AddJob(w, "start", files, 0) /\ UNCHANGED failed
       \/ job' = NoJob /\ failed' = failed \cup {w}
    /\ UNCHANGED <<exists, info>> /\ NoReport

\* External: a file or directory appears, and the kernel queues an event for
\* every watch on its directory.
Appears(p) ==
    /\ ~Exists(p) /\ Exists(Dir(p))
    /\ exists' = exists \cup {p}
    /\ info' = [w \in Watchers |->
          [info[w] EXCEPT !.queue = @ \o
              SetToSeq({Event(x[1], Name(p)) :
                  x \in {y \in info[w].kernel : y[2] = Dir(p)}})]]
    /\ UNCHANGED <<job, failed>> /\ NoReport
=============================================================================
