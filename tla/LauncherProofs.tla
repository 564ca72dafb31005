--------------------------- MODULE LauncherProofs ---------------------------
(***************************************************************************)
(* Theorems on the launcher and its file watcher.                          *)
(***************************************************************************)
EXTENDS Launcher, FiniteSetTheorems, SequenceTheorems, WellFoundedInduction,
        TLAPS

(***************************************************************************)
(* The tables of one watcher: t is its dir_table, v its wd_table.          *)
(***************************************************************************)

\* What a path consists of; the proofs don't look into it.
Names == STRING

\* The list of d, its places, and the path that place k stands for.
Empty(t, d) == t[d] = <<>>
Places(t, d) == DOMAIN t[d]
NewPlace(t, d) == Len(t[d]) + 1
Slot(t, d, k) == Append(d, t[d][k])

\* The table with p added to the list of its directory.
Listed(t, p) == [t EXCEPT ![Dir(p)] = Append(@, Name(p))]

\* What that does to the lists: p has the new place.
Grown(t, s, d, n, p) ==
    /\ \A e \in Dirs : Empty(s, e) <=> Empty(t, e) /\ e # d
    /\ \A e \in Dirs : \A k \in Places(t, e) :
            k \in Places(s, e) /\ Slot(s, e, k) = Slot(t, e, k)
    /\ \A e \in Dirs : \A k \in Places(s, e) :
            \/ k \in Places(t, e)
            \/ e = d /\ k = n /\ Slot(s, e, k) = p

\* The table with the first n off the list of d, and what that does: q had
\* place m, and the places that remain come from the others.
Shortened(t, d, n) == [t EXCEPT ![d] = RemoveFirst(@, n)]

Shrunk(t, s, d, q) ==
    /\ \A e \in Dirs \ {d} :
        /\ Empty(s, e) <=> Empty(t, e)
        /\ Places(s, e) = Places(t, e)
        /\ \A k \in Places(s, e) : Slot(s, e, k) = Slot(t, e, k)
    /\ \E m \in Places(t, d) :
        /\ Slot(t, d, m) = q
        /\ \E f \in [Places(s, d) -> Places(t, d) \ {m}] :
            /\ \A j, k \in Places(s, d) : f[j] = f[k] => j = k
            /\ \A k \in Places(s, d) : Slot(s, d, k) = Slot(t, d, f[k])
            /\ \A j \in Places(t, d) \ {m} : \E k \in Places(s, d) : f[k] = j

\* The watches that are left, with the one of an empty list gone.
HasWatch(v, wd, d) == <<wd, d>> \in v
Left(v, s, wd, d) == IF Empty(s, d) THEN v \ {<<wd, d>>} ELSE v

Watched(v, q) == \E x \in v : x[2] = q
Awaits(t, q) == \E d \in Dirs : \E k \in Places(t, d) : Slot(t, d, k) = q

\* What the program watches has names awaited in it, is watched once, and by
\* a descriptor of its own.
WatchesGood(t, v) ==
    /\ \A x \in v : ~Empty(t, x[2])
    /\ \A x, y \in v : x[1] = y[1] \/ x[2] = y[2] => x = y

\* A directory that is waited for has names in its list, but no watch yet.
Missing(t, v, q) == ~Empty(t, q) /\ ~Watched(v, q)

\* A directory that is awaited in another one is missing, and listed once.
ListsGood(t, v) ==
    /\ \A d \in Dirs : \A k \in Places(t, d) :
            Slot(t, d, k) \in Dirs => Missing(t, v, Slot(t, d, k))
    /\ \A d \in Dirs : \A k, m \in Places(t, d) :
            Slot(t, d, k) \in Dirs /\ Slot(t, d, k) = Slot(t, d, m) => k = m

\* head and rest are the paths that are still to be added, dir is the
\* directory about to be watched.
PendingGood(t, v, head, rest, dir) ==
    /\ \A q \in Dirs \cap head :
            Missing(t, v, q) /\ ~Awaits(t, q) /\ q \notin dir
    /\ \A k \in DOMAIN rest : rest[k] \in Dirs =>
            Missing(t, v, rest[k]) /\ ~Awaits(t, rest[k]) /\ rest[k] \notin dir
    /\ \A q \in Dirs \cap head : \A k \in DOMAIN rest : rest[k] # q
    /\ \A k, m \in DOMAIN rest :
            rest[k] \in Dirs /\ rest[k] = rest[m] => k = m
    /\ \A q \in dir : Missing(t, v, q) /\ ~Awaits(t, q)

Tables(t, v, head, rest, dir) ==
    WatchesGood(t, v) /\ ListsGood(t, v) /\ PendingGood(t, v, head, rest, dir)

-----------------------------------------------------------------------------
(* The inductive invariant.                                                *)

TableType(t) ==
    /\ t \in [Dirs -> Seq(Names)]
    /\ \A d \in Dirs : \A k \in Places(t, d) : Slot(t, d, k) \in Paths

WatchType(v, n) == v \subseteq (1..n) \X Dirs /\ IsFiniteSet(v)

MakeInfo(t, v, kernel, queue, n, source) ==
    [dir_table |-> t, wd_table |-> v, kernel |-> kernel, queue |-> queue,
     wds |-> n, source |-> source]

InfoType(i) ==
    /\ i = MakeInfo(i.dir_table, i.wd_table, i.kernel, i.queue, i.wds, i.source)
    /\ TableType(i.dir_table)
    /\ WatchType(i.wd_table, i.wds)
    /\ i.wds \in Nat
    /\ i.source \in BOOLEAN

AddType ==
    [mode : {"start", "event"}, w : Watchers, todo : Seq(Paths) \ {<<>>},
     path : Paths, step : {"dir", "watch", "file"}, nwatch : Nat]
ReadType == [mode : {"read"}, w : Watchers, nwatch : Nat]

AddsFor(j, w) == j.mode \in {"start", "event"} /\ j.w = w

\* The watcher with nothing under way.
IdleGood(i) ==
    Tables(i.dir_table, i.wd_table, {}, <<>>, {}) /\ i.kernel = i.wd_table

\* The watcher in _add_watch.
AddGood(i, path, rest, step) ==
    IF step = "dir"
    THEN /\ Tables(i.dir_table, i.wd_table, {path}, rest, {})
         /\ i.kernel = i.wd_table
    ELSE /\ Tables(i.dir_table, i.wd_table, {}, rest, {Dir(path)})
         /\ IF step = "watch" THEN i.kernel = i.wd_table
            ELSE /\ i.kernel = i.wd_table \cup {<<i.wds, Dir(path)>>}
                 /\ \A x \in i.wd_table : x[1] # i.wds
                 /\ i.wds # 0

WatcherGood(i, j, w) ==
    IF AddsFor(j, w) THEN AddGood(i, j.path, Tail(j.todo), j.step)
                     ELSE IdleGood(i)

InfosGood(f, j) ==
    /\ f = [w \in Watchers |-> f[w]]
    /\ \A w \in Watchers : InfoType(f[w]) /\ WatcherGood(f[w], j, w)

JobType == {NoJob} \cup ReadType \cup AddType

\* The files that exist, the job and the watchers.
WatchInv ==
    /\ exists \subseteq Paths
    /\ \A p \in exists : Exists(Dir(p))
    /\ job \in JobType
    /\ finals \in [Watchers -> Nat]
    /\ InfosGood(info, job)

\* The process around them.
ProcessInv ==
    /\ launcher \in LauncherType
    /\ launched \subseteq Lines
    /\ clones \subseteq Nat
    /\ calm \in BOOLEAN
    /\ atOnce \subseteq Watchers

-----------------------------------------------------------------------------
(* Paths.                                                                  *)

\* A path without its last name.
LEMMA FrontSeq ==
    ASSUME NEW S, NEW d \in Seq(S), d # <<>>
    PROVE  /\ Front(d) \in Seq(S)
           /\ Len(Front(d)) = Len(d) - 1
           /\ \A k \in 1..Len(d) - 1 : Front(d)[k] = d[k]
           /\ Last(d) \in S
           /\ Len(d) \in Nat \ {0}
<1>1. Len(d) \in Nat \ {0}
  OBVIOUS
<1>2. Front(d) = SubSeq(d, 1, Len(d) - 1)
  BY DEF Front
<1>3. /\ SubSeq(d, 1, Len(d) - 1) \in Seq(S)
      /\ Len(SubSeq(d, 1, Len(d) - 1)) = Len(d) - 1
      /\ \A k \in 1..Len(d) - 1 : SubSeq(d, 1, Len(d) - 1)[k] = d[k]
  <2> DEFINE n == Len(d) - 1
  <2>1. n \in Nat /\ n \in Int /\ 1 \in Int /\ \A k \in 1..n : d[k] \in S
    BY <1>1
  <2> HIDE DEF n
  <2>2. /\ SubSeq(d, 1, n) \in Seq(S)
        /\ Len(SubSeq(d, 1, n)) = IF 1 <= n THEN n - 1 + 1 ELSE 0
        /\ \A k \in 1..n - 1 + 1 : SubSeq(d, 1, n)[k] = d[1 + k - 1]
    BY <2>1, SubSeqProperties
  <2>3. /\ SubSeq(d, 1, n) \in Seq(S)
        /\ Len(SubSeq(d, 1, n)) = n
        /\ \A k \in 1..n : SubSeq(d, 1, n)[k] = d[k]
    BY <2>1, <2>2
  <2> QED
    BY <2>3 DEF n
<1> QED
  BY <1>1, <1>2, <1>3 DEF Last

\* Sequences of one length that agree in every place are the same.
LEMMA SameSeq ==
    ASSUME NEW S, NEW d \in Seq(S), NEW e \in Seq(S), Len(d) = Len(e),
           \A k \in 1..Len(d) : d[k] = e[k]
    PROVE  d = e
OBVIOUS

\* A name appended to a sequence can be told apart from it again.
LEMMA AppendFront ==
    ASSUME NEW S, NEW d \in Seq(S), NEW n \in S
    PROVE  /\ Append(d, n) \in Seq(S)
           /\ Front(Append(d, n)) = d
           /\ Last(Append(d, n)) = n
           /\ Append(d, n) # <<>>
           /\ Append(d, n) # d
<1> DEFINE a == Append(d, n)
<1>1. /\ a \in Seq(S)
      /\ Len(a) = Len(d) + 1
      /\ \A k \in 1..Len(d) : a[k] = d[k]
      /\ a[Len(d) + 1] = n
  BY AppendProperties
<1>2. Len(d) \in Nat
  OBVIOUS
<1> HIDE DEF a
<1>3. a # <<>> /\ a # d
  BY <1>1, <1>2
<1>4. /\ Front(a) \in Seq(S)
      /\ Len(Front(a)) = Len(d)
      /\ \A k \in 1..Len(d) : Front(a)[k] = d[k]
  BY <1>1, <1>2, <1>3, FrontSeq
<1>5. Front(a) = d
  BY <1>4, SameSeq
<1>6. Last(a) = n
  BY <1>1 DEF Last
<1> QED
  BY <1>1, <1>3, <1>5, <1>6 DEF a

\* The directory and the name of a path that was put together.
LEMMA AppendDir ==
    ASSUME NEW d \in Seq(Names), NEW n \in Names
    PROVE  /\ Append(d, n) \in Seq(Names)
           /\ Dir(Append(d, n)) = d
           /\ Name(Append(d, n)) = n
           /\ Append(d, n) # <<>>
           /\ Append(d, n) # d
BY AppendFront, Zenon DEF Dir, Name

\* A path is its directory and its name.
LEMMA FrontAppend ==
    ASSUME NEW S, NEW p \in Seq(S), p # <<>>
    PROVE  Append(Front(p), Last(p)) = p
<1> DEFINE f == Front(p)
<1> DEFINE l == Last(p)
<1>1. /\ f \in Seq(S) /\ l \in S
      /\ Len(f) = Len(p) - 1
      /\ \A k \in 1..Len(p) - 1 : f[k] = p[k]
      /\ Len(p) \in Nat \ {0}
  BY FrontSeq
<1>2. l = p[Len(p)]
  BY DEF Last
<1> HIDE DEF f, l
<1> DEFINE a == Append(f, l)
<1>3. /\ a \in Seq(S)
      /\ Len(a) = Len(f) + 1
      /\ \A k \in 1..Len(f) : a[k] = f[k]
      /\ a[Len(f) + 1] = l
  BY <1>1, AppendProperties
<1> HIDE DEF a
<1>4. Len(a) = Len(p) /\ \A k \in 1..Len(a) : a[k] = p[k]
  BY <1>1, <1>2, <1>3
<1>5. a = p
  BY <1>3, <1>4, SameSeq
<1> QED
  BY <1>5 DEF a, f, l

\* The directory of a path is one of Dirs, and not the path itself.
LEMMA PathDir ==
    ASSUME NEW p \in Paths
    PROVE  /\ p \in Seq(Names) /\ p # <<>>
           /\ Dir(p) \in Dirs /\ Dir(p) \in Seq(Names) /\ Name(p) \in Names
           /\ Append(Dir(p), Name(p)) = p
           /\ Dir(p) # p
<1>1. p \in Seq(Names) /\ p # <<>>
  BY FileWatchAssumption DEF Names
<1>2. Dir(p) \in Seq(Names) /\ Name(p) \in Names
  BY <1>1, FrontSeq, Zenon DEF Dir, Name
<1>3. Append(Dir(p), Name(p)) = p
  BY <1>1, FrontAppend, Zenon DEF Dir, Name
<1>4. Dir(p) \in Dirs
  BY DEF Dirs
<1>5. Dir(p) # p
  BY <1>2, <1>3, AppendDir, Zenon
<1> QED
  BY <1>1, <1>2, <1>3, <1>4, <1>5

\* A directory is the root or itself a path.
LEMMA DirSeq ==
    ASSUME NEW d \in Dirs
    PROVE  d \in Seq(Names) /\ (d = <<>> \/ d \in Paths)
BY PathDir, FileWatchAssumption DEF Dirs

\* A path has one directory and one name.
LEMMA AppendInj ==
    ASSUME NEW d \in Seq(Names), NEW n \in Names,
           NEW e \in Seq(Names), NEW m \in Names,
           Append(d, n) = Append(e, m)
    PROVE  d = e /\ n = m
<1>1. /\ Dir(Append(d, n)) = d /\ Name(Append(d, n)) = n
      /\ Dir(Append(e, m)) = e /\ Name(Append(e, m)) = m
  BY AppendDir, Zenon
<1> QED
  BY <1>1, Zenon

-----------------------------------------------------------------------------
(* What the steps of the watcher do to its tables.                         *)

\* Two places that stand for the same path are in the list of the same
\* directory, and hold the same name.
LEMMA SlotInj ==
    ASSUME NEW t \in [Dirs -> Seq(Names)],
           NEW d \in Dirs, NEW k \in Places(t, d),
           NEW e \in Dirs, NEW m \in Places(t, e),
           Slot(t, d, k) = Slot(t, e, m)
    PROVE  d = e /\ t[d][k] = t[e][m]
<1>1. t[d] \in Seq(Names) /\ t[e] \in Seq(Names)
  OBVIOUS
<1>2. t[d][k] \in Names /\ t[e][m] \in Names
  BY <1>1, ElementOfSeq, LenProperties, Zenon DEF Places
<1>3. d \in Seq(Names) /\ e \in Seq(Names)
  BY DirSeq
<1>4. Append(d, t[d][k]) = Append(e, t[e][m])
  BY DEF Slot
<1> QED
  BY <1>2, <1>3, <1>4, AppendInj, Zenon

\* The list of a directory gets one place more, for p.
LEMMA ListAppended ==
    ASSUME NEW t \in [Dirs -> Seq(Names)], NEW p \in Paths, NEW s,
           s = Listed(t, p)
    PROVE  /\ s \in [Dirs -> Seq(Names)]
           /\ Grown(t, s, Dir(p), NewPlace(t, Dir(p)), p)
<1> DEFINE d == Dir(p)
<1> DEFINE n == Name(p)
<1>1. d \in Dirs /\ n \in Names /\ Append(d, n) = p
  BY PathDir, Zenon
<1> HIDE DEF d, n
<1>2. t[d] \in Seq(Names)
  BY <1>1
<1>3. s = [t EXCEPT ![d] = Append(t[d], n)]
  BY DEF d, n, Listed
<1>4. s[d] = Append(t[d], n) /\ \A e \in Dirs \ {d} : s[e] = t[e]
  BY <1>1, <1>3
<1>5. /\ s[d] \in Seq(Names) /\ s[d] # <<>> /\ Len(s[d]) = Len(t[d]) + 1
      /\ \A k \in 1..Len(t[d]) : s[d][k] = t[d][k]
      /\ s[d][Len(t[d]) + 1] = n
  <2>1. /\ Append(t[d], n) \in Seq(Names) /\ Append(t[d], n) # <<>>
        /\ Len(Append(t[d], n)) = Len(t[d]) + 1
        /\ \A k \in 1..Len(t[d]) : Append(t[d], n)[k] = t[d][k]
        /\ Append(t[d], n)[Len(t[d]) + 1] = n
    <3> DEFINE l == t[d]
    <3>1. l \in Seq(Names) /\ n \in Names
      BY <1>1, <1>2
    <3> HIDE DEF l
    <3>2. /\ Append(l, n) \in Seq(Names) /\ Append(l, n) # <<>>
          /\ Len(Append(l, n)) = Len(l) + 1
          /\ \A k \in 1..Len(l) : Append(l, n)[k] = l[k]
          /\ Append(l, n)[Len(l) + 1] = n
      BY <3>1, AppendProperties
    <3> QED
      BY <3>2, Zenon DEF l
  <2> QED
    BY <2>1, <1>4, Zenon
<1>6. /\ DOMAIN t[d] = 1..Len(t[d]) /\ DOMAIN s[d] = 1..Len(s[d])
      /\ Len(t[d]) \in Nat
  BY <1>2, <1>5, LenProperties, Zenon
<1>7. s \in [Dirs -> Seq(Names)]
  <2>1. \A e \in Dirs : s[e] \in Seq(Names)
    BY <1>4, <1>5, Zenon
  <2> QED
    BY <2>1, <1>3
<1>8. \A e \in Dirs : s[e] = <<>> <=> t[e] = <<>> /\ e # d
  BY <1>4, <1>5, Zenon
<1>9. /\ \A k \in Places(t, d) : k \in Places(s, d)
      /\ \A k \in Places(s, d) : k \in Places(t, d) \/ k = Len(t[d]) + 1
  BY <1>5, <1>6 DEF Places
<1>10. /\ \A k \in Places(t, d) : Slot(s, d, k) = Slot(t, d, k)
       /\ Slot(s, d, Len(t[d]) + 1) = p
  BY <1>1, <1>5, <1>6, Zenon DEF Slot, Places
<1>11. ASSUME NEW e \in Dirs \ {d}
       PROVE  /\ Places(s, e) = Places(t, e)
              /\ \A k \in Places(t, e) : Slot(s, e, k) = Slot(t, e, k)
  BY <1>4, Zenon DEF Slot, Places
<1>12. ASSUME NEW e \in Dirs, NEW k \in Places(t, e)
       PROVE  k \in Places(s, e) /\ Slot(s, e, k) = Slot(t, e, k)
  <2>1. CASE e = d
    BY <2>1, <1>9, <1>10
  <2>2. CASE e # d
    BY <2>2, <1>11
  <2> QED
    BY <2>1, <2>2
<1>13. ASSUME NEW e \in Dirs, NEW k \in Places(s, e)
       PROVE  \/ k \in Places(t, e)
              \/ e = d /\ k = Len(t[d]) + 1 /\ Slot(s, e, k) = p
  <2>1. CASE e = d
    BY <2>1, <1>9, <1>10
  <2>2. CASE e # d
    BY <2>2, <1>11
  <2> QED
    BY <2>1, <2>2
<1> QED
  BY <1>7, <1>8, <1>12, <1>13, Zenon DEF d, Empty, NewPlace, Grown

\* _add_watch puts a path on the list of its directory: either that was
\* waited for, or it is now the one at hand, to be watched or added itself.
LEMMA PathListed ==
    ASSUME NEW t \in [Dirs -> Seq(Names)], NEW p \in Paths, NEW s,
           s = Listed(t, p),
           NEW v, \A x \in v : x[2] \in Dirs, NEW rest,
           Tables(t, v, {p}, rest, {})
    PROVE  /\ ~Empty(t, Dir(p)) => Tables(s, v, {}, rest, {})
           /\ Empty(t, Dir(p)) => /\ Tables(s, v, {}, rest, {Dir(p)})
                                  /\ Tables(s, v, {Dir(p)}, rest, {})
<1> DEFINE d == Dir(p)
<1> DEFINE n == NewPlace(t, d)
<1>1. d \in Dirs /\ d # p
  BY PathDir, Zenon
<1>2. Grown(t, s, d, n, p)
  BY ListAppended, Zenon
<1> HIDE DEF d, n
<1>3. \A q : Awaits(s, q) => Awaits(t, q) \/ q = p
  BY <1>2 DEF Awaits, Grown
<1>4. \A q \in Dirs : Missing(t, v, q) => Missing(s, v, q)
  BY <1>2, Zenon DEF Missing, Grown
<1>5. WatchesGood(s, v)
  BY <1>2, Zenon DEF Tables, WatchesGood, Grown
<1>6. p \in Dirs => /\ Missing(t, v, p) /\ ~Awaits(t, p)
                    /\ \A k \in DOMAIN rest : rest[k] # p
  BY Zenon DEF Tables, PendingGood
<1>7. ListsGood(s, v)
  <2>1. ASSUME NEW e \in Dirs, NEW k \in Places(s, e), Slot(s, e, k) \in Dirs
        PROVE  Missing(s, v, Slot(s, e, k))
    <3>1. CASE k \in Places(t, e)
      BY <3>1, <2>1, <1>2, <1>4 DEF Tables, ListsGood, Grown
    <3>2. CASE k \notin Places(t, e)
      BY <3>2, <2>1, <1>2, <1>4, <1>6, Zenon DEF Grown
    <3> QED
      BY <3>1, <3>2
  <2>2. ASSUME NEW e \in Dirs, NEW k \in Places(s, e), NEW m \in Places(s, e),
               Slot(s, e, k) \in Dirs, Slot(s, e, k) = Slot(s, e, m)
        PROVE  k = m
    <3>1. CASE k \in Places(t, e) /\ m \in Places(t, e)
      BY <3>1, <2>2, <1>2 DEF Tables, ListsGood, Grown
    <3>2. CASE k \in Places(t, e) /\ m \notin Places(t, e)
      <4>1. Slot(s, e, m) = p /\ Slot(s, e, k) = Slot(t, e, k)
        BY <3>2, <1>2, Zenon DEF Grown
      <4> QED
        BY <4>1, <3>2, <2>2, <1>6, Zenon DEF Awaits
    <3>3. CASE k \notin Places(t, e) /\ m \in Places(t, e)
      BY <3>3, <2>2, <1>2, <1>6 DEF Awaits, Grown
    <3>4. CASE k \notin Places(t, e) /\ m \notin Places(t, e)
      <4>1. k = n /\ m = n
        BY <3>4, <1>2, Zenon DEF Grown
      <4> QED
        BY <4>1
    <3> QED
      BY <3>1, <3>2, <3>3, <3>4
  <2> QED
    BY <2>1, <2>2, Zenon DEF ListsGood
<1>8. \A k \in DOMAIN rest : rest[k] \in Dirs =>
            Missing(s, v, rest[k]) /\ ~Awaits(s, rest[k])
  BY <1>3, <1>4, <1>6, Zenon DEF Tables, PendingGood
<1>9. \A k, m \in DOMAIN rest :
            rest[k] \in Dirs /\ rest[k] = rest[m] => k = m
  BY Zenon DEF Tables, PendingGood
<1>10. Tables(s, v, {}, rest, {})
  BY <1>5, <1>7, <1>8, <1>9, Zenon DEF Tables, PendingGood
<1>11. ASSUME Empty(t, d)
       PROVE  /\ Missing(s, v, d) /\ ~Awaits(s, d)
              /\ \A k \in DOMAIN rest : rest[k] # d
  <2>1. ~Watched(v, d)
    BY <1>11, Zenon DEF Tables, WatchesGood, Watched
  <2>2. ~Empty(s, d)
    BY <1>1, <1>2, Zenon DEF Grown
  <2>3. ~Awaits(t, d)
    BY <1>1, <1>11, Zenon DEF Tables, ListsGood, Missing, Awaits
  <2>4. \A k \in DOMAIN rest : rest[k] # d
    BY <1>1, <1>11, Zenon DEF Tables, PendingGood, Missing
  <2> QED
    BY <2>1, <2>2, <2>3, <2>4, <1>1, <1>3, Zenon DEF Missing
<1>12. ASSUME Empty(t, d)
       PROVE  Tables(s, v, {}, rest, {d}) /\ Tables(s, v, {d}, rest, {})
  BY <1>5, <1>7, <1>8, <1>9, <1>11, <1>12, Zenon DEF Tables, PendingGood
<1> QED
  BY <1>10, <1>12 DEF d

\* The first of the paths that remain is taken up.
LEMMA HeadNext ==
    ASSUME NEW t, NEW v, NEW rest \in Seq(Paths), rest # <<>>,
           Tables(t, v, {}, rest, {})
    PROVE  Tables(t, v, {Head(rest)}, Tail(rest), {})
<1> DEFINE h == Head(rest)
<1> DEFINE l == Tail(rest)
<1>1. /\ Len(rest) \in Nat \ {0} /\ h = rest[1]
      /\ DOMAIN rest = 1..Len(rest)
      /\ l \in Seq(Paths) /\ Len(l) = Len(rest) - 1
      /\ \A k \in 1..Len(l) : l[k] = rest[k + 1]
      /\ DOMAIN l = 1..Len(l)
  BY HeadTailProperties
<1> HIDE DEF h, l
<1>2. 1 \in DOMAIN rest
  BY <1>1
<1>3. \A k \in DOMAIN l : k + 1 \in DOMAIN rest /\ k + 1 # 1
                          /\ l[k] = rest[k + 1]
  BY <1>1
<1>4. \A k, m \in DOMAIN l : k + 1 = m + 1 => k = m
  BY <1>1
<1>5. PendingGood(t, v, {}, rest, {})
  BY DEF Tables
<1>6. \A q \in Dirs \cap {h} : Missing(t, v, q) /\ ~Awaits(t, q)
  BY <1>1, <1>2, <1>5, Zenon DEF PendingGood
<1>7. \A k \in DOMAIN l : l[k] \in Dirs =>
            Missing(t, v, l[k]) /\ ~Awaits(t, l[k])
  BY <1>3, <1>5, Zenon DEF PendingGood
<1>8. \A q \in Dirs \cap {h} : \A k \in DOMAIN l : l[k] # q
  BY <1>1, <1>2, <1>3, <1>5 DEF PendingGood
<1>9. \A k, m \in DOMAIN l : l[k] \in Dirs /\ l[k] = l[m] => k = m
  BY <1>3, <1>4, <1>5, Zenon DEF PendingGood
<1>10. PendingGood(t, v, {h}, l, {})
  BY <1>6, <1>7, <1>8, <1>9, Zenon DEF PendingGood
<1> QED
  BY <1>10 DEF Tables, h, l

\* The list of the directory at hand goes: its watch failed, or its only
\* file is there.
LEMMA ListDropped ==
    ASSUME NEW t \in [Dirs -> Seq(Names)], NEW d \in Dirs, NEW s,
           s = [t EXCEPT ![d] = <<>>],
           NEW v, \A x \in v : x[2] \in Dirs, NEW rest,
           Tables(t, v, {}, rest, {d})
    PROVE  Tables(s, v, {}, rest, {})
<1>1. /\ Empty(s, d) /\ Places(s, d) = {}
      /\ \A e \in Dirs \ {d} : s[e] = t[e]
  BY DEF Empty, Places
<1>2. \A e \in Dirs \ {d} : Empty(s, e) <=> Empty(t, e)
  BY <1>1 DEF Empty
<1>3. ~Watched(v, d) /\ ~Awaits(t, d)
  BY Zenon DEF Tables, PendingGood, Missing
<1>4. \A e \in Dirs : \A k \in Places(s, e) : 
            e # d /\ k \in Places(t, e) /\ Slot(s, e, k) = Slot(t, e, k)
  BY <1>1, Zenon DEF Slot, Places
<1>5. \A q : Awaits(s, q) => Awaits(t, q)
  BY <1>4 DEF Awaits
<1>6. \A q \in Dirs \ {d} : Missing(t, v, q) => Missing(s, v, q)
  BY <1>2, Zenon DEF Missing
<1>7. WatchesGood(s, v)
  BY <1>2, <1>3, Zenon DEF Tables, WatchesGood, Watched
<1>8. ListsGood(s, v)
  <2>1. ASSUME NEW e \in Dirs, NEW k \in Places(s, e), Slot(s, e, k) \in Dirs
        PROVE  Missing(s, v, Slot(s, e, k))
    <3>1. Slot(t, e, k) # d
      BY <2>1, <1>3, <1>4, Zenon DEF Awaits
    <3> QED
      BY <3>1, <2>1, <1>4, <1>6, Zenon DEF Tables, ListsGood
  <2>2. ASSUME NEW e \in Dirs, NEW k \in Places(s, e), NEW m \in Places(s, e),
               Slot(s, e, k) \in Dirs, Slot(s, e, k) = Slot(s, e, m)
        PROVE  k = m
    BY <2>2, <1>4 DEF Tables, ListsGood
  <2> QED
    BY <2>1, <2>2, Zenon DEF ListsGood
<1>9. PendingGood(s, v, {}, rest, {})
  BY <1>5, <1>6, Zenon DEF Tables, PendingGood
<1> QED
  BY <1>7, <1>8, <1>9 DEF Tables

\* The watch of the directory at hand enters the table.
LEMMA WatchKept ==
    ASSUME NEW t, NEW v, NEW d \in Dirs, NEW n, NEW rest,
           \A x \in v : x[1] # n,
           Tables(t, v, {}, rest, {d})
    PROVE  Tables(t, v \cup {<<n, d>>}, {}, rest, {})
<1> DEFINE u == v \cup {<<n, d>>}
<1>1. ~Empty(t, d) /\ ~Watched(v, d) /\ ~Awaits(t, d)
  BY Zenon DEF Tables, PendingGood, Missing
<1>2. \A x \in u : x \in v \/ (x = <<n, d>> /\ x[1] = n /\ x[2] = d)
  OBVIOUS
<1>3. \A q \in Dirs : Missing(t, v, q) /\ q # d => Missing(t, u, q)
  BY <1>2, Zenon DEF Missing, Watched
<1> HIDE DEF u
<1>4. WatchesGood(t, u)
  BY <1>1, <1>2, Zenon DEF Tables, WatchesGood, Watched
<1>5. ListsGood(t, u)
  BY <1>1, <1>3, Zenon DEF Tables, ListsGood, Awaits
<1>6. PendingGood(t, u, {}, rest, {})
  BY <1>3, Zenon DEF Tables, PendingGood
<1> QED
  BY <1>4, <1>5, <1>6 DEF Tables, u

-----------------------------------------------------------------------------
(* Taking an event.                                                        *)

\* A set of numbers that isn't empty has a least one.
LEMMA LeastNat ==
    ASSUME NEW T \in SUBSET Nat, T # {}
    PROVE  Min(T) \in T /\ \A y \in T : Min(T) <= y
<1>1. PICK x \in T : \A y \in T : ~(<<y, x>> \in OpToRel(<, Nat))
  BY WFMin, NatLessThanWellFounded, Zenon
<1>2. \A y \in T : x <= y
  <2> SUFFICES ASSUME NEW y \in T, ~(x <= y)
               PROVE  FALSE
    OBVIOUS
  <2>1. y \in Nat /\ x \in Nat /\ y < x
    OBVIOUS
  <2>2. <<y, x>> \in Nat \X Nat /\ <<y, x>>[1] < <<y, x>>[2]
    BY <2>1
  <2>3. <<y, x>> \in OpToRel(<, Nat)
    BY <2>2, Zenon DEF OpToRel
  <2> QED
    BY <2>3, <1>1
<1> QED
  BY <1>2 DEF Min

\* What is left of a list when the first n is taken off: the places that
\* remain come from the places other than that of n, one from each.
LeftOver(l, r, n) ==
    \E m \in DOMAIN l :
        /\ l[m] = n
        /\ \E f \in [DOMAIN r -> DOMAIN l \ {m}] :
            /\ \A j, k \in DOMAIN r : f[j] = f[k] => j = k
            /\ \A k \in DOMAIN r : r[k] = l[f[k]]
            /\ \A j \in DOMAIN l \ {m} : \E k \in DOMAIN r : f[k] = j

\* RemoveFirst takes one place, that of n, and keeps the others apart.
LEMMA RemoveFirstSeq ==
    ASSUME NEW S, NEW l \in Seq(S), NEW n, Contains(l, n), NEW r,
           r = RemoveFirst(l, n)
    PROVE  r \in Seq(S) /\ LeftOver(l, r, n)
<1> DEFINE I == {k \in 1..Len(l) : l[k] = n}
<1> DEFINE m == Min(I)
<1>1. DOMAIN l = 1..Len(l) /\ Len(l) \in Nat
  BY LenProperties
<1>2. I \in SUBSET Nat /\ I # {}
  BY <1>1 DEF Contains
<1>3. m \in I
  BY <1>2, LeastNat
<1>4. SelectInSeq(l, LAMBDA v : v = n) = m
  BY <1>2 DEF SelectInSeq
<1>5. r = SubSeq(l, 1, m - 1) \o SubSeq(l, m + 1, Len(l))
  BY <1>4, <1>2 DEF RemoveFirst, RemoveAt, Contains
<1>6. m \in 1..Len(l) /\ l[m] = n
  BY <1>3
<1> HIDE DEF m, I
<1> DEFINE a == SubSeq(l, 1, m - 1)
<1> DEFINE b == SubSeq(l, m + 1, Len(l))
<1>7. \A k \in 1..Len(l) : l[k] \in S
  BY <1>1
<1>8. a \in Seq(S) /\ Len(a) = m - 1 /\ \A k \in 1..m - 1 : a[k] = l[k]
  <2> DEFINE z == m - 1
  <2>1. z \in Int /\ 1 \in Int /\ z >= 0 /\ \A k \in 1..z : l[k] \in S
    BY <1>1, <1>6, <1>7
  <2> HIDE DEF z
  <2>2. /\ SubSeq(l, 1, z) \in Seq(S)
        /\ Len(SubSeq(l, 1, z)) = IF 1 <= z THEN z - 1 + 1 ELSE 0
        /\ \A k \in 1..z - 1 + 1 : SubSeq(l, 1, z)[k] = l[1 + k - 1]
    BY <2>1, SubSeqProperties
  <2>3. /\ SubSeq(l, 1, z) \in Seq(S)
        /\ Len(SubSeq(l, 1, z)) = z
        /\ \A k \in 1..z : SubSeq(l, 1, z)[k] = l[k]
    BY <2>1, <2>2
  <2> QED
    BY <2>3 DEF z
<1>9. /\ b \in Seq(S) /\ Len(b) = Len(l) - m
      /\ \A k \in 1..Len(l) - m : b[k] = l[m + k]
  <2> DEFINE y == m + 1
  <2> DEFINE z == Len(l)
  <2>1. /\ y \in Int /\ z \in Int /\ y <= z + 1 /\ m \in Int /\ y = m + 1
        /\ \A k \in y..z : l[k] \in S
    BY <1>1, <1>6, <1>7
  <2> HIDE DEF y, z
  <2>2. /\ SubSeq(l, y, z) \in Seq(S)
        /\ Len(SubSeq(l, y, z)) = IF y <= z THEN z - y + 1 ELSE 0
        /\ \A k \in 1..z - y + 1 : SubSeq(l, y, z)[k] = l[y + k - 1]
    BY <2>1, SubSeqProperties
  <2>3. /\ SubSeq(l, y, z) \in Seq(S)
        /\ Len(SubSeq(l, y, z)) = z - m
        /\ \A k \in 1..z - m : SubSeq(l, y, z)[k] = l[m + k]
    <3>1. \A k \in 1..z - m : k \in 1..z - y + 1 /\ y + k - 1 = m + k
      BY <2>1
    <3>2. Len(SubSeq(l, y, z)) = z - m
      BY <2>1, <2>2
    <3> QED
      BY <2>2, <3>1, <3>2
  <2> QED
    BY <2>3 DEF y, z
<1> HIDE DEF a, b
<1>10. r = a \o b
  BY <1>5 DEF a, b
<1>11. /\ r \in Seq(S) /\ Len(r) = Len(a) + Len(b)
       /\ \A k \in 1..Len(a) + Len(b) :
            r[k] = IF k <= Len(a) THEN a[k] ELSE b[k - Len(a)]
  <2>1. a \in Seq(S) /\ b \in Seq(S)
    BY <1>8, <1>9
  <2> QED
    BY <2>1, <1>10, ConcatProperties
<1>12. DOMAIN r = 1..Len(l) - 1
  <2>1. Len(r) = Len(l) - 1
    BY <1>11, <1>8, <1>9, <1>6, <1>1
  <2> QED
    BY <2>1, <1>11, LenProperties
<1> DEFINE f == [k \in DOMAIN r |-> IF k < m THEN k ELSE k + 1]
<1>13. f \in [DOMAIN r -> DOMAIN l \ {m}]
  BY <1>12, <1>6, <1>1
<1>14. \A j, k \in DOMAIN r : f[j] = f[k] => j = k
  BY <1>12, <1>6, <1>1
<1>15. ASSUME NEW k \in DOMAIN r
       PROVE  r[k] = l[f[k]]
  <2>1. k \in Int /\ 1 <= k /\ k <= Len(l) - 1 /\ m \in Int
    BY <1>12, <1>6, <1>1
  <2>2. CASE k < m
    BY <2>1, <2>2, <1>8, <1>9, <1>11
  <2>3. CASE ~(k < m)
    <3>1. r[k] = b[k - (m - 1)]
      BY <2>1, <2>3, <1>1, <1>8, <1>9, <1>11
    <3>2. k - (m - 1) \in 1..Len(l) - m /\ m + (k - (m - 1)) = k + 1
      BY <2>1, <2>3, <1>1, <1>6
    <3> QED
      BY <3>1, <3>2, <2>3, <1>9
  <2> QED
    BY <2>2, <2>3
<1>16. ASSUME NEW j \in DOMAIN l \ {m}
       PROVE  \E k \in DOMAIN r : f[k] = j
  <2>1. j \in Int /\ m \in Int /\ 1 <= j /\ j <= Len(l) /\ j # m
    BY <1>1, <1>6
  <2>2. CASE j < m
    <3>1. j \in DOMAIN r /\ f[j] = j
      BY <1>1, <1>6, <1>12, <2>1, <2>2
    <3> QED
      BY <3>1
  <2>3. CASE ~(j < m)
    <3>1. j - 1 \in DOMAIN r /\ f[j - 1] = j
      BY <1>1, <1>6, <1>12, <2>1, <2>3
    <3> QED
      BY <3>1
  <2> QED
    BY <2>2, <2>3
<1> HIDE DEF f
<1>17. m \in DOMAIN l
  BY <1>1, <1>6
<1> QED
  BY <1>6, <1>11, <1>13, <1>14, <1>15, <1>16, <1>17, Zenon DEF LeftOver

\* ... and so the table loses one place, of the path of the event.
LEMMA ListShortened ==
    ASSUME NEW t \in [Dirs -> Seq(Names)], NEW d \in Dirs, NEW n,
           Contains(t[d], n), NEW s, s = Shortened(t, d, n)
    PROVE  s \in [Dirs -> Seq(Names)] /\ Shrunk(t, s, d, Append(d, n))
<1> DEFINE l == t[d]
<1> DEFINE r == RemoveFirst(l, n)
<1>1. s = [t EXCEPT ![d] = r]
  BY DEF Shortened
<1>2. l \in Seq(Names)
  OBVIOUS
<1>3. r \in Seq(Names) /\ LeftOver(l, r, n)
  <2> HIDE DEF l
  <2>1. Contains(l, n)
    BY DEF l
  <2> QED
    BY <1>2, <2>1, RemoveFirstSeq
<1> HIDE DEF r
<1>4. s[d] = r /\ \A e \in Dirs \ {d} : s[e] = t[e]
  BY <1>1
<1>5. s \in [Dirs -> Seq(Names)]
  BY <1>1, <1>3
<1>6. ASSUME NEW e \in Dirs \ {d}
      PROVE  /\ Empty(s, e) <=> Empty(t, e)
             /\ Places(s, e) = Places(t, e)
             /\ \A k \in Places(s, e) : Slot(s, e, k) = Slot(t, e, k)
  BY <1>4, Zenon DEF Empty, Places, Slot
<1>7. PICK m \in DOMAIN l :
          /\ l[m] = n
          /\ \E f \in [DOMAIN r -> DOMAIN l \ {m}] :
              /\ \A j, k \in DOMAIN r : f[j] = f[k] => j = k
              /\ \A k \in DOMAIN r : r[k] = l[f[k]]
              /\ \A j \in DOMAIN l \ {m} : \E k \in DOMAIN r : f[k] = j
  BY <1>3, Zenon DEF LeftOver
<1>8. PICK f \in [DOMAIN r -> DOMAIN l \ {m}] :
              /\ \A j, k \in DOMAIN r : f[j] = f[k] => j = k
              /\ \A k \in DOMAIN r : r[k] = l[f[k]]
              /\ \A j \in DOMAIN l \ {m} : \E k \in DOMAIN r : f[k] = j
  BY <1>7, Zenon
<1>9. DOMAIN r = Places(s, d) /\ DOMAIN l = Places(t, d)
  BY <1>4, Zenon DEF Places
<1>10. \A k \in Places(s, d) : Slot(s, d, k) = Slot(t, d, f[k])
  BY <1>4, <1>8, <1>9, Zenon DEF Slot
<1>11. Slot(t, d, m) = Append(d, n)
  BY <1>7, Zenon DEF Slot
<1>12. m \in Places(t, d)
  BY <1>9
<1>13. /\ f \in [Places(s, d) -> Places(t, d) \ {m}]
       /\ \A j, k \in Places(s, d) : f[j] = f[k] => j = k
       /\ \A j \in Places(t, d) \ {m} : \E k \in Places(s, d) : f[k] = j
  BY <1>8, <1>9, Zenon
<1> QED
  BY <1>5, <1>6, <1>10, <1>11, <1>12, <1>13, Zenon DEF Shrunk

\* The first event is taken.
MayShrink(t, s, v, u, wd, d, q) ==
    /\ t \in [Dirs -> Seq(Names)] /\ d \in Dirs /\ Shrunk(t, s, d, q)
    /\ HasWatch(v, wd, d) /\ u = Left(v, s, wd, d)
    /\ \A x \in v : x[2] \in Dirs
    /\ Tables(t, v, {}, <<>>, {})

\* The tables stay good when an awaited name goes, with the watch of a list
\* that gets empty; a directory that has appeared is on no list any more.
LEMMA NameTaken ==
    ASSUME NEW t, NEW s, NEW v, NEW u, NEW c, NEW d, NEW q,
           MayShrink(t, s, v, u, c, d, q)
    PROVE  /\ Tables(s, u, {}, <<>>, {})
           /\ q \in Dirs => Missing(s, u, q) /\ ~Awaits(s, q)
<1> USE DEF MayShrink
<1>1. /\ WatchesGood(t, v) /\ ListsGood(t, v)
  BY DEF Tables
<1>0. /\ <<c, d>> \in v
      /\ u = IF Empty(s, d) THEN v \ {<<c, d>>} ELSE v
  BY DEF HasWatch, Left
<1>2. Watched(v, d)
  <2>1. <<c, d>>[2] = d
    OBVIOUS
  <2> QED
    BY <2>1, <1>0, Zenon DEF Watched
<1>3. ~Awaits(t, d)
  BY <1>1, <1>2, Zenon DEF ListsGood, Missing, Awaits
<1>4. u \subseteq v
  BY <1>0
<1>5. PICK m \in Places(t, d) :
        /\ Slot(t, d, m) = q
        /\ \E f \in [Places(s, d) -> Places(t, d) \ {m}] :
            /\ \A j, k \in Places(s, d) : f[j] = f[k] => j = k
            /\ \A k \in Places(s, d) : Slot(s, d, k) = Slot(t, d, f[k])
  BY Zenon DEF Shrunk
<1>6. PICK f \in [Places(s, d) -> Places(t, d) \ {m}] :
            /\ \A j, k \in Places(s, d) : f[j] = f[k] => j = k
            /\ \A k \in Places(s, d) : Slot(s, d, k) = Slot(t, d, f[k])
  BY <1>5, Zenon
<1>7. \A k \in Places(s, d) : f[k] \in Places(t, d) /\ f[k] # m
  OBVIOUS
<1>8. \A e \in Dirs \ {d} :
        /\ Empty(s, e) <=> Empty(t, e)
        /\ Places(s, e) = Places(t, e)
        /\ \A k \in Places(s, e) : Slot(s, e, k) = Slot(t, e, k)
  BY Zenon DEF Shrunk
<1>9. \A e \in Dirs \ {d} : Missing(t, v, e) => Missing(s, u, e)
  BY <1>4, <1>8, Zenon DEF Missing, Watched
<1>10. \A e : Awaits(s, e) => Awaits(t, e)
  <2> SUFFICES ASSUME NEW e, NEW a \in Dirs, NEW k \in Places(s, a),
                      Slot(s, a, k) = e
               PROVE  Awaits(t, e)
    BY Zenon DEF Awaits
  <2>1. CASE a = d
    BY <2>1, <1>6, <1>7, Zenon DEF Awaits
  <2>2. CASE a # d
    <3>1. k \in Places(t, a) /\ Slot(t, a, k) = e
      BY <2>2, <1>8
    <3> QED
      BY <3>1, Zenon DEF Awaits
  <2> QED
    BY <2>1, <2>2
<1>11. WatchesGood(s, u)
  <2>1. ASSUME NEW x \in u
        PROVE  ~Empty(s, x[2])
    <3>1. CASE x[2] = d
      <4>1. <<c, d>>[2] = d
        OBVIOUS
      <4>2. x = <<c, d>>
        BY <3>1, <4>1, <1>0, <1>1, <1>4, Zenon DEF WatchesGood
      <4> QED
        BY <3>1, <4>2, <1>0
    <3>2. CASE x[2] # d
      BY <3>2, <1>1, <1>4, <1>8, Zenon DEF WatchesGood
    <3> QED
      BY <3>1, <3>2
  <2> QED
    BY <2>1, <1>1, <1>4, Zenon DEF WatchesGood
<1>12. ASSUME NEW a \in Dirs, NEW k \in Places(s, a), Slot(s, a, k) \in Dirs
       PROVE  Missing(s, u, Slot(s, a, k))
  <2>1. Awaits(t, Slot(s, a, k))
    BY <1>10, Zenon DEF Awaits
  <2>2. Slot(s, a, k) # d
    BY <2>1, <1>3
  <2>3. Missing(t, v, Slot(s, a, k))
    BY <2>1, <1>12, <1>1, Zenon DEF ListsGood, Awaits
  <2> QED
    BY <2>2, <2>3, <1>9, <1>12, Zenon
<1>13. ASSUME NEW a \in Dirs, NEW j \in Places(s, a), NEW k \in Places(s, a),
              Slot(s, a, j) \in Dirs, Slot(s, a, j) = Slot(s, a, k)
       PROVE  j = k
  <2>1. CASE a = d
    <3>1. /\ f[j] \in Places(t, d) /\ f[k] \in Places(t, d)
          /\ Slot(t, d, f[j]) = Slot(t, d, f[k]) /\ Slot(t, d, f[j]) \in Dirs
      BY <2>1, <1>6, <1>7, <1>13
    <3>2. f[j] = f[k]
      BY <3>1, <1>1, Zenon DEF ListsGood
    <3> QED
      BY <3>2, <2>1, <1>6
  <2>2. CASE a # d
    <3>1. /\ j \in Places(t, a) /\ k \in Places(t, a)
          /\ Slot(t, a, j) = Slot(t, a, k) /\ Slot(t, a, j) \in Dirs
      BY <2>2, <1>8, <1>13
    <3> QED
      BY <3>1, <1>1, Zenon DEF ListsGood
  <2> QED
    BY <2>1, <2>2
<1>14. ListsGood(s, u)
  BY <1>12, <1>13, Zenon DEF ListsGood
<1>15. ASSUME q \in Dirs
       PROVE  Missing(s, u, q) /\ ~Awaits(s, q)
  <2>1. Awaits(t, q)
    BY <1>5, Zenon DEF Awaits
  <2>2. q # d
    BY <2>1, <1>3
  <2>3. Missing(t, v, q)
    BY <1>5, <1>15, <1>1, Zenon DEF ListsGood
  <2>4. ASSUME NEW a \in Dirs, NEW k \in Places(s, a), Slot(s, a, k) = q
        PROVE  FALSE
    <3>1. CASE a = d
      <4>1. /\ f[k] \in Places(t, d) /\ f[k] # m
            /\ Slot(t, d, f[k]) = Slot(t, d, m) /\ Slot(t, d, m) \in Dirs
        BY <3>1, <1>5, <1>6, <1>7, <1>15, <2>4
      <4> QED
        BY <4>1, <1>1, Zenon DEF ListsGood
    <3>2. CASE a # d
      <4>1. k \in Places(t, a) /\ Slot(t, a, k) = Slot(t, d, m)
        BY <3>2, <1>5, <1>8, <2>4
      <4> QED
        BY <4>1, <3>2, SlotInj
    <3> QED
      BY <3>1, <3>2
  <2> QED
    BY <2>2, <2>3, <2>4, <1>9, <1>15, Zenon DEF Awaits
<1>16. DOMAIN <<>> = {}
  OBVIOUS
<1>17. PendingGood(s, u, {}, <<>>, {})
  BY <1>16, Zenon DEF PendingGood
<1> QED
  BY <1>11, <1>14, <1>15, <1>17 DEF Tables

\* The files that wait for a directory become the paths to add.
LEMMA ListMoved ==
    ASSUME NEW t \in [Dirs -> Seq(Names)], NEW q \in Dirs, NEW s,
           s = [t EXCEPT ![q] = <<>>],
           NEW v, \A x \in v : x[2] \in Dirs,
           Tables(t, v, {}, <<>>, {}), Missing(t, v, q), ~Awaits(t, q),
           NEW items, DOMAIN items = Places(t, q),
           \A k \in Places(t, q) : items[k] = Slot(t, q, k)
    PROVE  Tables(s, v, {}, items, {})
<1>1. DOMAIN <<>> = {}
  OBVIOUS
<1>2. Tables(t, v, {}, <<>>, {q})
  BY <1>1, Zenon DEF Tables, PendingGood
<1>3. Tables(s, v, {}, <<>>, {})
  BY <1>2, ListDropped
<1>4. /\ Places(s, q) = {}
      /\ \A e \in Dirs \ {q} : s[e] = t[e]
  BY DEF Places
<1>5. \A e \in Dirs \ {q} : /\ Empty(s, e) <=> Empty(t, e)
                             /\ Places(s, e) = Places(t, e)
                             /\ \A k : Slot(s, e, k) = Slot(t, e, k)
  BY <1>4, Zenon DEF Empty, Places, Slot
<1>6. ASSUME NEW k \in DOMAIN items, items[k] \in Dirs
      PROVE  Missing(s, v, items[k]) /\ ~Awaits(s, items[k])
  <2>1. items[k] = Slot(t, q, k) /\ k \in Places(t, q)
    BY <1>6
  <2>2. Missing(t, v, items[k])
    <3>1. Slot(t, q, k) \in Dirs
      BY <2>1, <1>6
    <3>2. Missing(t, v, Slot(t, q, k))
      BY <2>1, <3>1, Zenon DEF Tables, ListsGood
    <3> QED
      BY <2>1, <3>2
  <2>3. items[k] # q
    BY <2>1, Zenon DEF Awaits
  <2>4. ASSUME NEW e \in Dirs, NEW m \in Places(s, e),
               Slot(s, e, m) = items[k]
        PROVE  FALSE
    <3>1. e # q
      BY <1>4
    <3>2. m \in Places(t, e) /\ Slot(t, e, m) = Slot(t, q, k)
      <4>1. Places(s, e) = Places(t, e) /\ Slot(s, e, m) = Slot(t, e, m)
        <5>1. s[e] = t[e]
          BY <3>1, <1>4, Zenon
        <5> QED
          BY <5>1, Zenon DEF Places, Slot
      <4> QED
        BY <4>1, <2>1, <2>4
    <3> QED
      BY <3>1, <3>2, <2>1, SlotInj
  <2> QED
    BY <2>2, <2>3, <2>4, <1>5, <1>6, Zenon DEF Missing, Awaits
<1>7. \A k, m \in DOMAIN items :
        items[k] \in Dirs /\ items[k] = items[m] => k = m
  <2>1. \A k, m \in Places(t, q) :
        Slot(t, q, k) \in Dirs /\ Slot(t, q, k) = Slot(t, q, m) => k = m
    BY Zenon DEF Tables, ListsGood
  <2> QED
    BY <2>1
<1> QED
  BY <1>3, <1>6, <1>7, Zenon DEF Tables, PendingGood

-----------------------------------------------------------------------------
(* The types.                                                              *)

\* The fields of a WatchInfo that was put together, and its type.
LEMMA MadeInfo ==
    ASSUME NEW t, NEW v, NEW kernel, NEW queue, NEW n, NEW source, NEW i,
           i = MakeInfo(t, v, kernel, queue, n, source)
    PROVE  /\ i.dir_table = t /\ i.wd_table = v /\ i.kernel = kernel
           /\ i.queue = queue /\ i.wds = n /\ i.source = source
           /\ (TableType(t) /\ WatchType(v, n) /\ n \in Nat
                /\ source \in BOOLEAN) => InfoType(i)
<1>1. /\ i.dir_table = t /\ i.wd_table = v /\ i.kernel = kernel
      /\ i.queue = queue /\ i.wds = n /\ i.source = source
  BY DEF MakeInfo
<1> QED
  BY <1>1, Zenon DEF InfoType

\* Every place of a table holds a name and stands for a path.
LEMMA TableSlots ==
    ASSUME NEW t, TableType(t)
    PROVE  /\ t \in [Dirs -> Seq(Names)]
           /\ \A d \in Dirs : \A k \in Places(t, d) :
                    Slot(t, d, k) \in Paths /\ t[d][k] \in Names
<1>1. t \in [Dirs -> Seq(Names)]
  BY DEF TableType
<1>2. ASSUME NEW d \in Dirs, NEW k \in Places(t, d)
      PROVE  t[d][k] \in Names
  <2> DEFINE l == t[d]
  <2>1. l \in Seq(Names) /\ k \in DOMAIN l
    BY <1>1 DEF Places
  <2> HIDE DEF l
  <2>2. l[k] \in Names
    BY <2>1
  <2> QED
    BY <2>2 DEF l
<1> QED
  BY <1>1, <1>2, Zenon DEF TableType

\* A path on the list of its directory keeps the type of the table,
LEMMA ListedType ==
    ASSUME NEW t, TableType(t), NEW p \in Paths
    PROVE  TableType(Listed(t, p))
<1> DEFINE s == Listed(t, p)
<1>1. t \in [Dirs -> Seq(Names)]
  BY DEF TableType
<1>2. s \in [Dirs -> Seq(Names)] /\ Grown(t, s, Dir(p), NewPlace(t, Dir(p)), p)
  BY <1>1, ListAppended
<1> HIDE DEF s
<1>3. ASSUME NEW e \in Dirs, NEW k \in Places(s, e)
      PROVE  Slot(s, e, k) \in Paths
  BY <1>2 DEF Grown, TableType
<1> QED
  BY <1>2, <1>3, Zenon DEF TableType, s

\* so does a list that goes,
LEMMA DroppedType ==
    ASSUME NEW t, TableType(t), NEW d \in Dirs
    PROVE  TableType([t EXCEPT ![d] = <<>>])
<1> DEFINE s == [t EXCEPT ![d] = <<>>]
<1>1. t \in [Dirs -> Seq(Names)]
  BY DEF TableType
<1>2. s \in [Dirs -> Seq(Names)]
  BY <1>1
<1>3. Places(s, d) = {} /\ \A e \in Dirs \ {d} : s[e] = t[e]
  BY <1>1 DEF Places
<1> HIDE DEF s
<1>4. ASSUME NEW e \in Dirs, NEW k \in Places(s, e)
      PROVE  Slot(s, e, k) \in Paths
  <2>1. e # d
    BY <1>3
  <2>2. s[e] = t[e]
    BY <2>1, <1>3, Zenon
  <2> QED
    BY <2>2, Zenon DEF Slot, Places, TableType
<1> QED
  BY <1>2, <1>4, Zenon DEF TableType, s

\* and so does a name that goes.
LEMMA ShortenedType ==
    ASSUME NEW t, TableType(t), NEW d \in Dirs, NEW n, Contains(t[d], n)
    PROVE  TableType(Shortened(t, d, n))
<1> DEFINE s == Shortened(t, d, n)
<1>1. t \in [Dirs -> Seq(Names)]
  BY DEF TableType
<1>2. s \in [Dirs -> Seq(Names)] /\ Shrunk(t, s, d, Append(d, n))
  BY <1>1, ListShortened
<1> HIDE DEF s
<1>3. PICK m \in Places(t, d) :
        \E f \in [Places(s, d) -> Places(t, d) \ {m}] :
            \A k \in Places(s, d) : Slot(s, d, k) = Slot(t, d, f[k])
  BY <1>2, Zenon DEF Shrunk
<1>5. PICK f \in [Places(s, d) -> Places(t, d) \ {m}] :
            \A k \in Places(s, d) : Slot(s, d, k) = Slot(t, d, f[k])
  BY <1>3
<1>4. ASSUME NEW e \in Dirs, NEW k \in Places(s, e)
      PROVE  Slot(s, e, k) \in Paths
  <2>1. CASE e = d
    <3>1. f[k] \in Places(t, d) /\ Slot(s, d, k) = Slot(t, d, f[k])
      BY <2>1, <1>5
    <3> QED
      BY <2>1, <3>1, Zenon DEF TableType
  <2>2. CASE e # d
    BY <2>2, <1>2 DEF TableType, Shrunk
  <2> QED
    BY <2>1, <2>2
<1> QED
  BY <1>2, <1>4, Zenon DEF TableType, s

\* A new WatchInfo is good.
LEMMA FreedGood ==
    InfoType(NewInfo) /\ IdleGood(NewInfo)
<1> DEFINE t == [d \in Dirs |-> <<>>]
<1> DEFINE no == FALSE
<1> DEFINE n == 0
<1>1. NewInfo = MakeInfo(t, {}, {}, <<>>, n, no)
  BY DEF NewInfo, MakeInfo
<1>8. no \in BOOLEAN /\ n \in Nat /\ n = 0
  OBVIOUS
<1> HIDE DEF no, n
<1>2. t \in [Dirs -> Seq(Names)] /\ \A d \in Dirs : Places(t, d) = {}
  BY DEF Places
<1> HIDE DEF t
<1>3. TableType(t)
  BY <1>2 DEF TableType
<1>4. WatchType({}, n)
  BY FS_EmptySet DEF WatchType
<1>5. InfoType(NewInfo)
  BY <1>1, <1>3, <1>4, <1>8, MadeInfo
<1>6. /\ NewInfo.dir_table = t /\ NewInfo.wd_table = {} /\ NewInfo.kernel = {}
  BY <1>1, MadeInfo
<1>7. Tables(t, {}, {}, <<>>, {})
  BY <1>2 DEF Tables, WatchesGood, ListsGood, PendingGood
<1> QED
  BY <1>5, <1>6, <1>7 DEF IdleGood

-----------------------------------------------------------------------------
(* The steps of the watcher.                                               *)

\* Nobody else is in _add_watch.
Alone(j, w) == \A u \in Watchers \ {w} : ~AddsFor(j, u)

\* One watcher changes while at most that one is in _add_watch.
LEMMA InfosPut ==
    ASSUME NEW f, NEW j, InfosGood(f, j), NEW w \in Watchers, Alone(j, w),
           NEW i, InfoType(i), NEW g, g = [f EXCEPT ![w] = i],
           NEW k, Alone(k, w), WatcherGood(i, k, w)
    PROVE  InfosGood(g, k)
<1>1. f = [u \in Watchers |-> f[u]]
  BY DEF InfosGood
<1>2. /\ g = [u \in Watchers |-> g[u]]
      /\ g[w] = i /\ \A u \in Watchers \ {w} : g[u] = f[u]
  BY <1>1
<1>3. ASSUME NEW u \in Watchers
      PROVE  InfoType(g[u]) /\ WatcherGood(g[u], k, u)
  <2>1. CASE u = w
    BY <2>1, <1>2
  <2>2. CASE u # w
    <3>1. g[u] = f[u] /\ InfoType(f[u]) /\ WatcherGood(f[u], j, u)
      BY <2>2, <1>2 DEF InfosGood
    <3>2. ~AddsFor(j, u) /\ ~AddsFor(k, u)
      BY <2>2 DEF Alone
    <3>3. IdleGood(g[u])
      BY <3>1, <3>2, Zenon DEF WatcherGood
    <3> QED
      BY <3>1, <3>2, <3>3, Zenon DEF WatcherGood
  <2> QED
    BY <2>1, <2>2
<1> QED
  BY <1>2, <1>3, Zenon DEF InfosGood

\* The job of adding a list of files.
LEMMA AddJobFields ==
    ASSUME NEW w \in Watchers, NEW mode \in {"start", "event"},
           NEW items \in Seq(Paths), items # <<>>, NEW n \in Nat,
           NEW j, j = AddJob(w, mode, items, n)
    PROVE  /\ j \in AddType
           /\ j.mode = mode /\ j.w = w /\ j.path = Head(items)
           /\ j.todo = items /\ j.step = "dir" /\ j.nwatch = n
           /\ AddsFor(j, w) /\ Alone(j, w) /\ j # NoJob
<1>1. Head(items) \in Paths
  OBVIOUS
<1>2. /\ j.mode = mode /\ j.w = w /\ j.path = Head(items)
      /\ j.todo = items /\ j.step = "dir" /\ j.nwatch = n
  BY DEF AddJob
<1>3. j \in AddType
  BY <1>1 DEF AddJob, AddType
<1>4. NoJob.mode = "none"
  BY DEF NoJob
<1> QED
  BY <1>2, <1>3, <1>4 DEF AddsFor, Alone

\* The job of reading events.
LEMMA ReadJobFields ==
    ASSUME NEW w \in Watchers, NEW n \in Nat, NEW j, j = ReadJob(w, n)
    PROVE  /\ j \in ReadType /\ j.mode = "read" /\ j.w = w /\ j.nwatch = n
           /\ \A u \in Watchers : ~AddsFor(j, u)
           /\ Alone(j, w) /\ j # NoJob
BY DEF ReadJob, ReadType, AddsFor, Alone, NoJob

\* No job is for nobody.
LEMMA NoJobFields ==
    /\ NoJob.mode = "none" /\ \A w : ~AddsFor(NoJob, w) /\ Alone(NoJob, w)
BY DEF NoJob, AddsFor, Alone

\* What kind of job is at hand.
LEMMA JobFields ==
    ASSUME job \in JobType
    PROVE  /\ job = NoJob \/ (/\ job.w \in Watchers /\ job.nwatch \in Nat
                              /\ Alone(job, job.w))
           /\ job.mode \in {"none", "start", "event", "read"}
           /\ job = NoJob <=> job.mode = "none"
           /\ job.mode \in {"start", "event"} =>
                /\ job \in AddType /\ AddsFor(job, job.w)
                /\ job.todo \in Seq(Paths) /\ job.todo # <<>>
                /\ job.path \in Paths /\ job.step \in {"dir", "watch", "file"}
           /\ job.mode = "read" => \A w : ~AddsFor(job, w)
<1>1. CASE job = NoJob
  BY <1>1, NoJobFields
<1>2. CASE job \in ReadType
  BY <1>2, NoJobFields DEF ReadType, AddsFor, Alone
<1>3. CASE job \in AddType
  BY <1>3, NoJobFields DEF AddType, AddsFor, Alone
<1> QED
  BY <1>1, <1>2, <1>3 DEF JobType

\* What follows an item, when its path is neither pending nor at hand.
LEMMA ItemDone ==
    ASSUME job \in JobType, InfosGood(info, job),
           job.mode \in {"start", "event"},
           NEW i, InfoType(i), i.kernel = i.wd_table,
           Tables(i.dir_table, i.wd_table, {}, Tail(job.todo), {}),
           NEW n \in Nat, NextItem(i, n)
    PROVE  job' \in JobType /\ InfosGood(info', job')
<1> DEFINE w == job.w
<1> DEFINE rest == Tail(job.todo)
<1>1. /\ w \in Watchers /\ Alone(job, w)
      /\ job.todo \in Seq(Paths) /\ job.todo # <<>>
  BY JobFields, NoJobFields
<1>2. rest \in Seq(Paths)
  BY <1>1, HeadTailProperties
<1> HIDE DEF w, rest
<1>3. CASE rest # <<>>
  <2>1. /\ job' = AddJob(w, job.mode, rest, n)
        /\ info' = [info EXCEPT ![w] = i]
    BY <1>3 DEF NextItem, rest, w
  <2>2. /\ job' \in AddType /\ job'.path = Head(rest) /\ job'.todo = rest
        /\ job'.step = "dir" /\ AddsFor(job', w) /\ Alone(job', w)
    BY <1>1, <1>2, <1>3, <2>1, AddJobFields
  <2>3. Tables(i.dir_table, i.wd_table, {Head(rest)}, Tail(rest), {})
    BY <1>2, <1>3, HeadNext DEF rest
  <2>4. AddGood(i, Head(rest), Tail(rest), "dir")
    BY <2>3 DEF AddGood
  <2>5. WatcherGood(i, job', w)
    BY <2>2, <2>4 DEF WatcherGood
  <2>6. InfosGood(info', job')
    BY <1>1, <2>1, <2>2, <2>5, InfosPut
  <2> QED
    BY <2>2, <2>6 DEF JobType
<1>4. CASE rest = <<>>
  <2>1. IdleGood(i)
    BY <1>4 DEF IdleGood, rest
  <2>2. CASE job.mode = "start"
    <3> DEFINE fin == Finished(i, n)
    <3>1. job' = NoJob /\ info' = [info EXCEPT ![w] = fin]
      BY <1>4, <2>2 DEF NextItem, rest, w
    <3>2. InfoType(fin) /\ IdleGood(fin)
      <4>1. CASE n = 0
        BY <4>1, FreedGood DEF Finished, Freed
      <4>2. CASE n # 0
        <5> DEFINE yes == TRUE
        <5>1. yes \in BOOLEAN
          OBVIOUS
        <5>2. /\ i = MakeInfo(i.dir_table, i.wd_table, i.kernel, i.queue,
                              i.wds, i.source)
              /\ TableType(i.dir_table) /\ WatchType(i.wd_table, i.wds)
              /\ i.wds \in Nat
          BY DEF InfoType
        <5>3. fin = MakeInfo(i.dir_table, i.wd_table, i.kernel, i.queue,
                             i.wds, yes)
          BY <4>2, <5>2 DEF Finished, MakeInfo
        <5> HIDE DEF fin, yes
        <5>4. InfoType(fin)
          BY <5>1, <5>2, <5>3, MadeInfo
        <5>5. /\ fin.dir_table = i.dir_table /\ fin.wd_table = i.wd_table
              /\ fin.kernel = i.kernel
          BY <5>3, MadeInfo
        <5> QED
          BY <5>4, <5>5, <2>1 DEF IdleGood
      <4> QED
        BY <4>1, <4>2
    <3> HIDE DEF fin
    <3>3. WatcherGood(fin, job', w)
      BY <3>1, <3>2, NoJobFields DEF WatcherGood
    <3>4. InfosGood(info', job')
      BY <1>1, <3>1, <3>2, <3>3, NoJobFields, InfosPut
    <3> QED
      BY <3>1, <3>4 DEF JobType
  <2>3. CASE job.mode # "start"
    <3>1. job' = ReadJob(w, n) /\ info' = [info EXCEPT ![w] = i]
      BY <1>4, <2>3 DEF NextItem, rest, w
    <3>2. job' \in ReadType /\ ~AddsFor(job', w) /\ Alone(job', w)
      BY <1>1, <3>1, ReadJobFields
    <3>3. WatcherGood(i, job', w)
      BY <2>1, <3>2 DEF WatcherGood
    <3>4. InfosGood(info', job')
      BY <1>1, <3>1, <3>2, <3>3, InfosPut
    <3> QED
      BY <3>2, <3>4 DEF JobType
  <2> QED
    BY <2>2, <2>3
<1> QED
  BY <1>3, <1>4

\* What the type of a watcher says, in one place.
LEMMA WdDirs ==
    ASSUME NEW i, InfoType(i)
    PROVE  /\ \A x \in i.wd_table : x[2] \in Dirs /\ x[1] \in 1..i.wds
           /\ TableType(i.dir_table) /\ i.dir_table \in [Dirs -> Seq(Names)]
           /\ WatchType(i.wd_table, i.wds) /\ IsFiniteSet(i.wd_table)
           /\ i.wds \in Nat /\ i.source \in BOOLEAN
           /\ i = MakeInfo(i.dir_table, i.wd_table, i.kernel, i.queue, i.wds,
                           i.source)
BY DEF InfoType, TableType, WatchType

\* The watcher of an item that is being added.
LEMMA AddFacts ==
    ASSUME job \in JobType, InfosGood(info, job), NEW step, Adding(step)
    PROVE  /\ job.w \in Watchers /\ Alone(job, job.w) /\ AddsFor(job, job.w)
           /\ job.mode \in {"start", "event"} /\ job.step = step
           /\ job.path \in Paths /\ Dir(job.path) \in Dirs
           /\ job.nwatch \in Nat /\ job \in AddType
           /\ InfoType(info[job.w])
           /\ AddGood(info[job.w], job.path, Tail(job.todo), step)
<1>1. job.mode \in {"start", "event"} /\ job.step = step
  BY DEF Adding
<1>2. /\ job.w \in Watchers /\ Alone(job, job.w) /\ AddsFor(job, job.w)
      /\ job.path \in Paths /\ job.nwatch \in Nat /\ job \in AddType
  BY <1>1, JobFields, NoJobFields
<1>3. Dir(job.path) \in Dirs
  BY <1>2, PathDir
<1>4. InfoType(info[job.w]) /\ WatcherGood(info[job.w], job, job.w)
  BY <1>2 DEF InfosGood
<1> QED
  BY <1>1, <1>2, <1>3, <1>4 DEF WatcherGood

SetTable(t, d, l) == [t EXCEPT ![d] = l]
SetList(i, d, l) == [i EXCEPT !.dir_table[d] = l]

\* A WatchInfo of which one list is replaced.
LEMMA TableChanged ==
    ASSUME NEW i, NEW d, NEW l,
           i = MakeInfo(i.dir_table, i.wd_table, i.kernel, i.queue, i.wds,
                        i.source)
    PROVE  SetList(i, d, l) =
                MakeInfo(SetTable(i.dir_table, d, l), i.wd_table, i.kernel,
                         i.queue, i.wds, i.source)
<1> DEFINE s == SetTable(i.dir_table, d, l)
<1>1. SetList(i, d, l) = [i EXCEPT !.dir_table = s]
  BY DEF SetTable, SetList
<1> HIDE DEF s
<1>2. [i EXCEPT !.dir_table = s] =
        MakeInfo(s, i.wd_table, i.kernel, i.queue, i.wds, i.source)
  BY DEF MakeInfo
<1> QED
  BY <1>1, <1>2 DEF s

\* A name joins the list of a directory that is watched or waited for.
LEMMA AddToListGood ==
    ASSUME job \in JobType, InfosGood(info, job), AddToList
    PROVE  job' \in JobType /\ InfosGood(info', job')
<1> DEFINE i == info[job.w]
<1> DEFINE p == job.path
<1> DEFINE t == i.dir_table
<1> DEFINE s == Listed(t, p)
<1> DEFINE j == [i EXCEPT !.dir_table[Dir(p)] = Append(@, Name(p))]
<1>1. Adding("dir") /\ ~Empty(t, Dir(p)) /\ NextItem(j, job.nwatch + 1)
  BY DEF AddToList, Empty, Added
<1>2. /\ p \in Paths /\ InfoType(i) /\ AddGood(i, p, Tail(job.todo), "dir")
      /\ job.nwatch \in Nat /\ job.mode \in {"start", "event"}
  BY <1>1, AddFacts
<1> HIDE DEF i, p
<1>3. /\ i = MakeInfo(t, i.wd_table, i.kernel, i.queue, i.wds, i.source)
      /\ TableType(t) /\ WatchType(i.wd_table, i.wds) /\ i.wds \in Nat
      /\ i.source \in BOOLEAN /\ \A x \in i.wd_table : x[2] \in Dirs
      /\ t \in [Dirs -> Seq(Names)]
  BY <1>2, WdDirs
<1>4. j = MakeInfo(s, i.wd_table, i.kernel, i.queue, i.wds, i.source)
  <2>1. j = SetList(i, Dir(p), Append(t[Dir(p)], Name(p)))
    BY DEF SetList
  <2>2. s = SetTable(t, Dir(p), Append(t[Dir(p)], Name(p)))
    BY DEF SetTable, Listed
  <2> HIDE DEF j, s
  <2> QED
    BY <1>3, <2>1, <2>2, TableChanged
<1> HIDE DEF j, t, s
<1>5. TableType(s)
  BY <1>2, <1>3, ListedType DEF s
<1>6. /\ InfoType(j) /\ j.dir_table = s /\ j.wd_table = i.wd_table
      /\ j.kernel = i.kernel
  BY <1>3, <1>4, <1>5, MadeInfo
<1>7. Tables(t, i.wd_table, {p}, Tail(job.todo), {}) /\ i.kernel = i.wd_table
  BY <1>2 DEF AddGood, t
<1>8. Tables(s, i.wd_table, {}, Tail(job.todo), {})
  BY <1>1, <1>2, <1>3, <1>7, PathListed DEF s
<1> QED
  BY <1>1, <1>2, <1>6, <1>7, <1>8, ItemDone

\* A name starts the list of its directory.
LEMMA AddListGood ==
    ASSUME job \in JobType, InfosGood(info, job), AddList
    PROVE  job' \in JobType /\ InfosGood(info', job')
<1> DEFINE w == job.w
<1> DEFINE i == info[w]
<1> DEFINE p == job.path
<1> DEFINE d == Dir(p)
<1> DEFINE t == i.dir_table
<1> DEFINE s == Listed(t, p)
<1> DEFINE j == [i EXCEPT !.dir_table[d] = <<Name(p)>>]
<1>1. /\ Adding("dir") /\ Empty(t, d)
      /\ info' = [info EXCEPT ![w].dir_table[d] = <<Name(p)>>]
      /\ job' = IF Exists(d) THEN [job EXCEPT !.step = "watch"]
                             ELSE [job EXCEPT !.path = d]
  BY DEF AddList, Empty
<1>2. /\ p \in Paths /\ InfoType(i) /\ AddGood(i, p, Tail(job.todo), "dir")
      /\ job \in AddType /\ w \in Watchers /\ Alone(job, w) /\ d \in Dirs
      /\ job.step = "dir"
  BY <1>1, AddFacts
<1>3. info' = [info EXCEPT ![w] = j]
  BY <1>1
<1> HIDE DEF i, p
<1>4. /\ i = MakeInfo(t, i.wd_table, i.kernel, i.queue, i.wds, i.source)
      /\ TableType(t) /\ WatchType(i.wd_table, i.wds) /\ i.wds \in Nat
      /\ i.source \in BOOLEAN /\ \A x \in i.wd_table : x[2] \in Dirs
      /\ t \in [Dirs -> Seq(Names)]
  BY <1>2, WdDirs
<1>5. s = [t EXCEPT ![d] = <<Name(p)>>]
  <2>1. t[d] = <<>>
    BY <1>1 DEF Empty
  <2>2. Append(t[d], Name(p)) = <<Name(p)>>
    BY <2>1
  <2> QED
    BY <2>2 DEF Listed
<1>6. j = MakeInfo(s, i.wd_table, i.kernel, i.queue, i.wds, i.source)
  <2>1. j = SetList(i, d, <<Name(p)>>)
    BY DEF SetList
  <2>2. s = SetTable(t, d, <<Name(p)>>)
    BY <1>5 DEF SetTable
  <2> HIDE DEF j, s
  <2> QED
    BY <1>4, <2>1, <2>2, TableChanged
<1> HIDE DEF j, t, s, d
<1>7. TableType(s)
  BY <1>2, <1>4, ListedType DEF s
<1>8. /\ InfoType(j) /\ j.dir_table = s /\ j.wd_table = i.wd_table
      /\ j.kernel = i.kernel
  BY <1>4, <1>6, <1>7, MadeInfo
<1>9. Tables(t, i.wd_table, {p}, Tail(job.todo), {}) /\ i.kernel = i.wd_table
  BY <1>2 DEF AddGood, t
<1>10. /\ Tables(s, i.wd_table, {}, Tail(job.todo), {d})
       /\ Tables(s, i.wd_table, {d}, Tail(job.todo), {})
  BY <1>1, <1>2, <1>4, <1>9, PathListed DEF s, d
<1>11. CASE Exists(d)
  <2>1. job' = [job EXCEPT !.step = "watch"]
    BY <1>1, <1>11
  <2>2. /\ job' \in AddType /\ job'.step = "watch" /\ job'.path = p
        /\ job'.todo = job.todo /\ AddsFor(job', w) /\ Alone(job', w)
    BY <1>2, <2>1 DEF AddType, AddsFor, Alone, p, w
  <2>3. AddGood(j, p, Tail(job.todo), "watch")
    BY <1>8, <1>9, <1>10 DEF AddGood, d
  <2>4. WatcherGood(j, job', w)
    BY <2>2, <2>3 DEF WatcherGood
  <2>5. InfosGood(info', job')
    BY <1>2, <1>3, <1>8, <2>2, <2>4, InfosPut
  <2> QED
    BY <2>2, <2>5 DEF JobType
<1>12. CASE ~Exists(d)
  <2>1. job' = [job EXCEPT !.path = d]
    BY <1>1, <1>12
  <2>2. d \in Paths
    BY <1>2, <1>12, DirSeq DEF Exists
  <2>3. /\ job' \in AddType /\ job'.step = "dir" /\ job'.path = d
        /\ job'.todo = job.todo /\ AddsFor(job', w) /\ Alone(job', w)
    BY <1>2, <2>1, <2>2 DEF AddType, AddsFor, Alone, p, w
  <2>4. AddGood(j, d, Tail(job.todo), "dir")
    BY <1>8, <1>9, <1>10 DEF AddGood
  <2>5. WatcherGood(j, job', w)
    BY <2>3, <2>4 DEF WatcherGood
  <2>6. InfosGood(info', job')
    BY <1>2, <1>3, <1>8, <2>3, <2>5, InfosPut
  <2> QED
    BY <2>3, <2>6 DEF JobType
<1> QED
  BY <1>11, <1>12

\* inotify_add_watch succeeds, and the kernel is one watch ahead, or fails,
\* and the list of the directory goes.
LEMMA AddWatchGood ==
    ASSUME job \in JobType, InfosGood(info, job), AddWatch
    PROVE  job' \in JobType /\ InfosGood(info', job')
<1> DEFINE w == job.w
<1> DEFINE i == info[w]
<1> DEFINE p == job.path
<1> DEFINE d == Dir(p)
<1> DEFINE n == i.wds + 1
<1> DEFINE kept == [i EXCEPT !.wds = @ + 1, !.kernel = @ \cup {<<n, d>>}]
<1> DEFINE dropped == [i EXCEPT !.dir_table[d] = <<>>]
<1>1. Adding("watch")
  BY DEF AddWatch
<1>2. \/ /\ info' = [info EXCEPT ![w].wds = @ + 1,
                                ![w].kernel = @ \cup {<<n, d>>}]
         /\ job' = [job EXCEPT !.step = "file"]
      \/ NextItem(dropped, job.nwatch)
  BY DEF AddWatch
<1>3. /\ p \in Paths /\ InfoType(i) /\ AddGood(i, p, Tail(job.todo), "watch")
      /\ job \in AddType /\ w \in Watchers /\ Alone(job, w) /\ d \in Dirs
      /\ job.nwatch \in Nat /\ job.mode \in {"start", "event"}
  BY <1>1, AddFacts
<1>4. /\ i = MakeInfo(i.dir_table, i.wd_table, i.kernel, i.queue, i.wds,
                      i.source)
      /\ TableType(i.dir_table) /\ WatchType(i.wd_table, i.wds)
      /\ i.wds \in Nat /\ i.source \in BOOLEAN
      /\ \A x \in i.wd_table : x[2] \in Dirs /\ x[1] \in 1..i.wds
      /\ i.dir_table \in [Dirs -> Seq(Names)]
  BY <1>3, WdDirs
<1>5. /\ Tables(i.dir_table, i.wd_table, {}, Tail(job.todo), {d})
      /\ i.kernel = i.wd_table
  BY <1>3 DEF AddGood
<1>6. CASE /\ info' = [info EXCEPT ![w].wds = @ + 1,
                                  ![w].kernel = @ \cup {<<n, d>>}]
           /\ job' = [job EXCEPT !.step = "file"]
  <2>1. info' = [info EXCEPT ![w] = kept]
    BY <1>6
  <2> HIDE DEF i
  <2> DEFINE kernel == i.wd_table \cup {<<n, d>>}
  <2>2. kept = MakeInfo(i.dir_table, i.wd_table, kernel, i.queue, n, i.source)
    <3>1. kept = [i EXCEPT !.wds = n, !.kernel = kernel]
      BY <1>5
    <3> HIDE DEF kept, n, kernel
    <3> QED
      BY <1>4, <3>1 DEF MakeInfo
  <2> HIDE DEF kept, kernel
  <2>3. n \in Nat /\ n # 0 /\ WatchType(i.wd_table, n)
    <3>1. i.wd_table \subseteq (1..i.wds) \X Dirs /\ IsFiniteSet(i.wd_table)
      BY <1>4 DEF WatchType
    <3>2. (1..i.wds) \X Dirs \subseteq (1..n) \X Dirs
      BY <1>4
    <3> QED
      BY <1>4, <3>1, <3>2 DEF WatchType
  <2> HIDE DEF n
  <2>4. /\ InfoType(kept) /\ kept.dir_table = i.dir_table
        /\ kept.wd_table = i.wd_table /\ kept.kernel = kernel /\ kept.wds = n
    BY <1>4, <2>2, <2>3, MadeInfo
  <2>5. \A x \in i.wd_table : x[1] # n
    BY <1>4 DEF n
  <2>6. AddGood(kept, p, Tail(job.todo), "file")
    BY <1>5, <2>3, <2>4, <2>5 DEF AddGood, kernel
  <2>7. /\ job' \in AddType /\ job'.step = "file" /\ job'.path = p
        /\ job'.todo = job.todo /\ AddsFor(job', w) /\ Alone(job', w)
    BY <1>3, <1>6 DEF AddType, AddsFor, Alone
  <2>8. WatcherGood(kept, job', w)
    BY <2>6, <2>7 DEF WatcherGood
  <2> HIDE DEF w
  <2>9. InfosGood(info', job')
    BY <1>3, <2>1, <2>4, <2>7, <2>8, InfosPut
  <2> QED
    BY <2>7, <2>9 DEF JobType
<1>7. CASE NextItem(dropped, job.nwatch)
  <2> HIDE DEF i
  <2> DEFINE s == [i.dir_table EXCEPT ![d] = <<>>]
  <2>1. dropped = SetList(i, d, <<>>) /\ s = SetTable(i.dir_table, d, <<>>)
    BY DEF SetList, SetTable
  <2>2. TableType(s) /\ Tables(s, i.wd_table, {}, Tail(job.todo), {})
    BY <1>3, <1>4, <1>5, ListDropped, DroppedType
  <2> HIDE DEF dropped, s
  <2>3. dropped = MakeInfo(s, i.wd_table, i.kernel, i.queue, i.wds, i.source)
    BY <1>4, <2>1, TableChanged
  <2>4. /\ InfoType(dropped) /\ dropped.dir_table = s
        /\ dropped.wd_table = i.wd_table /\ dropped.kernel = i.kernel
    BY <1>4, <2>2, <2>3, MadeInfo
  <2> QED
    BY <1>3, <1>5, <1>7, <2>2, <2>4, ItemDone
<1> QED
  BY <1>2, <1>6, <1>7

\* The file exists, and the watch and the list go, or the watch enters the
\* table of the program.
LEMMA CheckFileGood ==
    ASSUME job \in JobType, InfosGood(info, job), CheckFile
    PROVE  job' \in JobType /\ InfosGood(info', job')
<1> DEFINE i == info[job.w]
<1> DEFINE p == job.path
<1> DEFINE d == Dir(p)
<1> DEFINE x == <<i.wds, d>>
<1> DEFINE ready == [Unwatched(i, i.wds, d) EXCEPT !.dir_table[d] = <<>>]
<1> DEFINE added == [i EXCEPT !.wd_table = @ \cup {x}]
<1>1. Adding("file")
  BY DEF CheckFile
<1>2. IF Exists(p) THEN NextItem(ready, job.nwatch)
                   ELSE NextItem(added, job.nwatch + 1)
  BY DEF CheckFile, Ready, Added
<1>3. /\ p \in Paths /\ InfoType(i) /\ AddGood(i, p, Tail(job.todo), "file")
      /\ d \in Dirs /\ job.nwatch \in Nat /\ job.mode \in {"start", "event"}
  BY <1>1, AddFacts
<1> HIDE DEF i, p
<1>4. /\ i = MakeInfo(i.dir_table, i.wd_table, i.kernel, i.queue, i.wds,
                      i.source)
      /\ TableType(i.dir_table) /\ WatchType(i.wd_table, i.wds)
      /\ i.wds \in Nat /\ i.source \in BOOLEAN
      /\ \A y \in i.wd_table : y[2] \in Dirs
      /\ i.dir_table \in [Dirs -> Seq(Names)]
  BY <1>3, WdDirs
<1>5. /\ Tables(i.dir_table, i.wd_table, {}, Tail(job.todo), {d})
      /\ i.kernel = i.wd_table \cup {x} /\ i.wds # 0
      /\ \A y \in i.wd_table : y[1] # i.wds
  BY <1>3 DEF AddGood
<1>6. CASE Exists(p)
  <2> DEFINE s == [i.dir_table EXCEPT ![d] = <<>>]
  <2> DEFINE queue == Append(i.queue, Event(i.wds, NoName))
  <2> DEFINE kernel == i.kernel \ {x}
  <2> DEFINE u == Unwatched(i, i.wds, d)
  <2>1. kernel = i.wd_table
    BY <1>5
  <2>2. u = MakeInfo(i.dir_table, i.wd_table, kernel, queue, i.wds, i.source)
    <3>1. u = [i EXCEPT !.kernel = kernel, !.queue = queue]
      BY DEF Unwatched
    <3> HIDE DEF u, kernel, queue
    <3> QED
      BY <1>4, <3>1 DEF MakeInfo
  <2>3. ready = SetList(u, d, <<>>) /\ s = SetTable(i.dir_table, d, <<>>)
    BY DEF SetList, SetTable
  <2>4. TableType(s) /\ Tables(s, i.wd_table, {}, Tail(job.todo), {})
    BY <1>3, <1>4, <1>5, ListDropped, DroppedType
  <2> HIDE DEF ready, s, queue, kernel, u
  <2>5. /\ u.dir_table = i.dir_table /\ u.wd_table = i.wd_table
        /\ u.kernel = kernel /\ u.queue = queue /\ u.wds = i.wds
        /\ u.source = i.source
    BY <2>2, MadeInfo
  <2>6. u = MakeInfo(u.dir_table, u.wd_table, u.kernel, u.queue, u.wds,
                     u.source)
    BY <2>2, <2>5
  <2>7. ready = MakeInfo(s, u.wd_table, u.kernel, u.queue, u.wds, u.source)
    BY <2>3, <2>5, <2>6, TableChanged
  <2>8. /\ InfoType(ready) /\ ready.dir_table = s
        /\ ready.wd_table = i.wd_table /\ ready.kernel = i.wd_table
    BY <1>4, <2>1, <2>4, <2>5, <2>7, MadeInfo
  <2>9. NextItem(ready, job.nwatch)
    BY <1>2, <1>6
  <2> QED
    BY <1>3, <2>4, <2>8, <2>9, ItemDone
<1>7. CASE ~Exists(p)
  <2> DEFINE v == i.wd_table \cup {x}
  <2>1. added = MakeInfo(i.dir_table, v, i.kernel, i.queue, i.wds, i.source)
    <3>1. added = [i EXCEPT !.wd_table = v]
      OBVIOUS
    <3> HIDE DEF added, v
    <3> QED
      BY <1>4, <3>1 DEF MakeInfo
  <2>2. Tables(i.dir_table, v, {}, Tail(job.todo), {})
    BY <1>3, <1>5, WatchKept
  <2>3. WatchType(v, i.wds)
    <3>1. x \in (1..i.wds) \X Dirs
      BY <1>3, <1>4, <1>5
    <3>2. IsFiniteSet(v)
      BY <1>4, FS_AddElement DEF WatchType
    <3> QED
      BY <1>4, <3>1, <3>2 DEF WatchType
  <2> HIDE DEF added, v
  <2>4. /\ InfoType(added) /\ added.dir_table = i.dir_table
        /\ added.wd_table = v /\ added.kernel = i.kernel
    BY <1>4, <2>1, <2>3, MadeInfo
  <2>5. NextItem(added, job.nwatch + 1) /\ job.nwatch + 1 \in Nat
    BY <1>2, <1>3, <1>7
  <2>6. i.kernel = v
    BY <1>5 DEF v
  <2> QED
    BY <1>3, <2>2, <2>4, <2>5, <2>6, ItemDone
<1> QED
  BY <1>6, <1>7

\* A watcher in its callback, between two items.
LEMMA ReadFacts ==
    ASSUME job \in JobType, InfosGood(info, job), job.mode = "read"
    PROVE  /\ job.w \in Watchers /\ Alone(job, job.w) /\ job.nwatch \in Nat
           /\ InfoType(info[job.w]) /\ IdleGood(info[job.w])
<1>1. /\ job.w \in Watchers /\ Alone(job, job.w) /\ job.nwatch \in Nat
      /\ ~AddsFor(job, job.w)
  BY JobFields, NoJobFields
<1>2. InfoType(info[job.w]) /\ WatcherGood(info[job.w], job, job.w)
  BY <1>1 DEF InfosGood
<1> QED
  BY <1>1, <1>2 DEF WatcherGood

\* A watcher whose queue changes.
SetQueue(i, q) == [i EXCEPT !.queue = q]

\* The events of a watcher don't matter to its tables.
LEMMA QueueChanged ==
    ASSUME NEW i, InfoType(i), NEW q, NEW j, j = SetQueue(i, q)
    PROVE  /\ InfoType(j) /\ j.dir_table = i.dir_table
           /\ j.wd_table = i.wd_table /\ j.kernel = i.kernel
           /\ j.queue = q /\ j.wds = i.wds /\ j.source = i.source
           /\ IdleGood(j) <=> IdleGood(i)
           /\ \A path, rest, step : AddGood(j, path, rest, step) <=>
                                    AddGood(i, path, rest, step)
<1>1. /\ i = MakeInfo(i.dir_table, i.wd_table, i.kernel, i.queue, i.wds,
                      i.source)
      /\ TableType(i.dir_table) /\ WatchType(i.wd_table, i.wds)
      /\ i.wds \in Nat /\ i.source \in BOOLEAN
  BY WdDirs
<1>2. j = MakeInfo(i.dir_table, i.wd_table, i.kernel, q, i.wds, i.source)
  BY <1>1 DEF SetQueue, MakeInfo
<1>3. /\ InfoType(j) /\ j.dir_table = i.dir_table
      /\ j.wd_table = i.wd_table /\ j.kernel = i.kernel
      /\ j.queue = q /\ j.wds = i.wds /\ j.source = i.source
  BY <1>1, <1>2, MadeInfo
<1> QED
  BY <1>3, Zenon DEF IdleGood, AddGood

\* The callback returns.
LEMMA CallbackReturnsGood ==
    ASSUME job \in JobType, InfosGood(info, job), CallbackReturns
    PROVE  job' \in JobType /\ InfosGood(info', job')
<1> DEFINE w == job.w
<1> DEFINE i == info[w]
<1> DEFINE j == IF job.nwatch = 0 THEN Freed ELSE SetQueue(i, <<>>)
<1>1. /\ job.mode = "read" /\ job' = NoJob /\ info' = [info EXCEPT ![w] = j]
  BY DEF CallbackReturns, SetQueue
<1>2. w \in Watchers /\ Alone(job, w) /\ InfoType(i) /\ IdleGood(i)
  BY <1>1, ReadFacts
<1>3. InfoType(j) /\ IdleGood(j)
  <2>1. CASE job.nwatch = 0
    BY <2>1, FreedGood DEF Freed
  <2>2. CASE job.nwatch # 0
    BY <2>2, <1>2, QueueChanged
  <2> QED
    BY <2>1, <2>2
<1> HIDE DEF w, j
<1>4. WatcherGood(j, job', w)
  BY <1>1, <1>3, NoJobFields DEF WatcherGood
<1>5. InfosGood(info', job')
  BY <1>1, <1>2, <1>3, <1>4, NoJobFields, InfosPut
<1> QED
  BY <1>1, <1>5 DEF JobType

\* The events that were read are of no interest.
LEMMA IgnoreEventsGood ==
    ASSUME job \in JobType, InfosGood(info, job), IgnoreEvents
    PROVE  job' \in JobType /\ InfosGood(info', job')
<1> DEFINE w == job.w
<1> DEFINE j == SetQueue(info[w], <<>>)
<1>1. /\ job.mode = "read" /\ job' = job
      /\ info' = [info EXCEPT ![w].queue = <<>>]
  BY DEF IgnoreEvents
<1>2. /\ w \in Watchers /\ Alone(job, w)
      /\ InfoType(info[w]) /\ IdleGood(info[w])
  BY <1>1, ReadFacts
<1>3. info' = [info EXCEPT ![w] = j]
  BY <1>1 DEF SetQueue
<1>4. InfoType(j) /\ IdleGood(j)
  BY <1>2, QueueChanged
<1>5. ~AddsFor(job', w)
  BY <1>1 DEF AddsFor
<1> HIDE DEF w, j
<1>6. WatcherGood(j, job', w) /\ Alone(job', w)
  BY <1>1, <1>2, <1>4, <1>5 DEF WatcherGood
<1>7. InfosGood(info', job')
  BY <1>2, <1>3, <1>4, <1>6, InfosPut
<1> QED
  BY <1>1, <1>7

\* The callback starts.
LEMMA WatcherCallbackGood ==
    ASSUME job \in JobType, InfosGood(info, job), NEW w \in Watchers,
           WatcherCallback(w)
    PROVE  job' \in JobType /\ InfosGood(info', job')
<1>1. /\ job = NoJob /\ info' = info
      /\ job' = ReadJob(w, Cardinality(info[w].wd_table))
  BY DEF WatcherCallback
<1>2. Cardinality(info[w].wd_table) \in Nat
  BY WdDirs, FS_CardinalityType DEF InfosGood
<1>3. job' \in ReadType /\ \A u \in Watchers : ~AddsFor(job', u)
  BY <1>1, <1>2, ReadJobFields
<1>4. \A u \in Watchers : InfoType(info[u]) /\ IdleGood(info[u])
  BY <1>1, NoJobFields DEF InfosGood, WatcherGood
<1>5. InfosGood(info', job')
  BY <1>1, <1>3, <1>4 DEF InfosGood, WatcherGood
<1> QED
  BY <1>3, <1>5 DEF JobType

\* A W line starts a watch; its files are no directories of others, so that
\* nothing is asked of the tables for them.
LEMMA StartWatchGood ==
    ASSUME job \in JobType, InfosGood(info, job), NEW w \in Watchers,
           NEW files \in Seq(Paths \ Dirs), files # <<>>,
           StartWatch(w, files)
    PROVE  job' \in JobType /\ InfosGood(info', job')
<1>1. /\ job = NoJob /\ info' = info
      /\ job' = AddJob(w, "start", files, 0) \/ job' = NoJob
  BY DEF StartWatch
<1>2. \A u \in Watchers : InfoType(info[u]) /\ IdleGood(info[u])
  BY <1>1, NoJobFields DEF InfosGood, WatcherGood
<1>3. CASE job' = NoJob
  BY <1>1, <1>3
<1>4. CASE job' = AddJob(w, "start", files, 0)
  <2>1. files \in Seq(Paths) /\ 0 \in Nat
    BY SeqMonotonic
  <2>2. /\ job' \in AddType /\ job'.path = Head(files) /\ job'.todo = files
        /\ job'.step = "dir" /\ AddsFor(job', w) /\ Alone(job', w)
    BY <1>4, <2>1, AddJobFields
  <2>3. Head(files) \notin Dirs /\ Tail(files) \in Seq(Paths \ Dirs)
    BY HeadTailProperties
  <2>4. \A k \in DOMAIN Tail(files) : Tail(files)[k] \notin Dirs
    <3> DEFINE r == Tail(files)
    <3> HIDE DEF r
    <3>1. r \in Seq(Paths \ Dirs)
      BY <2>3 DEF r
    <3>2. \A k \in DOMAIN r : r[k] \in Paths \ Dirs
      BY <3>1
    <3> QED
      BY <3>2 DEF r
  <2> DEFINE t == info[w].dir_table
  <2> DEFINE v == info[w].wd_table
  <2>5. Tables(t, v, {}, <<>>, {}) /\ info[w].kernel = v
    BY <1>2 DEF IdleGood
  <2>6. Tables(t, v, {Head(files)}, Tail(files), {})
    BY <2>3, <2>4, <2>5, Zenon DEF Tables, PendingGood
  <2>7. AddGood(info[w], Head(files), Tail(files), "dir")
    BY <2>5, <2>6 DEF AddGood
  <2>8. WatcherGood(info[w], job', w)
    BY <2>2, <2>7 DEF WatcherGood
  <2>9. \A u \in Watchers \ {w} : WatcherGood(info[u], job', u)
    BY <1>2, <2>2 DEF WatcherGood, Alone
  <2>10. InfosGood(info', job')
    BY <1>1, <1>2, <2>8, <2>9 DEF InfosGood
  <2> QED
    BY <2>2, <2>10 DEF JobType
<1> QED
  BY <1>1, <1>3, <1>4

\* A file appears, and the tables don't change.
LEMMA AppearsGood ==
    ASSUME job \in JobType, InfosGood(info, job), NEW p \in Paths, Appears(p)
    PROVE  job' \in JobType /\ InfosGood(info', job')
<1> DEFINE q(w) == info[w].queue \o
              SetToSeq({Event(x[1], Name(p)) :
                  x \in {y \in info[w].kernel : y[2] = Dir(p)}})
<1>1. /\ job' = job
      /\ info' = [w \in Watchers |-> SetQueue(info[w], q(w))]
  BY DEF Appears, SetQueue
<1> HIDE DEF q
<1>2. ASSUME NEW w \in Watchers
      PROVE  InfoType(info'[w]) /\ WatcherGood(info'[w], job, w)
  <2>1. InfoType(info[w]) /\ WatcherGood(info[w], job, w)
    BY DEF InfosGood
  <2>2. info'[w] = SetQueue(info[w], q(w))
    BY <1>1
  <2>3. InfoType(info'[w])
    BY <2>1, <2>2, QueueChanged
  <2>4. CASE AddsFor(job, w)
    BY <2>1, <2>2, <2>4, QueueChanged DEF WatcherGood
  <2>5. CASE ~AddsFor(job, w)
    BY <2>1, <2>2, <2>5, QueueChanged DEF WatcherGood
  <2> QED
    BY <2>3, <2>4, <2>5
<1>3. info' = [w \in Watchers |-> info'[w]]
  BY <1>1
<1> QED
  BY <1>1, <1>2, <1>3 DEF InfosGood

\* What Taken does, for a watch that the program has.
MayTake(i, wd, d, name) ==
    /\ InfoType(i) /\ d \in Dirs /\ Contains(i.dir_table[d], name)
    /\ HasWatch(i.wd_table, wd, d) /\ i.kernel = i.wd_table

IsTaken(i, wd, d, j, s, u) ==
    /\ InfoType(j) /\ j.dir_table = s /\ j.wd_table = u /\ j.kernel = u
    /\ j.wds = i.wds /\ j.source = i.source
    /\ j.queue = IF Empty(s, d) THEN <<Event(wd, NoName)>> ELSE <<>>

\* The watcher that Taken returns, field by field.
LEMMA TakenInfo ==
    ASSUME NEW i, NEW wd, NEW d, NEW name, MayTake(i, wd, d, name),
           NEW j, j = Taken(i, wd, d, name),
           NEW s, s = Shortened(i.dir_table, d, name),
           NEW u, u = Left(i.wd_table, s, wd, d)
    PROVE  IsTaken(i, wd, d, j, s, u)
<1>0. /\ InfoType(i) /\ d \in Dirs /\ Contains(i.dir_table[d], name)
      /\ HasWatch(i.wd_table, wd, d) /\ i.kernel = i.wd_table
  BY DEF MayTake
<1> DEFINE t == i.dir_table
<1> DEFINE rest == RemoveFirst(t[d], name)
<1> DEFINE y == <<wd, d>>
<1> DEFINE v == i.wd_table
<1> DEFINE a == SetList(i, d, rest)
<1> DEFINE b == SetQueue(a, <<>>)
<1>1. /\ i = MakeInfo(t, v, i.kernel, i.queue, i.wds, i.source)
      /\ TableType(t) /\ WatchType(v, i.wds) /\ i.wds \in Nat
      /\ i.source \in BOOLEAN /\ t \in [Dirs -> Seq(Names)]
  BY <1>0, WdDirs
<1>2. TableType(s) /\ s = SetTable(t, d, rest)
  BY <1>0, <1>1, ShortenedType DEF SetTable, Shortened
<1>3. /\ Empty(s, d) <=> rest = <<>>
      /\ u = IF Empty(s, d) THEN v \ {y} ELSE v
  BY <1>0, <1>1, <1>2 DEF Empty, SetTable, Left
<1>4. j = IF rest # <<>> THEN b
          ELSE [Unwatched(b, wd, d) EXCEPT !.wd_table = @ \ {y}]
  BY DEF Taken, SetQueue, SetList
<1> HIDE DEF rest
<1>5. a = MakeInfo(s, v, i.kernel, i.queue, i.wds, i.source)
  BY <1>1, <1>2, TableChanged
<1> HIDE DEF a
<1>6. /\ InfoType(a) /\ a.dir_table = s /\ a.wd_table = v
      /\ a.kernel = i.kernel /\ a.wds = i.wds /\ a.source = i.source
  BY <1>1, <1>2, <1>5, MadeInfo
<1>7. /\ InfoType(b) /\ b.dir_table = s /\ b.wd_table = v
      /\ b.kernel = i.kernel /\ b.wds = i.wds /\ b.source = i.source
      /\ b.queue = <<>>
  BY <1>6, QueueChanged
<1> HIDE DEF b
<1>8. CASE rest # <<>>
  BY <1>0, <1>3, <1>4, <1>7, <1>8 DEF IsTaken
<1>9. CASE rest = <<>>
  <2> DEFINE c == Unwatched(b, wd, d)
  <2> DEFINE q == <<Event(wd, NoName)>>
  <2>1. u = v \ {y}
    BY <1>3, <1>9
  <2>2. b.kernel \ {y} = u /\ Append(b.queue, Event(wd, NoName)) = q
    BY <1>0, <1>7, <2>1
  <2>3. c = [b EXCEPT !.kernel = u, !.queue = q]
    BY <2>2 DEF Unwatched
  <2>4. PICK k0, q0 : b = MakeInfo(s, v, k0, q0, i.wds, i.source)
    BY <1>7, WdDirs
  <2> HIDE DEF c, q
  <2>5. c = MakeInfo(s, v, u, q, i.wds, i.source)
    BY <2>3, <2>4 DEF MakeInfo
  <2>6. c.wd_table = v
    BY <2>5, MadeInfo
  <2>7. j = [c EXCEPT !.wd_table = u]
    BY <1>4, <1>9, <2>1, <2>6 DEF c
  <2>8. j = MakeInfo(s, u, u, q, i.wds, i.source)
    BY <2>5, <2>7 DEF MakeInfo
  <2>9. WatchType(u, i.wds)
    <3>1. IsFiniteSet(u)
      <4>1. IsFiniteSet(v)
        BY <1>1 DEF WatchType
      <4> HIDE DEF y, v
      <4>2. IsFiniteSet(v \ {y})
        BY <4>1, FS_RemoveElement
      <4> QED
        BY <2>1, <4>2
    <3> QED
      BY <1>1, <2>1, <3>1 DEF WatchType
  <2>10. /\ InfoType(j) /\ j.dir_table = s /\ j.wd_table = u
         /\ j.kernel = u /\ j.wds = i.wds /\ j.source = i.source
         /\ j.queue = q
    BY <1>1, <1>2, <2>8, <2>9, MadeInfo
  <2> QED
    BY <1>3, <1>9, <2>10 DEF q, IsTaken
<1> QED
  BY <1>8, <1>9

\* The watch the first event belongs to.
LEMMA EventWatch ==
    ASSUME NEW i, InfoType(i), IdleGood(i), Awaited(i), NEW d \in EventDirs(i)
    PROVE  /\ d \in Dirs /\ <<i.queue[1].wd, d>> \in i.wd_table
           /\ Contains(i.dir_table[d], i.queue[1].name)
<1> DEFINE wd == i.queue[1].wd
<1> DEFINE name == i.queue[1].name
<1>1. \A a \in EventDirs(i) : \E x \in i.wd_table : x[1] = wd /\ x[2] = a
  BY DEF EventDirs
<1>2. PICK a \in EventDirs(i) : Contains(i.dir_table[a], name)
  BY DEF Awaited
<1> HIDE DEF wd, name
<1>3. PICK x \in i.wd_table : x[1] = wd /\ x[2] = a
  BY <1>1
<1>4. PICK y \in i.wd_table : y[1] = wd /\ y[2] = d
  BY <1>1
<1>5. x = y
  BY <1>3, <1>4 DEF IdleGood, Tables, WatchesGood
<1>6. y \in (1..i.wds) \X Dirs
  BY DEF InfoType, WatchType
<1>7. y = <<wd, d>> /\ d \in Dirs
  BY <1>4, <1>6
<1> QED
  BY <1>2, <1>3, <1>4, <1>5, <1>7 DEF wd, name

\* An awaited name is taken, and reported or, if it is a directory that files
\* wait for, those are added.
LEMMA TakeEventGood ==
    ASSUME job \in JobType, InfosGood(info, job), TakeEvent
    PROVE  job' \in JobType /\ InfosGood(info', job')
<1> DEFINE w == job.w
<1> DEFINE i == info[w]
<1> DEFINE e == i.queue[1]
<1> DEFINE P(d) == Append(d, e.name)
<1> DEFINE J(d) == Taken(i, e.wd, d, e.name)
<1> DEFINE N(d) == IF J(d).dir_table[d] = <<>> THEN job.nwatch - 1
                                              ELSE job.nwatch
<1> DEFINE L(d) == IF P(d) \in Dirs THEN J(d).dir_table[P(d)] ELSE <<>>
<1>1. job.mode = "read" /\ job.nwatch # 0 /\ Awaited(i)
  BY DEF TakeEvent
<1>2. PICK d \in EventDirs(i) :
        \/ /\ L(d) = <<>> /\ job' = ReadJob(w, N(d))
           /\ info' = [info EXCEPT ![w] = J(d)]
        \/ /\ L(d) # <<>>
           /\ job' = AddJob(w, "event",
                        [k \in DOMAIN L(d) |-> Append(P(d), L(d)[k])], N(d))
           /\ info' = [info EXCEPT ![w] =
                            [J(d) EXCEPT !.dir_table[P(d)] = <<>>]]
  BY DEF TakeEvent
<1>3. /\ w \in Watchers /\ Alone(job, w) /\ InfoType(i) /\ IdleGood(i)
      /\ job.nwatch \in Nat
  BY <1>1, ReadFacts
<1> HIDE DEF i, w
<1>4. /\ d \in Dirs /\ <<e.wd, d>> \in i.wd_table
      /\ Contains(i.dir_table[d], e.name)
  BY <1>1, <1>3, EventWatch
<1> DEFINE wd == e.wd
<1> DEFINE name == e.name
<1> DEFINE t == i.dir_table
<1> DEFINE s == Shortened(t, d, name)
<1> DEFINE u == Left(i.wd_table, s, wd, d)
<1> DEFINE q == P(d)
<1> DEFINE j == J(d)
<1> DEFINE n == N(d)
<1> DEFINE list == L(d)
<1> HIDE DEF e
<1>5. TableType(t) /\ t \in [Dirs -> Seq(Names)]
      /\ \A x \in i.wd_table : x[2] \in Dirs
  BY <1>3, WdDirs
<1>6. Tables(t, i.wd_table, {}, <<>>, {}) /\ i.kernel = i.wd_table
  BY <1>3 DEF IdleGood
<1>16. /\ s = Shortened(t, d, name) /\ j = Taken(i, wd, d, name)
       /\ u = Left(i.wd_table, s, wd, d) /\ HasWatch(i.wd_table, wd, d)
       /\ Contains(t[d], name) /\ q = Append(d, name) /\ d \in Dirs
  BY <1>4 DEF HasWatch
<1>10. \A x \in u : x[2] \in Dirs
  BY <1>5 DEF Left
<1>7. InfoType(j) /\ j.dir_table = s /\ j.wd_table = u /\ j.kernel = u
  <2>1. MayTake(i, wd, d, name)
    BY <1>3, <1>6, <1>16 DEF MayTake
  <2> HIDE DEF s, j, u, wd, name, t
  <2>2. /\ s = Shortened(i.dir_table, d, name) /\ j = Taken(i, wd, d, name)
        /\ u = Left(i.wd_table, s, wd, d)
    BY <1>16 DEF t
  <2>3. IsTaken(i, wd, d, j, s, u)
    BY <2>1, <2>2, TakenInfo
  <2> QED
    BY <2>3 DEF IsTaken
<1>8. /\ s \in [Dirs -> Seq(Names)] /\ Shrunk(t, s, d, q) /\ TableType(s)
  <2> HIDE DEF s, t, q, name
  <2> QED
    BY <1>4, <1>5, <1>16, ListShortened, ShortenedType
<1>9. /\ Tables(s, u, {}, <<>>, {})
      /\ q \in Dirs => Missing(s, u, q) /\ ~Awaits(s, q)
  <2> HIDE DEF s, t, q, u, wd, name
  <2>1. MayShrink(t, s, i.wd_table, u, wd, d, q)
    BY <1>5, <1>6, <1>8, <1>16 DEF MayShrink
  <2> QED
    BY <2>1, NameTaken
<1> HIDE DEF s, t, u, wd, name
<1>11. n \in Nat
  BY <1>1, <1>3
<1>12. IdleGood(j)
  BY <1>7, <1>9 DEF IdleGood
<1>13. list = IF q \in Dirs THEN s[q] ELSE <<>>
  BY <1>7
<1>14. CASE list = <<>>
  <2>1. job' = ReadJob(w, n) /\ info' = [info EXCEPT ![w] = j]
    BY <1>2, <1>14
  <2> HIDE DEF j, n
  <2>2. job' \in ReadType /\ ~AddsFor(job', w) /\ Alone(job', w)
    BY <1>3, <1>11, <2>1, ReadJobFields
  <2>3. WatcherGood(j, job', w)
    BY <1>12, <2>2 DEF WatcherGood
  <2>4. InfosGood(info', job')
    BY <1>3, <1>7, <2>1, <2>2, <2>3, InfosPut
  <2> QED
    BY <2>2, <2>4 DEF JobType
<1>15. CASE list # <<>>
  <2> DEFINE items == [k \in DOMAIN list |-> Append(q, list[k])]
  <2> DEFINE z == [j EXCEPT !.dir_table[q] = <<>>]
  <2> DEFINE r == [s EXCEPT ![q] = <<>>]
  <2>1. job' = AddJob(w, "event", items, n) /\ info' = [info EXCEPT ![w] = z]
    BY <1>2, <1>15
  <2>2. q \in Dirs /\ list = s[q]
    BY <1>13, <1>15
  <2> HIDE DEF j, n, q, list
  <2>3. list \in Seq(Names)
    BY <1>8, <2>2
  <2>4. /\ DOMAIN list = Places(s, q)
        /\ \A k \in Places(s, q) : items[k] = Slot(s, q, k)
    BY <2>2 DEF Places, Slot
  <2>5. \A k \in DOMAIN list : Append(q, list[k]) \in Paths
    BY <1>8, <2>2, <2>4 DEF TableType, Slot
  <2>6. items \in Seq(Paths) /\ items # <<>> /\ DOMAIN items = Places(s, q)
    <3>1. DOMAIN list = 1..Len(list) /\ Len(list) \in Nat
      BY <2>3
    <3>2. items \in [1..Len(list) -> Paths]
      BY <2>5, <3>1
    <3>3. Len(list) # 0
      BY <2>3, <1>15
    <3>4. items \in Seq(Paths)
      BY <3>1, <3>2, SeqDef
    <3>5. DOMAIN items = DOMAIN list
      OBVIOUS
    <3>6. 1 \in DOMAIN items
      BY <3>1, <3>3, <3>5
    <3> HIDE DEF items
    <3>7. items # <<>>
      BY <3>6
    <3> QED
      BY <2>4, <3>4, <3>5, <3>7
  <2> HIDE DEF items
  <2>7. Tables(r, u, {}, items, {})
    BY <1>8, <1>9, <1>10, <2>2, <2>4, <2>6, ListMoved
  <2>8. Tables(r, u, {Head(items)}, Tail(items), {})
    BY <2>6, <2>7, HeadNext
  <2>9. TableType(r)
    BY <1>8, <2>2, DroppedType
  <2>10. z = SetList(j, q, <<>>) /\ r = SetTable(s, q, <<>>)
    BY DEF SetList, SetTable
  <2> HIDE DEF z, r
  <2>11. /\ j = MakeInfo(j.dir_table, j.wd_table, j.kernel, j.queue, j.wds,
                         j.source)
         /\ WatchType(j.wd_table, j.wds) /\ j.wds \in Nat
         /\ j.source \in BOOLEAN
    BY <1>7, WdDirs
  <2>12. z = MakeInfo(r, u, u, j.queue, j.wds, j.source)
    BY <1>7, <2>10, <2>11, TableChanged
  <2>13. InfoType(z) /\ z.dir_table = r /\ z.wd_table = u /\ z.kernel = u
    BY <1>7, <2>9, <2>11, <2>12, MadeInfo
  <2>14. /\ job' \in AddType /\ job'.path = Head(items) /\ job'.todo = items
         /\ job'.step = "dir" /\ AddsFor(job', w) /\ Alone(job', w)
    BY <1>3, <1>11, <2>1, <2>6, AddJobFields
  <2>15. AddGood(z, Head(items), Tail(items), "dir")
    BY <2>8, <2>13 DEF AddGood
  <2>16. WatcherGood(z, job', w)
    BY <2>14, <2>15 DEF WatcherGood
  <2>17. InfosGood(info', job')
    BY <1>3, <2>1, <2>13, <2>14, <2>16, InfosPut
  <2> QED
    BY <2>14, <2>17 DEF JobType
<1> QED
  BY <1>14, <1>15

-----------------------------------------------------------------------------
(* The invariant of the watchers and of the process.                       *)

\* A report counts for one watcher.
LEMMA ReportType ==
    ASSUME finals \in [Watchers -> Nat], NEW w \in Watchers, NEW item,
           NEW final, Report(w, item, final)
    PROVE  /\ finals' \in [Watchers -> Nat]
           /\ \A u \in Watchers \ {w} : finals'[u] = finals[u]
           /\ finals'[w] = IF final THEN finals[w] + 1 ELSE finals[w]
BY DEF Report

\* Every step of a watcher keeps the tables and the kernel together.
LEMMA JobStepGood ==
    ASSUME job \in JobType, InfosGood(info, job), JobStep
    PROVE  job' \in JobType /\ InfosGood(info', job')
<1>1. CASE AddToList
  BY <1>1, AddToListGood
<1>2. CASE AddList
  BY <1>2, AddListGood
<1>3. CASE AddWatch
  BY <1>3, AddWatchGood
<1>4. CASE CheckFile
  BY <1>4, CheckFileGood
<1>5. CASE CallbackReturns
  BY <1>5, CallbackReturnsGood
<1>6. CASE IgnoreEvents
  BY <1>6, IgnoreEventsGood
<1>7. CASE TakeEvent
  BY <1>7, TakeEventGood
<1> QED
  BY <1>1, <1>2, <1>3, <1>4, <1>5, <1>6, <1>7 DEF JobStep

\* A step of the watcher reports the end of a wait at most once, for the
\* watcher at work, and no file appears.
LEMMA JobStepFinals ==
    ASSUME job \in JobType, finals \in [Watchers -> Nat], JobStep
    PROVE  /\ exists' = exists /\ job # NoJob /\ job.w \in Watchers
           /\ finals' \in [Watchers -> Nat]
           /\ \A u \in Watchers \ {job.w} : finals'[u] = finals[u]
           /\ finals'[job.w] \in {finals[job.w], finals[job.w] + 1}
<1>1. job # NoJob
  BY NoJobFields DEF JobStep, AddToList, AddList, AddWatch, CheckFile,
        CallbackReturns, IgnoreEvents, TakeEvent, Adding
<1>2. job.w \in Watchers
  BY <1>1, JobFields
<1>3. exists' = exists
  BY DEF JobStep, AddToList, AddList, AddWatch, CheckFile, CallbackReturns,
        IgnoreEvents, TakeEvent
<1>4. \/ finals' = finals
      \/ \E item, final : Report(job.w, item, final)
  <2>1. CASE AddToList \/ AddList \/ AddWatch \/ CallbackReturns \/ IgnoreEvents
    BY <2>1 DEF AddToList, AddList, AddWatch, CallbackReturns, IgnoreEvents,
        Added, NoReport
  <2>2. CASE CheckFile
    BY <2>2 DEF CheckFile, Ready, Added, NoReport
  <2>3. CASE TakeEvent
    BY <2>3 DEF TakeEvent, NoReport
  <2> QED
    BY <2>1, <2>2, <2>3 DEF JobStep
<1>5. CASE finals' = finals
  BY <1>1, <1>2, <1>3, <1>5
<1>6. ASSUME NEW item, NEW final, Report(job.w, item, final)
      PROVE  /\ finals' \in [Watchers -> Nat]
             /\ \A u \in Watchers \ {job.w} : finals'[u] = finals[u]
             /\ finals'[job.w] \in {finals[job.w], finals[job.w] + 1}
  BY <1>2, <1>6, ReportType
<1> QED
  BY <1>1, <1>2, <1>3, <1>4, <1>5, <1>6

Quiet == exists' = exists /\ finals' = finals

\* The invariant holds when the launcher starts.
LEMMA InitGood == LauncherInit => WatchInv /\ ProcessInv
<1> SUFFICES ASSUME LauncherInit
             PROVE  WatchInv /\ ProcessInv
  OBVIOUS
<1>1. /\ exists \in Existing /\ job = NoJob /\ finals = [w \in Watchers |-> 0]
      /\ info = [w \in Watchers |-> NewInfo]
  BY DEF LauncherInit, WatchInit
<1>2. exists \subseteq Paths /\ \A p \in exists : Exists(Dir(p))
  BY <1>1, LauncherAssumption DEF Exists
<1>3. InfosGood(info, job)
  BY <1>1, FreedGood, NoJobFields DEF InfosGood, WatcherGood
<1>4. WatchInv
  BY <1>1, <1>2, <1>3 DEF WatchInv, JobType
<1>5. ProcessInv
  BY LauncherAssumption DEF LauncherInit, ProcessInv, LauncherType
<1> QED
  BY <1>4, <1>5

\* Every step of the launcher keeps the invariant of the watchers.
LEMMA WatchStepInv ==
    ASSUME WatchInv, [LauncherNext]_vars
    PROVE  WatchInv'
<1> USE DEF WatchInv
<1>1. ASSUME Quiet, job' \in JobType, InfosGood(info', job')
      PROVE  WatchInv'
  BY <1>1 DEF Quiet, Exists
<1>2. CASE UNCHANGED watchVars
  BY <1>2 DEF watchVars, Exists
<1>3. CASE Wait
  <2> DEFINE l == launcher.line
  <2>1. l \in Watchers /\ StartWatch(l, Line.files) /\ Quiet
    BY <1>3 DEF Wait, StartWatch, NoReport, Quiet
  <2>2. Line.files \in Seq(Paths \ Dirs) /\ Line.files # <<>>
    BY <2>1, LauncherAssumption DEF Line
  <2>3. job' \in JobType /\ InfosGood(info', job')
    BY <2>1, <2>2, StartWatchGood
  <2> QED
    BY <1>1, <2>1, <2>3
<1>4. CASE WatchStep
  <2>1. JobStep
    BY <1>4 DEF WatchStep
  <2>2. job' \in JobType /\ InfosGood(info', job')
    BY <2>1, JobStepGood
  <2>3. exists' = exists /\ finals' \in [Watchers -> Nat]
    BY <2>1, JobStepFinals
  <2> QED
    BY <2>2, <2>3 DEF Exists
<1>5. ASSUME NEW w \in Watchers, FilesChanged(w)
      PROVE  WatchInv'
  <2>1. WatcherCallback(w) /\ Quiet
    BY <1>5 DEF FilesChanged, WatcherCallback, NoReport, Quiet
  <2>2. job' \in JobType /\ InfosGood(info', job')
    BY <2>1, WatcherCallbackGood
  <2> QED
    BY <1>1, <2>1, <2>2
<1>6. ASSUME NEW p \in Paths, FileAppears(p)
      PROVE  WatchInv'
  <2>1. /\ Appears(p) /\ exists' = exists \cup {p} /\ Exists(Dir(p))
        /\ finals' = finals
    BY <1>6 DEF FileAppears, Appears, NoReport
  <2>2. job' \in JobType /\ InfosGood(info', job')
    BY <2>1, AppearsGood
  <2> QED
    BY <2>1, <2>2 DEF Exists
<1>7. CASE Launch \/ CloseScript \/ ContinueLaunch
  BY <1>7, <1>2 DEF Launch, CloseScript, ContinueLaunch
<1>8. ASSUME NEW l \in Lines, ChildDown(l) \/ CommandEnds(l) \/ CloneReads(l)
      PROVE  WatchInv'
  BY <1>8, <1>2 DEF ChildDown, CommandEnds, CloneReads
<1>9. CASE UNCHANGED vars
  BY <1>2, <1>9 DEF vars
<1> QED
  BY <1>3, <1>4, <1>5, <1>6, <1>7, <1>8, <1>9 DEF LauncherNext

\* Every step of the process keeps its counters, lines and children in their
\* types: the end of a wait adds as many idle sources as it was reported.
LEMMA ProcessStepInv ==
    ASSUME WatchInv, ProcessInv, [LauncherNext]_vars
    PROVE  ProcessInv'
<1> USE DEF ProcessInv
<1> DEFINE next == launcher.line + 1
<1>0. next \in Nat /\ launcher.childs \subseteq Lines
  BY DEF LauncherType
<1>1. CASE Launch
  <2> DEFINE l == launcher.line
  <2> DEFINE more == IF Line.c = "M" THEN launcher.childs \cup {l}
                                     ELSE launcher.childs
  <2>1. l \in Lines /\ calm' = calm /\ atOnce' = atOnce
    BY <1>1 DEF Launch
  <2>2. more \subseteq Lines
    BY <1>0, <2>1
  <2>3. \/ launcher' = [launcher EXCEPT !.line = next]
        \/ launcher' = [launcher EXCEPT !.line = next, !.childs = more]
    BY <1>1 DEF Launch
  <2>4. /\ launched' = launched \/ launched' = launched \cup {l}
        /\ clones' = clones \/ clones' = clones \cup {next}
    BY <1>1 DEF Launch
  <2> HIDE DEF next, more
  <2>5. launcher' \in LauncherType
    BY <1>0, <2>2, <2>3 DEF LauncherType
  <2> QED
    BY <1>0, <2>1, <2>4, <2>5
<1>2. CASE Wait
  <2>1. /\ launcher' = [launcher EXCEPT !.line = next, !.socket_watcher = 0]
        /\ UNCHANGED <<launched, clones, calm, atOnce>>
    BY <1>2 DEF Wait
  <2> HIDE DEF next
  <2>2. launcher' \in LauncherType
    BY <1>0, <2>1 DEF LauncherType
  <2> QED
    BY <2>1, <2>2
<1>3. CASE CloseScript
  BY <1>3 DEF CloseScript, LauncherType
<1>4. CASE WatchStep
  <2> DEFINE w == job.w
  <2> DEFINE n == finals'[w] - finals[w]
  <2> DEFINE l == SocketReady(launcher, w, n)
  <2>1. job \in JobType /\ finals \in [Watchers -> Nat] /\ JobStep
    BY <1>4 DEF WatchInv, WatchStep
  <2>2. w \in Watchers /\ n \in {0, 1}
    BY <2>1, JobStepFinals
  <2>3. w \in Lines
    BY <2>2, LauncherAssumption
  <2>4. \/ launcher' = [l EXCEPT !.socket_watcher = w, !.busy = FALSE]
        \/ launcher' = l
    BY <1>4, Zenon DEF WatchStep
  <2>5. /\ UNCHANGED <<launched, clones, calm>>
        /\ atOnce' \subseteq atOnce \cup {w}
    BY <1>4 DEF WatchStep
  <2> HIDE DEF w, n
  <2>6. l \in LauncherType
    <3> DEFINE idles == launcher.idles + n
    <3>1. idles \in Nat
      BY <2>2 DEF LauncherType
    <3>2. \/ l = launcher
          \/ l = [launcher EXCEPT !.socket_watcher = 0, !.idles = idles]
      BY DEF SocketReady
    <3> HIDE DEF idles, l
    <3> QED
      BY <3>1, <3>2 DEF LauncherType
  <2> HIDE DEF l
  <2>7. launcher' \in LauncherType
    BY <2>3, <2>4, <2>6 DEF LauncherType
  <2> QED
    BY <2>2, <2>5, <2>7
<1>5. ASSUME NEW w \in Watchers, FilesChanged(w)
      PROVE  ProcessInv'
  BY <1>5 DEF FilesChanged, launcherVars
<1>6. ASSUME NEW l \in Lines, ChildDown(l)
      PROVE  ProcessInv'
  <2> DEFINE up == launcher.childs # {l}
  <2>1. up \in BOOLEAN
    OBVIOUS
  <2>2. launcher' = [launcher EXCEPT !.childs = @ \ {l}, !.down = @ \ {l},
                                     !.up = up]
    BY <1>6 DEF ChildDown
  <2> HIDE DEF up
  <2>3. launcher' \in LauncherType
    BY <2>1, <2>2 DEF LauncherType
  <2> QED
    BY <1>6, <2>3 DEF ChildDown
<1>7. ASSUME NEW l \in Lines, CommandEnds(l)
      PROVE  ProcessInv'
  BY <1>7 DEF CommandEnds, LauncherType
<1>8. ASSUME NEW l \in Lines, CloneReads(l)
      PROVE  ProcessInv'
  BY <1>8, LauncherAssumption DEF CloneReads
<1>9. CASE ContinueLaunch
  <2> DEFINE busy == launcher.busy \/ launcher.open
  <2>1. busy \in BOOLEAN
    BY DEF LauncherType
  <2> DEFINE idles == launcher.idles - 1
  <2>2. launcher' = [launcher EXCEPT !.idles = idles, !.busy = busy]
    BY <1>9 DEF ContinueLaunch
  <2>3. idles \in Nat
    BY <1>9 DEF ContinueLaunch, LauncherType
  <2> HIDE DEF busy, idles
  <2>4. launcher' \in LauncherType
    BY <2>1, <2>2, <2>3 DEF LauncherType
  <2> QED
    BY <1>9, <2>4 DEF ContinueLaunch
<1>10. ASSUME NEW p \in Paths, FileAppears(p)
       PROVE  ProcessInv'
  BY <1>10 DEF FileAppears, launcherVars
<1>11. CASE UNCHANGED vars
  BY <1>11 DEF vars, launcherVars
<1> QED
  BY <1>1, <1>2, <1>3, <1>4, <1>5, <1>6, <1>7, <1>8, <1>9, <1>10, <1>11
     DEF LauncherNext

\* Both parts of the invariant hold in every reachable state.
LEMMA LauncherInvariant == LauncherSpec => [](WatchInv /\ ProcessInv)
<1>1. WatchInv /\ ProcessInv /\ [LauncherNext]_vars => (WatchInv /\ ProcessInv)'
  BY WatchStepInv, ProcessStepInv
<1> QED
  BY <1>1, InitGood, PTL DEF LauncherSpec

\* The tables of a watcher in every state of the invariant, in or out of
\* _add_watch.
LEMMA WatcherTables ==
    ASSUME WatchInv, NEW w \in Watchers
    PROVE  /\ InfoType(info[w])
           /\ WatchesGood(info[w].dir_table, info[w].wd_table)
           /\ info[w].wd_table \subseteq info[w].kernel
           /\ info[w].kernel \subseteq (1..info[w].wds) \X Dirs
           /\ job = NoJob => info[w].kernel = info[w].wd_table
<1> DEFINE i == info[w]
<1>1. InfoType(i) /\ WatcherGood(i, job, w) /\ job \in JobType
  BY DEF WatchInv, InfosGood
<1>2. i.wd_table \subseteq (1..i.wds) \X Dirs /\ i.wds \in Nat
  BY <1>1, WdDirs DEF WatchType
<1> HIDE DEF i
<1>3. CASE ~AddsFor(job, w)
  <2>1. IdleGood(i)
    BY <1>1, <1>3 DEF WatcherGood
  <2> QED
    BY <1>1, <1>2, <2>1 DEF IdleGood, Tables, i
<1>4. CASE AddsFor(job, w)
  <2>1. AddGood(i, job.path, Tail(job.todo), job.step)
    BY <1>1, <1>4 DEF WatcherGood
  <2>2. Dir(job.path) \in Dirs /\ job # NoJob
    BY <1>1, <1>4, JobFields, PathDir, NoJobFields DEF AddsFor
  <2>3. WatchesGood(i.dir_table, i.wd_table)
    BY <2>1 DEF AddGood, Tables
  <2>4. \/ i.kernel = i.wd_table
        \/ /\ i.kernel = i.wd_table \cup {<<i.wds, Dir(job.path)>>}
           /\ i.wds # 0
    BY <2>1 DEF AddGood
  <2>5. <<i.wds, Dir(job.path)>> \in (1..i.wds) \X Dirs \/ i.wds = 0
    BY <1>2, <2>2
  <2>6. i.kernel \subseteq (1..i.wds) \X Dirs /\ i.wd_table \subseteq i.kernel
    BY <1>2, <2>4, <2>5
  <2> QED
    BY <1>1, <2>2, <2>3, <2>6 DEF i
<1> QED
  BY <1>3, <1>4

\* In every reachable state, for every script and every tree of paths, the
\* launcher, its watchers and the job at hand have their types; above all,
\* every watch is on a directory of an awaited path, under a descriptor that
\* inotify has given out, also in the middle of _add_watch.
THEOREM LauncherTypeCorrect == LauncherSpec => []LauncherTypeOK
<1>1. ASSUME WatchInv, ProcessInv
      PROVE  LauncherTypeOK
  <2>1. ASSUME NEW w \in Watchers
        PROVE  /\ info[w].source \in BOOLEAN
               /\ \A d \in Dirs : info[w].dir_table[d] \in Seq(STRING)
               /\ \A x \in info[w].wd_table \cup info[w].kernel :
                        x[1] \in 1..info[w].wds /\ x[2] \in Dirs
    BY <1>1, WatcherTables, WdDirs DEF Names
  <2>2. /\ job.mode \in {"none", "start", "event", "read"}
        /\ job # NoJob => job.nwatch \in Nat
    BY <1>1, JobFields DEF WatchInv
  <2> QED
    BY <1>1, <2>1, <2>2 DEF LauncherTypeOK, WatchInv, ProcessInv
<1> QED
  BY <1>1, LauncherInvariant, PTL

\* The two tables of a watcher and the kernel agree in every reachable state,
\* whatever files appear between the system calls of _add_watch and of
\* _inotify_watcher_cb, and whichever of those calls fail.
THEOREM WatchTablesAgree == LauncherSpec => []TablesAgree
<1>1. ASSUME WatchInv
      PROVE  TablesAgree
  <2>1. ASSUME NEW w \in Watchers
        PROVE  /\ \A x \in info[w].wd_table : info[w].dir_table[x[2]] # <<>>
               /\ \A x, y \in info[w].wd_table : x[2] = y[2] => x = y
               /\ info[w].wd_table \subseteq info[w].kernel
               /\ job = NoJob => info[w].kernel = info[w].wd_table
    BY <1>1, WatcherTables DEF WatchesGood, Empty
  <2> QED
    BY <2>1 DEF TablesAgree
<1> QED
  BY <1>1, LauncherInvariant, PTL

-----------------------------------------------------------------------------
(***************************************************************************)
(* The end of a wait, when files appear only while the launcher rests.     *)
(***************************************************************************)

\* Events about files of a watched directory that exist, with nothing below
\* them, and events of watches that the program does not know.
FreshEvents(v, n, ex) ==
    {e \in [wd : 0..n, name : Names \cup {NoName}] :
        \A x \in v : x[1] = e.wd =>
            LET p == Append(x[2], e.name) IN
            p \in ex /\ \A r \in ex : Dir(r) # p}

\* j is a job of w.
AtWork(j, w) == j.mode # "none" /\ j.w = w

\* A watcher that was not started, or whose wait is over, is blank.
RunGood(i, j, w) ==
    IF AtWork(j, w) THEN j.mode # "start" => i.source = TRUE
                    ELSE i.source = TRUE \/ i = NewInfo

\* The watcher's events are fresh, none of them is of a watch that is only
\* being added, and once its end was reported, n times, it is about to be
\* freed or is.
CalmGood(i, j, w, n, ex) ==
    /\ i.queue \in Seq(FreshEvents(i.wd_table, i.wds, ex))
    /\ AddsFor(j, w) /\ j.step = "file" =>
            \A k \in DOMAIN i.queue : i.queue[k].wd # i.wds
    /\ n \in {0, 1}
    /\ n = 1 /\ (i.source = TRUE \/ AtWork(j, w)) =>
            j.mode = "read" /\ AtWork(j, w) /\ j.nwatch = 0

\* What is added when a directory has appeared isn't there; what is added at
\* the start are files of the line, or a directory of one that isn't there.
ItemsGood(j, ex) ==
    /\ j.mode = "event" =>
        j.path \notin ex /\ \A k \in DOMAIN j.todo : j.todo[k] \notin ex
    /\ j.mode = "start" =>
        /\ j.path = j.todo[1] \/ j.path \notin ex
        /\ \A k \in DOMAIN j.todo : j.todo[k] \in Files(j.w)

\* Watchers of lines that are still to be read are blank.
RunInv ==
    /\ \A w \in Watchers : RunGood(info[w], job, w)
    /\ \A w \in Watchers : launcher.line <= w =>
            finals[w] = 0 /\ ~AtWork(job, w) /\ info[w] = NewInfo

CalmInv ==
    calm => /\ ItemsGood(job, exists)
            /\ \A w \in Watchers :
                    CalmGood(info[w], job, w, finals[w], exists)

-----------------------------------------------------------------------------
(* Steps of the watcher.                                                   *)

\* What every step of watcher w leaves alone, and what it keeps.
StepGood(w) ==
    /\ \A u \in Watchers \ {w} : info'[u] = info[u]
    /\ job'.mode = "none" \/ job'.w = w
    /\ RunGood(info'[w], job', w)

\* ... and what it keeps when all is calm, with its end reported n times.
CalmStep(w, n) ==
    /\ ItemsGood(job', exists)
    /\ CalmGood(info'[w], job', w, n, exists)

\* Only what a watcher keeps in its queue, its watches and its descriptors
\* matters to what is fresh.
Fresh(i, ex) == i.queue \in Seq(FreshEvents(i.wd_table, i.wds, ex))

\* A record with the fields of WatchInfo.
IsInfo(i) ==
    i = MakeInfo(i.dir_table, i.wd_table, i.kernel, i.queue, i.wds, i.source)

\* A blank watcher.
LEMMA BlankFields ==
    /\ NewInfo.source # TRUE /\ NewInfo.queue = <<>> /\ NewInfo.kernel = {}
    /\ NewInfo.wd_table = {} /\ \A ex : Fresh(NewInfo, ex)
<1>1. /\ NewInfo.source # TRUE /\ NewInfo.queue = <<>>
      /\ NewInfo.kernel = {} /\ NewInfo.wd_table = {}
  BY DEF NewInfo
<1>2. \A S : <<>> \in Seq(S)
  OBVIOUS
<1> QED
  BY <1>1, <1>2, Zenon DEF Fresh

Sourced(i) == [i EXCEPT !.source = TRUE]

\* The source of a watcher is added.
LEMMA SourceFields ==
    ASSUME NEW i, IsInfo(i), NEW j, j = Sourced(i)
    PROVE  /\ j.source = TRUE
           /\ j.dir_table = i.dir_table /\ j.wd_table = i.wd_table
           /\ \A ex : Fresh(j, ex) <=> Fresh(i, ex)
<1> DEFINE yes == TRUE
<1>1. i = MakeInfo(i.dir_table, i.wd_table, i.kernel, i.queue, i.wds, i.source)
  BY DEF IsInfo
<1>2. j = [i EXCEPT !.source = yes]
  BY DEF Sourced
<1> HIDE DEF yes
<1>3. j = MakeInfo(i.dir_table, i.wd_table, i.kernel, i.queue, i.wds, yes)
  BY <1>1, <1>2 DEF MakeInfo
<1>4. /\ j.wd_table = i.wd_table /\ j.wds = i.wds /\ j.queue = i.queue
      /\ j.source = yes /\ j.dir_table = i.dir_table
  BY <1>3, MadeInfo
<1> QED
  BY <1>4 DEF Fresh, yes

\* What follows an item, for the run of the watcher.
LEMMA ItemRuns ==
    ASSUME job \in JobType, info = [w \in Watchers |-> info[w]],
           job.mode \in {"start", "event"},
           NEW i, IsInfo(i), job.mode = "event" => i.source = TRUE,
           NEW n \in Nat, NextItem(i, n)
    PROVE  StepGood(job.w)
<1> DEFINE w == job.w
<1> DEFINE rest == Tail(job.todo)
<1>1. /\ w \in Watchers /\ job.todo \in Seq(Paths) /\ job.todo # <<>>
  BY JobFields, NoJobFields
<1>2. rest \in Seq(Paths)
  BY <1>1, HeadTailProperties
<1> HIDE DEF w, rest
<1>3. CASE rest # <<>>
  <2>1. /\ job' = AddJob(w, job.mode, rest, n)
        /\ info' = [info EXCEPT ![w] = i]
    BY <1>3 DEF NextItem, rest, w
  <2>2. job'.mode = job.mode /\ job'.w = w
    BY <1>1, <1>2, <1>3, <2>1, AddJobFields
  <2>3. info'[w] = i /\ \A u \in Watchers \ {w} : info'[u] = info[u]
    BY <1>1, <2>1
  <2> QED
    BY <2>2, <2>3, Zenon DEF StepGood, RunGood, AtWork, w
<1>4. CASE rest = <<>> /\ job.mode = "start"
  <2>1. job' = NoJob /\ info' = [info EXCEPT ![w] = Finished(i, n)]
    BY <1>4 DEF NextItem, rest, w
  <2>2. /\ info'[w] = Finished(i, n)
        /\ \A u \in Watchers \ {w} : info'[u] = info[u]
    BY <1>1, <2>1
  <2>3. Finished(i, n) = NewInfo \/ Finished(i, n).source = TRUE
    BY SourceFields DEF Finished, Freed, Sourced
  <2> QED
    BY <2>1, <2>2, <2>3, NoJobFields DEF StepGood, RunGood, AtWork, w
<1>5. CASE rest = <<>> /\ job.mode = "event"
  <2>1. job' = ReadJob(w, n) /\ info' = [info EXCEPT ![w] = i]
    BY <1>5 DEF NextItem, rest, w
  <2>2. job'.mode = "read" /\ job'.w = w
    BY <1>1, <2>1, ReadJobFields
  <2>3. info'[w] = i /\ \A u \in Watchers \ {w} : info'[u] = info[u]
    BY <1>1, <2>1
  <2> QED
    BY <1>5, <2>2, <2>3, Zenon DEF StepGood, RunGood, AtWork, w
<1> QED
  BY <1>3, <1>4, <1>5

\* ... and when all is calm.  The end is reported with the last item only,
\* and only when there is nothing to wait for.
LEMMA ItemCalm ==
    ASSUME job \in JobType, info = [w \in Watchers |-> info[w]],
           job.mode \in {"start", "event"},
           NEW i, IsInfo(i), job.mode = "event" => i.source = TRUE,
           NEW n \in Nat, NextItem(i, n),
           Fresh(i, exists), ItemsGood(job, exists),
           NEW m \in {0, 1},
           m = 1 => job.mode = "start" /\ n = 0 /\ Tail(job.todo) = <<>>
    PROVE  CalmStep(job.w, m)
<1> DEFINE w == job.w
<1> DEFINE rest == Tail(job.todo)
<1>1. /\ w \in Watchers /\ job.todo \in Seq(Paths) /\ job.todo # <<>>
  BY JobFields, NoJobFields
<1>2. rest \in Seq(Paths)
  BY <1>1, HeadTailProperties
<1>3. \A k \in DOMAIN rest :
        k + 1 \in DOMAIN job.todo /\ rest[k] = job.todo[k + 1]
  BY <1>1
<1> HIDE DEF w, rest
<1>4. CASE rest # <<>>
  <2>1. /\ job' = AddJob(w, job.mode, rest, n)
        /\ info' = [info EXCEPT ![w] = i]
    BY <1>4 DEF NextItem, rest, w
  <2>2. /\ job'.mode = job.mode /\ job'.w = w /\ job'.path = Head(rest)
        /\ job'.todo = rest /\ job'.step = "dir"
    BY <1>1, <1>2, <1>4, <2>1, AddJobFields
  <2>3. info'[w] = i /\ m = 0
    BY <1>1, <1>4, <2>1 DEF rest
  <2>4. Head(rest) = rest[1] /\ 1 \in DOMAIN rest
    BY <1>2, <1>4
  <2>5. ItemsGood(job', exists)
    BY <1>3, <2>2, <2>4 DEF ItemsGood, w
  <2>6. CalmGood(i, job', w, 0, exists)
    BY <2>2 DEF CalmGood, Fresh
  <2> QED
    BY <2>3, <2>5, <2>6 DEF CalmStep, w
<1>5. CASE rest = <<>> /\ job.mode = "start"
  <2> DEFINE fin == Finished(i, n)
  <2>1. job' = NoJob /\ info' = [info EXCEPT ![w] = fin]
    BY <1>5 DEF NextItem, rest, w
  <2>2. info'[w] = fin
    BY <1>1, <2>1
  <2>3. Fresh(fin, exists) /\ (fin.source = TRUE => n # 0)
    BY SourceFields, BlankFields DEF Finished, Freed, Sourced
  <2>4. m = 1 => fin.source # TRUE
    BY <2>3
  <2> HIDE DEF fin
  <2>5. job'.mode = "none" /\ ~AddsFor(job', w)
    BY <2>1, NoJobFields
  <2>6. CalmGood(fin, job', w, m, exists)
    BY <2>3, <2>4, <2>5 DEF CalmGood, Fresh, AtWork
  <2> QED
    BY <2>2, <2>5, <2>6 DEF CalmStep, ItemsGood, w
<1>6. CASE rest = <<>> /\ job.mode = "event"
  <2>1. job' = ReadJob(w, n) /\ info' = [info EXCEPT ![w] = i]
    BY <1>6 DEF NextItem, rest, w
  <2>2. job'.mode = "read" /\ job'.w = w /\ ~AddsFor(job', w)
    BY <1>1, <2>1, ReadJobFields
  <2>3. info'[w] = i /\ m = 0
    BY <1>1, <1>6, <2>1
  <2>4. CalmGood(i, job', w, 0, exists)
    BY <2>2 DEF CalmGood, Fresh
  <2> QED
    BY <2>2, <2>3, <2>4 DEF CalmStep, ItemsGood, w
<1> QED
  BY <1>4, <1>5, <1>6

\* The job at hand before a step, and what is known of it when all is calm.
JobFacts ==
    /\ job \in JobType /\ job.mode # "none"
    /\ finals \in [Watchers -> Nat]
    /\ InfosGood(info, job)
    /\ RunGood(info[job.w], job, job.w)

CalmFacts ==
    /\ ItemsGood(job, exists)
    /\ CalmGood(info[job.w], job, job.w, finals[job.w], exists)

\* What a step of the watcher has to show.
StepShown ==
    /\ StepGood(job.w)
    /\ CalmFacts => CalmStep(job.w, finals'[job.w])

\* A list of a watcher is replaced.
LEMMA ListSet ==
    ASSUME NEW i, IsInfo(i), NEW d, NEW l, NEW j, j = SetList(i, d, l)
    PROVE  /\ IsInfo(j) /\ j.source = i.source /\ j.queue = i.queue
           /\ j.wd_table = i.wd_table /\ j.wds = i.wds
           /\ j.dir_table = SetTable(i.dir_table, d, l)
           /\ \A ex : Fresh(j, ex) <=> Fresh(i, ex)
<1> DEFINE s == SetTable(i.dir_table, d, l)
<1>1. j = MakeInfo(s, i.wd_table, i.kernel, i.queue, i.wds, i.source)
  BY TableChanged DEF IsInfo
<1> HIDE DEF s
<1>2. /\ j.dir_table = s /\ j.wd_table = i.wd_table /\ j.kernel = i.kernel
      /\ j.queue = i.queue /\ j.wds = i.wds /\ j.source = i.source
  BY <1>1, MadeInfo
<1>3. IsInfo(j)
  BY <1>1, <1>2 DEF IsInfo
<1> QED
  BY <1>2, <1>3, Zenon DEF Fresh, s

\* A watcher that adds has not reported its end when all is calm.
LEMMA AddsCalm ==
    ASSUME JobFacts, NEW step, Adding(step)
    PROVE  /\ job.w \in Watchers /\ job.mode \in {"start", "event"}
           /\ info = [w \in Watchers |-> info[w]] /\ IsInfo(info[job.w])
           /\ job.mode = "event" => info[job.w].source = TRUE
           /\ job.nwatch \in Nat /\ AtWork(job, job.w)
           /\ AddsFor(job, job.w) /\ job.step = step
           /\ CalmFacts => finals[job.w] = 0 /\ Fresh(info[job.w], exists)
<1>1. /\ job.w \in Watchers /\ job.mode \in {"start", "event"}
      /\ job.nwatch \in Nat /\ AddsFor(job, job.w) /\ job.step = step
      /\ InfoType(info[job.w])
  BY AddFacts DEF JobFacts
<1>2. info = [w \in Watchers |-> info[w]]
  BY DEF JobFacts, InfosGood
<1>3. IsInfo(info[job.w])
  BY <1>1 DEF InfoType, IsInfo
<1>4. AtWork(job, job.w) /\ (job.mode = "event" => info[job.w].source = TRUE)
  BY <1>1 DEF JobFacts, RunGood, AtWork
<1>5. CalmFacts => finals[job.w] = 0 /\ Fresh(info[job.w], exists)
  BY <1>1, <1>4 DEF CalmFacts, CalmGood, Fresh
<1> QED
  BY <1>1, <1>2, <1>3, <1>4, <1>5

\* An item is done without a report.
LEMMA ItemShown ==
    ASSUME JobFacts, NEW step, Adding(step), finals' = finals,
           NEW i, IsInfo(i), i.source = info[job.w].source,
           NEW n \in Nat, NextItem(i, n), CalmFacts => Fresh(i, exists)
    PROVE  StepShown
<1>1. /\ job \in JobType /\ info = [w \in Watchers |-> info[w]]
      /\ job.mode \in {"start", "event"}
      /\ job.mode = "event" => i.source = TRUE
      /\ CalmFacts => finals[job.w] = 0
  BY AddsCalm DEF JobFacts
<1>2. StepGood(job.w)
  BY <1>1, ItemRuns
<1>3. ASSUME CalmFacts
      PROVE  CalmStep(job.w, finals'[job.w])
  <2> DEFINE m == finals'[job.w]
  <2>1. ItemsGood(job, exists) /\ Fresh(i, exists) /\ m \in {0, 1} /\ m # 1
    BY <1>1, <1>3 DEF CalmFacts
  <2> HIDE DEF m
  <2>2. CalmStep(job.w, m)
    BY <1>1, <2>1, ItemCalm
  <2> QED
    BY <2>2 DEF m
<1> QED
  BY <1>2, <1>3 DEF StepShown

\* A name joins a list: nothing is reported.
LEMMA AddToListCalm ==
    ASSUME JobFacts, AddToList
    PROVE  StepShown
<1> DEFINE i == info[job.w]
<1> DEFINE d == Dir(job.path)
<1> DEFINE l == Append(i.dir_table[d], Name(job.path))
<1> DEFINE j == SetList(i, d, l)
<1>1. Adding("dir") /\ NextItem(j, job.nwatch + 1) /\ finals' = finals
  BY DEF AddToList, Added, NoReport, SetList
<1>2. IsInfo(i) /\ job.nwatch \in Nat /\ (CalmFacts => Fresh(i, exists))
  BY <1>1, AddsCalm
<1>3. IsInfo(j) /\ j.source = i.source /\ (CalmFacts => Fresh(j, exists))
  <2> HIDE DEF l, i, j
  <2> QED
    BY <1>2, ListSet DEF j
<1> HIDE DEF j
<1> QED
  BY <1>1, <1>2, <1>3, ItemShown

\* A name starts a list: a directory that is added next doesn't exist.
LEMMA AddListCalm ==
    ASSUME JobFacts, AddList
    PROVE  StepShown
<1> DEFINE w == job.w
<1> DEFINE i == info[w]
<1> DEFINE d == Dir(job.path)
<1> DEFINE j == SetList(i, d, <<Name(job.path)>>)
<1>1. /\ Adding("dir") /\ finals' = finals
      /\ info' = [info EXCEPT ![w] = j]
      /\ job' = IF Exists(d) THEN [job EXCEPT !.step = "watch"]
                             ELSE [job EXCEPT !.path = d]
  BY DEF AddList, NoReport, SetList
<1>2. /\ w \in Watchers /\ job.mode \in {"start", "event"}
      /\ info = [u \in Watchers |-> info[u]] /\ IsInfo(i)
      /\ job.mode = "event" => i.source = TRUE
      /\ AddsFor(job, w) /\ job.step = "dir"
      /\ CalmFacts => finals[w] = 0 /\ Fresh(i, exists)
  BY <1>1, AddsCalm
<1>3. job \in AddType
  BY <1>1, AddFacts DEF JobFacts
<1>4. /\ IsInfo(j) /\ j.source = i.source
      /\ Fresh(j, exists) <=> Fresh(i, exists)
  <2> HIDE DEF i, j
  <2> QED
    BY <1>2, ListSet DEF j
<1> HIDE DEF j
<1>5. info'[w] = j /\ \A u \in Watchers \ {w} : info'[u] = info[u]
  BY <1>1, <1>2
<1>6. /\ job'.mode = job.mode /\ job'.w = w /\ job'.todo = job.todo
      /\ job'.step \in {"dir", "watch"}
      /\ job'.path = job.path \/ (job'.path = d /\ ~Exists(d))
  BY <1>1, <1>2, <1>3 DEF AddType
<1>7. StepGood(w)
  BY <1>2, <1>4, <1>5, <1>6 DEF StepGood, RunGood, AtWork
<1>8. ASSUME CalmFacts
      PROVE  CalmStep(w, finals'[w])
  <2>1. ItemsGood(job', exists)
    BY <1>6, <1>8 DEF ItemsGood, CalmFacts, Exists
  <2>2. CalmGood(j, job', w, 0, exists)
    BY <1>2, <1>4, <1>6, <1>8 DEF CalmGood, Fresh
  <2>3. finals'[w] = 0
    BY <1>1, <1>2, <1>8
  <2> QED
    BY <1>5, <2>1, <2>2, <2>3 DEF CalmStep
<1> QED
  BY <1>7, <1>8 DEF StepShown

\* Fresh events stay fresh when inotify gives out another descriptor, and
\* none of them has it.
LEMMA NewDescriptor ==
    ASSUME NEW v, NEW n \in Nat, NEW ex, NEW q \in Seq(FreshEvents(v, n, ex))
    PROVE  /\ q \in Seq(FreshEvents(v, n + 1, ex))
           /\ \A k \in DOMAIN q : q[k].wd # n + 1
<1> DEFINE S == FreshEvents(v, n, ex)
<1> DEFINE T == FreshEvents(v, n + 1, ex)
<1>1. \A e \in S : e \in T /\ e.wd \in 0..n
  <2>1. 0..n \subseteq 0..(n + 1)
    OBVIOUS
  <2> QED
    BY <2>1 DEF FreshEvents
<1> HIDE DEF S, T
<1>2. q \in Seq(S)
  BY DEF S
<1>3. \A k \in DOMAIN q : q[k] \in S
  BY <1>2
<1>4. q \in Seq(T)
  BY <1>1, <1>2, SeqMonotonic
<1>5. ASSUME NEW k \in DOMAIN q
      PROVE  q[k].wd # n + 1
  <2>1. q[k].wd \in 0..n
    BY <1>1, <1>3
  <2> QED
    BY <2>1
<1> QED
  BY <1>4, <1>5 DEF T

\* They stay fresh when the program learns of a watch none of them is of.
LEMMA NewWatch ==
    ASSUME NEW v, NEW n \in Nat, NEW ex, NEW q \in Seq(FreshEvents(v, n, ex)),
           \A k \in DOMAIN q : q[k].wd # n, NEW d
    PROVE  q \in Seq(FreshEvents(v \cup {<<n, d>>}, n, ex))
<1> DEFINE S == FreshEvents(v, n, ex)
<1> DEFINE T == FreshEvents(v \cup {<<n, d>>}, n, ex)
<1>1. ASSUME NEW e \in S, e.wd # n
      PROVE  e \in T
  <2>1. /\ e \in [wd : 0..n, name : Names \cup {NoName}]
        /\ \A x \in v : x[1] = e.wd =>
                /\ Append(x[2], e.name) \in ex
                /\ \A r \in ex : Dir(r) # Append(x[2], e.name)
    BY DEF FreshEvents
  <2>2. \A x \in v \cup {<<n, d>>} : x[1] = e.wd => x \in v
    BY <1>1
  <2>3. \A x \in v \cup {<<n, d>>} : x[1] = e.wd =>
                /\ Append(x[2], e.name) \in ex
                /\ \A r \in ex : Dir(r) # Append(x[2], e.name)
    BY <2>1, <2>2, Zenon
  <2> QED
    BY <2>1, <2>3 DEF FreshEvents
<1> HIDE DEF S, T
<1>2. q \in Seq(S)
  BY DEF S
<1>3. \A k \in DOMAIN q : q[k] \in S /\ q[k].wd # n
  BY <1>2
<1>4. \A k \in DOMAIN q : q[k] \in T
  BY <1>1, <1>3
<1>5. DOMAIN q = 1..Len(q) /\ Len(q) \in Nat /\ q = [k \in 1..Len(q) |-> q[k]]
  BY <1>2
<1>6. q \in [1..Len(q) -> T]
  BY <1>4, <1>5
<1>7. q \in Seq(T)
  BY <1>5, <1>6, SeqDef
<1> QED
  BY <1>7 DEF T

\* The event of a watch that is gone is fresh.
LEMMA GoneFresh ==
    ASSUME NEW v, NEW n \in Nat, NEW ex, NEW wd \in 0..n,
           \A x \in v : x[1] # wd
    PROVE  Event(wd, NoName) \in FreshEvents(v, n, ex)
<1> DEFINE e == Event(wd, NoName)
<1>1. e \in [wd : 0..n, name : Names \cup {NoName}] /\ e.wd = wd
  BY DEF Event
<1> HIDE DEF e
<1> QED
  BY <1>1 DEF FreshEvents, e

\* A new watch has no events yet.
LEMMA AddWatchCalm ==
    ASSUME JobFacts, AddWatch
    PROVE  StepShown
<1> DEFINE w == job.w
<1> DEFINE i == info[w]
<1> DEFINE d == Dir(job.path)
<1> DEFINE n == i.wds + 1
<1> DEFINE kept == [i EXCEPT !.wds = @ + 1, !.kernel = @ \cup {<<n, d>>}]
<1> DEFINE dropped == SetList(i, d, <<>>)
<1>1. Adding("watch") /\ finals' = finals
  BY DEF AddWatch, NoReport
<1>2. \/ /\ info' = [info EXCEPT ![w] = kept]
         /\ job' = [job EXCEPT !.step = "file"]
      \/ NextItem(dropped, job.nwatch)
  BY DEF AddWatch, SetList
<1>3. /\ w \in Watchers /\ job.mode \in {"start", "event"}
      /\ info = [u \in Watchers |-> info[u]] /\ IsInfo(i)
      /\ job.mode = "event" => i.source = TRUE
      /\ AddsFor(job, w) /\ job.nwatch \in Nat
      /\ CalmFacts => finals[w] = 0 /\ Fresh(i, exists)
  BY <1>1, AddsCalm
<1>4. job \in AddType /\ i.wds \in Nat
  BY <1>1, AddFacts, WdDirs DEF JobFacts
<1>5. CASE NextItem(dropped, job.nwatch)
  <2>1. /\ IsInfo(dropped) /\ dropped.source = i.source
        /\ CalmFacts => Fresh(dropped, exists)
    <3> HIDE DEF i, dropped
    <3> QED
      BY <1>3, ListSet DEF dropped
  <2> HIDE DEF dropped
  <2> QED
    BY <1>1, <1>3, <1>5, <2>1, ItemShown
<1>6. CASE /\ info' = [info EXCEPT ![w] = kept]
           /\ job' = [job EXCEPT !.step = "file"]
  <2> DEFINE kernel == i.kernel \cup {<<n, d>>}
  <2>1. /\ kept.source = i.source /\ kept.queue = i.queue
        /\ kept.wd_table = i.wd_table /\ kept.wds = n
    <3> HIDE DEF i
    <3>1. kept = [i EXCEPT !.wds = n, !.kernel = kernel]
      OBVIOUS
    <3> HIDE DEF kept, n, kernel
    <3>2. kept = MakeInfo(i.dir_table, i.wd_table, kernel, i.queue, n, i.source)
      BY <1>3, <3>1 DEF MakeInfo, IsInfo
    <3> QED
      BY <3>2, MadeInfo
  <2>2. info'[w] = kept /\ \A u \in Watchers \ {w} : info'[u] = info[u]
    BY <1>3, <1>6
  <2>3. /\ job'.mode = job.mode /\ job'.w = w /\ job'.todo = job.todo
        /\ job'.path = job.path /\ job'.step = "file"
    BY <1>4, <1>6 DEF AddType
  <2> HIDE DEF kept
  <2>4. StepGood(w)
    BY <1>3, <2>1, <2>2, <2>3 DEF StepGood, RunGood, AtWork
  <2>5. ASSUME CalmFacts
        PROVE  CalmStep(w, finals'[w])
    <3>1. ItemsGood(job', exists)
      BY <2>3, <2>5 DEF ItemsGood, CalmFacts
    <3>2. i.queue \in Seq(FreshEvents(i.wd_table, i.wds, exists))
      BY <1>3, <2>5 DEF Fresh
    <3>3. /\ i.queue \in Seq(FreshEvents(i.wd_table, n, exists))
          /\ \A k \in DOMAIN i.queue : i.queue[k].wd # n
      BY <1>4, <3>2, NewDescriptor
    <3>4. finals'[w] = 0
      BY <1>1, <1>3, <2>5
    <3> HIDE DEF i, n
    <3>5. CalmGood(kept, job', w, 0, exists)
      BY <1>3, <2>1, <2>3, <3>3 DEF CalmGood
    <3> QED
      BY <2>2, <3>1, <3>4, <3>5 DEF CalmStep
  <2> QED
    BY <2>4, <2>5 DEF StepShown
<1> QED
  BY <1>2, <1>5, <1>6

\* A file that exists is found at the start only, not in the callback, and
\* the end is told with the last file, when there is nothing left to watch.
LEMMA CheckFileCalm ==
    ASSUME JobFacts, CheckFile
    PROVE  StepShown
<1> DEFINE w == job.w
<1> DEFINE i == info[w]
<1> DEFINE p == job.path
<1> DEFINE d == Dir(p)
<1> DEFINE x == <<i.wds, d>>
<1> DEFINE final == job.nwatch = 0 /\ (job.mode = "start" => Len(job.todo) = 1)
<1> DEFINE u == Unwatched(i, i.wds, d)
<1> DEFINE ready == SetList(u, d, <<>>)
<1> DEFINE added == [i EXCEPT !.wd_table = @ \cup {x}]
<1>1. Adding("file")
  BY DEF CheckFile
<1>2. \/ /\ Exists(p) /\ Report(w, Head(job.todo), final)
         /\ NextItem(ready, job.nwatch)
      \/ /\ ~Exists(p) /\ finals' = finals
         /\ NextItem(added, job.nwatch + 1)
  BY DEF CheckFile, Ready, Added, SetList, NoReport
<1>3. /\ w \in Watchers /\ job.mode \in {"start", "event"}
      /\ info = [z \in Watchers |-> info[z]] /\ IsInfo(i)
      /\ job.mode = "event" => i.source = TRUE
      /\ AddsFor(job, w) /\ job.nwatch \in Nat /\ job.step = "file"
      /\ CalmFacts => finals[w] = 0 /\ Fresh(i, exists)
  BY <1>1, AddsCalm
<1>4. /\ job \in JobType /\ finals \in [Watchers -> Nat]
      /\ InfoType(i) /\ AddGood(i, p, Tail(job.todo), "file")
      /\ job.path \in Paths
  BY <1>1, AddFacts DEF JobFacts
<1>5. i.wds \in Nat /\ \A y \in i.wd_table : y[1] # i.wds
  BY <1>4, WdDirs DEF AddGood
<1>6. CASE /\ ~Exists(p) /\ finals' = finals
           /\ NextItem(added, job.nwatch + 1)
  <2> DEFINE v == i.wd_table \cup {x}
  <2> HIDE DEF i
  <2>1. added = MakeInfo(i.dir_table, v, i.kernel, i.queue, i.wds, i.source)
    <3>1. added = [i EXCEPT !.wd_table = v]
      OBVIOUS
    <3> HIDE DEF added, v
    <3> QED
      BY <1>3, <3>1 DEF MakeInfo, IsInfo
  <2> HIDE DEF added
  <2>2. /\ added.dir_table = i.dir_table /\ added.wd_table = v
        /\ added.kernel = i.kernel /\ added.queue = i.queue
        /\ added.wds = i.wds /\ added.source = i.source
    <3> HIDE DEF v
    <3> QED
      BY <2>1, MadeInfo
  <2>3. IsInfo(added)
    BY <2>1, <2>2 DEF IsInfo
  <2>4. ASSUME CalmFacts
        PROVE  Fresh(added, exists)
    <3>1. /\ i.queue \in Seq(FreshEvents(i.wd_table, i.wds, exists))
          /\ \A k \in DOMAIN i.queue : i.queue[k].wd # i.wds
      BY <1>3, <2>4 DEF CalmFacts, CalmGood, i
    <3>2. i.queue \in Seq(FreshEvents(v, i.wds, exists))
      BY <1>5, <3>1, NewWatch
    <3> HIDE DEF v
    <3> QED
      BY <2>2, <3>2 DEF Fresh
  <2>5. job.nwatch + 1 \in Nat /\ added.source = info[job.w].source
    BY <1>3, <2>2 DEF i
  <2> HIDE DEF v
  <2> QED
    BY <1>1, <1>6, <2>3, <2>4, <2>5, ItemShown
<1>7. CASE /\ Exists(p) /\ Report(w, Head(job.todo), final)
           /\ NextItem(ready, job.nwatch)
  <2> DEFINE gone == Event(i.wds, NoName)
  <2> DEFINE queue == Append(i.queue, gone)
  <2> DEFINE kernel == i.kernel \ {x}
  <2> HIDE DEF i
  <2>1. u = MakeInfo(i.dir_table, i.wd_table, kernel, queue, i.wds, i.source)
    <3>1. u = [i EXCEPT !.kernel = kernel, !.queue = queue]
      BY DEF Unwatched
    <3> HIDE DEF u, kernel, queue
    <3> QED
      BY <1>3, <3>1 DEF MakeInfo, IsInfo
  <2> HIDE DEF u, kernel, queue, ready
  <2>2. /\ u.dir_table = i.dir_table /\ u.wd_table = i.wd_table
        /\ u.kernel = kernel /\ u.queue = queue
        /\ u.wds = i.wds /\ u.source = i.source
    BY <2>1, MadeInfo
  <2>3. IsInfo(u)
    BY <2>1, <2>2 DEF IsInfo
  <2>4. /\ IsInfo(ready) /\ ready.source = i.source
        /\ Fresh(ready, exists) <=> Fresh(u, exists)
    BY <2>2, <2>3, ListSet DEF ready
  <2>5. job.mode = "event" => ready.source = TRUE
    BY <1>3, <2>4 DEF i
  <2>6. StepGood(w)
    BY <1>3, <1>4, <1>7, <2>4, <2>5, ItemRuns
  <2>7. ASSUME CalmFacts
        PROVE  CalmStep(w, finals'[w])
    <3>1. i.queue \in Seq(FreshEvents(i.wd_table, i.wds, exists))
      BY <1>3, <2>7 DEF Fresh, i
    <3>2. gone \in FreshEvents(i.wd_table, i.wds, exists)
      BY <1>5, GoneFresh DEF i
    <3>3. queue \in Seq(FreshEvents(i.wd_table, i.wds, exists))
      <4> HIDE DEF gone
      <4> QED
        BY <3>1, <3>2, AppendProperties DEF queue
    <3>4. Fresh(ready, exists)
      BY <2>2, <2>4, <3>3 DEF Fresh
    <3>5. job.mode = "start"
      <4>1. p # <<>>
        BY <1>4, FileWatchAssumption
      <4>2. p \in exists
        BY <1>7, <4>1 DEF Exists
      <4> QED
        BY <1>3, <2>7, <4>2 DEF CalmFacts, ItemsGood
    <3> DEFINE m == finals'[w]
    <3>6. m \in {0, 1} /\ (m = 1 => final)
      <4>1. finals[w] = 0 /\ Report(w, Head(job.todo), final)
        BY <1>3, <1>7, <2>7
      <4> HIDE DEF final, w
      <4>2. finals'[w] = IF final THEN finals[w] + 1 ELSE finals[w]
        BY <1>3, <1>4, <4>1, ReportType
      <4> QED
        BY <4>1, <4>2
    <3>7. m = 1 => job.nwatch = 0 /\ Len(job.todo) = 1
      BY <3>5, <3>6
    <3>8. Len(job.todo) = 1 => Tail(job.todo) = <<>>
      <4>1. job.todo \in Seq(Paths)
        BY <1>3, <1>4, JobFields
      <4> DEFINE rest == Tail(job.todo)
      <4>2. Len(job.todo) = 1 => rest \in Seq(Paths) /\ Len(rest) = 0
        BY <4>1
      <4> HIDE DEF rest
      <4>3. rest \in Seq(Paths) /\ Len(rest) = 0 => rest = <<>>
        BY EmptySeq
      <4> QED
        BY <4>2, <4>3 DEF rest
    <3> HIDE DEF m, final
    <3> QED
      BY <1>3, <1>4, <1>7, <2>4, <2>5, <2>7, <3>4, <3>5, <3>6, <3>7, <3>8,
         ItemCalm DEF CalmFacts, m
  <2> QED
    BY <2>6, <2>7 DEF StepShown
<1> QED
  BY <1>2, <1>6, <1>7

\* The watcher whose callback reads events; when all is calm and there are
\* watches left, its end was not reported.
LEMMA ReadCalm ==
    ASSUME JobFacts, job.mode = "read"
    PROVE  /\ job \in JobType /\ job.w \in Watchers /\ job.nwatch \in Nat
           /\ info = [w \in Watchers |-> info[w]]
           /\ InfoType(info[job.w]) /\ IdleGood(info[job.w])
           /\ info[job.w].source = TRUE /\ AtWork(job, job.w)
           /\ CalmFacts => /\ finals[job.w] \in {0, 1}
                           /\ finals[job.w] = 1 => job.nwatch = 0
                           /\ Fresh(info[job.w], exists)
<1>1. /\ job \in JobType /\ job.w \in Watchers /\ job.nwatch \in Nat
      /\ InfoType(info[job.w]) /\ IdleGood(info[job.w])
  BY ReadFacts DEF JobFacts
<1>2. info = [w \in Watchers |-> info[w]]
  BY DEF JobFacts, InfosGood
<1>3. AtWork(job, job.w)
  BY DEF AtWork
<1>4. info[job.w].source = TRUE
  BY <1>3 DEF JobFacts, RunGood
<1>5. CalmFacts => /\ finals[job.w] \in {0, 1}
                   /\ finals[job.w] = 1 => job.nwatch = 0
                   /\ Fresh(info[job.w], exists)
  BY <1>3 DEF CalmFacts, CalmGood, Fresh
<1> QED
  BY <1>1, <1>2, <1>3, <1>4, <1>5

\* A watcher whose end was reported is freed.
LEMMA CallbackReturnsCalm ==
    ASSUME JobFacts, CallbackReturns
    PROVE  StepShown
<1> DEFINE w == job.w
<1> DEFINE i == info[w]
<1> DEFINE j == IF job.nwatch = 0 THEN NewInfo ELSE SetQueue(i, <<>>)
<1>1. /\ job.mode = "read" /\ job' = NoJob /\ finals' = finals
      /\ info' = [info EXCEPT ![w] = j]
  BY DEF CallbackReturns, SetQueue, Freed, NoReport
<1>2. /\ w \in Watchers /\ info = [u \in Watchers |-> info[u]]
      /\ InfoType(i) /\ i.source = TRUE
      /\ CalmFacts => /\ finals[w] \in {0, 1}
                      /\ finals[w] = 1 => job.nwatch = 0
  BY <1>1, ReadCalm
<1>3. /\ j = NewInfo \/ j.source = TRUE
      /\ j.source = TRUE => job.nwatch # 0
      /\ j.queue = <<>>
  <2>1. CASE job.nwatch = 0
    BY <2>1, BlankFields
  <2>2. CASE job.nwatch # 0
    <3>1. j = SetQueue(i, <<>>)
      BY <2>2
    <3> HIDE DEF i, j
    <3>2. j.source = i.source /\ j.queue = <<>>
      BY <1>2, <3>1, QueueChanged
    <3> QED
      BY <1>2, <2>2, <3>2
  <2> QED
    BY <2>1, <2>2
<1> HIDE DEF j
<1>4. info'[w] = j /\ \A u \in Watchers \ {w} : info'[u] = info[u]
  BY <1>1, <1>2
<1>5. job'.mode = "none" /\ ~AddsFor(job', w)
  BY <1>1, NoJobFields
<1>6. StepGood(w)
  BY <1>3, <1>4, <1>5 DEF StepGood, RunGood, AtWork
<1>7. ASSUME CalmFacts
      PROVE  CalmStep(w, finals'[w])
  <2> DEFINE m == finals[w]
  <2>1. m \in {0, 1} /\ (m = 1 => j.source # TRUE)
    BY <1>2, <1>3, <1>7
  <2>2. j.queue \in Seq(FreshEvents(j.wd_table, j.wds, exists))
    BY <1>3
  <2> HIDE DEF m
  <2>3. CalmGood(j, job', w, m, exists)
    BY <1>5, <2>1, <2>2 DEF CalmGood, AtWork
  <2> QED
    BY <1>1, <1>4, <1>5, <2>3 DEF CalmStep, ItemsGood, m
<1> QED
  BY <1>6, <1>7 DEF StepShown

\* Events of no interest change nothing.
LEMMA IgnoreEventsCalm ==
    ASSUME JobFacts, IgnoreEvents
    PROVE  StepShown
<1> DEFINE w == job.w
<1> DEFINE i == info[w]
<1> DEFINE j == SetQueue(i, <<>>)
<1>1. /\ job.mode = "read" /\ job' = job /\ finals' = finals
      /\ info' = [info EXCEPT ![w] = j]
  BY DEF IgnoreEvents, SetQueue, NoReport
<1>2. /\ w \in Watchers /\ info = [u \in Watchers |-> info[u]]
      /\ InfoType(i) /\ i.source = TRUE
      /\ CalmFacts => /\ finals[w] \in {0, 1}
                      /\ finals[w] = 1 => job.nwatch = 0
  BY <1>1, ReadCalm
<1>3. j.source = TRUE /\ j.queue = <<>>
  BY <1>2, QueueChanged
<1> HIDE DEF j
<1>4. info'[w] = j /\ \A u \in Watchers \ {w} : info'[u] = info[u]
  BY <1>1, <1>2
<1>5. AtWork(job', w) /\ job'.mode = "read" /\ ~AddsFor(job', w)
  BY <1>1 DEF AtWork, AddsFor
<1>6. StepGood(w)
  BY <1>3, <1>4, <1>5 DEF StepGood, RunGood, AtWork
<1>7. ASSUME CalmFacts
      PROVE  CalmStep(w, finals'[w])
  <2> DEFINE m == finals[w]
  <2>1. m \in {0, 1} /\ (m = 1 => job'.nwatch = 0)
    BY <1>1, <1>2, <1>7
  <2>2. j.queue \in Seq(FreshEvents(j.wd_table, j.wds, exists))
    BY <1>3
  <2> HIDE DEF m
  <2>3. CalmGood(j, job', w, m, exists)
    BY <1>5, <2>1, <2>2 DEF CalmGood
  <2> QED
    BY <1>1, <1>4, <1>5, <2>3 DEF CalmStep, ItemsGood, m
<1> QED
  BY <1>6, <1>7 DEF StepShown

\* What is left of a watcher after an event has nothing but fresh events.
LEMMA TakenFresh ==
    ASSUME NEW i, InfoType(i), IdleGood(i), NEW wd, NEW d,
           HasWatch(i.wd_table, wd, d), NEW j, NEW s, NEW u,
           u = Left(i.wd_table, s, wd, d), IsTaken(i, wd, d, j, s, u), NEW ex
    PROVE  Fresh(j, ex)
<1> DEFINE gone == Event(wd, NoName)
<1>1. /\ j.wd_table = u /\ j.wds = i.wds
      /\ j.queue = IF Empty(s, d) THEN <<gone>> ELSE <<>>
  BY DEF IsTaken
<1>2. CASE ~Empty(s, d)
  <2>1. j.queue = <<>>
    BY <1>1, <1>2
  <2> QED
    BY <2>1 DEF Fresh
<1>3. CASE Empty(s, d)
  <2>1. u = i.wd_table \ {<<wd, d>>} /\ j.queue = <<gone>>
    BY <1>1, <1>3 DEF Left
  <2>2. \A x \in i.wd_table : x[1] = wd => x = <<wd, d>>
    <3> DEFINE y == <<wd, d>>
    <3>1. y \in i.wd_table /\ y[1] = wd
      BY DEF HasWatch
    <3> HIDE DEF y
    <3>2. \A x \in i.wd_table : x[1] = y[1] => x = y
      BY <3>1, Zenon DEF IdleGood, Tables, WatchesGood
    <3> QED
      BY <3>1, <3>2 DEF y
  <2>3. \A x \in u : x[1] # wd
    BY <2>1, <2>2
  <2>4. i.wds \in Nat /\ wd \in 0..i.wds
    BY WdDirs DEF HasWatch, InfoType, WatchType
  <2>5. gone \in FreshEvents(u, i.wds, ex)
    BY <2>3, <2>4, GoneFresh
  <2> HIDE DEF gone
  <2>6. <<gone>> \in Seq(FreshEvents(u, i.wds, ex))
    BY <2>5
  <2> QED
    BY <1>1, <2>1, <2>6 DEF Fresh
<1> QED
  BY <1>2, <1>3

\* The path that the first event of a fresh queue tells of exists, and
\* nothing below it does.
LEMMA NothingBelow ==
    ASSUME NEW i, NEW ex, Fresh(i, ex), i.queue # <<>>, NEW d,
           <<i.queue[1].wd, d>> \in i.wd_table
    PROVE  /\ Append(d, i.queue[1].name) \in ex
           /\ \A r \in ex : Dir(r) # Append(d, i.queue[1].name)
<1> DEFINE S == FreshEvents(i.wd_table, i.wds, ex)
<1>1. i.queue \in Seq(S)
  BY DEF Fresh
<1> HIDE DEF S
<1>2. i.queue[1] \in S
  BY <1>1
<1>3. \A x \in i.wd_table : x[1] = i.queue[1].wd =>
            /\ Append(x[2], i.queue[1].name) \in ex
            /\ \A r \in ex : Dir(r) # Append(x[2], i.queue[1].name)
  BY <1>2 DEF S, FreshEvents
<1> DEFINE y == <<i.queue[1].wd, d>>
<1>4. y[1] = i.queue[1].wd /\ y[2] = d /\ y \in i.wd_table
  OBVIOUS
<1> HIDE DEF y
<1> QED
  BY <1>3, <1>4

\* The end is told when the last watch goes, and the files that wait for a
\* directory that has appeared don't exist.
LEMMA TakeEventCalm ==
    ASSUME JobFacts, TakeEvent
    PROVE  StepShown
<1> DEFINE w == job.w
<1> DEFINE i == info[w]
<1> DEFINE e == i.queue[1]
<1> DEFINE P(d) == Append(d, e.name)
<1> DEFINE J(d) == Taken(i, e.wd, d, e.name)
<1> DEFINE N(d) == IF J(d).dir_table[d] = <<>> THEN job.nwatch - 1
                                              ELSE job.nwatch
<1> DEFINE L(d) == IF P(d) \in Dirs THEN J(d).dir_table[P(d)] ELSE <<>>
<1>1. job.mode = "read" /\ job.nwatch # 0 /\ Awaited(i) /\ Readable(i.queue)
  BY DEF TakeEvent
<1>2. PICK d \in EventDirs(i) :
        \/ /\ L(d) = <<>> /\ job' = ReadJob(w, N(d))
           /\ info' = [info EXCEPT ![w] = J(d)]
           /\ Report(w, P(d), N(d) = 0)
        \/ /\ L(d) # <<>>
           /\ job' = AddJob(w, "event",
                        [k \in DOMAIN L(d) |-> Append(P(d), L(d)[k])], N(d))
           /\ info' = [info EXCEPT ![w] = SetList(J(d), P(d), <<>>)]
           /\ finals' = finals
  BY DEF TakeEvent, SetList, NoReport
<1>3. /\ w \in Watchers /\ InfoType(i) /\ IdleGood(i)
      /\ info = [z \in Watchers |-> info[z]]
      /\ job.nwatch \in Nat /\ i.source = TRUE
      /\ CalmFacts => finals[w] = 0 /\ Fresh(i, exists)
  BY <1>1, ReadCalm
<1>4. finals \in [Watchers -> Nat]
  BY DEF JobFacts
<1> HIDE DEF i, w
<1>5. /\ d \in Dirs /\ <<e.wd, d>> \in i.wd_table
      /\ Contains(i.dir_table[d], e.name)
  BY <1>1, <1>3, EventWatch
<1>6. i.queue # <<>>
  BY <1>1 DEF Readable
<1> DEFINE wd == e.wd
<1> DEFINE name == e.name
<1> DEFINE s == Shortened(i.dir_table, d, name)
<1> DEFINE v == Left(i.wd_table, s, wd, d)
<1> DEFINE q == P(d)
<1> DEFINE j == J(d)
<1> DEFINE n == N(d)
<1> DEFINE list == L(d)
<1>7. CalmFacts => \A r \in exists : Dir(r) # q
  BY <1>3, <1>5, <1>6, NothingBelow
<1> HIDE DEF e
<1>8. HasWatch(i.wd_table, wd, d) /\ i.kernel = i.wd_table
  BY <1>3, <1>5 DEF HasWatch, IdleGood
<1>9. /\ IsTaken(i, wd, d, j, s, v) /\ v = Left(i.wd_table, s, wd, d)
  <2>1. MayTake(i, wd, d, name)
    BY <1>3, <1>5, <1>8 DEF MayTake
  <2>2. s = Shortened(i.dir_table, d, name) /\ j = Taken(i, wd, d, name)
    OBVIOUS
  <2> HIDE DEF s, j, wd, name
  <2> QED
    BY <2>1, <2>2, TakenInfo
<1>10. /\ InfoType(j) /\ j.source = i.source /\ j.dir_table = s
  <2> HIDE DEF s, j, wd, v
  <2> QED
    BY <1>9 DEF IsTaken
<1>11. CalmFacts => Fresh(j, exists)
  <2> HIDE DEF s, j, wd, v
  <2> QED
    BY <1>3, <1>8, <1>9, TakenFresh
<1>12. n \in Nat
  BY <1>1, <1>3
<1>13. CASE list = <<>>
  <2>1. /\ job' = ReadJob(w, n) /\ info' = [info EXCEPT ![w] = j]
        /\ Report(w, q, n = 0)
    BY <1>2, <1>13
  <2> HIDE DEF j, n, q
  <2>2. /\ job'.mode = "read" /\ job'.w = w /\ job'.nwatch = n
        /\ ~AddsFor(job', w)
    BY <1>3, <1>12, <2>1, ReadJobFields
  <2>3. info'[w] = j /\ \A u \in Watchers \ {w} : info'[u] = info[u]
    BY <1>3, <2>1
  <2>4. StepGood(w)
    BY <1>3, <1>10, <2>2, <2>3 DEF StepGood, RunGood, AtWork
  <2>5. ASSUME CalmFacts
        PROVE  CalmStep(w, finals'[w])
    <3> DEFINE m == finals'[w]
    <3> DEFINE final == n = 0
    <3>1. m \in {0, 1} /\ (m = 1 => n = 0)
      <4>1. finals[w] = 0 /\ Report(w, q, final)
        BY <1>3, <2>1, <2>5
      <4> HIDE DEF final
      <4>2. finals'[w] = IF final THEN finals[w] + 1 ELSE finals[w]
        BY <1>3, <1>4, <4>1, ReportType
      <4> QED
        BY <4>1, <4>2 DEF final
    <3> HIDE DEF m
    <3>2. CalmGood(j, job', w, m, exists)
      BY <1>11, <2>2, <2>5, <3>1 DEF CalmGood, Fresh, AtWork
    <3> QED
      BY <2>2, <2>3, <3>2 DEF CalmStep, ItemsGood, m
  <2> QED
    BY <2>4, <2>5 DEF StepShown, w
<1>14. CASE list # <<>>
  <2> DEFINE items == [k \in DOMAIN list |-> Append(q, list[k])]
  <2> DEFINE z == SetList(j, q, <<>>)
  <2>1. /\ job' = AddJob(w, "event", items, n)
        /\ info' = [info EXCEPT ![w] = z] /\ finals' = finals
    BY <1>2, <1>14
  <2>2. q \in Dirs /\ list = s[q]
    BY <1>10, <1>14
  <2>3. TableType(s)
    BY <1>10 DEF InfoType
  <2> HIDE DEF j, n, q, list, s
  <2>4. s[q] \in Seq(Names) /\ s \in [Dirs -> Seq(Names)]
    BY <2>2, <2>3 DEF TableType
  <2>5. \A k \in DOMAIN list : list[k] \in Names /\ Append(q, list[k]) \in Paths
    BY <2>2, <2>3, TableSlots DEF Slot, Places
  <2>6. q \in Seq(Names)
    BY <2>2, DirSeq
  <2>7. items \in Seq(Paths) /\ items # <<>> /\ DOMAIN items = DOMAIN list
    <3>1. DOMAIN list = 1..Len(list) /\ Len(list) \in Nat
      BY <2>2, <2>4
    <3>2. items \in [1..Len(list) -> Paths]
      BY <2>5, <3>1
    <3>3. Len(list) # 0
      BY <2>2, <2>4, <1>14
    <3>4. items \in Seq(Paths)
      BY <3>1, <3>2, SeqDef
    <3>5. DOMAIN items = DOMAIN list
      OBVIOUS
    <3>6. 1 \in DOMAIN items
      BY <3>1, <3>3, <3>5
    <3> HIDE DEF items
    <3>7. items # <<>>
      BY <3>6
    <3> QED
      BY <3>4, <3>5, <3>7
  <2>8. \A k \in DOMAIN items : Dir(items[k]) = q
    BY <2>5, <2>6, <2>7, AppendDir
  <2> HIDE DEF items
  <2>9. Head(items) = items[1] /\ 1 \in DOMAIN items
    BY <2>7
  <2>10. /\ job'.mode = "event" /\ job'.w = w /\ job'.path = Head(items)
         /\ job'.todo = items /\ job'.step = "dir"
    BY <1>3, <1>12, <2>1, <2>7, AddJobFields
  <2>11. z.source = TRUE /\ (Fresh(z, exists) <=> Fresh(j, exists))
    <3>1. IsInfo(j)
      BY <1>10 DEF InfoType, IsInfo
    <3> QED
      BY <1>3, <1>10, <3>1, ListSet
  <2> HIDE DEF z
  <2>12. info'[w] = z /\ \A u \in Watchers \ {w} : info'[u] = info[u]
    BY <1>3, <2>1
  <2>13. StepGood(w)
    BY <2>10, <2>11, <2>12 DEF StepGood, RunGood, AtWork
  <2>14. ASSUME CalmFacts
         PROVE  CalmStep(w, finals'[w])
    <3>1. \A k \in DOMAIN items : items[k] \notin exists
      BY <1>7, <2>8, <2>14
    <3>2. ItemsGood(job', exists)
      BY <2>9, <2>10, <3>1 DEF ItemsGood
    <3>3. CalmGood(z, job', w, 0, exists)
      BY <1>11, <2>10, <2>11, <2>14 DEF CalmGood, Fresh
    <3>4. finals'[w] = 0
      BY <1>3, <2>1, <2>14
    <3> QED
      BY <2>12, <3>2, <3>3, <3>4 DEF CalmStep
  <2> QED
    BY <2>13, <2>14 DEF StepShown, w
<1> QED
  BY <1>13, <1>14

\* Whichever step the watcher takes.
LEMMA JobStepCalm ==
    ASSUME JobFacts, JobStep
    PROVE  StepShown
<1>1. CASE AddToList
  BY <1>1, AddToListCalm
<1>2. CASE AddList
  BY <1>2, AddListCalm
<1>3. CASE AddWatch
  BY <1>3, AddWatchCalm
<1>4. CASE CheckFile
  BY <1>4, CheckFileCalm
<1>5. CASE CallbackReturns
  BY <1>5, CallbackReturnsCalm
<1>6. CASE IgnoreEvents
  BY <1>6, IgnoreEventsCalm
<1>7. CASE TakeEvent
  BY <1>7, TakeEventCalm
<1> QED
  BY <1>1, <1>2, <1>3, <1>4, <1>5, <1>6, <1>7 DEF JobStep

-----------------------------------------------------------------------------
(* Files that appear.                                                      *)

\* The events that the watches in kernel give rise to when d gets a name.
NewEvents(kernel, d, name) ==
    {Event(x[1], name) : x \in {y \in kernel : y[2] = d}}

\* They are queued one after the other; no watch, no event.
LEMMA EventsQueued ==
    ASSUME NEW kernel, IsFiniteSet(kernel), NEW d, NEW name
    PROVE  /\ SetToSeq(NewEvents(kernel, d, name))
                    \in Seq(NewEvents(kernel, d, name))
           /\ kernel = {} => SetToSeq(NewEvents(kernel, d, name)) = <<>>
<1> DEFINE K == {y \in kernel : y[2] = d}
<1> DEFINE S == NewEvents(kernel, d, name)
<1> DEFINE f == [x \in K |-> Event(x[1], name)]
<1>1. IsFiniteSet(K)
  BY FS_Subset
<1>2. f \in Surjection(K, S)
  BY DEF NewEvents, Surjection
<1> HIDE DEF f, K
<1>3. IsFiniteSet(S)
  BY <1>1, <1>2, FS_Surjection
<1>4. kernel = {} => S = {}
  BY DEF NewEvents
<1> HIDE DEF S
<1> DEFINE n == Cardinality(S)
<1>5. n \in Nat /\ ExistsBijection(1..n, S)
  BY <1>3, FS_CardinalityType
<1>6. S = {} => n = 0
  BY FS_EmptySet
<1> HIDE DEF n
<1>7. \E g \in [1..n -> S] : IsInjective(g)
  BY <1>5 DEF ExistsBijection, Bijection, Injection
<1> DEFINE q == SetToSeq(S)
<1>8. q \in [1..n -> S]
  BY <1>7 DEF SetToSeq, n
<1> HIDE DEF q
<1>9. q \in Seq(S)
  BY <1>5, <1>8, SeqDef
<1>10. S = {} => q = <<>>
  <2> SUFFICES ASSUME S = {}
               PROVE  q = <<>>
    OBVIOUS
  <2>1. DOMAIN q = 1..0
    BY <1>6, <1>8
  <2>2. Len(q) = 0
    BY <1>9, <2>1
  <2> QED
    BY <1>9, <2>2, EmptySeq
<1> QED
  BY <1>4, <1>9, <1>10 DEF q, S

\* A blank watcher stays blank.
LEMMA BlankStays ==
    ASSUME NEW i, i = NewInfo, NEW d, NEW name, NEW j,
           j = SetQueue(i, i.queue \o SetToSeq(NewEvents(i.kernel, d, name)))
    PROVE  j = NewInfo
<1> DEFINE q == SetToSeq(NewEvents(i.kernel, d, name))
<1>1. i.kernel = {} /\ i.queue = <<>>
  BY BlankFields
<1>2. q = <<>>
  BY <1>1, FS_EmptySet, EventsQueued
<1> HIDE DEF q
<1>3. i.queue \o q = <<>>
  BY <1>1, <1>2
<1>4. j = SetQueue(NewInfo, <<>>)
  BY <1>3 DEF q
<1>5. SetQueue(NewInfo, <<>>) = NewInfo
  <2> DEFINE n == NewInfo
  <2>1. /\ n = MakeInfo(n.dir_table, n.wd_table, n.kernel, n.queue, n.wds,
                        n.source)
        /\ n.queue = <<>>
    BY FreedGood, BlankFields DEF InfoType
  <2> HIDE DEF n
  <2>2. SetQueue(n, n.queue) = n
    BY <2>1 DEF SetQueue, MakeInfo
  <2> QED
    BY <2>1, <2>2 DEF n
<1> QED
  BY <1>4, <1>5

\* When all is calm, p appears with nothing below it and is news to a watcher
\* with an empty queue.
LEMMA NewsFresh ==
    ASSUME NEW i, InfoType(i), IdleGood(i), i.queue = <<>>,
           NEW p \in Paths, ~Exists(p), Exists(Dir(p)),
           \A r \in exists : Exists(Dir(r)), NEW j,
           j = SetQueue(i, i.queue \o
                    SetToSeq(NewEvents(i.kernel, Dir(p), Name(p))))
    PROVE  Fresh(j, exists \cup {p})
<1> DEFINE S == NewEvents(i.kernel, Dir(p), Name(p))
<1> DEFINE q == SetToSeq(S)
<1> DEFINE T == FreshEvents(i.wd_table, i.wds, exists \cup {p})
<1>1. /\ i.kernel = i.wd_table /\ IsFiniteSet(i.kernel) /\ i.wds \in Nat
      /\ \A x \in i.wd_table : x[1] \in 1..i.wds
  BY WdDirs DEF IdleGood
<1>2. q \in Seq(S)
  BY <1>1, EventsQueued
<1>3. \A r \in exists \cup {p} : Dir(r) # p
  BY PathDir DEF Exists
<1>4. ASSUME NEW e \in S
      PROVE  e \in T
  <2>1. PICK y \in i.wd_table : y[2] = Dir(p) /\ e = Event(y[1], Name(p))
    BY <1>1, <1>4 DEF NewEvents
  <2>2. e.wd = y[1] /\ e.name = Name(p)
    BY <2>1 DEF Event
  <2>3. e \in [wd : 0..i.wds, name : Names \cup {NoName}]
    <3>1. Name(p) \in Names /\ y[1] \in 0..i.wds
      BY <1>1, PathDir
    <3> QED
      BY <2>1, <3>1 DEF Event
  <2>4. \A x \in i.wd_table : x[1] = y[1] => x = y
    BY Zenon DEF IdleGood, Tables, WatchesGood
  <2>5. Append(Dir(p), Name(p)) = p
    BY PathDir
  <2>6. \A x \in i.wd_table : x[1] = e.wd => Append(x[2], e.name) = p
    BY <2>1, <2>2, <2>4, <2>5
  <2> QED
    BY <1>3, <2>3, <2>6 DEF FreshEvents
<1> HIDE DEF S, T
<1>5. q \in Seq(T)
  BY <1>2, <1>4, SeqMonotonic
<1> HIDE DEF q
<1>6. i.queue \o q = q
  BY <1>5
<1>7. j.queue = q /\ j.wd_table = i.wd_table /\ j.wds = i.wds
  <2>1. j = SetQueue(i, q)
    BY <1>6 DEF q, S
  <2> QED
    BY <2>1, QueueChanged
<1> QED
  BY <1>5, <1>7 DEF Fresh, T

-----------------------------------------------------------------------------
(* The end of a wait is reported once.                                     *)

\* What the invariant says of one watcher.
OneGood(w) ==
    /\ RunGood(info[w], job, w)
    /\ launcher.line <= w =>
            finals[w] = 0 /\ ~AtWork(job, w) /\ info[w] = NewInfo
    /\ calm => CalmGood(info[w], job, w, finals[w], exists)

\* The invariant, watcher by watcher.
LEMMA OnesGood ==
    /\ (RunInv /\ CalmInv) <=>
            /\ \A w \in Watchers : OneGood(w)
            /\ calm => ItemsGood(job, exists)
BY DEF RunInv, CalmInv, OneGood

\* A watcher that neither was nor gets at work, and that keeps its state.
LEMMA BystanderGood ==
    ASSUME NEW w \in Watchers, OneGood(w), ~AtWork(job, w), ~AtWork(job, w)',
           info'[w] = info[w], finals'[w] = finals[w], exists' = exists,
           calm' = calm, launcher'.line <= w => launcher.line <= w
    PROVE  OneGood(w)'
<1>1. ~AddsFor(job', w)
  BY DEF AtWork, AddsFor
<1>2. RunGood(info'[w], job', w)
  BY DEF OneGood, RunGood
<1>3. /\ launcher'.line <= w =>
            finals'[w] = 0 /\ ~AtWork(job', w) /\ info'[w] = NewInfo
  BY DEF OneGood
<1>4. calm' => CalmGood(info'[w], job', w, finals'[w], exists')
  BY <1>1 DEF OneGood, CalmGood
<1> QED
  BY <1>2, <1>3, <1>4 DEF OneGood

\* A step that the watchers take no part in.
LEMMA OthersStep ==
    ASSUME RunInv, CalmInv, UNCHANGED watchVars, calm' = calm,
           \A w \in Watchers : launcher'.line <= w => launcher.line <= w
    PROVE  (RunInv /\ CalmInv)'
BY DEF RunInv, CalmInv, watchVars

\* The invariant holds when the launcher starts.
LEMMA InitCalm == LauncherInit => RunInv /\ CalmInv
<1> SUFFICES ASSUME LauncherInit
             PROVE  RunInv /\ CalmInv
  OBVIOUS
<1>1. /\ job = NoJob /\ finals = [w \in Watchers |-> 0]
      /\ info = [w \in Watchers |-> NewInfo]
  BY DEF LauncherInit, WatchInit
<1>2. /\ job.mode = "none"
      /\ \A w \in Watchers : ~AtWork(job, w) /\ ~AddsFor(job, w)
  BY <1>1, NoJobFields DEF AtWork
<1>3. ASSUME NEW w \in Watchers
      PROVE  /\ info[w] = NewInfo /\ finals[w] = 0
             /\ RunGood(info[w], job, w)
             /\ CalmGood(info[w], job, w, finals[w], exists)
  <2>1. info[w] = NewInfo /\ finals[w] = 0
    BY <1>1
  <2>2. NewInfo.queue \in
            Seq(FreshEvents(NewInfo.wd_table, NewInfo.wds, exists))
    BY BlankFields DEF Fresh
  <2> QED
    BY <1>2, <2>1, <2>2 DEF RunGood, CalmGood
<1> QED
  BY <1>2, <1>3 DEF RunInv, CalmInv, ItemsGood

\* A W line starts a watcher that was not started before.
LEMMA WaitCalm ==
    ASSUME WatchInv, ProcessInv, RunInv, CalmInv, Wait
    PROVE  (RunInv /\ CalmInv)'
<1> DEFINE l == launcher.line
<1>1. /\ l \in Watchers /\ job = NoJob /\ info' = info /\ exists' = exists
      /\ finals' = finals /\ calm' = calm
      /\ job' = AddJob(l, "start", Line.files, 0) \/ job' = NoJob
  BY DEF Wait, StartWatch, NoReport
<1>2. Line.files \in Seq(Paths) /\ Line.files # <<>>
  <2>1. Line.files \in Seq(Paths \ Dirs) /\ Line.files # <<>>
    BY <1>1, LauncherAssumption DEF Line
  <2> QED
    BY <2>1, SeqMonotonic
<1>3. launcher'.line = l + 1 /\ l \in Nat /\ Watchers \subseteq Nat
  BY LauncherAssumption DEF Wait, ProcessInv, LauncherType
<1>4. job.mode = "none" /\ \A w \in Watchers : ~AtWork(job, w)
  BY <1>1, NoJobFields DEF AtWork
<1>5. CASE job' = NoJob
  BY <1>1, <1>3, <1>5, OthersStep DEF RunInv, CalmInv
<1>6. CASE job' = AddJob(l, "start", Line.files, 0)
  <2>1. /\ job'.mode = "start" /\ job'.w = l /\ job'.step = "dir"
        /\ job'.todo = Line.files /\ job'.path = Head(Line.files)
    <3> DEFINE z == 0
    <3>1. z \in Nat /\ "start" \in {"start", "event"}
      OBVIOUS
    <3> HIDE DEF z
    <3>2. job' = AddJob(l, "start", Line.files, z)
      BY <1>6 DEF z
    <3> QED
      BY <1>1, <1>2, <3>1, <3>2, AddJobFields
  <2>2. ASSUME NEW w \in Watchers
        PROVE  OneGood(w)'
    <3>1. OneGood(w)
      BY OnesGood
    <3>2. CASE w # l
      <4>1. ~AtWork(job', w)
        BY <2>1, <3>2 DEF AtWork
      <4>2. launcher'.line <= w => launcher.line <= w
        BY <1>3
      <4> QED
        BY <1>1, <1>4, <3>1, <4>1, <4>2, BystanderGood
    <3>3. CASE w = l
      <4>1. finals[w] = 0 /\ ~(launcher'.line <= w)
        BY <1>3, <3>1, <3>3 DEF OneGood
      <4>2. RunGood(info'[w], job', w)
        BY <2>1, <3>3 DEF RunGood, AtWork
      <4>3. calm' => CalmGood(info'[w], job', w, finals'[w], exists')
        BY <1>1, <2>1, <3>1, <4>1 DEF OneGood, CalmGood
      <4> QED
        BY <4>1, <4>2, <4>3 DEF OneGood
    <3> QED
      BY <3>2, <3>3
  <2>3. ItemsGood(job', exists')
    <3>1. Line.files[1] = Head(Line.files)
      BY <1>2
    <3>2. \A k \in DOMAIN Line.files : Line.files[k] \in Files(l)
      BY DEF Files, Line
    <3> QED
      BY <2>1, <3>1, <3>2 DEF ItemsGood
  <2> QED
    BY <2>2, <2>3, OnesGood DEF RunInv, CalmInv, OneGood
<1> QED
  BY <1>1, <1>5, <1>6

\* The callback of a watcher whose end was not reported starts.
LEMMA FilesChangedCalm ==
    ASSUME WatchInv, ProcessInv, RunInv, CalmInv,
           NEW w \in Watchers, FilesChanged(w)
    PROVE  (RunInv /\ CalmInv)'
<1> DEFINE n == Cardinality(info[w].wd_table)
<1>1. /\ job = NoJob /\ info' = info /\ exists' = exists /\ finals' = finals
      /\ calm' = calm /\ launcher' = launcher /\ job' = ReadJob(w, n)
      /\ info[w].source
  BY DEF FilesChanged, WatcherCallback, NoReport, launcherVars, EventsReady
<1>2. n \in Nat
  BY WdDirs, FS_CardinalityType DEF InfosGood, WatchInv
<1> HIDE DEF n
<1>3. info[w].source = TRUE
  BY <1>1, WdDirs DEF WatchInv, InfosGood
<1>4. job'.mode = "read" /\ job'.w = w /\ ~AddsFor(job', w)
  BY <1>1, <1>2, ReadJobFields
<1>5. job.mode = "none" /\ \A u \in Watchers : ~AtWork(job, u)
  BY <1>1, NoJobFields DEF AtWork
<1>6. ASSUME NEW u \in Watchers
      PROVE  OneGood(u)'
  <2>1. OneGood(u)
    BY OnesGood
  <2>2. CASE u # w
    <3>1. ~AtWork(job', u)
      BY <1>4, <2>2 DEF AtWork
    <3> QED
      BY <1>1, <1>5, <2>1, <3>1, BystanderGood
  <2>3. CASE u = w
    <3>1. RunGood(info'[u], job', u)
      BY <1>1, <1>3, <1>4, <2>3 DEF RunGood
    <3>2. ~(launcher'.line <= u)
      <4>1. info[u] # NewInfo
        BY <1>3, <2>3, BlankFields
      <4> QED
        BY <1>1, <2>1, <4>1 DEF OneGood
    <3>3. calm' => CalmGood(info'[u], job', u, finals'[u], exists')
      BY <1>1, <1>3, <1>4, <1>5, <2>1, <2>3 DEF OneGood, CalmGood
    <3> QED
      BY <3>1, <3>2, <3>3 DEF OneGood
  <2> QED
    BY <2>2, <2>3
<1>7. ItemsGood(job', exists')
  BY <1>4 DEF ItemsGood
<1> QED
  BY <1>6, <1>7 DEF RunInv, CalmInv, OneGood

\* What a step of the watcher means to the launcher.
LEMMA LineStays ==
    ASSUME ProcessInv, WatchStep
    PROVE  launcher'.line = launcher.line
<1> DEFINE w == job.w
<1> DEFINE l == SocketReady(launcher, w, finals'[w] - finals[w])
<1>1. \/ launcher' = [l EXCEPT !.socket_watcher = w, !.busy = FALSE]
      \/ launcher' = l
  BY Zenon DEF WatchStep
<1> DEFINE idles == launcher.idles + (finals'[w] - finals[w])
<1>2. \/ l = launcher
      \/ l = [launcher EXCEPT !.socket_watcher = 0, !.idles = idles]
  BY DEF SocketReady
<1> HIDE DEF l, idles
<1>3. l.line = launcher.line /\ DOMAIN l = DOMAIN launcher
  BY <1>2 DEF ProcessInv, LauncherType
<1>4. "line" \in DOMAIN launcher
  BY DEF ProcessInv, LauncherType
<1> QED
  BY <1>1, <1>3, <1>4

\* A step of the watcher at work leaves the others alone.
LEMMA WatchStepCalm ==
    ASSUME WatchInv, ProcessInv, RunInv, CalmInv, WatchStep
    PROVE  (RunInv /\ CalmInv)'
<1> DEFINE w == job.w
<1>1. JobStep /\ calm' = calm /\ job # NoJob
  BY DEF WatchStep
<1>2. /\ job \in JobType /\ finals \in [Watchers -> Nat]
      /\ InfosGood(info, job)
  BY DEF WatchInv
<1>3. /\ exists' = exists /\ w \in Watchers
      /\ \A u \in Watchers \ {w} : finals'[u] = finals[u]
  BY <1>1, <1>2, JobStepFinals
<1>4. job.mode # "none"
  BY <1>1, <1>2, JobFields
<1>5. JobFacts
  BY <1>2, <1>3, <1>4 DEF JobFacts, RunInv
<1>6. StepShown
  BY <1>1, <1>5, JobStepCalm
<1>7. launcher'.line = launcher.line
  BY LineStays
<1>8. calm => CalmFacts
  BY <1>3 DEF CalmInv, CalmFacts
<1>9. /\ \A u \in Watchers \ {w} : info'[u] = info[u]
      /\ job'.mode = "none" \/ job'.w = w
      /\ RunGood(info'[w], job', w)
      /\ calm => /\ ItemsGood(job', exists)
                 /\ CalmGood(info'[w], job', w, finals'[w], exists)
  BY <1>6, <1>8 DEF StepShown, StepGood, CalmStep
<1>10. ASSUME NEW u \in Watchers
       PROVE  OneGood(u)'
  <2>1. OneGood(u)
    BY OnesGood
  <2>2. CASE u # w
    <3>1. ~AtWork(job, u) /\ ~AtWork(job', u)
      BY <1>9, <2>2 DEF AtWork
    <3> QED
      BY <1>1, <1>3, <1>7, <1>9, <2>1, <2>2, <3>1, BystanderGood
  <2>3. CASE u = w
    <3>1. AtWork(job, u)
      BY <1>4, <2>3 DEF AtWork
    <3>2. ~(launcher'.line <= u)
      BY <1>7, <2>1, <3>1 DEF OneGood
    <3> QED
      BY <1>1, <1>3, <1>9, <2>3, <3>2 DEF OneGood
  <2> QED
    BY <2>2, <2>3
<1>11. calm' => ItemsGood(job', exists')
  BY <1>1, <1>3, <1>9
<1> QED
  BY <1>10, <1>11 DEF RunInv, CalmInv, OneGood

\* A file appears while the launcher is at rest.
LEMMA FileAppearsCalm ==
    ASSUME WatchInv, ProcessInv, RunInv, CalmInv,
           NEW p \in Paths, FileAppears(p)
    PROVE  (RunInv /\ CalmInv)'
<1> DEFINE Q(w) == info[w].queue \o
                    SetToSeq(NewEvents(info[w].kernel, Dir(p), Name(p)))
<1>1. /\ ~Exists(p) /\ Exists(Dir(p)) /\ exists' = exists \cup {p}
      /\ job' = job /\ finals' = finals /\ calm' = calm
      /\ launcher' = launcher /\ (calm => AtRest)
      /\ info' = [w \in Watchers |-> SetQueue(info[w], Q(w))]
  BY DEF FileAppears, Appears, NoReport, launcherVars, SetQueue, NewEvents
<1> HIDE DEF Q
<1>2. ASSUME NEW w \in Watchers
      PROVE  OneGood(w)'
  <2> DEFINE i == info[w]
  <2> DEFINE j == SetQueue(i, Q(w))
  <2>1. OneGood(w) /\ info'[w] = j
    BY <1>1, OnesGood
  <2>2. InfoType(i) /\ WatcherGood(i, job, w)
    BY DEF WatchInv, InfosGood
  <2>3. i = NewInfo => j = NewInfo
    BY BlankStays DEF Q
  <2>4. InfoType(j) /\ j.source = i.source
    BY <2>2, QueueChanged
  <2>5. RunGood(j, job, w)
    BY <2>1, <2>3, <2>4 DEF OneGood, RunGood
  <2>6. ASSUME calm
        PROVE  CalmGood(j, job, w, finals[w], exists \cup {p})
    <3>1. /\ job = NoJob /\ ~EventsReady(w)
      BY <1>1, <2>6 DEF AtRest, InLoop, NothingElse
    <3>2. ~AtWork(job, w) /\ ~AddsFor(job, w)
      BY <3>1, NoJobFields DEF AtWork
    <3>3. IdleGood(i)
      BY <2>2, <3>2 DEF WatcherGood
    <3>4. i.queue = <<>>
      <4>1. CASE i = NewInfo
        BY <4>1, BlankFields
      <4>2. CASE i # NewInfo
        BY <2>1, <3>1, <3>2, <4>2 DEF OneGood, RunGood, EventsReady
      <4> QED
        BY <4>1, <4>2
    <3>5. Fresh(j, exists \cup {p})
      <4>1. \A r \in exists : Exists(Dir(r))
        BY DEF WatchInv
      <4> HIDE DEF i
      <4>2. j = SetQueue(i, i.queue \o
                    SetToSeq(NewEvents(i.kernel, Dir(p), Name(p))))
        BY DEF Q, i
      <4> HIDE DEF j
      <4> QED
        BY <1>1, <2>2, <3>3, <3>4, <4>1, <4>2, NewsFresh
    <3> HIDE DEF i, j
    <3>6. CalmGood(i, job, w, finals[w], exists)
      BY <2>1, <2>6 DEF OneGood, i
    <3> QED
      BY <2>4, <3>2, <3>5, <3>6 DEF CalmGood, Fresh
  <2>7. launcher.line <= w => finals[w] = 0 /\ ~AtWork(job, w) /\ j = NewInfo
    BY <2>1, <2>3 DEF OneGood
  <2> HIDE DEF i, j
  <2> QED
    BY <1>1, <2>1, <2>5, <2>6, <2>7 DEF OneGood
<1>3. calm' => ItemsGood(job', exists')
  BY <1>1, NoJobFields DEF AtRest, InLoop, ItemsGood
<1> QED
  BY <1>2, <1>3 DEF RunInv, CalmInv, OneGood

\* Every step of the launcher keeps the invariant.
LEMMA CalmStepInv ==
    ASSUME WatchInv, ProcessInv, RunInv, CalmInv, [LauncherNext]_vars
    PROVE  (RunInv /\ CalmInv)'
<1>1. Watchers \subseteq Nat /\ launcher.line \in Nat
  BY LauncherAssumption DEF ProcessInv, LauncherType
<1>2. CASE Launch \/ CloseScript \/ ContinueLaunch
  <2>1. /\ UNCHANGED watchVars /\ calm' = calm
        /\ launcher'.line \in {launcher.line, launcher.line + 1}
    BY <1>2 DEF Launch, CloseScript, ContinueLaunch, ProcessInv, LauncherType
  <2>2. \A w \in Watchers : launcher'.line <= w => launcher.line <= w
    BY <1>1, <2>1
  <2> QED
    BY <2>1, <2>2, OthersStep
<1>3. CASE Wait
  BY <1>3, WaitCalm
<1>4. CASE WatchStep
  BY <1>4, WatchStepCalm
<1>5. ASSUME NEW w \in Watchers, FilesChanged(w)
      PROVE  (RunInv /\ CalmInv)'
  BY <1>5, FilesChangedCalm
<1>6. ASSUME NEW l \in Lines, ChildDown(l) \/ CommandEnds(l) \/ CloneReads(l)
      PROVE  (RunInv /\ CalmInv)'
  <2>1. /\ UNCHANGED watchVars /\ calm' = calm
        /\ launcher'.line = launcher.line
    BY <1>6 DEF ChildDown, CommandEnds, CloneReads, ProcessInv, LauncherType
  <2> QED
    BY <2>1, OthersStep
<1>7. ASSUME NEW p \in Paths, FileAppears(p)
      PROVE  (RunInv /\ CalmInv)'
  BY <1>7, FileAppearsCalm
<1>8. CASE UNCHANGED vars
  <2>1. UNCHANGED watchVars /\ calm' = calm /\ launcher' = launcher
    BY <1>8 DEF vars, launcherVars
  <2> QED
    BY <2>1, OthersStep
<1> QED
  BY <1>2, <1>3, <1>4, <1>5, <1>6, <1>7, <1>8 DEF LauncherNext

\* As long as files appear only while the launcher is at rest, the end of a
\* wait is reported at most once, for every script, every tree of paths, any
\* number of files in a directory and any failure of inotify_add_watch: the
\* files that wait for a directory aren't there when it appears, so that
\* _inotify_watcher_cb never reports one of them before the others count.
THEOREM EndReportedOnce == LauncherSpec => []CalmFinalOnce
<1>1. LauncherInit => WatchInv /\ ProcessInv /\ RunInv /\ CalmInv
  BY InitGood, InitCalm
<1>2. /\ (WatchInv /\ ProcessInv /\ RunInv /\ CalmInv)
      /\ [LauncherNext]_vars
      => (WatchInv /\ ProcessInv /\ RunInv /\ CalmInv)'
  BY WatchStepInv, ProcessStepInv, CalmStepInv
<1>3. ASSUME CalmInv
      PROVE  CalmFinalOnce
  <2>1. ASSUME calm, NEW w \in Watchers
        PROVE  finals[w] <= 1
    <3>1. finals[w] \in {0, 1}
      BY <1>3, <2>1 DEF CalmInv, CalmGood
    <3> QED
      BY <3>1
  <2> QED
    BY <2>1 DEF CalmFinalOnce
<1> QED
  BY <1>1, <1>2, <1>3, PTL DEF LauncherSpec

-----------------------------------------------------------------------------
(***************************************************************************)
(* A wait whose files appear one at a time ends when all of them exist.    *)
(***************************************************************************)

Elems(q) == {q[k] : k \in DOMAIN q}

\* Nothing that the line of a watcher names is lost: F are its files, S the
\* paths that are being added.  A file exists, is being added or is on a list,
\* and a directory with a list is watched, or is in one of these places itself.
OnTheWay(t, v, F, ex, S) ==
    /\ \A f \in F : f \in ex \/ f \in S \/ Awaits(t, f)
    /\ \A q \in Dirs : ~Empty(t, q) => Watched(v, q) \/ Awaits(t, q) \/ q \in S

\* A path that goes on the list of its directory passes the duty on to the
\* directory, if that had no list before.
LEMMA ListedOnWay ==
    ASSUME NEW t \in [Dirs -> Seq(Names)], NEW p \in Paths, NEW s,
           s = Listed(t, p), NEW v, NEW F, NEW ex, NEW S,
           OnTheWay(t, v, F, ex, S \cup {p})
    PROVE  /\ OnTheWay(s, v, F, ex, S \cup {Dir(p)})
           /\ ~Empty(t, Dir(p)) => OnTheWay(s, v, F, ex, S)
<1> DEFINE d == Dir(p)
<1>1. /\ d \in Dirs /\ Name(p) \in Names /\ Append(d, Name(p)) = p
  BY PathDir
<1>2. Grown(t, s, d, NewPlace(t, d), p)
  BY ListAppended
<1>3. Awaits(s, p)
  <2> DEFINE l == t[d]
  <2>1. l \in Seq(Names)
    BY <1>1
  <2>2. s[d] = Append(l, Name(p))
    BY <1>1 DEF Listed
  <2> HIDE DEF l
  <2>3. Len(l) + 1 \in DOMAIN s[d] /\ s[d][Len(l) + 1] = Name(p)
    BY <1>1, <2>1, <2>2, AppendProperties
  <2> QED
    BY <1>1, <2>3, Zenon DEF Awaits, Places, Slot
<1> HIDE DEF d
<1>4. \A q : Awaits(t, q) => Awaits(s, q)
  BY <1>2, Zenon DEF Grown, Awaits
<1>5. \A e \in Dirs : ~Empty(s, e) => ~Empty(t, e) \/ e = d
  BY <1>2, Zenon DEF Grown
<1>6. OnTheWay(s, v, F, ex, S \cup {d})
  BY <1>3, <1>4, <1>5 DEF OnTheWay
<1>7. ~Empty(t, d) => OnTheWay(s, v, F, ex, S)
  BY <1>3, <1>4, <1>5 DEF OnTheWay
<1> QED
  BY <1>6, <1>7 DEF d

\* A directory that is watched need not be added.
LEMMA WatchOnWay ==
    ASSUME NEW t, NEW v, NEW F, NEW ex, NEW S, NEW d \in Dirs, NEW n,
           F \cap Dirs = {}, OnTheWay(t, v, F, ex, S \cup {d})
    PROVE  OnTheWay(t, v \cup {<<n, d>>}, F, ex, S)
<1> DEFINE u == v \cup {<<n, d>>}
<1>1. <<n, d>>[2] = d /\ <<n, d>> \in u /\ v \subseteq u
  OBVIOUS
<1> HIDE DEF u
<1>2. Watched(u, d) /\ \A q : Watched(v, q) => Watched(u, q)
  BY <1>1, Zenon DEF Watched
<1>3. OnTheWay(t, u, F, ex, S)
  BY <1>2 DEF OnTheWay
<1> QED
  BY <1>3 DEF u

\* A list with one file goes when the file exists.
LEMMA DropOnWay ==
    ASSUME NEW t \in [Dirs -> Seq(Names)], NEW p \in Paths \ Dirs, NEW s,
           s = [t EXCEPT ![Dir(p)] = <<>>], t[Dir(p)] = <<Name(p)>>,
           NEW v, NEW F, NEW ex, p \in ex, NEW S, F \cap Dirs = {},
           OnTheWay(t, v, F, ex, S \cup {Dir(p)})
    PROVE  OnTheWay(s, v, F, ex, S)
<1> DEFINE d == Dir(p)
<1>1. d \in Dirs /\ Append(d, Name(p)) = p
  BY PathDir
<1>2. \A k \in Places(t, d) : Slot(t, d, k) = p
  <2>1. \A k \in Places(t, d) : t[d][k] = Name(p)
    BY DEF Places
  <2> QED
    BY <1>1, <2>1 DEF Slot
<1>3. s[d] = <<>> /\ \A e \in Dirs \ {d} : s[e] = t[e]
  BY <1>1
<1> HIDE DEF d
<1>4. \A e \in Dirs : ~Empty(s, e) => ~Empty(t, e) /\ e # d
  BY <1>3 DEF Empty
<1>5. ASSUME NEW q, q # p, Awaits(t, q)
      PROVE  Awaits(s, q)
  <2>1. PICK e \in Dirs : \E k \in Places(t, e) : Slot(t, e, k) = q
    BY <1>5, Zenon DEF Awaits
  <2>2. PICK k \in Places(t, e) : Slot(t, e, k) = q
    BY <2>1
  <2>3. e # d
    BY <1>2, <1>5, <2>2
  <2>4. k \in Places(s, e) /\ Slot(s, e, k) = q
    BY <1>3, <2>2, <2>3 DEF Places, Slot
  <2> QED
    BY <2>4, Zenon DEF Awaits
<1> QED
  BY <1>1, <1>4, <1>5 DEF OnTheWay, d

\* The name of an event is taken off: its path exists, and is still on the
\* way only if files wait for it as a directory.
LEMMA TakenOnWay ==
    ASSUME NEW t, NEW s, NEW d \in Dirs, NEW q, Shrunk(t, s, d, q),
           NEW v, NEW u, NEW wd, u = Left(v, s, wd, d), NEW F, NEW ex, q \in ex,
           OnTheWay(t, v, F, ex, {})
    PROVE  /\ OnTheWay(s, u, F, ex, {q})
           /\ q \notin Dirs \/ Empty(s, q) => OnTheWay(s, u, F, ex, {})
<1>1. \A e \in Dirs \ {d} :
        /\ Empty(s, e) <=> Empty(t, e)
        /\ Places(s, e) = Places(t, e)
        /\ \A k \in Places(s, e) : Slot(s, e, k) = Slot(t, e, k)
  BY Zenon DEF Shrunk
<1>2. PICK m \in Places(t, d) :
        /\ Slot(t, d, m) = q
        /\ \E f \in [Places(s, d) -> Places(t, d) \ {m}] :
            /\ \A j, k \in Places(s, d) : f[j] = f[k] => j = k
            /\ \A k \in Places(s, d) : Slot(s, d, k) = Slot(t, d, f[k])
            /\ \A j \in Places(t, d) \ {m} : \E k \in Places(s, d) : f[k] = j
  BY Zenon DEF Shrunk
<1>3. ASSUME NEW p, p # q, Awaits(t, p)
      PROVE  Awaits(s, p)
  <2>1. PICK e \in Dirs : \E k \in Places(t, e) : Slot(t, e, k) = p
    BY <1>3, Zenon DEF Awaits
  <2>2. PICK j \in Places(t, e) : Slot(t, e, j) = p
    BY <2>1
  <2>3. CASE e # d
    BY <1>1, <2>2, <2>3 DEF Awaits
  <2>4. CASE e = d
    <3>1. PICK f \in [Places(s, d) -> Places(t, d) \ {m}] :
            /\ \A k \in Places(s, d) : Slot(s, d, k) = Slot(t, d, f[k])
            /\ \A i \in Places(t, d) \ {m} : \E k \in Places(s, d) : f[k] = i
      BY <1>2, Zenon
    <3>2. j \in Places(t, d) \ {m}
      BY <1>2, <1>3, <2>2, <2>4
    <3>3. PICK k \in Places(s, d) : f[k] = j
      BY <3>1, <3>2
    <3>4. Slot(s, d, k) = p
      BY <2>2, <2>4, <3>1, <3>3
    <3> QED
      BY <3>4, Zenon DEF Awaits
  <2> QED
    BY <2>3, <2>4
<1>4. Empty(t, d) => Places(t, d) = {}
  BY DEF Empty, Places
<1>5. \A e \in Dirs : ~Empty(s, e) => ~Empty(t, e)
  BY <1>1, <1>2, <1>4
<1>6. ASSUME NEW e \in Dirs, ~Empty(s, e), Watched(v, e)
      PROVE  Watched(u, e)
  <2>1. PICK x \in v : x[2] = e
    BY <1>6 DEF Watched
  <2>2. x \in u
    <3>1. CASE ~Empty(s, d)
      BY <3>1 DEF Left
    <3>2. CASE Empty(s, d)
      <4>1. u = v \ {<<wd, d>>} /\ e # d
        BY <1>6, <3>2 DEF Left
      <4>2. x # <<wd, d>>
        BY <2>1, <4>1
      <4> QED
        BY <4>1, <4>2
    <3> QED
      BY <3>1, <3>2
  <2> QED
    BY <2>1, <2>2, Zenon DEF Watched
<1>7. OnTheWay(s, u, F, ex, {q})
  BY <1>3, <1>5, <1>6 DEF OnTheWay
<1>8. ASSUME q \notin Dirs \/ Empty(s, q)
      PROVE  OnTheWay(s, u, F, ex, {})
  BY <1>3, <1>5, <1>6, <1>8 DEF OnTheWay
<1> QED
  BY <1>7, <1>8

\* The files that wait for a directory that has appeared are added.
LEMMA MovedOnWay ==
    ASSUME NEW t \in [Dirs -> Seq(Names)], NEW q \in Dirs, NEW s,
           s = [t EXCEPT ![q] = <<>>], NEW v, NEW F, NEW ex, F \cap Dirs = {},
           OnTheWay(t, v, F, ex, {q}), NEW items,
           DOMAIN items = Places(t, q),
           \A k \in Places(t, q) : items[k] = Slot(t, q, k)
    PROVE  OnTheWay(s, v, F, ex, Elems(items))
<1>1. s[q] = <<>> /\ \A e \in Dirs \ {q} : s[e] = t[e]
  OBVIOUS
<1>2. \A e \in Dirs : ~Empty(s, e) => ~Empty(t, e) /\ e # q
  BY <1>1 DEF Empty
<1>3. ASSUME NEW p, Awaits(t, p)
      PROVE  Awaits(s, p) \/ p \in Elems(items)
  <2>1. PICK e \in Dirs : \E k \in Places(t, e) : Slot(t, e, k) = p
    BY <1>3, Zenon DEF Awaits
  <2>2. PICK k \in Places(t, e) : Slot(t, e, k) = p
    BY <2>1
  <2>3. CASE e = q
    BY <2>2, <2>3 DEF Elems
  <2>4. CASE e # q
    <3>1. k \in Places(s, e) /\ Slot(s, e, k) = p
      BY <1>1, <2>2, <2>4 DEF Places, Slot
    <3> QED
      BY <3>1, Zenon DEF Awaits
  <2> QED
    BY <2>3, <2>4
<1> QED
  BY <1>2, <1>3 DEF OnTheWay

\* Without watches and with nothing being added there are no lists: the
\* shortest directory with a list would be on the list of a shorter one.
LEMMA AllFound ==
    ASSUME NEW t \in [Dirs -> Seq(Names)], NEW F, NEW ex,
           OnTheWay(t, {}, F, ex, {})
    PROVE  F \subseteq ex
<1>1. \A p : Awaits(t, p) => \E e \in Dirs :
            ~Empty(t, e) /\ p \in Seq(Names) /\ Len(p) = Len(e) + 1
  <2> SUFFICES ASSUME NEW p, Awaits(t, p)
               PROVE  \E e \in Dirs :
                        ~Empty(t, e) /\ p \in Seq(Names) /\ Len(p) = Len(e) + 1
    OBVIOUS
  <2>1. PICK e \in Dirs : \E k \in Places(t, e) : Slot(t, e, k) = p
    BY Zenon DEF Awaits
  <2>2. PICK k \in Places(t, e) : Slot(t, e, k) = p
    BY <2>1
  <2>3. t[e] \in Seq(Names) /\ e \in Seq(Names)
    BY DirSeq
  <2>4. t[e][k] \in Names /\ ~Empty(t, e)
    BY <2>3, ElementOfSeq, LenProperties DEF Places, Empty
  <2>5. p \in Seq(Names) /\ Len(p) = Len(e) + 1
    BY <2>2, <2>3, <2>4, AppendProperties DEF Slot
  <2> QED
    BY <2>4, <2>5
<1> DEFINE T == {Len(e) : e \in {c \in Dirs : ~Empty(t, c)}}
<1>2. T \in SUBSET Nat
  BY DirSeq, LenProperties
<1>3. T = {}
  <2> SUFFICES ASSUME T # {}
               PROVE  FALSE
    OBVIOUS
  <2>1. PICK x \in T : \A y \in T : x <= y
    BY <1>2, LeastNat
  <2>2. PICK c \in Dirs : ~Empty(t, c) /\ x = Len(c)
    OBVIOUS
  <2>3. Awaits(t, c)
    BY <2>2 DEF OnTheWay, Watched
  <2>4. PICK e \in Dirs : ~Empty(t, e) /\ Len(c) = Len(e) + 1
    BY <1>1, <2>3
  <2>5. Len(e) \in T
    BY <2>4
  <2>6. Len(e) \in Nat
    BY DirSeq, LenProperties
  <2> HIDE DEF T
  <2> QED
    BY <2>1, <2>2, <2>4, <2>5, <2>6
<1>4. \A e \in Dirs : Empty(t, e)
  BY <1>3
<1>5. \A f \in F : ~Awaits(t, f)
  BY <1>1, <1>4
<1> QED
  BY <1>5 DEF OnTheWay

-----------------------------------------------------------------------------
(* Steps of the watcher, once more: what it waits for.                     *)

\* The path that _add_watch has at hand, and all that is being added.
AtHand(j) == IF j.step = "dir" THEN j.path ELSE Dir(j.path)
Open(j, w) ==
    IF AddsFor(j, w) THEN Elems(Tail(j.todo)) \cup {AtHand(j)} ELSE {}

\* The watcher w loses nothing, the count of a job is no less than the
\* watches there are, and a new list has one name until its watch is known.
LooksFor(i, j, w, ex) ==
    /\ OnTheWay(i.dir_table, i.wd_table, Files(w), ex, Open(j, w))
    /\ AtWork(j, w) => Cardinality(i.wd_table) <= j.nwatch
    /\ AddsFor(j, w) /\ j.step # "dir" =>
            i.dir_table[Dir(j.path)] = <<Name(j.path)>>

\* A watcher that was started and is not at work nor has a source, is done.
WaitGood(i, j, w, n, ex) ==
    /\ n > 0 => Files(w) \subseteq ex
    /\ IF AtWork(j, w) \/ i.source = TRUE THEN LooksFor(i, j, w, ex)
                                          ELSE Files(w) \subseteq ex

\* What is known before a step when all is calm, and what it has to show.
WaitFacts ==
    /\ JobFacts /\ CalmFacts
    /\ LooksFor(info[job.w], job, job.w, exists)
    /\ finals[job.w] > 0 => Files(job.w) \subseteq exists

WaitShown == WaitGood(info'[job.w], job', job.w, finals'[job.w], exists)

\* The files of a line are paths, and not directories of others.
LEMMA LineFiles ==
    ASSUME NEW w \in Watchers
    PROVE  Files(w) \subseteq Paths /\ Files(w) \cap Dirs = {}
<1>1. Script[w].files \in Seq(Paths \ Dirs)
  BY LauncherAssumption
<1>2. \A k \in DOMAIN Script[w].files : Script[w].files[k] \in Paths \ Dirs
  BY <1>1, ElementOfSeq, LenProperties
<1> QED
  BY <1>2 DEF Files

\* The elements of a sequence are its first one and those of the rest.
LEMMA ElemsSplit ==
    ASSUME NEW S, NEW q \in Seq(S), q # <<>>
    PROVE  Elems(q) = Elems(Tail(q)) \cup {Head(q)}
<1> DEFINE l == Tail(q)
<1>1. /\ Len(q) \in Nat \ {0} /\ Head(q) = q[1]
      /\ DOMAIN q = 1..Len(q)
      /\ l \in Seq(S) /\ Len(l) = Len(q) - 1
      /\ \A k \in 1..Len(l) : l[k] = q[k + 1]
      /\ DOMAIN l = 1..Len(l)
  BY HeadTailProperties
<1> HIDE DEF l
<1>2. ASSUME NEW x \in Elems(q)
      PROVE  x \in Elems(l) \cup {Head(q)}
  <2>1. PICK k \in DOMAIN q : x = q[k]
    BY DEF Elems
  <2>2. CASE k = 1
    BY <1>1, <2>1, <2>2
  <2>3. CASE k # 1
    <3>1. k - 1 \in DOMAIN l /\ l[k - 1] = x
      BY <1>1, <2>1, <2>3
    <3> QED
      BY <3>1 DEF Elems
  <2> QED
    BY <2>2, <2>3
<1>3. ASSUME NEW x \in Elems(l)
      PROVE  x \in Elems(q)
  <2>1. PICK k \in DOMAIN l : x = l[k]
    BY DEF Elems
  <2>2. k + 1 \in DOMAIN q /\ q[k + 1] = x
    BY <1>1, <2>1
  <2> QED
    BY <2>2 DEF Elems
<1>4. Head(q) \in Elems(q)
  BY <1>1 DEF Elems
<1> QED
  BY <1>2, <1>3, <1>4 DEF l

\* An empty sequence has none.
LEMMA ElemsNone == Elems(<<>>) = {}
BY DEF Elems

\* A count of zero means that there is no watch, hence nothing to wait for.
LEMMA CountedOut ==
    ASSUME NEW t \in [Dirs -> Seq(Names)], NEW v, IsFiniteSet(v),
           Cardinality(v) <= 0, NEW F, NEW ex, OnTheWay(t, v, F, ex, {})
    PROVE  F \subseteq ex
<1>1. Cardinality(v) = 0
  BY FS_CardinalityType
<1>2. v = {}
  BY <1>1, FS_EmptySet
<1> QED
  BY <1>2, AllFound

\* What follows an item: the next one, the source, or the end of the wait.
LEMMA ItemWaits ==
    ASSUME job \in JobType, info = [w \in Watchers |-> info[w]],
           job.mode \in {"start", "event"},
           NEW i, IsInfo(i), i.dir_table \in [Dirs -> Seq(Names)],
           IsFiniteSet(i.wd_table), NEW n \in Nat, NextItem(i, n),
           OnTheWay(i.dir_table, i.wd_table, Files(job.w), exists,
                    Elems(Tail(job.todo))),
           Cardinality(i.wd_table) <= n,
           finals'[job.w] > 0 => \/ n = 0 /\ Tail(job.todo) = <<>>
                                 \/ Files(job.w) \subseteq exists
    PROVE  WaitShown
<1> DEFINE w == job.w
<1> DEFINE rest == Tail(job.todo)
<1> DEFINE F == Files(w)
<1>1. /\ w \in Watchers /\ job.todo \in Seq(Paths) /\ job.todo # <<>>
  BY JobFields, NoJobFields
<1>2. rest \in Seq(Paths)
  BY <1>1, HeadTailProperties
<1>3. n = 0 /\ rest = <<>> => F \subseteq exists
  BY CountedOut, ElemsNone
<1>4. finals'[w] > 0 => F \subseteq exists
  BY <1>3
<1>5. OnTheWay(i.dir_table, i.wd_table, F, exists, Elems(rest))
  OBVIOUS
<1> HIDE DEF w, rest, F
<1>6. CASE rest # <<>>
  <2>1. /\ job' = AddJob(w, job.mode, rest, n)
        /\ info' = [info EXCEPT ![w] = i]
    BY <1>6 DEF NextItem, rest, w
  <2>2. /\ job'.mode = job.mode /\ job'.w = w /\ job'.path = Head(rest)
        /\ job'.todo = rest /\ job'.step = "dir" /\ job'.nwatch = n
        /\ AddsFor(job', w)
    BY <1>1, <1>2, <1>6, <2>1, AddJobFields
  <2>3. Open(job', w) = Elems(rest)
    BY <1>2, <1>6, <2>2, ElemsSplit DEF Open, AtHand
  <2>4. info'[w] = i
    BY <1>1, <2>1
  <2>5. AtWork(job', w)
    BY <2>2 DEF AtWork
  <2>6. LooksFor(i, job', w, exists)
    BY <1>5, <2>2, <2>3 DEF LooksFor, F
  <2> QED
    BY <1>4, <2>4, <2>5, <2>6 DEF WaitShown, WaitGood, F, w
<1>7. CASE rest = <<>> /\ job.mode = "start"
  <2> DEFINE fin == Finished(i, n)
  <2>1. job' = NoJob /\ info' = [info EXCEPT ![w] = fin]
    BY <1>7 DEF NextItem, rest, w
  <2>2. info'[w] = fin
    BY <1>1, <2>1
  <2>3. ~AtWork(job', w) /\ ~AddsFor(job', w) /\ Open(job', w) = {}
    BY <2>1, NoJobFields DEF AtWork, Open
  <2>4. CASE n = 0
    <3>1. fin.source # TRUE
      BY <2>4, BlankFields DEF Finished, Freed
    <3> HIDE DEF fin
    <3> QED
      BY <1>3, <1>7, <2>2, <2>3, <2>4, <3>1 DEF WaitShown, WaitGood, F, w
  <2>5. CASE n # 0
    <3>1. fin = Sourced(i)
      BY <2>5 DEF Finished, Sourced
    <3> HIDE DEF fin
    <3>2. /\ fin.source = TRUE /\ fin.dir_table = i.dir_table
          /\ fin.wd_table = i.wd_table
      BY <3>1, SourceFields
    <3>3. LooksFor(fin, job', w, exists)
      BY <1>5, <1>7, <2>3, <3>2, ElemsNone DEF LooksFor, F
    <3> QED
      BY <1>4, <2>2, <3>2, <3>3 DEF WaitShown, WaitGood, F, w
  <2> QED
    BY <2>4, <2>5
<1>8. CASE rest = <<>> /\ job.mode = "event"
  <2>1. job' = ReadJob(w, n) /\ info' = [info EXCEPT ![w] = i]
    BY <1>8 DEF NextItem, rest, w
  <2>2. /\ job'.mode = "read" /\ job'.w = w /\ job'.nwatch = n
        /\ ~AddsFor(job', w)
    BY <1>1, <2>1, ReadJobFields
  <2>3. info'[w] = i /\ AtWork(job', w) /\ Open(job', w) = {}
    BY <1>1, <2>1, <2>2 DEF AtWork, Open
  <2>4. LooksFor(i, job', w, exists)
    BY <1>5, <1>8, <2>2, <2>3, ElemsNone DEF LooksFor, F
  <2> QED
    BY <1>4, <2>3, <2>4 DEF WaitShown, WaitGood, F, w
<1> QED
  BY <1>6, <1>7, <1>8

\* The watcher that adds, with what it waits for.
LEMMA AddsWaits ==
    ASSUME WaitFacts, NEW step, Adding(step)
    PROVE  /\ job \in JobType /\ job.w \in Watchers
           /\ job.mode \in {"start", "event"} /\ job.step = step
           /\ info = [w \in Watchers |-> info[w]]
           /\ InfoType(info[job.w]) /\ IsInfo(info[job.w])
           /\ info[job.w].dir_table \in [Dirs -> Seq(Names)]
           /\ IsFiniteSet(info[job.w].wd_table)
           /\ job.nwatch \in Nat /\ job \in AddType
           /\ job.path \in Paths /\ Dir(job.path) \in Dirs
           /\ finals[job.w] = 0 /\ AddsFor(job, job.w) /\ AtWork(job, job.w)
           /\ OnTheWay(info[job.w].dir_table, info[job.w].wd_table,
                       Files(job.w), exists,
                       Elems(Tail(job.todo)) \cup {AtHand(job)})
           /\ Cardinality(info[job.w].wd_table) <= job.nwatch
           /\ step # "dir" => info[job.w].dir_table[Dir(job.path)]
                                = <<Name(job.path)>>
<1>1. JobFacts /\ CalmFacts /\ LooksFor(info[job.w], job, job.w, exists)
  BY DEF WaitFacts
<1>2. /\ job.w \in Watchers /\ job.mode \in {"start", "event"}
      /\ job.step = step /\ info = [w \in Watchers |-> info[w]]
      /\ IsInfo(info[job.w]) /\ job.nwatch \in Nat /\ finals[job.w] = 0
      /\ AddsFor(job, job.w) /\ AtWork(job, job.w)
  BY <1>1, AddsCalm
<1>3. /\ job \in JobType /\ InfoType(info[job.w]) /\ job \in AddType
      /\ job.path \in Paths /\ Dir(job.path) \in Dirs
  BY <1>1, AddFacts DEF JobFacts
<1>4. /\ info[job.w].dir_table \in [Dirs -> Seq(Names)]
      /\ IsFiniteSet(info[job.w].wd_table)
  BY <1>3, WdDirs
<1>5. Open(job, job.w) = Elems(Tail(job.todo)) \cup {AtHand(job)}
  BY <1>2 DEF Open
<1>6. /\ OnTheWay(info[job.w].dir_table, info[job.w].wd_table,
                  Files(job.w), exists, Open(job, job.w))
      /\ Cardinality(info[job.w].wd_table) <= job.nwatch
      /\ step # "dir" => info[job.w].dir_table[Dir(job.path)]
                           = <<Name(job.path)>>
  BY <1>1, <1>2 DEF LooksFor
<1> QED
  BY <1>2, <1>3, <1>4, <1>5, <1>6

\* A name joins the list of a directory that is on the way already.
LEMMA AddToListWaits ==
    ASSUME WaitFacts, AddToList
    PROVE  WaitShown
<1> DEFINE w == job.w
<1> DEFINE i == info[w]
<1> DEFINE p == job.path
<1> DEFINE d == Dir(p)
<1> DEFINE l == Append(i.dir_table[d], Name(p))
<1> DEFINE j == SetList(i, d, l)
<1>1. /\ Adding("dir") /\ NextItem(j, job.nwatch + 1) /\ finals' = finals
      /\ ~Empty(i.dir_table, d)
  BY DEF AddToList, Added, NoReport, SetList, Empty
<1>2. /\ job \in JobType /\ w \in Watchers /\ job.mode \in {"start", "event"}
      /\ info = [u \in Watchers |-> info[u]] /\ IsInfo(i) /\ job.step = "dir"
      /\ i.dir_table \in [Dirs -> Seq(Names)] /\ IsFiniteSet(i.wd_table)
      /\ job.nwatch \in Nat /\ p \in Paths /\ d \in Dirs /\ finals[w] = 0
      /\ OnTheWay(i.dir_table, i.wd_table, Files(w), exists,
                  Elems(Tail(job.todo)) \cup {AtHand(job)})
      /\ Cardinality(i.wd_table) <= job.nwatch
  BY <1>1, AddsWaits
<1>3. AtHand(job) = p
  BY <1>2 DEF AtHand
<1> HIDE DEF i, p
<1>4. /\ IsInfo(j) /\ j.wd_table = i.wd_table
      /\ j.dir_table = Listed(i.dir_table, p)
  <2>1. SetTable(i.dir_table, d, l) = Listed(i.dir_table, p)
    BY DEF SetTable, Listed
  <2> HIDE DEF l, d
  <2> QED
    BY <1>2, <2>1, ListSet
<1> HIDE DEF j
<1>5. j.dir_table \in [Dirs -> Seq(Names)]
  BY <1>2, <1>4, ListAppended
<1>6. OnTheWay(j.dir_table, j.wd_table, Files(w), exists,
               Elems(Tail(job.todo)))
  BY <1>1, <1>2, <1>3, <1>4, ListedOnWay
<1>7. /\ job.nwatch + 1 \in Nat /\ Cardinality(j.wd_table) <= job.nwatch + 1
      /\ IsFiniteSet(j.wd_table)
  BY <1>2, <1>4, FS_CardinalityType
<1>8. ~(finals'[w] > 0)
  BY <1>1, <1>2
<1> QED
  BY <1>1, <1>2, <1>4, <1>5, <1>6, <1>7, <1>8, ItemWaits

\* A name starts a list, and its directory is at hand.
LEMMA AddListWaits ==
    ASSUME WaitFacts, AddList
    PROVE  WaitShown
<1> DEFINE w == job.w
<1> DEFINE i == info[w]
<1> DEFINE p == job.path
<1> DEFINE d == Dir(p)
<1> DEFINE l == <<Name(p)>>
<1> DEFINE j == SetList(i, d, l)
<1> DEFINE rest == Tail(job.todo)
<1>1. /\ Adding("dir") /\ finals' = finals /\ i.dir_table[d] = <<>>
      /\ info' = [info EXCEPT ![w] = j]
      /\ job' = IF Exists(d) THEN [job EXCEPT !.step = "watch"]
                             ELSE [job EXCEPT !.path = d]
  BY DEF AddList, NoReport, SetList
<1>2. /\ job \in AddType /\ w \in Watchers /\ job.mode \in {"start", "event"}
      /\ info = [u \in Watchers |-> info[u]] /\ IsInfo(i) /\ job.step = "dir"
      /\ i.dir_table \in [Dirs -> Seq(Names)]
      /\ job.nwatch \in Nat /\ p \in Paths /\ d \in Dirs /\ finals[w] = 0
      /\ OnTheWay(i.dir_table, i.wd_table, Files(w), exists,
                  Elems(rest) \cup {AtHand(job)})
      /\ Cardinality(i.wd_table) <= job.nwatch
  BY <1>1, AddsWaits
<1>3. AtHand(job) = p
  BY <1>2 DEF AtHand
<1>4. info'[w] = j
  BY <1>1, <1>2
<1>5. /\ job'.mode = job.mode /\ job'.w = w /\ job'.todo = job.todo
      /\ job'.nwatch = job.nwatch
      /\ \/ job'.path = p /\ job'.step = "watch"
         \/ job'.path = d /\ job'.step = "dir"
  BY <1>1, <1>2 DEF AddType
<1>6. AddsFor(job', w) /\ AtWork(job', w)
  BY <1>2, <1>5 DEF AddsFor, AtWork
<1> HIDE DEF i, rest
<1>7. /\ j.wd_table = i.wd_table /\ j.dir_table = Listed(i.dir_table, p)
      /\ j.dir_table[d] = <<Name(p)>>
  <2>1. SetTable(i.dir_table, d, l) = Listed(i.dir_table, p)
    BY <1>1 DEF SetTable, Listed
  <2>2. SetTable(i.dir_table, d, l)[d] = l
    BY <1>2 DEF SetTable
  <2> HIDE DEF l, d
  <2>3. j.wd_table = i.wd_table /\ j.dir_table = SetTable(i.dir_table, d, l)
    BY <1>2, ListSet
  <2> QED
    BY <2>1, <2>2, <2>3 DEF l
<1> HIDE DEF j, p
<1>8. OnTheWay(j.dir_table, j.wd_table, Files(w), exists, Elems(rest) \cup {d})
  BY <1>2, <1>3, <1>7, ListedOnWay
<1>9. Open(job', w) = Elems(rest) \cup {d}
  BY <1>5, <1>6 DEF Open, AtHand, rest
<1>10. LooksFor(j, job', w, exists)
  BY <1>2, <1>5, <1>7, <1>8, <1>9 DEF LooksFor
<1>11. ~(finals'[w] > 0)
  BY <1>1, <1>2
<1> QED
  BY <1>4, <1>6, <1>10, <1>11 DEF WaitShown, WaitGood

\* inotify_add_watch succeeds, or the watcher counts no more.
LEMMA AddWatchWaits ==
    ASSUME WaitFacts, AddWatch, job.w \notin failed'
    PROVE  WaitShown
<1> DEFINE w == job.w
<1> DEFINE i == info[w]
<1> DEFINE d == Dir(job.path)
<1> DEFINE n == i.wds + 1
<1> DEFINE kept == [i EXCEPT !.wds = @ + 1, !.kernel = @ \cup {<<n, d>>}]
<1>1. Adding("watch") /\ finals' = finals
  BY DEF AddWatch, NoReport
<1>2. /\ info' = [info EXCEPT ![w] = kept]
      /\ job' = [job EXCEPT !.step = "file"]
  BY DEF AddWatch
<1>3. /\ job \in AddType /\ w \in Watchers /\ job.mode \in {"start", "event"}
      /\ info = [u \in Watchers |-> info[u]] /\ IsInfo(i)
      /\ job.step = "watch" /\ finals[w] = 0 /\ AddsFor(job, w)
      /\ LooksFor(i, job, w, exists)
  BY <1>1, AddsWaits DEF WaitFacts
<1>4. info'[w] = kept
  BY <1>2, <1>3
<1>5. /\ job'.mode = job.mode /\ job'.w = w /\ job'.todo = job.todo
      /\ job'.nwatch = job.nwatch /\ job'.path = job.path
      /\ job'.step = "file"
  BY <1>2, <1>3 DEF AddType
<1>6. AddsFor(job', w) /\ AtWork(job', w) /\ AtWork(job, w)
  BY <1>3, <1>5 DEF AddsFor, AtWork
<1>7. kept.dir_table = i.dir_table /\ kept.wd_table = i.wd_table
  <2> DEFINE kernel == i.kernel \cup {<<n, d>>}
  <2> HIDE DEF i
  <2>1. kept = [i EXCEPT !.wds = n, !.kernel = kernel]
    OBVIOUS
  <2> HIDE DEF kept, n, kernel
  <2>2. kept = MakeInfo(i.dir_table, i.wd_table, kernel, i.queue, n, i.source)
    BY <1>3, <2>1 DEF MakeInfo, IsInfo
  <2> QED
    BY <2>2, MadeInfo
<1> HIDE DEF kept, i
<1>8. Open(job', w) = Open(job, w)
  BY <1>3, <1>5, <1>6 DEF Open, AtHand
<1>9. LooksFor(kept, job', w, exists)
  BY <1>3, <1>5, <1>6, <1>7, <1>8 DEF LooksFor
<1>10. ~(finals'[w] > 0)
  BY <1>1, <1>3
<1> QED
  BY <1>4, <1>6, <1>9, <1>10 DEF WaitShown, WaitGood

\* A file that exists is one of the line; otherwise its directory is watched.
LEMMA CheckFileWaits ==
    ASSUME WaitFacts, CheckFile
    PROVE  WaitShown
<1> DEFINE w == job.w
<1> DEFINE i == info[w]
<1> DEFINE p == job.path
<1> DEFINE d == Dir(p)
<1> DEFINE x == <<i.wds, d>>
<1> DEFINE F == Files(w)
<1> DEFINE rest == Tail(job.todo)
<1> DEFINE final == job.nwatch = 0 /\ (job.mode = "start" => Len(job.todo) = 1)
<1> DEFINE u == Unwatched(i, i.wds, d)
<1> DEFINE ready == SetList(u, d, <<>>)
<1> DEFINE added == [i EXCEPT !.wd_table = @ \cup {x}]
<1>1. Adding("file")
  BY DEF CheckFile
<1>2. \/ /\ Exists(p) /\ Report(w, Head(job.todo), final)
         /\ NextItem(ready, job.nwatch)
      \/ /\ ~Exists(p) /\ finals' = finals
         /\ NextItem(added, job.nwatch + 1)
  BY DEF CheckFile, Ready, Added, SetList, NoReport
<1>3. /\ job \in JobType /\ w \in Watchers /\ job.mode \in {"start", "event"}
      /\ info = [z \in Watchers |-> info[z]] /\ IsInfo(i) /\ job.step = "file"
      /\ i.dir_table \in [Dirs -> Seq(Names)] /\ IsFiniteSet(i.wd_table)
      /\ job.nwatch \in Nat /\ p \in Paths /\ d \in Dirs /\ finals[w] = 0
      /\ OnTheWay(i.dir_table, i.wd_table, F, exists,
                  Elems(rest) \cup {AtHand(job)})
      /\ Cardinality(i.wd_table) <= job.nwatch
      /\ i.dir_table[d] = <<Name(p)>>
  <2>1. "file" # "dir"
    OBVIOUS
  <2> HIDE DEF F
  <2> QED
    BY <1>1, <2>1, AddsWaits DEF F
<1>4. AtHand(job) = d /\ F \cap Dirs = {}
  BY <1>3, LineFiles DEF AtHand
<1>5. finals \in [Watchers -> Nat] /\ ItemsGood(job, exists)
  BY DEF WaitFacts, JobFacts, CalmFacts
<1> HIDE DEF F
<1>6. CASE /\ ~Exists(p) /\ finals' = finals
           /\ NextItem(added, job.nwatch + 1)
  <2> DEFINE v == i.wd_table \cup {x}
  <2> HIDE DEF i
  <2>1. added = MakeInfo(i.dir_table, v, i.kernel, i.queue, i.wds, i.source)
    <3>1. added = [i EXCEPT !.wd_table = v]
      OBVIOUS
    <3> HIDE DEF added, v
    <3> QED
      BY <1>3, <3>1 DEF MakeInfo, IsInfo
  <2> HIDE DEF added
  <2>2. /\ added.dir_table = i.dir_table /\ added.wd_table = v /\ IsInfo(added)
    <3> HIDE DEF v
    <3> QED
      BY <2>1, MadeInfo DEF IsInfo
  <2>3. OnTheWay(i.dir_table, v, F, exists, Elems(rest))
    BY <1>3, <1>4, WatchOnWay
  <2>4. IsFiniteSet(v) /\ Cardinality(v) <= job.nwatch + 1
    <3>1. /\ IsFiniteSet(v)
          /\ Cardinality(v) = Cardinality(i.wd_table) \/
                Cardinality(v) = Cardinality(i.wd_table) + 1
      BY <1>3, FS_AddElement
    <3>2. Cardinality(i.wd_table) \in Nat
      BY <1>3, FS_CardinalityType
    <3> HIDE DEF v
    <3> QED
      BY <1>3, <3>1, <3>2
  <2>5. job.nwatch + 1 \in Nat /\ ~(finals'[w] > 0)
    BY <1>3, <1>6
  <2> HIDE DEF v
  <2> QED
    BY <1>3, <1>6, <2>2, <2>3, <2>4, <2>5, ItemWaits DEF F
<1>7. CASE /\ Exists(p) /\ Report(w, Head(job.todo), final)
           /\ NextItem(ready, job.nwatch)
  <2> DEFINE queue == Append(i.queue, Event(i.wds, NoName))
  <2> DEFINE kernel == i.kernel \ {x}
  <2> DEFINE s == SetTable(i.dir_table, d, <<>>)
  <2> HIDE DEF i
  <2>1. u = MakeInfo(i.dir_table, i.wd_table, kernel, queue, i.wds, i.source)
    <3>1. u = [i EXCEPT !.kernel = kernel, !.queue = queue]
      BY DEF Unwatched
    <3> HIDE DEF u, kernel, queue
    <3> QED
      BY <1>3, <3>1 DEF MakeInfo, IsInfo
  <2> HIDE DEF u, kernel, queue, ready
  <2>2. /\ u.dir_table = i.dir_table /\ u.wd_table = i.wd_table /\ IsInfo(u)
    BY <2>1, MadeInfo DEF IsInfo
  <2>3. /\ IsInfo(ready) /\ ready.wd_table = i.wd_table
        /\ ready.dir_table = s
    BY <2>2, ListSet DEF ready
  <2>4. p \in exists
    BY <1>3, <1>7, FileWatchAssumption DEF Exists
  <2>5. job.mode = "start" /\ p = job.todo[1]
    BY <1>3, <1>5, <2>4 DEF ItemsGood
  <2>6. p \in F
    <3>1. job.todo \in Seq(Paths) /\ job.todo # <<>>
      BY <1>3, JobFields
    <3>2. 1 \in DOMAIN job.todo
      BY <3>1
    <3> QED
      BY <1>5, <2>5, <3>2 DEF ItemsGood, F
  <2>7. p \in Paths \ Dirs /\ s = [i.dir_table EXCEPT ![d] = <<>>]
    BY <1>3, <1>4, <2>6 DEF SetTable
  <2>8. s \in [Dirs -> Seq(Names)]
    <3>1. <<>> \in Seq(Names)
      OBVIOUS
    <3> HIDE DEF s
    <3> QED
      BY <1>3, <2>7, <3>1
  <2> HIDE DEF s, p
  <2>9. OnTheWay(s, i.wd_table, F, exists, Elems(rest))
    BY <1>3, <1>4, <2>4, <2>7, DropOnWay
  <2>10. finals'[w] > 0 => job.nwatch = 0 /\ Len(job.todo) = 1
    <3>1. finals'[w] = IF final THEN finals[w] + 1 ELSE finals[w]
      <4> HIDE DEF final
      <4> QED
        BY <1>3, <1>5, <1>7, ReportType
    <3> QED
      BY <1>3, <2>5, <3>1
  <2>11. Len(job.todo) = 1 => rest = <<>>
    <3>1. job.todo \in Seq(Paths)
      BY <1>3, JobFields
    <3>2. Len(job.todo) = 1 => rest \in Seq(Paths) /\ Len(rest) = 0
      BY <3>1
    <3> HIDE DEF rest
    <3> QED
      BY <3>2, EmptySeq
  <2> HIDE DEF final
  <2> QED
    BY <1>3, <1>7, <2>3, <2>8, <2>9, <2>10, <2>11, ItemWaits DEF F
<1> QED
  BY <1>2, <1>6, <1>7

\* The watcher whose callback reads events.
LEMMA ReadWaits ==
    ASSUME WaitFacts, job.mode = "read"
    PROVE  /\ job.w \in Watchers /\ job.nwatch \in Nat
           /\ info = [w \in Watchers |-> info[w]]
           /\ InfoType(info[job.w]) /\ IdleGood(info[job.w])
           /\ info[job.w].source = TRUE /\ AtWork(job, job.w)
           /\ info[job.w].dir_table \in [Dirs -> Seq(Names)]
           /\ IsFiniteSet(info[job.w].wd_table)
           /\ finals \in [Watchers -> Nat] /\ Fresh(info[job.w], exists)
           /\ OnTheWay(info[job.w].dir_table, info[job.w].wd_table,
                       Files(job.w), exists, {})
           /\ Cardinality(info[job.w].wd_table) <= job.nwatch
<1>1. JobFacts /\ CalmFacts /\ LooksFor(info[job.w], job, job.w, exists)
  BY DEF WaitFacts
<1>2. /\ job.w \in Watchers /\ job.nwatch \in Nat
      /\ info = [w \in Watchers |-> info[w]]
      /\ InfoType(info[job.w]) /\ IdleGood(info[job.w])
      /\ info[job.w].source = TRUE /\ AtWork(job, job.w)
      /\ Fresh(info[job.w], exists)
  BY <1>1, ReadCalm
<1>3. finals \in [Watchers -> Nat]
  BY <1>1 DEF JobFacts
<1>4. /\ info[job.w].dir_table \in [Dirs -> Seq(Names)]
      /\ IsFiniteSet(info[job.w].wd_table)
  BY <1>2, WdDirs
<1>5. Open(job, job.w) = {}
  BY DEF Open, AddsFor
<1>6. /\ OnTheWay(info[job.w].dir_table, info[job.w].wd_table,
                  Files(job.w), exists, {})
      /\ Cardinality(info[job.w].wd_table) <= job.nwatch
  BY <1>1, <1>2, <1>5 DEF LooksFor
<1> QED
  BY <1>2, <1>3, <1>4, <1>6

\* A watcher without watches is freed.
LEMMA CallbackReturnsWaits ==
    ASSUME WaitFacts, CallbackReturns
    PROVE  WaitShown
<1> DEFINE w == job.w
<1> DEFINE i == info[w]
<1> DEFINE j == IF job.nwatch = 0 THEN NewInfo ELSE SetQueue(i, <<>>)
<1>1. /\ job.mode = "read" /\ job' = NoJob /\ finals' = finals
      /\ info' = [info EXCEPT ![w] = j]
  BY DEF CallbackReturns, SetQueue, Freed, NoReport
<1>2. /\ w \in Watchers /\ info = [u \in Watchers |-> info[u]]
      /\ InfoType(i) /\ i.source = TRUE /\ IsFiniteSet(i.wd_table)
      /\ i.dir_table \in [Dirs -> Seq(Names)]
      /\ OnTheWay(i.dir_table, i.wd_table, Files(w), exists, {})
      /\ Cardinality(i.wd_table) <= job.nwatch
  BY <1>1, ReadWaits
<1>3. info'[w] = j
  BY <1>1, <1>2
<1>4. ~AtWork(job', w) /\ ~AddsFor(job', w) /\ Open(job', w) = {}
  BY <1>1, NoJobFields DEF AtWork, Open
<1>5. finals'[w] > 0 => Files(w) \subseteq exists
  BY <1>1 DEF WaitFacts
<1>6. CASE job.nwatch = 0
  <2>1. Files(w) \subseteq exists
    BY <1>2, <1>6, CountedOut
  <2>2. j.source # TRUE
    BY <1>6, BlankFields
  <2> HIDE DEF j
  <2> QED
    BY <1>3, <1>4, <2>1, <2>2 DEF WaitShown, WaitGood
<1>7. CASE job.nwatch # 0
  <2>1. j = SetQueue(i, <<>>)
    BY <1>7
  <2> HIDE DEF i, j
  <2>2. /\ j.source = i.source /\ j.dir_table = i.dir_table
        /\ j.wd_table = i.wd_table
    BY <1>2, <2>1, QueueChanged
  <2>3. LooksFor(j, job', w, exists)
    BY <1>2, <1>4, <2>2 DEF LooksFor
  <2> QED
    BY <1>2, <1>3, <1>5, <2>2, <2>3 DEF WaitShown, WaitGood
<1> QED
  BY <1>6, <1>7

\* Events of no interest take nothing off the lists.
LEMMA IgnoreEventsWaits ==
    ASSUME WaitFacts, IgnoreEvents
    PROVE  WaitShown
<1> DEFINE w == job.w
<1> DEFINE i == info[w]
<1> DEFINE j == SetQueue(i, <<>>)
<1>1. /\ job.mode = "read" /\ job' = job /\ finals' = finals
      /\ info' = [info EXCEPT ![w] = j]
  BY DEF IgnoreEvents, SetQueue, NoReport
<1>2. /\ w \in Watchers /\ info = [u \in Watchers |-> info[u]]
      /\ InfoType(i) /\ AtWork(job, w)
  BY <1>1, ReadWaits
<1>3. info'[w] = j
  BY <1>1, <1>2
<1>4. /\ LooksFor(i, job, w, exists)
      /\ finals[w] > 0 => Files(w) \subseteq exists
  BY DEF WaitFacts
<1> HIDE DEF i, j
<1>5. j.dir_table = i.dir_table /\ j.wd_table = i.wd_table
  BY <1>2, QueueChanged DEF j
<1>6. LooksFor(j, job, w, exists)
  BY <1>4, <1>5 DEF LooksFor
<1> QED
  BY <1>1, <1>2, <1>3, <1>4, <1>6 DEF WaitShown, WaitGood

\* An event takes a name off its list, and the watch with the last one; the
\* files that wait for a directory that has appeared are added.
LEMMA TakeEventWaits ==
    ASSUME WaitFacts, TakeEvent
    PROVE  WaitShown
<1> DEFINE w == job.w
<1> DEFINE i == info[w]
<1> DEFINE e == i.queue[1]
<1> DEFINE F == Files(w)
<1> DEFINE P(d) == Append(d, e.name)
<1> DEFINE J(d) == Taken(i, e.wd, d, e.name)
<1> DEFINE N(d) == IF J(d).dir_table[d] = <<>> THEN job.nwatch - 1
                                              ELSE job.nwatch
<1> DEFINE L(d) == IF P(d) \in Dirs THEN J(d).dir_table[P(d)] ELSE <<>>
<1>1. job.mode = "read" /\ job.nwatch # 0 /\ Awaited(i) /\ Readable(i.queue)
  BY DEF TakeEvent
<1>2. PICK d \in EventDirs(i) :
        \/ /\ L(d) = <<>> /\ job' = ReadJob(w, N(d))
           /\ info' = [info EXCEPT ![w] = J(d)]
           /\ Report(w, P(d), N(d) = 0)
        \/ /\ L(d) # <<>>
           /\ job' = AddJob(w, "event",
                        [k \in DOMAIN L(d) |-> Append(P(d), L(d)[k])], N(d))
           /\ info' = [info EXCEPT ![w] = SetList(J(d), P(d), <<>>)]
           /\ finals' = finals
  BY DEF TakeEvent, SetList, NoReport
<1>3. /\ w \in Watchers /\ InfoType(i) /\ IdleGood(i)
      /\ info = [z \in Watchers |-> info[z]]
      /\ job.nwatch \in Nat /\ Fresh(i, exists)
      /\ i.dir_table \in [Dirs -> Seq(Names)] /\ IsFiniteSet(i.wd_table)
      /\ finals \in [Watchers -> Nat]
      /\ OnTheWay(i.dir_table, i.wd_table, F, exists, {})
      /\ Cardinality(i.wd_table) <= job.nwatch
  BY <1>1, ReadWaits
<1>4. finals[w] = 0
  BY <1>1, ReadCalm DEF WaitFacts
<1>5. F \cap Dirs = {}
  BY <1>3, LineFiles
<1> HIDE DEF i, w, F
<1>6. /\ d \in Dirs /\ <<e.wd, d>> \in i.wd_table
      /\ Contains(i.dir_table[d], e.name)
  BY <1>1, <1>3, EventWatch
<1>7. i.queue # <<>>
  BY <1>1 DEF Readable
<1> DEFINE wd == e.wd
<1> DEFINE name == e.name
<1> DEFINE s == Shortened(i.dir_table, d, name)
<1> DEFINE v == Left(i.wd_table, s, wd, d)
<1> DEFINE q == P(d)
<1> DEFINE j == J(d)
<1> DEFINE n == N(d)
<1> DEFINE list == L(d)
<1>8. q \in exists
  BY <1>3, <1>6, <1>7, NothingBelow
<1> HIDE DEF e
<1>9. HasWatch(i.wd_table, wd, d) /\ i.kernel = i.wd_table
  BY <1>3, <1>6 DEF HasWatch, IdleGood
<1>10. /\ IsTaken(i, wd, d, j, s, v) /\ v = Left(i.wd_table, s, wd, d)
  <2>1. MayTake(i, wd, d, name)
    BY <1>3, <1>6, <1>9 DEF MayTake
  <2>2. s = Shortened(i.dir_table, d, name) /\ j = Taken(i, wd, d, name)
    OBVIOUS
  <2> HIDE DEF s, j, wd, name
  <2> QED
    BY <2>1, <2>2, TakenInfo
<1>11. /\ InfoType(j) /\ j.dir_table = s /\ j.wd_table = v
  <2> HIDE DEF s, j, wd, v
  <2> QED
    BY <1>10 DEF IsTaken
<1>12. s \in [Dirs -> Seq(Names)] /\ Shrunk(i.dir_table, s, d, q)
  <2>1. s = Shortened(i.dir_table, d, name) /\ q = Append(d, name)
    OBVIOUS
  <2> HIDE DEF s, q, name
  <2> QED
    BY <1>3, <1>6, <2>1, ListShortened DEF name
<1>13. /\ OnTheWay(s, v, F, exists, {q})
       /\ q \notin Dirs \/ Empty(s, q) => OnTheWay(s, v, F, exists, {})
  <2> HIDE DEF s, q, wd, v
  <2> QED
    BY <1>3, <1>6, <1>8, <1>10, <1>12, TakenOnWay
<1>14. n \in Nat /\ IsFiniteSet(v) /\ Cardinality(v) <= n
  <2>1. n = IF Empty(s, d) THEN job.nwatch - 1 ELSE job.nwatch
    <3>1. n = IF j.dir_table[d] = <<>> THEN job.nwatch - 1 ELSE job.nwatch
      OBVIOUS
    <3> HIDE DEF n, j, s
    <3> QED
      BY <1>11, <3>1 DEF Empty
  <2>2. Cardinality(i.wd_table) \in Nat
    BY <1>3, FS_CardinalityType
  <2>3. CASE ~Empty(s, d)
    <3>1. v = i.wd_table
      BY <2>3 DEF Left
    <3> HIDE DEF v, n, s
    <3> QED
      BY <1>3, <2>1, <2>3, <3>1
  <2>4. CASE Empty(s, d)
    <3>1. v = i.wd_table \ {<<wd, d>>} /\ <<wd, d>> \in i.wd_table
      BY <1>6, <2>4 DEF Left
    <3> HIDE DEF v, n, s, wd
    <3>2. IsFiniteSet(v) /\ Cardinality(v) = Cardinality(i.wd_table) - 1
      BY <1>3, <3>1, FS_RemoveElement
    <3> QED
      BY <1>1, <1>3, <2>1, <2>2, <2>4, <3>2
  <2> QED
    BY <2>3, <2>4
<1>15. CASE list = <<>>
  <2>1. /\ job' = ReadJob(w, n) /\ info' = [info EXCEPT ![w] = j]
        /\ Report(w, q, n = 0)
    BY <1>2, <1>15
  <2>2. q \notin Dirs \/ Empty(s, q)
    <3>1. list = IF q \in Dirs THEN j.dir_table[q] ELSE <<>>
      OBVIOUS
    <3> HIDE DEF list, q, j, s
    <3> QED
      BY <1>11, <1>15, <3>1 DEF Empty
  <2> HIDE DEF j, n, q, s, v
  <2>3. OnTheWay(s, v, F, exists, {})
    BY <1>13, <2>2
  <2>4. /\ job'.mode = "read" /\ job'.w = w /\ job'.nwatch = n
        /\ ~AddsFor(job', w)
    BY <1>3, <1>14, <2>1, ReadJobFields
  <2>5. info'[w] = j
    BY <1>3, <2>1
  <2>6. Open(job', w) = {} /\ AtWork(job', w)
    BY <2>4 DEF Open, AtWork
  <2>7. LooksFor(j, job', w, exists)
    BY <1>11, <1>14, <2>3, <2>4, <2>6 DEF LooksFor, F
  <2>8. finals'[w] > 0 => F \subseteq exists
    <3> DEFINE final == n = 0
    <3>1. Report(w, q, final)
      BY <2>1
    <3> HIDE DEF final
    <3>2. finals'[w] = IF final THEN finals[w] + 1 ELSE finals[w]
      BY <1>3, <3>1, ReportType
    <3>3. finals'[w] > 0 => n = 0
      BY <1>4, <3>2 DEF final
    <3>4. n = 0 => F \subseteq exists
      BY <1>12, <1>14, <2>3, CountedOut
    <3> QED
      BY <3>3, <3>4
  <2> QED
    BY <2>5, <2>6, <2>7, <2>8 DEF WaitShown, WaitGood, w, F
<1>16. CASE list # <<>>
  <2> DEFINE items == [k \in DOMAIN list |-> Append(q, list[k])]
  <2> DEFINE z == SetList(j, q, <<>>)
  <2>1. /\ job' = AddJob(w, "event", items, n)
        /\ info' = [info EXCEPT ![w] = z] /\ finals' = finals
    BY <1>2, <1>16
  <2>2. q \in Dirs /\ list = s[q]
    <3>1. list = IF q \in Dirs THEN j.dir_table[q] ELSE <<>>
      OBVIOUS
    <3> HIDE DEF list, q, j, s
    <3> QED
      BY <1>11, <1>16, <3>1
  <2>3. TableType(s)
    BY <1>11 DEF InfoType
  <2> HIDE DEF j, n, q, list, s, v
  <2>4. s[q] \in Seq(Names)
    BY <1>12, <2>2
  <2>5. \A k \in DOMAIN list : list[k] \in Names /\ Append(q, list[k]) \in Paths
    BY <2>2, <2>3, TableSlots DEF Slot, Places
  <2>6. items \in Seq(Paths) /\ items # <<>> /\ DOMAIN items = DOMAIN list
    <3>1. DOMAIN list = 1..Len(list) /\ Len(list) \in Nat
      BY <2>2, <2>4
    <3>2. items \in [1..Len(list) -> Paths]
      BY <2>5, <3>1
    <3>3. Len(list) # 0
      BY <2>2, <2>4, <1>16
    <3>4. items \in Seq(Paths)
      BY <3>1, <3>2, SeqDef
    <3>5. DOMAIN items = DOMAIN list
      OBVIOUS
    <3>6. 1 \in DOMAIN items
      BY <3>1, <3>3, <3>5
    <3> HIDE DEF items
    <3>7. items # <<>>
      BY <3>6
    <3> QED
      BY <3>4, <3>5, <3>7
  <2>7. /\ DOMAIN items = Places(s, q)
        /\ \A k \in Places(s, q) : items[k] = Slot(s, q, k)
    BY <2>2, <2>6 DEF Places, Slot
  <2> HIDE DEF items
  <2>8. /\ job'.mode = "event" /\ job'.w = w /\ job'.path = Head(items)
        /\ job'.todo = items /\ job'.step = "dir" /\ job'.nwatch = n
    BY <1>3, <1>14, <2>1, <2>6, AddJobFields
  <2>9. /\ z.dir_table = SetTable(s, q, <<>>) /\ z.wd_table = v
    <3>1. IsInfo(j)
      BY <1>11 DEF InfoType, IsInfo
    <3> QED
      BY <1>11, <3>1, ListSet
  <2> HIDE DEF z
  <2>10. info'[w] = z
    BY <1>3, <2>1
  <2>11. AddsFor(job', w) /\ AtWork(job', w) /\ AtHand(job') = Head(items)
    BY <2>8 DEF AddsFor, AtWork, AtHand
  <2>12. Open(job', w) = Elems(items)
    BY <2>6, <2>8, <2>11, ElemsSplit DEF Open
  <2>13. OnTheWay(z.dir_table, v, F, exists, Elems(items))
    <3> DEFINE t == SetTable(s, q, <<>>)
    <3>1. t = [s EXCEPT ![q] = <<>>]
      BY DEF SetTable
    <3> HIDE DEF t
    <3> QED
      BY <1>5, <1>12, <1>13, <2>2, <2>7, <2>9, <3>1, MovedOnWay DEF t
  <2>14. LooksFor(z, job', w, exists)
    BY <1>14, <2>8, <2>9, <2>12, <2>13 DEF LooksFor, F
  <2>15. ~(finals'[w] > 0)
    BY <1>4, <2>1
  <2> QED
    BY <2>10, <2>11, <2>14, <2>15 DEF WaitShown, WaitGood, w
<1> QED
  BY <1>15, <1>16

\* Whichever step the watcher takes, unless inotify fails it.
LEMMA JobStepWaits ==
    ASSUME WaitFacts, JobStep, job.w \notin failed'
    PROVE  WaitShown
<1>1. CASE AddToList
  BY <1>1, AddToListWaits
<1>2. CASE AddList
  BY <1>2, AddListWaits
<1>3. CASE AddWatch
  BY <1>3, AddWatchWaits
<1>4. CASE CheckFile
  BY <1>4, CheckFileWaits
<1>5. CASE CallbackReturns
  BY <1>5, CallbackReturnsWaits
<1>6. CASE IgnoreEvents
  BY <1>6, IgnoreEventsWaits
<1>7. CASE TakeEvent
  BY <1>7, TakeEventWaits
<1> QED
  BY <1>1, <1>2, <1>3, <1>4, <1>5, <1>6, <1>7 DEF JobStep

-----------------------------------------------------------------------------
(* The end of a wait is told only when all its files exist.                *)

\* What is known of one watcher that was started and that inotify did not
\* fail.
OneWaits(w) ==
    calm /\ w \notin failed /\ w < launcher.line =>
        WaitGood(info[w], job, w, finals[w], exists)

WaitInv == \A w \in Watchers : OneWaits(w)

\* Whether a watcher is good does not depend on the job of another.
LEMMA BystanderWaits ==
    ASSUME NEW w \in Watchers, OneWaits(w), ~AtWork(job, w), ~AtWork(job, w)',
           info'[w] = info[w], finals'[w] = finals[w], exists' = exists,
           calm' = calm, failed \subseteq failed',
           w \notin failed' /\ w < launcher'.line => w < launcher.line
    PROVE  OneWaits(w)'
<1> SUFFICES ASSUME calm', w \notin failed', w < launcher'.line
             PROVE  WaitGood(info'[w], job', w, finals'[w], exists')
  BY DEF OneWaits
<1>1. WaitGood(info[w], job, w, finals[w], exists)
  BY DEF OneWaits
<1>2. Open(job, w) = {} /\ Open(job', w) = {}
  BY DEF AtWork, AddsFor, Open
<1>3. ~AddsFor(job', w)
  BY DEF AtWork, AddsFor
<1> QED
  BY <1>1, <1>2, <1>3 DEF WaitGood, LooksFor

\* What exists stays, hence nothing is lost when more of it does.
LEMMA MoreOnWay ==
    ASSUME NEW t, NEW v, NEW F, NEW ex, NEW more, ex \subseteq more, NEW S,
           OnTheWay(t, v, F, ex, S)
    PROVE  OnTheWay(t, v, F, more, S)
BY DEF OnTheWay

\* A watcher that starts has all the files of its line before it.
LEMMA NewWaits ==
    ASSUME NEW w \in Watchers, NEW j,
           j = AddJob(w, "start", Script[w].files, 0)
    PROVE  /\ LooksFor(NewInfo, j, w, exists) /\ AtWork(j, w)
           /\ j.mode = "start" /\ j.w = w
<1> DEFINE files == Script[w].files
<1>1. files \in Seq(Paths) /\ files # <<>>
  <2>1. files \in Seq(Paths \ Dirs) /\ files # <<>>
    BY LauncherAssumption
  <2> QED
    BY <2>1, SeqMonotonic
<1>2. /\ j.mode = "start" /\ j.w = w /\ j.path = Head(files)
      /\ j.todo = files /\ j.step = "dir" /\ j.nwatch = 0 /\ AddsFor(j, w)
  <2> DEFINE z == 0
  <2>1. z \in Nat /\ "start" \in {"start", "event"}
    OBVIOUS
  <2> HIDE DEF z, files
  <2>2. j = AddJob(w, "start", files, z)
    BY DEF z, files
  <2>3. /\ j.mode = "start" /\ j.w = w /\ j.path = Head(files)
        /\ j.todo = files /\ j.step = "dir" /\ j.nwatch = z /\ AddsFor(j, w)
    BY <1>1, <2>1, <2>2, AddJobFields
  <2> QED
    BY <2>3 DEF z
<1>3. Open(j, w) = Files(w)
  <2>1. Files(w) = Elems(files)
    BY DEF Files, Elems
  <2> HIDE DEF files
  <2> QED
    BY <1>1, <1>2, <2>1, ElemsSplit DEF Open, AtHand
<1>4. /\ \A d \in Dirs : Empty(NewInfo.dir_table, d)
      /\ NewInfo.wd_table = {}
  BY DEF NewInfo, Empty
<1>5. OnTheWay(NewInfo.dir_table, NewInfo.wd_table, Files(w), exists,
               Open(j, w))
  BY <1>3, <1>4 DEF OnTheWay
<1>6. Cardinality(NewInfo.wd_table) = 0
  BY <1>4, FS_EmptySet
<1>7. AtWork(j, w)
  BY <1>2 DEF AtWork
<1> QED
  BY <1>2, <1>5, <1>6, <1>7 DEF LooksFor

\* A W line.
LEMMA WaitWaits ==
    ASSUME ProcessInv, RunInv, WaitInv, Wait
    PROVE  WaitInv'
<1> DEFINE l == launcher.line
<1>1. /\ l \in Watchers /\ job = NoJob /\ info' = info /\ exists' = exists
      /\ finals' = finals /\ calm' = calm
      /\ \/ job' = AddJob(l, "start", Script[l].files, 0) /\ failed' = failed
         \/ job' = NoJob /\ failed' = failed \cup {l}
  BY DEF Wait, StartWatch, NoReport, Line
<1>2. launcher'.line = l + 1 /\ l \in Nat /\ Watchers \subseteq Nat
  BY LauncherAssumption DEF Wait, ProcessInv, LauncherType
<1>3. \A w \in Watchers : ~AtWork(job, w)
  BY <1>1, NoJobFields DEF AtWork
<1>4. \A w \in Watchers \ {l} : ~AtWork(job', w)
  BY <1>1, NewWaits, NoJobFields DEF AtWork
<1>5. ASSUME NEW w \in Watchers
      PROVE  OneWaits(w)'
  <2>1. OneWaits(w)
    BY DEF WaitInv
  <2>2. CASE w # l
    <3>1. w < launcher'.line => w < launcher.line
      BY <1>2, <2>2
    <3>2. failed \subseteq failed'
      BY <1>1
    <3> QED
      BY <1>1, <1>3, <1>4, <2>1, <2>2, <3>1, <3>2, BystanderWaits
  <2>3. CASE w = l /\ w \in failed'
    BY <2>3 DEF OneWaits
  <2>4. CASE w = l /\ w \notin failed'
    <3>1. job' = AddJob(w, "start", Script[w].files, 0)
      BY <1>1, <2>4
    <3>2. finals[w] = 0 /\ info[w] = NewInfo
      BY <1>2, <2>4 DEF RunInv
    <3>3. LooksFor(info'[w], job', w, exists) /\ AtWork(job', w)
      BY <1>1, <3>1, <3>2, NewWaits
    <3>4. ~(finals'[w] > 0)
      BY <1>1, <3>2
    <3> QED
      BY <1>1, <3>3, <3>4 DEF OneWaits, WaitGood
  <2> QED
    BY <2>2, <2>3, <2>4
<1> QED
  BY <1>5 DEF WaitInv

\* The callback counts the watches before it starts.
LEMMA FilesChangedWaits ==
    ASSUME WatchInv, ProcessInv, RunInv, WaitInv,
           NEW w \in Watchers, FilesChanged(w)
    PROVE  WaitInv'
<1> DEFINE n == Cardinality(info[w].wd_table)
<1>1. /\ job = NoJob /\ info' = info /\ exists' = exists /\ finals' = finals
      /\ calm' = calm /\ launcher' = launcher /\ job' = ReadJob(w, n)
      /\ info[w].source /\ failed' = failed
  BY DEF FilesChanged, WatcherCallback, NoReport, launcherVars, EventsReady
<1>2. n \in Nat
  BY WdDirs, FS_CardinalityType DEF InfosGood, WatchInv
<1>3. info[w].source = TRUE
  BY <1>1, WdDirs DEF WatchInv, InfosGood
<1>4. job'.mode = "read" /\ job'.w = w /\ ~AddsFor(job', w) /\ job'.nwatch = n
  <2> HIDE DEF n
  <2> QED
    BY <1>1, <1>2, ReadJobFields
<1>5. /\ \A u \in Watchers : ~AtWork(job, u) /\ ~AddsFor(job, u)
      /\ \A u \in Watchers \ {w} : ~AtWork(job', u)
      /\ AtWork(job', w)
  BY <1>1, <1>4, NoJobFields DEF AtWork
<1>6. ASSUME NEW u \in Watchers
      PROVE  OneWaits(u)'
  <2>1. OneWaits(u)
    BY DEF WaitInv
  <2>2. CASE u # w
    <3> HIDE DEF n
    <3> QED
      BY <1>1, <1>5, <2>1, <2>2, BystanderWaits
  <2>3. CASE u = w
    <3> SUFFICES ASSUME calm', w \notin failed', w < launcher'.line
                 PROVE  WaitGood(info'[w], job', w, finals'[w], exists')
      BY <2>3 DEF OneWaits
    <3>1. WaitGood(info[w], job, w, finals[w], exists)
      BY <1>1, <2>1, <2>3 DEF OneWaits
    <3>2. LooksFor(info[w], job, w, exists)
      BY <1>3, <3>1 DEF WaitGood
    <3>3. Open(job, w) = {} /\ Open(job', w) = {}
      BY <1>4, <1>5 DEF Open
    <3>4. Cardinality(info[w].wd_table) <= job'.nwatch
      BY <1>2, <1>4
    <3> HIDE DEF n
    <3>5. LooksFor(info[w], job', w, exists)
      BY <1>4, <3>2, <3>3, <3>4 DEF LooksFor
    <3> QED
      BY <1>1, <1>5, <3>1, <3>5 DEF WaitGood
  <2> QED
    BY <2>2, <2>3
<1> QED
  BY <1>6 DEF WaitInv

\* A step of the watcher at work.
LEMMA WatchStepWaits ==
    ASSUME WatchInv, ProcessInv, RunInv, CalmInv, WaitInv, WatchStep
    PROVE  WaitInv'
<1> DEFINE w == job.w
<1>1. JobStep /\ calm' = calm /\ job # NoJob
  BY DEF WatchStep
<1>2. /\ job \in JobType /\ finals \in [Watchers -> Nat]
      /\ InfosGood(info, job)
  BY DEF WatchInv
<1>3. /\ exists' = exists /\ w \in Watchers
      /\ \A u \in Watchers \ {w} : finals'[u] = finals[u]
  BY <1>1, <1>2, JobStepFinals
<1>4. job.mode # "none"
  BY <1>1, <1>2, JobFields
<1>5. JobFacts
  BY <1>2, <1>3, <1>4 DEF JobFacts, RunInv
<1>6. StepShown
  BY <1>1, <1>5, JobStepCalm
<1>7. launcher'.line = launcher.line
  BY LineStays
<1>8. calm => CalmFacts
  BY <1>3 DEF CalmInv, CalmFacts
<1>9. /\ \A u \in Watchers \ {w} : info'[u] = info[u]
      /\ job'.mode = "none" \/ job'.w = w
  BY <1>6 DEF StepShown, StepGood
<1>10. failed \subseteq failed'
  BY <1>1 DEF JobStep, AddToList, AddList, AddWatch, CheckFile,
        CallbackReturns, IgnoreEvents, TakeEvent
<1>11. ASSUME NEW u \in Watchers
       PROVE  OneWaits(u)'
  <2>1. OneWaits(u)
    BY DEF WaitInv
  <2>2. CASE u # w
    <3>1. ~AtWork(job, u) /\ ~AtWork(job', u)
      BY <1>9, <2>2 DEF AtWork
    <3> QED
      BY <1>1, <1>3, <1>7, <1>9, <1>10, <2>1, <2>2, <3>1, BystanderWaits
  <2>3. CASE u = w
    <3> SUFFICES ASSUME calm', w \notin failed', w < launcher'.line
                 PROVE  WaitGood(info'[w], job', w, finals'[w], exists')
      BY <2>3 DEF OneWaits
    <3>1. WaitGood(info[w], job, w, finals[w], exists)
      BY <1>1, <1>7, <1>10, <2>1, <2>3 DEF OneWaits
    <3>2. AtWork(job, w)
      BY <1>4 DEF AtWork
    <3>3. WaitFacts
      BY <1>1, <1>5, <1>8, <3>1, <3>2 DEF WaitFacts, WaitGood
    <3>4. WaitShown
      BY <1>1, <3>3, JobStepWaits
    <3> QED
      BY <1>3, <3>4 DEF WaitShown
  <2> QED
    BY <2>2, <2>3
<1> QED
  BY <1>11 DEF WaitInv

\* A file appears while the launcher is at rest.
LEMMA FileAppearsWaits ==
    ASSUME WatchInv, ProcessInv, WaitInv, NEW p \in Paths, FileAppears(p)
    PROVE  WaitInv'
<1> DEFINE Q(w) == info[w].queue \o
                    SetToSeq(NewEvents(info[w].kernel, Dir(p), Name(p)))
<1>1. /\ exists' = exists \cup {p}
      /\ job' = job /\ finals' = finals /\ calm' = calm
      /\ launcher' = launcher /\ failed' = failed
      /\ info' = [w \in Watchers |-> SetQueue(info[w], Q(w))]
  BY DEF FileAppears, Appears, NoReport, launcherVars, SetQueue, NewEvents
<1> HIDE DEF Q
<1>2. ASSUME NEW w \in Watchers
      PROVE  OneWaits(w)'
  <2> SUFFICES ASSUME calm', w \notin failed', w < launcher'.line
               PROVE  WaitGood(info'[w], job', w, finals'[w], exists')
    BY DEF OneWaits
  <2>1. WaitGood(info[w], job, w, finals[w], exists)
    BY <1>1 DEF WaitInv, OneWaits
  <2> DEFINE i == info[w]
  <2> DEFINE j == info'[w]
  <2>2. InfoType(i) /\ j = SetQueue(i, Q(w))
    BY <1>1 DEF WatchInv, InfosGood
  <2>3. /\ j.dir_table = i.dir_table /\ j.wd_table = i.wd_table
        /\ j.source = i.source
    <3> HIDE DEF i, j
    <3> QED
      BY <2>2, QueueChanged
  <2>4. exists \subseteq exists'
    BY <1>1
  <2>5. LooksFor(i, job, w, exists) => LooksFor(j, job, w, exists')
    BY <2>3, <2>4, MoreOnWay DEF LooksFor
  <2> QED
    BY <1>1, <2>1, <2>3, <2>4, <2>5 DEF WaitGood
<1> QED
  BY <1>2 DEF WaitInv

\* A step that the watchers take no part in.
LEMMA OthersWait ==
    ASSUME WaitInv, UNCHANGED watchVars, calm' = calm,
           \A w \in Watchers : w < launcher'.line => w < launcher.line
    PROVE  WaitInv'
BY DEF WaitInv, OneWaits, watchVars

\* Every step of the launcher keeps the invariant.
LEMMA WaitStepInv ==
    ASSUME WatchInv, ProcessInv, RunInv, CalmInv, WaitInv, [LauncherNext]_vars
    PROVE  WaitInv'
<1>1. /\ Watchers \subseteq Nat /\ launcher.line \in Nat
      /\ \A w \in Watchers : Script[w].c = "W"
  BY LauncherAssumption DEF ProcessInv, LauncherType
<1>2. CASE Launch
  <2>1. /\ UNCHANGED watchVars /\ calm' = calm
        /\ launcher'.line = launcher.line + 1
        /\ Script[launcher.line].c # "W"
    BY <1>2 DEF Launch, Line, ProcessInv, LauncherType
  <2>2. \A w \in Watchers : w < launcher'.line => w < launcher.line
    BY <1>1, <2>1
  <2> QED
    BY <2>1, <2>2, OthersWait
<1>3. CASE CloseScript \/ ContinueLaunch
  <2>1. /\ UNCHANGED watchVars /\ calm' = calm
        /\ launcher'.line = launcher.line
    BY <1>3 DEF CloseScript, ContinueLaunch, ProcessInv, LauncherType
  <2> QED
    BY <2>1, OthersWait
<1>4. CASE Wait
  BY <1>4, WaitWaits
<1>5. CASE WatchStep
  BY <1>5, WatchStepWaits
<1>6. ASSUME NEW w \in Watchers, FilesChanged(w)
      PROVE  WaitInv'
  BY <1>6, FilesChangedWaits
<1>7. ASSUME NEW l \in Lines, ChildDown(l) \/ CommandEnds(l) \/ CloneReads(l)
      PROVE  WaitInv'
  <2>1. /\ UNCHANGED watchVars /\ calm' = calm
        /\ launcher'.line = launcher.line
    BY <1>7 DEF ChildDown, CommandEnds, CloneReads, ProcessInv, LauncherType
  <2> QED
    BY <2>1, OthersWait
<1>8. ASSUME NEW p \in Paths, FileAppears(p)
      PROVE  WaitInv'
  BY <1>8, FileAppearsWaits
<1>9. CASE UNCHANGED vars
  <2>1. UNCHANGED watchVars /\ calm' = calm /\ launcher' = launcher
    BY <1>9 DEF vars, launcherVars
  <2> QED
    BY <2>1, OthersWait
<1> QED
  BY <1>2, <1>3, <1>4, <1>5, <1>6, <1>7, <1>8, <1>9 DEF LauncherNext

\* When the launcher starts no line was read.
LEMMA InitWaits == LauncherInit => WaitInv
<1> SUFFICES ASSUME LauncherInit
             PROVE  WaitInv
  OBVIOUS
<1>1. \A w \in Watchers : ~(w < launcher.line)
  BY LauncherAssumption DEF LauncherInit
<1> QED
  BY <1>1 DEF WaitInv, OneWaits

\* As long as files appear only while the launcher is at rest, the end of a
\* wait that inotify did not fail is reported, as is_final, only when every
\* file of its line exists, for every script and every tree of paths: through
\* missing directories no file is ever dropped from the lists of its watcher.
THEOREM FinalIsHonest ==
    LauncherSpec =>
        [](calm => \A w \in Watchers \ failed :
                        finals[w] > 0 => Files(w) \subseteq exists)
<1> DEFINE Inv == WatchInv /\ ProcessInv /\ RunInv /\ CalmInv /\ WaitInv
<1>1. LauncherInit => Inv
  BY InitGood, InitCalm, InitWaits
<1>2. Inv /\ [LauncherNext]_vars => Inv'
  BY WatchStepInv, ProcessStepInv, CalmStepInv, WaitStepInv
<1>3. ASSUME Inv, calm, NEW w \in Watchers \ failed, finals[w] > 0
      PROVE  Files(w) \subseteq exists
  <2>1. w < launcher.line
    <3>1. ~(launcher.line <= w)
      BY <1>3 DEF RunInv
    <3>2. w \in Nat /\ launcher.line \in Nat
      BY <1>3, LauncherAssumption DEF ProcessInv, LauncherType
    <3> QED
      BY <3>1, <3>2
  <2> QED
    BY <1>3, <2>1 DEF WaitInv, OneWaits, WaitGood
<1>4. Inv => (calm => \A w \in Watchers \ failed :
                        finals[w] > 0 => Files(w) \subseteq exists)
  BY <1>3
<1> QED
  BY <1>1, <1>2, <1>4, PTL DEF LauncherSpec

-----------------------------------------------------------------------------
(* One wait at a time.                                                     *)

\* A watcher that has nothing to do: not started, or its wait is over.
Blank(w) == ~AtWork(job, w) /\ info[w].source # TRUE

\* No W line was read after one whose wait was over at once.
InStep ==
    calm /\ \A v \in atOnce, u \in Watchers : v < u => launcher.line <= u

\* Until then at most one watcher has something to do.  The launcher reads its
\* script only while that is nobody or the watcher it is about to start; it is
\* to read on only after that watcher has reported its end, and while it reads
\* only after a wait that was over at once.
LayerInv ==
    InStep =>
        /\ \A v, w \in Watchers : Blank(v) \/ Blank(w) \/ v = w
        /\ launcher.busy => job.mode \in {"none", "start"}
        /\ launcher.busy => \A w \in Watchers : Blank(w) \/ AtWork(job, w)
        /\ launcher.idles > 0 =>
                /\ launcher.idles = 1
                /\ \A w \in Watchers : Blank(w) \/ finals[w] = 1
                /\ launcher.busy => atOnce # {}

\* A wait that was over at once was read and has reported its end.
AtOnceInv == \A v \in atOnce : v < launcher.line /\ finals[v] > 0

\* A wait that was read ahead of every one that was over at once, or is the
\* first of those, was over when the next line was read.
PassedInv ==
    calm => \A l \in Lines, w \in Watchers \ failed :
        w < l /\ l < launcher.line /\ (\A v \in atOnce : w <= v)
            => Files(w) \subseteq exists

\* What was launched are lines that were read.
LaunchedInv == \A l \in launched : l < launcher.line

\* All that is needed of the waits of a script.
ScriptInv ==
    /\ WatchInv /\ ProcessInv /\ RunInv /\ CalmInv /\ WaitInv
    /\ LayerInv /\ AtOnceInv /\ PassedInv /\ LaunchedInv

\* What _add_watch at the start is followed by.
LEMMA JobModes ==
    ASSUME job \in JobType, JobStep, job.mode = "start"
    PROVE  job'.mode \in {"start", "none"}
<1>1. job.w \in Watchers /\ job.nwatch \in Nat /\ job \in AddType
  BY JobFields, NoJobFields
<1>2. ASSUME NEW i, NEW n \in Nat, NextItem(i, n)
      PROVE  job'.mode \in {"start", "none"}
  <2> DEFINE rest == Tail(job.todo)
  <2>1. CASE rest = <<>>
    BY <1>2, <2>1, NoJobFields DEF NextItem
  <2>2. CASE rest # <<>>
    <3>1. job' = AddJob(job.w, "start", rest, n)
      BY <1>2, <2>2 DEF NextItem
    <3> QED
      BY <3>1 DEF AddJob
  <2> QED
    BY <2>1, <2>2
<1>3. job.nwatch + 1 \in Nat
  BY <1>1
<1>4. CASE AddToList
  BY <1>2, <1>3, <1>4 DEF AddToList, Added
<1>5. CASE AddList
  BY <1>1, <1>5 DEF AddList, AddType
<1>6. CASE AddWatch
  BY <1>1, <1>2, <1>6 DEF AddWatch, AddType
<1>7. CASE CheckFile
  BY <1>1, <1>2, <1>3, <1>7 DEF CheckFile, Ready, Added
<1> QED
  BY <1>4, <1>5, <1>6, <1>7
     DEF JobStep, CallbackReturns, IgnoreEvents, TakeEvent

\* What a step of the watcher means to the launcher: it stops reading when
\* there is a source to wait for, and a source is added at the end of a wait.
LEMMA ReadsOn ==
    ASSUME WatchInv, ProcessInv, WatchStep
    PROVE  /\ launcher'.line = launcher.line /\ launcher'.open = launcher.open
           /\ launcher'.busy => launcher.busy
           /\ launcher'.busy /\ job.mode = "start" /\ job'.mode = "none"
                => info'[job.w].source # TRUE
           /\ launcher'.idles =
                    launcher.idles + (finals'[job.w] - finals[job.w])
<1> DEFINE w == job.w
<1> DEFINE n == finals'[w] - finals[w]
<1> DEFINE l == SocketReady(launcher, w, n)
<1> DEFINE waits == job.mode = "start" /\ job'.mode = "none"
                    /\ info'[w].source
<1>1. launcher' = IF waits THEN [l EXCEPT !.socket_watcher = w, !.busy = FALSE]
                           ELSE l
  BY Zenon DEF WatchStep
<1>2. n \in {0, 1}
  <2>1. /\ w \in Watchers /\ finals[w] \in Nat
        /\ finals'[w] \in {finals[w], finals[w] + 1}
    BY JobStepFinals DEF WatchInv, WatchStep
  <2> QED
    BY <2>1
<1> DEFINE idles == launcher.idles + n
<1>3. launcher \in LauncherType /\ launcher.idles \in Nat
  BY DEF ProcessInv, LauncherType
<1>4. /\ l.line = launcher.line /\ l.open = launcher.open
      /\ l.busy = launcher.busy /\ l.idles = launcher.idles + n
      /\ DOMAIN l = DOMAIN launcher
  <2>1. n = 0 => l = launcher /\ launcher.idles + n = launcher.idles
    BY <1>3 DEF SocketReady
  <2>2. n # 0 => l = [launcher EXCEPT !.socket_watcher = 0, !.idles = idles]
    BY DEF SocketReady
  <2> HIDE DEF l, n
  <2> QED
    BY <1>3, <2>1, <2>2 DEF LauncherType
<1>5. {"line", "open", "busy", "idles"} \subseteq DOMAIN l
  BY <1>3, <1>4 DEF LauncherType
<1> HIDE DEF l, n
<1>6. CASE waits
  <2>1. launcher' = [l EXCEPT !.socket_watcher = w, !.busy = FALSE]
    BY <1>1, <1>6
  <2>2. /\ launcher'.line = l.line /\ launcher'.open = l.open
        /\ launcher'.busy = FALSE /\ launcher'.idles = l.idles
    BY <1>5, <2>1
  <2> QED
    BY <1>4, <2>2 DEF n
<1>7. CASE ~waits
  <2>1. launcher' = l
    BY <1>1, <1>7
  <2>2. job.mode = "start" /\ job'.mode = "none" => info'[w].source # TRUE
    BY <1>7
  <2> QED
    BY <1>4, <2>1, <2>2 DEF n
<1> QED
  BY <1>6, <1>7

\* What is in step after a step was in step before.
LEMMA InStepBefore ==
    ASSUME ProcessInv, InStep', calm' = calm, atOnce \subseteq atOnce',
           launcher'.line \in {launcher.line, launcher.line + 1}
    PROVE  InStep
<1>1. launcher.line \in Nat /\ Watchers \subseteq Nat
  BY LauncherAssumption DEF ProcessInv, LauncherType
<1>2. \A u \in Watchers : launcher'.line <= u => launcher.line <= u
  BY <1>1
<1> QED
  BY <1>2 DEF InStep

\* A step of the watcher at work.
LEMMA WatchStepLayer ==
    ASSUME WatchInv, ProcessInv, RunInv, CalmInv, LayerInv, WatchStep
    PROVE  LayerInv'
<1>1. /\ JobStep /\ calm' = calm /\ job # NoJob
      /\ launcher'.line = launcher.line
      /\ atOnce' = IF OverAtOnce THEN atOnce \cup {job.w} ELSE atOnce
  BY LineStays DEF WatchStep
<1>2. /\ job \in JobType /\ finals \in [Watchers -> Nat]
      /\ InfosGood(info, job)
  BY DEF WatchInv
<1> PICK w \in Watchers : w = job.w
  BY <1>1, <1>2, JobStepFinals
<1>3. /\ finals'[w] \in {finals[w], finals[w] + 1}
      /\ \A u \in Watchers \ {w} : finals'[u] = finals[u]
  BY <1>1, <1>2, JobStepFinals
<1>4. job.mode # "none"
  BY <1>1, <1>2, JobFields
<1>5. JobFacts
  BY <1>2, <1>3, <1>4 DEF JobFacts, RunInv
<1>6. StepShown
  BY <1>1, <1>5, JobStepCalm
<1>7. /\ \A u \in Watchers \ {w} : info'[u] = info[u]
      /\ job'.mode = "none" \/ job'.w = w
  BY <1>6 DEF StepShown, StepGood
<1> SUFFICES ASSUME InStep'
             PROVE  LayerInv'
  BY DEF LayerInv
<1>i. InStep /\ calm
  <2>1. atOnce \subseteq atOnce'
    BY <1>1
  <2> QED
    BY <1>1, <2>1, InStepBefore DEF InStep
<1>8. CalmGood(info'[w], job', w, finals'[w], exists)
  BY <1>i, <1>3, <1>6 DEF StepShown, CalmStep, CalmInv, CalmFacts
<1>9. finals[w] \in {0, 1}
  BY <1>i, <1>3 DEF CalmInv, CalmGood
<1>10. AtWork(job, w) /\ ~Blank(w)
  BY <1>4 DEF AtWork, Blank
<1>11. \A u \in Watchers \ {w} : Blank(u)
  BY <1>i, <1>3, <1>10 DEF LayerInv
<1>12. \A u \in Watchers \ {w} : Blank(u)'
  BY <1>7, <1>11 DEF Blank, AtWork
<1>b. ASSUME launcher'.busy
      PROVE  launcher.busy /\ job.mode = "start"
  BY <1>b, <1>i, <1>4, ReadsOn DEF LayerInv
<1>13. ASSUME launcher'.busy
       PROVE  /\ job'.mode \in {"none", "start"}
              /\ Blank(w)' \/ AtWork(job', w)
  <2>1. job.mode = "start"
    BY <1>b, <1>13
  <2>2. job'.mode \in {"start", "none"}
    BY <1>1, <1>2, <2>1, JobModes
  <2>3. CASE job'.mode = "none"
    <3>1. info'[w].source # TRUE
      BY <1>13, <2>1, <2>3, ReadsOn
    <3> QED
      BY <2>3, <3>1 DEF Blank, AtWork
  <2>4. CASE job'.mode = "start"
    BY <1>7, <2>4 DEF AtWork
  <2> QED
    BY <2>2, <2>3, <2>4
<1>14. ASSUME launcher'.idles > 0
       PROVE  /\ launcher'.idles = 1 /\ (Blank(w)' \/ finals'[w] = 1)
              /\ launcher'.busy => atOnce' # {}
  <2>1. /\ launcher'.idles = launcher.idles + (finals'[w] - finals[w])
        /\ launcher.idles \in Nat
    BY ReadsOn DEF ProcessInv, LauncherType
  <2>2. launcher.idles > 0 => launcher.idles = 1 /\ finals[w] = 1
    BY <1>i, <1>3, <1>10 DEF LayerInv
  <2>3. finals'[w] \in {0, 1}
    BY <1>8 DEF CalmGood
  <2>4. launcher'.idles = 1 /\ finals'[w] = 1
    BY <1>3, <1>9, <1>14, <2>1, <2>2, <2>3
  <2>5. ASSUME launcher'.busy
        PROVE  atOnce' # {}
    <3>1. CASE launcher.idles > 0
      <4>1. atOnce # {}
        BY <1>i, <1>b, <2>5, <3>1 DEF LayerInv
      <4> QED
        BY <1>1, <4>1
    <3>2. CASE ~(launcher.idles > 0)
      <4>1. finals'[w] # finals[w]
        BY <1>9, <2>1, <2>4, <3>2
      <4>2. OverAtOnce
        BY <1>b, <2>5, <4>1 DEF OverAtOnce
      <4> QED
        BY <1>1, <4>2
    <3> QED
      BY <3>1, <3>2
  <2> QED
    BY <2>4, <2>5
<1>15. \A v, u \in Watchers : Blank(v)' \/ Blank(u)' \/ v = u
  BY <1>12
<1>16. launcher'.busy => \A u \in Watchers : Blank(u)' \/ AtWork(job', u)
  BY <1>12, <1>13
<1>17. launcher'.idles > 0 =>
            \A u \in Watchers : Blank(u)' \/ finals'[u] = 1
  BY <1>12, <1>14
<1> QED
  BY <1>13, <1>14, <1>15, <1>16, <1>17 DEF LayerInv

\* Every step of the launcher keeps one wait at a time for as long as it is in
\* step: a W line that is read while an idle source is pending comes after one
\* whose wait was over at once.
LEMMA LayerStepInv ==
    ASSUME WatchInv, ProcessInv, RunInv, CalmInv, LayerInv, AtOnceInv,
           [LauncherNext]_vars
    PROVE  LayerInv'
<1>1. launcher \in LauncherType /\ launcher.idles \in Nat
  BY DEF ProcessInv, LauncherType
<1>2. ASSUME job' = job, info' = info, finals' = finals, calm' = calm,
             atOnce' = atOnce,
             launcher'.line \in {launcher.line, launcher.line + 1},
             launcher'.busy => launcher.busy,
             launcher'.idles = launcher.idles
      PROVE  LayerInv'
  <2>1. InStep' => InStep
    BY <1>2, InStepBefore
  <2> QED
    BY <1>2, <2>1 DEF LayerInv, Blank
<1>3. CASE Launch \/ CloseScript \/ UNCHANGED vars
  <2>1. /\ UNCHANGED watchVars /\ calm' = calm /\ atOnce' = atOnce
        /\ launcher'.line \in {launcher.line, launcher.line + 1}
        /\ launcher'.busy => launcher.busy
        /\ launcher'.idles = launcher.idles
    BY <1>1, <1>3 DEF Launch, CloseScript, vars, launcherVars, LauncherType
  <2> QED
    BY <1>2, <2>1 DEF watchVars
<1>4. ASSUME NEW l \in Lines, ChildDown(l) \/ CommandEnds(l) \/ CloneReads(l)
      PROVE  LayerInv'
  <2>1. /\ UNCHANGED watchVars /\ calm' = calm /\ atOnce' = atOnce
        /\ launcher'.line = launcher.line
        /\ launcher'.busy => launcher.busy
        /\ launcher'.idles = launcher.idles
    BY <1>1, <1>4 DEF ChildDown, CommandEnds, CloneReads, LauncherType
  <2> QED
    BY <1>2, <2>1 DEF watchVars
<1>5. CASE Wait
  <2> SUFFICES ASSUME InStep'
               PROVE  LayerInv'
    BY DEF LayerInv
  <2> DEFINE l == launcher.line
  <2>1. /\ l \in Watchers /\ job = NoJob /\ info' = info
        /\ calm' = calm /\ launcher.busy /\ atOnce' = atOnce
        /\ \/ job' = AddJob(l, "start", Script[l].files, 0)
           \/ job' = NoJob
    BY <1>5 DEF Wait, StartWatch, Line, Processing
  <2>2. launcher'.line = l + 1 /\ launcher'.idles = launcher.idles /\ l \in Nat
    BY <1>1, <1>5 DEF Wait, LauncherType
  <2>i. InStep
    BY <2>1, <2>2, InStepBefore
  <2>3. launcher'.idles = 0
    <3>1. ~(l + 1 <= l)
      BY <2>2
    <3>2. \A v \in atOnce : ~(v < l)
      BY <2>1, <2>2, <3>1 DEF InStep
    <3>3. atOnce = {}
      BY <3>2 DEF AtOnceInv
    <3>4. ~(launcher.idles > 0)
      BY <2>1, <2>i, <3>3 DEF LayerInv
    <3> QED
      BY <1>1, <2>2, <3>4
  <2>4. \A w \in Watchers : ~AtWork(job, w)
    BY <2>1, NoJobFields DEF AtWork
  <2>5. \A w \in Watchers : info[w].source # TRUE
    BY <2>1, <2>4, <2>i DEF LayerInv, Blank
  <2>6. /\ job'.mode \in {"none", "start"}
        /\ \A w \in Watchers \ {l} : ~AtWork(job', w)
    BY <2>1, NewWaits, NoJobFields DEF AtWork
  <2>7. \A w \in Watchers : Blank(w)' \/ AtWork(job', w)
    BY <2>1, <2>5 DEF Blank
  <2>8. \A w \in Watchers \ {l} : Blank(w)'
    BY <2>1, <2>5, <2>6 DEF Blank
  <2>9. \A v, w \in Watchers : Blank(v)' \/ Blank(w)' \/ v = w
    BY <2>8
  <2> QED
    BY <2>3, <2>6, <2>7, <2>9 DEF LayerInv
<1>6. CASE WatchStep
  BY <1>6, WatchStepLayer
<1>7. ASSUME NEW w \in Watchers, FilesChanged(w)
      PROVE  LayerInv'
  <2>1. /\ job = NoJob /\ info' = info /\ finals' = finals
        /\ calm' = calm /\ launcher' = launcher /\ info[w].source
        /\ atOnce' = atOnce
        /\ job' = ReadJob(w, Cardinality(info[w].wd_table))
        /\ ~launcher.busy
    BY <1>7 DEF FilesChanged, WatcherCallback, NoReport, launcherVars,
                EventsReady, InLoop
  <2>i. InStep' => InStep
    BY <2>1, InStepBefore
  <2>2. info[w].source = TRUE
    BY <2>1, WdDirs DEF WatchInv, InfosGood
  <2>3. \A u \in Watchers \ {w} : ~AtWork(job', u)
    BY <2>1 DEF AtWork, ReadJob
  <2>4. \A u \in Watchers : ~AtWork(job, u)
    BY <2>1, NoJobFields DEF AtWork
  <2>5. InStep => \A u \in Watchers \ {w} : Blank(u) /\ Blank(u)'
    BY <2>1, <2>2, <2>3 DEF LayerInv, Blank
  <2>6. InStep /\ launcher.idles > 0 => launcher.idles = 1 /\ finals[w] = 1
    BY <2>2 DEF LayerInv, Blank
  <2> QED
    BY <2>1, <2>i, <2>5, <2>6 DEF LayerInv
<1>8. CASE ContinueLaunch
  <2>1. /\ UNCHANGED watchVars /\ calm' = calm /\ launcher.idles > 0
        /\ atOnce' = atOnce /\ launcher'.line = launcher.line
        /\ launcher'.idles = launcher.idles - 1 /\ job = NoJob
    BY <1>1, <1>8 DEF ContinueLaunch, LauncherType, InLoop
  <2>i. InStep' => InStep /\ calm
    BY <2>1, InStepBefore DEF InStep
  <2>2. InStep => launcher'.idles = 0
    BY <2>1 DEF LayerInv
  <2>3. \A w \in Watchers : ~AtWork(job, w)
    BY <2>1, NoJobFields DEF AtWork
  <2>4. InStep /\ calm => \A w \in Watchers : Blank(w)
    BY <2>1, <2>3 DEF LayerInv, Blank, CalmInv, CalmGood
  <2>5. InStep /\ calm => \A w \in Watchers : Blank(w)'
    BY <2>1, <2>4 DEF watchVars, Blank
  <2>6. job'.mode = "none"
    BY <2>1, NoJobFields DEF watchVars
  <2> QED
    BY <2>i, <2>2, <2>5, <2>6 DEF LayerInv
<1>9. ASSUME NEW p \in Paths, FileAppears(p)
      PROVE  LayerInv'
  <2> DEFINE Q(w) == info[w].queue \o
                      SetToSeq(NewEvents(info[w].kernel, Dir(p), Name(p)))
  <2>1. /\ job' = job /\ finals' = finals /\ calm' = calm
        /\ launcher' = launcher /\ atOnce' = atOnce
        /\ info' = [w \in Watchers |-> SetQueue(info[w], Q(w))]
    BY <1>9 DEF FileAppears, Appears, NoReport, launcherVars, SetQueue,
                NewEvents
  <2> HIDE DEF Q
  <2>2. ASSUME NEW w \in Watchers
        PROVE  info'[w].source = info[w].source
    <3> DEFINE i == info[w]
    <3> DEFINE j == info'[w]
    <3>1. InfoType(i) /\ j = SetQueue(i, Q(w))
      BY <2>1 DEF WatchInv, InfosGood
    <3> HIDE DEF i, j
    <3>2. j.source = i.source
      BY <3>1, QueueChanged
    <3> QED
      BY <3>2 DEF i, j
  <2>3. \A w \in Watchers : Blank(w)' <=> Blank(w)
    BY <2>1, <2>2 DEF Blank
  <2>4. InStep' => InStep
    BY <2>1, InStepBefore
  <2> QED
    BY <2>1, <2>3, <2>4 DEF LayerInv
<1> QED
  BY <1>3, <1>4, <1>5, <1>6, <1>7, <1>8, <1>9 DEF LauncherNext

\* A wait that was over at once stays read and reported.
LEMMA AtOnceStepInv ==
    ASSUME WatchInv, ProcessInv, RunInv, AtOnceInv, [LauncherNext]_vars
    PROVE  AtOnceInv'
<1>1. /\ launcher \in LauncherType /\ launcher.line \in Nat
      /\ atOnce \subseteq Watchers /\ Watchers \subseteq Nat
      /\ finals \in [Watchers -> Nat] /\ job \in JobType
  BY LauncherAssumption DEF ProcessInv, LauncherType, WatchInv
<1>2. ASSUME atOnce' = atOnce, finals' = finals,
             launcher'.line \in {launcher.line, launcher.line + 1}
      PROVE  AtOnceInv'
  BY <1>1, <1>2 DEF AtOnceInv
<1>3. CASE Launch \/ CloseScript \/ ContinueLaunch \/ UNCHANGED vars
  BY <1>1, <1>2, <1>3 DEF Launch, CloseScript, ContinueLaunch, vars,
        watchVars, launcherVars, LauncherType
<1>4. CASE Wait
  BY <1>1, <1>2, <1>4 DEF Wait, StartWatch, NoReport, LauncherType
<1>5. CASE WatchStep
  <2>1. /\ JobStep /\ launcher'.line = launcher.line
        /\ atOnce' = IF OverAtOnce THEN atOnce \cup {job.w} ELSE atOnce
    BY <1>5, LineStays DEF WatchStep
  <2>2. PICK w \in Watchers : w = job.w
    BY <1>1, <2>1, JobStepFinals
  <2>3. /\ finals' \in [Watchers -> Nat]
        /\ \A u \in Watchers \ {w} : finals'[u] = finals[u]
        /\ finals'[w] \in {finals[w], finals[w] + 1}
    BY <1>1, <2>1, <2>2, JobStepFinals
  <2>4. \A u \in atOnce : u < launcher'.line /\ finals'[u] > 0
    BY <1>1, <2>1, <2>3 DEF AtOnceInv
  <2>5. ASSUME OverAtOnce
        PROVE  w < launcher'.line /\ finals'[w] > 0
    <3>1. finals'[w] # finals[w]
      <4>1. CASE finals'[w] = finals[w]
        <5>1. \A u \in Watchers : finals'[u] = finals[u]
          BY <2>3, <4>1
        <5>2. /\ finals' = [u \in Watchers |-> finals'[u]]
              /\ finals = [u \in Watchers |-> finals[u]]
          BY <1>1, <2>3
        <5>3. finals' = finals
          BY <5>1, <5>2, Zenon
        <5> QED
          BY <2>5, <5>3 DEF OverAtOnce
      <4> QED
        BY <4>1
    <3>2. finals'[w] > 0
      BY <1>1, <2>3, <3>1
    <3>3. AtWork(job, w)
      BY <2>2, <2>5 DEF OverAtOnce, AtWork
    <3>4. ~(launcher.line <= w)
      BY <3>3 DEF RunInv
    <3> QED
      BY <1>1, <2>1, <3>2, <3>4
  <2> QED
    BY <2>1, <2>2, <2>4, <2>5 DEF AtOnceInv
<1>6. ASSUME NEW w \in Watchers, FilesChanged(w)
      PROVE  AtOnceInv'
  BY <1>2, <1>6 DEF FilesChanged, WatcherCallback, NoReport, launcherVars
<1>7. ASSUME NEW l \in Lines, ChildDown(l) \/ CommandEnds(l) \/ CloneReads(l)
      PROVE  AtOnceInv'
  BY <1>1, <1>2, <1>7 DEF ChildDown, CommandEnds, CloneReads, watchVars,
        LauncherType
<1>8. ASSUME NEW p \in Paths, FileAppears(p)
      PROVE  AtOnceInv'
  BY <1>2, <1>8 DEF FileAppears, Appears, NoReport, launcherVars
<1> QED
  BY <1>3, <1>4, <1>5, <1>6, <1>7, <1>8 DEF LauncherNext

\* When the launcher reads a line, every wait above it that is not below one
\* that was over at once is over.
LEMMA ReadAfterWaits ==
    ASSUME ProcessInv, WaitInv, LayerInv, AtOnceInv, PassedInv, Processing,
           calm, NEW w \in Watchers \ failed, w < launcher.line,
           \A v \in atOnce : w <= v
    PROVE  Files(w) \subseteq exists
<1>1. /\ launcher.line \in Nat /\ launcher.busy /\ job = NoJob
      /\ atOnce \subseteq Watchers /\ Watchers \subseteq Lines
      /\ Watchers \subseteq Nat
  BY LauncherAssumption DEF ProcessInv, LauncherType, Processing
<1>2. ~AtWork(job, w)
  BY <1>1, NoJobFields DEF AtWork
<1>3. WaitGood(info[w], job, w, finals[w], exists)
  BY DEF WaitInv, OneWaits
<1>4. CASE InStep
  <2>1. Blank(w)
    BY <1>1, <1>2, <1>4 DEF LayerInv
  <2> QED
    BY <1>2, <1>3, <2>1 DEF WaitGood, Blank
<1>5. CASE ~InStep
  <2>1. PICK v \in atOnce, u \in Watchers : v < u /\ ~(launcher.line <= u)
    BY <1>5 DEF InStep
  <2>2. v < launcher.line /\ finals[v] > 0 /\ v \in Lines
    BY <1>1 DEF AtOnceInv
  <2>3. CASE v = w
    BY <1>3, <2>2, <2>3 DEF WaitGood
  <2>4. CASE v # w
    <3>1. w < v
      BY <1>1, <2>4
    <3> QED
      BY <2>2, <3>1 DEF PassedInv
  <2> QED
    BY <2>3, <2>4
<1> QED
  BY <1>4, <1>5

\* Every step leaves the waits that were passed over.
LEMMA PassedStepInv ==
    ASSUME WatchInv, ProcessInv, WaitInv, LayerInv, AtOnceInv, PassedInv,
           [LauncherNext]_vars
    PROVE  PassedInv'
<1>1. /\ launcher \in LauncherType /\ launcher.line \in Nat
      /\ Lines \subseteq Nat
  BY LauncherAssumption DEF ProcessInv, LauncherType
<1>2. ASSUME calm' = calm, exists \subseteq exists', failed \subseteq failed',
             atOnce \subseteq atOnce', launcher'.line = launcher.line
      PROVE  PassedInv'
  <2> SUFFICES ASSUME calm', NEW l \in Lines, NEW w \in Watchers \ failed',
                      w < l, l < launcher'.line, \A v \in atOnce' : w <= v
               PROVE  Files(w) \subseteq exists'
    BY DEF PassedInv
  <2>1. Files(w) \subseteq exists
    BY <1>2 DEF PassedInv
  <2> QED
    BY <1>2, <2>1
<1>3. CASE Launch \/ Wait
  <2>1. /\ calm' = calm /\ exists' = exists /\ failed \subseteq failed'
        /\ atOnce' = atOnce /\ Processing
        /\ launcher'.line = launcher.line + 1
    BY <1>1, <1>3 DEF Launch, Wait, StartWatch, watchVars, LauncherType
  <2> SUFFICES ASSUME calm', NEW l \in Lines, NEW w \in Watchers \ failed',
                      w < l, l < launcher'.line, \A v \in atOnce' : w <= v
               PROVE  Files(w) \subseteq exists'
    BY DEF PassedInv
  <2>2. CASE l < launcher.line
    BY <2>1, <2>2 DEF PassedInv
  <2>3. CASE ~(l < launcher.line)
    <3>1. l = launcher.line
      BY <1>1, <2>1, <2>3
    <3>2. w < launcher.line /\ w \in Watchers \ failed
      BY <2>1, <3>1
    <3> QED
      BY <2>1, <3>2, ReadAfterWaits
  <2> QED
    BY <2>2, <2>3
<1>4. CASE CloseScript \/ ContinueLaunch \/ UNCHANGED vars
  BY <1>1, <1>2, <1>4 DEF CloseScript, ContinueLaunch, vars, watchVars,
        launcherVars, LauncherType
<1>5. CASE WatchStep
  <2>1. /\ calm' = calm /\ JobStep /\ atOnce \subseteq atOnce'
        /\ launcher'.line = launcher.line
    BY <1>5, LineStays DEF WatchStep
  <2>2. failed \subseteq failed' /\ exists' = exists
    BY <2>1 DEF JobStep, AddToList, AddList, AddWatch, CheckFile,
          CallbackReturns, IgnoreEvents, TakeEvent
  <2> QED
    BY <1>2, <2>1, <2>2
<1>6. ASSUME NEW w \in Watchers, FilesChanged(w)
      PROVE  PassedInv'
  BY <1>2, <1>6 DEF FilesChanged, WatcherCallback, launcherVars
<1>7. ASSUME NEW l \in Lines, ChildDown(l) \/ CommandEnds(l) \/ CloneReads(l)
      PROVE  PassedInv'
  BY <1>1, <1>2, <1>7 DEF ChildDown, CommandEnds, CloneReads, watchVars,
        LauncherType
<1>8. ASSUME NEW p \in Paths, FileAppears(p)
      PROVE  PassedInv'
  BY <1>2, <1>8 DEF FileAppears, Appears, launcherVars
<1> QED
  BY <1>3, <1>4, <1>5, <1>6, <1>7, <1>8 DEF LauncherNext

\* Only a line that is read is launched.
LEMMA LaunchedStepInv ==
    ASSUME ProcessInv, LaunchedInv, [LauncherNext]_vars
    PROVE  LaunchedInv'
<1>1. /\ launcher \in LauncherType /\ launcher.line \in Nat
      /\ launched \subseteq Lines /\ Lines \subseteq Nat
  BY LauncherAssumption DEF ProcessInv, LauncherType
<1>2. ASSUME launched' = launched,
             launcher'.line \in {launcher.line, launcher.line + 1}
      PROVE  LaunchedInv'
  BY <1>1, <1>2 DEF LaunchedInv
<1>3. CASE Launch
  <2>1. /\ launched' \subseteq launched \cup {launcher.line}
        /\ launcher'.line = launcher.line + 1
    BY <1>1, <1>3 DEF Launch, LauncherType
  <2> QED
    BY <1>1, <2>1 DEF LaunchedInv
<1>4. CASE Wait \/ CloseScript \/ ContinueLaunch \/ UNCHANGED vars
  BY <1>1, <1>2, <1>4 DEF Wait, CloseScript, ContinueLaunch, vars,
        launcherVars, LauncherType
<1>5. CASE WatchStep
  BY <1>2, <1>5, LineStays DEF WatchStep
<1>6. ASSUME NEW w \in Watchers, FilesChanged(w)
      PROVE  LaunchedInv'
  BY <1>2, <1>6 DEF FilesChanged, launcherVars
<1>7. ASSUME NEW l \in Lines, ChildDown(l) \/ CommandEnds(l) \/ CloneReads(l)
      PROVE  LaunchedInv'
  BY <1>1, <1>2, <1>7 DEF ChildDown, CommandEnds, CloneReads, LauncherType
<1>8. ASSUME NEW p \in Paths, FileAppears(p)
      PROVE  LaunchedInv'
  BY <1>2, <1>8 DEF FileAppears, launcherVars
<1> QED
  BY <1>3, <1>4, <1>5, <1>6, <1>7, <1>8 DEF LauncherNext

\* The launcher starts with nothing under way.
LEMMA InitScript == LauncherInit => ScriptInv
<1> SUFFICES ASSUME LauncherInit
             PROVE  ScriptInv
  OBVIOUS
<1>1. WatchInv /\ ProcessInv /\ RunInv /\ CalmInv /\ WaitInv
  BY InitGood, InitCalm, InitWaits
<1>2. /\ job = NoJob /\ info = [w \in Watchers |-> NewInfo] /\ launched = {}
      /\ launcher.idles = 0 /\ launcher.line = 1 /\ atOnce = {}
  BY DEF LauncherInit, WatchInit
<1>3. job.mode = "none" /\ \A w \in Watchers : ~AtWork(job, w)
  BY <1>2, NoJobFields DEF AtWork
<1>4. \A w \in Watchers : Blank(w)
  BY <1>2, <1>3, BlankFields DEF Blank
<1>5. LayerInv
  BY <1>2, <1>3, <1>4 DEF LayerInv
<1>6. \A l \in Lines : ~(l < launcher.line)
  BY <1>2, LauncherAssumption
<1>7. PassedInv /\ AtOnceInv /\ LaunchedInv
  BY <1>2, <1>6 DEF PassedInv, AtOnceInv, LaunchedInv
<1> QED
  BY <1>1, <1>5, <1>7 DEF ScriptInv

\* Every step keeps it.
LEMMA ScriptStepInv ==
    ASSUME ScriptInv, [LauncherNext]_vars
    PROVE  ScriptInv'
<1>1. /\ WatchInv /\ ProcessInv /\ RunInv /\ CalmInv /\ WaitInv
      /\ LayerInv /\ AtOnceInv /\ PassedInv /\ LaunchedInv
  BY DEF ScriptInv
<1>2. (WatchInv /\ ProcessInv /\ RunInv /\ CalmInv)'
  BY <1>1, WatchStepInv, ProcessStepInv, CalmStepInv
<1>3. WaitInv' /\ LayerInv' /\ AtOnceInv'
  BY <1>1, WaitStepInv, LayerStepInv, AtOnceStepInv
<1>4. PassedInv' /\ LaunchedInv'
  BY <1>1, PassedStepInv, LaunchedStepInv
<1> QED
  BY <1>2, <1>3, <1>4 DEF ScriptInv

\* For every script, every tree of paths, whatever exists at the start and
\* whichever inotify calls fail: as long as files appear only while the
\* launcher is at rest, a command starts only when the files of the W lines
\* before it exist, those W lines excepted that come after one whose wait was
\* over at once.
THEOREM ScriptWaits == LauncherSpec => []CalmWaitsForFiles
<1>1. ASSUME ScriptInv
      PROVE  CalmWaitsForFiles
  <2> SUFFICES ASSUME calm, NEW l \in launched, NEW w \in Watchers \ failed,
                      w < l, \A v \in atOnce : w <= v
               PROVE  Files(w) \subseteq exists
    BY DEF CalmWaitsForFiles
  <2>1. l < launcher.line /\ l \in Lines
    BY <1>1 DEF ScriptInv, LaunchedInv, ProcessInv
  <2> QED
    BY <1>1, <2>1 DEF ScriptInv, PassedInv
<1> QED
  BY <1>1, InitScript, ScriptStepInv, PTL DEF LauncherSpec
=============================================================================
