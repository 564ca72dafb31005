----------------------------- MODULE MCLauncher -----------------------------
(* Instances of Launcher for TLC. *)
EXTENDS Launcher

\* Two waits.  Both files of the first are in one directory, which may be
\* missing; one of the second is next to it.
dPaths == {<<"d">>, <<"d", "s">>, <<"d", "t">>, <<"e">>}
dScript == << [c |-> "M"],
              [c |-> "W", files |-> << <<"d", "s">>, <<"d", "t">> >>],
              [c |-> "L"],
              [c |-> "W", files |-> << <<"e">> >>],
              [c |-> "L"] >>
dWatchers == {2, 4}
\* Any files may be there at the start, with the directories they are in.
dExisting == {e \in SUBSET dPaths : \A p \in e : Dir(p) \in e \cup {<<>>}}
=============================================================================
