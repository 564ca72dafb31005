------------------------------- MODULE Config -------------------------------
(***************************************************************************)
(* TlmConfig (src/common/tlm-config.c): where the configuration file is    *)
(* looked for, what is kept of it, how it is read again, and the           *)
(* conversions of the getters and setters.                                 *)
(*                                                                         *)
(* A text is cut into what the conversions tell apart: the number it       *)
(* begins with, if any, and the words after it, or its spelling where that *)
(* is not the number's decimal form.  A file holds a table from groups to  *)
(* tables from keys to texts.                                              *)
(***************************************************************************)
EXTENDS Integers, Sequences, FiniteSetsExt

CONSTANTS
    Null, Unreadable, Unparsable,
    Places,     \* where _load_config looks, in that order
    Contents,   \* tables that a parsable file may hold
    EnvPlugin,  \* TLM_ACCOUNT_PLUGIN in a debug build, or Null
    Half        \* 2^(w-1), w being the width of gint and guint

ASSUME ConfigAssumption ==
    /\ Places \in Seq(STRING)
    /\ Half \in Nat \ {0}

VARIABLES
    disk,       \* the files, by place
    config      \* struct _TlmConfigPrivate

Files == Contents \cup {Unreadable, Unparsable}

\* A word; a number as %d and %u print it; another text that begins with it,
\* as 01 and 1a do with 1.
Word(w) == [lead |-> <<>>, words |-> <<w>>]
Number(n) == [lead |-> <<n>>, words |-> <<>>]
Spelled(n, w) == [lead |-> <<n>>, words |-> <<w>>]

\* Group names and seat ids are sequences of texts.
General == <<Word("General")>>

\* The values of gint and of guint.
Ints == -Half..(Half - 1)
Uints == 0..(2 * Half - 1)

\* NULL is not a text.
ASSUME NullAssumption == Null \notin {Number(n) : n \in Ints \cup Uints}

-----------------------------------------------------------------------------
(* Loading.                                                                *)

\* The first place with a readable file; a file that is readable and cannot
\* be parsed ends the search all the same.
ConfigFilePath(d) ==
    LET readable == {i \in DOMAIN Places : d[Places[i]] # Unreadable} IN
    IF readable = {} THEN Null ELSE Places[Min(readable)]

\* _cleanup, and the empty table that follows it.
Cleaned == [config_file_path |-> Null, config_table |-> <<>>]

\* _load_config.
LoadConfig(d) ==
    LET path == ConfigFilePath(d) IN
    IF path = Null THEN Cleaned
    ELSE [config_file_path |-> path,
          config_table |-> IF d[path] = Unparsable THEN <<>> ELSE d[path]]

GetGroup(t, group) == IF group \in DOMAIN t THEN t[group] ELSE Null

\* External: g_hash_table_insert.
Insert(t, key, value) ==
    [k \in DOMAIN t \cup {key} |-> IF k = key THEN value ELSE t[k]]

\* Mutant: a new table takes the place of the group's.
SetStringNewGroup(t, group, key, value) ==
    Insert(t, group, Insert(<<>>, key, value))

SetString(t, group, key, value) ==
    LET g == IF group \in DOMAIN t THEN t[group] ELSE <<>> IN
    Insert(t, group, Insert(g, key, value))

\* _load_environment.
LoadEnvironment(c) ==
    IF EnvPlugin = Null THEN c
    ELSE [c EXCEPT !.config_table =
                SetString(@, General, "ACCOUNTS_PLUGIN", Word(EnvPlugin))]

\* _initialize: a failed load leaves an empty table.
Initialize(d) == LoadEnvironment(LoadConfig(d))

ConfigInit ==
    /\ disk \in [{Places[i] : i \in DOMAIN Places} -> Files]
    /\ config = Initialize(disk)

\* tlm_config_reload: _cleanup forgets the table and the path.
Reload == config' = Initialize(disk)

\* External: somebody edits a file.
Edit(p, f) == disk' = [disk EXCEPT ![p] = f] /\ UNCHANGED config

-----------------------------------------------------------------------------
(* Getters and setters.                                                    *)

HasGroup(t, group) == group \in DOMAIN t

HasKey(t, group, key) == HasGroup(t, group) /\ key \in DOMAIN t[group]

GetString(t, group, key) ==
    IF HasKey(t, group, key) THEN t[group][key] ELSE Null

\* The default stands in for a key that is missing, not for its group.
GetStringDefault(t, group, key, value) ==
    LET g == GetGroup(t, group) IN
    IF g = Null THEN Null ELSE IF key \in DOMAIN g THEN g[key] ELSE value

\* Conversion of a number to guint and to gint.
Uint(n) == n % (2 * Half)
Int32(n) == LET u == Uint(n) IN IF u < Half THEN u ELSE u - 2 * Half

\* atoi: a text that does not begin with a number reads 0.
Atoi(text) == IF text.lead = <<>> THEN 0 ELSE Int32(Head(text.lead))

GetInt(t, group, key, retval) ==
    LET text == GetString(t, group, key) IN
    IF text = Null THEN retval ELSE Atoi(text)

\* sscanf "%u", which would take a sign.
GetUint(t, group, key, retval) ==
    LET text == GetString(t, group, key) IN
    IF text = Null THEN retval
    ELSE IF text.lead = <<>> \/ Head(text.lead) < 0 THEN retval
    ELSE Uint(Head(text.lead))

Starts(text, words) ==
    text.lead = <<>> /\ text.words # <<>> /\ Head(text.words) \in words

GetBoolean(t, group, key, retval) ==
    LET text == GetString(t, group, key) IN
    CASE text = Null -> retval
      [] text # Null /\ Starts(text, {"false", "no"}) -> FALSE
      [] text # Null /\ Starts(text, {"true", "yes"}) -> TRUE
      [] OTHER -> IF text.lead = <<>> THEN retval
                  ELSE Int32(Head(text.lead)) # 0

SetInt(t, group, key, n) == SetString(t, group, key, Number(n))
SetUint(t, group, key, n) == SetString(t, group, key, Number(n))
SetBoolean(t, group, key, b) == SetInt(t, group, key, IF b THEN 1 ELSE 0)
=============================================================================
