----------------------------- MODULE ConnString -----------------------------
(***************************************************************************)
(* The connection string that Connect of internal/sql/client.go builds     *)
(* from host, database, user and password, and what pgx makes of it.  A    *)
(* string is a sequence of bytes; each keyword, and each value that does   *)
(* not matter, is one element.                                             *)
(***************************************************************************)
EXTENDS Naturals, Sequences, SequencesExt

Keywords == <<"host", "port", "dbname", "user", "password">>

\* Mutant: the last value and sslmode run into each other.
ConnectNoSpace(cfg) ==
  FoldLeft(LAMBDA str, k : str \o (IF k = "host" THEN <<>> ELSE <<" ">>)
                               \o <<k, "=">> \o cfg[k], <<>>, Keywords)
    \o <<"sslmode", "=", "disable">>

\* Connect: no value is quoted.
Connect(cfg) ==
  FoldLeft(LAMBDA str, k : str \o <<k, "=">> \o cfg[k] \o <<" ">>, <<>>, Keywords)
    \o <<"sslmode", "=", "disable">>

---------------------------------------------------------------------------
(* pgx's reading of keywords and values, byte by byte.  A value is bare    *)
(* and ends at a space, or quoted; a backslash keeps the next byte from    *)
(* ending it.  Spaces around "=" do not count, so the value after an empty *)
(* one is the keyword that follows.                                        *)

\* Left to right, each backslash that stands before a c is dropped.
Undo(c, bytes) ==
  LET step(u, b) ==
        IF u.held /\ b = c THEN [out |-> Append(u.out, c), held |-> FALSE]
        ELSE LET out == IF u.held THEN Append(u.out, "\\") ELSE u.out
             IN  IF b = "\\" THEN [out |-> out, held |-> TRUE]
                 ELSE [out |-> Append(out, b), held |-> FALSE]
      end == FoldLeft(step, [out |-> <<>>, held |-> FALSE], bytes)
  IN  IF end.held THEN Append(end.out, "\\") ELSE end.out

\* The value is complete.
Complete(r) ==
  [mode |-> "key", key |-> <<>>, value |-> <<>>,
   settings |-> r.settings \cup {<<r.key, Undo("'", Undo("\\", r.value))>>}]

ReadSetting(r, b) ==
  LET turn(mode) == [r EXCEPT !.mode = mode]
      take(mode) == [r EXCEPT !.mode = mode, !.value = Append(@, b)]
  IN  CASE r.mode = "key" /\ b = "=" -> turn("gap")
        [] r.mode = "key" /\ b = " " -> r
        [] r.mode = "key" -> [r EXCEPT !.key = Append(@, b)]
        [] r.mode = "gap" /\ b = " " -> r
        [] r.mode = "gap" /\ b = "'" -> turn("quoted")
        [] r.mode \in {"gap", "bare"} /\ b = "\\" -> take("bareEscape")
        [] r.mode = "bare" /\ b = " " -> Complete(r)
        [] r.mode \in {"gap", "bare", "bareEscape"} -> take("bare")
        [] r.mode = "quoted" /\ b = "'" -> Complete(r)
        [] r.mode = "quoted" /\ b = "\\" -> take("quotedEscape")
        [] OTHER -> take("quoted")

\* The settings of a string, or none when it ends in the middle of a quoted
\* value, of a keyword or after a backslash.
Settings(str) ==
  LET end == FoldLeft(ReadSetting, [mode |-> "key", key |-> <<>>, value |-> <<>>,
                                    settings |-> {}], str)
  IN  CASE end.mode \in {"gap", "bare"} -> Complete(end).settings
        [] end.mode = "key" /\ end.key = <<>> -> end.settings
        [] OTHER -> {}

---------------------------------------------------------------------------
\* The settings that Connect means.
Meant(cfg) ==
  {<<<<k>>, cfg[k]>> : k \in ToSet(Keywords)} \cup {<<<<"sslmode">>, <<"disable">>>>}

\* The values that need no quoting: not empty, not starting with a quote or
\* a space, no space but after a backslash, and no backslash at the end or
\* before a quote or another backslash.
Verbatim(v) ==
  /\ v # <<>>
  /\ v[1] \notin {"'", " "}
  /\ \A n \in DOMAIN v :
       /\ v[n] = " " => v[n - 1] = "\\"
       /\ v[n] = "\\" => n < Len(v) /\ v[n + 1] \notin {"\\", "'"}
=============================================================================
