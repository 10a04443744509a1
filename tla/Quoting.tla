------------------------------ MODULE Quoting ------------------------------
(***************************************************************************)
(* quoteLiteral and escapeString of internal/sql/user.go, which put a      *)
(* password into ALTER ROLE and CREATE ROLE, against the way PostgreSQL    *)
(* reads a string constant; and the same bytes in a connection string.     *)
(* "x" stands for every byte that no side treats specially.                *)
(***************************************************************************)
EXTENDS ConnString

CONSTANT MaxLen   \* bound on the length of a password

Byte == {"'", "\\", " ", "=", "x"}

ASSUME QuotingAssumption == MaxLen \in Nat

VARIABLES
  s,        \* the password
  i,        \* how many bytes of it the loop of escapeString has handled
  result    \* what the loop has built

vars == <<s, i, result>>

\* Mutant: quotes are passed through.
EscapedNoQuote(b) == IF b = "\\" THEN <<b, b>> ELSE <<b>>

\* Mutant: backslashes are passed through.
EscapedNoBackslash(b) == IF b = "'" THEN <<b, b>> ELSE <<b>>

\* The switch of escapeString.
Escaped(b) == IF b \in {"'", "\\"} THEN <<b, b>> ELSE <<b>>

quoteLiteral(escaped) == <<"'">> \o escaped \o <<"'">>

Init ==
  /\ s \in BoundedSeq(Byte, MaxLen)
  /\ i = 0
  /\ result = <<>>

\* One iteration of escapeString's loop.
escapeString ==
  /\ i < Len(s)
  /\ result' = result \o Escaped(s[i + 1])
  /\ i' = i + 1
  /\ UNCHANGED s

Next == escapeString

Spec == Init /\ [][Next]_vars

---------------------------------------------------------------------------
(* PostgreSQL's reading of a string constant, byte by byte: `mode' is      *)
(* where the reader is and `value' what it has read.  With conforming,     *)
(* the setting standard_conforming_strings (on unless somebody turns it    *)
(* off), a backslash is a byte like any other; without, it makes the next  *)
(* byte literal.  After a quote the constant has ended unless another      *)
(* quote follows.                                                          *)
ReadByte(conforming, reader, b) ==
  LET append(mode) == [mode |-> mode, value |-> Append(reader.value, b)]
      turn(mode) == [reader EXCEPT !.mode = mode]
  IN  CASE reader.mode = "start" -> turn(IF b = "'" THEN "inside" ELSE "beyond")
        [] reader.mode = "inside" /\ b = "'" -> turn("quote")
        [] reader.mode = "inside" /\ b = "\\" /\ ~conforming -> turn("escape")
        [] reader.mode \in {"inside", "escape"} -> append("inside")
        [] reader.mode = "quote" /\ b = "'" -> append("inside")
        [] OTHER -> turn("beyond")

Read(conforming, bytes) ==
  FoldLeft(LAMBDA reader, b : ReadByte(conforming, reader, b),
           [mode |-> "start", value |-> <<>>], bytes)

\* What the server makes of the bytes escaped so far, were the loop to stop.
Reading(conforming) == Read(conforming, quoteLiteral(result))

Plain(bytes) == \A n \in DOMAIN bytes : bytes[n] # "\\"

\* The literal is one string constant with nothing after it, whatever the
\* password and the setting: no password ends its own literal early or
\* swallows the closing quote, and after any number of iterations.
LiteralIsWhole == \A conforming \in BOOLEAN : Reading(conforming).mode = "quote"

\* The constant stands for exactly the bytes handled so far if backslashes
\* are escapes, or if there are none.
LiteralIsExact ==
  \A conforming \in BOOLEAN :
    ~conforming \/ Plain(s) => Reading(conforming).value = SubSeq(s, 1, i)

\* The bytes as one value of a connection string, the others being plain.
Config(k) == [c \in ToSet(Keywords) |-> IF c = k THEN s ELSE <<"x">>]

\* Connect reaches the server with the host, database, user and password it
\* was given exactly when they need no quoting, wherever they stand: a space,
\* a quote or a backslash elsewhere has the instance or the grant fail, or
\* connect as it should not, for a value that is legal in PostgreSQL.
ConnectionExact ==
  i = 0 => \A k \in {"host", "dbname", "user", "password"} :
             Settings(Connect(Config(k))) = Meant(Config(k)) <=> Verbatim(s)

\* "CreateOrUpdateRole creates a role with LOGIN and the given password":
\* under the default setting the constant stands for the password.
GivenPassword == i = Len(s) => Reading(TRUE).value = s
============================================================================
