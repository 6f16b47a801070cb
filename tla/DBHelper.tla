------------------------------ MODULE DBHelper ------------------------------
(***************************************************************************)
(* A connection of state/DBHelper.py.  A table is a function; what the     *)
(* connection's statements changed since its last commit is a function on  *)
(* some of the keys, seen by nobody else.  Nothing but the statements      *)
(* below commits, and every program has connections of its own.            *)
(***************************************************************************)

\* f, and what g says of other keys: @@ of TLC, which the provers do not know.
Over(f, g) ==
  [key \in DOMAIN f \union DOMAIN g |-> IF key \in DOMAIN f THEN f[key] ELSE g[key]]

NoWrites == [key \in {} |-> 0]

Write(key, value) == [k \in {key} |-> value]

\* A select of the connection sees its own writes, and commits them.
select(table, pending) == Over(pending, table)

\* Not committed yet; on an error everything pending is rolled back and the
\* return of an unbound res raises an exception.
myupdate(pending, write) == Over(write, pending)

allcommit(table, pending) == Over(pending, table)

\* A statement that commits whatever is pending with it; on an error it rolls
\* all of it back and returns as if nothing had happened.
dosql(table, pending, write, ok) ==
  IF ok THEN allcommit(table, myupdate(pending, write)) ELSE table
=============================================================================
