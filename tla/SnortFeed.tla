----------------------------- MODULE SnortFeed -----------------------------
(***************************************************************************)
(* read_snort_sql.py: a loop that warns of every event of Snort with a     *)
(* guest's address, and keeps in the file snort.sql how far it has come.   *)
(* The program may be killed anywhere and started again.                   *)
(*                                                                         *)
(* The query has no ORDER BY, and the last row it gives is the new mark.   *)
(***************************************************************************)
EXTENDS Integers, FiniteSets

CONSTANTS
  LastCid,      \* events that are ever added: 1 .. LastCid, by one sensor, in order
  Guests,       \* those with an address of vmaddr
  MaxCrashes,   \* bound
  MaxErrors     \* inserts that fail (bound)

SnortAssumption ==
  {LastCid, MaxCrashes, MaxErrors} \subseteq Nat /\ Guests \subseteq 1 .. LastCid

VARIABLES
  added,        \* the events 1 .. added are in the database
  snort_sql,    \* the file: a cid, or NoCid while it is empty
  pc, sqlcid, rows,
  warnings,     \* rows of the table warning of each event
  lost,         \* events whose insert failed, which DBHelper hides
  crashes

vars == <<added, snort_sql, pc, sqlcid, rows, warnings, lost, crashes>>

Cid == 1 .. LastCid
NoCid == -1

Init ==
  /\ added = 0 /\ snort_sql = 0 /\ pc = "off" /\ sqlcid = 0 /\ rows = {}
  /\ warnings = [c \in Cid |-> 0] /\ lost = {} /\ crashes = 0

SnortAdds ==
  /\ added < LastCid /\ added' = added + 1
  /\ UNCHANGED <<snort_sql, pc, sqlcid, rows, warnings, lost, crashes>>

main ==
  /\ pc = "off" /\ pc' = "query" /\ sqlcid' = snort_sql
  /\ UNCHANGED <<added, snort_sql, rows, warnings, lost, crashes>>

\* Mutant of Query: rows of the cid after the mark are taken for known.
QueryFromNext ==
  /\ pc = "query"
  /\ IF sqlcid = NoCid THEN pc' = "dead" /\ rows' = rows
                       ELSE pc' = "row" /\ rows' = {c \in 1 .. added : c > sqlcid + 1}
  /\ UNCHANGED <<added, snort_sql, sqlcid, warnings, lost, crashes>>

\* With an empty mark the query is no SQL, and the program ends.
Query ==
  /\ pc = "query"
  /\ IF sqlcid = NoCid THEN pc' = "dead" /\ rows' = rows
                       ELSE pc' = "row" /\ rows' = {c \in 1 .. added : c > sqlcid}
  /\ UNCHANGED <<added, snort_sql, sqlcid, warnings, lost, crashes>>

\* Mutant of get_event: the mark is saved with every row.
SaveEachRow ==
  \E c \in rows :
    /\ pc = "row" /\ rows' = rows \ {c} /\ sqlcid' = c /\ snort_sql' = c
    /\ warnings' = IF c \in Guests THEN [warnings EXCEPT ![c] = @ + 1] ELSE warnings
    /\ UNCHANGED <<added, pc, lost, crashes>>

get_event ==
  \E c \in rows :
    /\ pc = "row" /\ rows' = rows \ {c} /\ sqlcid' = c
    /\ \/ /\ warnings' = IF c \in Guests THEN [warnings EXCEPT ![c] = @ + 1] ELSE warnings
          /\ UNCHANGED lost
       \/ /\ c \in Guests /\ Cardinality(lost) < MaxErrors
          /\ lost' = lost \union {c} /\ UNCHANGED warnings
    /\ UNCHANGED <<added, snort_sql, pc, crashes>>

write_sql_cid ==
  /\ \/ pc = "row" /\ rows = {} /\ pc' = "write" /\ snort_sql' = NoCid
     \/ pc = "write" /\ pc' = "query" /\ snort_sql' = sqlcid
  /\ UNCHANGED <<added, sqlcid, rows, warnings, lost, crashes>>

Crash ==
  /\ pc \in {"query", "row", "write"} /\ crashes < MaxCrashes
  /\ pc' = "off" /\ crashes' = crashes + 1
  /\ UNCHANGED <<added, snort_sql, sqlcid, rows, warnings, lost>>

Step == Query \/ get_event \/ write_sql_cid
Next == SnortAdds \/ main \/ Step \/ Crash
Spec == Init /\ [][Next]_vars
\* The program runs while it is started, and somebody starts it again when it
\* has been killed.
Fairness == WF_vars(Step) /\ WF_vars(main)
FairSpec == Spec /\ Fairness

-----------------------------------------------------------------------------
\* Whenever the program is killed, what the file says has been looked at has
\* been warned of: the next start skips nothing, though rows come in any order
\* and what it saw since the last write is warned of twice.
NothingSkipped ==
  \A c \in Guests : c <= snort_sql => warnings[c] > 0 \/ c \in lost

\* Every event of a guest is warned of in the end, over all kills and starts,
\* unless one was killed between the open and the write of snort.sql: no start
\* gets past the empty file.
EventsWarned ==
  \A c \in Guests : added >= c ~> (warnings[c] > 0 \/ c \in lost \/ pc = "dead")
=============================================================================
