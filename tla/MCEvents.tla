------------------------------ MODULE MCEvents ------------------------------
(***************************************************************************)
(* The two programs that warn of network events, on small instances:       *)
(* NetDetect, and SnortFeed, whose warnings come straight from Snort's     *)
(* database.  They share no state: `on' says which one runs, the other     *)
(* rests.                                                                  *)
(***************************************************************************)
EXTENDS NetDetect
CONSTANTS LastCid, Guests, MaxCrashes, MaxLost
VARIABLES on, added, snort_sql, snortpc, sqlcid, rows, warnings, unsaved, crashes
Snort == INSTANCE SnortFeed WITH MaxErrors <- MaxLost, pc <- snortpc, lost <- unsaved
ASSUME SnortAssumed == Snort!SnortAssumption
snort == <<added, snort_sql, snortpc, sqlcid, rows, warnings, unsaved, crashes>>

\* read_snort_sql.py has ended at an empty mark, before there was an event.
Ended ==
  /\ added = 0 /\ snort_sql = -1 /\ snortpc = "dead" /\ sqlcid = -1 /\ rows = {}
  /\ warnings = [c \in 1 .. LastCid |-> 0] /\ unsaved = {} /\ crashes = 0
MCInit ==
  /\ on \in {"net", "snort"} /\ Init
  /\ IF on = "snort" THEN Snort!Init ELSE Ended
MCNext ==
  \/ on = "net" /\ Next /\ UNCHANGED <<on, snort>>
  \/ on = "snort" /\ Snort!Next /\ UNCHANGED <<on, vars>>
\* At rest no detector has been started, and the feed has ended for good.
MCSpec == MCInit /\ [][MCNext]_<<on, vars, snort>> /\ Fairness /\ Snort!Fairness

\* SnortFeed's: what the mark says has been looked at has been warned of.
NothingSkipped == Snort!NothingSkipped

\* SnortFeed's: every event of a guest is warned of over all kills and starts,
\* unless one left the mark empty.
EventsWarned == Snort!EventsWarned
=============================================================================
