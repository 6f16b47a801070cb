------------------------------ MODULE PsTable ------------------------------
(***************************************************************************)
(* What the tracer's process list promises: a table with one record per    *)
(* pid.  A system call made with page directory cr3 is credited to a pid   *)
(* whose record carries cr3; when none does, the record of one pid is made *)
(* or renewed to carry it.  A record leaves the table when, and only when, *)
(* the call is one that appends an exit record for its pid.                *)
(***************************************************************************)
EXTENDS Integers

CONSTANTS Pids, NoPid, PsNames, PgdValues

VARIABLES
  table,     \* pid -> its record, for the pids that have one
  cr3,       \* page directory of the last call
  credited,  \* pid it was credited to
  exited     \* pid of the exit record it appended, or NoPid

Record == [name : PsNames, pgd : PgdValues]

Init ==
  /\ table \in UNION {[P -> Record] : P \in SUBSET Pids}
  /\ cr3 \in PgdValues /\ credited = NoPid /\ exited = NoPid

Holders(pgd) == {p \in DOMAIN table : table[p].pgd = pgd}

\* The table once p's record carries the page directory of the call.
Renewed(p, name) ==
  [q \in DOMAIN table \union {p} |->
     IF q = p THEN [name |-> name, pgd |-> cr3'] ELSE table[q]]

Call ==
  /\ cr3' \in PgdValues /\ credited' \in Pids /\ exited' \in Pids \union {NoPid}
  /\ Holders(cr3') # {} => credited' \in Holders(cr3')
  /\ \E name \in PsNames :
       table' = [q \in (DOMAIN table \union {credited'}) \ {exited'} |-> Renewed(credited', name)[q]]

Spec == Init /\ [][Call]_<<table, cr3, credited, exited>>
=============================================================================
