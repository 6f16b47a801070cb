------------------------------- MODULE HidePs -------------------------------
(***************************************************************************)
(* detect_hide_ps of mypsinfo.c: the merge of the processes the tracer     *)
(* knows (pslist_real, read from the .pslist file) with the queue of the   *)
(* father's walk over the guest's task list.  One action per turn of the   *)
(* two loops.                                                              *)
(***************************************************************************)
EXTENDS Integers, Sequences

CONSTANT Pid        \* the pids
ASSUME PidAssumption == Pid \subseteq Nat

VARIABLES
  queue,    \* pids of the walk
  known,    \* pids of pslist_real
  kworker,  \* which positions of known have a name that starts with kworker
  q, p,     \* the two pointers, as positions
  logged,   \* positions reported in warning.log
  warned,   \* positions that have a row in the table warning
  pc

lists == <<queue, known, kworker>>
vars  == <<lists, q, p, logged, warned, pc>>

\* The order PsList keeps, and the order of the guest's task list.
Ascending(s) == \A i, j \in 1 .. Len(s) : i < j => s[i] < s[j]

Ended(i, s) == i = Len(s) + 1

TypeOK ==
  /\ queue \in Seq(Pid) /\ known \in Seq(Pid)
  /\ kworker \subseteq 1 .. Len(known)
  /\ q \in 1 .. Len(queue) + 1 /\ p \in 1 .. Len(known) + 1
  /\ logged \subseteq 1 .. Len(known) /\ warned \subseteq 1 .. Len(known)
  /\ pc \in {"merge", "tail", "done"}

Init ==
  /\ queue \in Seq(Pid) /\ Ascending(queue)
  /\ known \in Seq(Pid) /\ Ascending(known)
  /\ kworker \in SUBSET (1 .. Len(known))
  /\ q = 1 /\ p = 1
  /\ logged = {} /\ warned = {} /\ pc = "merge"

Merging == pc = "merge" /\ ~Ended(p, known) /\ ~Ended(q, queue)

\* Mutant of Hidden: the pointer stays where it is.
HiddenStays ==
  /\ Merging /\ queue[q] > known[p]
  /\ IF p \in kworker THEN UNCHANGED <<logged, warned>>
     ELSE logged' = logged \union {p} /\ warned' = warned \union {p}
  /\ UNCHANGED <<lists, p, q, pc>>

\* The queue is past this process: it is not on the task list.
Hidden ==
  /\ Merging /\ queue[q] > known[p]
  /\ IF p \in kworker THEN UNCHANGED <<logged, warned>>
     ELSE logged' = logged \union {p} /\ warned' = warned \union {p}
  /\ p' = p + 1
  /\ UNCHANGED <<lists, q, pc>>

\* A process the tracer does not know (a kernel thread, an idle one).
Unseen ==
  /\ Merging /\ queue[q] < known[p]
  /\ q' = q + 1
  /\ UNCHANGED <<lists, p, logged, warned, pc>>

\* Mutant of Both: only the queue moves on.
BothMovesQueue ==
  /\ Merging /\ queue[q] = known[p]
  /\ q' = q + 1
  /\ UNCHANGED <<lists, p, logged, warned, pc>>

Both ==
  /\ Merging /\ queue[q] = known[p]
  /\ q' = q + 1 /\ p' = p + 1
  /\ UNCHANGED <<lists, logged, warned, pc>>

EndMerge ==
  /\ pc = "merge" /\ (Ended(p, known) \/ Ended(q, queue))
  /\ pc' = "tail"
  /\ UNCHANGED <<lists, q, p, logged, warned>>

\* What is left of known is only logged.  The copy of the name has no final
\* zero here, so that a kworker may pass for something else.
LogRest ==
  /\ pc = "tail" /\ ~Ended(p, known)
  /\ logged' \in IF p \in kworker THEN {logged, logged \union {p}} ELSE {logged \union {p}}
  /\ p' = p + 1
  /\ UNCHANGED <<lists, q, warned, pc>>

Finish ==
  /\ pc = "tail" /\ Ended(p, known)
  /\ pc' = "done"
  /\ UNCHANGED <<lists, q, p, logged, warned>>

Next == Hidden \/ Unseen \/ Both \/ EndMerge \/ LogRest \/ Finish

Spec == Init /\ [][Next]_vars /\ WF_vars(Next)

-----------------------------------------------------------------------------
Absent(i) == \A j \in 1 .. Len(queue) : queue[j] # known[i]

\* A process that is no kworker is logged if and only if the walk did not
\* meet it: neither list's head start, nor its end, makes the merge miss one.
LoggedIfAbsent ==
  pc = "done" => \A i \in 1 .. Len(known) \ kworker : i \in logged <=> Absent(i)

\* The table warning gets the absent ones that have a younger process in the
\* queue; a hidden process younger than every visible one is only logged.
WarnedIfOvertaken ==
  pc = "done" =>
    \A i \in 1 .. Len(known) :
      i \in warned <=> /\ i \notin kworker /\ Absent(i)
                       /\ \E j \in 1 .. Len(queue) : queue[j] > known[i]

\* Both, and every variable has its type.
MergeIsRight == TypeOK /\ LoggedIfAbsent /\ WarnedIfOvertaken

\* The merge comes to its end.
Terminates == <>(pc = "done")
=============================================================================
