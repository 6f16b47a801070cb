------------------------------ MODULE ListWalk ------------------------------
(***************************************************************************)
(* How the scripts outside the guest walk a circular list of the guest's   *)
(* kernel, one read of guest memory after the other, while the guest goes  *)
(* on: the task list (state/ext_process_list.py, get_psinfo.py and         *)
(* start_net_detect.py) and the module list (state/ext_module_list.py and  *)
(* get_modulelist.py).  What a node holds does not change while it is      *)
(* linked; what the scripts make of a node is the node itself.             *)
(***************************************************************************)
EXTENDS Integers, SequencesExt
CONSTANTS
  Slot,         \* the nodes; Oldest is the task init, which never ends
  Oldest, ListHead, \* the head: init_task among the tasks, no module
  MaxChanges    \* bound: tasks and modules that come and go
WalkAssumption == Oldest \in Slot /\ ListHead \notin Slot /\ MaxChanges \in Nat

VARIABLES
  prog,     \* the function that walks
  list,     \* the nodes linked behind ListHead
  after,    \* what an unlinked node's next pointer says
  changes, pc,
  first,    \* list_head, with which next is compared
  at,       \* next_process, next_module
  reads,    \* how often each node was read, 2 for more than once
  stayed,   \* the nodes linked since the walk began
  ever,     \* the nodes linked at some time since then
  behind    \* the node that was linked behind the head when the walk began
guest == <<list, after, changes>>
vars == <<prog, list, after, changes, pc, first, at, reads, stayed, ever, behind>>

OfTasks == {"processes", "printps", "processelist", "get_vm_port_list"}
OfModules == {"modules", "modulelist"}
Linked == {list[i] : i \in DOMAIN list} \cup {ListHead}
Next(n) ==
  LET ring == <<ListHead>> \o list
  IN IF n \in Linked
     THEN LET i == CHOOSE j \in DOMAIN ring : ring[j] = n
          IN IF i = Len(ring) THEN ListHead ELSE ring[i + 1]
     ELSE after[n]

Init ==
  /\ prog \in OfTasks \cup OfModules
  /\ list = <<Oldest>> /\ after = <<>> /\ changes = 0
  /\ pc = "start" /\ first = ListHead /\ at = ListHead
  /\ reads = [n \in Slot \cup {ListHead} |-> 0] /\ stayed = {} /\ ever = {}
  /\ behind = ListHead

(***************************************************************************)
(* The guest.  A task is linked at the end of its list, a module at the    *)
(* front; both are unlinked with their next pointer left as it was.  A     *)
(* node that was unlinked is not used again while the walk lasts.          *)
(***************************************************************************)
Link ==
  /\ changes < MaxChanges /\ changes' = changes + 1
  /\ \E n \in Slot \ (Linked \cup DOMAIN after) :
       /\ list' = IF prog \in OfTasks THEN Append(list, n) ELSE <<n>> \o list
       /\ ever' = IF pc = "start" THEN ever ELSE ever \cup {n}
  /\ UNCHANGED <<prog, after, pc, first, at, reads, stayed, behind>>
Unlink ==
  /\ changes < MaxChanges /\ changes' = changes + 1
  /\ \E i \in DOMAIN list :
       /\ prog \in OfTasks => list[i] # Oldest
       /\ list' = RemoveAt(list, i)
       /\ after' = [n \in DOMAIN after \cup {list[i]} |-> Next(n)]
       /\ stayed' = stayed \ {list[i]}
  /\ UNCHANGED <<prog, pc, first, at, reads, ever, behind>>

(***************************************************************************)
(* The walks.  All but modulelist take the node behind the head for        *)
(* list_head and read on until they are back at it, the head included.     *)
(***************************************************************************)
\* Mutant: list_head is compared as get_os_params returned it, not the address of a link.
BeginAtSymbol ==
  /\ pc = "start" /\ pc' = "walk"
  /\ first' = IF prog = "modulelist" THEN ListHead ELSE "init_task"
  /\ at' = Next(ListHead)
  /\ stayed' = Linked /\ ever' = Linked /\ behind' = Next(ListHead)
  /\ UNCHANGED <<prog, guest, reads>>
Begin ==
  /\ pc = "start" /\ pc' = "walk"
  /\ first' = IF prog = "modulelist" THEN ListHead ELSE Next(ListHead)
  /\ at' = Next(ListHead)
  /\ stayed' = Linked /\ ever' = Linked /\ behind' = Next(ListHead)
  /\ UNCHANGED <<prog, guest, reads>>
Read(n) == reads' = [reads EXCEPT ![n] = IF @ = 0 THEN 1 ELSE 2]
ToFirst ==
  /\ pc = "walk"
  /\ Read(at) /\ at' = Next(at)
  /\ pc' = IF at' = first THEN "done" ELSE "walk"
  /\ UNCHANGED <<prog, guest, first, stayed, ever, behind>>
\* Mutant: the head is taken for the end of the circle, and not read.
ToHead ==
  /\ pc = "walk"
  /\ Read(at) /\ at' = Next(at)
  /\ pc' = IF at' = ListHead THEN "done" ELSE "walk"
  /\ UNCHANGED <<prog, guest, first, stayed, ever, behind>>
processes == prog = "processes" /\ ToFirst
printps == prog = "printps" /\ ToFirst
processelist == prog = "processelist" /\ ToFirst
get_vm_port_list == prog = "get_vm_port_list" /\ ToFirst
modules == prog = "modules" /\ ToFirst
\* Looks whether it is back at the head before it reads a node.
modulelist ==
  /\ prog = "modulelist" /\ pc = "walk"
  /\ IF at = ListHead
     THEN pc' = "done" /\ UNCHANGED <<at, reads>>
     ELSE Read(at) /\ at' = Next(at) /\ pc' = pc
  /\ UNCHANGED <<prog, guest, first, stayed, ever, behind>>

Walk == processes \/ printps \/ processelist \/ get_vm_port_list \/ modules \/ modulelist
Step == Link \/ Unlink \/ Begin \/ Walk
Fairness == WF_vars(Walk)
Spec == Init /\ [][Step]_vars /\ Fairness

\* What is counted: nump counts the head, numm not the last node read.
ReadMore(often) == {n \in DOMAIN reads : reads[n] > often}
nump == Cardinality(ReadMore(0)) + Cardinality(ReadMore(1))
numm == nump - 1
Counted == IF prog = "modules" THEN numm ELSE nump

-----------------------------------------------------------------------------
\* A function that returns has read every node that was linked all the time
\* exactly once, whatever was linked and unlinked around the walk, the node it
\* stood on included; the head counts as a node but for modulelist.
StayersReadOnce ==
  pc = "done" =>
    \A n \in stayed \ (IF prog = "modulelist" THEN {ListHead} ELSE {}) :
      reads[n] = 1

\* The number of modules that modules and modulelist return lies between those
\* that stayed and those that were there at some time: the difference to what
\* lsmod prints in the guest is what exdamain stores as hidden modules.
CountInBounds ==
  (pc = "done" /\ prog \in OfModules) =>
    Counted \in Cardinality(stayed \ {ListHead}) .. Cardinality(ever \ {ListHead})

\* A walk ends: nothing in the loops but the comparison stops them, and it must
\* be with a node that comes round again.  modulelist ends in any case; the
\* others unless the node that was behind the head is unlinked meanwhile: among
\* the tasks it is init, which never is, among the modules it is the newest.
WalkEnds ==
  pc = "walk" ~> (pc = "done" \/ (prog # "modulelist" /\ behind \notin Linked))

=============================================================================
