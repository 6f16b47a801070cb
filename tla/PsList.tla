------------------------------- MODULE PsList -------------------------------
(***************************************************************************)
(* The tracer's list of the guest's processes: initPs, the lookups and     *)
(* updates of mypsinfo.c, and the part of trap_cb and record_syscall that  *)
(* uses them.  One system call is one step: the vCPU waits for the         *)
(* callback and the tracer has one thread.                                 *)
(*                                                                         *)
(* The guest is external: processes that fork, exec, are hidden from the   *)
(* kernel's task list and die.                                             *)
(***************************************************************************)
EXTENDS Integers, Sequences, FiniteSets, SequencesExt

CONSTANTS
  MaxPid,      \* pids 0 .. MaxPid; 0 is the idle task (bound on forks)
  Names, None, \* comm values; None is the "none" of get_psname_by_pid
  Pgds, NoPgd, \* page directories; NoPgd is a value no process runs with
  KernelPgds   \* what initPs may leave in the pgd of a task without an mm

FailPid == MaxPid + 1   \* vmi_dtb_to_pid's -1 in the uint32_t PsNode.pid
Pids    == 0 .. FailPid

ASSUME PsListAssumption ==
  /\ MaxPid \in Nat \ {0}
  /\ None \notin Names /\ NoPgd \notin Pgds
  /\ KernelPgds \subseteq Pgds \union {NoPgd} /\ KernelPgds # {}

VARIABLES
  pslist,    \* vmiinfo->pslist: the nodes, and where list->last points
  psFile,    \* the .pslist file: pid and name of each node
  cr3,       \* page directory of the last system call's caller
  credited,  \* pid in the record the last call sent, NoPid before the first
  exited,    \* pid in the exit record the last call appended, or NoPid
  task,      \* guest: live processes
  nextPid,   \* guest: next pid to give out
  used,      \* guest: page directories given out so far
  reused,    \* history: was one given out a second time?
  caller,    \* history: who made the last system call
  clean      \* history: processes that left through exit_group

hostVars  == <<pslist, psFile, cr3, credited, exited>>
guestVars == <<task, nextPid, used>>
vars == <<hostVars, guestVars, reused, caller, clean>>

NoPid == -1
Node  == [pid : Pids, name : Names \union {None}, pgd : Pgds \union {NoPgd}]
Task  == [name : Names, pgd : Pgds \union {NoPgd}, linked : BOOLEAN, leaving : BOOLEAN]
Live  == DOMAIN task

TypeOK ==
  /\ pslist \in [nodes : Seq(Node), last : Nat]
  /\ psFile \in Seq(Pids \X (Names \union {None}))
  /\ cr3 \in Pgds \union {NoPgd}
  /\ credited \in Pids \union {NoPid} /\ exited \in Pids \union {NoPid}
  /\ Live \subseteq 0 .. MaxPid /\ \A p \in Live : task[p] \in Task
  /\ nextPid \in 1 .. MaxPid + 1
  /\ used \subseteq Pgds /\ reused \in BOOLEAN
  /\ caller \in Pids \union {NoPid}
  /\ clean \subseteq 1 .. MaxPid

(***************************************************************************)
(* The list.                                                               *)
(***************************************************************************)
\* Positions; 0 if there is no such node.
get_ps_fron_pgd(l, pgd) == SelectInSeq(l.nodes, LAMBDA n : n.pgd = pgd)

\* myListInsertDataAtLast goes by list->last.
AppendNode(l, n) == [nodes |-> Append(l.nodes, n), last |-> Len(l.nodes) + 1]

\* Mutant of add_pslist: always at the end.
AddLast(l, n) == AppendNode(l, n)

\* Where the walk ends that starts at the second node: at the first whose pid
\* is not smaller, or behind the last.
PlaceFor(nodes, pid) ==
  Min({i \in 2 .. Len(nodes) : nodes[i].pid >= pid} \union {Len(nodes) + 1})

\* Mutant of add_pslist: the update goes to the node the walk stands at, not
\* to the one behind it.
UpdateBehind(l, n) ==
  LET at == PlaceFor(l.nodes, n.pid) IN
  IF at > Len(l.nodes) THEN AppendNode(l, n)
  ELSE IF l.nodes[at].pid = n.pid
  THEN [l EXCEPT !.nodes[at - 1].name = n.name, !.nodes[at - 1].pgd = n.pgd]
  ELSE [nodes |-> InsertAt(l.nodes, at, n), last |-> l.last + 1]

\* add_pslist: after list->last if its pid is smaller; otherwise at the place
\* for it, and a node linked in there leaves last alone.
add_pslist(l, n) ==
  IF l.nodes[l.last].pid < n.pid THEN AppendNode(l, n) ELSE
  LET at == PlaceFor(l.nodes, n.pid) IN
  IF at <= Len(l.nodes) /\ l.nodes[at].pid = n.pid
  THEN [l EXCEPT !.nodes[at] = n]
  ELSE [nodes |-> InsertAt(l.nodes, at, n),
        last  |-> IF at <= l.last THEN l.last + 1 ELSE l.last]

\* Mutant of delete_one_ps: the last node is left in.
DeleteButLast(l, pid) ==
  LET at == SelectInSeq(l.nodes, LAMBDA n : n.pid = pid) IN
  IF at \in {0, Len(l.nodes)} THEN l
  ELSE [nodes |-> RemoveAt(l.nodes, at), last |-> l.last - 1]

\* Mutant of delete_one_ps: off by one.
DeleteNext(l, pid) ==
  LET at == SelectInSeq(l.nodes, LAMBDA n : n.pid = pid) IN
  IF at \in {0, Len(l.nodes)} THEN l
  ELSE [nodes |-> RemoveAt(l.nodes, at + 1), last |-> l.last - 1]

\* delete_one_ps, with myListRemoveDataAt.
delete_one_ps(l, pid) ==
  LET at == SelectInSeq(l.nodes, LAMBDA n : n.pid = pid) IN
  IF at = 0 THEN l
  ELSE [nodes |-> RemoveAt(l.nodes, at), last |-> l.last - 1]

\* get_psname_by_addr writes the name it has read into the node.
Rename(l, i, name) == [l EXCEPT !.nodes[i].name = name]

\* record_ps_list
Lines(l) == [i \in 1 .. Len(l.nodes) |-> <<l.nodes[i].pid, l.nodes[i].name>>]

(***************************************************************************)
(* initPs, with the VM paused.  The task list is in the order of the pids. *)
(* A task whose files cannot be read is left out; a page directory above   *)
(* 4 GB is cut to its low half; a task without an mm gets what was there.  *)
(***************************************************************************)
initPs(order, pgds) ==
  [nodes |-> [i \in 1 .. Len(order) |->
                [pid |-> order[i], name |-> task[order[i]].name, pgd |-> pgds[order[i]]]],
   last  |-> Len(order)]

\* The tasks it meets and does not leave out: the idle task, then some others.
TaskLists ==
  {order \in UNION {[1 .. n -> Live] : n \in 1 .. nextPid} :
     order[1] = 0 /\ \A i, j \in 1 .. Len(order) : i < j => order[i] < order[j]}

Init ==
  /\ nextPid \in 2 .. MaxPid
  /\ \E name \in [0 .. nextPid - 1 -> Names], pgd \in [0 .. nextPid - 1 -> Pgds \union {NoPgd}] :
       /\ \A p, q \in 1 .. nextPid - 1 : pgd[p] # NoPgd /\ (pgd[p] = pgd[q] => p = q)
       /\ pgd[0] = NoPgd
       /\ task = [p \in 0 .. nextPid - 1 |->
                    [name |-> name[p], pgd |-> pgd[p], linked |-> TRUE, leaving |-> FALSE]]
  /\ used = {task[p].pgd : p \in Live \ {0}}
  /\ \E order \in TaskLists, pgds \in [Live -> Pgds \union {NoPgd}] :
       /\ pgds[0] \in KernelPgds
       /\ \A p \in Live \ {0} : pgds[p] \in {task[p].pgd, NoPgd}
       /\ pslist = initPs(order, pgds)
  /\ psFile = Lines(pslist)
  /\ cr3 = NoPgd /\ credited = NoPid /\ exited = NoPid /\ caller = NoPid /\ clean = {}
  /\ reused = FALSE

(***************************************************************************)
(* The guest.                                                              *)
(***************************************************************************)
FreePgds == Pgds \ {task[p].pgd : p \in Live}

Fork(p, pgd) ==
  /\ nextPid <= MaxPid /\ ~task[p].leaving
  /\ task' = [q \in Live \union {nextPid} |->
                IF q = nextPid THEN [task[p] EXCEPT !.pgd = pgd, !.linked = TRUE] ELSE task[q]]
  /\ nextPid' = nextPid + 1
  /\ used' = used \union {pgd} /\ reused' = (reused \/ pgd \in used)
  /\ UNCHANGED <<hostVars, caller, clean>>

\* execve has a new mm and usually a new name.
Exec(p, pgd, name) ==
  /\ ~task[p].leaving
  /\ task' = [task EXCEPT ![p].pgd = pgd, ![p].name = name]
  /\ used' = used \union {pgd} /\ reused' = (reused \/ pgd \in used)
  /\ UNCHANGED <<hostVars, nextPid, caller, clean>>

\* Unlinked from the kernel's task list, still running.
Hide(p) ==
  /\ task[p].linked /\ ~task[p].leaving
  /\ task' = [task EXCEPT ![p].linked = FALSE]
  /\ UNCHANGED <<hostVars, nextPid, used, reused, caller, clean>>

\* The end: after exit_group, or of a signal, which no trap announces.
Die(p) ==
  /\ task' = [q \in Live \ {p} |-> task[q]]
  /\ clean' = IF task[p].leaving /\ task[p].linked THEN clean \union {p} ELSE clean
  /\ UNCHANGED <<hostVars, nextPid, used, reused, caller>>

(***************************************************************************)
(* trap_cb.                                                                *)
(***************************************************************************)
\* vmi_dtb_to_pid and get_psname_by_pid walk the kernel's task list.
DtbToPid(p)  == IF task[p].linked THEN p ELSE FailPid
PidToName(p) == IF p \in Live /\ task[p].linked THEN task[p].name ELSE None

\* get_psname_by_addr reads the name behind node->addr; behind the address of
\* a dead process there may be anything.
NamesAt(pid) == IF pid \in Live THEN {task[pid].name} ELSE Names \union {None}

\* The calls of record_syscall that touch the list: which pid goes, if any.
Calls == {<<"other", NoPid>>, <<"exit_group", NoPid>>} \union ({"kill"} \X (Pids \ {0}))

Victim(pid, call) ==
  IF call[1] = "exit_group" THEN pid
  ELSE IF call[1] = "kill" /\ pid <= call[2] THEN call[2] ELSE NoPid

\* When the call ends with a fresh .pslist file: a node added or renewed, a
\* name that has changed, a node deleted.
FileWritten(known, renamed, deleted) == known = 0 \/ renamed \/ deleted

Trap(p, call) ==
  /\ ~task[p].leaving
  /\ cr3' = task[p].pgd
  /\ LET known == get_ps_fron_pgd(pslist, task[p].pgd)
         pid   == IF known = 0 THEN DtbToPid(p) ELSE pslist.nodes[known].pid
         gone  == Victim(pid, call)
     IN \E name \in IF known = 0 THEN {PidToName(DtbToPid(p))} ELSE NamesAt(pid) :
          LET found == IF known = 0
                       THEN add_pslist(pslist, [pid |-> pid, name |-> name, pgd |-> task[p].pgd])
                       ELSE Rename(pslist, known, name)
              left  == delete_one_ps(found, gone)
              renamed == known # 0 /\ name # pslist.nodes[known].name
          IN /\ pslist' = left
             /\ psFile' = IF FileWritten(known, renamed, left # found) THEN Lines(left) ELSE psFile
             /\ credited' = pid
             /\ exited' = gone
  /\ caller' = p
  /\ task' = IF call[1] = "exit_group" THEN [task EXCEPT ![p].leaving = TRUE] ELSE task
  /\ UNCHANGED <<nextPid, used, reused, clean>>

Next ==
  \/ \E p \in Live \ {0}, pgd \in FreePgds : Fork(p, pgd)
  \/ \E p \in Live \ {0}, pgd \in FreePgds, name \in Names : Exec(p, pgd, name)
  \/ \E p \in Live \ {0} : Hide(p)
  \/ \E p \in Live \ {0} : Die(p)
  \/ \E p \in Live \ {0}, call \in Calls : Trap(p, call)

Spec == Init /\ [][Next]_vars

-----------------------------------------------------------------------------
\* The list is in the strict order of the pids with the idle task first, so a
\* process has one node, and list->last is the last of them: what add_pslist,
\* detect_hide_ps and myListRemoveDataAtLast rely on.
WellFormed ==
  /\ pslist.nodes # <<>> /\ pslist.nodes[1].pid = 0
  /\ \A i, j \in 1 .. Len(pslist.nodes) : i < j => pslist.nodes[i].pid < pslist.nodes[j].pid
  /\ pslist.last = Len(pslist.nodes)

\* What the father reads is the list, whichever of the paths of trap_cb
\* changed it: an addition, an execve noticed by its name, a kill or an exit.
FileIsList == psFile = Lines(pslist)

\* The list in memory and on disk, and the types of all variables.
ListAndFile == TypeOK /\ WellFormed /\ FileIsList

\* A system call is credited to its caller, or to pid -1 if the caller has
\* been unlinked from the task list; so long as no page directory is used
\* twice, and whatever was forked, renamed, deleted by a kill and seen again.
CreditedToCaller ==
  ~reused /\ caller # NoPid /\ credited # caller =>
    credited = FailPid /\ (caller \in Live => ~task[caller].linked)

\* A process that has left through exit_group has no node: it is never taken
\* for a hidden process.
CleanExitLeavesNoNode ==
  ~reused => \A i \in 1 .. Len(pslist.nodes) : pslist.nodes[i].pid \notin clean

\* The list implements the table of PsTable.
TableOf(l) ==
  [p \in {l.nodes[i].pid : i \in 1 .. Len(l.nodes)} |->
     LET n == CHOOSE n \in Range(l.nodes) : n.pid = p
     IN  [name |-> n.name, pgd |-> n.pgd]]

Table == INSTANCE PsTable WITH
  PsNames   <- Names \union {None},
  PgdValues <- Pgds \union {NoPgd},
  table     <- TableOf(pslist)

IsTable == Table!Spec
=============================================================================
