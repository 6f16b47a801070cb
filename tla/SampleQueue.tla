---------------------------- MODULE SampleQueue ----------------------------
(***************************************************************************)
(* What the father of host/processinfo/main.c stores of a round: the queue *)
(* of the task list, the drain of the pipe that counts each process's      *)
(* system calls, and traversal of myqueue.c, which compares the queue with *)
(* the one of the round before.  A node keeps one of its counters: flt is  *)
(* the guest's running total, inc what it grew by since the last round, or *)
(* that total until traversal has filled it in.  The ten classes of system *)
(* calls are one.                                                          *)
(*                                                                         *)
(* Monitor has the finer interleaving with the child; here a system call   *)
(* and its records are one step.                                           *)
(***************************************************************************)
EXTENDS Integers, Sequences, SequencesExt

CONSTANTS
  Pid,       \* the pids
  MaxFlt,    \* bound on flt
  MaxCalls,  \* system calls the guest makes (bound)
  Rounds     \* n in main.c, 1000 (bound)

ASSUME SampleAssumption ==
  /\ Pid \subseteq Nat \ {0}
  /\ MaxFlt \in Nat /\ MaxCalls \in Nat /\ Rounds \in Nat \ {0}

Name == {"acl", "other"}    \* is the name in the ACL?

VARIABLES
  tasks,      \* the guest's task list, in order of creation
  given,      \* pids given out so far
  calls,
  pipe,       \* pids of the records
  exitFile,   \* .exitps
  pc, round,
  queue, pre_queue,
  exits,      \* exitps_list
  got,        \* getsyscall.pid; 0 is no process's
  frenum,
  stored,     \* positions of the queue that get a row this round
  drained,    \* history: records read in this round
  last        \* history: each pid's newest row, or its node of the first round

guest   == <<tasks, given, calls>>
father  == <<pc, round, queue, pre_queue, exits, got, frenum, stored>>
vars    == <<guest, pipe, exitFile, father, drained, last>>

Node    == [pid : Pid, name : Name, flt : 0 .. MaxFlt, inc : Int, calls : Nat]
Sample(n) == [name |-> n.name, inc |-> n.inc, calls |-> n.calls]
Pos(s)  == 1 .. Len(s)
Pids(s) == {s[i].pid : i \in Pos(s)}

TypeOK ==
  /\ tasks \in Seq([pid : Pid, name : Name, flt : 0 .. MaxFlt]) /\ given \subseteq Pid
  /\ calls \in 0 .. MaxCalls
  /\ pipe \in Seq(Pid) /\ exitFile \in Seq([pid : Pid, name : Name])
  /\ pc \in {"walk", "exits", "drain", "store", "sleep", "done"} /\ round \in 0 .. Rounds
  /\ queue \in Seq(Node) /\ pre_queue \in Seq(Node)
  /\ exits \in Seq([pid : Pid, name : Name, calls : Nat])
  /\ got \in Pid \union {0} /\ frenum \in 0 .. 1
  /\ stored \subseteq Pos(queue)

\* getsyscall is not set before the first record is read.
Init ==
  /\ \E p \in Pid, n \in Name : tasks = <<[pid |-> p, name |-> n, flt |-> 0]>> /\ given = {p}
  /\ calls = 0 /\ pipe = <<>> /\ exitFile = <<>>
  /\ pc = "walk" /\ round = 0
  /\ queue = <<>> /\ pre_queue = <<>> /\ exits = <<>>
  /\ got \in Pid \union {0} /\ frenum = 1 /\ stored = {}
  /\ drained = <<>> /\ last = <<>>

(***************************************************************************)
(* The guest, and the child's records of it.  Only Walk reads the task     *)
(* list, so that what changes it between two walks is taken to happen just *)
(* before the second; a system call happens there or during the drain, an  *)
(* exit also between Walk and the read of the exit file.                   *)
(***************************************************************************)
Fork(p, n) ==
  /\ pc = "walk"
  /\ \A q \in given : q < p
  /\ tasks' = Append(tasks, [pid |-> p, name |-> n, flt |-> 0])
  /\ given' = given \union {p}
  /\ UNCHANGED <<calls, pipe, exitFile, father, drained, last>>

Work(i) ==
  /\ pc = "walk"
  /\ tasks[i].flt < MaxFlt
  /\ tasks' = [tasks EXCEPT ![i].flt = @ + 1]
  /\ UNCHANGED <<given, calls, pipe, exitFile, father, drained, last>>

Call(i) ==
  /\ pc \in {"walk", "drain"}
  /\ calls < MaxCalls
  /\ calls' = calls + 1 /\ pipe' = Append(pipe, tasks[i].pid)
  /\ UNCHANGED <<tasks, given, exitFile, father, drained, last>>

\* exit_group; somebody stays.
Leave(i) ==
  /\ pc \in {"walk", "exits", "drain"}
  /\ calls < MaxCalls /\ Len(tasks) > 1
  /\ calls' = calls + 1 /\ pipe' = Append(pipe, tasks[i].pid)
  /\ exitFile' = Append(exitFile, [pid |-> tasks[i].pid, name |-> tasks[i].name])
  /\ tasks' = RemoveAt(tasks, i)
  /\ UNCHANGED <<given, father, drained, last>>

Guest ==
  \/ \E p \in Pid, n \in Name : Fork(p, n)
  \/ \E i \in Pos(tasks) : Work(i) \/ Call(i) \/ Leave(i)

(***************************************************************************)
(* The father.                                                             *)
(***************************************************************************)
\* get_task_info sets the increments to the running totals.
NewNode(t) == [pid |-> t.pid, name |-> t.name, flt |-> t.flt, inc |-> t.flt, calls |-> 0]

\* Mutant of Walk: a new node goes to the front.
WalkPushFront ==
  /\ pc = "walk" /\ pc' = "exits"
  /\ queue' = [i \in Pos(tasks) |-> NewNode(tasks[Len(tasks) + 1 - i])]
  /\ UNCHANGED <<guest, pipe, exitFile, round, pre_queue, exits, got, frenum, stored, drained, last>>

Walk ==
  /\ pc = "walk" /\ pc' = "exits"
  /\ queue' = [i \in Pos(tasks) |-> NewNode(tasks[i])]
  /\ UNCHANGED <<guest, pipe, exitFile, round, pre_queue, exits, got, frenum, stored, drained, last>>

read_exitps_from_file ==
  /\ pc = "exits" /\ pc' = "drain"
  /\ exits' = [i \in Pos(exitFile) |-> [pid |-> exitFile[i].pid, name |-> exitFile[i].name, calls |-> 0]]
  /\ exitFile' = <<>>
  /\ UNCHANGED <<guest, pipe, round, queue, pre_queue, got, frenum, stored, drained, last>>

\* One more call for the first of s with this pid.
Count(s, pid) ==
  LET i == SelectInSeq(s, LAMBDA n : n.pid = pid)
  IN  IF i = 0 THEN s ELSE [s EXCEPT ![i].calls = @ + 1]

\* Mutant of Credit: find is not cleared.
CreditTwice(pid) == queue' = Count(queue, pid) /\ exits' = Count(exits, pid)

\* A row of the matrix, else an exit record, else nobody.
Credit(pid) ==
  /\ queue' = Count(queue, pid)
  /\ exits' = IF pid \in Pids(queue) THEN exits ELSE Count(exits, pid)

\* read() finds a record, or fails and leaves getsyscall as it was; the body of
\* the do-while runs in either case.
Drain ==
  /\ pc = "drain"
  /\ IF pipe # <<>>
     THEN got' = Head(pipe) /\ pipe' = Tail(pipe) /\ drained' = Append(drained, got') /\ UNCHANGED pc
     ELSE pc' = "store" /\ UNCHANGED <<got, pipe, drained>>
  /\ Credit(got')
  /\ UNCHANGED <<guest, exitFile, round, pre_queue, frenum, stored, last>>

\* Where findSamePointinQueue's search ends: at the same process, or at the
\* first with a higher pid; 0 at the end of the queue.
Stop(n) ==
  SelectInSeq(pre_queue, LAMBDA q : (q.pid = n.pid /\ q.name = n.name) \/ n.pid < q.pid)

Met(n) == LET k == Stop(n) IN k # 0 /\ pre_queue[k].pid = n.pid /\ pre_queue[k].name = n.name

\* The increments are filled in whenever the same process is found.
Increments(n) == IF Met(n) THEN [n EXCEPT !.inc = n.flt - pre_queue[Stop(n)].flt] ELSE n

compare2TaskNode(p, q) == p.inc = q.inc /\ p.calls = q.calls

findSamePointinQueue(n) == Met(n) /\ compare2TaskNode(Increments(n), pre_queue[Stop(n)])

\* The operands of && from left to right: only a node that passes the first two
\* is looked for.
Wanted(n) == n.name # "acl" /\ n.calls > 0

traversal ==
  IF pre_queue = <<>> THEN stored' = {} /\ UNCHANGED queue
  ELSE /\ stored' = {i \in Pos(queue) : Wanted(queue[i]) /\ (~findSamePointinQueue(queue[i]) \/ frenum > 0)}
       /\ queue' = [i \in Pos(queue) |-> IF Wanted(queue[i]) THEN Increments(queue[i]) ELSE queue[i]]

Latest(n) == IF n.pid \in DOMAIN last THEN last[n.pid] ELSE Sample(n)

Newest ==
  [p \in Pids(queue) |->
     LET i == SelectInSeq(queue', LAMBDA n : n.pid = p)
     IN  IF i \in stored' \/ pre_queue = <<>> THEN Sample(queue'[i]) ELSE Latest(queue'[i])]

Store ==
  /\ pc = "store" /\ pc' = "sleep"
  /\ traversal
  /\ frenum' = IF frenum > 0 THEN frenum - 1 ELSE 0
  /\ last' = Newest
  /\ UNCHANGED <<guest, pipe, exitFile, round, pre_queue, exits, got, drained>>

\* The queue becomes pre_queue; a new one is begun.
NextRound ==
  /\ pc = "sleep"
  /\ pc' = IF round + 1 < Rounds THEN "walk" ELSE "done"
  /\ round' = round + 1
  /\ pre_queue' = queue /\ queue' = <<>> /\ exits' = <<>> /\ stored' = {}
  /\ drained' = <<>>
  /\ UNCHANGED <<guest, pipe, exitFile, got, frenum, last>>

Father == Walk \/ read_exitps_from_file \/ Drain \/ Store \/ NextRound

Next == Guest \/ Father

Spec == Init /\ [][Next]_vars

-----------------------------------------------------------------------------
\* One element for each call that is counted in a queue.
Counted(s) == UNION {{k} \X (1 .. s[k].calls) : k \in Pos(s)}

Owner == Pids(queue) \union Pids(exits)

\* Every record read has been credited once, to a row or to an exit record,
\* unless it belongs to neither; the last one, in this round or an earlier one,
\* once more when the pipe was found empty.
Conserved ==
  pc = "sleep" =>
    Cardinality(Counted(queue)) + Cardinality(Counted(exits))
      = Cardinality({k \in Pos(drained) : drained[k] \in Owner}) + (IF got \in Owner THEN 1 ELSE 0)

Before(n) == {k \in Pos(pre_queue) : pre_queue[k].pid = n.pid /\ pre_queue[k].name = n.name}

\* A stored increment is what the process's counter grew by since the round
\* before, its running total if the process was not there then.
IncrementSinceLast ==
  pc = "sleep" =>
    \A i \in stored :
      queue[i].inc = IF Before(queue[i]) = {} THEN queue[i].flt
                     ELSE queue[i].flt - pre_queue[CHOOSE k \in Before(queue[i]) : TRUE].flt

\* A process that made a system call and gets no row repeats its newest row,
\* or its node of the first round.
UnstoredIsRepeat ==
  pc = "sleep" =>
    \A i \in Pos(queue) \ stored : Wanted(queue[i]) => last[queue[i].pid] = Sample(queue[i])

\* What is stored is an increment, and what is not stored can be done without.
RowsAreRight == TypeOK /\ IncrementSinceLast /\ UnstoredIsRepeat

\* "classfity 0 syscall not insert" (myqueue.c:148): a process of which no record
\* was read in this round gets no row.
IdleNotInserted == \A i \in stored : \E k \in Pos(drained) : drained[k] = queue[i].pid
=============================================================================
