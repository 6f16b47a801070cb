# A verification project for VMI-Process-Real-Detail-Infor

The program watches a Linux guest from a Xen host. A tracer puts `int3` on the
guest's system calls, a monitor walks the guest's task list once a second, Python
programs collect, score and compare what is seen, and three detectors warn of
anomalies and answer them. This directory holds TLA+ models of these parts, the
TLC runs that check them, and proofs that the TLA+ proof system checks.

    tlc -config TrapOneVcpu.cfg MCSyscallTrap     # a run: see section 3
    tlapm SyscallTrapProofs.tla                   # a proof: see section 5

Paths below are relative to `src/host/`; `main.c`, `mysyscall.c`, `mypsinfo.c`,
`myqueue.c`, `mymodinfo.c` and `vminit.c` are in `src/host/processinfo/`;
`external_data.py`, `sock_server.py`, `DBHelper.py` and the `ext_*.py` in
`src/host/state/`.

## 1. Inventory

### The program of `host/processinfo`

`main.c` makes a pipe (163), forks (169), and is then two processes that share
that pipe and two files.

**The tracer (child, main.c:400-534, mysyscall.c).** State: the table
`syscallall[]` of the conf (address, sign, `pre`: the byte that was there), the
row `vmivm->syscall` of the last trap, `trapnum`, the flag `interrupted`, and the
guest's memory. Operations: arm every signed row with the VM paused; `trap_cb`
(find the row, write the record, put the byte back, step); `singlestep_cb` (arm
it again); sweep `sys_call_table` every 10000 traps and mend what was redirected;
on a signal or when the father is gone, restore. Hard: `vmivm->syscall` is one
variable for all vCPUs; the bytes are put back while the VM runs and callbacks
are owed; a write to a full pipe sleeps; a signal may come at any time; a kill
leaves the guest armed, and the next tracer finds it so. Correct if the guest
gets back its code, an entry is unarmed only while it is passed, a caught vCPU
gets on, an interrupt ends the tracer, a redirected slot is mended in time.

**The process list (child, mypsinfo.c, mysyscall.c:49-306).** State:
`vmiinfo->pslist`, a linked list in the order of the pids with a tail pointer,
saved in the file `.pslist`. Operations: `initPs`; `trap_cb`'s search by page
directory, else an addition by pid; a changed name renews the node; `kill` and
`exit_group` delete it and append to `.exitps`. Hard: pid -1 of a caller off the
task list is the largest `uint32_t`; a kill of any signal deletes a node that
lives on; a death by a signal announces itself nowhere; page directories are used
again. Correct if the list is in order with one node per pid, `.pslist` says the
same, and a call is credited to its caller.

**The monitor (father, main.c:174-399, mypsinfo.c, myqueue.c, mymodinfo.c).**
State: the queue of the round and that of the round before, the two lists read
from the files, the counters of the drain, the list of modules. A round walks the
task list (the VM runs on), reads `.pslist`, reads and empties `.exitps`, drains
the pipe and credits each record, looks for hidden modules and hidden processes,
computes parent layers, stores what changed, sleeps. Hard: nothing synchronises
it with the child or the guest, and the walk follows the pointer of the node it stands
on, which may be off the list by then; the body of the drain loop runs once more after
the pipe is empty; the queue of one round is the reference of the next; the
merges assume ascending pids. Correct if records are credited once, increments are
against the same process, a report means something was hidden (or one of a short
list of known causes), and what is hidden is reported.

### The Python programs of `host`

Each detector is started by a `start_*` script, stopped by a `stop_*` script, and
hears of it through a flag file (`0` stopped, `1` training, `2` running) that is
empty between its `open` and its `close`; a thread that reads it then dies.

| part | state | operations | hard |
|---|---|---|---|
| process detector: start_ps_detect.py, run_psinfo.py, stop_ps_detect.py | `.psdetect`, tables `nowpsinfo` and `warning`, `warning_psid` | train, classify the new rows and commit, poll the file; a collector thread starts and ends the program above | three writers of one file without a lock, reads of it while it is empty, two starts at once |
| state detector: start_state_detect.py, calcul_lof.py:208-302 | `.statedetect`, `nowstate`, `warning`, `response`, one connection with uncommitted writes | train, score, mark, warn, sum up, answer | a failed statement rolls back others; the answer writes the file that is polled next |
| collector of states: external_data.py:138-304 | the guest's reports, its own earlier counters | `exdamain` | exceptions that end or spin a loop, a first turn that skips the flag |
| net detector: start_net_detect.py, stop_net_detect.py | `.netdetect`, Snort's `event`, a queue between two threads | `start_ip`, `start_tcp` | two databases without a common transaction; a thread that dies with the queue in use |
| Snort feed: read_snort_sql.py | `snort.sql`, the mark of the last event seen | a loop that warns and moves the mark | a kill between the two, or while the file is empty |
| training, consoles: calcul_lof.py, calcul_sklearn.py, calcul_knn.py | tables of samples, their classes | operations 1 to 19 | batches, rollbacks, loops that end only when nothing is left |
| scores: calcul_lof.py:22-157, calcul_knn.py | none | local outlier factor, knn ratios | ties, a bounded priority queue |
| guest feed: client/state_client.py, sock_server.py, external_data.py:68-136 | `.ps` and what file objects hold back | the guest reports, a handler writes, `getOutPsNum` compares with the outside view | files that are never closed, reports that are stale, cut or mixed |
| walks: ext_process_list.py, ext_module_list.py, get_psinfo.py, get_modulelist.py | none | follow the guest's lists | the guest links and unlinks meanwhile |
| response: response_detect.py | `.state`, all flag files | `responsevm` stops the detectors, pauses, shuts down or migrates | called by one of the detectors it stops |
| database: DBHelper.py, DBSnort.py | a connection | statements, commits, rollbacks | errors are hidden or turned into another exception |

How they interact: `run_psinfo.py` starts `processinfo` and ends it with
`terminate()`, which kills the father only; the child sees `getppid() == 1`.
`processinfo` adds rows to `nowpsinfo`, the process detector updates them;
`exdamain` adds rows to `nowstate`, `detectState` updates them; Snort adds events
that the net detector marks and the Snort feed only reads; `responsevm` writes all
the flag files.

`PROJECT.json` lists every component with its status, and every hazard with its
line and the properties that cover it.

## 2. Modules

| module | models | state and actions against the code |
|---|---|---|
| `SyscallTrap` | the tracer | `phase` is the place in main.c: `arm` 447-477, `listen` 502-511, `trap` and `blocked` before and in `write()` (mysyscall.c:129), `restore` 514-523. `byte`, `pre`, `table`, `syscall`, `trapnum`, `interrupted` are the code's. vCPUs, the event ring and the pipe are external. `found`, `age` are history. |
| `PsList` | the process list | a system call, with all that `trap_cb` and `record_syscall` do to the list and the two files, is the one action `Trap`: the vCPU waits and the child has one thread. `Fork`, `Exec`, `Hide`, `Die` are the guest's. |
| `PsTable` | what the list promises | the abstract table pid -> name and page directory; `PsList!IsTable` is the refinement. |
| `Monitor` | father and child interleaved | one action per file or pipe operation and per task of the walk. `at` is `next_list_entry` (main.c:257), `after` what a task that was unlinked still points at. A rewritten file is truncated, then complete (`whole`); what a read meanwhile gives may be any set of pids. `End` is the child's end: its list is gone, `clear_ps_file` empties the file. |
| `HidePs` | `detect_hide_ps` | one action per turn of its two loops. |
| `SampleQueue` | queue, drain, `traversal` | one action per stage of the round, one per turn of the drain. A node begins with the running total as its increment, as `get_task_info` fills it in. |
| `ParentLayer` | `setParentLayer`, `getParentLayer` | one action per turn of the loop; the recursion is a function of the position. |
| `ModuleWatch` | hidden modules | the drain's counting, the comparison, `find_hide_module`, the guest's loads and removals with entry and effect apart. The list is read (main.c:150) before the child sets the traps (434-492): `traps` says whether they are set, and `op.recorded` whether the call under way met one. |
| `PsDetect` | the process detector | one action per read, open or write of `.psdetect`, and per transaction, which may fail and end its thread, for every run of the script. |
| `DBHelper` | a connection | `select`, `myupdate`, `allcommit`, `dosql` on a table and on what is pending. |
| `StateDetect` | the state detector, `exdamain`, `responsevm` | one action per SQL statement, per read, open or write of `.statedetect`, per step of the answer; `table` is what is committed, `pending` what the connection holds, `lof` the score of a row and `state_f` the column `state_anomaly`. |
| `Training` | the consoles' operations on stored rows | one action per statement; an operation is a sequence of calls of (table, limit of the ids), `Calls`. |
| `NetDetect` | `start_ip`, `start_tcp` | one action per statement and queue operation, `i` is each thread's counter. |
| `SnortFeed` | read_snort_sql.py | one action per event, per open and write of `snort.sql`, and a kill. |
| `GuestFeed` | `.ps` from the guest to `getOutPsNum` | a report is a sequence of lines; `buf` is what the file object of a handler holds back, flushed when the name is bound again. |
| `ListWalk` | six functions that walk a kernel list | one action per node read; the guest links and unlinks in between. |
| `NearestQueue` | the choice of the k nearest | one action per row offered to the `PriorityQueue`. |
| `Lof` | the scores | the functions of calcul_lof.py and calcul_knn.py as operators, on rows whose distances are whole numbers. |
| `*Proofs` | proofs (section 5) | |
| `MC*` | instances for TLC | |

The models meet where the components do. `Monitor` takes the list as the set of
its pids, which `PsList` justifies (`ListAndFile`), and `detect_hide_ps` as a set
difference less the kworkers, which `HidePs` justifies for ascending lists
(`MergeIsRight`); of a torn file, which may not be ascending, it may be any subset.
`SampleQueue` takes a system call with its records as one step; `Monitor` has the
finer order. `SyscallTrap` has the pipe as a counter and leaves the list to
`PsList`. `StateDetect` gives a row any of the scores in `Score`, `Training` any
verdict; `Lof` says what scores are computed from, `NearestQueue` with which neighbours.
The walk of `GuestFeed` is one step; `ListWalk` has the reads it is made of.

Four MC modules hold more than one component that share no state: a variable `on`
says which of them runs, the others rest in a state without steps. Such a run
explores the sum of their state spaces, never the product.

Definitions whose comment begins "Mutant" are plausible bugs. They are in no
specification; each property below is violated when one of them takes the place
of the definition it mutates.

## 3. Runs

| run | question | what it shows |
|---|---|---|
| `TrapOneVcpu` | Does the tracer keep its promises to a guest with one vCPU, when the father may die and the tracer be killed and started again? | `RestoredWhenStopped`, `ArmedUnlessStepping`, `HookAgeBounded`, `TrappedGetsOn` |
| `TrapTwoVcpus` | Does it still restore, and stop, with two? | `RestoredWhenStopped`, `InterruptStops`; also with an interrupt that is raised by the failed step of vCPU 1 |
| `TrapFatherGone` | Does an interrupt always end it? | no: finding 1 |
| `TrapSharedEntry` | Does the conf as shipped give the guest back its code? | no: finding 2 |
| `PsListCalls` | Is the list in order, saved, credited, and a table, over every sequence of calls, forks, execs, kills, exits and silent deaths? | `ListAndFile`, `CreditedToCaller`, `CleanExitLeavesNoNode`, `IsTable` |
| `MonitorRounds` | Which records may be lost, who may be reported, who must be? | `LossExplained`, `NoFalseAlarm`, `HiddenIsReported` |
| `HostRounds` | What do comparisons of two rounds, or of two views, say? | samples: `Conserved`, `RowsAreRight`; modules: `ModuleNoFalseAlarm`, `ModuleHiddenIsReported`; ps from inside and outside: `FeedNoFalseAlarm`, `FeedHiddenIsWarned` |
| `SampleIdle` | Does an idle process get no row? | it does get one: finding 3 |
| `Algorithms` | Are the merge, the layers, the neighbours, the scores and the walks right on every small input? | `MergeIsRight`, `Terminates`; `LayerIsDepth`; `KNearest`; `ScoresAreRight`; `WalkReadsStayers`, `WalkEnds` |
| `DetectTwoRuns` | Do a stop and a second start, with reads of the empty file, leave rows classified, anomalies warned, threads ended? | `AnomalyIsWarned`, `RowClassified`, `StopStops` |
| `EventRounds` | Is every network event warned of and counted once, over failed statements, dying threads, kills and restarts? | `CountedAndWarned`, `EventsHandled`, `NetStops`; Snort feed: `NothingSkipped`, `EventsWarned` |
| `StateRounds` | Do marks, warnings, sums and answers agree, over failed statements and stops? | `CommitsAgree`, `AnomaliesAnswered`, `StateStops`; training: `EndsClassified`, `WarnedOnce`, `RowsGetClassified` |

What the properties say is in the comment above each. The ones that took most
thought:

* `LossExplained` names the only ways a record may be lost between a dying
  process, the two files and the pipe; `NoFalseAlarm` of `Monitor` the only ways a
  process that is not hidden may be reported. One of them is a fork behind the walk:
  where the walk stands on a task that was last when it was unlinked, it ends there,
  and misses whoever was forked since (`bornLate`). Whoever was linked when the walk
  began is met or has died, whatever else is unlinked. A file read while it was
  written excuses everything, since a pid may be cut in two.
* `HiddenIsReported` of `Monitor` leaves out the kworkers: a process of that name is
  not reported by the code (mypsinfo.c:910), hidden or not.
* `ModuleWatch` keeps in `blamed` whatever makes the count of system calls differ from
  what happened. A call between the read of the list and the setting of the traps is
  one: the length of the list is off by one then, and a report, or one hidden module
  less, is the result.
* `FeedNoFalseAlarm`: the file may hold the head of one report and the tail of the
  one before, a hole, or nothing. Only the stamp in the last line and the first letter
  keep such a file from being compared. The property says that they are enough as long
  as there is one connection: an alarm is then no older than the two seconds the stamp
  may be off. Once a connection was lost they are not, since its handler may write
  what it held back over a newer file at any time; an alarm may then be as old as the
  oldest line compared, and no older.
* `CommitsAgree`: the mark of an anomaly and its warning are two statements of one
  connection, and any other row's statement may commit or roll back what is
  pending between them. They stay together because nothing commits between the two.
  The sum in memory is no less than what the committed warnings are worth: each
  `state_anomaly`, or, where that is 0, its own score (calcul_lof.py:265-268).
* `AnomaliesAnswered` adds up those worths. Without a `state_anomaly` a low score, which
  is an anomaly as well, adds less than one: more warnings than a limit do not mean an
  answer, a sum of scores above it does.
* `WarnedOnce`: a batch that is rolled back is asked for again, with its warnings.
* `NothingSkipped`: the mark is whatever row the query gave last; that skips
  nothing, since it is written only when the batch is through.
* `WalkReadsStayers`: a walk that began before a node was unlinked goes on along a
  pointer nobody maintains, and still reads what stayed exactly once.

### Bounds

* The tracer: four rows cover the cases the code tells apart (a signed row, a
  signed row with an unsigned second name, that second name, a row without an
  address); two entries suffice for one to be armed in place of the other.
  `PipeCap` 1 makes the pipe full after one record. `CheckPeriod` 2 (the code has
  10000) lets a slot be redirected just after a sweep and live through a whole
  period. Two lives are a kill and a restart. With two vCPUs the period is 1 and
  there is one life: what two vCPUs add is the order of events.
* The list: pids 0 to 2, with the pid 3 for -1: insertions before, between and
  after, deletions of the last and of another. Three page directories for two
  processes let one be free at each exec or fork, and be used twice. The idle task
  is never a caller and is given no page directory; names and page directories
  are symmetric.
* `Monitor`: two processes, one of them a kworker, two calls, two rounds, and a pipe that
  holds both records: a call and the `exit_group` after it can both be left unread by a
  father who then walks a list without their process, which is what `LossExplained` is
  about. One process that dies under the walk and another that is forked meanwhile are
  what a walk needs to end early. The sleeping `write()`, and the interrupt that ends it,
  do not occur at this bound; `SyscallTrap` is about them, and the proof has no bound.
* `HostRounds`. Samples: two pids, three calls, three rounds, a counter that may grow
  once for each process, in either of the two intervals; a second round is the
  first that compares, a third the first that compares with one that did. Modules:
  three (symmetric: `ModuleWatch` compares modules and never orders them), two calls,
  three rounds; the traps are set, and removed, at any moment. Feed: two processes, of which one may be there from the start or not, lines of which two fill a
  block, so that a report is written in part and held back in part; five reports,
  two connections, one change in the guest and one fault (a report cut, run together
  with another, or taken for something else); three processes with any of them there at
  the start were checked apart (5.8 million states), and the proof has no bound.
* `Algorithms`. The merge: every pair of ascending lists over five pids (the proof
  has no bound). Layers: four processes in every order; the recursion then leaves
  marks behind, meets them, and meets a missing parent below them (no bound in the proof). Neighbours: four
  rows, three distances, one to three places: ties, a queue that fills early, at
  the last row or not before it (no bound in the proof). Scores: four rows and a point on the
  corners of a 3 by 4 rectangle, k = 2, every choice (the proof is for any rows whose
  distances are whole, and any k). Walks: five nodes, five
  changes.
* `DetectTwoRuns`: two starts and one stop, two processes, a limit of one, so that
  a sum above it occurs; any statement may fail.
* `EventRounds`: three events of which two are TCP, a limit of one, one stop, two
  failed statements; four events of which three are a guest's, two kills, one failed
  insert.
* `StateRounds`: three rows with scores of 0.5, 1 and 10.1, of which the first and the last
  are anomalies, a `state_anomaly` of 0 or 2, limits 20, 3 and 1: three low scores are above
  one limit, a high one or two anomalies of 2 above two of them, two high ones above
  all, so that each of the three ways occurs. Where `state_anomaly` is 0 all three rows are
  anomalies, where it is 2 those of low scores are not: a low and a high score add the
  same then. Two stops, two failed statements. Training: four rows, two of them training
  data, since with exactly one the code never gets to a verdict (section 4), two stages,
  one failed statement.

One start suffices in the last two: what two do to a flag file is in
`DetectTwoRuns`, and the scripts differ in nothing else that two runs share.

Deadlock is not checked: each of these models comes to an end at its bounds, and
the programs stop by design. Pids are given out in ascending order and a chain of
parents ends: these are assumptions of the code, not facts of a long-lived guest
(section 6).

### Fairness

`SyscallTrap!Fairness`: the child is scheduled; a vCPU told to step does; a living
father reads on, since its round sleeps one second and drains until `EAGAIN`. All
three are weak. `Leave` is strong, since the loop's test (main.c:502) is reached
after every return of `vmi_events_listen`, which returns after the requests it
found: the test is seen again and again although each trap leaves it for a while.
Nothing obliges the guest to call, the father to die or a signal to come.

Elsewhere all fairness is weak and of one kind: a loop of the program that can
take a step takes it. `HidePs`, `ListWalk` and `Training`: the loop runs.
`PsDetect`, `NetDetect`, `StateDetect`: threads run, and a file that was opened is
written; nobody has to start or stop, rows and events need not come, statements
need not fail, the guest may be silent. `SnortFeed`: the program runs, and is
started again when it was killed. The liveness properties say what else has to
hold: a stop that is not overwritten, a thread that does not die.

## 4. Findings

1. **An interrupt may be lost** (`TrapFatherGone`, main.c:502). mysyscall.c:5 says
   "interrupt to recover enter addr". When the father is gone and the pipe is full,
   the child sleeps in `write()` (mysyscall.c:129): it holds a read end itself, so
   there is no `EPIPE`, and a signal taken just before `write()` is not seen again.
   The entries stay armed and the vCPU stays caught.
2. **Rows that share an entry** (`TrapSharedEntry`, main.c:452).
   `config/4.4.57_syscall.conf` gives rows 134, 205 and 211 one address and sign 1
   each. The later ones take the first one's `0xCC` for the byte to restore, and
   the restoring loop writes it back last.
3. **The last record counts twice** (`SampleIdle`, main.c:305). myqueue.c:148 says
   "classfity 0 syscall not insert", but a process of which no call was read in a
   round gets a row when it made the last call of the round before.

Met while modelling. No doc or comment says otherwise of these, so they are no
runs; where a property meets one, it states it as an exception:

* With two vCPUs `ArmedUnlessStepping` and `TrappedGetsOn` fail: a trap of one
  vCPU replaces the row that the other's step is to arm, and the step of one arms
  the entry the other has still to pass. vCPU 1's own step ends the tracer, since
  only vCPU 0 has a handler (main.c:483). The code is written for one vCPU.
* A tracer started after a kill takes the left-over `0xCC` for the guest's byte:
  `TrappedGetsOn` needs its last disjunct.
* A flag file is emptied before it is written: a thread that reads it in between
  dies with `ValueError`, and a collector leaves its subprocess running. The end of
  the training writes `2` over a stop. `StopStops`, `StateStops` and `NetStops` say
  what is left. A quit of the console leaves the collector's subprocess, too.
* start_ps_detect.py:87 and start_net_detect.py:160 call `responsevm`, which they do
  not import: above a limit the thread ends with a `NameError`. The net detector's
  `in_q` then grows without end, since nobody takes anything out of it.
* A kill between the open and the write of `snort.sql` leaves it empty, and no later
  start gets past its first query (read_snort_sql.py:82): the exception `pc = "dead"`
  of `EventsWarned`.
* The walks that end at the address of their first node do not end when that node
  is unlinked (ext_module_list.py:51, get_modulelist.py does better): the exception
  of `WalkEnds`.
* A report is opened for writing and never closed (sock_server.py:31): what its object
  holds back goes to the file when the next one has its name, or when the handler of a
  connection that the client gave up (state_client.py:72-87) comes to its end, over
  whatever report is there then: the second disjunct of GuestFeed's `NoFalseAlarm`.
* A process named `ps` or `lsmod` is never reported (external_data.py:114). While
  `.ps` is empty `exdamain` spins on an `IndexError` and does not look at its flag.
* Operations 8, 19 of calcul_sklearn.py and the main of calcul_knn.py end at once by
  a `TypeError` or `NameError`; that of 19 takes its thread along (`MainEnds`).
* Anomalies become training data: `detectState` trains on the rows of `state` with
  `stat = 1` (calcul_lof.py:213), the class operations 3 and 5 give anomalies there.
* `getdisance` of calcul_lof.py leaves out column 0, `getoplof` does not. `Lof` has
  both as they are.
* With exactly one training row the neighbours' queue is empty and `get`
  (calcul_lof.py:52) waits for ever: the detector of states never writes its `2`, a
  command never ends. `RowsGetClassified`, `StateStops` and `AnomaliesAnswered` are about
  training data of another size; `Training` and `StateDetect` leave this one out.
* `fscanf` of a line that does not begin with a digit returns 0, which is not `EOF`
  (mypsinfo.c:883, 952): a `.pslist` that is read when a block of 4096 bytes has ended in a name,
  and written on from a line's middle, may hold the father in that loop for ever, where the
  C library reads on behind an end of the file. `Monitor` lets the read come to its end.
* The tail of `detect_hide_ps` compares seven bytes of a name in an array whose eighth is
  never set (mypsinfo.c:933-935): a kworker younger than the last row may be logged as hidden.
* A kworker is never warned of in the middle of the merge: a process that is hidden and takes
  that name is not reported.
* The list of modules is read before the traps are set (main.c:150, 434-492): a module that
  is loaded or removed in between counts as a hidden one, or makes up for one, from then
  on: `blamed` in `ModuleWatch`.
* DBSnort's update returns an unbound name when it fails, so the thread that
  marks an event dies, having warned of it.

## 5. Proofs

**`SyscallTrapProofs`** has four theorems, for every conf, number of vCPUs, pipe and
`CheckPeriod`, and any number of restarts. Assumed: `ConfAssumption` and
`HostAssumption` (TLC evaluates both). All rest on `IInv`, which needs nothing more:
the types (theorem `Typed`); `RingOK` (a vCPU has at most one event in the ring and
waits for it), `CpuOK` (it stands at an entry, and a step implies a row in
`syscall`), `InTrap` (the oldest event, while `trap_cb` works, is an `int3` of a
signed row), `Quiet` (nobody is held while nobody listens) and `Kept` (`pre` holds a
byte of the guest's for the rows armed so far).

* `Safety`: `DistinctAddr => (Spec => []RestoredWhenStopped)`. The property speaks of
  one phase only, so `Owed` follows the bytes through all of them: `PreOK`, `pre`
  holds what was found, for the rows armed so far; `RestOK`, an entry of no row armed
  so far is as found; `RestoreOK`, the rows behind the restoring loop's cursor are as
  found. Restoring with callbacks owed is safe because none of them is run after the
  loop is left, and the step of a vCPU writes nothing. `DistinctAddr` (no two signed
  rows share an entry) is used in `ArmRow` alone, where the second of two such rows
  would keep the `int3` of the first; without it `TrapSharedEntry` refutes
  `InterruptRecoversEntry`.
* `HooksAreMended`: `Spec => []HookAgeBounded`. `AgeOK` bounds the age of a slot by
  `trapnum`, but for the moment before a sweep, where it is bounded by the period: a
  slot that is redirected while `trap_cb` works is not seen by the sweep of that trap,
  and its first trap is that very one.
* `StaysArmed`: `Vcpus = {0} => (Spec => []ArmedUnlessStepping)`, for the real conf
  too, whose signed rows share entries. `ArmedOK`: the row in `syscall` is one of the
  entry the vCPU is passing, so `singlestep_cb` arms what `trap_cb` opened.

**`AlgorithmsProofs`** has five algorithms. `MergeCorrect`: `Spec => []MergeIsRight`, for
lists of any length. `MergeInv` says that both lists are ascending (`Sorted`), that what is behind `q` is
older than all from `p` on (`Behind`), that every process behind `p` has been
decided rightly and none from `p` on has (`Decided`), and which list has ended
(`Tail1`, `Tail2`).

`NeighboursAreNearest`: under `QueueAssumption`,
`ScanSpec => []KNearest`, for every number of rows, all distances, ties included,
and every k. `KNearest` is inductive with the types. The step is that a full queue gives
back a farthest row (`GetExists`, by counting the rows that come out before it), so that replacing it by a nearer one leaves nothing nearer outside.

`LayersAreDepths`: under `ParentAssumption`, `Layer!Spec => []LayerIsDepth`, for queues
of any length in any order. `LayersRight` says that a layer that is set is the depth
and that everything above it is set too, which is why the recursion may stop at a node
with a layer. The ancestors of a pid are the least set closed under parents; where
all chains end nobody is above itself (`NoCycle`), so the parent's set is the node's
without the node, and the depth grows by one (`DepthSteps`). The recursion is not
unfolded: a closed form `Answer` satisfies its equation (`TurnAnswers`), and nothing
else does (`OneAnswer`), since a pid with the fewest ancestors among those with
another answer would recur to one with fewer.

`ScoresAreFactors`: under `LofAssumption`, `Scores!Spec => []ScoresAreRight`, for every
number of rows, every k below it and any rows whose distances are whole. `NearIs` is
`KNearest` over, for the loop of `getlof`, which skips the row itself; `KthIs` says
that what a full queue gives back is at the distance of the Kth nearest row, however
many are as far. Which of these the queue keeps depends on the order of the rows; that it
makes no other score of the distances' sum is `SumsAgree`: a sum is the number of cells of its columns
(`SumIs`), and two choices differ in columns of one height. The factor itself may
depend on the choice, for two rows as far may have different densities: the
property, as the definition, is of some choice of nearest rows.

`WalksReadStayers`: `Walks!Spec => []WalkReadsStayers`, for any nodes and any number of
changes under way. An unlinked node keeps its next pointer, so the node the walk
stands on may be off the list, and the one it leads to as well. `Chain` is the way from
there to the first node that is linked; from its end on the list is as it should be
(`Outward`: what comes before has been read if it stayed, and nothing after). The
functions that do not stop at the head go through phases: they come to the head
(`Begun`), go on from it to where they started (`Near`), or to where they started
although it was unlinked meanwhile (`Closing`), or past it for ever (`Lost`, the
exception of `WalkEnds`).

**`StatesProofs`** has the detector of states and the commands of the consoles. `MarksAgree`: under `StateAssumption`, `Spec => []CommitsAgree`,
for any rows and runs (at once, too), any number of stops and of statements that
fail. What is committed is right because of what is not: `Held` says what a
connection may have pending, marks of anomalies, each with the warning of the same
run, but for the row `Warn` is about to warn of, and nothing at all once the turn is
over; `Sound` says that marks and warnings of the committed table agree, and that
only anomalies are warned of, so that a row of `MoveOut`, which commits whatever is
pending with its own mark, never touches one that has a warning. `Counted` bounds what the
warnings of a run, committed or not, are worth by its sum: `CommitsAgree` speaks of the
committed ones alone, which is not kept by `EndTurn`. Where `state_anomaly` is 0 only
the high scores are counted (`Heavy`), each for more than ten; the low ones are positive and
do no harm. Each statement keeps these by
a lemma of its own (`MarkHeld`, `WarningHeld`, `CommitOne`, `CommitAlone`).

`CommandsClassify` (`Train!Spec => []EndsClassified`) and `RowsWarnedOnce`
(`Train!Spec => []WarnedOnce`), under `TrainingAssumption`, share `TInv`. `WarnedOnce` is about
what is committed; `Unsaved` adds that what is not committed are rows, each with its own
warning, so that a rollback takes both and a commit gives both. `CallsOver` says that
the calls of a command that are over have left no row, but for the one operation
that asks again, and `AskedOnce` which rows the others may leave. That
`First <= Limit[1]` is assumed and needed: what `Unmark` sets back to 0 is below the
first limit (501), so the stage that comes again reads it.

**`PsDetectProofs!AnomaliesWarned`**: under `DetectAssumption`,
`Spec => []AnomalyIsWarned`, for any rows, processes, detectors at once and stops.
A run leaves out the processes it remembers to have warned of;
`Remembered` says that those are in the table, whoever put them there, and
`Marked` that a row marked anomalous has its process in the table.

**`MonitorProofs`**: under `MonitorAssumption`, `LossesExplained`
(`Spec => []LossExplained`), `AlarmsAreRight` (`Spec => []NoFalseAlarm`) and
`HiddenAreReported` (`Spec => []HiddenIsReported`), from one invariant. The father
misses a process either with one of the excuses the properties name or because it
has left, and the argument is that of the order of the files: `WalkOK` says that whoever is on
the task list, and has no excuse (`Met`), is still ahead of the walk (`Ahead`: what is come to
from the node it stands on), so that who is not met at its end has left; `ListOK` that who has
left is in no complete `.pslist`, so that `SeenOK`, what was read of it has nobody
else in it. `ExitOK` says that a record still in the pipe, of a process whose exit
record has been appended, has that exit record in `.exitps`, in what the father has
read, or among those emptied away; it turns into `ReadOK` at the reading of `.exitps`,
which is after the walk: whoever the drain finds no row for is in `exits`. That the
exit record goes before the pipe, and is read before the drain, is used in
`AppendExitIInv`, `WritePipeIInv` and `ReadExitsIInv`. `BeforeOK` keeps the
processes that were hidden before the round out of the queue and in the file: nobody points
at them but they themselves, whoever is unlinked. The list under the walk has lemmas of its
own. `Ahead` is a least set closed under `NextOf`; `LinkAhead` and `UnlinkAhead` say that
a task that is linked, or goes, takes nobody else out of it, the latter although the walk
may stand on the task that goes, or on one that points at it; `AheadOfHead` that a walk that
begins has the whole list ahead.

**`PsListProofs`**: if `KernelPgds = {NoPgd}`, `ListStaysRight`
(`Spec => []ListAndFile`), and the refinement `ListIsTable` (`Spec => Table!Spec`).
The assumption is needed: `initPs` reads the page directory of a task without an mm
through a null pointer, and were the value that is left there one of a process, the
idle task's node would be credited with its calls, and its `exit_group` would
delete the node `add_pslist` starts its walk at. The invariant is `InOrder` (strict
order of the pids, the idle task first and out of reach of a lookup, `last` the
length), the types, `FileIsList`, and that a live task's pid is a pid
(`Tasks`). `TrapEffect` sums up what a system call leaves: the nodes of
the other pids as they were, the caller's with its name and page directory, the
victim's gone (`Added`, `Renamed`, `Deleted`); `CallTable` reads that off as the abstract
`Call`, by `TableValue`: a list in order has one node for each pid.
Under the same assumption `CallsAreCredited` and `LeaversAreForgotten` prove
`CreditedToCaller` and `CleanExitLeavesNoNode`. Both speak of the calls made while no
page directory has been used twice, and so does their invariant `Credits`: pids are
given out once (`PidsOnce`), a node with the page directory of a task is that task's,
or the one of pid -1 while the task is off the list (`Owned`), and a task that is
leaving has no node (`Gone`).

**`RoundsProofs`** is about what the father compares of two rounds. For the samples,
`RecordsCreditedOnce` (`Spec => []Conserved`) and `RowsSayWhatChanged`
(`Spec => []RowsAreRight`), under `SampleAssumption`, from `QInv`. `Sorted`: both queues, and
the list of tasks, ascend; only so does a search that stops at the first higher
pid find what there is to find (`Found`), and a record count in one node
(`OnlyOne`). `Balanced` is `Conserved` for every place in the round: what has been
counted in the queue and in the exit records is what has been drained of their
owners, with the last record twice once the pipe was empty (`CreditedOnce`).
`Repeated` carries the samples that were left out from one round to the next,
since a process may be left out any number of times. An increment that no search has
replaced is the running total of `NewNode`.

For the modules, `NoModuleIsBlamedFalsely` (`Modules!Spec => []ModuleNoFalseAlarm`) and
`HiddenModulesAreReported` (`Modules!Spec => []ModuleHiddenIsReported`), under
`ModuleAssumption` (modules are finitely many, there is a round), from `MInv`. A record
is counted before its call has an effect, and a round is over in between, so that no
two numbers the program holds ever agree by themselves. `Account` is the equation that
does hold while nothing has gone wrong: the length of the guest's list, and what has
been hidden since the list was read (all but `before`), is the length of the list
kept, less what has been counted, less what the records in the pipe will count
(`Adds`), plus the call under way if it was recorded (`Due`). At the comparison the last two are nothing, so the
difference is the number of modules hidden since (`HiddenSince`), which is as many as
find_hide_module looks for; `AllReported` says that it then finds those, since all of
them, and no others, are gone (`Kept`).

For the guest feed, `NoProcessIsWarnedOfFalsely` (`Feed!Spec => []FeedNoFalseAlarm`) and
`HiddenProcessesAreWarnedOf` (`Feed!Spec => []FeedHiddenIsWarned`), under `FeedAssumption`, from
`FInv`. A file may be made of pieces of several reports, so it is not described as a
report but line by line, by what the guest is now (`FView`: the processes its ps lists,
its last change, the number of reports): a line made since the last change is where it
would be now (`FPlaced`), whoever wrote it and whenever, and with the first line comes
the first block (`FBlock`); what was never written is in that block only (`FCells`). With
one connection the lines get no younger towards the end (`FFalling`), so that a stamp
which is young enough has nothing but young lines before it. `FeedDisk` says that every
step keeps this. From it `GoodFileIs` reads off that a file that passes for good, with no
line older than the last change, is one whole list. `MissedAre` then says what
getOutPsNum's merge makes of two ascending lists, by a closed form of where its index
is after so many lines (`PlacesAre`): it passes over exactly the processes the walk
met and ps did not list. `FKnown` carries the result to the next turn, since a warning
takes two.

**`EventsProofs`** has the two readers of Snort's table. `NothingIsSkipped`
(`Snort!Spec => []NothingSkipped`) rests on `Looked`: in the middle of a query's rows,
which come in any order, the mark in memory says nothing, but all events up to some
cid have been looked at except the rows that are left; it is written after the last of
them. `CountsAndWarnings` (`Net!Spec => []CountedAndWarned`), for any number of runs
at once: an event is handled once because it is marked before the next is taken
(`Marked`), and what a thread has still to do it has not handled (`Fresh`), so that
each statement adds one to both sides of the sum.

In all of these a loop that finds a first match is written with `CHOOSE` of a least
index. `LeastElement`, proved from the well-foundedness of `<`, says that there is one;
each module that needs it has its own copy, since the modules have no common root.

Recursion and folds (`getParentLayer`, the loop of `near`, the sums of `Lof`) are over data,
and the library's induction takes an operator as parameter. These proofs have no
induction: they give a closed form and refute a least counterexample.

Model-checked only: liveness, out of the prover's reach.

## 6. Not modelled

* Pids that wrap round. The queue is then not ascending: `findSamePointinQueue`
  stops at the first higher pid (myqueue.c:87) and stores the same node again, and
  `add_pslist`'s order is not the task list's.
* A cycle of parents, on which `getParentLayer` does not end.
* An `int3` of the guest's own, for which `get_sysnum_from_rip` returns -1.
* A guest that calls faster than the father drains: there is no bound in the code,
  and a rate is not an order.
* A father without the file `.modl`, which `fscanf` reads through a null stream; in
  `ModuleWatch` an absent file is an empty one.
* Field-by-field extraction (`get_task_info`, `get_files_info`, `get_socket_info`),
  offsets, access lists, printing, SQL text: no state of their own. The same
  for the use-lists of modules and the files of a process that the walks read inside a node.
* `ps_factor` in the table `response`: the sum in memory decides, the column is only
  stored.
* Floating point: `Lof` has exact fractions on rows whose distances are whole, `StateDetect`
  scores and sums in tenths. The classifiers of scikit-learn are a library.
* A training of exactly one row, which never ends (section 4).
* The consoles' input loops and signals, and `gettrainover`, for which the console
  waits without end when the training thread has died (calcul_lof.py:509).
* The scores of cal_migrate_code.py, which nothing calls and whose `migrate_score`
  ends at an unbound name, and get_host_info.py, which feeds it: one line of figures,
  rewritten each second, of which the disk's is divided by the time since the start.
* The reports of `dstat` and `lsmod` beyond their numbers.
* `process/process-list.c`, `syscall/event-example.c`, the VirusTotal script, the
  tools and the client's offset module: samples and forerunners that nothing calls.

## 7. Plan

Done, in the order of importance: the tracer; the list and its table; the two
processes together; the merge; the samples; the layers; the modules; the detectors of
processes, states and network events with the response; the training; the Snort feed;
the guest feed; the walks; the scores. Every safety property that a run checks is
proved as well.

Next:

1. Lemmas about what the programs do with their tables beyond these properties: that
   a commit of `DBHelper` which fails leaves the committed table of every program as it
   was, and that the rows of another detector are not touched.
2. The safety that the liveness properties rest on: what holds while a stop, a
   trapped vCPU or an unread event waits, so that the helpful step stays the same.
3. The consoles' input loops, their signals and `gettrainover`.
