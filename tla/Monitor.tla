------------------------------ MODULE Monitor ------------------------------
(***************************************************************************)
(* Father and child of host/processinfo/main.c side by side: the child     *)
(* handles the guest's system calls and leaves its findings in the pipe,   *)
(* the .pslist file and the .exitps file; the father, once a round, walks  *)
(* the guest's task list (the VM runs on), reads the two files, drains the *)
(* pipe, compares and stores.  Neither waits for the other except at a     *)
(* full pipe, and the files are read while they are being written.         *)
(*                                                                         *)
(* The list itself is PsList's; here it is the set of its pids.  The guest *)
(* is external.  Pids are given out in increasing order, its list has the  *)
(* order of the pids, and a task's memory is not used again in the model.  *)
(***************************************************************************)
EXTENDS Integers, Sequences, FiniteSets

CONSTANTS
  MaxPid,    \* pids 1 .. MaxPid make system calls (bound on forks)
  Kworker,   \* those of them that are called kworker...
  PipeCap,   \* records that fit in the pipe
  MaxCalls,  \* system calls the guest makes (bound)
  Rounds     \* n in main.c, 1000 (bound)

Procs   == 1 .. MaxPid
Unknown == MaxPid + 1    \* vmi_dtb_to_pid's -1, for a caller off the task list
Pids    == Procs \union {Unknown}

ASSUME MonitorAssumption ==
  /\ MaxPid \in Nat \ {0} /\ Kworker \subseteq Procs /\ PipeCap \in Nat \ {0}
  /\ MaxCalls \in Nat /\ Rounds \in Nat \ {0}

VARIABLES
  \* the guest
  live, hidden, nextPid,
  after,     \* the next pointer of a task that is off the list, 0 for the head
  left,      \* processes whose exit_group has been handled
  calls,     \* system calls so far
  \* the child
  cpc, call,
  list,      \* pids in vmiinfo->pslist
  listFile,  \* pids in the .pslist file as it was last completed
  whole,     \* is it complete now?
  exitFile,  \* pids in the .exitps file
  pipe,
  \* the father
  fpc, round,
  at,        \* the task the walk stands on, 0 for init_task
  rows,      \* pids in the queue of this round
  seen,      \* pslist_real, what may be in it if the file was torn
  exits,     \* exitps_list
  warned,    \* pids reported as hidden
  \* history
  bornLate,  \* forked this round where its walk does not come by any more
  silent,    \* died without an exit_group that was handled
  dropped,   \* exit records emptied away unread
  missed,    \* the record just drained, if nobody was found for it
  before,    \* this round began with [off] the guest's list and, less what was
             \* deleted since, [list] in the tracer's
  torn       \* was the .pslist file read while it was being written?

guest   == <<live, hidden, nextPid, after, left, calls>>
child   == <<cpc, call, list, listFile, whole>>
father  == <<fpc, round, at, rows, seen, exits, warned>>
history == <<bornLate, silent, dropped, missed, before, torn>>
vars    == <<guest, child, exitFile, pipe, father, history>>

Calls  == {<<"other", 0>>, <<"exit_group", 0>>} \union ({"kill"} \X Procs)
NoCall == [who |-> 0, pid |-> 0, sys |-> <<"other", 0>>]
NoRec  == [pid |-> 0, sys |-> "other"]
Rec    == [pid : 0 .. Unknown, sys : {"other", "exit_group", "kill"}]

TypeOK ==
  /\ live \subseteq Procs /\ hidden \subseteq Procs /\ left \subseteq Procs
  /\ nextPid \in 1 .. MaxPid + 1 /\ calls \in 0 .. MaxCalls
  /\ after \in [Procs -> 0 .. MaxPid]
  /\ cpc \in {"idle", "added", "record", "deleted", "append", "write", "ended"}
  /\ call \in [who : 0 .. MaxPid, pid : 0 .. Unknown, sys : Calls]
  /\ list \subseteq Pids /\ listFile \subseteq Pids /\ whole \in BOOLEAN
  /\ exitFile \subseteq Pids
  /\ pipe \in Seq(Rec) /\ Len(pipe) <= PipeCap
  /\ fpc \in {"walk", "readps", "reading", "readexit", "emptyexit", "drain", "report", "sleep", "done"}
  /\ round \in 0 .. Rounds /\ at \in 0 .. MaxPid
  /\ rows \subseteq Procs /\ seen \subseteq Pids /\ exits \subseteq Pids
  /\ missed \in Rec /\ warned \subseteq Pids

\* initPs has filled list and file before the fork.
Init ==
  /\ nextPid \in 2 .. MaxPid + 1 /\ live = 1 .. nextPid - 1
  /\ hidden = {} /\ after = [p \in Procs |-> 0] /\ left = {} /\ calls = 0
  /\ cpc = "idle" /\ call = NoCall
  /\ list = live /\ listFile = live /\ whole = TRUE
  /\ exitFile = {} /\ pipe = <<>>
  /\ fpc = "walk" /\ round = 0 /\ at = 0
  /\ rows = {} /\ seen = {} /\ exits = {}
  /\ warned = {}
  /\ bornLate = {} /\ silent = {} /\ dropped = {} /\ missed = NoRec
  /\ before = [off |-> {}, list |-> live] /\ torn = FALSE

(***************************************************************************)
(* The guest.  A new task is linked at the end of the list; one that is    *)
(* unlinked keeps the next pointer it had (list_del_rcu).                  *)
(***************************************************************************)
OnList == live \ hidden

NextOf(p) ==
  LET later == {q \in OnList : q > p} IN
  IF p \in Procs \ OnList THEN after[p]
  ELSE IF later = {} THEN 0
  ELSE CHOOSE q \in later : \A r \in later : q <= r

\* Whom the walk would still come to if the guest stood still.
Ahead ==
  {p \in Procs : \A S \in SUBSET Procs :
     (NextOf(at) \in S \union {0} /\ \A q \in S : NextOf(q) \in S \union {0}) => p \in S}

Unlinked(p) == after' = [after EXCEPT ![p] = NextOf(p)]

Fork ==
  /\ nextPid <= MaxPid
  /\ live' = live \union {nextPid} /\ nextPid' = nextPid + 1
  /\ UNCHANGED <<hidden, after, left, calls, child, exitFile, pipe, father,
                 silent, dropped, missed, before, torn>>
  /\ bornLate' = IF fpc = "walk" /\ nextPid \in Ahead' THEN bornLate ELSE bornLate \union {nextPid}

\* Unlinked from the kernel's task list, still running.
Hide(p) ==
  /\ p \in OnList
  /\ hidden' = hidden \union {p} /\ Unlinked(p)
  /\ UNCHANGED <<live, nextPid, left, calls, child, exitFile, pipe, father, history>>

\* Of a signal, after its exit_group, or by an exit_group without a trap (the
\* traps are set after the first round has begun).  A process whose system
\* call is being handled does not run.
Die(p) ==
  /\ p \in live /\ (cpc \in {"idle", "ended"} \/ call.who # p)
  /\ live' = live \ {p}
  /\ IF p \in hidden THEN UNCHANGED after ELSE Unlinked(p)
  /\ silent' = IF p \in left THEN silent ELSE silent \union {p}
  /\ UNCHANGED <<hidden, nextPid, left, calls, child, exitFile, pipe, father,
                 bornLate, dropped, missed, before, torn>>

(***************************************************************************)
(* The child: trap_cb and record_syscall.  A rewrite of the .pslist file   *)
(* empties it when it is opened, fills it in blocks of 4096 bytes wherever *)
(* in a line they end, and is complete when it is closed.                  *)
(***************************************************************************)
Rewrite ==
  /\ whole' = FALSE /\ torn' = (torn \/ fpc = "reading")
  /\ UNCHANGED listFile
NoRewrite == UNCHANGED <<listFile, whole, torn>>
Close     == whole' = TRUE /\ listFile' = list

Kept == before' = [before EXCEPT !.list = @ \intersect list']

\* The pid of the node with the caller's page directory, else vmi_dtb_to_pid.
CallerPid(p) == IF p \in list \/ p \notin hidden THEN p ELSE Unknown

Trap(p, sys) ==
  /\ cpc = "idle" /\ p \in live \ left /\ calls < MaxCalls
  /\ call' = [who |-> p, pid |-> CallerPid(p), sys |-> sys]
  /\ \/ p \in list /\ cpc' = "record" /\ UNCHANGED list /\ NoRewrite
     \/ p \in list /\ cpc' = "added" /\ UNCHANGED list /\ Rewrite      \* its name has changed
     \/ p \notin list /\ cpc' = "added" /\ list' = list \union {CallerPid(p)} /\ Rewrite
  /\ calls' = calls + 1
  /\ UNCHANGED <<live, hidden, nextPid, after, left, exitFile, pipe, father,
                 bornLate, silent, dropped, missed, before>>

SaveAdded ==
  /\ cpc = "added" /\ cpc' = "record" /\ Close
  /\ UNCHANGED <<guest, call, list, exitFile, pipe, father, history>>

\* Whose node and exit record: exit_group's caller, or the target of a kill
\* that is not older than the killer.
Victim ==
  IF call.sys[1] = "exit_group" THEN {call.pid}
  ELSE IF call.sys[1] = "kill" /\ call.pid <= call.sys[2] THEN {call.sys[2]} ELSE {}

\* Mutant of record_syscall: the node goes, the file is not written again.
DeleteUnsaved ==
  /\ cpc = "record"
  /\ list' = list \ Victim /\ NoRewrite
  /\ cpc' = IF Victim = {} THEN "write" ELSE "append"
  /\ Kept
  /\ UNCHANGED <<guest, call, exitFile, pipe, father, bornLate, silent, dropped, missed>>

record_syscall ==
  /\ cpc = "record"
  /\ list' = list \ Victim
  /\ IF list' # list THEN Rewrite ELSE NoRewrite
  /\ cpc' = IF Victim = {} THEN "write" ELSE IF list' # list THEN "deleted" ELSE "append"
  /\ Kept
  /\ UNCHANGED <<guest, call, exitFile, pipe, father, bornLate, silent, dropped, missed>>

SaveDeleted ==
  /\ cpc = "deleted" /\ cpc' = "append" /\ Close
  /\ UNCHANGED <<guest, call, list, exitFile, pipe, father, history>>

AppendExit ==
  /\ cpc = "append" /\ cpc' = "write"
  /\ exitFile' = exitFile \union Victim
  /\ UNCHANGED <<guest, call, list, listFile, whole, pipe, father, history>>

\* The write() sleeps while the pipe is full.
WritePipe ==
  /\ cpc = "write" /\ Len(pipe) < PipeCap
  /\ pipe' = Append(pipe, [pid |-> call.pid, sys |-> call.sys[1]])
  /\ left' = IF call.sys[1] = "exit_group" THEN left \union {call.who} ELSE left
  /\ cpc' = "idle" /\ call' = NoCall
  /\ UNCHANGED <<live, hidden, nextPid, after, calls, list, listFile, whole, exitFile, father, history>>

\* An interrupt ends the child, between two events or in a write() that sleeps.
\* Its list is gone, and clear_ps_file empties the file.
End ==
  /\ cpc = "idle" \/ (cpc = "write" /\ Len(pipe) = PipeCap)
  /\ cpc' = "ended" /\ call' = NoCall
  /\ list' = {} /\ listFile' = {} /\ whole' = TRUE
  /\ torn' = (torn \/ fpc = "reading")
  /\ Kept
  /\ UNCHANGED <<guest, exitFile, pipe, father, bornLate, silent, dropped, missed>>

(***************************************************************************)
(* The father's round.                                                     *)
(***************************************************************************)
\* One turn of the do-while over the task list: the node the walk stands on
\* says which is next, whether it is still linked or not.
Walk ==
  /\ fpc = "walk"
  /\ at' = NextOf(at)
  /\ IF at' = 0 THEN fpc' = "readps" /\ UNCHANGED rows
                ELSE rows' = rows \union {at'} /\ UNCHANGED fpc
  /\ UNCHANGED <<guest, child, exitFile, pipe, round, seen, exits, warned, history>>

\* read_pslist_from_file opens the file.
OpenPsList ==
  /\ fpc = "readps" /\ fpc' = "reading"
  /\ torn' = ~whole
  /\ UNCHANGED <<guest, child, exitFile, pipe, round, at, rows, seen, exits, warned,
                 bornLate, silent, dropped, missed, before>>

\* It comes to the end of the file.  If the child wrote to it meanwhile, lines
\* are missing, and a pid may be cut, be digits of a name or never be read in.
ReadPsList ==
  /\ fpc = "reading" /\ fpc' = "readexit"
  /\ seen' = IF torn THEN Pids ELSE listFile
  /\ UNCHANGED <<guest, child, exitFile, pipe, round, at, rows, exits, warned, history>>

\* read_exitps_from_file: reads to the end, closes, opens again to empty.
ReadExits ==
  /\ fpc = "readexit" /\ fpc' = "emptyexit"
  /\ exits' = exitFile
  /\ UNCHANGED <<guest, child, exitFile, pipe, round, at, rows, seen, warned, history>>

EmptyExits ==
  /\ fpc = "emptyexit" /\ fpc' = "drain"
  /\ exitFile' = {}
  /\ dropped' = dropped \union (exitFile \ exits)
  /\ UNCHANGED <<guest, child, pipe, round, at, rows, seen, exits, warned, bornLate, silent, missed, before, torn>>

\* Mutant of Drain: the exit records are not looked at.
DrainRowsOnly ==
  /\ fpc = "drain"
  /\ IF pipe # <<>>
     THEN /\ pipe' = Tail(pipe)
          /\ missed' = IF Head(pipe).pid \in rows THEN NoRec ELSE Head(pipe)
          /\ UNCHANGED fpc
     ELSE fpc' = "report" /\ missed' = NoRec /\ UNCHANGED pipe
  /\ UNCHANGED <<guest, child, exitFile, round, at, rows, seen, exits, warned,
                 bornLate, silent, dropped, before, torn>>

\* One turn of the drain loop: a row of the matrix, else an exit record, else
\* "Can't find ps".  The read() that finds the pipe empty ends the loop.
Drain ==
  /\ fpc = "drain"
  /\ IF pipe # <<>>
     THEN /\ pipe' = Tail(pipe)
          /\ missed' = IF Head(pipe).pid \in rows \union exits THEN NoRec ELSE Head(pipe)
          /\ UNCHANGED fpc
     ELSE fpc' = "report" /\ missed' = NoRec /\ UNCHANGED pipe
  /\ UNCHANGED <<guest, child, exitFile, round, at, rows, seen, exits, warned,
                 bornLate, silent, dropped, before, torn>>

\* Whom the merge warns of (HidePs says how): who is not in the queue and no
\* kworker.  Past the last row the name that is compared does not end, and a
\* kworker may be warned of; an unordered list confuses the merge.
detect_hide_ps ==
  LET missing == seen \ rows
      past    == {p \in missing \intersect Kworker : \A q \in rows : q < p}
  IN IF torn THEN SUBSET seen ELSE {(missing \ Kworker) \union S : S \in SUBSET past}

\* Mutant of Report: the queue of this round is not given up.
ReportKeepsQueue ==
  /\ fpc = "report" /\ fpc' = "sleep"
  /\ warned' \in detect_hide_ps
  /\ seen' = {} /\ exits' = {}
  /\ UNCHANGED <<guest, child, exitFile, pipe, round, at, rows, history>>

\* The queue and the two lists are given up at the end of the round.
Report ==
  /\ fpc = "report" /\ fpc' = "sleep"
  /\ warned' \in detect_hide_ps
  /\ rows' = {} /\ seen' = {} /\ exits' = {}
  /\ UNCHANGED <<guest, child, exitFile, pipe, round, at, history>>

\* The next round begins.
NextRound ==
  /\ fpc = "sleep"
  /\ fpc' = IF round + 1 < Rounds THEN "walk" ELSE "done"
  /\ round' = round + 1
  /\ warned' = {}
  /\ bornLate' = {} /\ torn' = FALSE
  /\ before' = [off |-> (1 .. nextPid - 1) \ OnList, list |-> list]
  /\ UNCHANGED <<guest, child, exitFile, pipe, at, rows, seen, exits, silent, dropped, missed>>

Guest == Fork \/ \E p \in Procs : Hide(p) \/ Die(p)

Child ==
  \/ \E p \in Procs, sys \in Calls : Trap(p, sys)
  \/ SaveAdded \/ record_syscall \/ SaveDeleted \/ AppendExit \/ WritePipe \/ End

Father == Walk \/ OpenPsList \/ ReadPsList \/ ReadExits \/ EmptyExits \/ Drain \/ Report \/ NextRound

Next == Guest \/ Child \/ Father

Spec == Init /\ [][Next]_vars

-----------------------------------------------------------------------------
\* A record for which the father finds neither a row nor an exit record comes
\* from a process off the task list, one forked where the walk no longer comes
\* by, one that died without an exit_group that was handled, or one whose exit
\* record was emptied away unread; of any other process only the exit_group
\* itself can be lost.  This is why the exit record is written before the pipe
\* and read before it is drained.
LossExplained ==
  /\ TypeOK
  /\ missed # NoRec =>
       \/ missed.pid \in hidden \union bornLate \union silent \union dropped \union {Unknown}
       \/ missed.sys = "exit_group"

\* Unless the file was torn, a process reported as hidden is off the task list,
\* was forked where the walk no longer comes by, or died without an exit_group
\* that was handled: one that left through exit_group never is, and neither is
\* one that merely lives through the round.
NoFalseAlarm ==
  torn \/ warned \subseteq hidden \union bornLate \union silent \union {Unknown}

\* A process off the guest's list when the round began, and in the tracer's
\* throughout, is reported at its end unless the file was torn or it is called
\* kworker.
HiddenIsReported ==
  fpc = "sleep" => torn \/ (before.off \intersect before.list) \ Kworker \subseteq warned

=============================================================================
