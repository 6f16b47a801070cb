---------------------------- MODULE ModuleWatch ----------------------------
(***************************************************************************)
(* How the father of host/processinfo finds hidden kernel modules: it      *)
(* counts the module system calls of a round (main.c), reads the guest's   *)
(* list of modules and compares the two with the list of an earlier round  *)
(* (mymodinfo.c).  A system call is recorded when it is entered, before it *)
(* has any effect, and the VM runs during the drain.  The list is read     *)
(* before the fork; it is the child that sets the traps, some time after   *)
(* it, and takes them off one by one when it is stopped.                   *)
(***************************************************************************)
EXTENDS Integers, Sequences, SequencesExt, FiniteSets

CONSTANTS
  Mod,       \* modules
  MaxCalls,  \* module system calls and others of the guest (bound)
  Rounds     \* n in main.c, 1000 (bound)

ModuleAssumption == IsFiniteSet(Mod) /\ MaxCalls \in Nat /\ Rounds \in Nat \ {0}

Kind == {"init", "finit", "delete", "other"}    \* 175, 313, 176, any other
NoOp == [kind |-> "other", mod |-> {}, recorded |-> FALSE]

VARIABLES
  modules,     \* the guest's list, newest first
  hidden,      \* running, but unlinked from the list
  traps,       \* "unset" until the child has set them, "removed" by its end
  op,          \* the system call under way; has it been recorded?
  calls,
  pipe,        \* kinds of the records
  modl,        \* the .modl file: the module whose file was unlinked last
  got,         \* getsyscall.sysnum
  module_change,
  modulelist,  \* vmiinfo->modulelist; its length is module_num
  reported,    \* names reported in this round
  pc, round,
  \* history
  deleted,     \* has a delete_module succeeded since the list was read?
  blamed,      \* has anything made the count differ from what happened since?
  compared     \* [hidden, deleted, blamed] at the comparison; was the list kept?

guest   == <<modules, hidden, op, calls>>
father  == <<got, module_change, modulelist, reported, pc, round>>
history == <<deleted, blamed, compared>>
vars    == <<guest, traps, pipe, modl, father, history>>

TypeOK ==
  /\ modules \in Seq(Mod) /\ hidden \subseteq Mod /\ hidden \intersect ToSet(modules) = {}
  /\ traps \in {"unset", "set", "removed"}
  /\ op \in [kind : Kind, mod : {{}} \union {{m} : m \in Mod}, recorded : BOOLEAN]
  /\ calls \in 0 .. MaxCalls
  /\ pipe \in Seq(Kind) /\ modl \subseteq Mod
  /\ got \in Kind /\ module_change \in -MaxCalls - 1 .. MaxCalls + 1
  /\ modulelist \in Seq(Mod) /\ reported \subseteq Mod
  /\ pc \in {"drain", "detect", "sleep", "done"} /\ round \in 0 .. Rounds
  /\ deleted \in BOOLEAN /\ blamed \in BOOLEAN
  /\ compared \in [hidden : SUBSET Mod, deleted : BOOLEAN, blamed : BOOLEAN, kept : BOOLEAN]

\* initModule reads the list.
Init ==
  /\ modules \in SetToSeqs(Mod) \union {<<>>} \union {<<m>> : m \in Mod}
  /\ hidden = {} /\ traps = "unset" /\ op = NoOp /\ calls = 0
  /\ pipe = <<>> /\ modl = {}
  /\ got \in Kind /\ module_change = 0 /\ modulelist = modules
  /\ reported = {} /\ pc = "drain" /\ round = 0
  /\ deleted = FALSE /\ blamed = FALSE
  /\ compared = [hidden |-> {}, deleted |-> FALSE, blamed |-> FALSE, kept |-> FALSE]

(***************************************************************************)
(* The guest.                                                              *)
(***************************************************************************)
Running == ToSet(modules) \union hidden

\* insmod and modprobe enter with a module that is not loaded, rmmod with one
\* that is on the list.  The child records a call only if it meets a trap: also
\* with the traps set another vCPU may be stepping over the entry, or the child
\* have come to it in taking them off.
Enter(kind, m, recorded) ==
  /\ op = NoOp /\ calls < MaxCalls
  /\ kind \in {"init", "finit"} => m \notin Running
  /\ kind = "delete" => m \in ToSet(modules)
  /\ recorded => traps = "set"
  /\ calls' = calls + 1
  /\ pipe' = IF recorded THEN Append(pipe, kind) ELSE pipe
  /\ op' = IF kind = "other" THEN NoOp ELSE [kind |-> kind, mod |-> {m}, recorded |-> recorded]
  /\ UNCHANGED <<modules, hidden, traps, modl, father, history>>

\* The father has counted the call under way, or will.
Counts == op.recorded /\ op.kind # "init"

Succeed ==
  /\ op # NoOp
  /\ \E m \in op.mod :
       IF op.kind = "delete"
       THEN modules' = RemoveFirst(modules, m) /\ deleted' = TRUE
       ELSE modules' = <<m>> \o modules /\ UNCHANGED deleted
  /\ blamed' = (blamed \/ ~(Counts <=> modules' # modules))
  /\ op' = NoOp
  /\ UNCHANGED <<hidden, calls, traps, pipe, modl, father, compared>>

\* The module is in use, its signature is wrong, ...
Fail ==
  /\ op # NoOp /\ op' = NoOp
  /\ blamed' = (blamed \/ Counts)
  /\ UNCHANGED <<modules, hidden, calls, traps, pipe, modl, father, deleted, compared>>

Hide(m) ==
  /\ m \in ToSet(modules)
  /\ hidden' = hidden \union {m} /\ modules' = RemoveFirst(modules, m)
  /\ UNCHANGED <<op, calls, traps, pipe, modl, father, history>>

\* record_syscall's case 87.
get_module_name(m) ==
  /\ traps = "set" /\ calls < MaxCalls /\ calls' = calls + 1
  /\ modl' = {m} /\ pipe' = Append(pipe, "other")
  /\ UNCHANGED <<modules, hidden, op, traps, father, history>>

Guest ==
  \/ \E kind \in Kind, m \in Mod, recorded \in BOOLEAN : Enter(kind, m, recorded)
  \/ Succeed \/ Fail
  \/ \E m \in Mod : Hide(m) \/ get_module_name(m)

(***************************************************************************)
(* The child, which runs beside the father from the fork on.               *)
(***************************************************************************)
Arm ==
  /\ traps = "unset" /\ traps' = "set"
  /\ UNCHANGED <<guest, pipe, modl, father, history>>

Disarm ==
  /\ traps = "set" /\ traps' = "removed"
  /\ UNCHANGED <<guest, pipe, modl, father, history>>

Child == Arm \/ Disarm

(***************************************************************************)
(* The father.                                                             *)
(***************************************************************************)
\* Mutant of Change: a load is not counted.
ChangeOfDeletes(kind) == IF kind = "delete" THEN 1 ELSE 0

Change(kind) == CASE kind = "delete" -> 1 [] kind = "finit" -> -1 [] OTHER -> 0

\* One turn of the do-while; its last finds the pipe empty and counts the
\* record before it again.
Drain ==
  /\ pc = "drain"
  /\ IF pipe # <<>>
     THEN got' = Head(pipe) /\ pipe' = Tail(pipe) /\ UNCHANGED <<pc, blamed>>
     ELSE pc' = "detect" /\ blamed' = (blamed \/ Change(got) # 0) /\ UNCHANGED <<got, pipe>>
  /\ module_change' = module_change + Change(got')
  /\ UNCHANGED <<guest, traps, modl, modulelist, reported, round, deleted, compared>>

\* Positions of the old list's modules that are not on the new one.
Gone == {i \in 1 .. Len(modulelist) : modulelist[i] \notin ToSet(modules)}

\* Mutant of find_hide_module: the search ends one too early.
FindOneLess(hidenum) ==
  {modulelist[i] : i \in {j \in Gone : Cardinality({k \in Gone : k < j}) < hidenum - 1}}

\* The first hidenum of them; all of them, and the name in .modl, if there are
\* fewer, as there always are of a negative number.
find_hide_module(hidenum) ==
  IF hidenum > 0 /\ Cardinality(Gone) >= hidenum
  THEN {modulelist[i] : i \in {j \in Gone : Cardinality({k \in Gone : k < j}) < hidenum}}
  ELSE {modulelist[i] : i \in Gone} \union modl

\* A call that is under way, or whose record came after the drain, may be
\* counted in another round than its effect.
Late == Counts \/ \E i \in 1 .. Len(pipe) : Change(pipe[i]) # 0

\* A list that is replaced settles all accounts but those.
Compared(kept) ==
  /\ compared' = [hidden |-> hidden, deleted |-> deleted, blamed |-> blamed \/ Late, kept |-> kept]
  /\ blamed' = (Late \/ (kept /\ blamed))
  /\ deleted' = (kept /\ deleted)

\* get_module_info pauses the VM while it reads the list.
detect_hide_module ==
  /\ pc = "detect" /\ pc' = "sleep"
  /\ LET hidenum == Len(modulelist) - module_change - Len(modules) IN
     /\ IF hidenum = 0
        THEN modulelist' = modules /\ reported' = {}
        ELSE reported' = find_hide_module(hidenum) /\ UNCHANGED modulelist
     /\ Compared(hidenum # 0)
  /\ UNCHANGED <<guest, traps, pipe, modl, got, module_change, round>>

\* A round that found a difference has kept the list and forgets the changes.
NextRound ==
  /\ pc = "sleep"
  /\ pc' = IF round + 1 < Rounds THEN "drain" ELSE "done"
  /\ round' = round + 1
  /\ module_change' = 0 /\ reported' = {}
  /\ blamed' = (blamed \/ (compared.kept /\ module_change # 0))
  /\ UNCHANGED <<guest, traps, pipe, modl, got, modulelist, deleted, compared>>

Next == Guest \/ Child \/ Drain \/ detect_hide_module \/ NextRound

Spec == Init /\ [][Next]_vars

-----------------------------------------------------------------------------
\* If nothing has been hidden, a report comes from one of the things the count
\* of system calls gets wrong: a call that was not recorded (above all one
\* between the read of the list and the setting of the traps), one that failed,
\* a module loaded by init_module, a call under way at the end of a round, a
\* record counted again, or an earlier round that was wrong.
NoFalseAlarm == reported # {} => compared.hidden # {} \/ compared.blamed

\* A round without any of them and without a module removed reports exactly the
\* modules that were on the list of the round before and have been hidden.
HiddenIsReported ==
  pc = "sleep" /\ ~compared.blamed /\ ~compared.deleted =>
    compared.hidden \intersect ToSet(modulelist) \subseteq reported
=============================================================================
