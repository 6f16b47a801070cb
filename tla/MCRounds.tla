------------------------------ MODULE MCRounds ------------------------------
(***************************************************************************)
(* What the host compares round after round, on small instances: the       *)
(* samples of two rounds (SampleQueue), the module list with the calls     *)
(* that should have changed it (ModuleWatch), and what ps says in the      *)
(* guest with what is seen from outside (GuestFeed).  They share no state: *)
(* `on' says which one runs, the others stay as they start.                *)
(***************************************************************************)
EXTENDS SampleQueue
CONSTANTS Mod, MaxModCalls, Proc, Cut, Lag, MaxReports, MaxConns, MaxChanges, MaxFaults
VARIABLES on,
  modules, hidden, traps, op, modcalls, modpipe, modl, modgot, module_change, modulelist,
  reported, modpc, modround, deleted, blamed, compared,
  alive, unlisted, changed, changes, clock, conn, chan, buf, step, file, faults,
  feedpc, psoutlist, psouttime, hidelist, warned, seen
Modules == INSTANCE ModuleWatch
             WITH MaxCalls <- MaxModCalls, calls <- modcalls, pipe <- modpipe, got <- modgot,
                  pc <- modpc, round <- modround
Feed == INSTANCE GuestFeed WITH Pid <- Proc, pc <- feedpc
ASSUME ModulesAssumed == Modules!ModuleAssumption
ASSUME FeedAssumed == Feed!FeedAssumption
watch == <<modules, hidden, traps, op, modcalls, modpipe, modl, modgot, module_change, modulelist,
           reported, modpc, modround, deleted, blamed, compared>>
feed == <<alive, unlisted, changed, changes, clock, conn, chan, buf, step, file, faults,
          feedpc, psoutlist, psouttime, hidelist, warned, seen>>

MCInit ==
  /\ on \in {"samples", "modules", "feed"}
  /\ Init /\ (on # "samples" => got = 0 /\ tasks = <<[pid |-> 1, name |-> "acl", flt |-> 0]>>)
  /\ (IF on = "modules" THEN TRUE ELSE modules = <<>> /\ modgot = "other") /\ Modules!Init
  /\ Feed!Init /\ alive \in (IF on = "feed" THEN {Proc, Proc \ {1}} ELSE {{}})
MCNext ==
  \/ on = "samples" /\ Next /\ UNCHANGED <<on, watch, feed>>
  \/ on = "modules" /\ Modules!Next /\ UNCHANGED <<on, vars, feed>>
  \/ on = "feed" /\ Feed!Next /\ UNCHANGED <<on, vars, watch>>
MCSpec == MCInit /\ [][MCNext]_<<on, vars, watch, feed>>

\* ModuleWatch compares modules and never orders them.
ModSymmetry == Permutations(Mod)

\* ModuleWatch's NoFalseAlarm: a module is reported though none is hidden only
\* when one of the things the count of system calls gets wrong has happened.
ModuleNoFalseAlarm == Modules!TypeOK /\ Modules!NoFalseAlarm

\* ModuleWatch's HiddenIsReported: in a round without any of them the modules
\* hidden since the last round are reported.
ModuleHiddenIsReported == Modules!HiddenIsReported

\* GuestFeed's NoFalseAlarm: getOutPsNum warns of a process that ps does list
\* only when the guest changed between the two lists it compares.
FeedNoFalseAlarm == Feed!NoFalseAlarm

\* GuestFeed's HiddenIsWarned: a process that ps hides is warned of at the
\* second good comparison in a row.
FeedHiddenIsWarned == Feed!HiddenIsWarned
=============================================================================
