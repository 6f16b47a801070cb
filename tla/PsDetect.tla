------------------------------ MODULE PsDetect ------------------------------
(***************************************************************************)
(* start_ps_detect.py, run_psinfo.py and stop_ps_detect.py for one domain. *)
(* Each start has a detector thread (detect_ps) and a collector thread     *)
(* (runpsinfo), which share nothing but the file .psdetect: 0 stopped,     *)
(* 1 training, 2 running.  A write of it empties the file when it is       *)
(* opened and fills it when it is closed, and int('') raises ValueError,   *)
(* which ends the thread that read it.                                     *)
(*                                                                         *)
(* The collector runs the program of host/processinfo, which adds rows to  *)
(* the table nowpsinfo; the detector classifies them, in one transaction   *)
(* per turn.                                                               *)
(***************************************************************************)
EXTENDS Integers, FiniteSets

CONSTANTS
  Run,      \* runs of start_ps_detect.py
  Row,      \* rows that are ever added
  Psid,     \* [Row -> the row's process]
  Limit,    \* the least of ps_p, ps_c and ps_m, in units of ps_f
  MaxStops  \* runs of stop_ps_detect.py, or of responsevm (bound)

ASSUME DetectAssumption == Limit \in Nat /\ MaxStops \in Nat

Psids == {Psid[i] : i \in Row}

VARIABLES
  psdetect,   \* the file; "" while it is being written
  starter,    \* the main program of a run, up to start_ps
  stops,      \* stop_ps_detect.py: runs so far, and is one half way?
  det, col,   \* the threads
  batch,      \* the detector's psonedata
  warning_psid,
  tracer,     \* is the collector's subprocess running?
  state,      \* the rows: "none" before they are added
  warning     \* processes with a row in the table warning

threads == <<starter, stops, det, col>>
data    == <<batch, warning_psid, state, warning>>
vars    == <<psdetect, threads, tracer, data>>

Quiet == {"off", "done", "dead"}

TypeOK ==
  /\ psdetect \in {"", "0", "1", "2"}
  /\ starter \in [Run -> {"read", "open", "write", "done", "dead"}]
  /\ stops \in [runs : 0 .. MaxStops, open : BOOLEAN]
  /\ det \in [Run -> Quiet \union {"train", "write", "query", "commit", "poll", "emptypoll"}]
  /\ col \in [Run -> Quiet \union {"first", "wait", "popen", "late", "watch", "kill"}]
  /\ batch \in [Run -> SUBSET Row]
  /\ warning_psid \in [Run -> SUBSET Psids]
  /\ tracer \in [Run -> BOOLEAN]
  /\ state \in [Row -> {"none", "0", "1", "2"}] /\ warning \subseteq Psids

Init ==
  /\ psdetect = "0"
  /\ starter = [r \in Run |-> "read"] /\ stops = [runs |-> 0, open |-> FALSE]
  /\ det = [r \in Run |-> "off"] /\ col = [r \in Run |-> "off"]
  /\ batch = [r \in Run |-> {}] /\ warning_psid = [r \in Run |-> {}]
  /\ tracer = [r \in Run |-> FALSE]
  /\ state \in [Row -> {"none", "0"}] /\ warning = {}

(***************************************************************************)
(* start_ps_detect.py.                                                     *)
(***************************************************************************)
Start(r) ==
  /\ starter[r] = "read"
  /\ starter' = [starter EXCEPT ![r] = CASE psdetect = ""  -> "dead"
                                         [] psdetect = "0" -> "open"
                                         [] OTHER          -> "done"]
  /\ UNCHANGED <<psdetect, stops, det, col, tracer, data>>

StartOpens(r) ==
  /\ starter[r] = "open" /\ starter' = [starter EXCEPT ![r] = "write"]
  /\ psdetect' = ""
  /\ UNCHANGED <<stops, det, col, tracer, data>>

start_ps(r) ==
  /\ starter[r] = "write" /\ starter' = [starter EXCEPT ![r] = "done"]
  /\ psdetect' = "1"
  /\ det' = [det EXCEPT ![r] = "train"] /\ col' = [col EXCEPT ![r] = "first"]
  /\ UNCHANGED <<stops, tracer, data>>

(***************************************************************************)
(* stop_ps_detect.py; responsevm, when another detector calls it, writes   *)
(* the same.                                                               *)
(***************************************************************************)
StopOpens ==
  /\ ~stops.open /\ stops.runs < MaxStops
  /\ stops' = [runs |-> stops.runs + 1, open |-> TRUE]
  /\ psdetect' = ""
  /\ UNCHANGED <<starter, det, col, tracer, data>>

StopWrites ==
  /\ stops.open /\ stops' = [stops EXCEPT !.open = FALSE]
  /\ psdetect' = "0"
  /\ UNCHANGED <<starter, det, col, tracer, data>>

(***************************************************************************)
(* detect_ps.                                                              *)
(***************************************************************************)
\* The end of the training says so whatever the file says.
TrainingEnds(r) ==
  /\ det[r] = "train" /\ det' = [det EXCEPT ![r] = "write"]
  /\ psdetect' = ""
  /\ UNCHANGED <<starter, stops, col, tracer, data>>

WritesRunning(r) ==
  /\ det[r] = "write" /\ det' = [det EXCEPT ![r] = "query"]
  /\ psdetect' = "2"
  /\ UNCHANGED <<starter, stops, col, tracer, data>>

\* Mutant of Query: the table is read once, before the loop.
QueryOnce(r) ==
  /\ det[r] = "query" /\ det' = [det EXCEPT ![r] = "emptypoll"]
  /\ UNCHANGED <<psdetect, starter, stops, col, tracer, data>>

Query(r) ==
  /\ det[r] = "query"
  /\ batch' = [batch EXCEPT ![r] = {i \in Row : state[i] = "0"}]
  /\ det' = [det EXCEPT ![r] = IF batch'[r] = {} THEN "emptypoll" ELSE "commit"]
  /\ UNCHANGED <<psdetect, starter, stops, col, tracer, warning_psid, state, warning>>

\* Mutant of NewAnomalies: only the first turn that finds one warns.
FirstAnomalies(r, verdict) ==
  IF warning_psid[r] = {} THEN {Psid[i] : i \in {j \in batch[r] : verdict[j] = "1"}} ELSE {}

NewAnomalies(r, verdict) == {Psid[i] : i \in {j \in batch[r] : verdict[j] = "1"}} \ warning_psid[r]

\* The turns of the for loop and allcommit.  A sum above a limit calls
\* responsevm, a name the module does not have: the thread ends there.
Commit(r) ==
  /\ det[r] = "commit"
  /\ \E verdict \in [batch[r] -> {"1", "2"}] :
       /\ state' = [i \in Row |-> IF i \in batch[r] THEN verdict[i] ELSE state[i]]
       /\ warning' = warning \union NewAnomalies(r, verdict)
       /\ warning_psid' = [warning_psid EXCEPT ![r] = @ \union NewAnomalies(r, verdict)]
  /\ det' = [det EXCEPT ![r] = IF Cardinality(warning_psid'[r]) > Limit THEN "dead" ELSE "poll"]
  /\ batch' = [batch EXCEPT ![r] = {}]
  /\ UNCHANGED <<psdetect, starter, stops, col, tracer>>

\* Mutant of Poll: without rows, the file is not looked at.
PollAfterRows(r) ==
  /\ det[r] \in {"poll", "emptypoll"}
  /\ det' = [det EXCEPT ![r] = CASE det[r] = "emptypoll" -> "query"
                                 [] psdetect = ""        -> "dead"
                                 [] psdetect = "0"       -> "done"
                                 [] OTHER                -> "query"]
  /\ UNCHANGED <<psdetect, starter, stops, col, tracer, data>>

\* The two reads of the file in the loop; both leave it at 0 only.
Poll(r) ==
  /\ det[r] \in {"poll", "emptypoll"}
  /\ det' = [det EXCEPT ![r] = CASE psdetect = ""  -> "dead"
                                 [] psdetect = "0" -> "done"
                                 [] OTHER          -> "query"]
  /\ UNCHANGED <<psdetect, starter, stops, col, tracer, data>>

\* A statement that fails ends the thread before anything is committed: select
\* raises, and so does the return of myupdate after its rollback (DBHelper).
StatementFails(r) ==
  /\ det[r] \in {"train", "query", "commit"} /\ det' = [det EXCEPT ![r] = "dead"]
  /\ UNCHANGED <<psdetect, starter, stops, col, tracer, data>>

Detector(r) ==
  TrainingEnds(r) \/ WritesRunning(r) \/ Query(r) \/ Commit(r) \/ Poll(r) \/ StatementFails(r)

(***************************************************************************)
(* runpsinfo.                                                              *)
(***************************************************************************)
\* Up to the end of the training; anything but a 1 ends the wait, and a 0 comes
\* too late to keep the subprocess from being started.
AwaitTraining(r) ==
  /\ col[r] \in {"first", "wait"}
  /\ col' = [col EXCEPT ![r] = CASE psdetect = ""  -> "dead"
                                 [] psdetect = "1" -> "wait"
                                 [] psdetect = "2" -> "popen"
                                 [] OTHER          -> "late"]
  /\ UNCHANGED <<psdetect, starter, stops, det, tracer, data>>

Popen(r) ==
  /\ col[r] \in {"popen", "late"}
  /\ col' = [col EXCEPT ![r] = IF @ = "popen" THEN "watch" ELSE "kill"]
  /\ tracer' = [tracer EXCEPT ![r] = TRUE]
  /\ UNCHANGED <<psdetect, starter, stops, det, data>>

\* Anything but a 2 ends the watch and the subprocess; a ValueError ends only
\* the watch.
Watch(r) ==
  /\ col[r] = "watch"
  /\ CASE psdetect = ""  -> col' = [col EXCEPT ![r] = "dead"] /\ UNCHANGED tracer
       [] psdetect = "2" -> UNCHANGED <<col, tracer>>
       [] OTHER          -> col' = [col EXCEPT ![r] = "done"] /\ tracer' = [tracer EXCEPT ![r] = FALSE]
  /\ UNCHANGED <<psdetect, starter, stops, det, data>>

Kill(r) ==
  /\ col[r] = "kill" /\ col' = [col EXCEPT ![r] = "done"]
  /\ tracer' = [tracer EXCEPT ![r] = FALSE]
  /\ UNCHANGED <<psdetect, starter, stops, det, data>>

Collector(r) == AwaitTraining(r) \/ Popen(r) \/ Watch(r) \/ Kill(r)

\* A running subprocess adds a row.
Insert(i) ==
  /\ state[i] = "none" /\ \E r \in Run : tracer[r]
  /\ state' = [state EXCEPT ![i] = "0"]
  /\ UNCHANGED <<psdetect, threads, tracer, batch, warning_psid, warning>>

Next ==
  \/ \E r \in Run : Start(r) \/ StartOpens(r) \/ start_ps(r) \/ Detector(r) \/ Collector(r)
  \/ StopOpens \/ StopWrites
  \/ \E i \in Row : Insert(i)

Spec == Init /\ [][Next]_vars

\* Threads run, and a file that was opened is written; nobody has to start or
\* stop anything, and there need not be a row.
Fairness ==
  /\ \A r \in Run : WF_vars(StartOpens(r) \/ start_ps(r)) /\ WF_vars(Detector(r)) /\ WF_vars(Collector(r))
  /\ WF_vars(StopWrites)

FairSpec == Spec /\ Fairness

-----------------------------------------------------------------------------
\* A row that is marked as an anomaly is of a process in the table warning,
\* whichever run marked it and however often the process was seen before.
AnomalyIsWarned == TypeOK /\ \A i \in Row : state[i] = "1" => Psid[i] \in warning

\* A stop that is not overwritten, by a training that ends or by another start,
\* ends every thread and every subprocess but those of a collector that met the
\* empty file.
StopStops ==
  <>[](psdetect = "0") =>
    <>[](\A r \in Run : /\ det[r] \in Quiet /\ col[r] \in Quiet
                        /\ tracer[r] => col[r] = "dead")

\* A row is classified as long as a detector is left.
RowClassified ==
  \A i \in Row : state[i] = "0" ~> (state[i] # "0" \/ \A r \in Run : det[r] \in Quiet)
=============================================================================
