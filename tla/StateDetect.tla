---------------------------- MODULE StateDetect ----------------------------
(***************************************************************************)
(* start_state_detect.py and stop_state_detect.py for one domain, with the *)
(* two threads a start has: detectState of calcul_lof.py, which scores the *)
(* rows of the table nowstate and answers too many anomalies by responsevm *)
(* of response_detect.py, and exdamain of external_data.py, which adds a   *)
(* row for every round it looks at the guest.                              *)
(*                                                                         *)
(* They share the file .statedetect (0 stopped, 1 training, 2 running),    *)
(* which is empty between its open and its close, and int('') raises an    *)
(* exception.  A connection commits as DBHelper says.                      *)
(*                                                                         *)
(* Scores and their sum are in tenths: the code's are floating-point       *)
(* numbers, and are only added and compared.                               *)
(***************************************************************************)
EXTENDS Integers, FiniteSets, DBHelper
LOCAL INSTANCE FiniteSetsExt

CONSTANTS
  Run,               \* runs of start_state_detect.py
  Row,               \* rows that are ever added
  state_p, state_c, state_m,  \* the limits of the table response
  Factors,           \* what it may have as state_anomaly
  Score,             \* scores rows may get, in tenths
  MaxStops,          \* runs of stop_state_detect.py (bound)
  MaxErrors          \* statements that fail (bound)

ASSUME StateAssumption ==
  /\ {state_p, state_c, state_m, MaxStops, MaxErrors} \subseteq Nat
  /\ Factors \subseteq Nat /\ Score \subseteq Nat /\ Row \subseteq Nat \ {0}

VARIABLES
  statedetect,  \* the file
  starter, stops,
  det, ex,      \* the threads
  lof,          \* the score of each row; it depends on the row only
  state_f,      \* what an anomaly adds to the sum, if it is not 0
  batch, row,   \* detectState's statedatanew, and the row it is at
  factortotal,
  table,        \* what is committed: stat, warnings by the run that gave them, state_factor
  pending,      \* by detectState's connection
  errors,
  ps,           \* is there text in the guest's report .ps?
  vm, state     \* the domain, and the file .state that tells about it

threads == <<starter, stops, det, ex>>
local   == <<batch, row, factortotal, pending>>
domain  == <<vm, state>>
fixed   == <<lof, state_f>>
vars == <<statedetect, threads, fixed, local, table, errors, ps, domain>>

Stat(i)       == <<"stat", i>>
Warning(r, i) == <<"warning", r, i>>
Factor        == <<"state_factor">>

NoRows     == [k \in {Stat(i) : i \in Row} |-> "none"]
NoWarnings == [k \in {Warning(r, i) : r \in Run, i \in Row} |-> FALSE]

Unit == 10
High == {i \in Row : lof[i] > 10 * Unit}
anomalous == High \union {i \in Row : 10 * lof[i] < 7 * Unit}

\* Without a state_anomaly the score itself is added.
Weight(i) == IF state_f = 0 THEN lof[i] ELSE Unit * state_f

Quiet == {"off", "done", "dead"}
NoRow == 0
Reachable == vm \in {"running", "paused"}

TypeOK ==
  /\ statedetect \in {"", "0", "1", "2"}
  /\ starter \in [Run -> {"read", "open", "write", "done", "dead"}]
  /\ stops \in [runs : 0 .. MaxStops, open : BOOLEAN]
  /\ det \in [Run -> Quiet \union {"train", "write", "query", "row", "warn", "answer", "zero", "act", "migrate", "poll"}]
  /\ ex \in [Run -> Quiet \union {"init", "wait", "first", "look", "poll"}]
  /\ \A r \in Run : det[r] \in Quiet => pending[r] = NoWrites
  /\ lof \in [Row -> Score] /\ state_f \in Factors
  /\ factortotal \in [Run -> Nat] /\ table[Factor] \in Nat
  /\ \A i \in Row : table[Stat(i)] \in {"none", "0", "1", "2"}
  /\ vm \in {"running", "paused", "shut", "away"} /\ state \in {"", "p", "c", "m", "mm"}

Init ==
  /\ statedetect = "0"
  /\ starter = [r \in Run |-> "read"] /\ stops = [runs |-> 0, open |-> FALSE]
  /\ det = [r \in Run |-> "off"] /\ ex = [r \in Run |-> "off"]
  /\ lof \in [Row -> Score] /\ state_f \in Factors
  /\ batch = [r \in Run |-> {}] /\ row = [r \in Run |-> NoRow]
  /\ factortotal = [r \in Run |-> 0] /\ pending = [r \in Run |-> NoWrites]
  /\ table = Over(NoRows, Over(NoWarnings, Write(Factor, 0)))
  /\ errors = 0
  /\ ps = FALSE /\ vm = "running" /\ state = ""

(***************************************************************************)
(* The two programs.                                                       *)
(***************************************************************************)
Start(r) ==
  /\ starter[r] = "read"
  /\ starter' = [starter EXCEPT ![r] = CASE statedetect = ""  -> "dead"
                                         [] statedetect = "0" -> "open"
                                         [] OTHER             -> "done"]
  /\ UNCHANGED <<statedetect, stops, det, ex, fixed, local, table, errors, ps, domain>>

StartOpens(r) ==
  /\ starter[r] = "open" /\ starter' = [starter EXCEPT ![r] = "write"]
  /\ statedetect' = ""
  /\ UNCHANGED <<stops, det, ex, fixed, local, table, errors, ps, domain>>

start_state(r) ==
  /\ starter[r] = "write" /\ starter' = [starter EXCEPT ![r] = "done"]
  /\ statedetect' = "1"
  /\ det' = [det EXCEPT ![r] = "train"] /\ ex' = [ex EXCEPT ![r] = "init"]
  /\ UNCHANGED <<stops, fixed, local, table, errors, ps, domain>>

StopOpens ==
  /\ ~stops.open /\ stops.runs < MaxStops
  /\ stops' = [runs |-> stops.runs + 1, open |-> TRUE]
  /\ statedetect' = ""
  /\ UNCHANGED <<starter, det, ex, fixed, local, table, errors, ps, domain>>

StopWrites ==
  /\ stops.open /\ stops' = [stops EXCEPT !.open = FALSE]
  /\ statedetect' = "0"
  /\ UNCHANGED <<starter, det, ex, fixed, local, table, errors, ps, domain>>

(***************************************************************************)
(* detectState.                                                            *)
(***************************************************************************)
\* An exception ends the thread; its connection takes what is pending along.
Dies(r) ==
  /\ det' = [det EXCEPT ![r] = "dead"]
  /\ pending' = [pending EXCEPT ![r] = NoWrites]

Fails == errors < MaxErrors /\ errors' = errors + 1

\* The training and the limits of the table response; without a row for the
\* domain there, or with a table that cannot be read, there is no detector.
\* Training data of exactly one row are left out: getk_distance never returns.
TrainingEnds(r) ==
  /\ det[r] = "train"
  /\ \/ det' = [det EXCEPT ![r] = "write"] /\ statedetect' = "" /\ UNCHANGED errors
     \/ Fails /\ det' = [det EXCEPT ![r] = "dead"] /\ UNCHANGED statedetect
  /\ UNCHANGED <<starter, stops, ex, fixed, local, table, ps, domain>>

\* Whatever the file said meanwhile.
WritesRunning(r) ==
  /\ det[r] = "write" /\ det' = [det EXCEPT ![r] = "query"]
  /\ statedetect' = "2"
  /\ UNCHANGED <<starter, stops, ex, fixed, local, table, errors, ps, domain>>

Query(r) ==
  /\ det[r] = "query"
  /\ \/ /\ table' = select(table, pending[r]) /\ pending' = [pending EXCEPT ![r] = NoWrites]
        /\ batch' = [batch EXCEPT ![r] = {i \in Row : table'[Stat(i)] = "0"}]
        /\ det' = [det EXCEPT ![r] = IF batch'[r] = {} THEN "poll" ELSE "row"]
        /\ UNCHANGED errors
     \/ Fails /\ Dies(r) /\ UNCHANGED <<table, batch>>
  /\ UNCHANGED <<statedetect, starter, stops, ex, fixed, row, factortotal, ps, domain>>

\* A row that is in order is marked and committed at once, and so is what is
\* pending; a failure is not noticed.
MoveOut(r, i) ==
  /\ det[r] = "row" /\ i \in batch[r] \ anomalous
  /\ \/ table' = dosql(table, pending[r], Write(Stat(i), "2"), TRUE) /\ UNCHANGED errors
     \/ Fails /\ table' = dosql(table, pending[r], Write(Stat(i), "2"), FALSE)
  /\ pending' = [pending EXCEPT ![r] = NoWrites]
  /\ batch' = [batch EXCEPT ![r] = @ \ {i}]
  /\ UNCHANGED <<statedetect, threads, fixed, row, factortotal, ps, domain>>

\* Mutant of AddIn: the mark is committed at once, as that of the other rows.
AddInAtOnce(r, i) ==
  /\ det[r] = "row" /\ i \in batch[r] \intersect anomalous
  /\ det' = [det EXCEPT ![r] = "warn"] /\ row' = [row EXCEPT ![r] = i]
  /\ table' = dosql(table, pending[r], Write(Stat(i), "1"), TRUE)
  /\ pending' = [pending EXCEPT ![r] = NoWrites]
  /\ UNCHANGED <<statedetect, starter, stops, ex, fixed, batch, factortotal, errors, ps, domain>>

\* An anomaly is marked,
AddIn(r, i) ==
  /\ det[r] = "row" /\ i \in batch[r] \intersect anomalous
  /\ \/ /\ det' = [det EXCEPT ![r] = "warn"] /\ row' = [row EXCEPT ![r] = i]
        /\ pending' = [pending EXCEPT ![r] = myupdate(@, Write(Stat(i), "1"))]
        /\ UNCHANGED errors
     \/ Fails /\ Dies(r) /\ UNCHANGED row
  /\ UNCHANGED <<statedetect, starter, stops, ex, fixed, batch, factortotal, table, ps, domain>>

\* and warned of and counted.
Warn(r) ==
  /\ det[r] = "warn" /\ row' = [row EXCEPT ![r] = NoRow]
  /\ \/ /\ det' = [det EXCEPT ![r] = "row"]
        /\ pending' = [pending EXCEPT ![r] = myupdate(@, Write(Warning(r, row[r]), TRUE))]
        /\ factortotal' = [factortotal EXCEPT ![r] = @ + Weight(row[r])]
        /\ batch' = [batch EXCEPT ![r] = @ \ {row[r]}]
        /\ UNCHANGED errors
     \/ Fails /\ Dies(r) /\ UNCHANGED <<factortotal, batch>>
  /\ UNCHANGED <<statedetect, starter, stops, ex, fixed, table, ps, domain>>

\* Mutant of Way: at most one way is looked at.
PauseOnly(f) == IF f > Unit * state_p THEN "p" ELSE "none"

Way(f) == CASE f > Unit * state_p                                               -> "p"
            [] f <= Unit * state_p /\ f > Unit * state_c                        -> "c"
            [] f <= Unit * state_p /\ f <= Unit * state_c /\ f > Unit * state_m -> "m"
            [] OTHER                                                            -> "none"

\* The sum is stored and all is committed.
EndTurn(r) ==
  /\ det[r] = "row" /\ batch[r] = {}
  /\ \/ /\ table' = allcommit(table, myupdate(pending[r], Write(Factor, factortotal[r])))
        /\ pending' = [pending EXCEPT ![r] = NoWrites]
        /\ det' = [det EXCEPT ![r] = IF Way(factortotal[r]) = "none" THEN "poll" ELSE "answer"]
        /\ UNCHANGED errors
     \/ Fails /\ Dies(r) /\ UNCHANGED table
  /\ UNCHANGED <<statedetect, starter, stops, ex, fixed, batch, row, factortotal, ps, domain>>

\* Mutant of Poll: a detector that has found nothing yet goes on.
PollAfterAnomalies(r) ==
  /\ det[r] = "poll"
  /\ det' = [det EXCEPT ![r] = IF statedetect = "0" /\ factortotal[r] > 0 THEN "done" ELSE "query"]
  /\ UNCHANGED <<statedetect, starter, stops, ex, fixed, local, table, errors, ps, domain>>

\* The end of every turn, with rows or without.
Poll(r) ==
  /\ det[r] = "poll"
  /\ \/ statedetect = "" /\ det' = [det EXCEPT ![r] = "dead"] /\ UNCHANGED <<table, errors>>
     \/ /\ statedetect = "0" /\ det' = [det EXCEPT ![r] = "done"]
        /\ \/ table' = dosql(table, pending[r], Write(Factor, 0), TRUE) /\ UNCHANGED errors
           \/ table' = dosql(table, pending[r], Write(Factor, 0), FALSE) /\ Fails
     \/ statedetect \in {"1", "2"} /\ det' = [det EXCEPT ![r] = "query"] /\ UNCHANGED <<table, errors>>
  /\ UNCHANGED <<statedetect, starter, stops, ex, fixed, local, ps, domain>>

(***************************************************************************)
(* responsevm, called by detectState.  It stops the domain's three         *)
(* detectors; of the files it writes only .statedetect is read here.       *)
(***************************************************************************)
AnswerOpens(r) ==
  /\ det[r] = "answer" /\ det' = [det EXCEPT ![r] = "zero"]
  /\ statedetect' = ""
  /\ UNCHANGED <<starter, stops, ex, fixed, local, table, errors, ps, domain>>

AnswerZeroes(r) ==
  /\ det[r] = "zero" /\ det' = [det EXCEPT ![r] = "act"]
  /\ statedetect' = "0"
  /\ UNCHANGED <<starter, stops, ex, fixed, local, table, errors, ps, domain>>

\* Two seconds later; xl has no effect on a domain that is not running here.
Act(r) ==
  /\ det[r] = "act"
  /\ state' = Way(factortotal[r])
  /\ vm' = CASE vm = "running" /\ state' = "p" -> "paused"
             [] vm = "running" /\ state' = "c" -> "shut"
             [] OTHER                          -> vm
  /\ det' = [det EXCEPT ![r] = IF state' = "m" THEN "migrate" ELSE "poll"]
  /\ UNCHANGED <<statedetect, starter, stops, ex, fixed, local, table, errors, ps>>

\* Without a host to go to, or when ssh asks something else, pexpect raises.
migratevm(r) ==
  /\ det[r] = "migrate"
  /\ \/ /\ state' = "mm" /\ vm' = IF vm = "running" THEN "away" ELSE vm
        /\ det' = [det EXCEPT ![r] = "poll"] /\ UNCHANGED <<pending, errors>>
     \/ Fails /\ Dies(r) /\ UNCHANGED domain
  /\ UNCHANGED <<statedetect, starter, stops, ex, fixed, batch, row, factortotal, table, ps>>

Detector(r) ==
  \/ TrainingEnds(r) \/ WritesRunning(r) \/ Query(r) \/ Warn(r) \/ EndTurn(r) \/ Poll(r)
  \/ \E i \in Row : MoveOut(r, i) \/ AddIn(r, i)
  \/ AnswerOpens(r) \/ AnswerZeroes(r) \/ Act(r) \/ migratevm(r)

(***************************************************************************)
(* exdamain.                                                               *)
(***************************************************************************)
\* The guest's reports are emptied first.
ExStarts(r) ==
  /\ ex[r] = "init"
  /\ IF Reachable THEN ex' = [ex EXCEPT ![r] = "wait"] /\ ps' = FALSE
     ELSE ex' = [ex EXCEPT ![r] = "dead"] /\ UNCHANGED ps
  /\ UNCHANGED <<statedetect, starter, stops, det, fixed, local, table, errors, domain>>

ExWaits(r) ==
  /\ ex[r] = "wait"
  /\ ex' = [ex EXCEPT ![r] = CASE statedetect = ""  -> "dead"
                               [] statedetect = "1" -> "wait"
                               [] OTHER             -> "first"]
  /\ UNCHANGED <<statedetect, starter, stops, det, fixed, local, table, errors, ps, domain>>

\* The first turn only takes the counters the later ones subtract.
\* While .ps is empty, getOutPsNum raises an IndexError and the turn starts
\* again, before the file .statedetect is looked at.
ExLooks(r) ==
  /\ ex[r] \in {"first", "look"}
  /\ ex' = [ex EXCEPT ![r] = CASE ~Reachable    -> "dead"
                               [] @ = "first"   -> "look"
                               [] ps            -> "poll"
                               [] OTHER         -> "look"]
  /\ UNCHANGED <<statedetect, starter, stops, det, fixed, local, table, errors, ps, domain>>

\* A connection of its own, without anything pending.
ExAdds(r) ==
  /\ ex[r] = "poll"
  /\ ex' = [ex EXCEPT ![r] = CASE statedetect = ""  -> "dead"
                               [] statedetect = "0" -> "done"
                               [] OTHER             -> "look"]
  /\ IF ex'[r] = "look" /\ \E i \in Row : table[Stat(i)] = "none"
     THEN LET i == CHOOSE i \in Row : table[Stat(i)] = "none"
          IN  table' = dosql(table, NoWrites, Write(Stat(i), "0"), TRUE)
     ELSE UNCHANGED table
  /\ UNCHANGED <<statedetect, starter, stops, det, fixed, local, errors, ps, domain>>

exdamain(r) == ExStarts(r) \/ ExWaits(r) \/ ExLooks(r) \/ ExAdds(r)

\* The handler of the guest's reports: it opens the file and fills it.
Report ==
  /\ vm = "running" /\ ps' = ~ps
  /\ UNCHANGED <<statedetect, threads, fixed, local, table, errors, domain>>

Next ==
  \/ \E r \in Run : Start(r) \/ StartOpens(r) \/ start_state(r) \/ Detector(r) \/ exdamain(r)
  \/ StopOpens \/ StopWrites \/ Report

Spec == Init /\ [][Next]_vars

\* Threads run and a file that was opened is written.  Nobody has to start or
\* stop anything, and the guest may be silent.
Fairness ==
  /\ \A r \in Run : WF_vars(StartOpens(r) \/ start_state(r)) /\ WF_vars(Detector(r)) /\ WF_vars(exdamain(r))
  /\ WF_vars(StopWrites)

FairSpec == Spec /\ Fairness

-----------------------------------------------------------------------------
\* A committed mark has its committed warning and a committed warning its mark,
\* whatever statement fails and whichever rows of the turn commit in between.
MarkedIffWarned ==
  \A i \in Row : table[Stat(i)] = "1" <=> \E r \in Run : table[Warning(r, i)]

\* What is committed has been counted: a rollback may make a run count a row
\* twice, never forget one.  Each counts for state_anomaly; without one, a low
\* score adds next to nothing and a high one more than ten.
WarnedBy(r) == {i \in Row : table[Warning(r, i)]}
Counting == IF state_f = 0 THEN High ELSE Row
Least == IF state_f = 0 THEN 10 * Unit ELSE Unit * state_f
WarningsCounted == \A r \in Run : Least * Cardinality(WarnedBy(r) \intersect Counting) <= factortotal[r]

\* The rows, the table warning and the count agree, and every variable has its
\* type: stat and warning are committed together or not at all, the count is
\* of this run's memory only.
CommitsAgree == TypeOK /\ MarkedIffWarned /\ WarningsCounted

\* When what a run has warned of is more than one of the limits allows,
\* something is done with the domain, unless the detector dies or is stopped
\* first.  Rows of low scores alone may stay below every limit for long.
AnomaliesAnswered ==
  \A r \in Run :
    (\E limit \in {state_p, state_c, state_m} : MapThenSumSet(Weight, WarnedBy(r)) > Unit * limit)
    ~> (state # "" \/ det[r] \in Quiet)

\* A stop that is not overwritten, by a training that ends or by another start,
\* ends the detectors; exdamain ends as well once the guest has reported.
StateStops ==
  /\ <>[](statedetect = "0") => <>[](\A r \in Run : det[r] \in Quiet)
  /\ <>[](statedetect = "0" /\ ps) => <>[](\A r \in Run : ex[r] \in Quiet)
=============================================================================
