--------------------------- MODULE PsDetectProofs ---------------------------
(***************************************************************************)
(* Every process with an anomalous row has its warning, for any number of  *)
(* detectors at once, rows, processes and stops.                           *)
(***************************************************************************)
EXTENDS PsDetect, TLAPS

-----------------------------------------------------------------------------
(***************************************************************************)
(* The inductive invariant.                                                *)
(***************************************************************************)
File == psdetect \in {"", "0", "1", "2"}

Control ==
  /\ starter \in [Run -> {"read", "open", "write", "done", "dead"}]
  /\ stops \in [runs : 0 .. MaxStops, open : BOOLEAN]
  /\ det \in [Run -> Quiet \union {"train", "write", "query", "commit", "poll", "emptypoll"}]
  /\ col \in [Run -> Quiet \union {"first", "wait", "popen", "late", "watch", "kill"}]
  /\ tracer \in [Run -> BOOLEAN]

Rows ==
  /\ batch \in [Run -> SUBSET Row]
  /\ warning_psid \in [Run -> SUBSET Psids]
  /\ state \in [Row -> {"none", "0", "1", "2"}] /\ warning \subseteq Psids

\* What a run remembers is in the table: NewAnomalies leaves out only processes
\* that have their warning, though other runs write the table too.
Remembered == \A r \in Run : warning_psid[r] \subseteq warning

Marked == \A i \in Row : state[i] = "1" => Psid[i] \in warning

IInv == File /\ Control /\ Rows /\ Remembered /\ Marked

\* A step that only moves the threads.
LEMMA DataKept == ASSUME IInv, File', Control', UNCHANGED data PROVE IInv'
<1>1. Rows'
  BY DEF IInv, Rows, data
<1>2. Remembered' /\ Marked'
  BY DEF IInv, Remembered, Marked, data
<1>. QED BY <1>1, <1>2 DEF IInv

\* At first nothing is marked or warned of.
LEMMA InitIInv == Init => IInv
<1>. SUFFICES ASSUME Init PROVE IInv
  OBVIOUS
<1>1. File
  BY DEF Init, File
<1>2. Control
  <2>1. 0 \in 0 .. MaxStops
    BY DetectAssumption
  <2>2. stops \in [runs : 0 .. MaxStops, open : BOOLEAN]
    BY <2>1 DEF Init
  <2>3. /\ starter \in [Run -> {"read", "open", "write", "done", "dead"}]
        /\ det = [r \in Run |-> "off"] /\ col = [r \in Run |-> "off"]
        /\ tracer \in [Run -> BOOLEAN]
    BY DEF Init
  <2>. QED BY <2>2, <2>3 DEF Control, Quiet
<1>3. Rows
  <2>1. state \in [Row -> {"none", "0"}] /\ warning = {}
        /\ batch = [r \in Run |-> {}] /\ warning_psid = [r \in Run |-> {}]
    BY DEF Init
  <2>. QED BY <2>1 DEF Rows
<1>4. Remembered /\ Marked
  <2>1. state \in [Row -> {"none", "0"}] /\ warning_psid = [r \in Run |-> {}]
    BY DEF Init
  <2>2. \A i \in Row : state[i] # "1"
    BY <2>1
  <2>3. \A r \in Run : warning_psid[r] = {}
    BY <2>1
  <2>. QED BY <2>2, <2>3 DEF Remembered, Marked
<1>. QED BY <1>1, <1>2, <1>3, <1>4 DEF IInv

\* Every step keeps the invariant; Query, Commit and Insert touch the rows.
LEMMA NextIInv == ASSUME IInv, [Next]_vars PROVE IInv'
<1>0. File /\ Control /\ Rows /\ Remembered /\ Marked
  BY DEF IInv
<1>1. ASSUME NEW r \in Run, Start(r) \/ StartOpens(r) \/ start_ps(r) PROVE IInv'
  <2>1. File'
    BY <1>0, <1>1 DEF Start, StartOpens, start_ps, File
  <2>2. Control' /\ UNCHANGED data
    BY <1>0, <1>1 DEF Start, StartOpens, start_ps, Control, Quiet
  <2>. QED BY <2>1, <2>2, DataKept
<1>2. CASE StopOpens
  <2>1. File' /\ UNCHANGED <<starter, det, col, tracer, data>>
    BY <1>2 DEF StopOpens, File
  <2>2. MaxStops \in Nat /\ stops.runs \in 0 .. MaxStops /\ stops.runs < MaxStops
        /\ stops' = [runs |-> stops.runs + 1, open |-> TRUE]
    BY <1>0, <1>2, DetectAssumption DEF StopOpens, Control
  <2>3. stops.runs + 1 \in 0 .. MaxStops
    BY <2>2
  <2>4. stops' \in [runs : 0 .. MaxStops, open : BOOLEAN]
    BY <2>2, <2>3
  <2>5. Control'
    BY <1>0, <2>1, <2>4 DEF Control
  <2>. QED BY <2>1, <2>5, DataKept
<1>3. CASE StopWrites
  <2>1. File'
    BY <1>3 DEF StopWrites, File
  <2>2. Control' /\ UNCHANGED data
    BY <1>0, <1>3 DEF StopWrites, Control
  <2>. QED BY <2>1, <2>2, DataKept
<1>4. ASSUME NEW r \in Run, TrainingEnds(r) \/ WritesRunning(r) \/ Poll(r) \/ StatementFails(r) PROVE IInv'
  <2>1. File'
    BY <1>0, <1>4 DEF TrainingEnds, WritesRunning, Poll, StatementFails, File
  <2>2. Control' /\ UNCHANGED data
    BY <1>0, <1>4 DEF TrainingEnds, WritesRunning, Poll, StatementFails, Control, Quiet
  <2>. QED BY <2>1, <2>2, DataKept
<1>5. ASSUME NEW r \in Run, Collector(r) PROVE IInv'
  <2>1. File' /\ UNCHANGED data
    BY <1>0, <1>5 DEF Collector, AwaitTraining, Popen, Watch, Kill, File
  <2>2. UNCHANGED <<starter, stops, det>>
    BY <1>5 DEF Collector, AwaitTraining, Popen, Watch, Kill
  <2>3. tracer' \in [Run -> BOOLEAN]
    <3>1. tracer' = tracer \/ \E b \in BOOLEAN : tracer' = [tracer EXCEPT ![r] = b]
      BY <1>5 DEF Collector, AwaitTraining, Popen, Watch, Kill
    <3>. QED BY <1>0, <3>1 DEF Control
  <2>4. col' \in [Run -> Quiet \union {"first", "wait", "popen", "late", "watch", "kill"}]
    <3>1. col' = col \/ \E c \in Quiet \union {"first", "wait", "popen", "late", "watch", "kill"} : col' = [col EXCEPT ![r] = c]
      BY <1>5 DEF Collector, AwaitTraining, Popen, Watch, Kill, Quiet
    <3>. QED BY <1>0, <3>1 DEF Control
  <2>5. Control'
    BY <1>0, <2>2, <2>3, <2>4 DEF Control
  <2>. QED BY <2>1, <2>5, DataKept
<1>6. ASSUME NEW r \in Run, Query(r) PROVE IInv'
  <2>1. File' /\ UNCHANGED <<starter, stops, col, tracer, warning_psid, state, warning>>
    BY <1>0, <1>6 DEF Query, File
  <2>2. \E d \in {"emptypoll", "commit"} : det' = [det EXCEPT ![r] = d]
    BY <1>6 DEF Query
  <2>3. batch' = [batch EXCEPT ![r] = {i \in Row : state[i] = "0"}]
    BY <1>6 DEF Query
  <2>4. Control'
    BY <1>0, <2>1, <2>2 DEF Control
  <2>5. Rows'
    BY <1>0, <2>1, <2>3 DEF Rows
  <2>6. Remembered' /\ Marked'
    BY <1>0, <2>1 DEF Remembered, Marked
  <2>. QED BY <2>1, <2>4, <2>5, <2>6 DEF IInv
<1>7. ASSUME NEW r \in Run, Commit(r) PROVE IInv'
  <2>1. File' /\ UNCHANGED <<starter, stops, col, tracer>>
    BY <1>0, <1>7 DEF Commit, File
  <2>2. \E d \in {"dead", "poll"} : det' = [det EXCEPT ![r] = d]
    BY <1>7 DEF Commit
  <2>3. Control'
    BY <1>0, <2>1, <2>2 DEF Control, Quiet
  <2>4. PICK verdict \in [batch[r] -> {"1", "2"}] :
          /\ state' = [i \in Row |-> IF i \in batch[r] THEN verdict[i] ELSE state[i]]
          /\ warning' = warning \union NewAnomalies(r, verdict)
          /\ warning_psid' = [warning_psid EXCEPT ![r] = @ \union NewAnomalies(r, verdict)]
    BY <1>7 DEF Commit
  <2>5. NewAnomalies(r, verdict) \subseteq Psids
    BY <1>0 DEF NewAnomalies, Rows, Psids
  <2>6. Rows'
    <3>1. batch' \in [Run -> SUBSET Row]
      BY <1>0, <1>7 DEF Commit, Rows
    <3>2. state' \in [Row -> {"none", "0", "1", "2"}]
      BY <1>0, <2>4 DEF Rows
    <3>3. warning_psid' \in [Run -> SUBSET Psids] /\ warning' \subseteq Psids
      BY <1>0, <2>4, <2>5 DEF Rows
    <3>. QED BY <3>1, <3>2, <3>3 DEF Rows
  <2>7. Remembered'
    BY <1>0, <2>4 DEF Remembered, Rows
  <2>8. ASSUME NEW i \in Row, state'[i] = "1" PROVE Psid[i] \in warning'
    <3>1. CASE i \in batch[r]
      <4>1. verdict[i] = "1"
        BY <2>4, <2>8, <3>1
      <4>2. Psid[i] \in warning_psid[r] \/ Psid[i] \in NewAnomalies(r, verdict)
        BY <4>1, <3>1 DEF NewAnomalies
      <4>. QED BY <1>0, <2>4, <4>2 DEF Remembered
    <3>2. CASE i \notin batch[r]
      BY <1>0, <2>4, <2>8, <3>2 DEF Marked
    <3>. QED BY <3>1, <3>2
  <2>. QED BY <2>1, <2>3, <2>6, <2>7, <2>8 DEF IInv, Marked
<1>8. ASSUME NEW i \in Row, Insert(i) PROVE IInv'
  <2>1. state' = [state EXCEPT ![i] = "0"]
        /\ UNCHANGED <<psdetect, starter, stops, det, col, tracer, batch, warning_psid, warning>>
    BY <1>8 DEF Insert, threads
  <2>2. File' /\ Control'
    BY <1>0, <2>1 DEF File, Control
  <2>3. Rows'
    BY <1>0, <2>1 DEF Rows
  <2>4. Remembered' /\ Marked'
    BY <1>0, <2>1 DEF Remembered, Marked, Rows
  <2>. QED BY <2>2, <2>3, <2>4 DEF IInv
<1>9. CASE UNCHANGED vars
  <2>1. UNCHANGED <<psdetect, starter, stops, det, col, tracer, data>>
    BY <1>9 DEF vars, threads
  <2>2. File' /\ Control'
    BY <1>0, <2>1 DEF File, Control
  <2>. QED BY <2>1, <2>2, DataKept
<1>. QED BY <1>1, <1>2, <1>3, <1>4, <1>5, <1>6, <1>7, <1>8, <1>9 DEF Next, Detector

\* For any number of runs of start_ps_detect.py at once: a row that Commit has
\* marked as an anomaly is of a process with a row in the table warning, though
\* each run warns only of processes it has not warned of itself.
THEOREM AnomaliesWarned == Spec => []AnomalyIsWarned
<1>1. IInv => AnomalyIsWarned
  BY DEF IInv, File, Control, Rows, Marked, AnomalyIsWarned, TypeOK
<1>. QED BY <1>1, InitIInv, NextIInv, PTL DEF Spec
=============================================================================
