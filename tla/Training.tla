------------------------------ MODULE Training ------------------------------
(***************************************************************************)
(* The commands of calcul_lof.py and calcul_sklearn.py that classify rows  *)
(* already stored: operation 3 (traindetectState, stage after stage),      *)
(* operation 7 (trainpsinfo), operations 9 to 18 (trainmode, selectmode),  *)
(* the thread of operations 2 and 6 (detectPsinfo), which goes on with the *)
(* rows the collector inserts, and that of operation 19 (detectpsmode),    *)
(* which its main leaves alone.  A row is 0 until it is classified, 1      *)
(* when it is added to the training data, 2 when it is moved out.  All     *)
(* statements go through one connection (DBHelper); the score of a row is  *)
(* any, the order of the rows of a query too.  Training data of exactly    *)
(* one row are left out: its queue of neighbours is empty, and get waits   *)
(* for ever (getk_distance).                                               *)
(***************************************************************************)
EXTENDS Naturals, Sequences, DBHelper
CONSTANTS
  Row,        \* the ids of every table
  First,      \* ids below it are training data from the start (227, 501)
  Limit,      \* the maxnum of each stage, ascending
  Last,       \* the maxnum of the last call, above every row
  MaxErrors   \* bound: SQL errors
TrainingAssumption ==
  /\ Row \subseteq Nat /\ Last \in Nat /\ \A r \in Row : r < Last
  /\ Limit \in Seq(Nat) /\ Limit # <<>> /\ First \in Nat /\ MaxErrors \in Nat
  /\ First <= Limit[1]

VARIABLES
  op,       \* the command
  stage,    \* the number of its call
  pc, batch,
  table,    \* classes of rows and numbers of warnings, as committed
  pending,  \* what the connection has not committed yet
  failed,   \* the rows one of whose statements failed
  errors
vars == <<op, stage, pc, batch, table, pending, failed, errors>>

Modes == {"trainmode", "selectmode"}
Endless == {"watch", "psmode"}
Scorers == {"states", "processes", "watch"}
\* The calls of a command: a table, and the limit on the ids that are selected.
Staged(t) == [i \in DOMAIN Limit |-> <<t, Limit[i]>>]
Calls ==
  CASE op = "states" -> Append(Staged("state"), <<"nowstate", Last>>)
    [] op = "processes" ->
         Staged("npsinfo") \o <<<<"npsinfo", Limit[1]>>, <<"abnpsinfo", Last>>>>
    [] op \in Modes \cup {"psmode"} -> <<<<"testset", Last>>>>
    [] op = "watch" -> <<<<"nowpsinfo", Last>>>>
Of == Calls[stage][1]
Max == Calls[stage][2]
Rows == {Calls[i][1] : i \in DOMAIN Calls} \X Row
Warning(r) == <<"warning", r>>
NotYet == 9   \* a row the collector has not inserted

Init ==
  /\ op \in Modes \cup Endless \cup Scorers
  /\ stage = 1 /\ batch = {} /\ pending = NoWrites /\ failed = {} /\ errors = 0
  /\ pc = IF op = "states" THEN "mark" ELSE "query"
  /\ table = Over([k \in Rows |-> IF op = "watch" THEN NotYet ELSE 0],
                  [k \in {Warning(r) : r \in Row} |-> 0])

Ok == errors' = errors
Err == errors < MaxErrors /\ errors' = errors + 1
\* An exception ends the command and the program, or the thread.
Raises == Err /\ pc' = "dead" /\ pending' = NoWrites /\ UNCHANGED <<stage, batch, table, failed>>

\* "update state set stat = 1 where id <227", "update npsinfo set state = 0
\* where id <501": through oncesql, which hides an error.
Mark(class) ==
  /\ pc = "mark" /\ pc' = "query"
  /\ \E ok \in BOOLEAN :
       /\ IF ok THEN Ok ELSE Err
       /\ table' = dosql(table, pending, [k \in {<<Of, r>> : r \in {x \in Row : x < First}} |-> class], ok)
  /\ UNCHANGED <<op, stage, batch, pending, failed>>
MarkNormal == op = "states" /\ Mark(1)
Unmark == op = "processes" /\ Mark(0)

(***************************************************************************)
(* The next batch of a call.  An empty one ends traindetectState and       *)
(* trainpsinfo, the endless ones ask again; trainmode asks once.  Without  *)
(* training data MinMaxScaler raises.                                      *)
(***************************************************************************)
Batch == {r \in Row : r < Max /\ table[<<Of, r>>] = 0}
NoTraining == op = "states" /\ \A r \in Row : table[<<"state", r>>] # 1
Query ==
  /\ pc = "query" /\ UNCHANGED op
  /\ \/ /\ Ok /\ ~NoTraining /\ batch' = Batch /\ batch' # {} /\ pc' = "row"
        /\ UNCHANGED <<stage, table, pending, failed>>
     \/ Ok /\ NoTraining /\ pc' = "dead" /\ UNCHANGED <<stage, batch, table, pending, failed>>
     \/ Raises
\* Mutant: detectPsinfo breaks at an empty batch, as trainpsinfo does.
EndAtEmpty ==
  /\ pc = "query" /\ Batch = {} /\ ~NoTraining /\ Ok
  /\ IF stage = Len(Calls) THEN pc' = "done" ELSE pc' = "query"
  /\ stage' = IF stage = Len(Calls) THEN stage ELSE stage + 1
  /\ UNCHANGED <<op, batch, table, pending, failed>>
NextCall ==
  /\ pc = "query" /\ Batch = {} /\ ~NoTraining /\ op \notin Endless /\ Ok
  /\ IF stage = Len(Calls)
     THEN pc' = "done" /\ UNCHANGED stage
     ELSE /\ stage' = stage + 1
          /\ pc' = IF op = "processes" /\ stage = Len(Limit) THEN "mark" ELSE "query"
  /\ UNCHANGED <<op, batch, table, pending, failed>>

(***************************************************************************)
(* One turn of a batch.  An anomalous row is added by myupdate and stays   *)
(* pending, with its warning in detectPsinfo; another is moved out by      *)
(* oncesql, which commits what is pending with it or rolls it all back.    *)
(***************************************************************************)
AddIn(r) ==
  IF op = "watch"
  THEN myupdate(myupdate(pending, Write(<<Of, r>>, 1)), Write(Warning(r), table[Warning(r)] + 1))
  ELSE myupdate(pending, Write(<<Of, r>>, 1))
Update(r, class, ok) ==
  /\ IF ok THEN Ok ELSE Err
  /\ table' = dosql(table, pending, Write(<<Of, r>>, class), ok)
  /\ pending' = NoWrites
  /\ failed' = IF ok THEN failed ELSE failed \cup {r}
Turn(classified(_)) ==
  /\ pc = "row" /\ \E r \in batch : classified(r) /\ batch' = batch \ {r}
  /\ pc' = (IF batch' = {} THEN "commit" ELSE pc)
  /\ UNCHANGED <<op, stage>>
\* Mutant: the warning is committed at once, by a connection of its own.
ScoredApart(r) ==
  \/ /\ Ok /\ pending' = myupdate(pending, Write(<<Of, r>>, 1))
     /\ table' = [table EXCEPT ![Warning(r)] = @ + (IF op = "watch" THEN 1 ELSE 0)]
     /\ UNCHANGED failed
  \/ \E ok \in BOOLEAN : Update(r, 2, ok)
Scored(r) ==
  \/ Ok /\ pending' = AddIn(r) /\ UNCHANGED <<table, failed>>
  \/ \E ok \in BOOLEAN : Update(r, 2, ok)
Predicted(r) == \E class \in 1..2, ok \in BOOLEAN : Update(r, class, ok)

Classify == IF op \in Scorers THEN Turn(Scored) ELSE Turn(Predicted)
\* An error in myupdate leaves res unbound, and its return raises.
AddFails == pc = "row" /\ op \in Scorers /\ Raises /\ UNCHANGED op
\* Mutant: the last call does not ask again.
EndBatchOnce ==
  /\ pc = "commit" /\ Ok
  /\ table' = allcommit(table, pending) /\ pending' = NoWrites
  /\ pc' = IF stage = Len(Calls) /\ op \notin Endless THEN "done" ELSE "query"
  /\ UNCHANGED <<op, stage, batch, failed>>
EndBatch ==
  /\ pc = "commit" /\ Ok
  /\ table' = allcommit(table, pending) /\ pending' = NoWrites
  /\ pc' = IF op \in Modes THEN "done" ELSE "query"
  /\ UNCHANGED <<op, stage, batch, failed>>

Goes == Query \/ NextCall \/ Classify \/ EndBatch
traindetectState == op = "states" /\ (Goes \/ AddFails)
trainpsinfo == op = "processes" /\ (Goes \/ AddFails)
detectPsinfo == op = "watch" /\ (Goes \/ AddFails)
trainmode == op = "trainmode" /\ Goes
selectmode == op = "selectmode" /\ Goes
detectpsmode == op = "psmode" /\ Goes

\* The collector of operations 2 and 6.
Insert ==
  /\ \E r \in Row : table[<<Of, r>>] = NotYet /\ table' = [table EXCEPT ![<<Of, r>>] = 0]
  /\ UNCHANGED <<op, stage, pc, batch, pending, failed, errors>>

\* main of operation 19 goes on to a collector whose name it has not imported,
\* ends, and takes the thread along.
MainEnds ==
  /\ op = "psmode" /\ pc' = "dead" /\ pending' = NoWrites
  /\ UNCHANGED <<op, stage, batch, table, failed, errors>>

Step ==
  \/ MarkNormal \/ Unmark \/ traindetectState \/ trainpsinfo \/ detectPsinfo
  \/ trainmode \/ selectmode \/ detectpsmode \/ Insert \/ MainEnds
Fairness == WF_vars(MarkNormal \/ Unmark \/ Goes)
Spec == Init /\ [][Step]_vars /\ Fairness

-----------------------------------------------------------------------------
\* A command that ends without an exception has classified every row its calls
\* selected: a rollback that takes classified rows with it, even rows of the
\* same batch that were added before, is made good by the next query.  Only the
\* classifiers of scikit-learn, which query once, leave a row, and only one
\* whose own statement failed.
EndsClassified ==
  pc = "done" =>
    \A i \in DOMAIN Calls, r \in Row :
      (r < Calls[i][2] /\ table[<<Calls[i][1], r>>] = 0) => (op \in Modes /\ r \in failed)

\* detectPsinfo has one warning for every row it added, and none for another,
\* whatever statement of the batch failed and however often it was asked again.
WarnedOnce ==
  op = "watch" =>
    \A r \in Row : table[Warning(r)] = IF table[<<Of, r>>] = 1 THEN 1 ELSE 0

\* The calls come to an end, and the endless threads classify every row there
\* is or will be, unless an exception ends them.  This does not hold of training
\* data of exactly one row, which the model leaves out.
RowsGetClassified ==
  /\ (op \notin Endless) ~> (pc \in {"done", "dead"})
  /\ \A r \in Row : (op \in Endless /\ table[<<Of, r>>] = 0)
                      ~> (table[<<Of, r>>] # 0 \/ pc = "dead")

=============================================================================
