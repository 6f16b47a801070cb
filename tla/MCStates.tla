------------------------------ MODULE MCStates ------------------------------
(***************************************************************************)
(* The scoring of rows in the database, on small instances: the state      *)
(* detector while it runs (StateDetect), and the commands that work on     *)
(* stored rows (Training).  They share no state: `on' says which one runs, *)
(* the other rests.                                                        *)
(***************************************************************************)
EXTENDS StateDetect
CONSTANTS Stored, First, Stages, Last, MaxFaults
VARIABLES on, op, stage, pc, fetched, stored, unsaved, failed, faults
Train == INSTANCE Training
           WITH Row <- Stored, Limit <- Stages, MaxErrors <- MaxFaults, batch <- fetched,
                table <- stored, pending <- unsaved, errors <- faults
ASSUME TrainAssumption == Train!TrainingAssumption
training == <<op, stage, pc, fetched, stored, unsaved, failed, faults>>
TwoStages == <<3, 4>>

\* A command that has classified everything.
Trained ==
  /\ op = "trainmode" /\ stage = 1 /\ pc = "done" /\ fetched = {}
  /\ stored = [key \in {"testset", "warning"} \X Stored |-> IF key[1] = "testset" THEN 2 ELSE 0]
  /\ unsaved = NoWrites /\ failed = {} /\ faults = 0
MCInit ==
  /\ on \in {"state", "train"}
  /\ Init
  /\ IF on = "train" THEN anomalous = {} /\ \A f \in Factors : state_f <= f
     ELSE anomalous = IF state_f = 0 THEN Row ELSE High
  /\ IF on = "train" THEN Train!Init ELSE Trained
MCNext ==
  \/ on = "state" /\ Next /\ UNCHANGED <<on, training>>
  \/ on = "train" /\ Train!Step /\ UNCHANGED <<on, vars>>
\* At rest no thread runs and no command has a step to make.
MCSpec == MCInit /\ [][MCNext]_<<on, vars, training>> /\ Fairness /\ Train!Fairness

\* Training's: a command that ends has classified every row its calls selected,
\* but for those whose own statement failed under a classifier that asks once.
EndsClassified == Train!EndsClassified

\* Training's: detectPsinfo has one warning for every row it added, and no other.
WarnedOnce == Train!WarnedOnce

\* Training's: the commands end, and detectPsinfo classifies what is inserted,
\* unless an exception ends them, given that the training data are not exactly
\* one row, with which getk_distance never returns.
RowsGetClassified == Train!RowsGetClassified
=============================================================================
