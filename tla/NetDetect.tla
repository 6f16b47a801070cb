----------------------------- MODULE NetDetect -----------------------------
(***************************************************************************)
(* start_net_detect.py and stop_net_detect.py for one domain.  A start has *)
(* two threads, start_ip and start_tcp, each with a connection of its own  *)
(* to the table event of Snort (DBSnort.py) and to the table warning       *)
(* (DBHelper.py), and a queue through which start_tcp tells start_ip how   *)
(* many events it has handled.  Every statement commits at once.           *)
(*                                                                         *)
(* The threads end by the file .netdetect, which is empty between its open *)
(* and its close.  Events are from or to the domain, and not ten hours old.*)
(***************************************************************************)
EXTENDS Integers, Sequences, FiniteSets

CONSTANTS
  Run,          \* runs of start_net_detect.py
  Event, Tcp,   \* the events Snort ever adds, and those with a row in tcphdr
  Limit,        \* the least of net_p, net_m and net_c, in units of net_f
  MaxStops,     \* writes of 0 to .netdetect (bound)
  MaxErrors     \* statements that fail (bound)

ASSUME NetAssumption == {Limit, MaxStops, MaxErrors} \subseteq Nat /\ Tcp \subseteq Event

VARIABLES
  netdetect, starter, stops,
  pc, todo, cur,  \* of each thread: where it is, its ipeventdata, the event it is at
  i,              \* start_tcp's i, start_ip's factortotal in units of net_f
  in_q,
  event,          \* the events and their state
  warned,         \* what each thread has inserted in the table warning,
  lost,           \* and what it failed to insert
  net_factor, errors

Thread == Run \X {"ip", "tcp"}
threads == <<pc, todo, cur>>
vars == <<netdetect, starter, stops, threads, i, in_q, event, warned, lost, net_factor, errors>>

Quiet == {"off", "done", "dead"}
NoEvent == "none"

Init ==
  /\ netdetect = "0" /\ starter = [r \in Run |-> "read"] /\ stops = [runs |-> 0, open |-> FALSE]
  /\ pc = [t \in Thread |-> "off"] /\ todo = [t \in Thread |-> {}]
  /\ cur = [t \in Thread |-> NoEvent] /\ i = [t \in Thread |-> 0]
  /\ in_q = [r \in Run |-> <<>>]
  /\ event = [e \in Event |-> "none"]
  /\ warned = {} /\ lost = {} /\ net_factor = 0 /\ errors = 0

Go(t, where) == pc' = [pc EXCEPT ![t] = where]
Fails == errors < MaxErrors /\ errors' = errors + 1

(***************************************************************************)
(* The programs, and Snort.                                                *)
(***************************************************************************)
Start(r) ==
  /\ starter[r] = "read"
  /\ starter' = [starter EXCEPT ![r] = CASE netdetect = ""  -> "dead"
                                         [] netdetect = "0" -> "open"
                                         [] OTHER           -> "done"]
  /\ UNCHANGED <<netdetect, stops, threads, i, in_q, event, warned, lost, net_factor, errors>>

StartOpens(r) ==
  /\ starter[r] = "open" /\ starter' = [starter EXCEPT ![r] = "write"]
  /\ netdetect' = ""
  /\ UNCHANGED <<stops, threads, i, in_q, event, warned, lost, net_factor, errors>>

start_net(r) ==
  /\ starter[r] = "write" /\ starter' = [starter EXCEPT ![r] = "done"]
  /\ netdetect' = "1"
  /\ pc' = [pc EXCEPT ![<<r, "ip">>] = "start", ![<<r, "tcp">>] = "query"]
  /\ UNCHANGED <<stops, todo, cur, i, in_q, event, warned, lost, net_factor, errors>>

\* stop_net_detect.py, and responsevm of the other detectors.
StopOpens ==
  /\ ~stops.open /\ stops.runs < MaxStops
  /\ stops' = [runs |-> stops.runs + 1, open |-> TRUE] /\ netdetect' = ""
  /\ UNCHANGED <<starter, threads, i, in_q, event, warned, lost, net_factor, errors>>

StopWrites ==
  /\ stops.open /\ stops' = [stops EXCEPT !.open = FALSE] /\ netdetect' = "0"
  /\ UNCHANGED <<starter, threads, i, in_q, event, warned, lost, net_factor, errors>>

SnortAdds(e) ==
  /\ event[e] = "none" /\ event' = [event EXCEPT ![e] = "0"]
  /\ UNCHANGED <<netdetect, starter, stops, threads, i, in_q, warned, lost, net_factor, errors>>

(***************************************************************************)
(* What both threads do.                                                   *)
(***************************************************************************)
\* start_ip first reads its limits, and ends without a row of them.
Limits(t) ==
  /\ pc[t] = "start"
  /\ (Go(t, "query") /\ UNCHANGED errors) \/ (Go(t, "dead") /\ Fails)
  /\ UNCHANGED <<netdetect, starter, stops, todo, cur, i, in_q, event, warned, lost, net_factor>>

\* Mutant of Rows: the events of tcphdr are left out by both.
RowsOfIp(t) == {e \in Event \ Tcp : event[e] = "0"}

Rows(t) == {e \in Event : event[e] = "0" /\ (e \in Tcp <=> t[2] = "tcp")}

\* A select that fails raises an exception, as does the walk of the guest's
\* processes that start_tcp makes when there are rows.
Query(t) ==
  /\ pc[t] = "query"
  /\ \/ todo' = [todo EXCEPT ![t] = Rows(t)] /\ Go(t, "event") /\ UNCHANGED errors
     \/ Go(t, "dead") /\ Fails /\ UNCHANGED todo
  /\ UNCHANGED <<netdetect, starter, stops, cur, i, in_q, event, warned, lost, net_factor>>

\* The event is counted and warned of; DBHelper hides it when the insert fails.
Warn(t, e) ==
  /\ pc[t] = "event" /\ e \in todo[t]
  /\ i' = [i EXCEPT ![t] = @ + 1]
  /\ \/ warned' = warned \union {<<t, e>>} /\ UNCHANGED <<lost, errors>>
     \/ lost' = lost \union {<<t, e>>} /\ Fails /\ UNCHANGED warned
  /\ cur' = [cur EXCEPT ![t] = e] /\ todo' = [todo EXCEPT ![t] = @ \ {e}] /\ Go(t, "mark")
  /\ UNCHANGED <<netdetect, starter, stops, in_q, event, net_factor>>

\* DBSnort, unlike DBHelper, returns an unbound name when the update fails.
Mark(t) ==
  /\ pc[t] = "mark" /\ cur' = [cur EXCEPT ![t] = NoEvent]
  /\ \/ event' = [event EXCEPT ![cur[t]] = "1"] /\ Go(t, "event") /\ UNCHANGED errors
     \/ Go(t, "dead") /\ Fails /\ UNCHANGED event
  /\ UNCHANGED <<netdetect, starter, stops, todo, i, in_q, warned, lost, net_factor>>

(***************************************************************************)
(* The end of a turn.                                                      *)
(***************************************************************************)
\* The next turn counts from 0 again.  A 0 in the queue adds nothing, and is
\* left out: with start_ip gone the queue grows without end.
Put(r) ==
  LET t == <<r, "tcp">> IN
  /\ pc[t] = "event" /\ todo[t] = {} /\ Go(t, "poll")
  /\ in_q' = IF i[t] = 0 THEN in_q ELSE [in_q EXCEPT ![r] = Append(@, i[t])]
  /\ i' = [i EXCEPT ![t] = 0]
  /\ UNCHANGED <<netdetect, starter, stops, todo, cur, event, warned, lost, net_factor, errors>>

\* Mutant of Get: what start_tcp says replaces what it said before.
GetLast(r) ==
  LET t == <<r, "ip">> IN
  /\ pc[t] = "event" /\ todo[t] = {} /\ in_q[r] # <<>>
  /\ i' = [i EXCEPT ![t] = @ + in_q[r][Len(in_q[r])]] /\ in_q' = [in_q EXCEPT ![r] = <<>>]
  /\ UNCHANGED <<netdetect, starter, stops, threads, event, warned, lost, net_factor, errors>>

Get(r) ==
  LET t == <<r, "ip">> IN
  /\ pc[t] = "event" /\ todo[t] = {} /\ in_q[r] # <<>>
  /\ i' = [i EXCEPT ![t] = @ + Head(in_q[r])] /\ in_q' = [in_q EXCEPT ![r] = Tail(@)]
  /\ UNCHANGED <<netdetect, starter, stops, threads, event, warned, lost, net_factor, errors>>

\* responsevm is not imported: above a limit the thread ends by a NameError.
StoreFactor(r) ==
  LET t == <<r, "ip">> IN
  /\ pc[t] = "event" /\ todo[t] = {} /\ in_q[r] = <<>>
  /\ (net_factor' = i[t] /\ UNCHANGED errors) \/ (Fails /\ UNCHANGED net_factor)
  /\ Go(t, IF i[t] > Limit THEN "dead" ELSE "poll")
  /\ UNCHANGED <<netdetect, starter, stops, todo, cur, i, in_q, event, warned, lost>>

\* Mutant of Poll: start_tcp alone looks for a 0.
PollTcp(t) ==
  /\ pc[t] = "poll"
  /\ Go(t, CASE netdetect = "" -> "dead" [] netdetect = "0" /\ t[2] = "tcp" -> "done" [] OTHER -> "query")
  /\ UNCHANGED <<netdetect, starter, stops, todo, cur, i, in_q, event, warned, lost, net_factor, errors>>

Poll(t) ==
  /\ pc[t] = "poll"
  /\ Go(t, CASE netdetect = "" -> "dead" [] netdetect = "0" -> "done" [] OTHER -> "query")
  /\ IF netdetect = "0" /\ t[2] = "ip"
     THEN (net_factor' = 0 /\ UNCHANGED errors) \/ (Fails /\ UNCHANGED net_factor)
     ELSE UNCHANGED <<net_factor, errors>>
  /\ UNCHANGED <<netdetect, starter, stops, todo, cur, i, in_q, event, warned, lost>>

Turn(t) == Limits(t) \/ Query(t) \/ (\E e \in Event : Warn(t, e)) \/ Mark(t) \/ Poll(t)
start_tcp(r) == Turn(<<r, "tcp">>) \/ Put(r)
start_ip(r) == Turn(<<r, "ip">>) \/ Get(r) \/ StoreFactor(r)

Next ==
  \/ \E r \in Run : Start(r) \/ StartOpens(r) \/ start_net(r) \/ start_ip(r) \/ start_tcp(r)
  \/ \E e \in Event : SnortAdds(e)
  \/ StopOpens \/ StopWrites

Spec == Init /\ [][Next]_vars

\* Threads run and a file that was opened is written; nothing else must happen.
Fairness ==
  /\ \A r \in Run : WF_vars(StartOpens(r) \/ start_net(r)) /\ WF_vars(start_ip(r)) /\ WF_vars(start_tcp(r))
  /\ WF_vars(StopWrites)

FairSpec == Spec /\ Fairness

-----------------------------------------------------------------------------
\* One element for each event that the numbers in a queue speak of.
Told(q) == UNION {{k} \X (1 .. q[k]) : k \in DOMAIN q}
Handled(r) == {x \in warned \union lost : x[1][1] = r}

\* start_ip's sum, what waits in the queue and what start_tcp counts now add up
\* to the events the run has handled: none is counted twice, or forgotten
\* between the threads.
FactorCountsWarnings ==
  \A r \in Run :
    i[<<r, "ip">>] + Cardinality(Told(in_q[r])) + i[<<r, "tcp">>] = Cardinality(Handled(r))

\* An event that is marked, so that nobody looks at it again, has been warned
\* of, whatever failed in between, unless the warning itself could not be
\* inserted.
MarkedWasWarned ==
  \A e \in Event : event[e] = "1" => \E t \in Thread : <<t, e>> \in warned \union lost

\* The two accounts of one event that its steps must keep together.
CountedAndWarned == FactorCountsWarnings /\ MarkedWasWarned

\* Every event is marked in the end, or no detector of its kind is left.
EventsHandled ==
  \A e \in Event :
    event[e] = "0" ~> (event[e] = "1" \/ \A t \in Thread : (e \in Tcp <=> t[2] = "tcp") => pc[t] \in Quiet)

\* A stop that no start overwrites ends both threads of every run, and leaves
\* no net_factor behind unless a start_ip died or a statement failed.
NetStops ==
  <>[](netdetect = "0") =>
    <>[](/\ \A t \in Thread : pc[t] \in Quiet
         /\ errors = 0 /\ (\A r \in Run : pc[<<r, "ip">>] # "dead") => net_factor = 0)
=============================================================================
