---------------------------- MODULE EventsProofs ----------------------------
(***************************************************************************)
(* Proofs about the two programs that warn of network events.              *)
(***************************************************************************)
EXTENDS MCEvents, FiniteSetTheorems, TLAPS

-----------------------------------------------------------------------------
(***************************************************************************)
(* read_snort_sql.py.                                                      *)
(***************************************************************************)
\* Every event of a guest up to the cid n, but for those still to be looked at.
Seen(n, left) == \A c \in Guests : c <= n => warnings[c] > 0 \/ c \in unsaved \/ c \in left

\* Neither mark is ahead of the events there are.
Marks ==
  /\ added \in 0 .. LastCid /\ snort_sql \in -1 .. added /\ sqlcid \in -1 .. added
  /\ snortpc \in {"off", "query", "row", "write", "dead"}
  /\ warnings \in [Snort!Cid -> Nat]

\* In the middle of a query's rows, which come in any order, the mark of the
\* row in hand says nothing yet: all events up to some m have been looked at
\* but for the rows that are left.
Looked ==
  /\ snortpc \in {"query", "write"} => Seen(sqlcid, {})
  /\ snortpc = "row" => \E m \in -1 .. added : sqlcid <= m /\ rows \subseteq 1 .. m /\ Seen(m, rows)

\* The invariant of read_snort_sql.py.
SInv == Marks /\ Looked /\ NothingSkipped

\* The file says -1 at first, and no event is there yet.
LEMMA InitSInv == Snort!SnortAssumption /\ Snort!Init => SInv
BY DEF Snort!SnortAssumption, Snort!Init, SInv, Marks, Looked, NothingSkipped, Snort!NothingSkipped, Seen, Snort!Cid

\* Every step of the program, of Snort and every kill keeps the invariant.
LEMMA NextSInv == Snort!SnortAssumption /\ SInv /\ [Snort!Next]_snort => SInv'
<1>. SUFFICES ASSUME Snort!SnortAssumption, SInv, [Snort!Next]_snort PROVE SInv'
  OBVIOUS
<1>. USE DEF SInv, Marks, Looked, NothingSkipped, Snort!NothingSkipped, Seen, Snort!Cid, Snort!SnortAssumption
<1>1. CASE Snort!SnortAdds
  <2>1. added < LastCid /\ added' = added + 1
        /\ UNCHANGED <<snort_sql, snortpc, sqlcid, rows, warnings, unsaved>>
    BY <1>1 DEF Snort!SnortAdds
  <2>2. \A m : m \in -1 .. added => m \in -1 .. added'
    BY <2>1
  <2>3. Marks'
    BY <2>1
  <2>4. Looked' /\ NothingSkipped'
    BY <2>1, <2>2
  <2>. QED BY <2>3, <2>4
<1>2. CASE Snort!main
  BY <1>2 DEF Snort!main
<1>3. CASE Snort!Query
  BY SMTT(20), <1>3 DEF Snort!Query, Snort!NoCid
<1>4. CASE Snort!get_event
  <2>1. PICK c \in rows :
          /\ snortpc = "row" /\ rows' = rows \ {c} /\ sqlcid' = c
          /\ \/ warnings' = (IF c \in Guests THEN [warnings EXCEPT ![c] = @ + 1] ELSE warnings) /\ unsaved' = unsaved
             \/ unsaved' = unsaved \union {c} /\ warnings' = warnings
          /\ UNCHANGED <<added, snort_sql, snortpc>>
    BY <1>4 DEF Snort!get_event
  <2>2. PICK m \in -1 .. added : sqlcid <= m /\ rows \subseteq 1 .. m /\ Seen(m, rows)
    BY <2>1
  <2>3. c \in 1 .. LastCid /\ c <= m /\ c \in -1 .. added /\ m \in Int
    BY <2>2
  <2>4. warnings' \in [Snort!Cid -> Nat]
    BY <2>1, <2>3
  <2>5. \A x \in Guests : warnings[x] > 0 \/ x \in unsaved => warnings'[x] > 0 \/ x \in unsaved'
    BY <2>1
  <2>6. c \in Guests => warnings'[c] > 0 \/ c \in unsaved'
    BY <2>1, <2>3
  <2>7. Marks'
    BY <2>1, <2>3, <2>4
  <2>8. NothingSkipped'
    BY <2>1, <2>5
  <2>9. Seen(m, rows)'
    BY <2>1, <2>2, <2>5, <2>6
  <2>10. Looked'
    BY <2>1, <2>2, <2>3, <2>9
  <2>. QED BY <2>7, <2>8, <2>10
<1>5. CASE Snort!write_sql_cid
  BY <1>5 DEF Snort!write_sql_cid, Snort!NoCid
<1>6. CASE Snort!Crash
  BY <1>6 DEF Snort!Crash
<1>7. CASE UNCHANGED snort
  BY <1>7 DEF snort
<1>. QED BY <1>1, <1>2, <1>3, <1>4, <1>5, <1>6, <1>7 DEF Snort!Next, Snort!Step

\* For any events, guests and kills, in whatever order rows come: what the file
\* says has been looked at has been warned of, or its insert failed.
THEOREM NothingIsSkipped == Snort!Spec => []NothingSkipped
<1>1. Snort!Init => SInv
  BY SnortAssumed, InitSInv
<1>2. SInv /\ [Snort!Next]_snort => SInv'
  BY SnortAssumed, NextSInv
<1>3. SInv => NothingSkipped
  BY DEF SInv
<1>. QED BY <1>1, <1>2, <1>3, PTL DEF Snort!Spec, Snort!vars, snort

-----------------------------------------------------------------------------
(***************************************************************************)
(* start_net_detect.py.  First the queue: what a number put in it adds to  *)
(* what it tells of, and what the one taken out takes along.               *)
(***************************************************************************)
\* An empty queue tells of nothing.
LEMMA ToldNothing == Told(<<>>) = {} /\ IsFiniteSet(Told(<<>>)) /\ Cardinality(Told(<<>>)) = 0
BY FS_EmptySet DEF Told

\* A number tells of as many events as it says.
LEMMA Part ==
  ASSUME NEW k, NEW n \in Nat
  PROVE  IsFiniteSet({k} \X (1 .. n)) /\ Cardinality({k} \X (1 .. n)) = n
<1>1. IsFiniteSet({k}) /\ Cardinality({k}) = 1
  BY FS_Singleton
<1>2. IsFiniteSet(1 .. n) /\ Cardinality(1 .. n) = n
  BY FS_Interval
<1>3. IsFiniteSet({k} \X (1 .. n)) /\ Cardinality({k} \X (1 .. n)) = Cardinality({k}) * Cardinality(1 .. n)
  BY <1>1, <1>2, FS_Product
<1>. QED BY <1>1, <1>2, <1>3

\* What is put in the queue is added to what it tells.
LEMMA ToldAppend ==
  ASSUME NEW q \in Seq(Nat), NEW n \in Nat, IsFiniteSet(Told(q))
  PROVE  /\ IsFiniteSet(Told(Append(q, n)))
         /\ Cardinality(Told(Append(q, n))) = Cardinality(Told(q)) + n
<1>. DEFINE P == {Len(q) + 1} \X (1 .. n)
<1>1. DOMAIN Append(q, n) = (1 .. Len(q)) \union {Len(q) + 1} /\ DOMAIN q = 1 .. Len(q) /\ Len(q) \in Nat
      /\ \A k \in 1 .. Len(q) : Append(q, n)[k] = q[k]
      /\ Append(q, n)[Len(q) + 1] = n
  OBVIOUS
<1>2. Told(Append(q, n)) = Told(q) \union P
  BY <1>1 DEF Told
<1>3. Told(q) \cap P = {}
  BY <1>1 DEF Told
<1>4. IsFiniteSet(P) /\ Cardinality(P) = n
  BY Part
<1>. HIDE DEF P
<1>5. Cardinality(Told(q) \cap P) = 0 /\ Cardinality(Told(q)) \in Nat
  BY <1>3, FS_EmptySet, FS_CardinalityType
<1>6. IsFiniteSet(Told(q) \union P)
      /\ Cardinality(Told(q) \union P) = Cardinality(Told(q)) + Cardinality(P) - Cardinality(Told(q) \cap P)
  BY <1>4, FS_Union
<1>. QED BY <1>2, <1>4, <1>5, <1>6

\* What is taken out is what the queue tells no more: the others only move up.
LEMMA ToldTail ==
  ASSUME NEW q \in Seq(Nat), q # <<>>, IsFiniteSet(Told(q))
  PROVE  /\ IsFiniteSet(Told(Tail(q)))
         /\ Cardinality(Told(q)) = Head(q) + Cardinality(Told(Tail(q)))
<1>. DEFINE P == {1} \X (1 .. q[1])
            R == Told(q) \ P
            f == [x \in R |-> <<x[1] - 1, x[2]>>]
<1>0. q[1] \in Nat /\ Head(q) = q[1] /\ Len(q) \in Nat \ {0}
  OBVIOUS
<1>1. DOMAIN q = 1 .. Len(q) /\ DOMAIN Tail(q) = 1 .. (Len(q) - 1)
      /\ \A k \in 1 .. (Len(q) - 1) : Tail(q)[k] = q[k + 1]
  OBVIOUS
<1>2. ASSUME NEW x \in R PROVE x[1] \in 2 .. Len(q) /\ x[2] \in 1 .. q[x[1]] /\ x = <<x[1], x[2]>>
  BY <1>0, <1>1 DEF Told
<1>3. ASSUME NEW y \in Told(Tail(q))
      PROVE  y[1] \in 1 .. (Len(q) - 1) /\ y[2] \in 1 .. q[y[1] + 1] /\ y = <<y[1], y[2]>>
  BY <1>1 DEF Told
<1>4. \A k \in 1 .. (Len(q) - 1) : \A n \in 1 .. q[k + 1] : <<k, n>> \in Told(Tail(q))
  BY <1>1 DEF Told
<1>5. \A k \in 2 .. Len(q) : \A n \in 1 .. q[k] : <<k, n>> \in R
  <2>1. ASSUME NEW k \in 2 .. Len(q), NEW n \in 1 .. q[k] PROVE <<k, n>> \in Told(q)
    <3>1. k \in DOMAIN q /\ <<k, n>> \in {k} \X (1 .. q[k])
      BY <1>0, <1>1
    <3>. QED BY <3>1 DEF Told
  <2>2. ASSUME NEW k \in 2 .. Len(q), NEW n PROVE <<k, n>> \notin P
    BY <1>0
  <2>. QED BY <2>1, <2>2
<1>6. P \subseteq Told(q) /\ IsFiniteSet(P) /\ Cardinality(P) = q[1]
  <2>1. 1 \in DOMAIN q
    BY <1>0, <1>1
  <2>2. P \subseteq Told(q)
    BY <2>1 DEF Told
  <2>. QED BY <1>0, <2>2, Part
<1>7. IsFiniteSet(R) /\ Cardinality(R) = Cardinality(Told(q)) - q[1]
  <2>. HIDE DEF P
  <2>1. Told(q) \cap P = P
    BY <1>6
  <2>2. IsFiniteSet(Told(q) \ P)
        /\ Cardinality(Told(q) \ P) = Cardinality(Told(q)) - Cardinality(Told(q) \cap P)
    BY FS_Difference
  <2>. QED BY <1>6, <2>1, <2>2
<1>. HIDE DEF R
<1>8. f \in [R -> Told(Tail(q))]
  <2>. SUFFICES ASSUME NEW x \in R PROVE <<x[1] - 1, x[2]>> \in Told(Tail(q))
    OBVIOUS
  <2>1. x[1] - 1 \in 1 .. (Len(q) - 1) /\ x[2] \in 1 .. q[(x[1] - 1) + 1]
    BY <1>0, <1>2
  <2>. QED BY <1>4, <2>1
<1>9. ASSUME NEW x \in R, NEW y \in R, f[x] = f[y] PROVE x = y
  <2>1. x[1] - 1 = y[1] - 1 /\ x[2] = y[2]
    BY <1>9
  <2>2. x[1] \in Int /\ y[1] \in Int
    BY <1>2
  <2>3. x[1] = y[1]
    BY <2>1, <2>2
  <2>. QED BY <1>2, <2>1, <2>3
<1>10. ASSUME NEW y \in Told(Tail(q)) PROVE \E x \in R : f[x] = y
  <2>. DEFINE x == <<y[1] + 1, y[2]>>
  <2>1. y[1] + 1 \in 2 .. Len(q) /\ y[2] \in 1 .. q[y[1] + 1] /\ (y[1] + 1) - 1 = y[1]
    <3>1. y[1] \in 1 .. (Len(q) - 1) /\ y[2] \in 1 .. q[y[1] + 1]
      BY <1>3
    <3>2. y[1] + 1 \in 2 .. Len(q) /\ (y[1] + 1) - 1 = y[1]
      BY SMTT(20), <1>0, <3>1
    <3>. QED BY <3>1, <3>2
  <2>2. x \in R
    BY <1>5, <2>1
  <2>3. f[x] = <<x[1] - 1, x[2]>>
    BY <2>2
  <2>4. x[1] - 1 = y[1] /\ x[2] = y[2] /\ y = <<y[1], y[2]>>
    BY <1>3, <2>1
  <2>. HIDE DEF x, f
  <2>5. f[x] = y
    BY <2>3, <2>4
  <2>. QED BY <2>2, <2>5
<1>11. ExistsBijection(R, Told(Tail(q)))
  <2>. HIDE DEF f
  <2>1. f \in Bijection(R, Told(Tail(q)))
    BY <1>8, <1>9, <1>10 DEF Bijection, Injection, Surjection, IsInjective
  <2>. QED BY <2>1 DEF ExistsBijection
<1>12. IsFiniteSet(Told(Tail(q))) /\ Cardinality(Told(Tail(q))) = Cardinality(R)
  BY <1>7, <1>11, FS_Bijection
<1>13. Cardinality(R) \in Nat /\ Cardinality(Told(q)) \in Nat
  BY <1>7, FS_CardinalityType
<1>. QED BY <1>0, <1>7, <1>12, <1>13

-----------------------------------------------------------------------------
(***************************************************************************)
(* What a thread has handled.                                              *)
(***************************************************************************)
\* Where a thread can be.
Live == {"off", "start", "query", "event", "mark", "poll", "done", "dead"}

\* Where threads are, and no thread runs before its program starts it.
Typed ==
  /\ starter \in [Run -> {"read", "open", "write", "done", "dead"}]
  /\ pc \in [Thread -> Live] /\ todo \in [Thread -> SUBSET Event]
  /\ cur \in [Thread -> Event \union {NoEvent}]
  /\ i \in [Thread -> Nat] /\ in_q \in [Run -> Seq(Nat)]
  /\ event \in [Event -> {"none", "0", "1"}]
  /\ warned \subseteq Thread \X Event /\ lost \subseteq Thread \X Event
  /\ \A r \in Run : starter[r] \in {"read", "open", "write"} =>
        pc[<<r, "ip">>] = "off" /\ pc[<<r, "tcp">>] = "off"

\* The event in a thread's hand has been warned of.
InHand ==
  \A t \in Thread : pc[t] = "mark" => cur[t] \in Event /\ <<t, cur[t]>> \in warned \union lost

\* An event that a thread has handled is marked, but for the one in its hand,
\* and the one that a dead thread held.
Marked ==
  \A t \in Thread, e \in Event :
    <<t, e>> \in warned \union lost =>
      event[e] # "none" /\ (event[e] = "1" \/ pc[t] = "dead" \/ (pc[t] = "mark" /\ cur[t] = e))

\* What a thread has still to do, it has not handled.
Fresh ==
  \A t \in Thread, e \in Event :
    e \in todo[t] /\ pc[t] # "dead" => <<t, e>> \notin warned \union lost /\ event[e] # "none"

Once == InHand /\ Marked /\ Fresh

\* What is counted is finite.
Finite == IsFiniteSet(warned \union lost) /\ \A r \in Run : IsFiniteSet(Told(in_q[r]))

\* The invariant of start_net_detect.py.
NInv == Typed /\ Once /\ Finite /\ MarkedWasWarned /\ FactorCountsWarnings

\* No thread runs at first, and nothing is counted.
LEMMA InitNInv == Init => NInv
<1>. SUFFICES ASSUME Init PROVE NInv
  OBVIOUS
<1>1. Typed
  BY DEF Init, Typed, Live, Thread
<1>2. Once /\ MarkedWasWarned
  BY DEF Init, Once, InHand, Marked, Fresh, MarkedWasWarned
<1>3. Finite
  BY ToldNothing, FS_EmptySet DEF Init, Finite
<1>4. FactorCountsWarnings
  <2>. SUFFICES ASSUME NEW r \in Run
                PROVE  i[<<r, "ip">>] + Cardinality(Told(in_q[r])) + i[<<r, "tcp">>] = Cardinality(Handled(r))
    BY DEF FactorCountsWarnings
  <2>1. i[<<r, "ip">>] = 0 /\ i[<<r, "tcp">>] = 0 /\ in_q[r] = <<>> /\ Handled(r) = {}
    BY DEF Init, Thread, Handled
  <2>. QED BY <2>1, ToldNothing, FS_EmptySet
<1>. QED BY <1>1, <1>2, <1>3, <1>4 DEF NInv

\* A step that leaves the counts and the warnings alone leaves the sum right.
LEMMA SumStays ==
  ASSUME NInv, UNCHANGED <<i, in_q, warned, lost>>
  PROVE  Finite' /\ FactorCountsWarnings'
BY DEF NInv, Finite, FactorCountsWarnings, Handled

\* So do the turns that neither warn nor hand a number on.
LEMMA TurnKeeps ==
  ASSUME NInv, NEW t \in Thread, Limits(t) \/ Query(t) \/ Mark(t) \/ Poll(t)
  PROVE  NInv'
<1>0. UNCHANGED <<i, in_q, warned, lost, starter>>
  BY DEF Limits, Query, Mark, Poll
<1>1. /\ \E where \in Live : pc' = [pc EXCEPT ![t] = where]
      /\ pc[t] \in {"start", "query", "mark", "poll"}
  BY DEF Limits, Query, Mark, Poll, Go, Live
<1>2. \A s \in Thread : s # t => pc'[s] = pc[s]
  BY <1>1 DEF NInv, Typed
<1>3. Finite' /\ FactorCountsWarnings'
  BY <1>0, SumStays
<1>4. todo' \in [Thread -> SUBSET Event] /\ cur' \in [Thread -> Event \union {NoEvent}]
      /\ event' \in [Event -> {"none", "0", "1"}]
  <2>1. CASE Limits(t) \/ Poll(t)
    BY <2>1 DEF NInv, Typed, Limits, Poll
  <2>2. CASE Query(t)
    <3>1. Rows(t) \subseteq Event
      BY DEF Rows
    <3>. QED BY <2>2, <3>1 DEF NInv, Typed, Query
  <2>3. CASE Mark(t)
    BY <2>3 DEF NInv, Typed, Mark
  <2>. QED BY <2>1, <2>2, <2>3
<1>5. Typed'
  <2>1. \A r \in Run : starter[r] \in {"read", "open", "write"} =>
          pc[<<r, "ip">>] = "off" /\ pc[<<r, "tcp">>] = "off"
    BY DEF NInv, Typed
  <2>2. \A r \in Run : <<r, "ip">> \in Thread /\ <<r, "tcp">> \in Thread
    BY DEF Thread
  <2>3. \A r \in Run : starter'[r] \in {"read", "open", "write"} =>
          pc'[<<r, "ip">>] = "off" /\ pc'[<<r, "tcp">>] = "off"
    BY <1>0, <1>1, <1>2, <2>1, <2>2
  <2>4. pc' \in [Thread -> Live]
    BY <1>1 DEF NInv, Typed
  <2>5. starter' \in [Run -> {"read", "open", "write", "done", "dead"}]
        /\ i' \in [Thread -> Nat] /\ in_q' \in [Run -> Seq(Nat)]
        /\ warned' \subseteq Thread \X Event /\ lost' \subseteq Thread \X Event
    BY <1>0 DEF NInv, Typed
  <2>. QED BY <1>4, <2>3, <2>4, <2>5 DEF Typed
<1>6. Once' /\ MarkedWasWarned'
  <2>1. CASE Limits(t) \/ Poll(t)
    <3>1. UNCHANGED <<todo, cur, event>> /\ pc'[t] \notin {"mark"} /\ pc[t] \in {"start", "poll"}
      BY <2>1 DEF Limits, Poll, Go, NInv, Typed
    <3>. QED BY <1>0, <1>2, <3>1 DEF NInv, Once, InHand, Marked, Fresh, MarkedWasWarned
  <2>2. CASE Query(t)
    <3>1. /\ UNCHANGED <<cur, event>> /\ pc'[t] \in {"event", "dead"} /\ pc[t] = "query"
          /\ \A s \in Thread : s # t => todo'[s] = todo[s]
          /\ pc'[t] = "event" => todo'[t] = Rows(t)
      BY <2>2 DEF Query, Go, NInv, Typed
    <3>2. \A e \in Rows(t) : e \in Event /\ event[e] = "0"
      BY DEF Rows
    <3>3. \A e \in Rows(t) : <<t, e>> \notin warned \union lost
      BY <3>1, <3>2 DEF NInv, Once, Marked
    <3>4. InHand' /\ MarkedWasWarned'
      BY <1>0, <1>2, <3>1 DEF NInv, Once, InHand, MarkedWasWarned
    <3>5. Marked'
      BY <1>0, <1>2, <3>1 DEF NInv, Once, Marked
    <3>6. Fresh'
      BY <1>0, <1>2, <3>1, <3>2, <3>3 DEF NInv, Once, Fresh
    <3>. QED BY <3>4, <3>5, <3>6 DEF Once
  <2>3. CASE Mark(t)
    <3>1. /\ todo' = todo /\ pc[t] = "mark"
          /\ \A s \in Thread : s # t => cur'[s] = cur[s]
          /\ \/ event' = [event EXCEPT ![cur[t]] = "1"] /\ pc'[t] = "event"
             \/ event' = event /\ pc'[t] = "dead"
      BY <2>3 DEF Mark, Go, NInv, Typed
    <3>2. cur[t] \in Event /\ <<t, cur[t]>> \in warned \union lost
      BY <3>1 DEF NInv, Once, InHand
    <3>3. \A e \in Event : event'[e] = event[e] \/ (e = cur[t] /\ event'[e] = "1")
      BY <3>1, <3>2 DEF NInv, Typed
    <3>4. pc'[t] = "event" => event'[cur[t]] = "1"
      BY <3>1, <3>2 DEF NInv, Typed
    <3>5. MarkedWasWarned'
      BY <1>0, <3>2, <3>3 DEF NInv, MarkedWasWarned
    <3>6. InHand'
      BY <1>0, <1>2, <3>1 DEF NInv, Once, InHand
    <3>7. Marked'
      BY <1>0, <1>2, <3>1, <3>2, <3>3, <3>4 DEF NInv, Once, Marked
    <3>8. Fresh'
      BY <1>0, <1>2, <3>1, <3>3 DEF NInv, Once, Fresh
    <3>. QED BY <3>5, <3>6, <3>7, <3>8 DEF Once
  <2>. QED BY <2>1, <2>2, <2>3
<1>. QED BY <1>3, <1>5, <1>6 DEF NInv

\* A warning is of an event that the thread has not handled yet, and is the
\* one that is counted.
LEMMA WarnKeeps == ASSUME NInv, NEW t \in Thread, NEW e \in Event, Warn(t, e) PROVE NInv'
<1>1. /\ pc[t] = "event" /\ e \in todo[t] /\ i' = [i EXCEPT ![t] = @ + 1]
      /\ cur' = [cur EXCEPT ![t] = e] /\ todo' = [todo EXCEPT ![t] = @ \ {e}] /\ pc' = [pc EXCEPT ![t] = "mark"]
      /\ UNCHANGED <<starter, in_q, event>>
      /\ \/ warned' = warned \union {<<t, e>>} /\ lost' = lost
         \/ lost' = lost \union {<<t, e>>} /\ warned' = warned
  BY DEF Warn, Go
<1>2. <<t, e>> \notin warned \union lost /\ event[e] # "none"
  BY <1>1 DEF NInv, Once, Fresh
<1>3. warned' \union lost' = (warned \union lost) \union {<<t, e>>}
  BY <1>1
<1>4. Typed'
  <2>1. /\ pc' \in [Thread -> Live] /\ todo' \in [Thread -> SUBSET Event]
        /\ cur' \in [Thread -> Event \union {NoEvent}] /\ i' \in [Thread -> Nat]
    BY <1>1 DEF NInv, Typed, Live
  <2>2. warned' \subseteq Thread \X Event /\ lost' \subseteq Thread \X Event
    BY <1>1 DEF NInv, Typed
  <2>3. \A r \in Run : starter'[r] \in {"read", "open", "write"} =>
          pc'[<<r, "ip">>] = "off" /\ pc'[<<r, "tcp">>] = "off"
    BY <1>1 DEF NInv, Typed, Thread
  <2>. QED BY <1>1, <2>1, <2>2, <2>3 DEF NInv, Typed
<1>5. Once'
  <2>1. \A s \in Thread : s # t => pc'[s] = pc[s] /\ cur'[s] = cur[s] /\ todo'[s] = todo[s]
    BY <1>1 DEF NInv, Typed
  <2>2. pc'[t] = "mark" /\ cur'[t] = e /\ todo'[t] = todo[t] \ {e}
    BY <1>1 DEF NInv, Typed
  <2>3. InHand'
    BY <1>1, <1>3, <2>1, <2>2 DEF NInv, Once, InHand
  <2>4. Marked'
    BY <1>1, <1>2, <1>3, <2>1, <2>2 DEF NInv, Once, Marked
  <2>5. Fresh'
    BY <1>1, <1>3, <2>1, <2>2 DEF NInv, Once, Fresh
  <2>. QED BY <2>3, <2>4, <2>5 DEF Once
<1>6. MarkedWasWarned'
  BY <1>1, <1>3 DEF NInv, MarkedWasWarned
<1>7. Finite'
  BY <1>1, <1>3, FS_AddElement DEF NInv, Finite
<1>8. FactorCountsWarnings'
  <2>. SUFFICES ASSUME NEW r \in Run
                PROVE  i'[<<r, "ip">>] + Cardinality(Told(in_q'[r])) + i'[<<r, "tcp">>] = Cardinality(Handled(r)')
    BY DEF FactorCountsWarnings
  <2>0. /\ <<r, "ip">> \in Thread /\ <<r, "tcp">> \in Thread /\ in_q'[r] = in_q[r]
        /\ i[<<r, "ip">>] \in Nat /\ i[<<r, "tcp">>] \in Nat /\ Cardinality(Told(in_q[r])) \in Nat
        /\ i[<<r, "ip">>] + Cardinality(Told(in_q[r])) + i[<<r, "tcp">>] = Cardinality(Handled(r))
    BY <1>1, FS_CardinalityType DEF NInv, Typed, Thread, Finite, FactorCountsWarnings
  <2>1. CASE t[1] = r
    <3>1. Handled(r)' = Handled(r) \union {<<t, e>>} /\ <<t, e>> \notin Handled(r)
      BY <1>2, <1>3, <2>1 DEF Handled
    <3>2. IsFiniteSet(Handled(r))
      <4>1. Handled(r) \in SUBSET (warned \union lost)
        BY DEF Handled
      <4>. QED BY <4>1, FS_Subset DEF NInv, Finite
    <3>3. Cardinality(Handled(r)') = Cardinality(Handled(r)) + 1
      BY <3>1, <3>2, FS_AddElement
    <3>4. t = <<r, "ip">> \/ t = <<r, "tcp">>
      BY <2>1 DEF Thread
    <3>5. \/ i'[<<r, "ip">>] = i[<<r, "ip">>] + 1 /\ i'[<<r, "tcp">>] = i[<<r, "tcp">>]
          \/ i'[<<r, "ip">>] = i[<<r, "ip">>] /\ i'[<<r, "tcp">>] = i[<<r, "tcp">>] + 1
      <4>1. \A s \in Thread : i'[s] = IF s = t THEN i[t] + 1 ELSE i[s]
        BY <1>1 DEF NInv, Typed
      <4>2. <<r, "ip">> # <<r, "tcp">>
        OBVIOUS
      <4>. QED BY <2>0, <3>4, <4>1, <4>2
    <3>. QED BY <2>0, <3>3, <3>5
  <2>2. CASE t[1] # r
    <3>1. Handled(r)' = Handled(r)
      BY <1>3, <2>2 DEF Handled
    <3>2. i'[<<r, "ip">>] = i[<<r, "ip">>] /\ i'[<<r, "tcp">>] = i[<<r, "tcp">>]
      BY <1>1, <2>0, <2>2 DEF NInv, Typed
    <3>. QED BY <2>0, <3>1, <3>2
  <2>. QED BY <2>1, <2>2
<1>. QED BY <1>4, <1>5, <1>6, <1>7, <1>8 DEF NInv

\* What start_tcp puts in the queue, start_ip still has to take out.
LEMMA PutKeeps == ASSUME NInv, NEW r \in Run, Put(r) PROVE NInv'
<1>. DEFINE t == <<r, "tcp">>
<1>0. t \in Thread /\ \A s \in Run : <<s, "ip">> \in Thread /\ <<s, "tcp">> \in Thread
  BY DEF Thread
<1>1. /\ pc[t] = "event" /\ pc' = [pc EXCEPT ![t] = "poll"] /\ i' = [i EXCEPT ![t] = 0]
      /\ in_q' = IF i[t] = 0 THEN in_q ELSE [in_q EXCEPT ![r] = Append(@, i[t])]
      /\ UNCHANGED <<starter, todo, cur, event, warned, lost>>
  BY DEF Put, Go
<1>. HIDE DEF t
<1>2. /\ in_q[r] \in Seq(Nat) /\ i[t] \in Nat /\ IsFiniteSet(Told(in_q[r])) /\ Cardinality(Told(in_q[r])) \in Nat
  BY <1>0, FS_CardinalityType DEF NInv, Typed, Finite
<1>3. /\ \A s \in Run : s # r => in_q'[s] = in_q[s]
      /\ IsFiniteSet(Told(in_q'[r]))
      /\ Cardinality(Told(in_q'[r])) = Cardinality(Told(in_q[r])) + i[t]
  <2>1. CASE i[t] = 0
    BY <1>1, <1>2, <2>1
  <2>2. CASE i[t] # 0
    BY <1>1, <1>2, <2>2, ToldAppend DEF NInv, Typed
  <2>. QED BY <2>1, <2>2
<1>4. Typed'
  <2>1. pc' \in [Thread -> Live] /\ i' \in [Thread -> Nat]
    BY <1>1 DEF NInv, Typed, Live
  <2>3. in_q' \in [Run -> Seq(Nat)]
    <3>1. in_q[r] \in Seq(Nat) /\ Append(in_q[r], i[t]) \in Seq(Nat) /\ in_q \in [Run -> Seq(Nat)]
      BY <1>2 DEF NInv, Typed
    <3>. QED BY <1>1, <3>1
  <2>2. \A s \in Run : starter'[s] \in {"read", "open", "write"} =>
          pc'[<<s, "ip">>] = "off" /\ pc'[<<s, "tcp">>] = "off"
    BY <1>0, <1>1 DEF NInv, Typed
  <2>. QED BY <1>1, <2>1, <2>2, <2>3 DEF NInv, Typed
<1>5. Once' /\ MarkedWasWarned'
  <2>1. \A s \in Thread : pc'[s] = pc[s] \/ (s = t /\ pc'[s] = "poll")
    BY <1>1 DEF NInv, Typed
  <2>2. InHand' /\ MarkedWasWarned'
    BY <1>1, <2>1 DEF NInv, Once, InHand, MarkedWasWarned
  <2>3. Marked' /\ Fresh'
    BY <1>1, <2>1 DEF NInv, Once, Marked, Fresh
  <2>. QED BY <2>2, <2>3 DEF Once
<1>6. Finite'
  BY <1>1, <1>3 DEF NInv, Finite
<1>7. FactorCountsWarnings'
  <2>. SUFFICES ASSUME NEW s \in Run
                PROVE  i'[<<s, "ip">>] + Cardinality(Told(in_q'[s])) + i'[<<s, "tcp">>] = Cardinality(Handled(s)')
    BY DEF FactorCountsWarnings
  <2>1. /\ Handled(s)' = Handled(s) /\ i[<<s, "ip">>] \in Nat /\ i[<<s, "tcp">>] \in Nat
        /\ i[<<s, "ip">>] + Cardinality(Told(in_q[s])) + i[<<s, "tcp">>] = Cardinality(Handled(s))
    BY <1>0, <1>1 DEF NInv, Typed, FactorCountsWarnings, Handled
  <2>2. \A x \in Thread : i'[x] = IF x = t THEN 0 ELSE i[x]
    BY <1>1 DEF NInv, Typed
  <2>3. <<s, "ip">> # t /\ (<<s, "tcp">> = t <=> s = r)
    BY DEF t
  <2>4. CASE s = r
    <3>1. i'[<<s, "ip">>] = i[<<s, "ip">>] /\ i'[<<s, "tcp">>] = 0 /\ i[<<s, "tcp">>] = i[t]
      BY <1>0, <2>2, <2>3, <2>4
    <3>. QED BY <1>2, <1>3, <2>1, <2>4, <3>1
  <2>5. CASE s # r
    <3>1. i'[<<s, "ip">>] = i[<<s, "ip">>] /\ i'[<<s, "tcp">>] = i[<<s, "tcp">>]
      BY <1>0, <2>2, <2>3, <2>5
    <3>. QED BY <1>3, <2>1, <2>5, <3>1
  <2>. QED BY <2>4, <2>5
<1>. QED BY <1>4, <1>5, <1>6, <1>7 DEF NInv

\* What start_ip takes out of the queue, it adds to its sum.
LEMMA GetKeeps == ASSUME NInv, NEW r \in Run, Get(r) PROVE NInv'
<1>. DEFINE t == <<r, "ip">>
<1>0. t \in Thread /\ \A s \in Run : <<s, "ip">> \in Thread /\ <<s, "tcp">> \in Thread
  BY DEF Thread
<1>1. /\ in_q[r] # <<>> /\ i' = [i EXCEPT ![t] = @ + Head(in_q[r])] /\ in_q' = [in_q EXCEPT ![r] = Tail(@)]
      /\ UNCHANGED <<starter, pc, todo, cur, event, warned, lost>>
  BY DEF Get, threads
<1>. HIDE DEF t
<1>2. /\ in_q[r] \in Seq(Nat) /\ Head(in_q[r]) \in Nat /\ Tail(in_q[r]) \in Seq(Nat)
      /\ IsFiniteSet(Told(in_q[r])) /\ i[t] \in Nat
  BY <1>0, <1>1 DEF NInv, Typed, Finite
<1>3. /\ IsFiniteSet(Told(Tail(in_q[r]))) /\ Cardinality(Told(Tail(in_q[r]))) \in Nat
      /\ Cardinality(Told(in_q[r])) = Head(in_q[r]) + Cardinality(Told(Tail(in_q[r])))
  BY <1>1, <1>2, ToldTail, FS_CardinalityType
<1>4. \A s \in Run : in_q'[s] = IF s = r THEN Tail(in_q[r]) ELSE in_q[s]
  BY <1>1 DEF NInv, Typed
<1>5. Typed'
  <2>1. in_q' \in [Run -> Seq(Nat)]
    BY <1>1, <1>2 DEF NInv, Typed
  <2>2. i' \in [Thread -> Nat]
    <3>1. i[t] + Head(in_q[r]) \in Nat /\ i \in [Thread -> Nat]
      BY <1>2 DEF NInv, Typed
    <3>. QED BY <1>1, <3>1
  <2>. QED BY <1>1, <2>1, <2>2 DEF NInv, Typed
<1>6. Once' /\ MarkedWasWarned'
  BY <1>1 DEF NInv, Once, InHand, Marked, Fresh, MarkedWasWarned
<1>7. Finite'
  BY <1>1, <1>3, <1>4 DEF NInv, Finite
<1>8. FactorCountsWarnings'
  <2>. SUFFICES ASSUME NEW s \in Run
                PROVE  i'[<<s, "ip">>] + Cardinality(Told(in_q'[s])) + i'[<<s, "tcp">>] = Cardinality(Handled(s)')
    BY DEF FactorCountsWarnings
  <2>1. /\ Handled(s)' = Handled(s) /\ i[<<s, "ip">>] \in Nat /\ i[<<s, "tcp">>] \in Nat
        /\ i[<<s, "ip">>] + Cardinality(Told(in_q[s])) + i[<<s, "tcp">>] = Cardinality(Handled(s))
    BY <1>0, <1>1 DEF NInv, Typed, FactorCountsWarnings, Handled
  <2>2. \A x \in Thread : i'[x] = IF x = t THEN i[t] + Head(in_q[r]) ELSE i[x]
    BY <1>1 DEF NInv, Typed
  <2>3. <<s, "tcp">> # t /\ (<<s, "ip">> = t <=> s = r)
    BY DEF t
  <2>4. CASE s = r
    <3>1. i'[<<s, "ip">>] = i[<<s, "ip">>] + Head(in_q[r]) /\ i'[<<s, "tcp">>] = i[<<s, "tcp">>]
      BY <1>0, <2>2, <2>3, <2>4
    <3>. QED BY <1>2, <1>3, <1>4, <2>1, <2>4, <3>1
  <2>5. CASE s # r
    <3>1. i'[<<s, "ip">>] = i[<<s, "ip">>] /\ i'[<<s, "tcp">>] = i[<<s, "tcp">>]
      BY <1>0, <2>2, <2>3, <2>5
    <3>. QED BY <1>4, <2>1, <2>5, <3>1
  <2>. QED BY <2>4, <2>5
<1>. QED BY <1>5, <1>6, <1>7, <1>8 DEF NInv

\* Every step keeps the invariant.
LEMMA NextNInv == NInv /\ [Next]_vars => NInv'
<1>. SUFFICES ASSUME NInv, [Next]_vars PROVE NInv'
  OBVIOUS
<1>0. \A r \in Run : <<r, "ip">> \in Thread /\ <<r, "tcp">> \in Thread
  BY DEF Thread
<1>1. ASSUME NEW r \in Run, Start(r) \/ StartOpens(r) PROVE NInv'
  <2>1. UNCHANGED <<pc, todo, cur, i, in_q, event, warned, lost>>
        /\ \E to \in {"dead", "open", "write", "done"} : starter' = [starter EXCEPT ![r] = to]
        /\ starter[r] \in {"read", "open"}
    BY <1>1 DEF Start, StartOpens, threads
  <2>2. Typed'
    BY <2>1 DEF NInv, Typed
  <2>3. Once' /\ MarkedWasWarned'
    BY <2>1 DEF NInv, Once, InHand, Marked, Fresh, MarkedWasWarned
  <2>. QED BY <2>1, <2>2, <2>3, SumStays DEF NInv
<1>2. ASSUME NEW r \in Run, start_net(r) PROVE NInv'
  <2>1. UNCHANGED <<todo, cur, i, in_q, event, warned, lost>>
        /\ starter' = [starter EXCEPT ![r] = "done"]
        /\ pc' = [pc EXCEPT ![<<r, "ip">>] = "start", ![<<r, "tcp">>] = "query"]
        /\ pc[<<r, "ip">>] = "off" /\ pc[<<r, "tcp">>] = "off"
    BY <1>2 DEF start_net, NInv, Typed
  <2>2. Typed'
    <3>1. pc' \in [Thread -> Live] /\ starter' \in [Run -> {"read", "open", "write", "done", "dead"}]
      BY <2>1 DEF NInv, Typed, Live
    <3>2. \A s \in Run : starter'[s] \in {"read", "open", "write"} =>
            pc'[<<s, "ip">>] = "off" /\ pc'[<<s, "tcp">>] = "off"
      BY <1>0, <2>1 DEF NInv, Typed
    <3>. QED BY <2>1, <3>1, <3>2 DEF NInv, Typed
  <2>3. \A t \in Thread : pc'[t] = pc[t] \/ (pc[t] = "off" /\ pc'[t] \in {"start", "query"})
    BY <1>0, <2>1 DEF NInv, Typed
  <2>4. InHand' /\ MarkedWasWarned'
    BY <2>1, <2>3 DEF NInv, Once, InHand, MarkedWasWarned
  <2>5. Marked'
    <3>. SUFFICES ASSUME NEW t \in Thread, NEW e \in Event, <<t, e>> \in warned \union lost
                  PROVE  event[e] # "none" /\ (event[e] = "1" \/ pc'[t] = "dead" \/ (pc'[t] = "mark" /\ cur[t] = e))
      BY ZenonT(40), <2>1 DEF Marked
    <3>1. event[e] # "none" /\ (event[e] = "1" \/ pc[t] = "dead" \/ (pc[t] = "mark" /\ cur[t] = e))
      BY DEF NInv, Once, Marked
    <3>. QED BY <2>3, <3>1
  <2>6. Fresh'
    BY <2>1, <2>3 DEF NInv, Once, Fresh
  <2>. QED BY <2>1, <2>2, <2>4, <2>5, <2>6, SumStays DEF NInv, Once
<1>3. ASSUME NEW r \in Run, StoreFactor(r) PROVE NInv'
  <2>. DEFINE t == <<r, "ip">>
  <2>1. UNCHANGED <<starter, todo, cur, i, in_q, event, warned, lost>>
        /\ pc[t] = "event" /\ \E to \in {"dead", "poll"} : pc' = [pc EXCEPT ![t] = to]
    BY <1>3 DEF StoreFactor, Go
  <2>. HIDE DEF t
  <2>2. \A s \in Thread : pc'[s] = pc[s] \/ (pc[s] = "event" /\ pc'[s] \in {"dead", "poll"})
    BY <2>1 DEF NInv, Typed
  <2>3. Typed'
    <3>1. pc' \in [Thread -> Live]
      BY ZenonT(40), <2>1 DEF NInv, Typed, Live
    <3>2. \A s \in Run : starter'[s] \in {"read", "open", "write"} =>
            pc'[<<s, "ip">>] = "off" /\ pc'[<<s, "tcp">>] = "off"
      BY <1>0, <2>1, <2>2 DEF NInv, Typed
    <3>. QED BY <2>1, <3>1, <3>2 DEF NInv, Typed
  <2>4. InHand' /\ MarkedWasWarned'
    BY <2>1, <2>2 DEF NInv, Once, InHand, MarkedWasWarned
  <2>5. Marked'
    BY <2>1, <2>2 DEF NInv, Once, Marked
  <2>6. Fresh'
    BY <2>1, <2>2 DEF NInv, Once, Fresh
  <2>. QED BY <2>1, <2>3, <2>4, <2>5, <2>6, SumStays DEF NInv, Once
<1>4. ASSUME NEW e \in Event, SnortAdds(e) PROVE NInv'
  <2>1. UNCHANGED <<starter, pc, todo, cur, i, in_q, warned, lost>>
        /\ event[e] = "none" /\ event' = [event EXCEPT ![e] = "0"]
    BY <1>4 DEF SnortAdds, threads
  <2>2. \A x \in Event : event'[x] = event[x] \/ (event[x] = "none" /\ event'[x] = "0")
    BY <2>1 DEF NInv, Typed
  <2>3. Typed'
    BY <2>1 DEF NInv, Typed
  <2>4. InHand' /\ MarkedWasWarned'
    BY <2>1, <2>2 DEF NInv, Once, InHand, MarkedWasWarned
  <2>5. Marked' /\ Fresh'
    BY <2>1, <2>2 DEF NInv, Once, Marked, Fresh
  <2>. QED BY <2>1, <2>3, <2>4, <2>5, SumStays DEF NInv, Once
<1>5. CASE StopOpens \/ StopWrites \/ UNCHANGED vars
  <2>1. UNCHANGED <<starter, pc, todo, cur, i, in_q, event, warned, lost>>
    BY <1>5 DEF StopOpens, StopWrites, vars, threads
  <2>2. Typed'
    BY <2>1 DEF NInv, Typed
  <2>3. Once' /\ MarkedWasWarned'
    BY <2>1 DEF NInv, Once, InHand, Marked, Fresh, MarkedWasWarned
  <2>. QED BY <2>1, <2>2, <2>3, SumStays DEF NInv
<1>6. ASSUME NEW t \in Thread, Turn(t) PROVE NInv'
  BY <1>6, TurnKeeps, WarnKeeps DEF Turn
<1>7. ASSUME NEW r \in Run, start_tcp(r) \/ start_ip(r) PROVE NInv'
  BY <1>0, <1>3, <1>6, <1>7, PutKeeps, GetKeeps DEF start_tcp, start_ip
<1>. QED BY <1>1, <1>2, <1>4, <1>5, <1>7 DEF Next

\* For any runs, events and failures, an event that is marked has been warned
\* of, and start_ip's sum, the queue and start_tcp's count add up to what the
\* run has handled.
THEOREM CountsAndWarnings == Spec => []CountedAndWarned
<1>1. NInv => CountedAndWarned
  BY DEF NInv, CountedAndWarned
<1>. QED BY <1>1, InitNInv, NextNInv, PTL DEF Spec
=============================================================================
