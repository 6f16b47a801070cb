---------------------------- MODULE PsListProofs ----------------------------
(***************************************************************************)
(* The tracer's list stays in order and on disk, and implements the table  *)
(* of PsTable, for any pids, names and page directories.                   *)
(***************************************************************************)
EXTENDS PsList, SequenceTheorems, WellFoundedInduction, TLAPS

\* The order of the natural numbers.
Less == {ss \in Nat \X Nat : ss[1] < ss[2]}

\* A set of natural numbers has a least element: the place
\* at which a search of the list stops.
LEMMA LeastElement ==
  ASSUME NEW T, T \subseteq Nat, T # {}
  PROVE  \E x \in T : \A y \in T : x <= y
<1>1. IsWellFoundedOn(Less, Nat)
  BY NatLessThanWellFounded DEF OpToRel, Less
<1>2. PICK x \in T : \A y \in T : ~ (<<y, x>> \in Less)
  BY <1>1, WFMin, Zenon
<1>3. ASSUME NEW y \in T PROVE ~ (y < x)
  BY <1>2 DEF Less
<1>4. \A y \in T : x \in Nat /\ y \in Nat
  OBVIOUS
<1>. QED BY <1>3, <1>4

-----------------------------------------------------------------------------
(***************************************************************************)
(* What the four changes of a sequence of nodes give.                      *)
(***************************************************************************)
Ascending(s) == \A i, j \in 1 .. Len(s) : i < j => s[i].pid < s[j].pid
Entries(s) == {s[i] : i \in 1 .. Len(s)}

\* The fields of a node.
LEMMA NodeFields ==
  \A n \in Node : n.pid \in Nat /\ n.pid \in Pids /\ n.pgd \in Pgds \union {NoPgd} /\ n.name \in Names \union {None}
BY PsListAssumption DEF Pids, FailPid, Node

\* The length and the entries of two sequences joined.
LEMMA Joined ==
  \A a, b \in Seq(Node) :
    /\ a \o b \in Seq(Node) /\ Len(a \o b) = Len(a) + Len(b)
    /\ \A j \in 1 .. Len(a) + Len(b) : (a \o b)[j] = IF j <= Len(a) THEN a[j] ELSE b[j - Len(a)]
BY ConcatProperties

\* What SubSeq cuts out before and behind a place.
LEMMA Cut ==
  ASSUME NEW s \in Seq(Node), NEW i \in 1 .. Len(s), NEW k \in {i, i + 1}
  PROVE  /\ SubSeq(s, 1, i - 1) \in Seq(Node) /\ Len(SubSeq(s, 1, i - 1)) = i - 1
         /\ \A j \in 1 .. i - 1 : SubSeq(s, 1, i - 1)[j] = s[j]
         /\ SubSeq(s, k, Len(s)) \in Seq(Node) /\ Len(SubSeq(s, k, Len(s))) = Len(s) - k + 1
         /\ \A j \in 1 .. Len(s) - k + 1 : SubSeq(s, k, Len(s))[j] = s[k + j - 1]
<1>1. Len(s) \in Nat /\ i \in Nat /\ k \in Nat
  BY LenProperties
<1>. QED BY <1>1

\* A node put in before place at: what is where afterwards.
LEMMA Inserted ==
  ASSUME NEW s \in Seq(Node), NEW i \in 1 .. Len(s), NEW e \in Node
  PROVE  /\ InsertAt(s, i, e) \in Seq(Node) /\ Len(InsertAt(s, i, e)) = Len(s) + 1
         /\ \A j \in 1 .. Len(s) + 1 :
              InsertAt(s, i, e)[j] = IF j < i THEN s[j] ELSE IF j = i THEN e ELSE s[j - 1]
<1>1. Len(s) \in Nat /\ i \in Nat
  BY LenProperties
<1>2. PICK a : a = SubSeq(s, 1, i - 1)
  OBVIOUS
<1>3. PICK b : b = SubSeq(s, i, Len(s))
  OBVIOUS
<1>4. /\ a \in Seq(Node) /\ Len(a) = i - 1 /\ \A j \in 1 .. i - 1 : a[j] = s[j]
      /\ b \in Seq(Node) /\ Len(b) = Len(s) - i + 1 /\ \A j \in 1 .. Len(s) - i + 1 : b[j] = s[i + j - 1]
  BY <1>2, <1>3, Cut
<1>5. PICK c : c = a \o <<e>>
  OBVIOUS
<1>6. c \in Seq(Node) /\ Len(c) = i /\ \A j \in 1 .. i : c[j] = IF j < i THEN s[j] ELSE e
  BY <1>1, <1>4, <1>5
<1>7. PICK t : t = c \o b
  OBVIOUS
<1>8. InsertAt(s, i, e) = t
  BY <1>2, <1>3, <1>5, <1>7 DEF InsertAt
<1>9. /\ t \in Seq(Node) /\ Len(t) = Len(c) + Len(b)
      /\ \A j \in 1 .. Len(c) + Len(b) : t[j] = IF j <= Len(c) THEN c[j] ELSE b[j - Len(c)]
  BY <1>4, <1>6, <1>7, Joined
<1>10. Len(t) = Len(s) + 1
  BY <1>1, <1>4, <1>6, <1>9
<1>11. ASSUME NEW j \in 1 .. Len(s) + 1, j <= i
       PROVE  t[j] = IF j < i THEN s[j] ELSE IF j = i THEN e ELSE s[j - 1]
  BY <1>1, <1>4, <1>6, <1>9, <1>11
<1>12. ASSUME NEW j \in 1 .. Len(s) + 1, ~(j <= i) PROVE t[j] = s[j - 1]
  <2>1. t[j] = b[j - i]
    BY <1>1, <1>4, <1>6, <1>9, <1>12
  <2>2. j - i \in 1 .. Len(s) - i + 1 /\ i + (j - i) - 1 = j - 1
    BY <1>1, <1>12
  <2>. QED BY <1>4, <2>1, <2>2
<1>13. \A j \in 1 .. Len(s) + 1 : t[j] = IF j < i THEN s[j] ELSE IF j = i THEN e ELSE s[j - 1]
  BY <1>1, <1>11, <1>12
<1>. QED BY <1>8, <1>9, <1>10, <1>13

\* The node at place at taken out: what is where afterwards.
LEMMA Removed ==
  ASSUME NEW s \in Seq(Node), NEW i \in 1 .. Len(s)
  PROVE  /\ RemoveAt(s, i) \in Seq(Node) /\ Len(RemoveAt(s, i)) = Len(s) - 1
         /\ \A j \in 1 .. Len(s) - 1 : RemoveAt(s, i)[j] = IF j < i THEN s[j] ELSE s[j + 1]
<1>1. Len(s) \in Nat /\ i \in Nat
  BY LenProperties
<1>2. PICK a : a = SubSeq(s, 1, i - 1)
  OBVIOUS
<1>3. PICK b : b = SubSeq(s, i + 1, Len(s))
  OBVIOUS
<1>4. /\ a \in Seq(Node) /\ Len(a) = i - 1 /\ \A j \in 1 .. i - 1 : a[j] = s[j]
      /\ b \in Seq(Node) /\ Len(b) = Len(s) - i /\ \A j \in 1 .. Len(s) - i : b[j] = s[i + j]
  BY <1>1, <1>2, <1>3, Cut
<1>5. PICK t : t = a \o b
  OBVIOUS
<1>6. RemoveAt(s, i) = t
  BY <1>2, <1>3, <1>5 DEF RemoveAt
<1>7. /\ t \in Seq(Node) /\ Len(t) = Len(a) + Len(b)
      /\ \A j \in 1 .. Len(a) + Len(b) : t[j] = IF j <= Len(a) THEN a[j] ELSE b[j - Len(a)]
  BY <1>4, <1>5, Joined
<1>8. Len(t) = Len(s) - 1
  BY <1>1, <1>4, <1>7
<1>9. ASSUME NEW j \in 1 .. Len(s) - 1, j < i PROVE t[j] = s[j]
  <2>1. j \in 1 .. Len(a) + Len(b) /\ j <= Len(a) /\ j \in 1 .. i - 1
    BY <1>1, <1>4, <1>9
  <2>. QED BY <1>4, <1>7, <2>1
<1>10. ASSUME NEW j \in 1 .. Len(s) - 1, ~(j < i) PROVE t[j] = s[j + 1]
  <2>1. t[j] = b[j - (i - 1)]
    <3>1. j \in 1 .. Len(a) + Len(b) /\ ~(j <= Len(a)) /\ j - Len(a) = j - (i - 1)
      BY <1>1, <1>4, <1>10
    <3>. QED BY <1>7, <3>1
  <2>2. j - (i - 1) \in 1 .. Len(s) - i /\ i + (j - (i - 1)) = j + 1
    BY <1>1, <1>10
  <2>. QED BY <1>4, <2>1, <2>2
<1>11. \A j \in 1 .. Len(s) - 1 : t[j] = IF j < i THEN s[j] ELSE s[j + 1]
  BY <1>9, <1>10
<1>. QED BY <1>6, <1>7, <1>8, <1>11

\* A node put in at its place.
LEMMA InsertInOrder ==
  ASSUME NEW s \in Seq(Node), NEW n \in Node, NEW at \in 2 .. Len(s), Ascending(s),
         \A i \in 1 .. Len(s) : i < at => s[i].pid < n.pid,
         \A i \in 1 .. Len(s) : i >= at => n.pid < s[i].pid
  PROVE  /\ InsertAt(s, at, n) \in Seq(Node) /\ Len(InsertAt(s, at, n)) = Len(s) + 1
         /\ InsertAt(s, at, n)[1] = s[1]
         /\ Ascending(InsertAt(s, at, n))
         /\ Entries(InsertAt(s, at, n)) = {m \in Entries(s) : m.pid # n.pid} \union {n}
<1>1. Len(s) \in Nat /\ at \in Nat /\ at \in 1 .. Len(s)
  BY LenProperties
<1>2. PICK t : t = InsertAt(s, at, n)
  OBVIOUS
<1>3. /\ t \in Seq(Node) /\ Len(t) = Len(s) + 1
      /\ \A j \in 1 .. Len(s) + 1 : t[j] = IF j < at THEN s[j] ELSE IF j = at THEN n ELSE s[j - 1]
  <2>1. at \in 1 .. Len(s)
    BY <1>1
  <2>2. /\ InsertAt(s, at, n) \in Seq(Node) /\ Len(InsertAt(s, at, n)) = Len(s) + 1
        /\ \A j \in 1 .. Len(s) + 1 :
             InsertAt(s, at, n)[j] = IF j < at THEN s[j] ELSE IF j = at THEN n ELSE s[j - 1]
    BY <2>1, Inserted
  <2>. QED BY <1>2, <2>2
<1>4. /\ \A i \in 1 .. Len(s) : s[i] \in Node /\ s[i].pid \in Nat
      /\ n.pid \in Nat
  <2>1. \A i \in 1 .. Len(s) : s[i] \in Node
    BY ElementOfSeq
  <2>. QED BY <2>1, NodeFields
<1>5. t[1] = s[1] /\ t[at] = n
  BY <1>1, <1>3
<1>6. \A j \in 1 .. Len(s) : j < at => t[j] = s[j]
  BY <1>1, <1>3
<1>7. \A j \in 1 .. Len(s) : j >= at => t[j + 1] = s[j]
  <2>1. ASSUME NEW j \in 1 .. Len(s), j >= at PROVE t[j + 1] = s[j]
    <3>1. j + 1 \in 1 .. Len(s) + 1 /\ ~(j + 1 < at) /\ j + 1 # at /\ (j + 1) - 1 = j
      BY <1>1, <2>1
    <3>. QED BY <1>3, <3>1
  <2>. QED BY <2>1
<1>8. \A j \in 1 .. Len(t) : (j < at /\ j \in 1 .. Len(s)) \/ j = at \/ (j - 1 \in 1 .. Len(s) /\ j - 1 >= at /\ j = (j - 1) + 1)
  BY <1>1, <1>3
<1>9. Ascending(t)
  <2>1. ASSUME NEW i \in 1 .. Len(t), NEW j \in 1 .. Len(t), i < j PROVE t[i].pid < t[j].pid
    <3>1. CASE j < at
      <4>1. i \in 1 .. Len(s) /\ j \in 1 .. Len(s) /\ i < at
        BY <1>1, <1>3, <2>1, <3>1
      <4>2. t[i] = s[i] /\ t[j] = s[j]
        BY <1>6, <3>1, <4>1
      <4>. QED BY <2>1, <4>1, <4>2 DEF Ascending
    <3>2. CASE j = at
      <4>1. i \in 1 .. Len(s) /\ i < at
        BY <1>1, <1>3, <2>1, <3>2
      <4>2. t[i] = s[i] /\ s[i].pid < n.pid
        BY <1>6, <4>1
      <4>. QED BY <1>5, <3>2, <4>2
    <3>3. CASE j > at
      <4>0. j - 1 \in 1 .. Len(s) /\ j - 1 >= at /\ (j - 1) + 1 = j
        BY <1>1, <1>3, <3>3
      <4>1. j - 1 \in 1 .. Len(s) /\ t[j] = s[j - 1] /\ n.pid < s[j - 1].pid
        <5>1. t[(j - 1) + 1] = s[j - 1] /\ n.pid < s[j - 1].pid
          BY <1>7, <4>0
        <5>. QED BY <4>0, <5>1
      <4>2. CASE i < at
        <5>1. i \in 1 .. Len(s) /\ t[i] = s[i] /\ s[i].pid < n.pid
          BY <1>1, <1>6, <4>2
        <5>2. t[i].pid \in Nat /\ t[j].pid \in Nat /\ n.pid \in Nat
          BY <1>4, <4>1, <5>1
        <5>3. t[i].pid < n.pid /\ n.pid < t[j].pid
          BY <4>1, <5>1
        <5>. QED BY <5>2, <5>3
      <4>3. CASE i = at
        BY <1>5, <4>1, <4>3
      <4>4. CASE i > at
        <5>0. i - 1 \in 1 .. Len(s) /\ i - 1 >= at /\ (i - 1) + 1 = i /\ i - 1 < j - 1
          BY <1>1, <1>3, <2>1, <4>4
        <5>1. i - 1 \in 1 .. Len(s) /\ t[i] = s[i - 1] /\ i - 1 < j - 1
          BY <1>7, <5>0
        <5>. QED BY <4>1, <5>1 DEF Ascending
      <4>. QED BY <1>1, <4>2, <4>3, <4>4
    <3>. QED BY <1>1, <3>1, <3>2, <3>3
  <2>. QED BY <2>1 DEF Ascending
<1>10. Entries(t) = Entries(s) \union {n}
  <2>1. ASSUME NEW i \in 1 .. Len(s) PROVE s[i] \in Entries(t)
    <3>1. i \in 1 .. Len(t) /\ i + 1 \in 1 .. Len(t)
      BY <1>1, <1>3
    <3>2. s[i] = t[i] \/ s[i] = t[i + 1]
      BY <1>1, <1>6, <1>7
    <3>. QED BY <3>1, <3>2 DEF Entries
  <2>2. n \in Entries(t)
    BY <1>1, <1>3, <1>5 DEF Entries
  <2>3. ASSUME NEW j \in 1 .. Len(t) PROVE t[j] \in Entries(s) \union {n}
    <3>1. CASE j < at /\ j \in 1 .. Len(s)
      BY <1>6, <3>1 DEF Entries
    <3>2. CASE j - 1 \in 1 .. Len(s) /\ j - 1 >= at /\ j = (j - 1) + 1
      <4>1. t[j] = s[j - 1]
        BY <1>7, <3>2
      <4>. QED BY <3>2, <4>1 DEF Entries
    <3>. QED BY <1>5, <1>8, <3>1, <3>2
  <2>4. Entries(t) \subseteq Entries(s) \union {n}
    BY <2>3 DEF Entries
  <2>5. Entries(s) \subseteq Entries(t)
    BY <2>1 DEF Entries
  <2>. QED BY <2>2, <2>4, <2>5
<1>11. \A m \in Entries(s) : m.pid # n.pid
  BY <1>1, <1>4 DEF Entries
<1>. QED BY <1>2, <1>3, <1>5, <1>9, <1>10, <1>11

\* A node put in the place of one of its pid.
LEMMA ReplaceInOrder ==
  ASSUME NEW s \in Seq(Node), NEW n \in Node, NEW at \in 2 .. Len(s), Ascending(s), s[at].pid = n.pid
  PROVE  /\ [s EXCEPT ![at] = n] \in Seq(Node) /\ Len([s EXCEPT ![at] = n]) = Len(s)
         /\ [s EXCEPT ![at] = n][1] = s[1]
         /\ Ascending([s EXCEPT ![at] = n])
         /\ Entries([s EXCEPT ![at] = n]) = {m \in Entries(s) : m.pid # n.pid} \union {n}
<1>1. Len(s) \in Nat /\ at \in 1 .. Len(s)
  BY LenProperties
<1>2. PICK t : t = [s EXCEPT ![at] = n]
  OBVIOUS
<1>3. t \in Seq(Node) /\ Len(t) = Len(s) /\ \A j \in 1 .. Len(s) : t[j] = IF j = at THEN n ELSE s[j]
  BY <1>1, <1>2, ExceptSeq
<1>4. \A i \in 1 .. Len(s) : s[i] \in Node /\ s[i].pid \in Nat
  BY NodeFields, ElementOfSeq
<1>5. \A j \in 1 .. Len(s) : t[j].pid = s[j].pid
  BY <1>3
<1>6. Ascending(t)
  BY <1>3, <1>5 DEF Ascending
<1>7. \A i \in 1 .. Len(s) : i # at => s[i].pid # n.pid
  BY <1>1, <1>4 DEF Ascending
<1>8. \A m : m \in Entries(t) <=> m \in {k \in Entries(s) : k.pid # n.pid} \union {n}
  BY <1>1, <1>3, <1>7 DEF Entries
<1>9. t[1] = s[1]
  BY <1>1, <1>3
<1>10. Entries(t) = {k \in Entries(s) : k.pid # n.pid} \union {n}
  BY <1>8
<1>. QED BY <1>2, <1>3, <1>6, <1>9, <1>10

\* A node of a higher pid put in at the end.
LEMMA AppendInOrder ==
  ASSUME NEW s \in Seq(Node), NEW n \in Node, s # <<>>, Ascending(s), s[Len(s)].pid < n.pid
  PROVE  /\ Append(s, n) \in Seq(Node) /\ Len(Append(s, n)) = Len(s) + 1
         /\ Append(s, n)[1] = s[1]
         /\ Ascending(Append(s, n))
         /\ Entries(Append(s, n)) = {m \in Entries(s) : m.pid # n.pid} \union {n}
<1>1. Len(s) \in Nat /\ Len(s) >= 1
  BY LenProperties, EmptySeq
<1>2. PICK t : t = Append(s, n)
  OBVIOUS
<1>3. t \in Seq(Node) /\ Len(t) = Len(s) + 1 /\ t[Len(s) + 1] = n /\ \A j \in 1 .. Len(s) : t[j] = s[j]
  BY <1>2, AppendProperties
<1>4. /\ \A i \in 1 .. Len(s) : s[i] \in Node /\ s[i].pid \in Nat
      /\ n.pid \in Nat
  BY NodeFields, ElementOfSeq
<1>5. \A i \in 1 .. Len(s) : s[i].pid < n.pid
  BY <1>1, <1>4 DEF Ascending
<1>6. Ascending(t)
  BY <1>1, <1>3, <1>5 DEF Ascending
<1>7. Entries(t) = Entries(s) \union {n}
  BY <1>1, <1>3 DEF Entries
<1>8. \A m \in Entries(s) : m.pid # n.pid
  BY <1>4, <1>5 DEF Entries
<1>. QED BY <1>1, <1>2, <1>3, <1>6, <1>7, <1>8

\* The node at a place taken out of a list in order.
LEMMA RemoveInOrder ==
  ASSUME NEW s \in Seq(Node), NEW at \in 2 .. Len(s), Ascending(s)
  PROVE  /\ RemoveAt(s, at) \in Seq(Node) /\ Len(RemoveAt(s, at)) = Len(s) - 1
         /\ RemoveAt(s, at)[1] = s[1]
         /\ Ascending(RemoveAt(s, at))
         /\ Entries(RemoveAt(s, at)) = {m \in Entries(s) : m.pid # s[at].pid}
<1>1. Len(s) \in Nat /\ at \in Nat /\ at \in 1 .. Len(s)
  BY LenProperties
<1>2. PICK t : t = RemoveAt(s, at)
  OBVIOUS
<1>3. /\ t \in Seq(Node) /\ Len(t) = Len(s) - 1
      /\ \A j \in 1 .. Len(s) - 1 : t[j] = IF j < at THEN s[j] ELSE s[j + 1]
  BY <1>1, <1>2, Removed
<1>4. \A i \in 1 .. Len(s) : s[i] \in Node /\ s[i].pid \in Nat
  BY NodeFields, ElementOfSeq
<1>5. t[1] = s[1]
  BY <1>1, <1>3
<1>6. Ascending(t)
  <2>1. ASSUME NEW i \in 1 .. Len(t), NEW j \in 1 .. Len(t), i < j PROVE t[i].pid < t[j].pid
    <3>1. /\ i \in 1 .. Len(s) /\ i + 1 \in 1 .. Len(s) /\ j \in 1 .. Len(s) /\ j + 1 \in 1 .. Len(s)
          /\ i < j + 1 /\ i + 1 < j + 1
      BY <1>1, <1>3, <2>1
    <3>2. t[i] = s[i] \/ (t[i] = s[i + 1] /\ i >= at)
      BY <1>1, <1>3
    <3>3. (t[j] = s[j] /\ j < at) \/ t[j] = s[j + 1]
      BY <1>1, <1>3
    <3>. QED BY <1>1, <2>1, <3>1, <3>2, <3>3 DEF Ascending
  <2>. QED BY <2>1 DEF Ascending
<1>7. \A i \in 1 .. Len(s) : i # at => s[i].pid # s[at].pid
  BY <1>1, <1>4 DEF Ascending
<1>8. ASSUME NEW i \in 1 .. Len(s), i # at PROVE s[i] \in Entries(t)
  <2>1. CASE i < at
    <3>1. i \in 1 .. Len(t) /\ t[i] = s[i]
      BY <1>1, <1>3, <2>1
    <3>. QED BY <3>1 DEF Entries
  <2>2. CASE i > at
    <3>1. i - 1 \in 1 .. Len(s) - 1 /\ ~(i - 1 < at) /\ (i - 1) + 1 = i
      BY <1>1, <2>2
    <3>. QED BY <1>3, <3>1 DEF Entries
  <2>. QED BY <1>1, <1>8, <2>1, <2>2
<1>9. ASSUME NEW j \in 1 .. Len(t) PROVE \E i \in 1 .. Len(s) : i # at /\ t[j] = s[i]
  BY <1>1, <1>3
<1>10. Entries(t) \subseteq {m \in Entries(s) : m.pid # s[at].pid}
  BY <1>7, <1>9 DEF Entries
<1>11. {m \in Entries(s) : m.pid # s[at].pid} \subseteq Entries(t)
  BY <1>8 DEF Entries
<1>. QED BY <1>2, <1>3, <1>5, <1>6, <1>10, <1>11

-----------------------------------------------------------------------------
(***************************************************************************)
(* The list's operations, on a list in order with the idle task's node at  *)
(* its head; that node carries no page directory a process runs with.      *)
(***************************************************************************)
InOrder(l) ==
  /\ l \in [nodes : Seq(Node), last : Nat]
  /\ l.nodes # <<>> /\ l.nodes[1].pid = 0 /\ l.nodes[1].pgd = NoPgd
  /\ Ascending(l.nodes)
  /\ l.last = Len(l.nodes)

\* The parts of a list in order.
LEMMA Placed ==
  ASSUME NEW s \in Seq(Node), NEW k \in Nat, s # <<>>, Ascending(s), k = Len(s),
         s[1].pid = 0, s[1].pgd = NoPgd
  PROVE  InOrder([nodes |-> s, last |-> k])
BY DEF InOrder

\* add_pslist: the node is in the list, instead of one of its pid.
LEMMA Added ==
  ASSUME NEW l, InOrder(l), NEW n \in Node, n.pid # 0
  PROVE  /\ InOrder(add_pslist(l, n))
         /\ Entries(add_pslist(l, n).nodes) = {m \in Entries(l.nodes) : m.pid # n.pid} \union {n}
<1>1. PICK s : s = l.nodes
  OBVIOUS
<1>2. /\ s \in Seq(Node) /\ s # <<>> /\ Ascending(s) /\ s[1].pid = 0 /\ s[1].pgd = NoPgd
      /\ l = [nodes |-> s, last |-> Len(s)]
  BY <1>1 DEF InOrder
<1>3. Len(s) \in Nat /\ Len(s) >= 1
  BY <1>2, LenProperties, EmptySeq
<1>4. /\ \A i \in 1 .. Len(s) : s[i] \in Node /\ s[i].pid \in Nat
      /\ n.pid \in Nat
  BY <1>2, NodeFields, ElementOfSeq
<1>5. PICK r : r = add_pslist(l, n)
  OBVIOUS
<1>6. CASE s[Len(s)].pid < n.pid
  <2>1. PICK t : t = Append(s, n)
    OBVIOUS
  <2>2. r = [nodes |-> t, last |-> Len(s) + 1]
    BY <1>2, <1>5, <1>6, <2>1 DEF add_pslist, AppendNode
  <2>3. /\ t \in Seq(Node) /\ Len(t) = Len(s) + 1 /\ t[1] = s[1] /\ Ascending(t)
        /\ Entries(t) = {m \in Entries(s) : m.pid # n.pid} \union {n}
    BY <1>2, <1>6, <2>1, AppendInOrder
  <2>4. t # <<>>
    BY <1>3, <2>3
  <2>. QED BY <1>1, <1>2, <1>3, <1>5, <2>2, <2>3, <2>4, Placed
<1>7. CASE ~ (s[Len(s)].pid < n.pid)
  <2>1. PICK stop : stop = {i \in 2 .. Len(s) : s[i].pid >= n.pid} \union {Len(s) + 1}
    OBVIOUS
  <2>2. Len(s) \in stop /\ stop \subseteq Nat
    BY <1>2, <1>3, <1>4, <1>7, <2>1
  <2>3. \E i \in stop : \A j \in stop : i <= j
    BY <2>2, LeastElement
  <2>4. PICK at : at = PlaceFor(s, n.pid)
    OBVIOUS
  <2>5. at \in stop /\ (\A j \in stop : at <= j) /\ at <= Len(s)
    <3>1. at = CHOOSE i \in stop : \A j \in stop : i <= j
      BY <2>1, <2>4 DEF PlaceFor, Min
    <3>. QED BY <2>2, <2>3, <3>1
  <2>6. r = IF s[at].pid = n.pid THEN [l EXCEPT !.nodes[at] = n]
            ELSE [nodes |-> InsertAt(s, at, n), last |-> IF at <= Len(s) THEN Len(s) + 1 ELSE Len(s)]
    <3>1. l.nodes = s /\ l.last = Len(s)
      BY <1>2
    <3>. QED BY <1>5, <1>7, <2>4, <2>5, <3>1 DEF add_pslist
  <2>7. at \in 2 .. Len(s) /\ at \in Nat /\ s[at].pid >= n.pid
    BY <1>3, <2>1, <2>2, <2>5
  <2>8. CASE s[at].pid = n.pid
    <3>1. PICK t : t = [s EXCEPT ![at] = n]
      OBVIOUS
    <3>2. r = [nodes |-> t, last |-> Len(s)]
      BY <1>2, <2>6, <2>8, <3>1
    <3>3. /\ t \in Seq(Node) /\ Len(t) = Len(s) /\ t[1] = s[1] /\ Ascending(t)
          /\ Entries(t) = {m \in Entries(s) : m.pid # n.pid} \union {n}
      BY <1>2, <2>7, <2>8, <3>1, ReplaceInOrder
    <3>4. t # <<>>
      BY <1>3, <3>3
    <3>. QED BY <1>1, <1>2, <1>3, <1>5, <3>2, <3>3, <3>4, Placed
  <2>9. CASE s[at].pid # n.pid
    <3>1. PICK t : t = InsertAt(s, at, n)
      OBVIOUS
    <3>2. r = [nodes |-> t, last |-> Len(s) + 1]
      BY <1>2, <1>3, <2>6, <2>7, <2>9, <3>1
    <3>3. \A i \in 1 .. Len(s) : i < at => s[i].pid < n.pid
      <4>1. ASSUME NEW i \in 1 .. Len(s), i < at, ~ (s[i].pid < n.pid) PROVE FALSE
        <5>1. i # 1
          BY <1>2, <1>4, <4>1
        <5>2. i \in stop
          BY <1>3, <1>4, <2>1, <4>1, <5>1
        <5>. QED BY <2>5, <2>7, <4>1, <5>2
      <4>. QED BY <4>1
    <3>4. \A i \in 1 .. Len(s) : i >= at => n.pid < s[i].pid
      <4>1. n.pid < s[at].pid /\ at \in 1 .. Len(s)
        BY <1>3, <1>4, <2>7, <2>9
      <4>. QED BY <1>2, <1>4, <2>7, <4>1 DEF Ascending
    <3>5. /\ t \in Seq(Node) /\ Len(t) = Len(s) + 1 /\ t[1] = s[1] /\ Ascending(t)
          /\ Entries(t) = {m \in Entries(s) : m.pid # n.pid} \union {n}
      BY <1>2, <2>7, <3>1, <3>3, <3>4, InsertInOrder
    <3>6. t # <<>>
      BY <1>3, <3>5
    <3>. QED BY <1>1, <1>2, <1>3, <1>5, <3>2, <3>5, <3>6, Placed
  <2>. QED BY <2>8, <2>9
<1>. QED BY <1>6, <1>7

\* delete_one_ps: the node of that pid has gone, if there was one.
LEMMA Deleted ==
  ASSUME NEW l, InOrder(l), NEW pid, pid # 0
  PROVE  /\ InOrder(delete_one_ps(l, pid))
         /\ Entries(delete_one_ps(l, pid).nodes) = {m \in Entries(l.nodes) : m.pid # pid}
         /\ delete_one_ps(l, pid) = l \/ pid \in {m.pid : m \in Entries(l.nodes)}
<1>1. PICK s : s = l.nodes
  OBVIOUS
<1>2. /\ s \in Seq(Node) /\ s # <<>> /\ Ascending(s) /\ s[1].pid = 0 /\ s[1].pgd = NoPgd
      /\ l = [nodes |-> s, last |-> Len(s)]
  BY <1>1 DEF InOrder
<1>3. Len(s) \in Nat /\ Len(s) >= 1
  BY <1>2, LenProperties, EmptySeq
<1>4. PICK I : I = {i \in 1 .. Len(s) : s[i].pid = pid}
  OBVIOUS
<1>5. PICK at : at = SelectInSeq(s, LAMBDA n : n.pid = pid)
  OBVIOUS
<1>6. at = IF I # {} THEN CHOOSE x \in I : \A y \in I : x <= y ELSE 0
  BY <1>4, <1>5 DEF SelectInSeq, Min
<1>7. PICK r : r = delete_one_ps(l, pid)
  OBVIOUS
<1>8. r = IF at = 0 THEN l ELSE [nodes |-> RemoveAt(s, at), last |-> Len(s) - 1]
  BY <1>1, <1>2, <1>5, <1>7 DEF delete_one_ps
<1>9. CASE I = {}
  <2>1. r = l
    BY <1>6, <1>8, <1>9
  <2>2. \A m \in Entries(s) : m.pid # pid
    BY <1>4, <1>9 DEF Entries
  <2>. QED BY <1>1, <1>7, <2>1, <2>2
<1>10. CASE I # {}
  <2>1. I \subseteq Nat
    BY <1>4
  <2>2. \E x \in I : \A y \in I : x <= y
    BY <1>10, <2>1, LeastElement
  <2>3. at \in I
    BY <1>6, <1>10, <2>2
  <2>4. at \in 2 .. Len(s) /\ s[at].pid = pid
    BY <1>2, <1>3, <1>4, <2>3
  <2>5. PICK t : t = RemoveAt(s, at)
    OBVIOUS
  <2>6. /\ t \in Seq(Node) /\ Len(t) = Len(s) - 1 /\ t[1] = s[1] /\ Ascending(t)
        /\ Entries(t) = {m \in Entries(s) : m.pid # pid}
    BY <1>2, <2>4, <2>5, RemoveInOrder
  <2>7. r = [nodes |-> t, last |-> Len(t)] /\ t # <<>> /\ Len(t) \in Nat
    BY <1>3, <1>8, <2>4, <2>5, <2>6
  <2>8. s[at] \in Entries(s)
    BY <1>3, <2>4 DEF Entries
  <2>9. InOrder(r)
    BY <1>2, <2>6, <2>7, Placed
  <2>. QED BY <1>1, <1>7, <2>4, <2>6, <2>7, <2>8, <2>9
<1>. QED BY <1>9, <1>10

\* get_ps_fron_pgd: a node with the page directory, or there is none.
LEMMA Found ==
  ASSUME NEW l, InOrder(l), NEW pgd, NEW known, known = get_ps_fron_pgd(l, pgd)
  PROVE  \/ known \in 1 .. Len(l.nodes) /\ known # 0 /\ l.nodes[known].pgd = pgd
         \/ known = 0 /\ \A m \in Entries(l.nodes) : m.pgd # pgd
<1>1. PICK s : s = l.nodes
  OBVIOUS
<1>2. PICK I : I = {i \in 1 .. Len(s) : s[i].pgd = pgd}
  OBVIOUS
<1>3. known = IF I # {} THEN CHOOSE x \in I : \A y \in I : x <= y ELSE 0
  BY <1>1, <1>2 DEF get_ps_fron_pgd, SelectInSeq, Min
<1>4. CASE I = {}
  BY <1>1, <1>2, <1>3, <1>4 DEF Entries
<1>5. CASE I # {}
  <2>1. I \subseteq Nat
    BY <1>2
  <2>2. \E x \in I : \A y \in I : x <= y
    BY <1>5, <2>1, LeastElement
  <2>3. known \in I
    BY <1>3, <1>5, <2>2
  <2>4. Len(s) \in Nat
    BY <1>1, LenProperties DEF InOrder
  <2>. QED BY <1>1, <1>2, <2>3, <2>4
<1>. QED BY <1>4, <1>5

\* The name is read again.
LEMMA Renamed ==
  ASSUME NEW l, InOrder(l), NEW k \in 2 .. Len(l.nodes),
         NEW n \in Node, n.pid = l.nodes[k].pid, n.pgd = l.nodes[k].pgd
  PROVE  /\ InOrder(Rename(l, k, n.name))
         /\ Entries(Rename(l, k, n.name).nodes) = {m \in Entries(l.nodes) : m.pid # n.pid} \union {n}
         /\ n.name = l.nodes[k].name => Rename(l, k, n.name) = l
<1>0. PICK name : name = n.name
  OBVIOUS
<1>1. PICK s : s = l.nodes
  OBVIOUS
<1>2. /\ s \in Seq(Node) /\ s # <<>> /\ Ascending(s) /\ s[1].pid = 0 /\ s[1].pgd = NoPgd
      /\ l = [nodes |-> s, last |-> Len(s)]
  BY <1>1 DEF InOrder
<1>3. Len(s) \in Nat /\ k \in 1 .. Len(s) /\ k \in 2 .. Len(s)
  BY <1>1, <1>2, LenProperties
<1>4. s[k] \in Node
  BY <1>2, <1>3, ElementOfSeq
<1>5. n \in Node /\ n.pid = s[k].pid /\ n.pgd = s[k].pgd /\ n.name = name
  BY <1>0, <1>1
<1>6. [s[k] EXCEPT !.name = name] = n
  BY <1>4, <1>5 DEF Node
<1>7. PICK r : r = Rename(l, k, name)
  OBVIOUS
<1>8. PICK t : t = [s EXCEPT ![k] = n]
  OBVIOUS
<1>9. r = [nodes |-> t, last |-> Len(s)]
  <2>1. r = [nodes |-> [s EXCEPT ![k].name = name], last |-> Len(s)]
    BY <1>2, <1>7 DEF Rename
  <2>2. [s EXCEPT ![k].name = name] = [s EXCEPT ![k] = [s[k] EXCEPT !.name = name]]
    OBVIOUS
  <2>. QED BY <1>6, <1>8, <2>1, <2>2
<1>10. /\ t \in Seq(Node) /\ Len(t) = Len(s) /\ t[1] = s[1] /\ Ascending(t)
       /\ Entries(t) = {m \in Entries(s) : m.pid # n.pid} \union {n}
  BY <1>2, <1>3, <1>5, <1>8, ReplaceInOrder
<1>11. t # <<>>
  BY <1>2, <1>3, <1>10
<1>12. InOrder(r)
  BY <1>2, <1>3, <1>9, <1>10, <1>11, Placed
<1>13. ASSUME name = l.nodes[k].name PROVE r = l
  <2>1. n = s[k]
    BY <1>1, <1>4, <1>5, <1>13 DEF Node
  <2>2. t = s
    BY <1>2, <1>3, <1>8, <2>1
  <2>. QED BY <1>2, <1>9, <2>2
<1>14. Entries(r.nodes) = {m \in Entries(l.nodes) : m.pid # n.pid} \union {n}
  BY <1>1, <1>9, <1>10
<1>. QED BY <1>0, <1>7, <1>12, <1>13, <1>14

-----------------------------------------------------------------------------
(***************************************************************************)
(* The inductive invariant.  It needs initPs to leave no page directory of *)
(* a process in the idle task's node.                                      *)
(***************************************************************************)
Tasks ==
  /\ task \in [Live -> Task]
  /\ \A p \in Live \ {0} : task[p].pgd \in Pgds

IInv == TypeOK /\ Tasks /\ InOrder(pslist) /\ FileIsList

\* What record_ps_list puts in the file.
LEMMA LinesType ==
  ASSUME NEW l, InOrder(l)
  PROVE  Lines(l) \in Seq(Pids \X (Names \union {None}))
<1>1. Len(l.nodes) \in Nat /\ \A i \in 1 .. Len(l.nodes) : l.nodes[i] \in Node
  BY LenProperties, ElementOfSeq DEF InOrder
<1>2. \A i \in 1 .. Len(l.nodes) : <<l.nodes[i].pid, l.nodes[i].name>> \in Pids \X (Names \union {None})
  BY <1>1, NodeFields
<1>. QED BY <1>1, <1>2 DEF Lines

\* initPs leaves a list in order and the file of it.
LEMMA InitIInv == ASSUME KernelPgds = {NoPgd}, Init PROVE IInv
<1>1. /\ nextPid \in 2 .. MaxPid
      /\ \E name \in [0 .. nextPid - 1 -> Names], pgd \in [0 .. nextPid - 1 -> Pgds \union {NoPgd}] :
           /\ \A p, q \in 1 .. nextPid - 1 : pgd[p] # NoPgd /\ (pgd[p] = pgd[q] => p = q)
           /\ pgd[0] = NoPgd
           /\ task = [p \in 0 .. nextPid - 1 |->
                        [name |-> name[p], pgd |-> pgd[p], linked |-> TRUE, leaving |-> FALSE]]
      /\ used = {task[p].pgd : p \in Live \ {0}}
      /\ psFile = Lines(pslist)
      /\ cr3 = NoPgd /\ credited = NoPid /\ exited = NoPid /\ caller = NoPid /\ clean = {}
      /\ reused = FALSE
  BY DEF Init
<1>2. Live = 0 .. nextPid - 1 /\ nextPid \in Nat /\ MaxPid \in Nat /\ Live \subseteq 0 .. MaxPid
  BY <1>1, PsListAssumption DEF Live
<1>3. task \in [Live -> Task]
  BY <1>1, <1>2 DEF Task
<1>4. \A p \in Live \ {0} : task[p].pgd \in Pgds
  <2>1. ASSUME NEW p \in Live \ {0} PROVE task[p].pgd \in Pgds
    <3>1. p \in 1 .. nextPid - 1
      BY <1>2
    <3>. QED BY <1>1, <1>2, <3>1
  <2>. QED BY <2>1
<1>5. PICK order \in TaskLists, pgds \in [Live -> Pgds \union {NoPgd}] :
        pgds[0] = NoPgd /\ pslist = initPs(order, pgds)
  BY DEF Init
<1>6. PICK n \in Nat \ {0} : order \in [1 .. n -> Live]
  BY <1>2 DEF TaskLists
<1>7. Len(order) = n /\ order[1] = 0 /\ \A i, j \in 1 .. n : i < j => order[i] < order[j]
  BY <1>6 DEF TaskLists
<1>8. \A i \in 1 .. n : order[i] \in Live /\ order[i] \in Pids
  BY <1>2, <1>6 DEF Pids, FailPid
<1>9. PICK s : s = [i \in 1 .. n |-> [pid |-> order[i], name |-> task[order[i]].name, pgd |-> pgds[order[i]]]]
  OBVIOUS
<1>10. pslist = [nodes |-> s, last |-> n]
  BY <1>5, <1>7, <1>9 DEF initPs
<1>11. \A i \in 1 .. n : task[order[i]].name \in Names /\ pgds[order[i]] \in Pgds \union {NoPgd}
  BY <1>3, <1>5, <1>8 DEF Task
<1>12. s \in Seq(Node) /\ Len(s) = n /\ \A i \in 1 .. n : s[i].pid = order[i]
  BY <1>8, <1>9, <1>11 DEF Node
<1>13. s[1].pid = 0 /\ s[1].pgd = NoPgd /\ s # <<>>
  <2>1. 1 \in 1 .. n
    OBVIOUS
  <2>2. s[1].pid = 0 /\ s[1].pgd = pgds[order[1]]
    BY <1>7, <1>9, <2>1
  <2>3. s # <<>>
    BY <1>12
  <2>. QED BY <1>5, <1>7, <2>2, <2>3
<1>14. Ascending(s)
  BY <1>7, <1>12 DEF Ascending
<1>15. InOrder(pslist)
  BY <1>10, <1>12, <1>13, <1>14, Placed
<1>16. TypeOK
  <2>1. pslist \in [nodes : Seq(Node), last : Nat]
    BY <1>15 DEF InOrder
  <2>2. psFile \in Seq(Pids \X (Names \union {None}))
    BY <1>1, <1>15, LinesType
  <2>3. \A p \in Live : task[p] \in Task
    BY <1>3
  <2>4. used \subseteq Pgds
    <3>1. used = {task[p].pgd : p \in Live \ {0}}
      BY <1>1
    <3>. QED BY <1>4, <3>1
  <2>5. nextPid \in 1 .. MaxPid + 1
    BY <1>1, <1>2
  <2>. QED BY <1>1, <1>2, <2>1, <2>2, <2>3, <2>4, <2>5 DEF TypeOK
<1>. QED BY <1>1, <1>3, <1>4, <1>15, <1>16 DEF IInv, Tasks, FileIsList

\* A step of the guest.
LEMMA GuestIInv ==
  ASSUME IInv, UNCHANGED hostVars, task' \in [DOMAIN task' -> Task],
         DOMAIN task' \subseteq 0 .. MaxPid, \A p \in DOMAIN task' \ {0} : task'[p].pgd \in Pgds,
         nextPid' \in 1 .. MaxPid + 1, used' \subseteq Pgds, reused' \in BOOLEAN,
         UNCHANGED caller, clean' \subseteq 1 .. MaxPid
  PROVE  IInv'
<1>1. TypeOK'
  BY DEF IInv, TypeOK, hostVars, Live
<1>2. Tasks'
  BY DEF Tasks, Live
<1>3. InOrder(pslist') /\ FileIsList'
  BY DEF IInv, FileIsList, hostVars
<1>. QED BY <1>1, <1>2, <1>3 DEF IInv, InOrder

\* A new task does not touch the host's list.
LEMMA ForkIInv == ASSUME IInv, NEW p \in Live \ {0}, NEW pgd \in FreePgds, Fork(p, pgd) PROVE IInv'
<1>1. pgd \in Pgds /\ task[p] \in Task /\ nextPid \in 1 .. MaxPid /\ MaxPid \in Nat
  BY PsListAssumption DEF IInv, TypeOK, FreePgds, Fork
<1>2. [task[p] EXCEPT !.pgd = pgd, !.linked = TRUE] \in Task
  BY <1>1 DEF Task
<1>3. [task[p] EXCEPT !.pgd = pgd, !.linked = TRUE].pgd = pgd
  BY <1>1 DEF Task
<1>4. task' = [q \in Live \union {nextPid} |->
                 IF q = nextPid THEN [task[p] EXCEPT !.pgd = pgd, !.linked = TRUE] ELSE task[q]]
  BY DEF Fork
<1>5. DOMAIN task' = Live \union {nextPid} /\ task' \in [Live \union {nextPid} -> Task]
  BY <1>2, <1>4 DEF IInv, TypeOK
<1>6. \A q \in DOMAIN task' \ {0} : task'[q].pgd \in Pgds
  BY <1>1, <1>3, <1>4, <1>5 DEF IInv, Tasks
<1>7. DOMAIN task' \subseteq 0 .. MaxPid /\ nextPid' \in 1 .. MaxPid + 1
  BY <1>1, <1>5 DEF IInv, TypeOK, Fork
<1>8. used' \subseteq Pgds
  BY <1>1 DEF IInv, TypeOK, Fork
<1>9. reused' \in BOOLEAN /\ UNCHANGED hostVars /\ UNCHANGED caller
  BY DEF Fork
<1>10. clean' \subseteq 1 .. MaxPid
  BY DEF IInv, TypeOK, Fork
<1>. QED BY <1>5, <1>6, <1>7, <1>8, <1>9, <1>10, GuestIInv

\* Nor does a new program in a task.
LEMMA ExecIInv ==
  ASSUME IInv, NEW p \in Live \ {0}, NEW pgd \in FreePgds, NEW name \in Names, Exec(p, pgd, name)
  PROVE  IInv'
<1>1. pgd \in Pgds /\ task[p] \in Task /\ task \in [Live -> Task]
  BY DEF IInv, TypeOK, Tasks, FreePgds
<1>2. PICK t \in Task : t = [[task[p] EXCEPT !.pgd = pgd] EXCEPT !.name = name] /\ t.pgd = pgd
  <2>1. [[task[p] EXCEPT !.pgd = pgd] EXCEPT !.name = name] \in Task
    BY <1>1 DEF Task
  <2>2. [[task[p] EXCEPT !.pgd = pgd] EXCEPT !.name = name].pgd = pgd
    BY <1>1 DEF Task
  <2>. QED BY <2>1, <2>2
<1>3. task' = [task EXCEPT ![p] = t]
  <2>1. task' = [task EXCEPT ![p].pgd = pgd, ![p].name = name]
    BY DEF Exec
  <2>. QED BY <1>1, <1>2, <2>1
<1>4. DOMAIN task' = Live /\ task' \in [Live -> Task]
  BY <1>1, <1>2, <1>3
<1>5. \A q \in Live \ {0} : task'[q].pgd \in Pgds
  BY <1>1, <1>2, <1>3 DEF IInv, Tasks
<1>6. /\ UNCHANGED hostVars /\ UNCHANGED caller /\ reused' \in BOOLEAN
      /\ Live \subseteq 0 .. MaxPid /\ nextPid' \in 1 .. MaxPid + 1
  BY DEF IInv, TypeOK, Exec
<1>7. used' \subseteq Pgds /\ clean' \subseteq 1 .. MaxPid
  BY <1>1 DEF IInv, TypeOK, Exec
<1>. QED BY <1>4, <1>5, <1>6, <1>7, GuestIInv

\* Nor does unlinking a task.
LEMMA HideIInv == ASSUME IInv, NEW p \in Live \ {0}, Hide(p) PROVE IInv'
<1>1. task[p] \in Task /\ task \in [Live -> Task]
  BY DEF IInv, TypeOK, Tasks
<1>2. task' = [task EXCEPT ![p] = [task[p] EXCEPT !.linked = FALSE]]
  BY <1>1 DEF Hide
<1>3. [task[p] EXCEPT !.linked = FALSE] \in Task /\ [task[p] EXCEPT !.linked = FALSE].pgd = task[p].pgd
  BY <1>1 DEF Task
<1>4. DOMAIN task' = Live /\ task' \in [Live -> Task]
  BY <1>1, <1>2, <1>3
<1>5. \A q \in Live \ {0} : task'[q].pgd \in Pgds
  BY <1>1, <1>2, <1>3 DEF IInv, Tasks
<1>6. /\ UNCHANGED hostVars /\ UNCHANGED caller /\ reused' \in BOOLEAN
      /\ Live \subseteq 0 .. MaxPid /\ nextPid' \in 1 .. MaxPid + 1
      /\ used' \subseteq Pgds /\ clean' \subseteq 1 .. MaxPid
  BY DEF IInv, TypeOK, Hide
<1>. QED BY <1>4, <1>5, <1>6, GuestIInv

\* Nor does the end of a task without exit_group.
LEMMA DieIInv == ASSUME IInv, NEW p \in Live \ {0}, Die(p) PROVE IInv'
<1>1. task' = [q \in Live \ {p} |-> task[q]] /\ task \in [Live -> Task]
  BY DEF IInv, Tasks, Die
<1>2. DOMAIN task' = Live \ {p} /\ task' \in [Live \ {p} -> Task]
  BY <1>1
<1>3. \A q \in DOMAIN task' \ {0} : task'[q].pgd \in Pgds
  BY <1>1, <1>2 DEF IInv, Tasks
<1>4. p \in 1 .. MaxPid
  BY PsListAssumption DEF IInv, TypeOK
<1>5. /\ UNCHANGED hostVars /\ UNCHANGED caller /\ reused' \in BOOLEAN
      /\ DOMAIN task' \subseteq 0 .. MaxPid /\ nextPid' \in 1 .. MaxPid + 1
      /\ used' \subseteq Pgds
  BY <1>2 DEF IInv, TypeOK, Die
<1>6. clean' \subseteq 1 .. MaxPid
  BY <1>4 DEF IInv, TypeOK, Die
<1>. QED BY <1>2, <1>3, <1>5, <1>6, GuestIInv

-----------------------------------------------------------------------------
(***************************************************************************)
(* A system call.                                                          *)
(***************************************************************************)
\* What a call leaves: n is the node of the pid it is credited to.
Effect(n) ==
  /\ n \in Node /\ n.pid # 0 /\ cr3' = n.pgd /\ n.pgd \in Pgds /\ credited' = n.pid
  /\ exited' \in Pids \union {NoPid} /\ exited' # 0
  /\ \/ \E m \in Entries(pslist.nodes) : m.pid = n.pid /\ m.pgd = n.pgd
     \/ \A m \in Entries(pslist.nodes) : m.pgd # n.pgd
  /\ InOrder(pslist')
  /\ Entries(pslist'.nodes) =
       {m \in {m \in Entries(pslist.nodes) : m.pid # n.pid} \union {n} : m.pid # exited'}
  /\ psFile' = Lines(pslist')

\* The pid a call ends, if it ends one.
LEMMA VictimType ==
  ASSUME NEW pid \in Pids, pid # 0, NEW call \in Calls
  PROVE  Victim(pid, call) \in Pids \union {NoPid} /\ Victim(pid, call) # 0
BY DEF Victim, Calls, NoPid

\* What the father's work on one system call leaves in the list and in the file.
LEMMA TrapEffect ==
  ASSUME IInv, NEW p \in Live \ {0}, NEW call \in Calls, Trap(p, call)
  PROVE  \E n \in Node : Effect(n)
<1>1. PICK g : g = task[p].pgd
  OBVIOUS
<1>2. /\ g \in Pgds /\ g # NoPgd /\ g \in Pgds \union {NoPgd}
      /\ p \in 0 .. MaxPid /\ p # 0 /\ MaxPid \in Nat
      /\ task[p] \in Task /\ InOrder(pslist)
  BY <1>1, PsListAssumption DEF IInv, TypeOK, Tasks
<1>3. PICK known : known = get_ps_fron_pgd(pslist, g)
  OBVIOUS
<1>4. PICK pid : pid = IF known = 0 THEN DtbToPid(p) ELSE pslist.nodes[known].pid
  OBVIOUS
<1>5. PICK name \in (IF known = 0 THEN {PidToName(DtbToPid(p))} ELSE NamesAt(pid)) :
        LET found == IF known = 0
                     THEN add_pslist(pslist, [pid |-> pid, name |-> name, pgd |-> g])
                     ELSE Rename(pslist, known, name)
            left  == delete_one_ps(found, Victim(pid, call))
            renamed == known # 0 /\ name # pslist.nodes[known].name
        IN /\ pslist' = left
           /\ psFile' = IF FileWritten(known, renamed, left # found) THEN Lines(left) ELSE psFile
           /\ credited' = pid
           /\ exited' = Victim(pid, call)
  BY <1>1, <1>3, <1>4 DEF Trap
<1>6. PICK found : found = IF known = 0
                     THEN add_pslist(pslist, [pid |-> pid, name |-> name, pgd |-> g])
                     ELSE Rename(pslist, known, name)
  OBVIOUS
<1>7. /\ cr3' = g /\ credited' = pid /\ exited' = Victim(pid, call)
      /\ pslist' = delete_one_ps(found, exited')
      /\ psFile' = IF FileWritten(known, known # 0 /\ name # pslist.nodes[known].name, pslist' # found)
                   THEN Lines(pslist') ELSE psFile
  BY <1>1, <1>5, <1>6 DEF Trap
<1>8. name \in Names \union {None}
  <2>1. \A q \in Live : task[q].name \in Names
    BY DEF IInv, TypeOK, Task
  <2>2. NamesAt(pid) \subseteq Names \union {None}
    BY <2>1 DEF NamesAt
  <2>3. PidToName(DtbToPid(p)) \in Names \union {None}
    BY <2>1 DEF PidToName
  <2>. QED BY <1>5, <2>2, <2>3
<1>9. CASE known = 0
  <2>1. pid \in Pids /\ pid # 0
    BY <1>2, <1>4, <1>9 DEF DtbToPid, Pids, FailPid
  <2>2. PICK n \in Node : n = [pid |-> pid, name |-> name, pgd |-> g] /\ n.pid = pid /\ n.pgd = g
    <3>1. [pid |-> pid, name |-> name, pgd |-> g] \in Node
      BY <1>2, <1>8, <2>1 DEF Node
    <3>. QED BY <3>1
  <2>3. found = add_pslist(pslist, n)
    BY <1>6, <1>9, <2>2
  <2>4. InOrder(found) /\ Entries(found.nodes) = {m \in Entries(pslist.nodes) : m.pid # n.pid} \union {n}
    BY <1>2, <2>1, <2>2, <2>3, Added
  <2>5. exited' \in Pids \union {NoPid} /\ exited' # 0
    BY <1>7, <2>1, VictimType
  <2>6. /\ InOrder(pslist')
        /\ Entries(pslist'.nodes) = {m \in Entries(found.nodes) : m.pid # exited'}
    BY <1>7, <2>4, <2>5, Deleted
  <2>7. \A m \in Entries(pslist.nodes) : m.pgd # g
    BY <1>2, <1>3, <1>9, Found
  <2>8. psFile' = Lines(pslist')
    BY <1>7, <1>9 DEF FileWritten
  <2>9. n.pid # 0 /\ cr3' = n.pgd /\ n.pgd \in Pgds /\ credited' = n.pid
    BY <1>2, <1>7, <2>1, <2>2
  <2>10. Effect(n)
    BY <2>2, <2>4, <2>5, <2>6, <2>7, <2>8, <2>9 DEF Effect
  <2>. QED BY <2>10
<1>10. CASE known # 0
  <2>1. known \in 1 .. Len(pslist.nodes) /\ pslist.nodes[known].pgd = g
    BY <1>2, <1>3, <1>10, Found
  <2>2. known # 1 /\ known \in 2 .. Len(pslist.nodes) /\ 1 \in 1 .. Len(pslist.nodes) /\ 1 < known
    BY <1>2, <2>1, LenProperties DEF InOrder
  <2>3. pslist.nodes[known] \in Node
    BY <1>2, <2>1, ElementOfSeq DEF InOrder
  <2>4. pid = pslist.nodes[known].pid /\ pid \in Pids /\ pid # 0
    <3>1. pid = pslist.nodes[known].pid /\ pid \in Pids /\ pid \in Nat
      BY <1>4, <1>10, <2>3, NodeFields
    <3>2. pslist.nodes[1].pid < pslist.nodes[known].pid
      BY <1>2, <2>1, <2>2 DEF InOrder, Ascending
    <3>. QED BY <1>2, <3>1, <3>2 DEF InOrder
  <2>5. PICK n \in Node : n.pid = pslist.nodes[known].pid /\ n.name = name /\ n.pgd = pslist.nodes[known].pgd
    <3>1. [pid |-> pslist.nodes[known].pid, name |-> name, pgd |-> pslist.nodes[known].pgd] \in Node
      BY <1>8, <2>3 DEF Node
    <3>. QED BY <3>1
  <2>6. found = Rename(pslist, known, name)
    BY <1>6, <1>10
  <2>7. /\ InOrder(found) /\ Entries(found.nodes) = {m \in Entries(pslist.nodes) : m.pid # n.pid} \union {n}
        /\ name = pslist.nodes[known].name => found = pslist
    <3>1. PICK k \in 2 .. Len(pslist.nodes) : k = known
      BY <2>2
    <3>2. n.pid = pslist.nodes[k].pid /\ n.pgd = pslist.nodes[k].pgd
      BY <2>5, <3>1
    <3>3. /\ InOrder(Rename(pslist, k, n.name))
          /\ Entries(Rename(pslist, k, n.name).nodes) =
               {m \in Entries(pslist.nodes) : m.pid # n.pid} \union {n}
          /\ n.name = pslist.nodes[k].name => Rename(pslist, k, n.name) = pslist
      BY <1>2, <3>2, Renamed
    <3>. QED BY <2>5, <2>6, <3>1, <3>3
  <2>8. exited' \in Pids \union {NoPid} /\ exited' # 0
    BY <1>7, <2>4, VictimType
  <2>9. /\ InOrder(pslist')
        /\ Entries(pslist'.nodes) = {m \in Entries(found.nodes) : m.pid # exited'}
    BY <1>7, <2>7, <2>8, Deleted
  <2>10. \E m \in Entries(pslist.nodes) : m.pid = n.pid /\ m.pgd = n.pgd
    BY <2>1, <2>5 DEF Entries
  <2>11. psFile' = Lines(pslist')
    BY <1>7, <1>10, <2>7 DEF IInv, FileIsList, FileWritten
  <2>12. n.pid # 0 /\ cr3' = n.pgd /\ n.pgd \in Pgds /\ credited' = n.pid
    BY <1>2, <1>7, <2>1, <2>4, <2>5
  <2>13. Effect(n)
    BY <2>5, <2>7, <2>8, <2>9, <2>10, <2>11, <2>12 DEF Effect
  <2>. QED BY <2>13
<1>. QED BY <1>9, <1>10

\* A system call keeps the invariant.
LEMMA TrapIInv == ASSUME IInv, NEW p \in Live \ {0}, NEW call \in Calls, Trap(p, call) PROVE IInv'
<1>1. PICK n \in Node : Effect(n)
  BY TrapEffect
<1>2. p \in Pids /\ task[p] \in Task /\ task \in [Live -> Task]
  <2>1. p \in 0 .. MaxPid /\ MaxPid \in Nat
    BY PsListAssumption DEF IInv, TypeOK
  <2>. QED BY <2>1 DEF IInv, TypeOK, Tasks, Pids, FailPid
<1>3. task' \in [Live -> Task] /\ \A q \in Live : task'[q].pgd = task[q].pgd
  <2>1. CASE task' = task
    BY <1>2, <2>1
  <2>2. CASE task' = [task EXCEPT ![p] = [task[p] EXCEPT !.leaving = TRUE]]
    <3>1. [task[p] EXCEPT !.leaving = TRUE] \in Task /\ [task[p] EXCEPT !.leaving = TRUE].pgd = task[p].pgd
      BY <1>2 DEF Task
    <3>. QED BY <1>2, <2>2, <3>1
  <2>. QED BY <2>1, <2>2 DEF Trap
<1>4. UNCHANGED <<nextPid, used, reused, clean>> /\ caller' = p
  BY DEF Trap
<1>5. InOrder(pslist') /\ psFile' = Lines(pslist')
  BY <1>1 DEF Effect
<1>6. TypeOK'
  <2>1. DOMAIN task' = Live /\ \A q \in Live : task'[q] \in Task
    BY <1>3
  <2>2. pslist' \in [nodes : Seq(Node), last : Nat] /\ psFile' \in Seq(Pids \X (Names \union {None}))
    BY <1>5, LinesType DEF InOrder
  <2>3. credited' \in Pids /\ cr3' \in Pgds /\ exited' \in Pids \union {NoPid}
    BY <1>1, NodeFields DEF Effect
  <2>. QED BY <1>2, <1>4, <2>1, <2>2, <2>3 DEF IInv, TypeOK, Live
<1>7. Tasks'
  BY <1>3 DEF IInv, Tasks, Live
<1>8. InOrder(pslist)' /\ FileIsList'
  BY <1>5 DEF FileIsList, InOrder, Lines
<1>. QED BY <1>6, <1>7, <1>8 DEF IInv

\* Every step keeps the invariant.
LEMMA NextIInv == ASSUME IInv, [Next]_vars PROVE IInv'
<1>1. CASE UNCHANGED vars
  <2>1. TypeOK' /\ Tasks'
    BY <1>1 DEF IInv, TypeOK, Tasks, Live, vars, hostVars, guestVars
  <2>2. InOrder(pslist)' /\ FileIsList'
    BY <1>1 DEF IInv, InOrder, FileIsList, vars, hostVars
  <2>. QED BY <2>1, <2>2 DEF IInv
<1>. QED BY <1>1, ForkIInv, ExecIInv, HideIInv, DieIInv, TrapIInv DEF Next

\* The invariant holds in every state.
LEMMA Invariance == ASSUME KernelPgds = {NoPgd} PROVE Spec => []IInv
<1>1. Init => IInv
  BY InitIInv
<1>. QED BY <1>1, NextIInv, PTL DEF Spec

\* Where initPs leaves no process's page directory in the idle task's node,
\* the list is in strict order with its last node last, the .pslist file is
\* the list, and all variables keep their types, over any sequence of calls.
THEOREM ListStaysRight == ASSUME KernelPgds = {NoPgd} PROVE Spec => []ListAndFile
<1>1. IInv => ListAndFile
  BY DEF IInv, InOrder, Ascending, ListAndFile, WellFormed
<1>. QED BY <1>1, Invariance, PTL

-----------------------------------------------------------------------------
(***************************************************************************)
(* Whom a call is credited to, while no page directory is given out twice. *)
(***************************************************************************)
\* Pids are given out once.
PidsOnce ==
  /\ Live \subseteq 0 .. nextPid - 1 /\ nextPid \in Nat
  /\ clean \subseteq 1 .. nextPid - 1 /\ clean \intersect Live = {}
  /\ caller = NoPid \/ caller \in 1 .. nextPid - 1

\* A page directory in use has been given out, and to one task.
Distinct ==
  /\ \A p \in Live \ {0} : task[p].pgd \in used
  /\ \A p, q \in Live \ {0} : task[p].pgd = task[q].pgd => p = q

\* A node with the page directory of a task is its node, or the one of callers
\* off the task list.
Owned ==
  /\ \A m \in Entries(pslist.nodes) : m.pgd \in used \union {NoPgd}
  /\ \A m \in Entries(pslist.nodes), p \in Live \ {0} :
       m.pgd = task[p].pgd => m.pid = p \/ (m.pid = FailPid /\ ~task[p].linked)

\* Nor has a task on the list a node once it is leaving, or has left.
Gone ==
  \A m \in Entries(pslist.nodes) :
    /\ m.pid \notin clean
    /\ \A p \in Live \ {0} : m.pid = p => ~(task[p].leaving /\ task[p].linked)

Credits == PidsOnce /\ (~reused => Distinct /\ Owned /\ Gone /\ CreditedToCaller)

\* What initPs finds belongs to whom it finds it at.
LEMMA InitCredits == ASSUME KernelPgds = {NoPgd}, Init PROVE Credits
<1>1. PICK name \in [0 .. nextPid - 1 -> Names], pgd \in [0 .. nextPid - 1 -> Pgds \union {NoPgd}] :
        /\ \A p, q \in 1 .. nextPid - 1 : pgd[p] # NoPgd /\ (pgd[p] = pgd[q] => p = q)
        /\ pgd[0] = NoPgd
        /\ task = [p \in 0 .. nextPid - 1 |->
                     [name |-> name[p], pgd |-> pgd[p], linked |-> TRUE, leaving |-> FALSE]]
  BY DEF Init
<1>2. /\ nextPid \in Nat /\ used = {task[p].pgd : p \in Live \ {0}}
      /\ credited = NoPid /\ caller = NoPid /\ clean = {}
  BY PsListAssumption DEF Init
<1>3. Live = 0 .. nextPid - 1 /\ Live \ {0} = 1 .. nextPid - 1
  BY <1>1, <1>2 DEF Live
<1>4. \A p \in Live \ {0} : task[p].pgd = pgd[p] /\ task[p].pgd # NoPgd /\ ~task[p].leaving
  BY <1>1, <1>3
<1>5. \A p, q \in Live \ {0} : task[p].pgd = task[q].pgd => p = q
  BY <1>1, <1>3, <1>4
<1>6. PICK order \in TaskLists, pgds \in [Live -> Pgds \union {NoPgd}] :
        /\ pgds[0] = NoPgd /\ \A p \in Live \ {0} : pgds[p] \in {task[p].pgd, NoPgd}
        /\ pslist = initPs(order, pgds)
  BY DEF Init
<1>7. PICK n \in Nat \ {0} : order \in [1 .. n -> Live] /\ Len(order) = n
  <2>1. PICK n \in 1 .. nextPid : order \in [1 .. n -> Live]
    BY DEF TaskLists
  <2>2. n \in Nat \ {0}
    BY <1>2
  <2>3. Len(order) = n
    BY <2>1, <2>2
  <2>. QED BY <2>1, <2>2, <2>3
<1>8. ASSUME NEW m \in Entries(pslist.nodes) PROVE \E p \in Live : m.pid = p /\ m.pgd = pgds[p]
  <2>1. pslist.nodes = [i \in 1 .. n |->
                          [pid |-> order[i], name |-> task[order[i]].name, pgd |-> pgds[order[i]]]]
    BY <1>6, <1>7 DEF initPs
  <2>2. Len(pslist.nodes) = n
    BY <2>1
  <2>3. PICK i \in 1 .. n : m = pslist.nodes[i]
    BY <2>2 DEF Entries
  <2>4. order[i] \in Live /\ m.pid = order[i] /\ m.pgd = pgds[order[i]]
    BY <1>7, <2>1, <2>3
  <2>. QED BY <2>4
<1>9. PidsOnce
  BY <1>2, <1>3 DEF PidsOnce
<1>10. Distinct
  BY <1>2, <1>5 DEF Distinct
<1>11. Owned
  <2>1. ASSUME NEW m \in Entries(pslist.nodes)
        PROVE  m.pgd = NoPgd \/ \E p \in Live \ {0} : m.pid = p /\ m.pgd = task[p].pgd
    <3>1. PICK p \in Live : m.pid = p /\ m.pgd = pgds[p]
      BY <1>8
    <3>2. CASE p = 0
      BY <1>6, <3>1, <3>2
    <3>3. CASE p # 0
      BY <1>6, <3>1, <3>3
    <3>. QED BY <3>2, <3>3
  <2>2. \A m \in Entries(pslist.nodes) : m.pgd \in used \union {NoPgd}
    BY <1>2, <2>1
  <2>3. \A m \in Entries(pslist.nodes), p \in Live \ {0} : m.pgd = task[p].pgd => m.pid = p
    BY <1>4, <1>5, <2>1
  <2>. QED BY <2>2, <2>3 DEF Owned
<1>12. Gone /\ CreditedToCaller
  BY <1>2, <1>4 DEF Gone, CreditedToCaller
<1>. QED BY <1>9, <1>10, <1>11, <1>12 DEF Credits

\* A page directory that was never given out is in no node.
LEMMA FreshPgd ==
  ASSUME IInv, Credits, ~reused, NEW pgd \in Pgds, pgd \notin used
  PROVE  /\ \A m \in Entries(pslist.nodes) : m.pgd # pgd
         /\ \A p \in Live \ {0} : task[p].pgd # pgd
BY PsListAssumption DEF Credits, Distinct, Owned

\* A task r gets a page directory; it is new, or is on the list as before.
LEMMA NewPgd ==
  ASSUME IInv, Credits, NEW r, r # 0, NEW pgd \in Pgds, NEW t, t = task'[r],
         Live' = Live \union {r}, \A q \in Live \ {r} : task'[q] = task[q],
         t.pgd = pgd, ~t.leaving,
         r \notin Live => caller # r, r \in Live => t.linked = task[r].linked,
         used' = used \union {pgd}, reused' = (reused \/ pgd \in used),
         UNCHANGED <<pslist, credited, caller, clean>>, ~reused'
  PROVE  Distinct' /\ Owned' /\ Gone' /\ CreditedToCaller'
<1>1. ~reused /\ pgd \notin used
  OBVIOUS
<1>2. /\ Distinct /\ Owned /\ Gone /\ CreditedToCaller
      /\ \A m \in Entries(pslist.nodes) : m.pgd # pgd
      /\ \A q \in Live \ {0} : task[q].pgd # pgd
  BY <1>1, FreshPgd DEF Credits
<1>3. \A q \in Live' \ {0} : q = r \/ (q \in Live \ {0} /\ q # r /\ task'[q] = task[q])
  OBVIOUS
<1>4. Distinct'
  <2>1. ASSUME NEW q \in Live' \ {0} PROVE task'[q].pgd \in used'
    BY <1>2, <1>3 DEF Distinct
  <2>2. ASSUME NEW q \in Live' \ {0}, NEW o \in Live' \ {0}, task'[q].pgd = task'[o].pgd PROVE q = o
    BY <1>2, <1>3, <2>2 DEF Distinct
  <2>. QED BY <2>1, <2>2 DEF Distinct
<1>5. Owned'
  <2>1. \A m \in Entries(pslist'.nodes) : m.pgd \in used' \union {NoPgd}
    BY <1>2 DEF Owned
  <2>2. ASSUME NEW m \in Entries(pslist'.nodes), NEW q \in Live' \ {0}, m.pgd = task'[q].pgd
        PROVE  m.pid = q \/ (m.pid = FailPid /\ ~task'[q].linked)
    <3>1. q \in Live \ {0} /\ task'[q] = task[q] /\ m \in Entries(pslist.nodes)
      BY <1>2, <1>3, <2>2
    <3>. QED BY <1>2, <2>2, <3>1 DEF Owned
  <2>. QED BY <2>1, <2>2 DEF Owned, Entries
<1>6. Gone'
  <2>1. ASSUME NEW m \in Entries(pslist'.nodes), NEW q \in Live' \ {0}, m.pid = q
        PROVE  ~(task'[q].leaving /\ task'[q].linked)
    <3>1. CASE q = r
      BY <3>1
    <3>2. CASE q # r
      BY <1>2, <1>3, <2>1, <3>2 DEF Gone
    <3>. QED BY <3>1, <3>2
  <2>2. \A m \in Entries(pslist'.nodes) : m.pid \notin clean'
    BY <1>2 DEF Gone
  <2>. QED BY <2>1, <2>2 DEF Gone, Entries
<1>7. CreditedToCaller'
  BY <1>1, <1>2 DEF CreditedToCaller
<1>. QED BY <1>4, <1>5, <1>6, <1>7

\* A new task has a pid of its own.
LEMMA ForkCredits ==
  ASSUME IInv, Credits, NEW p \in Live \ {0}, NEW pgd \in FreePgds, Fork(p, pgd)
  PROVE  Credits'
<1>1. PICK t : t = [task[p] EXCEPT !.pgd = pgd, !.linked = TRUE]
  OBVIOUS
<1>2. t.pgd = pgd /\ ~t.leaving
  <2>1. task[p] \in Task /\ ~task[p].leaving
    BY DEF IInv, TypeOK, Fork
  <2>. QED BY <1>1, <2>1 DEF Task
<1>3. task' = [q \in Live \union {nextPid} |-> IF q = nextPid THEN t ELSE task[q]]
  BY <1>1 DEF Fork
<1>4. /\ nextPid' = nextPid + 1 /\ used' = used \union {pgd} /\ reused' = (reused \/ pgd \in used)
      /\ UNCHANGED <<pslist, credited, caller, clean>> /\ pgd \in Pgds
  BY DEF Fork, hostVars, FreePgds
<1>5. nextPid \in Nat \ {0} /\ Live \subseteq 0 .. nextPid - 1 /\ nextPid \notin Live
  BY PsListAssumption DEF IInv, TypeOK, Credits, PidsOnce
<1>6. /\ Live' = Live \union {nextPid} /\ \A q \in Live \ {nextPid} : task'[q] = task[q]
      /\ task'[nextPid] = t
  BY <1>3 DEF Live
<1>7. PidsOnce'
  BY <1>4, <1>5, <1>6 DEF Credits, PidsOnce
<1>8. caller # nextPid
  BY <1>5 DEF Credits, PidsOnce, NoPid
<1>9. ~reused' => Distinct' /\ Owned' /\ Gone' /\ CreditedToCaller'
  BY <1>2, <1>4, <1>5, <1>6, <1>8, NewPgd
<1>. QED BY <1>7, <1>9 DEF Credits

\* A new program is no new task.
LEMMA ExecCredits ==
  ASSUME IInv, Credits, NEW p \in Live \ {0}, NEW pgd \in FreePgds, NEW name \in Names,
         Exec(p, pgd, name)
  PROVE  Credits'
<1>1. /\ task' = [task EXCEPT ![p].pgd = pgd, ![p].name = name]
      /\ used' = used \union {pgd} /\ reused' = (reused \/ pgd \in used)
      /\ UNCHANGED <<pslist, credited, nextPid, caller, clean>> /\ pgd \in Pgds /\ ~task[p].leaving
  BY DEF Exec, hostVars, FreePgds
<1>2. task \in [Live -> Task] /\ task[p] \in Task
  BY DEF IInv, Tasks
<1>3. /\ Live' = Live \union {p} /\ \A q \in Live \ {p} : task'[q] = task[q]
      /\ task'[p].pgd = pgd /\ task'[p].linked = task[p].linked /\ ~task'[p].leaving
  BY <1>1, <1>2 DEF Live, Task
<1>4. PidsOnce'
  BY <1>1, <1>3 DEF Credits, PidsOnce
<1>5. ~reused' => Distinct' /\ Owned' /\ Gone' /\ CreditedToCaller'
  BY <1>1, <1>3, NewPgd
<1>. QED BY <1>4, <1>5 DEF Credits

\* A task that is off the list has an excuse.
LEMMA HideCredits == ASSUME IInv, Credits, NEW p \in Live \ {0}, Hide(p) PROVE Credits'
<1>1. /\ task' = [task EXCEPT ![p].linked = FALSE] /\ ~task[p].leaving
      /\ UNCHANGED <<pslist, credited, nextPid, used, reused, caller, clean>>
  BY DEF Hide, hostVars
<1>2. task \in [Live -> Task] /\ task[p] \in Task
  BY DEF IInv, Tasks
<1>3. /\ Live' = Live /\ \A q \in Live \ {p} : task'[q] = task[q]
      /\ task'[p].pgd = task[p].pgd /\ ~task'[p].linked
  BY <1>1, <1>2 DEF Live, Task
<1>4. PidsOnce'
  BY <1>1, <1>3 DEF Credits, PidsOnce
<1>5. ASSUME ~reused' PROVE Distinct' /\ Owned' /\ Gone' /\ CreditedToCaller'
  <2>1. ~reused /\ Distinct /\ Owned /\ Gone /\ CreditedToCaller
    BY <1>1, <1>5 DEF Credits
  <2>2. \A q \in Live : task'[q].pgd = task[q].pgd /\ (task'[q].linked => task'[q] = task[q])
    BY <1>3
  <2>3. Distinct'
    BY <1>1, <1>3, <2>1, <2>2 DEF Distinct
  <2>4. Owned'
    <3>1. ASSUME NEW m \in Entries(pslist'.nodes), NEW q \in Live \ {0}, m.pgd = task'[q].pgd
          PROVE  m.pid = q \/ (m.pid = FailPid /\ ~task'[q].linked)
      BY <1>1, <2>1, <2>2, <3>1 DEF Owned
    <3>2. \A m \in Entries(pslist'.nodes) : m.pgd \in used' \union {NoPgd}
      BY <1>1, <2>1 DEF Owned
    <3>. QED BY <1>3, <3>1, <3>2 DEF Owned, Entries
  <2>5. Gone'
    <3>1. ASSUME NEW m \in Entries(pslist'.nodes), NEW q \in Live \ {0}, m.pid = q
          PROVE  ~(task'[q].leaving /\ task'[q].linked)
      BY <1>1, <2>1, <2>2, <3>1 DEF Gone
    <3>2. \A m \in Entries(pslist'.nodes) : m.pid \notin clean'
      BY <1>1, <2>1 DEF Gone
    <3>. QED BY <1>3, <3>1, <3>2 DEF Gone, Entries
  <2>6. CreditedToCaller'
    BY <1>1, <1>3, <2>1, <2>2 DEF CreditedToCaller
  <2>. QED BY <2>3, <2>4, <2>5, <2>6
<1>. QED BY <1>4, <1>5 DEF Credits

\* Who leaves by exit_group, being on the list, has no node any more.
LEMMA DieCredits == ASSUME IInv, Credits, NEW p \in Live \ {0}, Die(p) PROVE Credits'
<1>1. /\ task' = [q \in Live \ {p} |-> task[q]]
      /\ clean' = IF task[p].leaving /\ task[p].linked THEN clean \union {p} ELSE clean
      /\ UNCHANGED <<pslist, credited, nextPid, used, reused, caller>>
  BY DEF Die, hostVars
<1>2. Live' = Live \ {p} /\ \A q \in Live' : task'[q] = task[q]
  BY <1>1 DEF Live
<1>3. PidsOnce'
  <2>1. p \in 1 .. nextPid - 1
    BY DEF Credits, PidsOnce
  <2>. QED BY <1>1, <1>2, <2>1 DEF Credits, PidsOnce
<1>4. ASSUME ~reused' PROVE Distinct' /\ Owned' /\ Gone' /\ CreditedToCaller'
  <2>1. ~reused /\ Distinct /\ Owned /\ Gone /\ CreditedToCaller
    BY <1>1, <1>4 DEF Credits
  <2>2. Distinct'
    BY <1>1, <1>2, <2>1 DEF Distinct
  <2>3. Owned'
    BY <1>1, <1>2, <2>1 DEF Owned
  <2>4. Gone'
    <3>1. ASSUME NEW m \in Entries(pslist'.nodes), NEW q \in Live' \ {0}, m.pid = q
          PROVE  ~(task'[q].leaving /\ task'[q].linked)
      BY <1>1, <1>2, <2>1, <3>1 DEF Gone
    <3>2. ASSUME NEW m \in Entries(pslist'.nodes) PROVE m.pid \notin clean'
      BY <1>1, <2>1 DEF Gone
    <3>. QED BY <3>1, <3>2 DEF Gone, Entries
  <2>5. CreditedToCaller'
    BY <1>1, <1>2, <2>1 DEF CreditedToCaller
  <2>. QED BY <2>2, <2>3, <2>4, <2>5
<1>. QED BY <1>3, <1>4 DEF Credits

\* The node of the page directory, or a new one of the pid that is found for it.
LEMMA TrapCreditsCaller ==
  ASSUME IInv, Owned, NEW p \in Live \ {0}, NEW call \in Calls, Trap(p, call)
  PROVE  credited' = p \/ (credited' = FailPid /\ ~task[p].linked)
<1>1. PICK known : known = get_ps_fron_pgd(pslist, task[p].pgd)
  OBVIOUS
<1>2. credited' = IF known = 0 THEN DtbToPid(p) ELSE pslist.nodes[known].pid
  BY <1>1 DEF Trap
<1>3. CASE known = 0
  BY <1>2, <1>3 DEF DtbToPid
<1>4. CASE known # 0
  <2>1. known \in 1 .. Len(pslist.nodes) /\ pslist.nodes[known].pgd = task[p].pgd
    BY <1>1, <1>4, Found DEF IInv
  <2>2. pslist.nodes[known] \in Entries(pslist.nodes)
    BY <2>1 DEF Entries
  <2>. QED BY <1>2, <1>4, <2>1, <2>2 DEF Owned
<1>. QED BY <1>3, <1>4

\* A system call is credited to its caller, whose node goes with its exit_group.
LEMMA TrapCredits ==
  ASSUME IInv, Credits, NEW p \in Live \ {0}, NEW call \in Calls, Trap(p, call)
  PROVE  Credits'
<1>1. PICK n \in Node : Effect(n)
  BY TrapEffect
<1>2. /\ cr3' = task[p].pgd /\ ~task[p].leaving /\ caller' = p
      /\ task' = IF call[1] = "exit_group" THEN [task EXCEPT ![p].leaving = TRUE] ELSE task
      /\ UNCHANGED <<nextPid, used, reused, clean>>
  BY DEF Trap
<1>3. call[1] = "exit_group" => exited' = credited'
  BY DEF Trap, Victim
<1>4. task \in [Live -> Task] /\ task[p] \in Task
  BY DEF IInv, Tasks
<1>5. /\ Live' = Live /\ \A q \in Live \ {p} : task'[q] = task[q]
      /\ task'[p].pgd = task[p].pgd /\ task'[p].linked = task[p].linked
      /\ task'[p].leaving => call[1] = "exit_group"
  <2>1. CASE call[1] = "exit_group"
    BY <1>2, <1>4, <2>1 DEF Live, Task
  <2>2. CASE call[1] # "exit_group"
    BY <1>2, <1>4, <2>2 DEF Live, Task
  <2>. QED BY <2>1, <2>2
<1>6. /\ p \in 1 .. nextPid - 1 /\ p \notin clean
      /\ nextPid \in Nat /\ nextPid <= FailPid /\ FailPid \notin clean /\ FailPid \notin Live
  BY PsListAssumption DEF IInv, TypeOK, Credits, PidsOnce, FailPid
<1>7. PidsOnce'
  BY <1>2, <1>5, <1>6 DEF Credits, PidsOnce
<1>8. /\ n.pgd = task[p].pgd /\ n.pid = credited'
      /\ \A m \in Entries(pslist'.nodes) : m.pid # exited' /\ (m \in Entries(pslist.nodes) \/ m = n)
  BY <1>1, <1>2 DEF Effect
<1>9. ASSUME ~reused' PROVE Distinct' /\ Owned' /\ Gone' /\ CreditedToCaller'
  <2>1. ~reused /\ Distinct /\ Owned /\ Gone /\ CreditedToCaller
    BY <1>2, <1>9 DEF Credits
  <2>2. n.pid = p \/ (n.pid = FailPid /\ ~task[p].linked)
    BY <1>8, <2>1, TrapCreditsCaller
  <2>3. \A q \in Live : task'[q].pgd = task[q].pgd /\ task'[q].linked = task[q].linked
    BY <1>5
  <2>4. Distinct'
    BY <1>2, <1>5, <2>1, <2>3 DEF Distinct
  <2>5. Owned'
    <3>1. ASSUME NEW m \in Entries(pslist'.nodes) PROVE m.pgd \in used' \union {NoPgd}
      BY <1>2, <1>8, <2>1 DEF Owned, Distinct
    <3>2. ASSUME NEW m \in Entries(pslist'.nodes), NEW q \in Live \ {0}, m.pgd = task'[q].pgd
          PROVE  m.pid = q \/ (m.pid = FailPid /\ ~task'[q].linked)
      <4>1. CASE m \in Entries(pslist.nodes)
        BY <2>1, <2>3, <3>2, <4>1 DEF Owned
      <4>2. CASE m = n
        BY <1>8, <2>1, <2>2, <2>3, <3>2, <4>2 DEF Distinct
      <4>. QED BY <1>8, <4>1, <4>2
    <3>. QED BY <1>5, <3>1, <3>2 DEF Owned, Entries
  <2>6. Gone'
    <3>1. ASSUME NEW m \in Entries(pslist'.nodes) PROVE m.pid \notin clean'
      BY <1>2, <1>6, <1>8, <2>1, <2>2 DEF Gone
    <3>2. ASSUME NEW m \in Entries(pslist'.nodes), NEW q \in Live \ {0}, m.pid = q
          PROVE  ~(task'[q].leaving /\ task'[q].linked)
      <4>1. CASE q = p
        BY <1>3, <1>5, <1>6, <1>8, <2>2, <3>2, <4>1
      <4>2. CASE q # p
        <5>1. m # n
          BY <1>6, <2>2, <3>2, <4>2
        <5>. QED BY <1>5, <1>8, <2>1, <3>2, <4>2, <5>1 DEF Gone
      <4>. QED BY <4>1, <4>2
    <3>. QED BY <1>5, <3>1, <3>2 DEF Gone, Entries
  <2>7. CreditedToCaller'
    BY <1>2, <1>5, <1>8, <2>2 DEF CreditedToCaller
  <2>. QED BY <2>4, <2>5, <2>6, <2>7
<1>. QED BY <1>7, <1>9 DEF Credits

\* Every step keeps it.
LEMMA NextCredits == ASSUME IInv, Credits, [Next]_vars PROVE Credits'
<1>1. CASE UNCHANGED vars
  BY <1>1 DEF Credits, PidsOnce, Distinct, Owned, Gone, CreditedToCaller, Live, vars, hostVars, guestVars
<1>. QED BY <1>1, ForkCredits, ExecCredits, HideCredits, DieCredits, TrapCredits DEF Next

\* Whoever is credited is right in every state.
LEMMA CreditsInvariance == ASSUME KernelPgds = {NoPgd} PROVE Spec => []Credits
<1>1. Init => Credits
  BY InitCredits
<1>. QED BY <1>1, NextCredits, Invariance, PTL DEF Spec

\* While no page directory is given out twice, a system call is credited to
\* its caller, or to pid -1 if that is off the task list: for any number of
\* processes, in any order of forks, execs, kills, exits and silent deaths.
THEOREM CallsAreCredited == ASSUME KernelPgds = {NoPgd} PROVE Spec => []CreditedToCaller
<1>1. Credits => CreditedToCaller
  BY DEF Credits, CreditedToCaller
<1>. QED BY <1>1, CreditsInvariance, PTL

\* Nor has a process that has left through exit_group a node, which would make
\* it a hidden one.
THEOREM LeaversAreForgotten == ASSUME KernelPgds = {NoPgd} PROVE Spec => []CleanExitLeavesNoNode
<1>1. Credits => CleanExitLeavesNoNode
  BY DEF Credits, Gone, Entries, CleanExitLeavesNoNode
<1>. QED BY <1>1, CreditsInvariance, PTL

-----------------------------------------------------------------------------
(***************************************************************************)
(* The list implements the table.                                          *)
(***************************************************************************)
\* A list in order has one node for each pid, which is the table's record.
LEMMA TableValue ==
  ASSUME NEW l, InOrder(l)
  PROVE  /\ TableOf(l) = [p \in {m.pid : m \in Entries(l.nodes)} |-> TableOf(l)[p]]
         /\ DOMAIN TableOf(l) = {m.pid : m \in Entries(l.nodes)}
         /\ \A m \in Entries(l.nodes) : TableOf(l)[m.pid] = [name |-> m.name, pgd |-> m.pgd]
<1>1. PICK s : s = l.nodes
  OBVIOUS
<1>2. s \in Seq(Node) /\ Ascending(s) /\ Len(s) \in Nat
  BY <1>1, LenProperties DEF InOrder
<1>3. Range(s) = Entries(s)
  BY <1>2 DEF Range, Entries
<1>4. \A i, j \in 1 .. Len(s) : s[i].pid = s[j].pid => i = j
  <2>1. \A i \in 1 .. Len(s) : s[i].pid \in Nat
    BY <1>2, NodeFields, ElementOfSeq
  <2>. QED BY <1>2, <2>1 DEF Ascending
<1>5. \A m, k \in Entries(s) : m.pid = k.pid => m = k
  <2>1. ASSUME NEW m \in Entries(s), NEW k \in Entries(s), m.pid = k.pid PROVE m = k
    <3>1. PICK i \in 1 .. Len(s) : s[i] = m
      BY DEF Entries
    <3>2. PICK j \in 1 .. Len(s) : s[j] = k
      BY DEF Entries
    <3>. QED BY <1>4, <2>1, <3>1, <3>2
  <2>. QED BY <2>1
<1>6. {s[i].pid : i \in 1 .. Len(s)} = {m.pid : m \in Entries(s)}
  BY DEF Entries
<1>7. TableOf(l) = [p \in {m.pid : m \in Entries(s)} |->
                      [name |-> (CHOOSE m \in Entries(s) : m.pid = p).name,
                       pgd |-> (CHOOSE m \in Entries(s) : m.pid = p).pgd]]
  <2>1. TableOf(l) = [p \in {s[i].pid : i \in 1 .. Len(s)} |->
                        [name |-> (CHOOSE m \in Range(s) : m.pid = p).name,
                         pgd |-> (CHOOSE m \in Range(s) : m.pid = p).pgd]]
    BY <1>1 DEF TableOf
  <2>. QED BY <1>3, <1>6, <2>1
<1>8. ASSUME NEW m \in Entries(s) PROVE (CHOOSE k \in Entries(s) : k.pid = m.pid) = m
  <2>1. \E k \in Entries(s) : k.pid = m.pid
    OBVIOUS
  <2>2. \A k \in Entries(s) : k.pid = m.pid => k = m
    BY <1>5
  <2>3. PICK c : c = CHOOSE k \in Entries(s) : k.pid = m.pid
    OBVIOUS
  <2>4. c \in Entries(s) /\ c.pid = m.pid
    BY <2>1, <2>3
  <2>. QED BY <2>2, <2>3, <2>4
<1>9. \A m \in Entries(s) : TableOf(l)[m.pid] = [name |-> m.name, pgd |-> m.pgd]
  BY <1>7, <1>8
<1>10. DOMAIN TableOf(l) = {m.pid : m \in Entries(s)}
  BY <1>7
<1>11. TableOf(l) = [p \in {m.pid : m \in Entries(s)} |-> TableOf(l)[p]]
  BY <1>7
<1>. QED BY <1>1, <1>9, <1>10, <1>11

\* What initPs leaves is a table.
LEMMA InitTable == ASSUME KernelPgds = {NoPgd}, Init PROVE Table!Init
<1>1. IInv
  BY InitIInv
<1>2. InOrder(pslist)
  BY <1>1 DEF IInv
<1>3. PICK P : P = {m.pid : m \in Entries(pslist.nodes)}
  OBVIOUS
<1>4. PICK T : T = TableOf(pslist)
  OBVIOUS
<1>5. PICK Record : Record = [name : Names \union {None}, pgd : Pgds \union {NoPgd}]
  OBVIOUS
<1>6. /\ T = [p \in P |-> T[p]]
      /\ \A m \in Entries(pslist.nodes) : T[m.pid] = [name |-> m.name, pgd |-> m.pgd]
  BY <1>2, <1>3, <1>4, TableValue
<1>7. \A m \in Entries(pslist.nodes) : m \in Node
  BY <1>2, ElementOfSeq DEF InOrder, Entries
<1>8. \A m \in Entries(pslist.nodes) : m.pid \in Pids /\ T[m.pid] \in Record
  <2>1. ASSUME NEW m \in Entries(pslist.nodes) PROVE m.pid \in Pids /\ T[m.pid] \in Record
    <3>1. m.name \in Names \union {None} /\ m.pgd \in Pgds \union {NoPgd} /\ m.pid \in Pids
      BY <1>7, NodeFields
    <3>2. [name |-> m.name, pgd |-> m.pgd] \in Record
      BY <1>5, <3>1
    <3>3. T[m.pid] = [name |-> m.name, pgd |-> m.pgd]
      BY <1>6
    <3>. QED BY <3>1, <3>2, <3>3
  <2>. QED BY <2>1
<1>9. P \subseteq Pids /\ \A p \in P : T[p] \in Record
  BY <1>3, <1>8
<1>10. T \in [P -> Record]
  BY <1>6, <1>9
<1>11. T \in UNION {[Q -> Record] : Q \in SUBSET Pids}
  BY <1>9, <1>10
<1>12. cr3 \in Pgds \union {NoPgd} /\ credited = NoPid /\ exited = NoPid
  BY DEF Init
<1>. QED BY <1>4, <1>5, <1>11, <1>12 DEF Table!Init, Table!Record

\* A system call is a call on the table.
LEMMA CallTable == ASSUME IInv, IInv', NEW n \in Node, Effect(n) PROVE Table!Call
<1>1. PICK T : T = TableOf(pslist)
  OBVIOUS
<1>2. PICK E : E = Entries(pslist.nodes)
  OBVIOUS
<1>3. /\ DOMAIN T = {m.pid : m \in E}
      /\ \A m \in E : T[m.pid] = [name |-> m.name, pgd |-> m.pgd]
      /\ \A m \in E : T[m.pid].pgd = m.pgd
  <2>1. /\ DOMAIN T = {m.pid : m \in E}
        /\ \A m \in E : T[m.pid] = [name |-> m.name, pgd |-> m.pgd]
    BY <1>1, <1>2, TableValue DEF IInv
  <2>2. ASSUME NEW m \in E
        PROVE  T[m.pid].pgd = m.pgd
    <3>1. T[m.pid] = [name |-> m.name, pgd |-> m.pgd]
      BY <2>1
    <3>. QED BY <3>1
  <2>. QED BY <2>1, <2>2
<1>4. PICK T2 : T2 = TableOf(pslist')
  OBVIOUS
<1>5. PICK F : F = Entries(pslist'.nodes)
  OBVIOUS
<1>6. /\ T2 = [p \in {m.pid : m \in F} |-> T2[p]]
      /\ \A m \in F : T2[m.pid] = [name |-> m.name, pgd |-> m.pgd]
  BY <1>4, <1>5, TableValue DEF Effect
<1>7. F = {m \in {m \in E : m.pid # n.pid} \union {n} : m.pid # exited'}
  BY <1>2, <1>5 DEF Effect
<1>8. /\ cr3' \in Pgds \union {NoPgd} /\ credited' \in Pids /\ exited' \in Pids \union {NoPid}
      /\ cr3' = n.pgd /\ credited' = n.pid /\ n.name \in Names \union {None}
  BY NodeFields DEF Effect
<1>9. ASSUME NEW p \in DOMAIN T, T[p].pgd = cr3'
      PROVE  credited' \in DOMAIN T /\ T[credited'].pgd = cr3'
  <2>1. \E m \in E : m.pgd = n.pgd
    <3>1. PICK m \in E : m.pid = p
      BY <1>3, <1>9
    <3>2. m.pgd = n.pgd
      BY <1>3, <1>8, <1>9, <3>1
    <3>. QED BY <3>2
  <2>2. PICK m \in E : m.pid = n.pid /\ m.pgd = n.pgd
    BY <1>2, <2>1 DEF Effect
  <2>3. T[n.pid].pgd = m.pgd /\ n.pid \in DOMAIN T
    BY <1>3, <2>2
  <2>. QED BY <1>8, <2>2, <2>3
<1>10. PICK D : D = (DOMAIN T \union {credited'}) \ {exited'}
  OBVIOUS
<1>11. {m.pid : m \in F} = D
  BY <1>3, <1>7, <1>8, <1>10
<1>12. ASSUME NEW p \in D
       PROVE  T2[p] = IF p = credited' THEN [name |-> n.name, pgd |-> cr3'] ELSE T[p]
  <2>1. PICK m \in F : m.pid = p
    BY <1>11
  <2>2. T2[p] = [name |-> m.name, pgd |-> m.pgd]
    BY <1>6, <2>1
  <2>3. CASE p = credited'
    <3>1. m = n
      BY <1>7, <1>8, <2>1, <2>3
    <3>. QED BY <1>8, <2>2, <2>3, <3>1
  <2>4. CASE p # credited'
    <3>1. m \in E
      BY <1>7, <1>8, <2>1, <2>4
    <3>. QED BY <1>3, <2>1, <2>2, <2>4, <3>1
  <2>. QED BY <2>3, <2>4
<1>13. T2 = [q \in D |-> IF q = credited' THEN [name |-> n.name, pgd |-> cr3'] ELSE T[q]]
  BY <1>6, <1>11, <1>12
<1>14. PICK R : R = [q \in DOMAIN T \union {credited'} |->
                       IF q = credited' THEN [name |-> n.name, pgd |-> cr3'] ELSE T[q]]
  OBVIOUS
<1>15. T2 = [q \in D |-> R[q]]
  BY <1>10, <1>13, <1>14
<1>16. Table!Renewed(credited', n.name) = R
  BY <1>1, <1>14 DEF Table!Renewed
<1>17. Table!Holders(cr3') # {} => credited' \in Table!Holders(cr3')
  BY <1>1, <1>9 DEF Table!Holders
<1>18. TableOf(pslist)' = [q \in (DOMAIN T \union {credited'}) \ {exited'} |->
                              Table!Renewed(credited', n.name)[q]]
  BY <1>4, <1>10, <1>15, <1>16 DEF TableOf
<1>. QED BY <1>1, <1>8, <1>17, <1>18 DEF Table!Call

\* Every step of the list is a call on the table or leaves the table alone.
LEMMA NextTable ==
  ASSUME IInv, IInv', [Next]_vars
  PROVE  [Table!Call]_<<TableOf(pslist), cr3, credited, exited>>
<1>1. ASSUME NEW p \in Live \ {0}, NEW call \in Calls, Trap(p, call) PROVE Table!Call
  BY <1>1, TrapEffect, CallTable
<1>2. CASE UNCHANGED hostVars
  BY <1>2 DEF hostVars, TableOf
<1>. QED BY <1>1, <1>2 DEF Next, vars, Fork, Exec, Hide, Die

\* Whatever the guest does, the list is a table with one record per pid, in
\* which a call is credited to a holder of its page directory, and from which
\* a record goes exactly with its exit record.
THEOREM ListIsTable == ASSUME KernelPgds = {NoPgd} PROVE Spec => IsTable
<1>1. Init => Table!Init
  BY InitTable
<1>. QED BY <1>1, NextTable, Invariance, PTL DEF Spec, IsTable, Table!Spec

=============================================================================
