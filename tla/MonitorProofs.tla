--------------------------- MODULE MonitorProofs ---------------------------
(***************************************************************************)
(* What the father may lose and may report, for any number of processes,   *)
(* system calls and rounds, and a pipe of any length.                      *)
(***************************************************************************)
EXTENDS Monitor, WellFoundedInduction, TLAPS

\* The order of the natural numbers.
Less == {ss \in Nat \X Nat : ss[1] < ss[2]}

\* A set of natural numbers has a least element: the task
\* the walk of the guest's list comes to next.
LEMMA LeastElement ==
  ASSUME NEW T, T \subseteq Nat, T # {}
  PROVE  \E x \in T : \A y \in T : x <= y
<1>1. IsWellFoundedOn(Less, Nat)
  BY NatLessThanWellFounded DEF OpToRel, Less
<1>2. PICK x \in T : \A y \in T : ~ (<<y, x>> \in Less)
  BY <1>1, WFMin, Zenon
<1>3. ASSUME NEW y \in T PROVE ~ (y < x)
  BY <1>2 DEF Less
<1>4. \A y \in T : x \in Nat /\ y \in Nat
  OBVIOUS
<1>. QED BY <1>3, <1>4

-----------------------------------------------------------------------------
(***************************************************************************)
(* The list the walk follows: L is linked, a says where a task points that *)
(* is not, and the walk stands on x.                                       *)
(***************************************************************************)
NextIn(L, a, p) ==
  LET later == {q \in L : q > p} IN
  IF p \in Procs \ L THEN a[p]
  ELSE IF later = {} THEN 0
  ELSE CHOOSE q \in later : \A r \in later : q <= r

\* n is the task of L behind p, 0 when there is none.
IsNext(L, p, n) ==
  \/ n = 0 /\ \A q \in L : q <= p
  \/ n \in L /\ n > p /\ \A q \in L : q > p => n <= q

\* S has whatever can be come to from x.
Closed(L, a, x, S) ==
  NextIn(L, a, x) \in S \union {0} /\ \A q \in S : NextIn(L, a, q) \in S \union {0}

AheadIn(L, a, x) == {p \in Procs : \A S \in SUBSET Procs : Closed(L, a, x, S) => p \in S}

\* Pids are numbers, and 0 is none.
LEMMA PidForms ==
  /\ MaxPid \in Nat /\ 0 \in 0 .. MaxPid /\ Procs \subseteq Nat
  /\ \A p \in Procs : p \in 0 .. MaxPid /\ p > 0
  /\ \A p \in 0 .. MaxPid : p \in Nat /\ (p = 0 \/ p \in Procs)
BY MonitorAssumption DEF Procs

LEMMA NextIsIn == \A p : NextOf(p) = NextIn(OnList, after, p)
BY DEF NextOf, NextIn

LEMMA AheadIsIn == Ahead = AheadIn(OnList, after, at)
BY DEF Ahead, AheadIn, Closed, NextOf, NextIn

LEMMA AheadIsInNext == Ahead' = AheadIn(OnList', after', at')
BY DEF Ahead, AheadIn, Closed, NextOf, NextIn

\* The next pointer of a task.
LEMMA NextForms ==
  ASSUME NEW L \in SUBSET Procs, NEW a \in [Procs -> 0 .. MaxPid], NEW p \in 0 .. MaxPid
  PROVE  /\ NextIn(L, a, p) \in 0 .. MaxPid
         /\ p \in Procs \ L => NextIn(L, a, p) = a[p]
         /\ p \notin Procs \ L => IsNext(L, p, NextIn(L, a, p))
<1>. DEFINE later == {q \in L : q > p}
<1>1. CASE p \in Procs \ L
  BY <1>1 DEF NextIn
<1>2. CASE p \notin Procs \ L /\ later = {}
  <2>1. NextIn(L, a, p) = 0
    BY <1>2 DEF NextIn
  <2>2. \A q \in L : q <= p
    BY <1>2, PidForms
  <2>. QED BY <1>2, <2>1, <2>2, PidForms DEF IsNext
<1>3. CASE p \notin Procs \ L /\ later # {}
  <2>1. later \subseteq Nat
    BY PidForms
  <2>2. \E q \in later : \A r \in later : q <= r
    BY <1>3, <2>1, LeastElement
  <2>3. NextIn(L, a, p) = CHOOSE q \in later : \A r \in later : q <= r
    BY <1>3 DEF NextIn
  <2>4. NextIn(L, a, p) \in later /\ \A r \in later : NextIn(L, a, p) <= r
    BY <2>2, <2>3
  <2>. QED BY <1>3, <2>4, PidForms DEF IsNext
<1>. QED BY <1>1, <1>2, <1>3

\* A new last task is the next only where there was none.
LEMMA NextWith ==
  ASSUME NEW L \in SUBSET Nat, NEW u \in Nat, \A q \in L : q < u, NEW p \in Nat,
         NEW m, IsNext(L, p, m), NEW n, IsNext(L \union {u}, p, n)
  PROVE  m \in {0, n}
<1>. SUFFICES ASSUME m # 0 PROVE m = n
  OBVIOUS
<1>1. m \in L /\ m > p /\ \A q \in L : q > p => m <= q
  BY DEF IsNext
<1>2. n \in L \union {u} /\ n > p /\ n <= m
  BY <1>1 DEF IsNext
<1>3. n \in L
  BY <1>1, <1>2
<1>. QED BY <1>1, <1>2, <1>3

\* Without u, the next is u's next where it was u.
LEMMA NextWithout ==
  ASSUME NEW L \in SUBSET (Nat \ {0}), NEW u \in L, NEW p \in Nat, p # u,
         NEW n, IsNext(L, p, n), NEW m, IsNext(L \ {u}, p, m), NEW k, IsNext(L, u, k)
  PROVE  m = n \/ (n = u /\ m = k)
<1>0. \A q \in L : q \in Nat /\ q # 0
  OBVIOUS
<1>1. CASE n = 0
  <2>1. \A q \in L : ~ (q > p)
    BY <1>0, <1>1 DEF IsNext
  <2>2. m = 0
    BY <2>1 DEF IsNext
  <2>. QED BY <1>1, <2>2
<1>2. CASE n # 0 /\ n # u
  <2>1. n \in L \ {u} /\ n > p /\ \A r \in L : r > p => n <= r
    BY <1>2 DEF IsNext
  <2>2. ~ (n <= p)
    BY <1>0, <2>1
  <2>3. m \in L \ {u} /\ m > p /\ m <= n
    BY <2>1, <2>2 DEF IsNext
  <2>4. n <= m
    BY <2>1, <2>3
  <2>. QED BY <1>0, <2>1, <2>3, <2>4
<1>3. CASE n = u
  <2>1. u > p /\ \A r \in L : r > p => u <= r
    BY <1>3 DEF IsNext
  <2>2. CASE k = 0
    <3>1. \A r \in L : r <= u
      BY <1>0, <2>2 DEF IsNext
    <3>2. \A r \in L : r > p => r = u
      BY <1>0, <2>1, <3>1
    <3>3. m = 0
      BY <3>2 DEF IsNext
    <3>. QED BY <1>3, <2>2, <3>3
  <2>3. CASE k # 0
    <3>1. k \in L /\ k > u /\ \A r \in L : r > u => k <= r
      BY <2>3 DEF IsNext
    <3>2. k # u /\ k > p /\ ~ (k <= p)
      BY <1>0, <2>1, <3>1
    <3>3. m \in L \ {u} /\ m > p /\ m <= k
      BY <3>1, <3>2 DEF IsNext
    <3>4. m > u
      BY <1>0, <2>1, <3>3
    <3>5. k <= m
      BY <3>1, <3>3, <3>4
    <3>. QED BY <1>0, <1>3, <3>1, <3>3, <3>5
  <2>. QED BY <2>2, <2>3
<1>. QED BY <1>1, <1>2, <1>3

\* What is ahead is on the next task, or ahead of it.
LEMMA StepAhead ==
  ASSUME NEW L \in SUBSET Procs, NEW a \in [Procs -> 0 .. MaxPid], NEW x \in 0 .. MaxPid,
         NEW p \in AheadIn(L, a, x)
  PROVE  LET n == NextIn(L, a, x) IN n # 0 /\ (p = n \/ p \in AheadIn(L, a, n))
<1>. DEFINE n == NextIn(L, a, x)
<1>0. n \in 0 .. MaxPid
  BY NextForms
<1>1. n # 0
  <2>1. n = 0 => Closed(L, a, x, {})
    BY DEF Closed
  <2>. QED BY <2>1 DEF AheadIn
<1>2. ASSUME p # n, NEW S \in SUBSET Procs, Closed(L, a, n, S) PROVE p \in S
  <2>1. S \union {n} \in SUBSET Procs
    BY <1>0, <1>1, PidForms
  <2>2. Closed(L, a, x, S \union {n})
    BY <1>2 DEF Closed
  <2>. QED BY <1>2, <2>1, <2>2 DEF AheadIn
<1>. QED BY <1>1, <1>2 DEF AheadIn

\* From the head the walk comes to every linked task.
LEMMA AheadOfHead ==
  ASSUME NEW L \in SUBSET Procs, NEW a \in [Procs -> 0 .. MaxPid]
  PROVE  L \subseteq AheadIn(L, a, 0)
<1>. SUFFICES ASSUME NEW S \in SUBSET Procs, Closed(L, a, 0, S), L \ S # {} PROVE FALSE
  BY DEF AheadIn
<1>1. PICK p \in L \ S : \A q \in L \ S : p <= q
  <2>1. L \ S \subseteq Nat
    BY PidForms
  <2>. QED BY <2>1, LeastElement
<1>2. PICK q \in L \union {0} : q < p /\ \A r \in L \union {0} : r < p => r <= q
  <2>. DEFINE gaps == {p - r : r \in {r \in L \union {0} : r < p}}
  <2>1. gaps \subseteq Nat /\ p - 0 \in gaps
    BY PidForms
  <2>2. PICK g \in gaps : \A h \in gaps : g <= h
    BY <2>1, LeastElement
  <2>3. PICK q \in {r \in L \union {0} : r < p} : g = p - q
    BY <2>2
  <2>4. \A r \in L \union {0} : r < p => p - r \in gaps
    OBVIOUS
  <2>5. q \in L \union {0} /\ q < p /\ q \in Nat /\ p \in Nat
    BY <2>3, PidForms
  <2>6. ASSUME NEW r \in L \union {0}, r < p PROVE r <= q
    <3>1. p - q <= p - r
      BY <2>2, <2>3, <2>4, <2>6
    <3>2. r \in Nat
      BY PidForms
    <3>. QED BY <2>5, <3>1, <3>2
  <2>. QED BY <2>5, <2>6
<1>3. q \in 0 .. MaxPid /\ q \notin Procs \ L
  BY PidForms
<1>4. NextIn(L, a, q) = p
  <2>. DEFINE n == NextIn(L, a, q)
  <2>1. IsNext(L, q, n)
    BY <1>3, NextForms
  <2>2. p \in L /\ p \in Nat /\ q \in Nat /\ q < p
    BY <1>2, PidForms
  <2>. HIDE DEF n
  <2>3. ~ (p <= q)
    BY <2>2
  <2>4. n \in L /\ n > q /\ n <= p
    BY <2>1, <2>2, <2>3 DEF IsNext
  <2>5. n \in Nat
    BY <2>4, PidForms
  <2>6. ~ (n < p)
    BY <1>2, <2>2, <2>4, <2>5
  <2>. QED BY <2>2, <2>4, <2>6, <2>5 DEF n
<1>5. q \in S \union {0}
  BY <1>1, <1>2, PidForms
<1>6. p \in S \union {0}
  BY <1>4, <1>5 DEF Closed
<1>. QED BY <1>6, PidForms

\* A task is linked at the end: who was ahead still is.
LEMMA LinkAhead ==
  ASSUME NEW L \in SUBSET Procs, NEW a \in [Procs -> 0 .. MaxPid], NEW x \in 0 .. MaxPid,
         NEW u \in Procs \ L, \A q \in L : q < u, a[u] = 0
  PROVE  AheadIn(L, a, x) \subseteq AheadIn(L \union {u}, a, x)
<1>1. ASSUME NEW q \in 0 .. MaxPid
      PROVE  NextIn(L, a, q) \in {0, NextIn(L \union {u}, a, q)}
  <2>1. L \union {u} \in SUBSET Procs
    OBVIOUS
  <2>. DEFINE m == NextIn(L, a, q)
              n == NextIn(L \union {u}, a, q)
  <2>2. CASE q = u
    BY <2>2, NextForms
  <2>3. CASE q \in Procs \ (L \union {u})
    <3>1. m = a[q]
      BY <2>3, NextForms
    <3>2. n = a[q]
      BY <2>1, <2>3, NextForms
    <3>. QED BY <3>1, <3>2
  <2>4. CASE q \notin Procs \ L
    <3>1. IsNext(L, q, m)
      BY <2>4, NextForms
    <3>2. IsNext(L \union {u}, q, n)
      BY <2>1, <2>4, NextForms
    <3>3. L \in SUBSET Nat /\ q \in Nat /\ u \in Nat
      BY PidForms
    <3>. HIDE DEF m, n
    <3>. QED BY <3>1, <3>2, <3>3, NextWith DEF m, n
  <2>. QED BY <2>2, <2>3, <2>4
<1>2. ASSUME NEW S \in SUBSET Procs, Closed(L \union {u}, a, x, S) PROVE Closed(L, a, x, S)
  <2>1. \A q \in S : q \in 0 .. MaxPid
    BY PidForms
  <2>. QED BY <1>1, <1>2, <2>1 DEF Closed
<1>. QED BY <1>2 DEF AheadIn

\* A task is unlinked, and points where it pointed: who else was ahead still is.
LEMMA UnlinkAhead ==
  ASSUME NEW L \in SUBSET Procs, NEW a \in [Procs -> 0 .. MaxPid], NEW x \in 0 .. MaxPid,
         NEW u \in L
  PROVE  AheadIn(L, a, x) \ {u} \subseteq AheadIn(L \ {u}, [a EXCEPT ![u] = NextIn(L, a, u)], x)
<1>. DEFINE b == [a EXCEPT ![u] = NextIn(L, a, u)]
            N(q) == NextIn(L, a, q)
            M(q) == NextIn(L \ {u}, b, q)
<1>1. u \in Procs /\ u \in 0 .. MaxPid /\ b \in [Procs -> 0 .. MaxPid] /\ L \ {u} \in SUBSET Procs
  <2>1. u \in Procs /\ u \in 0 .. MaxPid
    BY PidForms
  <2>2. N(u) \in 0 .. MaxPid
    BY <2>1, NextForms
  <2>. QED BY <2>1, <2>2
<1>2. M(u) = N(u) /\ N(u) # u
  <2>1. M(u) = b[u]
    BY <1>1 DEF NextIn
  <2>2. IsNext(L, u, N(u))
    BY <1>1, NextForms
  <2>. QED BY <1>1, <2>1, <2>2, PidForms DEF IsNext
<1>3. ASSUME NEW q \in 0 .. MaxPid, q # u
      PROVE  M(q) = N(q) \/ (N(q) = u /\ M(q) = N(u))
  <2>1. CASE q \in Procs \ L
    <3>1. N(q) = a[q]
      BY <2>1, NextForms
    <3>2. M(q) = b[q]
      BY <1>1, <2>1 DEF NextIn
    <3>. QED BY <1>3, <2>1, <3>1, <3>2
  <2>2. CASE q \notin Procs \ L
    <3>1. IsNext(L, q, N(q))
      BY <2>2, NextForms
    <3>2. q \notin Procs \ (L \ {u})
      BY <1>3, <2>2
    <3>3. IsNext(L \ {u}, q, M(q))
      BY <1>1, <3>2, NextForms
    <3>4. IsNext(L, u, N(u))
      BY <1>1, NextForms
    <3>5. L \in SUBSET (Nat \ {0}) /\ q \in Nat
      BY PidForms
    <3>. HIDE DEF M, N
    <3>. QED BY <1>3, <3>1, <3>3, <3>4, <3>5, NextWithout
  <2>. QED BY <2>1, <2>2
<1>4. ASSUME NEW p \in AheadIn(L, a, x), p # u,
             NEW S \in SUBSET Procs, Closed(L \ {u}, b, x, S)
      PROVE  p \in S
  <2>. HIDE DEF b
  <2>1. \A q \in S \union {x} : M(q) \in S \union {0} /\ q \in 0 .. MaxPid
    BY <1>4, PidForms DEF Closed
  <2>. HIDE DEF M, N
  <2>2. CASE N(u) \in S \union {0}
    <3>1. \A q \in S \union {x} : N(q) \in S \union {u} \union {0}
      BY <1>3, <2>1, <2>2
    <3>2. Closed(L, a, x, S \union {u})
      BY <2>2, <3>1 DEF Closed, N
    <3>3. S \union {u} \in SUBSET Procs
      BY <1>1
    <3>. QED BY <1>4, <3>2, <3>3 DEF AheadIn
  <2>3. CASE N(u) \notin S \union {0}
    <3>1. \A q \in S \union {x} : q # u /\ N(q) \in S \union {0}
      BY <1>2, <1>3, <2>1, <2>3
    <3>2. Closed(L, a, x, S)
      BY <3>1 DEF Closed, N
    <3>. QED BY <1>4, <3>2 DEF AheadIn
  <2>. QED BY <2>2, <2>3
<1>. QED BY <1>4 DEF AheadIn

-----------------------------------------------------------------------------
(***************************************************************************)
(* The inductive invariant.                                                *)
(***************************************************************************)
Known == 1 .. nextPid - 1
After == {"readps", "reading", "readexit", "emptyexit", "drain", "report"}

History ==
  /\ bornLate \subseteq Procs /\ silent \subseteq Procs /\ dropped \subseteq Pids
  /\ before \in [off : SUBSET Procs, list : SUBSET Pids] /\ torn \in BOOLEAN

\* A pid given out is of a process that lives, or died silently, or has left.
GuestOK ==
  /\ live \subseteq Known /\ hidden \subseteq Known /\ Known \subseteq live \union silent \union left
  /\ \A p \in Procs : p \in OnList \/ p \notin Known => after[p] = 0

\* The caller does not run while its call is handled, and when its exit_group
\* is about to be recorded it has no node any more.
ChildOK ==
  /\ cpc \notin {"idle", "ended"} =>
       /\ call.who \in live \ left /\ call.pid \in {call.who, Unknown}
       /\ call.pid = Unknown => call.who \in hidden \ list
  /\ cpc \in {"deleted", "append", "write"} /\ call.sys[1] = "exit_group" => call.who \notin list

ListOK ==
  /\ list \intersect left = {}
  /\ list \subseteq Known \union {Unknown}
  /\ whole => listFile = list
  /\ fpc = "reading" => torn \/ whole

RoundOK ==
  /\ fpc # "walk" => at = 0
  /\ fpc # "done" => round < Rounds
  /\ fpc \in {"sleep", "done"} => rows = {}
  /\ fpc # "drain" => missed = NoRec
  /\ fpc # "sleep" => warned = {}

\* Whom the walk met, or has an excuse not to have met.
Met == rows \union hidden \union silent \union bornLate

WalkOK ==
  /\ fpc = "walk" => OnList \subseteq Met \union Ahead
  /\ fpc \in After => Known \ Met \subseteq left

SeenOK == fpc \in After \ {"readps", "reading"} => torn \/ seen \subseteq Met \union {Unknown}

PipeOK == \A i \in 1 .. Len(pipe) : pipe[i].pid \in Known \union {Unknown}

\* A record of p that is not of its exit_group is on its way to the father.
Pending(p) == \E i \in 1 .. Len(pipe) : pipe[i].pid = p /\ pipe[i].sys # "exit_group"

\* The exit_group of p has got as far as its exit record.
Going(p) == p \in left \/ (cpc = "write" /\ call.sys[1] = "exit_group" /\ call.who = p)

\* The exit records the father has or may still read.
Appended == IF fpc \in {"emptyexit", "drain"} THEN exitFile \union exits ELSE exitFile

ExitOK == \A p \in Known : Pending(p) /\ Going(p) => p \in Appended \union dropped \union hidden

\* From the reading of .exitps on, who has no row but a record has an exit record.
ReadOK ==
  fpc \in {"emptyexit", "drain"} =>
    \A p \in Known \ Met : Pending(p) => p \in exits \union dropped

\* Nobody points at a task that was off the list when the round began, unless
\* he was off it too; so that the walk does not come there.
BeforeOK ==
  /\ before.off \subseteq Known \ OnList /\ before.off \intersect rows = {} /\ at \notin before.off
  /\ \A p \in Procs \ before.off : after[p] \notin before.off
  /\ before.list \subseteq list
  /\ fpc \in After \ {"readps", "reading"} => torn \/ before.list \subseteq seen

IInv ==
  /\ TypeOK /\ History /\ GuestOK /\ ChildOK /\ ListOK /\ RoundOK /\ WalkOK /\ SeenOK
  /\ PipeOK /\ ExitOK /\ ReadOK /\ BeforeOK
  /\ LossExplained /\ NoFalseAlarm /\ HiddenIsReported

-----------------------------------------------------------------------------
\* What is at the two places of a system call, and the records without content.
LEMMA CallForms ==
  /\ \A s \in Calls : s[1] \in {"other", "exit_group", "kill"}
  /\ \A s \in Calls : s[1] = "kill" => s[2] \in Procs
  /\ NoCall \in [who : 0 .. MaxPid, pid : 0 .. Unknown, sys : Calls]
  /\ NoRec \in Rec
BY MonitorAssumption DEF Calls, NoCall, NoRec, Rec, Unknown

\* Whose node goes is always a pid.
LEMMA VictimForms ==
  ASSUME TypeOK, ChildOK, cpc \notin {"idle", "ended"}
  PROVE  Victim \subseteq Pids
BY MonitorAssumption, CallForms DEF TypeOK, ChildOK, Victim, Pids, Procs, Unknown

\* The guest's list as the walk lemmas need it.
LEMMA ListForms ==
  ASSUME TypeOK
  PROVE  OnList \in SUBSET Procs /\ after \in [Procs -> 0 .. MaxPid] /\ at \in 0 .. MaxPid
BY DEF TypeOK, OnList

\* The walk is where it was as long as the list, its node and the round stand still.
LEMMA WalkKept ==
  ASSUME WalkOK, UNCHANGED <<live, hidden, nextPid, after, at, fpc>>,
         Met \subseteq Met', left \subseteq left'
  PROVE  WalkOK'
<1>1. Ahead' = Ahead /\ OnList' = OnList /\ Known' = Known
  BY AheadIsIn, AheadIsInNext DEF OnList, Known
<1>. QED BY <1>1 DEF WalkOK

\* A linked task goes off the list.
LEMMA UnlinkKeeps ==
  ASSUME TypeOK, History, GuestOK, WalkOK, BeforeOK, NEW u \in OnList, Unlinked(u),
         OnList' = OnList \ {u}, UNCHANGED <<nextPid, left, fpc, at, rows, list, seen, before, torn>>,
         Met \subseteq Met', live' \subseteq live, hidden' \subseteq hidden \union {u},
         live \subseteq live' \union silent' \union left', silent \subseteq silent'
  PROVE  after' \in [Procs -> 0 .. MaxPid] /\ GuestOK' /\ WalkOK' /\ BeforeOK'
<1>1. /\ OnList \in SUBSET Procs /\ after \in [Procs -> 0 .. MaxPid] /\ at \in 0 .. MaxPid
      /\ u \in Procs /\ u \in Known
  BY ListForms DEF OnList, GuestOK
<1>2. after' = [after EXCEPT ![u] = NextIn(OnList, after, u)]
  BY NextIsIn DEF Unlinked
<1>3. NextIn(OnList, after, u) \in 0 .. MaxPid /\ NextIn(OnList, after, u) \in OnList \union {0}
  <2>1. u \in 0 .. MaxPid
    BY <1>1, PidForms
  <2>. QED BY <1>1, <2>1, NextForms DEF IsNext
<1>4. after' \in [Procs -> 0 .. MaxPid]
  BY <1>1, <1>2, <1>3
<1>5. GuestOK'
  <2>1. \A p \in Procs : p \in OnList' \/ p \notin Known' => after'[p] = 0
    BY <1>1, <1>2 DEF GuestOK, Known
  <2>2. Known' = Known
    BY DEF Known
  <2>. QED BY <1>1, <2>1, <2>2 DEF GuestOK
<1>6. WalkOK'
  <2>1. Ahead \ {u} \subseteq Ahead'
    BY <1>1, <1>2, UnlinkAhead, AheadIsIn, AheadIsInNext
  <2>2. Known' = Known
    BY DEF Known
  <2>. QED BY <2>1, <2>2 DEF WalkOK
<1>7. BeforeOK'
  <2>1. NextIn(OnList, after, u) \notin before.off
    BY <1>3, PidForms DEF BeforeOK, History
  <2>2. \A p \in Procs \ before.off : after'[p] \notin before.off
    BY <1>1, <1>2, <2>1 DEF BeforeOK
  <2>3. Known' = Known
    BY DEF Known
  <2>. QED BY <2>2, <2>3 DEF BeforeOK
<1>. QED BY <1>4, <1>5, <1>6, <1>7

\* What a rewrite of the file does to a reading of it.
LEMMA RewriteForms ==
  ASSUME torn \in BOOLEAN, whole \in BOOLEAN, fpc = "reading" => torn \/ whole,
         (NoRewrite /\ list' = list) \/ Rewrite
  PROVE  /\ torn' \in BOOLEAN /\ (torn => torn') /\ (fpc # "reading" => torn' = torn)
         /\ whole' \in BOOLEAN /\ listFile' = listFile /\ (whole' => whole /\ list' = list)
         /\ (fpc = "reading" => torn' \/ whole')
<1>1. CASE NoRewrite /\ list' = list
  BY <1>1 DEF NoRewrite
<1>2. CASE Rewrite /\ fpc = "reading"
  BY <1>2 DEF Rewrite
<1>3. CASE Rewrite /\ fpc # "reading"
  <2>1. whole' = FALSE /\ listFile' = listFile
    BY <1>3 DEF Rewrite
  <2>2. torn' = torn
    BY <1>3 DEF Rewrite
  <2>. QED BY <1>3, <2>1, <2>2
<1>. QED BY <1>1, <1>2, <1>3

\* When the father starts, the tables and files are as initPs left them.
LEMMA InitIInv == Init => IInv
<1>. SUFFICES ASSUME Init PROVE IInv
  OBVIOUS
<1>1. TypeOK
  BY CallForms, MonitorAssumption DEF Init, TypeOK, Procs, Pids, Unknown
<1>2. History
  <2>1. live \in SUBSET Pids
    BY MonitorAssumption DEF Init, Procs, Pids, Unknown
  <2>2. before \in [off : SUBSET Procs, list : SUBSET Pids]
    BY <2>1 DEF Init
  <2>. QED BY <2>2 DEF Init, History
<1>3. GuestOK /\ ChildOK /\ ListOK /\ RoundOK
  BY MonitorAssumption DEF Init, GuestOK, ChildOK, ListOK, RoundOK, Known
<1>4. WalkOK /\ SeenOK /\ PipeOK
  <2>1. OnList \subseteq Ahead
    BY <1>1, ListForms, AheadOfHead, AheadIsIn DEF Init
  <2>. QED BY <2>1 DEF Init, WalkOK, SeenOK, PipeOK, After
<1>5. ExitOK /\ ReadOK
  BY DEF Init, ExitOK, ReadOK, Pending
<1>6. BeforeOK /\ LossExplained /\ NoFalseAlarm /\ HiddenIsReported
  BY <1>1 DEF Init, BeforeOK, LossExplained, NoFalseAlarm, HiddenIsReported, After
<1>. QED BY <1>1, <1>2, <1>3, <1>4, <1>5, <1>6 DEF IInv

\* A new process is ahead of the walk, or born late, and has nothing in the pipe.
LEMMA ForkIInv == ASSUME IInv, Fork PROVE IInv'
<1>0. /\ nextPid \in Procs /\ nextPid \notin Known /\ Known' = Known \union {nextPid}
      /\ OnList \subseteq Known /\ OnList' = OnList \union {nextPid}
      /\ \A q \in Known : q < nextPid
  <2>1. nextPid \in Procs /\ nextPid \notin Known /\ Known' = Known \union {nextPid}
    BY MonitorAssumption DEF IInv, Fork, TypeOK, Known, Procs
  <2>2. \A q \in Known : q < nextPid
    BY DEF IInv, TypeOK, Known
  <2>. QED BY <2>1, <2>2 DEF IInv, Fork, GuestOK, OnList
<1>1. TypeOK'
  <2>1. nextPid' \in 1 .. MaxPid + 1
    BY MonitorAssumption DEF IInv, Fork, TypeOK
  <2>. QED BY <1>0, <2>1 DEF IInv, Fork, TypeOK, child, father
<1>2. GuestOK' /\ ListOK' /\ RoundOK'
  <2>1. GuestOK'
    BY <1>0 DEF IInv, Fork, GuestOK
  <2>. QED BY <1>0, <2>1 DEF IInv, Fork, ListOK, RoundOK, child, father
<1>3. WalkOK' /\ SeenOK'
  <2>1. at' = at /\ fpc' = fpc /\ left' = left /\ seen' = seen /\ after' = after /\ torn' = torn
    BY DEF Fork, child, father
  <2>2. Met \subseteq Met' /\ ((fpc = "walk" /\ nextPid \in Ahead') \/ nextPid \in Met')
    BY DEF Fork, Met, child, father
  <2>3. Ahead \subseteq Ahead'
    <3>1. TypeOK /\ after[nextPid] = 0
      BY <1>0 DEF IInv, GuestOK
    <3>2. \A q \in OnList : q < nextPid
      BY <1>0
    <3>3. nextPid \in Procs \ OnList
      BY <1>0
    <3>. QED BY <1>0, <2>1, <3>1, <3>2, <3>3, ListForms, LinkAhead, AheadIsIn, AheadIsInNext
  <2>4. WalkOK'
    <3>1. WalkOK
      BY DEF IInv
    <3>2. fpc' = "walk" => OnList' \subseteq Met' \union Ahead'
      BY <1>0, <2>1, <2>2, <2>3, <3>1 DEF WalkOK
    <3>3. fpc' \in After => Known' \ Met' \subseteq left'
      BY <1>0, <2>1, <2>2, <3>1 DEF WalkOK, After
    <3>. QED BY <3>2, <3>3 DEF WalkOK
  <2>5. SeenOK'
    BY <2>1, <2>2 DEF IInv, SeenOK, After
  <2>. QED BY <2>4, <2>5
<1>4. ~Pending(nextPid)
  <2>1. nextPid \in Nat /\ nextPid <= MaxPid /\ MaxPid \in Nat
    BY MonitorAssumption DEF IInv, Fork, TypeOK
  <2>2. nextPid \notin Known \union {Unknown}
    BY <2>1 DEF Known, Unknown
  <2>. QED BY <2>2 DEF IInv, PipeOK, Pending
<1>5. PipeOK'
  BY DEF IInv, Fork, TypeOK, PipeOK, Known, child, father
<1>6. ASSUME NEW p \in Known', Pending(p)' PROVE p \in Known /\ Pending(p)
  BY <1>4, <1>6 DEF IInv, Fork, TypeOK, Pending, Known
<1>7. ExitOK'
  BY <1>6 DEF IInv, Fork, ExitOK, Going, Appended, child, father
<1>8. ReadOK'
  BY <1>6 DEF IInv, Fork, ReadOK, Met, child, father
<1>9. BeforeOK' /\ LossExplained' /\ NoFalseAlarm' /\ HiddenIsReported'
  <2>1. BeforeOK'
    BY <1>0 DEF IInv, Fork, BeforeOK, After, child, father
  <2>. QED BY <1>1, <2>1 DEF IInv, Fork, LossExplained, NoFalseAlarm, HiddenIsReported, child, father
<1>10. History' /\ ChildOK'
  BY MonitorAssumption DEF IInv, Fork, TypeOK, History, ChildOK, child, father, Procs
<1>. QED BY <1>1, <1>2, <1>3, <1>5, <1>7, <1>8, <1>9, <1>10 DEF IInv

\* To be hidden is an excuse.
LEMMA HideIInv == ASSUME IInv, NEW p \in Procs, Hide(p) PROVE IInv'
<1>0. after' \in [Procs -> 0 .. MaxPid] /\ GuestOK' /\ WalkOK' /\ BeforeOK'
  <2>1. /\ p \in OnList /\ Unlinked(p) /\ OnList' = OnList \ {p}
        /\ UNCHANGED <<nextPid, left, fpc, at, rows, list, seen, before, torn>>
        /\ live' = live /\ hidden' = hidden \union {p} /\ Met \subseteq Met' /\ silent' = silent
    BY DEF Hide, OnList, Met, child, father, history
  <2>. QED BY <2>1, UnlinkKeeps DEF IInv
<1>1. TypeOK' /\ History'
  BY <1>0 DEF IInv, Hide, TypeOK, History, child, father, history
<1>2. ChildOK' /\ ListOK' /\ RoundOK' /\ PipeOK'
  BY DEF IInv, Hide, ChildOK, ListOK, RoundOK, PipeOK, Known, child, father, history
<1>3. SeenOK'
  BY DEF IInv, Hide, SeenOK, Met, After, child, father, history
<1>4. ExitOK' /\ ReadOK'
  BY DEF IInv, Hide, ExitOK, ReadOK, Known, Met, Pending, Going, Appended, child, father, history
<1>5. LossExplained' /\ NoFalseAlarm' /\ HiddenIsReported'
  BY <1>1 DEF IInv, Hide, LossExplained, NoFalseAlarm, HiddenIsReported, child, father, history
<1>. QED BY <1>0, <1>1, <1>2, <1>3, <1>4, <1>5 DEF IInv

\* So is to die silently.
LEMMA DieIInv == ASSUME IInv, NEW p \in Procs, Die(p) PROVE IInv'
<1>0. after' \in [Procs -> 0 .. MaxPid] /\ GuestOK' /\ WalkOK' /\ BeforeOK'
  <2>1. /\ p \in live /\ UNCHANGED <<nextPid, left, fpc, at, rows, list, seen, before, torn>>
        /\ live' = live \ {p} /\ hidden' = hidden /\ Met \subseteq Met' /\ silent \subseteq silent'
        /\ live \subseteq live' \union silent' \union left'
    BY DEF Die, Met, child, father
  <2>2. CASE p \in hidden
    <3>1. UNCHANGED <<after, OnList>>
      BY <2>1, <2>2 DEF Die, OnList
    <3>2. Known' = Known /\ Ahead' = Ahead
      BY <2>1, <3>1, AheadIsIn, AheadIsInNext DEF Known
    <3>. QED BY <2>1, <3>1, <3>2 DEF IInv, TypeOK, GuestOK, WalkOK, BeforeOK
  <2>3. CASE p \notin hidden
    <3>1. p \in OnList /\ Unlinked(p) /\ OnList' = OnList \ {p}
      BY <2>1, <2>3 DEF Die, OnList
    <3>. QED BY <2>1, <3>1, UnlinkKeeps DEF IInv
  <2>. QED BY <2>2, <2>3
<1>1. TypeOK' /\ History'
  BY <1>0 DEF IInv, Die, TypeOK, History, child, father
<1>2. ChildOK' /\ ListOK' /\ RoundOK' /\ PipeOK'
  BY DEF IInv, Die, ChildOK, ListOK, RoundOK, PipeOK, Known, child, father
<1>3. SeenOK'
  BY DEF IInv, Die, SeenOK, Met, After, child, father
<1>4. ExitOK' /\ ReadOK'
  BY DEF IInv, Die, ExitOK, ReadOK, Known, Met, Pending, Going, Appended, child, father
<1>5. LossExplained' /\ NoFalseAlarm' /\ HiddenIsReported'
  BY <1>1 DEF IInv, Die, LossExplained, NoFalseAlarm, HiddenIsReported, child, father
<1>. QED BY <1>0, <1>1, <1>2, <1>3, <1>4, <1>5 DEF IInv

-----------------------------------------------------------------------------
(***************************************************************************)
(* The child.  Only AppendExit and WritePipe reach what the father reads   *)
(* of processes that leave.                                                *)
(***************************************************************************)
\* A call begins; the caller that had no node gets one.
LEMMA TrapIInv == ASSUME IInv, NEW p \in Procs, NEW sys \in Calls, Trap(p, sys) PROVE IInv'
<1>1. CallerPid(p) \in {p, Unknown} /\ (CallerPid(p) = Unknown => p \in hidden /\ p \notin list)
  BY MonitorAssumption DEF CallerPid, Procs, Unknown
<1>2. /\ p \in live \ left /\ call' = [who |-> p, pid |-> CallerPid(p), sys |-> sys]
      /\ cpc = "idle" /\ cpc' \in {"record", "added"}
      /\ list' \in {list, list \union {CallerPid(p)}} /\ (p \in list => list' = list)
      /\ (NoRewrite /\ list' = list) \/ Rewrite
      /\ UNCHANGED <<live, hidden, nextPid, after, left, exitFile, pipe, father>>
      /\ UNCHANGED <<bornLate, silent, dropped, missed, before>>
  BY DEF Trap
<1>0. /\ torn' \in BOOLEAN /\ (torn => torn') /\ (fpc # "reading" => torn' = torn)
      /\ whole' \in BOOLEAN /\ listFile' = listFile /\ (whole' => whole /\ list' = list)
      /\ (fpc = "reading" => torn' \/ whole')
  BY <1>2, RewriteForms DEF IInv, TypeOK, History, ListOK
<1>3. TypeOK' /\ History'
  <2>1. call' \in [who : 0 .. MaxPid, pid : 0 .. Unknown, sys : Calls]
    BY <1>1, <1>2, MonitorAssumption DEF Procs, Unknown
  <2>2. calls' \in 0 .. MaxCalls
    BY MonitorAssumption DEF IInv, TypeOK, Trap
  <2>3. list' \subseteq Pids
    BY <1>1, <1>2 DEF IInv, TypeOK, Pids
  <2>. QED BY <1>0, <1>2, <2>1, <2>2, <2>3 DEF IInv, TypeOK, History, father
<1>4. GuestOK' /\ RoundOK' /\ PipeOK'
  BY <1>2 DEF IInv, GuestOK, RoundOK, PipeOK, Known, OnList, father
<1>5. ChildOK'
  BY <1>1, <1>2, MonitorAssumption DEF IInv, ChildOK, Procs, Unknown
<1>6. ListOK'
  <2>1. CallerPid(p) \in Known \union {Unknown} /\ CallerPid(p) \notin left
    BY <1>1, <1>2, MonitorAssumption DEF IInv, GuestOK, TypeOK, Procs, Unknown
  <2>. QED BY <1>0, <1>2, <2>1 DEF IInv, ListOK, Known, father
<1>7. WalkOK' /\ SeenOK'
  <2>1. Met' = Met /\ UNCHANGED <<live, hidden, nextPid, after, at, fpc, left, seen>>
    BY <1>2 DEF Met, father
  <2>. QED BY <1>0, <2>1, WalkKept DEF IInv, SeenOK, After
<1>8. ExitOK' /\ ReadOK'
  BY <1>2 DEF IInv, ExitOK, ReadOK, Known, Met, Pending, Going, Appended, father
<1>9. BeforeOK' /\ LossExplained' /\ NoFalseAlarm' /\ HiddenIsReported'
  <2>1. BeforeOK'
    BY <1>0, <1>2 DEF IInv, BeforeOK, After, Known, OnList, father
  <2>. QED BY <1>0, <1>2, <1>3, <2>1 DEF IInv, LossExplained, NoFalseAlarm, HiddenIsReported, father
<1>. QED BY <1>3, <1>4, <1>5, <1>6, <1>7, <1>8, <1>9 DEF IInv

\* The file is complete again.
LEMMA SaveAddedIInv == ASSUME IInv, SaveAdded PROVE IInv'
<1>1. TypeOK' /\ History'
  BY DEF IInv, SaveAdded, Close, TypeOK, History, guest, father, history
<1>2. GuestOK' /\ ChildOK' /\ ListOK' /\ RoundOK' /\ PipeOK'
  BY DEF IInv, SaveAdded, Close, GuestOK, ChildOK, ListOK, RoundOK, PipeOK, Known, OnList, guest, father, history
<1>3. WalkOK' /\ SeenOK'
  <2>1. Met' = Met /\ UNCHANGED <<live, hidden, nextPid, after, at, fpc, left>>
    BY DEF SaveAdded, Met, guest, father, history
  <2>. QED BY <2>1, WalkKept DEF IInv, SaveAdded, SeenOK, After, father, history
<1>4. ExitOK' /\ ReadOK'
  BY DEF IInv, SaveAdded, ExitOK, ReadOK, Known, Met, Pending, Going, Appended, guest, father, history
<1>5. BeforeOK' /\ LossExplained' /\ NoFalseAlarm' /\ HiddenIsReported'
  <2>1. BeforeOK'
    BY DEF IInv, SaveAdded, BeforeOK, After, Known, OnList, guest, father, history
  <2>. QED BY <1>1, <2>1 DEF IInv, SaveAdded, LossExplained, NoFalseAlarm, HiddenIsReported, guest, father, history
<1>. QED BY <1>1, <1>2, <1>3, <1>4, <1>5 DEF IInv

\* The caller of exit_group loses its node here, before its last record.
LEMMA RecordIInv == ASSUME IInv, record_syscall PROVE IInv'
<1>1. /\ cpc = "record" /\ list' = list \ Victim /\ cpc' \in {"write", "deleted", "append"}
      /\ (NoRewrite /\ list' = list) \/ Rewrite
      /\ cpc' = "write" => Victim = {}
      /\ UNCHANGED <<guest, call, exitFile, pipe, father, bornLate, silent, dropped, missed>>
  BY DEF record_syscall
<1>0. /\ torn' \in BOOLEAN /\ (torn => torn') /\ (fpc # "reading" => torn' = torn)
      /\ whole' \in BOOLEAN /\ listFile' = listFile /\ (whole' => whole /\ list' = list)
      /\ (fpc = "reading" => torn' \/ whole')
  BY <1>1, RewriteForms DEF IInv, TypeOK, History, ListOK
<1>2. before' = [before EXCEPT !.list = before.list \intersect list']
  BY DEF record_syscall, Kept
<1>3. before'.off = before.off /\ before'.list = before.list \intersect list'
  BY <1>2 DEF IInv, History
<1>4. TypeOK' /\ History'
  <2>1. before' \in [off : SUBSET Procs, list : SUBSET Pids]
    BY <1>2 DEF IInv, History
  <2>. QED BY <1>0, <1>1, <2>1 DEF IInv, TypeOK, History, guest, father
<1>5. GuestOK' /\ RoundOK' /\ PipeOK'
  BY <1>1 DEF IInv, GuestOK, RoundOK, PipeOK, Known, OnList, guest, father
<1>6. ChildOK' /\ ListOK'
  <2>1. call.sys[1] = "exit_group" => Victim = {call.pid}
    BY DEF Victim
  <2>2. list' \subseteq list /\ cpc \notin {"idle", "ended"} /\ UNCHANGED <<guest, call>>
    BY <1>1
  <2>3. call.sys[1] = "exit_group" => call.who \notin list'
    BY <1>1, <2>1, <2>2 DEF IInv, ChildOK
  <2>4. ChildOK'
    BY <2>2, <2>3 DEF IInv, ChildOK, guest
  <2>5. ListOK'
    <3>1. whole' => listFile' = list'
      BY <1>0 DEF IInv, ListOK
    <3>. QED BY <1>0, <1>1, <2>2, <3>1 DEF IInv, ListOK, Known, guest, father
  <2>. QED BY <2>4, <2>5
<1>7. WalkOK' /\ SeenOK'
  <2>1. Met' = Met /\ UNCHANGED <<live, hidden, nextPid, after, at, fpc, left, seen>>
    BY <1>1 DEF Met, guest, father
  <2>. QED BY <1>0, <2>1, WalkKept DEF IInv, SeenOK, After
<1>8. ExitOK' /\ ReadOK'
  <2>1. cpc' = "write" => call.sys[1] # "exit_group"
    BY <1>1 DEF Victim
  <2>. QED BY <1>1, <2>1 DEF IInv, ExitOK, ReadOK, Known, Met, Pending, Going, Appended, guest, father
<1>9. BeforeOK' /\ LossExplained' /\ NoFalseAlarm' /\ HiddenIsReported'
  <2>1. BeforeOK'
    BY <1>0, <1>1, <1>3 DEF IInv, BeforeOK, After, Known, OnList, guest, father
  <2>. QED BY <1>0, <1>1, <1>3, <1>4, <2>1 DEF IInv, LossExplained, NoFalseAlarm, HiddenIsReported, guest, father
<1>. QED BY <1>4, <1>5, <1>6, <1>7, <1>8, <1>9 DEF IInv

\* The file is complete again, without the victim.
LEMMA SaveDeletedIInv == ASSUME IInv, SaveDeleted PROVE IInv'
<1>1. TypeOK' /\ History'
  BY DEF IInv, SaveDeleted, Close, TypeOK, History, guest, father, history
<1>2. GuestOK' /\ ChildOK' /\ ListOK' /\ RoundOK' /\ PipeOK'
  BY DEF IInv, SaveDeleted, Close, GuestOK, ChildOK, ListOK, RoundOK, PipeOK, Known, OnList, guest, father, history
<1>3. WalkOK' /\ SeenOK'
  <2>1. Met' = Met /\ UNCHANGED <<live, hidden, nextPid, after, at, fpc, left>>
    BY DEF SaveDeleted, Met, guest, father, history
  <2>. QED BY <2>1, WalkKept DEF IInv, SaveDeleted, SeenOK, After, father, history
<1>4. ExitOK' /\ ReadOK'
  BY DEF IInv, SaveDeleted, ExitOK, ReadOK, Known, Met, Pending, Going, Appended, guest, father, history
<1>5. BeforeOK' /\ LossExplained' /\ NoFalseAlarm' /\ HiddenIsReported'
  <2>1. BeforeOK'
    BY DEF IInv, SaveDeleted, BeforeOK, After, Known, OnList, guest, father, history
  <2>. QED BY <1>1, <2>1 DEF IInv, SaveDeleted, LossExplained, NoFalseAlarm, HiddenIsReported, guest, father, history
<1>. QED BY <1>1, <1>2, <1>3, <1>4, <1>5 DEF IInv

\* From here on the caller of exit_group is going, and has its exit record.
LEMMA AppendExitIInv == ASSUME IInv, AppendExit PROVE IInv'
<1>1. TypeOK' /\ History'
  <2>1. exitFile' \subseteq Pids
    BY VictimForms DEF IInv, AppendExit, TypeOK
  <2>. QED BY <2>1 DEF IInv, AppendExit, TypeOK, History, guest, father, history
<1>2. GuestOK' /\ ChildOK' /\ ListOK' /\ RoundOK' /\ PipeOK'
  BY DEF IInv, AppendExit, GuestOK, ChildOK, ListOK, RoundOK, PipeOK, Known, OnList, guest, father, history
<1>3. WalkOK' /\ SeenOK'
  <2>1. Met' = Met /\ UNCHANGED <<live, hidden, nextPid, after, at, fpc, left>>
    BY DEF AppendExit, Met, guest, father, history
  <2>. QED BY <2>1, WalkKept DEF IInv, AppendExit, SeenOK, After, father, history
<1>4. ExitOK'
  <2>1. ASSUME NEW p \in Known', Going(p)' PROVE Going(p) \/ p \in exitFile' \union hidden
    BY <2>1 DEF IInv, AppendExit, ChildOK, Going, Victim, guest
  <2>. QED BY <2>1 DEF IInv, AppendExit, ExitOK, Known, Pending, Appended, guest, father, history
<1>5. ReadOK'
  BY DEF IInv, AppendExit, ReadOK, Known, Met, Pending, guest, father, history
<1>6. BeforeOK' /\ LossExplained' /\ NoFalseAlarm' /\ HiddenIsReported'
  <2>1. BeforeOK'
    BY DEF IInv, AppendExit, BeforeOK, After, Known, OnList, guest, father, history
  <2>. QED BY <1>1, <2>1 DEF IInv, AppendExit, LossExplained, NoFalseAlarm, HiddenIsReported, guest, father, history
<1>. QED BY <1>1, <1>2, <1>3, <1>4, <1>5, <1>6 DEF IInv

\* The record follows the exit record; it is pending only if it is no exit_group,
\* and then of a process that has not left.
LEMMA WritePipeIInv == ASSUME IInv, WritePipe PROVE IInv'
<1>. DEFINE rec == [pid |-> call.pid, sys |-> call.sys[1]]
<1>1. /\ cpc = "write" /\ cpc' = "idle" /\ call' = NoCall
      /\ Len(pipe) < PipeCap /\ pipe' = Append(pipe, rec)
      /\ left' = IF call.sys[1] = "exit_group" THEN left \union {call.who} ELSE left
      /\ UNCHANGED <<live, hidden, nextPid, after, calls, list, listFile, whole, exitFile, father, history>>
  BY DEF WritePipe
<1>2. /\ call.who \in Known \ left /\ call.who \in live /\ call.pid \in {call.who, Unknown}
      /\ call.sys[1] = "exit_group" => call.who \notin list
  BY <1>1 DEF IInv, ChildOK, GuestOK
<1>3. rec \in Rec
  BY CallForms DEF IInv, TypeOK, Rec
<1>4. /\ Len(pipe') = Len(pipe) + 1 /\ pipe' \in Seq(Rec) /\ Len(pipe) \in Nat
      /\ \A i \in 1 .. Len(pipe) : pipe'[i] = pipe[i]
      /\ pipe'[Len(pipe) + 1] = rec
  BY <1>1, <1>3 DEF IInv, TypeOK
<1>5. TypeOK' /\ History'
  <2>1. left' \subseteq Procs
    BY <1>1, <1>2 DEF IInv, TypeOK
  <2>2. Len(pipe') <= PipeCap
    BY <1>1, <1>4, MonitorAssumption
  <2>. QED BY <1>1, <1>4, <2>1, <2>2, CallForms DEF IInv, TypeOK, History, father, history
<1>6. GuestOK' /\ ChildOK' /\ RoundOK'
  BY <1>1 DEF IInv, GuestOK, ChildOK, RoundOK, Known, OnList, father, history
<1>7. ListOK'
  BY <1>1, <1>2 DEF IInv, ListOK, Known, father, history
<1>8. WalkOK' /\ SeenOK'
  <2>1. Met' = Met /\ left \subseteq left' /\ UNCHANGED <<live, hidden, nextPid, after, at, fpc, seen, torn>>
    BY <1>1 DEF Met, father, history
  <2>. QED BY <2>1, WalkKept DEF IInv, SeenOK, After
<1>9. PipeOK'
  BY <1>1, <1>2, <1>4 DEF IInv, PipeOK, Known
<1>10. ASSUME NEW p \in Known, Pending(p)'
       PROVE  Pending(p) \/ (p = call.who /\ call.sys[1] # "exit_group")
  <2>1. PICK i \in 1 .. Len(pipe') : pipe'[i].pid = p /\ pipe'[i].sys # "exit_group"
    BY <1>10 DEF Pending
  <2>2. CASE i = Len(pipe) + 1
    <3>1. call.pid = p /\ call.sys[1] # "exit_group"
      BY <1>4, <2>1, <2>2
    <3>2. p # Unknown
      BY MonitorAssumption DEF IInv, TypeOK, Known, Unknown
    <3>. QED BY <1>2, <3>1, <3>2
  <2>3. CASE i \in 1 .. Len(pipe)
    BY <1>4, <2>1, <2>3 DEF Pending
  <2>. QED BY <1>4, <2>2, <2>3
<1>11. ExitOK'
  <2>1. ASSUME NEW p \in Known, Going(p)', p # call.who \/ call.sys[1] = "exit_group" PROVE Going(p)
    BY <1>1, <2>1 DEF Going
  <2>2. ASSUME NEW p \in Known, Going(p)', p = call.who PROVE call.sys[1] = "exit_group"
    BY <1>1, <1>2, <2>2 DEF Going
  <2>. QED BY <1>1, <1>10, <2>1, <2>2 DEF IInv, ExitOK, Known, Appended, father, history
<1>12. ReadOK'
  <2>1. fpc \in {"emptyexit", "drain"} => call.who \in Met
    BY <1>2 DEF IInv, WalkOK, After
  <2>. QED BY <1>1, <1>10, <2>1 DEF IInv, ReadOK, Known, Met, father, history
<1>13. BeforeOK' /\ LossExplained' /\ NoFalseAlarm' /\ HiddenIsReported'
  <2>1. BeforeOK'
    BY <1>1 DEF IInv, BeforeOK, After, Known, OnList, father, history
  <2>. QED BY <1>1, <1>5, <2>1 DEF IInv, LossExplained, NoFalseAlarm, HiddenIsReported, father, history
<1>. QED BY <1>5, <1>6, <1>7, <1>8, <1>9, <1>11, <1>12, <1>13 DEF IInv

\* What the child held goes with it: no list, an empty file, a lost record.
LEMMA EndIInv == ASSUME IInv, End PROVE IInv'
<1>1. /\ cpc' = "ended" /\ call' = NoCall /\ list' = {} /\ listFile' = {} /\ whole' = TRUE
      /\ torn' = (torn \/ fpc = "reading")
      /\ UNCHANGED <<guest, exitFile, pipe, father, bornLate, silent, dropped, missed>>
  BY DEF End
<1>0. torn' \in BOOLEAN /\ (torn => torn') /\ (fpc # "reading" => torn' = torn)
  BY <1>1 DEF IInv, History
<1>2. before' = [before EXCEPT !.list = {}]
  BY <1>1 DEF End, Kept
<1>3. before'.off = before.off /\ before'.list = {}
  BY <1>2 DEF IInv, History
<1>4. TypeOK' /\ History'
  <2>1. before' \in [off : SUBSET Procs, list : SUBSET Pids]
    BY <1>2 DEF IInv, History
  <2>. QED BY <1>0, <1>1, <2>1, CallForms DEF IInv, TypeOK, History, guest, father
<1>5. GuestOK' /\ RoundOK' /\ PipeOK' /\ ChildOK' /\ ListOK'
  BY <1>1 DEF IInv, GuestOK, RoundOK, PipeOK, ChildOK, ListOK, Known, OnList, guest, father
<1>6. WalkOK' /\ SeenOK'
  <2>1. Met' = Met /\ UNCHANGED <<live, hidden, nextPid, after, at, fpc, left, seen>>
    BY <1>1 DEF Met, guest, father
  <2>. QED BY <1>0, <2>1, WalkKept DEF IInv, SeenOK, After
<1>7. ExitOK' /\ ReadOK'
  BY <1>1 DEF IInv, ExitOK, ReadOK, Known, Met, Pending, Going, Appended, guest, father
<1>8. BeforeOK' /\ LossExplained' /\ NoFalseAlarm' /\ HiddenIsReported'
  <2>1. BeforeOK'
    BY <1>1, <1>3 DEF IInv, BeforeOK, After, Known, OnList, guest, father
  <2>. QED BY <1>0, <1>1, <1>3, <1>4, <2>1 DEF IInv, LossExplained, NoFalseAlarm, HiddenIsReported, guest, father
<1>. QED BY <1>4, <1>5, <1>6, <1>7, <1>8 DEF IInv

-----------------------------------------------------------------------------
(***************************************************************************)
(* The father.                                                             *)
(***************************************************************************)
\* The walk comes to everybody who is on the list and was not born late.
LEMMA WalkIInv == ASSUME IInv, Walk PROVE IInv'
<1>1. /\ fpc = "walk" /\ at' = NextOf(at) /\ NextOf(at) = NextIn(OnList, after, at)
      /\ UNCHANGED <<guest, child, exitFile, pipe, round, seen, exits, warned, history>>
  BY NextIsIn DEF Walk
<1>2. OnList \in SUBSET Procs /\ after \in [Procs -> 0 .. MaxPid] /\ at \in 0 .. MaxPid
  BY ListForms DEF IInv
<1>3. at' \in 0 .. MaxPid /\ (at \in Procs \ OnList => at' = after[at])
      /\ (at \notin Procs \ OnList => at' \in OnList \union {0})
  BY <1>1, <1>2, NextForms DEF IsNext
<1>4. UNCHANGED <<OnList, Known>>
  BY <1>1 DEF OnList, Known, guest
<1>5. at' \notin before.off
  BY <1>2, <1>3, PidForms DEF IInv, BeforeOK, History
<1>6. CASE at' = 0
  <2>1. fpc' = "readps" /\ rows' = rows
    BY <1>6 DEF Walk
  <2>2. TypeOK' /\ History'
    BY <1>1, <1>3, <2>1 DEF IInv, TypeOK, History, guest, child, history
  <2>3. GuestOK' /\ ChildOK' /\ ListOK' /\ RoundOK' /\ PipeOK'
    BY <1>1, <1>4, <1>6, <2>1 DEF IInv, GuestOK, ChildOK, ListOK, RoundOK, PipeOK, guest, child, history
  <2>4. WalkOK' /\ SeenOK'
    <3>1. Ahead = {}
      BY <1>1, <1>2, <1>6, StepAhead, AheadIsIn
    <3>2. Known \ Met \subseteq left
      BY <1>1, <3>1 DEF IInv, GuestOK, WalkOK, OnList, Met
    <3>3. Met' = Met /\ left' = left
      BY <1>1, <2>1 DEF Met, guest, history
    <3>. QED BY <1>4, <2>1, <3>2, <3>3 DEF WalkOK, SeenOK, After
  <2>5. ExitOK' /\ ReadOK'
    BY <1>1, <1>4, <2>1 DEF IInv, ExitOK, ReadOK, Pending, Going, Appended, guest, child, history
  <2>6. BeforeOK' /\ LossExplained' /\ NoFalseAlarm' /\ HiddenIsReported'
    <3>1. BeforeOK'
      BY <1>1, <1>4, <1>5, <2>1 DEF IInv, BeforeOK, After, guest, child, history
    <3>. QED BY <1>1, <2>1, <2>2, <3>1 DEF IInv, LossExplained, NoFalseAlarm, HiddenIsReported, guest, history
  <2>. QED BY <2>2, <2>3, <2>4, <2>5, <2>6 DEF IInv
<1>7. CASE at' # 0
  <2>1. fpc' = fpc /\ rows' = rows \union {at'} /\ at' \in Procs
    BY <1>3, <1>7, PidForms DEF Walk
  <2>2. TypeOK' /\ History'
    BY <1>1, <1>3, <2>1 DEF IInv, TypeOK, History, guest, child, history
  <2>3. GuestOK' /\ ChildOK' /\ ListOK' /\ RoundOK' /\ PipeOK'
    BY <1>1, <1>4, <2>1 DEF IInv, GuestOK, ChildOK, ListOK, RoundOK, PipeOK, guest, child, history
  <2>4. WalkOK' /\ SeenOK'
    <3>1. Ahead \subseteq {at'} \union Ahead'
      <4>1. Ahead' = AheadIn(OnList, after, at')
        BY <1>1, <1>4, AheadIsInNext DEF guest
      <4>. QED BY <1>1, <1>2, <4>1, StepAhead, AheadIsIn
    <3>2. Met' = Met \union {at'}
      BY <1>1, <2>1 DEF Met, guest, history
    <3>. QED BY <1>1, <1>4, <2>1, <3>1, <3>2 DEF IInv, WalkOK, SeenOK, After
  <2>5. ExitOK' /\ ReadOK'
    BY <1>1, <1>4, <2>1 DEF IInv, ExitOK, ReadOK, Pending, Going, Appended, guest, child, history
  <2>6. BeforeOK' /\ LossExplained' /\ NoFalseAlarm' /\ HiddenIsReported'
    <3>1. BeforeOK'
      BY <1>1, <1>4, <1>5, <2>1 DEF IInv, BeforeOK, After, guest, child, history
    <3>. QED BY <1>1, <2>1, <2>2, <3>1 DEF IInv, LossExplained, NoFalseAlarm, HiddenIsReported, guest, history
  <2>. QED BY <2>2, <2>3, <2>4, <2>5, <2>6 DEF IInv
<1>. QED BY <1>6, <1>7

\* From here on the child's writing is noticed.
LEMMA OpenPsListIInv == ASSUME IInv, OpenPsList PROVE IInv'
<1>1. /\ fpc = "readps" /\ fpc' = "reading" /\ torn' = ~whole
      /\ UNCHANGED <<guest, child, exitFile, pipe, round, at, rows, seen, exits, warned>>
      /\ UNCHANGED <<bornLate, silent, dropped, missed, before>>
  BY DEF OpenPsList
<1>2. TypeOK' /\ History'
  BY <1>1 DEF IInv, TypeOK, History, guest, child
<1>3. GuestOK' /\ ChildOK' /\ ListOK' /\ RoundOK' /\ PipeOK'
  BY <1>1 DEF IInv, TypeOK, GuestOK, ChildOK, ListOK, RoundOK, PipeOK, Known, OnList, guest, child
<1>4. WalkOK' /\ SeenOK'
  BY <1>1 DEF IInv, WalkOK, SeenOK, Known, Met, After, guest
<1>5. ExitOK' /\ ReadOK'
  BY <1>1 DEF IInv, ExitOK, ReadOK, Known, Pending, Going, Appended, guest, child
<1>6. BeforeOK'
  BY <1>1 DEF IInv, BeforeOK, After, Known, OnList, guest, child
<1>7. LossExplained' /\ NoFalseAlarm' /\ HiddenIsReported'
  BY <1>1, <1>2 DEF IInv, RoundOK, LossExplained, NoFalseAlarm, HiddenIsReported, guest
<1>. QED BY <1>2, <1>3, <1>4, <1>5, <1>6, <1>7 DEF IInv

\* The tracer's list has nobody in it the walk missed without an excuse.
LEMMA ReadPsListIInv == ASSUME IInv, ReadPsList PROVE IInv'
<1>1. /\ fpc = "reading" /\ fpc' = "readexit" /\ seen' = (IF torn THEN Pids ELSE listFile)
      /\ UNCHANGED <<guest, child, exitFile, pipe, round, at, rows, exits, warned, history>>
  BY DEF ReadPsList
<1>2. torn \/ seen' = list
  BY <1>1 DEF IInv, ListOK
<1>3. TypeOK' /\ History'
  BY <1>1 DEF IInv, TypeOK, History, guest, child, history
<1>4. GuestOK' /\ ChildOK' /\ ListOK' /\ RoundOK' /\ PipeOK'
  BY <1>1 DEF IInv, GuestOK, ChildOK, ListOK, RoundOK, PipeOK, Known, OnList, guest, child, history
<1>5. WalkOK'
  BY <1>1 DEF IInv, WalkOK, Known, Met, After, guest, history
<1>6. SeenOK'
  <2>1. list \subseteq Met \union {Unknown}
    BY <1>1 DEF IInv, WalkOK, ListOK, After
  <2>. QED BY <1>1, <1>2, <2>1 DEF SeenOK, Met, guest, history
<1>7. ExitOK' /\ ReadOK'
  BY <1>1 DEF IInv, ExitOK, ReadOK, Known, Pending, Going, Appended, guest, child, history
<1>8. BeforeOK'
  BY <1>1, <1>2 DEF IInv, BeforeOK, After, Known, OnList, guest, child, history
<1>9. LossExplained' /\ NoFalseAlarm' /\ HiddenIsReported'
  BY <1>1, <1>3 DEF IInv, LossExplained, NoFalseAlarm, HiddenIsReported, guest, history
<1>. QED BY <1>3, <1>4, <1>5, <1>6, <1>7, <1>8, <1>9 DEF IInv

\* Whoever the walk missed without an excuse has left by now, so that his exit
\* record, which went before his last record in the pipe, is in what is read.
LEMMA ReadExitsIInv == ASSUME IInv, ReadExits PROVE IInv'
<1>1. /\ fpc = "readexit" /\ fpc' = "emptyexit" /\ exits' = exitFile
      /\ UNCHANGED <<guest, child, exitFile, pipe, round, at, rows, seen, warned, history>>
  BY DEF ReadExits
<1>2. TypeOK' /\ History'
  BY <1>1 DEF IInv, TypeOK, History, guest, child, history
<1>3. GuestOK' /\ ChildOK' /\ ListOK' /\ RoundOK' /\ PipeOK'
  BY <1>1 DEF IInv, GuestOK, ChildOK, ListOK, RoundOK, PipeOK, Known, OnList, guest, child, history
<1>4. WalkOK' /\ SeenOK'
  BY <1>1 DEF IInv, WalkOK, SeenOK, Known, Met, After, guest, history
<1>5. ExitOK'
  BY <1>1 DEF IInv, ExitOK, Known, Pending, Going, Appended, guest, child, history
<1>6. ReadOK'
  <2>1. ASSUME NEW p \in Known \ Met, Pending(p) PROVE p \in exitFile \union dropped
    BY <1>1, <2>1 DEF IInv, WalkOK, ExitOK, Going, Appended, After, Met
  <2>. QED BY <1>1, <2>1 DEF ReadOK, Known, Met, Pending, guest, history
<1>7. BeforeOK' /\ LossExplained' /\ NoFalseAlarm' /\ HiddenIsReported'
  BY <1>1, <1>2 DEF IInv, BeforeOK, LossExplained, NoFalseAlarm, HiddenIsReported, After, Known, OnList, guest, child, history
<1>. QED BY <1>2, <1>3, <1>4, <1>5, <1>6, <1>7 DEF IInv

\* Exit records appended since they were read are dropped.
LEMMA EmptyExitsIInv == ASSUME IInv, EmptyExits PROVE IInv'
<1>1. /\ fpc = "emptyexit" /\ fpc' = "drain" /\ exitFile' = {}
      /\ dropped' = dropped \union (exitFile \ exits)
      /\ UNCHANGED <<guest, child, pipe, round, at, rows, seen, exits, warned>>
      /\ UNCHANGED <<bornLate, silent, missed, before, torn>>
  BY DEF EmptyExits
<1>2. TypeOK' /\ History'
  BY <1>1 DEF IInv, TypeOK, History, guest, child
<1>3. GuestOK' /\ ChildOK' /\ ListOK' /\ RoundOK' /\ PipeOK'
  BY <1>1 DEF IInv, GuestOK, ChildOK, ListOK, RoundOK, PipeOK, Known, OnList, guest, child
<1>4. WalkOK' /\ SeenOK'
  BY <1>1 DEF IInv, WalkOK, SeenOK, Known, Met, After, guest
<1>5. ExitOK' /\ ReadOK'
  BY <1>1 DEF IInv, ExitOK, ReadOK, Known, Met, Pending, Going, Appended, guest, child
<1>6. BeforeOK' /\ LossExplained' /\ NoFalseAlarm' /\ HiddenIsReported'
  BY <1>1, <1>2 DEF IInv, BeforeOK, LossExplained, NoFalseAlarm, HiddenIsReported, After, Known, OnList, guest, child
<1>. QED BY <1>2, <1>3, <1>4, <1>5, <1>6 DEF IInv

\* What is at the head of the pipe is known, and nothing is left when it ends.
LEMMA DrainIInv == ASSUME IInv, Drain PROVE IInv'
<1>1. /\ fpc = "drain"
      /\ UNCHANGED <<guest, child, exitFile, round, at, rows, seen, exits, warned>>
      /\ UNCHANGED <<bornLate, silent, dropped, before, torn>>
  BY DEF Drain
<1>2. CASE pipe # <<>>
  <2>1. /\ fpc' = "drain" /\ pipe' = Tail(pipe)
        /\ missed' = IF Head(pipe).pid \in rows \union exits THEN NoRec ELSE Head(pipe)
    BY <1>1, <1>2 DEF Drain
  <2>2. /\ pipe \in Seq(Rec) /\ Len(pipe) \in Nat \ {0} /\ Head(pipe) = pipe[1] /\ pipe[1] \in Rec
        /\ pipe' \in Seq(Rec) /\ Len(pipe') = Len(pipe) - 1
        /\ \A i \in 1 .. Len(pipe') : i + 1 \in 1 .. Len(pipe) /\ pipe'[i] = pipe[i + 1]
    BY <1>2, <2>1 DEF IInv, TypeOK
  <2>3. TypeOK' /\ History'
    <3>1. missed' \in Rec /\ Len(pipe') <= PipeCap
      BY <2>1, <2>2, CallForms, MonitorAssumption DEF IInv, TypeOK
    <3>. QED BY <1>1, <2>1, <2>2, <3>1 DEF IInv, TypeOK, History, guest, child
  <2>4. GuestOK' /\ ChildOK' /\ ListOK' /\ RoundOK'
    BY <1>1, <2>1 DEF IInv, GuestOK, ChildOK, ListOK, RoundOK, Known, OnList, guest, child
  <2>5. WalkOK' /\ SeenOK'
    BY <1>1, <2>1 DEF IInv, WalkOK, SeenOK, Known, Met, After, guest
  <2>6. PipeOK'
    BY <1>1, <2>2 DEF IInv, PipeOK, Known, guest
  <2>7. ASSUME NEW p \in Known, Pending(p)' PROVE Pending(p)
    BY <2>2, <2>7 DEF Pending
  <2>8. ExitOK' /\ ReadOK'
    BY <1>1, <2>1, <2>7 DEF IInv, ExitOK, ReadOK, Known, Met, Going, Appended, guest, child
  <2>9. LossExplained'
    <3>1. ASSUME pipe[1].pid \notin rows \union exits, pipe[1].sys # "exit_group",
                 pipe[1].pid # Unknown
          PROVE  pipe[1].pid \in hidden \union bornLate \union silent \union dropped
      <4>1. pipe[1].pid \in Known /\ Pending(pipe[1].pid)
        BY <2>2, <3>1 DEF IInv, PipeOK, Pending
      <4>. QED BY <1>1, <3>1, <4>1 DEF IInv, ReadOK, Met
    <3>. QED BY <1>1, <2>1, <2>2, <2>3, <3>1 DEF LossExplained, guest
  <2>10. BeforeOK' /\ NoFalseAlarm' /\ HiddenIsReported'
    BY <1>1, <2>1 DEF IInv, BeforeOK, NoFalseAlarm, HiddenIsReported, After, Known, OnList, guest, child
  <2>. QED BY <2>3, <2>4, <2>5, <2>6, <2>8, <2>9, <2>10 DEF IInv
<1>3. CASE pipe = <<>>
  <2>1. fpc' = "report" /\ missed' = NoRec /\ pipe' = pipe
    BY <1>3 DEF Drain
  <2>2. TypeOK' /\ History'
    BY <1>1, <2>1, CallForms DEF IInv, TypeOK, History, guest, child
  <2>3. GuestOK' /\ ChildOK' /\ ListOK' /\ RoundOK' /\ PipeOK'
    BY <1>1, <2>1 DEF IInv, GuestOK, ChildOK, ListOK, RoundOK, PipeOK, Known, OnList, guest, child
  <2>4. WalkOK' /\ SeenOK'
    BY <1>1, <2>1 DEF IInv, WalkOK, SeenOK, Known, Met, After, guest
  <2>5. ExitOK' /\ ReadOK'
    BY <1>3, <2>1 DEF ExitOK, ReadOK, Pending
  <2>6. BeforeOK' /\ LossExplained' /\ NoFalseAlarm' /\ HiddenIsReported'
    BY <1>1, <2>1, <2>2 DEF IInv, BeforeOK, LossExplained, NoFalseAlarm, HiddenIsReported, After, Known, OnList, guest, child
  <2>. QED BY <2>2, <2>3, <2>4, <2>5, <2>6 DEF IInv
<1>. QED BY <1>2, <1>3

\* The pids in the tracer's list and not in the queue.
LEMMA ReportIInv == ASSUME IInv, Report PROVE IInv'
<1>1. /\ fpc = "report" /\ fpc' = "sleep" /\ warned' \in detect_hide_ps
      /\ rows' = {} /\ seen' = {} /\ exits' = {}
      /\ UNCHANGED <<guest, child, exitFile, pipe, round, at, history>>
  BY DEF Report
<1>0. /\ warned' \subseteq seen
      /\ torn \/ (warned' \subseteq seen \ rows /\ (seen \ rows) \ Kworker \subseteq warned')
  BY <1>1 DEF detect_hide_ps
<1>2. TypeOK' /\ History'
  BY <1>0, <1>1 DEF IInv, TypeOK, History, guest, child, history
<1>3. GuestOK' /\ ChildOK' /\ ListOK' /\ RoundOK' /\ PipeOK'
  BY <1>1 DEF IInv, GuestOK, ChildOK, ListOK, RoundOK, PipeOK, Known, OnList, guest, child, history
<1>4. WalkOK' /\ SeenOK' /\ ReadOK'
  BY <1>1 DEF WalkOK, SeenOK, ReadOK, After
<1>5. ExitOK'
  BY <1>1 DEF IInv, ExitOK, Known, Pending, Going, Appended, guest, child, history
<1>6. NoFalseAlarm' /\ HiddenIsReported'
  BY <1>0, <1>1 DEF IInv, SeenOK, BeforeOK, NoFalseAlarm, HiddenIsReported, Met, After, guest, history
<1>7. BeforeOK' /\ LossExplained'
  BY <1>1, <1>2 DEF IInv, BeforeOK, LossExplained, After, Known, OnList, guest, child, history
<1>. QED BY <1>2, <1>3, <1>4, <1>5, <1>6, <1>7 DEF IInv

\* Excuses that end with the round are not needed any more.
LEMMA NextRoundIInv == ASSUME IInv, NextRound PROVE IInv'
<1>1. /\ fpc = "sleep" /\ fpc' \in {"walk", "done"} /\ (fpc' = "walk" => round + 1 < Rounds)
      /\ round' = round + 1 /\ warned' = {} /\ bornLate' = {} /\ torn' = FALSE
      /\ before' = [off |-> Known \ OnList, list |-> list]
      /\ UNCHANGED <<guest, child, exitFile, pipe, at, rows, seen, exits>>
      /\ UNCHANGED <<silent, dropped, missed>>
  BY DEF NextRound, Known
<1>2. TypeOK' /\ History'
  <2>1. before' \in [off : SUBSET Procs, list : SUBSET Pids]
    BY <1>1, MonitorAssumption DEF IInv, TypeOK, Known, Procs
  <2>2. round' \in 0 .. Rounds
    BY <1>1, MonitorAssumption DEF IInv, TypeOK, RoundOK
  <2>. QED BY <1>1, <2>1, <2>2 DEF IInv, TypeOK, History, guest, child
<1>3. GuestOK' /\ ChildOK' /\ ListOK' /\ RoundOK' /\ PipeOK'
  BY <1>1 DEF IInv, GuestOK, ChildOK, ListOK, RoundOK, PipeOK, Known, OnList, guest, child
<1>4. WalkOK' /\ SeenOK' /\ ReadOK'
  <2>1. OnList' \subseteq Ahead'
    <3>1. at' = 0 /\ UNCHANGED <<OnList, after>>
      BY <1>1 DEF IInv, RoundOK, OnList, guest
    <3>. QED BY <3>1, ListForms, AheadOfHead, AheadIsInNext DEF IInv
  <2>. QED BY <1>1, <2>1 DEF WalkOK, SeenOK, ReadOK, After
<1>5. ExitOK'
  BY <1>1 DEF IInv, ExitOK, Known, Pending, Going, Appended, guest, child
<1>6. BeforeOK'
  <2>1. UNCHANGED <<Known, OnList, after, list>> /\ at' = 0 /\ rows' = {}
    BY <1>1 DEF IInv, RoundOK, Known, OnList, guest, child
  <2>2. before'.off = Known \ OnList /\ before'.list = list
    BY <1>1
  <2>3. 0 \notin before'.off
    BY <2>2 DEF IInv, TypeOK, Known
  <2>4. \A p \in Procs \ before'.off : after'[p] = 0
    BY <2>1, <2>2 DEF IInv, GuestOK
  <2>. QED BY <1>1, <2>1, <2>2, <2>3, <2>4 DEF BeforeOK, After
<1>7. LossExplained' /\ NoFalseAlarm' /\ HiddenIsReported'
  BY <1>1, <1>2 DEF IInv, RoundOK, LossExplained, NoFalseAlarm, HiddenIsReported
<1>. QED BY <1>2, <1>3, <1>4, <1>5, <1>6, <1>7 DEF IInv

-----------------------------------------------------------------------------
\* Every step keeps the invariant.
LEMMA NextIInv == ASSUME IInv, [Next]_vars PROVE IInv'
<1>1. CASE Guest
  BY <1>1, ForkIInv, HideIInv, DieIInv DEF Guest
<1>2. CASE Child
  BY <1>2, TrapIInv, SaveAddedIInv, RecordIInv, SaveDeletedIInv, AppendExitIInv, WritePipeIInv, EndIInv DEF Child
<1>3. CASE Father
  BY <1>3, WalkIInv, OpenPsListIInv, ReadPsListIInv, ReadExitsIInv, EmptyExitsIInv, DrainIInv, ReportIInv, NextRoundIInv
     DEF Father
<1>4. CASE UNCHANGED vars
  <2>1. TypeOK' /\ History'
    BY <1>4 DEF IInv, TypeOK, History, vars, guest, child, father, history
  <2>2. GuestOK' /\ ChildOK' /\ ListOK' /\ RoundOK' /\ PipeOK'
    BY <1>4 DEF IInv, GuestOK, ChildOK, ListOK, RoundOK, PipeOK, Known, OnList, vars, guest, child, father, history
  <2>3. WalkOK' /\ SeenOK' /\ ExitOK' /\ ReadOK'
    <3>1. Met' = Met /\ UNCHANGED <<live, hidden, nextPid, after, at, fpc, left>>
      BY <1>4 DEF Met, vars, guest, father, history
    <3>2. WalkOK'
      BY <3>1, WalkKept DEF IInv
    <3>. QED BY <1>4, <3>2 DEF IInv, SeenOK, ExitOK, ReadOK, Known, Met, Pending, Going, Appended, After,
                vars, guest, child, father, history
  <2>4. BeforeOK' /\ LossExplained' /\ NoFalseAlarm' /\ HiddenIsReported'
    BY <1>4, <2>1 DEF IInv, BeforeOK, LossExplained, NoFalseAlarm, HiddenIsReported, After, Known, OnList,
                vars, guest, child, father, history
  <2>. QED BY <2>1, <2>2, <2>3, <2>4 DEF IInv
<1>. QED BY <1>1, <1>2, <1>3, <1>4 DEF Next

\* Every reachable state is in the invariant.
LEMMA Invariance == Spec => []IInv
BY InitIInv, NextIInv, PTL DEF Spec

\* What the father cannot place in the pipe is explained, and every variable
\* keeps its type: the order of the exit record, the pipe, and their reading.
THEOREM LossesExplained == Spec => []LossExplained
<1>1. IInv => LossExplained
  BY DEF IInv
<1>. QED BY <1>1, Invariance, PTL

\* Unless the tracer's list was read while it was written, no process that
\* leaves through exit_group, and none that merely lives, is reported as
\* hidden, whatever is unlinked under the father's walk.
THEOREM AlarmsAreRight == Spec => []NoFalseAlarm
<1>1. IInv => NoFalseAlarm
  BY DEF IInv
<1>. QED BY <1>1, Invariance, PTL

\* A process off the guest's list through a whole round, and in the tracer's,
\* is reported at its end, unless the file was read while it was written or
\* the process is called kworker: the walk never comes to it, whatever it
\* stands on.
THEOREM HiddenAreReported == Spec => []HiddenIsReported
<1>1. IInv => HiddenIsReported
  BY DEF IInv
<1>. QED BY <1>1, Invariance, PTL

=============================================================================
