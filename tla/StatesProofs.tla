---------------------------- MODULE StatesProofs ----------------------------
(***************************************************************************)
(* The marks, the warnings and the counts of the state detector agree, for *)
(* any rows, any number of starts and stops, and any statement that fails  *)
(* (StateDetect).  The commands that classify stored rows leave none       *)
(* behind, and detectPsinfo warns of each row it adds once (Training).     *)
(***************************************************************************)
EXTENDS MCStates, FiniteSetTheorems, SequenceTheorems, TLAPS

-----------------------------------------------------------------------------
(***************************************************************************)
(* The keys of the tables, and the statements of a connection.             *)
(***************************************************************************)
Keys == {Stat(i) : i \in Row} \union {Warning(r, i) : r \in Run, i \in Row} \union {Factor}

\* Keys of two kinds, or of two rows or runs, differ.
LEMMA KeysDiffer ==
  /\ \A i, h \in Row : Stat(i) = Stat(h) => i = h
  /\ \A r, q \in Run, i, h \in Row : Warning(r, i) = Warning(q, h) => r = q /\ i = h
  /\ \A r \in Run, i, h \in Row : Stat(h) # Warning(r, i)
  /\ \A i \in Row : Stat(i) # Factor
  /\ \A r \in Run, i \in Row : Warning(r, i) # Factor
BY DEF Stat, Warning, Factor

\* The table has all of them.
LEMMA KeyKinds ==
  /\ \A i \in Row : Stat(i) \in Keys
  /\ \A r \in Run, i \in Row : Warning(r, i) \in Keys
  /\ Factor \in Keys
BY DEF Keys

\* Without a write there are no keys.
LEMMA Empty == DOMAIN NoWrites = {}
BY DEF NoWrites

-----------------------------------------------------------------------------
(***************************************************************************)
(* The inductive invariant.                                                *)
(***************************************************************************)
Det == Quiet \union {"train", "write", "query", "row", "warn", "answer", "zero", "act", "migrate", "poll"}
Ex == Quiet \union {"init", "wait", "first", "look", "poll"}

Files ==
  /\ statedetect \in {"", "0", "1", "2"}
  /\ vm \in {"running", "paused", "shut", "away"} /\ state \in {"", "p", "c", "m", "mm"}

Threads ==
  /\ starter \in [Run -> {"read", "open", "write", "done", "dead"}]
  /\ stops \in [runs : 0 .. MaxStops, open : BOOLEAN]
  /\ det \in [Run -> Det] /\ ex \in [Run -> Ex]
  /\ lof \in [Row -> Score] /\ state_f \in Factors
  /\ batch \in [Run -> SUBSET Row]
  /\ factortotal \in [Run -> Nat] /\ row \in [Run -> Row \union {NoRow}]
  /\ \A r \in Run : starter[r] \in {"read", "open", "write"} => det[r] = "off"
  /\ \A r \in Run : det[r] \in {"answer", "zero", "act"} => Way(factortotal[r]) # "none"

Control == Files /\ Threads

\* A table in which marks and warnings agree; only anomalies are warned of.
Sound(t) ==
  /\ DOMAIN t = Keys
  /\ \A i \in Row : t[Stat(i)] \in {"none", "0", "1", "2"}
  /\ t[Factor] \in Nat
  /\ \A r \in Run, i \in Row : t[Warning(r, i)] \in BOOLEAN
  /\ \A i \in Row : t[Stat(i)] = "1" <=> \E r \in Run : t[Warning(r, i)]
  /\ \A r \in Run, i \in Row : t[Warning(r, i)] => i \in anomalous

\* What run r may have pending: marks of anomalies, each with its own warning,
\* but for the row that is just being warned of.
Held(r, p, d, w) ==
  /\ DOMAIN p \subseteq Keys /\ Factor \notin DOMAIN p
  /\ \A i \in Row : Stat(i) \in DOMAIN p =>
       /\ i \in anomalous /\ p[Stat(i)] = "1"
       /\ Warning(r, i) \in DOMAIN p \/ (d = "warn" /\ w = i)
  /\ \A q \in Run, i \in Row : Warning(q, i) \in DOMAIN p =>
       q = r /\ p[Warning(q, i)] = TRUE /\ Stat(i) \in DOMAIN p
  /\ d = "warn" => w \in Row /\ Stat(w) \in DOMAIN p
  /\ d \notin {"row", "warn"} => p = NoWrites

\* The warnings run r has given, committed or not, have all been counted.
Given(r, t, p) == {i \in Row : t[Warning(r, i)] \/ Warning(r, i) \in DOMAIN p}
Heavy(r, t, p) == Given(r, t, p) \intersect Counting
Counted(r, t, p, f) == IsFiniteSet(Heavy(r, t, p)) /\ Least * Cardinality(Heavy(r, t, p)) <= f

Runs(t, p, d, w, f) ==
  /\ p = [r \in Run |-> p[r]]
  /\ \A r \in Run : Held(r, p[r], d[r], w[r]) /\ Counted(r, t, p[r], f[r])

IInv == Control /\ Sound(table) /\ Runs(table, pending, det, row, factortotal)

-----------------------------------------------------------------------------
(***************************************************************************)
(* What keeps the parts of it.                                             *)
(***************************************************************************)
\* Nothing pending is right everywhere but in the middle of a warning.
LEMMA HeldNothing == ASSUME NEW r \in Run, NEW d, d # "warn", NEW w PROVE Held(r, NoWrites, d, w)
BY Empty DEF Held

\* What an anomaly counts at least is a number, and so are the scores.
LEMMA Numbers ==
  ASSUME Control
  PROVE  /\ Least \in Nat
         /\ \A i \in Row : Weight(i) \in Nat /\ (i \in Counting => Least <= Weight(i))
<1>1. state_f \in Nat /\ \A i \in Row : lof[i] \in Nat
  BY StateAssumption DEF Control, Threads
<1>2. Unit = 10
  BY DEF Unit
<1>3. Least \in Nat
  BY <1>1, <1>2 DEF Least
<1>4. ASSUME NEW i \in Row PROVE Weight(i) \in Nat /\ (i \in Counting => Least <= Weight(i))
  BY <1>1, <1>2, <1>4 DEF Weight, Least, Counting, High
<1>. QED BY <1>3, <1>4

\* A smaller number of them is a smaller sum.
LEMMA Times == ASSUME NEW k \in Nat, NEW m \in Nat, NEW n \in Nat, m <= n PROVE k * m <= k * n /\ k * m \in Nat /\ k * n \in Nat
<1>1. k * n = k * m + k * (n - m)
  OBVIOUS
<1>2. k * (n - m) \in Nat /\ k * m \in Nat /\ k * n \in Nat
  OBVIOUS
<1>. QED BY <1>1, <1>2

\* A part of what was counted is counted.
LEMMA CountLess ==
  ASSUME Control, NEW r \in Run, NEW t, NEW p, NEW f \in Nat, Counted(r, t, p, f), NEW u, NEW o,
         Given(r, u, o) \subseteq Given(r, t, p)
  PROVE  Counted(r, u, o, f)
<1>. DEFINE S == Heavy(r, t, p)
            H == Heavy(r, u, o)
<1>1. IsFiniteSet(S) /\ Least * Cardinality(S) <= f /\ H \subseteq S
  BY DEF Counted, Heavy
<1>. HIDE DEF S, H
<1>2. IsFiniteSet(H) /\ Cardinality(S) \in Nat /\ Cardinality(H) \in Nat /\ Cardinality(H) <= Cardinality(S)
  BY <1>1, FS_Subset, FS_CardinalityType
<1>3. Least * Cardinality(H) <= Least * Cardinality(S) /\ Least * Cardinality(H) \in Nat
      /\ Least * Cardinality(S) \in Nat
  BY <1>2, Numbers, Times
<1>4. Least * Cardinality(H) <= f
  BY <1>1, <1>3
<1>. QED BY <1>2, <1>4 DEF Counted, H

\* u is t with what is pending in p, and something else at the key k.
Merges(u, t, p, k) ==
  DOMAIN u = Keys /\ \A x \in Keys : x # k => u[x] = IF x \in DOMAIN p THEN p[x] ELSE t[x]

\* v at the key k is no mark of an anomaly.
Plain(k, v, t, p) ==
  \/ k = Factor /\ v \in Nat
  \/ \E i \in Row : /\ k = Stat(i) /\ v \in {"0", "2"}
                    /\ i \notin anomalous \/ (t[k] = "none" /\ DOMAIN p = {})

\* The warnings of u are those of t and those in p.
Joins(u, t, p) ==
  \A q \in Run, i \in Row : u[Warning(q, i)] = (t[Warning(q, i)] \/ Warning(q, i) \in DOMAIN p)

\* A commit of everything run r has pending, with a write that is no mark of an
\* anomaly, keeps a table sound.
LEMMA CommitSound ==
  ASSUME NEW t, Sound(t), NEW r \in Run, NEW p, NEW d, d # "warn", NEW w, Held(r, p, d, w),
         NEW k \in Keys, NEW u, Merges(u, t, p, k), Plain(k, u[k], t, p)
  PROVE  Sound(u) /\ Joins(u, t, p)
<1>. USE DEF Merges, Plain, Joins
<1>1. ASSUME NEW q \in Run, NEW i \in Row
      PROVE  u[Warning(q, i)] = (t[Warning(q, i)] \/ Warning(q, i) \in DOMAIN p)
  <2>1. Warning(q, i) # k /\ Warning(q, i) \in Keys
    BY KeysDiffer, KeyKinds
  <2>2. u[Warning(q, i)] = IF Warning(q, i) \in DOMAIN p THEN p[Warning(q, i)] ELSE t[Warning(q, i)]
    BY <2>1
  <2>3. Warning(q, i) \in DOMAIN p => p[Warning(q, i)] = TRUE
    BY DEF Held
  <2>4. t[Warning(q, i)] \in BOOLEAN
    BY DEF Sound
  <2>. QED BY <2>2, <2>3, <2>4
<1>2. \A i \in Row : Stat(i) # k => u[Stat(i)] = IF Stat(i) \in DOMAIN p THEN p[Stat(i)] ELSE t[Stat(i)]
  BY KeyKinds
<1>3. \A q \in Run, i \in Row : Warning(q, i) \in DOMAIN p => i \in anomalous
  BY DEF Held
<1>4. \A q \in Run, i \in Row : u[Warning(q, i)] => i \in anomalous
  BY <1>1, <1>3 DEF Sound
<1>5. ASSUME NEW i \in Row PROVE u[Stat(i)] = "1" <=> \E q \in Run : u[Warning(q, i)]
  <2>1. CASE Stat(i) = k
    <3>1. i \notin anomalous \/ (t[Stat(i)] = "none" /\ DOMAIN p = {})
      BY <2>1, KeysDiffer
    <3>2. u[Stat(i)] # "1"
      BY <2>1, KeysDiffer
    <3>3. ASSUME NEW q \in Run, u[Warning(q, i)] PROVE FALSE
      BY <3>1, <3>3, <1>1, <1>4 DEF Sound
    <3>. QED BY <3>2, <3>3
  <2>2. CASE Stat(i) # k /\ Stat(i) \in DOMAIN p
    <3>1. u[Stat(i)] = "1" /\ Warning(r, i) \in DOMAIN p
      BY <2>2, <1>2 DEF Held
    <3>. QED BY <3>1, <1>1
  <2>3. CASE Stat(i) # k /\ Stat(i) \notin DOMAIN p
    <3>1. u[Stat(i)] = t[Stat(i)]
      BY <2>3, <1>2
    <3>2. \A q \in Run : Warning(q, i) \notin DOMAIN p
      BY <2>3 DEF Held
    <3>. QED BY <3>1, <3>2, <1>1 DEF Sound
  <2>. QED BY <2>1, <2>2, <2>3
<1>6. \A i \in Row : u[Stat(i)] \in {"none", "0", "1", "2"}
  BY <1>2, KeysDiffer DEF Sound, Held
<1>7. u[Factor] \in Nat
  BY KeysDiffer, KeyKinds DEF Sound, Held
<1>8. \A q \in Run, i \in Row : u[Warning(q, i)] \in BOOLEAN
  <2>. TAKE q \in Run, i \in Row
  <2>1. u[Warning(q, i)] = (t[Warning(q, i)] \/ Warning(q, i) \in DOMAIN p)
    BY <1>1
  <2>. QED BY <2>1
<1>. QED BY <1>1, <1>4, <1>5, <1>6, <1>7, <1>8 DEF Sound

\* The mark of an anomaly may be pending while it is warned of.
LEMMA MarkHeld ==
  ASSUME NEW r \in Run, NEW p, NEW w, Held(r, p, "row", w), NEW i \in Row, i \in anomalous, NEW t
  PROVE  LET o == myupdate(p, Write(Stat(i), "1"))
         IN  Held(r, o, "warn", i) /\ Given(r, t, o) = Given(r, t, p)
<1>. DEFINE o == myupdate(p, Write(Stat(i), "1"))
<1>1. DOMAIN o = DOMAIN p \union {Stat(i)} /\ o[Stat(i)] = "1" /\ \A x \in DOMAIN p : x # Stat(i) => o[x] = p[x]
  BY DEF myupdate, Over, Write
<1>. HIDE DEF o
<1>2. Given(r, t, o) = Given(r, t, p)
  BY <1>1, KeysDiffer DEF Given
<1>3. \A h \in Row : Stat(h) \in DOMAIN o =>
        h \in anomalous /\ o[Stat(h)] = "1" /\ (Warning(r, h) \in DOMAIN o \/ i = h)
  BY <1>1, KeysDiffer DEF Held
<1>4. \A q \in Run, h \in Row : Warning(q, h) \in DOMAIN o =>
        q = r /\ o[Warning(q, h)] = TRUE /\ Stat(h) \in DOMAIN o
  BY <1>1, KeysDiffer DEF Held
<1>5. DOMAIN o \subseteq Keys /\ Factor \notin DOMAIN o
  BY <1>1, KeysDiffer, KeyKinds DEF Held
<1>6. Held(r, o, "warn", i)
  BY <1>1, <1>3, <1>4, <1>5 DEF Held
<1>. QED BY <1>2, <1>6 DEF o

\* What is pending after Warn.
Warned(r, p, w) == myupdate(p, Write(Warning(r, w), TRUE))

\* The warning completes it, and is the one that is counted.
LEMMA WarningHeld ==
  ASSUME NEW r \in Run, NEW p, NEW w, Held(r, p, "warn", w), NEW t
  PROVE  LET o == Warned(r, p, w)
         IN  (\A v : Held(r, o, "row", v)) /\ Given(r, t, o) = Given(r, t, p) \union {w}
<1>. DEFINE o == Warned(r, p, w)
<1>0. w \in Row /\ Stat(w) \in DOMAIN p
  BY DEF Held
<1>1. DOMAIN o = DOMAIN p \union {Warning(r, w)} /\ o[Warning(r, w)] = TRUE
      /\ \A x \in DOMAIN p : x # Warning(r, w) => o[x] = p[x]
  BY DEF Warned, myupdate, Over, Write
<1>. HIDE DEF o
<1>2. Given(r, t, o) = Given(r, t, p) \union {w}
  BY <1>0, <1>1, KeysDiffer DEF Given
<1>3. \A h \in Row : Stat(h) \in DOMAIN o =>
        h \in anomalous /\ o[Stat(h)] = "1" /\ Warning(r, h) \in DOMAIN o
  BY <1>0, <1>1, KeysDiffer DEF Held
<1>4. \A q \in Run, h \in Row : Warning(q, h) \in DOMAIN o =>
        q = r /\ o[Warning(q, h)] = TRUE /\ Stat(h) \in DOMAIN o
  BY <1>0, <1>1, KeysDiffer DEF Held
<1>5. DOMAIN o \subseteq Keys /\ Factor \notin DOMAIN o
  BY <1>0, <1>1, KeysDiffer, KeyKinds DEF Held
<1>6. \A v : Held(r, o, "row", v)
  BY <1>3, <1>4, <1>5 DEF Held
<1>. QED BY <1>2, <1>6 DEF o

\* One warning more is its weight more in the sum.
LEMMA CountOne ==
  ASSUME Control, NEW r \in Run, NEW t, NEW p, NEW f \in Nat, Counted(r, t, p, f), NEW o, NEW w \in Row,
         Given(r, t, o) = Given(r, t, p) \union {w}
  PROVE  Counted(r, t, o, f + Weight(w))
<1>. DEFINE S == Heavy(r, t, p)
            H == Heavy(r, t, o)
<1>1. IsFiniteSet(S) /\ Least * Cardinality(S) <= f
      /\ H = IF w \in Counting THEN S \union {w} ELSE S
  BY DEF Counted, Heavy
<1>. HIDE DEF S, H
<1>2. Cardinality(S) \in Nat /\ Least \in Nat /\ Weight(w) \in Nat
  BY <1>1, FS_CardinalityType, Numbers
<1>3. Least * Cardinality(S) \in Nat
  BY <1>2
<1>4. CASE w \in Counting
  <2>1. IsFiniteSet(H) /\ Cardinality(H) \in Nat /\ Cardinality(H) <= Cardinality(S) + 1
    <3>1. H = S \union {w}
      BY <1>1, <1>4
    <3>2. IsFiniteSet(S \union {w})
          /\ Cardinality(S \union {w}) = IF w \in S THEN Cardinality(S) ELSE Cardinality(S) + 1
      BY <1>1, FS_AddElement
    <3>. QED BY <1>2, <3>1, <3>2
  <2>2. Least * Cardinality(H) <= Least * (Cardinality(S) + 1) /\ Least * Cardinality(H) \in Nat
    BY <1>2, <2>1, Times
  <2>3. Least * (Cardinality(S) + 1) = Least * Cardinality(S) + Least
    BY <1>2
  <2>4. Least <= Weight(w)
    BY <1>4, Numbers
  <2>5. Least * Cardinality(H) <= f + Weight(w)
    BY <1>1, <1>2, <1>3, <2>2, <2>3, <2>4
  <2>. QED BY <2>1, <2>5 DEF Counted, H
<1>5. CASE w \notin Counting
  <2>1. H = S /\ Least * Cardinality(S) <= f + Weight(w)
    BY <1>1, <1>2, <1>3, <1>5
  <2>. QED BY <1>1, <2>1 DEF Counted, H
<1>. QED BY <1>4, <1>5

-----------------------------------------------------------------------------
(***************************************************************************)
(* The invariant holds at first, and every step keeps it.                  *)
(***************************************************************************)
\* Nothing is marked, warned of or pending at first.
LEMMA InitIInv == Init => IInv
<1>. SUFFICES ASSUME Init PROVE IInv
  OBVIOUS
<1>0. /\ statedetect = "0" /\ starter = [r \in Run |-> "read"] /\ stops = [runs |-> 0, open |-> FALSE]
      /\ det = [r \in Run |-> "off"] /\ ex = [r \in Run |-> "off"] /\ lof \in [Row -> Score] /\ state_f \in Factors
      /\ batch = [r \in Run |-> {}] /\ row = [r \in Run |-> NoRow] /\ factortotal = [r \in Run |-> 0]
      /\ pending = [r \in Run |-> NoWrites] /\ vm = "running" /\ state = ""
  BY DEF Init
<1>1. Control
  <2>1. MaxStops \in Nat
    BY StateAssumption
  <2>2. stops \in [runs : 0 .. MaxStops, open : BOOLEAN]
    <3>1. 0 \in 0 .. MaxStops
      BY <2>1
    <3>2. stops = [runs |-> 0, open |-> FALSE]
      BY <1>0
    <3>. QED BY <3>1, <3>2
  <2>4. det \in [Run -> Det] /\ ex \in [Run -> Ex] /\ \A r \in Run : det[r] = "off"
    BY <1>0 DEF Det, Ex, Quiet
  <2>5. batch \in [Run -> SUBSET Row] /\ factortotal \in [Run -> Nat] /\ row \in [Run -> Row \union {NoRow}]
    BY <1>0
  <2>6. starter \in [Run -> {"read", "open", "write", "done", "dead"}]
    BY <1>0
  <2>. QED BY <1>0, <2>2, <2>4, <2>5, <2>6 DEF Control, Files, Threads
<1>2. /\ DOMAIN table = Keys
      /\ \A i \in Row : table[Stat(i)] = "none"
      /\ \A r \in Run, i \in Row : table[Warning(r, i)] = FALSE
      /\ table[Factor] = 0
  <2>1. table = Over(NoRows, Over(NoWarnings, Write(Factor, 0)))
    BY DEF Init
  <2>2. DOMAIN NoRows = {Stat(i) : i \in Row} /\ \A i \in Row : NoRows[Stat(i)] = "none"
    BY DEF NoRows
  <2>3. /\ DOMAIN NoWarnings = {Warning(r, i) : r \in Run, i \in Row}
        /\ \A r \in Run, i \in Row : NoWarnings[Warning(r, i)] = FALSE
    BY DEF NoWarnings
  <2>4. DOMAIN table = DOMAIN NoRows \union DOMAIN NoWarnings \union {Factor}
    BY <2>1 DEF Over, Write
  <2>5. \A k \in DOMAIN table : table[k] = IF k \in DOMAIN NoRows THEN NoRows[k]
                                          ELSE IF k \in DOMAIN NoWarnings THEN NoWarnings[k] ELSE 0
    BY <2>1 DEF Over, Write
  <2>6. /\ \A i \in Row : Stat(i) \in DOMAIN NoRows
        /\ \A r \in Run, i \in Row : /\ Warning(r, i) \in DOMAIN NoWarnings
                                     /\ Warning(r, i) \notin DOMAIN NoRows
        /\ Factor \notin DOMAIN NoRows /\ Factor \notin DOMAIN NoWarnings
    BY <2>2, <2>3, KeysDiffer
  <2>7. DOMAIN table = Keys
    BY <2>2, <2>3, <2>4 DEF Keys
  <2>. QED BY <2>2, <2>3, <2>5, <2>6, <2>7, KeyKinds
<1>3. Sound(table)
  <2>1. \A r \in Run, i \in Row : table[Warning(r, i)] \in BOOLEAN /\ ~table[Warning(r, i)]
    BY <1>2
  <2>2. \A i \in Row : table[Stat(i)] \in {"none", "0", "1", "2"} /\ table[Stat(i)] # "1"
    BY <1>2
  <2>. QED BY <1>2, <2>1, <2>2 DEF Sound
<1>4. ASSUME NEW r \in Run
      PROVE  Held(r, pending[r], det[r], row[r]) /\ Counted(r, table, pending[r], factortotal[r])
  <2>0. pending[r] = NoWrites /\ det[r] = "off" /\ factortotal[r] = 0
    BY <1>0
  <2>1. Held(r, pending[r], det[r], row[r])
    BY <2>0, HeldNothing
  <2>2. Heavy(r, table, NoWrites) = {}
    BY <1>2, Empty DEF Given, Heavy
  <2>3. Least * Cardinality({}) = 0
    BY <1>1, FS_EmptySet, Numbers
  <2>. QED BY <2>0, <2>1, <2>2, <2>3, FS_EmptySet DEF Counted
<1>5. pending = [r \in Run |-> pending[r]]
  BY <1>0
<1>. QED BY <1>1, <1>3, <1>4, <1>5 DEF IInv, Runs

\* The rows that are out of bounds are so for good: what is to be shown of a
\* step can be said without priming them.
LEMMA Primed ==
  ASSUME UNCHANGED fixed, Control', Sound(table'), pending' = [r \in Run |-> pending'[r]],
         \A r \in Run : /\ Held(r, pending'[r], det'[r], row'[r])
                        /\ Counted(r, table', pending'[r], factortotal'[r])
  PROVE  IInv'
<1>1. anomalous' = anomalous /\ Counting' = Counting /\ Least' = Least
  BY DEF anomalous, Counting, Least, High, fixed
<1>. QED BY <1>1 DEF IInv, Runs, Sound, Held, Counted, Heavy, Given

\* A step that neither writes nor begins a warning.
LEMMA Still ==
  ASSUME IInv, Control', UNCHANGED fixed,
         UNCHANGED <<table, pending, row, factortotal>>,
         \A r \in Run : det'[r] = det[r] \/ (det[r] \notin {"row", "warn"} /\ det'[r] # "warn")
  PROVE  IInv'
<1>1. ASSUME NEW r \in Run
      PROVE  Held(r, pending'[r], det'[r], row'[r]) /\ Counted(r, table', pending'[r], factortotal'[r])
  <2>1. Held(r, pending[r], det[r], row[r]) /\ Counted(r, table, pending[r], factortotal[r])
    BY DEF IInv, Runs
  <2>2. CASE det'[r] = det[r]
    BY <2>1, <2>2
  <2>3. CASE det[r] \notin {"row", "warn"} /\ det'[r] # "warn"
    <3>1. pending[r] = NoWrites
      BY <2>1, <2>3 DEF Held
    <3>2. Held(r, NoWrites, det'[r], row[r])
      BY <2>3, HeldNothing
    <3>. QED BY <2>1, <3>1, <3>2
  <2>. QED BY <2>2, <2>3
<1>2. Sound(table') /\ pending' = [r \in Run |-> pending'[r]]
  BY DEF IInv, Runs
<1>. QED BY <1>1, <1>2, Primed

\* What EXCEPT does to a function on Run whose values have no type in common.
LEMMA Excepts ==
  ASSUME NEW f, f = [q \in Run |-> f[q]], NEW r \in Run, NEW v, NEW g, g = [f EXCEPT ![r] = v]
  PROVE  g = [q \in Run |-> g[q]] /\ g[r] = v /\ \A q \in Run \ {r} : g[q] = f[q]
OBVIOUS

\* It does nothing when the value is the old one.
LEMMA Unwritten ==
  ASSUME NEW f, f = [q \in Run |-> f[q]], NEW r \in Run, NEW v, f[r] = v
  PROVE  f = [f EXCEPT ![r] = v]
OBVIOUS

\* A step of run r by which nothing of it is pending any more.
LEMMA Clear ==
  ASSUME IInv, Control', UNCHANGED fixed, NEW r \in Run,
         pending' = [pending EXCEPT ![r] = NoWrites], det'[r] # "warn", Sound(table'),
         Given(r, table', NoWrites) \subseteq Given(r, table, pending[r]),
         \A q \in Run \ {r} : /\ det'[q] = det[q] /\ row'[q] = row[q]
                              /\ Given(q, table', pending[q]) = Given(q, table, pending[q]),
         factortotal' = factortotal
  PROVE  IInv'
<1>0. /\ pending' = [q \in Run |-> pending'[q]] /\ pending'[r] = NoWrites
      /\ \A q \in Run \ {r} : pending'[q] = pending[q]
  BY Excepts DEF IInv, Runs
<1>1. Held(r, pending'[r], det'[r], row'[r])
  BY <1>0, HeldNothing
<1>2. Counted(r, table', pending'[r], factortotal'[r])
  <2>1. Counted(r, table, pending[r], factortotal[r]) /\ factortotal[r] \in Nat
    BY DEF IInv, Runs, Control, Files, Threads
  <2>2. Control
    BY DEF IInv
  <2>. QED BY <1>0, <2>1, <2>2, CountLess
<1>3. ASSUME NEW q \in Run \ {r}
      PROVE  Held(q, pending'[q], det'[q], row'[q]) /\ Counted(q, table', pending'[q], factortotal'[q])
  <2>1. Held(q, pending[q], det[q], row[q]) /\ Counted(q, table, pending[q], factortotal[q])
    BY DEF IInv, Runs
  <2>. QED BY <1>0, <2>1 DEF Counted, Heavy
<1>. QED BY <1>0, <1>1, <1>2, <1>3, Primed

\* A step of run r that goes on with a warning.
LEMMA Begun ==
  ASSUME IInv, Control', UNCHANGED fixed, NEW r \in Run, table' = table,
         NEW o, pending' = [pending EXCEPT ![r] = o],
         Held(r, o, det'[r], row'[r]), Counted(r, table, o, factortotal'[r]),
         \A q \in Run \ {r} : det'[q] = det[q] /\ row'[q] = row[q] /\ factortotal'[q] = factortotal[q]
  PROVE  IInv'
<1>0. /\ pending' = [q \in Run |-> pending'[q]] /\ pending'[r] = o
      /\ \A q \in Run \ {r} : pending'[q] = pending[q]
  BY Excepts DEF IInv, Runs
<1>1. ASSUME NEW q \in Run
      PROVE  Held(q, pending'[q], det'[q], row'[q]) /\ Counted(q, table', pending'[q], factortotal'[q])
  <2>1. CASE q = r
    BY <2>1, <1>0
  <2>2. CASE q # r
    BY <2>2, <1>0 DEF IInv, Runs
  <2>. QED BY <2>1, <2>2
<1>2. Sound(table')
  BY DEF IInv
<1>. QED BY <1>0, <1>1, <1>2, Primed

\* One write that is no mark of an anomaly, committed with all that is pending.
LEMMA CommitOne ==
  ASSUME Sound(table), NEW r \in Run, Held(r, pending[r], det[r], row[r]), det[r] # "warn",
         NEW k \in Keys, NEW v, Plain(k, v, table, pending[r]),
         table' = dosql(table, pending[r], Write(k, v), TRUE)
  PROVE  /\ Sound(table')
         /\ Given(r, table', NoWrites) \subseteq Given(r, table, pending[r])
         /\ \A q \in Run \ {r} : \A o : Given(q, table', o) = Given(q, table, o)
<1>. DEFINE p == pending[r]
            u == table'
<1>1. DOMAIN u = DOMAIN table \union DOMAIN p \union {k} /\ u[k] = v
      /\ \A x \in DOMAIN table \union DOMAIN p : x # k => u[x] = IF x \in DOMAIN p THEN p[x] ELSE table[x]
  BY DEF dosql, allcommit, myupdate, Over, Write
<1>2. DOMAIN table = Keys /\ DOMAIN p \subseteq Keys
  BY DEF Sound, Held
<1>3. Merges(u, table, p, k)
  BY <1>1, <1>2 DEF Merges
<1>4. Plain(k, u[k], table, p)
  BY <1>1
<1>5. Sound(u) /\ Joins(u, table, p)
  BY <1>3, <1>4, CommitSound
<1>6. Given(r, u, NoWrites) = Given(r, table, p)
  BY <1>5, Empty DEF Given, Joins
<1>7. ASSUME NEW q \in Run \ {r}, NEW o PROVE Given(q, u, o) = Given(q, table, o)
  BY <1>5 DEF Given, Joins, Held
<1>. QED BY <1>5, <1>6, <1>7

\* Without anything pending it leaves all warnings as they were.
LEMMA CommitAlone ==
  ASSUME Sound(table), NEW k \in Keys, NEW v, Plain(k, v, table, NoWrites), NEW r \in Run,
         table' = dosql(table, NoWrites, Write(k, v), TRUE)
  PROVE  Sound(table') /\ \A q \in Run : \A o : Given(q, table', o) = Given(q, table, o)
<1>. DEFINE u == table'
<1>1. DOMAIN u = DOMAIN table \union DOMAIN NoWrites \union {k} /\ u[k] = v
      /\ \A x \in DOMAIN table \union DOMAIN NoWrites :
           x # k => u[x] = IF x \in DOMAIN NoWrites THEN NoWrites[x] ELSE table[x]
  BY DEF dosql, allcommit, myupdate, Over, Write
<1>2. DOMAIN table = Keys
  BY DEF Sound
<1>3. Merges(u, table, NoWrites, k)
  BY <1>1, <1>2, Empty DEF Merges
<1>4. Plain(k, u[k], table, NoWrites)
  BY <1>1
<1>5. Held(r, NoWrites, "row", NoRow)
  BY HeldNothing
<1>6. Sound(u) /\ Joins(u, table, NoWrites)
  BY <1>3, <1>4, <1>5, CommitSound
<1>7. ASSUME NEW q \in Run, NEW o PROVE Given(q, u, o) = Given(q, table, o)
  <2>1. ASSUME NEW i \in Row PROVE u[Warning(q, i)] <=> table[Warning(q, i)]
    <3>1. u[Warning(q, i)] = (table[Warning(q, i)] \/ Warning(q, i) \in DOMAIN NoWrites)
      BY <1>6 DEF Joins
    <3>2. Warning(q, i) \notin DOMAIN NoWrites
      BY Empty
    <3>. QED BY <3>1, <3>2
  <2>. QED BY <2>1 DEF Given
<1>. QED BY <1>6, <1>7

\* responsevm has three ways.
LEMMA Ways == \A f : Way(f) \in {"p", "c", "m", "none"}
BY DEF Way

\* Every step keeps the invariant.
LEMMA NextIInv == ASSUME IInv, [Next]_vars PROVE IInv'
<1>. USE DEF IInv, fixed
<1>1. ASSUME NEW r \in Run, Start(r) PROVE IInv'
  <2>1. Control'
    BY <1>1 DEF Start, Control, Files, Threads, threads, local, domain
  <2>. QED BY <1>1, <2>1, Still DEF Start, threads, local
<1>2. ASSUME NEW r \in Run, StartOpens(r) PROVE IInv'
  <2>1. Control'
    BY <1>2 DEF StartOpens, Control, Files, Threads, threads, local, domain
  <2>. QED BY <1>2, <2>1, Still DEF StartOpens, threads, local
<1>3. ASSUME NEW r \in Run, start_state(r) PROVE IInv'
  <2>1. Control' /\ det[r] = "off"
    BY <1>3 DEF start_state, Control, Files, Threads, Det, Ex, Quiet, threads, local, domain
  <2>. QED BY <1>3, <2>1, Still DEF start_state, Control, Files, Threads, threads, local
<1>4. CASE StopOpens
  <2>0. stops' \in [runs : 0 .. MaxStops, open : BOOLEAN]
    <3>1. MaxStops \in Nat /\ stops.runs \in 0 .. MaxStops /\ stops.runs < MaxStops
      BY <1>4, StateAssumption DEF StopOpens, Control, Files, Threads
    <3>2. stops.runs + 1 \in 0 .. MaxStops
      BY <3>1
    <3>. QED BY <3>2, <1>4 DEF StopOpens
  <2>1. Control'
    BY <1>4, <2>0 DEF StopOpens, Control, Files, Threads, threads, local, domain
  <2>. QED BY <1>4, <2>1, Still DEF StopOpens, threads, local
<1>5. CASE StopWrites
  <2>1. Control'
    BY <1>5 DEF StopWrites, Control, Files, Threads, threads, local, domain
  <2>. QED BY <1>5, <2>1, Still DEF StopWrites, threads, local
<1>6. CASE Report
  <2>1. Control'
    <3>1. UNCHANGED <<statedetect, threads, fixed, local, domain>>
      BY <1>6 DEF Report
    <3>2. Files'
      BY <3>1 DEF Control, Files, domain
    <3>3. UNCHANGED <<starter, stops, det, ex, batch, row, factortotal>> /\ UNCHANGED fixed
      BY <3>1 DEF threads, local
    <3>4. Threads'
      BY <3>3 DEF Control, Threads
    <3>. QED BY <3>2, <3>4 DEF Control
  <2>. QED BY <1>6, <2>1, Still DEF Report, threads, local
<1>7. ASSUME NEW r \in Run, TrainingEnds(r) PROVE IInv'
  <2>1. Control'
    <3>1. Files'
      BY <1>7 DEF TrainingEnds, Control, Files, domain
    <3>2. \E d \in {"write", "dead"} : det' = [det EXCEPT ![r] = d]
      BY <1>7 DEF TrainingEnds
    <3>3. UNCHANGED <<starter, stops, ex, fixed, batch, row, factortotal>> /\ det[r] = "train"
      BY <1>7 DEF TrainingEnds, local
    <3>4. Threads'
      BY <3>2, <3>3 DEF Control, Threads, Det, Quiet
    <3>. QED BY <3>1, <3>4 DEF Control
  <2>2. det'[r] # "warn" /\ det[r] = "train" /\ \A q \in Run \ {r} : det'[q] = det[q]
    BY <1>7 DEF TrainingEnds, Control, Threads
  <2>3. UNCHANGED fixed /\ UNCHANGED <<table, pending, row, factortotal>>
    BY <1>7 DEF TrainingEnds, local
  <2>. QED BY <2>1, <2>2, <2>3, Still
<1>8. ASSUME NEW r \in Run, WritesRunning(r) PROVE IInv'
  <2>1. Control'
    <3>1. Files'
      BY <1>8 DEF WritesRunning, Control, Files, domain
    <3>2. Threads'
      BY <1>8 DEF WritesRunning, Control, Threads, Det, Quiet, local
    <3>. QED BY <3>1, <3>2 DEF Control
  <2>. QED BY <1>8, <2>1, Still DEF WritesRunning, Control, Files, Threads, local
<1>9. ASSUME NEW r \in Run, AnswerOpens(r) PROVE IInv'
  <2>1. Control'
    BY <1>9 DEF AnswerOpens, Control, Files, Threads, Det, Quiet, threads, local, domain
  <2>. QED BY <1>9, <2>1, Still DEF AnswerOpens, Control, Files, Threads, local
<1>10. ASSUME NEW r \in Run, AnswerZeroes(r) PROVE IInv'
  <2>1. Control'
    <3>1. Files'
      BY <1>10 DEF AnswerZeroes, Control, Files, domain
    <3>2. Threads'
      BY <1>10 DEF AnswerZeroes, Control, Threads, Det, Quiet, local
    <3>. QED BY <3>1, <3>2 DEF Control
  <2>. QED BY <1>10, <2>1, Still DEF AnswerZeroes, Control, Files, Threads, local
<1>11. ASSUME NEW r \in Run, Act(r) PROVE IInv'
  <2>1. Control'
    <3>1. state' \in {"p", "c", "m"} /\ vm' \in {"running", "paused", "shut", "away"}
      BY <1>11, Ways DEF Act, Control, Files, Threads
    <3>2. Files'
      BY <1>11, <3>1 DEF Act, Control, Files
    <3>3. Threads'
      BY <1>11, <3>1 DEF Act, Control, Threads, Det, Quiet, local
    <3>. QED BY <3>2, <3>3 DEF Control
  <2>. QED BY <1>11, <2>1, Still DEF Act, Control, Files, Threads, local
<1>12. ASSUME NEW r \in Run, ExStarts(r) \/ ExWaits(r) \/ ExLooks(r) PROVE IInv'
  <2>1. Control'
    <3>1. UNCHANGED <<statedetect, starter, stops, det, fixed, local, domain>>
      BY <1>12 DEF ExStarts, ExWaits, ExLooks
    <3>2. \E e \in Ex : ex' = [ex EXCEPT ![r] = e]
      BY <1>12 DEF ExStarts, ExWaits, ExLooks, Ex, Quiet
    <3>3. Files' /\ UNCHANGED <<batch, row, factortotal>>
      BY <3>1 DEF Control, Files, domain, local
    <3>4. Threads'
      BY <3>1, <3>2, <3>3 DEF Control, Threads
    <3>. QED BY <3>3, <3>4 DEF Control
  <2>. QED BY <1>12, <2>1, Still DEF ExStarts, ExWaits, ExLooks, local
<1>13. CASE UNCHANGED vars
  <2>1. Control'
    BY <1>13 DEF vars, Control, Files, Threads, threads, local, domain
  <2>. QED BY <1>13, <2>1, Still DEF vars, threads, local
<1>14. ASSUME NEW r \in Run, Query(r) PROVE IInv'
  <2>1. Control'
    <3>1. \E d \in {"poll", "row", "dead"} : det' = [det EXCEPT ![r] = d]
      BY <1>14 DEF Query, Dies
    <3>2. batch' = batch \/ \E b \in SUBSET Row : batch' = [batch EXCEPT ![r] = b]
      BY <1>14 DEF Query
    <3>3. UNCHANGED <<statedetect, starter, stops, ex, fixed, row, factortotal, domain>> /\ det[r] = "query"
      BY <1>14 DEF Query
    <3>4. Files'
      BY <3>3 DEF Control, Files, domain
    <3>5. Threads'
      BY <3>1, <3>2, <3>3 DEF Control, Threads, Det, Quiet, fixed
    <3>. QED BY <3>4, <3>5 DEF Control
  <2>2. Held(r, pending[r], det[r], row[r]) /\ det[r] = "query" /\ pending[r] = NoWrites
    BY <1>14 DEF Query, Runs, Held
  <2>3. DOMAIN table' = DOMAIN table /\ \A x \in DOMAIN table : table'[x] = table[x]
    <3>1. table' = table \/ table' = Over(NoWrites, table)
      BY <1>14, <2>2 DEF Query, select
    <3>. QED BY <3>1, Empty DEF Over
  <2>4. Sound(table')
    BY <2>3, KeyKinds DEF Sound
  <2>5. \A q \in Run : \A o : Given(q, table', o) = Given(q, table, o)
    BY <2>3, KeyKinds DEF Sound, Given
  <2>6. pending' = [pending EXCEPT ![r] = NoWrites] /\ det'[r] # "warn"
    BY <1>14 DEF Query, Dies, Control, Files, Threads
  <2>7. \A q \in Run \ {r} : det'[q] = det[q] /\ row'[q] = row[q]
    BY <1>14 DEF Query, Dies, Control, Files, Threads
  <2>. QED BY <1>14, <2>1, <2>2, <2>4, <2>5, <2>6, <2>7, Clear DEF Query
<1>15. ASSUME NEW r \in Run, NEW i \in Row, MoveOut(r, i) PROVE IInv'
  <2>1. Control'
    BY <1>15 DEF MoveOut, Control, Files, Threads, Det, Quiet, threads, local, domain
  <2>2. Held(r, pending[r], det[r], row[r]) /\ det[r] = "row" /\ i \notin anomalous
    BY <1>15 DEF MoveOut, Runs
  <2>3. pending' = [pending EXCEPT ![r] = NoWrites] /\ det' = det /\ factortotal' = factortotal /\ UNCHANGED fixed
    BY <1>15 DEF MoveOut, Control, Files, Threads, threads
  <2>4. row' = row
    BY <1>15 DEF MoveOut
  <2>5. Sound(table') /\ Given(r, table', NoWrites) \subseteq Given(r, table, pending[r])
        /\ \A q \in Run \ {r} : Given(q, table', pending[q]) = Given(q, table, pending[q])
    <3>1. CASE table' = dosql(table, pending[r], Write(Stat(i), "2"), TRUE)
      <4>1. Stat(i) \in Keys /\ Plain(Stat(i), "2", table, pending[r])
        BY <2>2, KeyKinds DEF Plain
      <4>2. Sound(table)
        OBVIOUS
      <4>. QED BY <2>2, <3>1, <4>1, <4>2, CommitOne
    <3>2. CASE table' = table
      BY <3>2, <2>2, Empty DEF Given
    <3>. QED BY <1>15, <3>1, <3>2 DEF MoveOut, dosql
  <2>. QED BY <2>1, <2>2, <2>3, <2>4, <2>5, Clear
<1>16. ASSUME NEW r \in Run, NEW i \in Row, AddIn(r, i) PROVE IInv'
  <2>0. Held(r, pending[r], "row", row[r]) /\ det[r] = "row" /\ i \in anomalous
        /\ Counted(r, table, pending[r], factortotal[r])
        /\ table' = table /\ factortotal' = factortotal /\ UNCHANGED fixed
    BY <1>16 DEF AddIn, Runs
  <2>1. Control'
    <3>1. \E d \in {"warn", "dead"} : det' = [det EXCEPT ![r] = d]
      BY <1>16 DEF AddIn, Dies
    <3>2. row' = row \/ row' = [row EXCEPT ![r] = i]
      BY <1>16 DEF AddIn
    <3>3. UNCHANGED <<statedetect, starter, stops, ex, fixed, batch, factortotal, domain>>
      BY <1>16 DEF AddIn
    <3>4. Files'
      BY <3>3 DEF Control, Files, domain
    <3>5. Threads'
      BY <2>0, <3>1, <3>2, <3>3 DEF Control, Threads, Det, Quiet
    <3>. QED BY <3>4, <3>5 DEF Control
  <2>2. \A q \in Run \ {r} : det'[q] = det[q] /\ row'[q] = row[q]
    BY <1>16 DEF AddIn, Dies, Control, Files, Threads
  <2>3. CASE Dies(r)
    <3>1. pending' = [pending EXCEPT ![r] = NoWrites] /\ det'[r] # "warn"
      BY <2>3 DEF Dies, Control, Files, Threads
    <3>2. Given(r, table, NoWrites) \subseteq Given(r, table, pending[r])
      BY Empty DEF Given
    <3>. QED BY <2>0, <2>1, <2>2, <3>1, <3>2, Clear
  <2>4. CASE ~Dies(r)
    <3>. DEFINE o == myupdate(pending[r], Write(Stat(i), "1"))
    <3>1. pending' = [pending EXCEPT ![r] = o] /\ det'[r] = "warn" /\ row'[r] = i
      BY <1>16, <2>4 DEF AddIn, Control, Files, Threads
    <3>2. Held(r, o, "warn", i) /\ Given(r, table, o) = Given(r, table, pending[r])
      BY <2>0, MarkHeld
    <3>. HIDE DEF o
    <3>3. Held(r, o, det'[r], row'[r]) /\ Counted(r, table, o, factortotal'[r])
      BY <2>0, <3>1, <3>2 DEF Counted, Heavy
    <3>. QED BY <2>0, <2>1, <2>2, <3>1, <3>3, Begun
  <2>. QED BY <2>3, <2>4
<1>17. ASSUME NEW r \in Run, Warn(r) PROVE IInv'
  <2>0. Held(r, pending[r], "warn", row[r]) /\ det[r] = "warn"
        /\ Counted(r, table, pending[r], factortotal[r]) /\ factortotal[r] \in Nat
        /\ table' = table /\ UNCHANGED fixed
    BY <1>17 DEF Warn, Runs, Control, Files, Threads
  <2>1. Control'
    <3>1. det[r] = "warn" /\ \E d \in {"row", "dead"} : det' = [det EXCEPT ![r] = d]
      BY <1>17 DEF Warn, Dies
    <3>2. batch' = batch \/ batch' = [batch EXCEPT ![r] = @ \ {row[r]}]
      BY <1>17 DEF Warn
    <3>3. factortotal' = factortotal \/ factortotal' = [factortotal EXCEPT ![r] = @ + Weight(row[r])]
      BY <1>17 DEF Warn
    <3>4. row' = [row EXCEPT ![r] = NoRow] /\ UNCHANGED <<statedetect, starter, stops, ex, fixed, domain>>
      BY <1>17 DEF Warn
    <3>0. Weight(row[r]) \in Nat
      BY <2>0, Numbers DEF Held
    <3>5. batch' \in [Run -> SUBSET Row] /\ factortotal' \in [Run -> Nat] /\ row' \in [Run -> Row \union {NoRow}]
      BY <3>0, <3>2, <3>3, <3>4 DEF Control, Threads
    <3>6. det' \in [Run -> Det]
      BY <3>1 DEF Control, Threads, Det, Quiet
    <3>7. \A q \in Run : det'[q] = det[q] \/ (q = r /\ det'[q] \in {"row", "dead"})
      BY <3>1 DEF Control, Threads
    <3>8. \A q \in Run : factortotal'[q] = factortotal[q] \/ q = r
      BY <3>3 DEF Control, Threads
    <3>9. Files'
      BY <3>4 DEF Control, Files, domain
    <3>10. Threads'
      BY <3>1, <3>4, <3>5, <3>6, <3>7, <3>8 DEF Control, Threads
    <3>. QED BY <3>9, <3>10 DEF Control
  <2>2. \A q \in Run \ {r} : /\ det'[q] = det[q] /\ row'[q] = row[q]
                             /\ factortotal'[q] = factortotal[q]
    BY <1>17 DEF Warn, Dies, Control, Files, Threads
  <2>3. CASE Dies(r) /\ factortotal' = factortotal
    <3>1. pending' = [pending EXCEPT ![r] = NoWrites] /\ det'[r] # "warn"
      BY <2>3 DEF Dies, Control, Files, Threads
    <3>2. Given(r, table, NoWrites) \subseteq Given(r, table, pending[r])
      BY Empty DEF Given
    <3>. QED BY <2>0, <2>1, <2>2, <2>3, <3>1, <3>2, Clear
  <2>4. CASE det' = [det EXCEPT ![r] = "row"]
    <3>. DEFINE o == Warned(r, pending[r], row[r])
    <3>1. pending' = [pending EXCEPT ![r] = o] /\ det'[r] = "row" /\ factortotal'[r] = factortotal[r] + Weight(row[r])
      BY <1>17, <2>4 DEF Warn, Warned, Dies, Control, Files, Threads
    <3>2. Held(r, o, "row", row'[r]) /\ Given(r, table, o) = Given(r, table, pending[r]) \union {row[r]}
      BY <2>0, WarningHeld
    <3>. HIDE DEF o
    <3>3. Counted(r, table, o, factortotal[r] + Weight(row[r]))
      <4>1. row[r] \in Row /\ Control
        BY <2>0 DEF Held
      <4>. QED BY <2>0, <3>2, <4>1, CountOne
    <3>4. Held(r, o, det'[r], row'[r]) /\ Counted(r, table, o, factortotal'[r])
      BY <3>1, <3>2, <3>3
    <3>. QED BY <2>0, <2>1, <2>2, <3>1, <3>4, Begun
  <2>. QED BY <1>17, <2>3, <2>4 DEF Warn
<1>18. ASSUME NEW r \in Run, EndTurn(r) PROVE IInv'
  <2>0. Held(r, pending[r], det[r], row[r]) /\ det[r] = "row" /\ factortotal[r] \in Nat
        /\ factortotal' = factortotal /\ UNCHANGED fixed
    BY <1>18 DEF EndTurn, Runs, Control, Files, Threads
  <2>1. Control'
    <3>1. Files'
      BY <1>18 DEF EndTurn, Control, Files, domain
    <3>2. \E d \in {"poll", "answer", "dead"} :
            det' = [det EXCEPT ![r] = d] /\ (d = "answer" => Way(factortotal[r]) # "none")
      BY <1>18 DEF EndTurn, Dies
    <3>3. UNCHANGED <<starter, stops, ex, fixed, batch, row, factortotal>>
      BY <1>18 DEF EndTurn
    <3>4. Threads'
      BY <2>0, <3>2, <3>3 DEF Control, Threads, Det, Quiet
    <3>. QED BY <3>1, <3>4 DEF Control
  <2>2. \A q \in Run \ {r} : det'[q] = det[q] /\ row'[q] = row[q]
    BY <1>18 DEF EndTurn, Dies, Control, Files, Threads
  <2>3. pending' = [pending EXCEPT ![r] = NoWrites] /\ det'[r] # "warn"
    BY <1>18 DEF EndTurn, Dies, Control, Files, Threads
  <2>4. Sound(table') /\ Given(r, table', NoWrites) \subseteq Given(r, table, pending[r])
        /\ \A q \in Run \ {r} : Given(q, table', pending[q]) = Given(q, table, pending[q])
    <3>1. CASE table' = dosql(table, pending[r], Write(Factor, factortotal[r]), TRUE)
      <4>1. Factor \in Keys /\ Plain(Factor, factortotal[r], table, pending[r])
        BY <2>0, KeyKinds DEF Plain
      <4>2. Sound(table)
        OBVIOUS
      <4>. QED BY <2>0, <3>1, <4>1, <4>2, CommitOne
    <3>2. CASE table' = table
      BY <3>2, <2>0, Empty DEF Given
    <3>. QED BY <1>18, <3>1, <3>2 DEF EndTurn, dosql
  <2>. QED BY <2>0, <2>1, <2>2, <2>3, <2>4, Clear
<1>19. ASSUME NEW r \in Run, Poll(r) PROVE IInv'
  <2>0. Held(r, pending[r], det[r], row[r]) /\ det[r] = "poll" /\ pending[r] = NoWrites
        /\ factortotal' = factortotal /\ UNCHANGED fixed /\ pending' = pending /\ row' = row
    BY <1>19 DEF Poll, Runs, Held, local
  <2>1. Control'
    <3>1. Files'
      BY <1>19 DEF Poll, Control, Files, domain
    <3>2. \E d \in {"query", "done", "dead"} : det' = [det EXCEPT ![r] = d]
      BY <1>19 DEF Poll
    <3>3. UNCHANGED <<starter, stops, ex, fixed, batch, row, factortotal>>
      BY <1>19 DEF Poll, local
    <3>4. Threads'
      BY <2>0, <3>2, <3>3 DEF Control, Threads, Det, Quiet
    <3>. QED BY <3>1, <3>4 DEF Control
  <2>2. det'[r] # "warn" /\ \A q \in Run \ {r} : det'[q] = det[q]
    BY <1>19 DEF Poll, Control, Files, Threads
  <2>3. Sound(table') /\ Given(r, table', NoWrites) \subseteq Given(r, table, pending[r])
        /\ \A q \in Run \ {r} : Given(q, table', pending[q]) = Given(q, table, pending[q])
    <3>1. CASE table' = dosql(table, pending[r], Write(Factor, 0), TRUE)
      <4>1. Factor \in Keys /\ Plain(Factor, 0, table, pending[r])
        BY KeyKinds DEF Plain
      <4>2. Sound(table)
        OBVIOUS
      <4>. QED BY <2>0, <3>1, <4>1, <4>2, CommitOne
    <3>2. CASE table' = table
      BY <3>2, <2>0, Empty DEF Given
    <3>. QED BY <1>19, <3>1, <3>2 DEF Poll, dosql
  <2>4. pending' = [pending EXCEPT ![r] = NoWrites]
    BY <2>0, Unwritten DEF Runs
  <2>. QED BY <2>0, <2>1, <2>2, <2>3, <2>4, Clear
<1>20. ASSUME NEW r \in Run, migratevm(r) PROVE IInv'
  <2>0. Held(r, pending[r], det[r], row[r]) /\ det[r] = "migrate" /\ pending[r] = NoWrites
        /\ factortotal' = factortotal /\ UNCHANGED fixed /\ row' = row /\ table' = table
    BY <1>20 DEF migratevm, Runs, Held
  <2>1. Control'
    <3>1. Files'
      BY <1>20 DEF migratevm, Control, Files, domain
    <3>2. \E d \in {"poll", "dead"} : det' = [det EXCEPT ![r] = d]
      BY <1>20 DEF migratevm, Dies
    <3>3. UNCHANGED <<starter, stops, ex, fixed, batch, row, factortotal>>
      BY <1>20 DEF migratevm
    <3>4. Threads'
      BY <2>0, <3>2, <3>3 DEF Control, Threads, Det, Quiet
    <3>. QED BY <3>1, <3>4 DEF Control
  <2>2. det'[r] # "warn" /\ \A q \in Run \ {r} : det'[q] = det[q]
    BY <1>20 DEF migratevm, Dies, Control, Files, Threads
  <2>3. pending' = [pending EXCEPT ![r] = NoWrites]
    BY <1>20, <2>0, Unwritten DEF migratevm, Dies, Runs
  <2>. QED BY <2>0, <2>1, <2>2, <2>3, Clear
<1>21. ASSUME NEW r \in Run, ExAdds(r) PROVE IInv'
  <2>0. UNCHANGED <<det, pending, row, factortotal, fixed>>
    BY <1>21 DEF ExAdds, local
  <2>1. Control'
    BY <1>21 DEF ExAdds, Control, Files, Threads, Ex, Quiet, threads, local, domain
  <2>2. Sound(table') /\ \A q \in Run : \A o : Given(q, table', o) = Given(q, table, o)
    <3>1. CASE table' = table
      BY <3>1
    <3>2. ASSUME NEW i \in Row, table[Stat(i)] = "none",
                 table' = dosql(table, NoWrites, Write(Stat(i), "0"), TRUE)
          PROVE  Sound(table') /\ \A q \in Run : \A o : Given(q, table', o) = Given(q, table, o)
      <4>1. Stat(i) \in Keys /\ Plain(Stat(i), "0", table, NoWrites)
        BY <3>2, KeyKinds, Empty DEF Plain
      <4>2. Sound(table)
        OBVIOUS
      <4>. QED BY <3>2, <4>1, <4>2, CommitAlone
    <3>. QED BY <1>21, <3>1, <3>2 DEF ExAdds
  <2>. QED BY <2>0, <2>1, <2>2, Primed DEF Runs, Counted, Heavy
<1>. QED BY <1>1, <1>2, <1>3, <1>4, <1>5, <1>6, <1>7, <1>8, <1>9, <1>10, <1>11, <1>12, <1>13, <1>14,
            <1>15, <1>16, <1>17, <1>18, <1>19, <1>20, <1>21
         DEF Next, Detector, exdamain

\* An invariant of the model has them agree.
LEMMA Agree == IInv => CommitsAgree
<1>. SUFFICES ASSUME IInv PROVE CommitsAgree
  OBVIOUS
<1>1. TypeOK
  <2>1. \A r \in Run : det[r] \in Quiet => pending[r] = NoWrites
    BY DEF IInv, Runs, Held, Quiet
  <2>2. \A i \in Row : table[Stat(i)] \in {"none", "0", "1", "2"}
    BY DEF IInv, Sound
  <2>3. table[Factor] \in Nat
    BY DEF IInv, Sound
  <2>. QED BY <2>1, <2>2, <2>3 DEF TypeOK, IInv, Control, Files, Threads, Det, Ex
<1>2. MarkedIffWarned
  BY DEF MarkedIffWarned, IInv, Sound
<1>3. ASSUME NEW r \in Run
      PROVE  Least * Cardinality(WarnedBy(r) \intersect Counting) <= factortotal[r]
  <2>1. Control /\ Counted(r, table, pending[r], factortotal[r]) /\ factortotal[r] \in Nat
    BY DEF IInv, Runs, Control, Threads
  <2>2. Given(r, table, NoWrites) = WarnedBy(r)
    BY Empty DEF Given, WarnedBy
  <2>3. Given(r, table, NoWrites) \subseteq Given(r, table, pending[r])
    BY Empty DEF Given
  <2>4. Counted(r, table, NoWrites, factortotal[r])
    BY <2>1, <2>3, CountLess
  <2>. QED BY <2>2, <2>4 DEF Counted, Heavy
<1>. QED BY <1>1, <1>2, <1>3 DEF CommitsAgree, WarningsCounted

\* For any rows, scores, state_anomaly and runs, a committed mark has its
\* committed warning, a committed warning its mark, and each warning a run has
\* committed is in its sum with what it counts at least, whatever statement of
\* Query, AddIn, Warn, MoveOut, EndTurn or Poll fails, and whichever row of the
\* turn commits what detectState has pending.
THEOREM MarksAgree == Spec => []CommitsAgree
<1>. QED BY InitIInv, NextIInv, Agree, PTL DEF Spec

-----------------------------------------------------------------------------
(***************************************************************************)
(* The commands that classify stored rows (Training).  First the calls of  *)
(* a command.                                                              *)
(***************************************************************************)
Tables == {"state", "nowstate", "npsinfo", "abnpsinfo", "testset", "nowpsinfo"}

\* One call for each stage.
LEMMA StagedSeq ==
  ASSUME Train!TrainingAssumption, NEW t \in Tables
  PROVE  /\ Train!Staged(t) \in Seq(Tables \X Nat) /\ Len(Train!Staged(t)) = Len(Stages)
         /\ \A n \in 1 .. Len(Stages) : Train!Staged(t)[n] = <<t, Stages[n]>>
BY SMTT(20) DEF Train!Staged, Train!TrainingAssumption

\* traindetectState has one call more, for the new states.
LEMMA CallsStates ==
  ASSUME Train!TrainingAssumption, op = "states"
  PROVE  /\ Train!Calls \in Seq(Tables \X Nat) /\ Len(Train!Calls) = Len(Stages) + 1
<1>. DEFINE c == <<"nowstate", Last>>
<1>1. Train!Calls = Append(Train!Staged("state"), c)
  BY DEF Train!Calls, Train!Modes
<1>2. c \in Tables \X Nat /\ "state" \in Tables
  BY DEF Train!TrainingAssumption, Tables
<1>. HIDE DEF c
<1>. QED BY <1>1, <1>2, StagedSeq, AppendProperties

\* trainpsinfo has two: the first limit again, and the rows that were moved out.
LEMMA CallsProcesses ==
  ASSUME Train!TrainingAssumption, op = "processes"
  PROVE  /\ Train!Calls \in Seq(Tables \X Nat) /\ Len(Train!Calls) = Len(Stages) + 2
         /\ \A n \in 1 .. Len(Stages) + 1 : Train!Calls[n][1] = "npsinfo"
         /\ Train!Calls[Len(Stages) + 1] = <<"npsinfo", Stages[1]>>
<1>. DEFINE a == <<"npsinfo", Stages[1]>>
            b == <<"abnpsinfo", Last>>
<1>0. Len(Stages) \in Nat \ {0}
  BY DEF Train!TrainingAssumption
<1>1. Train!Calls = Train!Staged("npsinfo") \o <<a, b>>
  BY DEF Train!Calls, Train!Modes
<1>2. a \in Tables \X Nat /\ b \in Tables \X Nat /\ "npsinfo" \in Tables
  BY <1>0 DEF Train!TrainingAssumption, Tables
<1>3. a[1] = "npsinfo"
  OBVIOUS
<1>. HIDE DEF a, b
<1>4. <<a, b>> \in Seq(Tables \X Nat) /\ Len(<<a, b>>) = 2 /\ <<a, b>>[1] = a
  BY <1>2
<1>5. /\ Train!Calls \in Seq(Tables \X Nat) /\ Len(Train!Calls) = Len(Stages) + 2
  BY SMTT(20), <1>0, <1>1, <1>2, <1>4, StagedSeq, ConcatProperties
<1>6. \A n \in 1 .. Len(Stages) : Train!Calls[n] = Train!Staged("npsinfo")[n]
  BY <1>0, <1>1, <1>2, <1>4, StagedSeq, ConcatProperties
<1>7. Train!Calls[Len(Stages) + 1] = a
  BY SMTT(20), <1>0, <1>1, <1>2, <1>4, StagedSeq, ConcatProperties
<1>8. \A n \in 1 .. Len(Stages) : Train!Calls[n][1] = "npsinfo"
  <2>. TAKE n \in 1 .. Len(Stages)
  <2>1. Train!Calls[n] = <<"npsinfo", Stages[n]>>
    BY <1>2, <1>6, StagedSeq
  <2>. QED BY <2>1
<1>. QED BY <1>0, <1>3, <1>5, <1>7, <1>8 DEF a

\* The others have one.
LEMMA CallsOne ==
  ASSUME Train!TrainingAssumption
  PROVE  /\ op \in Train!Modes \union {"psmode"} => Train!Calls = <<<<"testset", Last>>>>
         /\ op = "watch" => Train!Calls = <<<<"nowpsinfo", Last>>>>
BY DEF Train!Calls, Train!Modes

\* Every command has a sequence of calls, each of a table and a limit.
LEMMA CallsSeq ==
  ASSUME Train!TrainingAssumption, op \in Train!Modes \union Train!Endless \union Train!Scorers
  PROVE  Train!Calls \in Seq(Tables \X Nat) /\ Len(Train!Calls) >= 1
<1>0. Len(Stages) \in Nat \ {0} /\ Last \in Nat
  BY DEF Train!TrainingAssumption
<1>1. CASE op = "states"
  BY <1>0, <1>1, CallsStates
<1>2. CASE op = "processes"
  BY <1>0, <1>2, CallsProcesses
<1>3. CASE op \in Train!Modes \union {"psmode", "watch"}
  <2>1. \E t \in Tables \X Nat : Train!Calls = <<t>>
    BY <1>0, <1>3, CallsOne DEF Tables
  <2>. QED BY <2>1
<1>. QED BY <1>1, <1>2, <1>3 DEF Train!Endless, Train!Scorers

-----------------------------------------------------------------------------
\* The keys of a row and of its warning in the table of the call.
Own(r) == <<Train!Of, r>>
Alarm(r) == Train!Warning(r)

\* Where a command can be.
Command ==
  /\ op \in Train!Modes \union Train!Endless \union Train!Scorers
  /\ stage \in 1 .. Len(Train!Calls) /\ (op = "states" /\ pc = "mark" => stage = 1)
  /\ op = "processes" /\ pc = "mark" => stage = Len(Stages) + 1
  /\ pc \in {"mark", "query", "row", "commit", "done", "dead"}
  /\ pc = "done" => op \notin Train!Endless /\ stage = Len(Train!Calls)
  /\ op \notin {"states", "processes"} => pc # "mark"
  /\ fetched \subseteq Stored /\ (pc \in {"mark", "query", "commit", "done"} => fetched = {})

\* The keys and values of the table; detectPsinfo is at rows not yet classified.
Tabled ==
  /\ DOMAIN stored = Train!Rows \union {Alarm(r) : r \in Stored}
  /\ op # "watch" => \A k \in Train!Rows : stored[k] \in 0 .. 2
  /\ op = "watch" => \A r \in Stored : pc = "row" /\ r \in fetched => stored[Own(r)] = 0

\* What is not committed: rows that were added, each with its warning.
Unsaved ==
  /\ DOMAIN unsaved \subseteq {Own(q) : q \in Stored} \union {Alarm(q) : q \in Stored}
  /\ \A k \in DOMAIN unsaved : unsaved[k] = 1
  /\ op = "watch" => \A q \in Stored : /\ Own(q) \in DOMAIN unsaved <=> Alarm(q) \in DOMAIN unsaved
                                       /\ Own(q) \in DOMAIN unsaved => q \notin fetched
  /\ pc \notin {"row", "commit"} => DOMAIN unsaved = {}

\* The calls that are over left no row, but for those that operation 7 asks for again.
CallsOver ==
  op \in {"states", "processes"} =>
    \A n \in 1 .. Len(Train!Calls), r \in Stored :
      (n < stage \/ pc = "done") /\ r < Train!Calls[n][2] =>
        \/ stored[<<Train!Calls[n][1], r>>] # 0
        \/ op = "processes" /\ stage = Len(Stages) + 1 /\ r < First

\* Only a row in hand, or one whose statement failed, is left by trainmode and
\* selectmode.
AskedOnce ==
  op \in Train!Modes => \A r \in Stored :
    pc \in {"row", "commit", "done"} /\ stored[Own(r)] = 0 => r \in fetched \/ r \in failed

\* The inductive invariant.
TInv == Command /\ Tabled /\ Unsaved /\ WarnedOnce /\ CallsOver /\ AskedOnce

\* The table and the limit of the call.
LEMMA TheCall ==
  ASSUME Train!TrainingAssumption, Command
  PROVE  /\ Train!Calls \in Seq(Tables \X Nat) /\ DOMAIN Train!Calls = 1 .. Len(Train!Calls)
         /\ Len(Train!Calls) \in Nat \ {0} /\ stage \in 1 .. Len(Train!Calls)
         /\ \A n \in 1 .. Len(Train!Calls) : Train!Calls[n] \in Tables \X Nat /\ Train!Calls[n][1] \in Tables
         /\ Train!Of \in Tables /\ Train!Max \in Nat
         /\ Train!Of = Train!Calls[stage][1] /\ Train!Max = Train!Calls[stage][2]
<1>1. Train!Calls \in Seq(Tables \X Nat) /\ Len(Train!Calls) >= 1
  BY CallsSeq DEF Command
<1>2. \A n \in 1 .. Len(Train!Calls) : Train!Calls[n] \in Tables \X Nat
  BY <1>1
<1>3. stage \in 1 .. Len(Train!Calls)
  BY DEF Command
<1>4. Train!Calls[stage] \in Tables \X Nat
  BY <1>2, <1>3
<1>. QED BY <1>1, <1>2, <1>3, <1>4, LenProperties DEF Train!Of, Train!Max

\* The keys of the calls are keys of the table; keys of two kinds, or of two rows, differ.
LEMMA OwnKeys ==
  ASSUME Train!TrainingAssumption, Command
  PROVE  /\ \A r \in Stored : Own(r) \in Train!Rows
         /\ \A n \in 1 .. Len(Train!Calls), r \in Stored : <<Train!Calls[n][1], r>> \in Train!Rows
         /\ \A r \in Stored : Alarm(r) \notin Train!Rows
         /\ \A r, q \in Stored : Own(r) # Alarm(q) /\ (Own(r) = Own(q) => r = q) /\ (Alarm(r) = Alarm(q) => r = q)
         /\ op \in {"watch"} \union Train!Modes => Train!Rows = {Own(r) : r \in Stored}
<1>1. \A n \in 1 .. Len(Train!Calls), r \in Stored : <<Train!Calls[n][1], r>> \in Train!Rows
  BY TheCall DEF Train!Rows
<1>2. \A r \in Stored : Own(r) \in Train!Rows
  BY <1>1, TheCall DEF Own
<1>3. ASSUME NEW k \in Train!Rows PROVE k[1] \in Tables
  BY <1>3, TheCall DEF Train!Rows
<1>4. \A r \in Stored : Alarm(r)[1] \notin Tables
  BY DEF Alarm, Train!Warning, Tables
<1>5. \A r, q \in Stored : (Own(r) = Own(q) => r = q) /\ (Alarm(r) = Alarm(q) => r = q)
  BY DEF Own, Alarm, Train!Warning
<1>6. ASSUME op \in {"watch"} \union Train!Modes PROVE Train!Rows = {Own(r) : r \in Stored}
  <2>1. \E c \in Tables \X Nat : Train!Calls = <<c>>
    BY <1>6, CallsOne DEF Tables, Train!TrainingAssumption
  <2>2. {Train!Calls[n][1] : n \in DOMAIN Train!Calls} = {Train!Of}
    BY <2>1, TheCall
  <2>. QED BY <2>2 DEF Own, Train!Rows
<1>. QED BY <1>1, <1>2, <1>3, <1>4, <1>5, <1>6

\* The invariant leaves no row behind at the end.
LEMMA TInvClassified == Train!TrainingAssumption /\ TInv => EndsClassified
<1>. SUFFICES ASSUME Train!TrainingAssumption, TInv, pc = "done",
                     NEW n \in DOMAIN Train!Calls, NEW r \in Stored,
                     r < Train!Calls[n][2], stored[<<Train!Calls[n][1], r>>] = 0
              PROVE  op \in Train!Modes /\ r \in failed
  BY DEF EndsClassified, Train!EndsClassified
<1>0. Command /\ n \in 1 .. Len(Train!Calls) /\ stage = Len(Train!Calls)
  BY TheCall DEF TInv, Command
<1>1. CASE op \in {"states", "processes"}
  <2>1. op = "processes" /\ stage = Len(Stages) + 1
    BY <1>0, <1>1 DEF TInv, CallsOver
  <2>2. Len(Stages) \in Nat
    BY DEF Train!TrainingAssumption
  <2>. QED BY <1>0, <2>1, <2>2, CallsProcesses
<1>2. CASE op \in Train!Modes
  <2>1. Len(Train!Calls) = 1
    BY <1>2, CallsOne
  <2>2. stored[Own(r)] = 0
    BY <1>0, <2>1, TheCall DEF Own
  <2>. QED BY <1>0, <1>2, <2>2 DEF TInv, AskedOnce, Command
<1>. QED BY <1>0, <1>1, <1>2 DEF Command, Train!Endless, Train!Scorers

\* A command starts with nothing classified, and nothing pending.
LEMMA InitTInv == Train!TrainingAssumption /\ Train!Init => TInv
<1>. SUFFICES ASSUME Train!TrainingAssumption, Train!Init PROVE TInv
  OBVIOUS
<1>. DEFINE Empty0 == [k \in Train!Rows |-> IF op = "watch" THEN Train!NotYet ELSE 0]
            Quiet0 == [k \in {Train!Warning(r) : r \in Stored} |-> 0]
<1>1. /\ op \in Train!Modes \union Train!Endless \union Train!Scorers
      /\ stage = 1 /\ fetched = {} /\ unsaved = Train!NoWrites
      /\ pc = IF op = "states" THEN "mark" ELSE "query"
      /\ stored = Train!Over(Empty0, Quiet0)
  BY DEF Train!Init
<1>2. Command
  BY <1>1, CallsSeq, LenProperties DEF Command
<1>3. DOMAIN unsaved = {}
  BY <1>1 DEF Train!NoWrites
<1>4. Unsaved
  <2>1. pc \in {"mark", "query"}
    BY <1>1
  <2>. QED BY <1>1, <1>3, <2>1 DEF Unsaved
<1>5. /\ DOMAIN stored = Train!Rows \union {Alarm(r) : r \in Stored}
      /\ \A k \in Train!Rows : stored[k] = IF op = "watch" THEN 9 ELSE 0
      /\ \A r \in Stored : stored[Alarm(r)] = 0
  <2>1. DOMAIN Empty0 = Train!Rows /\ \A k \in Train!Rows : Empty0[k] = IF op = "watch" THEN 9 ELSE 0
    BY DEF Train!NotYet
  <2>2. DOMAIN Quiet0 = {Alarm(r) : r \in Stored} /\ \A r \in Stored : Quiet0[Alarm(r)] = 0
    BY DEF Alarm
  <2>. HIDE DEF Empty0, Quiet0
  <2>3. DOMAIN stored = DOMAIN Empty0 \union DOMAIN Quiet0
    BY <1>1 DEF Train!Over
  <2>4. \A k \in DOMAIN stored : stored[k] = IF k \in DOMAIN Empty0 THEN Empty0[k] ELSE Quiet0[k]
    BY <1>1 DEF Train!Over
  <2>. QED BY <1>2, <2>1, <2>2, <2>3, <2>4, OwnKeys
<1>6. Tabled
  BY <1>1, <1>5 DEF Tabled
<1>7. WarnedOnce
  BY <1>2, <1>5, OwnKeys DEF WarnedOnce, Train!WarnedOnce, Alarm, Own
<1>8. CallsOver
  <2>1. stage = 1 /\ pc # "done" /\ Len(Train!Calls) \in Nat
    BY <1>1, <1>2, TheCall
  <2>. QED BY <2>1 DEF CallsOver
<1>9. AskedOnce
  BY <1>1 DEF AskedOnce
<1>. QED BY <1>2, <1>4, <1>6, <1>7, <1>8, <1>9 DEF TInv

\* u is the table with everything that is pending, after a write w of classes.
Commits(u, w) ==
  /\ DOMAIN u = DOMAIN w \union DOMAIN unsaved \union DOMAIN stored
  /\ \A k \in DOMAIN u :
       u[k] = IF k \in DOMAIN w THEN w[k] ELSE IF k \in DOMAIN unsaved THEN unsaved[k] ELSE stored[k]

\* A commit leaves no row unclassified that was classified, and agrees with
\* itself about the warnings.
LEMMA Committed ==
  ASSUME Train!TrainingAssumption, Command, Tabled, Unsaved, NEW w, NEW u, Commits(u, w),
         DOMAIN w \subseteq {Own(r) : r \in Stored}, \A k \in DOMAIN w : w[k] \in 1 .. 2
  PROVE  /\ DOMAIN u = DOMAIN stored
         /\ op # "watch" => \A k \in Train!Rows : u[k] \in 0 .. 2 /\ (stored[k] # 0 => u[k] # 0)
         /\ \A k \in DOMAIN w : u[k] # 0
<1>1. \A r \in Stored : Own(r) \in DOMAIN stored /\ Alarm(r) \in DOMAIN stored
  BY OwnKeys DEF Tabled
<1>2. DOMAIN u = DOMAIN stored
  <2>1. DOMAIN w \subseteq DOMAIN stored
    BY <1>1
  <2>2. DOMAIN unsaved \subseteq DOMAIN stored
    BY <1>1 DEF Unsaved
  <2>. QED BY <2>1, <2>2 DEF Commits
<1>3. Train!Rows \subseteq DOMAIN u
  BY <1>2 DEF Tabled
<1>4. \A k \in DOMAIN w : u[k] # 0
  BY DEF Commits
<1>5. ASSUME op # "watch", NEW k \in Train!Rows PROVE u[k] \in 0 .. 2 /\ (stored[k] # 0 => u[k] # 0)
  <2>1. CASE k \in DOMAIN w
    BY <2>1, <1>3 DEF Commits
  <2>2. CASE k \notin DOMAIN w /\ k \in DOMAIN unsaved
    BY <2>2, <1>3 DEF Commits, Unsaved
  <2>3. CASE k \notin DOMAIN w /\ k \notin DOMAIN unsaved
    BY <2>3, <1>3, <1>5 DEF Commits, Tabled
  <2>. QED BY <2>1, <2>2, <2>3
<1>. QED BY <1>2, <1>4, <1>5

\* What detectPsinfo has pending, with a row that it moves out, has one warning for
\* every row it adds, and none for another.
LEMMA CommittedWarns ==
  ASSUME Train!TrainingAssumption, Command, Tabled, Unsaved, WarnedOnce, op = "watch",
         NEW w, NEW u, Commits(u, w),
         \/ DOMAIN w = {}
         \/ \E q \in fetched : DOMAIN w = {Own(q)} /\ w[Own(q)] = 2 /\ pc = "row"
  PROVE  /\ \A r \in Stored : u[Alarm(r)] = IF u[Own(r)] = 1 THEN 1 ELSE 0
         /\ \A r \in fetched : pc = "row" /\ Own(r) \notin DOMAIN w => u[Own(r)] = 0
<1>0. fetched \subseteq Stored
  BY DEF Command
<1>1. \A r \in Stored : Own(r) \in DOMAIN u /\ Alarm(r) \in DOMAIN u /\ Alarm(r) \notin DOMAIN w
  BY ZenonT(40), <1>0, OwnKeys DEF Commits, Tabled
<1>2. ASSUME NEW r \in Stored PROVE u[Alarm(r)] = IF u[Own(r)] = 1 THEN 1 ELSE 0
  <2>1. stored[Alarm(r)] = IF stored[Own(r)] = 1 THEN 1 ELSE 0
    BY DEF WarnedOnce, Train!WarnedOnce, Alarm, Own
  <2>2. CASE Own(r) \in DOMAIN w
    <3>1. r \in fetched /\ pc = "row" /\ u[Own(r)] = 2
      <4>1. PICK q \in fetched : DOMAIN w = {Own(q)} /\ w[Own(q)] = 2 /\ pc = "row"
        BY <2>2
      <4>2. q = r
        BY <4>1, <2>2, <1>0, OwnKeys
      <4>3. u[Own(r)] = w[Own(r)]
        BY <1>1, <2>2 DEF Commits
      <4>. QED BY <4>1, <4>2, <4>3
    <3>2. Alarm(r) \notin DOMAIN unsaved /\ stored[Own(r)] = 0
      BY <3>1, <1>0 DEF Unsaved, Tabled
    <3>. QED BY <2>1, <3>1, <3>2, <1>1 DEF Commits
  <2>3. CASE Own(r) \notin DOMAIN w /\ Own(r) \in DOMAIN unsaved
    BY <2>3, <1>1 DEF Commits, Unsaved
  <2>4. CASE Own(r) \notin DOMAIN w /\ Own(r) \notin DOMAIN unsaved
    BY <2>1, <2>4, <1>1 DEF Commits, Unsaved
  <2>. QED BY <2>2, <2>3, <2>4
<1>3. ASSUME NEW r \in fetched, pc = "row", Own(r) \notin DOMAIN w PROVE u[Own(r)] = 0
  BY <1>0, <1>1, <1>3 DEF Commits, Unsaved, Tabled
<1>. QED BY <1>2, <1>3

\* Every step of a command keeps it.
LEMMA NextTInv == Train!TrainingAssumption /\ TInv /\ [Train!Step]_training => TInv'
<1>. SUFFICES ASSUME Train!TrainingAssumption, TInv, [Train!Step]_training PROVE TInv'
  OBVIOUS
<1>. USE DEF TInv
<1>0. op' = op
  BY DEF Train!Step, training, Train!MarkNormal, Train!Unmark, Train!Mark, Train!traindetectState,
         Train!trainpsinfo, Train!detectPsinfo, Train!trainmode, Train!selectmode, Train!detectpsmode,
         Train!Goes, Train!AddFails, Train!Query, Train!NextCall, Train!Classify, Train!Turn,
         Train!EndBatch, Train!Insert, Train!MainEnds
<1>a. /\ Train!Calls' = Train!Calls /\ Train!Rows' = Train!Rows
      /\ stage' = stage => Train!Of' = Train!Of /\ Train!Max' = Train!Max /\ \A r : Own(r)' = Own(r)
      /\ \A r : Alarm(r)' = Alarm(r)
  <2>1. Train!Calls' = Train!Calls
    BY <1>0 DEF Train!Calls, Train!Staged
  <2>2. Train!Rows' = Train!Rows
    BY <2>1 DEF Train!Rows
  <2>3. ASSUME stage' = stage PROVE Train!Of' = Train!Of /\ Train!Max' = Train!Max
    BY <2>1, <2>3 DEF Train!Of, Train!Max
  <2>4. ASSUME stage' = stage PROVE \A r : Own(r)' = Own(r)
    BY <2>3, <2>4 DEF Own
  <2>5. \A r : Alarm(r)' = Alarm(r)
    BY DEF Alarm, Train!Warning
  <2>. QED BY <2>1, <2>2, <2>3, <2>4, <2>5
<1>1. CASE Train!MarkNormal
  <2>1. op = "states" /\ pc = "mark" /\ stage = 1 /\ fetched = {} /\ pc' = "query"
        /\ UNCHANGED <<stage, fetched, unsaved, failed>> /\ Len(Stages) \in Nat
    BY <1>1 DEF Train!MarkNormal, Train!Mark, Command, Train!TrainingAssumption
  <2>2. PICK ok \in BOOLEAN :
          stored' = Train!dosql(stored, unsaved, [k \in {Own(r) : r \in {x \in Stored : x < First}} |-> 1], ok)
    BY <1>1 DEF Train!MarkNormal, Train!Mark, Own
  <2>3. DOMAIN stored' = DOMAIN stored /\ \A k \in Train!Rows : stored'[k] \in 0 .. 2
    <3>. DEFINE w == [k \in {Own(r) : r \in {x \in Stored : x < First}} |-> 1]
    <3>1. DOMAIN w \subseteq {Own(r) : r \in Stored} /\ \A k \in DOMAIN w : w[k] \in 1 .. 2
      OBVIOUS
    <3>2. stored' = Train!dosql(stored, unsaved, w, ok)
      BY <2>2
    <3>. HIDE DEF w
    <3>3. stored' = stored \/ Commits(stored', w)
      BY <3>2 DEF Commits, Train!dosql, Train!allcommit, Train!myupdate, Train!Over
    <3>. QED BY <2>1, <3>1, <3>3, Committed DEF Tabled
  <2>4. Command'
    BY <1>0, <1>a, <2>1 DEF Command
  <2>5. Tabled'
    BY <1>0, <1>a, <2>1, <2>3 DEF Tabled
  <2>6. Unsaved'
    BY <1>0, <1>a, <2>1 DEF Unsaved
  <2>7. WarnedOnce'
    BY <1>0, <2>1 DEF WarnedOnce, Train!WarnedOnce
  <2>8. CallsOver'
    BY <1>0, <1>a, <2>1 DEF CallsOver
  <2>9. AskedOnce'
    BY <1>0, <2>1 DEF AskedOnce, Train!Modes
  <2>. QED BY <2>4, <2>5, <2>6, <2>7, <2>8, <2>9
<1>2. CASE Train!Unmark
  <2>1. op = "processes" /\ pc = "mark" /\ stage = Len(Stages) + 1 /\ fetched = {} /\ pc' = "query"
        /\ DOMAIN unsaved = {} /\ UNCHANGED <<stage, fetched, unsaved, failed>> /\ Len(Stages) \in Nat
    BY <1>2 DEF Train!Unmark, Train!Mark, Command, Unsaved, Train!TrainingAssumption
  <2>2. PICK ok \in BOOLEAN :
          stored' = Train!dosql(stored, unsaved, [k \in {Own(r) : r \in {x \in Stored : x < First}} |-> 0], ok)
    BY <1>2 DEF Train!Unmark, Train!Mark, Own
  <2>3. /\ DOMAIN stored' = DOMAIN stored
        /\ \A k \in DOMAIN stored : stored'[k] = stored[k]
                                    \/ (stored'[k] = 0 /\ \E x \in Stored : x < First /\ k = Own(x))
    <3>. DEFINE w == [k \in {Own(r) : r \in {x \in Stored : x < First}} |-> 0]
    <3>1. DOMAIN w = {Own(r) : r \in {x \in Stored : x < First}} /\ \A k \in DOMAIN w : w[k] = 0
      OBVIOUS
    <3>2. stored' = Train!dosql(stored, unsaved, w, ok)
      BY <2>2
    <3>. HIDE DEF w
    <3>3. DOMAIN w \subseteq DOMAIN stored
      BY <3>1, OwnKeys DEF Tabled
    <3>4. stored' = stored \/ Commits(stored', w)
      BY <3>2 DEF Commits, Train!dosql, Train!allcommit, Train!myupdate, Train!Over
    <3>. QED BY <2>1, <3>1, <3>3, <3>4 DEF Commits
  <2>4. Command'
    BY <1>0, <1>a, <2>1 DEF Command
  <2>5. Tabled'
    BY <1>0, <1>a, <2>1, <2>3 DEF Tabled
  <2>6. Unsaved'
    BY <1>0, <1>a, <2>1 DEF Unsaved
  <2>7. WarnedOnce'
    BY <1>0, <2>1 DEF WarnedOnce, Train!WarnedOnce
  <2>8. CallsOver'
    <3>. SUFFICES ASSUME NEW n \in 1 .. Len(Train!Calls), NEW r \in Stored, n < stage, r < Train!Calls[n][2],
                         ~ (r < First)
                  PROVE  stored'[<<Train!Calls[n][1], r>>] # 0
      BY <1>0, <1>a, <2>1 DEF CallsOver
    <3>1. stored[<<Train!Calls[n][1], r>>] # 0
      BY <2>1 DEF CallsOver
    <3>2. <<Train!Calls[n][1], r>> \in DOMAIN stored
      BY OwnKeys DEF Tabled
    <3>3. \A x \in Stored : <<Train!Calls[n][1], r>> = Own(x) => x = r
      BY DEF Own
    <3>. QED BY <2>3, <3>1, <3>2, <3>3
  <2>9. AskedOnce'
    BY <1>0, <2>1 DEF AskedOnce, Train!Modes
  <2>. QED BY <2>4, <2>5, <2>6, <2>7, <2>8, <2>9
<1>3. CASE Train!Query
  <2>0. DOMAIN Train!NoWrites = {}
    BY DEF Train!NoWrites
  <2>1. /\ pc = "query" /\ fetched = {} /\ DOMAIN unsaved = {} /\ UNCHANGED <<stage, stored, failed>>
        /\ \/ pc' = "row" /\ fetched' = Train!Batch /\ unsaved' = unsaved
           \/ pc' = "dead" /\ fetched' = fetched /\ DOMAIN unsaved' = {}
    BY <1>3, <2>0 DEF Train!Query, Train!Raises, Command, Unsaved
  <2>2. Train!Batch \subseteq Stored /\ \A r \in Train!Batch : stored[Own(r)] = 0
    BY DEF Train!Batch, Own
  <2>3. op \in Train!Modes => \A r \in Stored : stored[Own(r)] = 0 => r \in Train!Batch
    <3>. SUFFICES ASSUME op \in Train!Modes, NEW r \in Stored, stored[Own(r)] = 0 PROVE r \in Train!Batch
      OBVIOUS
    <3>1. Train!Calls = <<<<"testset", Last>>>>
      BY CallsOne
    <3>2. Train!Max = Last
      BY <3>1, TheCall
    <3>. QED BY <3>2 DEF Train!Batch, Own, Train!TrainingAssumption
  <2>. HIDE DEF Train!Batch
  <2>4. Command'
    BY <1>0, <1>a, <2>1, <2>2 DEF Command
  <2>5. Tabled'
    BY <1>0, <1>a, <2>1, <2>2 DEF Tabled
  <2>6. Unsaved'
    BY <1>0, <1>a, <2>1 DEF Unsaved
  <2>7. WarnedOnce'
    BY <1>0, <1>a, <2>1 DEF WarnedOnce, Train!WarnedOnce, Train!Warning
  <2>8. CallsOver'
    BY <1>0, <1>a, <2>1 DEF CallsOver
  <2>9. AskedOnce'
    BY <1>0, <1>a, <2>1, <2>3 DEF AskedOnce
  <2>. QED BY <2>4, <2>5, <2>6, <2>7, <2>8, <2>9
<1>4. CASE Train!NextCall
  <2>0. Len(Stages) \in Nat \ {0} /\ Stages[1] \in Nat /\ First \in Nat /\ First <= Stages[1] /\ Stored \subseteq Nat
    BY DEF Train!TrainingAssumption
  <2>1. /\ pc = "query" /\ op \notin Train!Endless /\ fetched = {} /\ DOMAIN unsaved = {}
        /\ UNCHANGED <<fetched, stored, unsaved, failed>>
        /\ Train!Batch = {}
        /\ \/ stage = Len(Train!Calls) /\ pc' = "done" /\ stage' = stage
           \/ /\ stage # Len(Train!Calls) /\ stage' = stage + 1
              /\ pc' = IF op = "processes" /\ stage = Len(Stages) THEN "mark" ELSE "query"
    BY <1>4 DEF Train!NextCall, Command, Unsaved
  <2>2. \A r \in Stored : r < Train!Max => stored[Own(r)] # 0
    BY <2>1 DEF Train!Batch, Own
  <2>3. Command'
    BY SMTT(20), <1>0, <1>a, <2>0, <2>1, TheCall DEF Command
  <2>4. op # "watch"
    BY <2>1 DEF Train!Endless
  <2>5. Tabled'
    BY <1>0, <1>a, <2>1, <2>4 DEF Tabled
  <2>6. Unsaved'
    BY <1>0, <1>a, <2>1, <2>4 DEF Unsaved
  <2>7. WarnedOnce'
    BY <1>0, <2>4 DEF WarnedOnce, Train!WarnedOnce
  <2>8. CallsOver'
    <3>0. \A n \in 1 .. Len(Train!Calls) : n < stage' \/ pc' = "done" => n <= stage
      BY <2>1, TheCall
    <3>. SUFFICES ASSUME op \in {"states", "processes"}, NEW n \in 1 .. Len(Train!Calls), NEW r \in Stored,
                         n <= stage, r < Train!Calls[n][2]
                  PROVE  \/ stored[<<Train!Calls[n][1], r>>] # 0
                         \/ op = "processes" /\ stage' = Len(Stages) + 1 /\ r < First
      BY <1>0, <1>a, <2>1, <3>0 DEF CallsOver
    <3>1. CASE n = stage
      <4>1. r < Train!Max /\ Own(r) = <<Train!Calls[n][1], r>>
        BY <3>1, TheCall DEF Own
      <4>. QED BY <4>1, <2>2
    <3>2. CASE n < stage
      <4>1. \/ stored[<<Train!Calls[n][1], r>>] # 0
            \/ op = "processes" /\ stage = Len(Stages) + 1 /\ r < First
        BY <3>2 DEF CallsOver
      <4>2. ASSUME op = "processes" /\ stage = Len(Stages) + 1 /\ r < First
            PROVE  stored[<<Train!Calls[n][1], r>>] # 0
        <5>1. Train!Calls[n][1] = "npsinfo" /\ Train!Of = "npsinfo" /\ Train!Max = Stages[1]
          BY <2>0, <3>2, <4>2, CallsProcesses, TheCall
        <5>2. r < Train!Max
          BY <2>0, <4>2, <5>1
        <5>. QED BY <2>2, <5>1, <5>2 DEF Own
      <4>. QED BY <4>1, <4>2
    <3>3. n = stage \/ n < stage
      BY TheCall
    <3>. QED BY <3>1, <3>2, <3>3
  <2>9. AskedOnce'
    <3>. SUFFICES ASSUME op \in Train!Modes, pc' \in {"row", "commit", "done"},
                         NEW r \in Stored, stored'[Own(r)'] = 0
                  PROVE  FALSE
      BY <1>0 DEF AskedOnce
    <3>1. pc' = "done" /\ stage' = stage
      BY <2>1
    <3>2. Train!Max = Last
      BY CallsOne, TheCall
    <3>. QED BY <1>a, <2>1, <2>2, <3>1, <3>2 DEF Train!TrainingAssumption
  <2>. QED BY <2>3, <2>5, <2>6, <2>7, <2>8, <2>9
<1>5. CASE Train!Classify
  <2>1. PICK r \in fetched :
          /\ pc = "row" /\ fetched' = fetched \ {r} /\ stage' = stage
          /\ pc' = (IF fetched' = {} THEN "commit" ELSE pc)
          /\ \/ op \in Train!Scorers /\ unsaved' = Train!AddIn(r) /\ UNCHANGED <<stored, failed>>
             \/ \E class \in 1 .. 2, ok \in BOOLEAN : (op \in Train!Scorers => class = 2) /\ Train!Update(r, class, ok)
    BY <1>5 DEF Train!Classify, Train!Turn, Train!Scored, Train!Predicted
  <2>2. r \in Stored /\ fetched' \subseteq Stored
    BY <2>1 DEF Command
  <2>3. Command'
    BY <1>0, <1>a, <2>1, <2>2 DEF Command
  <2>4. CASE op \in Train!Scorers /\ unsaved' = Train!AddIn(r) /\ UNCHANGED <<stored, failed>>
    <3>1. /\ op # "watch" => DOMAIN unsaved' = DOMAIN unsaved \union {Own(r)}
          /\ op = "watch" => DOMAIN unsaved' = DOMAIN unsaved \union {Own(r), Alarm(r)}
          /\ \A k \in DOMAIN unsaved' : k \notin {Own(r), Alarm(r)} => unsaved'[k] = unsaved[k]
          /\ unsaved'[Own(r)] = 1
          /\ op = "watch" => unsaved'[Alarm(r)] = stored[Alarm(r)] + 1
          /\ op # "watch" /\ Alarm(r) \in DOMAIN unsaved => unsaved'[Alarm(r)] = unsaved[Alarm(r)]
      <4>1. Own(r) # Alarm(r)
        BY <2>2, OwnKeys
      <4>2. CASE op = "watch"
        <5>1. unsaved' = Train!myupdate(Train!myupdate(unsaved, Train!Write(Own(r), 1)),
                                        Train!Write(Alarm(r), stored[Alarm(r)] + 1))
          BY <2>4, <4>2 DEF Train!AddIn, Own, Alarm
        <5>. QED BY <4>1, <4>2, <5>1 DEF Train!myupdate, Train!Over, Train!Write
      <4>3. CASE op # "watch"
        <5>1. unsaved' = Train!myupdate(unsaved, Train!Write(Own(r), 1))
          BY <2>4, <4>3 DEF Train!AddIn, Own
        <5>. QED BY <4>1, <4>3, <5>1 DEF Train!myupdate, Train!Over, Train!Write
      <4>. QED BY <4>2, <4>3
    <3>2. op = "watch" => stored[Alarm(r)] = 0
      BY <2>1, <2>2 DEF Tabled, WarnedOnce, Train!WarnedOnce, Alarm, Own
    <3>3. Tabled'
      BY <1>0, <1>a, <2>1, <2>4 DEF Tabled
    <3>4. Unsaved'
      <4>1. DOMAIN unsaved' \subseteq {Own(q) : q \in Stored} \union {Alarm(q) : q \in Stored}
        BY <2>2, <3>1 DEF Unsaved
      <4>2. \A k \in DOMAIN unsaved' : unsaved'[k] = 1
        BY <3>1, <3>2 DEF Unsaved
      <4>3. op = "watch" => \A q \in Stored : /\ Own(q) \in DOMAIN unsaved' <=> Alarm(q) \in DOMAIN unsaved'
                                              /\ Own(q) \in DOMAIN unsaved' => q \notin fetched'
        BY <2>1, <2>2, <3>1, OwnKeys DEF Unsaved
      <4>4. pc' \in {"row", "commit"}
        BY <2>1
      <4>5. \A q \in Stored : Own(q)' = Own(q) /\ Alarm(q)' = Alarm(q)
        BY <1>a, <2>1
      <4>6. DOMAIN unsaved' \subseteq {Own(q)' : q \in Stored} \union {Alarm(q)' : q \in Stored}
        BY <4>1, <4>5
      <4>7. op' = "watch" => \A q \in Stored : /\ Own(q)' \in DOMAIN unsaved' <=> Alarm(q)' \in DOMAIN unsaved'
                                               /\ Own(q)' \in DOMAIN unsaved' => q \notin fetched'
        BY <1>0, <4>3, <4>5
      <4>. QED BY <4>2, <4>4, <4>6, <4>7 DEF Unsaved
    <3>5. WarnedOnce'
      BY <1>0, <1>a, <2>1, <2>4 DEF WarnedOnce, Train!WarnedOnce, Train!Warning
    <3>6. CallsOver' /\ AskedOnce'
      BY <1>0, <1>a, <2>1, <2>4 DEF CallsOver, AskedOnce, Train!Scorers, Train!Modes
    <3>. QED BY <2>3, <3>3, <3>4, <3>5, <3>6
  <2>5. ASSUME NEW class \in 1 .. 2, NEW ok \in BOOLEAN, op \in Train!Scorers => class = 2, Train!Update(r, class, ok)
        PROVE  TInv'
    <3>. DEFINE w == Train!Write(Own(r), class)
    <3>1. DOMAIN w = {Own(r)} /\ w[Own(r)] = class
      BY DEF Train!Write
    <3>2. stored' = Train!dosql(stored, unsaved, w, ok)
      BY <2>5 DEF Train!Update, Own
    <3>. HIDE DEF w
    <3>3. /\ DOMAIN unsaved' = {}
          /\ \/ ok /\ Commits(stored', w) /\ failed' = failed
             \/ ~ok /\ stored' = stored /\ failed' = failed \union {r}
      BY <2>5, <3>2 DEF Train!Update, Train!NoWrites, Commits, Train!dosql, Train!allcommit, Train!myupdate, Train!Over
    <3>4. Commits(stored', w) => 
            /\ DOMAIN stored' = DOMAIN stored /\ stored'[Own(r)] # 0
            /\ op # "watch" => \A k \in Train!Rows : stored'[k] \in 0 .. 2 /\ (stored[k] # 0 => stored'[k] # 0)
      BY <2>2, <3>1, Committed
    <3>5. Commits(stored', w) /\ op = "watch" =>
            /\ \A q \in Stored : stored'[Alarm(q)] = IF stored'[Own(q)] = 1 THEN 1 ELSE 0
            /\ \A q \in fetched' : stored'[Own(q)] = 0
      <4>. SUFFICES ASSUME Commits(stored', w), op = "watch"
                    PROVE  /\ \A q \in Stored : stored'[Alarm(q)] = IF stored'[Own(q)] = 1 THEN 1 ELSE 0
                           /\ \A q \in fetched' : stored'[Own(q)] = 0
        OBVIOUS
      <4>1. \E q \in fetched : DOMAIN w = {Own(q)} /\ w[Own(q)] = 2 /\ pc = "row"
        BY <2>1, <2>5, <3>1 DEF Train!Scorers
      <4>2. /\ \A q \in Stored : stored'[Alarm(q)] = IF stored'[Own(q)] = 1 THEN 1 ELSE 0
            /\ \A q \in fetched : pc = "row" /\ Own(q) \notin DOMAIN w => stored'[Own(q)] = 0
        BY <4>1, CommittedWarns
      <4>3. \A q \in fetched' : q \in fetched /\ Own(q) \notin DOMAIN w
        BY <2>1, <2>2, <3>1, OwnKeys DEF Command
      <4>. QED BY <2>1, <4>2, <4>3
    <3>6. Tabled'
      BY <1>0, <1>a, <2>1, <2>2, <3>3, <3>4, <3>5 DEF Tabled
    <3>7. Unsaved'
      BY <1>0, <1>a, <2>1, <3>3 DEF Unsaved
    <3>8. WarnedOnce'
      <4>1. op = "watch" => \A q \in Stored : stored[Alarm(q)] = IF stored[Own(q)] = 1 THEN 1 ELSE 0
        BY DEF WarnedOnce, Train!WarnedOnce, Alarm, Own
      <4>2. op = "watch" => \A q \in Stored : stored'[Alarm(q)] = IF stored'[Own(q)] = 1 THEN 1 ELSE 0
        BY <3>3, <3>5, <4>1
      <4>3. \A q \in Stored : stored'[Alarm(q)'] = stored'[Alarm(q)] /\ stored'[Own(q)'] = stored'[Own(q)]
        BY <1>a, <2>1
      <4>. QED BY <1>0, <4>2, <4>3 DEF WarnedOnce, Train!WarnedOnce, Alarm, Own
    <3>9. CallsOver'
      <4>1. op \in {"states", "processes"} =>
              \A n \in 1 .. Len(Train!Calls), q \in Stored :
                stored[<<Train!Calls[n][1], q>>] # 0 => stored'[<<Train!Calls[n][1], q>>] # 0
        BY <3>3, <3>4, OwnKeys
      <4>. QED BY <1>0, <1>a, <2>1, <4>1 DEF CallsOver
    <3>10. AskedOnce'
      <4>. SUFFICES ASSUME op \in Train!Modes, NEW q \in Stored, stored'[Own(q)] = 0
                    PROVE  q \in fetched' \/ q \in failed'
        BY <1>0, <1>a, <2>1 DEF AskedOnce
      <4>1. op # "watch"
        BY DEF Train!Modes
      <4>2. stored[Own(q)] = 0
        BY <3>3, <3>4, <4>1, OwnKeys
      <4>3. q \in fetched \/ q \in failed
        BY <2>1, <4>2 DEF AskedOnce
      <4>. QED BY <2>1, <3>3, <3>4, <4>3
    <3>. QED BY <2>3, <3>6, <3>7, <3>8, <3>9, <3>10
  <2>. QED BY <2>1, <2>4, <2>5
<1>6. CASE Train!EndBatch
  <2>. DEFINE w == [k \in {} |-> 1]
  <2>0. DOMAIN w = {}
    OBVIOUS
  <2>1. /\ pc = "commit" /\ fetched = {} /\ UNCHANGED <<stage, fetched, failed>>
        /\ DOMAIN unsaved' = {} /\ pc' = IF op \in Train!Modes THEN "done" ELSE "query"
    BY <1>6 DEF Train!EndBatch, Command, Train!NoWrites
  <2>. HIDE DEF w
  <2>2. Commits(stored', w)
    BY <1>6, <2>0 DEF Train!EndBatch, Commits, Train!allcommit, Train!Over
  <2>3. /\ DOMAIN stored' = DOMAIN stored
        /\ op # "watch" => \A k \in Train!Rows : stored'[k] \in 0 .. 2 /\ (stored[k] # 0 => stored'[k] # 0)
    BY <2>0, <2>2, Committed
  <2>4. Command'
    <3>1. op \in Train!Modes => stage = Len(Train!Calls) /\ op \notin Train!Endless
      BY SMTT(20), TheCall, CallsOne DEF Train!Modes, Train!Endless
    <3>. QED BY <1>0, <1>a, <2>1, <3>1 DEF Command
  <2>5. Tabled'
    BY <1>0, <1>a, <2>1, <2>3 DEF Tabled
  <2>6. Unsaved'
    BY <1>0, <1>a, <2>1 DEF Unsaved
  <2>7. WarnedOnce'
    <3>1. op = "watch" => \A r \in Stored : stored'[Alarm(r)] = IF stored'[Own(r)] = 1 THEN 1 ELSE 0
      BY <2>0, <2>2, CommittedWarns
    <3>2. \A r \in Stored : stored'[Alarm(r)'] = stored'[Alarm(r)] /\ stored'[Own(r)'] = stored'[Own(r)]
      BY <1>a, <2>1
    <3>. QED BY <1>0, <3>1, <3>2 DEF WarnedOnce, Train!WarnedOnce, Alarm, Own
  <2>8. CallsOver'
    <3>1. pc' # "done" \/ op \notin {"states", "processes"}
      BY <2>1 DEF Train!Modes
    <3>2. op \in {"states", "processes"} =>
            \A n \in 1 .. Len(Train!Calls), r \in Stored :
              stored[<<Train!Calls[n][1], r>>] # 0 => stored'[<<Train!Calls[n][1], r>>] # 0
      BY <2>3, OwnKeys
    <3>. QED BY <1>0, <1>a, <2>1, <3>1, <3>2 DEF CallsOver
  <2>9. AskedOnce'
    <3>1. op \in Train!Modes => op # "watch"
      BY DEF Train!Modes
    <3>2. op # "watch" => \A r \in Stored : stored'[Own(r)] = 0 => stored[Own(r)] = 0
      BY <2>3, OwnKeys
    <3>. QED BY <1>0, <1>a, <2>1, <3>1, <3>2 DEF AskedOnce
  <2>. QED BY <2>4, <2>5, <2>6, <2>7, <2>8, <2>9
<1>7. CASE Train!AddFails \/ Train!MainEnds
  <2>0. DOMAIN Train!NoWrites = {}
    BY DEF Train!NoWrites
  <2>1. pc' = "dead" /\ DOMAIN unsaved' = {} /\ UNCHANGED <<stage, fetched, stored, failed>>
    BY <1>7, <2>0 DEF Train!AddFails, Train!MainEnds, Train!Raises
  <2>4. Command'
    BY <1>0, <1>a, <2>1 DEF Command
  <2>5. Tabled'
    BY <1>0, <1>a, <2>1 DEF Tabled
  <2>6. Unsaved'
    BY <1>0, <1>a, <2>1 DEF Unsaved
  <2>7. WarnedOnce'
    BY <1>0, <1>a, <2>1 DEF WarnedOnce, Train!WarnedOnce, Train!Warning
  <2>8. CallsOver'
    BY <1>0, <1>a, <2>1 DEF CallsOver
  <2>9. AskedOnce'
    BY <1>0, <2>1 DEF AskedOnce
  <2>. QED BY <2>4, <2>5, <2>6, <2>7, <2>8, <2>9
<1>8. CASE Train!Insert
  <2>1. UNCHANGED <<stage, pc, fetched, unsaved, failed>>
    BY <1>8 DEF Train!Insert
  <2>2. PICK q \in Stored : stored[Own(q)] = 9 /\ stored' = [stored EXCEPT ![Own(q)] = 0]
    BY <1>8 DEF Train!Insert, Own, Train!NotYet
  <2>3. op = "watch"
    BY <2>2, OwnKeys DEF Tabled
  <2>4. DOMAIN stored' = DOMAIN stored
        /\ \A k \in DOMAIN stored : stored'[k] = IF k = Own(q) THEN 0 ELSE stored[k]
    BY <2>2
  <2>5. \A r \in Stored : /\ stored'[Alarm(r)] = stored[Alarm(r)]
                         /\ stored'[Own(r)] = IF r = q THEN 0 ELSE stored[Own(r)]
    BY <2>4, OwnKeys DEF Tabled
  <2>6. Command'
    BY <1>0, <1>a, <2>1 DEF Command
  <2>7. Tabled'
    BY <1>0, <1>a, <2>1, <2>3, <2>4, <2>5 DEF Tabled
  <2>8. Unsaved'
    BY <1>0, <1>a, <2>1 DEF Unsaved
  <2>9. WarnedOnce'
    <3>1. \A r \in Stored : stored[Alarm(r)] = IF stored[Own(r)] = 1 THEN 1 ELSE 0
      BY <2>3 DEF WarnedOnce, Train!WarnedOnce, Alarm, Own
    <3>2. \A r \in Stored : stored'[Alarm(r)'] = IF stored'[Own(r)'] = 1 THEN 1 ELSE 0
      BY <1>a, <2>1, <2>2, <2>5, <3>1
    <3>. QED BY <3>2 DEF WarnedOnce, Train!WarnedOnce, Alarm, Own
  <2>10. CallsOver' /\ AskedOnce'
    BY <1>0, <2>3 DEF CallsOver, AskedOnce, Train!Modes
  <2>. QED BY <2>6, <2>7, <2>8, <2>9, <2>10
<1>9. CASE UNCHANGED training
  <2>1. UNCHANGED <<stage, pc, fetched, stored, unsaved, failed>>
    BY <1>9 DEF training
  <2>. QED BY <1>0, <1>a, <2>1 DEF Command, Tabled, Unsaved, WarnedOnce, Train!WarnedOnce, Train!Warning, CallsOver, AskedOnce
<1>. QED BY <1>1, <1>2, <1>3, <1>4, <1>5, <1>6, <1>7, <1>8, <1>9
         DEF Train!Step, Train!traindetectState, Train!trainpsinfo, Train!detectPsinfo, Train!trainmode,
             Train!selectmode, Train!detectpsmode, Train!Goes

\* For any stages, rows, limits and errors, a command that ends has classified
\* every row its calls selected, but for those whose own statement failed under
\* a classifier that asks once: what a rollback of oncesql takes back, the next
\* query of traindetectState and trainpsinfo finds again.
THEOREM CommandsClassify == Train!Spec => []EndsClassified
<1>1. Train!Init => TInv
  BY TrainAssumption, InitTInv
<1>2. TInv /\ [Train!Step]_training => TInv'
  BY TrainAssumption, NextTInv
<1>3. TInv => EndsClassified
  BY TrainAssumption, TInvClassified
<1>. QED BY <1>1, <1>2, <1>3, PTL DEF Train!Spec, Train!vars, training

\* For the same, detectPsinfo has committed one warning for every row it added
\* and none for another, whichever of its statements fails and whatever the
\* collector inserts meanwhile.
THEOREM RowsWarnedOnce == Train!Spec => []WarnedOnce
<1>1. Train!Init => TInv
  BY TrainAssumption, InitTInv
<1>2. TInv /\ [Train!Step]_training => TInv'
  BY TrainAssumption, NextTInv
<1>3. TInv => WarnedOnce
  BY DEF TInv
<1>. QED BY <1>1, <1>2, <1>3, PTL DEF Train!Spec, Train!vars, training
=============================================================================
