------------------------- MODULE SyscallTrapProofs -------------------------
(***************************************************************************)
(* Proofs about SyscallTrap, for every conf, any number of vCPUs, any pipe *)
(* capacity, and a tracer that may be killed and started again.            *)
(***************************************************************************)
EXTENDS SyscallTrap, WellFoundedInduction, TLAPS

\* The order of the natural numbers.
Less == {ss \in Nat \X Nat : ss[1] < ss[2]}

\* A set of natural numbers has a least element: the row a search
\* of the table ends at.
LEMMA LeastElement ==
  ASSUME NEW T, T \subseteq Nat, T # {}
  PROVE  \E x \in T : \A y \in T : x <= y
<1>1. IsWellFoundedOn(Less, Nat)
  BY NatLessThanWellFounded DEF OpToRel, Less
<1>2. PICK x \in T : \A y \in T : ~ (<<y, x>> \in Less)
  BY <1>1, WFMin, Zenon
<1>3. ASSUME NEW y \in T PROVE ~ (y < x)
  BY <1>2 DEF Less
<1>4. \A y \in T : x \in Nat /\ y \in Nat
  OBVIOUS
<1>. QED BY <1>3, <1>4

\* trap_cb finds a row of the entry the vCPU stands at, whatever is in rax.
LEMMA SysnumFinds ==
  ASSUME NEW rip \in Locs, NEW rax \in Rows, NEW st
  PROVE  LET c == [st |-> st, rip |-> rip, rax |-> rax] IN
         Sysnum(c) \in Rows /\ Addr[Sysnum(c)] = rip
<1>1. get_sysnum_from_rip(rip) \in Rows /\ Addr[get_sysnum_from_rip(rip)] = rip
  <2>. DEFINE T == {r \in Rows : Addr[r] = rip}
  <2>1. T \subseteq Nat /\ T # {}
    BY ConfAssumption DEF Rows, Locs
  <2>2. PICK x \in T : \A y \in T : x <= y
    BY <2>1, LeastElement
  <2>3. \E r \in Rows : Addr[r] = rip /\ \A q \in Rows : Addr[q] = rip => r <= q
    BY <2>2
  <2>. QED BY <2>3 DEF get_sysnum_from_rip
<1>. QED BY <1>1 DEF Sysnum

-----------------------------------------------------------------------------
(***************************************************************************)
(* The inductive invariant.                                                *)
(***************************************************************************)
Tracing == {"listen", "trap", "blocked"}

\* An event in the ring is the only one of its vCPU, and that vCPU waits for it.
RingOK ==
  \A i \in DOMAIN ring :
    /\ cpu[ring[i].vcpu].st = IF ring[i].kind = "int3" THEN "trap" ELSE "stepped"
    /\ \A j \in DOMAIN ring : ring[i].vcpu = ring[j].vcpu => i = j

\* A vCPU that has left the guest stands at an entry; once trap_cb has let it
\* step, vmivm->syscall holds a row.
CpuOK ==
  \A v \in Vcpus :
    cpu[v].st # "guest" =>
      /\ cpu[v].rip \in Locs /\ cpu[v].rax \in Rows
      /\ cpu[v].st # "trap" => syscall \in Rows

\* No vCPU is held while nobody listens.
Quiet ==
  phase \in {"off", "arm", "gone", "dead"} =>
    ring = <<>> /\ \A v \in Vcpus : cpu[v] = InGuest

\* The event trap_cb is working on is an int3 at a signed row's entry.
InTrap ==
  phase \in {"trap", "blocked"} =>
    ring # <<>> /\ Head(ring).kind = "int3" /\ Sign[Sysnum(cpu[Caller])] = 1

\* pre holds a byte of the guest's, for the rows armed so far.
Kept ==
  \A r \in Signed :
    (phase = "arm" /\ r < cursor) \/ phase \in Tracing \union {"restore"}
      => pre[r] \in Bytes

\* What every run of the tracer keeps, whatever the conf says.
IInv == TypeOK /\ RingOK /\ CpuOK /\ Quiet /\ InTrap /\ Kept

\* Before the first start nothing is held and nothing is owed.
LEMMA InitIInv == Init => IInv
<1>. SUFFICES ASSUME Init PROVE IInv
  OBVIOUS
<1>. USE ConfAssumption, HostAssumption DEF Init
<1>1. TypeOK
  <2>1. cursor \in 0 .. SyscallLen /\ trapnum \in 0 .. CheckPeriod - 1 /\ lives \in 0 .. MaxLives /\ pipe \in 0 .. PipeCap
    OBVIOUS
  <2>2. age \in [Rows -> 0 .. CheckPeriod + 1]
    OBVIOUS
  <2>3. ring \in Seq(Event)
    OBVIOUS
  <2>4. cpu \in [Vcpus -> [st : {"guest", "trap", "step", "stepped"},
                           rip : Locs \union {NoAddr}, rax : Rows \union {NoRow}]]
    BY DEF InGuest
  <2>. QED BY <2>1, <2>2, <2>3, <2>4 DEF TypeOK, Phases, Bytes
<1>2. RingOK /\ CpuOK /\ Quiet /\ InTrap
  BY DEF RingOK, CpuOK, Quiet, InTrap, InGuest
<1>3. Kept
  BY DEF Kept, Tracing
<1>. QED BY <1>1, <1>2, <1>3 DEF IInv

\* What trap_cb leaves in vmivm->syscall and writes to the guest.
LEMMA CallerRow ==
  ASSUME TypeOK, RingOK, CpuOK, ring # <<>>, Head(ring).kind = "int3"
  PROVE  /\ Caller \in Vcpus
         /\ cpu[Caller].st = "trap"
         /\ Sysnum(cpu[Caller]) \in Rows
         /\ Addr[Sysnum(cpu[Caller])] = cpu[Caller].rip
         /\ cpu[Caller].rip \in Locs
<1>1. 1 \in DOMAIN ring /\ Head(ring) = ring[1] /\ ring[1] \in Event
  BY DEF TypeOK
<1>2. Caller \in Vcpus /\ cpu[Caller].st = "trap"
  BY <1>1 DEF RingOK, Caller, Event
<1>3. cpu[Caller].rip \in Locs /\ cpu[Caller].rax \in Rows
  BY <1>2 DEF CpuOK
<1>4. cpu[Caller] = [st |-> cpu[Caller].st, rip |-> cpu[Caller].rip, rax |-> cpu[Caller].rax]
  BY <1>2 DEF TypeOK
<1>. QED BY <1>2, <1>3, <1>4, SysnumFinds
\* And what singlestep_cb finds there.
LEMMA StepRow ==
  ASSUME TypeOK, RingOK, CpuOK, ring # <<>>, Head(ring).kind = "step"
  PROVE  Caller \in Vcpus /\ cpu[Caller].st = "stepped" /\ syscall \in Rows
<1>1. 1 \in DOMAIN ring /\ Head(ring) = ring[1] /\ ring[1] \in Event
  BY DEF TypeOK
<1>2. Caller \in Vcpus /\ cpu[Caller].st = "stepped"
  BY <1>1 DEF RingOK, Caller, Event
<1>. QED BY <1>2 DEF CpuOK

-----------------------------------------------------------------------------
\* Moving a vCPU on keeps the shape of its record.
LEMMA SetFields ==
  ASSUME TypeOK, NEW v \in Vcpus, NEW st \in {"guest", "trap", "step", "stepped"},
         cpu' = [cpu EXCEPT ![v].st = st]
  PROVE  cpu' \in [Vcpus -> [st  : {"guest", "trap", "step", "stepped"},
                             rip : Locs \union {NoAddr}, rax : Rows \union {NoRow}]]
<1>. DEFINE Cpus == [st  : {"guest", "trap", "step", "stepped"},
                     rip : Locs \union {NoAddr}, rax : Rows \union {NoRow}]
<1>1. cpu \in [Vcpus -> Cpus]
  BY DEF TypeOK
<1>2. [cpu[v] EXCEPT !.st = st] \in Cpus
  BY <1>1
<1>3. cpu' = [cpu EXCEPT ![v] = [cpu[v] EXCEPT !.st = st]]
  OBVIOUS
<1>. QED BY <1>1, <1>2, <1>3

(***************************************************************************)
(* Events enter the ring at its end and leave it at its head.              *)
(***************************************************************************)

\* A callback that answers the oldest event leaves the others as they were.
LEMMA TailRing ==
  ASSUME TypeOK, RingOK, ring # <<>>, ring' = Tail(ring),
         \A v \in Vcpus \ {Caller} : cpu'[v] = cpu[v]
  PROVE  RingOK' /\ ring' \in Seq(Event)
<1>1. ring \in Seq(Event) /\ ring' \in Seq(Event) /\ Len(ring) \in Nat /\ Len(ring) > 0
  BY DEF TypeOK
<1>2. \A i \in DOMAIN ring' : i + 1 \in DOMAIN ring /\ ring'[i] = ring[i + 1] /\ i \in Nat /\ i # 0
  BY <1>1
<1>3. 1 \in DOMAIN ring /\ Caller = ring[1].vcpu
  BY <1>1 DEF Caller
<1>4. ASSUME NEW i \in DOMAIN ring' PROVE ring'[i].vcpu \in Vcpus \ {Caller}
  <2>1. ring'[i] \in Event
    BY <1>1
  <2>2. ring'[i].vcpu \in Vcpus
    BY <2>1 DEF Event
  <2>. QED BY <1>2, <1>3, <2>2 DEF RingOK
<1>. QED BY <1>1, <1>2, <1>4 DEF RingOK

\* A vCPU with nothing in the ring may add an event and wait for its answer.
LEMMA AppendRing ==
  ASSUME TypeOK, RingOK, NEW v \in Vcpus, NEW kind \in {"int3", "step"},
         cpu[v].st \in {"guest", "step"},
         ring' = Append(ring, [kind |-> kind, vcpu |-> v]),
         \A w \in Vcpus \ {v} : cpu'[w] = cpu[w],
         cpu'[v].st = IF kind = "int3" THEN "trap" ELSE "stepped"
  PROVE  /\ RingOK' /\ ring' \in Seq(Event) /\ ring' # <<>>
         /\ ring # <<>> => Head(ring') = Head(ring) /\ Caller' = Caller /\ Caller # v
<1>. DEFINE n == Len(ring)
<1>1. ring \in Seq(Event) /\ n \in Nat /\ DOMAIN ring = 1 .. n
  BY DEF TypeOK
<1>2. ring' \in Seq(Event) /\ DOMAIN ring' = 1 .. n + 1 /\ ring'[n + 1] = [kind |-> kind, vcpu |-> v]
  BY <1>1 DEF Event
<1>3. \A i \in 1 .. n : ring'[i] = ring[i]
  BY <1>1
<1>4. \A i \in 1 .. n : ring[i].vcpu # v
  BY <1>1 DEF RingOK
<1>5. \A i \in 1 .. n + 1 : i \in 1 .. n \/ i = n + 1
  BY <1>1
<1>6. RingOK'
  <2>1. \A i \in 1 .. n : ring[i].vcpu \in Vcpus \ {v}
    <3>1. \A i \in 1 .. n : ring[i] \in Event
      BY <1>1
    <3>. QED BY <3>1, <1>4 DEF Event
  <2>2. ASSUME NEW i \in 1 .. n
        PROVE cpu'[ring'[i].vcpu].st = IF ring'[i].kind = "int3" THEN "trap" ELSE "stepped"
    BY <1>1, <1>3, <2>1 DEF RingOK
  <2>3. ASSUME NEW i \in 1 .. n + 1, NEW j \in 1 .. n + 1, ring'[i].vcpu = ring'[j].vcpu
        PROVE i = j
    BY <1>1, <1>2, <1>3, <1>4, <1>5, <2>3 DEF RingOK
  <2>. QED BY <1>2, <1>5, <2>2, <2>3 DEF RingOK
<1>7. ring # <<>> => 1 \in 1 .. n /\ Head(ring) = ring[1]
  BY <1>1
<1>8. Head(ring') = ring'[1] /\ ring' # <<>>
  BY <1>1, <1>2
<1>. QED BY <1>2, <1>3, <1>4, <1>6, <1>7, <1>8 DEF Caller

\* The row is that of the registers.
LEMMA SameRow ==
  ASSUME (cpu[Caller])' = cpu[Caller]
  PROVE  Sysnum(cpu[Caller])' = Sysnum(cpu[Caller])
<1>1. PICK c : c = cpu[Caller]
  OBVIOUS
<1>2. Sysnum(cpu[Caller]) = Sysnum(c) /\ Sysnum(cpu[Caller])' = Sysnum(c)
  BY <1>1 DEF Sysnum
<1>. QED BY <1>2

\* What the guest may do to itself does not disturb the trap being handled.
LEMMA SameHead ==
  ASSUME InTrap, UNCHANGED phase,
         ring # <<>> => /\ ring' # <<>> /\ Head(ring') = Head(ring)
                        /\ Caller' = Caller /\ cpu'[Caller] = cpu[Caller]
  PROVE  InTrap'
<1>1. ring # <<>> => (cpu[Caller])' = cpu[Caller]
  OBVIOUS
<1>2. ring # <<>> => Sysnum(cpu[Caller])' = Sysnum(cpu[Caller])
  BY <1>1, SameRow
<1>. QED BY <1>2 DEF InTrap

-----------------------------------------------------------------------------
(***************************************************************************)
(* The end of trap_cb, reached from write() and from its interruption.     *)
(***************************************************************************)
LEMMA FinishTrapIInv ==
  ASSUME IInv, FinishTrap, phase \in {"trap", "blocked"},
         pipe' \in 0 .. PipeCap, interrupted' \in BOOLEAN
  PROVE  IInv'
<1>. DEFINE n == Sysnum(cpu[Caller])
<1>. USE ConfAssumption, HostAssumption DEF IInv
<1>1. /\ ring # <<>> /\ Caller \in Vcpus /\ cpu[Caller].st = "trap"
      /\ n \in Rows /\ Addr[n] = cpu[Caller].rip /\ Addr[n] \in Locs /\ Sign[n] = 1
  BY CallerRow DEF InTrap
<1>2. /\ phase' = "listen" /\ syscall' = n /\ ring' = Tail(ring)
      /\ byte' = [byte EXCEPT ![Addr[n]] = pre[n]]
      /\ cpu' = [cpu EXCEPT ![Caller].st = "step"]
      /\ UNCHANGED <<cursor, pre, lives, found, table, father>>
  BY DEF FinishTrap
<1>3. pre[n] \in Bytes
  BY <1>1 DEF Kept, Signed, Tracing
<1>4. TypeOK'
  <2>1. trapnum' \in 0 .. CheckPeriod - 1
    <3>1. trapnum \in 0 .. CheckPeriod - 1 /\ CheckPeriod \in Nat \ {0}
      BY DEF TypeOK
    <3>2. trapnum' = (trapnum + 1) % CheckPeriod
      BY DEF FinishTrap
    <3>. HIDE DEF IInv
    <3>. QED BY <3>1, <3>2
  <2>2. age' \in [Rows -> 0 .. CheckPeriod + 1]
    <3>1. age \in [Rows -> 0 .. CheckPeriod + 1]
      BY DEF TypeOK
    <3>2. age' = [r \in Rows |-> IF table[r] = "hooked" /\ age[r] <= CheckPeriod
                                 THEN age[r] + 1 ELSE age[r]]
      BY DEF FinishTrap
    <3>3. \A r \in Rows : age'[r] \in 0 .. CheckPeriod + 1
      BY <3>1, <3>2
    <3>. QED BY <3>2, <3>3
  <2>3. byte' \in [Locs -> Bytes]
    BY <1>1, <1>2, <1>3 DEF TypeOK
  <2>4. cpu' \in [Vcpus -> [st : {"guest", "trap", "step", "stepped"},
                            rip : Locs \union {NoAddr}, rax : Rows \union {NoRow}]]
    BY <1>1, <1>2, SetFields
  <2>5. ring' \in Seq(Event)
    BY <1>1, <1>2, TailRing DEF TypeOK
  <2>. QED BY <1>1, <1>2, <2>1, <2>2, <2>3, <2>4, <2>5 DEF TypeOK, Phases
<1>5. RingOK'
  <2>1. \A v \in Vcpus \ {Caller} : cpu'[v] = cpu[v]
    BY <1>1, <1>2 DEF TypeOK
  <2>. QED BY <1>1, <1>2, <2>1, TailRing
<1>6. CpuOK'
  <2>1. \A v \in Vcpus : cpu'[v].rip = cpu[v].rip /\ cpu'[v].rax = cpu[v].rax
                        /\ (v # Caller => cpu'[v] = cpu[v])
    BY <1>1, <1>2 DEF TypeOK
  <2>. QED BY <1>1, <1>2, <2>1 DEF CpuOK
<1>7. Kept'
  BY <1>2 DEF Kept, Tracing
<1>. QED BY <1>2, <1>4, <1>5, <1>6, <1>7 DEF Quiet, InTrap

-----------------------------------------------------------------------------
\* Every step keeps IInv: one step per action, and under it one per conjunct
\* the action can disturb.
LEMMA NextIInv == ASSUME IInv, [Next]_vars PROVE IInv'
<1>. USE ConfAssumption, HostAssumption DEF IInv
<1>1. ASSUME Start PROVE IInv'
  <2>1. ring = <<>> /\ \A v \in Vcpus : cpu[v] = InGuest
    BY <1>1 DEF Start, Attached, Quiet, TypeOK, Phases
  <2>2. TypeOK'
    <3>1. pre' \in [Rows -> Bytes \union {"zero"}] /\ lives' \in 0 .. MaxLives
          /\ cursor' \in 0 .. SyscallLen /\ trapnum' \in 0 .. CheckPeriod - 1 /\ pipe' \in 0 .. PipeCap
      BY <1>1 DEF Start, TypeOK
    <3>. QED BY <1>1, <3>1 DEF Start, TypeOK, Phases
  <2>3. RingOK' /\ CpuOK' /\ Quiet' /\ InTrap'
    BY <1>1, <2>1 DEF Start, RingOK, CpuOK, Quiet, InTrap, InGuest
  <2>4. Kept'
    BY <1>1 DEF Start, Kept, Tracing, Rows, Signed
  <2>. QED BY <2>2, <2>3, <2>4
<1>2. ASSUME ArmRow PROVE IInv'
  <2>1. cursor \in Rows /\ cursor' = cursor + 1
    BY <1>2 DEF ArmRow, TypeOK, Rows
  <2>2. TypeOK'
    <3>1. cursor' \in 0 .. SyscallLen
      BY <2>1 DEF Rows
    <3>2. CASE Addr[cursor] = NoAddr
      BY <1>2, <3>1, <3>2 DEF ArmRow, TypeOK
    <3>3. CASE Addr[cursor] # NoAddr
      <4>1. Addr[cursor] \in Locs
        BY <2>1, <3>3
      <4>2. /\ pre' \in [Rows -> Bytes \union {"zero"}] /\ byte' \in [Locs -> Bytes]
            /\ table' \in [Rows -> {"right", "hooked"}]
        <5>1. /\ pre' = [pre EXCEPT ![cursor] = byte[Addr[cursor]]]
              /\ byte' = byte \/ byte' = [byte EXCEPT ![Addr[cursor]] = "int3"]
              /\ table' = [table EXCEPT ![cursor] = "right"]
          BY <1>2, <3>3 DEF ArmRow
        <5>2. /\ pre \in [Rows -> Bytes \union {"zero"}] /\ byte \in [Locs -> Bytes]
              /\ table \in [Rows -> {"right", "hooked"}] /\ "int3" \in Bytes
          BY DEF TypeOK, Bytes
        <5>. HIDE DEF IInv
        <5>3. pre' \in [Rows -> Bytes \union {"zero"}]
          BY <2>1, <4>1, <5>1, <5>2
        <5>4. byte' \in [Locs -> Bytes]
          BY <4>1, <5>1, <5>2
        <5>5. table' \in [Rows -> {"right", "hooked"}]
          BY <2>1, <5>1, <5>2
        <5>. QED BY <5>3, <5>4, <5>5
      <4>3. age' \in [Rows -> 0 .. CheckPeriod + 1]
        BY <1>2, <2>1, <3>3 DEF ArmRow, TypeOK
      <4>. QED BY <1>2, <3>1, <4>2, <4>3 DEF ArmRow, TypeOK
    <3>. QED BY <3>2, <3>3
  <2>3. Kept'
    <3>1. ASSUME NEW r \in Signed, r < cursor' PROVE pre'[r] \in Bytes
      <4>1. CASE r = cursor
        <5>1. Addr[r] \in Locs /\ Addr[r] # NoAddr
          BY DEF Signed
        <5>. QED BY <1>2, <2>1, <4>1, <5>1 DEF ArmRow, TypeOK
      <4>2. CASE r < cursor
        BY <1>2, <2>1, <4>2 DEF ArmRow, Kept, TypeOK, Signed, Rows
      <4>. QED BY <2>1, <3>1, <4>1, <4>2 DEF Signed, Rows
    <3>. QED BY <1>2, <3>1 DEF ArmRow, Kept, Tracing
  <2>. QED BY <1>2, <2>2, <2>3 DEF ArmRow, RingOK, CpuOK, Quiet, InTrap
<1>3. ASSUME Resume PROVE IInv'
  BY <1>3 DEF Resume, TypeOK, Phases, RingOK, CpuOK, Quiet, InTrap, Kept, Tracing, Rows, Signed
<1>4. ASSUME TrapCb PROVE IInv'
  <2>1. /\ Caller \in Vcpus /\ cpu[Caller].st = "trap" /\ phase = "listen" /\ ring # <<>>
        /\ UNCHANGED <<cursor, pre, syscall, interrupted, trapnum, lives, found, byte, pipe, father>>
    BY <1>4, CallerRow DEF TrapCb
  <2>2. table' \in [Rows -> {"right", "hooked"}] /\ age' \in [Rows -> 0 .. CheckPeriod + 1]
    <3>1. detect_syscall_hook \/ UNCHANGED <<table, age>>
      BY <1>4 DEF TrapCb
    <3>2. table \in [Rows -> {"right", "hooked"}] /\ age \in [Rows -> 0 .. CheckPeriod + 1]
      BY DEF TypeOK
    <3>3. CASE detect_syscall_hook
      <4>1. \A r \in Rows : table'[r] \in {"right", "hooked"} /\ age'[r] \in 0 .. CheckPeriod + 1
        BY <3>2, <3>3 DEF detect_syscall_hook
      <4>. QED BY <3>3, <4>1 DEF detect_syscall_hook
    <3>4. CASE UNCHANGED <<table, age>>
      BY <3>2, <3>4
    <3>. QED BY <3>1, <3>3, <3>4
  <2>3. CASE Sign[Sysnum(cpu[Caller])] = 0
    <3>1. ring' = Tail(ring) /\ UNCHANGED phase /\ cpu' = [cpu EXCEPT ![Caller] = InGuest]
      BY <1>4, <2>3 DEF TrapCb
    <3>2. RingOK' /\ ring' \in Seq(Event)
      BY <2>1, <3>1, TailRing DEF TypeOK
    <3>3. cpu' \in [Vcpus -> [st : {"guest", "trap", "step", "stepped"},
                              rip : Locs \union {NoAddr}, rax : Rows \union {NoRow}]]
      BY <2>1, <3>1 DEF TypeOK, InGuest
    <3>4. TypeOK'
      BY <2>1, <2>2, <3>1, <3>2, <3>3 DEF TypeOK
    <3>5. CpuOK'
      BY <2>1, <3>1 DEF CpuOK, TypeOK, InGuest
    <3>. QED BY <2>1, <3>1, <3>2, <3>4, <3>5
         DEF Quiet, InTrap, Kept
  <2>4. CASE Sign[Sysnum(cpu[Caller])] # 0
    <3>1. phase' = "trap" /\ UNCHANGED <<cpu, ring>> /\ Head(ring).kind = "int3"
      BY <1>4, <2>4 DEF TrapCb
    <3>2. TypeOK'
      BY <2>1, <2>2, <3>1 DEF TypeOK, Phases
    <3>3. InTrap'
      <4>1. Sign[Sysnum(cpu[Caller])] = 1
        BY <1>4, <2>4, CallerRow DEF TrapCb
      <4>2. Sysnum(cpu[Caller])' = Sysnum(cpu[Caller])
        BY <3>1, SameRow DEF Caller
      <4>. QED BY <2>1, <3>1, <4>1, <4>2 DEF InTrap
    <3>4. RingOK' /\ CpuOK' /\ Quiet'
      BY <2>1, <3>1 DEF RingOK, CpuOK, Quiet
    <3>. QED BY <2>1, <3>1, <3>2, <3>3, <3>4 DEF Kept, Tracing
  <2>. QED BY <2>3, <2>4
<1>5. ASSUME WritePipe PROVE IInv'
  <2>1. FinishTrap /\ phase \in {"trap", "blocked"} /\ interrupted' = interrupted
    BY <1>5 DEF WritePipe
  <2>2. interrupted \in BOOLEAN /\ pipe \in 0 .. PipeCap
    BY DEF TypeOK
  <2>3. pipe' \in 0 .. PipeCap
    BY <1>5, <2>2 DEF WritePipe
  <2>. QED BY <2>1, <2>2, <2>3, FinishTrapIInv
<1>6. ASSUME WriteBlocks PROVE IInv'
  <2>1. InTrap'
    <3>1. /\ phase = "trap" /\ UNCHANGED <<ring, cpu>>
      BY <1>6 DEF WriteBlocks
    <3>2. Sysnum(cpu[Caller])' = Sysnum(cpu[Caller])
      BY <3>1, SameRow DEF Caller
    <3>. QED BY <3>1, <3>2 DEF InTrap, Caller
  <2>. QED BY <1>6, <2>1 DEF WriteBlocks, TypeOK, Phases, RingOK, CpuOK, Quiet, Kept, Tracing
<1>7. ASSUME SinglestepCb PROVE IInv'
  <2>1. /\ phase = "listen" /\ ring # <<>> /\ Head(ring).kind = "step" /\ ring' = Tail(ring)
        /\ UNCHANGED <<phase, cursor, pre, syscall, trapnum, lives, found, table, pipe, father, age>>
    BY <1>7 DEF SinglestepCb
  <2>2. Caller \in Vcpus /\ syscall \in Rows
    BY <2>1, StepRow
  <2>4. CASE Caller = 0
    <3>1. /\ byte' = IF Sign[syscall] = 1 THEN [byte EXCEPT ![Addr[syscall]] = "int3"] ELSE byte
          /\ cpu' = [cpu EXCEPT ![0] = InGuest] /\ UNCHANGED interrupted
      BY <1>7, <2>4 DEF SinglestepCb
    <3>2. RingOK' /\ ring' \in Seq(Event)
      BY <2>1, <2>4, <3>1, TailRing DEF TypeOK
    <3>3. cpu' \in [Vcpus -> [st : {"guest", "trap", "step", "stepped"},
                              rip : Locs \union {NoAddr}, rax : Rows \union {NoRow}]]
      BY <3>1 DEF TypeOK, InGuest
    <3>4. byte' \in [Locs -> Bytes]
      BY <3>1 DEF TypeOK, Bytes
    <3>5. TypeOK'
      BY <2>1, <3>1, <3>2, <3>3, <3>4 DEF TypeOK
    <3>6. CpuOK'
      BY <2>1, <3>1 DEF CpuOK, TypeOK, InGuest
    <3>. QED BY <2>1, <3>2, <3>5, <3>6 DEF Quiet, InTrap, Kept
  <2>5. CASE Caller # 0
    <3>1. interrupted' = TRUE /\ UNCHANGED <<byte, cpu>>
      BY <1>7, <2>5 DEF SinglestepCb
    <3>2. RingOK' /\ ring' \in Seq(Event)
      BY <2>1, <3>1, TailRing
    <3>3. TypeOK'
      BY <2>1, <3>1, <3>2 DEF TypeOK
    <3>. QED BY <2>1, <3>1, <3>2, <3>3
         DEF CpuOK, Quiet, InTrap, Kept
  <2>. QED BY <2>4, <2>5
<1>8. ASSUME RestoreRow PROVE IInv'
  <2>1. /\ cursor \in Rows /\ cursor' = cursor + 1 /\ phase = "restore"
        /\ UNCHANGED <<phase, pre, syscall, interrupted, trapnum, lives, found,
                       table, cpu, ring, pipe, father, age>>
    BY <1>8 DEF RestoreRow, TypeOK, Rows
  <2>2. CASE Sign[cursor] # 1
    <3>1. UNCHANGED byte /\ cursor \notin Signed /\ cursor' \in 0 .. SyscallLen
      BY <1>8, <2>1, <2>2 DEF RestoreRow, Signed, Rows
    <3>2. \A r \in Signed : r < cursor' => r < cursor
      BY <2>1, <3>1 DEF Signed, Rows
    <3>. QED BY <2>1, <3>1, <3>2
         DEF TypeOK, RingOK, CpuOK, Quiet, InTrap, Kept, Tracing
  <2>3. CASE Sign[cursor] = 1
    <3>1. /\ Addr[cursor] \in Locs /\ pre[cursor] \in Bytes
          /\ byte' = [byte EXCEPT ![Addr[cursor]] = pre[cursor]]
      BY <1>8, <2>1, <2>3 DEF RestoreRow, Kept, Signed
    <3>2. TypeOK'
      BY <2>1, <3>1 DEF TypeOK, Rows
    <3>. QED BY <2>1, <3>1, <3>2 DEF RingOK, CpuOK, Quiet, InTrap, Kept
  <2>. QED BY <2>2, <2>3
<1>9. ASSUME Destroy PROVE IInv'
  BY <1>9 DEF Destroy, Detach, InGuest, TypeOK, Phases, RingOK, CpuOK, Quiet, InTrap, Kept, Tracing
<1>10. ASSUME Leave PROVE IInv'
  BY <1>10 DEF Leave, TypeOK, Phases, RingOK, CpuOK, Quiet, InTrap, Kept, Tracing, Rows, Signed
<1>11. ASSUME Signal PROVE IInv'
  <2>1. CASE phase = "blocked"
    BY <1>11, <2>1, FinishTrapIInv DEF Signal, TypeOK
  <2>2. CASE phase # "blocked"
    <3>1. InTrap'
      <4>1. UNCHANGED <<phase, ring, cpu>>
        BY <1>11, <2>2 DEF Signal
      <4>. QED BY <4>1, SameHead DEF Caller
    <3>. QED BY <1>11, <2>2, <3>1 DEF Signal, TypeOK, RingOK, CpuOK, Quiet, Kept
  <2>. QED BY <2>1, <2>2
<1>12. ASSUME Killed PROVE IInv'
  BY <1>12 DEF Killed, Attached, Detach, InGuest, TypeOK, Phases, RingOK, CpuOK, Quiet, InTrap,
               Kept, Tracing
<1>13. ASSUME NEW v \in Vcpus, NEW r \in Rows, NEW rax \in Rows, EnterSyscall(v, r, rax) PROVE IInv'
  <2>1. /\ cpu[v].st = "guest" /\ Addr[r] \in Locs
        /\ cpu' = [cpu EXCEPT ![v] = [st |-> "trap", rip |-> Addr[r], rax |-> rax]]
        /\ ring' = Append(ring, [kind |-> "int3", vcpu |-> v])
        /\ UNCHANGED <<phase, cursor, pre, syscall, interrupted, trapnum, lives, found,
                       byte, table, pipe, father, age>>
        /\ phase \notin {"off", "arm", "gone", "dead"}
    BY <1>13 DEF EnterSyscall, childVars, Attached, Phases
  <2>2. /\ RingOK' /\ ring' \in Seq(Event) /\ ring' # <<>>
        /\ ring # <<>> => Head(ring') = Head(ring) /\ Caller' = Caller /\ Caller # v
    BY <2>1, AppendRing DEF TypeOK
  <2>3. TypeOK'
    BY <2>1, <2>2 DEF TypeOK
  <2>4. CpuOK'
    BY <2>1 DEF CpuOK, TypeOK
  <2>5. InTrap'
    <3>1. ring # <<>> => cpu'[Caller] = cpu[Caller]
      BY <2>1, <2>2 DEF TypeOK
    <3>. QED BY <2>1, <2>2, <3>1, SameHead
  <2>. QED BY <2>1, <2>2, <2>3, <2>4, <2>5 DEF Quiet, Kept
<1>14. ASSUME NEW v \in Vcpus, Step(v) PROVE IInv'
  <2>. DEFINE kind == IF byte[cpu[v].rip] = "int3" THEN "int3" ELSE "step"
  <2>1. /\ cpu[v].st = "step" /\ kind \in {"int3", "step"}
        /\ cpu' = [cpu EXCEPT ![v].st = IF kind = "int3" THEN "trap" ELSE "stepped"]
        /\ ring' = Append(ring, [kind |-> kind, vcpu |-> v])
        /\ UNCHANGED <<phase, cursor, pre, syscall, interrupted, trapnum, lives, found,
                       byte, table, pipe, father, age>>
    BY <1>14 DEF Step, childVars
  <2>. HIDE DEF kind
  <2>2. /\ RingOK' /\ ring' \in Seq(Event) /\ ring' # <<>>
        /\ ring # <<>> => Head(ring') = Head(ring) /\ Caller' = Caller /\ Caller # v
    BY <2>1, AppendRing DEF TypeOK
  <2>3. TypeOK'
    <3>1. cpu' \in [Vcpus -> [st : {"guest", "trap", "step", "stepped"},
                              rip : Locs \union {NoAddr}, rax : Rows \union {NoRow}]]
      BY <2>1, SetFields DEF TypeOK
    <3>. QED BY <2>1, <2>2, <3>1 DEF TypeOK
  <2>4. CpuOK'
    <3>1. /\ \A w \in Vcpus \ {v} : cpu'[w] = cpu[w]
          /\ cpu'[v].rip = cpu[v].rip /\ cpu'[v].rax = cpu[v].rax
      BY <2>1 DEF TypeOK
    <3>. QED BY <2>1, <3>1 DEF CpuOK
  <2>5. InTrap'
    <3>1. ring # <<>> => cpu'[Caller] = cpu[Caller]
      BY <2>1, <2>2 DEF TypeOK
    <3>. QED BY <2>1, <2>2, <3>1, SameHead
  <2>6. Quiet'
    BY <2>1 DEF Quiet, InGuest
  <2>. QED BY <2>1, <2>2, <2>3, <2>4, <2>5, <2>6 DEF Kept
<1>15. ASSUME NEW r \in Rows, Hook(r) PROVE IInv'
  <2>1. table' \in [Rows -> {"right", "hooked"}] /\ age' \in [Rows -> 0 .. CheckPeriod + 1]
    BY <1>15 DEF Hook, TypeOK
  <2>2. InTrap'
    BY <1>15 DEF Hook, childVars, InTrap, Caller, Sysnum, get_sysnum_from_rip
  <2>. QED BY <1>15, <2>1, <2>2 DEF Hook, childVars, TypeOK, RingOK, CpuOK, Quiet, Kept
<1>16. ASSUME FatherReads \/ FatherDies \/ UNCHANGED vars PROVE IInv'
  <2>1. /\ pipe' \in 0 .. PipeCap /\ father' \in BOOLEAN
        /\ UNCHANGED <<phase, cursor, pre, syscall, interrupted, trapnum, lives, found,
                       byte, table, cpu, ring, age>>
    <3>1. CASE FatherReads
      BY <1>16, <3>1 DEF FatherReads, childVars, TypeOK
    <3>2. CASE FatherDies
      BY <1>16, <3>2 DEF FatherDies, childVars, TypeOK
    <3>3. CASE UNCHANGED vars
      BY <1>16, <3>3 DEF vars, childVars, TypeOK
    <3>. QED BY <1>16, <3>1, <3>2, <3>3
  <2>2. InTrap'
    BY <2>1 DEF InTrap, Caller, Sysnum, get_sysnum_from_rip
  <2>. QED BY <2>1, <2>2 DEF TypeOK, RingOK, CpuOK, Quiet, Kept
<1>. QED BY <1>1, <1>2, <1>3, <1>4, <1>5, <1>6, <1>7, <1>8, <1>9, <1>10, <1>11, <1>12, <1>13,
            <1>14, <1>15, <1>16 DEF Next, Child, Guest

-----------------------------------------------------------------------------
(***************************************************************************)
(* The guest's code: what was overwritten is given back.                   *)
(***************************************************************************)

\* pre holds what was found, for the rows armed so far.
PreOK ==
  \A r \in Signed :
    (phase = "arm" /\ r < cursor) \/ phase \in Tracing \union {"restore"}
      => pre[r] = found[Addr[r]]

\* Entries of no signed row (armed so far) are as found.
RestOK ==
  \A a \in Locs :
    \/ /\ phase = "arm"
       /\ \A r \in Signed : r < cursor => Addr[r] # a
    \/ /\ phase \in Tracing \union {"restore"}
       /\ \A r \in Signed : Addr[r] # a
    => byte[a] = found[a]

\* The restoring loop has put back what it passed.
RestoreOK ==
  phase = "restore" => \A r \in Signed : r < cursor => byte[Addr[r]] = found[Addr[r]]

\* What it owes to the guest, when no two signed rows share an entry.
Owed == PreOK /\ RestOK /\ RestoreOK /\ RestoredWhenStopped

LEMMA InitOwed == Init => Owed
BY DEF Init, Owed, PreOK, RestOK, RestoreOK, RestoredWhenStopped, Tracing

\* Where a row is armed or restored the other signed rows are untouched,
\* because their entries are distinct.
LEMMA ArmRowOwed == ASSUME DistinctAddr, IInv, Owed, ArmRow PROVE Owed'
<1>. USE ConfAssumption, HostAssumption DEF IInv, Owed
<1>1. cursor \in Rows /\ cursor' = cursor + 1
  BY DEF ArmRow, TypeOK, Rows
<1>2. PreOK'
  <2>1. ASSUME NEW r \in Signed, r < cursor' PROVE pre'[r] = found[Addr[r]]
    <3>1. CASE r = cursor
      <4>1. Addr[r] \in Locs /\ Addr[r] # NoAddr
        BY DEF Signed
      <4>2. byte[Addr[r]] = found[Addr[r]]
        BY <1>1, <3>1, <4>1 DEF ArmRow, RestOK, DistinctAddr, Signed, Rows
      <4>. QED BY <1>1, <3>1, <4>1, <4>2 DEF ArmRow, TypeOK
    <3>2. CASE r < cursor
      BY <1>1, <3>2 DEF ArmRow, PreOK, TypeOK, Signed, Rows
    <3>. QED BY <1>1, <2>1, <3>1, <3>2 DEF Signed, Rows
  <2>. QED BY <2>1 DEF ArmRow, PreOK, Tracing
<1>3. RestOK'
  BY DEF ArmRow, RestOK, Tracing, TypeOK, Rows, Signed
<1>. QED BY <1>2, <1>3 DEF ArmRow, RestoreOK, RestoredWhenStopped

\* The end of trap_cb gives the guest the byte that was found.
LEMMA FinishTrapOwed ==
  ASSUME IInv, Owed, FinishTrap, phase \in {"trap", "blocked"} PROVE Owed'
<1>. DEFINE n == Sysnum(cpu[Caller])
<1>. USE ConfAssumption DEF IInv, Owed
<1>1. n \in Rows /\ Addr[n] \in Locs /\ Sign[n] = 1
  BY CallerRow DEF InTrap
<1>2. /\ phase' = "listen" /\ byte' = [byte EXCEPT ![Addr[n]] = pre[n]]
      /\ UNCHANGED <<cursor, pre, found>>
  BY DEF FinishTrap
<1>3. pre[n] = found[Addr[n]]
  BY <1>1 DEF PreOK, Signed, Tracing
<1>4. RestOK'
  BY <1>1, <1>2, <1>3 DEF RestOK, Tracing, TypeOK
<1>5. PreOK'
  BY <1>2 DEF PreOK, Tracing
<1>. QED BY <1>2, <1>4, <1>5 DEF RestoreOK, RestoredWhenStopped

\* The restoring loop.
LEMMA RestoreRowOwed == ASSUME IInv, Owed, RestoreRow PROVE Owed'
<1>. USE ConfAssumption, HostAssumption DEF IInv, Owed
<1>1. /\ cursor \in Rows /\ cursor' = cursor + 1 /\ phase = "restore"
      /\ UNCHANGED <<phase, pre, found>>
  BY DEF RestoreRow, TypeOK, Rows
<1>2. CASE Sign[cursor] # 1
  <2>1. UNCHANGED byte /\ \A r \in Signed : r < cursor' => r < cursor
    BY <1>1, <1>2 DEF RestoreRow, Signed, Rows
  <2>. QED BY <1>1, <2>1 DEF PreOK, RestOK, RestoreOK, RestoredWhenStopped, Tracing
<1>3. CASE Sign[cursor] = 1
  <2>1. /\ cursor \in Signed /\ Addr[cursor] \in Locs
        /\ byte' = [byte EXCEPT ![Addr[cursor]] = found[Addr[cursor]]]
    BY <1>1, <1>3 DEF RestoreRow, PreOK, Signed
  <2>2. RestOK'
    BY <1>1, <2>1 DEF RestOK, TypeOK
  <2>3. ASSUME NEW r \in Signed, r < cursor' PROVE byte'[Addr[r]] = found[Addr[r]]
    <3>1. Addr[r] \in Locs
      BY DEF Signed
    <3>2. r = cursor \/ r < cursor
      BY <1>1, <2>3 DEF Signed, Rows
    <3>. QED BY <1>1, <2>1, <3>1, <3>2 DEF RestoreOK, TypeOK
  <2>4. RestoreOK'
    BY <1>1, <2>3 DEF RestoreOK
  <2>. QED BY <1>1, <2>2, <2>4 DEF PreOK, RestoredWhenStopped
<1>. QED BY <1>2, <1>3

\* One step per action that touches the bytes or the phase.
LEMMA NextOwed == ASSUME DistinctAddr, IInv, Owed, [Next]_vars PROVE Owed'
<1>. USE ConfAssumption, HostAssumption DEF IInv, Owed
<1>1. ASSUME Start PROVE Owed'
  BY <1>1 DEF Start, PreOK, RestOK, RestoreOK, RestoredWhenStopped, Tracing, Rows, Signed
<1>2. ASSUME ArmRow PROVE Owed'
  BY <1>2, ArmRowOwed
<1>3. ASSUME Resume PROVE Owed'
  BY <1>3 DEF Resume, PreOK, RestOK, RestoreOK, RestoredWhenStopped, Tracing, Rows, Signed
<1>4. ASSUME TrapCb PROVE Owed'
  <2>1. phase = "listen" /\ phase' \in {"listen", "trap"} /\ UNCHANGED <<cursor, pre, found, byte>>
    BY <1>4 DEF TrapCb
  <2>. QED BY <2>1 DEF PreOK, RestOK, RestoreOK, RestoredWhenStopped, Tracing
<1>5. ASSUME WritePipe PROVE Owed'
  BY <1>5, FinishTrapOwed DEF WritePipe
<1>6. ASSUME WriteBlocks PROVE Owed'
  BY <1>6 DEF WriteBlocks, PreOK, RestOK, RestoreOK, RestoredWhenStopped, Tracing
<1>7. ASSUME SinglestepCb PROVE Owed'
  <2>1. /\ phase = "listen" /\ syscall \in Rows /\ UNCHANGED <<phase, cursor, pre, found>>
        /\ \/ UNCHANGED byte
           \/ Sign[syscall] = 1 /\ byte' = [byte EXCEPT ![Addr[syscall]] = "int3"]
    BY <1>7, StepRow DEF SinglestepCb
  <2>2. RestOK'
    BY <2>1 DEF RestOK, Signed, TypeOK
  <2>. QED BY <2>1, <2>2 DEF PreOK, RestoreOK, RestoredWhenStopped
<1>8. ASSUME RestoreRow PROVE Owed'
  BY <1>8, RestoreRowOwed
<1>9. ASSUME Destroy PROVE Owed'
  <2>1. phase = "restore" /\ phase' = "gone" /\ cursor = SyscallLen /\ UNCHANGED <<byte, found>>
    BY <1>9 DEF Destroy, Detach
  <2>2. \A a \in Locs : byte[a] = found[a]
    BY <2>1 DEF RestOK, RestoreOK, Tracing, Rows, Signed
  <2>3. byte = found
    BY <2>2 DEF TypeOK
  <2>. QED BY <2>1, <2>3 DEF PreOK, RestOK, RestoreOK, RestoredWhenStopped, Tracing
<1>10. ASSUME Leave PROVE Owed'
  BY <1>10 DEF Leave, PreOK, RestOK, RestoreOK, RestoredWhenStopped, Tracing, Rows, Signed
<1>11. ASSUME Signal PROVE Owed'
  BY <1>11, FinishTrapOwed DEF Signal, PreOK, RestOK, RestoreOK, RestoredWhenStopped
<1>12. ASSUME Killed PROVE Owed'
  BY <1>12 DEF Killed, PreOK, RestOK, RestoreOK, RestoredWhenStopped, Tracing
<1>13. ASSUME Guest \/ FatherReads \/ FatherDies \/ UNCHANGED vars PROVE Owed'
  <2>1. UNCHANGED <<phase, cursor, pre, found, byte>>
    BY <1>13 DEF Guest, EnterSyscall, Step, Hook, FatherReads, FatherDies, vars, childVars
  <2>. QED BY <2>1 DEF PreOK, RestOK, RestoreOK, RestoredWhenStopped
<1>. QED BY <1>1, <1>2, <1>3, <1>4, <1>5, <1>6, <1>7, <1>8, <1>9, <1>10, <1>11, <1>12, <1>13
         DEF Next, Child

-----------------------------------------------------------------------------
(***************************************************************************)
(* The hooks: trapnum counts the traps since the last sweep.               *)
(***************************************************************************)

\* After the last finished trap of a period the sweep is due at the next one;
\* an entry with no address has no slot to redirect.
AgeOK ==
  /\ \A r \in Rows : Addr[r] = NoAddr => age[r] = 0 /\ table[r] = "right"
  /\ phase = "arm" => trapnum = 0 /\ \A r \in Rows : r < cursor => age[r] = 0
  /\ phase \in Tracing \union {"restore"} =>
       \A r \in Rows :
         age[r] <= IF trapnum = 0 /\ phase \in {"listen", "restore"} THEN CheckPeriod ELSE trapnum

LEMMA InitAgeOK == Init => AgeOK
BY DEF Init, AgeOK, Tracing

\* A finished trap makes the hooks that are still there one trap older.
LEMMA FinishTrapAge ==
  ASSUME IInv, AgeOK, FinishTrap, phase \in {"trap", "blocked"} PROVE AgeOK'
<1>1. /\ phase' = "listen" /\ trapnum' = (trapnum + 1) % CheckPeriod /\ UNCHANGED table
      /\ age' = [r \in Rows |-> IF table[r] = "hooked" /\ age[r] <= CheckPeriod
                               THEN age[r] + 1 ELSE age[r]]
  BY DEF FinishTrap
<1>2. /\ trapnum \in 0 .. CheckPeriod - 1 /\ CheckPeriod \in Nat \ {0}
      /\ \A r \in Rows : age[r] \in Nat /\ age[r] <= trapnum
  BY HostAssumption DEF IInv, TypeOK, AgeOK, Tracing
<1>3. trapnum' = trapnum + 1 \/ (trapnum' = 0 /\ trapnum + 1 = CheckPeriod)
  BY <1>1, <1>2
<1>4. \A r \in Rows : age'[r] <= trapnum + 1
  BY <1>1, <1>2
<1>5. \A r \in Rows : Addr[r] = NoAddr => age'[r] = 0 /\ table'[r] = "right"
  BY <1>1 DEF AgeOK
<1>6. trapnum' # 0 => trapnum' = trapnum + 1
  BY <1>3
<1>7. trapnum' = 0 => trapnum + 1 = CheckPeriod
  BY <1>2, <1>3
<1>. QED BY <1>1, <1>4, <1>5, <1>6, <1>7 DEF AgeOK

\* One step per action that touches the slots, the count or the phase.
LEMMA NextAgeOK == ASSUME IInv, AgeOK, [Next]_vars PROVE AgeOK'
<1>. USE ConfAssumption, HostAssumption DEF AgeOK
<1>0. /\ age \in [Rows -> 0 .. CheckPeriod + 1] /\ table \in [Rows -> {"right", "hooked"}]
      /\ trapnum \in 0 .. CheckPeriod - 1 /\ cursor \in 0 .. SyscallLen
  BY DEF IInv, TypeOK
<1>1. ASSUME Start PROVE AgeOK'
  BY <1>0, <1>1 DEF Start, Tracing, Rows
<1>2. ASSUME ArmRow PROVE AgeOK'
  <2>1. cursor \in Rows /\ cursor' = cursor + 1 /\ phase = "arm" /\ UNCHANGED <<phase, trapnum>>
    BY <1>0, <1>2 DEF ArmRow, Rows
  <2>2. CASE Addr[cursor] = NoAddr
    BY <1>2, <2>1, <2>2 DEF ArmRow, Tracing, Rows
  <2>3. CASE Addr[cursor] # NoAddr
    <3>1. age' = [age EXCEPT ![cursor] = 0] /\ table' = [table EXCEPT ![cursor] = "right"]
      BY <1>2, <2>3 DEF ArmRow
    <3>2. \A r \in Rows : r < cursor' => age'[r] = 0
      BY <1>0, <2>1, <3>1 DEF Rows
    <3>. QED BY <1>0, <2>1, <2>3, <3>1, <3>2 DEF Tracing
  <2>. QED BY <2>2, <2>3
<1>3. ASSUME Resume PROVE AgeOK'
  BY <1>0, <1>3 DEF Resume, Tracing, Rows
<1>4. ASSUME TrapCb PROVE AgeOK'
  <2>1. phase = "listen" /\ phase' \in {"listen", "trap"} /\ UNCHANGED trapnum
    BY <1>4 DEF TrapCb
  <2>2. CASE detect_syscall_hook
    <3>1. \A r \in Rows : age'[r] = 0 /\ (Addr[r] = NoAddr => table'[r] = "right")
      BY <2>2 DEF detect_syscall_hook
    <3>. QED BY <1>0, <2>1, <3>1 DEF Tracing
  <2>3. CASE UNCHANGED <<table, age>> /\ trapnum # 0
    BY <2>1, <2>3 DEF Tracing
  <2>. QED BY <1>4, <2>2, <2>3 DEF TrapCb
<1>5. ASSUME WritePipe PROVE AgeOK'
  BY <1>5, FinishTrapAge DEF WritePipe
<1>6. ASSUME WriteBlocks PROVE AgeOK'
  BY <1>6 DEF WriteBlocks, Tracing
<1>7. ASSUME SinglestepCb \/ RestoreRow PROVE AgeOK'
  BY <1>7 DEF SinglestepCb, RestoreRow, Tracing
<1>8. ASSUME Destroy \/ Killed PROVE AgeOK'
  BY <1>8 DEF Destroy, Killed, Detach, Tracing
<1>9. ASSUME Leave PROVE AgeOK'
  BY <1>9 DEF Leave, Tracing
<1>10. ASSUME Signal PROVE AgeOK'
  <2>1. CASE phase = "blocked"
    BY <1>10, <2>1, FinishTrapAge DEF Signal
  <2>2. CASE phase # "blocked"
    BY <1>10, <2>2 DEF Signal, Tracing
  <2>. QED BY <2>1, <2>2
<1>11. ASSUME NEW r \in Rows, Hook(r) PROVE AgeOK'
  <2>1. /\ age' = [age EXCEPT ![r] = 0] /\ table' = [table EXCEPT ![r] = "hooked"]
        /\ phase # "arm" /\ Addr[r] # NoAddr /\ UNCHANGED <<phase, trapnum>>
    BY <1>11 DEF Hook, childVars
  <2>2. \A q \in Rows : age'[q] = age[q] \/ age'[q] = 0
    BY <1>0, <2>1
  <2>3. phase \in Tracing \union {"restore"} =>
          \A q \in Rows : age'[q] <= IF trapnum = 0 /\ phase \in {"listen", "restore"}
                                     THEN CheckPeriod ELSE trapnum
    BY <1>0, <2>2
  <2>4. \A q \in Rows : Addr[q] = NoAddr => age'[q] = 0 /\ table'[q] = "right"
    BY <1>0, <2>1
  <2>. QED BY <2>1, <2>3, <2>4
<1>12. ASSUME \/ \E v \in Vcpus, r, rax \in Rows : EnterSyscall(v, r, rax)
              \/ \E v \in Vcpus : Step(v)
              \/ FatherReads \/ FatherDies \/ UNCHANGED vars
       PROVE AgeOK'
  BY <1>12 DEF EnterSyscall, Step, FatherReads, FatherDies, vars, childVars
<1>. QED BY <1>1, <1>2, <1>3, <1>4, <1>5, <1>6, <1>7, <1>8, <1>9, <1>10, <1>11, <1>12
         DEF Next, Child, Guest

-----------------------------------------------------------------------------
(***************************************************************************)
(* The traps, on a guest with one vCPU.                                    *)
(***************************************************************************)
OnlyVcpu == Vcpus = {0}

\* vmivm->syscall is the row the vCPU is passing, and every other entry, every
\* entry when it passes none, is armed.
Passing == cpu[0].st \in {"step", "stepped"}

ArmedOK ==
  /\ Passing => syscall \in Signed /\ Addr[syscall] = cpu[0].rip
  /\ phase = "arm" => \A r \in Signed : r < cursor => byte[Addr[r]] = "int3"
  /\ phase \in Tracing =>
       \A r \in Signed : byte[Addr[r]] = "int3" \/ (Passing /\ Addr[r] = cpu[0].rip)

LEMMA InitArmedOK == OnlyVcpu /\ Init => ArmedOK
BY HostAssumption DEF OnlyVcpu, Init, ArmedOK, Passing, InGuest, Tracing

\* The byte trap_cb puts back is the one of the entry the vCPU stands at.
LEMMA FinishTrapArmed ==
  ASSUME OnlyVcpu, IInv, ArmedOK, FinishTrap, phase \in {"trap", "blocked"} PROVE ArmedOK'
<1>. DEFINE n == Sysnum(cpu[Caller])
<1>1. /\ Caller \in Vcpus /\ cpu[Caller].st = "trap"
      /\ n \in Rows /\ Addr[n] = cpu[Caller].rip /\ Sign[n] = 1
  BY CallerRow DEF IInv, InTrap
<1>2. Caller = 0 /\ cpu[0].st = "trap" /\ n \in Signed
  BY <1>1 DEF OnlyVcpu, Signed
<1>3. \A r \in Signed : byte[Addr[r]] = "int3"
  BY <1>2 DEF ArmedOK, Tracing, Passing
<1>4. /\ phase' = "listen" /\ syscall' = n /\ byte' = [byte EXCEPT ![Addr[n]] = pre[n]]
      /\ cpu' = [cpu EXCEPT ![0].st = "step"]
  BY <1>2 DEF FinishTrap
<1>5. cpu'[0].st = "step" /\ cpu'[0].rip = cpu[0].rip
  BY <1>1, <1>2, <1>4 DEF IInv, TypeOK
<1>6. \A r \in Signed : Addr[r] # Addr[n] => byte'[Addr[r]] = "int3"
  <2>1. \A r \in Signed : Addr[r] \in Locs
    BY ConfAssumption DEF Signed, Locs
  <2>. QED BY <1>3, <1>4, <2>1 DEF IInv, TypeOK
<1>. QED BY <1>1, <1>2, <1>4, <1>5, <1>6 DEF ArmedOK, Passing

\* One step per action that touches the bytes, the vCPU or the phase.
LEMMA NextArmedOK == ASSUME OnlyVcpu, IInv, ArmedOK, [Next]_vars PROVE ArmedOK'
<1>. USE ConfAssumption, HostAssumption DEF OnlyVcpu
<1>0. /\ cpu \in [Vcpus -> [st  : {"guest", "trap", "step", "stepped"},
                            rip : Locs \union {NoAddr}, rax : Rows \union {NoRow}]]
      /\ byte \in [Locs -> Bytes] /\ cursor \in 0 .. SyscallLen
      /\ \A r \in Signed : Addr[r] \in Locs
  BY DEF IInv, TypeOK, Signed, Locs
<1>1. ASSUME Start PROVE ArmedOK'
  <2>1. cpu[0] = InGuest
    BY <1>1 DEF Start, Attached, IInv, Quiet, TypeOK, Phases
  <2>. QED BY <1>1, <2>1 DEF Start, ArmedOK, Passing, InGuest, Tracing, Rows, Signed
<1>2. ASSUME ArmRow PROVE ArmedOK'
  <2>1. /\ cursor \in Rows /\ cursor' = cursor + 1 /\ phase = "arm"
        /\ UNCHANGED <<phase, syscall, cpu>>
    BY <1>0, <1>2 DEF ArmRow, Rows
  <2>2. cpu[0] = InGuest
    BY <2>1 DEF IInv, Quiet
  <2>3. ASSUME NEW r \in Signed, r < cursor' PROVE byte'[Addr[r]] = "int3"
    <3>1. r = cursor \/ r < cursor
      BY <2>1, <2>3 DEF Signed, Rows
    <3>2. CASE r = cursor
      BY <1>0, <1>2, <3>2 DEF ArmRow, Signed
    <3>3. CASE r < cursor
      <4>1. byte[Addr[r]] = "int3"
        BY <2>1, <3>3 DEF ArmedOK
      <4>2. UNCHANGED byte \/ byte' = [byte EXCEPT ![Addr[cursor]] = "int3"]
        BY <1>2 DEF ArmRow
      <4>. QED BY <1>0, <4>1, <4>2
    <3>. QED BY <3>1, <3>2, <3>3
  <2>. QED BY <2>1, <2>2, <2>3 DEF ArmedOK, Passing, InGuest, Tracing
<1>3. ASSUME Resume PROVE ArmedOK'
  BY <1>3 DEF Resume, ArmedOK, Passing, Tracing, Rows, Signed
<1>4. ASSUME TrapCb PROVE ArmedOK'
  <2>1. Caller = 0 /\ cpu[0].st = "trap"
    BY <1>4, CallerRow DEF TrapCb, IInv
  <2>2. \A r \in Signed : byte[Addr[r]] = "int3"
    BY <1>4, <2>1 DEF TrapCb, ArmedOK, Tracing, Passing
  <2>3. /\ phase' \in Tracing /\ UNCHANGED <<byte, syscall>>
        /\ cpu'[0].st \in {"trap", "guest"}
    BY <1>0, <1>4, <2>1 DEF TrapCb, Tracing, InGuest
  <2>. QED BY <2>2, <2>3 DEF ArmedOK, Passing, Tracing
<1>5. ASSUME WritePipe PROVE ArmedOK'
  BY <1>5, FinishTrapArmed DEF WritePipe
<1>6. ASSUME WriteBlocks PROVE ArmedOK'
  BY <1>6 DEF WriteBlocks, ArmedOK, Passing, Tracing
<1>7. ASSUME SinglestepCb PROVE ArmedOK'
  <2>1. Caller = 0 /\ cpu[0].st = "stepped"
    BY <1>7, StepRow DEF SinglestepCb, IInv
  <2>2. syscall \in Signed /\ Addr[syscall] = cpu[0].rip
    BY <2>1 DEF ArmedOK, Passing
  <2>3. /\ phase = "listen" /\ byte' = [byte EXCEPT ![Addr[syscall]] = "int3"]
        /\ cpu' = [cpu EXCEPT ![0] = InGuest] /\ UNCHANGED <<phase, syscall>>
    BY <1>7, <2>1, <2>2 DEF SinglestepCb, Signed
  <2>4. \A r \in Signed : byte'[Addr[r]] = "int3"
    BY <1>0, <2>2, <2>3 DEF ArmedOK, Tracing
  <2>5. cpu'[0] = InGuest
    BY <1>0, <2>3
  <2>. QED BY <2>3, <2>4, <2>5 DEF ArmedOK, Passing, InGuest
<1>8. ASSUME Leave \/ RestoreRow PROVE ArmedOK'
  BY <1>8 DEF Leave, RestoreRow, ArmedOK, Passing, Tracing
<1>9. ASSUME Destroy \/ Killed PROVE ArmedOK'
  BY <1>9 DEF Destroy, Killed, Detach, ArmedOK, Passing, InGuest, Tracing
<1>10. ASSUME Signal PROVE ArmedOK'
  <2>1. CASE phase = "blocked"
    BY <1>10, <2>1, FinishTrapArmed DEF Signal
  <2>2. CASE phase # "blocked"
    BY <1>10, <2>2 DEF Signal, ArmedOK, Passing, Tracing
  <2>. QED BY <2>1, <2>2
<1>11. ASSUME NEW v \in Vcpus, NEW r \in Rows, NEW rax \in Rows, EnterSyscall(v, r, rax)
       PROVE ArmedOK'
  <2>1. /\ cpu[0].st = "guest" /\ cpu'[0].st = "trap" /\ phase # "arm"
        /\ UNCHANGED <<phase, cursor, syscall, byte>>
    BY <1>0, <1>11 DEF EnterSyscall, childVars
  <2>. QED BY <2>1 DEF ArmedOK, Passing
<1>12. ASSUME NEW v \in Vcpus, Step(v) PROVE ArmedOK'
  <2>1. /\ cpu[0].st = "step" /\ UNCHANGED <<phase, cursor, syscall, byte>>
        /\ cpu'[0].rip = cpu[0].rip
        /\ IF byte[cpu[0].rip] = "int3" THEN cpu'[0].st = "trap" ELSE cpu'[0].st = "stepped"
    BY <1>0, <1>12 DEF Step, childVars
  <2>. QED BY <2>1 DEF ArmedOK, Passing
<1>13. ASSUME (\E r \in Rows : Hook(r)) \/ FatherReads \/ FatherDies \/ UNCHANGED vars
       PROVE ArmedOK'
  <2>1. UNCHANGED <<phase, cursor, syscall, byte, cpu>>
    BY <1>13 DEF Hook, FatherReads, FatherDies, vars, childVars
  <2>. QED BY <2>1 DEF ArmedOK, Passing
<1>. QED BY <1>1, <1>2, <1>3, <1>4, <1>5, <1>6, <1>7, <1>8, <1>9, <1>10, <1>11, <1>12, <1>13
         DEF Next, Child, Guest

-----------------------------------------------------------------------------
(***************************************************************************)
(* The theorems.                                                           *)
(***************************************************************************)

\* Every reachable state is well typed, whatever the conf says.
THEOREM Typed == Spec => []TypeOK
<1>1. IInv /\ [Next]_vars => IInv'
  BY NextIInv
<1>2. IInv => TypeOK
  BY DEF IInv
<1>. QED BY <1>1, <1>2, InitIInv, PTL DEF Spec

\* The guest has its code back when the tracer has stopped, in every reachable
\* state, so long as no two signed rows share an entry.
THEOREM Safety == DistinctAddr => (Spec => []RestoredWhenStopped)
<1>. SUFFICES ASSUME DistinctAddr PROVE Spec => []RestoredWhenStopped
  OBVIOUS
<1>1. IInv /\ Owed /\ [Next]_vars => IInv' /\ Owed'
  BY NextIInv, NextOwed
<1>2. Owed => RestoredWhenStopped
  BY DEF Owed
<1>. QED BY <1>1, <1>2, InitIInv, InitOwed, PTL DEF Spec

\* A redirected slot is mended within CheckPeriod traps, for every period, any
\* number of vCPUs, and redirections at any moment, the sweep's included.
THEOREM HooksAreMended == Spec => []HookAgeBounded
<1>1. IInv /\ AgeOK /\ [Next]_vars => IInv' /\ AgeOK'
  BY NextIInv, NextAgeOK
<1>2. IInv /\ AgeOK => HookAgeBounded
  BY HostAssumption DEF IInv, TypeOK, AgeOK, HookAgeBounded, Attached, Phases, Tracing
<1>. QED BY <1>1, <1>2, InitIInv, InitAgeOK, PTL DEF Spec

\* With one vCPU no entry stays unarmed, though two signed rows share it.
THEOREM StaysArmed == Vcpus = {0} => (Spec => []ArmedUnlessStepping)
<1>. SUFFICES ASSUME OnlyVcpu PROVE Spec => []ArmedUnlessStepping
  BY DEF OnlyVcpu
<1>1. IInv /\ ArmedOK /\ [Next]_vars => IInv' /\ ArmedOK'
  BY NextIInv, NextArmedOK
<1>2. Init => ArmedOK
  BY InitArmedOK
<1>3. ArmedOK => ArmedUnlessStepping
  BY HostAssumption DEF OnlyVcpu, ArmedOK, Passing, ArmedUnlessStepping, Tracing
<1>. QED BY <1>1, <1>2, <1>3, InitIInv, PTL DEF Spec
=============================================================================
