---------------------------- MODULE SyscallTrap ----------------------------
(***************************************************************************)
(* The tracer: the child process of host/processinfo/main.c together with  *)
(* the two event callbacks of mysyscall.c.  It overwrites the first byte   *)
(* of every signed system call of the guest with int3, takes the trap,     *)
(* puts the old byte back for one instruction, arms the entry again after  *)
(* the single step, and puts every byte back when it is told to stop or    *)
(* finds that its father (the reader of the pipe) has gone.                *)
(*                                                                         *)
(* The guest's vCPUs, Xen's event ring and the kernel's pipe are external: *)
(* they are modelled by what the code relies on.                           *)
(***************************************************************************)
EXTENDS Integers, Sequences

CONSTANTS
  SyscallLen,   \* vmivm->syscall_len, the rows of <version>_syscall.conf
  Addr,         \* row -> address of its entry, or NoAddr where the conf has 0
  Sign,         \* row -> 1 (trap it) or 0 (leave it alone)
  NoAddr,
  Vcpus,        \* the guest's vCPUs, 0 among them
  CheckPeriod,  \* a sweep of sys_call_table every CheckPeriod traps (10000)
  PipeCap,      \* records that fit in the pipe
  FatherMayDie, \* may the reader of the pipe go away?
  MayBeKilled,  \* may the child die without its teardown (SIGKILL, a fault)?
  MaxLives      \* how often the tracer may be started (bound)

Rows   == 0 .. SyscallLen - 1
Signed == {r \in Rows : Sign[r] = 1}
Locs   == {Addr[r] : r \in Rows} \ {NoAddr}
NoRow  == -1

\* 4.4.57_syscall.conf gives no sign to a row without an address.
ASSUME ConfAssumption ==
  /\ SyscallLen \in Nat \ {0}
  /\ Addr \in [Rows -> Locs \union {NoAddr}]
  /\ Sign \in [Rows -> {0, 1}]
  /\ \A r \in Signed : Addr[r] # NoAddr

ASSUME HostAssumption ==
  /\ Vcpus \subseteq Nat /\ 0 \in Vcpus
  /\ CheckPeriod \in Nat \ {0}
  /\ PipeCap \in Nat \ {0}
  /\ MaxLives \in Nat \ {0}
  /\ FatherMayDie \in BOOLEAN /\ MayBeKilled \in BOOLEAN

VARIABLES
  phase,        \* where the child is, see Phases
  cursor,       \* i of the arming and of the restoring loop
  byte,         \* guest memory: first byte of each entry
  pre,          \* syscallall[i].pre
  table,        \* sys_call_table: is row i's slot right or hooked?
  syscall,      \* vmivm->syscall, one per VM and not one per vCPU
  cpu,          \* what each vCPU is doing
  ring,         \* Xen's event ring, oldest first
  pipe,         \* records in the pipe
  father,       \* is the father alive?
  interrupted,  \* the flag close_handler sets
  trapnum,      \* trapnum % CheckPeriod
  lives,        \* how often the tracer was started
  found,        \* history: the bytes as this life of the tracer found them
  age           \* history: traps since row i's slot was hooked, unrepaired

childVars == <<phase, cursor, pre, syscall, interrupted, trapnum, lives, found>>
vars == <<childVars, byte, table, cpu, ring, pipe, father, age>>

Phases   == {"off", "arm", "listen", "trap", "blocked", "restore", "gone", "dead"}
Bytes    == {"orig", "int3"}
InGuest  == [st |-> "guest", rip |-> NoAddr, rax |-> NoRow]
Event    == [kind : {"int3", "step"}, vcpu : Vcpus]
Attached == phase \in Phases \ {"off", "gone", "dead"}

TypeOK ==
  /\ phase \in Phases
  /\ cursor \in 0 .. SyscallLen
  /\ byte \in [Locs -> Bytes]
  /\ found \in [Locs -> Bytes]
  /\ pre \in [Rows -> Bytes \union {"zero"}]
  /\ table \in [Rows -> {"right", "hooked"}]
  /\ syscall \in Rows \union {NoRow}
  /\ cpu \in [Vcpus -> [st  : {"guest", "trap", "step", "stepped"},
                        rip : Locs \union {NoAddr},
                        rax : Rows \union {NoRow}]]
  /\ ring \in Seq(Event)
  /\ pipe \in 0 .. PipeCap
  /\ father \in BOOLEAN
  /\ interrupted \in BOOLEAN
  /\ trapnum \in 0 .. CheckPeriod - 1
  /\ lives \in 0 .. MaxLives
  /\ age \in [Rows -> 0 .. CheckPeriod + 1]

(***************************************************************************)
(* main.c up to vmi_resume_vm: the VM is paused while the child arms.      *)
(***************************************************************************)
Init ==
  /\ phase = "off" /\ cursor = 0
  /\ byte = [a \in Locs |-> "orig"] /\ found = byte
  /\ pre = [r \in Rows |-> "zero"]
  /\ table \in [Rows -> {"right", "hooked"}]
  /\ \A r \in Rows : Addr[r] = NoAddr => table[r] = "right"
  /\ syscall = NoRow
  /\ cpu = [v \in Vcpus |-> InGuest]
  /\ ring = <<>>
  /\ pipe = 0 /\ father = TRUE /\ interrupted = FALSE
  /\ trapnum = 0 /\ lives = 0
  /\ age = [r \in Rows |-> 0]

\* A fresh father and child: read_syscall_conf zeroes every pre.
Start ==
  /\ ~Attached /\ lives < MaxLives
  /\ phase' = "arm" /\ cursor' = 0
  /\ pre' = [r \in Rows |-> "zero"]
  /\ found' = byte
  /\ syscall' = NoRow /\ interrupted' = FALSE /\ trapnum' = 0
  /\ pipe' = 0 /\ father' = TRUE
  /\ lives' = lives + 1
  /\ UNCHANGED <<byte, table, cpu, ring, age>>

\* Mutant of ArmRow: the byte is read after the trap has been planted.
ArmRowReadsLate ==
  /\ phase = "arm" /\ cursor < SyscallLen
  /\ cursor' = cursor + 1
  /\ IF Addr[cursor] = NoAddr
     THEN UNCHANGED <<pre, byte, table, age>>
     ELSE /\ byte' = IF Sign[cursor] = 1
                     THEN [byte EXCEPT ![Addr[cursor]] = "int3"] ELSE byte
          /\ pre' = [pre EXCEPT ![cursor] = byte'[Addr[cursor]]]
          /\ table' = [table EXCEPT ![cursor] = "right"]
          /\ age' = [age EXCEPT ![cursor] = 0]
  /\ UNCHANGED <<phase, syscall, interrupted, trapnum, lives, found, cpu, ring, pipe, father>>

\* One turn of the arming loop: keep the byte, plant the trap, mend the slot.
ArmRow ==
  /\ phase = "arm" /\ cursor < SyscallLen
  /\ cursor' = cursor + 1
  /\ IF Addr[cursor] = NoAddr
     THEN UNCHANGED <<pre, byte, table, age>>
     ELSE /\ pre' = [pre EXCEPT ![cursor] = byte[Addr[cursor]]]
          /\ byte' = IF Sign[cursor] = 1
                     THEN [byte EXCEPT ![Addr[cursor]] = "int3"] ELSE byte
          /\ table' = [table EXCEPT ![cursor] = "right"]
          /\ age' = [age EXCEPT ![cursor] = 0]
  /\ UNCHANGED <<phase, syscall, interrupted, trapnum, lives, found, cpu, ring, pipe, father>>

\* Callbacks registered, VM resumed.
Resume ==
  /\ phase = "arm" /\ cursor = SyscallLen
  /\ phase' = "listen"
  /\ UNCHANGED <<cursor, pre, syscall, interrupted, trapnum, lives, found,
                 byte, table, cpu, ring, pipe, father, age>>

(***************************************************************************)
(* The guest.  A vCPU reaches an entry by its system call number, or from  *)
(* kernel code with another number in rax.                                 *)
(***************************************************************************)
EnterSyscall(v, r, rax) ==
  /\ Attached /\ phase # "arm"
  /\ cpu[v].st = "guest"
  /\ Addr[r] # NoAddr /\ byte[Addr[r]] = "int3"
  /\ rax = r => table[r] = "right"
  /\ cpu' = [cpu EXCEPT ![v] = [st |-> "trap", rip |-> Addr[r], rax |-> rax]]
  /\ ring' = Append(ring, [kind |-> "int3", vcpu |-> v])
  /\ UNCHANGED <<childVars, byte, table, pipe, father, age>>

\* The single step: the original instruction runs, or the int3 that still
\* stands there traps again.
Step(v) ==
  /\ cpu[v].st = "step"
  /\ LET again == byte[cpu[v].rip] = "int3" IN
     /\ cpu' = [cpu EXCEPT ![v].st = IF again THEN "trap" ELSE "stepped"]
     /\ ring' = Append(ring, [kind |-> IF again THEN "int3" ELSE "step", vcpu |-> v])
  /\ UNCHANGED <<childVars, byte, table, pipe, father, age>>

\* Something in the guest redirects a slot of sys_call_table.
Hook(r) ==
  /\ phase # "arm" /\ table[r] = "right" /\ Addr[r] # NoAddr
  /\ table' = [table EXCEPT ![r] = "hooked"]
  /\ age' = [age EXCEPT ![r] = 0]
  /\ UNCHANGED <<childVars, byte, cpu, ring, pipe, father>>

(***************************************************************************)
(* mysyscall.c: the callbacks, run one at a time from vmi_events_listen.   *)
(***************************************************************************)
get_sysnum_from_rip(rip) ==
  CHOOSE r \in Rows : Addr[r] = rip /\ \A q \in Rows : Addr[q] = rip => r <= q

Sysnum(c) == IF Addr[c.rax] = c.rip THEN c.rax ELSE get_sysnum_from_rip(c.rip)

\* Mutant of detect_syscall_hook: only the rows with a sign are looked at.
DetectSignedOnly ==
  /\ table' = [r \in Rows |-> IF Sign[r] = 0 THEN table[r] ELSE "right"]
  /\ age' = [r \in Rows |-> IF Sign[r] = 0 THEN age[r] ELSE 0]

detect_syscall_hook ==
  /\ table' = [r \in Rows |-> IF Addr[r] = NoAddr THEN table[r] ELSE "right"]
  /\ age' = [r \in Rows |-> IF Addr[r] = NoAddr THEN age[r] ELSE 0]

Caller == Head(ring).vcpu

\* trap_cb down to write(): either an int3 nobody planted, or a record to send.
TrapCb ==
  /\ phase = "listen" /\ ring # <<>> /\ Head(ring).kind = "int3"
  /\ IF Sign[Sysnum(cpu[Caller])] = 0
     THEN /\ detect_syscall_hook
          /\ cpu' = [cpu EXCEPT ![Caller] = InGuest]
          /\ ring' = Tail(ring)
          /\ UNCHANGED phase
     ELSE /\ IF trapnum = 0 THEN detect_syscall_hook ELSE UNCHANGED <<table, age>>
          /\ phase' = "trap"
          /\ UNCHANGED <<cpu, ring>>
  /\ UNCHANGED <<cursor, pre, syscall, interrupted, trapnum, lives, found, byte, pipe, father>>

\* What the mutants of FinishTrap leave as it is.
FinishRest ==
  /\ phase' = "listen"
  /\ cpu' = [cpu EXCEPT ![Caller].st = "step"]
  /\ ring' = Tail(ring)
  /\ UNCHANGED <<cursor, pre, lives, found, table, father, age>>

\* Mutant of FinishTrap: vmivm->syscall is taken from rax, not from the entry.
FinishTrapKeepsRax ==
  LET n == Sysnum(cpu[Caller]) IN
  /\ syscall' = cpu[Caller].rax
  /\ byte' = [byte EXCEPT ![Addr[n]] = pre[n]]
  /\ trapnum' = (trapnum + 1) % CheckPeriod
  /\ FinishRest

\* Mutant of FinishTrap: the old byte is not put back for the single step.
FinishTrapLeavesInt3 ==
  /\ syscall' = Sysnum(cpu[Caller])
  /\ trapnum' = (trapnum + 1) % CheckPeriod
  /\ FinishRest
  /\ UNCHANGED byte

\* trap_cb after write(): remember the row, put the old byte back, step.
FinishTrap ==
  LET n == Sysnum(cpu[Caller]) IN
  /\ phase' = "listen"
  /\ syscall' = n
  /\ byte' = [byte EXCEPT ![Addr[n]] = pre[n]]
  /\ trapnum' = (trapnum + 1) % CheckPeriod
  /\ cpu' = [cpu EXCEPT ![Caller].st = "step"]
  /\ ring' = Tail(ring)
  /\ age' = [r \in Rows |-> IF table[r] = "hooked" /\ age[r] <= CheckPeriod
                            THEN age[r] + 1 ELSE age[r]]
  /\ UNCHANGED <<cursor, pre, lives, found, table, father>>

WritePipe ==
  /\ phase \in {"trap", "blocked"} /\ pipe < PipeCap
  /\ pipe' = pipe + 1
  /\ FinishTrap
  /\ UNCHANGED interrupted

\* No room: write() sleeps.  The child holds a read end too, so there is no
\* EPIPE when the father is gone.
WriteBlocks ==
  /\ phase = "trap" /\ pipe = PipeCap
  /\ phase' = "blocked"
  /\ UNCHANGED <<cursor, pre, syscall, interrupted, trapnum, lives, found,
                 byte, table, cpu, ring, pipe, father, age>>

\* close_handler (sa_flags = 0): sets the flag, and a sleeping write() ends
\* with EINTR, "pipe write error!", the record lost.
Signal ==
  /\ phase \in {"arm", "listen", "trap", "blocked"}
  /\ interrupted' = TRUE
  /\ IF phase = "blocked"
     THEN FinishTrap /\ UNCHANGED pipe
     ELSE UNCHANGED <<phase, cursor, pre, syscall, trapnum, lives, found,
                      byte, table, cpu, ring, pipe, father, age>>

\* singlestep_cb: arms whatever row the last trap left in vmivm->syscall.
\* Only vCPU 0 has a handler; listening fails on another one's step.
SinglestepCb ==
  /\ phase = "listen" /\ ring # <<>> /\ Head(ring).kind = "step"
  /\ ring' = Tail(ring)
  /\ IF Caller = 0
     THEN /\ byte' = IF Sign[syscall] = 1
                     THEN [byte EXCEPT ![Addr[syscall]] = "int3"] ELSE byte
          /\ cpu' = [cpu EXCEPT ![0] = InGuest]
          /\ UNCHANGED interrupted
     ELSE /\ interrupted' = TRUE
          /\ UNCHANGED <<byte, cpu>>
  /\ UNCHANGED <<phase, cursor, pre, syscall, trapnum, lives, found, table, pipe, father, age>>

(***************************************************************************)
(* main.c after the loop: restore with the VM running, then detach.        *)
(***************************************************************************)
\* Mutant of Leave: i is not set to 0 again before the second loop.
LeaveUnrestored ==
  /\ phase = "listen" /\ (interrupted \/ ~father)
  /\ phase' = "restore"
  /\ UNCHANGED <<cursor, pre, syscall, interrupted, trapnum, lives, found,
                 byte, table, cpu, ring, pipe, father, age>>

\* Mutant of Leave: the loop tests only for the father.
LeaveWhenOrphaned ==
  /\ phase = "listen" /\ ~father
  /\ phase' = "restore" /\ cursor' = 0
  /\ UNCHANGED <<pre, syscall, interrupted, trapnum, lives, found,
                 byte, table, cpu, ring, pipe, father, age>>

Leave ==
  /\ phase = "listen" /\ (interrupted \/ ~father)
  /\ phase' = "restore" /\ cursor' = 0
  /\ UNCHANGED <<pre, syscall, interrupted, trapnum, lives, found,
                 byte, table, cpu, ring, pipe, father, age>>

RestoreRow ==
  /\ phase = "restore" /\ cursor < SyscallLen
  /\ cursor' = cursor + 1
  /\ byte' = IF Sign[cursor] = 1
             THEN [byte EXCEPT ![Addr[cursor]] = pre[cursor]] ELSE byte
  /\ UNCHANGED <<phase, pre, syscall, interrupted, trapnum, lives, found,
                 table, cpu, ring, pipe, father, age>>

\* The event ring goes away and every vCPU goes on from where it stands.
Detach ==
  /\ cpu' = [v \in Vcpus |-> InGuest]
  /\ ring' = <<>>
  /\ UNCHANGED <<cursor, pre, syscall, interrupted, trapnum, lives, found,
                 byte, table, pipe, father, age>>

Destroy == phase = "restore" /\ cursor = SyscallLen /\ phase' = "gone" /\ Detach

\* Death without teardown: what is armed stays armed.
Killed == MayBeKilled /\ Attached /\ phase' = "dead" /\ Detach

(***************************************************************************)
(* The father, as the child sees it: it drains the pipe once a round, and  *)
(* ends after its rounds or with run_psinfo.py's terminate().              *)
(***************************************************************************)
FatherReads ==
  /\ father /\ pipe > 0
  /\ pipe' = pipe - 1
  /\ UNCHANGED <<childVars, byte, table, cpu, ring, father, age>>

FatherDies ==
  /\ FatherMayDie /\ father /\ Attached
  /\ father' = FALSE
  /\ UNCHANGED <<childVars, byte, table, cpu, ring, pipe, age>>

Guest ==
  \/ \E v \in Vcpus, r, rax \in Rows : EnterSyscall(v, r, rax)
  \/ \E v \in Vcpus : Step(v)
  \/ \E r \in Rows : Hook(r)

Child ==
  \/ ArmRow \/ Resume
  \/ TrapCb \/ WritePipe \/ WriteBlocks \/ SinglestepCb
  \/ RestoreRow \/ Destroy

Next == Start \/ Child \/ Leave \/ Signal \/ Killed \/ Guest \/ FatherReads \/ FatherDies

Spec == Init /\ [][Next]_vars

\* The child is scheduled; a vCPU told to step steps; a living father reads on
\* (it sleeps one second a round); and the loop test is reached again and
\* again, for vmi_events_listen returns after the requests it found.
Fairness ==
  /\ WF_vars(Child)
  /\ SF_vars(Leave)
  /\ \A v \in Vcpus : WF_vars(Step(v))
  /\ WF_vars(FatherReads)

FairSpec == Spec /\ Fairness

-----------------------------------------------------------------------------
(***************************************************************************)
(* What the tracer promises.                                               *)
(***************************************************************************)

\* No two signed rows share an entry.
DistinctAddr == \A r, q \in Signed : Addr[r] = Addr[q] => r = q

\* After a clean stop every entry holds the byte this life of the tracer found
\* there, whatever was in flight on any vCPU when the loop was left
\* (main.c:514-523 against mysyscall.c:39 and :139).
RestoredWhenStopped == phase = "gone" => byte = found

\* While the tracer listens, an entry is unarmed only during the single step
\* of the one vCPU that is passing it: a byte put back by trap_cb is never
\* forgotten by singlestep_cb, though the row travels in one shared variable.
ArmedUnlessStepping ==
  phase \in {"listen", "trap", "blocked"} =>
    \A r \in Signed : \/ byte[Addr[r]] = "int3"
                      \/ \E v \in Vcpus : cpu[v].st \in {"step", "stepped"} /\ cpu[v].rip = Addr[r]

\* A redirected slot of sys_call_table is mended before CheckPeriod + 1 traps
\* have gone by (trapnum%10000 in trap_cb).
HookAgeBounded == Attached /\ phase # "arm" => \A r \in Rows : age[r] <= CheckPeriod

\* "interrupt to recover enter addr" (mysyscall.c:5): once the tracer has been
\* stopped the guest has its own code back.
InterruptRecoversEntry == phase = "gone" => \A a \in Locs : byte[a] = "orig"

\* An interrupted tracer stops, and with it comes InterruptRecoversEntry.
InterruptStops == Attached /\ interrupted ~> ~Attached

\* A vCPU caught at an entry gets on with its system call, as long as there is
\* somebody to read the record of it and no int3 of an earlier life, killed,
\* was taken for the guest's own byte.
TrappedGetsOn ==
  \A v \in Vcpus :
    cpu[v].st # "guest" ~> cpu[v].st = "guest" \/ ~father \/ \E a \in Locs : found[a] = "int3"
=============================================================================
