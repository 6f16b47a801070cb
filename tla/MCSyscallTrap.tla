--------------------------- MODULE MCSyscallTrap ---------------------------
(***************************************************************************)
(* Small instances of SyscallTrap.  Rows 0 and 1 are signed, row 2 is an   *)
(* unsigned second name of row 1's entry, row 3 has no address.  In        *)
(* SharedSign row 2 is signed too, as sys_uselib, sys_set_thread_area and  *)
(* sys_get_thread_area are in 4.4.57_syscall.conf.                         *)
(***************************************************************************)
EXTENDS SyscallTrap

CONSTANTS a1, a2

MCAddr == [r \in 0 .. 3 |-> CASE r = 0 -> a1 [] r \in {1, 2} -> a2 [] OTHER -> NoAddr]
PlainSign  == [r \in 0 .. 3 |-> IF r \in {0, 1} THEN 1 ELSE 0]
SharedSign == [r \in 0 .. 3 |-> IF r \in {0, 1, 2} THEN 1 ELSE 0]

OneVcpu  == {0}
TwoVcpus == {0, 1}
=============================================================================
