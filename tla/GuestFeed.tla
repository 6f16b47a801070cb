----------------------------- MODULE GuestFeed -----------------------------
(***************************************************************************)
(* How the guest's own ps gets to the check for hidden processes:          *)
(* state_client.py in the guest sends a report about once a second, a      *)
(* handler of sock_server.py writes it to the file .ps, and every turn of  *)
(* exdamain of external_data.py walks the kernel's list of processes,      *)
(* reads the file about a second later and compares them (getOutPsNum).    *)
(*                                                                         *)
(* A report is a sequence of lines, a pid each (the header is left out).   *)
(* Its last line is a stamp, the one before is that of the ps that made    *)
(* it.  Time is counted in reports.  Lines are of one length, and Cut of   *)
(* them fill the first block of the file.  Each line has the number of its *)
(* report, which the program knows only of a stamp.                        *)
(***************************************************************************)
EXTENDS Integers, FiniteSets, SequencesExt

CONSTANTS
  Pid,          \* processes other than ps
  Cut,          \* lines in a block, the unit in which the C library writes
  Lag,          \* getOutPsNum's 2 seconds, in reports
  MaxReports, MaxConns, MaxChanges, MaxFaults  \* bounds

FeedAssumption ==
  /\ Pid \subseteq 1 .. 99 /\ Cut \in Nat \ {0}
  /\ MaxConns \in Nat \ {0} /\ {Lag, MaxReports, MaxChanges, MaxFaults} \subseteq Nat

VARIABLES
  alive,        \* processes
  unlisted,     \* those ps does not list
  changed, changes,  \* the report before the last start, exit or hiding; how many there were
  clock,        \* reports made
  conn,         \* the guest's present connection
  chan,         \* what is on its way
  buf,          \* of each connection's handler: what its file object holds back
  step,         \* where the present handler is
  file,         \* .ps
  faults,
  pc, psoutlist, psouttime, hidelist,  \* exdamain
  warned,       \* pids warned of in the last good turn
  seen          \* the oldest reports the files of the last two in a row had lines of

guest == <<alive, unlisted, changed, changes>>
disk == <<buf, step, file>>
host == <<pc, psoutlist, psouttime, hidelist, warned, seen>>
vars == <<guest, clock, conn, chan, disk, faults, host>>

Conn == 1 .. MaxConns
Never == MaxReports + 1

Line(p, n) == [pid |-> p, of |-> n]
Clock == -1          \* what a stamp has in the place of the pid
Stamp(n) == Line(Clock, n)
PsPid(n) == 100 + n
Hole == Line(0, Never)   \* what is left before a write that starts in the middle
Below(p, S) == {q \in S : q < p}
Ascending(S) ==
  [k \in 1 .. Cardinality(S) |-> CHOOSE p \in S : Cardinality(Below(p, S)) = k - 1]

Init ==
  /\ alive \in SUBSET Pid /\ unlisted = {} /\ changed = -Lag - 1 /\ changes = 0
  /\ clock = 0 /\ conn = 1 /\ chan = <<>>
  /\ buf = [c \in Conn |-> <<>>] /\ step = "discard" /\ file = <<>> /\ faults = 0
  /\ pc = "walk" /\ psoutlist = <<>> /\ psouttime = 0 /\ hidelist = {}
  /\ warned = {} /\ seen = <<Never, Never>>

(***************************************************************************)
(* The guest.                                                              *)
(***************************************************************************)
Change(p) ==
  /\ changes < MaxChanges /\ changes' = changes + 1 /\ changed' = clock
  /\ \/ alive' = (alive \ {p}) \union ({p} \ alive) /\ UNCHANGED unlisted
     \/ p \notin unlisted /\ unlisted' = unlisted \union {p} /\ UNCHANGED alive
  /\ UNCHANGED <<clock, conn, chan, disk, faults, host>>

\* In the order of the pids, of which ps has the last.
Lines(n) ==
  LET pids == Append(Ascending(alive \ unlisted), PsPid(n))
  IN  [k \in 1 .. Len(pids) |-> Line(pids[k], n)]

\* The report is one send, a recv may give half of it, or have the lsmod that
\* follows at its end: the last line is then no stamp.
Report ==
  /\ clock < MaxReports /\ clock' = clock + 1 /\ chan = <<>>
  /\ \/ chan' = Append(Lines(clock'), Stamp(clock')) /\ UNCHANGED faults
     \/ faults < MaxFaults /\ faults' = faults + 1 /\ chan' = Lines(clock')
  /\ UNCHANGED <<guest, conn, disk, host>>

\* The guest lost the connection and has another one.  The handler of the old
\* one may not know for a while.
Reconnect ==
  /\ conn < MaxConns /\ conn' = conn + 1
  /\ chan' = <<>> /\ step = "recv" /\ step' = "discard"
  /\ UNCHANGED <<guest, clock, buf, file, faults, host>>

(***************************************************************************)
(* MyHandler.handle.                                                       *)
(***************************************************************************)
\* The first two recv are not looked at.
Discard ==
  /\ step = "discard" /\ chan # <<>> /\ step' = "recv" /\ chan' = <<>>
  /\ UNCHANGED <<guest, clock, conn, buf, file, faults, host>>

\* A recv that gives the dstat line as well takes the report for dstat.
Recv ==
  /\ step = "recv" /\ chan # <<>>
  /\ \/ step' = "open" /\ file' = <<>> /\ UNCHANGED <<chan, faults>>
     \/ chan' = <<>> /\ faults < MaxFaults /\ faults' = faults + 1 /\ UNCHANGED <<step, file>>
  /\ UNCHANGED <<guest, clock, conn, buf, host>>

Big(lines) == Len(lines) > Cut

\* What a file object held back is written where it belongs, over what is there.
HeldBack(held) == {k \in 1 .. Len(held) : Big(held) => k > Cut}
Flushed(held, f) ==
  [k \in 1 .. Max({Len(held), Len(f)}) |->
     IF k \in HeldBack(held) THEN held[k] ELSE IF k \in DOMAIN f THEN f[k] ELSE Hole]

\* Nobody closes the file: when the next open has its name, the object of the
\* report before is dropped and flushed, over the file that was just emptied.
Rebind ==
  /\ step = "open" /\ step' = "write"
  /\ file' = Flushed(buf[conn], file) /\ buf' = [buf EXCEPT ![conn] = <<>>]
  /\ UNCHANGED <<guest, clock, conn, chan, faults, host>>

\* Full blocks are written, the rest is held back.
writelines ==
  /\ step = "write" /\ step' = "recv" /\ chan' = <<>>
  /\ buf' = [buf EXCEPT ![conn] = chan]
  /\ file' = IF Big(chan) THEN SubSeq(chan, 1, Cut) \o SubSeq(file, Cut + 1, Len(file)) ELSE file
  /\ UNCHANGED <<guest, clock, conn, faults, host>>

\* The handler of a connection that is gone ends, and its file object with it.
HandlerEnds(c) ==
  /\ c < conn /\ buf[c] # <<>>
  /\ file' = Flushed(buf[c], file) /\ buf' = [buf EXCEPT ![c] = <<>>]
  /\ UNCHANGED <<guest, clock, conn, chan, step, faults, host>>

handle == Discard \/ Recv \/ Rebind \/ writelines \/ \E c \in Conn : HandlerEnds(c)

(***************************************************************************)
(* exdamain and getOutPsNum.                                               *)
(***************************************************************************)
\* The walk may meet the ps that makes the next report, and ends with pid 0.
Walk ==
  /\ pc # "check" /\ pc' = "check" /\ psouttime' = clock
  /\ \E ps \in {<<>>, <<PsPid(clock + 1)>>} : psoutlist' = Ascending(alive) \o ps \o <<0>>
  /\ UNCHANGED <<hidelist, warned, seen, guest, clock, conn, chan, disk, faults>>

Magnitude(n) == IF n < 0 THEN -n ELSE n

\* Mutant of Good: a stamp is enough.
Stamped(f) == Last(f).pid = Clock /\ f[1] # Hole

Good(f) ==
  /\ Last(f).pid = Clock /\ Magnitude(psouttime - Last(f).of) <= Lag
  /\ f[1] # Hole

\* The merge: a line moves b to its pid, or to the end.
Until(k, pid) ==
  IF pid = Clock \/ k > Len(psoutlist) THEN k
  ELSE Min({j \in k .. Len(psoutlist) : psoutlist[j] = pid} \union {Len(psoutlist) + 1})

\* Where b is after so many lines.
Places(lines) ==
  LET b[n \in 0 .. Len(lines)] == IF n = 0 THEN 1 ELSE Until(b[n - 1], lines[n].pid) + 1
  IN  b

\* What b passes over.
Missed(lines) ==
  LET b == Places(lines)
  IN  {psoutlist[j] : j \in UNION {b[n - 1] .. b[n] - 2 : n \in 1 .. Len(lines)}}

\* Processes of these names are never missed, whatever their pid.
PsOrLsmod == {0} \union {PsPid(n) : n \in 1 .. MaxReports + 1}

Oldest(f) == Min({f[k].of : k \in DOMAIN f})

\* Mutant of getOutPsNum: what has been warned of is not missed any more.
ForgetWarned ==
  /\ pc = "check" /\ pc' = "walk"
  /\ IF file # <<>> /\ Good(file)
     THEN /\ warned' = (Missed(file) \ PsOrLsmod) \intersect hidelist
          /\ hidelist' = Missed(file) \ (PsOrLsmod \union hidelist)
          /\ seen' = <<seen[2], Oldest(file)>>
     ELSE UNCHANGED <<hidelist, warned, seen>>
  /\ UNCHANGED <<psoutlist, psouttime, guest, clock, conn, chan, disk, faults>>

\* With an empty file an IndexError starts the turn again; any other file that
\* is not good empties hidelist.
getOutPsNum ==
  /\ pc = "check" /\ pc' = IF file = <<>> THEN "again" ELSE "walk"
  /\ CASE file = <<>> -> UNCHANGED <<hidelist, warned, seen>>
       [] file # <<>> /\ Good(file) ->
            /\ hidelist' = Missed(file) \ PsOrLsmod
            /\ warned' = hidelist' \intersect hidelist
            /\ seen' = <<seen[2], Oldest(file)>>
       [] OTHER -> hidelist' = {} /\ warned' = {} /\ seen' = <<Never, Never>>
  /\ UNCHANGED <<psoutlist, psouttime, guest, clock, conn, chan, disk, faults>>

Next ==
  \/ \E p \in Pid : Change(p)
  \/ Report \/ Reconnect \/ handle \/ Walk \/ getOutPsNum

Spec == Init /\ [][Next]_vars

-----------------------------------------------------------------------------
\* A process ps does list is warned of only when some process started, ended or
\* was hidden since the walk, or since the oldest report of which the file had a
\* line: torn, mixed and half written files do not do it.  As long as no connection
\* was lost, whose handler may write what it held back at any time, that is no
\* longer ago than Lag.
NoFalseAlarm ==
  pc = "walk" =>
    \/ warned \subseteq unlisted
    \/ changed >= Min({seen[2], psouttime}) /\ (conn = 1 => changed + Lag >= psouttime)

\* A process that ps does not list is warned of at the second good comparison in
\* a row, when nothing else changed meanwhile, whatever its pid and whichever
\* reports the file is made of.
HiddenIsWarned ==
  pc = "walk" /\ seen[1] # Never /\ changed + Lag < Min({seen[1], seen[2]}) =>
    unlisted \intersect ToSet(psoutlist) \subseteq warned
=============================================================================
