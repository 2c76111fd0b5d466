----------------------------- MODULE StatusLog ------------------------------
(***************************************************************************)
(* The status log of a machine (pkg/machine/machine.go): a ring of the     *)
(* last maxLogs statuses, the copy of it that a snapshot keeps, and the    *)
(* restart that begins with that copy.  Entries are made, read and copied  *)
(* under indexMU.  The entries are numbered in the order they are made.    *)
(***************************************************************************)
EXTENDS Integers, Sequences, FiniteSets

CONSTANTS maxLogs,   \* 4 in the code
          MaxEntries \* bound: entries made

ASSUME LogAssumption == maxLogs \in Nat \ {0} /\ MaxEntries \in Nat

VARIABLES made,   \* how many entries have been made (history)
          status, \* MachineStatus: Log, Index; and all entries made for it (history)
          saved   \* the status in the snapshot

logVars == <<made, status, saved>>

NewStatus == [log |-> <<>>, index |-> 0, all |-> <<>>]

LogInit == made = 0 /\ status = NewStatus /\ saved = NewStatus

-----------------------------------------------------------------------------
lastIndex(s) == IF s.index - 1 < 0 THEN maxLogs - 1 ELSE s.index - 1

\* Mutant of incIdx: off by one at the end of the ring.
incIdxLate(s) == IF s.index + 1 > maxLogs THEN 0 ELSE s.index + 1

\* What getAndIncIdx leaves in Index.
incIdx(s) == IF s.index + 1 >= maxLogs THEN 0 ELSE s.index + 1

addStatusLog(s, entry) ==
  [log   |-> IF Len(s.log) < maxLogs THEN Append(s.log, entry)
             ELSE [s.log EXCEPT ![s.index + 1] = entry],
   index |-> incIdx(s),
   all   |-> Append(s.all, entry)]

\* The index that the loop of DumpLog has in its k-th turn, counted from 0.
Turn(s, k) == IF lastIndex(s) - k < 0 THEN lastIndex(s) - k + maxLogs
              ELSE lastIndex(s) - k

\* Mutant of Turns: the loop ends before it looks at Index.
TurnsWithoutIndex(s) == CHOOSE k \in 0 .. maxLogs : Turn(s, k) = s.index

\* How many turns it takes: the last is the one at Index.
Turns(s) == 1 + CHOOSE k \in 0 .. maxLogs - 1 : Turn(s, k) = s.index

\* The turns that find an entry, and the n-th of them.
Hits(s) == {k \in 0 .. Turns(s) - 1 : Turn(s, k) < Len(s.log)}
Nth(turns, n) == CHOOSE k \in turns : Cardinality({j \in turns : j < k}) = n - 1

DumpLog(s) ==
  [n \in 1 .. Cardinality(Hits(s)) |-> s.log[Turn(s, Nth(Hits(s), n)) + 1]]

\* String of the machine's status: the entry whose code it shows, 0 for OK.
StatusShown(s) == IF s.log = <<>> THEN 0 ELSE s.log[lastIndex(s) + 1]

-----------------------------------------------------------------------------
LogStatus ==
  /\ made < MaxEntries /\ made' = made + 1
  /\ status' = addStatusLog(status, made + 1) /\ UNCHANGED saved

\* The part of Snapshot, and of the restart from it, that is about the log.
SaveStatus == saved' = status /\ UNCHANGED <<made, status>>
RestoreStatus == status' = saved /\ UNCHANGED <<made, saved>>

LogNext == LogStatus \/ SaveStatus \/ RestoreStatus
LogSpec == LogInit /\ [][LogNext]_logVars

-----------------------------------------------------------------------------
\* The newest entries, newest first, as many as the ring holds.
Newest(s) ==
  [k \in 1 .. (IF Len(s.all) < maxLogs THEN Len(s.all) ELSE maxLogs)
     |-> s.all[Len(s.all) + 1 - k]]

\* DumpLog shows the newest entries, each once and newest first, across the end of
\* the ring and across restarts (machine.go:96-116).
DumpsNewest == DumpLog(status) = Newest(status)

\* The k-th newest entry, counted from 0, is where the index says, and the status
\* shown is that of the newest one (machine.go:58-94).
Position(s, k) == IF s.index - 1 - k < 0 THEN s.index - 1 - k + maxLogs
                  ELSE s.index - 1 - k
RingOK(s) ==
  /\ Len(s.log) = IF Len(s.all) < maxLogs THEN Len(s.all) ELSE maxLogs
  /\ s.index \in 0 .. maxLogs - 1 /\ (Len(s.log) < maxLogs => s.index = Len(s.log))
  /\ \A k \in 0 .. Len(s.log) - 1 : s.log[Position(s, k) + 1] = s.all[Len(s.all) - k]
RingHoldsNewest == RingOK(status)

=============================================================================
