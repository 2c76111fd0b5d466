------------------------------ MODULE Records -------------------------------
(***************************************************************************)
(* What the daemon keeps besides the parts of its machines: its options    *)
(* and the status log of a machine.  A restart loses the options and has   *)
(* the log of the last snapshot.                                           *)
(***************************************************************************)
EXTENDS StatusLog, Options

vars == <<logVars, optVars>>

Init == LogInit /\ OptInit

Restart == RestoreStatus /\ RestartDaemon

Next ==
  \/ (LogStatus \/ SaveStatus) /\ UNCHANGED optVars
  \/ (OtherRequest \/ \E c \in Commands : ParseArg(c) \/ SendOpts(c) \/ SendFails(c))
     /\ UNCHANGED logVars
  \/ Restart

Spec == Init /\ [][Next]_vars

\* The type of every variable; the ring never has more than maxLogs entries.
TypeOK ==
  /\ OptTypeOK
  /\ made \in 0 .. MaxEntries
  /\ \A s \in {status, saved} :
       /\ Len(s.log) <= maxLogs /\ s.index \in 0 .. maxLogs - 1
       /\ s.all \in Seq(1 .. MaxEntries)

\* What the daemon shows of its records is what was put in: the log with its newest
\* entries, the options with the values asked for (machine.go:96-116,
\* main.go:190-209).
RecordsInv == TypeOK /\ DumpsNewest /\ CommandTakesEffect

=============================================================================
