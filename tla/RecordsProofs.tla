--------------------------- MODULE RecordsProofs ----------------------------
(***************************************************************************)
(* For every size of the ring: the status log holds the newest entries,    *)
(* each where the index says, across the end of the ring and across        *)
(* restarts, and the dump lists them.  The invariant is about the log in   *)
(* the snapshot as well, for a restart goes on with that one.              *)
(* For every set of options, commands and requests of others: a command    *)
(* takes effect, and the options implement Settings.                       *)
(***************************************************************************)
EXTENDS Records, DataLemmas, FiniteSetTheorems

StatusType == [log : Seq(Nat), index : 0 .. maxLogs - 1, all : Seq(Nat)]

Sound(s) == s \in StatusType /\ RingOK(s)

LogInv == made \in Nat /\ Sound(status) /\ Sound(saved)

\* Counting back from an index that has moved on by one, in a ring of size m.
LEMMA OneTurnOlder ==
  ASSUME NEW m \in Nat \ {0}, NEW i \in 0 .. m - 1, NEW k \in 1 .. m - 1,
         NEW j \in 0 .. m - 1, j = IF i + 1 >= m THEN 0 ELSE i + 1,
         NEW p, p = IF i - 1 - (k - 1) < 0 THEN i - 1 - (k - 1) + m ELSE i - 1 - (k - 1)
  PROVE  /\ p = IF j - 1 - k < 0 THEN j - 1 - k + m ELSE j - 1 - k
         /\ p \in 0 .. m - 1 /\ p # i
<1>1. CASE i + 1 >= m
  BY <1>1
<1>2. CASE i + 1 < m
  BY <1>2
<1> QED BY <1>1, <1>2

\* Adding an entry keeps the ring: the new entry is the newest, and every other one
\* that is kept is one turn older (addStatusLog, getAndIncIdx).
LEMMA AddKeepsRing ==
  ASSUME NEW s, Sound(s), NEW entry \in Nat
  PROVE  Sound(addStatusLog(s, entry))
<1> DEFINE t == addStatusLog(s, entry)
           full == Len(s.log) = maxLogs
<1>1. /\ maxLogs \in Nat \ {0} /\ s.log \in Seq(Nat) /\ s.all \in Seq(Nat)
      /\ s.index \in 0 .. maxLogs - 1 /\ Len(s.log) \in Nat /\ Len(s.all) \in Nat
      /\ Len(s.log) <= maxLogs
  BY LogAssumption DEF Sound, StatusType, RingOK
<1>2. /\ t.all = Append(s.all, entry) /\ t.all \in Seq(Nat)
      /\ Len(t.all) = Len(s.all) + 1 /\ t.index = incIdx(s)
      /\ t.index \in 0 .. maxLogs - 1
  BY <1>1 DEF addStatusLog, incIdx
<1>3. \A k \in 1 .. Len(s.all) : t.all[k] = s.all[k]
  BY <1>1, <1>2
<1>4. t.all[Len(t.all)] = entry
  BY <1>1, <1>2
<1>5. \A k \in 0 .. Len(s.log) - 1 : s.log[Position(s, k) + 1] = s.all[Len(s.all) - k]
  BY DEF Sound, RingOK
<1>6. /\ Len(s.log) = IF Len(s.all) < maxLogs THEN Len(s.all) ELSE maxLogs
      /\ Len(s.log) < maxLogs => s.index = Len(s.log)
  BY DEF Sound, RingOK
<1>7. CASE ~full
  <2>1. /\ t.log = Append(s.log, entry) /\ t.log \in Seq(Nat)
        /\ Len(t.log) = Len(s.log) + 1 /\ s.index = Len(s.log)
        /\ Len(s.log) = Len(s.all)
    BY <1>1, <1>6, <1>7 DEF addStatusLog
  <2>2. ASSUME NEW k \in 0 .. Len(t.log) - 1
        PROVE  t.log[Position(t, k) + 1] = t.all[Len(t.all) - k]
    <3>1. Position(t, k) = Len(s.log) - k
      BY <1>1, <1>2, <1>7, <2>1 DEF incIdx, Position
    <3>2. CASE k = 0
      BY <1>1, <1>2, <1>4, <2>1, <3>1, <3>2
    <3>3. CASE k # 0
      <4>1. k - 1 \in 0 .. Len(s.log) - 1 /\ Position(s, k - 1) = Len(s.log) - k
        BY <1>1, <2>1, <3>3 DEF Position
      <4>2. s.log[Len(s.log) - k + 1] = s.all[Len(s.all) - (k - 1)]
        BY <1>5, <4>1
      <4> QED BY <1>1, <1>2, <1>3, <2>1, <3>1, <3>3, <4>2
    <3> QED BY <3>2, <3>3
  <2>3. Len(t.log) = IF Len(t.all) < maxLogs THEN Len(t.all) ELSE maxLogs
    BY <1>1, <1>2, <1>7, <2>1
  <2>4. Len(t.log) < maxLogs => t.index = Len(t.log)
    BY <1>1, <1>2, <2>1 DEF incIdx
  <2> QED BY <1>2, <2>1, <2>2, <2>3, <2>4 DEF Sound, StatusType, RingOK, addStatusLog
<1>8. CASE full
  <2>1. /\ t.log = [s.log EXCEPT ![s.index + 1] = entry]
        /\ t.log \in Seq(Nat) /\ Len(t.log) = maxLogs
    BY <1>1, <1>8 DEF addStatusLog
  <2>2. t.log[s.index + 1] = entry
    BY <1>1, <1>8, <2>1
  <2>3. \A i \in 1 .. maxLogs : i # s.index + 1 => t.log[i] = s.log[i]
    BY <1>1, <1>8, <2>1
  <2>6. t \in StatusType
    BY <1>2, <2>1 DEF StatusType, addStatusLog
  <2> HIDE DEF t
  <2>4. ASSUME NEW k \in 0 .. Len(t.log) - 1
        PROVE  t.log[Position(t, k) + 1] = t.all[Len(t.all) - k]
    <3> DEFINE i == s.index
               j == t.index
    <3>0. /\ i \in 0 .. maxLogs - 1 /\ j \in 0 .. maxLogs - 1
          /\ j = IF i + 1 >= maxLogs THEN 0 ELSE i + 1
          /\ k \in 0 .. maxLogs - 1
          /\ Position(t, k) = IF j - 1 - k < 0 THEN j - 1 - k + maxLogs ELSE j - 1 - k
      BY <1>1, <1>2, <2>1 DEF incIdx, Position
    <3>1. CASE k = 0
      <4>1. Position(t, k) = i
        <5> HIDE DEF i, j
        <5> QED BY <1>1, <3>0, <3>1
      <4> QED BY <1>1, <1>2, <1>4, <2>2, <3>1, <4>1
    <3>2. CASE k # 0
      <4> DEFINE p == Position(s, k - 1)
      <4>0. k \in 1 .. maxLogs - 1 /\ k - 1 \in 0 .. Len(s.log) - 1
        BY <1>1, <1>8, <3>0, <3>2
      <4>1. Position(t, k) = p /\ p \in 0 .. maxLogs - 1 /\ p # i
        <5>1. p = IF i - 1 - (k - 1) < 0 THEN i - 1 - (k - 1) + maxLogs
                  ELSE i - 1 - (k - 1)
          BY DEF Position
        <5> HIDE DEF i, j, p
        <5> QED BY <1>1, <3>0, <4>0, <5>1, OneTurnOlder
      <4>2. s.log[p + 1] = s.all[Len(s.all) - (k - 1)]
        BY <1>5, <4>0
      <4>3. Len(s.all) >= maxLogs /\ Len(s.all) - (k - 1) \in 1 .. Len(s.all)
        BY <1>1, <1>6, <1>8, <4>0
      <4>4. t.log[p + 1] = s.log[p + 1]
        <5> HIDE DEF p
        <5>1. p + 1 \in 1 .. maxLogs /\ p + 1 # i + 1
          BY <1>1, <4>1
        <5> QED BY <2>3, <5>1
      <4>5. t.all[Len(s.all) - (k - 1)] = s.all[Len(s.all) - (k - 1)]
        BY <1>3, <4>3
      <4>6. Len(t.all) - k = Len(s.all) - (k - 1)
        BY <1>1, <1>2, <4>0
      <4> QED BY <4>1, <4>2, <4>4, <4>5, <4>6
    <3> QED BY <3>1, <3>2
  <2>5. Len(t.log) = IF Len(t.all) < maxLogs THEN Len(t.all) ELSE maxLogs
    BY <1>1, <1>2, <1>6, <1>8, <2>1
  <2>7. t.index \in 0 .. maxLogs - 1 /\ (Len(t.log) < maxLogs => t.index = Len(t.log))
    BY <1>1, <1>2, <2>1
  <2>8. \A k \in 0 .. Len(t.log) - 1 :
            t.log[Position(t, k) + 1] = t.all[Len(t.all) - k]
    BY <2>4
  <2>9. RingOK(t)
    BY <2>5, <2>7, <2>8, Zenon DEF RingOK
  <2>10. Sound(t)
    BY <2>6, <2>9 DEF Sound
  <2> QED BY <2>10 DEF t
<1> QED BY <1>1, <1>7, <1>8

\* Every step of the daemon keeps both logs sound.
LEMMA StepKeepsRing == LogInv /\ [Next]_vars => LogInv'
<1> SUFFICES ASSUME LogInv, [Next]_vars PROVE LogInv'
  OBVIOUS
<1>1. CASE LogStatus
  <2>1. made' \in Nat /\ status' = addStatusLog(status, made + 1) /\ saved' = saved
    BY <1>1 DEF LogStatus, LogInv
  <2>2. Sound(addStatusLog(status, made + 1))
    BY AddKeepsRing DEF LogInv
  <2> QED BY <2>1, <2>2 DEF LogInv
<1>2. CASE SaveStatus
  BY <1>2 DEF SaveStatus, LogInv
<1>3. CASE Restart
  BY <1>3 DEF Restart, RestoreStatus, LogInv
<1>4. CASE UNCHANGED logVars
  BY <1>4 DEF logVars, LogInv
<1> QED BY <1>1, <1>2, <1>3, <1>4 DEF Next, vars

\* In every run of the daemon, for every maxLogs, the ring holds the newest entries
\* where the index says (machine.go:58-94, restore.go).
THEOREM RingAlwaysHoldsNewest == Spec => []RingHoldsNewest
<1>1. Init => LogInv
  BY LogAssumption DEF Init, LogInit, LogInv, NewStatus, Sound, StatusType, RingOK
<1>2. LogInv => RingHoldsNewest
  BY DEF LogInv, Sound, RingHoldsNewest
<1> QED BY <1>1, <1>2, StepKeepsRing, PTL DEF Spec

-----------------------------------------------------------------------------
(* What the dump shows.                                                      *)

\* The loop of DumpLog goes once round the ring, and finds an entry just in its first
\* turns: in a ring that is not full yet the turns before Index are the last.
LEMMA TurnsOfLoop ==
  ASSUME NEW s, Sound(s)
  PROVE  /\ Turns(s) = maxLogs /\ Hits(s) = 0 .. Len(s.log) - 1
         /\ \A k \in 0 .. maxLogs - 1 : Turn(s, k) = Position(s, k)
<1> DEFINE n == Len(s.log)
           i == s.index
<1>1. /\ maxLogs \in Nat \ {0} /\ n \in Nat /\ n <= maxLogs /\ i \in 0 .. maxLogs - 1
      /\ n < maxLogs => i = n
  BY LogAssumption DEF Sound, StatusType, RingOK
<1>2. \A k \in 0 .. maxLogs - 1 :
        Position(s, k) = IF i - 1 - k < 0 THEN i - 1 - k + maxLogs ELSE i - 1 - k
  BY DEF Position
<1>3. lastIndex(s) = IF i - 1 < 0 THEN maxLogs - 1 ELSE i - 1
  BY DEF lastIndex
<1>4. \A k \in 0 .. maxLogs - 1 :
        Turn(s, k) = IF lastIndex(s) - k < 0 THEN lastIndex(s) - k + maxLogs
                     ELSE lastIndex(s) - k
  BY DEF Turn
<1> HIDE DEF n, i
<1>5. \A k \in 0 .. maxLogs - 1 : Turn(s, k) = Position(s, k)
  BY <1>1, <1>2, <1>3, <1>4
<1>6. \A k \in 0 .. maxLogs - 1 : Turn(s, k) = i <=> k = maxLogs - 1
  BY <1>1, <1>2, <1>5
<1>7. Turns(s) = maxLogs
  <2>1. \A k \in 0 .. maxLogs - 1 : Turn(s, k) = s.index <=> k = maxLogs - 1
    BY <1>6 DEF i
  <2>2. maxLogs - 1 \in 0 .. maxLogs - 1
    BY <1>1
  <2> DEFINE last == CHOOSE k \in 0 .. maxLogs - 1 : Turn(s, k) = s.index
  <2>3. last = maxLogs - 1
    BY <2>1, <2>2
  <2>4. Turns(s) = 1 + last
    BY DEF Turns
  <2> HIDE DEF last
  <2> QED BY <1>1, <2>3, <2>4
<1>8. \A k \in 0 .. maxLogs - 1 : Turn(s, k) < n <=> k < n
  BY <1>1, <1>2, <1>5
<1>9. Hits(s) = {k \in 0 .. maxLogs - 1 : Turn(s, k) < n}
  BY <1>7 DEF Hits, n
<1>10. Hits(s) = 0 .. n - 1
  BY <1>1, <1>8, <1>9
<1> QED BY <1>5, <1>7, <1>10 DEF n

\* The n-th of the first numbers.
LEMMA NthOfFirst ==
  ASSUME NEW m \in Nat
  PROVE  Cardinality(0 .. m - 1) = m /\ \A n \in 1 .. m : Nth(0 .. m - 1, n) = n - 1
<1>1. \A k \in Nat : IsFiniteSet(0 .. k - 1) /\ Cardinality(0 .. k - 1) = k
  <2> SUFFICES ASSUME NEW k \in Nat
               PROVE  IsFiniteSet(0 .. k - 1) /\ Cardinality(0 .. k - 1) = k
    OBVIOUS
  <2> DEFINE a == 0
             b == k - 1
  <2>1. a \in Int /\ b \in Int /\ (IF a > b THEN 0 ELSE b - a + 1) = k
    OBVIOUS
  <2> HIDE DEF a, b
  <2>2. IsFiniteSet(a .. b) /\ Cardinality(a .. b) = IF a > b THEN 0 ELSE b - a + 1
    BY <2>1, FS_Interval
  <2> QED BY <2>1, <2>2 DEF a, b
<1>2. ASSUME NEW n \in 1 .. m PROVE Nth(0 .. m - 1, n) = n - 1
  <2> DEFINE T == 0 .. m - 1
  <2>1. \A k \in T : {j \in T : j < k} = 0 .. k - 1 /\ k \in Nat
    OBVIOUS
  <2>2. \A k \in T : Cardinality({j \in T : j < k}) = k
    BY <1>1, <2>1
  <2>3. n - 1 \in T
    OBVIOUS
  <2> HIDE DEF T
  <2>4. (CHOOSE k \in T : Cardinality({j \in T : j < k}) = n - 1) = n - 1
    BY <2>2, <2>3
  <2> QED BY <2>4 DEF Nth, T
<1> QED BY <1>1, <1>2

\* The loop lists the newest entries, each once and newest first.
LEMMA SoundDump ==
  ASSUME NEW s, Sound(s)
  PROVE  DumpLog(s) = Newest(s)
<1> DEFINE m == Len(s.log)
<1>1. /\ m \in Nat /\ m <= maxLogs /\ maxLogs \in Nat /\ Len(s.all) \in Nat
      /\ m = IF Len(s.all) < maxLogs THEN Len(s.all) ELSE maxLogs
  BY LogAssumption DEF Sound, StatusType, RingOK
<1>2. \A k \in 0 .. m - 1 : s.log[Position(s, k) + 1] = s.all[Len(s.all) - k]
  BY DEF Sound, RingOK
<1>3. Hits(s) = 0 .. m - 1 /\ \A k \in 0 .. maxLogs - 1 : Turn(s, k) = Position(s, k)
  BY TurnsOfLoop
<1> HIDE DEF m
<1>4. Cardinality(Hits(s)) = m /\ \A n \in 1 .. m : Nth(Hits(s), n) = n - 1
  BY <1>1, <1>3, NthOfFirst
<1>5. ASSUME NEW n \in 1 .. m
      PROVE  s.log[Turn(s, Nth(Hits(s), n)) + 1] = s.all[Len(s.all) + 1 - n]
  <2>1. n - 1 \in 0 .. m - 1 /\ n - 1 \in 0 .. maxLogs - 1
    BY <1>1
  <2>2. Len(s.all) - (n - 1) = Len(s.all) + 1 - n
    BY <1>1
  <2>3. s.log[Position(s, n - 1) + 1] = s.all[Len(s.all) + 1 - n]
    BY <1>2, <2>1, <2>2
  <2>4. Turn(s, Nth(Hits(s), n)) = Position(s, n - 1)
    BY <1>3, <1>4, <2>1
  <2> QED BY <2>3, <2>4
<1>6. DumpLog(s) = [n \in 1 .. m |-> s.log[Turn(s, Nth(Hits(s), n)) + 1]]
  BY <1>4 DEF DumpLog
<1>7. Newest(s) = [n \in 1 .. m |-> s.all[Len(s.all) + 1 - n]]
  BY <1>1 DEF Newest
<1> QED BY <1>5, <1>6, <1>7

-----------------------------------------------------------------------------
(* The options.                                                              *)

\* option.OptionMap: values for some of the keys.
OptionMaps == UNION {[K -> BOOLEAN] : K \in SUBSET Keys}
ArgType == [key : Keys, value : BOOLEAN \cup {None}]
CliType == [pc : {"parse", "send", "done", "failed"}, parsed : Nat, dOpts : OptionMaps]

\* A command has collected what the arguments it has parsed give.
CliKept ==
  /\ cli \in [Commands -> CliType]
  /\ \A c \in Commands :
       /\ cli[c].parsed <= Len(ArgsOf[c])
       /\ cli[c].dOpts = GivenBy(FirstArgs(c, cli[c].parsed))
       /\ \A i \in 1 .. cli[c].parsed : Parses(ArgsOf[c][i])
       /\ cli[c].pc = "send" => cli[c].parsed >= 1
       /\ cli[c].pc = "done" => cli[c].parsed = Len(ArgsOf[c])

\* The value of an option that a single command names: off until the command comes to
\* it, and what the command gives it once the request was carried out.
NotYetSet ==
  \A c \in Commands : \A name \in Own(c) :
    name \notin DOMAIN cli[c].dOpts => ~IsEnabled(opts, name)
EffectKept ==
  boots = 0 =>
    \A c \in Commands : cli[c].pc \in {"parse", "done"} =>
      \A name \in Own(c) \cap DOMAIN cli[c].dOpts : IsEnabled(opts, name) = cli[c].dOpts[name]

OptInv ==
  /\ opts \in OptionMaps /\ requests \in 0 .. MaxRequests /\ boots \in 0 .. 1
  /\ CliKept /\ NotYetSet /\ EffectKept

\* The entries are numbers of entries made.
Numbered == made \in 0 .. MaxEntries /\ \A s \in {status, saved} : s.all \in Seq(1 .. MaxEntries)

RecordsIInv == LogInv /\ Numbered /\ OptInv

\* A request sets what it names and leaves the rest.
LEMMA ApplyEffect ==
  ASSUME NEW o \in OptionMaps, NEW n \in OptionMaps
  PROVE  /\ Apply(o, n) \in OptionMaps
         /\ \A k \in DOMAIN n : IsEnabled(Apply(o, n), k) = n[k]
         /\ \A k : k \notin DOMAIN n => IsEnabled(Apply(o, n), k) = IsEnabled(o, k)
<1> DEFINE changed == {k \in DOMAIN n : n[k] # IsEnabled(o, k)}
           r == [k \in changed \cup DOMAIN o |-> IF k \in changed THEN n[k] ELSE o[k]]
<1>1. Apply(o, n) = r
  BY DEF Apply
<1>2. /\ o \in [DOMAIN o -> BOOLEAN] /\ DOMAIN o \subseteq Keys
      /\ n \in [DOMAIN n -> BOOLEAN] /\ DOMAIN n \subseteq Keys
  BY DEF OptionMaps
<1>3. changed \subseteq DOMAIN n
  OBVIOUS
<1>4. r \in [changed \cup DOMAIN o -> BOOLEAN]
  <2> HIDE DEF changed
  <2> QED BY <1>2, <1>3
<1>5. DOMAIN r = changed \cup DOMAIN o
  BY <1>4
<1>6. r \in OptionMaps
  <2>1. changed \cup DOMAIN o \in SUBSET Keys
    BY <1>2, <1>3
  <2> HIDE DEF r, changed
  <2> QED BY <1>4, <2>1 DEF OptionMaps
<1>7. ASSUME NEW k \in DOMAIN n PROVE IsEnabled(r, k) = n[k]
  <2>1. n[k] \in BOOLEAN
    BY <1>2
  <2>2. CASE k \in changed
    <3>1. k \in DOMAIN r /\ r[k] = n[k]
      BY <1>5, <2>2
    <3> HIDE DEF r
    <3> QED BY <2>1, <3>1 DEF IsEnabled
  <2>3. CASE k \notin changed
    <3>1. n[k] = IsEnabled(o, k)
      BY <2>3
    <3>2. k \in DOMAIN r <=> k \in DOMAIN o
      BY <1>5, <2>3
    <3>3. k \in DOMAIN o => r[k] = o[k]
      BY <2>3
    <3> HIDE DEF r, changed
    <3> QED BY <2>1, <3>1, <3>2, <3>3 DEF IsEnabled
  <2> QED BY <2>2, <2>3
<1>8. ASSUME NEW k, k \notin DOMAIN n PROVE IsEnabled(r, k) = IsEnabled(o, k)
  <2>1. k \notin changed
    BY <1>3, <1>8
  <2>2. k \in DOMAIN r <=> k \in DOMAIN o
    BY <1>5, <2>1
  <2>3. k \in DOMAIN o => r[k] = o[k]
    BY <2>1
  <2> HIDE DEF r, changed
  <2> QED BY <2>2, <2>3 DEF IsEnabled
<1> HIDE DEF r
<1> QED BY <1>1, <1>6, <1>7, <1>8

\* What a permitted request does to the options, and that any other does nothing.
LEMMA UpdateEffect ==
  ASSUME opts \in OptionMaps, NEW n \in OptionMaps, Update(n)
  PROVE  /\ opts' \in OptionMaps
         /\ Validate(n) => \A k \in DOMAIN n : IsEnabled(opts', k) = n[k]
         /\ Validate(n) => \A k : k \notin DOMAIN n => IsEnabled(opts', k) = IsEnabled(opts, k)
         /\ ~Validate(n) => opts' = opts
<1>1. opts' = IF Validate(n) THEN Apply(opts, n) ELSE opts
  BY DEF Update
<1>2. CASE Validate(n)
  <2>1. opts' = Apply(opts, n)
    BY <1>1, <1>2
  <2> QED BY <1>2, <2>1, ApplyEffect
<1>3. CASE ~Validate(n)
  BY <1>1, <1>3
<1> QED BY <1>2, <1>3

\* The last of some arguments for an option is one, and there is no other.
LastFor(args, name, i) ==
  /\ i \in DOMAIN args /\ NameOf[args[i].key] = name
  /\ \A j \in i + 1 .. Len(args) : NameOf[args[j].key] # name

LEMMA LastExists ==
  ASSUME NEW args \in Seq(ArgType), NEW name \in Names(args)
  PROVE  \E i \in DOMAIN args : LastFor(args, name, i)
<1> DEFINE N == Len(args)
           T == {N - i : i \in {i \in 1 .. N : NameOf[args[i].key] = name}}
<1>1. N \in Nat /\ DOMAIN args = 1 .. N
  OBVIOUS
<1>2. T \in SUBSET Nat /\ T # {}
  BY <1>1 DEF Names
<1>3. PICK x \in T : \A y \in T : x <= y
  <2> HIDE DEF T
  <2> QED BY <1>2, LeastNatural
<1>4. PICK i \in 1 .. N : NameOf[args[i].key] = name /\ x = N - i
  BY <1>3
<1>5. ASSUME NEW j \in i + 1 .. N PROVE NameOf[args[j].key] # name
  <2>1. SUFFICES ASSUME NameOf[args[j].key] = name PROVE FALSE
    OBVIOUS
  <2>2. N - j \in T
    BY <1>1, <2>1
  <2>3. N - i <= N - j
    BY <1>3, <1>4, <2>2
  <2> QED BY <1>1, <2>3
<1> QED BY <1>1, <1>4, <1>5 DEF LastFor

LEMMA GivenIs ==
  ASSUME NEW args \in Seq(ArgType), NEW name, NEW i, LastFor(args, name, i)
  PROVE  Given(args, name) = args[i].value
<1>1. DOMAIN args = 1 .. Len(args) /\ Len(args) \in Nat /\ i \in DOMAIN args
  BY DEF LastFor
<1>2. \A j \in DOMAIN args : LastFor(args, name, j) <=> j = i
  BY <1>1 DEF LastFor
<1> DEFINE P(j) == /\ NameOf[args[j].key] = name
                   /\ \A l \in j + 1 .. Len(args) : NameOf[args[l].key] # name
           last == CHOOSE j \in DOMAIN args : P(j)
<1>3. \A j \in DOMAIN args : P(j) <=> j = i
  BY <1>2 DEF LastFor
<1>4. last = i
  <2> HIDE DEF P
  <2> QED BY <1>1, <1>3
<1>5. Given(args, name) = args[last].value
  BY DEF Given
<1> HIDE DEF last
<1> QED BY <1>4, <1>5

\* One argument more gives its option its value.
LEMMA GivenByOneMore ==
  ASSUME NEW args \in Seq(ArgType), NEW a \in ArgType
  PROVE  GivenBy(Append(args, a)) = With(GivenBy(args), NameOf[a.key], a.value)
<1> DEFINE more == Append(args, a)
           N == Len(args)
           name == NameOf[a.key]
<1>1. /\ N \in Nat /\ DOMAIN args = 1 .. N /\ more \in Seq(ArgType)
      /\ Len(more) = N + 1 /\ DOMAIN more = 1 .. N + 1 /\ more[N + 1] = a
      /\ \A i \in 1 .. N : more[i] = args[i]
  BY AppendProperties
<1> HIDE DEF more, N
<1>2. Names(more) = Names(args) \cup {name}
  BY <1>1 DEF Names
<1>3. Given(more, name) = a.value
  <2>1. LastFor(more, name, N + 1)
    BY <1>1 DEF LastFor
  <2> QED BY <1>1, <2>1, GivenIs
<1>4. ASSUME NEW x \in Names(args), x # name PROVE Given(more, x) = Given(args, x)
  <2>1. PICK i \in DOMAIN args : LastFor(args, x, i)
    BY LastExists
  <2>2. i \in 1 .. N /\ NameOf[args[i].key] = x
        /\ \A j \in i + 1 .. N : NameOf[args[j].key] # x
    BY <1>1, <2>1 DEF LastFor, N
  <2>3. \A j \in i + 1 .. N + 1 : NameOf[more[j].key] # x
    <3> SUFFICES ASSUME NEW j \in i + 1 .. N + 1 PROVE NameOf[more[j].key] # x
      OBVIOUS
    <3>1. CASE j = N + 1
      BY <1>1, <1>4, <3>1
    <3>2. CASE j # N + 1
      <4>1. j \in i + 1 .. N /\ j \in 1 .. N
        BY <1>1, <2>2, <3>2
      <4> QED BY <1>1, <2>2, <4>1
    <3> QED BY <3>1, <3>2
  <2>4. LastFor(more, x, i)
    BY <1>1, <2>2, <2>3 DEF LastFor
  <2>5. Given(more, x) = more[i].value /\ Given(args, x) = args[i].value
    BY <1>1, <2>1, <2>4, GivenIs
  <2> QED BY <1>1, <2>2, <2>5
<1>5. GivenBy(more) = [x \in Names(args) \cup {name} |-> Given(more, x)]
  BY <1>2 DEF GivenBy
<1>6. /\ DOMAIN GivenBy(args) = Names(args)
      /\ \A x \in Names(args) : GivenBy(args)[x] = Given(args, x)
  BY DEF GivenBy
<1>7. With(GivenBy(args), name, a.value)
        = [x \in Names(args) \cup {name} |-> IF x = name THEN a.value ELSE GivenBy(args)[x]]
  BY <1>6 DEF With
<1> QED BY <1>3, <1>4, <1>5, <1>6, <1>7 DEF more

\* The first arguments of a command, one by one.
LEMMA FirstArgsAre ==
  ASSUME NEW c \in Commands, NEW n \in 0 .. Len(ArgsOf[c])
  PROVE  /\ ArgsOf[c] \in Seq(ArgType) /\ FirstArgs(c, n) \in Seq(ArgType)
         /\ Len(FirstArgs(c, n)) = n
         /\ \A i \in 1 .. n : i \in DOMAIN ArgsOf[c] /\ FirstArgs(c, n)[i] = ArgsOf[c][i]
         /\ n < Len(ArgsOf[c]) => FirstArgs(c, n + 1) = Append(FirstArgs(c, n), ArgsOf[c][n + 1])
         /\ n = Len(ArgsOf[c]) => FirstArgs(c, n) = ArgsOf[c]
<1> DEFINE a == ArgsOf[c]
           N == Len(ArgsOf[c])
<1>0. ArgsOf \in [Commands -> Seq(ArgType)]
  BY OptionAssumption DEF ArgType
<1>1. a \in Seq(ArgType) /\ N \in Nat /\ DOMAIN a = 1 .. N
  <2>1. a \in Seq(ArgType)
    BY <1>0
  <2> HIDE DEF a
  <2> QED BY <2>1 DEF a
<1> HIDE DEF a, N
<1>2. ASSUME NEW k \in 0 .. N
      PROVE  /\ SubSeq(a, 1, k) \in Seq(ArgType) /\ Len(SubSeq(a, 1, k)) = k
             /\ \A i \in 1 .. k : SubSeq(a, 1, k)[i] = a[i]
  <2>1. \A i \in 1 .. k : a[i] \in ArgType
    BY <1>1, <1>2
  <2>2. k \in Nat /\ k <= Len(a)
    BY <1>1, <1>2 DEF N, a
  <2> QED BY <1>1, <2>1, <2>2, SubSeqProperties
<1>3. N = Len(a)
  BY DEF N, a
<1>4. n \in 0 .. N /\ n \in Nat
  BY <1>1 DEF N
<1>5. \A i \in 1 .. n : i \in DOMAIN a
  BY <1>1, <1>4
<1>6. ASSUME n < N PROVE SubSeq(a, 1, n + 1) = Append(SubSeq(a, 1, n), a[n + 1])
  <2> DEFINE f == SubSeq(a, 1, n)
             g == SubSeq(a, 1, n + 1)
             h == Append(f, a[n + 1])
  <2>1. n + 1 \in 0 .. N /\ n + 1 \in 1 .. N
    BY <1>1, <1>4, <1>6
  <2>2. f \in Seq(ArgType) /\ Len(f) = n /\ \A i \in 1 .. n : f[i] = a[i]
    BY <1>2, <1>4
  <2>3. g \in Seq(ArgType) /\ Len(g) = n + 1 /\ \A i \in 1 .. n + 1 : g[i] = a[i]
    BY <1>2, <2>1
  <2>4. a[n + 1] \in ArgType
    BY <1>1, <2>1
  <2> HIDE DEF f, g
  <2>5. /\ h \in Seq(ArgType) /\ Len(h) = n + 1 /\ h[n + 1] = a[n + 1]
        /\ \A i \in 1 .. n : h[i] = f[i]
    BY <2>2, <2>4, AppendProperties
  <2>6. \A i \in 1 .. n + 1 : g[i] = h[i]
    BY <1>4, <2>2, <2>3, <2>5
  <2> HIDE DEF h
  <2>7. g = h
    BY <2>3, <2>5, <2>6, SeqEqual
  <2> QED BY <2>7 DEF f, g, h
<1>7. SubSeq(a, 1, N) = a
  <2> DEFINE g == SubSeq(a, 1, N)
  <2>1. g \in Seq(ArgType) /\ Len(g) = N /\ \A i \in 1 .. N : g[i] = a[i]
    BY <1>1, <1>2
  <2> HIDE DEF g
  <2>2. g = a
    BY <1>1, <1>3, <2>1, SeqEqual
  <2> QED BY <2>2 DEF g
<1>8. /\ SubSeq(a, 1, n) \in Seq(ArgType) /\ Len(SubSeq(a, 1, n)) = n
      /\ \A i \in 1 .. n : SubSeq(a, 1, n)[i] = a[i]
  BY <1>2, <1>4
<1> QED BY <1>1, <1>5, <1>6, <1>7, <1>8 DEF FirstArgs, a, N

\* A command sends options that it may change and that its arguments name; what it
\* sends is what the abstraction allows it.
LEMMA CommandOptions ==
  ASSUME CliKept, NEW c \in Commands
  PROVE  /\ cli[c].dOpts \in OptionMaps /\ Validate(cli[c].dOpts)
         /\ DOMAIN cli[c].dOpts \subseteq Names(ArgsOf[c]) /\ DOMAIN cli[c].dOpts \subseteq Keys
         /\ \A k \in DOMAIN cli[c].dOpts : k \in {NameOf[x] : x \in Keys} /\ k # None
         /\ cli[c].parsed >= 1 => cli[c].dOpts \in Sent
<1> DEFINE n == cli[c].parsed
           d == cli[c].dOpts
<1>1. /\ d \in OptionMaps /\ n \in 0 .. Len(ArgsOf[c]) /\ d = GivenBy(FirstArgs(c, n))
      /\ \A i \in 1 .. n : Parses(ArgsOf[c][i])
  <2>1. cli[c] \in CliType /\ n <= Len(ArgsOf[c])
    BY DEF CliKept
  <2>2. Len(ArgsOf[c]) \in Nat
    BY OptionAssumption
  <2> QED BY <2>1, <2>2 DEF CliKept, CliType
<1> HIDE DEF n, d
<1>2. /\ ArgsOf[c] \in Seq(ArgType) /\ FirstArgs(c, n) \in Seq(ArgType)
      /\ Len(FirstArgs(c, n)) = n
      /\ \A i \in 1 .. n : i \in DOMAIN ArgsOf[c] /\ FirstArgs(c, n)[i] = ArgsOf[c][i]
  BY <1>1, FirstArgsAre
<1>3. DOMAIN d = Names(FirstArgs(c, n)) /\ DOMAIN FirstArgs(c, n) = 1 .. n
  BY <1>1, <1>2 DEF GivenBy
<1>4. ASSUME NEW k \in DOMAIN d
      PROVE  /\ k \in Names(ArgsOf[c]) /\ ValidKey(k) /\ k # None
             /\ k \in {NameOf[x] : x \in Keys} /\ k \in Keys
  <2>1. PICK i \in 1 .. n : k = NameOf[ArgsOf[c][i].key]
    BY <1>2, <1>3 DEF Names
  <2>2. i \in DOMAIN ArgsOf[c] /\ Parses(ArgsOf[c][i])
    BY <1>1, <1>2, <2>1
  <2>3. ArgsOf[c][i] \in ArgType
    BY <1>2, <2>2
  <2>4. ArgsOf[c][i].key \in Keys
    BY <2>3 DEF ArgType
  <2>5. ValidKey(ArgsOf[c][i].key)
    BY <2>2 DEF Parses
  <2>6. NameOf[k] = k /\ k # None /\ k \notin Immutable /\ k \in Keys
    BY <2>1, <2>4, <2>5, OptionAssumption DEF ValidKey
  <2> QED BY <2>1, <2>2, <2>4, <2>6 DEF Names, ValidKey
<1>5. ASSUME n >= 1 PROVE d \in Sent
  <2>1. n \in DOMAIN ArgsOf[c]
    BY <1>1, <1>2, <1>5
  <2>2. n \in {m \in DOMAIN ArgsOf[c] : \A i \in 1 .. m : Parses(ArgsOf[c][i])}
    BY <1>1, <2>1
  <2>3. d \in {GivenBy(FirstArgs(c, m)) :
                 m \in {m \in DOMAIN ArgsOf[c] : \A i \in 1 .. m : Parses(ArgsOf[c][i])}}
    BY <1>1, <2>2
  <2> QED BY <2>3 DEF Sent
<1>6. Validate(d)
  BY <1>4 DEF Validate
<1> QED BY <1>1, <1>4, <1>5, <1>6 DEF n, d

\* An argument that parses adds what it gives to the options of the command.
LEMMA OneMoreArgument ==
  ASSUME CliKept, NEW c \in Commands, cli[c].parsed < Len(ArgsOf[c]),
         NEW arg, arg = ArgsOf[c][cli[c].parsed + 1], Parses(arg)
  PROVE  /\ cli[c].parsed + 1 \in Nat
         /\ With(cli[c].dOpts, NameOf[arg.key], arg.value) \in OptionMaps
         /\ With(cli[c].dOpts, NameOf[arg.key], arg.value)
              = GivenBy(FirstArgs(c, cli[c].parsed + 1))
         /\ \A i \in 1 .. cli[c].parsed + 1 : Parses(ArgsOf[c][i])
         /\ DOMAIN cli[c].dOpts \subseteq DOMAIN With(cli[c].dOpts, NameOf[arg.key], arg.value)
<1> DEFINE n == cli[c].parsed
           d == cli[c].dOpts
           name == NameOf[arg.key]
           w == With(d, name, arg.value)
<1>1. /\ d \in OptionMaps /\ n \in Nat /\ d = GivenBy(FirstArgs(c, n))
      /\ \A i \in 1 .. n : Parses(ArgsOf[c][i])
  <2>1. cli[c] \in CliType
    BY DEF CliKept
  <2> QED BY <2>1 DEF CliKept, CliType
<1>2. ArgsOf[c] \in Seq([key : Keys, value : BOOLEAN \cup {None}])
  BY OptionAssumption
<1>3. n \in 0 .. Len(ArgsOf[c]) /\ n + 1 \in DOMAIN ArgsOf[c] /\ n < Len(ArgsOf[c])
  BY <1>1, <1>2
<1>4. /\ FirstArgs(c, n) \in Seq(ArgType)
      /\ FirstArgs(c, n + 1) = Append(FirstArgs(c, n), arg)
  BY <1>3, FirstArgsAre
<1>5. arg \in ArgType
  <2> DEFINE a == ArgsOf[c]
  <2>1. a \in Seq(ArgType) /\ n + 1 \in DOMAIN a /\ arg = a[n + 1]
    BY <1>2, <1>3 DEF ArgType
  <2> HIDE DEF a, n
  <2> QED BY <2>1
<1>6. w = GivenBy(FirstArgs(c, n + 1))
  BY <1>1, <1>4, <1>5, GivenByOneMore
<1>7. name \in Keys /\ arg.value \in BOOLEAN
  <2>1. arg.key \in Keys /\ arg.value \in BOOLEAN \cup {None}
    BY <1>5 DEF ArgType
  <2>2. arg.value # None /\ NameOf[arg.key] # None
    BY DEF Parses, ValidKey
  <2> QED BY <2>1, <2>2, OptionAssumption
<1>8. d \in [DOMAIN d -> BOOLEAN] /\ DOMAIN d \subseteq Keys
  BY <1>1 DEF OptionMaps
<1>9. w = [k \in DOMAIN d \cup {name} |-> IF k = name THEN arg.value ELSE d[k]]
  BY DEF With
<1>10. \A i \in 1 .. n + 1 : Parses(ArgsOf[c][i])
  <2> SUFFICES ASSUME NEW i \in 1 .. n + 1 PROVE Parses(ArgsOf[c][i])
    OBVIOUS
  <2>1. CASE i = n + 1
    BY <2>1
  <2>2. CASE i # n + 1
    BY <1>1, <2>2
  <2> QED BY <2>1, <2>2
<1> HIDE DEF n, d, name, w
<1>11. w \in [DOMAIN d \cup {name} -> BOOLEAN] /\ DOMAIN w = DOMAIN d \cup {name}
  BY <1>7, <1>8, <1>9
<1>12. w \in OptionMaps
  <2>1. DOMAIN d \cup {name} \in SUBSET Keys
    BY <1>7, <1>8
  <2> QED BY <1>11, <2>1 DEF OptionMaps
<1>13. n + 1 \in Nat /\ DOMAIN d \subseteq DOMAIN w
  BY <1>1, <1>11
<1> QED BY <1>6, <1>10, <1>12, <1>13 DEF n, d, name, w

LEMMA ParseKeeps ==
  ASSUME OptInv, NEW c \in Commands, ParseArg(c)
  PROVE  OptInv'
<1> DEFINE arg == ArgsOf[c][cli[c].parsed + 1]
           w == With(cli[c].dOpts, NameOf[arg.key], arg.value)
<1>1. CliKept /\ NotYetSet /\ EffectKept
  BY DEF OptInv
<1>2. /\ cli \in [Commands -> CliType] /\ cli[c] \in CliType /\ cli[c].parsed \in Nat
      /\ cli[c].pc = "parse"
  <2>1. cli[c] \in CliType
    BY <1>1 DEF CliKept
  <2> QED BY <1>1, <2>1 DEF CliKept, CliType, ParseArg
<1>3. UNCHANGED <<opts, requests, boots>>
  BY DEF ParseArg
<1>4. cli[c].parsed < Len(ArgsOf[c])
  <2>1. Len(ArgsOf[c]) \in Nat
    BY OptionAssumption
  <2> QED BY <1>2, <2>1 DEF ParseArg
<1>5. /\ cli' \in [Commands -> CliType]
      /\ \A x \in Commands : x # c => cli'[x] = cli[x]
      /\ cli'[c].pc \in {"send", "failed"}
      /\ DOMAIN cli[c].dOpts \subseteq DOMAIN cli'[c].dOpts
      /\ cli'[c].parsed <= Len(ArgsOf[c])
      /\ cli'[c].dOpts = GivenBy(FirstArgs(c, cli'[c].parsed))
      /\ \A i \in 1 .. cli'[c].parsed : Parses(ArgsOf[c][i])
      /\ cli'[c].pc = "send" => cli'[c].parsed >= 1
  <2>1. CASE Parses(arg)
    <3>1. /\ cli[c].parsed + 1 \in Nat /\ w \in OptionMaps
          /\ w = GivenBy(FirstArgs(c, cli[c].parsed + 1))
          /\ \A i \in 1 .. cli[c].parsed + 1 : Parses(ArgsOf[c][i])
          /\ DOMAIN cli[c].dOpts \subseteq DOMAIN w
      <4> HIDE DEF arg
      <4>1. arg = ArgsOf[c][cli[c].parsed + 1]
        BY DEF arg
      <4> QED BY <1>1, <1>4, <2>1, <4>1, OneMoreArgument
    <3>2. cli' = [cli EXCEPT ![c] = [pc |-> "send", parsed |-> cli[c].parsed + 1, dOpts |-> w]]
      BY <2>1 DEF ParseArg
    <3> HIDE DEF w
    <3>3. cli'[c] = [pc |-> "send", parsed |-> cli[c].parsed + 1, dOpts |-> w]
      BY <1>2, <3>2
    <3>4. cli'[c] \in CliType
      BY <3>1, <3>3 DEF CliType
    <3>5. cli' \in [Commands -> CliType] /\ \A x \in Commands : x # c => cli'[x] = cli[x]
      BY <1>2, <3>2, <3>3, <3>4
    <3>6. cli[c].parsed + 1 <= Len(ArgsOf[c])
      BY DEF ParseArg
    <3> QED BY <1>2, <3>1, <3>3, <3>5, <3>6
  <2>2. CASE ~Parses(arg)
    <3>1. cli' = [cli EXCEPT ![c] = [cli[c] EXCEPT !.pc = "failed"]]
      BY <2>2 DEF ParseArg
    <3>2. /\ cli'[c] = [cli[c] EXCEPT !.pc = "failed"]
          /\ \A x \in Commands : x # c => cli'[x] = cli[x]
      BY <1>2, <3>1
    <3>3. /\ cli'[c] \in CliType /\ cli'[c].pc = "failed"
          /\ cli'[c].parsed = cli[c].parsed /\ cli'[c].dOpts = cli[c].dOpts
      BY <1>2, <3>2 DEF CliType
    <3>4. cli' \in [Commands -> CliType]
      BY <1>2, <3>1, <3>2, <3>3
    <3> QED BY <1>1, <3>2, <3>3, <3>4 DEF CliKept
  <2> QED BY <2>1, <2>2
<1> HIDE DEF arg, w
<1>6. CliKept'
  <2>1. ASSUME NEW x \in Commands
        PROVE  /\ cli'[x].parsed <= Len(ArgsOf[x])
               /\ cli'[x].dOpts = GivenBy(FirstArgs(x, cli'[x].parsed))
               /\ \A i \in 1 .. cli'[x].parsed : Parses(ArgsOf[x][i])
               /\ cli'[x].pc = "send" => cli'[x].parsed >= 1
               /\ cli'[x].pc = "done" => cli'[x].parsed = Len(ArgsOf[x])
    <3>1. CASE x = c
      BY <1>5, <3>1
    <3>2. CASE x # c
      BY <1>1, <1>5, <3>2 DEF CliKept
    <3> QED BY <3>1, <3>2
  <2>2. cli' \in [Commands -> CliType]
    BY <1>5
  <2> QED BY <2>1, <2>2 DEF CliKept, FirstArgs, GivenBy, Given, Names
<1>7. NotYetSet'
  <2>1. ASSUME NEW x \in Commands, NEW name \in Own(x), name \notin DOMAIN cli'[x].dOpts
        PROVE  ~IsEnabled(opts', name)
    <3>1. name \notin DOMAIN cli[x].dOpts
      BY <1>5, <2>1
    <3> QED BY <1>1, <1>3, <3>1 DEF NotYetSet
  <2> QED BY <2>1 DEF NotYetSet, Own, Names, IsEnabled
<1>8. EffectKept'
  <2>1. ASSUME boots' = 0, NEW x \in Commands, cli'[x].pc \in {"parse", "done"},
               NEW name \in Own(x) \cap DOMAIN cli'[x].dOpts
        PROVE  IsEnabled(opts', name) = cli'[x].dOpts[name]
    <3>1. x # c
      BY <1>5, <2>1
    <3> QED BY <1>1, <1>3, <1>5, <2>1, <3>1 DEF EffectKept
  <2> QED BY <2>1 DEF EffectKept, Own, Names, IsEnabled
<1> QED BY <1>3, <1>6, <1>7, <1>8 DEF OptInv

\* A request that names none of a command's own options leaves them as they are.
LEMMA OthersKeepOwn ==
  ASSUME opts \in OptionMaps, NEW n \in OptionMaps, Update(n), NEW c \in Commands,
         DOMAIN n \cap Own(c) = {}
  PROVE  \A name \in Own(c) : IsEnabled(opts', name) = IsEnabled(opts, name)
<1> SUFFICES ASSUME NEW name \in Own(c)
             PROVE  IsEnabled(opts', name) = IsEnabled(opts, name)
  OBVIOUS
<1>1. name \notin DOMAIN n
  OBVIOUS
<1>2. CASE Validate(n)
  BY <1>1, <1>2, UpdateEffect
<1>3. CASE ~Validate(n)
  <2>1. opts' = opts
    BY <1>3, UpdateEffect
  <2> QED BY <2>1 DEF IsEnabled
<1> QED BY <1>2, <1>3

\* The end of a request moves a command on, and nothing else about it.
LEMMA MovesOn ==
  ASSUME CliKept, NEW c \in Commands, NEW pc,
         pc = "failed" \/ pc = IF cli[c].parsed = Len(ArgsOf[c]) THEN "done" ELSE "parse",
         cli' = [cli EXCEPT ![c].pc = pc]
  PROVE  /\ CliKept' /\ cli'[c].pc = pc /\ \A x \in Commands : x # c => cli'[x] = cli[x]
         /\ \A x \in Commands : cli'[x].dOpts = cli[x].dOpts
<1>1. cli \in [Commands -> CliType] /\ cli[c] \in CliType
  BY DEF CliKept
<1>2. cli' = [cli EXCEPT ![c] = [cli[c] EXCEPT !.pc = pc]]
  OBVIOUS
<1>3. /\ cli'[c] = [cli[c] EXCEPT !.pc = pc]
      /\ \A x \in Commands : x # c => cli'[x] = cli[x]
  BY <1>1, <1>2
<1>4. /\ cli'[c] \in CliType /\ cli'[c].pc = pc
      /\ cli'[c].parsed = cli[c].parsed /\ cli'[c].dOpts = cli[c].dOpts
  BY <1>1, <1>3 DEF CliType
<1>5. cli' \in [Commands -> CliType]
  BY <1>1, <1>2, <1>3, <1>4
<1>6. ASSUME NEW x \in Commands
      PROVE  /\ cli'[x].dOpts = cli[x].dOpts /\ cli'[x].parsed = cli[x].parsed
             /\ cli'[x].pc = "send" => cli[x].pc = "send"
             /\ cli'[x].pc = "done" => cli[x].parsed = Len(ArgsOf[x])
  <2>1. CASE x = c
    BY <1>4, <2>1
  <2>2. CASE x # c
    BY <1>3, <2>2 DEF CliKept
  <2> QED BY <2>1, <2>2
<1>7. ASSUME NEW x \in Commands
      PROVE  /\ cli'[x].parsed <= Len(ArgsOf[x])
             /\ cli'[x].dOpts = GivenBy(FirstArgs(x, cli'[x].parsed))
             /\ \A i \in 1 .. cli'[x].parsed : Parses(ArgsOf[x][i])
             /\ cli'[x].pc = "send" => cli'[x].parsed >= 1
             /\ cli'[x].pc = "done" => cli'[x].parsed = Len(ArgsOf[x])
  BY <1>6 DEF CliKept
<1>8. CliKept'
  BY <1>5, <1>7 DEF CliKept, FirstArgs, GivenBy, Given, Names
<1> QED BY <1>3, <1>4, <1>6, <1>8

LEMMA SendKeeps ==
  ASSUME OptInv, NEW c \in Commands, SendOpts(c)
  PROVE  OptInv'
<1> DEFINE n == cli[c].dOpts
<1>1. CliKept /\ NotYetSet /\ EffectKept /\ opts \in OptionMaps
  BY DEF OptInv
<1>2. /\ n \in OptionMaps /\ Validate(n) /\ DOMAIN n \subseteq Names(ArgsOf[c])
  BY <1>1, CommandOptions
<1>3. Update(n) /\ UNCHANGED <<requests, boots>>
  BY DEF SendOpts
<1>4. PICK pc \in {IF cli[c].parsed = Len(ArgsOf[c]) THEN "done" ELSE "parse", "failed"} :
        cli' = [cli EXCEPT ![c].pc = pc]
  BY DEF SendOpts
<1>5. /\ CliKept' /\ cli'[c].pc = pc /\ \A x \in Commands : x # c => cli'[x] = cli[x]
      /\ \A x \in Commands : cli'[x].dOpts = cli[x].dOpts
  BY <1>1, <1>4, MovesOn
<1> HIDE DEF n
<1>6. /\ opts' \in OptionMaps
      /\ \A k \in DOMAIN n : IsEnabled(opts', k) = n[k]
      /\ \A k : k \notin DOMAIN n => IsEnabled(opts', k) = IsEnabled(opts, k)
  BY <1>1, <1>2, <1>3, UpdateEffect
<1>7. ASSUME NEW x \in Commands, x # c
      PROVE  \A name \in Own(x) : IsEnabled(opts', name) = IsEnabled(opts, name)
  <2>1. DOMAIN n \cap Own(x) = {}
    BY <1>2, <1>7 DEF Own
  <2> QED BY <1>6, <2>1
<1>8. NotYetSet'
  <2>1. ASSUME NEW x \in Commands, NEW name \in Own(x), name \notin DOMAIN cli'[x].dOpts
        PROVE  ~IsEnabled(opts', name)
    <3>1. name \notin DOMAIN cli[x].dOpts /\ ~IsEnabled(opts, name)
      BY <1>1, <1>5, <2>1 DEF NotYetSet
    <3>2. CASE x = c
      BY <1>6, <3>1, <3>2 DEF n
    <3>3. CASE x # c
      BY <1>7, <3>1, <3>3
    <3> QED BY <3>2, <3>3
  <2> QED BY <2>1 DEF NotYetSet, Own, Names, IsEnabled
<1>9. EffectKept'
  <2>1. ASSUME boots' = 0, NEW x \in Commands, cli'[x].pc \in {"parse", "done"},
               NEW name \in Own(x) \cap DOMAIN cli'[x].dOpts
        PROVE  IsEnabled(opts', name) = cli'[x].dOpts[name]
    <3>1. CASE x = c
      BY <1>5, <1>6, <3>1 DEF n
    <3>2. CASE x # c
      BY <1>1, <1>3, <1>5, <1>7, <2>1, <3>2 DEF EffectKept
    <3> QED BY <3>1, <3>2
  <2> QED BY <2>1 DEF EffectKept, Own, Names, IsEnabled
<1> QED BY <1>3, <1>5, <1>6, <1>8, <1>9 DEF OptInv

LEMMA FailKeeps ==
  ASSUME OptInv, NEW c \in Commands, SendFails(c)
  PROVE  OptInv'
<1>1. /\ CliKept /\ NotYetSet /\ EffectKept /\ UNCHANGED <<opts, requests, boots>>
      /\ cli' = [cli EXCEPT ![c].pc = "failed"]
  BY DEF OptInv, SendFails
<1>2. /\ CliKept' /\ cli'[c].pc = "failed"
      /\ \A x \in Commands : x # c => cli'[x] = cli[x]
      /\ \A x \in Commands : cli'[x].dOpts = cli[x].dOpts
  BY <1>1, MovesOn
<1>3. NotYetSet'
  BY <1>1, <1>2 DEF NotYetSet, Own, Names, IsEnabled
<1>4. ASSUME boots' = 0, NEW x \in Commands, cli'[x].pc \in {"parse", "done"},
             NEW name \in Own(x) \cap DOMAIN cli'[x].dOpts
      PROVE  IsEnabled(opts', name) = cli'[x].dOpts[name]
  <2>1. x # c
    BY <1>2, <1>4
  <2> QED BY <1>1, <1>2, <1>4, <2>1 DEF EffectKept, IsEnabled
<1>5. EffectKept'
  BY <1>4 DEF EffectKept, Own, Names, IsEnabled
<1> QED BY <1>1, <1>2, <1>3, <1>5 DEF OptInv

LEMMA CliStays ==
  ASSUME CliKept, cli' = cli
  PROVE  CliKept'
<1>1. ASSUME NEW x \in Commands
      PROVE  /\ cli'[x].parsed <= Len(ArgsOf[x])
             /\ cli'[x].dOpts = GivenBy(FirstArgs(x, cli'[x].parsed))
             /\ \A i \in 1 .. cli'[x].parsed : Parses(ArgsOf[x][i])
             /\ cli'[x].pc = "send" => cli'[x].parsed >= 1
             /\ cli'[x].pc = "done" => cli'[x].parsed = Len(ArgsOf[x])
  BY DEF CliKept
<1>2. cli' \in [Commands -> CliType]
  BY DEF CliKept
<1> QED BY <1>1, <1>2 DEF CliKept, FirstArgs, GivenBy, Given, Names

LEMMA OtherKeeps ==
  ASSUME OptInv, OtherRequest
  PROVE  OptInv'
<1>1. /\ CliKept /\ NotYetSet /\ EffectKept /\ opts \in OptionMaps
      /\ UNCHANGED <<cli, boots>> /\ requests' \in 0 .. MaxRequests
  BY OptionAssumption DEF OptInv, OtherRequest
<1>2. PICK n \in Requests : Update(n)
  BY DEF OtherRequest
<1>3. n \in OptionMaps
  BY <1>2, OptionAssumption DEF OptionMaps
<1>4. opts' \in OptionMaps
  <2>1. CASE Validate(n)
    BY <1>1, <1>2, <1>3, <2>1, UpdateEffect
  <2>2. CASE ~Validate(n)
    BY <1>1, <1>2, <1>3, <2>2, UpdateEffect
  <2> QED BY <2>1, <2>2
<1>5. ASSUME NEW c \in Commands
      PROVE  \A name \in Own(c) : IsEnabled(opts', name) = IsEnabled(opts, name)
  <2>1. DOMAIN n \cap Own(c) = {}
    <3> DEFINE others == UNION {Names(ArgsOf[d]) : d \in Commands \ {c}}
               all == UNION {DOMAIN m : m \in Requests}
    <3>1. DOMAIN n \subseteq all
      BY <1>2
    <3>2. Own(c) = Names(ArgsOf[c]) \ (others \cup all)
      BY DEF Own
    <3> HIDE DEF others, all
    <3> QED BY <3>1, <3>2
  <2> QED BY <1>1, <1>2, <1>3, <2>1, OthersKeepOwn
<1>6. CliKept'
  BY <1>1, CliStays
<1>7. NotYetSet'
  <2>1. ASSUME NEW x \in Commands, NEW name \in Own(x), name \notin DOMAIN cli'[x].dOpts
        PROVE  ~IsEnabled(opts', name)
    BY <1>1, <1>5, <2>1 DEF NotYetSet
  <2> QED BY <2>1 DEF NotYetSet, Own, Names, IsEnabled
<1>8. EffectKept'
  <2>1. ASSUME boots' = 0, NEW x \in Commands, cli'[x].pc \in {"parse", "done"},
               NEW name \in Own(x) \cap DOMAIN cli'[x].dOpts
        PROVE  IsEnabled(opts', name) = cli'[x].dOpts[name]
    BY <1>1, <1>5, <2>1 DEF EffectKept
  <2> QED BY <2>1 DEF EffectKept, Own, Names, IsEnabled
<1> QED BY <1>1, <1>4, <1>6, <1>7, <1>8 DEF OptInv

LEMMA RestartKeeps ==
  ASSUME OptInv, RestartDaemon
  PROVE  OptInv'
<1>1. /\ CliKept /\ opts' = NoOptions /\ boots' = 1 /\ UNCHANGED <<cli, requests>>
      /\ requests \in 0 .. MaxRequests
  BY DEF OptInv, RestartDaemon
<1>2. opts' \in OptionMaps /\ \A k : ~IsEnabled(opts', k)
  <2>1. NoOptions \in [{} -> BOOLEAN] /\ DOMAIN NoOptions = {}
    BY DEF NoOptions
  <2> QED BY <1>1, <2>1 DEF OptionMaps, IsEnabled
<1>3. CliKept'
  BY <1>1, CliStays
<1>4. NotYetSet'
  BY <1>2 DEF NotYetSet, IsEnabled
<1>5. EffectKept'
  BY <1>1 DEF EffectKept
<1> QED BY <1>1, <1>2, <1>3, <1>4, <1>5 DEF OptInv

LEMMA OptInvStarts == OptInit => OptInv
<1> SUFFICES ASSUME OptInit PROVE OptInv
  OBVIOUS
<1>1. NoOptions \in OptionMaps /\ DOMAIN NoOptions = {}
  <2>1. NoOptions \in [{} -> BOOLEAN] /\ DOMAIN NoOptions = {}
    BY DEF NoOptions
  <2> QED BY <2>1 DEF OptionMaps
<1>2. ASSUME NEW c \in Commands
      PROVE  /\ cli[c] \in CliType /\ cli[c].pc = "parse" /\ cli[c].parsed = 0
             /\ cli[c].dOpts = NoOptions
  BY <1>1 DEF OptInit, CliType
<1>3. ASSUME NEW c \in Commands
      PROVE  0 <= Len(ArgsOf[c]) /\ GivenBy(FirstArgs(c, 0)) = NoOptions
  <2>1. Len(ArgsOf[c]) \in Nat
    BY OptionAssumption
  <2>2. 0 \in 0 .. Len(ArgsOf[c])
    BY <2>1
  <2>3. FirstArgs(c, 0) \in Seq(ArgType) /\ Len(FirstArgs(c, 0)) = 0
    BY <2>2, FirstArgsAre
  <2>4. Names(FirstArgs(c, 0)) = {}
    BY <2>3 DEF Names
  <2> QED BY <2>1, <2>4 DEF GivenBy, NoOptions
<1>4. cli \in [Commands -> CliType]
  BY <1>2 DEF OptInit
<1>5. CliKept
  BY <1>2, <1>3, <1>4 DEF CliKept
<1>6. NotYetSet /\ EffectKept
  BY <1>1, <1>2 DEF NotYetSet, EffectKept, OptInit, IsEnabled
<1> QED BY <1>1, <1>5, <1>6, OptionAssumption DEF OptInv, OptInit

-----------------------------------------------------------------------------
(* The daemon.                                                               *)

\* Every step of the daemon and of its clients keeps the records right.
LEMMA StepKeepsRecords == RecordsIInv /\ [Next]_vars => RecordsIInv'
<1> SUFFICES ASSUME RecordsIInv, [Next]_vars PROVE RecordsIInv'
  OBVIOUS
<1>1. LogInv'
  BY StepKeepsRing DEF RecordsIInv
<1>2. Numbered'
  <2>1. CASE LogStatus
    <3>1. /\ made + 1 \in 1 .. MaxEntries /\ made' = made + 1 /\ saved' = saved
          /\ status'.all = Append(status.all, made + 1)
      BY <2>1, LogAssumption DEF LogStatus, addStatusLog, RecordsIInv, Numbered
    <3>2. status.all \in Seq(1 .. MaxEntries) /\ saved.all \in Seq(1 .. MaxEntries)
      BY DEF RecordsIInv, Numbered
    <3>3. status'.all \in Seq(1 .. MaxEntries) /\ saved'.all \in Seq(1 .. MaxEntries)
      BY <3>1, <3>2
    <3>4. made' \in 0 .. MaxEntries
      BY <3>1, LogAssumption
    <3> QED BY <3>3, <3>4 DEF Numbered
  <2>2. CASE SaveStatus
    BY <2>2 DEF SaveStatus, RecordsIInv, Numbered
  <2>3. CASE Restart
    BY <2>3 DEF Restart, RestoreStatus, RecordsIInv, Numbered
  <2>4. CASE UNCHANGED logVars
    BY <2>4 DEF logVars, RecordsIInv, Numbered
  <2> QED BY <2>1, <2>2, <2>3, <2>4 DEF Next, vars
<1>3. OptInv'
  <2>1. ASSUME NEW c \in Commands, ParseArg(c) PROVE OptInv'
    BY <2>1, ParseKeeps DEF RecordsIInv
  <2>2. ASSUME NEW c \in Commands, SendOpts(c) PROVE OptInv'
    BY <2>2, SendKeeps DEF RecordsIInv
  <2>3. ASSUME NEW c \in Commands, SendFails(c) PROVE OptInv'
    BY <2>3, FailKeeps DEF RecordsIInv
  <2>4. CASE OtherRequest
    BY <2>4, OtherKeeps DEF RecordsIInv
  <2>5. CASE Restart
    BY <2>5, RestartKeeps DEF Restart, RecordsIInv
  <2>6. CASE UNCHANGED optVars
    <3>1. CliKept'
      BY <2>6, CliStays DEF optVars, RecordsIInv, OptInv
    <3>2. NotYetSet' /\ EffectKept'
      BY <2>6 DEF optVars, RecordsIInv, OptInv, NotYetSet, EffectKept, Own, Names, IsEnabled
    <3> QED BY <2>6, <3>1, <3>2 DEF optVars, RecordsIInv, OptInv
  <2> QED BY <2>1, <2>2, <2>3, <2>4, <2>5, <2>6 DEF Next, vars
<1> QED BY <1>1, <1>2, <1>3 DEF RecordsIInv

LEMMA RecordsStart == Init => RecordsIInv
<1> SUFFICES ASSUME Init PROVE RecordsIInv
  OBVIOUS
<1>1. LogInv
  BY LogAssumption DEF Init, LogInit, LogInv, NewStatus, Sound, StatusType, RingOK
<1>2. Numbered
  BY LogAssumption DEF Init, LogInit, NewStatus, Numbered
<1> QED BY <1>1, <1>2, OptInvStarts DEF Init, RecordsIInv

\* A command that has ended well has come to all its arguments.
LEMMA DoneHasTakenEffect == OptInv => CommandTakesEffect
<1> SUFFICES ASSUME OptInv, boots = 0, NEW c \in Commands, cli[c].pc = "done",
                    NEW name \in Own(c)
             PROVE  IsEnabled(opts, name) = Given(ArgsOf[c], name)
  BY DEF CommandTakesEffect
<1>1. CliKept /\ EffectKept
  BY DEF OptInv
<1>2. /\ cli[c].parsed = Len(ArgsOf[c])
      /\ cli[c].dOpts = GivenBy(FirstArgs(c, cli[c].parsed))
  BY <1>1 DEF CliKept
<1>3. cli[c].dOpts = GivenBy(ArgsOf[c])
  <2>1. Len(ArgsOf[c]) \in Nat
    BY OptionAssumption
  <2>2. Len(ArgsOf[c]) \in 0 .. Len(ArgsOf[c])
    BY <2>1
  <2>3. FirstArgs(c, Len(ArgsOf[c])) = ArgsOf[c]
    BY <2>2, FirstArgsAre
  <2> QED BY <1>2, <2>3
<1>4. name \in Names(ArgsOf[c])
  BY DEF Own
<1>5. name \in DOMAIN cli[c].dOpts /\ cli[c].dOpts[name] = Given(ArgsOf[c], name)
  BY <1>3, <1>4 DEF GivenBy
<1> QED BY <1>1, <1>5 DEF EffectKept

LEMMA RecordsAreRight == RecordsIInv => RecordsInv
<1> SUFFICES ASSUME RecordsIInv PROVE RecordsInv
  OBVIOUS
<1>1. /\ LogInv /\ Numbered /\ opts \in OptionMaps /\ requests \in 0 .. MaxRequests
      /\ boots \in 0 .. 1 /\ CliKept /\ OptInv
  BY DEF RecordsIInv, OptInv
<1>2. ASSUME NEW s, Sound(s)
      PROVE  Len(s.log) <= maxLogs /\ s.index \in 0 .. maxLogs - 1
  BY <1>2, LogAssumption DEF Sound, RingOK, StatusType
<1>3. ASSUME NEW c \in Commands
      PROVE  /\ cli[c].pc \in {"parse", "send", "done", "failed"}
             /\ cli[c].parsed \in 0 .. Len(ArgsOf[c])
             /\ DOMAIN cli[c].dOpts \subseteq {NameOf[k] : k \in Keys} \ {None}
  <2>1. cli[c] \in CliType /\ cli[c].parsed <= Len(ArgsOf[c])
    BY <1>1 DEF CliKept
  <2>2. Len(ArgsOf[c]) \in Nat
    BY OptionAssumption
  <2>3. \A k \in DOMAIN cli[c].dOpts : k \in {NameOf[x] : x \in Keys} /\ k # None
    BY <1>1, CommandOptions
  <2> QED BY <2>1, <2>2, <2>3 DEF CliType
<1>4. DOMAIN opts \subseteq Keys /\ \A k \in DOMAIN opts : opts[k] \in BOOLEAN
  BY <1>1 DEF OptionMaps
<1>5. TypeOK
  BY <1>1, <1>2, <1>3, <1>4 DEF TypeOK, OptTypeOK, LogInv, Numbered
<1>6. DumpsNewest
  BY <1>1, SoundDump DEF LogInv, DumpsNewest
<1>7. CommandTakesEffect
  BY <1>1, DoneHasTakenEffect
<1> QED BY <1>5, <1>6, <1>7 DEF RecordsInv

\* For every size of the ring, every set of options and every number of commands and of
\* clients: the dump shows the newest entries, each once and newest first, also across
\* the end of the ring and restarts (machine.go:96-116), and a command that has ended
\* well has set each option that only it names to the last value it gave, though each of
\* its requests repeats the earlier ones and Apply writes only what differs
\* (main.go:190-209, option.go:194-230).
THEOREM RecordsAlwaysRight == Spec => []RecordsInv
BY RecordsStart, StepKeepsRecords, RecordsAreRight, PTL DEF Spec

-----------------------------------------------------------------------------
(* The options implement Settings.                                           *)

Enabled(o) == [k \in Keys |-> IsEnabled(o, k)]

\* A request that Validate lets through is carried out as a whole, any other not at all.
LEMMA UpdateIsWhole ==
  ASSUME opts \in OptionMaps, NEW n \in OptionMaps, Update(n)
  PROVE  Enabled(opts') =
           IF Validate(n) THEN [k \in Keys |-> IF k \in DOMAIN n THEN n[k] ELSE Enabled(opts)[k]]
           ELSE Enabled(opts)
<1>1. CASE Validate(n)
  <2>1. ASSUME NEW k \in Keys
        PROVE  IsEnabled(opts', k) = IF k \in DOMAIN n THEN n[k] ELSE Enabled(opts)[k]
    <3>1. CASE k \in DOMAIN n
      BY <1>1, <3>1, UpdateEffect
    <3>2. CASE k \notin DOMAIN n
      <4>1. IsEnabled(opts', k) = IsEnabled(opts, k)
        BY <1>1, <3>2, UpdateEffect
      <4> QED BY <3>2, <4>1 DEF Enabled
    <3> QED BY <3>1, <3>2
  <2> QED BY <1>1, <2>1 DEF Enabled
<1>2. CASE ~Validate(n)
  <2>1. opts' = opts
    BY <1>2, UpdateEffect
  <2> QED BY <1>2, <2>1
<1> QED BY <1>1, <1>2

\* Each step is a change, a restart, or no step of the promise.
LEMMA StepKeepsPromise ==
  ASSUME RecordsIInv, [Next]_vars
  PROVE  [Promise!Change \/ Promise!Restart]_(Enabled(opts))
<1>1. CliKept /\ opts \in OptionMaps
  BY DEF RecordsIInv, OptInv
<1>2. ASSUME NEW n \in OptionMaps, Update(n), Validate(n) => n \in {m \in Requests : Validate(m)} \cup Sent
      PROVE  Promise!Change \/ Enabled(opts') = Enabled(opts)
  <2>1. CASE Validate(n)
    <3>1. n \in {m \in Requests : Validate(m)} \cup Sent
      BY <1>2, <2>1
    <3>2. Enabled(opts') = [k \in Keys |-> IF k \in DOMAIN n THEN n[k] ELSE Enabled(opts)[k]]
      BY <1>1, <1>2, <2>1, UpdateIsWhole
    <3> QED BY <3>1, <3>2 DEF Promise!Change, Enabled, IsEnabled
  <2>2. CASE ~Validate(n)
    BY <1>1, <1>2, <2>2, UpdateIsWhole
  <2> QED BY <2>1, <2>2
<1>3. ASSUME NEW c \in Commands, SendOpts(c)
      PROVE  Promise!Change \/ Enabled(opts') = Enabled(opts)
  <2>1. Update(cli[c].dOpts) /\ cli[c].pc = "send"
    BY <1>3 DEF SendOpts
  <2>2. cli[c].parsed >= 1
    BY <1>1, <2>1 DEF CliKept
  <2>3. cli[c].dOpts \in OptionMaps /\ cli[c].dOpts \in Sent
    BY <1>1, <2>2, CommandOptions
  <2> QED BY <1>2, <2>1, <2>3
<1>4. CASE OtherRequest
  <2>1. PICK n \in Requests : Update(n)
    BY <1>4 DEF OtherRequest
  <2>2. n \in OptionMaps
    BY OptionAssumption DEF OptionMaps
  <2> QED BY <1>2, <2>1, <2>2
<1>5. CASE Restart
  <2>1. Enabled(opts') = [k \in Keys |-> FALSE]
    BY <1>5 DEF Restart, RestartDaemon, NoOptions, Enabled, IsEnabled
  <2> QED BY <2>1 DEF Promise!Restart, Enabled, IsEnabled
<1>6. CASE UNCHANGED opts
  BY <1>6 DEF Enabled, IsEnabled
<1> QED BY <1>3, <1>4, <1>5, <1>6 DEF Next, vars, optVars, ParseArg, SendFails

\* For every set of options, commands and clients: a request is carried out as a whole or
\* refused as a whole, what it does not name keeps its value, and only a restart turns
\* options off that nobody asked to, though Apply writes only differences and a request
\* may name options that are not there or are read-only (option.go:194-230,
\* daemon.go:74-88).
THEOREM OptionsKeepPromise == Spec => ChangesAreWhole
<1>1. Init => Promise!Init
  BY DEF Init, OptInit, NoOptions, Promise!Init, IsEnabled
<1>2. RecordsIInv /\ [Next]_vars => [Promise!Change \/ Promise!Restart]_(Enabled(opts))
  BY StepKeepsPromise
<1> QED BY <1>1, <1>2, RecordsStart, StepKeepsRecords, PTL
        DEF Spec, ChangesAreWhole, Promise!Spec, Enabled

=============================================================================
