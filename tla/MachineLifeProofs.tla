------------------------- MODULE MachineLifeProofs --------------------------
(***************************************************************************)
(* For any configurations, requests and bounds, and with crashes: every    *)
(* module that runs is in the list of its machine, once; whoever changes   *)
(* the lists holds the locks; no request panics or waits for ever but for  *)
(* a module of which something had failed, or a plugin; and a restore      *)
(* brings the adaptors back.  As long as no request works on an object     *)
(* while or after its machine leaves, the snapshot file is what a restart  *)
(* should find.                                                            *)
(***************************************************************************)
EXTENDS MachineLife, DataLemmas, FiniteSetTheorems

-----------------------------------------------------------------------------
(* The inductive invariant.                                                  *)

\* The fields of a request; of most of them no more need be known.
Fields(r) ==
  r \in [pc : {r.pc}, op : {r.op}, conf : {r.conf}, m : {r.m}, kind : {r.kind},
         head : {r.head}, k : {r.k}, failed : {r.failed}, last : {r.last}]

Joining == {d \in Clients : req[d].pc = "join"}

\* A request that has looked the machine up has an object to work on, and there is
\* an object left for each that is to make one.
RequestsKept ==
  /\ req = [c \in Clients |-> req[c]] /\ \A c \in Clients : Fields(req[c])
  /\ \A c \in Clients :
       /\ req[c].pc \in {"joined", "found", "save", "blocked", "loop", "erase"}
            => req[c].m \in Objects
       /\ req[c].pc \in {"loop", "erase"} \/ mapMU = c => req[c].op = "leave"
       /\ req[c].pc = "idle" => req[c].op = ""
       /\ req[c].pc \in {"join", "joined", "found"} => req[c].op # "leave"
  /\ IsFiniteSet(Joining) /\ made + Cardinality(Joining) <= MaxMachines
  /\ daemon # "up" => /\ \A c \in Clients : req[c] = Idle("none")
                      /\ reg = made /\ made = IF daemon = "down" THEN 0 ELSE 1
  /\ daemon = "adaptors" => disk # None

\* Each list holds configurations of its kind.
OfKind(names, kind) ==
  \A k \in 1 .. Len(names) : names[k] \in Confs /\ KindOf(names[k]) = kind
ListsKept ==
  /\ \A m \in Objects, kind \in Kinds : OfKind(Names(m, kind), kind)
  /\ disk # None => \A kind \in Kinds : OfKind(disk[kind], kind)

\* A module is listed once.
Once(names) == \A j, k \in 1 .. Len(names) : names[j] = names[k] => j = k
ListedOnce ==
  \A m \in Objects : Once(Names(m, "controllers")) /\ Once(Names(m, "drivers"))

\* A module that runs is listed, and one that is listed can be stopped, unless a
\* step of its start or of an earlier stop had failed, or is stuck.
Stoppable(m, conf) ==
  IF conf \in Plugins
  THEN inst[m][conf].closed => NoMaster(m, conf) \/ Stuck(m, conf)
  ELSE ~inst[m][conf].closed /\ inst[m][conf].done = 0
ListedUsable ==
  \A m \in Objects, conf \in Modules :
    /\ Running(m, conf) => IsListed(m, conf)
    /\ IsListed(m, conf) /\ conf \notin Unknown \cup FaultyDevice => Stoppable(m, conf)

\* A plugin that every Stop panics on: it stays in the list without a process master.
Hopeless(m, conf) == IsListed(m, conf) /\ NoMaster(m, conf)

\* Where a request has panicked or waits for ever.
PanicsKept ==
  \A c \in Clients :
    LET r == req[c]
    IN r.pc = "idle" /\ r.last = "panic" =>
         \/ r.conf \in Unknown \cup FaultyDevice
         \/ r.m \in Objects /\ r.conf \in Modules /\ Hopeless(r.m, r.conf)
BlocksKept == \A c \in Clients : req[c].pc = "blocked" => req[c].conf \in MayFail

IInv == /\ TypeOK /\ RequestsKept /\ LocksHeld /\ ListsKept /\ ListedOnce
        /\ ListedUsable /\ PanicsKept /\ BlocksKept

-----------------------------------------------------------------------------
(* Kinds, and what the steps do to the lists.                                *)

LEMMA KindsOfConfs ==
  /\ Kinds = {"adaptors", "controllers", "drivers"}
  /\ \A c \in Adaptors : c \in Confs /\ KindOf(c) = "adaptors"
  /\ \A c \in Controllers : c \in Modules /\ KindOf(c) = "controllers"
  /\ \A c \in Drivers : c \in Modules /\ KindOf(c) = "drivers"
  /\ \A c \in Modules : c \in Confs /\ KindOf(c) \in {"controllers", "drivers"}
  /\ \A c \in Confs : KindOf(c) \in Kinds /\ c # None
BY KindsAssumption DEF Kinds, KindOf, Confs, Modules

ListsTyped ==
  /\ list \in [Objects -> [Kinds -> SliceType(Confs \cup {None})]]
  /\ \A m \in Objects, kind \in Kinds : SliceInBounds(list[m][kind])

LEMMA NamesType ==
  ASSUME ListsTyped, NEW m \in Objects, NEW kind \in Kinds
  PROVE  /\ Names(m, kind) \in Seq(Confs \cup {None})
         /\ Len(Names(m, kind)) = list[m][kind].len
BY ListingType DEF ListsTyped, Names

LEMMA ListChange ==
  ASSUME ListsTyped, NEW m \in Objects, NEW kind \in Kinds,
         NEW s \in SliceType(Confs \cup {None}), SliceInBounds(s),
         list' = [list EXCEPT ![m][kind] = s]
  PROVE  /\ ListsTyped' /\ Names(m, kind)' = Listing(s)
         /\ \A n \in Objects, other \in Kinds :
              n # m \/ other # kind => Names(n, other)' = Names(n, other)
<1>1. /\ list' \in [Objects -> [Kinds -> SliceType(Confs \cup {None})]]
      /\ list'[m][kind] = s
      /\ \A n \in Objects, other \in Kinds :
           n # m \/ other # kind => list'[n][other] = list[n][other]
  BY DEF ListsTyped
<1> QED BY <1>1 DEF ListsTyped, Names

LEMMA SettledEffect ==
  ASSUME NEW s \in SliceType(Confs \cup {None}), SliceInBounds(s)
  PROVE  /\ Settled(s) \in SliceType(Confs \cup {None}) /\ SliceInBounds(Settled(s))
         /\ Listing(Settled(s)) = Listing(s) /\ Settled(s).len = s.len
<1>1. Listing(SliceSettled(s, None)) = Listing(s) /\ SliceSettled(s, None).len = s.len
      /\ SliceSettled(s, None) \in SliceType(Confs \cup {None})
      /\ SliceInBounds(SliceSettled(s, None))
  <2>1. None \in Confs \cup {None} /\ SliceSettled(s, None).len = s.len
    BY DEF SliceSettled
  <2> QED BY <2>1, SliceSettledEffect
<1> QED BY <1>1 DEF Settled

\* A configuration is listed, at the end.
LEMMA AppendNames ==
  ASSUME ListsTyped, NEW m \in Objects, NEW conf \in Confs,
         list' = [list EXCEPT ![m][KindOf(conf)] = Settled(SliceAppend(@, conf))]
  PROVE  /\ ListsTyped' /\ Names(m, KindOf(conf))' = Append(Names(m, KindOf(conf)), conf)
         /\ \A n \in Objects, other \in Kinds :
              n # m \/ other # KindOf(conf) => Names(n, other)' = Names(n, other)
<1> DEFINE s == list[m][KindOf(conf)]
           r == SliceAppend(s, conf)
           t == Settled(r)
<1>1. KindOf(conf) \in Kinds
  BY KindsOfConfs
<1>2. s \in SliceType(Confs \cup {None}) /\ SliceInBounds(s)
  BY <1>1 DEF ListsTyped
<1>3. /\ t \in SliceType(Confs \cup {None}) /\ SliceInBounds(t)
      /\ Listing(t) = Append(Listing(s), conf)
  <2>1. /\ r \in SliceType(Confs \cup {None}) /\ SliceInBounds(r)
        /\ Listing(r) = Append(Listing(s), conf)
    BY <1>2, SliceAppendEffect
  <2> HIDE DEF r
  <2> QED BY <2>1, SettledEffect
<1>4. list' = [list EXCEPT ![m][KindOf(conf)] = t]
  OBVIOUS
<1> HIDE DEF t, r
<1>5. /\ ListsTyped' /\ Names(m, KindOf(conf))' = Listing(t)
      /\ \A n \in Objects, other \in Kinds :
           n # m \/ other # KindOf(conf) => Names(n, other)' = Names(n, other)
  BY <1>1, <1>3, <1>4, ListChange
<1> QED BY <1>3, <1>5 DEF Names

\* Entry i is taken out of a list.
LEMMA RemoveNames ==
  ASSUME ListsTyped, NEW m \in Objects, NEW kind \in Kinds,
         NEW i \in 1 .. Len(Names(m, kind)),
         list' = [list EXCEPT ![m][kind] = Settled(SliceRemove(list[m][kind], i))]
  PROVE  /\ ListsTyped' /\ Len(Names(m, kind)') = Len(Names(m, kind)) - 1
         /\ \A k \in 1 .. Len(Names(m, kind)) - 1 :
              Names(m, kind)'[k] = Names(m, kind)[IF k < i THEN k ELSE k + 1]
         /\ \A n \in Objects, other \in Kinds :
              n # m \/ other # kind => Names(n, other)' = Names(n, other)
<1> DEFINE s == list[m][kind]
           r == SliceRemove(s, i)
           t == Settled(r)
<1>1. s \in SliceType(Confs \cup {None}) /\ SliceInBounds(s) /\ i \in 1 .. s.len
  BY NamesType DEF ListsTyped
<1>2. /\ r \in SliceType(Confs \cup {None}) /\ SliceInBounds(r) /\ r.len = s.len - 1
      /\ \A k \in 1 .. r.len : Listing(r)[k] = Listing(s)[IF k < i THEN k ELSE k + 1]
  BY <1>1, SliceRemoveEffect
<1>3. /\ t \in SliceType(Confs \cup {None}) /\ SliceInBounds(t)
      /\ Listing(t) = Listing(r) /\ t.len = s.len - 1
  <2> HIDE DEF r
  <2> QED BY <1>2, SettledEffect
<1>4. list' = [list EXCEPT ![m][kind] = t]
  OBVIOUS
<1> HIDE DEF t, r
<1>5. /\ ListsTyped' /\ Names(m, kind)' = Listing(t)
      /\ \A n \in Objects, other \in Kinds :
           n # m \/ other # kind => Names(n, other)' = Names(n, other)
  BY <1>3, <1>4, ListChange
<1>6. Len(Listing(t)) = s.len - 1 /\ Len(Names(m, kind)) = s.len
  BY <1>3, ListingType, NamesType
<1>7. \A k \in 1 .. s.len - 1 : Listing(t)[k] = Listing(s)[IF k < i THEN k ELSE k + 1]
  BY <1>2, <1>3
<1> QED BY <1>5, <1>6, <1>7 DEF Names

\* What every step keeps of the lists alone.
ListsGood == ListsTyped /\ ListedOnce /\
             \A m \in Objects, kind \in Kinds : OfKind(Names(m, kind), kind)

LEMMA ListsUnchanged ==
  ASSUME ListsGood, UNCHANGED list
  PROVE  ListsGood' /\ \A n \in Objects, c \in Modules : IsListed(n, c)' <=> IsListed(n, c)
BY DEF ListsGood, ListsTyped, ListedOnce, OfKind, Once, IsListed, Names

\* An adaptor is attached, or one is detached: the modules stay listed.
LEMMA AdaptorAttached ==
  ASSUME ListsGood, NEW m \in Objects, NEW conf \in Adaptors,
         list' = [list EXCEPT ![m].adaptors = Settled(SliceAppend(@, conf))]
  PROVE  /\ ListsGood'
         /\ \A n \in Objects, c \in Modules : IsListed(n, c)' <=> IsListed(n, c)
<1> DEFINE old == Names(m, "adaptors")
<1>1. /\ ListsTyped' /\ Names(m, "adaptors")' = Append(old, conf)
      /\ \A n \in Objects, other \in Kinds :
           n # m \/ other # "adaptors" => Names(n, other)' = Names(n, other)
  BY KindsOfConfs, AppendNames DEF ListsGood
<1>2. ListedOnce'
  BY <1>1 DEF ListsGood, ListedOnce, Kinds
<1>3. OfKind(Append(old, conf), "adaptors")
  BY NamesType, KindsOfConfs, AppendProperties DEF ListsGood, OfKind
<1>4. \A n \in Objects, kind \in Kinds : OfKind(Names(n, kind)', kind)
  BY <1>1, <1>3 DEF ListsGood
<1>5. \A n \in Objects, c \in Modules : IsListed(n, c)' <=> IsListed(n, c)
  BY <1>1, KindsOfConfs DEF IsListed
<1> QED BY <1>1, <1>2, <1>4, <1>5 DEF ListsGood, OfKind

LEMMA AdaptorDetached ==
  ASSUME ListsGood, NEW m \in Objects, NEW i \in 1 .. Len(Names(m, "adaptors")),
         list' = [list EXCEPT ![m].adaptors = Settled(SliceRemove(@, i))]
  PROVE  /\ ListsGood'
         /\ \A n \in Objects, c \in Modules : IsListed(n, c)' <=> IsListed(n, c)
<1> DEFINE old == Names(m, "adaptors")
<1>1. /\ ListsTyped' /\ Len(Names(m, "adaptors")') = Len(old) - 1
      /\ \A k \in 1 .. Len(old) - 1 :
           Names(m, "adaptors")'[k] = old[IF k < i THEN k ELSE k + 1]
      /\ \A n \in Objects, other \in Kinds :
           n # m \/ other # "adaptors" => Names(n, other)' = Names(n, other)
  BY KindsOfConfs, RemoveNames DEF ListsGood
<1>2. ListedOnce'
  BY <1>1 DEF ListsGood, ListedOnce, Kinds
<1>3. OfKind(Names(m, "adaptors")', "adaptors")
  <2>1. OfKind(old, "adaptors") /\ Len(old) \in Nat
    BY NamesType, KindsOfConfs DEF ListsGood
  <2>2. \A k \in 1 .. Len(old) - 1 : (IF k < i THEN k ELSE k + 1) \in 1 .. Len(old)
    BY <2>1
  <2> QED BY <1>1, <2>1, <2>2 DEF OfKind
<1>4. \A n \in Objects, kind \in Kinds : OfKind(Names(n, kind)', kind)
  BY <1>1, <1>3 DEF ListsGood
<1>5. \A n \in Objects, c \in Modules : IsListed(n, c)' <=> IsListed(n, c)
  BY <1>1, KindsOfConfs DEF IsListed
<1> QED BY <1>1, <1>2, <1>4, <1>5 DEF ListsGood, OfKind

\* A module that was not there is listed.
LEMMA ModuleListed ==
  ASSUME ListsGood, NEW m \in Objects, NEW conf \in Modules, ~IsListed(m, conf),
         list' = [list EXCEPT ![m][KindOf(conf)] = Settled(SliceAppend(@, conf))]
  PROVE  /\ ListsGood'
         /\ \A n \in Objects, c \in Modules :
              IsListed(n, c)' <=> IsListed(n, c) \/ (n = m /\ c = conf)
<1> DEFINE kind == KindOf(conf)
           old == Names(m, kind)
           new == Append(old, conf)
<1>0. conf \in Confs /\ kind \in Kinds
  BY KindsOfConfs
<1>1. /\ ListsTyped' /\ Names(m, kind)' = new
      /\ \A n \in Objects, other \in Kinds :
           n # m \/ other # kind => Names(n, other)' = Names(n, other)
  BY <1>0, AppendNames DEF ListsGood
<1>2. /\ old \in Seq(Confs \cup {None}) /\ Len(new) = Len(old) + 1 /\ Len(old) \in Nat
      /\ new[Len(old) + 1] = conf /\ \A k \in 1 .. Len(old) : new[k] = old[k]
  BY <1>0, NamesType, AppendProperties DEF ListsGood
<1>3. \A k \in 1 .. Len(old) : old[k] # conf
  BY DEF IsListed
<1> HIDE DEF new
<1>4. OfKind(new, kind) /\ (Once(old) => Once(new))
  BY <1>0, <1>2, <1>3 DEF ListsGood, OfKind, Once
<1>5. ListedOnce'
  BY <1>0, <1>1, <1>4 DEF ListsGood, ListedOnce, Kinds, Once
<1>6. \A n \in Objects, other \in Kinds : OfKind(Names(n, other)', other)
  BY <1>1, <1>4 DEF ListsGood
<1>7. ASSUME NEW n \in Objects, NEW c \in Modules
      PROVE  IsListed(n, c)' <=> IsListed(n, c) \/ (n = m /\ c = conf)
  <2>1. CASE n # m \/ KindOf(c) # kind
    BY <1>1, <2>1, KindsOfConfs DEF IsListed
  <2>2. CASE n = m /\ KindOf(c) = kind
    <3>1. IsListed(n, c)' <=> \E k \in 1 .. Len(new) : new[k] = c
      BY <1>1, <2>2 DEF IsListed
    <3>2. IsListed(n, c) <=> \E k \in 1 .. Len(old) : old[k] = c
      BY <2>2 DEF IsListed
    <3> QED BY <1>2, <2>2, <3>1, <3>2
  <2> QED BY <2>1, <2>2
<1> QED BY <1>1, <1>5, <1>6, <1>7 DEF ListsGood, OfKind

\* A module leaves the list.
LEMMA ModuleUnlisted ==
  ASSUME ListsGood, NEW m \in Objects, NEW conf \in Modules, IsListed(m, conf),
         list' = [list EXCEPT ![m][KindOf(conf)] = Settled(SliceRemove(@,
                    CHOOSE k \in 1 .. @.len : Listing(@)[k] = conf))]
  PROVE  /\ ListsGood'
         /\ \A n \in Objects, c \in Modules :
              IsListed(n, c)' <=> IsListed(n, c) /\ ~(n = m /\ c = conf)
<1> DEFINE kind == KindOf(conf)
           old == Names(m, kind)
           i == CHOOSE k \in 1 .. list[m][kind].len : Listing(list[m][kind])[k] = conf
<1>0. kind \in {"controllers", "drivers"} /\ kind \in Kinds
  BY KindsOfConfs
<1>1. Len(old) \in Nat /\ Len(old) = list[m][kind].len
  BY <1>0, NamesType DEF ListsGood
<1>2. i \in 1 .. Len(old) /\ old[i] = conf
  BY <1>1 DEF IsListed, Names
<1>3. list' = [list EXCEPT ![m][kind] = Settled(SliceRemove(list[m][kind], i))]
  OBVIOUS
<1>4. Once(old)
  BY <1>0 DEF ListsGood, ListedOnce
<1> HIDE DEF i
<1>5. /\ ListsTyped' /\ Len(Names(m, kind)') = Len(old) - 1
      /\ \A k \in 1 .. Len(old) - 1 :
           Names(m, kind)'[k] = old[IF k < i THEN k ELSE k + 1]
      /\ \A n \in Objects, other \in Kinds :
           n # m \/ other # kind => Names(n, other)' = Names(n, other)
  BY <1>0, <1>2, <1>3, RemoveNames DEF ListsGood
<1> DEFINE new == Names(m, kind)'
<1>6. \A c : (\E k \in 1 .. Len(new) : new[k] = c)
               <=> c # conf /\ \E k \in 1 .. Len(old) : old[k] = c
  <2>1. ASSUME NEW k \in 1 .. Len(new) PROVE new[k] # conf /\ \E j \in 1 .. Len(old) : old[j] = new[k]
    <3> DEFINE j == IF k < i THEN k ELSE k + 1
    <3>1. j \in 1 .. Len(old) /\ new[k] = old[j] /\ j # i
      BY <1>1, <1>2, <1>5
    <3> QED BY <1>2, <1>4, <3>1 DEF Once
  <2>2. ASSUME NEW j \in 1 .. Len(old), old[j] # conf PROVE \E k \in 1 .. Len(new) : new[k] = old[j]
    <3> DEFINE k == IF j < i THEN j ELSE j - 1
    <3>1. j # i
      BY <1>2, <2>2
    <3>2. k \in 1 .. Len(old) - 1 /\ j = IF k < i THEN k ELSE k + 1
      BY <1>1, <1>2, <3>1
    <3> HIDE DEF k
    <3>3. k \in 1 .. Len(new) /\ new[k] = old[j]
      BY <1>5, <3>2
    <3> QED BY <3>3
  <2> QED BY <2>1, <2>2
<1>7. Once(new)
  <2> SUFFICES ASSUME NEW j \in 1 .. Len(new), NEW k \in 1 .. Len(new), new[j] = new[k]
               PROVE  j = k
    BY DEF Once
  <2> DEFINE f(x) == IF x < i THEN x ELSE x + 1
  <2>1. f(j) \in 1 .. Len(old) /\ f(k) \in 1 .. Len(old) /\ old[f(j)] = old[f(k)]
    BY SMTT(30), <1>1, <1>2, <1>5
  <2>2. f(j) = f(k)
    BY <1>4, <2>1 DEF Once
  <2> QED BY <1>1, <1>2, <1>5, <2>2
<1>8. OfKind(new, kind)
  <2>1. OfKind(old, kind)
    BY <1>0 DEF ListsGood
  <2>2. \A k \in 1 .. Len(new) : \E j \in 1 .. Len(old) : old[j] = new[k]
    BY <1>6
  <2> QED BY <2>1, <2>2 DEF OfKind
<1>9. ListedOnce'
  BY <1>0, <1>5, <1>7 DEF ListsGood, ListedOnce, Kinds, Once
<1>10. \A n \in Objects, other \in Kinds : OfKind(Names(n, other)', other)
  BY <1>5, <1>8 DEF ListsGood
<1>11. ASSUME NEW n \in Objects, NEW c \in Modules
       PROVE  IsListed(n, c)' <=> IsListed(n, c) /\ ~(n = m /\ c = conf)
  <2>1. CASE n # m \/ KindOf(c) # kind
    BY <1>5, <2>1, KindsOfConfs DEF IsListed
  <2>2. CASE n = m /\ KindOf(c) = kind
    <3>1. IsListed(n, c)' <=> \E k \in 1 .. Len(new) : new[k] = c
      BY <2>2 DEF IsListed
    <3>2. IsListed(n, c) <=> \E k \in 1 .. Len(old) : old[k] = c
      BY <2>2 DEF IsListed
    <3> QED BY <1>6, <2>2, <3>1, <3>2
  <2> QED BY <2>1, <2>2
<1> QED BY <1>5, <1>9, <1>10, <1>11 DEF ListsGood, OfKind

-----------------------------------------------------------------------------
(* Starting and stopping a module.                                           *)

InstType == [worker : {"none", "running"}, closed : BOOLEAN, done : {0, 1},
             master : BOOLEAN]
InstTyped == inst \in [Objects -> [Modules -> InstType]]

\* The request of c changes, which was not stuck.
LEMMA StuckMoves ==
  ASSUME NEW c \in Clients, req = [d \in Clients |-> req[d]], NEW r,
         req' = [req EXCEPT ![c] = r], req[c].pc # "blocked", NEW n, NEW conf
  PROVE  Stuck(n, conf)' <=> Stuck(n, conf) \/ (r.pc = "blocked" /\ r.m = n /\ r.conf = conf)
<1>1. req'[c] = r /\ \A d \in Clients : d # c => req'[d] = req[d]
  OBVIOUS
<1> QED BY <1>1 DEF Stuck

\* One module of one object changes.
LEMMA UsableStays ==
  ASSUME ListedUsable, InstTyped, NEW m \in Objects, NEW conf \in Modules,
         NEW x \in InstType, inst' = [inst EXCEPT ![m][conf] = x],
         \A n \in Objects, c \in Modules :
           n # m \/ c # conf => /\ IsListed(n, c)' <=> IsListed(n, c)
                                /\ Stuck(n, c)' <=> Stuck(n, c),
         Running(m, conf)' => IsListed(m, conf)',
         IsListed(m, conf)' /\ conf \notin Unknown \cup FaultyDevice => Stoppable(m, conf)'
  PROVE  InstTyped' /\ ListedUsable' /\ inst'[m][conf] = x
<1>1. /\ InstTyped' /\ inst'[m][conf] = x
      /\ \A n \in Objects, c \in Modules : n # m \/ c # conf => inst'[n][c] = inst[n][c]
  BY DEF InstTyped
<1>2. ASSUME NEW n \in Objects, NEW c \in Modules
      PROVE  /\ Running(n, c)' => IsListed(n, c)'
             /\ IsListed(n, c)' /\ c \notin Unknown \cup FaultyDevice => Stoppable(n, c)'
  BY <1>1 DEF ListedUsable, Running, Ending, Stoppable, NoMaster
<1> QED BY <1>1, <1>2 DEF ListedUsable

\* No module changes.
LEMMA UsableSame ==
  ASSUME InstTyped, ListedUsable, UNCHANGED inst,
         \A n \in Objects, c \in Modules : /\ IsListed(n, c)' <=> IsListed(n, c)
                                           /\ Stuck(n, c)' <=> Stuck(n, c)
  PROVE  /\ InstTyped' /\ ListedUsable'
         /\ \A n \in Objects, c \in Modules : Hopeless(n, c)' <=> Hopeless(n, c)
BY DEF InstTyped, ListedUsable, Running, Ending, Stoppable, NoMaster, Hopeless

LEMMA UsableUnchanged ==
  ASSUME ListsGood, InstTyped, ListedUsable, UNCHANGED <<list, inst>>,
         \A n \in Objects, c \in Modules : Stuck(n, c)' <=> Stuck(n, c)
  PROVE  /\ ListsGood' /\ InstTyped' /\ ListedUsable'
         /\ \A n \in Objects, c \in Modules : Hopeless(n, c)' <=> Hopeless(n, c)
<1>1. ListsGood' /\ \A n \in Objects, c \in Modules : IsListed(n, c)' <=> IsListed(n, c)
  BY ListsUnchanged
<1> QED BY <1>1, UsableSame

\* How the request of c leaves a call of StopController, StopDriver or DetachAdaptor.
StopOutcome(c, m, conf) ==
  \E r :
    /\ Fields(r) /\ req' = [req EXCEPT ![c] = r] /\ r.m = m
    /\ \/ /\ r.pc \in {"save", "blocked"} /\ r.op = req[c].op
          /\ r.pc = "blocked" => r.conf = conf /\ conf \in MayFail
          /\ mutex' = [mutex EXCEPT ![m] = c] /\ mapMU' = mapMU
       \/ /\ r.pc = "idle" /\ r.op = "" /\ r.conf = conf
          /\ conf \in Unknown \cup FaultyDevice \/ (conf \in Modules /\ Hopeless(m, conf))
          /\ mutex' = [mutex EXCEPT ![m] = None]
          /\ mapMU' = IF mapMU = c THEN None ELSE mapMU

\* What it leaves of the modules.
StopKept ==
  /\ ListsGood' /\ InstTyped' /\ ListedUsable'
  /\ \A n \in Objects, d \in Modules : Hopeless(n, d) => Hopeless(n, d)'

LEMMA SavesAfterStop ==
  ASSUME NEW c \in Clients, Fields(req[c]), NEW m, req[c].m = m, mapMU' = mapMU,
         NEW conf, mutex' = [mutex EXCEPT ![m] = c],
         req' = [req EXCEPT ![c].pc = "save"] \/ Failed(c, conf)
  PROVE  /\ StopOutcome(c, m, conf)
         /\ \E r : req' = [req EXCEPT ![c] = r] /\ r.pc = "save"
<1>1. CASE req' = [req EXCEPT ![c].pc = "save"]
  <2> DEFINE r == [req[c] EXCEPT !.pc = "save"]
  <2>1. Fields(r) /\ r.pc = "save" /\ r.op = req[c].op /\ r.m = req[c].m
    BY DEF Fields
  <2>2. req' = [req EXCEPT ![c] = r]
    BY <1>1
  <2> HIDE DEF r
  <2> QED BY <2>1, <2>2 DEF StopOutcome
<1>2. CASE Failed(c, conf)
  <2> DEFINE r == [req[c] EXCEPT !.pc = "save", !.failed = TRUE, !.conf = conf]
  <2>1. Fields(r) /\ r.pc = "save" /\ r.op = req[c].op /\ r.m = req[c].m
    BY DEF Fields
  <2>2. req' = [req EXCEPT ![c] = r]
    BY <1>2 DEF Failed
  <2> HIDE DEF r
  <2> QED BY <2>1, <2>2 DEF StopOutcome
<1> QED BY <1>1, <1>2

LEMMA WaitsAfterStop ==
  ASSUME NEW c \in Clients, Fields(req[c]), NEW m, req[c].m = m,
         NEW conf \in MayFail, Waits(c, m, conf)
  PROVE  /\ StopOutcome(c, m, conf)
         /\ \E r : req' = [req EXCEPT ![c] = r] /\ r.pc = "blocked" /\ r.m = m /\ r.conf = conf
<1> DEFINE r == [req[c] EXCEPT !.pc = "blocked", !.conf = conf]
<1>1. Fields(r) /\ r.pc = "blocked" /\ r.op = req[c].op /\ r.m = req[c].m /\ r.conf = conf
  BY DEF Fields
<1>2. req' = [req EXCEPT ![c] = r] /\ mutex' = [mutex EXCEPT ![m] = c] /\ mapMU' = mapMU
  BY DEF Waits
<1> HIDE DEF r
<1> QED BY <1>1, <1>2 DEF StopOutcome

LEMMA PanicsAfterStop ==
  ASSUME NEW c \in Clients, NEW m, NEW conf, Panic(c, m, conf),
         conf \in Unknown \cup FaultyDevice \/ (conf \in Modules /\ Hopeless(m, conf))
  PROVE  /\ StopOutcome(c, m, conf)
         /\ \E r : req' = [req EXCEPT ![c] = r] /\ r.pc = "idle"
<1> DEFINE r == [Idle("panic") EXCEPT !.conf = conf, !.m = m]
<1>1. Fields(r) /\ r.pc = "idle" /\ r.op = "" /\ r.m = m /\ r.conf = conf
  BY DEF Idle, Fields
<1>2. /\ req' = [req EXCEPT ![c] = r] /\ mutex' = [mutex EXCEPT ![m] = None]
      /\ mapMU' = IF mapMU = c THEN None ELSE mapMU
  BY DEF Panic
<1> HIDE DEF r
<1> QED BY <1>1, <1>2 DEF StopOutcome

\* The request c is about to stop a module of the object m.
Stopping(c, m) ==
  /\ req = [d \in Clients |-> req[d]] /\ Fields(req[c]) /\ req[c].m = m
  /\ req[c].pc # "blocked" /\ \A conf \in Modules : ~Stuck(m, conf)

\* The rest of Stop: a module that was stopped before is one that had failed.
LEMMA ShutModuleEffect ==
  ASSUME ListsGood, InstTyped, ListedUsable, NEW c \in Clients, NEW m \in Objects,
         Stopping(c, m), NEW conf \in Modules, IsListed(m, conf), NEW withInst,
         withInst = inst \/ withInst = [inst EXCEPT ![m][conf].done = 1],
         ShutModule(c, m, conf, withInst)
  PROVE  StopKept /\ StopOutcome(c, m, conf)
<1> DEFINE x == [withInst[m][conf] EXCEPT !.closed = TRUE]
<1>1. inst[m][conf] \in InstType
  BY DEF InstTyped
<1>2. /\ x \in InstType /\ x.closed /\ inst' = [inst EXCEPT ![m][conf] = x]
      /\ x.master = inst[m][conf].master
  <2>1. inst' = [withInst EXCEPT ![m][conf].closed = TRUE]
    BY DEF ShutModule
  <2>2. CASE withInst = inst
    BY <1>1, <2>1, <2>2 DEF InstType, InstTyped
  <2>3. CASE withInst = [inst EXCEPT ![m][conf].done = 1]
    <3>1. withInst[m][conf] = [inst[m][conf] EXCEPT !.done = 1]
      BY <1>1, <2>3 DEF InstTyped
    <3>2. x \in InstType /\ x.closed /\ x.master = inst[m][conf].master
      BY <1>1, <3>1 DEF InstType
    <3>3. inst' = [inst EXCEPT ![m][conf] = x]
      BY <2>1, <2>3, <3>1 DEF InstTyped
    <3> QED BY <3>2, <3>3
  <2> QED BY <2>2, <2>3
<1> HIDE DEF x
<1>3. inst'[m][conf] = x /\ (\A n \in Objects, d \in Modules : n # m \/ d # conf => inst'[n][d] = inst[n][d])
  BY <1>2 DEF InstTyped
<1>4. ASSUME NEW r, req' = [req EXCEPT ![c] = r], r.pc # "blocked"
      PROVE  \A n \in Objects, d \in Modules : Stuck(n, d)' <=> Stuck(n, d)
  BY <1>4, StuckMoves DEF Stopping
<1>5. ASSUME UNCHANGED list, conf \in Unknown \cup FaultyDevice \/ NoMaster(m, conf),
             NEW r, req' = [req EXCEPT ![c] = r], r.pc # "blocked"
      PROVE  StopKept
  <2>1. ListsGood' /\ \A n \in Objects, d \in Modules : IsListed(n, d)' <=> IsListed(n, d)
    BY <1>5, ListsUnchanged
  <2>2. NoMaster(m, conf)' <=> NoMaster(m, conf)
    BY <1>2, <1>3 DEF NoMaster
  <2>3. /\ Running(m, conf)' => IsListed(m, conf)'
        /\ conf \notin Unknown \cup FaultyDevice => Stoppable(m, conf)'
    BY <1>5, <2>1, <2>2 DEF Stoppable, NoMaster
  <2>4. InstTyped' /\ ListedUsable'
    BY <1>2, <1>4, <1>5, <2>1, <2>3, UsableStays
  <2>5. \A n \in Objects, d \in Modules : Hopeless(n, d) => Hopeless(n, d)'
    BY <1>3, <2>1, <2>2 DEF Hopeless, NoMaster
  <2> QED BY <2>1, <2>4, <2>5 DEF StopKept
<1>6. CASE inst[m][conf].closed \/ NoMaster(m, conf)
  <2>1. Panic(c, m, conf) /\ UNCHANGED list
    BY <1>6 DEF ShutModule, Panic
  <2>2. conf \in Unknown \cup FaultyDevice \/ NoMaster(m, conf)
    BY <1>6 DEF ListedUsable, Stoppable, Stopping
  <2>3. /\ StopOutcome(c, m, conf)
        /\ \E r : req' = [req EXCEPT ![c] = r] /\ r.pc = "idle"
    BY <2>1, <2>2, PanicsAfterStop DEF Hopeless
  <2> QED BY <1>5, <2>1, <2>2, <2>3
<1>7. CASE ~inst[m][conf].closed /\ ~NoMaster(m, conf) /\ conf \in Unknown
  <2>1. Failed(c, conf) /\ UNCHANGED <<list, mapMU>> /\ mutex' = [mutex EXCEPT ![m] = c]
    BY <1>7 DEF ShutModule
  <2>2. /\ StopOutcome(c, m, conf)
        /\ \E r : req' = [req EXCEPT ![c] = r] /\ r.pc = "save"
    BY <2>1, SavesAfterStop DEF Stopping
  <2> QED BY <1>5, <1>7, <2>1, <2>2
<1>8. CASE ~inst[m][conf].closed /\ ~NoMaster(m, conf) /\ conf \notin Unknown
  <2>1. /\ req' = [req EXCEPT ![c].pc = "save"] /\ mapMU' = mapMU
        /\ mutex' = [mutex EXCEPT ![m] = c]
        /\ list' = [list EXCEPT ![m][KindOf(conf)] = Settled(SliceRemove(@,
                      CHOOSE k \in 1 .. @.len : Listing(@)[k] = conf))]
    BY <1>8 DEF ShutModule
  <2>2. /\ StopOutcome(c, m, conf)
        /\ \E r : req' = [req EXCEPT ![c] = r] /\ r.pc = "save"
    BY <2>1, SavesAfterStop DEF Stopping
  <2>3. \A n \in Objects, d \in Modules : Stuck(n, d)' <=> Stuck(n, d)
    BY <1>4, <2>2
  <2>4. /\ ListsGood'
        /\ \A n \in Objects, d \in Modules :
             IsListed(n, d)' <=> IsListed(n, d) /\ ~(n = m /\ d = conf)
    BY <2>1, ModuleUnlisted
  <2>5. ~Running(m, conf)'
    BY <1>2, <1>3, <1>8, <2>3 DEF Running, Ending, NoMaster, Stopping
  <2>6. InstTyped' /\ ListedUsable'
    BY <1>2, <2>3, <2>4, <2>5, UsableStays
  <2>7. \A n \in Objects, d \in Modules : Hopeless(n, d) => Hopeless(n, d)'
    BY <1>3, <1>8, <2>4 DEF Hopeless, NoMaster
  <2> QED BY <2>2, <2>4, <2>6, <2>7 DEF StopKept
<1> QED BY <1>6, <1>7, <1>8

\* The entry DetachAdaptor looks for is there.
LEMMA FirstListed ==
  ASSUME ListsTyped, NEW m \in Objects, NEW conf \in Adaptors, IsListed(m, conf)
  PROVE  LET a == list[m].adaptors
         IN (CHOOSE k \in 1 .. a.len :
               Listing(a)[k] = conf /\ \A j \in 1 .. k - 1 : Listing(a)[j] # conf)
              \in 1 .. a.len
<1> DEFINE a == list[m].adaptors
           T == {k \in 1 .. a.len : Listing(a)[k] = conf}
<1>1. Len(Listing(a)) = a.len /\ a.len \in Nat /\ Names(m, "adaptors") = Listing(a)
  BY NamesType, KindsOfConfs DEF Names
<1>2. T \in SUBSET Nat /\ T # {}
  BY <1>1, KindsOfConfs DEF IsListed
<1>3. PICK k \in T : \A j \in T : k <= j
  <2> HIDE DEF T
  <2> QED BY <1>2, LeastNatural
<1>4. k \in 1 .. a.len /\ Listing(a)[k] = conf /\ \A j \in 1 .. k - 1 : Listing(a)[j] # conf
  BY <1>1, <1>3
<1> QED BY <1>4

\* A Stop that changes no list, and of one module that is listed the instance.
LEMMA ListedStops ==
  ASSUME ListsGood, InstTyped, ListedUsable, NEW c \in Clients, NEW m \in Objects,
         Stopping(c, m), NEW conf \in Modules, IsListed(m, conf), UNCHANGED list,
         NEW x \in InstType, inst' = [inst EXCEPT ![m][conf] = x],
         x.master = inst[m][conf].master,
         NEW r, req' = [req EXCEPT ![c] = r],
         r.pc = "blocked" => r.m = m /\ r.conf = conf,
         \/ conf \in Unknown \cup FaultyDevice
         \/ conf \in Plugins /\ r.pc = "blocked"
  PROVE  StopKept
<1>1. ListsGood' /\ \A n \in Objects, d \in Modules : IsListed(n, d)' <=> IsListed(n, d)
  BY ListsUnchanged
<1>2. \A n \in Objects, d \in Modules :
        Stuck(n, d)' <=> Stuck(n, d) \/ (r.pc = "blocked" /\ r.m = n /\ r.conf = d)
  BY StuckMoves DEF Stopping
<1>3. /\ Running(m, conf)' => IsListed(m, conf)'
      /\ IsListed(m, conf)' /\ conf \notin Unknown \cup FaultyDevice => Stoppable(m, conf)'
  BY <1>1, <1>2 DEF Stoppable
<1>4. InstTyped' /\ ListedUsable'
  <2>1. \A n \in Objects, d \in Modules :
          n # m \/ d # conf => /\ IsListed(n, d)' <=> IsListed(n, d)
                               /\ Stuck(n, d)' <=> Stuck(n, d)
    BY <1>1, <1>2
  <2>2. Running(m, conf)' => IsListed(m, conf)'
    BY <1>3
  <2>3. IsListed(m, conf)' /\ conf \notin Unknown \cup FaultyDevice => Stoppable(m, conf)'
    BY <1>3
  <2> QED BY <2>1, <2>2, <2>3, UsableStays
<1>5. inst'[m][conf] = x /\ \A n \in Objects, d \in Modules : n # m \/ d # conf => inst'[n][d] = inst[n][d]
  BY DEF InstTyped
<1>6. \A n \in Objects, d \in Modules : Hopeless(n, d) => Hopeless(n, d)'
  BY <1>1, <1>5 DEF Hopeless, NoMaster
<1> QED BY <1>1, <1>4, <1>6 DEF StopKept

LEMMA StopModuleEffect ==
  ASSUME ListsGood, InstTyped, ListedUsable, NEW c \in Clients, NEW m \in Objects,
         Stopping(c, m), NEW conf, StopModule(c, m, conf)
  PROVE  StopKept /\ StopOutcome(c, m, conf)
<1>0. ASSUME NEW r, req' = [req EXCEPT ![c] = r], r.pc # "blocked"
      PROVE  \A n \in Objects, d \in Modules : Stuck(n, d)' <=> Stuck(n, d)
  BY <1>0, StuckMoves DEF Stopping
<1>1. CASE NotFound(c, m, conf)
  <2>1. /\ StopOutcome(c, m, conf)
        /\ \E r : req' = [req EXCEPT ![c] = r] /\ r.pc = "save"
    BY <1>1, SavesAfterStop DEF NotFound, Stopping
  <2>2. \A n \in Objects, d \in Modules : Stuck(n, d)' <=> Stuck(n, d)
    BY <1>0, <2>1
  <2>3. StopKept
    BY <1>1, <2>2, UsableUnchanged DEF NotFound, StopKept
  <2> QED BY <2>1, <2>3
<1>2. CASE DetachAdaptor(c, m, conf)
  <2> DEFINE a == list[m].adaptors
             i == CHOOSE k \in 1 .. a.len :
                    Listing(a)[k] = conf /\ \A j \in 1 .. k - 1 : Listing(a)[j] # conf
  <2>1. conf \in Adaptors /\ IsListed(m, conf) /\ KindOf(conf) = "adaptors"
    BY <1>2, KindsOfConfs DEF DetachAdaptor
  <2>2. Len(Listing(a)) = a.len /\ Names(m, "adaptors") = Listing(a)
    BY NamesType, KindsOfConfs DEF ListsGood, Names
  <2>3. i \in 1 .. a.len
    BY <2>1, FirstListed DEF ListsGood
  <2>4. list' = [list EXCEPT ![m].adaptors = Settled(SliceRemove(@, i))]
    BY <1>2 DEF DetachAdaptor
  <2> HIDE DEF i
  <2>5. /\ ListsGood'
        /\ \A n \in Objects, d \in Modules : IsListed(n, d)' <=> IsListed(n, d)
    BY <2>2, <2>3, <2>4, AdaptorDetached
  <2>6. /\ StopOutcome(c, m, conf)
        /\ \E r : req' = [req EXCEPT ![c] = r] /\ r.pc = "save"
    BY <1>2, SavesAfterStop DEF DetachAdaptor, Stopping
  <2>7. StopKept
    BY <1>0, <1>2, <2>5, <2>6, UsableSame DEF DetachAdaptor, StopKept
  <2> QED BY <2>6, <2>7
<1>3. CASE StopController(c, m, conf)
  <2>1. conf \in Modules /\ IsListed(m, conf)
    BY <1>3, KindsOfConfs DEF StopController
  <2>2. CASE ShutModule(c, m, conf, inst)
    BY <2>1, <2>2, ShutModuleEffect
  <2>3. CASE /\ conf \in Plugins /\ inst' = [inst EXCEPT ![m][conf].closed = TRUE]
             /\ Waits(c, m, conf)
    <3> DEFINE x == [inst[m][conf] EXCEPT !.closed = TRUE]
    <3>1. x \in InstType /\ x.master = inst[m][conf].master
      <4>1. inst[m][conf] \in InstType
        BY <2>1 DEF InstTyped
      <4> QED BY <4>1 DEF InstType
    <3>2. inst' = [inst EXCEPT ![m][conf] = x] /\ UNCHANGED list
      BY <2>3 DEF InstTyped, Waits
    <3> HIDE DEF x
    <3>3. /\ StopOutcome(c, m, conf)
          /\ \E r : req' = [req EXCEPT ![c] = r] /\ r.pc = "blocked" /\ r.m = m /\ r.conf = conf
      BY <2>3, WaitsAfterStop DEF MayFail, Stopping
    <3>4. StopKept
      <4>1. PICK r : req' = [req EXCEPT ![c] = r] /\ r.pc = "blocked" /\ r.m = m /\ r.conf = conf
        BY <3>3
      <4>2. conf \in Plugins
        BY <2>3
      <4> QED BY <2>1, <3>1, <3>2, <4>1, <4>2, ListedStops
    <3> QED BY <3>3, <3>4
  <2> QED BY <1>3, <2>2, <2>3 DEF StopController
<1>4. CASE StopDriver(c, m, conf)
  <2>1. conf \in Modules /\ IsListed(m, conf) /\ conf \in Drivers /\ conf \notin Plugins
    BY <1>4, KindsOfConfs, KindsAssumption, ConfAssumption DEF StopDriver
  <2>2. inst[m][conf] \in InstType
    BY <2>1 DEF InstTyped
  <2>3. CASE DoneFull(m, conf)
    <3>1. UNCHANGED <<list, inst>> /\ Waits(c, m, conf)
      BY <1>4, <2>3 DEF StopDriver, Waits
    <3>2. conf \in Unknown \cup FaultyDevice
      BY <2>1, <2>3 DEF DoneFull, ListedUsable, Stoppable
    <3>3. /\ StopOutcome(c, m, conf)
          /\ \E r : req' = [req EXCEPT ![c] = r] /\ r.pc = "blocked" /\ r.m = m /\ r.conf = conf
      BY <3>1, <3>2, WaitsAfterStop DEF MayFail, Stopping
    <3>4. PICK x \in InstType : x = inst[m][conf]
      BY <2>2
    <3>5. inst' = [inst EXCEPT ![m][conf] = x] /\ UNCHANGED list
      BY <2>1, <3>1, <3>4 DEF InstTyped
    <3>6. PICK r : req' = [req EXCEPT ![c] = r] /\ r.m = m /\ r.conf = conf
      BY <3>3
    <3>7. StopKept
      BY <2>1, <3>2, <3>4, <3>5, <3>6, ListedStops
    <3> QED BY <3>3, <3>7
  <2>4. CASE ~DoneFull(m, conf)
    <3> DEFINE sent == [inst EXCEPT ![m][conf].done = 1]
    <3>1. CASE ShutModule(c, m, conf, sent)
      <4> HIDE DEF sent
      <4>1. sent = [inst EXCEPT ![m][conf].done = 1]
        BY DEF sent
      <4> QED BY <2>1, <3>1, <4>1, ShutModuleEffect
    <3>2. CASE /\ conf \in FaultyDevice /\ inst' = sent /\ Failed(c, conf)
               /\ mutex' = [mutex EXCEPT ![m] = c] /\ UNCHANGED <<list, mapMU>>
      <4> DEFINE x == [inst[m][conf] EXCEPT !.done = 1]
      <4>1. x \in InstType /\ x.master = inst[m][conf].master
        BY <2>2 DEF InstType
      <4>2. inst' = [inst EXCEPT ![m][conf] = x]
        BY <3>2 DEF InstTyped
      <4> HIDE DEF x
      <4>3. /\ StopOutcome(c, m, conf)
            /\ \E r : req' = [req EXCEPT ![c] = r] /\ r.pc = "save"
        BY <3>2, SavesAfterStop DEF Stopping
      <4>4. StopKept
        <5>1. PICK r : req' = [req EXCEPT ![c] = r] /\ r.pc = "save"
          BY <4>3
        <5>2. conf \in Unknown \cup FaultyDevice /\ UNCHANGED list
          BY <3>2
        <5> QED BY <2>1, <4>1, <4>2, <5>1, <5>2, ListedStops
      <4> QED BY <4>3, <4>4
    <3> QED BY <1>4, <2>4, <3>1, <3>2 DEF StopDriver
  <2> QED BY <2>3, <2>4
<1> QED BY <1>1, <1>2, <1>3, <1>4 DEF StopModule

-----------------------------------------------------------------------------
(* The requests.                                                             *)

Pcs == {"idle", "join", "joined", "found", "save", "blocked", "loop", "erase"}
AtWork == {"joined", "found", "save", "blocked", "loop", "erase"}

\* The invariant, without the lists and what they hold.
RequestsGood ==
  /\ RequestsKept /\ LocksHeld /\ BlocksKept
  /\ \A c \in Clients : req[c].pc \in Pcs /\ req[c].m \in 0 .. MaxMachines
  /\ reg \in 0 .. made /\ made \in 0 .. MaxMachines
  /\ mutex \in [Objects -> Clients \cup {None}] /\ mapMU \in Clients \cup {None}

\* The request of c becomes r.  The locks change only from or to c, if at all.
Moves(c, r) ==
  /\ req' = [req EXCEPT ![c] = r] /\ Fields(r)
  /\ r.pc \in Pcs /\ r.m \in 0 .. MaxMachines
  /\ r.pc \in AtWork => r.m \in Objects
  /\ r.pc \in {"save", "blocked"} => mutex'[r.m] = c
  /\ r.pc \in {"loop", "erase"} => r.op = "leave"
  /\ r.op = "leave" <=> mapMU' = c
  /\ r.pc = "idle" => r.op = ""
  /\ r.pc \in {"join", "joined", "found"} => r.op # "leave"
  /\ r.pc = "blocked" => r.conf \in MayFail
  /\ \/ mutex' = mutex
     \/ \E m \in Objects : /\ mutex[m] \in {None, c}
                           /\ \E d \in {None, c} : mutex' = [mutex EXCEPT ![m] = d]
  /\ mapMU' = mapMU \/ {mapMU, mapMU'} \subseteq {None, c}

\* No request gets stuck or panics.
Calm == /\ \A n \in Objects, conf \in Modules : Stuck(n, conf)' <=> Stuck(n, conf)
        /\ \A d \in Clients : req'[d].pc = "idle" /\ req'[d].last = "panic" =>
                                  req'[d] = req[d]

\* The count of those that join.
LEMMA JoiningMoves ==
  ASSUME RequestsGood, NEW c \in Clients, NEW r, req' = [req EXCEPT ![c] = r]
  PROVE  /\ IsFiniteSet(Joining') /\ Cardinality(Joining) \in Nat
         /\ Cardinality(Joining') \in Nat
         /\ Cardinality(Joining') <= Cardinality(Joining) + 1
         /\ r.pc # "join" => Cardinality(Joining') <= Cardinality(Joining)
         /\ r.pc # "join" /\ req[c].pc = "join" =>
              Cardinality(Joining') + 1 = Cardinality(Joining)
<1>0. IsFiniteSet(Joining) /\ Cardinality(Joining) \in Nat
  BY FS_CardinalityType DEF RequestsGood, RequestsKept
<1>1. /\ req'[c] = r /\ \A d \in Clients : d # c => req'[d] = req[d]
  BY DEF RequestsGood, RequestsKept
<1>2. CASE r.pc = "join"
  <2>1. Joining' = Joining \cup {c}
    BY <1>1, <1>2 DEF Joining
  <2>2. /\ IsFiniteSet(Joining')
        /\ Cardinality(Joining') \in {Cardinality(Joining), Cardinality(Joining) + 1}
    BY <1>0, <2>1, FS_AddElement
  <2> QED BY <1>0, <1>2, <2>2
<1>3. CASE r.pc # "join"
  <2>1. Joining' = Joining \ {c}
    BY <1>1, <1>3 DEF Joining
  <2>2. c \in Joining <=> req[c].pc = "join"
    BY DEF Joining
  <2>3. /\ IsFiniteSet(Joining') /\ Cardinality(Joining') \in Nat
        /\ Cardinality(Joining') = IF c \in Joining THEN Cardinality(Joining) - 1
                                   ELSE Cardinality(Joining)
    BY <1>0, <2>1, FS_RemoveElement, FS_CardinalityType
  <2> QED BY <1>0, <1>3, <2>2, <2>3
<1> QED BY <1>2, <1>3

LEMMA RequestMoves ==
  ASSUME RequestsGood, daemon = "up", daemon' = daemon,
         NEW c \in Clients, NEW r, Moves(c, r),
         \/ made' = made /\ r.pc # "join"
         \/ made' = made /\ made + Cardinality(Joining) < MaxMachines
         \/ made' = made + 1 /\ req[c].pc = "join" /\ r.pc # "join",
         reg' \in {0, reg, made'}
  PROVE  /\ RequestsGood'
         /\ req[c].pc # "blocked" /\ r.pc # "blocked"
            /\ (r.pc = "idle" => r.last # "panic") => Calm
<1>1. /\ req'[c] = r /\ \A d \in Clients : d # c => req'[d] = req[d]
      /\ req' = [d \in Clients |-> req'[d]]
  BY DEF Moves, RequestsGood, RequestsKept
<1>2. /\ IsFiniteSet(Joining') /\ made' + Cardinality(Joining') <= MaxMachines
      /\ made' \in 0 .. MaxMachines /\ reg' \in 0 .. made'
  <2>0. MaxMachines \in Nat
    BY BoundAssumption
  <2>1. made \in Nat /\ made + Cardinality(Joining) <= MaxMachines
    <3>1. made \in 0 .. MaxMachines /\ RequestsKept
      BY DEF RequestsGood
    <3>2. made + Cardinality(Joining) <= MaxMachines
      BY <3>1 DEF RequestsKept
    <3> QED BY <2>0, <3>1, <3>2
  <2>2. /\ IsFiniteSet(Joining') /\ Cardinality(Joining) \in Nat
        /\ Cardinality(Joining') \in Nat
        /\ Cardinality(Joining') <= Cardinality(Joining) + 1
        /\ r.pc # "join" => Cardinality(Joining') <= Cardinality(Joining)
        /\ r.pc # "join" /\ req[c].pc = "join" =>
             Cardinality(Joining') + 1 = Cardinality(Joining)
    BY JoiningMoves DEF Moves
  <2> QED BY <2>0, <2>1, <2>2 DEF RequestsGood
<1>3. RequestsKept'
  <2>1. \A d \in Clients : Fields(req'[d])
    BY <1>1 DEF Moves, RequestsGood, RequestsKept
  <2>2. ASSUME NEW d \in Clients
        PROVE  /\ req'[d].pc \in AtWork => req'[d].m \in Objects
               /\ req'[d].pc \in {"loop", "erase"} \/ mapMU' = d => req'[d].op = "leave"
               /\ req'[d].pc = "idle" => req'[d].op = ""
               /\ req'[d].pc \in {"join", "joined", "found"} => req'[d].op # "leave"
    <3>1. CASE d = c
      BY <1>1, <3>1 DEF Moves
    <3>2. CASE d # c
      <4>1. mapMU' = d => mapMU = d
        BY <3>2, KindsAssumption DEF Moves
      <4> QED BY <1>1, <3>2, <4>1 DEF RequestsGood, RequestsKept, AtWork
    <3> QED BY <3>1, <3>2
  <2> QED BY <1>1, <1>2, <2>1, <2>2 DEF RequestsKept, Fields, AtWork, Objects
<1>4. LocksHeld'
  <2> SUFFICES ASSUME NEW d \in Clients
               PROVE  /\ req'[d].pc \in {"save", "blocked"} => mutex'[req'[d].m] = d
                      /\ req'[d].op = "leave" => mapMU' = d
                      /\ mapMU' = d => req'[d].pc # "idle"
    BY DEF LocksHeld
  <2>1. CASE d = c
    BY <1>1, <2>1 DEF Moves
  <2>2. CASE d # c
    <3>1. req'[d] = req[d] /\ d # None
      BY <1>1, <2>2, KindsAssumption
    <3>2. ASSUME req[d].pc \in {"save", "blocked"} PROVE mutex'[req[d].m] = d
      <4>1. mutex[req[d].m] = d /\ req[d].m \in Objects
        BY <3>2 DEF RequestsGood, RequestsKept, LocksHeld
      <4> QED BY <2>2, <3>1, <4>1 DEF Moves, RequestsGood
    <3>3. /\ req[d].op = "leave" => mapMU' = d
          /\ mapMU' = d => req[d].pc # "idle"
      BY <2>2, <3>1 DEF Moves, RequestsGood, LocksHeld
    <3> QED BY <3>1, <3>2, <3>3
  <2> QED BY <2>1, <2>2
<1>5. BlocksKept'
  BY <1>1 DEF Moves, RequestsGood, BlocksKept
<1>6. /\ mutex' \in [Objects -> Clients \cup {None}] /\ mapMU' \in Clients \cup {None}
      /\ \A d \in Clients : req'[d].pc \in Pcs /\ req'[d].m \in 0 .. MaxMachines
  BY ZenonT(40), <1>1 DEF Moves, RequestsGood
<1>7. ASSUME req[c].pc # "blocked", r.pc # "blocked", r.pc = "idle" => r.last # "panic"
      PROVE  Calm
  <2>1. req = [d \in Clients |-> req[d]] /\ req' = [req EXCEPT ![c] = r]
    BY DEF Moves, RequestsGood, RequestsKept
  <2>2. \A n \in Objects, conf \in Modules : Stuck(n, conf)' <=> Stuck(n, conf)
    BY <1>7, <2>1, StuckMoves
  <2>3. \A d \in Clients : req'[d].pc = "idle" /\ req'[d].last = "panic" =>
                              req'[d] = req[d]
    BY <1>1, <1>7
  <2> QED BY <2>2, <2>3 DEF Calm
<1> QED BY <1>2, <1>3, <1>4, <1>5, <1>6, <1>7 DEF RequestsGood

LEMMA ObjectBounds == Objects \subseteq 0 .. MaxMachines /\ 0 \in 0 .. MaxMachines
<1>1. MaxMachines \in Nat
  BY BoundAssumption
<1> QED BY <1>1 DEF Objects

\* What a request in progress goes by.
LEMMA ServingFacts ==
  ASSUME RequestsGood, NEW c \in Clients
  PROVE  /\ Fields(req[c]) /\ req[c].pc \in Pcs /\ c # None
         /\ req[c].pc # "idle" => daemon = "up"
         /\ req[c].pc = "idle" => req[c].op = ""
         /\ req[c].pc \in {"join", "joined", "found"} => req[c].op # "leave"
         /\ req[c].pc \in AtWork => req[c].m \in Objects
         /\ req[c].m \in 0 .. MaxMachines
         /\ req[c].pc \in {"loop", "erase"} => req[c].op = "leave"
         /\ req[c].op = "leave" <=> mapMU = c
         /\ req[c].pc \in {"save", "blocked"} => mutex[req[c].m] = c
         /\ reg # 0 => reg \in Objects
<1>1. c # None
  BY KindsAssumption
<1>2. RequestsKept /\ LocksHeld /\ req[c].pc \in Pcs /\ req[c].m \in 0 .. MaxMachines
  BY DEF RequestsGood
<1>3. daemon # "up" => req[c].pc = "idle"
  <2>1. daemon # "up" => req[c] = Idle("none")
    BY <1>2 DEF RequestsKept
  <2>2. Idle("none").pc = "idle"
    BY DEF Idle
  <2> QED BY <2>1, <2>2
<1>4. reg # 0 => reg \in Objects
  <2>1. MaxMachines \in Nat /\ reg \in 0 .. made /\ made \in 0 .. MaxMachines
    BY BoundAssumption DEF RequestsGood
  <2> QED BY <2>1 DEF Objects
<1> QED BY <1>1, <1>2, <1>3, <1>4 DEF RequestsKept, LocksHeld, AtWork

LEMMA JoinKeeps ==
  ASSUME RequestsGood, NEW c \in Clients, Join(c)
  PROVE  RequestsGood' /\ Calm
<1> DEFINE r == [Idle("none") EXCEPT !.pc = "join", !.op = "join"]
<1>1. /\ Fields(r) /\ r.pc = "join" /\ r.op = "join" /\ r.m = 0
  BY DEF Idle, Fields
<1>2. req' = [req EXCEPT ![c] = r]
  BY DEF Join
<1> HIDE DEF r
<1>3. Moves(c, r)
  BY <1>1, <1>2, ServingFacts, ObjectBounds DEF Join, Moves, Pcs, AtWork
<1>4. made' = made /\ made + Cardinality(Joining) < MaxMachines
  BY DEF Join, Joining
<1> QED BY <1>1, <1>3, <1>4, RequestMoves DEF Join

LEMMA JoinInsertKeeps ==
  ASSUME RequestsGood, NEW c \in Clients, JoinInsert(c)
  PROVE  RequestsGood' /\ Calm
<1> DEFINE r == [req[c] EXCEPT !.pc = "joined", !.m = made + 1]
<1>1. Fields(r) /\ r.pc = "joined" /\ r.op = req[c].op /\ r.m = made + 1
  BY ServingFacts DEF Fields
<1>2. req' = [req EXCEPT ![c] = r] /\ req[c].pc = "join"
  BY DEF JoinInsert
<1> HIDE DEF r
<1>3. made + 1 \in Objects
  <2>1. MaxMachines \in Nat
    BY BoundAssumption
  <2>2. made \in 0 .. MaxMachines /\ RequestsKept
    BY DEF RequestsGood
  <2>3. made + Cardinality(Joining) <= MaxMachines
    BY <2>2 DEF RequestsKept
  <2>4. /\ Cardinality(Joining) \in Nat /\ Cardinality(Joining') \in Nat
        /\ Cardinality(Joining') + 1 = Cardinality(Joining)
    BY <1>1, <1>2, JoiningMoves
  <2> QED BY <2>1, <2>2, <2>3, <2>4 DEF Objects
<1>4. Moves(c, r)
  BY ZenonT(40), <1>1, <1>2, <1>3, ObjectBounds, ServingFacts DEF JoinInsert, Moves, Pcs, AtWork
<1> QED BY <1>1, <1>2, <1>4, ServingFacts, RequestMoves DEF JoinInsert

\* A request that ends without a panic.
LEMMA EndKeeps ==
  ASSUME RequestsGood, NEW c \in Clients, req[c].pc \notin {"idle", "blocked"},
         req' = [req EXCEPT ![c] = Idle("none")], mapMU' = IF mapMU = c THEN None ELSE mapMU,
         \/ mutex' = mutex
         \/ mutex[req[c].m] = c /\ req[c].m \in Objects /\ mutex' = [mutex EXCEPT ![req[c].m] = None],
         daemon' = daemon, made' = made, reg' = reg
  PROVE  RequestsGood' /\ Calm
<1>1. PICK r : r = Idle("none")
  OBVIOUS
<1>2. Fields(r) /\ r.pc = "idle" /\ r.op = "" /\ r.last = "none" /\ r.m = 0
  BY <1>1 DEF Fields, Idle
<1>3. Moves(c, r)
  BY <1>1, <1>2, ObjectBounds, ServingFacts DEF Moves, Pcs, AtWork
<1> QED BY <1>2, <1>3, ServingFacts, RequestMoves

LEMMA JoinSaveKeeps ==
  ASSUME RequestsGood, NEW c \in Clients, JoinSave(c)
  PROVE  RequestsGood' /\ Calm
<1>1. req[c].pc = "joined" /\ req' = [req EXCEPT ![c] = Idle("none")]
  BY DEF JoinSave
<1>2. mapMU' = IF mapMU = c THEN None ELSE mapMU
  BY <1>1, ServingFacts DEF JoinSave
<1> QED BY <1>1, <1>2, EndKeeps DEF JoinSave

LEMMA LookupKeeps ==
  ASSUME RequestsGood, NEW c \in Clients, NEW op \in {"start", "stop"}, NEW conf,
         Lookup(c, op, conf)
  PROVE  RequestsGood' /\ Calm
<1> DEFINE r == [Idle("none") EXCEPT !.pc = "found", !.op = op, !.conf = conf, !.m = reg]
<1>1. Fields(r) /\ r.pc = "found" /\ r.op = op /\ r.m = reg
  BY DEF Idle, Fields
<1>2. req' = [req EXCEPT ![c] = r]
  BY DEF Lookup
<1> HIDE DEF r
<1>3. reg \in Objects /\ reg \in 0 .. MaxMachines
  BY ServingFacts, ObjectBounds DEF Lookup
<1>4. Moves(c, r)
  BY <1>1, <1>2, <1>3, ServingFacts DEF Lookup, Moves, Pcs, AtWork
<1> QED BY <1>1, <1>4, ServingFacts, RequestMoves DEF Lookup

\* A call that starts something on an object of a machine.
LEMMA LockedKeeps ==
  ASSUME RequestsGood, NEW c \in Clients, req[c].pc = "found",
         NEW r, req' = [req EXCEPT ![c] = r], Fields(r), r.pc \in {"save", "blocked"},
         r.op = req[c].op, r.m = req[c].m, r.pc = "blocked" => r.conf \in MayFail,
         mutex[req[c].m] = None, mutex' = [mutex EXCEPT ![req[c].m] = c],
         UNCHANGED <<daemon, reg, made, mapMU>>
  PROVE  RequestsGood' /\ (r.pc = "save" => Calm)
<1>1. mutex'[req[c].m] = c /\ req[c].m \in Objects
  BY ServingFacts DEF RequestsGood, AtWork
<1>2. Moves(c, r)
  BY <1>1, ServingFacts DEF Moves, Pcs, AtWork
<1> QED BY <1>2, ServingFacts, RequestMoves

LEMMA AttachKeeps ==
  ASSUME RequestsGood, NEW c \in Clients, AttachLocked(c)
  PROVE  RequestsGood' /\ Calm
<1> DEFINE r == [req[c] EXCEPT !.pc = "save"]
<1>1. Fields(r) /\ r.pc = "save" /\ r.op = req[c].op /\ r.m = req[c].m
  BY ServingFacts DEF Fields
<1>2. req' = [req EXCEPT ![c] = r]
  BY DEF AttachLocked
<1> HIDE DEF r
<1> QED BY <1>1, <1>2, LockedKeeps DEF AttachLocked

\* How the request of c leaves startDrivers or startControllers.
StartOutcome(c) ==
  \E r :
    /\ Fields(r) /\ req' = [req EXCEPT ![c] = r] /\ r.op = req[c].op /\ r.m = req[c].m
    /\ r.pc \in {"save", "blocked"} /\ r.conf = req[c].conf
    /\ IF Refused(r.m, r.conf)
       THEN r.pc = "save" /\ UNCHANGED <<list, inst>>
       ELSE \E s \in Starts(r.conf) :
              r.pc = s.pc /\ inst' = [inst EXCEPT ![r.m][r.conf] = s.inst]

LEMMA StartFacts ==
  ASSUME NEW conf, NEW s \in Starts(conf)
  PROVE  /\ s.pc \in {"save", "blocked"}
         /\ s.inst \in InstType /\ ~s.inst.closed /\ s.inst.done = 0
         /\ s.pc = "blocked" => conf \in MayFail /\ s.inst.master
<1>1. ASSUME NEW worker \in {"none", "running"}, NEW master \in BOOLEAN,
             NEW pc \in {"save", "blocked"}, NEW failed,
             pc = "blocked" => conf \in Plugins /\ master,
             s = Start(worker, master, pc, failed)
      PROVE  /\ s.pc \in {"save", "blocked"}
             /\ s.inst \in InstType /\ ~s.inst.closed /\ s.inst.done = 0
             /\ s.pc = "blocked" => conf \in MayFail /\ s.inst.master
  <2> DEFINE i == [NoInst EXCEPT !.worker = worker, !.master = master]
  <2>1. i \in InstType /\ ~i.closed /\ i.done = 0 /\ i.master = master
    BY DEF NoInst, InstType
  <2> HIDE DEF i
  <2>2. s = [inst |-> i, pc |-> pc, failed |-> failed]
    BY <1>1 DEF Start, i
  <2> QED BY <1>1, <2>1, <2>2 DEF MayFail
<1>2. CASE conf \in Unknown
  <2>1. s = Start("none", FALSE, "save", TRUE)
    BY <1>2 DEF Starts
  <2> QED BY <1>1, <2>1
<1>3. CASE conf \notin Unknown
  <2>1. \/ s = Start("running", TRUE, "save", FALSE) \/ s = Start("none", FALSE, "save", FALSE)
        \/ s = Start("none", FALSE, "save", TRUE) \/ s = Start("running", TRUE, "save", TRUE)
        \/ s = Start("running", FALSE, "save", TRUE)
        \/ conf \in Plugins /\ s = Start("running", TRUE, "blocked", FALSE)
    BY <1>3 DEF Starts
  <2> QED BY <1>1, <2>1
<1> QED BY <1>2, <1>3

LEMMA StartEnds ==
  ASSUME RequestsGood, NEW c \in Clients, StartLocked(c)
  PROVE  StartOutcome(c)
<1>0. Fields(req[c])
  BY ServingFacts
<1>1. CASE Refused(req[c].m, req[c].conf)
  <2> DEFINE r == [req[c] EXCEPT !.pc = "save", !.failed = TRUE]
  <2>1. /\ Fields(r) /\ r.pc = "save" /\ r.op = req[c].op /\ r.m = req[c].m
        /\ r.conf = req[c].conf
    BY <1>0 DEF Fields
  <2>2. req' = [req EXCEPT ![c] = r] /\ UNCHANGED <<list, inst>>
    BY <1>1 DEF StartLocked
  <2> HIDE DEF r
  <2> QED BY <1>1, <2>1, <2>2 DEF StartOutcome
<1>2. CASE ~Refused(req[c].m, req[c].conf)
  <2>1. PICK s \in Starts(req[c].conf) :
             /\ inst' = [inst EXCEPT ![req[c].m][req[c].conf] = s.inst]
             /\ req' = [req EXCEPT ![c].pc = s.pc, ![c].failed = s.failed]
    BY <1>2 DEF StartLocked
  <2> DEFINE r == [req[c] EXCEPT !.pc = s.pc, !.failed = s.failed]
  <2>2. /\ Fields(r) /\ r.pc = s.pc /\ r.op = req[c].op /\ r.m = req[c].m
        /\ r.conf = req[c].conf
    BY <1>0 DEF Fields
  <2>3. s.pc \in {"save", "blocked"}
    BY StartFacts
  <2>4. req' = [req EXCEPT ![c] = r]
    BY <2>1
  <2> HIDE DEF r
  <2> QED BY <1>2, <2>1, <2>2, <2>3, <2>4 DEF StartOutcome
<1> QED BY <1>1, <1>2

LEMMA StartKeeps ==
  ASSUME RequestsGood, NEW c \in Clients, StartLocked(c)
  PROVE  RequestsGood'
<1>1. PICK r :
    /\ Fields(r) /\ req' = [req EXCEPT ![c] = r] /\ r.op = req[c].op /\ r.m = req[c].m
    /\ r.pc \in {"save", "blocked"} /\ r.conf = req[c].conf
    /\ IF Refused(r.m, r.conf)
       THEN r.pc = "save" /\ UNCHANGED <<list, inst>>
       ELSE \E s \in Starts(r.conf) :
              r.pc = s.pc /\ inst' = [inst EXCEPT ![r.m][r.conf] = s.inst]
  BY StartEnds DEF StartOutcome
<1>2. r.pc = "blocked" => r.conf \in MayFail
  BY <1>1, StartFacts
<1> QED BY <1>1, <1>2, LockedKeeps DEF StartLocked

\* A call of StopController, StopDriver or DetachAdaptor.
LEMMA StopKeeps ==
  ASSUME RequestsGood, NEW c \in Clients, req[c].pc \in {"found", "loop"}, NEW conf,
         mutex[req[c].m] = None, StopOutcome(c, req[c].m, conf),
         UNCHANGED <<daemon, reg, made>>
  PROVE  RequestsGood'
<1> DEFINE m == req[c].m
<1>1. m \in Objects /\ m \in 0 .. MaxMachines /\ daemon = "up" /\ 0 \in 0 .. MaxMachines
  BY ServingFacts, ObjectBounds DEF AtWork
<1>2. PICK r :
        /\ Fields(r) /\ req' = [req EXCEPT ![c] = r] /\ r.m = m
        /\ \/ /\ r.pc \in {"save", "blocked"} /\ r.op = req[c].op
              /\ r.pc = "blocked" => r.conf = conf /\ conf \in MayFail
              /\ mutex' = [mutex EXCEPT ![m] = c] /\ mapMU' = mapMU
           \/ /\ r.pc = "idle" /\ r.op = "" /\ r.conf = conf
              /\ mutex' = [mutex EXCEPT ![m] = None]
              /\ mapMU' = IF mapMU = c THEN None ELSE mapMU
  BY DEF StopOutcome
<1>3. r.pc \in {"save", "blocked"} => mutex'[r.m] = c
  BY <1>1, <1>2 DEF RequestsGood
<1>4. Moves(c, r)
  BY <1>1, <1>2, <1>3, ServingFacts DEF Moves, Pcs, AtWork
<1> QED BY <1>1, <1>2, <1>4, RequestMoves

LEMMA SaveKeeps ==
  ASSUME RequestsGood, NEW c \in Clients, Save(c)
  PROVE  RequestsGood' /\ Calm
<1>1. /\ req[c].pc = "save" /\ req[c].m \in Objects /\ mutex[req[c].m] = c
      /\ mutex' = [mutex EXCEPT ![req[c].m] = None] /\ daemon = "up"
      /\ UNCHANGED <<daemon, reg, made>>
  BY ServingFacts DEF Save, AtWork
<1>2. CASE req[c].op = "leave" /\ ~req[c].failed
  <2> DEFINE r == [req[c] EXCEPT !.pc = "loop", !.k = @ + 1]
  <2>1. Fields(r) /\ r.pc = "loop" /\ r.op = "leave" /\ r.m = req[c].m
    BY <1>2, ServingFacts DEF Fields
  <2>2. req' = [req EXCEPT ![c] = r] /\ mapMU' = mapMU
    BY <1>2 DEF Save
  <2> HIDE DEF r
  <2>3. Moves(c, r)
    BY <1>1, <1>2, <2>1, <2>2, ServingFacts DEF Moves, Pcs, AtWork
  <2> QED BY <1>1, <2>1, <2>3, RequestMoves
<1>3. CASE ~(req[c].op = "leave" /\ ~req[c].failed)
  <2>1. /\ req' = [req EXCEPT ![c] = Idle("none")]
        /\ mapMU' = IF mapMU = c THEN None ELSE mapMU
    BY <1>3 DEF Save
  <2> QED BY <1>1, <2>1, EndKeeps
<1> QED BY <1>2, <1>3

LEMMA LeaveKeeps ==
  ASSUME RequestsGood, NEW c \in Clients, Leave(c)
  PROVE  RequestsGood' /\ Calm
<1> DEFINE h == Header(list[reg].controllers)
           r == [Idle("none") EXCEPT !.pc = "loop", !.op = "leave", !.m = reg,
                                     !.kind = "controllers", !.k = 1, !.head = h]
<1>1. Fields(r) /\ r.pc = "loop" /\ r.op = "leave" /\ r.m = reg
  <2> HIDE DEF h
  <2> QED BY DEF Idle, Fields
<1>2. req' = [req EXCEPT ![c] = r] /\ mapMU' = c
  BY DEF Leave
<1> HIDE DEF r, h
<1>3. reg \in Objects /\ reg \in 0 .. MaxMachines
  BY ServingFacts, ObjectBounds DEF Leave
<1>4. Moves(c, r)
  BY <1>1, <1>2, <1>3, ServingFacts DEF Leave, Moves, Pcs, AtWork
<1> QED BY <1>1, <1>4, ServingFacts, RequestMoves DEF Leave

\* A step of the loops of MachineLeave that stops nothing.
LEMMA LoopKeeps ==
  ASSUME RequestsGood, NEW c \in Clients, LeaveNextKind(c) \/ LeaveDelete(c)
  PROVE  RequestsGood' /\ Calm
<1>1. /\ req[c].pc = "loop" /\ daemon = "up" /\ reg' \in {0, reg}
      /\ UNCHANGED <<daemon, made, mutex, mapMU>>
  BY ServingFacts DEF LeaveNextKind, LeaveDelete
<1>2. PICK r : /\ Fields(r) /\ r.pc \in {"loop", "erase"} /\ r.op = req[c].op
               /\ r.m = req[c].m /\ req' = [req EXCEPT ![c] = r]
  <2>1. CASE LeaveDelete(c)
    <3> DEFINE r == [req[c] EXCEPT !.pc = "erase"]
    <3>1. /\ Fields(r) /\ r.pc = "erase" /\ r.op = req[c].op /\ r.m = req[c].m
          /\ req' = [req EXCEPT ![c] = r]
      BY <2>1, ServingFacts DEF LeaveDelete, Fields
    <3> QED BY <3>1
  <2>2. CASE LeaveNextKind(c)
    <3> DEFINE next == IF req[c].kind = "controllers" THEN "drivers" ELSE "adaptors"
               h == Header(list[req[c].m][next])
               r == [req[c] EXCEPT !.kind = next, !.k = 1, !.head = h]
    <3>1. req' = [req EXCEPT ![c] = r]
      BY <2>2 DEF LeaveNextKind
    <3>2. Fields(r) /\ r.pc = req[c].pc /\ r.op = req[c].op /\ r.m = req[c].m
      <4> HIDE DEF next, h
      <4> QED BY ServingFacts DEF Fields
    <3> HIDE DEF r
    <3> QED BY <1>1, <3>1, <3>2
  <2> QED BY <2>1, <2>2
<1>3. Moves(c, r)
  BY <1>1, <1>2, ServingFacts DEF Moves, Pcs, AtWork
<1> QED BY <1>1, <1>2, <1>3, RequestMoves

LEMMA LeaveEraseKeeps ==
  ASSUME RequestsGood, NEW c \in Clients, LeaveErase(c)
  PROVE  RequestsGood' /\ Calm
<1>1. req[c].pc = "erase" /\ req' = [req EXCEPT ![c] = Idle("none")]
  BY DEF LeaveErase
<1>2. mapMU' = IF mapMU = c THEN None ELSE mapMU
  BY <1>1, ServingFacts DEF LeaveErase
<1> QED BY <1>1, <1>2, EndKeeps DEF LeaveErase

-----------------------------------------------------------------------------
(* The lists, the modules and the file.                                      *)

DiskGood == /\ disk = None \/ disk \in File
            /\ disk # None => \A kind \in Kinds : OfKind(disk[kind], kind)
ListsPart == ListsGood /\ InstTyped /\ ListedUsable /\ PanicsKept /\ DiskGood

\* What a request has panicked on stays as it is.
LEMMA PanicsNow ==
  ASSUME \A n \in Objects, conf \in Modules : Hopeless(n, conf) => Hopeless(n, conf)',
         \A d \in Clients : req'[d].pc = "idle" /\ req'[d].last = "panic" =>
           \/ req'[d].conf \in Unknown \cup FaultyDevice
           \/ /\ req'[d].m \in Objects /\ req'[d].conf \in Modules
              /\ Hopeless(req'[d].m, req'[d].conf)
  PROVE  PanicsKept'
<1> SUFFICES ASSUME NEW d \in Clients, req'[d].pc = "idle", req'[d].last = "panic"
             PROVE  \/ req'[d].conf \in Unknown \cup FaultyDevice
                    \/ /\ req'[d].m \in Objects /\ req'[d].conf \in Modules
                       /\ Hopeless(req[d].m, req[d].conf)'
  BY DEF PanicsKept, Objects
<1>1. CASE /\ req'[d].m \in Objects /\ req'[d].conf \in Modules
           /\ Hopeless(req'[d].m, req'[d].conf)
  <2>1. PICK n \in Objects, conf \in Modules : n = req'[d].m /\ conf = req'[d].conf
    BY <1>1
  <2>2. Hopeless(n, conf)'
    BY <1>1, <2>1
  <2> QED BY <2>1, <2>2 DEF Hopeless, IsListed, NoMaster, Names
<1> QED BY <1>1

LEMMA PanicsStay ==
  ASSUME PanicsKept, \A n \in Objects, conf \in Modules : Hopeless(n, conf) => Hopeless(n, conf)',
         \A d \in Clients : req'[d].pc = "idle" /\ req'[d].last = "panic" => req'[d] = req[d]
  PROVE  PanicsKept'
<1>1. ASSUME NEW d \in Clients, req'[d].pc = "idle", req'[d].last = "panic"
      PROVE  \/ req'[d].conf \in Unknown \cup FaultyDevice
             \/ /\ req'[d].m \in Objects /\ req'[d].conf \in Modules
                /\ Hopeless(req'[d].m, req'[d].conf)
  BY <1>1 DEF PanicsKept
<1> QED BY <1>1, PanicsNow

\* What snapshot() writes can be read back.
LEMMA ViewType ==
  ASSUME ListsGood, NEW m \in Objects
  PROVE  View(m) \in File /\ \A kind \in Kinds : OfKind(View(m)[kind], kind)
<1>1. ASSUME NEW kind \in Kinds PROVE Names(m, kind) \in Seq(Confs)
  <2>1. Names(m, kind) \in Seq(Confs \cup {None}) /\ OfKind(Names(m, kind), kind)
    BY NamesType DEF ListsGood
  <2>2. \A k \in 1 .. Len(Names(m, kind)) : Names(m, kind)[k] \in Confs
    BY <2>1 DEF OfKind
  <2> QED BY <2>1, <2>2
<1> QED BY <1>1 DEF View, File, ListsGood

\* A snapshot of an object is written, or the file is removed.
LEMMA DiskWritten ==
  ASSUME ListsGood,
         \/ UNCHANGED disk /\ DiskGood
         \/ disk' = None
         \/ \E m \in Objects : disk' = View(m)
  PROVE  DiskGood'
<1>1. CASE UNCHANGED disk /\ DiskGood
  BY <1>1 DEF DiskGood, OfKind
<1>2. CASE disk' = None
  BY <1>2 DEF DiskGood
<1>3. ASSUME NEW m \in Objects, disk' = View(m) PROVE DiskGood'
  <2>1. disk' \in File /\ \A kind \in Kinds : OfKind(disk'[kind], kind)
    BY <1>3, ViewType
  <2> QED BY <2>1 DEF DiskGood, OfKind
<1> QED BY <1>1, <1>2, <1>3

LEMMA AttachLists ==
  ASSUME RequestsGood, Calm, ListsPart, NEW c \in Clients, AttachLocked(c)
  PROVE  ListsPart'
<1>1. req[c].m \in Objects
  BY ServingFacts DEF AttachLocked, AtWork
<1>2. /\ ListsGood'
      /\ \A n \in Objects, d \in Modules : IsListed(n, d)' <=> IsListed(n, d)
  <2>1. /\ req[c].conf \in Adaptors
        /\ list' = [list EXCEPT ![req[c].m].adaptors =
                      Settled(SliceAppend(@, req[c].conf))]
    BY DEF AttachLocked
  <2> QED BY <1>1, <2>1, AdaptorAttached DEF ListsPart
<1>3. /\ InstTyped' /\ ListedUsable'
      /\ \A n \in Objects, d \in Modules : Hopeless(n, d)' <=> Hopeless(n, d)
  BY <1>2, UsableSame DEF AttachLocked, ListsPart, Calm
<1>4. PanicsKept'
  BY <1>3, PanicsStay DEF ListsPart, Calm
<1>5. DiskGood'
  BY DiskWritten DEF AttachLocked, ListsPart
<1> QED BY <1>2, <1>3, <1>4, <1>5 DEF ListsPart

LEMMA StartLists ==
  ASSUME RequestsGood, ListsPart, NEW c \in Clients, StartLocked(c)
  PROVE  ListsPart'
<1>1. req[c].m \in Objects /\ req[c].conf \in Modules /\ req[c].pc # "blocked"
  BY ServingFacts DEF StartLocked, AtWork
<1> SUFFICES ASSUME NEW m \in Objects, NEW conf \in Modules,
                    m = req[c].m, conf = req[c].conf
             PROVE  ListsPart'
  BY <1>1
<1>2. DiskGood'
  BY DiskWritten DEF StartLocked, ListsPart
<1>2a. PICK r :
        /\ Fields(r) /\ req' = [req EXCEPT ![c] = r] /\ r.op = req[c].op /\ r.m = req[c].m
        /\ r.pc \in {"save", "blocked"} /\ r.conf = req[c].conf
        /\ IF Refused(r.m, r.conf)
           THEN r.pc = "save" /\ UNCHANGED <<list, inst>>
           ELSE \E s \in Starts(r.conf) :
                  r.pc = s.pc /\ inst' = [inst EXCEPT ![r.m][r.conf] = s.inst]
  BY StartEnds DEF StartOutcome
<1>3. /\ req' = [req EXCEPT ![c] = r] /\ r.m = m /\ r.conf = conf
      /\ r.pc \in {"save", "blocked"}
      /\ IF Refused(m, conf)
         THEN r.pc = "save" /\ UNCHANGED <<list, inst>>
         ELSE \E s \in Starts(conf) :
                r.pc = s.pc /\ inst' = [inst EXCEPT ![m][conf] = s.inst]
  BY <1>2a
<1>4. req = [d \in Clients |-> req[d]]
  BY DEF RequestsGood, RequestsKept
<1>5. \A n \in Objects, d \in Modules :
        Stuck(n, d)' <=> Stuck(n, d) \/ (r.pc = "blocked" /\ m = n /\ conf = d)
  BY <1>1, <1>3, <1>4, StuckMoves
<1>6. \A d \in Clients : req'[d].pc = "idle" /\ req'[d].last = "panic" => req'[d] = req[d]
  BY <1>3, <1>4
<1>7. CASE Refused(m, conf)
  <2>1. UNCHANGED <<list, inst>> /\ r.pc = "save"
    BY <1>3, <1>7
  <2>2. /\ ListsGood' /\ InstTyped' /\ ListedUsable'
        /\ \A n \in Objects, d \in Modules : Hopeless(n, d)' <=> Hopeless(n, d)
    BY <1>5, <2>1, UsableUnchanged DEF ListsPart
  <2>3. PanicsKept'
    BY <1>6, <2>2, PanicsStay DEF ListsPart
  <2> QED BY <1>2, <2>2, <2>3 DEF ListsPart
<1>8. CASE ~Refused(m, conf)
  <2>1. PICK s \in Starts(conf) : inst' = [inst EXCEPT ![m][conf] = s.inst]
    BY <1>3, <1>8
  <2>2. ~IsListed(m, conf)
    BY <1>8 DEF Refused
  <2>3. list' = [list EXCEPT ![m][KindOf(conf)] = Settled(SliceAppend(@, conf))]
    BY <1>8 DEF StartLocked
  <2>4. /\ ListsGood'
        /\ \A n \in Objects, d \in Modules :
             IsListed(n, d)' <=> IsListed(n, d) \/ (n = m /\ d = conf)
    BY <2>2, <2>3, ModuleListed DEF ListsPart
  <2>5. PICK x \in InstType : x = s.inst /\ ~x.closed /\ x.done = 0
    BY StartFacts
  <2>6. inst' = [inst EXCEPT ![m][conf] = x] /\ ListedUsable /\ InstTyped
    BY <2>1, <2>5 DEF ListsPart
  <2>7. /\ inst'[m][conf] = x
        /\ \A n \in Objects, d \in Modules : n # m \/ d # conf => inst'[n][d] = inst[n][d]
    BY <2>6 DEF InstTyped
  <2>8. \A n \in Objects, d \in Modules :
          n # m \/ d # conf => /\ IsListed(n, d)' <=> IsListed(n, d)
                               /\ Stuck(n, d)' <=> Stuck(n, d)
    BY <1>5, <2>4
  <2>9. IsListed(m, conf)' /\ Stoppable(m, conf)'
    BY <2>4, <2>5, <2>7 DEF Stoppable
  <2>10. InstTyped' /\ ListedUsable'
    BY <2>6, <2>8, <2>9, UsableStays
  <2>11. \A n \in Objects, d \in Modules : Hopeless(n, d) => Hopeless(n, d)'
    BY <2>2, <2>7, <2>8 DEF Hopeless, NoMaster
  <2>12. PanicsKept'
    BY <1>6, <2>11, PanicsStay DEF ListsPart
  <2> QED BY <1>2, <2>4, <2>10, <2>12 DEF ListsPart
<1> QED BY <1>7, <1>8

LEMMA StopLists ==
  ASSUME RequestsGood, ListsPart, NEW c \in Clients, NEW conf,
         req[c].pc \in {"found", "loop"}, StopModule(c, req[c].m, conf)
  PROVE  RequestsGood' /\ ListsPart'
<1> DEFINE m == req[c].m
<1>1. m \in Objects /\ Fields(req[c]) /\ req = [d \in Clients |-> req[d]]
  BY ServingFacts DEF AtWork, RequestsGood, RequestsKept
<1>2. mutex[m] = None /\ UNCHANGED <<daemon, reg, made, disk, before>>
  BY DEF StopModule
<1>3. Stopping(c, m)
  <2>1. ASSUME NEW d \in Clients, req[d].pc = "blocked", req[d].m = m PROVE FALSE
    <3>1. mutex[m] = d /\ d # None
      BY <2>1, ServingFacts
    <3> QED BY <1>2, <3>1
  <2> QED BY <1>1, <2>1 DEF Stopping, Stuck
<1>4. StopKept /\ StopOutcome(c, m, conf)
  <2> HIDE DEF m
  <2>1. StopModule(c, m, conf)
    BY DEF m
  <2> QED BY <1>1, <1>3, <2>1, StopModuleEffect DEF ListsPart
<1>5. RequestsGood'
  BY <1>2, <1>4, StopKeeps
<1>6. DiskGood'
  BY <1>2, <1>4, DiskWritten DEF ListsPart
<1>7. PanicsKept'
  <2> HIDE DEF m
  <2>1. PICK r :
          /\ req' = [req EXCEPT ![c] = r] /\ r.m = m
          /\ r.pc = "idle" => /\ r.conf = conf
                              /\ conf \in Unknown \cup FaultyDevice
                                 \/ (conf \in Modules /\ Hopeless(m, conf))
    BY <1>4 DEF StopOutcome
  <2>2. req'[c] = r /\ \A d \in Clients : d # c => req'[d] = req[d]
    BY <1>1, <2>1
  <2>3. \A n \in Objects, d \in Modules : Hopeless(n, d) => Hopeless(n, d)'
    BY <1>4 DEF StopKept
  <2>4. CASE r.pc = "idle" /\ r.last = "panic"
    <3>1. \A d \in Clients : d # c /\ req'[d].pc = "idle" /\ req'[d].last = "panic" =>
            \/ req'[d].conf \in Unknown \cup FaultyDevice
            \/ /\ req'[d].m \in Objects /\ req'[d].conf \in Modules
               /\ Hopeless(req'[d].m, req'[d].conf)
      BY <2>2 DEF ListsPart, PanicsKept
    <3>2. \/ req'[c].conf \in Unknown \cup FaultyDevice
          \/ /\ req'[c].m \in Objects /\ req'[c].conf \in Modules
             /\ Hopeless(req'[c].m, req'[c].conf)
      BY <1>1, <2>1, <2>2, <2>4
    <3> QED BY <2>3, <3>1, <3>2, PanicsNow
  <2>5. CASE ~(r.pc = "idle" /\ r.last = "panic")
    BY <2>2, <2>3, <2>5, PanicsStay DEF ListsPart
  <2> QED BY <2>4, <2>5
<1> QED BY <1>4, <1>5, <1>6, <1>7 DEF ListsPart, StopKept

LEMMA WorkerLists ==
  ASSUME ListsPart, NEW m \in Objects, NEW conf \in Modules, WorkerReturns(m, conf)
  PROVE  ListsPart'
<1> DEFINE old == inst[m][conf]
           x == IF IsListed(m, conf) THEN [old EXCEPT !.worker = "none", !.done = 0]
                ELSE NoInst
<1>1. old \in InstType
  BY DEF ListsPart, InstTyped
<1>2. Ending(m, conf) /\ UNCHANGED <<list, disk, req>>
  BY DEF WorkerReturns
<1>3. x \in InstType /\ x.worker = "none"
  BY <1>1 DEF NoInst, InstType
<1>4. inst' = [inst EXCEPT ![m][conf] = x]
  BY DEF WorkerReturns
<1>5. IsListed(m, conf) => conf \in Unknown \cup FaultyDevice
  BY <1>2 DEF ListsPart, ListedUsable, Stoppable, Ending, NoMaster
<1> HIDE DEF x
<1>6. ListsGood' /\ \A n \in Objects, d \in Modules : IsListed(n, d)' <=> IsListed(n, d)
  BY <1>2, ListsUnchanged DEF ListsPart
<1>7. \A n \in Objects, d \in Modules : Stuck(n, d)' <=> Stuck(n, d)
  BY <1>2 DEF Stuck
<1>8. /\ inst'[m][conf] = x
      /\ \A n \in Objects, d \in Modules : n # m \/ d # conf => inst'[n][d] = inst[n][d]
  BY <1>4 DEF InstTyped, ListsPart
<1>9. InstTyped' /\ ListedUsable'
  <2>1. ~Running(m, conf)'
    BY <1>3, <1>8 DEF Running
  <2>2. InstTyped /\ ListedUsable
    BY DEF ListsPart
  <2> QED BY <1>3, <1>4, <1>5, <1>6, <1>7, <2>1, <2>2, UsableStays
<1>10. \A n \in Objects, d \in Modules : Hopeless(n, d) => Hopeless(n, d)'
  <2>1. ~Hopeless(m, conf)
    BY <1>2 DEF Hopeless, NoMaster, Ending
  <2> QED BY <1>6, <1>8, <2>1 DEF Hopeless, NoMaster
<1>11. PanicsKept'
  BY <1>2, <1>10, PanicsStay DEF ListsPart
<1>12. DiskGood'
  BY <1>2, <1>6, DiskWritten DEF ListsPart
<1> QED BY <1>6, <1>9, <1>11, <1>12 DEF ListsPart

\* A step that leaves the lists, the modules and the objects as they are.
LEMMA OthersLists ==
  ASSUME ListsPart, Calm, UNCHANGED <<list, inst>>,
         UNCHANGED disk \/ disk' = None \/ \E m \in Objects : disk' = View(m)
  PROVE  ListsPart'
<1>1. /\ ListsGood' /\ InstTyped' /\ ListedUsable'
      /\ \A n \in Objects, d \in Modules : Hopeless(n, d)' <=> Hopeless(n, d)
  BY UsableUnchanged DEF ListsPart, Calm
<1>2. PanicsKept'
  BY <1>1, PanicsStay DEF ListsPart, Calm
<1>3. DiskGood'
  BY DiskWritten DEF ListsPart
<1> QED BY <1>1, <1>2, <1>3 DEF ListsPart

\* Objects that have just been made: nothing is listed and nothing runs.
FreshState == /\ list = [m \in Objects |-> Fresh]
              /\ inst = [m \in Objects |-> [c \in Modules |-> NoInst]]

LEMMA FreshLists == FreshState => ListsGood /\ InstTyped /\ ListedUsable
<1> SUFFICES ASSUME FreshState PROVE ListsGood /\ InstTyped /\ ListedUsable
  OBVIOUS
<1> USE DEF FreshState
<1>1. /\ NilSlice \in SliceType(Confs \cup {None}) /\ SliceInBounds(NilSlice)
      /\ Listing(NilSlice) = <<>>
  BY NilSliceType
<1>2. ListsTyped
  BY <1>1 DEF ListsTyped, Fresh
<1>3. \A m \in Objects, kind \in Kinds : Names(m, kind) = <<>>
  BY <1>1 DEF Names, Fresh
<1>4. ListsGood
  BY <1>2, <1>3 DEF ListsGood, ListedOnce, Once, OfKind, Kinds
<1>5. InstTyped
  BY DEF InstTyped, InstType, NoInst
<1>6. ListedUsable
  BY DEF ListedUsable, Running, Stoppable, NoInst, NoMaster
<1> QED BY <1>4, <1>5, <1>6

-----------------------------------------------------------------------------
(* Crash and restore.                                                        *)

\* The object that restoreMachine makes gets the adaptors of the file, up to one.
LEMMA RestoredList ==
  ASSUME ListsGood, NEW m \in Objects, NEW q \in Seq(Confs), OfKind(q, "adaptors"),
         NEW k \in 1 .. Len(q),
         list' = [list EXCEPT ![m].adaptors =
                    [mem |-> <<SubSeq(q, 1, k)>>, array |-> 1, len |-> k]]
  PROVE  /\ ListsGood' /\ Names(m, "adaptors")' = SubSeq(q, 1, k)
         /\ \A n \in Objects, c \in Modules : IsListed(n, c)' <=> IsListed(n, c)
<1> DEFINE new == SubSeq(q, 1, k)
           s == [mem |-> <<new>>, array |-> 1, len |-> k]
<1>1. new \in Seq(Confs) /\ Len(new) = k /\ \A j \in 1 .. k : new[j] = q[j]
  BY SubSeqProperties
<1> HIDE DEF new
<1>2. /\ s \in SliceType(Confs \cup {None}) /\ SliceInBounds(s) /\ Listing(s) = new
  <2>1. new \in Seq(Confs \cup {None})
    BY <1>1
  <2>2. s \in SliceType(Confs \cup {None}) /\ SliceInBounds(s)
    BY <1>1, <2>1 DEF SliceType, SliceInBounds
  <2>3. s.len = Len(new) /\ \A j \in 1 .. s.len : s.mem[s.array][j] = new[j]
    BY <1>1
  <2> HIDE DEF s
  <2> QED BY <2>1, <2>2, <2>3, ListingIs
<1>3. list' = [list EXCEPT ![m]["adaptors"] = s]
  BY DEF new
<1> HIDE DEF s
<1>4. /\ ListsTyped' /\ Names(m, "adaptors")' = new
      /\ \A n \in Objects, other \in Kinds :
           n # m \/ other # "adaptors" => Names(n, other)' = Names(n, other)
  <2>1. ListsTyped /\ "adaptors" \in Kinds
    BY KindsOfConfs DEF ListsGood
  <2> QED BY <1>2, <1>3, <2>1, ListChange
<1>5. ListedOnce'
  BY <1>4 DEF ListsGood, ListedOnce, Kinds
<1>6. OfKind(new, "adaptors")
  BY <1>1 DEF OfKind
<1>7. \A n \in Objects, kind \in Kinds : OfKind(Names(n, kind)', kind)
  BY <1>4, <1>6 DEF ListsGood
<1>8. \A n \in Objects, c \in Modules : IsListed(n, c)' <=> IsListed(n, c)
  BY <1>4, KindsOfConfs DEF IsListed
<1> QED BY <1>4, <1>5, <1>7, <1>8 DEF ListsGood, OfKind, new

Daemons == {"up", "down", "adaptors", "snapshot"}

LEMMA CrashKeeps ==
  ASSUME ListsPart, Crash
  PROVE  RequestsGood' /\ ListsPart' /\ daemon' \in Daemons
<1>1. ListsGood' /\ InstTyped' /\ ListedUsable'
  <2>1. FreshState'
    BY DEF Crash, FreshState
  <2> QED BY <2>1, FreshLists, PTL
<1>2. DiskGood'
  BY DiskWritten DEF Crash, ListsPart
<1>3. RequestsGood'
  <2>1. /\ daemon' = "down" /\ reg' = 0 /\ made' = 0 /\ mapMU' = None
        /\ mutex' = [m \in Objects |-> None]
        /\ req' = [c \in Clients |-> Idle("none")]
    BY DEF Crash
  <2>2. Fields(Idle("none")) /\ Idle("none").pc = "idle" /\ Idle("none").op = ""
        /\ Idle("none").m = 0 /\ Idle("none").last = "none"
    BY DEF Idle, Fields
  <2>3. Joining' = {}
    BY <2>1, <2>2 DEF Joining
  <2>4. IsFiniteSet(Joining') /\ made' + Cardinality(Joining') <= MaxMachines
    <3>1. IsFiniteSet({}) /\ Cardinality({}) = 0
      BY FS_EmptySet
    <3>2. MaxMachines \in Nat
      BY BoundAssumption
    <3> QED BY <2>1, <2>3, <3>1, <3>2
  <2>5. RequestsKept'
    BY <2>1, <2>2, <2>4, KindsAssumption DEF RequestsKept, Fields
  <2>6. LocksHeld' /\ BlocksKept'
    BY <2>1, <2>2, KindsAssumption DEF LocksHeld, BlocksKept
  <2>7. \A c \in Clients : req'[c].pc \in Pcs /\ req'[c].m \in 0 .. MaxMachines
    BY <2>1, <2>2, ObjectBounds DEF Pcs
  <2>8. reg' \in 0 .. made' /\ made' \in 0 .. MaxMachines
    BY <2>1, ObjectBounds
  <2>9. mutex' \in [Objects -> Clients \cup {None}] /\ mapMU' \in Clients \cup {None}
    BY <2>1
  <2> QED BY <2>5, <2>6, <2>7, <2>8, <2>9 DEF RequestsGood
<1>4. daemon' \in Daemons
  BY DEF Crash, Daemons
<1>5. PanicsKept'
  BY DEF Crash, PanicsKept, Idle
<1> QED BY <1>1, <1>2, <1>3, <1>4, <1>5 DEF ListsPart

\* Until the daemon serves requests there is none.
LEMMA StartingKeeps ==
  ASSUME RequestsGood, daemon # "up", UNCHANGED <<mutex, mapMU, req>>,
         daemon' \in Daemons,
         \/ daemon' = "up" /\ UNCHANGED <<reg, made>>
         \/ daemon' \in {"adaptors", "snapshot"} /\ made' = 1 /\ reg' = 1,
         daemon' = "adaptors" => disk' # None
  PROVE  RequestsGood'
<1>1. RequestsKept /\ \A c \in Clients : req[c] = Idle("none")
  BY DEF RequestsGood, RequestsKept
<1>2. Idle("none").pc = "idle"
  BY DEF Idle
<1>3. Joining = {} /\ Joining' = {}
  BY <1>1, <1>2 DEF Joining
<1>4. IsFiniteSet({}) /\ Cardinality({}) = 0
  BY FS_EmptySet
<1>5. MaxMachines \in Nat \ {0}
  BY BoundAssumption
<1>6. made \in 0 .. MaxMachines /\ reg \in 0 .. made
  BY DEF RequestsGood
<1>7. /\ made' \in 0 .. MaxMachines /\ reg' \in 0 .. made'
      /\ made' + Cardinality(Joining') <= MaxMachines /\ IsFiniteSet(Joining')
  BY <1>3, <1>4, <1>5, <1>6
<1>8. RequestsKept'
  BY <1>1, <1>7 DEF RequestsKept, Fields, Daemons
<1> QED BY <1>7, <1>8 DEF RequestsGood, LocksHeld, BlocksKept

LEMMA RestoreKeeps ==
  ASSUME RequestsGood, ListsPart, Restart \/ RestoreAdaptors \/ RestoreSnapshot
  PROVE  RequestsGood' /\ ListsPart' /\ daemon' \in Daemons
<1>0. daemon # "up" /\ UNCHANGED <<mutex, mapMU, req>> /\ daemon' \in Daemons
  BY DEF Restart, RestoreAdaptors, RestoreSnapshot, Daemons
<1>1. daemon # "down" => reg = 1 /\ made = 1
  BY <1>0 DEF RequestsGood, RequestsKept
<1>2. daemon # "down" => reg \in Objects
  <2>1. MaxMachines \in Nat \ {0}
    BY BoundAssumption
  <2> QED BY <1>1, <2>1 DEF Objects
<1>3. CASE Restart
  <2>1. UNCHANGED <<list, inst, disk>>
    BY <1>3 DEF Restart
  <2>2. ListsPart'
    BY <1>0, <2>1, OthersLists DEF Calm, Stuck
  <2>3. /\ \/ daemon' = "up" /\ UNCHANGED <<reg, made>>
           \/ daemon' \in {"adaptors", "snapshot"} /\ made' = 1 /\ reg' = 1
        /\ daemon' = "adaptors" => disk' # None
    BY <1>3 DEF Restart
  <2> QED BY <1>0, <2>2, <2>3, StartingKeeps
<1>4. CASE RestoreSnapshot
  <2>1. UNCHANGED <<list, inst, reg, made>> /\ disk' = View(reg) /\ daemon' = "up"
        /\ daemon = "snapshot"
    BY <1>4 DEF RestoreSnapshot
  <2>2. ListsPart'
    BY <1>0, <1>2, <2>1, OthersLists DEF Calm, Stuck
  <2> QED BY <1>0, <2>1, <2>2, StartingKeeps
<1>5. CASE RestoreAdaptors
  <2>1. daemon = "adaptors" /\ UNCHANGED <<inst, disk, reg, made>>
    BY <1>5 DEF RestoreAdaptors
  <2>2. RequestsGood'
    <3>1. \/ daemon' = "up" /\ UNCHANGED <<reg, made>>
          \/ daemon' = "snapshot" /\ made' = 1 /\ reg' = 1
      BY <1>1, <1>5, <2>1 DEF RestoreAdaptors
    <3> QED BY <1>0, <3>1, StartingKeeps
  <2>3. disk \in File /\ OfKind(disk.adaptors, "adaptors")
    BY <2>1, KindsOfConfs DEF RequestsGood, RequestsKept, ListsPart, DiskGood
  <2> DEFINE q == disk.adaptors
  <2>4. q \in Seq(Confs)
    BY <2>3, KindsOfConfs DEF File
  <2>5. ASSUME UNCHANGED list PROVE ListsPart'
    <3>1. Calm
      BY <1>0 DEF Calm, Stuck
    <3>2. UNCHANGED <<list, inst>> /\ UNCHANGED disk
      BY <2>1, <2>5
    <3> QED BY <3>1, <3>2, OthersLists
  <2>6. ASSUME NEW k \in 1 .. Len(q),
               list' = [list EXCEPT ![reg].adaptors =
                          [mem |-> <<SubSeq(q, 1, k)>>, array |-> 1, len |-> k]]
        PROVE  ListsPart'
    <3>1. ListsGood /\ reg \in Objects /\ OfKind(q, "adaptors")
      BY <1>2, <2>1, <2>3 DEF ListsPart
    <3>2. /\ ListsGood'
          /\ \A n \in Objects, c \in Modules : IsListed(n, c)' <=> IsListed(n, c)
      <4> HIDE DEF q
      <4> QED BY <2>4, <2>6, <3>1, RestoredList
    <3>3. \A n \in Objects, c \in Modules : Stuck(n, c)' <=> Stuck(n, c)
      BY <1>0 DEF Stuck
    <3>4. /\ InstTyped' /\ ListedUsable'
          /\ \A n \in Objects, c \in Modules : Hopeless(n, c)' <=> Hopeless(n, c)
      BY <2>1, <3>2, <3>3, UsableSame DEF ListsPart
    <3>5. PanicsKept'
      BY <1>0, <3>4, PanicsStay DEF ListsPart
    <3>6. DiskGood'
      BY <2>1, <3>2, DiskWritten DEF ListsPart
    <3> QED BY <3>2, <3>4, <3>5, <3>6 DEF ListsPart
  <2>7. ListsPart'
    BY <1>5, <2>5, <2>6 DEF RestoreAdaptors
  <2> QED BY <1>0, <2>2, <2>7
<1> QED BY <1>3, <1>4, <1>5

-----------------------------------------------------------------------------
(* The theorems.                                                             *)

LEMMA InvariantParts ==
  IInv <=> daemon \in Daemons /\ raced \in BOOLEAN /\ RequestsGood /\ ListsPart
<1>1. IInv => daemon \in Daemons /\ raced \in BOOLEAN /\ RequestsGood /\ ListsPart
  <2> SUFFICES ASSUME IInv
               PROVE  daemon \in Daemons /\ raced \in BOOLEAN /\ RequestsGood /\ ListsPart
    OBVIOUS
  <2>1. daemon \in Daemons /\ raced \in BOOLEAN /\ RequestsGood
    BY DEF IInv, TypeOK, RequestsGood, Daemons, Pcs
  <2>2. ListsGood /\ InstTyped /\ ListedUsable /\ PanicsKept /\ DiskGood
    BY DEF IInv, TypeOK, ListsKept, ListsGood, ListsTyped, InstTyped, InstType, DiskGood
  <2> QED BY <2>1, <2>2 DEF ListsPart
<1>2. daemon \in Daemons /\ raced \in BOOLEAN /\ RequestsGood /\ ListsPart => IInv
  <2> SUFFICES ASSUME daemon \in Daemons, raced \in BOOLEAN, RequestsGood, ListsPart
               PROVE  IInv
    OBVIOUS
  <2>1. TypeOK
    <3>1. ListsTyped /\ InstTyped /\ DiskGood
      BY DEF ListsPart, ListsGood
    <3>2. /\ daemon \in {"up", "down", "adaptors", "snapshot"} /\ raced \in BOOLEAN
          /\ disk = None \/ disk \in File
      BY <3>1 DEF Daemons, DiskGood
    <3>3. \A c \in Clients : /\ req[c].pc \in {"idle", "join", "joined", "found", "save",
                                                "blocked", "loop", "erase"}
                             /\ req[c].m \in 0 .. MaxMachines
      BY DEF RequestsGood, Pcs
    <3>4. /\ reg \in 0 .. made /\ made \in 0 .. MaxMachines
          /\ mutex \in [Objects -> Clients \cup {None}] /\ mapMU \in Clients \cup {None}
      BY DEF RequestsGood
    <3>5. inst \in [Objects -> [Modules -> [worker : {"none", "running"}, closed : BOOLEAN,
                                           done : {0, 1}, master : BOOLEAN]]]
      BY <3>1 DEF InstTyped, InstType
    <3> QED BY <3>1, <3>2, <3>3, <3>4, <3>5 DEF ListsTyped, TypeOK
  <2>2. RequestsKept /\ LocksHeld /\ BlocksKept
    BY DEF RequestsGood
  <2>3. ListsKept /\ ListedOnce /\ ListedUsable /\ PanicsKept
    BY DEF ListsPart, ListsKept, ListsGood, DiskGood
  <2> QED BY <2>1, <2>2, <2>3 DEF IInv
<1> QED BY <1>1, <1>2

LEMMA InitInvariant == Init => IInv
<1> SUFFICES ASSUME Init PROVE IInv
  OBVIOUS
<1>1. ListsPart
  <2>1. FreshState /\ disk = None
    BY DEF Init, FreshState
  <2>2. ListsGood /\ InstTyped /\ ListedUsable
    BY <2>1, FreshLists
  <2>3. PanicsKept
    BY DEF Init, PanicsKept, Idle
  <2> QED BY <2>1, <2>2, <2>3 DEF ListsPart, DiskGood
<1>2. /\ Fields(Idle("none")) /\ Idle("none").pc = "idle" /\ Idle("none").op = ""
      /\ Idle("none").m = 0 /\ Idle("none").last = "none"
  BY DEF Idle, Fields
<1>3. /\ daemon = "up" /\ reg = 0 /\ made = 0 /\ mapMU = None
      /\ mutex = [m \in Objects |-> None] /\ req = [c \in Clients |-> Idle("none")]
  BY DEF Init
<1>4. IsFiniteSet(Joining) /\ made + Cardinality(Joining) <= MaxMachines
  <2>1. Joining = {}
    BY <1>2, <1>3 DEF Joining
  <2>2. MaxMachines \in Nat
    BY BoundAssumption
  <2> QED BY <1>3, <2>1, <2>2, FS_EmptySet
<1>5. RequestsKept
  BY <1>2, <1>3, <1>4, KindsAssumption DEF RequestsKept, Fields
<1>6. LocksHeld /\ BlocksKept
  BY <1>2, <1>3, KindsAssumption DEF LocksHeld, BlocksKept
<1>7. \A c \in Clients : req[c].pc \in Pcs /\ req[c].m \in 0 .. MaxMachines
  BY <1>2, <1>3, ObjectBounds DEF Pcs
<1>8. RequestsGood
  BY <1>3, <1>5, <1>6, <1>7, ObjectBounds DEF RequestsGood
<1>9. daemon \in Daemons /\ raced \in BOOLEAN
  BY <1>3 DEF Daemons, Init
<1> QED BY <1>1, <1>8, <1>9, InvariantParts

\* Only a crash takes it back that a request has met the end of its machine.
LEMMA RacedStep ==
  ASSUME [Next]_vars, raced \in BOOLEAN
  PROVE  raced' \in BOOLEAN /\ (~Crash /\ raced => raced')
<1>1. ASSUME NEW c \in Clients, Works(c) PROVE raced' \in BOOLEAN /\ (raced => raced')
  BY <1>1 DEF Works
<1>2. ASSUME UNCHANGED raced PROVE raced' \in BOOLEAN /\ (raced => raced')
  BY <1>2
<1>3. ASSUME NEW c \in Clients, Serve(c) PROVE raced' \in BOOLEAN /\ (raced => raced')
  <2>1. JoinSave(c) \/ AttachLocked(c) \/ StartLocked(c) \/ Save(c) => Works(c)
    BY DEF JoinSave, AttachLocked, StartLocked, Save
  <2>2. StopLocked(c) \/ LeaveStops(c) => Works(c)
    BY DEF StopLocked, LeaveStops, StopModule
  <2>3. LeaveNextKind(c) \/ LeaveDelete(c) \/ LeaveErase(c) => UNCHANGED raced
    BY DEF LeaveNextKind, LeaveDelete, LeaveErase
  <2>4. JoinInsert(c) => raced' \in BOOLEAN /\ (raced => raced')
    BY DEF JoinInsert
  <2> QED BY <1>1, <1>2, <1>3, <2>1, <2>2, <2>3, <2>4 DEF Serve
<1>4. \A c \in Clients : Join(c) \/ Leave(c) => UNCHANGED raced
  BY DEF Join, Leave
<1>5. \A c \in Clients, op \in {"start", "stop"}, conf \in Confs :
        Lookup(c, op, conf) => UNCHANGED raced
  BY DEF Lookup
<1>6. \A m \in Objects, conf \in Modules : WorkerReturns(m, conf) => UNCHANGED raced
  BY DEF WorkerReturns
<1>7. /\ Restart \/ RestoreAdaptors \/ RestoreSnapshot => UNCHANGED raced
      /\ Crash => raced' = FALSE
      /\ UNCHANGED vars => UNCHANGED raced
  BY DEF Restart, RestoreAdaptors, RestoreSnapshot, Crash, vars
<1> QED BY <1>2, <1>3, <1>4, <1>5, <1>6, <1>7 DEF Next

LEMMA NextInvariant == IInv /\ [Next]_vars => IInv'
<1> SUFFICES ASSUME daemon \in Daemons, RequestsGood, ListsPart, [Next]_vars
             PROVE  daemon' \in Daemons /\ RequestsGood' /\ ListsPart'
  <2>1. IInv' <=> (daemon \in Daemons /\ raced \in BOOLEAN /\ RequestsGood /\ ListsPart)'
    BY InvariantParts, PTL
  <2>2. raced \in BOOLEAN /\ [Next]_vars => (raced \in BOOLEAN)'
    BY RacedStep
  <2> QED BY <2>1, <2>2, InvariantParts
<1>1. ASSUME NEW c \in Clients, Join(c) PROVE RequestsGood' /\ ListsPart' /\ daemon' = daemon
  BY <1>1, JoinKeeps, OthersLists DEF Join
<1>2. ASSUME NEW c \in Clients, JoinInsert(c) PROVE RequestsGood' /\ ListsPart' /\ daemon' = daemon
  BY <1>2, JoinInsertKeeps, OthersLists DEF JoinInsert
<1>3. ASSUME NEW c \in Clients, JoinSave(c) PROVE RequestsGood' /\ ListsPart' /\ daemon' = daemon
  <2>1. req[c].m \in Objects
    BY <1>3, ServingFacts DEF JoinSave, AtWork
  <2> QED BY <1>3, <2>1, JoinSaveKeeps, OthersLists DEF JoinSave
<1>4. ASSUME NEW c \in Clients, NEW op \in {"start", "stop"}, NEW conf, Lookup(c, op, conf)
      PROVE  RequestsGood' /\ ListsPart' /\ daemon' = daemon
  BY <1>4, LookupKeeps, OthersLists DEF Lookup
<1>5. ASSUME NEW c \in Clients, AttachLocked(c) PROVE RequestsGood' /\ ListsPart' /\ daemon' = daemon
  <2>1. RequestsGood' /\ Calm
    BY <1>5, AttachKeeps
  <2> QED BY <1>5, <2>1, AttachLists DEF AttachLocked
<1>6. ASSUME NEW c \in Clients, StartLocked(c) PROVE RequestsGood' /\ ListsPart' /\ daemon' = daemon
  <2>1. RequestsGood'
    BY <1>6, StartKeeps
  <2> QED BY <1>6, <2>1, StartLists DEF StartLocked
<1>7. ASSUME NEW c \in Clients, StopLocked(c) PROVE RequestsGood' /\ ListsPart' /\ daemon' = daemon
  <2>1. RequestsGood' /\ ListsPart'
    BY <1>7, StopLists DEF StopLocked
  <2> QED BY <1>7, <2>1 DEF StopLocked, StopModule
<1>8. ASSUME NEW c \in Clients, Save(c) PROVE RequestsGood' /\ ListsPart' /\ daemon' = daemon
  <2>1. req[c].m \in Objects
    BY <1>8, ServingFacts DEF Save, AtWork
  <2> QED BY <1>8, <2>1, SaveKeeps, OthersLists DEF Save
<1>9. ASSUME NEW c \in Clients, Leave(c) PROVE RequestsGood' /\ ListsPart' /\ daemon' = daemon
  BY <1>9, LeaveKeeps, OthersLists DEF Leave
<1>10. ASSUME NEW c \in Clients, LeaveStops(c) PROVE RequestsGood' /\ ListsPart' /\ daemon' = daemon
  <2>1. PICK conf : req[c].pc = "loop" /\ StopModule(c, req[c].m, conf)
    BY <1>10 DEF LeaveStops
  <2>2. RequestsGood' /\ ListsPart'
    BY <2>1, StopLists
  <2> QED BY <2>1, <2>2 DEF StopModule
<1>11. ASSUME NEW c \in Clients, LeaveNextKind(c) \/ LeaveDelete(c)
       PROVE  RequestsGood' /\ ListsPart' /\ daemon' = daemon
  <2>1. UNCHANGED <<list, inst, disk, daemon>>
    BY <1>11 DEF LeaveNextKind, LeaveDelete
  <2> QED BY <1>11, <2>1, LoopKeeps, OthersLists
<1>12. ASSUME NEW c \in Clients, LeaveErase(c) PROVE RequestsGood' /\ ListsPart' /\ daemon' = daemon
  BY <1>12, LeaveEraseKeeps, OthersLists DEF LeaveErase
<1>13. ASSUME NEW m \in Objects, NEW conf \in Modules, WorkerReturns(m, conf)
       PROVE  RequestsGood' /\ ListsPart' /\ daemon' = daemon
  <2>1. UNCHANGED <<daemon, reg, made, mutex, mapMU, disk, req>>
    BY <1>13 DEF WorkerReturns
  <2>2. RequestsGood'
    BY <2>1 DEF RequestsGood, RequestsKept, LocksHeld, BlocksKept, Joining, Fields
  <2> QED BY <1>13, <2>1, <2>2, WorkerLists
<1>14. ASSUME UNCHANGED vars PROVE RequestsGood' /\ ListsPart' /\ daemon' = daemon
  <2>1. UNCHANGED <<daemon, reg, made, list, inst, mutex, mapMU, disk, req>>
    BY <1>14 DEF vars
  <2>2. RequestsGood'
    BY <2>1 DEF RequestsGood, RequestsKept, LocksHeld, BlocksKept, Joining, Fields
  <2> QED BY <2>1, <2>2, OthersLists DEF Calm, Stuck
<1> QED
  BY <1>1, <1>2, <1>3, <1>4, <1>5, <1>6, <1>7, <1>8, <1>9, <1>10, <1>11, <1>12, <1>13,
     <1>14, CrashKeeps, RestoreKeeps DEF Next, Serve

\* The inductive invariant holds (daemon machine.go:65-139, pkg/machine machine.go:
\* 268-366).
THEOREM Inductive == Spec => []IInv
<1> QED BY InitInvariant, NextInvariant, PTL DEF Spec

\* A request has panicked on a plugin without a process master only where that plugin
\* is still listed.
LEMMA FailuresHaveCauses == IInv => FailsOnlyAfterFailure
BY DEF IInv, PanicsKept, BlocksKept, Hopeless, FailsOnlyAfterFailure

\* Every module whose goroutine runs is in the list of its machine, and in it once;
\* whoever changes the lists holds the mutex, and MachineLeave machinesMU; and no
\* request panics, or waits for a worker or a process that will not come, except on a
\* module that was refused its subscription, whose device is faulty or that runs a
\* plugin: there a failed Start leaves no process master to stop, and the process
\* master may not return from stopping.  It holds for any number of requests side by
\* side and across crashes (machine.go:271-280, 340-365, robot.go:107-118,
\* mpi.go:137-228).
THEOREM ListsKeptRight == Spec => []ListsInv
<1>1. IInv => RunningListed
  <2> SUFFICES ASSUME IInv, NEW m \in Objects, NEW conf \in Modules
               PROVE  LET names == Names(m, KindOf(conf))
                          at == {k \in DOMAIN names : names[k] = conf}
                      IN /\ Running(m, conf) => at # {}
                         /\ Cardinality(at) <= 1
    BY DEF RunningListed
  <2> DEFINE names == Names(m, KindOf(conf))
             at == {k \in DOMAIN names : names[k] = conf}
  <2>1. ListsGood /\ ListedUsable /\ KindOf(conf) \in {"controllers", "drivers"}
    BY InvariantParts, KindsOfConfs DEF ListsPart
  <2>2. names \in Seq(Confs \cup {None}) /\ Once(names)
    BY <2>1, NamesType, KindsOfConfs DEF ListsGood, ListedOnce
  <2>3. DOMAIN names = 1 .. Len(names)
    BY <2>2
  <2>4. Running(m, conf) => at # {}
    BY <2>1, <2>3 DEF ListedUsable, IsListed
  <2>5. Cardinality(at) <= 1
    <3>1. \A j, k \in at : j = k
      BY <2>2, <2>3 DEF Once
    <3>2. CASE at = {}
      BY <3>2, FS_EmptySet
    <3>3. CASE at # {}
      <4>1. PICK k \in at : at = {k}
        BY <3>1, <3>3
      <4>2. Cardinality({k}) = 1
        BY FS_Singleton
      <4> HIDE DEF at
      <4> QED BY <4>1, <4>2
    <3> QED BY <3>2, <3>3
  <2> QED BY <2>4, <2>5
<1>2. IInv => ListsInv
  BY <1>1, FailuresHaveCauses DEF IInv, ListsInv
<1> QED BY <1>2, Inductive, PTL

\* No request panics but on a module that was refused its subscription or whose device
\* is faulty, or on a plugin that has no process master because its Start had failed,
\* and that stays listed; none waits for ever but for such a module or a plugin, whose
\* process need not end when it is told to (machine.go:340-365, robot.go:107-118,
\* mpi.go:137-228).
THEOREM FailuresExplained == Spec => []FailsOnlyAfterFailure
<1>1. IInv => FailsOnlyAfterFailure
  BY FailuresHaveCauses
<1> QED BY <1>1, Inductive, PTL

-----------------------------------------------------------------------------
(* The restore.                                                              *)

\* What AttachAdaptors has listed of the adaptors it was given.
AttachedOf(is, was) ==
  LET n == Len(is)
  IN /\ is = SubSeq(was, 1, n)
     /\ n < Len(was) => n > 0 /\ was[n] \in AttachFails

\* Until the restore writes a snapshot the file is the one of the first crash.
RestoreKept ==
  daemon # "up" =>
    /\ before = disk
    /\ daemon \in {"down", "adaptors"} => Names(1, "adaptors") = <<>>
    /\ daemon = "snapshot" => AttachedOf(Names(1, "adaptors"), disk.adaptors)

\* Before the daemon is up nothing but a crash interrupts the restore.
LEMMA RestoreAlone ==
  ASSUME IInv, daemon # "up", [Next]_vars
  PROVE  Crash \/ Restart \/ RestoreAdaptors \/ RestoreSnapshot
         \/ UNCHANGED <<daemon, reg, list, disk, before>>
<1>1. \A c \in Clients : req[c].pc = "idle"
  <2>1. \A c \in Clients : req[c] = Idle("none")
    BY DEF IInv, RequestsKept
  <2>2. Idle("none").pc = "idle"
    BY DEF Idle
  <2> QED BY <2>1, <2>2
<1>2. \A c \in Clients : ~Serve(c)
  BY <1>1 DEF Serve, JoinInsert, JoinSave, AttachLocked, StartLocked, StopLocked, Save,
              LeaveStops, LeaveNextKind, LeaveDelete, LeaveErase
<1>3. \A c \in Clients : ~Join(c) /\ ~Leave(c)
  BY DEF Join, Leave
<1>4. \A c \in Clients, op \in {"start", "stop"}, conf \in Confs : ~Lookup(c, op, conf)
  BY DEF Lookup
<1> QED BY <1>2, <1>3, <1>4 DEF Next, vars, WorkerReturns

\* Once it is up, only a crash ends that.
LEMMA StaysUp ==
  ASSUME IInv, daemon = "up", [Next]_vars
  PROVE  Crash \/ daemon' = "up"
<1>1. \A c \in Clients : Join(c) \/ Leave(c) => UNCHANGED daemon
  BY DEF Join, Leave
<1>2. \A c \in Clients, op \in {"start", "stop"}, conf \in Confs :
        Lookup(c, op, conf) => UNCHANGED daemon
  BY DEF Lookup
<1>3. \A c \in Clients : Serve(c) => UNCHANGED daemon
  <2> SUFFICES ASSUME NEW c \in Clients, Serve(c) PROVE UNCHANGED daemon
    OBVIOUS
  <2>1. CASE JoinInsert(c) \/ JoinSave(c)
    BY <2>1 DEF JoinInsert, JoinSave
  <2>2. CASE AttachLocked(c) \/ StartLocked(c)
    BY <2>2 DEF AttachLocked, StartLocked
  <2>3. CASE StopLocked(c) \/ LeaveStops(c)
    BY <2>3 DEF StopLocked, LeaveStops, StopModule
  <2>4. CASE Save(c)
    BY <2>4 DEF Save
  <2>5. CASE LeaveNextKind(c) \/ LeaveDelete(c) \/ LeaveErase(c)
    BY <2>5 DEF LeaveNextKind, LeaveDelete, LeaveErase
  <2> QED BY <2>1, <2>2, <2>3, <2>4, <2>5 DEF Serve
<1>4. \A m \in Objects, conf \in Modules : WorkerReturns(m, conf) => UNCHANGED daemon
  BY DEF WorkerReturns
<1>5. ~Restart /\ ~RestoreAdaptors /\ ~RestoreSnapshot
  BY DEF Restart, RestoreAdaptors, RestoreSnapshot
<1> QED BY <1>1, <1>2, <1>3, <1>4, <1>5 DEF Next, vars

LEMMA RestoreStep ==
  ASSUME IInv, RestoreKept, [Next]_vars
  PROVE  /\ RestoreKept'
         /\ daemon # "up" /\ daemon' = "up" /\ before # None /\ ~DisableRestore =>
              reg' # 0 /\ AttachedOf(Names(reg, "adaptors")', before.adaptors)
<1>1. ListsPart /\ RequestsGood /\ daemon \in Daemons
  BY InvariantParts
<1>2. 1 \in Objects
  BY BoundAssumption DEF Objects
<1>3. daemon \in {"adaptors", "snapshot"} => reg = 1
  BY <1>1 DEF RequestsGood, RequestsKept
<1>4. CASE Crash
  <2>1. list' = [m \in Objects |-> Fresh] /\ daemon' = "down" /\ before' = disk'
    BY <1>4 DEF Crash, RestoreKept
  <2>2. Names(1, "adaptors")' = <<>>
    <3>1. list'[1]["adaptors"] = NilSlice
      BY <1>2, <2>1 DEF Fresh, Kinds
    <3> QED BY <3>1, NilSliceType DEF Names
  <2> QED BY <2>1, <2>2 DEF RestoreKept
<1>5. CASE Restart
  <2>1. daemon = "down" /\ UNCHANGED <<list, disk, before>>
    BY <1>5 DEF Restart
  <2>2. before = disk /\ Names(1, "adaptors")' = <<>>
    BY <2>1 DEF RestoreKept, Names
  <2>3. CASE DisableRestore \/ disk = None
    BY <1>5, <2>1, <2>2, <2>3 DEF RestoreKept, Restart
  <2>4. CASE ~DisableRestore /\ disk # None
    <3>1. daemon' = "adaptors"
      BY <1>5, <2>4 DEF Restart
    <3> QED BY <2>1, <2>2, <3>1 DEF RestoreKept
  <2> QED BY <2>3, <2>4
<1>6. CASE RestoreAdaptors
  <2> DEFINE q == disk.adaptors
  <2>1. daemon = "adaptors" /\ UNCHANGED <<disk, before, reg>> /\ reg = 1 /\ before = disk
        /\ Names(1, "adaptors") = <<>>
    BY <1>3, <1>6 DEF RestoreAdaptors, RestoreKept
  <2>2. q \in Seq(Confs) /\ OfKind(q, "adaptors")
    BY <1>1, <2>1, KindsOfConfs DEF RequestsGood, RequestsKept, ListsPart, DiskGood, File
  <2> HIDE DEF q
  <2>3. CASE Len(q) = 0
    <3>1. daemon' = "up" /\ list' = list
      BY <1>6, <2>3 DEF RestoreAdaptors, q
    <3>2. Names(reg, "adaptors")' = <<>>
      BY <2>1, <3>1 DEF Names
    <3>3. AttachedOf(<<>>, q)
      <4>1. SubSeq(q, 1, 0) = <<>> /\ Len(<<>>) = 0
        BY <2>2
      <4> QED BY <2>3, <4>1 DEF AttachedOf
    <3> QED BY <2>1, <3>1, <3>2, <3>3 DEF RestoreKept, q
  <2>4. CASE Len(q) # 0
    <3>1. PICK k \in 1 .. Len(q) :
            /\ k < Len(q) => q[k] \in AttachFails
            /\ list' = [list EXCEPT ![reg].adaptors =
                          [mem |-> <<SubSeq(q, 1, k)>>, array |-> 1, len |-> k]]
      BY <1>6, <2>4 DEF RestoreAdaptors, q
    <3>2. daemon' = "snapshot"
      BY <1>6, <2>4 DEF RestoreAdaptors, q
    <3>3. ListsGood /\ list' = [list EXCEPT ![1].adaptors =
                          [mem |-> <<SubSeq(q, 1, k)>>, array |-> 1, len |-> k]]
      BY <1>1, <2>1, <3>1 DEF ListsPart
    <3>4. Names(1, "adaptors")' = SubSeq(q, 1, k)
      BY <1>2, <2>2, <3>3, RestoredList
    <3>5. AttachedOf(SubSeq(q, 1, k), q)
      <4>1. Len(SubSeq(q, 1, k)) = k
        BY <2>2
      <4> QED BY <3>1, <4>1 DEF AttachedOf
    <3> QED BY <2>1, <3>2, <3>4, <3>5 DEF RestoreKept, q
  <2> QED BY <2>3, <2>4
<1>7. CASE RestoreSnapshot
  <2>1. daemon = "snapshot" /\ daemon' = "up" /\ UNCHANGED <<reg, list>> /\ reg = 1
        /\ before = disk /\ AttachedOf(Names(1, "adaptors"), disk.adaptors)
    BY <1>3, <1>7 DEF RestoreSnapshot, RestoreKept
  <2> QED BY <2>1 DEF RestoreKept, Names
<1>8. CASE daemon # "up" /\ UNCHANGED <<daemon, reg, list, disk, before>>
  BY <1>8 DEF RestoreKept, Names
<1>9. CASE daemon = "up" /\ daemon' = "up"
  BY <1>9 DEF RestoreKept
<1> QED BY <1>4, <1>5, <1>6, <1>7, <1>8, <1>9, RestoreAlone, StaysUp

\* Unless the restore is disabled, a machine with a snapshot is known again once the
\* daemon is up, with the adaptors of
\* the file up to the first that did not attach, however often it crashed while it
\* restored them, for it writes a snapshot only when all of them are listed
\* (restore.go:68-114, pkg/machine machine.go:268-280).
THEOREM AdaptorsComeBack == Spec => AdaptorsRestored
<1>1. Init => RestoreKept
  BY DEF Init, RestoreKept
<1>2. IInv /\ RestoreKept /\ [Next]_vars =>
        [daemon # "up" /\ daemon' = "up" /\ before # None /\ ~DisableRestore =>
           /\ reg' # 0
           /\ LET was == before.adaptors
                  is == Names(reg, "adaptors")'
                  n == Len(is)
              IN /\ is = SubSeq(was, 1, n)
                 /\ n < Len(was) => n > 0 /\ was[n] \in AttachFails]_vars
  BY RestoreStep DEF AttachedOf
<1>3. IInv /\ RestoreKept /\ [Next]_vars => RestoreKept'
  BY RestoreStep
<1> QED BY <1>1, <1>2, <1>3, Inductive, PTL DEF Spec, AdaptorsRestored

-----------------------------------------------------------------------------
(* The file, as long as no request meets the end of its machine.             *)

Bare(m) == \A conf \in Modules : ~IsListed(m, conf)

\* The loop of MachineLeave whose request is r, after it has removed done entries:
\* every one of them shortened the list, the array behind it is still the one the
\* loop reads, and whatever it reads there is of the kind it is at.
LoopAt(r, done) ==
  LET s == list[r.m][r.kind]
  IN /\ r.kind \in Kinds /\ r.k \in Nat \ {0} /\ r.head.len \in Nat
     /\ s.array = r.head.array /\ s.len + done = r.head.len
     /\ r.head.len <= Len(s.mem[s.array])
     /\ \A j \in 1 .. r.head.len :
          s.mem[s.array][j] \in Confs /\ KindOf(s.mem[s.array][j]) = r.kind
     /\ r.kind # "controllers" => list[r.m]["controllers"].len = 0
     /\ r.kind = "adaptors" => list[r.m]["drivers"].len = 0

\* What a request of MachineLeave knows of the machine, whose map it holds.
RequestAt(r) ==
  /\ r.pc = "loop" => r.m = reg /\ LoopAt(r, r.k - 1)
  /\ r.pc = "save" /\ r.op = "leave" /\ ~r.failed => r.m = reg /\ LoopAt(r, r.k)
  /\ r.pc = "erase" => reg = 0

\* The file is what a restart should find, or a request is about to write or to remove it.
Writing == {"joined", "save", "blocked"}
FileNow ==
  /\ \A m \in Objects : m # reg => Bare(m)
  /\ daemon = "up" =>
       /\ \A c \in Clients : RequestAt(req[c])
       /\ reg = 0 => DisableRestore \/ disk = None \/ \E c \in Clients : req[c].pc = "erase"
       /\ reg # 0 /\ before = None =>
            disk = View(reg) \/ \E c \in Clients : req[c].pc \in Writing
FileKept == ~raced => FileNow

LEMMA WorksAlone ==
  ASSUME NEW c \in Clients, Works(c), ~raced'
  PROVE  req[c].m = reg /\ mapMU \in {None, c}
BY DEF Works

\* One more entry of the list the loop is at is removed.
LEMMA LoopRemoves ==
  ASSUME ListsTyped, NEW r, NEW done \in Nat, r.m \in Objects, LoopAt(r, done),
         NEW i \in 1 .. list[r.m][r.kind].len,
         list' = [list EXCEPT ![r.m][r.kind] = SliceRemove(@, i)]
  PROVE  LoopAt(r, done + 1)'
<1> DEFINE s == list[r.m][r.kind]
           t == SliceRemove(s, i)
           a == s.mem[s.array]
           b == t.mem[t.array]
<1>1. r.kind \in Kinds /\ r.m \in Objects
  BY DEF LoopAt
<1>2. s \in SliceType(Confs \cup {None}) /\ SliceInBounds(s)
  BY <1>1 DEF ListsTyped
<1>3. s.len \in Nat /\ a \in Seq(Confs \cup {None}) /\ s.len <= Len(a)
  BY <1>2 DEF SliceType, SliceInBounds
<1>4. /\ t.array = s.array /\ t.len = s.len - 1 /\ Len(b) = Len(a)
      /\ \A k \in 1 .. Len(a) : b[k] = IF k \in i .. s.len - 1 THEN a[k + 1] ELSE a[k]
  <2> HIDE DEF s
  <2>1. i \in 1 .. s.len
    BY DEF s
  <2> QED BY <1>2, <2>1, SliceRemoveEffect
<1>5. /\ list'[r.m][r.kind] = t
      /\ \A kind \in Kinds : kind # r.kind => list'[r.m][kind] = list[r.m][kind]
  BY <1>1 DEF ListsTyped
<1>6. /\ r.kind \in Kinds /\ r.k \in Nat \ {0} /\ r.head.len \in Nat
      /\ s.array = r.head.array /\ s.len + done = r.head.len
      /\ r.head.len <= Len(a)
      /\ \A j \in 1 .. r.head.len : a[j] \in Confs /\ KindOf(a[j]) = r.kind
      /\ r.kind # "controllers" => list[r.m]["controllers"].len = 0
      /\ r.kind = "adaptors" => list[r.m]["drivers"].len = 0
  BY DEF LoopAt
<1> HIDE DEF s, t, a, b
<1>7. t.array = r.head.array /\ t.len + (done + 1) = r.head.len /\ r.head.len <= Len(b)
  <2>1. t.len = s.len - 1 /\ s.len \in Nat /\ s.len + done = r.head.len
    BY <1>3, <1>4, <1>6
  <2> QED BY <1>4, <1>6, <2>1
<1>8. ASSUME NEW k \in 1 .. r.head.len PROVE b[k] \in Confs /\ KindOf(b[k]) = r.kind
  <2> DEFINE j == IF k \in i .. s.len - 1 THEN k + 1 ELSE k
  <2>1. /\ s.len \in Nat /\ s.len <= r.head.len /\ r.head.len \in Nat
        /\ r.head.len <= Len(a) /\ Len(a) \in Nat /\ i \in 1 .. s.len
    BY <1>3, <1>6 DEF s
  <2>2. k \in 1 .. Len(a) /\ j \in 1 .. r.head.len
    BY <2>1
  <2>3. b[k] = a[j]
    BY <1>4, <2>2
  <2> HIDE DEF j
  <2> QED BY <1>6, <2>2, <2>3
<1>9. /\ r.kind # "controllers" => list'[r.m]["controllers"].len = 0
      /\ r.kind = "adaptors" => list'[r.m]["drivers"].len = 0
  BY <1>5, <1>6, KindsOfConfs
<1> QED BY <1>5, <1>6, <1>7, <1>8, <1>9 DEF LoopAt, b

\* How a call of StopController, StopDriver or DetachAdaptor leaves the request and
\* the list: with the entry removed, or with the list as it was and the request
\* ended, stuck or failed.
StopResult(c, m, conf) ==
  \E q :
    /\ req' = [req EXCEPT ![c] = q]
    /\ \/ list' = list /\ (q.pc = "idle" \/ (q.pc = "blocked" /\ q.m = m))
       \/ list' = list /\ q.pc = "save" /\ q.failed /\ q.m = m
       \/ /\ q = [req[c] EXCEPT !.pc = "save"] /\ conf \in Confs
          /\ \E i \in 1 .. list[m][KindOf(conf)].len :
               list' = [list EXCEPT ![m][KindOf(conf)] = Settled(SliceRemove(@, i))]

LEMMA StopLeaves ==
  ASSUME ListsGood, NEW c \in Clients, Fields(req[c]), NEW m \in Objects, req[c].m = m,
         NEW conf, StopModule(c, m, conf)
  PROVE  StopResult(c, m, conf)
<1> SUFFICES
      \E q :
           /\ req' = [req EXCEPT ![c] = q]
           /\ \/ list' = list /\ (q.pc = "idle" \/ (q.pc = "blocked" /\ q.m = m))
              \/ list' = list /\ q.pc = "save" /\ q.failed /\ q.m = m
              \/ /\ q = [req[c] EXCEPT !.pc = "save"] /\ conf \in Confs
                 /\ \E i \in 1 .. list[m][KindOf(conf)].len :
                      list' = [list EXCEPT ![m][KindOf(conf)] = Settled(SliceRemove(@, i))]
  BY DEF StopResult
<1> DEFINE saved == [req[c] EXCEPT !.pc = "save"]
           failed == [req[c] EXCEPT !.pc = "save", !.failed = TRUE, !.conf = conf]
           stuck == [req[c] EXCEPT !.pc = "blocked", !.conf = conf]
           ended == [Idle("panic") EXCEPT !.conf = conf, !.m = m]
<1>1. /\ failed.pc = "save" /\ failed.failed /\ failed.m = m
      /\ stuck.pc = "blocked" /\ stuck.m = m /\ ended.pc = "idle"
  BY DEF Fields, Idle
<1>2. /\ Failed(c, conf) => req' = [req EXCEPT ![c] = failed]
      /\ Panic(c, m, conf) => req' = [req EXCEPT ![c] = ended] /\ list' = list
      /\ req' = [req EXCEPT ![c].pc = "save"] => req' = [req EXCEPT ![c] = saved]
      /\ Waits(c, m, conf) => req' = [req EXCEPT ![c] = stuck] /\ list' = list
  BY DEF Failed, Panic, Waits
<1> HIDE DEF saved, failed, stuck, ended
<1>3. CASE NotFound(c, m, conf)
  BY <1>1, <1>2, <1>3 DEF NotFound
<1>4. CASE DetachAdaptor(c, m, conf)
  <2> DEFINE a == list[m].adaptors
             i == CHOOSE k \in 1 .. a.len :
                    Listing(a)[k] = conf /\ \A j \in 1 .. k - 1 : Listing(a)[j] # conf
  <2>1. conf \in Adaptors /\ IsListed(m, conf) /\ KindOf(conf) = "adaptors" /\ conf \in Confs
    BY <1>4, KindsOfConfs DEF DetachAdaptor
  <2>2. i \in 1 .. a.len
    BY <2>1, FirstListed DEF ListsGood
  <2>3. list' = [list EXCEPT ![m].adaptors = Settled(SliceRemove(@, i))]
        /\ req' = [req EXCEPT ![c].pc = "save"]
    BY <1>4 DEF DetachAdaptor
  <2> HIDE DEF i
  <2> QED BY <1>2, <2>1, <2>2, <2>3 DEF saved
<1>5. ASSUME NEW withInst, ShutModule(c, m, conf, withInst), conf \in Modules,
             IsListed(m, conf)
      PROVE  \/ Panic(c, m, conf)
             \/ Failed(c, conf) /\ list' = list
             \/ /\ req' = [req EXCEPT ![c].pc = "save"] /\ conf \in Confs
                /\ \E i \in 1 .. list[m][KindOf(conf)].len :
                     list' = [list EXCEPT ![m][KindOf(conf)] = Settled(SliceRemove(@, i))]
  <2> DEFINE a == list[m][KindOf(conf)]
             i == CHOOSE k \in 1 .. a.len : Listing(a)[k] = conf
  <2>1. conf \in Confs /\ KindOf(conf) \in Kinds
    BY <1>5, KindsOfConfs
  <2>2. i \in 1 .. a.len
    <3>1. Len(Names(m, KindOf(conf))) = a.len
      BY <2>1, NamesType DEF ListsGood
    <3> QED BY <1>5, <3>1 DEF IsListed, Names
  <2>3. CASE inst[m][conf].closed \/ NoMaster(m, conf) \/ conf \in Unknown
    BY <1>5, <2>3 DEF ShutModule
  <2>4. CASE ~inst[m][conf].closed /\ ~NoMaster(m, conf) /\ conf \notin Unknown
    <3>1. /\ list' = [list EXCEPT ![m][KindOf(conf)] = Settled(SliceRemove(@, i))]
          /\ req' = [req EXCEPT ![c].pc = "save"]
      BY <1>5, <2>4 DEF ShutModule
    <3> HIDE DEF i
    <3> QED BY <2>1, <2>2, <3>1
  <2> QED BY <2>3, <2>4
<1>6. ASSUME NEW withInst, ShutModule(c, m, conf, withInst), conf \in Modules,
             IsListed(m, conf)
      PROVE  \E q :
           /\ req' = [req EXCEPT ![c] = q]
           /\ \/ list' = list /\ (q.pc = "idle" \/ (q.pc = "blocked" /\ q.m = m))
              \/ list' = list /\ q.pc = "save" /\ q.failed /\ q.m = m
              \/ /\ q = saved /\ conf \in Confs
                 /\ \E i \in 1 .. list[m][KindOf(conf)].len :
                      list' = [list EXCEPT ![m][KindOf(conf)] = Settled(SliceRemove(@, i))]
  BY <1>1, <1>2, <1>5, <1>6
<1>7. CASE StopController(c, m, conf)
  <2>1. CASE ShutModule(c, m, conf, inst)
    BY <1>6, <1>7, <2>1, KindsOfConfs DEF StopController, saved
  <2>2. CASE Waits(c, m, conf)
    BY <1>1, <1>2, <2>2
  <2> QED BY <1>7, <2>1, <2>2 DEF StopController
<1>8. CASE StopDriver(c, m, conf)
  <2>1. conf \in Modules /\ IsListed(m, conf)
    BY <1>8, KindsOfConfs DEF StopDriver
  <2> DEFINE sent == [inst EXCEPT ![m][conf].done = 1]
  <2>2. CASE ShutModule(c, m, conf, sent)
    <3> HIDE DEF sent
    <3> QED BY <1>6, <2>1, <2>2 DEF saved
  <2>3. CASE ~ShutModule(c, m, conf, sent)
    <3>1. Waits(c, m, conf) \/ (list' = list /\ Failed(c, conf))
      BY <1>8, <2>3 DEF StopDriver
    <3> QED BY <1>1, <1>2, <3>1
  <2> QED BY <2>2, <2>3
<1> QED BY <1>3, <1>4, <1>7, <1>8 DEF StopModule

\* The request of c becomes q; unless the lists and the map stay as they are, no other
\* request is one of MachineLeave.
LEMMA FileOfRequest ==
  ASSUME RequestsGood, FileNow, daemon = "up", NEW c \in Clients,
         NEW q, req' = [req EXCEPT ![c] = q], RequestAt(q)',
         UNCHANGED <<list, reg>> \/ mapMU \in {None, c},
         \A m \in Objects : m # reg' => Bare(m)',
         reg' = 0 => disk' = None \/ q.pc = "erase"
                       \/ (UNCHANGED <<reg, disk>> /\ req[c].pc # "erase"),
         reg' # 0 /\ before' = None =>
           \/ disk' = View(reg)' \/ q.pc \in Writing
           \/ UNCHANGED <<reg, disk, list, before>> /\ req[c].pc \notin Writing
  PROVE  FileNow'
<1>1. req'[c] = q /\ \A d \in Clients : d # c => req'[d] = req[d]
  BY DEF RequestsGood, RequestsKept
<1>2. ASSUME NEW d \in Clients PROVE RequestAt(req[d])'
  <2>1. CASE d = c
    BY <1>1, <2>1 DEF RequestAt, LoopAt
  <2>2. CASE d # c /\ UNCHANGED <<list, reg>>
    <3>1. RequestAt(req[d]) /\ req'[d] = req[d]
      BY <1>1, <2>2 DEF FileNow
    <3> QED BY <2>2, <3>1 DEF RequestAt, LoopAt
  <2>3. CASE d # c /\ mapMU \in {None, c}
    <3>1. req'[d] = req[d] /\ req[d].op # "leave" /\ req[d].pc \notin {"loop", "erase"}
      BY <1>1, <2>3, ServingFacts
    <3> QED BY <3>1 DEF RequestAt
  <2> QED BY <2>1, <2>2, <2>3
<1>3. reg' = 0 => DisableRestore \/ disk' = None \/ \E d \in Clients : req'[d].pc = "erase"
  <2>1. CASE UNCHANGED <<reg, disk>> /\ req[c].pc # "erase"
    BY <1>1, <2>1 DEF FileNow
  <2> QED BY <1>1, <2>1
<1>4. reg' # 0 /\ before' = None =>
        disk' = View(reg)' \/ \E d \in Clients : req'[d].pc \in Writing
  <2>1. CASE UNCHANGED <<reg, disk, list, before>> /\ req[c].pc \notin Writing
    <3>1. View(reg)' = View(reg)
      BY <2>1 DEF View, Names
    <3> QED BY <1>1, <2>1, <3>1 DEF FileNow
  <2> QED BY <1>1, <2>1
<1> QED BY <1>2, <1>3, <1>4 DEF FileNow, View

LEMMA JoinFile ==
  ASSUME RequestsGood, FileNow, daemon = "up", ~raced', NEW c \in Clients,
         Join(c) \/ JoinInsert(c) \/ JoinSave(c)
  PROVE  FileNow'
<1>1. \A m \in Objects : Bare(m)' <=> Bare(m)
  BY DEF Bare, IsListed, Names, Join, JoinInsert, JoinSave
<1>2. CASE Join(c)
  <2> DEFINE q == [Idle("none") EXCEPT !.pc = "join", !.op = "join"]
  <2>1. q.pc = "join"
    BY DEF Idle
  <2>2. /\ req' = [req EXCEPT ![c] = q] /\ req[c].pc = "idle"
        /\ UNCHANGED <<reg, disk, list, before>>
    BY <1>2 DEF Join
  <2> HIDE DEF q
  <2>3. RequestAt(q)'
    BY <2>1 DEF RequestAt
  <2>4. \A m \in Objects : m # reg' => Bare(m)'
    BY <1>1, <2>2 DEF FileNow
  <2> QED BY <2>2, <2>3, <2>4, FileOfRequest DEF Writing
<1>3. CASE JoinInsert(c)
  <2>0. PICK q : q = [req[c] EXCEPT !.pc = "joined", !.m = made + 1]
    OBVIOUS
  <2>1. q.pc = "joined"
    BY <2>0, ServingFacts DEF Fields
  <2>2. /\ req' = [req EXCEPT ![c] = q] /\ mapMU = None /\ reg' = made + 1 /\ reg = 0
    BY <1>3, <2>0 DEF JoinInsert
  <2>3. RequestAt(q)'
    BY <2>1 DEF RequestAt
  <2>4. \A m \in Objects : Bare(m)'
    BY <1>1, <2>2 DEF FileNow, Objects
  <2>5. reg' # 0
    BY <2>2, BoundAssumption DEF RequestsGood
  <2> QED BY <2>1, <2>2, <2>3, <2>4, <2>5, FileOfRequest DEF Writing
<1>4. CASE JoinSave(c)
  <2> DEFINE q == Idle("none")
  <2>1. q.pc = "idle"
    BY DEF Idle
  <2>2. /\ req' = [req EXCEPT ![c] = q] /\ req[c].pc = "joined" /\ Works(c)
        /\ disk' = View(req[c].m) /\ UNCHANGED <<reg, list>>
    BY <1>4 DEF JoinSave
  <2> HIDE DEF q
  <2>3. req[c].m = reg /\ reg # 0
    <3>1. req[c].m = reg
      BY <2>2, WorksAlone
    <3>2. req[c].m \in Objects
      BY <2>2, ServingFacts DEF AtWork
    <3> QED BY <3>1, <3>2 DEF Objects
  <2>4. disk' = View(reg)'
    BY <2>2, <2>3 DEF View, Names
  <2>5. RequestAt(q)'
    BY <2>1 DEF RequestAt
  <2>6. \A m \in Objects : m # reg' => Bare(m)'
    BY <1>1, <2>2 DEF FileNow
  <2> QED BY <2>2, <2>3, <2>4, <2>5, <2>6, FileOfRequest
<1> QED BY <1>2, <1>3, <1>4

\* A request that looks the machine up, starts something on it, or writes its file.
LEMMA LookupFile ==
  ASSUME RequestsGood, FileNow, daemon = "up", NEW c \in Clients,
         NEW op \in {"start", "stop"}, NEW conf, Lookup(c, op, conf)
  PROVE  FileNow'
<1>0. PICK q : q = [Idle("none") EXCEPT !.pc = "found", !.op = op, !.conf = conf, !.m = reg]
  OBVIOUS
<1>1. q.pc = "found"
  BY <1>0 DEF Idle
<1>2. /\ req' = [req EXCEPT ![c] = q] /\ req[c].pc = "idle" /\ reg # 0
      /\ UNCHANGED <<reg, disk, list, before>>
  BY <1>0 DEF Lookup
<1>3. RequestAt(q)'
  BY <1>1 DEF RequestAt
<1>4. \A m \in Objects : m # reg' => Bare(m)'
  BY <1>2 DEF FileNow, Bare, IsListed, Names
<1> QED BY <1>2, <1>3, <1>4, FileOfRequest DEF Writing

LEMMA StartFile ==
  ASSUME RequestsGood, ListsPart, FileNow, daemon = "up", ~raced', NEW c \in Clients,
         AttachLocked(c) \/ StartLocked(c)
  PROVE  FileNow'
<1>1. /\ req[c].pc = "found" /\ Fields(req[c]) /\ req[c].op # "leave"
      /\ req[c].m \in Objects /\ UNCHANGED reg /\ Works(c)
  BY ServingFacts DEF AttachLocked, StartLocked, AtWork
<1>2. req[c].m = reg /\ mapMU \in {None, c} /\ reg # 0
  BY <1>1, WorksAlone DEF Objects
<1>3. PICK q : req' = [req EXCEPT ![c] = q] /\ q.pc \in {"save", "blocked"} /\ q.op = req[c].op
  <2>1. CASE AttachLocked(c)
    <3> DEFINE q == [req[c] EXCEPT !.pc = "save"]
    <3>1. req' = [req EXCEPT ![c] = q] /\ q.pc = "save" /\ q.op = req[c].op
      BY <1>1, <2>1 DEF AttachLocked, Fields
    <3> QED BY <3>1
  <2>2. CASE StartLocked(c)
    <3>1. StartOutcome(c)
      BY <2>2, StartEnds
    <3> QED BY <3>1 DEF StartOutcome
  <2> QED BY <2>1, <2>2
<1>4. \A n \in Objects : n # reg => list'[n] = list[n]
  <2>1. list = [n \in Objects |-> list[n]]
    BY DEF ListsPart, ListsGood, ListsTyped
  <2> QED BY <1>2, <2>1 DEF AttachLocked, StartLocked
<1>5. \A n \in Objects : n # reg' => Bare(n)'
  BY <1>1, <1>4 DEF FileNow, Bare, IsListed, Names
<1>6. RequestAt(q)'
  BY <1>1, <1>3 DEF RequestAt
<1> QED BY <1>1, <1>2, <1>3, <1>5, <1>6, FileOfRequest DEF Writing

\* A stop, by a request of its own or from the loop of MachineLeave.
LEMMA StopFile ==
  ASSUME RequestsGood, ListsPart, FileNow, daemon = "up", ~raced', NEW c \in Clients,
         NEW r, r = req[c], NEW conf, StopModule(c, r.m, conf),
         \/ r.pc = "found" /\ r.op = "stop"
         \/ /\ r.pc = "loop" /\ r.k <= r.head.len
            /\ conf = Entry(list[r.m][r.kind], r.head, r.k)
  PROVE  FileNow'
<1> DEFINE m == r.m
<1>1. RequestAt(r) /\ Fields(r) /\ m \in Objects /\ (r.pc = "loop" => mapMU = c)
  BY ServingFacts DEF FileNow, AtWork
<1>2. m = reg /\ reg # 0 /\ mapMU \in {None, c}
  BY <1>1, WorksAlone DEF StopModule, Objects
<1>3. PICK q :
           /\ req' = [req EXCEPT ![c] = q]
           /\ \/ list' = list /\ (q.pc = "idle" \/ (q.pc = "blocked" /\ q.m = m))
              \/ list' = list /\ q.pc = "save" /\ q.failed /\ q.m = m
              \/ /\ q = [req[c] EXCEPT !.pc = "save"] /\ conf \in Confs
                 /\ \E i \in 1 .. list[m][KindOf(conf)].len :
                      list' = [list EXCEPT ![m][KindOf(conf)] = Settled(SliceRemove(@, i))]
  <2>1. ListsGood /\ Fields(req[c]) /\ req[c].m = m /\ StopModule(c, m, conf)
    BY <1>1 DEF ListsPart
  <2> HIDE DEF m
  <2>2. StopResult(c, m, conf)
    BY <1>1, <2>1, StopLeaves
  <2> QED BY <2>2 DEF StopResult
<1>4. UNCHANGED <<reg, disk, before>>
  BY DEF StopModule
<1>5. CASE list' = list /\ (q.pc \in {"idle", "blocked"} \/ q.failed) /\ q.pc \notin {"loop", "erase"}
  <2>1. \A n \in Objects : n # reg' => Bare(n)'
    BY <1>4, <1>5 DEF FileNow, Bare, IsListed, Names
  <2>2. RequestAt(q)'
    BY <1>5 DEF RequestAt
  <2> QED BY <1>2, <1>3, <1>4, <1>5, <2>1, <2>2, FileOfRequest DEF Writing
<1>6. ASSUME q = [req[c] EXCEPT !.pc = "save"], conf \in Confs,
             NEW i \in 1 .. list[m][KindOf(conf)].len,
             list' = [list EXCEPT ![m][KindOf(conf)] = Settled(SliceRemove(@, i))]
      PROVE  FileNow'
  <2>1. /\ q.pc = "save" /\ q.op = r.op /\ q.m = r.m /\ q.kind = r.kind /\ q.head = r.head
        /\ q.k = r.k
    BY <1>1, <1>6 DEF Fields
  <2>2. \A n \in Objects : n # reg' => Bare(n)'
    BY <1>2, <1>4, <1>6 DEF FileNow, Bare, IsListed, Names, ListsPart, ListsGood, ListsTyped
  <2>3. r.pc = "loop" => LoopAt(q, q.k)'
    <3> SUFFICES ASSUME r.pc = "loop" PROVE LoopAt(q, q.k)'
      OBVIOUS
    <3>1. LoopAt(r, r.k - 1) /\ r.k \in Nat \ {0} /\ r.k \in 1 .. r.head.len
      <4>1. LoopAt(r, r.k - 1)
        BY <1>1 DEF RequestAt
      <4>2. r.k \in Nat \ {0} /\ r.head.len \in Nat
        BY <4>1 DEF LoopAt
      <4>3. r.k <= r.head.len
        OBVIOUS
      <4> QED BY <4>1, <4>2, <4>3
    <3>2. KindOf(conf) = r.kind
      BY <3>1 DEF LoopAt, Entry
    <3>3. list' = [list EXCEPT ![r.m][r.kind] = SliceRemove(@, i)]
      BY <1>1, <1>6, <3>2, KindsAssumption DEF Settled
    <3>4. LoopAt(r, (r.k - 1) + 1)'
      <4>1. i \in 1 .. list[r.m][r.kind].len /\ r.m \in Objects
        BY <1>1, <1>6, <3>2
      <4>2. r.k - 1 \in Nat
        BY <3>1
      <4>3. ListsTyped
        BY DEF ListsPart, ListsGood
      <4> QED BY <3>1, <3>3, <4>1, <4>2, <4>3, LoopRemoves
    <3>5. (r.k - 1) + 1 = q.k
      BY <2>1, <3>1
    <3> QED BY <2>1, <3>4, <3>5 DEF LoopAt
  <2>4. r.op = "leave" => r.pc = "loop"
    OBVIOUS
  <2>5. RequestAt(q)'
    BY <1>2, <1>4, <2>1, <2>3, <2>4 DEF RequestAt
  <2> QED BY <1>2, <1>3, <1>4, <2>1, <2>2, <2>5, FileOfRequest DEF Writing
<1> QED BY <1>3, <1>5, <1>6

LEMMA SaveFile ==
  ASSUME RequestsGood, FileNow, daemon = "up", ~raced', NEW c \in Clients,
         NEW r, r = req[c], Save(c)
  PROVE  FileNow'
<1>1. /\ RequestAt(r) /\ Fields(r) /\ r.pc = "save" /\ Works(c) /\ r.m \in Objects
      /\ disk' = View(r.m) /\ UNCHANGED <<reg, list, before>>
  BY ServingFacts DEF FileNow, Save, AtWork
<1>2. r.m = reg /\ reg # 0
  BY <1>1, WorksAlone DEF Objects
<1>3. disk' = View(reg)'
  BY <1>1, <1>2 DEF View, Names
<1>4. \A m \in Objects : m # reg' => Bare(m)'
  BY <1>1 DEF FileNow, Bare, IsListed, Names
<1>5. CASE r.op = "leave" /\ ~r.failed
  <2>1. PICK q : q = [r EXCEPT !.pc = "loop", !.k = @ + 1]
    OBVIOUS
  <2>2. /\ q.pc = "loop" /\ q.m = r.m /\ q.kind = r.kind /\ q.head = r.head
        /\ q.k = r.k + 1 /\ req' = [req EXCEPT ![c] = q]
    BY <1>1, <1>5, <2>1 DEF Save, Fields
  <2>3. LoopAt(r, r.k) /\ r.k \in Nat
    BY <1>1, <1>5 DEF RequestAt, LoopAt
  <2>4. LoopAt(q, q.k - 1)'
    <3>1. q.k - 1 = r.k /\ q.k \in Nat \ {0}
      BY <2>2, <2>3
    <3> QED BY <1>1, <2>2, <2>3, <3>1 DEF LoopAt
  <2>5. RequestAt(q)'
    BY <1>1, <1>2, <2>2, <2>4 DEF RequestAt
  <2> QED BY <1>1, <1>2, <1>3, <1>4, <2>2, <2>5, FileOfRequest
<1>6. CASE ~(r.op = "leave" /\ ~r.failed)
  <2>1. PICK q : q = Idle("none")
    OBVIOUS
  <2>2. q.pc = "idle" /\ req' = [req EXCEPT ![c] = q]
    BY <1>6, <2>1 DEF Save, Idle
  <2>3. RequestAt(q)'
    BY <2>2 DEF RequestAt
  <2> QED BY <1>1, <1>2, <1>3, <1>4, <2>2, <2>3, FileOfRequest
<1> QED BY <1>5, <1>6

\* A loop of MachineLeave begins: what is in the array is listed.
LEMMA LoopStarts ==
  ASSUME ListsGood, NEW q, q.m \in Objects, q.kind \in Kinds, q.k = 1,
         q.head = Header(list[q.m][q.kind]),
         q.kind # "controllers" => list[q.m]["controllers"].len = 0,
         q.kind = "adaptors" => list[q.m]["drivers"].len = 0
  PROVE  LoopAt(q, q.k - 1)
<1> DEFINE s == list[q.m][q.kind]
<1>1. s \in SliceType(Confs \cup {None}) /\ SliceInBounds(s)
  BY DEF ListsGood, ListsTyped
<1>2. /\ q.head.array = s.array /\ q.head.len = s.len
      /\ s.len \in Nat /\ s.len <= Len(s.mem[s.array])
  BY <1>1 DEF Header, SliceType, SliceInBounds
<1>3. \A j \in 1 .. s.len : s.mem[s.array][j] \in Confs /\ KindOf(s.mem[s.array][j]) = q.kind
  <2>1. Names(q.m, q.kind) = Listing(s) /\ OfKind(Names(q.m, q.kind), q.kind)
    BY DEF Names, ListsGood
  <2>2. Len(Listing(s)) = s.len /\ \A k \in 1 .. s.len : Listing(s)[k] = s.mem[s.array][k]
    <3> HIDE DEF s
    <3> QED BY <1>1, ListingType
  <2> QED BY <2>1, <2>2 DEF OfKind
<1>4. q.k - 1 = 0 /\ s.len + 0 = q.head.len /\ q.k \in Nat \ {0}
  BY <1>2
<1> QED BY <1>2, <1>3, <1>4 DEF LoopAt

\* When a loop has come to its end its list is empty.
LEMMA ListEnds ==
  ASSUME ListsGood, NEW r, r.m \in Objects, LoopAt(r, r.k - 1), r.k > r.head.len
  PROVE  list[r.m][r.kind].len = 0 /\ r.kind \in Kinds
<1> DEFINE s == list[r.m][r.kind]
<1>1. s.len + (r.k - 1) = r.head.len /\ r.k \in Nat \ {0} /\ r.head.len \in Nat /\ r.kind \in Kinds
  BY DEF LoopAt
<1>2. s.len \in Nat
  BY <1>1 DEF ListsGood, ListsTyped, SliceType
<1> HIDE DEF s
<1>3. s.len = 0
  BY <1>1, <1>2
<1> QED BY <1>1, <1>3 DEF s

\* MachineLeave goes into a loop, or from one to the next.
LEMMA LoopFile ==
  ASSUME RequestsGood, ListsGood, FileNow, daemon = "up", NEW c \in Clients,
         NEW r, r = req[c], Leave(c) \/ LeaveNextKind(c)
  PROVE  FileNow'
<1>1. RequestAt(r) /\ Fields(r) /\ (reg # 0 => reg \in Objects)
  BY ServingFacts DEF FileNow
<1>2. UNCHANGED <<reg, list, disk, before>> /\ r.pc \in {"idle", "loop"}
  BY DEF Leave, LeaveNextKind
<1>3. \A m \in Objects : m # reg' => Bare(m)'
  BY <1>2 DEF FileNow, Bare, IsListed, Names
<1>4. ASSUME NEW q, req' = [req EXCEPT ![c] = q], q.pc = "loop", q.m = reg, LoopAt(q, q.k - 1)
      PROVE  FileNow'
  <2>1. LoopAt(q, q.k - 1)'
    BY <1>2, <1>4 DEF LoopAt
  <2>2. RequestAt(q)'
    BY <1>2, <1>4, <2>1 DEF RequestAt
  <2> QED BY <1>2, <1>3, <1>4, <2>2, FileOfRequest DEF Writing
<1>5. CASE Leave(c)
  <2>1. PICK q : q = [Idle("none") EXCEPT !.pc = "loop", !.op = "leave", !.m = reg,
                        !.kind = "controllers", !.k = 1,
                        !.head = Header(list[reg].controllers)]
    OBVIOUS
  <2>2. /\ q.pc = "loop" /\ q.m = reg /\ q.kind = "controllers" /\ q.k = 1
        /\ q.head = Header(list[q.m][q.kind])
    BY <2>1 DEF Idle
  <2>3. req' = [req EXCEPT ![c] = q] /\ reg # 0
    BY <1>5, <2>1 DEF Leave
  <2>4. LoopAt(q, q.k - 1)
    BY <1>1, <2>2, <2>3, KindsOfConfs, LoopStarts
  <2> QED BY <1>4, <2>2, <2>3, <2>4
<1>6. CASE LeaveNextKind(c)
  <2> DEFINE next == IF r.kind = "controllers" THEN "drivers" ELSE "adaptors"
  <2>1. PICK q : q = [r EXCEPT !.kind = next, !.k = 1, !.head = Header(list[r.m][next])]
    OBVIOUS
  <2>2. r.pc = "loop" /\ r.k > r.head.len /\ r.kind # "adaptors" /\ r.m \in Objects
    BY <1>6, ServingFacts DEF LeaveNextKind, AtWork
  <2>3. /\ q.pc = "loop" /\ q.m = r.m /\ q.kind = next /\ q.k = 1
        /\ q.head = Header(list[q.m][q.kind])
    BY <1>1, <2>1, <2>2 DEF Fields
  <2>4. r.m = reg /\ LoopAt(r, r.k - 1)
    BY <1>1, <2>2 DEF RequestAt
  <2>5. list[r.m][r.kind].len = 0 /\ r.kind \in {"controllers", "drivers"}
    BY <2>2, <2>4, KindsOfConfs, ListEnds
  <2>6. r.kind # "controllers" => list[r.m]["controllers"].len = 0
    BY <2>4 DEF LoopAt
  <2>7. LoopAt(q, q.k - 1)
    BY <2>2, <2>3, <2>5, <2>6, KindsOfConfs, LoopStarts
  <2>8. req' = [req EXCEPT ![c] = q]
    BY <1>6, <2>1 DEF LeaveNextKind
  <2> QED BY <1>4, <2>3, <2>4, <2>7, <2>8
<1> QED BY <1>5, <1>6

\* Nothing of the machine is left when the last loop has come to its end.
LEMMA EndFile ==
  ASSUME RequestsGood, ListsGood, FileNow, daemon = "up", NEW c \in Clients,
         NEW r, r = req[c], LeaveDelete(c) \/ LeaveErase(c)
  PROVE  FileNow'
<1>1. RequestAt(r) /\ Fields(r) /\ mapMU = c
  BY ServingFacts DEF FileNow, LeaveDelete, LeaveErase
<1>2. \A m \in Objects : Bare(m)' <=> Bare(m)
  BY DEF Bare, IsListed, Names, LeaveDelete, LeaveErase
<1>3. CASE LeaveDelete(c)
  <2>1. PICK q : q = [r EXCEPT !.pc = "erase"]
    OBVIOUS
  <2>2. /\ r.pc = "loop" /\ r.k > r.head.len /\ r.kind = "adaptors" /\ r.m \in Objects
        /\ reg' = 0 /\ req' = [req EXCEPT ![c] = q] /\ q.pc = "erase"
    BY <1>1, <1>3, <2>1, ServingFacts DEF LeaveDelete, Fields, AtWork
  <2>3. r.m = reg /\ LoopAt(r, r.k - 1)
    BY <1>1, <2>2 DEF RequestAt
  <2>4. list[reg]["controllers"].len = 0 /\ list[reg]["drivers"].len = 0
    BY <2>2, <2>3 DEF LoopAt
  <2>5. Bare(reg)
    <3>1. /\ reg \in Objects /\ Len(Names(reg, "controllers")) = 0
          /\ Len(Names(reg, "drivers")) = 0
      BY <2>2, <2>3, <2>4, KindsOfConfs, NamesType DEF ListsGood
    <3> QED BY <3>1, KindsOfConfs DEF Bare, IsListed
  <2>6. \A m \in Objects : m # reg' => Bare(m)'
    BY <1>2, <2>5 DEF FileNow
  <2>7. RequestAt(q)'
    BY <2>2 DEF RequestAt
  <2> QED BY <1>1, <2>2, <2>6, <2>7, FileOfRequest
<1>4. CASE LeaveErase(c)
  <2>1. PICK q : q = Idle("none")
    OBVIOUS
  <2>2. /\ r.pc = "erase" /\ req' = [req EXCEPT ![c] = q] /\ q.pc = "idle"
        /\ disk' = None /\ UNCHANGED <<reg, list>>
    BY <1>4, <2>1 DEF LeaveErase, Idle
  <2>3. reg = 0
    BY <1>1, <2>2 DEF RequestAt
  <2>4. RequestAt(q)'
    BY <2>2, <2>3 DEF RequestAt
  <2>5. \A m \in Objects : m # reg' => Bare(m)'
    BY <1>2, <2>2 DEF FileNow
  <2>6. mapMU \in {None, c} /\ reg' = 0
    BY <1>1, <2>2, <2>3
  <2>7. disk' = None \/ q.pc = "erase" \/ (UNCHANGED <<reg, disk>> /\ req[c].pc # "erase")
    <3>1. disk' = None \/ q.pc = "erase"
      BY <2>2
    <3> QED BY <3>1
  <2> QED BY <2>2, <2>4, <2>5, <2>6, <2>7, FileOfRequest
<1> QED BY <1>3, <1>4

\* The restore up to the first snapshot.
LEMMA RestoreFile ==
  ASSUME IInv, RestoreKept, FileNow, daemon # "up",
         Restart \/ RestoreAdaptors \/ RestoreSnapshot
  PROVE  FileNow'
<1>1. RequestsGood /\ ListsPart /\ daemon \in Daemons
  BY InvariantParts
<1>2. req' = req /\ \A c \in Clients : req[c].pc = "idle"
  <2>1. \A c \in Clients : req[c] = Idle("none")
    BY <1>1 DEF RequestsGood, RequestsKept
  <2>2. Idle("none").pc = "idle"
    BY DEF Idle
  <2> QED BY <2>1, <2>2 DEF Restart, RestoreAdaptors, RestoreSnapshot
<1>3. before = disk /\ \A c \in Clients : RequestAt(req[c])'
  BY <1>2 DEF RestoreKept, RequestAt
<1>4. CASE Restart
  <2>1. reg = 0 /\ list' = list /\ disk' = disk /\ daemon = "down"
    BY <1>1, <1>4 DEF Restart, RequestsGood, RequestsKept
  <2>2. \A m \in Objects : Bare(m)'
    BY <2>1 DEF FileNow, Bare, IsListed, Names, Objects
  <2>3. daemon' = "up" => (DisableRestore \/ disk' = None) /\ reg' = 0
    BY <1>4, <2>1 DEF Restart
  <2> QED BY <1>3, <2>2, <2>3 DEF FileNow
<1>5. CASE RestoreSnapshot
  <2>1. disk' = View(reg) /\ UNCHANGED <<reg, list>> /\ reg = 1
    <3>1. daemon = "snapshot" /\ disk' = View(reg) /\ UNCHANGED <<reg, list>>
      BY <1>5 DEF RestoreSnapshot
    <3> QED BY <1>1, <3>1 DEF RequestsGood, RequestsKept
  <2>2. disk' = View(reg)' /\ reg' # 0 /\ \A m \in Objects : Bare(m)' <=> Bare(m)
    BY <2>1 DEF View, Bare, IsListed, Names
  <2> QED BY <1>3, <2>1, <2>2 DEF FileNow
<1>6. CASE RestoreAdaptors
  <2>1. daemon = "adaptors" /\ UNCHANGED <<reg, disk, before>> /\ reg = 1 /\ disk # None
    BY <1>1, <1>6 DEF RestoreAdaptors, RequestsGood, RequestsKept
  <2>2. \A n \in Objects : n # reg => list'[n] = list[n]
    <3>1. list = [n \in Objects |-> list[n]]
      BY <1>1 DEF ListsPart, ListsGood, ListsTyped
    <3> QED BY <1>6, <3>1 DEF RestoreAdaptors
  <2>3. \A m \in Objects : m # reg' => Bare(m)'
    BY <2>1, <2>2 DEF FileNow, Bare, IsListed, Names
  <2>4. reg' # 0 /\ before' # None
    BY <1>3, <2>1
  <2> QED BY <1>3, <2>3, <2>4 DEF FileNow
<1> QED BY <1>4, <1>5, <1>6

\* A step that is neither a crash nor one of the restore.
LEMMA ServeFile ==
  ASSUME RequestsGood, ListsPart, FileNow, daemon = "up", ~raced', [Next]_vars, ~Crash
  PROVE  FileNow'
<1>1. ListsGood
  BY DEF ListsPart
<1>2. ASSUME UNCHANGED <<daemon, reg, list, disk, req, before>> PROVE FileNow'
  <2>1. View(reg)' = View(reg) /\ \A m \in Objects : Bare(m)' <=> Bare(m)
    BY <1>2 DEF View, Bare, IsListed, Names
  <2>2. ASSUME NEW c \in Clients PROVE RequestAt(req[c])'
    <3>1. RequestAt(req[c]) /\ list' = list /\ reg' = reg /\ req'[c] = req[c]
      BY <1>2 DEF FileNow
    <3> QED BY <3>1 DEF RequestAt, LoopAt
  <2>3. daemon' = daemon /\ reg' = reg /\ disk' = disk /\ before' = before /\ req' = req
    BY <1>2
  <2>4. \A m \in Objects : m # reg' => Bare(m)'
    BY <2>1, <2>3 DEF FileNow
  <2> QED BY <2>1, <2>2, <2>3, <2>4 DEF FileNow
<1>3. ASSUME NEW c \in Clients, Join(c) \/ Leave(c) PROVE FileNow'
  BY <1>1, <1>3, JoinFile, LoopFile
<1>4. ASSUME NEW c \in Clients, NEW op \in {"start", "stop"}, NEW conf \in Confs,
             Lookup(c, op, conf)
      PROVE  FileNow'
  BY <1>4, LookupFile
<1>5. ASSUME NEW c \in Clients, Serve(c) PROVE FileNow'
  <2>1. CASE JoinInsert(c) \/ JoinSave(c)
    BY <2>1, JoinFile
  <2>2. CASE AttachLocked(c) \/ StartLocked(c)
    BY <2>2, StartFile
  <2>3. CASE StopLocked(c)
    <3>1. PICK conf : /\ StopModule(c, req[c].m, conf) /\ req[c].pc = "found"
                      /\ req[c].op = "stop"
      BY <2>3 DEF StopLocked
    <3> QED BY <3>1, StopFile
  <2>4. CASE LeaveStops(c)
    <3>1. PICK conf : /\ StopModule(c, req[c].m, conf) /\ req[c].pc = "loop"
                      /\ req[c].k <= req[c].head.len
                      /\ conf = Entry(list[req[c].m][req[c].kind], req[c].head, req[c].k)
      BY <2>4 DEF LeaveStops
    <3> QED BY <3>1, StopFile
  <2>5. CASE Save(c)
    BY <2>5, SaveFile
  <2>6. CASE LeaveNextKind(c)
    BY <1>1, <2>6, LoopFile
  <2>7. CASE LeaveDelete(c) \/ LeaveErase(c)
    BY <1>1, <2>7, EndFile
  <2> QED BY <1>5, <2>1, <2>2, <2>3, <2>4, <2>5, <2>6, <2>7 DEF Serve
<1>6. ASSUME NEW m \in Objects, NEW conf \in Modules, WorkerReturns(m, conf) PROVE FileNow'
  BY <1>2, <1>6 DEF WorkerReturns
<1>7. ~Restart /\ ~RestoreAdaptors /\ ~RestoreSnapshot
  BY DEF Restart, RestoreAdaptors, RestoreSnapshot
<1>8. UNCHANGED vars => FileNow'
  BY <1>2 DEF vars
<1> QED BY <1>3, <1>4, <1>5, <1>6, <1>7, <1>8 DEF Next

LEMMA FileStep == IInv /\ RestoreKept /\ FileKept /\ [Next]_vars => FileKept'
<1> SUFFICES ASSUME IInv, RestoreKept, FileKept, [Next]_vars, ~raced' PROVE FileNow'
  BY DEF FileKept
<1>1. RequestsGood /\ ListsPart /\ raced \in BOOLEAN
  BY InvariantParts
<1>2. CASE Crash
  <2>1. \A m \in Objects, kind \in Kinds : Names(m, kind)' = <<>>
    <3>1. \A m \in Objects, kind \in Kinds : list'[m][kind] = NilSlice
      BY <1>2 DEF Crash, Fresh
    <3> QED BY <3>1, NilSliceType DEF Names
  <2>2. \A m \in Objects : Bare(m)'
    BY <2>1, KindsOfConfs DEF Bare, IsListed
  <2> QED BY <1>2, <2>2 DEF Crash, FileNow
<1>3. CASE ~Crash
  <2>1. FileNow
    BY <1>1, <1>3, RacedStep DEF FileKept
  <2>2. CASE daemon = "up"
    BY <1>1, <1>3, <2>1, <2>2, ServeFile
  <2>3. CASE daemon # "up" /\ (Restart \/ RestoreAdaptors \/ RestoreSnapshot)
    BY <2>1, <2>3, RestoreFile
  <2>4. CASE daemon # "up" /\ UNCHANGED <<daemon, reg, list, disk, before>>
    <3>1. \A m \in Objects : Bare(m)' <=> Bare(m)
      BY <2>4 DEF Bare, IsListed, Names
    <3> QED BY <2>1, <2>4, <3>1 DEF FileNow
  <2> QED BY <1>3, <2>2, <2>3, <2>4, RestoreAlone
<1> QED BY <1>2, <1>3

\* Between requests the file is what a restart should find: the machine as it is, or
\* nothing and nothing running once the machine has left.  Any number of requests are
\* served side by side, with any modules, calls that fail and crashes; all that is asked
\* is that none has worked on an object while its machine left or after, and that no two
\* have joined it, for which the code has no lock (daemon machine.go:65-139).  What
\* MachineLeave finds behind the end of a list it shortens makes it fail, never forget a
\* module (pkg/machine machine.go:182-208, 268-366).
THEOREM FileKeptRight == Spec => []FileInv
<1>1. Init => FileKept /\ RestoreKept
  <2> SUFFICES ASSUME Init PROVE FileNow /\ RestoreKept
    BY DEF FileKept
  <2>1. \A m \in Objects, kind \in Kinds : Names(m, kind) = <<>>
    <3>1. \A m \in Objects, kind \in Kinds : list[m][kind] = NilSlice
      BY DEF Init, Fresh
    <3> QED BY <3>1, NilSliceType DEF Names
  <2>2. \A m \in Objects : Bare(m)
    BY <2>1, KindsOfConfs DEF Bare, IsListed
  <2>3. /\ \A c \in Clients : req[c].pc = "idle"
        /\ reg = 0 /\ disk = None /\ daemon = "up"
    BY DEF Init, Idle
  <2>4. \A c \in Clients : RequestAt(req[c])
    BY <2>3 DEF RequestAt
  <2> QED BY <2>2, <2>3, <2>4 DEF FileNow, RestoreKept
<1>2. IInv /\ RestoreKept /\ FileKept /\ [Next]_vars => RestoreKept' /\ FileKept'
  BY RestoreStep, FileStep
<1>3. IInv /\ FileKept => FileInv
  <2> SUFFICES ASSUME IInv, ~raced => FileNow PROVE FileInv
    BY DEF FileKept
  <2>1. ASSUME ~raced, Quiet PROVE FileNow /\ daemon = "up" /\ \A c \in Clients : req[c].pc = "idle"
    BY <2>1 DEF Quiet
  <2>2. ~raced => SnapshotCurrent
    BY <2>1 DEF SnapshotCurrent, FileNow, Writing
  <2>3. ASSUME ~raced, Quiet, reg = 0
        PROVE  /\ DisableRestore \/ disk = None
               /\ \A m \in Objects, conf \in Modules : ~Running(m, conf)
    <3>1. DisableRestore \/ disk = None
      BY <2>1, <2>3 DEF FileNow
    <3>2. \A m \in Objects, conf \in Modules : ~IsListed(m, conf)
      BY <2>1, <2>3 DEF FileNow, Bare, Objects
    <3> QED BY <3>1, <3>2 DEF IInv, ListedUsable
  <2> QED BY <2>2, <2>3 DEF IInv, FileInv, LeaveIsFinal
<1> QED BY <1>1, <1>2, <1>3, Inductive, PTL DEF Spec
=============================================================================
