--------------------------- MODULE MsgRouterProofs --------------------------
(***************************************************************************)
(* For any modules, senders and bounds: the routes list who is subscribed, *)
(* whatever is in the array they are kept in; nothing reaches a module     *)
(* outside its subscription; a subscriber receives the messages of one     *)
(* sender in order; and what a removal may cost a loop that it overlaps.   *)
(***************************************************************************)
EXTENDS MsgRouter, DataLemmas, FiniteSetTheorems, FunctionTheorems

-----------------------------------------------------------------------------
(* The inductive invariant.                                                  *)

\* The array of the route, and the one a walk reads.
Entries == set.mem[set.array]
Copied(m) == set.mem[walk[m].array]

\* The entries that count: while a removal moves the later entries down, the one it
\* writes next holds a module that is leaving or a copy of the entry before.
Live == (1 .. set.len) \ {moving}
Distinct(a, K) == \A j, k \in K : a[j] = a[k] => j = k
DeadEntry ==
  \/ phase[Entries[moving]] = "leaving"
  \/ moving > 1 /\ Entries[moving] = Entries[moving - 1]

Subscribed(m) == phase[m] \in {"on", "closed"}

\* The array in use lists each subscribed module once.  An array that append has
\* moved away from was full, and is as it was then.  Only modules that have started
\* are in any array.
RoutesKept ==
  /\ \A m \in Modules : phase[m] = "leaving" =>
       moving # 0 /\ \A n \in Modules : phase[n] = "leaving" => n = m
  /\ moving # 0 => DeadEntry /\ \E m \in Modules : phase[m] = "leaving"
  /\ Distinct(Entries, Live)
  /\ \A k \in Live : Subscribed(Entries[k])
  /\ \A m \in Modules : Subscribed(m) => \E k \in Live : Entries[k] = m
  /\ set.array = Len(set.mem)
  /\ \A a \in DOMAIN set.mem : a < set.array => Distinct(set.mem[a], DOMAIN set.mem[a])
  /\ \A a \in DOMAIN set.mem, m \in Modules :
       (\E k \in DOMAIN set.mem[a] : set.mem[a][k] = m) => phase[m] # "off"

\* A queue is shut by the Stop of its module.  A send queue holds messages of its
\* module in the order of their versions, and its listener has at most one of them.
QueueKept(m) ==
  /\ snd[m].closed <=> phase[m] \in {"closed", "leaving", "gone"}
  /\ rcv[m].closed <=> phase[m] \in {"closed", "leaving", "gone"}
  /\ \A x \in Elems(snd[m].items) \cup snd[m].processing :
       x.from = m /\ x.version <= sent[m]
  /\ \A j, k \in DOMAIN snd[m].items :
       j < k => snd[m].items[j].version < snd[m].items[k].version
  /\ snd[m].dirty \subseteq Elems(snd[m].items)
  /\ \A x \in snd[m].processing, y \in Elems(snd[m].items) : x.version < y.version
  /\ IF walk[m].pc \in {"got", "visit"} THEN \E x \in Messages : snd[m].processing = {x}
     ELSE snd[m].processing = {}
  /\ walk[m].pc = "exited" => snd[m].items = <<>> /\ snd[m].closed
QueuesKept == \A m \in Modules : QueueKept(m)

\* A worker has at most one message in process, which it has received.  Until the
\* first removal no listener adds that once more.
ReceiverKept(m) ==
  /\ rcv[m].processing = {} \/ \E x \in Elems(log[m]) : rcv[m].processing = {x}
  /\ ~Removed => rcv[m].dirty \cap rcv[m].processing = {}
ReceiversKept == \A m \in Modules : ReceiverKept(m)

\* The entries of the array of a walk that count for it.
WalkLive(m) == IF walk[m].array = set.array THEN Live ELSE DOMAIN Copied(m)

\* Subscribers that the walk has to meet, has not met yet, and is past.
Lost(m) ==
  {t \in walk[m].due : /\ phase[t] = "on" /\ t # m /\ t \notin walk[m].visited
                       /\ \E k \in WalkLive(m) : k < walk[m].next /\ Copied(m)[k] = t}

\* While a removal is under way in the array of the walk it may cost it one more
\* subscriber: before the move has caught up with the walk, and again when the walk
\* has overtaken the move, which takes a turn that meets somebody once more.
Allowed(m) == walk[m].moved + walk[m].again
Budget(m) ==
  IF moving = 0 \/ walk[m].array # set.array
  THEN Cardinality(Lost(m)) <= Allowed(m)
  ELSE IF moving < walk[m].next \/ phase[Entries[moving]] = "leaving"
  THEN Cardinality(Lost(m)) + 1 <= Allowed(m)
  ELSE IF moving = walk[m].next /\ Entries[moving] \notin walk[m].visited
  THEN Cardinality(Lost(m) \ {Entries[moving]}) + 1 <= Allowed(m)
  ELSE Cardinality(Lost(m)) <= Allowed(m)

WalkKept(m) ==
  walk[m].pc = "visit" =>
    /\ walk[m].array \in DOMAIN set.mem /\ walk[m].next \in 1 .. walk[m].len + 1
    /\ \A t \in walk[m].due : phase[t] # "off"
    /\ \A t \in walk[m].due : phase[t] = "on" =>
         \E k \in WalkLive(m) : k <= walk[m].len /\ Copied(m)[k] = t
    /\ Budget(m)
    /\ moving # 0 => walk[m].moved > 0
    /\ walk[m].moved = 0 => Lost(m) = {}
    /\ ~Removed => (walk[m].array = set.array => walk[m].len <= set.len)

WalksKept == \A m \in Modules : WalkKept(m)

\* What t has received and is about to receive.
Trail(t) == log[t] \o rcv[t].items

\* Messages of one sender are in order in it, but for what is in it already; those its
\* listener still has come after them; and until the first removal nothing comes twice.
Ordered(s) ==
  \A j, k \in DOMAIN s : j < k /\ s[j].from = s[k].from => s[j].version < s[k].version
NewInOrder(s) ==
  \A j, k \in DOMAIN s :
    j < k /\ s[j].from = s[k].from =>
      s[j].version < s[k].version \/ \E i \in 1 .. j : s[i] = s[k]
InOrderSoFar(t) == NewInOrder(Trail(t)) /\ (~Removed => Ordered(Trail(t)))
BehindSender(x) ==
  /\ x.version <= sent[x.from]
  /\ \A y \in Elems(snd[x.from].items) : x.version < y.version
  /\ \A y \in snd[x.from].processing :
       x.version <= y.version /\ (walk[x.from].pc = "got" => x.version < y.version)
NotOffered(m) ==
  ~Removed /\ walk[m].pc = "visit" =>
    \A k \in walk[m].next .. walk[m].len : \A x \in Elems(Trail(Copied(m)[k])) :
      x.from = m => \A y \in snd[m].processing : x.version < y.version
TrailsKept ==
  /\ \A t \in Modules : InOrderSoFar(t)
  /\ \A t \in Modules : \A x \in Elems(Trail(t)) : BehindSender(x)
  /\ \A m \in Modules : NotOffered(m)

IInv == TypeOK /\ RoutesKept /\ QueuesKept /\ ReceiversKept /\ WalksKept /\ TrailsKept

-----------------------------------------------------------------------------
(* The arrays, and what the subscription methods do to them.                 *)

LEMMA SetFacts ==
  ASSUME TypeOK
  PROVE  /\ set \in SliceType(Modules) /\ SliceInBounds(set)
         /\ set.mem \in Seq(Seq(Modules)) /\ DOMAIN set.mem = 1 .. Len(set.mem)
         /\ Len(set.mem) \in Nat /\ set.array \in DOMAIN set.mem /\ set.array \in Nat
         /\ set.len \in Nat /\ moving \in Nat /\ moving <= set.len
         /\ \A a \in DOMAIN set.mem :
              /\ set.mem[a] \in Seq(Modules) /\ Len(set.mem[a]) \in Nat
              /\ DOMAIN set.mem[a] = 1 .. Len(set.mem[a])
              /\ \A k \in DOMAIN set.mem[a] : set.mem[a][k] \in Modules
         /\ set.len <= Len(Entries) /\ Live \subseteq DOMAIN Entries
<1>1. /\ set \in SliceType(Modules) /\ SliceInBounds(set) /\ moving \in 0 .. set.len
  BY DEF TypeOK
<1>2. /\ set.mem \in Seq(Seq(Modules)) /\ set.array \in Nat /\ set.len \in Nat
      /\ set.array \in DOMAIN set.mem /\ set.len <= Len(Entries)
  BY <1>1 DEF SliceType, SliceInBounds, Entries
<1>3. DOMAIN set.mem = 1 .. Len(set.mem) /\ Len(set.mem) \in Nat
  BY <1>2
<1>4. \A a \in DOMAIN set.mem : set.mem[a] \in Seq(Modules)
  BY <1>2, <1>3
<1>5. \A a \in DOMAIN set.mem :
        /\ Len(set.mem[a]) \in Nat /\ DOMAIN set.mem[a] = 1 .. Len(set.mem[a])
        /\ \A k \in DOMAIN set.mem[a] : set.mem[a][k] \in Modules
  BY <1>4
<1>6. Live \subseteq DOMAIN Entries
  BY <1>2, <1>5 DEF Live, Entries
<1> QED BY <1>1, <1>2, <1>3, <1>4, <1>5, <1>6

\* append in the array, or in a larger copy of it.
InPlace(m) ==
  /\ set.len < Len(Entries) /\ set.array = set'.array /\ set'.len = set.len + 1
  /\ DOMAIN set'.mem = DOMAIN set.mem
  /\ \A a \in DOMAIN set.mem :
       /\ Len(set'.mem[a]) = Len(set.mem[a])
       /\ DOMAIN set'.mem[a] = DOMAIN set.mem[a]
       /\ \A k \in DOMAIN set.mem[a] : set'.mem[a][k] =
            IF a = set.array /\ k = set.len + 1 THEN m ELSE set.mem[a][k]
InCopy(m) ==
  /\ set.len = Len(Entries) /\ set'.array = Len(set.mem) + 1 /\ set'.len = set.len + 1
  /\ DOMAIN set'.mem = 1 .. Len(set.mem) + 1 /\ Len(set'.mem) = Len(set.mem) + 1
  /\ \A a \in DOMAIN set.mem : set'.mem[a] = set.mem[a]
  /\ Len(Entries') >= set.len + 1
  /\ \A k \in DOMAIN Entries' : Entries'[k] = IF k <= set.len THEN Entries[k] ELSE m

LEMMA Appended ==
  ASSUME TypeOK, NEW m \in Modules, set' = SliceAppend(set, m)
  PROVE  /\ set' \in SliceType(Modules) /\ SliceInBounds(set')
         /\ InPlace(m) \/ InCopy(m)
<1>1. set' \in SliceType(Modules) /\ SliceInBounds(set')
  BY SetFacts, SliceAppendEffect
<1>2. /\ set.mem \in Seq(Seq(Modules)) /\ DOMAIN set.mem = 1 .. Len(set.mem)
      /\ Len(set.mem) \in Nat /\ set.array \in DOMAIN set.mem /\ set.len \in Nat
      /\ Entries \in Seq(Modules) /\ Len(Entries) \in Nat
      /\ DOMAIN Entries = 1 .. Len(Entries) /\ set.len <= Len(Entries)
      /\ set \in [mem : Seq(Seq(Modules)), array : Nat, len : Nat]
      /\ \A a \in DOMAIN set.mem : set.mem[a] \in Seq(Modules)
  BY SetFacts DEF Entries, SliceType
<1>3. CASE set.len < Len(Entries)
  <2> DEFINE n == set.len + 1
             mem == [set.mem EXCEPT ![set.array][n] = m]
  <2>1. set' = [mem |-> mem, array |-> set.array, len |-> n]
    <3>1. set' = [set EXCEPT !.mem[set.array][n] = m, !.len = n]
      BY <1>3 DEF SliceAppend, Entries
    <3> QED BY <1>2, <3>1
  <2>2. /\ DOMAIN mem = DOMAIN set.mem /\ mem[set.array] = [Entries EXCEPT ![n] = m]
        /\ \A a \in DOMAIN set.mem : a # set.array => mem[a] = set.mem[a]
    BY <1>2 DEF Entries
  <2>3. /\ DOMAIN mem[set.array] = DOMAIN Entries
        /\ \A k \in DOMAIN Entries : mem[set.array][k] = IF k = n THEN m ELSE Entries[k]
        /\ Len(mem[set.array]) = Len(Entries)
    <3>1. n \in 1 .. Len(Entries)
      BY <1>2, <1>3
    <3> HIDE DEF mem, n
    <3> QED BY <1>2, <2>2, <3>1, ExceptSeq
  <2> HIDE DEF mem
  <2> QED BY <1>1, <1>2, <1>3, <2>1, <2>2, <2>3 DEF InPlace, Entries
<1>4. CASE ~(set.len < Len(Entries))
  <2> DEFINE new == [k \in 1 .. Grown(set.len) |-> IF k <= set.len THEN Entries[k] ELSE m]
             mem == Append(set.mem, new)
  <2>1. set' = [mem |-> mem, array |-> Len(set.mem) + 1, len |-> set.len + 1]
    BY <1>4 DEF SliceAppend, Entries
  <2>2. Grown(set.len) \in Nat /\ Grown(set.len) >= set.len + 1
    BY <1>2 DEF Grown
  <2>3. new \in Seq(Modules) /\ Len(new) = Grown(set.len) /\ DOMAIN new = 1 .. Grown(set.len)
    <3>1. new \in [1 .. Grown(set.len) -> Modules]
      BY <1>2
    <3> HIDE DEF new
    <3> QED BY <2>2, <3>1
  <2>4. \A k \in DOMAIN new : new[k] = IF k <= set.len THEN Entries[k] ELSE m
    BY <2>3
  <2> HIDE DEF new
  <2>5. /\ DOMAIN mem = 1 .. Len(set.mem) + 1 /\ Len(mem) = Len(set.mem) + 1
        /\ mem[Len(set.mem) + 1] = new
        /\ \A a \in DOMAIN set.mem : mem[a] = set.mem[a]
    BY <1>2, <2>3
  <2> HIDE DEF mem
  <2>6. Entries' = new
    BY <2>1, <2>5 DEF Entries
  <2> QED BY <1>1, <1>2, <1>4, <2>1, <2>2, <2>3, <2>4, <2>5, <2>6 DEF InCopy
<1> QED BY <1>3, <1>4

\* One entry moves down.
LEMMA Moved ==
  ASSUME TypeOK, MoveEntry
  PROVE  /\ set' \in SliceType(Modules) /\ SliceInBounds(set')
         /\ moving \in 1 .. set.len - 1 /\ moving' = moving + 1
         /\ set'.array = set.array /\ set'.len = set.len
         /\ DOMAIN set'.mem = DOMAIN set.mem /\ Len(set'.mem) = Len(set.mem)
         /\ \A a \in DOMAIN set.mem :
              /\ Len(set'.mem[a]) = Len(set.mem[a])
              /\ DOMAIN set'.mem[a] = DOMAIN set.mem[a]
              /\ \A k \in DOMAIN set.mem[a] : set'.mem[a][k] =
                   IF a = set.array /\ k = moving THEN set.mem[a][k + 1] ELSE set.mem[a][k]
<1> DEFINE j == moving
           x == Entries[j + 1]
           mem == [set.mem EXCEPT ![set.array][j] = x]
<1>1. /\ set.mem \in Seq(Seq(Modules)) /\ DOMAIN set.mem = 1 .. Len(set.mem)
      /\ Len(set.mem) \in Nat /\ set.array \in DOMAIN set.mem /\ set.len \in Nat
      /\ Entries \in Seq(Modules) /\ Len(Entries) \in Nat /\ set.array \in Nat
      /\ DOMAIN Entries = 1 .. Len(Entries) /\ set.len <= Len(Entries)
      /\ set \in [mem : Seq(Seq(Modules)), array : Nat, len : Nat]
      /\ \A a \in DOMAIN set.mem : set.mem[a] \in Seq(Modules)
  BY SetFacts DEF Entries, SliceType
<1>2. j \in 1 .. set.len - 1 /\ set' = SliceMove(set, j) /\ moving' = j + 1
  BY DEF MoveEntry
<1>3. set' = [mem |-> mem, array |-> set.array, len |-> set.len]
  <2>1. set' = [set EXCEPT !.mem[set.array][j] = x]
    BY <1>2 DEF SliceMove, Entries
  <2> QED BY <1>1, <2>1
<1>4. x \in Modules
  BY <1>1, <1>2
<1>5. /\ DOMAIN mem = DOMAIN set.mem /\ mem[set.array] = [Entries EXCEPT ![j] = x]
      /\ \A a \in DOMAIN set.mem : a # set.array => mem[a] = set.mem[a]
  BY <1>1 DEF Entries
<1>6. /\ DOMAIN mem[set.array] = DOMAIN Entries
      /\ \A k \in DOMAIN Entries : mem[set.array][k] = IF k = j THEN x ELSE Entries[k]
      /\ Len(mem[set.array]) = Len(Entries) /\ mem[set.array] \in Seq(Modules)
  <2>1. j \in 1 .. Len(Entries)
    BY <1>1, <1>2
  <2> HIDE DEF mem, x, j
  <2> QED BY <1>1, <1>4, <1>5, <2>1, ExceptSeq
<1>7. mem \in Seq(Seq(Modules)) /\ Len(mem) = Len(set.mem)
  <2>1. mem \in [1 .. Len(set.mem) -> Seq(Modules)]
    <3>1. mem[set.array] \in Seq(Modules) /\ mem = [set.mem EXCEPT ![set.array] = mem[set.array]]
      BY <1>1, <1>6
    <3> HIDE DEF mem
    <3> QED BY <1>1, <3>1
  <2> HIDE DEF mem
  <2>2. \A f \in [1 .. Len(set.mem) -> Seq(Modules)] : f \in Seq(Seq(Modules)) /\ Len(f) = Len(set.mem)
    BY <1>1, FunctionIsSeq
  <2> QED BY <2>1, <2>2
<1> HIDE DEF mem
<1>8. set' \in SliceType(Modules) /\ SliceInBounds(set')
  BY <1>1, <1>3, <1>5, <1>6, <1>7 DEF SliceType, SliceInBounds
<1>9. \A a \in DOMAIN set.mem :
        /\ Len(mem[a]) = Len(set.mem[a])
        /\ DOMAIN mem[a] = DOMAIN set.mem[a]
        /\ \A k \in DOMAIN set.mem[a] : mem[a][k] =
             IF a = set.array /\ k = moving THEN set.mem[a][k + 1] ELSE set.mem[a][k]
  BY <1>1, <1>5, <1>6 DEF Entries
<1> QED BY <1>2, <1>3, <1>5, <1>7, <1>8, <1>9

LEMMA SubscribersAre ==
  ASSUME TypeOK
  PROVE  /\ Len(Listing(set)) = set.len
         /\ \A k \in 1 .. set.len : Listing(set)[k] = Entries[k]
         /\ \A m : m \in Subscribers <=> \E k \in 1 .. set.len : Entries[k] = m
<1>1. /\ Listing(set) \in Seq(Modules) /\ Len(Listing(set)) = set.len
      /\ \A k \in 1 .. set.len : Listing(set)[k] = Entries[k]
  BY SetFacts, ListingType DEF Entries
<1> QED BY <1>1 DEF Subscribers, Elems

\* Of the subscribers those that have not begun to leave are in the entries that count.
LEMMA SubscribersLive ==
  ASSUME TypeOK, RoutesKept, NEW m \in Modules
  PROVE  /\ Subscribed(m) => m \in Subscribers
         /\ m \in Subscribers => phase[m] # "off"
         /\ m \in Subscribers /\ Subscribed(m) => \E k \in Live : Entries[k] = m
<1>1. set.array \in DOMAIN set.mem /\ 1 .. set.len \subseteq DOMAIN Entries
  BY SetFacts DEF Entries
<1>2. Live \subseteq 1 .. set.len
  BY DEF Live
<1> QED BY <1>1, <1>2, SubscribersAre DEF RoutesKept, Entries

-----------------------------------------------------------------------------
(* The routes.                                                               *)

LEMMA StartRoutes ==
  ASSUME TypeOK, RoutesKept, NEW m \in Modules, Start(m)
  PROVE  /\ set' \in SliceType(Modules) /\ SliceInBounds(set')
         /\ InPlace(m) \/ InCopy(m)
         /\ moving = 0 /\ moving' = 0 /\ RoutesKept'
<1>1. m \notin Subscribers
  BY SubscribersLive DEF Start
<1>2. /\ set' \in SliceType(Modules) /\ SliceInBounds(set')
      /\ InPlace(m) \/ InCopy(m)
  BY <1>1, Appended DEF Start
<1>3. /\ moving = 0 /\ moving' = 0 /\ phase[m] = "off"
      /\ phase' = [phase EXCEPT ![m] = "on"]
  BY DEF Start, Free
<1>4. /\ phase'[m] = "on" /\ \A n \in Modules : n # m => phase'[n] = phase[n]
  BY <1>3 DEF TypeOK
<1>5. \A n \in Modules : phase'[n] # "leaving"
  BY <1>3, <1>4 DEF RoutesKept
<1>6. Live = 1 .. set.len /\ Live' = 1 .. set.len + 1
  BY <1>2, <1>3, SetFacts DEF Live, InPlace, InCopy
<1>7. /\ \A k \in Live : Entries'[k] = Entries[k] /\ Entries[k] # m /\ Entries[k] \in Modules
      /\ Entries'[set.len + 1] = m
  <2>1. \A k \in Live : Entries[k] # m /\ Entries[k] \in Modules /\ k \in DOMAIN Entries
    BY <1>3, SetFacts DEF RoutesKept, Subscribed, Entries
  <2>2. CASE InPlace(m)
    <3>1. /\ set.array \in DOMAIN set.mem /\ set.len + 1 \in DOMAIN Entries
          /\ Entries' = set'.mem[set.array]
      BY <2>2, SetFacts DEF InPlace, Entries
    <3>2. \A k \in DOMAIN Entries : Entries'[k] = IF k = set.len + 1 THEN m ELSE Entries[k]
      BY <2>2, <3>1 DEF InPlace, Entries
    <3> QED BY <1>6, <2>1, <3>1, <3>2, SetFacts
  <2>3. CASE InCopy(m)
    <3>1. DOMAIN Entries' = 1 .. Len(Entries') /\ Len(Entries') \in Nat
      BY <1>2, <2>3 DEF SliceType, SliceInBounds, Entries, InCopy
    <3>2. Live' \subseteq DOMAIN Entries' /\ set.len + 1 \in DOMAIN Entries'
      BY <1>6, <2>3, <3>1, SetFacts DEF InCopy
    <3>3. \A k \in Live : k \in DOMAIN Entries' /\ k <= set.len
      BY SMTT(30), <1>6, <3>2, SetFacts
    <3> QED BY <2>1, <2>3, <3>2, <3>3, SetFacts DEF InCopy
  <2> QED BY <1>2, <2>2, <2>3
<1>8. Distinct(Entries', Live')
  <2>1. Distinct(Entries, Live)
    BY DEF RoutesKept
  <2>2. \A k \in Live' : k \in Live \/ k = set.len + 1
    BY <1>6, SetFacts
  <2> QED BY <1>7, <2>1, <2>2 DEF Distinct
<1>9. /\ \A k \in Live' : Subscribed(Entries[k])'
      /\ \A n \in Modules : Subscribed(n)' => \E k \in Live' : Entries'[k] = n
  <2>1. \A k \in Live' : k \in Live \/ k = set.len + 1
    BY <1>6, SetFacts
  <2>2. Live \subseteq Live' /\ set.len + 1 \in Live'
    BY <1>6, SetFacts
  <2> QED BY <1>4, <1>7, <2>1, <2>2 DEF RoutesKept, Subscribed
<1>10. set'.array = Len(set'.mem)
  <2>1. CASE InPlace(m)
    <3>1. DOMAIN set'.mem = 1 .. Len(set'.mem) /\ Len(set'.mem) \in Nat
      BY <1>2 DEF SliceType
    <3> QED BY <2>1, <3>1, SetFacts DEF InPlace, RoutesKept
  <2>2. CASE InCopy(m)
    BY <2>2 DEF InCopy
  <2> QED BY <1>2, <2>1, <2>2
<1>11. \A a \in DOMAIN set'.mem : a < set'.array => Distinct(set'.mem[a], DOMAIN set'.mem[a])
  <2>1. CASE InPlace(m)
    <3> SUFFICES ASSUME NEW a \in DOMAIN set'.mem, a < set'.array
                 PROVE  Distinct(set'.mem[a], DOMAIN set'.mem[a])
      OBVIOUS
    <3>1. a \in DOMAIN set.mem /\ a # set.array /\ a < set.array /\ a \in Nat
      BY SMTT(30), <2>1, SetFacts DEF InPlace
    <3>2. /\ DOMAIN set'.mem[a] = DOMAIN set.mem[a]
          /\ \A k \in DOMAIN set.mem[a] : set'.mem[a][k] = set.mem[a][k]
      BY <2>1, <3>1 DEF InPlace
    <3>3. Distinct(set.mem[a], DOMAIN set.mem[a])
      BY <3>1 DEF RoutesKept
    <3> QED BY <3>2, <3>3 DEF Distinct
  <2>2. CASE InCopy(m)
    <3>1. Distinct(Entries, DOMAIN Entries)
      BY <1>6, <2>2, SetFacts DEF InCopy, RoutesKept, Entries
    <3>2. ASSUME NEW a \in DOMAIN set'.mem, a < set'.array
          PROVE  Distinct(set'.mem[a], DOMAIN set'.mem[a])
      <4>1. a \in DOMAIN set.mem /\ set'.mem[a] = set.mem[a] /\ a <= set.array
        BY SMTT(30), <2>2, <3>2, SetFacts DEF InCopy, RoutesKept
      <4> QED BY <3>1, <4>1, SetFacts DEF RoutesKept, Entries
    <3> QED BY <3>2
  <2> QED BY <1>2, <2>1, <2>2
<1>12. \A a \in DOMAIN set'.mem, n \in Modules :
         (\E k \in DOMAIN set'.mem[a] : set'.mem[a][k] = n) => phase'[n] # "off"
  <2>1. ASSUME NEW a \in DOMAIN set'.mem, NEW k \in DOMAIN set'.mem[a]
        PROVE  \/ set'.mem[a][k] = m
               \/ \E b \in DOMAIN set.mem : \E j \in DOMAIN set.mem[b] : set.mem[b][j] = set'.mem[a][k]
    <3>1. CASE InPlace(m)
      BY <3>1 DEF InPlace
    <3>2. CASE InCopy(m)
      <4>1. CASE a \in DOMAIN set.mem
        BY <3>2, <4>1 DEF InCopy
      <4>2. CASE a \notin DOMAIN set.mem
        <5>1. a = set'.array
          BY <3>2, <4>2, SetFacts DEF InCopy
        <5>2. set'.mem[a][k] = IF k <= set.len THEN Entries[k] ELSE m
          BY <3>2, <5>1 DEF InCopy, Entries
        <5>3. k \in Nat /\ k >= 1
          BY <1>2 DEF SliceType
        <5> QED BY <5>2, <5>3, SetFacts DEF Entries
      <4> QED BY <4>1, <4>2
    <3> QED BY <1>2, <3>1, <3>2
  <2> QED BY <1>4, <2>1 DEF RoutesKept
<1> QED BY <1>2, <1>3, <1>5, <1>8, <1>9, <1>10, <1>11, <1>12 DEF RoutesKept, DeadEntry

\* A step that leaves the slice as it is, and subscribes and unsubscribes nobody.
LEMMA SameRoutes ==
  ASSUME TypeOK, RoutesKept, UNCHANGED <<set, moving>>,
         \A m \in Modules : phase'[m] = phase[m] \/ (phase[m] = "on" /\ phase'[m] = "closed")
  PROVE  RoutesKept'
<1>1. \A m \in Modules : /\ Subscribed(m)' <=> Subscribed(m)
                         /\ phase'[m] = "leaving" <=> phase[m] = "leaving"
                         /\ phase'[m] = "off" <=> phase[m] = "off"
  BY DEF Subscribed
<1>2. /\ Entries' = Entries /\ Live' = Live
      /\ \A k \in DOMAIN Entries : Entries[k] \in Modules
      /\ Live \subseteq DOMAIN Entries /\ 1 .. set.len \subseteq DOMAIN Entries
  BY SetFacts DEF Entries, Live
<1>3. moving # 0 => moving \in DOMAIN Entries
  BY <1>2, SetFacts
<1>4. moving # 0 => DeadEntry'
  BY <1>1, <1>2, <1>3 DEF DeadEntry, RoutesKept
<1>5. \A k \in Live' : Subscribed(Entries[k])'
  BY <1>1, <1>2 DEF RoutesKept, Subscribed
<1> QED BY <1>1, <1>2, <1>4, <1>5 DEF RoutesKept

LEMMA UnsubscribeRoutes ==
  ASSUME TypeOK, RoutesKept, NEW m \in Modules, Unsubscribe(m)
  PROVE  /\ RoutesKept' /\ moving' \in 1 .. set.len /\ Entries[moving'] = m
         /\ moving = 0 /\ Live' = Live \ {moving'} /\ Live = 1 .. set.len
<1>1. /\ phase[m] = "closed" /\ moving = 0 /\ moving' = Position(m) /\ set' = set
      /\ phase' = [phase EXCEPT ![m] = "leaving"]
  BY DEF Unsubscribe
<1>2. /\ phase'[m] = "leaving" /\ \A n \in Modules : n # m => phase'[n] = phase[n]
  BY <1>1 DEF TypeOK
<1>3. Live = 1 .. set.len
  BY <1>1 DEF Live
<1>4. moving' \in 1 .. set.len /\ Entries[moving'] = m
  <2>1. \E k \in 1 .. set.len : Listing(set)[k] = m
    BY <1>1, <1>3, SubscribersAre DEF RoutesKept, Subscribed
  <2>2. moving' \in 1 .. set.len /\ Listing(set)[moving'] = m
    BY <1>1, <2>1 DEF Position
  <2> QED BY <2>2, SubscribersAre
<1>5. Entries' = Entries /\ Live' = Live \ {moving'}
  BY <1>1, <1>3 DEF Live, Entries
<1>6. \A n \in Modules : phase'[n] = "leaving" => n = m
  BY <1>1, <1>2 DEF RoutesKept
<1>7. DeadEntry'
  BY <1>2, <1>4, <1>5 DEF DeadEntry
<1>8. Distinct(Entries', Live')
  BY <1>5 DEF RoutesKept, Distinct
<1>9. \A k \in Live' : Subscribed(Entries[k])'
  <2>1. \A k \in Live : Entries[k] \in Modules
    BY SetFacts DEF Entries
  <2>2. \A k \in Live' : k \in Live /\ Entries[k] # m
    BY <1>3, <1>4, <1>5 DEF RoutesKept, Distinct
  <2> QED BY <1>2, <1>5, <2>1, <2>2 DEF RoutesKept, Subscribed
<1>10. \A n \in Modules : Subscribed(n)' => \E k \in Live' : Entries'[k] = n
  <2> SUFFICES ASSUME NEW n \in Modules, Subscribed(n)'
               PROVE  \E k \in Live' : Entries'[k] = n
    OBVIOUS
  <2>1. n # m /\ Subscribed(n)
    BY <1>2 DEF Subscribed
  <2> QED BY <1>4, <1>5, <2>1 DEF RoutesKept
<1>11. \A a \in DOMAIN set.mem, n \in Modules :
         (\E k \in DOMAIN set.mem[a] : set.mem[a][k] = n) => phase'[n] # "off"
  BY <1>2 DEF RoutesKept
<1>12. moving' # 0
  BY <1>4
<1> QED BY <1>1, <1>2, <1>3, <1>4, <1>5, <1>6, <1>7, <1>8, <1>9, <1>10, <1>11, <1>12 DEF RoutesKept

LEMMA MoveRoutes ==
  ASSUME TypeOK, RoutesKept, MoveEntry
  PROVE  /\ RoutesKept' /\ phase' = phase
         /\ set.array \in DOMAIN set.mem /\ moving \in 1 .. set.len - 1
         /\ moving + 1 \in Live /\ moving' = moving + 1
         /\ Live' = (Live \ {moving + 1}) \cup {moving}
         /\ \A k \in DOMAIN Entries :
              Entries'[k] = IF k = moving THEN Entries[moving + 1] ELSE Entries[k]
<1>1. moving \in 1 .. set.len - 1 /\ moving' = moving + 1 /\ phase' = phase
  BY DEF MoveEntry
<1>2. /\ set.array \in DOMAIN set.mem /\ set'.array = set.array /\ set'.len = set.len
      /\ DOMAIN set'.mem = DOMAIN set.mem /\ Len(set'.mem) = Len(set.mem)
  BY Moved, SetFacts
<1>3. \A k \in DOMAIN Entries :
        Entries'[k] = IF k = moving THEN Entries[moving + 1] ELSE Entries[k]
  BY <1>2, Moved DEF Entries
<1>4. /\ moving + 1 \in Live /\ Live' = (Live \ {moving + 1}) \cup {moving}
  BY <1>1, <1>2, SetFacts DEF Live
<1>5. Live \subseteq DOMAIN Entries /\ moving \in DOMAIN Entries /\ moving \notin Live
      /\ moving + 1 \in DOMAIN Entries
  BY <1>1, SetFacts DEF Live
<1>6. Distinct(Entries', Live')
  BY <1>3, <1>4, <1>5 DEF RoutesKept, Distinct
<1>7. \A k \in Live' : Subscribed(Entries[k])'
  <2>1. \A k \in Live' : k = moving \/ k \in Live
    BY <1>4
  <2>2. \A k \in Live' : \E j \in Live : Entries'[k] = Entries[j]
    BY <1>3, <1>4, <1>5, <2>1
  <2>3. \A j \in Live : Subscribed(Entries[j])
    BY DEF RoutesKept
  <2> QED BY <1>1, <2>2, <2>3 DEF Subscribed
<1>8. \A n \in Modules : Subscribed(n)' => \E k \in Live' : Entries'[k] = n
  <2> SUFFICES ASSUME NEW n \in Modules, Subscribed(n)'
               PROVE  \E k \in Live' : Entries'[k] = n
    OBVIOUS
  <2>1. PICK k \in Live : Entries[k] = n
    BY <1>1 DEF RoutesKept, Subscribed
  <2>2. CASE k = moving + 1
    BY <1>3, <1>4, <1>5, <2>1, <2>2
  <2>3. CASE k # moving + 1
    BY <1>3, <1>4, <1>5, <2>1, <2>3
  <2> QED BY <2>2, <2>3
<1>9. DeadEntry'
  <2>1. moving' > 1 /\ Entries'[moving'] = Entries'[moving' - 1]
    BY <1>1, <1>3, <1>5, SetFacts
  <2> QED BY <2>1 DEF DeadEntry
<1>10. \A a \in DOMAIN set'.mem : a < set'.array => Distinct(set'.mem[a], DOMAIN set'.mem[a])
  <2> SUFFICES ASSUME NEW a \in DOMAIN set.mem, a < set.array
               PROVE  Distinct(set'.mem[a], DOMAIN set'.mem[a])
    BY <1>2
  <2>1. a # set.array
    BY SetFacts
  <2>2. /\ DOMAIN set'.mem[a] = DOMAIN set.mem[a]
        /\ \A k \in DOMAIN set.mem[a] : set'.mem[a][k] = set.mem[a][k]
    BY <2>1, Moved
  <2>3. Distinct(set.mem[a], DOMAIN set.mem[a])
    BY DEF RoutesKept
  <2> QED BY <2>2, <2>3 DEF Distinct
<1>11. \A a \in DOMAIN set'.mem, n \in Modules :
         (\E k \in DOMAIN set'.mem[a] : set'.mem[a][k] = n) => phase'[n] # "off"
  <2>1. ASSUME NEW a \in DOMAIN set.mem, NEW k \in DOMAIN set.mem[a]
        PROVE  \E j \in DOMAIN set.mem[a] : set'.mem[a][k] = set.mem[a][j]
    <3>1. CASE a = set.array /\ k = moving
      BY <1>3, <1>5, <1>2, <3>1 DEF Entries
    <3>2. CASE ~(a = set.array /\ k = moving)
      BY <3>2, Moved
    <3> QED BY <3>1, <3>2
  <2>2. \A a \in DOMAIN set.mem : DOMAIN set'.mem[a] = DOMAIN set.mem[a]
    BY Moved
  <2> QED BY <1>1, <1>2, <2>1, <2>2 DEF RoutesKept
<1>12. moving # 0 /\ moving' # 0
  BY <1>1
<1> QED BY <1>1, <1>2, <1>3, <1>4, <1>6, <1>7, <1>8, <1>9, <1>10, <1>11, <1>12 DEF RoutesKept

LEMMA StoreRoutes ==
  ASSUME TypeOK, RoutesKept, NEW m \in Modules, StoreSlice(m)
  PROVE  /\ RoutesKept' /\ set' \in SliceType(Modules) /\ SliceInBounds(set')
         /\ moving # 0 /\ moving' = 0 /\ Live' = Live /\ set'.mem = set.mem
         /\ set'.array = set.array /\ set'.len = set.len - 1 /\ set.len - 1 \in Nat
         /\ phase[m] = "leaving" /\ phase' = [phase EXCEPT ![m] = "gone"]
<1>1. /\ phase[m] = "leaving" /\ phase' = [phase EXCEPT ![m] = "gone"]
      /\ moving = set.len /\ moving' = 0 /\ set' = SliceShrink(set)
  BY DEF StoreSlice
<1>2. moving # 0 /\ set.len - 1 \in Nat
  <2>1. moving # 0
    BY <1>1 DEF RoutesKept
  <2> QED BY <1>1, <2>1, SetFacts
<1>3. set' = [mem |-> set.mem, array |-> set.array, len |-> set.len - 1]
  <2>1. set \in [mem : Seq(Seq(Modules)), array : Nat, len : Nat]
    BY SetFacts DEF SliceType
  <2> QED BY <1>1, <2>1 DEF SliceShrink
<1>4. set' \in SliceType(Modules) /\ SliceInBounds(set')
  BY <1>2, <1>3, SetFacts DEF SliceType, SliceInBounds, Entries
<1>5. Live' = Live /\ Entries' = Entries
  BY <1>1, <1>2, <1>3, SetFacts DEF Live, Entries
<1>6. /\ phase'[m] = "gone" /\ \A n \in Modules : n # m => phase'[n] = phase[n]
  BY <1>1 DEF TypeOK
<1>7. \A n \in Modules : phase'[n] # "leaving"
  BY <1>1, <1>6 DEF RoutesKept
<1>8. \A n \in Modules : Subscribed(n)' <=> Subscribed(n)
  BY <1>1, <1>6 DEF Subscribed
<1>9. \A k \in Live' : Subscribed(Entries[k])'
  <2>1. \A k \in Live : Entries[k] \in Modules
    BY SetFacts DEF Entries
  <2> QED BY <1>5, <1>6, <1>1, <2>1 DEF RoutesKept, Subscribed
<1>10. \A a \in DOMAIN set.mem, n \in Modules :
         (\E k \in DOMAIN set.mem[a] : set.mem[a][k] = n) => phase'[n] # "off"
  BY <1>6 DEF RoutesKept
<1> QED BY <1>1, <1>2, <1>3, <1>4, <1>5, <1>7, <1>8, <1>9, <1>10 DEF RoutesKept

-----------------------------------------------------------------------------
(* The queues.                                                               *)

LEMMA MessageFacts ==
  \A x \in Messages :
    /\ x.from \in Senders /\ x.from \in Modules /\ x.version \in Nat
    /\ x.version \in 1 .. MaxSends /\ x = [from |-> x.from, version |-> x.version]
<1>1. Senders \subseteq Modules /\ MaxSends \in Nat
  BY SubsetAssumption, MaxSendsAssumption
<1> QED BY <1>1 DEF Messages

LEMMA QueueTypes ==
  ASSUME TypeOK, NEW m \in Modules
  PROVE  /\ snd[m] \in QueueType(Messages) /\ rcv[m] \in QueueType(Messages)
         /\ snd[m].items \in Seq(Messages) /\ rcv[m].items \in Seq(Messages)
         /\ snd[m].processing \subseteq Messages /\ snd[m].dirty \subseteq Messages
         /\ walk[m] \in WalkType /\ sent[m] \in 0 .. MaxSends /\ sent[m] \in Nat
         /\ Elems(snd[m].items) \subseteq Messages /\ Elems(rcv[m].items) \subseteq Messages
         /\ log[m] \in Seq(Messages)
<1>1. /\ snd[m] \in QueueType(Messages) /\ rcv[m] \in QueueType(Messages)
      /\ walk[m] \in WalkType /\ sent[m] \in 0 .. MaxSends /\ log[m] \in Seq(Messages)
  BY DEF TypeOK
<1>2. /\ snd[m].items \in Seq(Messages) /\ rcv[m].items \in Seq(Messages)
      /\ snd[m].processing \subseteq Messages /\ snd[m].dirty \subseteq Messages
  BY <1>1 DEF QueueType
<1>3. Elems(snd[m].items) \subseteq Messages /\ Elems(rcv[m].items) \subseteq Messages
  BY <1>2 DEF Elems
<1>4. sent[m] \in Nat
  BY <1>1, MaxSendsAssumption
<1> QED BY <1>1, <1>2, <1>3, <1>4

\* Nothing of what is said of the queues of m changes.
LEMMA SameQueues ==
  ASSUME NEW m \in Modules, QueueKept(m), snd'[m] = snd[m],
         rcv'[m].closed = rcv[m].closed,
         walk'[m].pc = walk[m].pc, sent'[m] = sent[m],
         phase'[m] \in {"closed", "leaving", "gone"} <=> phase[m] \in {"closed", "leaving", "gone"}
  PROVE  QueueKept(m)'
BY DEF QueueKept

LEMMA CloseQueues ==
  ASSUME TypeOK, NEW m \in Modules, QueueKept(m), Close(m)
  PROVE  QueueKept(m)'
<1>1. /\ phase'[m] = "closed" /\ snd'[m] = QShutDown(snd[m])
      /\ rcv'[m] = QShutDown(rcv[m]) /\ UNCHANGED <<walk, sent>>
  BY DEF Close, TypeOK
<1>2. /\ snd'[m].closed /\ snd'[m].items = snd[m].items /\ rcv'[m].closed
      /\ snd'[m].processing = snd[m].processing /\ snd'[m].dirty = snd[m].dirty
  BY <1>1, QueueTypes DEF QShutDown, QueueType
<1> QED BY <1>1, <1>2 DEF QueueKept

\* What Send puts in the queue is newer than all that is in it.
LEMMA SendQueues ==
  ASSUME TypeOK, NEW m \in Modules, QueueKept(m), Send(m)
  PROVE  /\ QueueKept(m)' /\ snd'[m].processing = snd[m].processing
         /\ sent'[m] \in 0 .. MaxSends /\ sent'[m] = sent[m] + 1
         /\ snd'[m] \in QueueType(Messages)
         /\ Elems(snd'[m].items) \subseteq
              Elems(snd[m].items) \cup {[from |-> m, version |-> sent[m] + 1]}
<1> DEFINE x == [from |-> m, version |-> sent[m] + 1]
           q == snd[m]
<1>1. /\ m \in Senders /\ sent[m] < MaxSends /\ sent'[m] = sent[m] + 1
      /\ snd'[m] = QAdd(q, x) /\ UNCHANGED <<phase, rcv, walk>>
  BY DEF Send, TypeOK
<1>2. /\ x \in Messages /\ x.from = m /\ x.version = sent[m] + 1
      /\ sent'[m] \in 0 .. MaxSends /\ sent[m] \in Nat
  BY <1>1, QueueTypes, MaxSendsAssumption DEF Messages
<1>3. q \in QueueType(Messages) /\ q.items \in Seq(Messages)
  BY QueueTypes
<1> HIDE DEF x
<1>4. /\ \A y \in Elems(q.items) \cup q.processing : y.version < x.version /\ y.version \in Nat
      /\ x \notin q.dirty /\ x \notin q.processing
  BY <1>2, QueueTypes, MessageFacts DEF QueueKept
<1>5. snd'[m] \in QueueType(Messages)
  BY <1>1, <1>2, <1>3, QueueOpsType
<1>6. CASE q.closed
  <2>1. snd'[m] = q
    BY <1>1, <1>6 DEF QAdd, Accepts
  <2>2. \A y \in Elems(q.items) \cup q.processing : y.version <= sent'[m]
    BY <1>1, <1>2, QueueTypes, MessageFacts DEF QueueKept
  <2> QED BY <1>1, <1>2, <1>5, <2>1, <2>2 DEF QueueKept, x
<1>7. CASE ~q.closed
  <2>1. /\ snd'[m].items = Append(q.items, x) /\ snd'[m].dirty = q.dirty \cup {x}
        /\ snd'[m].processing = q.processing /\ snd'[m].closed = q.closed
    BY <1>1, <1>3, <1>4, <1>7 DEF QAdd, Accepts, Appends, QueueType
  <2>2. Elems(snd'[m].items) = Elems(q.items) \cup {x}
    BY <1>2, <1>3, <2>1, ElemsAppend
  <2>3. \A j, k \in DOMAIN snd'[m].items :
          j < k => snd'[m].items[j].version < snd'[m].items[k].version
    <3>1. /\ Len(q.items) \in Nat /\ DOMAIN q.items = 1 .. Len(q.items)
          /\ DOMAIN snd'[m].items = 1 .. Len(q.items) + 1
          /\ snd'[m].items[Len(q.items) + 1] = x
          /\ \A k \in DOMAIN q.items : snd'[m].items[k] = q.items[k]
      BY <1>2, <1>3, <2>1
    <3>2. \A k \in DOMAIN q.items : q.items[k].version < x.version
      BY <1>4 DEF Elems
    <3>3. \A j, k \in DOMAIN q.items : j < k => q.items[j].version < q.items[k].version
      BY DEF QueueKept
    <3> HIDE DEF q
    <3> QED BY SMTT(30), <3>1, <3>2, <3>3
  <2>4. \A y \in Elems(snd'[m].items) \cup snd'[m].processing :
          y.from = m /\ y.version <= sent'[m]
    BY <1>1, <1>2, <1>4, <2>1, <2>2 DEF QueueKept
  <2>5. \A z \in snd'[m].processing, y \in Elems(snd'[m].items) : z.version < y.version
    BY <1>4, <2>1, <2>2 DEF QueueKept
  <2>6. snd'[m].dirty \subseteq Elems(snd'[m].items)
    BY <2>1, <2>2 DEF QueueKept
  <2>7. walk'[m].pc = walk[m].pc /\ phase' = phase /\ rcv' = rcv
    BY <1>1
  <2>8. walk'[m].pc = "exited" => q.closed
    BY <2>7 DEF QueueKept
  <2> QED BY <1>1, <1>2, <1>5, <1>7, <2>1, <2>2, <2>3, <2>4, <2>5, <2>6, <2>7, <2>8
          DEF QueueKept, x
<1> QED BY <1>6, <1>7

\* The listener takes the oldest message of its queue.
LEMMA GetQueues ==
  ASSUME TypeOK, NEW m \in Modules, QueueKept(m), ListenGet(m)
  PROVE  /\ QueueKept(m)' /\ snd'[m] \in QueueType(Messages)
         /\ snd'[m].processing = {Head(snd[m].items)}
         /\ Head(snd[m].items) \in Elems(snd[m].items)
         /\ Elems(snd'[m].items) \subseteq Elems(snd[m].items)
<1> DEFINE q == snd[m]
           x == Head(q.items)
<1>1. /\ q.items # <<>> /\ snd'[m] = QTake(q) /\ UNCHANGED <<phase, rcv, sent>>
      /\ walk[m].pc = "idle" /\ walk'[m].pc = "got"
  BY DEF ListenGet, TypeOK, WalkType
<1>2. q \in QueueType(Messages) /\ q.items \in Seq(Messages)
  BY QueueTypes
<1>3. /\ snd'[m] \in QueueType(Messages) /\ x \in Messages
      /\ snd'[m].items = Tail(q.items) /\ snd'[m].processing = q.processing \cup {x}
      /\ snd'[m].dirty = q.dirty \ {x} /\ snd'[m].closed = q.closed
  <2>1. snd'[m] \in QueueType(Messages) /\ x \in Messages
    BY <1>1, <1>2, QTakeType
  <2> QED BY <1>1, <1>2, <2>1 DEF QTake, QueueType
<1>4. q.processing = {}
  BY <1>1 DEF QueueKept
<1>5. /\ x \in Elems(q.items) /\ Elems(Tail(q.items)) \subseteq Elems(q.items)
      /\ Elems(q.items) \subseteq Elems(Tail(q.items)) \cup {x}
  BY <1>1, <1>2, ElemsTail
<1>6. /\ Len(q.items) \in Nat /\ Len(q.items) >= 1 /\ DOMAIN q.items = 1 .. Len(q.items)
      /\ DOMAIN Tail(q.items) = 1 .. Len(q.items) - 1 /\ x = q.items[1]
      /\ \A k \in 1 .. Len(q.items) - 1 : Tail(q.items)[k] = q.items[k + 1]
  BY <1>1, <1>2
<1>7. \A j, k \in DOMAIN q.items : j < k => q.items[j].version < q.items[k].version
  BY DEF QueueKept
<1> HIDE DEF q, x
<1>8. \A y \in Elems(Tail(q.items)) : x.version < y.version
  BY <1>6, <1>7 DEF Elems
<1>9. \A j, k \in DOMAIN Tail(q.items) :
        j < k => Tail(q.items)[j].version < Tail(q.items)[k].version
  <2> SUFFICES ASSUME NEW j \in 1 .. Len(q.items) - 1, NEW k \in 1 .. Len(q.items) - 1, j < k
               PROVE  Tail(q.items)[j].version < Tail(q.items)[k].version
    BY <1>6
  <2>1. j + 1 \in DOMAIN q.items /\ k + 1 \in DOMAIN q.items /\ j + 1 < k + 1
    BY <1>6
  <2>2. q.items[j + 1].version < q.items[k + 1].version
    BY <1>7, <2>1
  <2> QED BY <1>6, <2>2
<1>10. snd'[m].dirty \subseteq Elems(snd'[m].items)
  BY <1>3, <1>5 DEF QueueKept, q
<1>11. \A y \in Elems(snd'[m].items) \cup snd'[m].processing :
         y.from = m /\ y.version <= sent'[m]
  BY <1>1, <1>3, <1>4, <1>5 DEF QueueKept, q
<1>12. /\ snd'[m].closed <=> phase'[m] \in {"closed", "leaving", "gone"}
       /\ rcv'[m].closed <=> phase'[m] \in {"closed", "leaving", "gone"}
  BY <1>1, <1>3 DEF QueueKept, q
<1> QED BY <1>1, <1>3, <1>4, <1>5, <1>8, <1>9, <1>10, <1>11, <1>12 DEF QueueKept, q, x

\* The message the listener of m has.
LEMMA CurrentMessage ==
  ASSUME TypeOK, NEW m \in Modules, QueueKept(m), walk[m].pc \in {"got", "visit"}
  PROVE  /\ Current(m) \in Messages /\ snd[m].processing = {Current(m)}
         /\ Current(m).from = m /\ Current(m) \notin snd[m].dirty
<1>1. PICK x \in Messages : snd[m].processing = {x}
  BY DEF QueueKept
<1>2. Current(m) = x
  BY <1>1 DEF Current
<1>3. Current(m) \notin snd[m].dirty
  BY <1>1, <1>2, QueueTypes, MessageFacts DEF QueueKept
<1> QED BY <1>1, <1>2, <1>3 DEF QueueKept

\* When it is done with it nothing comes back.
LEMMA DoneQueues ==
  ASSUME TypeOK, NEW m \in Modules, QueueKept(m), ListenDone(m)
  PROVE  /\ QueueKept(m)' /\ snd'[m] \in QueueType(Messages)
         /\ snd'[m].processing = {} /\ snd'[m].items = snd[m].items
<1> DEFINE q == snd[m]
           x == Current(m)
<1>1. /\ snd'[m] = QDone(q, x) /\ UNCHANGED <<phase, rcv, sent>>
      /\ walk[m].pc = "visit" /\ walk'[m].pc = "idle"
  BY DEF ListenDone, TypeOK, NoWalk
<1>2. q \in QueueType(Messages)
  BY QueueTypes
<1>3. q.processing = {x} /\ x \notin q.dirty
  BY <1>1, CurrentMessage
<1> HIDE DEF q, x
<1>4. /\ snd'[m].items = q.items /\ snd'[m].processing = {} /\ snd'[m].closed = q.closed
      /\ snd'[m].dirty = q.dirty \ {x} /\ snd'[m] \in QueueType(Messages)
  BY <1>1, <1>2, <1>3 DEF QDone, Requeues, QueueType
<1> QED BY <1>1, <1>4 DEF QueueKept, q

\* An Add changes neither what is received from nor the shutdown.
LEMMA AddToReceiver ==
  ASSUME TypeOK, NEW t \in Modules, QueueKept(t), NEW x \in Messages
  PROVE  LET r == QAdd(rcv[t], x)
         IN /\ r \in QueueType(Messages) /\ r.closed = rcv[t].closed
            /\ r.processing = rcv[t].processing /\ r.dirty \subseteq rcv[t].dirty \cup {x}
            /\ r.items = rcv[t].items \/ r.items = Append(rcv[t].items, x)
            /\ rcv[t].closed => r = rcv[t]
<1>1. rcv[t] \in QueueType(Messages)
  BY QueueTypes
<1>2. QAdd(rcv[t], x) \in QueueType(Messages)
  BY <1>1, QueueOpsType
<1> QED BY <1>1, <1>2 DEF QAdd, Accepts, Appends, QueueType

\* The worker of m takes the next message.
LEMMA TakeReceiver ==
  ASSUME TypeOK, NEW m \in Modules, Take(m)
  PROVE  /\ rcv'[m] \in QueueType(Messages) /\ rcv'[m].items = Tail(rcv[m].items)
         /\ rcv'[m].closed = rcv[m].closed /\ rcv'[m].processing = {Head(rcv[m].items)}
         /\ rcv'[m].dirty = rcv[m].dirty \ {Head(rcv[m].items)}
         /\ rcv[m].items # <<>> /\ log'[m] = Append(log[m], Head(rcv[m].items))
         /\ Head(rcv[m].items) \in Messages /\ rcv[m].processing = {}
         /\ \A n \in Modules : n # m => rcv'[n] = rcv[n] /\ log'[n] = log[n]
<1>1. /\ rcv[m].items # <<>> /\ log'[m] = Append(log[m], Head(rcv[m].items))
      /\ rcv'[m] = QTake(rcv[m]) /\ rcv[m].processing = {}
      /\ \A n \in Modules : n # m => rcv'[n] = rcv[n] /\ log'[n] = log[n]
  BY DEF Take, TypeOK
<1>2. rcv[m] \in QueueType(Messages)
  BY QueueTypes
<1>3. QTake(rcv[m]) \in QueueType(Messages) /\ Head(rcv[m].items) \in Messages
  BY <1>1, <1>2, QTakeType
<1>4. /\ rcv'[m].items = Tail(rcv[m].items) /\ rcv'[m].closed = rcv[m].closed
      /\ rcv'[m].processing = rcv[m].processing \cup {Head(rcv[m].items)}
      /\ rcv'[m].dirty = rcv[m].dirty \ {Head(rcv[m].items)}
  BY <1>1, <1>2 DEF QTake, QueueType
<1> QED BY <1>1, <1>3, <1>4

\* It is done with it, and may find it in its queue again.
LEMMA FinishReceiver ==
  ASSUME TypeOK, NEW m \in Modules, ReceiverKept(m), Finish(m)
  PROVE  \E x \in Elems(log[m]) :
           /\ x \in Messages /\ rcv[m].processing = {x} /\ rcv'[m] \in QueueType(Messages)
           /\ rcv'[m].closed = rcv[m].closed /\ rcv'[m].processing = {}
           /\ rcv'[m].items = IF x \in rcv[m].dirty THEN Append(rcv[m].items, x) ELSE rcv[m].items
           /\ log' = log /\ \A n \in Modules : n # m => rcv'[n] = rcv[n]
<1>1. PICK x \in rcv[m].processing : rcv' = [rcv EXCEPT ![m] = QDone(@, x)]
  BY DEF Finish
<1>2. x \in Elems(log[m]) /\ rcv[m].processing = {x}
  BY DEF ReceiverKept
<1>3. x \in Messages
  BY <1>2, QueueTypes DEF Elems
<1>4. /\ rcv'[m] = QDone(rcv[m], x) /\ log' = log
      /\ \A n \in Modules : n # m => rcv'[n] = rcv[n]
  BY <1>1 DEF Finish, TypeOK
<1>5. rcv[m] \in QueueType(Messages)
  BY QueueTypes
<1>6. rcv'[m] \in QueueType(Messages)
  BY <1>3, <1>4, <1>5, QueueOpsType
<1>7. /\ rcv'[m].closed = rcv[m].closed /\ rcv'[m].processing = rcv[m].processing \ {x}
      /\ rcv'[m].items = IF x \in rcv[m].dirty THEN Append(rcv[m].items, x) ELSE rcv[m].items
  BY <1>4, <1>5 DEF QDone, Requeues, QueueType
<1>8. rcv'[m].processing = {}
  BY <1>2, <1>7
<1> QED BY <1>2, <1>3, <1>4, <1>6, <1>7, <1>8

-----------------------------------------------------------------------------
(* The walks.                                                                *)

LEMMA Counts ==
  ASSUME NEW S \in SUBSET Modules, NEW T \in SUBSET Modules
  PROVE  /\ Cardinality(S) \in Nat /\ Cardinality(T) \in Nat
         /\ S \subseteq T => Cardinality(S) <= Cardinality(T)
         /\ \A e \in Modules : S \subseteq T \cup {e} => Cardinality(S) <= Cardinality(T) + 1
<1>1. IsFiniteSet(S) /\ IsFiniteSet(T)
  BY ModulesAssumption, FS_Subset
<1>2. Cardinality(S) \in Nat /\ Cardinality(T) \in Nat
  BY <1>1, FS_CardinalityType
<1>3. S \subseteq T => Cardinality(S) <= Cardinality(T)
  BY <1>1, FS_Subset
<1>4. ASSUME NEW e \in Modules, S \subseteq T \cup {e} PROVE Cardinality(S) <= Cardinality(T) + 1
  <2>1. IsFiniteSet(T \cup {e}) /\ Cardinality(T \cup {e}) \in {Cardinality(T), Cardinality(T) + 1}
    BY <1>1, FS_AddElement
  <2>2. Cardinality(S) <= Cardinality(T \cup {e})
    BY <1>4, <2>1, FS_Subset
  <2> QED BY <1>2, <2>1, <2>2
<1> QED BY <1>2, <1>3, <1>4

LEMMA WalkFacts ==
  ASSUME TypeOK, RoutesKept, NEW m \in Modules
  PROVE  /\ walk[m].array \in DOMAIN set.mem /\ walk[m].array \in Nat
         /\ walk[m].len \in Nat /\ walk[m].next \in Nat
         /\ walk[m].due \subseteq Modules /\ walk[m].visited \subseteq Modules
         /\ walk[m].moved \in Nat /\ walk[m].again \in Nat /\ Allowed(m) \in Nat
         /\ 1 .. walk[m].len \subseteq DOMAIN Copied(m)
         /\ \A k \in DOMAIN Copied(m) : Copied(m)[k] \in Modules /\ k \in Nat /\ k >= 1
         /\ WalkLive(m) \subseteq DOMAIN Copied(m) /\ Distinct(Copied(m), WalkLive(m))
         /\ walk[m].array = set.array => Copied(m) = Entries /\ WalkLive(m) = Live
         /\ Lost(m) \in SUBSET Modules
<1>1. /\ walk[m].array \in Nat /\ walk[m].len \in Nat /\ walk[m].next \in Nat
      /\ walk[m].due \subseteq Modules /\ walk[m].visited \subseteq Modules
      /\ walk[m].moved \in Nat /\ walk[m].again \in Nat
  BY QueueTypes DEF WalkType
<1>2. walk[m].array \in DOMAIN set.mem /\ walk[m].len <= Len(Copied(m))
  <2> DEFINE s == [set EXCEPT !.array = walk[m].array, !.len = walk[m].len]
  <2>1. SliceInBounds(s)
    BY DEF TypeOK
  <2>2. s.mem = set.mem /\ s.array = walk[m].array /\ s.len = walk[m].len
    BY SetFacts DEF SliceType
  <2> HIDE DEF s
  <2> QED BY <2>1, <2>2 DEF SliceInBounds, Copied
<1>3. /\ DOMAIN Copied(m) = 1 .. Len(Copied(m)) /\ Len(Copied(m)) \in Nat
      /\ \A k \in DOMAIN Copied(m) : Copied(m)[k] \in Modules
  BY <1>2, SetFacts DEF Copied
<1>4. walk[m].array = set.array => Copied(m) = Entries /\ WalkLive(m) = Live
  BY DEF Copied, Entries, WalkLive
<1>5. WalkLive(m) \subseteq DOMAIN Copied(m) /\ Distinct(Copied(m), WalkLive(m))
  <2>1. CASE walk[m].array = set.array
    BY <1>4, <2>1, SetFacts DEF RoutesKept
  <2>2. CASE walk[m].array # set.array
    <3>1. walk[m].array < set.array
      BY <1>1, <1>2, <2>2, SetFacts DEF RoutesKept
    <3> QED BY <1>2, <2>2, <3>1 DEF RoutesKept, WalkLive, Copied
  <2> QED BY <2>1, <2>2
<1>6. Lost(m) \in SUBSET Modules
  BY <1>1 DEF Lost
<1>7. Allowed(m) \in Nat
  BY <1>1 DEF Allowed
<1> QED BY <1>1, <1>2, <1>3, <1>4, <1>5, <1>6, <1>7

\* Whatever the state of the removal, no more are lost than allowed.
LEMMA BudgetBound ==
  ASSUME TypeOK, RoutesKept, NEW m \in Modules, Budget(m)
  PROVE  Cardinality(Lost(m)) <= Allowed(m)
<1> DEFINE e == Entries[moving]
<1>1. Lost(m) \in SUBSET Modules /\ Cardinality(Lost(m)) \in Nat /\ Allowed(m) \in Nat
  BY WalkFacts, Counts
<1>2. CASE moving = 0 \/ walk[m].array # set.array
  BY <1>2 DEF Budget
<1>3. CASE moving # 0 /\ walk[m].array = set.array
  <2>1. e \in Modules
    BY <1>3, SetFacts DEF Entries
  <2>2. Cardinality(Lost(m)) <= Cardinality(Lost(m) \ {e}) + 1 /\ Cardinality(Lost(m) \ {e}) \in Nat
    <3> HIDE DEF e
    <3>1. Lost(m) \ {e} \in SUBSET Modules /\ Lost(m) \subseteq (Lost(m) \ {e}) \cup {e}
      BY <1>1
    <3> QED BY <1>1, <2>1, <3>1, Counts
  <2> QED BY <1>1, <1>3, <2>2 DEF Budget
<1> QED BY <1>2, <1>3

LEMMA SameWalk ==
  ASSUME NEW m \in Modules, WalkKept(m), UNCHANGED <<phase, set, moving>>,
         walk'[m] = walk[m]
  PROVE  WalkKept(m)'
<1>1. /\ Copied(m)' = Copied(m) /\ WalkLive(m)' = WalkLive(m) /\ Lost(m)' = Lost(m)
      /\ Allowed(m)' = Allowed(m) /\ Entries' = Entries /\ (Removed' <=> Removed)
  BY DEF Copied, WalkLive, Live, Lost, Allowed, Entries, Removed
<1>2. Budget(m)' <=> Budget(m)
  BY <1>1 DEF Budget
<1> QED BY <1>1, <1>2 DEF WalkKept

LEMMA CloseWalk ==
  ASSUME TypeOK, RoutesKept, NEW m \in Modules, Close(m), NEW n \in Modules, WalkKept(n)
  PROVE  WalkKept(n)'
<1>1. /\ UNCHANGED <<set, moving, walk>> /\ phase[m] = "on"
      /\ phase' = [phase EXCEPT ![m] = "closed"]
  BY DEF Close
<1>2. /\ phase'[m] = "closed" /\ \A l \in Modules : l # m => phase'[l] = phase[l]
  BY <1>1 DEF TypeOK
<1>3. /\ Copied(n)' = Copied(n) /\ WalkLive(n)' = WalkLive(n) /\ Allowed(n)' = Allowed(n)
      /\ Entries' = Entries
  BY <1>1 DEF Copied, WalkLive, Live, Allowed, Entries
<1>4. Removed' <=> Removed
  BY <1>1, <1>2 DEF Removed
<1>5. Lost(n)' \subseteq Lost(n) /\ walk[n].due \subseteq Modules
  BY <1>1, <1>2, <1>3, WalkFacts DEF Lost
<1>6. Budget(n) => Budget(n)'
  <2> DEFINE e == Entries[moving]
             L == Lost(n)
             L2 == Lost(n)'
  <2>1. L \in SUBSET Modules /\ L2 \in SUBSET Modules /\ L2 \subseteq L /\ Allowed(n) \in Nat
    BY <1>5, WalkFacts
  <2> HIDE DEF e, L, L2
  <2>2. L \ {e} \in SUBSET Modules /\ L2 \ {e} \in SUBSET Modules /\ L2 \ {e} \subseteq L \ {e}
    BY <2>1
  <2>3. /\ Cardinality(L2) <= Cardinality(L) /\ Cardinality(L2 \ {e}) <= Cardinality(L \ {e})
        /\ Cardinality(L) \in Nat /\ Cardinality(L2) \in Nat
        /\ Cardinality(L \ {e}) \in Nat /\ Cardinality(L2 \ {e}) \in Nat
    BY <2>1, <2>2, Counts
  <2>4. moving # 0 => e \in Modules
    BY SetFacts DEF Entries, e
  <2>5. moving # 0 => (phase'[e] = "leaving" <=> phase[e] = "leaving")
    BY <1>1, <1>2, <2>4
  <2> QED BY <1>1, <1>3, <2>1, <2>3, <2>5 DEF Budget, e, L, L2
<1>7. \A t \in walk[n].due : /\ phase[t] # "off" => phase'[t] # "off"
                             /\ phase'[t] = "on" => phase[t] = "on"
  BY <1>2, <1>5
<1> QED BY <1>1, <1>3, <1>4, <1>5, <1>6, <1>7 DEF WalkKept

LEMMA UnsubscribeWalk ==
  ASSUME TypeOK, RoutesKept, NEW m \in Modules, Unsubscribe(m), NEW n \in Modules, WalkKept(n)
  PROVE  WalkKept(n)'
<1>1. /\ UNCHANGED set /\ moving = 0 /\ phase[m] = "closed"
      /\ phase' = [phase EXCEPT ![m] = "leaving"]
      /\ walk'[n] = IF walk[n].pc = "visit" THEN [walk[n] EXCEPT !.moved = @ + 1] ELSE walk[n]
  BY DEF Unsubscribe
<1>2. /\ phase'[m] = "leaving" /\ \A l \in Modules : l # m => phase'[l] = phase[l]
  BY <1>1 DEF TypeOK
<1> SUFFICES ASSUME walk'[n].pc = "visit" PROVE WalkKept(n)'
  BY DEF WalkKept
<1>3. /\ walk[n].pc = "visit" /\ walk'[n].moved = walk[n].moved + 1
      /\ walk'[n].array = walk[n].array /\ walk'[n].len = walk[n].len
      /\ walk'[n].next = walk[n].next /\ walk'[n].due = walk[n].due
      /\ walk'[n].visited = walk[n].visited /\ walk'[n].again = walk[n].again
  BY <1>1, QueueTypes DEF WalkType
<1>4. /\ moving' \in 1 .. set.len /\ Entries[moving'] = m /\ Live' = Live \ {moving'}
  BY UnsubscribeRoutes
<1>5. Copied(n)' = Copied(n) /\ Entries' = Entries /\ WalkLive(n)' \subseteq WalkLive(n)
  BY <1>1, <1>3, <1>4 DEF Copied, Entries, WalkLive
<1>6. Lost(n)' \subseteq Lost(n) /\ walk[n].due \subseteq Modules
  BY <1>2, <1>3, <1>5, WalkFacts DEF Lost
<1>7. Allowed(n)' = Allowed(n) + 1 /\ Allowed(n) \in Nat
  BY <1>3, WalkFacts DEF Allowed
<1>8. Cardinality(Lost(n)') + 1 <= Allowed(n)' /\ Cardinality(Lost(n)') \in Nat
  <2>1. Cardinality(Lost(n)) <= Allowed(n)
    BY <1>3, BudgetBound DEF WalkKept
  <2>2. Lost(n) \in SUBSET Modules /\ Lost(n)' \in SUBSET Modules
    BY <1>6, WalkFacts
  <2> HIDE DEF Lost
  <2>3. /\ Cardinality(Lost(n)') <= Cardinality(Lost(n)) /\ Cardinality(Lost(n)') \in Nat
        /\ Cardinality(Lost(n)) \in Nat
    BY <1>6, <2>2, Counts
  <2> QED BY <1>7, <2>1, <2>3
<1>9. Budget(n)'
  <2>1. phase'[Entries'[moving']] = "leaving" /\ Allowed(n)' \in Nat
    BY <1>2, <1>4, <1>5, <1>7
  <2> QED BY <1>8, <2>1 DEF Budget
<1>10. /\ \A t \in walk[n].due : phase'[t] # "off"
       /\ walk'[n].array \in DOMAIN set'.mem /\ walk'[n].next \in 1 .. walk'[n].len + 1
       /\ walk'[n].moved > 0
  BY <1>1, <1>2, <1>3, <1>6, WalkFacts DEF WalkKept
<1>11. ASSUME NEW t \in walk[n].due, phase'[t] = "on"
       PROVE  \E k \in WalkLive(n)' : k <= walk[n].len /\ Copied(n)[k] = t
  <2>1. t # m /\ phase[t] = "on"
    BY <1>2, <1>6, <1>11
  <2>2. PICK k \in WalkLive(n) : k <= walk[n].len /\ Copied(n)[k] = t
    BY <1>3, <2>1 DEF WalkKept
  <2>3. k \in WalkLive(n)'
    BY <1>1, <1>3, <1>4, <1>5, <2>1, <2>2, WalkFacts DEF WalkLive
  <2> QED BY <2>2, <2>3
<1>12. Removed'
  BY <1>2 DEF Removed
<1> QED BY <1>3, <1>5, <1>9, <1>10, <1>11, <1>12 DEF WalkKept

LEMMA MoveWalk ==
  ASSUME TypeOK, RoutesKept, MoveEntry, NEW n \in Modules, WalkKept(n)
  PROVE  WalkKept(n)'
<1> DEFINE e == Entries[moving + 1]
<1> SUFFICES ASSUME walk'[n].pc = "visit" PROVE WalkKept(n)'
  BY DEF WalkKept
<1>1. /\ UNCHANGED <<phase, walk>> /\ walk[n].pc = "visit" /\ Allowed(n)' = Allowed(n)
      /\ Removed' = Removed /\ Removed
  <2>1. UNCHANGED <<phase, walk>> /\ moving # 0
    BY DEF MoveEntry
  <2> QED BY <2>1 DEF Allowed, Removed, RoutesKept
<1>2. /\ moving \in 1 .. set.len - 1 /\ moving' = moving + 1 /\ moving' # 0
      /\ set'.array = set.array /\ DOMAIN set'.mem = DOMAIN set.mem /\ set'.len = set.len
      /\ moving + 1 \in Live /\ moving \notin Live
      /\ Live' = (Live \ {moving + 1}) \cup {moving}
      /\ \A k \in DOMAIN Entries : Entries'[k] = IF k = moving THEN e ELSE Entries[k]
  BY Moved, MoveRoutes DEF Live
<1>3. /\ e \in Modules /\ Entries'[moving + 1] = e /\ phase[e] # "leaving"
      /\ Live \subseteq DOMAIN Entries /\ moving \in DOMAIN Entries
  <2>1. Live \subseteq DOMAIN Entries /\ \A k \in DOMAIN Entries : Entries[k] \in Modules
    BY SetFacts DEF Entries
  <2>2. moving \in DOMAIN Entries
    BY <1>2, SetFacts
  <2>3. moving + 1 # moving
    BY <1>2
  <2> QED BY <1>2, <2>1, <2>2, <2>3 DEF RoutesKept, Subscribed
<1>4. /\ moving > 0 /\ walk[n].moved > 0 /\ walk[n].moved \in Nat /\ walk[n].moved # 0
      /\ walk[n].next \in Nat /\ walk[n].len \in Nat
      /\ Lost(n) \in SUBSET Modules /\ Allowed(n) \in Nat /\ walk[n].due \subseteq Modules
      /\ Budget(n)
  BY <1>1, <1>2, WalkFacts DEF WalkKept
<1> HIDE DEF e
<1>5. CASE walk[n].array # set.array
  <2>1. /\ WalkLive(n)' = WalkLive(n) /\ WalkLive(n) = DOMAIN Copied(n)
        /\ \A k \in WalkLive(n) : Copied(n)'[k] = Copied(n)[k]
    <3>1. walk[n].array \in DOMAIN set.mem
      BY WalkFacts
    <3> QED BY <1>1, <1>2, <1>5, <3>1, Moved DEF WalkLive, Copied
  <2>2. Lost(n)' = Lost(n)
    BY <1>1, <2>1 DEF Lost
  <2>3. Budget(n)'
    BY <1>1, <1>2, <1>4, <1>5, <2>2 DEF Budget
  <2>4. \A t \in walk[n].due : phase[t] = "on" =>
          \E k \in WalkLive(n)' : k <= walk[n].len /\ Copied(n)'[k] = t
    BY <1>1, <2>1 DEF WalkKept
  <2> QED BY <1>1, <1>2, <1>4, <2>3, <2>4 DEF WalkKept
<1>6. CASE walk[n].array = set.array
  <2>1. /\ WalkLive(n) = Live /\ WalkLive(n)' = Live' /\ Copied(n) = Entries
        /\ Copied(n)' = Entries'
    BY <1>1, <1>2, <1>6 DEF WalkLive, Copied, Entries
  <2>2. Lost(n)' \subseteq Lost(n) \cup {e}
    BY <1>1, <1>2, <1>3, <2>1 DEF Lost
  <2>3. ASSUME walk[n].next # moving + 1 PROVE Lost(n)' \subseteq Lost(n)
    <3> SUFFICES ASSUME NEW t \in Lost(n)' PROVE t \in Lost(n)
      OBVIOUS
    <3>1. /\ t \in walk[n].due /\ phase[t] = "on" /\ t # n /\ t \notin walk[n].visited
          /\ \E k \in Live' : k < walk[n].next /\ Entries'[k] = t
      BY <1>1, <2>1 DEF Lost
    <3>2. PICK k \in Live' : k < walk[n].next /\ Entries'[k] = t
      BY <3>1
    <3>3. CASE k = moving
      <4>1. Entries[moving + 1] = t /\ moving + 1 < walk[n].next
        BY <1>2, <1>3, <1>4, <2>3, <3>2, <3>3 DEF e
      <4> QED BY <1>2, <2>1, <3>1, <4>1 DEF Lost
    <3>4. CASE k # moving
      BY <1>2, <1>3, <2>1, <3>1, <3>2, <3>4 DEF Lost
    <3> QED BY <3>3, <3>4
  <2>4. /\ Cardinality(Lost(n)) \in Nat /\ Cardinality(Lost(n)') \in Nat
        /\ Cardinality(Lost(n)' \ {e}) \in Nat /\ Cardinality(Lost(n)' \ {e}) <= Cardinality(Lost(n))
        /\ Cardinality(Lost(n)') <= Cardinality(Lost(n)) + 1
        /\ walk[n].next # moving + 1 => Cardinality(Lost(n)') <= Cardinality(Lost(n))
    <3>1. /\ Lost(n)' \in SUBSET Modules /\ Lost(n)' \ {e} \in SUBSET Modules
          /\ Lost(n)' \ {e} \subseteq Lost(n)
      BY <1>3, <1>4, <2>2
    <3> DEFINE L == Lost(n)
               L2 == Lost(n)'
    <3>2. L2 \subseteq L \cup {e} /\ (walk[n].next # moving + 1 => L2 \subseteq L)
      BY <2>2, <2>3
    <3>3. L \in SUBSET Modules /\ L2 \in SUBSET Modules /\ L2 \ {e} \in SUBSET Modules /\ L2 \ {e} \subseteq L
      BY <1>4, <3>1
    <3> HIDE DEF L, L2
    <3>4. /\ Cardinality(L) \in Nat /\ Cardinality(L2) \in Nat /\ Cardinality(L2 \ {e}) \in Nat
          /\ Cardinality(L2 \ {e}) <= Cardinality(L) /\ Cardinality(L2) <= Cardinality(L) + 1
          /\ L2 \subseteq L => Cardinality(L2) <= Cardinality(L)
      BY <1>3, <3>2, <3>3, Counts
    <3> QED BY <3>2, <3>4 DEF L, L2
  <2>5. Cardinality(Lost(n)) <= Allowed(n)
    BY <1>4, BudgetBound
  <2>6. walk[n].next >= moving + 1 => Cardinality(Lost(n)) + 1 <= Allowed(n)
    BY <1>2, <1>4, <1>6 DEF Budget
  <2>7. Budget(n)'
    <3>1. Entries'[moving'] = e /\ ~(phase'[Entries'[moving']] = "leaving")
      BY <1>1, <1>2, <1>3
    <3>2. walk'[n].array = set'.array /\ walk' = walk
      BY <1>1, <1>2, <1>6
    <3>3. CASE moving + 1 < walk[n].next
      BY <1>1, <1>2, <1>4, <2>4, <2>6, <3>1, <3>2, <3>3 DEF Budget
    <3>4. CASE moving + 1 = walk[n].next
      BY <1>1, <1>2, <1>4, <2>4, <2>6, <3>1, <3>2, <3>4 DEF Budget
    <3>5. CASE moving + 1 > walk[n].next
      BY <1>1, <1>2, <1>4, <2>4, <2>5, <3>1, <3>2, <3>5 DEF Budget
    <3> QED BY <1>2, <1>4, <3>3, <3>4, <3>5
  <2>8. ASSUME NEW t \in walk[n].due, phase[t] = "on"
        PROVE  \E k \in Live' : k <= walk[n].len /\ Entries'[k] = t
    <3>1. PICK k \in Live : k <= walk[n].len /\ Entries[k] = t
      BY <1>1, <2>1, <2>8 DEF WalkKept
    <3>2. CASE k = moving + 1
      BY <1>2, <1>3, <1>4, <3>1, <3>2 DEF e
    <3>3. CASE k # moving + 1
      BY <1>2, <1>3, <3>1, <3>3
    <3> QED BY <3>2, <3>3
  <2> QED BY <1>1, <1>2, <1>4, <2>1, <2>7, <2>8 DEF WalkKept
<1> QED BY <1>5, <1>6

\* A turn of the loop: whoever it meets is not lost, and the loop gets past the move
\* only by meeting somebody for the first time or again.
LEMMA VisitWalk ==
  ASSUME TypeOK, RoutesKept, NEW n \in Modules, ListenVisit(n), WalkKept(n)
  PROVE  WalkKept(n)'
<1> DEFINE w == walk[n]
           T == Copied(n)[w.next]
<1>1. /\ UNCHANGED <<phase, set, moving>> /\ w.pc = "visit" /\ w.next <= w.len
      /\ walk' = [walk EXCEPT ![n] = Turn(w, T)] /\ w \in WalkType
  BY QueueTypes DEF ListenVisit, Entry, Copied
<1>2. /\ walk'[n].pc = "visit" /\ walk'[n].array = w.array /\ walk'[n].len = w.len
      /\ walk'[n].next = w.next + 1 /\ walk'[n].due = w.due /\ walk'[n].moved = w.moved
      /\ walk'[n].visited = w.visited \cup {T}
      /\ walk'[n].again = IF T \in w.visited THEN w.again + 1 ELSE w.again
  BY <1>1 DEF Turn, TypeOK, WalkType
<1>3. /\ w.array \in DOMAIN set.mem /\ w.next \in 1 .. w.len + 1 /\ w.next \in Nat
      /\ w.len \in Nat /\ w.again \in Nat /\ w.moved \in Nat /\ Allowed(n) \in Nat
      /\ Lost(n) \in SUBSET Modules /\ Budget(n) /\ moving \in Nat
  BY <1>1, WalkFacts, SetFacts DEF WalkKept
<1>4. /\ Copied(n)' = Copied(n) /\ WalkLive(n)' = WalkLive(n) /\ Entries' = Entries
      /\ (Removed' <=> Removed)
  BY <1>1, <1>2 DEF Copied, WalkLive, Live, Entries, Removed
<1>5. T \in Modules
  BY <1>1, <1>3, WalkFacts
<1>6. Lost(n)' \subseteq Lost(n) \ {T}
  <2> SUFFICES ASSUME NEW t \in Lost(n)' PROVE t \in Lost(n) /\ t # T
    OBVIOUS
  <2>1. /\ t \in w.due /\ phase[t] = "on" /\ t # n /\ t \notin w.visited /\ t # T
        /\ \E k \in WalkLive(n) : k < w.next + 1 /\ Copied(n)[k] = t
    BY <1>1, <1>2, <1>4 DEF Lost
  <2>2. PICK k \in WalkLive(n) : k < w.next + 1 /\ Copied(n)[k] = t
    BY <2>1
  <2>3. k # w.next /\ k \in Nat
    BY <2>1, <2>2, WalkFacts
  <2>4. k < w.next
    BY <1>3, <2>2, <2>3
  <2> QED BY <2>1, <2>2, <2>4 DEF Lost
<1>7. /\ Cardinality(Lost(n)') \in Nat /\ Cardinality(Lost(n)) \in Nat
      /\ Cardinality(Lost(n) \ {T}) \in Nat
      /\ Cardinality(Lost(n)') <= Cardinality(Lost(n))
      /\ Cardinality(Lost(n)') <= Cardinality(Lost(n) \ {T})
  <2> DEFINE L == Lost(n)
             L2 == Lost(n)'
  <2>1. /\ L \in SUBSET Modules /\ L2 \in SUBSET Modules /\ L \ {T} \in SUBSET Modules
        /\ L2 \subseteq L /\ L2 \subseteq L \ {T}
    BY <1>3, <1>6
  <2> HIDE DEF L, L2, T
  <2>2. /\ Cardinality(L2) \in Nat /\ Cardinality(L) \in Nat /\ Cardinality(L \ {T}) \in Nat
        /\ Cardinality(L2) <= Cardinality(L) /\ Cardinality(L2) <= Cardinality(L \ {T})
    BY <2>1, Counts
  <2> QED BY <2>2 DEF L, L2
<1>8. Cardinality(Lost(n)) <= Allowed(n)
  BY <1>3, BudgetBound
<1>9. Allowed(n)' = IF T \in w.visited THEN Allowed(n) + 1 ELSE Allowed(n)
  BY <1>2, <1>3 DEF Allowed
<1>10. Budget(n)'
  <2> DEFINE e == Entries[moving]
  <2> HIDE DEF T
  <2>1. CASE moving = 0 \/ w.array # set.array
    BY <1>1, <1>2, <1>3, <1>7, <1>8, <1>9, <2>1 DEF Budget
  <2>2. CASE moving # 0 /\ w.array = set.array
    <3>1. Copied(n) = Entries /\ DeadEntry
      BY <2>2, WalkFacts DEF RoutesKept
    <3>2. CASE moving < w.next \/ phase[e] = "leaving"
      <4>1. Cardinality(Lost(n)) + 1 <= Allowed(n)
        BY <1>3, <2>2, <3>2 DEF Budget
      <4>2. moving < w.next + 1 \/ phase[e] = "leaving"
        BY <1>3, <3>2
      <4>3. Cardinality(Lost(n)') + 1 <= Allowed(n)'
        BY <1>3, <1>7, <1>9, <4>1
      <4> QED BY <1>1, <1>2, <1>4, <2>2, <4>2, <4>3 DEF Budget
    <3>3. CASE ~(moving < w.next \/ phase[e] = "leaving") /\ moving = w.next
      <4>1. T = e
        BY <3>1, <3>3 DEF T
      <4>2. Cardinality(Lost(n)') + 1 <= Allowed(n)'
        <5>1. CASE e \in w.visited
          BY <1>3, <1>7, <1>8, <1>9, <4>1, <5>1
        <5>2. CASE e \notin w.visited
          <6>1. Cardinality(Lost(n) \ {e}) + 1 <= Allowed(n)
            BY <1>3, <2>2, <3>3, <5>2 DEF Budget
          <6> QED BY <1>3, <1>7, <1>9, <4>1, <5>2, <6>1
        <5> QED BY <5>1, <5>2
      <4>3. moving < w.next + 1
        BY <1>3, <3>3
      <4> QED BY <1>1, <1>2, <1>4, <2>2, <4>2, <4>3 DEF Budget
    <3>4. CASE ~(moving < w.next \/ phase[e] = "leaving") /\ moving # w.next
      <4>1. ~(moving < w.next + 1)
        BY <1>3, <3>4
      <4>2. moving = w.next + 1 => e \in walk'[n].visited
        <5>1. moving = w.next + 1 => moving - 1 = w.next
          BY <1>3
        <5> QED BY <1>2, <3>1, <3>4, <5>1 DEF DeadEntry, T
      <4>3. Cardinality(Lost(n)') <= Allowed(n)'
        BY <1>3, <1>7, <1>8, <1>9
      <4> QED BY <1>1, <1>2, <1>4, <2>2, <3>4, <4>1, <4>2, <4>3 DEF Budget
    <3> QED BY <3>2, <3>3, <3>4
  <2> QED BY <2>1, <2>2
<1>11. walk'[n].next \in 1 .. walk'[n].len + 1
  BY <1>1, <1>2, <1>3
<1> HIDE DEF T
<1> QED BY <1>1, <1>2, <1>4, <1>6, <1>10, <1>11 DEF WalkKept

\* The copy: nobody is lost yet, and a removal already under way is accounted for.
LEMMA CopyWalk ==
  ASSUME TypeOK, RoutesKept, NEW n \in Modules, ListenCopy(n)
  PROVE  WalkKept(n)'
<1>1. /\ UNCHANGED <<phase, set, moving>>
      /\ walk'[n] = [pc |-> "visit", array |-> set.array, len |-> set.len, next |-> 1,
                     due |-> Subscribers, visited |-> {},
                     moved |-> IF moving = 0 THEN 0 ELSE 1, again |-> 0]
  BY DEF ListenCopy, TypeOK
<1>2. /\ Entries' = Entries /\ Live' = Live /\ WalkLive(n)' = Live /\ Copied(n)' = Entries
  BY <1>1 DEF Entries, Live, WalkLive, Copied
<1>3. /\ set.array \in DOMAIN set.mem /\ set.len \in Nat /\ moving \in Nat
      /\ Live \subseteq 1 .. set.len
  BY SetFacts DEF Live
<1>4. Lost(n)' = {}
  <2>1. \A k \in 1 .. set.len : ~(k < 1)
    BY <1>3
  <2>2. walk'[n].next = 1
    BY <1>1
  <2>3. \A t \in Lost(n)' : \E k \in Live : k < 1
    BY <1>2, <2>2 DEF Lost
  <2> QED BY <1>3, <2>1, <2>3
<1>5. Cardinality({}) = 0 /\ \A x : {} \ {x} = {}
  BY FS_EmptySet
<1>6. Allowed(n)' = IF moving = 0 THEN 0 ELSE 1
  BY <1>1 DEF Allowed
<1>7. Budget(n)'
  <2>1. \A x : Lost(n)' \ {x} = {}
    BY <1>4
  <2> QED BY <1>1, <1>3, <1>4, <1>5, <1>6, <2>1 DEF Budget
<1>8. Subscribers \subseteq Modules
  BY SMTT(30), SubscribersAre, SetFacts DEF Entries
<1>9. \A t \in Subscribers : /\ phase[t] # "off"
                             /\ phase[t] = "on" => \E k \in Live : k <= set.len /\ Entries[k] = t
  <2> SUFFICES ASSUME NEW t \in Subscribers
               PROVE  /\ phase[t] # "off"
                      /\ phase[t] = "on" => \E k \in Live : k <= set.len /\ Entries[k] = t
    OBVIOUS
  <2>1. phase[t] # "off" /\ (phase[t] = "on" => \E k \in Live : Entries[k] = t)
    BY <1>8, SubscribersLive DEF Subscribed
  <2> QED BY <1>3, <2>1
<1>10. walk'[n].array \in DOMAIN set'.mem /\ walk'[n].next \in 1 .. walk'[n].len + 1
  BY <1>1, <1>3
<1>11. (moving' # 0 => walk'[n].moved > 0) /\ walk'[n].len <= set'.len
  BY <1>1, <1>3
<1> QED BY <1>1, <1>2, <1>4, <1>7, <1>9, <1>10, <1>11 DEF WalkKept

\* A new subscriber: it is not due, and nothing a walk still reads is overwritten but
\* what was behind the end of the slice.
LEMMA StartWalk ==
  ASSUME TypeOK, RoutesKept, NEW m \in Modules, Start(m), NEW n \in Modules, WalkKept(n)
  PROVE  WalkKept(n)'
<1> SUFFICES ASSUME walk'[n].pc = "visit" PROVE WalkKept(n)'
  BY DEF WalkKept
<1>1. /\ UNCHANGED walk /\ moving = 0 /\ moving' = 0 /\ phase[m] = "off"
      /\ InPlace(m) \/ InCopy(m)
      /\ phase' = [phase EXCEPT ![m] = "on"]
  BY StartRoutes DEF Start
<1>2. /\ phase'[m] = "on" /\ \A l \in Modules : l # m => phase'[l] = phase[l]
  BY <1>1, StartRoutes DEF Start, TypeOK
<1>3. /\ walk[n].pc = "visit" /\ walk[n].array \in DOMAIN set.mem /\ walk[n].due \subseteq Modules
      /\ Lost(n) \in SUBSET Modules /\ Allowed(n) \in Nat /\ Budget(n)
      /\ \A t \in walk[n].due : phase[t] # "off"
      /\ walk[n].next \in 1 .. walk[n].len + 1 /\ walk[n].len \in Nat
  BY <1>1, WalkFacts DEF WalkKept
<1>4. m \notin walk[n].due
  BY <1>1, <1>3
<1>5. /\ DOMAIN set.mem \subseteq DOMAIN set'.mem
      /\ \A k \in WalkLive(n) : k \in WalkLive(n)' /\ Copied(n)'[k] = Copied(n)[k]
      /\ \A k \in WalkLive(n)' : k \in WalkLive(n) \/ Copied(n)'[k] = m
  <2>1. /\ Live = 1 .. set.len /\ set.len \in Nat /\ WalkLive(n) \subseteq DOMAIN Copied(n)
        /\ set.array \in DOMAIN set.mem /\ DOMAIN Entries = 1 .. Len(Entries)
        /\ DOMAIN set.mem = 1 .. Len(set.mem) /\ Len(set.mem) \in Nat
    BY <1>1, SetFacts, WalkFacts DEF Live, Entries
  <2>2. CASE InPlace(m)
    <3>1. Live' = 1 .. set.len + 1 /\ set'.array = set.array
      BY <1>1, <2>2 DEF Live, InPlace
    <3>2. CASE walk[n].array = set.array
      <4>1. WalkLive(n) = Live /\ WalkLive(n)' = Live'
        BY <1>1, <3>1, <3>2 DEF WalkLive
      <4>2. \A k \in 1 .. set.len + 1 : k = set.len + 1 \/ k \in 1 .. set.len
        BY <2>1
      <4>3. set.len + 1 \in DOMAIN Entries /\ Live \subseteq DOMAIN Entries
        BY <2>1, <2>2, SetFacts DEF InPlace
      <4>4. \A k \in DOMAIN Entries : Copied(n)'[k] = IF k = set.len + 1 THEN m ELSE Copied(n)[k]
        BY <1>1, <1>3, <2>2, <3>2 DEF InPlace, Copied, Entries
      <4>5. \A k \in Live : k # set.len + 1 /\ k \in Live'
        BY <2>1, <3>1
      <4> QED BY <2>1, <2>2, <3>1, <4>1, <4>2, <4>3, <4>4, <4>5 DEF InPlace
    <3>3. CASE walk[n].array # set.array
      <4>1. WalkLive(n) = DOMAIN Copied(n) /\ WalkLive(n)' = DOMAIN Copied(n)'
        BY <1>1, <3>1, <3>3 DEF WalkLive
      <4> QED BY <1>1, <1>3, <2>2, <3>3, <4>1 DEF InPlace, Copied
    <3> QED BY <3>2, <3>3
  <2>3. CASE InCopy(m)
    <3>1. Copied(n)' = Copied(n) /\ walk'[n].array # set'.array
      BY SMTT(30), <1>1, <1>3, <2>1, <2>3 DEF InCopy, Copied
    <3>2. WalkLive(n)' = DOMAIN Copied(n)
      BY <3>1 DEF WalkLive
    <3>3. WalkLive(n) = DOMAIN Copied(n)
      <4>1. CASE walk[n].array = set.array
        BY <2>1, <2>3, <4>1, WalkFacts DEF InCopy
      <4>2. CASE walk[n].array # set.array
        BY <4>2 DEF WalkLive
      <4> QED BY <4>1, <4>2
    <3>4. DOMAIN set.mem \subseteq DOMAIN set'.mem
      BY <2>1, <2>3 DEF InCopy
    <3> QED BY <3>1, <3>2, <3>3, <3>4
  <2> QED BY <1>1, <2>2, <2>3
<1>6. Lost(n)' \subseteq Lost(n)
  BY <1>1, <1>2, <1>3, <1>4, <1>5 DEF Lost
<1>7. Budget(n)'
  <2>1. Cardinality(Lost(n)) <= Allowed(n)
    BY <1>3, BudgetBound
  <2>2. Allowed(n)' = Allowed(n)
    BY <1>1 DEF Allowed
  <2>3. Lost(n)' \in SUBSET Modules
    BY <1>3, <1>6
  <2>4. Cardinality(Lost(n)') <= Cardinality(Lost(n)) /\ Cardinality(Lost(n)') \in Nat
        /\ Cardinality(Lost(n)) \in Nat
    <3> HIDE DEF Lost
    <3> DEFINE L == Lost(n)
               L2 == Lost(n)'
    <3>1. L \in SUBSET Modules /\ L2 \in SUBSET Modules /\ L2 \subseteq L
      BY <1>3, <1>6, <2>3
    <3> HIDE DEF L, L2
    <3>2. Cardinality(L2) <= Cardinality(L) /\ Cardinality(L2) \in Nat /\ Cardinality(L) \in Nat
      BY <3>1, Counts
    <3> QED BY <3>2 DEF L, L2
  <2> QED BY <1>1, <1>3, <2>1, <2>2, <2>4 DEF Budget
<1>8. /\ \A t \in walk[n].due : phase'[t] # "off"
      /\ \A t \in walk[n].due : phase'[t] = "on" =>
           \E k \in WalkLive(n)' : k <= walk[n].len /\ Copied(n)'[k] = t
  <2>1. \A t \in walk[n].due : phase'[t] = phase[t]
    BY <1>2, <1>3, <1>4
  <2> QED BY <1>3, <1>5, <2>1 DEF WalkKept
<1>9. ~Removed' => (walk[n].array = set'.array => walk[n].len <= set'.len)
  <2>1. Removed => Removed'
    BY <1>1, <1>2 DEF Removed
  <2>2. InPlace(m) => set'.array = set.array /\ set'.len = set.len + 1
    BY DEF InPlace
  <2>3. InCopy(m) => walk[n].array # set'.array
    BY <1>3, SetFacts DEF InCopy
  <2> QED BY <1>1, <1>3, <2>1, <2>2, <2>3, SetFacts DEF WalkKept
<1>10. walk[n].array \in DOMAIN set'.mem /\ (walk[n].moved = 0 => Lost(n)' = {})
  BY <1>3, <1>5, <1>6 DEF WalkKept
<1> QED BY <1>1, <1>3, <1>7, <1>8, <1>9, <1>10 DEF WalkKept

LEMMA StoreWalk ==
  ASSUME TypeOK, RoutesKept, NEW m \in Modules, StoreSlice(m), NEW n \in Modules, WalkKept(n)
  PROVE  WalkKept(n)'
<1> SUFFICES ASSUME walk'[n].pc = "visit" PROVE WalkKept(n)'
  BY DEF WalkKept
<1>1. /\ walk' = walk /\ moving # 0 /\ moving' = 0 /\ Live' = Live /\ set'.mem = set.mem
      /\ set'.array = set.array /\ phase[m] = "leaving" /\ phase' = [phase EXCEPT ![m] = "gone"]
  BY StoreRoutes DEF StoreSlice
<1>2. phase'[m] = "gone" /\ \A l \in Modules : l # m => phase'[l] = phase[l]
  BY <1>1 DEF TypeOK
<1>3. /\ Copied(n)' = Copied(n) /\ WalkLive(n)' = WalkLive(n) /\ Allowed(n)' = Allowed(n)
  BY <1>1 DEF Copied, WalkLive, Allowed
<1>4. walk[n].pc = "visit" /\ walk[n].due \subseteq Modules
  BY <1>1, WalkFacts
<1>5. Lost(n)' = Lost(n)
  BY <1>1, <1>2, <1>3, <1>4 DEF Lost
<1>6. Cardinality(Lost(n)) <= Allowed(n)
  BY <1>4, BudgetBound DEF WalkKept
<1>7. Budget(n)'
  BY <1>1, <1>3, <1>5, <1>6 DEF Budget
<1>8. \A t \in walk[n].due : /\ phase[t] # "off" => phase'[t] # "off"
                             /\ phase'[t] = "on" => phase[t] = "on"
  BY <1>1, <1>2, <1>4
<1>9. Removed'
  BY <1>2 DEF Removed
<1> QED BY <1>1, <1>3, <1>4, <1>5, <1>7, <1>8, <1>9 DEF WalkKept

-----------------------------------------------------------------------------
(* What a subscriber has received and is about to receive.                   *)

LEMMA TrailType ==
  ASSUME TypeOK, NEW t \in Modules
  PROVE  /\ Trail(t) \in Seq(Messages) /\ Elems(Trail(t)) \subseteq Messages
         /\ Len(Trail(t)) \in Nat /\ DOMAIN Trail(t) = 1 .. Len(Trail(t))
<1>1. Trail(t) \in Seq(Messages)
  BY QueueTypes DEF Trail
<1> QED BY <1>1 DEF Elems

\* The routes are not written behind the back of a walk before the first removal.
RoutesStay(m) ==
  ~Removed' /\ walk'[m].pc = "visit" =>
    /\ walk[m].pc = "visit" /\ walk'[m].next = walk[m].next /\ walk'[m].len = walk[m].len
    /\ \A k \in walk[m].next .. walk[m].len : Copied(m)'[k] = Copied(m)[k]

LEMMA Longer ==
  ASSUME NEW s \in Seq(Messages), NEW x \in Messages
  PROVE  /\ DOMAIN Append(s, x) = 1 .. Len(s) + 1 /\ Append(s, x)[Len(s) + 1] = x
         /\ DOMAIN s = 1 .. Len(s) /\ Len(s) \in Nat
         /\ \A k \in DOMAIN s : Append(s, x)[k] = s[k] /\ s[k] \in Elems(s)
BY DEF Elems

\* A newer message comes to the end of a trail.
LEMMA AppendNewer ==
  ASSUME NEW s \in Seq(Messages), NEW x \in Messages,
         \A y \in Elems(s) : y.from = x.from => y.version < x.version
  PROVE  /\ Ordered(s) => Ordered(Append(s, x))
         /\ NewInOrder(s) => NewInOrder(Append(s, x))
<1> DEFINE u == Append(s, x)
           n == Len(s) + 1
<1>1. /\ DOMAIN u = 1 .. n /\ u[n] = x /\ DOMAIN s = 1 .. n - 1 /\ n \in Nat
      /\ \A k \in DOMAIN s : u[k] = s[k] /\ s[k] \in Elems(s)
  BY Longer
<1> HIDE DEF u, n
<1>2. ASSUME NEW j \in 1 .. n, NEW k \in 1 .. n, j < k, u[j].from = u[k].from
      PROVE  /\ j \in DOMAIN s
             /\ \/ k = n /\ u[j].version < u[k].version
                \/ /\ k \in DOMAIN s /\ u[j] = s[j] /\ u[k] = s[k]
                   /\ \A i \in 1 .. j : u[i] = s[i]
  <2>1. j \in DOMAIN s
    BY <1>1, <1>2
  <2>2. CASE k = n
    BY <1>1, <1>2, <2>1, <2>2
  <2>3. CASE k # n
    <3>1. k \in DOMAIN s /\ 1 .. j \subseteq DOMAIN s
      BY <1>1, <1>2, <2>1, <2>3
    <3> QED BY <1>1, <2>1, <3>1
  <2> QED BY <2>1, <2>2, <2>3
<1>3. Ordered(s) => Ordered(u)
  BY <1>1, <1>2 DEF Ordered
<1>4. ASSUME NewInOrder(s) PROVE NewInOrder(u)
  <2> SUFFICES ASSUME NEW j \in 1 .. n, NEW k \in 1 .. n, j < k, u[j].from = u[k].from
               PROVE  u[j].version < u[k].version \/ \E i \in 1 .. j : u[i] = u[k]
    BY <1>1 DEF NewInOrder
  <2>1. CASE k = n
    BY <1>1, <1>2, <2>1
  <2>2. CASE k # n
    <3>1. /\ j \in DOMAIN s /\ k \in DOMAIN s /\ u[j] = s[j] /\ u[k] = s[k]
          /\ \A i \in 1 .. j : u[i] = s[i]
      BY <1>2, <2>2
    <3>2. s[j].version < s[k].version \/ \E i \in 1 .. j : s[i] = s[k]
      BY <1>4, <3>1 DEF NewInOrder
    <3> QED BY <3>1, <3>2
  <2> QED BY <2>1, <2>2
<1> QED BY <1>3, <1>4 DEF u

\* A message that is in a trail comes to its end once more.
LEMMA AppendAgain ==
  ASSUME NEW s \in Seq(Messages), NEW x \in Elems(s), NewInOrder(s)
  PROVE  NewInOrder(Append(s, x))
<1> DEFINE u == Append(s, x)
           n == Len(s) + 1
<1>0. x \in Messages
  BY DEF Elems
<1>1. /\ DOMAIN u = 1 .. n /\ u[n] = x /\ DOMAIN s = 1 .. n - 1 /\ n \in Nat
      /\ \A k \in DOMAIN s : u[k] = s[k]
  BY <1>0, Longer
<1>2. PICK e \in DOMAIN s : s[e] = x
  BY DEF Elems
<1> HIDE DEF u, n
<1> SUFFICES ASSUME NEW j \in 1 .. n, NEW k \in 1 .. n, j < k, u[j].from = u[k].from
             PROVE  u[j].version < u[k].version \/ \E i \in 1 .. j : u[i] = u[k]
  BY <1>1 DEF NewInOrder, u
<1>3. j \in DOMAIN s /\ 1 .. j \subseteq DOMAIN s
  BY <1>1
<1>4. CASE k # n
  <2>1. k \in DOMAIN s
    BY <1>1, <1>4
  <2>2. s[j].version < s[k].version \/ \E i \in 1 .. j : s[i] = s[k]
    BY <1>1, <1>3, <2>1 DEF NewInOrder
  <2> QED BY <1>1, <1>3, <2>1, <2>2
<1>5. CASE k = n /\ e <= j
  <2>1. e \in 1 .. j
    BY <1>1, <1>2, <1>5
  <2> QED BY <1>1, <1>2, <1>5, <2>1
<1>6. CASE k = n /\ e > j
  <2>1. s[j].version < s[e].version \/ \E i \in 1 .. j : s[i] = s[e]
    BY <1>1, <1>2, <1>3, <1>6 DEF NewInOrder
  <2> QED BY <1>1, <1>2, <1>3, <1>6, <2>1
<1>7. e <= j \/ e > j
  BY <1>1, <1>2, <1>3
<1> QED BY <1>4, <1>5, <1>6, <1>7

\* A trail stays as it is, or Done has queued a message of it again.
Repeats(t) ==
  \/ Trail(t)' = Trail(t)
  \/ Removed /\ \E x \in Elems(Trail(t)) : Trail(t)' = Append(Trail(t), x)

LEMMA KeptInOrder ==
  ASSUME TypeOK, NEW t \in Modules, InOrderSoFar(t), Repeats(t), Removed => Removed'
  PROVE  InOrderSoFar(t)' /\ Elems(Trail(t)') = Elems(Trail(t))
<1>1. CASE Trail(t)' = Trail(t)
  BY <1>1 DEF InOrderSoFar
<1>2. CASE Removed /\ \E x \in Elems(Trail(t)) : Trail(t)' = Append(Trail(t), x)
  <2>1. PICK x \in Elems(Trail(t)) : Trail(t)' = Append(Trail(t), x)
    BY <1>2
  <2>2. Trail(t) \in Seq(Messages) /\ x \in Messages
    BY <2>1, TrailType
  <2>3. NewInOrder(Trail(t)')
    BY <2>1, <2>2, AppendAgain DEF InOrderSoFar
  <2>4. Elems(Trail(t)') = Elems(Trail(t))
    <3> DEFINE s == Trail(t)
    <3>1. s \in Seq(Messages) /\ x \in Elems(s) /\ Trail(t)' = Append(s, x)
      BY <2>1, <2>2
    <3> HIDE DEF s
    <3>2. Elems(Append(s, x)) = Elems(s) \cup {x}
      BY <2>2, <3>1, ElemsAppend
    <3>2a. Elems(Append(s, x)) = Elems(s)
      BY <3>1, <3>2
    <3>3. Elems(Trail(t)') = Elems(s)
      BY <3>1, <3>2a
    <3> QED BY <3>3 DEF s
  <2> QED BY <1>2, <2>3, <2>4 DEF InOrderSoFar
<1> QED BY <1>1, <1>2 DEF Repeats

LEMMA KeptBehind ==
  ASSUME NEW x \in Messages, BehindSender(x), sent'[x.from] = sent[x.from],
         Elems(snd'[x.from].items) \subseteq Elems(snd[x.from].items),
         snd'[x.from].processing \subseteq snd[x.from].processing,
         walk'[x.from].pc = "got" => walk[x.from].pc = "got"
  PROVE  BehindSender(x)'
BY DEF BehindSender

\* Of the messages that the sender of m sends, nobody its walk has still to meet gets one.
LEMMA KeptNotOffered ==
  ASSUME TypeOK, RoutesKept, NEW m \in Modules, WalkKept(m), NotOffered(m), RoutesStay(m),
         Removed => Removed', snd'[m].processing \subseteq snd[m].processing,
         \A t \in Modules : \A x \in Elems(Trail(t)') : x.from = m => x \in Elems(Trail(t))
  PROVE  NotOffered(m)'
<1> SUFFICES ASSUME ~Removed', walk'[m].pc = "visit",
                    NEW k \in walk'[m].next .. walk'[m].len,
                    NEW t, t = Copied(m)'[k], NEW x \in Elems(Trail(t)'), x.from = m,
                    NEW y \in snd'[m].processing
             PROVE  x.version < y.version
  BY DEF NotOffered, Trail
<1>1. /\ ~Removed /\ walk[m].pc = "visit" /\ k \in walk[m].next .. walk[m].len
      /\ t = Copied(m)[k]
  BY DEF RoutesStay
<1>2. k \in 1 .. walk[m].len
  BY <1>1, WalkFacts DEF WalkKept
<1>3. t \in Modules
  BY <1>1, <1>2, WalkFacts
<1>4. x \in Elems(Trail(t)) /\ y \in snd[m].processing
  BY <1>3
<1> QED BY <1>1, <1>4 DEF NotOffered

\* A step that neither sends, nor takes, copies or forwards a message.
LEMMA QuietTrails ==
  ASSUME TypeOK, RoutesKept, WalksKept, TrailsKept, Removed => Removed', UNCHANGED sent,
         \A t \in Modules : Repeats(t),
         \A m \in Modules : /\ Elems(snd'[m].items) \subseteq Elems(snd[m].items)
                            /\ snd'[m].processing \subseteq snd[m].processing
                            /\ walk'[m].pc = "got" => walk[m].pc = "got"
                            /\ RoutesStay(m)
  PROVE  TrailsKept'
<1>1. \A t \in Modules : InOrderSoFar(t)' /\ Elems(Trail(t)') = Elems(Trail(t))
  BY KeptInOrder DEF TrailsKept
<1>2. \A t \in Modules : \A x \in Elems(Trail(t)') : BehindSender(x)'
  <2> SUFFICES ASSUME NEW t \in Modules, NEW x \in Elems(Trail(t)) PROVE BehindSender(x)'
    BY <1>1
  <2>1. x \in Messages /\ x.from \in Modules /\ BehindSender(x)
    BY TrailType, MessageFacts DEF TrailsKept
  <2> QED BY <2>1, KeptBehind
<1>3. \A m \in Modules : NotOffered(m)'
  BY <1>1, KeptNotOffered DEF TrailsKept, WalksKept
<1> QED BY <1>1, <1>2, <1>3 DEF TrailsKept

\* Modules that have begun to leave never come back.
LEMMA RemovedStays ==
  ASSUME TypeOK, Next
  PROVE  Removed => Removed'
<1>1. ASSUME NEW m \in Modules, NEW p \in Phases, phase[m] \notin {"leaving", "gone"},
             phase' = [phase EXCEPT ![m] = p]
      PROVE  Removed => Removed'
  <2>1. \A l \in Modules : phase[l] \in {"leaving", "gone"} => phase'[l] = phase[l]
    BY <1>1 DEF TypeOK
  <2> QED BY <2>1 DEF Removed
<1>2. ASSUME NEW m \in Modules, StoreSlice(m) PROVE Removed'
  BY <1>2 DEF StoreSlice, TypeOK, Removed
<1>3. UNCHANGED phase => (Removed => Removed')
  BY DEF Removed
<1>4. \A m \in Modules : Start(m) \/ Close(m) \/ Unsubscribe(m) => (Removed => Removed')
  BY <1>1 DEF Start, Close, Unsubscribe, Phases
<1>5. \/ UNCHANGED phase
      \/ \E m \in Modules : Start(m) \/ Close(m) \/ Unsubscribe(m) \/ StoreSlice(m)
  BY DEF Next, Send, Listen, ListenGet, ListenExit, ListenCopy, ListenVisit, ListenDone,
         Receive, Take, Finish, EndStart, MoveEntry
<1> QED BY <1>2, <1>3, <1>4, <1>5

LEMMA SubscriptionTrails ==
  ASSUME TypeOK, RoutesKept, WalksKept, TrailsKept, Next,
         \/ \E m \in Modules : Start(m) \/ Unsubscribe(m) \/ StoreSlice(m)
         \/ MoveEntry
  PROVE  TrailsKept'
<1>1. UNCHANGED <<sent, snd, rcv, log>>
  BY DEF Start, Unsubscribe, StoreSlice, MoveEntry
<1>2. \A n \in Modules : /\ walk'[n].pc = walk[n].pc /\ walk'[n].next = walk[n].next
                         /\ walk'[n].len = walk[n].len /\ walk'[n].array = walk[n].array
  <2>1. ASSUME NEW m \in Modules, Unsubscribe(m), NEW n \in Modules
        PROVE  /\ walk'[n].pc = walk[n].pc /\ walk'[n].next = walk[n].next
               /\ walk'[n].len = walk[n].len /\ walk'[n].array = walk[n].array
    <3>1. walk'[n] = IF walk[n].pc = "visit" THEN [walk[n] EXCEPT !.moved = @ + 1] ELSE walk[n]
      BY <2>1 DEF Unsubscribe
    <3> QED BY <3>1, QueueTypes DEF WalkType
  <2>2. (\E m \in Modules : Unsubscribe(m)) \/ walk' = walk
    BY DEF Start, StoreSlice, MoveEntry
  <2> QED BY <2>1, <2>2
<1>3. Removed => Removed'
  BY RemovedStays
<1>4. ASSUME NEW m \in Modules, Start(m), NEW n \in Modules PROVE RoutesStay(n)
  <2> SUFFICES ASSUME ~Removed', walk'[n].pc = "visit", NEW k \in walk[n].next .. walk[n].len
               PROVE  Copied(n)'[k] = Copied(n)[k]
    BY <1>2 DEF RoutesStay
  <2>1. walk[n].pc = "visit" /\ ~Removed
    BY <1>2, <1>3
  <2>2. /\ walk[n].array \in DOMAIN set.mem /\ k \in 1 .. walk[n].len /\ k \in DOMAIN Copied(n)
        /\ walk[n].len \in Nat
    BY <2>1, WalkFacts DEF WalksKept, WalkKept
  <2>3. walk[n].array = set.array => walk[n].len <= set.len
    BY <2>1 DEF WalksKept, WalkKept
  <2>4. walk[n].array = set.array => k # set.len + 1
    BY <2>2, <2>3, SetFacts
  <2>5. CASE InPlace(m)
    BY <1>2, <2>2, <2>4, <2>5 DEF InPlace, Copied
  <2>6. CASE InCopy(m)
    BY <1>2, <2>2, <2>6 DEF InCopy, Copied
  <2> QED BY <1>4, <2>5, <2>6, StartRoutes
<1>5. ASSUME ~(\E m \in Modules : Start(m)) PROVE Removed'
  <2>1. ASSUME NEW m \in Modules, Unsubscribe(m) \/ StoreSlice(m) PROVE Removed'
    BY <2>1 DEF Unsubscribe, StoreSlice, TypeOK, Removed
  <2>2. MoveEntry => Removed
    BY DEF MoveEntry, RoutesKept, Removed
  <2> QED BY <1>3, <1>5, <2>1, <2>2
<1>6. \A n \in Modules : RoutesStay(n)
  BY <1>4, <1>5 DEF RoutesStay
<1>7. \A t \in Modules : Repeats(t)
  BY <1>1 DEF Trail, Repeats
<1> QED BY <1>1, <1>2, <1>3, <1>6, <1>7, QuietTrails

\* With the slice and a walk as they are.
LEMMA SameRoutesStay ==
  ASSUME NEW n \in Modules, UNCHANGED set, walk'[n] = walk[n] \/ walk'[n].pc # "visit"
  PROVE  RoutesStay(n)
BY DEF RoutesStay, Copied

LEMMA ElemsLonger ==
  ASSUME NEW a \in Seq(Messages), NEW b \in Seq(Messages)
  PROVE  /\ Elems(a) \subseteq Elems(a \o b)
         /\ \A i \in DOMAIN a : i \in DOMAIN (a \o b) /\ (a \o b)[i] = a[i]
<1>1. /\ a \o b \in Seq(Messages) /\ Len(a \o b) = Len(a) + Len(b)
      /\ \A i \in 1 .. Len(a) + Len(b) :
           (a \o b)[i] = IF i <= Len(a) THEN a[i] ELSE b[i - Len(a)]
  BY ConcatProperties
<1>2. \A i \in DOMAIN a : i \in DOMAIN (a \o b) /\ (a \o b)[i] = a[i]
  BY <1>1
<1> QED BY <1>2 DEF Elems

\* Done queues again what its worker has received, and only after a removal.
LEMMA FinishTrail ==
  ASSUME TypeOK, ReceiversKept, NEW m \in Modules, Finish(m), NEW t \in Modules
  PROVE  Repeats(t)
<1>1. PICK x \in Elems(log[m]) :
        /\ x \in Messages /\ rcv[m].processing = {x} /\ log' = log
        /\ rcv'[m].items = IF x \in rcv[m].dirty THEN Append(rcv[m].items, x) ELSE rcv[m].items
        /\ \A n \in Modules : n # m => rcv'[n] = rcv[n]
  BY FinishReceiver DEF ReceiversKept
<1>2. CASE t # m \/ x \notin rcv[m].dirty
  BY <1>1, <1>2 DEF Trail, Repeats
<1>3. CASE t = m /\ x \in rcv[m].dirty
  <2>1. Removed
    BY <1>1, <1>3 DEF ReceiversKept, ReceiverKept
  <2> DEFINE a == log[m]
             b == rcv[m].items
  <2>2. a \in Seq(Messages) /\ b \in Seq(Messages)
    BY QueueTypes
  <2>3. Trail(m) = a \o b /\ Trail(m)' = a \o Append(b, x) /\ x \in Elems(a) /\ x \in Messages
    BY <1>1, <1>3 DEF Trail
  <2> HIDE DEF a, b
  <2>4. a \o Append(b, x) = Append(a \o b, x)
    BY <2>2, <2>3, AppendAtEnd
  <2>5. x \in Elems(a \o b)
    BY <2>2, <2>3, ElemsLonger
  <2> QED BY <1>3, <2>1, <2>3, <2>4, <2>5 DEF Repeats
<1> QED BY <1>2, <1>3

LEMMA QueueTrails ==
  ASSUME TypeOK, RoutesKept, QueuesKept, ReceiversKept, WalksKept, TrailsKept, Next,
         NEW m \in Modules,
         EndStart(m) \/ Close(m) \/ ListenExit(m) \/ ListenDone(m) \/ Take(m) \/ Finish(m)
  PROVE  TrailsKept'
<1>1. UNCHANGED <<sent, set>>
  BY DEF EndStart, Close, ListenExit, ListenDone, Take, Finish
<1>2. Removed => Removed'
  BY RemovedStays
<1>3. \A n \in Modules : walk'[n] = walk[n] \/ walk'[n].pc \in {"idle", "exited"}
  <2>1. ListenExit(m) => \A n \in Modules : walk'[n] = walk[n] \/ walk'[n].pc = "exited"
    <3>1. ListenExit(m) => \A n \in Modules :
            walk'[n] = walk[n] \/ walk'[n] = [walk[n] EXCEPT !.pc = "exited"]
      BY DEF ListenExit, TypeOK
    <3> QED BY <3>1, QueueTypes DEF WalkType
  <2>2. ListenDone(m) => \A n \in Modules : walk'[n] = walk[n] \/ walk'[n].pc = "idle"
    <3>1. NoWalk.pc = "idle"
      BY DEF NoWalk
    <3> QED BY <3>1 DEF ListenDone, TypeOK
  <2>3. EndStart(m) \/ Close(m) \/ Take(m) \/ Finish(m) => walk' = walk
    BY DEF EndStart, Close, Take, Finish
  <2> QED BY <2>1, <2>2, <2>3
<1>4. \A n \in Modules : RoutesStay(n)
  BY <1>1, <1>3, SameRoutesStay
<1>5. \A n \in Modules : snd'[n].items = snd[n].items /\ snd'[n].processing \subseteq snd[n].processing
  <2>1. ASSUME Close(m), NEW n \in Modules
        PROVE  snd'[n].items = snd[n].items /\ snd'[n].processing = snd[n].processing
    <3>1. snd'[n] = IF n = m THEN QShutDown(snd[n]) ELSE snd[n]
      BY <2>1 DEF Close, TypeOK
    <3> QED BY <3>1, QueueTypes DEF QShutDown, QueueType
  <2>2. ASSUME ListenDone(m), NEW n \in Modules
        PROVE  snd'[n].items = snd[n].items /\ snd'[n].processing \subseteq snd[n].processing
    <3>1. CASE n = m
      BY <2>2, <3>1, DoneQueues DEF QueuesKept
    <3>2. CASE n # m
      BY <2>2, <3>2 DEF ListenDone, TypeOK
    <3> QED BY <3>1, <3>2
  <2>3. EndStart(m) \/ ListenExit(m) \/ Take(m) \/ Finish(m) => snd' = snd
    BY DEF EndStart, ListenExit, Take, Finish
  <2> QED BY <2>1, <2>2, <2>3
<1>6. ASSUME NEW t \in Modules PROVE Repeats(t)
  <2>1. CASE Close(m)
    <3>1. log' = log /\ rcv'[t] = IF t = m THEN QShutDown(rcv[t]) ELSE rcv[t]
      BY <2>1 DEF Close, TypeOK
    <3>2. rcv'[t].items = rcv[t].items
      BY <3>1, QueueTypes DEF QShutDown, QueueType
    <3> QED BY <3>1, <3>2 DEF Trail, Repeats
  <2>2. CASE EndStart(m) \/ ListenExit(m) \/ ListenDone(m)
    BY <2>2 DEF EndStart, ListenExit, ListenDone, Trail, Repeats
  <2>3. CASE Take(m)
    <3>1. CASE t = m
      <4>1. /\ rcv'[t].items = Tail(rcv[t].items) /\ rcv[t].items # <<>>
            /\ log'[t] = Append(log[t], Head(rcv[t].items))
        BY <2>3, <3>1, TakeReceiver
      <4>2. log[t] \in Seq(Messages) /\ rcv[t].items \in Seq(Messages)
        BY QueueTypes
      <4>3. Append(log[t], Head(rcv[t].items)) \o Tail(rcv[t].items) = log[t] \o rcv[t].items
        BY <4>1, <4>2, HeadMoves
      <4> QED BY <4>1, <4>3 DEF Trail, Repeats
    <3>2. CASE t # m
      BY <2>3, <3>2, TakeReceiver DEF Trail, Repeats
    <3> QED BY <3>1, <3>2
  <2>4. CASE Finish(m)
    BY <2>4, FinishTrail
  <2> QED BY <2>1, <2>2, <2>3, <2>4
<1> QED BY <1>1, <1>2, <1>3, <1>4, <1>5, <1>6, QuietTrails

\* What is sent is newer than all that was.
LEMMA SendTrails ==
  ASSUME TypeOK, RoutesKept, QueuesKept, WalksKept, TrailsKept, Next, NEW m \in Modules, Send(m)
  PROVE  TrailsKept'
<1>1. /\ UNCHANGED <<phase, rcv, set, moving, walk, log>>
      /\ \A n \in Modules : n # m => snd'[n] = snd[n] /\ sent'[n] = sent[n]
  BY DEF Send, TypeOK
<1>2. /\ snd'[m].processing = snd[m].processing /\ sent'[m] = sent[m] + 1 /\ sent[m] \in Nat
      /\ \A y \in Elems(snd'[m].items) : y \in Elems(snd[m].items) \/ y.version = sent[m] + 1
  BY SendQueues, QueueTypes DEF QueuesKept
<1>3. Removed => Removed'
  BY RemovedStays
<1>4. \A t \in Modules : Trail(t)' = Trail(t)
  BY <1>1 DEF Trail
<1>5. \A t \in Modules : InOrderSoFar(t)'
  BY <1>3, <1>4, KeptInOrder DEF TrailsKept, Repeats
<1>6. \A t \in Modules : \A x \in Elems(Trail(t)') : BehindSender(x)'
  <2> SUFFICES ASSUME NEW t \in Modules, NEW x \in Elems(Trail(t)) PROVE BehindSender(x)'
    BY <1>4
  <2>1. x \in Messages /\ x.from \in Modules /\ x.version \in Nat /\ BehindSender(x)
    BY TrailType, MessageFacts DEF TrailsKept
  <2>2. CASE x.from = m
    <3>1. x.version <= sent[m] /\ \A y \in Elems(snd[m].items) : x.version < y.version
      BY <2>1, <2>2 DEF BehindSender
    <3>2. \A y \in Elems(snd'[m].items) : x.version < y.version
      BY <1>2, <2>1, <3>1
    <3>3. x.version <= sent'[m]
      BY <1>2, <2>1, <3>1
    <3> QED BY <1>1, <1>2, <2>1, <2>2, <3>2, <3>3 DEF BehindSender
  <2>3. CASE x.from # m
    BY <1>1, <2>1, <2>3 DEF BehindSender
  <2> QED BY <2>2, <2>3
<1>7. \A n \in Modules : NotOffered(n)'
  <2>1. \A n \in Modules : snd'[n].processing \subseteq snd[n].processing
    BY <1>1, <1>2
  <2>2. \A n \in Modules : RoutesStay(n)
    BY <1>1, SameRoutesStay
  <2> QED BY <1>3, <1>4, <2>1, <2>2, KeptNotOffered DEF TrailsKept, WalksKept
<1> QED BY <1>5, <1>6, <1>7 DEF TrailsKept

\* Nobody has met yet what the listener takes.
LEMMA GetTrails ==
  ASSUME TypeOK, RoutesKept, QueuesKept, WalksKept, TrailsKept, Next, NEW m \in Modules,
         ListenGet(m)
  PROVE  TrailsKept'
<1>1. /\ UNCHANGED <<phase, rcv, set, moving, sent, log>>
      /\ \A n \in Modules : n # m => snd'[n] = snd[n] /\ walk'[n] = walk[n]
      /\ walk'[m].pc = "got"
  BY DEF ListenGet, TypeOK, WalkType
<1>2. /\ Elems(snd'[m].items) \subseteq Elems(snd[m].items)
      /\ \A y \in snd'[m].processing : y \in Elems(snd[m].items)
  BY GetQueues DEF QueuesKept
<1>3. Removed => Removed'
  BY RemovedStays
<1>4. \A t \in Modules : Trail(t)' = Trail(t)
  BY <1>1 DEF Trail
<1>5. \A t \in Modules : InOrderSoFar(t)'
  BY <1>3, <1>4, KeptInOrder DEF TrailsKept, Repeats
<1>6. \A t \in Modules : \A x \in Elems(Trail(t)') : BehindSender(x)'
  <2> SUFFICES ASSUME NEW t \in Modules, NEW x \in Elems(Trail(t)) PROVE BehindSender(x)'
    BY <1>4
  <2>1. x \in Messages /\ x.from \in Modules /\ x.version \in Nat /\ BehindSender(x)
    BY TrailType, MessageFacts DEF TrailsKept
  <2>2. CASE x.from = m
    <3>1. x.version <= sent[m] /\ \A y \in Elems(snd[m].items) : x.version < y.version
      BY <2>1, <2>2 DEF BehindSender
    <3>2. Elems(snd[m].items) \subseteq Messages
      BY QueueTypes
    <3>3. \A y \in snd'[m].processing : x.version < y.version /\ x.version <= y.version
      BY <1>2, <2>1, <3>1, <3>2, MessageFacts
    <3> QED BY <1>1, <1>2, <2>2, <3>1, <3>3 DEF BehindSender
  <2>3. CASE x.from # m
    BY <1>1, <2>1, <2>3 DEF BehindSender
  <2> QED BY <2>2, <2>3
<1>7. \A n \in Modules : NotOffered(n)'
  <2>1. NotOffered(m)'
    BY <1>1 DEF NotOffered
  <2>2. \A n \in Modules : n # m => RoutesStay(n) /\ snd'[n].processing \subseteq snd[n].processing
    BY <1>1, SameRoutesStay
  <2>3. \A n \in Modules : n # m => NotOffered(n)'
    BY <1>3, <1>4, <2>2, KeptNotOffered DEF TrailsKept, WalksKept
  <2> QED BY <2>1, <2>3
<1> QED BY <1>5, <1>6, <1>7 DEF TrailsKept

LEMMA CopyTrails ==
  ASSUME TypeOK, RoutesKept, QueuesKept, WalksKept, TrailsKept, Next, NEW m \in Modules,
         ListenCopy(m), TypeOK'
  PROVE  TrailsKept'
<1>1. /\ UNCHANGED <<phase, rcv, set, moving, sent, log, snd>> /\ walk[m].pc = "got"
      /\ \A n \in Modules : n # m => walk'[n] = walk[n]
      /\ walk'[m].pc = "visit" /\ walk'[m].next = 1 /\ walk'[m].len = set.len
      /\ walk'[m].array = set.array
  BY DEF ListenCopy, TypeOK
<1>2. Removed => Removed'
  BY RemovedStays
<1>3. \A t \in Modules : Trail(t)' = Trail(t)
  BY <1>1 DEF Trail
<1>4. \A t \in Modules : InOrderSoFar(t)'
  BY <1>2, <1>3, KeptInOrder DEF TrailsKept, Repeats
<1>5. \A t \in Modules : \A x \in Elems(Trail(t)') : BehindSender(x)'
  <2> SUFFICES ASSUME NEW t \in Modules, NEW x \in Elems(Trail(t)) PROVE BehindSender(x)'
    BY <1>3
  <2>1. x \in Messages /\ x.from \in Modules /\ BehindSender(x)
    BY TrailType, MessageFacts DEF TrailsKept
  <2>2. walk'[x.from].pc = "got" => walk[x.from].pc = "got"
    BY <1>1, <2>1
  <2> QED BY <1>1, <2>1, <2>2, KeptBehind
<1>6. NotOffered(m)'
  <2> SUFFICES ASSUME NEW k \in 1 .. set.len, NEW t, t = Entries[k],
                      NEW x \in Elems(Trail(t)'), x.from = m, NEW y \in snd[m].processing
               PROVE  x.version < y.version
    BY <1>1 DEF NotOffered, Copied, Entries, Trail
  <2>1. t \in Modules
    BY SetFacts DEF Entries
  <2>2. x \in Elems(Trail(t)) /\ BehindSender(x)
    BY <1>3, <2>1 DEF TrailsKept
  <2> QED BY <1>1, <2>2 DEF BehindSender
<1>7. \A n \in Modules : n # m => NotOffered(n)'
  <2>1. \A n \in Modules : n # m => RoutesStay(n) /\ snd'[n].processing \subseteq snd[n].processing
    BY <1>1, SameRoutesStay
  <2> QED BY <1>2, <1>3, <2>1, KeptNotOffered DEF TrailsKept, WalksKept
<1> QED BY <1>4, <1>5, <1>6, <1>7 DEF TrailsKept

\* What a turn of the loop does to the trails: the message goes to the end of one.
LEMMA VisitEffect ==
  ASSUME TypeOK, RoutesKept, QueuesKept, WalksKept, NEW m \in Modules, ListenVisit(m),
         NEW T, T = Copied(m)[walk[m].next]
  PROVE  /\ T \in Modules /\ walk[m].next \in 1 .. walk[m].len
         /\ UNCHANGED <<phase, snd, set, moving, sent, log>>
         /\ \A n \in Modules : n # m => walk'[n] = walk[n]
         /\ walk[m].pc = "visit" /\ walk'[m].pc = "visit" /\ walk'[m].next = walk[m].next + 1
         /\ walk'[m].len = walk[m].len /\ walk'[m].array = walk[m].array
         /\ rcv' = IF T = m THEN rcv ELSE [rcv EXCEPT ![T] = QAdd(@, Current(m))]
         /\ Current(m) \in Messages /\ snd[m].processing = {Current(m)} /\ Current(m).from = m
         /\ \A t \in Modules : t # T => Trail(t)' = Trail(t)
         /\ Trail(T)' = Trail(T) \/ Trail(T)' = Append(Trail(T), Current(m))
<1> DEFINE w == walk[m]
           C == Current(m)
<1>1. /\ UNCHANGED <<phase, snd, set, moving, sent, log>> /\ w.pc = "visit" /\ w.next <= w.len
      /\ walk' = [walk EXCEPT ![m] = Turn(w, T)] /\ w \in WalkType
      /\ rcv' = IF T = m THEN rcv ELSE [rcv EXCEPT ![T] = QAdd(@, C)]
  BY QueueTypes DEF ListenVisit, Entry, Copied
<1>2. /\ walk'[m].pc = "visit" /\ walk'[m].array = w.array /\ walk'[m].len = w.len
      /\ walk'[m].next = w.next + 1
  BY <1>1 DEF Turn, TypeOK, WalkType
<1>3. \A n \in Modules : n # m => walk'[n] = walk[n]
  BY <1>1 DEF TypeOK
<1>4. w.next \in 1 .. w.len
  BY <1>1, WalkFacts DEF WalksKept, WalkKept
<1>5. T \in Modules
  BY <1>4, WalkFacts
<1>6. C \in Messages /\ snd[m].processing = {C} /\ C.from = m
  BY <1>1, CurrentMessage DEF QueuesKept
<1> HIDE DEF C
<1>7. \A t \in Modules : t # T => Trail(t)' = Trail(t)
  BY <1>1 DEF TypeOK, Trail
<1>8. Trail(T)' = Trail(T) \/ Trail(T)' = Append(Trail(T), C)
  <2>1. CASE T = m
    BY <1>1, <2>1 DEF Trail
  <2>2. CASE T # m
    <3>1. rcv'[T] = QAdd(rcv[T], C)
      BY <1>1, <1>5, <2>2 DEF TypeOK
    <3>1a. QueueKept(T) /\ C \in Messages
      BY <1>5, <1>6 DEF QueuesKept
    <3>2. rcv'[T].items = rcv[T].items \/ rcv'[T].items = Append(rcv[T].items, C)
      BY <1>5, <3>1, <3>1a, AddToReceiver
    <3>3. log[T] \in Seq(Messages) /\ rcv[T].items \in Seq(Messages)
      BY <1>5, QueueTypes
    <3>4. log[T] \o Append(rcv[T].items, C) = Append(log[T] \o rcv[T].items, C)
      <4> DEFINE a == log[T]
                 b == rcv[T].items
      <4>1. a \in Seq(Messages) /\ b \in Seq(Messages)
        BY <3>3
      <4> HIDE DEF a, b
      <4>2. a \o Append(b, C) = Append(a \o b, C)
        BY <1>6, <4>1, AppendAtEnd
      <4> QED BY <4>2 DEF a, b
    <3> QED BY <1>1, <3>2, <3>4 DEF Trail
  <2> QED BY <2>1, <2>2
<1> QED BY <1>1, <1>2, <1>3, <1>4, <1>5, <1>6, <1>7, <1>8 DEF C

\* Before the first removal a walk meets a module once.
LEMMA MeetsOnce ==
  ASSUME TypeOK, RoutesKept, NEW m \in Modules, WalkKept(m), walk[m].pc = "visit", ~Removed,
         NEW j \in 1 .. walk[m].len, NEW k \in 1 .. walk[m].len, Copied(m)[j] = Copied(m)[k]
  PROVE  j = k
<1>1. Distinct(Copied(m), WalkLive(m)) /\ 1 .. walk[m].len \subseteq DOMAIN Copied(m)
  BY WalkFacts
<1>2. moving = 0
  BY DEF RoutesKept, Removed
<1>3. 1 .. walk[m].len \subseteq WalkLive(m)
  <2>1. CASE walk[m].array = set.array
    <3>1. walk[m].len <= set.len /\ walk[m].len \in Nat /\ set.len \in Nat
      BY <2>1, WalkFacts, SetFacts DEF WalkKept
    <3>2. WalkLive(m) = 1 .. set.len
      BY <1>2, <2>1 DEF WalkLive, Live
    <3> QED BY <3>1, <3>2
  <2>2. CASE walk[m].array # set.array
    BY <1>1, <2>2 DEF WalkLive
  <2> QED BY <2>1, <2>2
<1> QED BY <1>1, <1>3 DEF Distinct

LEMMA VisitTrails ==
  ASSUME TypeOK, RoutesKept, QueuesKept, WalksKept, TrailsKept, Next, NEW m \in Modules,
         ListenVisit(m)
  PROVE  TrailsKept'
<1> SUFFICES ASSUME NEW X, X = Copied(m)[walk[m].next], NEW D, D = Current(m)
             PROVE  TrailsKept'
  OBVIOUS
<1>1. /\ X \in Modules /\ walk[m].next \in 1 .. walk[m].len
      /\ UNCHANGED <<phase, snd, set, moving, sent, log>>
      /\ \A n \in Modules : n # m => walk'[n] = walk[n]
      /\ walk[m].pc = "visit" /\ walk'[m].pc = "visit" /\ walk'[m].next = walk[m].next + 1
      /\ walk'[m].len = walk[m].len /\ walk'[m].array = walk[m].array
  BY VisitEffect
<1>2. Removed' <=> Removed
  BY <1>1 DEF Removed
<1>3. /\ X \in Modules /\ D \in Messages /\ snd[m].processing = {D} /\ D.from = m
      /\ \A t \in Modules : t # X => Trail(t)' = Trail(t)
      /\ Trail(X)' = Trail(X) \/ Trail(X)' = Append(Trail(X), D)
  BY VisitEffect
<1>4. ASSUME NEW t \in Modules, NEW x \in Elems(Trail(t)')
      PROVE  x \in Elems(Trail(t)) \/ (x = D /\ t = X)
  <2>1. Trail(X) \in Seq(Messages)
    BY <1>3, TrailType
  <2>2. Elems(Append(Trail(X), D)) = Elems(Trail(X)) \cup {D}
    BY <1>3, <2>1, ElemsAppend
  <2>3. CASE t # X
    <3>1. Trail(t)' = Trail(t)
      BY <1>3, <2>3
    <3> QED BY <1>4, <3>1
  <2>4. CASE t = X
    <3>1. CASE Trail(X)' = Trail(X)
      BY <1>4, <2>4, <3>1
    <3>2. CASE Trail(X)' = Append(Trail(X), D)
      <4>1. x \in Elems(Append(Trail(X), D))
        BY <1>4, <2>4, <3>2
      <4> QED BY <2>2, <2>4, <4>1
    <3> QED BY <1>3, <3>1, <3>2
  <2> QED BY <2>3, <2>4
<1>5. /\ D.version \in Nat /\ D.version <= sent[m]
      /\ \A y \in Elems(snd[m].items) : D.version < y.version
  BY <1>3, MessageFacts DEF QueuesKept, QueueKept
<1>6. \A t \in Modules : \A x \in Elems(Trail(t)') : BehindSender(x)'
  <2> SUFFICES ASSUME NEW t \in Modules, NEW x \in Elems(Trail(t)') PROVE BehindSender(x)'
    OBVIOUS
  <2>1. CASE x \in Elems(Trail(t))
    <3>1. x \in Messages /\ x.from \in Modules /\ BehindSender(x)
      BY <2>1, TrailType, MessageFacts DEF TrailsKept
    <3>2. walk'[x.from].pc = "got" => walk[x.from].pc = "got"
      BY <1>1, <3>1
    <3> QED BY <1>1, <3>1, <3>2, KeptBehind
  <2>2. CASE x = D
    BY <1>1, <1>3, <1>5, <2>2 DEF BehindSender
  <2> QED BY <1>4, <2>1, <2>2
<1>7. InOrderSoFar(X)'
  <2>1. CASE Trail(X)' = Trail(X)
    BY <1>2, <1>3, <2>1, KeptInOrder DEF TrailsKept, Repeats
  <2>2. CASE Trail(X)' = Append(Trail(X), D) /\ D \in Elems(Trail(X))
    <3>1. walk[m].next \in walk[m].next .. walk[m].len
      BY <1>1
    <3>2. Removed
      BY <1>1, <1>3, <1>5, <2>2, <3>1 DEF TrailsKept, NotOffered
    <3> QED BY <1>2, <1>3, <2>2, <3>2, KeptInOrder DEF TrailsKept, Repeats
  <2>3. CASE Trail(X)' = Append(Trail(X), D) /\ D \notin Elems(Trail(X))
    <3>1. Trail(X) \in Seq(Messages) /\ Elems(Trail(X)) \subseteq Messages
      BY <1>3, TrailType
    <3>2. \A y \in Elems(Trail(X)) : y.from = D.from => y.version < D.version
      <4> SUFFICES ASSUME NEW y \in Elems(Trail(X)), y.from = m PROVE y.version < D.version
        BY <1>3
      <4>1. y.version <= D.version
        BY <1>3 DEF TrailsKept, BehindSender
      <4>2. y \in Messages /\ y # D
        BY <2>3, <3>1
      <4>3. y = [from |-> m, version |-> y.version] /\ D = [from |-> m, version |-> D.version]
        BY <1>3, <4>2, MessageFacts
      <4>4. y.version \in Nat /\ y.version # D.version
        BY <4>2, <4>3, MessageFacts
      <4> QED BY <1>5, <4>1, <4>4
    <3>3. /\ NewInOrder(Trail(X)) => NewInOrder(Append(Trail(X), D))
          /\ Ordered(Trail(X)) => Ordered(Append(Trail(X), D))
      BY <1>3, <3>1, <3>2, AppendNewer
    <3> QED BY <1>2, <1>3, <2>3, <3>3 DEF TrailsKept, InOrderSoFar
  <2> QED BY <1>3, <2>1, <2>2, <2>3
<1>8. \A t \in Modules : InOrderSoFar(t)'
  <2>1. \A t \in Modules : t # X => InOrderSoFar(t)'
    BY <1>2, <1>3, KeptInOrder DEF TrailsKept, Repeats
  <2> QED BY <1>3, <1>7, <2>1
<1>9. \A n \in Modules : n # m => NotOffered(n)'
  <2> SUFFICES ASSUME NEW n \in Modules, n # m PROVE NotOffered(n)'
    OBVIOUS
  <2>1. RoutesStay(n) /\ snd'[n].processing \subseteq snd[n].processing
    BY <1>1, SameRoutesStay
  <2>2. \A t \in Modules : \A x \in Elems(Trail(t)') : x.from = n => x \in Elems(Trail(t))
    BY <1>3, <1>4
  <2> QED BY <1>2, <2>1, <2>2, KeptNotOffered DEF TrailsKept, WalksKept
<1>10. NotOffered(m)'
  <2> SUFFICES ASSUME ~Removed, NEW k \in walk[m].next + 1 .. walk[m].len, NEW t, t = Copied(m)[k],
                      NEW x \in Elems(Trail(t)'), x.from = m, NEW y \in snd[m].processing
               PROVE  x.version < y.version
    <3>1. Copied(m)' = Copied(m)
      BY <1>1 DEF Copied
    <3> QED BY <1>1, <1>2, <3>1 DEF NotOffered, Trail
  <2>1. /\ k \in 1 .. walk[m].len /\ k # walk[m].next /\ k \in walk[m].next .. walk[m].len
    BY <1>1
  <2>2. t \in Modules
    BY <2>1, WalkFacts
  <2>3. t # X
    BY <1>1, <1>3, <2>1, MeetsOnce DEF WalksKept
  <2>4. x \in Elems(Trail(t))
    BY <1>3, <2>2, <2>3
  <2> QED BY <1>1, <2>1, <2>4 DEF TrailsKept, NotOffered
<1> QED BY <1>6, <1>8, <1>9, <1>10 DEF TrailsKept

-----------------------------------------------------------------------------
(* Types.                                                                    *)

LEMMA WalksInBounds ==
  ASSUME TypeOK, set' \in SliceType(Modules), DOMAIN set.mem \subseteq DOMAIN set'.mem,
         \A a \in DOMAIN set.mem : Len(set'.mem[a]) = Len(set.mem[a]),
         \A n \in Modules :
           \/ walk'[n].array = walk[n].array /\ walk'[n].len = walk[n].len
           \/ /\ walk'[n].array \in DOMAIN set'.mem
              /\ walk'[n].len <= Len(set'.mem[walk'[n].array])
  PROVE  \A n \in Modules :
           SliceInBounds([set' EXCEPT !.array = walk'[n].array, !.len = walk'[n].len])
<1> SUFFICES ASSUME NEW n \in Modules
             PROVE  SliceInBounds([set' EXCEPT !.array = walk'[n].array, !.len = walk'[n].len])
  OBVIOUS
<1>1. walk[n].array \in DOMAIN set.mem /\ walk[n].len <= Len(set.mem[walk[n].array])
  <2> DEFINE s == [set EXCEPT !.array = walk[n].array, !.len = walk[n].len]
  <2>1. SliceInBounds(s)
    BY DEF TypeOK
  <2>2. s.mem = set.mem /\ s.array = walk[n].array /\ s.len = walk[n].len
    BY SetFacts DEF SliceType
  <2> HIDE DEF s
  <2> QED BY <2>1, <2>2 DEF SliceInBounds
<1>2. walk'[n].array \in DOMAIN set'.mem /\ walk'[n].len <= Len(set'.mem[walk'[n].array])
  BY <1>1
<1> DEFINE s == [set' EXCEPT !.array = walk'[n].array, !.len = walk'[n].len]
<1>3. s.mem = set'.mem /\ s.array = walk'[n].array /\ s.len = walk'[n].len
  BY DEF SliceType
<1> HIDE DEF s
<1>4. SliceInBounds(s)
  BY <1>2, <1>3 DEF SliceInBounds
<1> QED BY <1>4 DEF s

LEMMA SubscriptionType ==
  ASSUME TypeOK, RoutesKept,
         \/ \E m \in Modules : Start(m) \/ Unsubscribe(m) \/ StoreSlice(m)
         \/ MoveEntry
  PROVE  TypeOK'
<1>1. UNCHANGED <<sent, snd, rcv, log>>
  BY DEF Start, Unsubscribe, StoreSlice, MoveEntry
<1>2. \A n \in Modules : /\ walk'[n] \in WalkType /\ walk'[n].array = walk[n].array
                         /\ walk'[n].len = walk[n].len
  <2>1. ASSUME NEW m \in Modules, Unsubscribe(m), NEW n \in Modules
        PROVE  /\ walk'[n] \in WalkType /\ walk'[n].array = walk[n].array
               /\ walk'[n].len = walk[n].len
    <3>1. walk'[n] = IF walk[n].pc = "visit" THEN [walk[n] EXCEPT !.moved = @ + 1] ELSE walk[n]
      BY <2>1 DEF Unsubscribe
    <3>2. ASSUME NEW w \in WalkType
          PROVE  LET v == [w EXCEPT !.moved = @ + 1]
                 IN v \in WalkType /\ v.array = w.array /\ v.len = w.len
      BY DEF WalkType
    <3>3. walk[n] \in WalkType
      BY QueueTypes
    <3> QED BY <3>1, <3>2, <3>3
  <2>2. (\E m \in Modules : Unsubscribe(m)) \/ walk' = walk
    BY DEF Start, StoreSlice, MoveEntry
  <2> QED BY <2>1, <2>2, QueueTypes
<1>3. walk' \in [Modules -> WalkType]
  <2>1. walk' = [n \in Modules |-> walk'[n]]
    BY DEF Start, Unsubscribe, StoreSlice, MoveEntry, TypeOK
  <2> QED BY <1>2, <2>1
<1>4. phase' \in [Modules -> Phases] /\ worker' \in [Modules -> WorkerStates]
  BY DEF Start, Unsubscribe, StoreSlice, MoveEntry, TypeOK, Phases, WorkerStates
<1>5. /\ set' \in SliceType(Modules) /\ SliceInBounds(set') /\ moving' \in 0 .. set'.len
      /\ DOMAIN set.mem \subseteq DOMAIN set'.mem
      /\ \A a \in DOMAIN set.mem : Len(set'.mem[a]) = Len(set.mem[a])
  <2>1. ASSUME NEW m \in Modules, Start(m)
        PROVE  /\ set' \in SliceType(Modules) /\ SliceInBounds(set') /\ moving' \in 0 .. set'.len
               /\ DOMAIN set.mem \subseteq DOMAIN set'.mem
               /\ \A a \in DOMAIN set.mem : Len(set'.mem[a]) = Len(set.mem[a])
    <3>1. /\ set' \in SliceType(Modules) /\ SliceInBounds(set') /\ moving' = 0
          /\ InPlace(m) \/ InCopy(m)
      BY <2>1, StartRoutes
    <3>2. moving' \in 0 .. set'.len
      BY <3>1 DEF SliceType
    <3> QED BY SMTT(30), <3>1, <3>2, SetFacts DEF InPlace, InCopy
  <2>2. ASSUME NEW m \in Modules, Unsubscribe(m)
        PROVE  set' = set /\ moving' \in 0 .. set'.len
    <3>1. set' = set /\ moving' \in 1 .. set.len
      BY <2>2, UnsubscribeRoutes DEF Unsubscribe
    <3> QED BY <3>1, SetFacts
  <2>3. ASSUME NEW m \in Modules, StoreSlice(m)
        PROVE  /\ set' \in SliceType(Modules) /\ SliceInBounds(set') /\ moving' \in 0 .. set'.len
               /\ set'.mem = set.mem
    <3>1. /\ set' \in SliceType(Modules) /\ SliceInBounds(set') /\ moving' = 0 /\ set'.mem = set.mem
      BY <2>3, StoreRoutes
    <3>2. moving' \in 0 .. set'.len
      BY <3>1 DEF SliceType
    <3> QED BY <3>1, <3>2
  <2>4. ASSUME MoveEntry
        PROVE  /\ set' \in SliceType(Modules) /\ SliceInBounds(set') /\ moving' \in 0 .. set'.len
               /\ DOMAIN set.mem \subseteq DOMAIN set'.mem
               /\ \A a \in DOMAIN set.mem : Len(set'.mem[a]) = Len(set.mem[a])
    BY <2>4, Moved, SetFacts
  <2> QED BY <2>1, <2>2, <2>3, <2>4, SetFacts
<1>6. \A n \in Modules :
        SliceInBounds([set' EXCEPT !.array = walk'[n].array, !.len = walk'[n].len])
  BY <1>2, <1>5, WalksInBounds
<1> QED BY <1>1, <1>3, <1>4, <1>5, <1>6 DEF TypeOK

LEMMA MessageType ==
  ASSUME TypeOK, RoutesKept, QueuesKept, ReceiversKept, WalksKept, NEW m \in Modules,
         EndStart(m) \/ Close(m) \/ Send(m) \/ Listen(m) \/ Take(m) \/ Finish(m)
  PROVE  TypeOK'
<1>1. UNCHANGED <<set, moving>>
  BY DEF EndStart, Close, Send, Take, Finish, Listen, ListenGet, ListenExit, ListenCopy,
         ListenVisit, ListenDone
<1>2. phase' \in [Modules -> Phases]
  BY DEF EndStart, Close, Send, Take, Finish, Listen, ListenGet, ListenExit, ListenCopy,
         ListenVisit, ListenDone, TypeOK, Phases
<1>2a. worker' \in [Modules -> WorkerStates]
  <2>1. ASSUME EndStart(m) PROVE worker' \in [Modules -> WorkerStates]
    <3>1. PICK w : w \in {"refused", "running", "failed"} /\ worker' = [worker EXCEPT ![m] = w]
      BY <2>1 DEF EndStart
    <3> QED BY <3>1 DEF TypeOK, WorkerStates
  <2>2. EndStart(m) \/ worker' = worker
    BY DEF Close, Send, Take, Finish, Listen, ListenGet, ListenExit, ListenCopy, ListenVisit,
           ListenDone
  <2> QED BY <2>1, <2>2 DEF TypeOK
<1>3. snd' \in [Modules -> QueueType(Messages)]
  <2>1. snd'[m] \in QueueType(Messages)
    <3>1. CASE Close(m)
      BY <3>1, QueueTypes, QShutDownType DEF Close, TypeOK
    <3>2. CASE Send(m)
      BY <3>2, SendQueues DEF QueuesKept
    <3>3. CASE ListenGet(m)
      BY <3>3, GetQueues DEF QueuesKept
    <3>4. CASE ListenDone(m)
      BY <3>4, DoneQueues DEF QueuesKept
    <3>5. EndStart(m) \/ ListenExit(m) \/ ListenCopy(m) \/ ListenVisit(m) \/ Take(m) \/ Finish(m)
            => snd' = snd
      BY DEF EndStart, ListenExit, ListenCopy, ListenVisit, Take, Finish
    <3> QED BY <3>1, <3>2, <3>3, <3>4, <3>5, QueueTypes DEF Listen
  <2>2. snd' = [snd EXCEPT ![m] = snd'[m]]
    BY DEF EndStart, Close, Send, Take, Finish, Listen, ListenGet, ListenExit, ListenCopy,
           ListenVisit, ListenDone, TypeOK
  <2> QED BY <2>1, <2>2 DEF TypeOK
<1>4. rcv' \in [Modules -> QueueType(Messages)]
  <2>1. CASE Close(m)
    <3>1. rcv' = [rcv EXCEPT ![m] = QShutDown(rcv[m])] /\ QShutDown(rcv[m]) \in QueueType(Messages)
      BY <2>1, QueueTypes, QShutDownType DEF Close
    <3> QED BY <3>1 DEF TypeOK
  <2>2. CASE ListenVisit(m)
    <3> SUFFICES ASSUME NEW T, T = Copied(m)[walk[m].next]
                 PROVE  rcv' \in [Modules -> QueueType(Messages)]
      OBVIOUS
    <3>1. /\ rcv' = IF T = m THEN rcv ELSE [rcv EXCEPT ![T] = QAdd(@, Current(m))]
          /\ T \in Modules /\ Current(m) \in Messages
      BY <2>2, VisitEffect
    <3>2. QAdd(rcv[T], Current(m)) \in QueueType(Messages)
      BY <3>1, AddToReceiver DEF QueuesKept
    <3> QED BY <3>1, <3>2 DEF TypeOK
  <2>3. CASE Take(m)
    <3>1. rcv' = [rcv EXCEPT ![m] = rcv'[m]]
      BY <2>3 DEF Take, TypeOK
    <3>2. rcv'[m] \in QueueType(Messages)
      BY <2>3, TakeReceiver
    <3> QED BY <3>1, <3>2 DEF TypeOK
  <2>4. CASE Finish(m)
    <3>1. rcv' = [rcv EXCEPT ![m] = rcv'[m]]
      BY <2>4 DEF Finish, TypeOK
    <3>2. rcv'[m] \in QueueType(Messages)
      BY <2>4, FinishReceiver DEF ReceiversKept
    <3> QED BY <3>1, <3>2 DEF TypeOK
  <2>5. EndStart(m) \/ Send(m) \/ ListenGet(m) \/ ListenExit(m) \/ ListenCopy(m) \/ ListenDone(m)
          => rcv' = rcv
    BY DEF EndStart, Send, ListenGet, ListenExit, ListenCopy, ListenDone
  <2> QED BY <2>1, <2>2, <2>3, <2>4, <2>5 DEF Listen, TypeOK
<1>5. walk' \in [Modules -> WalkType] /\ \A n \in Modules :
        \/ walk'[n].array = walk[n].array /\ walk'[n].len = walk[n].len
        \/ /\ walk'[n].array \in DOMAIN set'.mem
           /\ walk'[n].len <= Len(set'.mem[walk'[n].array])
  <2> SUFFICES ASSUME NEW w, w = walk'[m], walk' = [walk EXCEPT ![m] = w]
               PROVE  /\ w \in WalkType
                      /\ \/ w.array = walk[m].array /\ w.len = walk[m].len
                         \/ w.array \in DOMAIN set.mem /\ w.len <= Len(set.mem[w.array])
    <3>1. walk' = [walk EXCEPT ![m] = walk'[m]]
      BY DEF EndStart, Close, Send, Take, Finish, Listen, ListenGet, ListenExit, ListenCopy,
             ListenVisit, ListenDone, TypeOK
    <3> QED BY <1>1, <3>1 DEF TypeOK
  <2>1. CASE ListenGet(m)
    <3>1. w = [walk[m] EXCEPT !.pc = "got"]
      BY <2>1 DEF ListenGet, TypeOK
    <3> QED BY <3>1, QueueTypes DEF WalkType
  <2>2. CASE ListenExit(m)
    <3>1. w = [walk[m] EXCEPT !.pc = "exited"]
      BY <2>2 DEF ListenExit, TypeOK
    <3> QED BY <3>1, QueueTypes DEF WalkType
  <2>3. CASE ListenCopy(m)
    <3>1. w = [pc |-> "visit", array |-> set.array, len |-> set.len, next |-> 1,
               due |-> Subscribers, visited |-> {},
               moved |-> IF moving = 0 THEN 0 ELSE 1, again |-> 0]
      BY <2>3 DEF ListenCopy, TypeOK
    <3>2. Subscribers \subseteq Modules
      BY SubscribersAre, SetFacts DEF Entries
    <3> QED BY <3>1, <3>2, SetFacts DEF WalkType, Entries
  <2>4. CASE ListenVisit(m)
    <3> SUFFICES ASSUME NEW T, T = Copied(m)[walk[m].next]
                 PROVE  w \in WalkType /\ w.array = walk[m].array /\ w.len = walk[m].len
      OBVIOUS
    <3>1. w = Turn(walk[m], T)
      BY <2>4 DEF ListenVisit, Entry, Copied, TypeOK
    <3>2. T \in Modules
      BY <2>4, VisitEffect
    <3>3. walk[m] \in WalkType
      BY QueueTypes
    <3> SUFFICES ASSUME NEW v \in WalkType, v = walk[m]
                 PROVE  Turn(v, T) \in WalkType /\ Turn(v, T).array = v.array /\ Turn(v, T).len = v.len
      BY <3>1, <3>3
    <3> DEFINE met == v.visited \cup {T}
               again == IF T \in v.visited THEN v.again + 1 ELSE v.again
    <3>4. Turn(v, T) = [v EXCEPT !.next = v.next + 1, !.visited = met, !.again = again]
      BY DEF Turn
    <3>5. met \in SUBSET Modules /\ again \in Nat /\ v.next + 1 \in Nat
      BY <3>2 DEF WalkType
    <3> HIDE DEF met, again
    <3> QED BY <3>4, <3>5 DEF WalkType
  <2>5. CASE ListenDone(m)
    <3>1. w = NoWalk
      BY <2>5 DEF ListenDone, TypeOK
    <3>2. 1 \in DOMAIN set.mem /\ 0 <= Len(set.mem[1])
      BY SetFacts
    <3> QED BY <3>1, <3>2 DEF NoWalk, WalkType
  <2>6. EndStart(m) \/ Close(m) \/ Send(m) \/ Take(m) \/ Finish(m) => w = walk[m]
    BY DEF EndStart, Close, Send, Take, Finish
  <2> QED BY <2>1, <2>2, <2>3, <2>4, <2>5, <2>6, QueueTypes DEF Listen
<1>6. \A n \in Modules :
        SliceInBounds([set' EXCEPT !.array = walk'[n].array, !.len = walk'[n].len])
  BY <1>1, <1>5, SetFacts, WalksInBounds
<1>7. sent' \in [Modules -> 0 .. MaxSends]
  <2>1. Send(m) => sent' = [sent EXCEPT ![m] = sent'[m]] /\ sent'[m] \in 0 .. MaxSends
    BY SendQueues DEF Send, QueuesKept, TypeOK
  <2>2. Send(m) \/ sent' = sent
    BY DEF EndStart, Close, Take, Finish, Listen, ListenGet, ListenExit, ListenCopy, ListenVisit,
           ListenDone
  <2> QED BY <2>1, <2>2 DEF TypeOK
<1>8. log' \in [Modules -> Seq(Messages)]
  <2>1. CASE Take(m)
    <3>1. log' = [log EXCEPT ![m] = log'[m]]
      BY <2>1 DEF Take, TypeOK
    <3>2. log'[m] = Append(log[m], Head(rcv[m].items)) /\ Head(rcv[m].items) \in Messages
      BY <2>1, TakeReceiver
    <3>3. log'[m] \in Seq(Messages)
      BY <3>2, QueueTypes
    <3> QED BY <3>1, <3>3 DEF TypeOK
  <2>2. Take(m) \/ log' = log
    BY DEF EndStart, Close, Send, Finish, Listen, ListenGet, ListenExit, ListenCopy, ListenVisit,
           ListenDone
  <2> QED BY <2>1, <2>2 DEF TypeOK
<1> QED BY <1>1, <1>2, <1>2a, <1>3, <1>4, <1>5, <1>6, <1>7, <1>8 DEF TypeOK

LEMMA QueuesStep ==
  ASSUME TypeOK, RoutesKept, QueuesKept, ReceiversKept, WalksKept, Next
  PROVE  QueuesKept'
<1> SUFFICES ASSUME NEW n \in Modules PROVE QueueKept(n)'
  BY DEF QueuesKept
<1>0. QueueKept(n)
  BY DEF QueuesKept
<1>1. ASSUME NEW m \in Modules, Start(m) PROVE QueueKept(n)'
  <2>1. /\ UNCHANGED <<snd, rcv, walk, sent>> /\ phase[m] = "off"
        /\ phase'[n] = IF n = m THEN "on" ELSE phase[n]
    BY <1>1 DEF Start, TypeOK
  <2> QED BY <1>0, <2>1, SameQueues
<1>2. ASSUME NEW m \in Modules, Close(m) PROVE QueueKept(n)'
  <2>1. CASE n = m
    BY <1>0, <1>2, <2>1, CloseQueues
  <2>2. CASE n # m
    <3>1. /\ UNCHANGED <<walk, sent>> /\ snd'[n] = snd[n] /\ rcv'[n] = rcv[n] /\ phase'[n] = phase[n]
      BY <1>2, <2>2 DEF Close, TypeOK
    <3> QED BY <1>0, <3>1, SameQueues
  <2> QED BY <2>1, <2>2
<1>3. ASSUME NEW m \in Modules, Unsubscribe(m) PROVE QueueKept(n)'
  <2>1. /\ UNCHANGED <<snd, rcv, sent>> /\ phase[m] = "closed"
        /\ phase'[n] = IF n = m THEN "leaving" ELSE phase[n]
        /\ walk'[n] = IF walk[n].pc = "visit" THEN [walk[n] EXCEPT !.moved = @ + 1] ELSE walk[n]
    BY <1>3 DEF Unsubscribe, TypeOK
  <2>2. walk'[n].pc = walk[n].pc
    BY <2>1, QueueTypes DEF WalkType
  <2> QED BY <1>0, <2>1, <2>2, SameQueues
<1>4. ASSUME MoveEntry PROVE QueueKept(n)'
  <2>1. UNCHANGED <<phase, snd, rcv, walk, sent>>
    BY <1>4 DEF MoveEntry
  <2> QED BY <1>0, <2>1, SameQueues
<1>5. ASSUME NEW m \in Modules, StoreSlice(m) PROVE QueueKept(n)'
  <2>1. /\ UNCHANGED <<snd, rcv, walk, sent>> /\ phase[m] = "leaving"
        /\ phase'[n] = IF n = m THEN "gone" ELSE phase[n]
    BY <1>5 DEF StoreSlice, TypeOK
  <2> QED BY <1>0, <2>1, SameQueues
<1>6. ASSUME NEW m \in Modules, Send(m) PROVE QueueKept(n)'
  <2>1. CASE n = m
    BY <1>0, <1>6, <2>1, SendQueues
  <2>2. CASE n # m
    <3>1. UNCHANGED <<phase, rcv, walk>> /\ snd'[n] = snd[n] /\ sent'[n] = sent[n]
      BY <1>6, <2>2 DEF Send, TypeOK
    <3> QED BY <1>0, <3>1, SameQueues
  <2> QED BY <2>1, <2>2
<1>7. ASSUME NEW m \in Modules, ListenGet(m) PROVE QueueKept(n)'
  <2>1. CASE n = m
    BY <1>0, <1>7, <2>1, GetQueues
  <2>2. CASE n # m
    <3>1. UNCHANGED <<phase, rcv, sent>> /\ snd'[n] = snd[n] /\ walk'[n] = walk[n]
      BY <1>7, <2>2 DEF ListenGet, TypeOK
    <3> QED BY <1>0, <3>1, SameQueues
  <2> QED BY <2>1, <2>2
<1>8. ASSUME NEW m \in Modules, ListenExit(m) PROVE QueueKept(n)'
  <2>1. UNCHANGED <<phase, snd, rcv, sent>>
    BY <1>8 DEF ListenExit
  <2>2. CASE n = m
    <3>1. /\ walk[m].pc = "idle" /\ snd[m].items = <<>> /\ snd[m].closed
          /\ walk'[m].pc = "exited"
      BY <1>8 DEF ListenExit, TypeOK, WalkType
    <3> QED BY <1>0, <2>1, <2>2, <3>1 DEF QueueKept
  <2>3. CASE n # m
    <3>1. walk'[n] = walk[n]
      BY <1>8, <2>3 DEF ListenExit, TypeOK
    <3> QED BY <1>0, <2>1, <3>1, SameQueues
  <2> QED BY <2>2, <2>3
<1>9. ASSUME NEW m \in Modules, ListenCopy(m) PROVE QueueKept(n)'
  <2>1. UNCHANGED <<phase, snd, rcv, sent>>
    BY <1>9 DEF ListenCopy
  <2>2. CASE n = m
    <3>1. walk[m].pc = "got" /\ walk'[m].pc = "visit"
      BY <1>9 DEF ListenCopy, TypeOK
    <3> QED BY <1>0, <2>1, <2>2, <3>1 DEF QueueKept
  <2>3. CASE n # m
    <3>1. walk'[n] = walk[n]
      BY <1>9, <2>3 DEF ListenCopy, TypeOK
    <3> QED BY <1>0, <2>1, <3>1, SameQueues
  <2> QED BY <2>2, <2>3
<1>10. ASSUME NEW m \in Modules, ListenVisit(m) PROVE QueueKept(n)'
  <2> SUFFICES ASSUME NEW T, T = Copied(m)[walk[m].next] PROVE QueueKept(n)'
    OBVIOUS
  <2>1. /\ UNCHANGED <<phase, snd, sent>> /\ T \in Modules /\ Current(m) \in Messages
        /\ rcv' = IF T = m THEN rcv ELSE [rcv EXCEPT ![T] = QAdd(@, Current(m))]
        /\ walk'[n].pc = walk[n].pc
    BY <1>10, VisitEffect
  <2>2. rcv'[n].closed = rcv[n].closed
    <3>1. rcv'[n] = rcv[n] \/ rcv'[n] = QAdd(rcv[n], Current(m))
      BY <2>1 DEF TypeOK
    <3> QED BY <1>0, <2>1, <3>1, AddToReceiver
  <2> QED BY <1>0, <2>1, <2>2, SameQueues
<1>11. ASSUME NEW m \in Modules, ListenDone(m) PROVE QueueKept(n)'
  <2>1. CASE n = m
    BY <1>0, <1>11, <2>1, DoneQueues
  <2>2. CASE n # m
    <3>1. UNCHANGED <<phase, rcv, sent>> /\ snd'[n] = snd[n] /\ walk'[n] = walk[n]
      BY <1>11, <2>2 DEF ListenDone, TypeOK
    <3> QED BY <1>0, <3>1, SameQueues
  <2> QED BY <2>1, <2>2
<1>12. ASSUME NEW m \in Modules, EndStart(m) \/ Take(m) \/ Finish(m) PROVE QueueKept(n)'
  <2>1. UNCHANGED <<phase, snd, walk, sent>>
    BY <1>12 DEF EndStart, Take, Finish
  <2>2. rcv'[n].closed = rcv[n].closed
    <3>1. Take(m) => rcv'[n].closed = rcv[n].closed
      BY TakeReceiver
    <3>2. Finish(m) => rcv'[n].closed = rcv[n].closed
      BY FinishReceiver DEF ReceiversKept
    <3>3. EndStart(m) => rcv' = rcv
      BY DEF EndStart
    <3> QED BY <1>12, <3>1, <3>2, <3>3
  <2> QED BY <1>0, <2>1, <2>2, SameQueues
<1> QED BY <1>1, <1>2, <1>3, <1>4, <1>5, <1>6, <1>7, <1>8, <1>9, <1>10, <1>11, <1>12
        DEF Next, Listen, Receive

\* Until the first removal a listener meets only those that have not had its message.
LEMMA ReceiversStep ==
  ASSUME TypeOK, RoutesKept, QueuesKept, ReceiversKept, WalksKept, TrailsKept, Next
  PROVE  ReceiversKept'
<1> SUFFICES ASSUME NEW n \in Modules PROVE ReceiverKept(n)'
  BY DEF ReceiversKept
<1>0. ReceiverKept(n) /\ (Removed => Removed')
  BY RemovedStays DEF ReceiversKept
<1>1. ASSUME rcv'[n].processing = rcv[n].processing, rcv'[n].dirty = rcv[n].dirty,
             log'[n] = log[n]
      PROVE  ReceiverKept(n)'
  BY <1>0, <1>1 DEF ReceiverKept
<1>2. ASSUME NEW m \in Modules, Close(m) PROVE ReceiverKept(n)'
  <2>1. log' = log /\ rcv'[n] = IF n = m THEN QShutDown(rcv[n]) ELSE rcv[n]
    BY <1>2 DEF Close, TypeOK
  <2>2. rcv'[n].processing = rcv[n].processing /\ rcv'[n].dirty = rcv[n].dirty
    BY <2>1, QueueTypes DEF QShutDown, QueueType
  <2> QED BY <1>1, <2>1, <2>2
<1>3. ASSUME NEW m \in Modules, Take(m) PROVE ReceiverKept(n)'
  <2>1. CASE n = m
    <3>1. /\ rcv'[n].processing = {Head(rcv[n].items)} /\ Head(rcv[n].items) \in Messages
          /\ rcv'[n].dirty = rcv[n].dirty \ {Head(rcv[n].items)}
          /\ log'[n] = Append(log[n], Head(rcv[n].items))
      BY <1>3, <2>1, TakeReceiver
    <3>2. Head(rcv[n].items) \in Elems(log'[n])
      BY <3>1, QueueTypes, ElemsAppend
    <3> QED BY <3>1, <3>2 DEF ReceiverKept
  <2>2. CASE n # m
    BY <1>1, <1>3, <2>2, TakeReceiver
  <2> QED BY <2>1, <2>2
<1>4. ASSUME NEW m \in Modules, Finish(m) PROVE ReceiverKept(n)'
  <2>1. /\ log' = log /\ rcv'[m].processing = {}
        /\ \A l \in Modules : l # m => rcv'[l] = rcv[l]
    BY <1>4, FinishReceiver DEF ReceiversKept
  <2>2. CASE n = m
    BY <2>1, <2>2 DEF ReceiverKept
  <2>3. CASE n # m
    BY <1>1, <2>1, <2>3
  <2> QED BY <2>2, <2>3
<1>5. ASSUME NEW m \in Modules, ListenVisit(m) PROVE ReceiverKept(n)'
  <2> SUFFICES ASSUME NEW T, T = Copied(m)[walk[m].next], NEW D, D = Current(m)
               PROVE  ReceiverKept(n)'
    OBVIOUS
  <2>1. /\ UNCHANGED <<phase, log>> /\ D \in Messages /\ D.from = m /\ T \in Modules
        /\ rcv' = IF T = m THEN rcv ELSE [rcv EXCEPT ![T] = QAdd(@, D)]
        /\ snd[m].processing = {D} /\ walk[m].next \in 1 .. walk[m].len
        /\ walk[m].pc = "visit"
    BY <1>5, VisitEffect
  <2>2. CASE n # T \/ T = m
    <3>1. rcv'[n] = rcv[n]
      BY <2>1, <2>2 DEF TypeOK
    <3> QED BY <1>1, <2>1, <3>1
  <2>3. CASE n = T /\ T # m
    <3>1. rcv'[n] = QAdd(rcv[n], D)
      BY <2>1, <2>3 DEF TypeOK
    <3>2. rcv'[n].processing = rcv[n].processing /\ rcv'[n].dirty \subseteq rcv[n].dirty \cup {D}
      BY <2>1, <3>1, AddToReceiver DEF QueuesKept
    <3>3. ~Removed => D \notin rcv[n].processing
      <4> SUFFICES ASSUME ~Removed, D \in rcv[n].processing PROVE FALSE
        OBVIOUS
      <4>1. D \in Elems(log[n])
        BY DEF ReceiversKept, ReceiverKept
      <4>2. D \in Elems(Trail(n))
        BY <4>1, QueueTypes, ElemsLonger DEF Trail
      <4>3. walk[m].next \in walk[m].next .. walk[m].len
        BY <2>1
      <4>4. D.version < D.version
        BY <2>1, <2>3, <4>2, <4>3 DEF TrailsKept, NotOffered
      <4> QED BY <2>1, <4>4, MessageFacts
    <3>4. Removed' <=> Removed
      BY <2>1 DEF Removed
    <3> QED BY <1>0, <2>1, <3>2, <3>3, <3>4 DEF ReceiverKept
  <2> QED BY <2>2, <2>3
<1>6. ASSUME UNCHANGED <<rcv, log>> PROVE ReceiverKept(n)'
  BY <1>1, <1>6
<1>7. \/ UNCHANGED <<rcv, log>>
      \/ \E m \in Modules : Close(m) \/ Take(m) \/ Finish(m) \/ ListenVisit(m)
  BY DEF Next, Start, EndStart, Unsubscribe, StoreSlice, MoveEntry, Send, Listen, ListenGet,
         ListenExit, ListenCopy, ListenDone, Receive
<1> QED BY <1>2, <1>3, <1>4, <1>5, <1>6, <1>7

LEMMA WalksStep ==
  ASSUME TypeOK, RoutesKept, QueuesKept, WalksKept, Next
  PROVE  WalksKept'
<1> SUFFICES ASSUME NEW n \in Modules PROVE WalkKept(n)'
  BY DEF WalksKept
<1>0. WalkKept(n)
  BY DEF WalksKept
<1>1. ASSUME NEW m \in Modules, Start(m) \/ Close(m) \/ Unsubscribe(m) \/ StoreSlice(m)
      PROVE  WalkKept(n)'
  BY <1>0, <1>1, StartWalk, CloseWalk, UnsubscribeWalk, StoreWalk
<1>2. MoveEntry => WalkKept(n)'
  BY <1>0, MoveWalk
<1>3. ASSUME NEW m \in Modules, EndStart(m) \/ Send(m) \/ Receive(m) PROVE WalkKept(n)'
  <2>1. UNCHANGED <<phase, set, moving, walk>>
    BY <1>3 DEF EndStart, Send, Receive, Take, Finish
  <2> QED BY <1>0, <2>1, SameWalk
<1>4. ASSUME NEW m \in Modules, Listen(m) PROVE WalkKept(n)'
  <2>1. UNCHANGED <<phase, set, moving>>
    BY <1>4 DEF Listen, ListenGet, ListenExit, ListenCopy, ListenVisit, ListenDone
  <2>2. CASE n # m
    <3>1. walk'[n] = walk[n]
      BY <1>4, <2>2 DEF Listen, ListenGet, ListenExit, ListenCopy, ListenVisit, ListenDone, TypeOK
    <3> QED BY <1>0, <2>1, <3>1, SameWalk
  <2>3. CASE n = m
    <3>1. CASE ListenCopy(n)
      BY <3>1, CopyWalk
    <3>2. CASE ListenVisit(n)
      BY <1>0, <3>2, VisitWalk
    <3>3. CASE ListenGet(n) \/ ListenExit(n) \/ ListenDone(n)
      <4>1. NoWalk.pc = "idle"
        BY DEF NoWalk
      <4>2. walk[n] \in WalkType /\ walk \in [Modules -> WalkType]
        BY DEF TypeOK
      <4>3. walk'[n].pc # "visit"
        <5>1. CASE ListenGet(n)
          BY <4>2, <5>1 DEF ListenGet, WalkType
        <5>2. CASE ListenExit(n)
          BY <4>2, <5>2 DEF ListenExit, WalkType
        <5>3. CASE ListenDone(n)
          BY <4>1, <4>2, <5>3 DEF ListenDone
        <5> QED BY <3>3, <5>1, <5>2, <5>3
      <4> QED BY <4>3 DEF WalkKept
    <3> QED BY <1>4, <2>3, <3>1, <3>2, <3>3 DEF Listen
  <2> QED BY <2>2, <2>3
<1> QED BY <1>1, <1>2, <1>3, <1>4 DEF Next

LEMMA RoutesStep ==
  ASSUME TypeOK, RoutesKept, Next
  PROVE  RoutesKept'
<1>1. ASSUME NEW m \in Modules, Start(m) \/ Unsubscribe(m) \/ StoreSlice(m) PROVE RoutesKept'
  BY <1>1, StartRoutes, UnsubscribeRoutes, StoreRoutes
<1>2. MoveEntry => RoutesKept'
  BY MoveRoutes
<1>3. ASSUME NEW m \in Modules, Close(m) PROVE RoutesKept'
  <2>1. /\ UNCHANGED <<set, moving>>
        /\ \A n \in Modules : phase'[n] = phase[n] \/ (phase[n] = "on" /\ phase'[n] = "closed")
    BY <1>3 DEF Close, TypeOK
  <2> QED BY <2>1, SameRoutes
<1>4. ASSUME NEW m \in Modules, EndStart(m) \/ Send(m) \/ Listen(m) \/ Receive(m)
      PROVE  RoutesKept'
  <2>1. UNCHANGED <<phase, set, moving>>
    BY <1>4 DEF EndStart, Send, Receive, Take, Finish, Listen, ListenGet, ListenExit, ListenCopy, ListenVisit, ListenDone
  <2> QED BY <2>1, SameRoutes
<1> QED BY <1>1, <1>2, <1>3, <1>4 DEF Next

LEMMA TrailsStep ==
  ASSUME TypeOK, RoutesKept, QueuesKept, ReceiversKept, WalksKept, TrailsKept, Next, TypeOK'
  PROVE  TrailsKept'
<1>1. ASSUME \/ \E m \in Modules : Start(m) \/ Unsubscribe(m) \/ StoreSlice(m)
             \/ MoveEntry
      PROVE  TrailsKept'
  BY <1>1, SubscriptionTrails
<1>2. ASSUME NEW m \in Modules,
             EndStart(m) \/ Close(m) \/ ListenExit(m) \/ ListenDone(m) \/ Take(m) \/ Finish(m)
      PROVE  TrailsKept'
  BY <1>2, QueueTrails
<1>3. ASSUME NEW m \in Modules, Send(m) \/ ListenGet(m) \/ ListenCopy(m) \/ ListenVisit(m)
      PROVE  TrailsKept'
  BY <1>3, SendTrails, GetTrails, CopyTrails, VisitTrails
<1> QED BY <1>1, <1>2, <1>3 DEF Next, Listen, Receive

-----------------------------------------------------------------------------
(* The theorems.                                                             *)

LEMMA InitialStates == Init => IInv
<1> SUFFICES ASSUME Init PROVE IInv
  OBVIOUS
<1>1. /\ phase = [m \in Modules |-> "off"] /\ snd = [m \in Modules |-> NewQueue]
      /\ rcv = [m \in Modules |-> NewQueue] /\ set = NilSlice /\ moving = 0
      /\ walk = [m \in Modules |-> NoWalk] /\ sent = [m \in Modules |-> 0]
      /\ log = [m \in Modules |-> <<>>] /\ worker = [m \in Modules |-> "none"]
  BY DEF Init
<1>2. /\ set.mem = <<<<>>>> /\ set.array = 1 /\ set.len = 0 /\ set.mem[1] = <<>>
      /\ DOMAIN set.mem = {1} /\ Len(set.mem) = 1
  BY <1>1 DEF NilSlice
<1>3. /\ NoWalk \in WalkType /\ NoWalk.pc = "idle" /\ NoWalk.array = 1 /\ NoWalk.len = 0
  BY DEF NoWalk, WalkType
<1>4. TypeOK
  <2>1. set \in SliceType(Modules) /\ SliceInBounds(set)
    BY <1>1, NilSliceType
  <2>2. ASSUME NEW m \in Modules
        PROVE  SliceInBounds([set EXCEPT !.array = walk[m].array, !.len = walk[m].len])
    <3>1. walk[m].array = 1 /\ walk[m].len = 0
      BY <1>1, <1>3
    <3>2. ASSUME NEW s \in SliceType(Modules), s.array = 1, s.len = 0
          PROVE  [s EXCEPT !.array = 1, !.len = 0] = s
      BY <3>2 DEF SliceType
    <3> QED BY <1>2, <2>1, <3>1, <3>2
  <2>3. NewQueue \in QueueType(Messages)
    BY NewQueueType
  <2>4. 0 \in 0 .. MaxSends
    BY MaxSendsAssumption
  <2>5. <<>> \in Seq(Messages) /\ "off" \in Phases /\ moving \in 0 .. set.len /\ "none" \in WorkerStates
    BY <1>1, <1>2 DEF Phases, WorkerStates
  <2> QED BY <1>1, <1>3, <2>1, <2>2, <2>3, <2>4, <2>5 DEF TypeOK
<1>5. RoutesKept
  <2>1. Live = {} /\ Entries = <<>> /\ DOMAIN Entries = {}
    BY <1>1, <1>2 DEF Live, Entries
  <2>2. \A m \in Modules : phase[m] = "off"
    BY <1>1
  <2>3. \A a \in DOMAIN set.mem : a = 1 /\ DOMAIN set.mem[a] = {}
    BY <1>2
  <2> QED BY <1>1, <1>2, <2>1, <2>2, <2>3 DEF RoutesKept, Distinct, Subscribed
<1>6. QueuesKept
  <2> SUFFICES ASSUME NEW m \in Modules PROVE QueueKept(m)
    BY DEF QueuesKept
  <2>1. snd[m] = NewQueue /\ rcv[m] = NewQueue /\ phase[m] = "off" /\ walk[m].pc = "idle"
    BY <1>1, <1>3
  <2>2. /\ NewQueue.items = <<>> /\ NewQueue.dirty = {} /\ NewQueue.processing = {}
        /\ NewQueue.closed = FALSE
    BY DEF NewQueue
  <2>3. Elems(<<>>) = {} /\ DOMAIN <<>> = {}
    BY DEF Elems
  <2> QED BY <2>1, <2>2, <2>3 DEF QueueKept
<1>6a. ReceiversKept
  BY <1>1 DEF ReceiversKept, ReceiverKept, NewQueue
<1>7. WalksKept
  BY <1>1, <1>3 DEF WalksKept, WalkKept
<1>8. TrailsKept
  <2>1. ASSUME NEW t \in Modules PROVE DOMAIN Trail(t) = {} /\ Elems(Trail(t)) = {}
    <3>1. Trail(t) = <<>> \o <<>>
      BY <1>1 DEF Trail, NewQueue
    <3>2. Trail(t) = <<>>
      BY <3>1
    <3> QED BY <3>2 DEF Elems
  <2>2. \A m \in Modules : walk[m].pc = "idle"
    BY <1>1, <1>3
  <2> QED BY <2>1, <2>2 DEF TrailsKept, InOrderSoFar, Ordered, NewInOrder, NotOffered
<1> QED BY <1>4, <1>5, <1>6, <1>6a, <1>7, <1>8 DEF IInv

\* The inductive invariant holds, with any number of modules, removals and messages.
THEOREM Inductive == Spec => []IInv
<1>1. IInv /\ [Next]_vars => IInv'
  <2> SUFFICES ASSUME IInv, [Next]_vars PROVE IInv'
    OBVIOUS
  <2>0. TypeOK /\ RoutesKept /\ QueuesKept /\ ReceiversKept /\ WalksKept /\ TrailsKept
    BY DEF IInv
  <2>1. CASE Next
    <3>1. TypeOK'
      <4>1. ASSUME \/ \E m \in Modules : Start(m) \/ Unsubscribe(m) \/ StoreSlice(m)
                   \/ MoveEntry
            PROVE  TypeOK'
        BY <2>0, <4>1, SubscriptionType
      <4>2. ASSUME NEW m \in Modules,
                   EndStart(m) \/ Close(m) \/ Send(m) \/ Listen(m) \/ Take(m) \/ Finish(m)
            PROVE  TypeOK'
        BY <2>0, <4>2, MessageType
      <4> QED BY <2>1, <4>1, <4>2 DEF Next, Receive
    <3>2. RoutesKept' /\ QueuesKept' /\ ReceiversKept' /\ WalksKept'
      BY <2>0, <2>1, RoutesStep, QueuesStep, ReceiversStep, WalksStep
    <3>3. TrailsKept'
      BY <2>0, <2>1, <3>1, TrailsStep
    <3> QED BY <3>1, <3>2, <3>3 DEF IInv
  <2>2. CASE UNCHANGED vars
    <3>1. UNCHANGED <<phase, worker, snd, rcv, set, moving, walk, sent, log>>
      BY <2>2 DEF vars
    <3>2. TypeOK'
      BY <2>0, <3>1 DEF TypeOK
    <3>3. RoutesKept'
      BY <2>0, <3>1, SameRoutes
    <3>4. QueuesKept' /\ WalksKept'
      BY <2>0, <3>1, SameQueues, SameWalk DEF QueuesKept, WalksKept
    <3>4a. ReceiversKept'
      BY <2>0, <3>1 DEF ReceiversKept, ReceiverKept, Removed
    <3>5. (Removed => Removed') /\ \A t \in Modules : Repeats(t)
      BY <3>1 DEF Removed, Trail, Repeats
    <3>6. \A m \in Modules : RoutesStay(m)
      BY <3>1, SameRoutesStay
    <3>7. TrailsKept'
      BY <2>0, <3>1, <3>5, <3>6, QuietTrails
    <3> QED BY <3>2, <3>3, <3>4, <3>4a, <3>7 DEF IInv
  <2> QED BY <2>1, <2>2
<1> QED BY <1>1, InitialStates, PTL DEF Spec

LEMMA RoutesAreExact ==
  ASSUME TypeOK, RoutesKept
  PROVE  RoutesExact
<1> SUFFICES ASSUME moving = 0
             PROVE  /\ Subscribers = {m \in Modules : phase[m] \in {"on", "closed"}}
                    /\ Cardinality(Subscribers) = set.len
  BY DEF RoutesExact
<1>1. Live = 1 .. set.len /\ set.len \in Nat
  BY SetFacts DEF Live
<1>2. /\ \A m : m \in Subscribers <=> \E k \in 1 .. set.len : Entries[k] = m
      /\ \A k \in 1 .. set.len : Entries[k] \in Modules
  BY <1>1, SubscribersAre, SetFacts DEF Entries
<1>3. Subscribers = {m \in Modules : phase[m] \in {"on", "closed"}}
  BY <1>1, <1>2 DEF RoutesKept, Subscribed
<1>4. Cardinality(Subscribers) = set.len
  <2> DEFINE f == [k \in 1 .. set.len |-> Entries[k]]
  <2>1. f \in [1 .. set.len -> Subscribers]
    BY <1>2
  <2>2. \A j, k \in 1 .. set.len : f[j] = f[k] => j = k
    BY <1>1 DEF RoutesKept, Distinct
  <2>3. \A m \in Subscribers : \E k \in 1 .. set.len : f[k] = m
    BY <1>2
  <2> HIDE DEF f
  <2>4. f \in Bijection(1 .. set.len, Subscribers)
    BY <2>1, <2>2, <2>3, Fun_IsBij
  <2>5. ExistsBijection(1 .. set.len, Subscribers)
    BY <2>4 DEF ExistsBijection
  <2> QED BY <1>1, <2>5, FS_CountingElements
<1> QED BY <1>3, <1>4

\* Between two subscription changes RouteMap lists who is subscribed, each once, with
\* any number of removals and whatever they and the appends have left in the arrays; and
\* a listener that has returned has nothing left in its queue (message.go:180-184,
\* 225-246).
THEOREM RoutesRight == Spec => []RouterInv
<1>1. IInv => RouterInv
  <2> SUFFICES ASSUME IInv PROVE RouterInv
    OBVIOUS
  <2>1. RoutesExact
    BY RoutesAreExact DEF IInv
  <2>2. DrainedBeforeExit
    BY DEF IInv, QueuesKept, QueueKept, DrainedBeforeExit
  <2> QED BY <2>1, <2>2 DEF IInv, RouterInv
<1> QED BY <1>1, Inductive, PTL

\* A forwarding loop that no removal overlaps reaches every subscriber; with k of them,
\* at most k subscribers miss the message, and one more for each turn in which the loop
\* met a module again (message.go:185-196 against 240-246).
THEOREM FewMisses == Spec => []MissesBounded
<1>1. IInv => MissesBounded
  <2> SUFFICES ASSUME IInv, NEW m \in Modules, Finished(m)
               PROVE  /\ Cardinality(Missed(m)) <= walk[m].moved + walk[m].again
                      /\ walk[m].moved = 0 => Missed(m) = {}
    BY DEF MissesBounded
  <2>1. TypeOK /\ RoutesKept /\ WalkKept(m) /\ walk[m].pc = "visit" /\ walk[m].next > walk[m].len
    BY DEF IInv, WalksKept, Finished
  <2>2. Missed(m) \subseteq Lost(m)
    <3> SUFFICES ASSUME NEW t \in Missed(m) PROVE t \in Lost(m)
      OBVIOUS
    <3>1. t \in walk[m].due /\ phase[t] = "on" /\ t # m /\ t \notin walk[m].visited
      BY DEF Missed
    <3>2. PICK k \in WalkLive(m) : k <= walk[m].len /\ Copied(m)[k] = t
      BY <2>1, <3>1 DEF WalkKept
    <3>3. k \in Nat /\ walk[m].len \in Nat /\ walk[m].next \in Nat
      BY <2>1, WalkFacts
    <3>4. k < walk[m].next
      BY <2>1, <3>2, <3>3
    <3> QED BY <3>1, <3>2, <3>4 DEF Lost
  <2>3. Cardinality(Lost(m)) <= Allowed(m)
    BY <2>1, BudgetBound DEF WalkKept
  <2>4. Lost(m) \in SUBSET Modules /\ Allowed(m) \in Nat
    BY <2>1, WalkFacts
  <2>5. /\ Cardinality(Missed(m)) <= Cardinality(Lost(m))
        /\ Cardinality(Missed(m)) \in Nat /\ Cardinality(Lost(m)) \in Nat
    <3> DEFINE M == Missed(m)
               L == Lost(m)
    <3>1. M \in SUBSET Modules /\ L \in SUBSET Modules /\ M \subseteq L
      BY <2>2, <2>4
    <3> HIDE DEF M, L
    <3>2. Cardinality(M) <= Cardinality(L) /\ Cardinality(M) \in Nat /\ Cardinality(L) \in Nat
      BY <3>1, Counts
    <3> QED BY <3>2 DEF M, L
  <2>6. Cardinality(Missed(m)) <= Allowed(m)
    BY <2>3, <2>4, <2>5
  <2>7. walk[m].moved = 0 => Lost(m) = {}
    BY <2>1 DEF WalkKept
  <2> QED BY <2>2, <2>6, <2>7 DEF Allowed
<1> QED BY <1>1, Inductive, PTL

\* A subscriber receives what one sender sends in order, each message once, until the
\* first removal; and after it whatever comes late is something that it had before, so
\* that the first copies stay in order (queue.go:93-94, message.go:180-196).
THEOREM OrderKept == Spec => []InOrder
<1>1. IInv => InOrder
  <2> SUFFICES ASSUME IInv, NEW t \in Modules, NEW j \in DOMAIN log[t], NEW k \in DOMAIN log[t],
                      j < k, log[t][j].from = log[t][k].from
               PROVE  \/ log[t][j].version < log[t][k].version
                      \/ Removed /\ \E i \in 1 .. j : log[t][i] = log[t][k]
    BY DEF InOrder
  <2>1. TypeOK /\ InOrderSoFar(t)
    BY DEF IInv, TrailsKept
  <2>2. log[t] \in Seq(Messages) /\ rcv[t].items \in Seq(Messages)
    BY <2>1, QueueTypes
  <2>3. \A i \in DOMAIN log[t] : i \in DOMAIN Trail(t) /\ Trail(t)[i] = log[t][i]
    BY <2>2, ElemsLonger DEF Trail
  <2>4. 1 .. j \subseteq DOMAIN log[t]
    BY <2>2
  <2>5. ~Removed => log[t][j].version < log[t][k].version
    BY <2>1, <2>3 DEF InOrderSoFar, Ordered
  <2>6. log[t][j].version < log[t][k].version \/ \E i \in 1 .. j : log[t][i] = log[t][k]
    <3>1. Trail(t)[j].version < Trail(t)[k].version \/ \E i \in 1 .. j : Trail(t)[i] = Trail(t)[k]
      BY <2>1, <2>3 DEF InOrderSoFar, NewInOrder
    <3> QED BY <2>3, <2>4, <3>1
  <2> QED BY <2>5, <2>6
<1> QED BY <1>1, Inductive, PTL

LEMMA AwaitedFacts ==
  ASSUME NEW q \in QueueType(Messages), NEW r \in QueueType(Messages)
  PROVE  /\ Awaited(q) \in Nat /\ Awaited(r) \in Nat
         /\ r.items = q.items /\ r.dirty = q.dirty /\ r.processing = q.processing
              => Awaited(r) = Awaited(q)
         /\ q.items # <<>> /\ r.items = Tail(q.items) /\ r.dirty \cap r.processing = {}
              => Awaited(r) <= Awaited(q)
         /\ \A x \in Messages :
              q.processing = {x} /\ r.processing = {}
              /\ r.items = (IF x \in q.dirty THEN Append(q.items, x) ELSE q.items)
                => Awaited(r) = Awaited(q)
<1>1. /\ q.items \in Seq(Messages) /\ r.items \in Seq(Messages)
      /\ Len(q.items) \in Nat /\ Len(r.items) \in Nat
  BY DEF QueueType
<1>2. q.items # <<>> => Len(Tail(q.items)) = Len(q.items) - 1
  BY <1>1
<1>3. ASSUME NEW p \in {q, r}
      PROVE  /\ p.dirty \cap p.processing = {} => Awaited(p) = Len(p.items)
             /\ p.dirty \cap p.processing # {} => Awaited(p) = Len(p.items) + 1
             /\ Len(p.items) \in Nat
  <2>1. Len(p.items) \in Nat
    BY <1>1
  <2>2. ASSUME p.dirty \cap p.processing = {} PROVE Awaited(p) = Len(p.items) + 0
    BY Zenon, <2>2 DEF Awaited
  <2>3. ASSUME p.dirty \cap p.processing # {} PROVE Awaited(p) = Len(p.items) + 1
    BY Zenon, <2>3 DEF Awaited
  <2> QED BY <2>1, <2>2, <2>3
<1>4. Awaited(q) \in Nat /\ Awaited(r) \in Nat /\ Awaited(q) >= Len(q.items)
  <2>1. ASSUME NEW p \in {q, r} PROVE Awaited(p) \in Nat /\ Awaited(p) >= Len(p.items)
    <3>1. Len(p.items) \in Nat /\ (Awaited(p) = Len(p.items) \/ Awaited(p) = Len(p.items) + 1)
      BY <1>3
    <3> QED BY <3>1
  <2> QED BY <2>1
<1>5. r.items = q.items /\ r.dirty = q.dirty /\ r.processing = q.processing
        => Awaited(r) = Awaited(q)
  BY DEF Awaited
<1>6. ASSUME q.items # <<>>, r.items = Tail(q.items), r.dirty \cap r.processing = {}
      PROVE  Awaited(r) <= Awaited(q)
  <2>1. Awaited(r) = Len(q.items) - 1
    BY <1>2, <1>3, <1>6
  <2> QED BY <1>1, <1>4, <2>1
<1>7. ASSUME NEW x \in Messages, q.processing = {x}, r.processing = {},
             r.items = IF x \in q.dirty THEN Append(q.items, x) ELSE q.items
      PROVE  Awaited(r) = Awaited(q)
  <2>1. Awaited(r) = Len(r.items)
    BY <1>3, <1>7
  <2>2. CASE x \in q.dirty
    <3>1. Len(r.items) = Len(q.items) + 1
      BY <1>1, <1>7, <2>2
    <3>2. q.dirty \cap q.processing # {}
      BY <1>7, <2>2
    <3> QED BY <1>3, <2>1, <3>1, <3>2
  <2>3. CASE x \notin q.dirty
    <3>1. q.dirty \cap q.processing = {} /\ r.items = q.items
      BY <1>7, <2>3
    <3> QED BY <1>3, <2>1, <3>1
  <2> QED BY <2>2, <2>3
<1> QED
  <2>1. \A x \in Messages :
          q.processing = {x} /\ r.processing = {}
          /\ r.items = (IF x \in q.dirty THEN Append(q.items, x) ELSE q.items)
            => Awaited(r) = Awaited(q)
    BY <1>7
  <2>2. q.items # <<>> /\ r.items = Tail(q.items) /\ r.dirty \cap r.processing = {}
          => Awaited(r) <= Awaited(q)
    BY <1>6
  <2> QED BY <1>4, <1>5, <2>1, <2>2

\* Whatever a walk reads from an array that a removal or an append has changed under
\* it, no message comes to those that a module which is not subscribed has still to
\* receive, in its queue or by a Done under way (message.go:194 against 225, 245;
\* queue.go:50, 93-94).
THEOREM NothingOutside == Spec => NothingOutsideSubscription
<1>1. IInv /\ [Next]_vars =>
        [\A m \in Modules : phase[m] # "on" => Awaited(rcv'[m]) <= Awaited(rcv[m])]_vars
  <2> SUFFICES ASSUME IInv, Next, NEW n \in Modules, phase[n] # "on"
               PROVE  Awaited(rcv'[n]) <= Awaited(rcv[n])
    BY DEF vars
  <2>0. TypeOK /\ RoutesKept /\ QueuesKept /\ ReceiversKept /\ WalksKept
    BY DEF IInv
  <2>1. rcv[n] \in QueueType(Messages) /\ Awaited(rcv[n]) \in Nat
    BY <2>0, QueueTypes, AwaitedFacts
  <2>2. ASSUME rcv'[n] = rcv[n] PROVE Awaited(rcv'[n]) <= Awaited(rcv[n])
    BY <2>1, <2>2
  <2>3. ASSUME NEW m \in Modules, Close(m) PROVE rcv'[n] = rcv[n]
    BY <2>0, <2>3 DEF Close, TypeOK
  <2>4. ASSUME NEW m \in Modules, Take(m) PROVE Awaited(rcv'[n]) <= Awaited(rcv[n])
    <3>1. CASE n = m
      <4>1. /\ rcv'[n] \in QueueType(Messages) /\ rcv'[n].items = Tail(rcv[n].items)
            /\ rcv[n].items # <<>> /\ rcv'[n].dirty \cap rcv'[n].processing = {}
        BY <2>0, <2>4, <3>1, TakeReceiver
      <4> QED BY <2>1, <4>1, AwaitedFacts
    <3>2. CASE n # m
      BY <2>0, <2>2, <2>4, <3>2, TakeReceiver
    <3> QED BY <3>1, <3>2
  <2>5. ASSUME NEW m \in Modules, Finish(m) PROVE Awaited(rcv'[n]) <= Awaited(rcv[n])
    <3>1. PICK x \in Elems(log[m]) :
            /\ x \in Messages /\ rcv[m].processing = {x} /\ rcv'[m] \in QueueType(Messages)
            /\ rcv'[m].processing = {}
            /\ rcv'[m].items = IF x \in rcv[m].dirty THEN Append(rcv[m].items, x) ELSE rcv[m].items
            /\ \A l \in Modules : l # m => rcv'[l] = rcv[l]
      BY <2>0, <2>5, FinishReceiver DEF ReceiversKept
    <3>2. CASE n = m
      <4>1. Awaited(rcv'[n]) = Awaited(rcv[n])
        BY <2>1, <3>1, <3>2, AwaitedFacts
      <4> QED BY <2>1, <4>1
    <3>3. CASE n # m
      BY <2>2, <3>1, <3>3
    <3> QED BY <3>2, <3>3
  <2>6. ASSUME NEW m \in Modules, ListenVisit(m) PROVE rcv'[n] = rcv[n]
    <3> SUFFICES ASSUME NEW T, T = Copied(m)[walk[m].next] PROVE rcv'[n] = rcv[n]
      OBVIOUS
    <3>1. /\ T \in Modules /\ Current(m) \in Messages /\ walk[m].next \in 1 .. walk[m].len
          /\ rcv' = IF T = m THEN rcv ELSE [rcv EXCEPT ![T] = QAdd(@, Current(m))]
      BY <2>0, <2>6, VisitEffect
    <3>2. CASE n # T \/ T = m
      BY <2>0, <3>1, <3>2 DEF TypeOK
    <3>3. CASE n = T /\ T # m
      <4>1. rcv'[n] = QAdd(rcv[n], Current(m))
        BY <2>0, <3>1, <3>3 DEF TypeOK
      <4>2. phase[n] # "off"
        BY <2>0, <3>1, <3>3, WalkFacts DEF RoutesKept, Copied
      <4>3. phase[n] \in {"closed", "leaving", "gone"}
        BY <2>0, <4>2 DEF TypeOK, Phases
      <4>4. rcv[n].closed
        BY <2>0, <4>3 DEF QueuesKept, QueueKept
      <4> QED BY <2>0, <3>1, <4>1, <4>4, AddToReceiver DEF QueuesKept
    <3> QED BY <3>2, <3>3
  <2>7. \/ rcv' = rcv
        \/ \E m \in Modules : Close(m) \/ Take(m) \/ Finish(m) \/ ListenVisit(m)
    BY DEF Next, Start, EndStart, Unsubscribe, StoreSlice, MoveEntry, Send, Listen, ListenGet,
           ListenExit, ListenCopy, ListenDone, Receive
  <2> QED BY <2>2, <2>3, <2>4, <2>5, <2>6, <2>7
<1> QED BY <1>1, Inductive, PTL DEF Spec, NothingOutsideSubscription

=============================================================================
