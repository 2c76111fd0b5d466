---------------------------- MODULE DataLemmas ------------------------------
(***************************************************************************)
(* What the operators of the values that several components own do to any  *)
(* such value: QueueOps (a queue's type, its elements, whether it is shut  *)
(* down) and GoSlice (what a slice lists after an append or a removal).    *)
(***************************************************************************)
EXTENDS QueueOps, GoSlice, SequenceTheorems, WellFoundedInduction, TLAPS

\* The least of some numbers: induction without a predicate for a parameter.
LEMMA LeastNatural ==
  ASSUME NEW T \in SUBSET Nat, T # {}
  PROVE  \E x \in T : \A y \in T : x <= y
<1> DEFINE R == OpToRel(<, Nat)
<1>1. IsWellFoundedOn(R, Nat)
  BY NatLessThanWellFounded
<1>2. \A x, y \in Nat : <<x, y>> \in R <=> x < y
  BY DEF OpToRel
<1> HIDE DEF R
<1>3. \E x \in T : \A y \in T : ~ (<<y, x>> \in R)
  BY <1>1, WFMin
<1>4. PICK x \in T : \A y \in T : ~ (<<y, x>> \in R)
  BY <1>3
<1>5. \A y \in T : ~ (y < x)
  BY <1>2, <1>4
<1>6. \A y \in T : x <= y
  BY <1>5
<1> QED BY <1>6

-----------------------------------------------------------------------------
(* Queues.                                                                   *)

\* Appending adds exactly the appended element, at the end.
LEMMA ElemsAppend ==
  ASSUME NEW S, NEW s \in Seq(S), NEW m \in S
  PROVE  Elems(Append(s, m)) = Elems(s) \cup {m}
<1>1. /\ Append(s, m) \in Seq(S)
      /\ DOMAIN Append(s, m) = 1 .. Len(s) + 1
      /\ \A k \in 1 .. Len(s) : Append(s, m)[k] = s[k]
      /\ Append(s, m)[Len(s) + 1] = m
      /\ DOMAIN s = 1 .. Len(s)
      /\ Len(s) \in Nat
  OBVIOUS
<1>2. Elems(Append(s, m)) \subseteq Elems(s) \cup {m}
  BY <1>1 DEF Elems
<1>3. Elems(s) \subseteq Elems(Append(s, m))
  BY <1>1 DEF Elems
<1>4. m \in Elems(Append(s, m))
  BY <1>1 DEF Elems
<1> QED BY <1>2, <1>3, <1>4

\* Popping loses at most the head.
LEMMA ElemsTail ==
  ASSUME NEW S, NEW s \in Seq(S), s # <<>>
  PROVE  /\ Head(s) \in Elems(s)
         /\ Elems(Tail(s)) \subseteq Elems(s)
         /\ Elems(s) \subseteq Elems(Tail(s)) \cup {Head(s)}
<1>1. /\ Len(s) \in Nat /\ Len(s) >= 1
      /\ DOMAIN s = 1 .. Len(s)
      /\ DOMAIN Tail(s) = 1 .. Len(s) - 1
      /\ \A k \in 1 .. Len(s) - 1 : Tail(s)[k] = s[k + 1]
      /\ Head(s) = s[1]
  OBVIOUS
<1>2. Head(s) \in Elems(s)
  BY <1>1 DEF Elems
<1>3. Elems(Tail(s)) \subseteq Elems(s)
  BY <1>1 DEF Elems
<1>4. ASSUME NEW k \in 1 .. Len(s)
      PROVE  s[k] \in Elems(Tail(s)) \cup {Head(s)}
  <2>1. CASE k = 1
    BY <2>1, <1>1
  <2>2. CASE k # 1
    <3>1. k - 1 \in 1 .. Len(s) - 1 /\ Tail(s)[k - 1] = s[k]
      BY <2>2, <1>1, <1>4
    <3> QED BY <3>1, <1>1 DEF Elems
  <2> QED BY <2>1, <2>2
<1> QED BY <1>1, <1>2, <1>3, <1>4 DEF Elems

\* Add and Done keep the struct well typed, and so does the pop of Get.  Done does
\* with any argument: it queues only what is dirty.
LEMMA QDoneType ==
  ASSUME NEW S, NEW r \in QueueType(S), NEW m
  PROVE  QDone(r, m) \in QueueType(S)
<1>1. ASSUME m \in S PROVE Append(r.items, m) \in Seq(S)
  BY <1>1 DEF QueueType
<1> QED BY <1>1 DEF QDone, Requeues, QueueType

LEMMA QueueOpsType ==
  ASSUME NEW S, NEW r \in QueueType(S), NEW m \in S
  PROVE  QAdd(r, m) \in QueueType(S) /\ QDone(r, m) \in QueueType(S)
<1>1. Append(r.items, m) \in Seq(S)
  BY DEF QueueType
<1>2. QAdd(r, m) \in QueueType(S)
  BY <1>1 DEF QAdd, Accepts, Appends, QueueType
<1> QED BY <1>2, QDoneType

LEMMA QTakeType ==
  ASSUME NEW S, NEW r \in QueueType(S), r.items # <<>>
  PROVE  QTake(r) \in QueueType(S) /\ Head(r.items) \in S
<1>1. Tail(r.items) \in Seq(S) /\ Head(r.items) \in S
  BY DEF QueueType
<1> QED BY <1>1 DEF QTake, QueueType

\* Get and Done with nothing in between: the head is gone and does not come back.
LEMMA TakeAndDone ==
  ASSUME NEW S, NEW q \in QueueType(S), q.items # <<>>
  PROVE  LET r == QDone(QTake(q), Head(q.items))
         IN /\ r \in QueueType(S) /\ r.items = Tail(q.items) /\ r.closed = q.closed
            /\ r.dirty = q.dirty \ {Head(q.items)}
            /\ r.processing = q.processing \ {Head(q.items)}
<1> DEFINE x == Head(q.items)
           t == QTake(q)
           r == QDone(t, x)
<1>1. t \in QueueType(S)
  BY QTakeType
<1>2. /\ t.items = Tail(q.items) /\ t.processing = q.processing \cup {x}
      /\ t.dirty = q.dirty \ {x} /\ t.closed = q.closed
  BY DEF QTake, QueueType
<1> HIDE DEF t, x
<1>3. x \notin t.dirty
  BY <1>2
<1>4. /\ r.items = t.items /\ r.processing = t.processing \ {x}
      /\ r.dirty = t.dirty \ {x} /\ r.closed = t.closed
  BY <1>1, <1>3 DEF QDone, Requeues, QueueType
<1>5. r \in QueueType(S)
  BY <1>1, QDoneType
<1> QED BY <1>2, <1>4, <1>5 DEF t, x

\* A message that is new to an open queue goes to its end; a shut queue stays as it is.
LEMMA AddEffect ==
  ASSUME NEW S, NEW r \in QueueType(S), NEW m \in S
  PROVE  /\ r.closed => QAdd(r, m) = r
         /\ ~r.closed /\ m \notin r.dirty /\ m \notin r.processing =>
              /\ QAdd(r, m).items = Append(r.items, m) /\ QAdd(r, m).processing = r.processing
              /\ QAdd(r, m).dirty = r.dirty \cup {m} /\ ~QAdd(r, m).closed
<1>1. r.closed => QAdd(r, m) = r
  BY DEF QAdd, Accepts
<1>2. ASSUME ~r.closed, m \notin r.dirty, m \notin r.processing
      PROVE  /\ QAdd(r, m).items = Append(r.items, m) /\ QAdd(r, m).processing = r.processing
             /\ QAdd(r, m).dirty = r.dirty \cup {m} /\ ~QAdd(r, m).closed
  <2> DEFINE d == r.dirty \cup {m}
             i == Append(r.items, m)
             a == [r EXCEPT !.dirty = d, !.items = i]
  <2>1. QAdd(r, m) = a
    BY <1>2 DEF QAdd, Accepts, Appends
  <2> HIDE DEF d, i
  <2>2. a.items = i /\ a.dirty = d /\ a.processing = r.processing /\ a.closed = r.closed
    BY DEF QueueType
  <2> QED BY <1>2, <2>1, <2>2 DEF d, i
<1> QED BY <1>1, <1>2

\* Whoever makes a queue makes it empty and open, and only ShutDown closes it.
LEMMA NewQueueType == ASSUME NEW S PROVE NewQueue \in QueueType(S) /\ ~NewQueue.closed
BY DEF NewQueue, QueueType

LEMMA QShutDownType ==
  ASSUME NEW S, NEW r \in QueueType(S)
  PROVE  QShutDown(r) \in QueueType(S) /\ QShutDown(r).closed
BY DEF QShutDown, QueueType

LEMMA OthersKeepClosed ==
  ASSUME NEW S, NEW r \in QueueType(S), NEW m
  PROVE  /\ QAdd(r, m).closed = r.closed /\ QDone(r, m).closed = r.closed
         /\ QTake(r).closed = r.closed
BY DEF QAdd, QDone, QTake, QueueType

-----------------------------------------------------------------------------
(* Slices.                                                                   *)

\* The entries of a slice that is in its array.
LEMMA ListingType ==
  ASSUME NEW S, NEW s \in SliceType(S), SliceInBounds(s)
  PROVE  /\ Listing(s) \in Seq(S) /\ Len(Listing(s)) = s.len
         /\ \A k \in 1 .. s.len : Listing(s)[k] = s.mem[s.array][k]
<1>1. /\ s.mem[s.array] \in Seq(S) /\ s.len \in Nat /\ s.len <= Len(s.mem[s.array])
  BY DEF SliceType, SliceInBounds
<1>2. \A k \in 1 .. s.len : s.mem[s.array][k] \in S
  BY <1>1
<1> QED BY <1>1, <1>2, SubSeqProperties DEF Listing

\* A slice is determined by what it lists, entry by entry.
LEMMA ListingIs ==
  ASSUME NEW S, NEW s \in SliceType(S), SliceInBounds(s),
         NEW t \in Seq(S), s.len = Len(t),
         \A k \in 1 .. s.len : s.mem[s.array][k] = t[k]
  PROVE  Listing(s) = t
BY ListingType, SeqEqual

\* A nil slice lists nothing.
LEMMA NilSliceType ==
  ASSUME NEW S
  PROVE  NilSlice \in SliceType(S) /\ SliceInBounds(NilSlice) /\ Listing(NilSlice) = <<>>
<1>1. NilSlice \in SliceType(S) /\ SliceInBounds(NilSlice)
  BY DEF NilSlice, SliceType, SliceInBounds
<1> QED BY <1>1, ListingType DEF NilSlice

\* A function on the first numbers is a sequence.
LEMMA FunctionIsSeq ==
  ASSUME NEW S, NEW n \in Nat, NEW f \in [1 .. n -> S]
  PROVE  f \in Seq(S) /\ Len(f) = n
OBVIOUS

\* append adds one entry at the end, whether it grows the array or not.
LEMMA SliceAppendEffect ==
  ASSUME NEW S, NEW s \in SliceType(S), SliceInBounds(s), NEW x \in S
  PROVE  /\ SliceAppend(s, x) \in SliceType(S) /\ SliceInBounds(SliceAppend(s, x))
         /\ Listing(SliceAppend(s, x)) = Append(Listing(s), x)
<1> DEFINE old == s.mem[s.array]
           n == s.len
<1>0. /\ s.mem \in Seq(Seq(S)) /\ s.array \in 1 .. Len(s.mem) /\ n \in Nat
      /\ old \in Seq(S) /\ n <= Len(old) /\ Len(old) \in Nat
  BY DEF SliceType, SliceInBounds
<1>1. /\ Listing(s) \in Seq(S) /\ Len(Listing(s)) = n
      /\ \A k \in 1 .. n : Listing(s)[k] = old[k]
  BY ListingType
<1>2. CASE n < Len(old)
  <2> DEFINE new == [old EXCEPT ![n + 1] = x]
  <2>1. /\ new \in Seq(S) /\ Len(new) = Len(old) /\ new[n + 1] = x
        /\ \A k \in 1 .. n : new[k] = old[k]
    BY SMTT(30), <1>0, <1>2, ExceptSeq
  <2>2. SliceAppend(s, x) = [mem |-> [s.mem EXCEPT ![s.array] = new],
                             array |-> s.array, len |-> n + 1]
    BY <1>2 DEF SliceAppend, SliceType
  <2> HIDE DEF new
  <2>3. /\ [s.mem EXCEPT ![s.array] = new] \in Seq(Seq(S))
        /\ Len([s.mem EXCEPT ![s.array] = new]) = Len(s.mem)
        /\ [s.mem EXCEPT ![s.array] = new][s.array] = new
    BY <1>0, <2>1, ExceptSeq
  <2>4. /\ SliceAppend(s, x).mem[s.array] = new /\ SliceAppend(s, x).array = s.array
        /\ SliceAppend(s, x).len = n + 1
        /\ SliceAppend(s, x) \in SliceType(S) /\ SliceInBounds(SliceAppend(s, x))
    BY <1>0, <1>2, <2>1, <2>2, <2>3 DEF SliceType, SliceInBounds
  <2>5. \A k \in 1 .. n + 1 : new[k] = Append(Listing(s), x)[k]
    BY <1>0, <1>1, <2>1, AppendProperties
  <2>6. Append(Listing(s), x) \in Seq(S) /\ Len(Append(Listing(s), x)) = n + 1
    BY <1>1, AppendProperties
  <2> QED BY <2>4, <2>5, <2>6, ListingIs
<1>3. CASE n = Len(old)
  <2> DEFINE new == [k \in 1 .. Grown(n) |-> IF k <= n THEN old[k] ELSE x]
  <2>1. Grown(n) \in Nat /\ n + 1 <= Grown(n)
    BY <1>0 DEF Grown
  <2>2. /\ new \in Seq(S) /\ Len(new) = Grown(n) /\ new[n + 1] = x
        /\ \A k \in 1 .. n : new[k] = old[k]
    <3>1. \A k \in 1 .. Grown(n) : (IF k <= n THEN old[k] ELSE x) \in S
      BY <1>0, <1>3, <2>1
    <3>2. new \in [1 .. Grown(n) -> S]
      BY <3>1
    <3>3. new \in Seq(S) /\ Len(new) = Grown(n)
      <4> HIDE DEF new
      <4> QED BY <2>1, <3>2, FunctionIsSeq
    <3> QED BY <1>0, <2>1, <3>3
  <2>3. SliceAppend(s, x) = [mem |-> Append(s.mem, new), array |-> Len(s.mem) + 1, len |-> n + 1]
    BY <1>0, <1>3 DEF SliceAppend
  <2> HIDE DEF new
  <2>4. /\ SliceAppend(s, x).mem[Len(s.mem) + 1] = new
        /\ SliceAppend(s, x).array = Len(s.mem) + 1 /\ SliceAppend(s, x).len = n + 1
        /\ SliceAppend(s, x) \in SliceType(S) /\ SliceInBounds(SliceAppend(s, x))
    BY <1>0, <2>1, <2>2, <2>3 DEF SliceType, SliceInBounds
  <2>5. \A k \in 1 .. n + 1 : new[k] = Append(Listing(s), x)[k]
    BY <1>0, <1>1, <2>2, AppendProperties
  <2>6. Append(Listing(s), x) \in Seq(S) /\ Len(Append(Listing(s), x)) = n + 1
    BY <1>1, AppendProperties
  <2> QED BY <2>4, <2>5, <2>6, ListingIs
<1> QED BY <1>0, <1>2, <1>3

\* A removal moves the later entries down by one.
LEMMA SliceRemoveEffect ==
  ASSUME NEW S, NEW s \in SliceType(S), SliceInBounds(s), NEW i \in 1 .. s.len
  PROVE  LET r == SliceRemove(s, i)
             a == s.mem[s.array]
             b == r.mem[r.array]
         IN /\ r \in SliceType(S) /\ SliceInBounds(r) /\ r.len = s.len - 1
            /\ \A k \in 1 .. r.len : Listing(r)[k] = Listing(s)[IF k < i THEN k ELSE k + 1]
            /\ r.array = s.array /\ Len(b) = Len(a)
            /\ \A k \in 1 .. Len(a) : b[k] = IF k \in i .. s.len - 1 THEN a[k + 1] ELSE a[k]
<1> DEFINE a == s.mem[s.array]
           new == [k \in DOMAIN a |-> IF k \in i .. s.len - 1 THEN a[k + 1] ELSE a[k]]
           r == SliceRemove(s, i)
<1>0. /\ s.mem \in Seq(Seq(S)) /\ s.array \in 1 .. Len(s.mem) /\ s.len \in Nat
      /\ a \in Seq(S) /\ s.len <= Len(a) /\ Len(a) \in Nat /\ DOMAIN a = 1 .. Len(a)
  BY DEF SliceType, SliceInBounds
<1>1. new \in Seq(S) /\ Len(new) = Len(a)
  BY SMTT(30), <1>0
<1>2. /\ \A k \in 1 .. s.len - 1 : new[k] = a[IF k < i THEN k ELSE k + 1]
      /\ \A k \in 1 .. Len(a) : new[k] = IF k \in i .. s.len - 1 THEN a[k + 1] ELSE a[k]
  BY <1>0
<1>3. r = [mem |-> [s.mem EXCEPT ![s.array] = new], array |-> s.array, len |-> s.len - 1]
  <2>1. r = [s EXCEPT !.mem[s.array] = new, !.len = s.len - 1]
    BY DEF SliceRemove
  <2> HIDE DEF new, r
  <2> QED BY <2>1 DEF SliceType
<1> HIDE DEF new, r
<1>4. /\ [s.mem EXCEPT ![s.array] = new] \in Seq(Seq(S))
      /\ Len([s.mem EXCEPT ![s.array] = new]) = Len(s.mem)
      /\ [s.mem EXCEPT ![s.array] = new][s.array] = new
  BY <1>0, <1>1, ExceptSeq
<1>5. /\ r.mem[r.array] = new /\ r.len = s.len - 1 /\ r.array = s.array
      /\ r \in SliceType(S) /\ SliceInBounds(r)
  BY <1>0, <1>1, <1>3, <1>4 DEF SliceType, SliceInBounds
<1>6. \A k \in 1 .. r.len : Listing(r)[k] = new[k]
  BY <1>5, ListingType
<1>7. \A k \in 1 .. s.len : Listing(s)[k] = a[k]
  BY ListingType
<1>8. ASSUME NEW k \in 1 .. r.len
      PROVE  Listing(r)[k] = Listing(s)[IF k < i THEN k ELSE k + 1]
  <2>1. (IF k < i THEN k ELSE k + 1) \in 1 .. s.len /\ k \in 1 .. s.len - 1
    BY <1>0, <1>5
  <2> QED BY <1>2, <1>6, <1>7, <2>1
<1> QED BY <1>1, <1>2, <1>5, <1>8 DEF r

\* What nobody reads any more can go.
LEMMA SliceSettledEffect ==
  ASSUME NEW S, NEW s \in SliceType(S), SliceInBounds(s), NEW filler \in S
  PROVE  /\ SliceSettled(s, filler) \in SliceType(S)
         /\ SliceInBounds(SliceSettled(s, filler))
         /\ Listing(SliceSettled(s, filler)) = Listing(s)
<1> DEFINE a == s.mem[s.array]
           new == [k \in DOMAIN a |-> IF k <= s.len THEN a[k] ELSE filler]
           t == SliceSettled(s, filler)
<1>1. /\ a \in Seq(S) /\ s.len \in Nat /\ s.len <= Len(a)
  BY DEF SliceType, SliceInBounds
<1>2. /\ new \in Seq(S) /\ Len(new) = Len(a) /\ \A k \in 1 .. s.len : new[k] = a[k]
  BY <1>1
<1>3. t = [mem |-> <<new>>, array |-> 1, len |-> s.len]
  BY DEF SliceSettled
<1> HIDE DEF new, t
<1>4. t \in SliceType(S) /\ SliceInBounds(t) /\ t.mem[t.array] = new /\ t.len = s.len
  BY <1>1, <1>2, <1>3 DEF SliceType, SliceInBounds
<1>5. Listing(s) \in Seq(S) /\ Len(Listing(s)) = s.len
      /\ \A k \in 1 .. s.len : Listing(s)[k] = a[k]
  BY ListingType
<1>6. Listing(t) = Listing(s)
  BY <1>2, <1>4, <1>5, ListingIs
<1> QED BY <1>4, <1>6 DEF t

-----------------------------------------------------------------------------
(* Sequences.                                                                *)

\* The head of one sequence goes to the end of the one before it.
LEMMA HeadMoves ==
  ASSUME NEW S, NEW a \in Seq(S), NEW b \in Seq(S), b # <<>>
  PROVE  Append(a, Head(b)) \o Tail(b) = a \o b
<1> DEFINE u == Append(a, Head(b)) \o Tail(b)
           v == a \o b
<1>1. /\ Head(b) \in S /\ Tail(b) \in Seq(S) /\ Len(b) \in Nat /\ Len(b) >= 1 /\ Len(a) \in Nat
      /\ Len(Tail(b)) = Len(b) - 1 /\ Head(b) = b[1]
      /\ \A k \in 1 .. Len(b) - 1 : Tail(b)[k] = b[k + 1]
  OBVIOUS
<1>2. /\ Append(a, Head(b)) \in Seq(S) /\ Len(Append(a, Head(b))) = Len(a) + 1
      /\ Append(a, Head(b))[Len(a) + 1] = Head(b)
      /\ \A k \in 1 .. Len(a) : Append(a, Head(b))[k] = a[k]
  BY <1>1, AppendProperties
<1>3. u \in Seq(S) /\ v \in Seq(S) /\ Len(u) = Len(a) + Len(b) /\ Len(v) = Len(a) + Len(b)
  BY <1>1, <1>2, ConcatProperties
<1>4. ASSUME NEW k \in 1 .. Len(a) + Len(b) PROVE u[k] = v[k]
  <2>1. v[k] = IF k <= Len(a) THEN a[k] ELSE b[k - Len(a)]
    BY <1>1, ConcatProperties
  <2>2. u[k] = IF k <= Len(a) + 1 THEN Append(a, Head(b))[k] ELSE Tail(b)[k - (Len(a) + 1)]
    <3> DEFINE c == Append(a, Head(b))
               d == Tail(b)
    <3>1. c \in Seq(S) /\ d \in Seq(S) /\ Len(c) = Len(a) + 1 /\ Len(d) = Len(b) - 1
      BY <1>1, <1>2
    <3> HIDE DEF c, d
    <3>2. k \in 1 .. Len(c) + Len(d)
      BY <1>1, <1>4, <3>1
    <3>3. (c \o d)[k] = IF k <= Len(c) THEN c[k] ELSE d[k - Len(c)]
      BY <3>1, <3>2, ConcatProperties
    <3> QED BY <3>1, <3>3 DEF c, d
  <2>3. CASE k <= Len(a)
    BY <1>1, <1>2, <1>4, <2>1, <2>2, <2>3
  <2>4. CASE k = Len(a) + 1
    BY <1>1, <1>2, <2>1, <2>2, <2>4
  <2>5. CASE k > Len(a) + 1
    <3>1. /\ k - (Len(a) + 1) \in 1 .. Len(b) - 1
          /\ (k - (Len(a) + 1)) + 1 = k - Len(a)
      BY <1>1, <1>4, <2>5
    <3> QED BY <1>1, <2>1, <2>2, <2>5, <3>1
  <2> QED BY <1>1, <1>4, <2>3, <2>4, <2>5
<1> HIDE DEF u, v
<1>5. u = v
  BY <1>3, <1>4, SeqEqual
<1> QED BY <1>5 DEF u, v

\* An element appended to the second of two sequences.
LEMMA AppendAtEnd ==
  ASSUME NEW S, NEW a \in Seq(S), NEW b \in Seq(S), NEW x \in S
  PROVE  /\ a \o b \in Seq(S) /\ a \o Append(b, x) = Append(a \o b, x)
         /\ Elems(a) \subseteq Elems(a \o b) /\ Elems(b) \subseteq Elems(a \o b)
<1> DEFINE u == a \o Append(b, x)
           v == Append(a \o b, x)
<1>1. /\ Append(b, x) \in Seq(S) /\ Len(Append(b, x)) = Len(b) + 1
      /\ Append(b, x)[Len(b) + 1] = x /\ \A k \in 1 .. Len(b) : Append(b, x)[k] = b[k]
      /\ Len(a) \in Nat /\ Len(b) \in Nat /\ DOMAIN a = 1 .. Len(a) /\ DOMAIN b = 1 .. Len(b)
  BY AppendProperties
<1>2. /\ a \o b \in Seq(S) /\ Len(a \o b) = Len(a) + Len(b) /\ DOMAIN (a \o b) = 1 .. Len(a) + Len(b)
      /\ \A k \in 1 .. Len(a) + Len(b) : (a \o b)[k] = IF k <= Len(a) THEN a[k] ELSE b[k - Len(a)]
  BY <1>1, ConcatProperties
<1>3. /\ v \in Seq(S) /\ Len(v) = Len(a) + Len(b) + 1 /\ v[Len(a) + Len(b) + 1] = x
      /\ \A k \in 1 .. Len(a) + Len(b) : v[k] = (a \o b)[k]
  <2> DEFINE c == a \o b
  <2>1. c \in Seq(S) /\ Len(c) = Len(a) + Len(b)
    BY <1>2
  <2> HIDE DEF c
  <2>2. /\ Append(c, x) \in Seq(S) /\ Len(Append(c, x)) = Len(c) + 1
        /\ Append(c, x)[Len(c) + 1] = x /\ \A k \in 1 .. Len(c) : Append(c, x)[k] = c[k]
    BY SMTT(30), <2>1, AppendProperties
  <2> QED BY <2>1, <2>2 DEF c
<1>4. /\ u \in Seq(S) /\ Len(u) = Len(a) + Len(b) + 1
      /\ \A k \in 1 .. Len(a) + Len(b) + 1 :
           u[k] = IF k <= Len(a) THEN a[k] ELSE Append(b, x)[k - Len(a)]
  <2> DEFINE d == Append(b, x)
  <2>1. d \in Seq(S) /\ Len(d) = Len(b) + 1
    BY <1>1
  <2> HIDE DEF d
  <2>2. /\ a \o d \in Seq(S) /\ Len(a \o d) = Len(a) + Len(d)
        /\ \A k \in 1 .. Len(a) + Len(d) : (a \o d)[k] = IF k <= Len(a) THEN a[k] ELSE d[k - Len(a)]
    BY <2>1, ConcatProperties
  <2> QED BY <1>1, <2>1, <2>2 DEF d
<1> HIDE DEF u, v
<1>5. ASSUME NEW k \in 1 .. Len(a) + Len(b) + 1 PROVE u[k] = v[k]
  <2>1. CASE k <= Len(a)
    <3>1. k \in 1 .. Len(a) + Len(b)
      BY <1>1, <1>5, <2>1
    <3>2. u[k] = a[k]
      BY <1>4, <2>1
    <3>3. v[k] = a[k]
      BY <1>2, <1>3, <2>1, <3>1
    <3> QED BY <3>2, <3>3
  <2>2. CASE k > Len(a) /\ k <= Len(a) + Len(b)
    <3>1. k - Len(a) \in 1 .. Len(b) /\ k \in 1 .. Len(a) + Len(b) /\ ~(k <= Len(a))
      BY <1>1, <1>5, <2>2
    <3> QED BY <1>1, <1>2, <1>3, <1>4, <3>1
  <2>3. CASE k = Len(a) + Len(b) + 1
    <3>1. k - Len(a) = Len(b) + 1 /\ ~(k <= Len(a))
      BY <1>1, <2>3
    <3> QED BY <1>1, <1>3, <1>4, <2>3, <3>1
  <2> QED BY <1>1, <1>5, <2>1, <2>2, <2>3
<1>6. u = v
  BY <1>3, <1>4, <1>5, SeqEqual
<1>7. Elems(a) \subseteq Elems(a \o b)
  <2>1. \A k \in DOMAIN a : k \in DOMAIN (a \o b) /\ (a \o b)[k] = a[k]
    BY <1>1, <1>2
  <2> QED BY <2>1 DEF Elems
<1>8. Elems(b) \subseteq Elems(a \o b)
  <2>1. \A k \in DOMAIN b : Len(a) + k \in DOMAIN (a \o b) /\ (a \o b)[Len(a) + k] = b[k]
    BY <1>1, <1>2
  <2> QED BY <2>1 DEF Elems
<1> QED BY <1>2, <1>6, <1>7, <1>8 DEF u, v

=============================================================================
