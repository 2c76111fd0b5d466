------------------------------ MODULE GoSlice -------------------------------
(***************************************************************************)
(* A Go slice variable that is copied while it is changed.  The variable   *)
(* holds a pointer to an array and a length; append and the removal idiom  *)
(*     s = append(s[:i], s[i+1:]...)                                       *)
(* write into that array when they can, so a copy of the variable, such as *)
(* the one a range loop makes, sees its entries change.                    *)
(*                                                                         *)
(* mem[a] is the a-th array the variable has pointed to, as long as its    *)
(* capacity; array and len are the variable itself.                        *)
(***************************************************************************)
EXTENDS Naturals, Sequences

\* A nil slice.
NilSlice == [mem |-> <<<<>>>>, array |-> 1, len |-> 0]

SliceType(S) ==
  [mem : Seq(Seq(S)), array : Nat, len : Nat]

\* The array is one of mem and holds len entries.
SliceInBounds(s) ==
  /\ s.array \in DOMAIN s.mem
  /\ s.len <= Len(s.mem[s.array])

\* What a copy of the variable keeps.
Header(s) == [array |-> s.array, len |-> s.len]

\* Entry k of the copy h, read from the array as it is now.
Entry(s, h, k) == s.mem[h.array][k]

\* The entries of the variable.
Listing(s) == SubSeq(s.mem[s.array], 1, s.len)

\* The capacity append allocates for a full slice of n pointers.
Grown(n) == IF n = 0 THEN 1 ELSE 2 * n

\* Mutant of SliceAppend: it never allocates.
SliceAppendInPlace(s, x) == [s EXCEPT !.len = @ + 1]

\* s = append(s, x): in place while the array has room, which overwrites what a
\* removal left behind the end, else in a larger copy.
SliceAppend(s, x) ==
  LET old == s.mem[s.array]
      n == s.len
  IN IF n < Len(old)
     THEN [s EXCEPT !.mem[s.array][n + 1] = x, !.len = n + 1]
     ELSE [mem |-> Append(s.mem, [k \in 1 .. Grown(n) |->
                                    IF k <= n THEN old[k] ELSE x]),
           array |-> Len(s.mem) + 1, len |-> n + 1]

\* One entry written by the copy inside a removal.
SliceMove(s, k) ==
  [s EXCEPT !.mem[s.array][k] = s.mem[s.array][k + 1]]

\* The variable after the removal; the entry behind its end stays in the array.
SliceShrink(s) == [s EXCEPT !.len = @ - 1]

\* Mutant of SliceRemove: the last entry goes, whichever was asked for.
SliceRemoveLast(s, i) == SliceShrink(s)

\* s = append(s[:i], s[i+1:]...) where nobody reads the array meanwhile.
SliceRemove(s, i) ==
  LET a == s.mem[s.array]
  IN [s EXCEPT !.mem[s.array] =
                 [k \in DOMAIN a |-> IF k \in i .. s.len - 1 THEN a[k + 1] ELSE a[k]],
               !.len = @ - 1]

\* The variable when no copy of it is left: nothing can read the arrays it has
\* moved away from or the entries behind its end.
SliceSettled(s, filler) ==
  [mem |-> <<[k \in DOMAIN s.mem[s.array] |->
                IF k <= s.len THEN s.mem[s.array][k] ELSE filler]>>,
   array |-> 1, len |-> s.len]

=============================================================================
