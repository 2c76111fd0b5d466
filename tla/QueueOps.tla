------------------------------ MODULE QueueOps ------------------------------
(***************************************************************************)
(* message.Queue (common/message/queue.go) as a value: what each method    *)
(* does to the fields of the struct while it holds condition.L.  A message *)
(* is its ID, the only part of it the queue looks at; the payload travels  *)
(* with the ID.  The goroutines that block in Get are in MsgQueue; other   *)
(* modules use these operators for the queues they own.                    *)
(***************************************************************************)
EXTENDS Sequences

\* NewQueue: nothing queued, nothing dirty, nothing processed, open.
NewQueue == [items |-> <<>>, dirty |-> {}, processing |-> {}, closed |-> FALSE]

\* Every value a queue over the identifiers S can have.
QueueType(S) == [items : Seq(S), dirty : SUBSET S, processing : SUBSET S,
                 closed : BOOLEAN]

\* The identifiers that occur in a sequence.
Elems(s) == {s[k] : k \in DOMAIN s}

\* Mutant of Accepts: Add does not look at the shutdown.
AcceptsWhenClosed(q, m) == m \notin q.dirty

\* Add does something only on an open queue that has no request for m yet.
Accepts(q, m) == ~q.closed /\ m \notin q.dirty

\* The accepted message goes to the tail at once, unless it is being processed:
\* then Done queues it.
Appends(q, m) == Accepts(q, m) /\ m \notin q.processing

\* Mutant of QAdd: the message goes to the head of the queue.
QAddAtHead(q, m) ==
  IF Accepts(q, m)
  THEN [q EXCEPT !.dirty = @ \cup {m},
                 !.items = IF Appends(q, m) THEN <<m>> \o @ ELSE @]
  ELSE q

QAdd(q, m) ==
  IF Accepts(q, m)
  THEN [q EXCEPT !.dirty = @ \cup {m},
                 !.items = IF Appends(q, m) THEN Append(@, m) ELSE @]
  ELSE q

\* Mutant of QTake: the request is not taken off dirty.
QTakeKeepsDirty(q) ==
  [q EXCEPT !.items = Tail(@),
            !.processing = @ \cup {Head(q.items)}]

\* The part of Get after its wait: pop the head, which is now being processed
\* and no longer dirty.
QTake(q) ==
  [q EXCEPT !.items = Tail(@),
            !.processing = @ \cup {Head(q.items)},
            !.dirty = @ \ {Head(q.items)}]

\* Done queues m again when it was added while it was being processed.  The
\* queued copy is NOT dirty, and a closed queue takes it as well.
Requeues(q, m) == m \in q.dirty

\* Mutant of QDone: a request made during the processing is not looked at.
QDoneForgets(q, m) == [q EXCEPT !.processing = @ \ {m}]

QDone(q, m) ==
  [q EXCEPT !.processing = @ \ {m},
            !.dirty = @ \ {m},
            !.items = IF Requeues(q, m) THEN Append(@, m) ELSE @]

QShutDown(q) == [q EXCEPT !.closed = TRUE]

=============================================================================
