------------------------------ MODULE WorkPool ------------------------------
(***************************************************************************)
(* What message.Queue promises to the goroutines that share it, without    *)
(* saying how: a pool of requests, each identified by a message ID, that   *)
(* producers fill until it is closed and workers empty.                    *)
(*                                                                         *)
(* A request is served at least once.  Starting it may leave it in the     *)
(* pool (the implementation can hold two copies of one ID), a worker may   *)
(* leave only when every remaining request belongs to a worker that is     *)
(* still busy with an earlier copy of it.                                  *)
(***************************************************************************)
CONSTANTS Ids,       \* message IDs
          Workers,   \* consumer goroutines
          Idle       \* what an idle worker works on

VARIABLES pending,   \* the requests not started since they were made
          job,       \* what each worker is processing, or Idle
          open,      \* FALSE once the pool was shut down
          gone       \* the workers that saw the shutdown and returned

vars == <<pending, job, open, gone>>

Init == /\ pending = {}
        /\ job = [w \in Workers |-> Idle]
        /\ open = TRUE
        /\ gone = {}

Request(i) == /\ open
              /\ pending' = pending \cup {i}
              /\ UNCHANGED <<job, open, gone>>

Start(w, i) == /\ w \notin gone
               /\ job[w] = Idle
               /\ i \in pending
               /\ job' = [job EXCEPT ![w] = i]
               /\ pending' \in {pending, pending \ {i}}
               /\ UNCHANGED <<open, gone>>

Finish(w) == /\ job[w] # Idle
             /\ job' = [job EXCEPT ![w] = Idle]
             /\ UNCHANGED <<pending, open, gone>>

Close == /\ open' = FALSE
         /\ UNCHANGED <<pending, job, gone>>

Leave(w) == /\ ~open
            /\ w \notin gone
            /\ job[w] = Idle
            /\ \A i \in pending : \E v \in Workers : job[v] = i
            /\ gone' = gone \cup {w}
            /\ UNCHANGED <<pending, job, open>>

Next == \/ \E i \in Ids : Request(i)
        \/ \E w \in Workers, i \in Ids : Start(w, i)
        \/ \E w \in Workers : Finish(w)
        \/ Close
        \/ \E w \in Workers : Leave(w)

Safety == Init /\ [][Next]_vars

\* Busy workers finish, and once the pool is closed idle ones return.
Fairness == \A w \in Workers : WF_vars(Finish(w)) /\ WF_vars(Leave(w))

Spec == Safety /\ Fairness

=============================================================================
