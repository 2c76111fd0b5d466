---------------------------- MODULE CentralRouter ---------------------------
(***************************************************************************)
(* messagerouter.CentralizedMessageRouter as a value: its nodes and its    *)
(* routes, and what each method does to them while it holds mu.  A node    *)
(* stands for its pair of queues, by number; 0 is no node.                 *)
(***************************************************************************)
CONSTANTS Nodes,   \* identifiers of nodes
          Types    \* message types

NewRouter == [nodes  |-> [n \in Nodes |-> 0],
              routes |-> [t \in Types |-> [n \in Nodes |-> 0]]]

RouterType(Queues) == [nodes  : [Nodes -> Queues],
                       routes : [Types -> [Nodes -> Queues]]]

\* AddNode: a node that is known keeps its queues.
RAddNode(r, n, o) == IF r.nodes[n] = 0 THEN [r EXCEPT !.nodes[n] = o] ELSE r

\* AddRoute for each type in ts; an unknown node is an error and nothing else.
RAddRoutes(r, n, ts) ==
  IF r.nodes[n] = 0 THEN r
  ELSE [r EXCEPT !.routes = [t \in Types |->
          IF t \in ts THEN [@[t] EXCEPT ![n] = r.nodes[n]] ELSE @[t]]]

\* Mutant of RRemoveNode: the routes stay.
RRemoveKeepsRoutes(r, n) == [r EXCEPT !.nodes[n] = 0]

\* RemoveNode, whose caller also finds the queues of the node shut down.
RRemoveNode(r, n) ==
  [nodes  |-> [r.nodes EXCEPT ![n] = 0],
   routes |-> [t \in Types |-> [r.routes[t] EXCEPT ![n] = 0]]]

\* The queues a worker puts a message of type t in.
Targets(r, t) == {r.routes[t][n] : n \in Nodes} \ {0}

=============================================================================
