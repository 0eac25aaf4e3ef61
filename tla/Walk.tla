-------------------------------- MODULE Walk --------------------------------
(***************************************************************************)
(* Depth-first walks over a finite graph with an explicit stack, as in     *)
(* floating_subnet::detect().  The nodes are numbers; next[k] is the set   *)
(* of the neighbours of node k.                                            *)
(***************************************************************************)
EXTENDS Order, Sequences, Functions

(* The numbers of a set, upwards.                                          *)
Ascending(S) == [i \in 1..Cardinality(S) |-> InOrder({0} \X S)[i][2]]

(* One round: the node on top of the stack is visited, and those of its    *)
(* neighbours not yet processed are pushed.  Nodes of skip are not         *)
(* entered.                                                                *)
Visit(next, skip, w) ==
    LET top == Len(w.stack)
        node == w.stack[top]
        new == next[node] \ (w.seen \cup skip)
    IN  IF top = 0 THEN w
        ELSE [stack |-> SubSeq(w.stack, 1, top - 1) \o Ascending(new),
              seen |-> w.seen \cup new, visited |-> Append(w.visited, node)]

(* A walk visits no node twice: after as many rounds as there are nodes    *)
(* its stack is empty.                                                     *)
WalkFrom(next, start, seen, skip) ==
    LET size == Cardinality(DOMAIN next)
        rounds[i \in 0..size] ==
            IF i = 0 THEN [stack |-> <<start>>, seen |-> seen \cup {start}, visited |-> <<>>]
            ELSE Visit(next, skip, rounds[i - 1])
    IN  rounds[size]

(* One walk per start that is still unseen.                                *)
NextSubnet(next, skip, s, start) ==
    LET walk == WalkFrom(next, start, s.seen, skip)
    IN  IF start \in s.seen THEN s
        ELSE [seen |-> walk.seen, found |-> Append(s.found, walk.visited)]

Subnets(next, skip, starts, seen) ==
    LET loop[i \in 0..Len(starts)] ==
            IF i = 0 THEN [seen |-> seen, found |-> <<>>]
            ELSE NextSubnet(next, skip, loop[i - 1], starts[i])
    IN  loop[Len(starts)].found

-----------------------------------------------------------------------------
(* The nodes that paths from node x lead to: those of every set that holds *)
(* x and no edge leads out of.                                             *)
Closed(next, C) == \A k \in C : next[k] \subseteq C
Reach(next, x) ==
    {k \in DOMAIN next : \A C \in SUBSET DOMAIN next : x \in C /\ Closed(next, C) => k \in C}

=============================================================================
