--------------------------- MODULE FloatingSubnet ---------------------------
(***************************************************************************)
(* floating_subnet::detect(): the groups of connected nodes that no path   *)
(* through models ties to ground.                                          *)
(***************************************************************************)
EXTENDS Netlist, Walk

(* The nodes on the pins of the models that have a pin on node k; nullptr  *)
(* is none of them.                                                        *)
Neighbours(n, k) ==
    {j \in Nodes(n) : \E pin \in n.node[k].pins : j \in Range(At(n, Owner(n, pin)).nodes)}

(* The nodes that list a pin.                                              *)
UsedNodes(n) == {k \in Nodes(n) : n.node[k].pins # {}}

(* Without the walk from ground.                                           *)
DetectEverySubnet(n) ==
    LET next == [k \in Nodes(n) |-> Neighbours(n, k)]
    IN  Subnets(next, {Ground}, Ascending(UsedNodes(n) \ {Ground}), {Ground})

(* First what ground is tied to, then a subnet for each node that is left. *)
Detect(n) ==
    LET next == [k \in Nodes(n) |-> Neighbours(n, k)]
    IN  Subnets(next, {Ground}, Ascending(UsedNodes(n) \ {Ground}), WalkFrom(next, Ground, {}, {}).seen)

-----------------------------------------------------------------------------
(* Two nodes are tied when a live model has a pin on each.                 *)
Ties(n) == [j \in Nodes(n) |->
               {k \in Nodes(n) : \E p \in Live(n) : {j, k} \subseteq Range(At(n, p).nodes)}]

(* detect() returns exactly the connected components without ground of the *)
(* nodes with pins, each node in one subnet and once, as long as every     *)
(* node lists the pins that point to it.                                   *)
FloatingExact ==
    Listed(nl) =>
        LET found == Detect(nl)
            ties == Ties(nl)
        IN  /\ {Range(found[i]) : i \in 1..Len(found)} =
                   {Reach(ties, k) : k \in UsedNodes(nl) \ Reach(ties, Ground)}
            /\ \A i \in 1..Len(found) : Cardinality(Range(found[i])) = Len(found[i])
            /\ \A i, j \in 1..Len(found) : i # j => Range(found[i]) \cap Range(found[j]) = {}

=============================================================================
