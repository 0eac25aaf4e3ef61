---------------------------- MODULE SynthSystem ----------------------------
(***************************************************************************)
(* Synth with the passes of SynthPasses and the verification of            *)
(* SynthFunction.                                                          *)
(***************************************************************************)
EXTENDS Synth, SynthFunction

PassStep == status' = "running" /\ todo # <<>> /\ net' # net

\* As SameFunction, but n may show X where m shows a value.
SameOrUnknown(m, n) ==
    \A free \in Assignments(m, {"L", "H", "X"}) :
        LET u == Ports(m, Values(m, free))
            v == Ports(n, Values(n, free))
        IN  \A j \in DOMAIN u : v[j] \in {u[j], "X"}

\* No pass changes what the ports show, for unknown inputs too unless the inputs are assumed
\* binary; adders and multipliers may lose known values there.  This leaves out a pass that
\* cuts off what a port depends on (CutsOnlyBy).
PassSound ==
    [][PassStep /\ Cut(net) = {} /\ Cut(net') = {} =>
          /\ SameFunction(net, net', {"L", "H"})
          /\ opt.binary \/ IF Head(todo) \in {"adders", "mul2"} THEN SameOrUnknown(net, net')
                           ELSE SameFunction(net, net', {"L", "H", "X"})]_vars

\* The passes that move the readers of a gate to another node, delete the gate, and may later in
\* the same pass use the node it drove, which they listed at the start.
Capturing ==
    {"constprop", "constprop2", "factor", "absorb", "flatten", "binary_simplify", "aig_rewrite", "double_not"}

\* Only these leave a port depending on a node without a driver.  Of the others, wires and strash
\* read the pins anew when they move readers, and the rest give every node a driver again or
\* delete only gates whose readers go with them.
CutsOnlyBy == [][PassStep /\ Cut(net) = {} /\ Cut(net') # {} => Head(todo) \in Capturing]_vars

\* Every rewrite takes the old driver of a node away before, or when, it adds a new one: no
\* node ever has two, no protected node is left without, and pins are at existing nodes.
DriversKept ==
    /\ net \in NetType
    /\ \A c \in ToSet(net.cells) : ToSet(c.in) \cup ToSet(c.out) \subseteq 0..(net.nodes - 1)
    /\ \A m \in 0..(net.nodes - 1) :
          LET count == DriverCount(net.cells, m)
          IN  count <= 1 /\ (m \in start.ports => count = 1)

\* With omax_verify, the netlist returned computes the function of the one given, even if a
\* pass has cut off something on the way.
VerifiedResult ==
    status = "done" /\ opt.level >= 5 /\ opt.verify =>
        Cut(net) = {} /\ SameFunction(start, net, {"L", "H"})

\* At every level, and for unknown inputs, the netlist computes what the one given does.
FunctionKept == SameFunction(start, net, {"L", "H", "X"})
=============================================================================
