--------------------------- MODULE SynthFunction ---------------------------
(***************************************************************************)
(* What a netlist computes.  Named inputs and flip-flops are free; a node  *)
(* without a driver is X.                                                  *)
(***************************************************************************)
EXTENDS SynthPasses

\* The cells that replace adders and multipliers know nothing if one input is unknown.
CellFn(k, x) ==
    LET unless(v) == IF \E j \in DOMAIN x : x[j] = "X" THEN "X" ELSE v
        product == And4(And4(x[1], x[4]), And4(x[2], x[3]))
        high == And4(x[2], x[4])
    IN  CASE k \in GateKinds -> <<GateFn(k, x[1], Last(x))>>
          [] k = "C0" -> <<"L">>
          [] k = "C1" -> <<"H">>
          [] k = "HALF_ADDER" -> <<Xor4(x[1], x[2]), unless(And4(x[1], x[2]))>>
          [] k = "FULL_ADDER" ->
                <<Xor4(Xor4(x[1], x[2]), x[3]),
                  unless(Or4(And4(x[1], x[2]), And4(x[3], Or4(x[1], x[2]))))>>
          [] k = "MUL2" ->
                <<unless(And4(x[1], x[3])), unless(Xor4(And4(x[1], x[4]), And4(x[2], x[3]))),
                  unless(Xor4(high, product)), unless(And4(high, product))>>

\* The cell that drives each node, or 0.
Driver(n) == [m \in 0..(n.nodes - 1) |-> SelectInSeq(n.cells, LAMBDA c : m \in ToSet(c.out))]

FreeKinds == {"IN", "DFF"}

RECURSIVE Settle(_, _, _, _)
Settle(cells, driver, free, v) ==
    LET out(m) ==
            LET c == cells[driver[m]]
            IN  IF driver[m] = 0 THEN "X"
                ELSE IF c.k \in FreeKinds THEN free[m]
                ELSE CellFn(c.k, [j \in DOMAIN c.in |-> v[c.in[j]]])[SelectInSeq(c.out, LAMBDA o : o = m)]
        next == [m \in DOMAIN v |-> out(m)]
    IN  IF next = v THEN v ELSE Settle(cells, driver, free, next)

\* The value of every node for given values of the free ones.
Values(n, free) == Settle(n.cells, Driver(n), free, [m \in 0..(n.nodes - 1) |-> "X"])

\* What is read from outside: the ports, and the inputs of each flip-flop.
Ports(n, v) ==
    LET outputs == SelectSeq(n.cells, LAMBDA c : c.k = "OUTPUT")
    IN  [j \in DOMAIN outputs |-> v[outputs[j].in[1]]]

FlipFlops(n, v) ==
    {[q |-> c.out, in |-> [j \in DOMAIN c.in |-> v[c.in[j]]]] : c \in {d \in ToSet(n.cells) : d.k = "DFF"}}

Assignments(n, vals) == [{c.out[1] : c \in {d \in ToSet(n.cells) : d.k \in FreeKinds}} -> vals]

\* n shows at every port what m shows, for all values of the free nodes from vals.
SameFunction(m, n, vals) ==
    \A free \in Assignments(m, vals) :
        LET u == Values(m, free)
            v == Values(n, free)
        IN  Ports(n, v) = Ports(m, u) /\ FlipFlops(n, v) \subseteq FlipFlops(m, u)

\* The nodes the nodes in S depend on.
RECURSIVE Cone(_, _, _)
Cone(cells, driver, S) ==
    LET more == S \cup UNION {ToSet(cells[driver[m]].in) : m \in {o \in S : driver[o] # 0}}
    IN  IF more = S THEN S ELSE Cone(cells, driver, more)

\* The nodes without a driver that something read from outside depends on.
Cut(n) ==
    LET driver == Driver(n)
        read == UNION {ToSet(c.in) : c \in {d \in ToSet(n.cells) : d.k \in {"OUTPUT", "DFF"}}}
    IN  {m \in Cone(n.cells, driver, read) : driver[m] = 0}

-----------------------------------------------------------------------------

\* build_comb_eval_net: gates and named or constant INPUTs only, no two gates on one node.
Supported(n) ==
    LET gates == {i \in DOMAIN n.cells : n.cells[i].k \in GateKinds}
    IN  /\ \A c \in ToSet(n.cells) : c.k \in GateKinds \cup {"IN", "C0", "C1", "OUTPUT"}
        /\ \A i, j \in gates : n.cells[i].out = n.cells[j].out => i = j

\* Mutant: an output that cannot be evaluated is skipped.
VerifiedSkipping(ref, cand) ==
    /\ Supported(ref) /\ Supported(cand)
    /\ \A free \in Assignments(ref, {"L", "H"}) :
          LET u == Ports(ref, Values(ref, free))
              v == Ports(cand, Values(cand, free))
          IN  \A j \in DOMAIN v : v[j] \in {u[j], "X"}

\* omax_verify_equivalence, for at most omax_verify_exact_max_inputs inputs.
Verified(ref, cand) ==
    /\ Supported(ref) /\ Supported(cand)
    /\ Cut(ref) = {} /\ Cut(cand) = {}
    /\ \A free \in Assignments(ref, {"L", "H"}) : Ports(cand, Values(cand, free)) = Ports(ref, Values(ref, free))
=============================================================================
