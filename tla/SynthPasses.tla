---------------------------- MODULE SynthPasses ----------------------------
(***************************************************************************)
(* The optimisation passes of the synthesiser                              *)
(* (verilog/digital/pe_synth.h), as functions from netlists to netlists.   *)
(*                                                                         *)
(* A netlist here is a sequence of cells and a number of nodes.  A cell is *)
(* its kind, the nodes at its input pins and those at its output pins:     *)
(*   the gates of FourState, HALF_ADDER, FULL_ADDER, MUL2 and DFF,         *)
(*   IN            an INPUT with a name, which the outside sets,           *)
(*   C0, C1        an INPUT without a name, taken for a constant,          *)
(*   OUTPUT        whatever reads a port.                                  *)
(* Nodes are numbered in the order of their creation, which stands for the *)
(* order of their addresses.                                               *)
(*                                                                         *)
(* A pass first lists the gates with the nodes at their pins, then rewrites*)
(* gate after gate.  What it knows of a gate is that list: the nodes it    *)
(* captured may have lost their driver by the time they are used.          *)
(***************************************************************************)
EXTENDS FourState, Integers, FiniteSets, SequencesExt

Null == [k |-> "none", in |-> <<>>, out |-> <<>>]

Alive(g) == g # Null

(***************************************************************************)
(* A pass at work: the gates as listed at its start (s), the protected     *)
(* nodes, the slots as they are now (g; those after the listed ones were   *)
(* added by the pass), and the number of nodes.                            *)
(***************************************************************************)
Begin(net, ports) == [s |-> net.cells, ports |-> ports, g |-> net.cells, nodes |-> net.nodes]

Finish(w) == [cells |-> SelectSeq(w.g, Alive), nodes |-> w.nodes]

Out(w, i) == w.s[i].out[1]

Occurrences(q, n) == Cardinality({j \in DOMAIN q : q[j] = n})

PinCount(s, n, pins(_)) == FoldLeft(LAMBDA c, g : c + Occurrences(pins(g), n), 0, s)

\* build_gate_opt_fanout: how many output pins and how many other pins a node has at the start.
DriverCount(s, n) == PinCount(s, n, LAMBDA g : g.out)

ConsumerCount(s, n) == PinCount(s, n, LAMBDA g : g.in)

\* has_unique_driver_pin: gate i is still there and the only listed gate that drives its node.
SoleDriver(w, i) == {j \in DOMAIN w.s : Out(w, i) \in ToSet(w.g[j].out)} = {i}

\* Mutant: other readers are forgotten.
SingleUseAny(w, i) == Out(w, i) \notin w.ports /\ DriverCount(w.s, Out(w, i)) = 1

\* The gate's output can go with its one reader.
SingleUse(w, i) ==
    /\ Out(w, i) \notin w.ports
    /\ DriverCount(w.s, Out(w, i)) = 1
    /\ ConsumerCount(w.s, Out(w, i)) = 1

Exclusive(w, i) == SingleUse(w, i) /\ SoleDriver(w, i)

\* The first listed gate of a kind in K that drives n, or 0.
ByOut(w, K, n) == SelectInSeq(w.s, LAMBDA g : g.k \in K /\ g.out[1] = n)

Indices(w, K) == SelectSeq([i \in DOMAIN w.s |-> i], LAMBDA i : w.s[i].k \in K)

\* delete_model and add_model followed by add_to_node
Delete(w, I) == [w EXCEPT !.g = [i \in DOMAIN w.g |-> IF i \in I THEN Null ELSE w.g[i]]]

Cell(k, in, out) == [k |-> k, in |-> in, out |-> <<out>>]

Add(w, cell) == [w EXCEPT !.g = Append(@, cell)]

\* Every pin at node `from' goes to node `to', but for the output pins the pass knows.
MoveConsumers(w, from, to) ==
    LET moved(q) == [j \in DOMAIN q |-> IF q[j] = from THEN to ELSE q[j]]
    IN  [w EXCEPT !.g = [i \in DOMAIN w.g |->
            [w.g[i] EXCEPT !.in = moved(@), !.out = IF i \in DOMAIN w.s THEN @ ELSE moved(@)]]]

\* Mutant: protected nodes are forgotten.
RemovableAny(w, i) == SoleDriver(w, i)

Removable(w, i) == Out(w, i) \notin w.ports /\ SoleDriver(w, i)

\* Whoever reads gate i reads node `to' instead; i and the gates in I are deleted.
Forward(w, i, to, I) ==
    IF Out(w, i) = to THEN w ELSE Delete(MoveConsumers(w, Out(w, i), to), {i} \cup I)

ConstKind(v) == IF v = "H" THEN "C1" ELSE "C0"

\* find_or_make_const_node: [w, at], the pass with a node of constant value v and that node.
ConstNode(w, v) ==
    LET i == SelectInSeq(w.g, LAMBDA g : g.k = ConstKind(v))
    IN  IF i # 0 THEN [w |-> w, at |-> w.g[i].out[1]]
        ELSE [w |-> [Add(w, Cell(ConstKind(v), <<>>, w.nodes)) EXCEPT !.nodes = @ + 1], at |-> w.nodes]

ForwardConst(w, i, v, I) == LET c == ConstNode(w, v) IN Forward(c.w, i, c.at, I)

\* A rewrite tried at every listed gate of the kinds K that meets Guard, in turn.
AtEach(w0, K, Guard(_, _), Rewrite(_, _)) ==
    FoldLeft(LAMBDA w, i : IF Guard(w, i) THEN Rewrite(w, i) ELSE w, w0, Indices(w0, K))

Dual(k) == IF k = "AND" THEN "OR" ELSE "AND"

In1(w, i) == w.s[i].in[1]

In2(w, i) == w.s[i].in[2]

\* A literal: a node, or the node an inverter reads.
Literal(w, n) ==
    LET i == ByOut(w, {"NOT"}, n)
    IN  IF i = 0 THEN <<n, FALSE>> ELSE <<In1(w, i), TRUE>>

Complement(l) == <<l[1], ~l[2]>>

-----------------------------------------------------------------------------

\* optimize_eliminate_yes_buffers.  It reads the input pin anew.
Wires(w0) == AtEach(w0, {"YES"}, Removable, LAMBDA w, i : Forward(w, i, w.g[i].in[1], {}))

-----------------------------------------------------------------------------

(***************************************************************************)
(* optimize_constant_propagation_in_pe_netlist                             *)
(***************************************************************************)

\* The constant a node is tied to by an unnamed INPUT, or X.
ConstAt(s, n) ==
    LET i == SelectInSeq(s, LAMBDA g : g.k \in {"C0", "C1"} /\ g.out[1] = n)
    IN  IF i = 0 THEN "X" ELSE IF s[i].k = "C1" THEN "H" ELSE "L"

\* The value of the first and of the second input that makes a gate pass on the other one.
Neutral ==
    [AND |-> <<"H", "H">>, OR |-> <<"L", "L">>, XOR |-> <<"L", "L">>,
     XNOR |-> <<"H", "H">>, IMP |-> <<"H", "Z">>, NIMP |-> <<"Z", "L">>]

\* The value a gate is forced to: by one input, or by both in kinds that pass none on alone.
Forced(k, va, vb) ==
    LET by == {GateFn(k, va, "X"), GateFn(k, "X", vb)}
              \cup (IF k \in {"AND", "OR", "IMP", "NIMP"} THEN {} ELSE {GateFn(k, va, vb)})
    IN  by \cap {"L", "H"}

ConstProp(w0, binary) ==
    AtEach(w0, GateKinds \ {"YES"}, Removable, LAMBDA w, i :
        LET k == w.s[i].k
            a == In1(w, i)
            b == Last(w.s[i].in)
            va == ConstAt(w.s, a)
            vb == ConstAt(w.s, b)
            forced == Forced(k, va, vb)
            passes(j, x) == k \in DOMAIN Neutral /\ x = Neutral[k][j]
        IN  IF forced # {} THEN ForwardConst(w, i, CHOOSE v \in forced : TRUE, {})
            ELSE IF passes(1, va) THEN Forward(w, i, b, {})
            ELSE IF passes(2, vb) THEN Forward(w, i, a, {})
            ELSE IF k \in {"AND", "OR"} /\ a = b THEN Forward(w, i, a, {})
            ELSE IF binary /\ k \in {"XOR", "XNOR"} /\ a = b
                 THEN ForwardConst(w, i, IF k = "XOR" THEN "L" ELSE "H", {})
            ELSE w)

-----------------------------------------------------------------------------

(***************************************************************************)
(* optimize_factor_common_terms_in_pe_netlist: a sum of products with a    *)
(* common factor becomes a product, and the other way round.  The limits   *)
(* of 16 terms and 64 gates are not modelled.                              *)
(***************************************************************************)

\* The tree of gates of kind k under node n: its gates and, from left to right, its terms,
\* which are gates of the other kind; not ok if it ends in anything else.
RECURSIVE TreeAt(_, _, _, _)
TreeAt(w, root, k, n) ==
    LET i == ByOut(w, {"AND", "OR"}, n)
        none == [ok |-> FALSE, gates |-> {}, terms |-> <<>>]
    IN  IF i = 0 THEN none
        ELSE IF w.s[i].k = k /\ SoleDriver(w, i) /\ (i = root \/ Exclusive(w, i)) THEN
            LET l == TreeAt(w, root, k, In1(w, i))
                r == TreeAt(w, root, k, In2(w, i))
            IN  [ok |-> l.ok /\ r.ok, gates |-> {i} \cup l.gates \cup r.gates, terms |-> l.terms \o r.terms]
        ELSE IF w.s[i].k # k /\ Exclusive(w, i) THEN [ok |-> TRUE, gates |-> {}, terms |-> <<i>>]
        ELSE none

\* [w, at]: a chain of new gates of kind k over the nodes ns, and the node of its result.
Chain(w0, k, ns) ==
    FoldLeft(LAMBDA c, n : [w |-> [Add(c.w, Cell(k, <<c.at, n>>, c.w.nodes)) EXCEPT !.nodes = @ + 1],
                            at |-> c.w.nodes],
             [w |-> w0, at |-> Head(ns)], Tail(ns))

\* What is left of term t without factor c.
Rest(w, t, c) == IF In1(w, t) = c THEN In2(w, t) ELSE In1(w, t)

Unique(q) == FoldLeft(LAMBDA u, x : IF Contains(u, x) THEN u ELSE Append(u, x), <<>>, q)

\* The factors all terms have, in the order of the first one's pins.
CommonFactors(w, terms) ==
    SelectSeq(w.s[terms[1]].in, LAMBDA c : \A j \in DOMAIN terms : c \in ToSet(w.s[terms[j]].in))

FactorTree(w, i, tree) ==
    LET k == w.s[i].k
        rests(c) == Unique([j \in DOMAIN tree.terms |-> Rest(w, tree.terms[j], c)])
        cs == CommonFactors(w, tree.terms)
        c == IF Len(cs) = 2 /\ Len(rests(cs[2])) < Len(rests(cs[1])) THEN cs[2] ELSE cs[1]
        chain == Chain(w, k, rests(c))
        old == tree.gates \cup ToSet(tree.terms)
    IN  IF rests(c) = <<c>> THEN Forward(w, i, c, old)
        ELSE Add(Delete(chain.w, old), Cell(Dual(k), <<c, chain.at>>, Out(w, i)))

FactorPair(w, i) ==
    LET k == w.s[i].k
        a == ByOut(w, {Dual(k)}, In1(w, i))
        b == ByOut(w, {Dual(k)}, In2(w, i))
        cs == CommonFactors(w, <<a, b>>)
        c == cs[1]
        t == Chain(w, k, <<Rest(w, a, c), Rest(w, b, c)>>)
    IN  IF a = 0 \/ b = 0 THEN w
        ELSE IF ~Exclusive(w, a) \/ ~Exclusive(w, b) \/ cs = <<>> THEN w
        ELSE Add(Delete(t.w, {i, a, b}), Cell(Dual(k), <<c, t.at>>, Out(w, i)))

Factor(w0) ==
    LET rewrite(w, i) ==
            LET tree == TreeAt(w, i, w.s[i].k, Out(w, i))
            IN  IF tree.ok /\ Len(tree.terms) >= 3 /\ CommonFactors(w, tree.terms) # <<>>
                THEN FactorTree(w, i, tree)
                ELSE FactorPair(w, i)
    IN  AtEach(AtEach(w0, {"OR"}, Removable, rewrite), {"AND"}, Removable, rewrite)

-----------------------------------------------------------------------------

\* optimize_absorption_in_pe_netlist: a & (a | b) is a, and a & (a & b) is a & b.
Absorb(w0) ==
    LET target(w, i, plain, sub) ==
            LET c == ByOut(w, {"AND", "OR"}, sub)
            IN  IF c = 0 THEN {}
                ELSE IF ~Alive(w.g[c]) \/ plain \notin ToSet(w.s[c].in) THEN {}
                ELSE {IF w.s[c].k = w.s[i].k THEN sub ELSE plain}
        rewrite(w, i) ==
            LET first == target(w, i, In1(w, i), In2(w, i))
                to == IF first # {} THEN first ELSE target(w, i, In2(w, i), In1(w, i))
            IN  IF to = {} THEN w ELSE Forward(w, i, CHOOSE n \in to : TRUE, {})
    IN  AtEach(w0, {"AND", "OR"}, Removable, rewrite)

-----------------------------------------------------------------------------

(***************************************************************************)
(* optimize_rewrite_xor_xnor_in_pe_netlist: two complementary products     *)
(* under an OR, or two complementary sums under an AND.  All matches are   *)
(* found before the first is rewritten.                                    *)
(***************************************************************************)

\* The gate that makes node n a term of two literals under a root of kind k, and these.
XorTerm(w, k, n) ==
    LET i == ByOut(w, {Dual(k)}, n)
        m == ByOut(w, {"NIMP"}, n)
    IN  IF i # 0 THEN [at |-> i, lits |-> {Literal(w, In1(w, i)), Literal(w, In2(w, i))}]
        ELSE IF k = "OR" /\ m # 0
             THEN [at |-> m, lits |-> {<<In1(w, m), FALSE>>, <<In2(w, m), TRUE>>}]
        ELSE [at |-> 0, lits |-> {}]

XorRewrite(w0) ==
    LET term(i, j) == XorTerm(w0, w0.s[i].k, w0.s[i].in[j])
        matches(i) ==
            /\ Removable(w0, i)
            /\ Cardinality({l[1] : l \in term(i, 1).lits}) = 2
            /\ term(i, 2).lits = {Complement(l) : l \in term(i, 1).lits}
        rewrite(w, i) ==
            LET lits == term(i, 1).lits
                mixed == Cardinality({l \in lits : l[2]}) = 1
                k == IF mixed = (w0.s[i].k = "OR") THEN "XOR" ELSE "XNOR"
                vars == SetToSortSeq({l[1] : l \in lits}, <)
                gone == {t \in {term(i, 1).at, term(i, 2).at} : Exclusive(w0, t)}
            IN  Add(Delete(w, {i} \cup gone), Cell(k, vars, Out(w0, i)))
        roots == SelectSeq(Indices(w0, {"OR"}) \o Indices(w0, {"AND"}), matches)
    IN  FoldLeft(rewrite, w0, roots)

-----------------------------------------------------------------------------

(***************************************************************************)
(* optimize_flatten_associative_and_or_in_pe_netlist                       *)
(***************************************************************************)

\* Depth first from the nodes in st: the leaves of the tree of k gates, and its inner gates.
RECURSIVE Gather(_, _, _, _, _)
Gather(w, k, st, leaves, inner) ==
    IF st = <<>> THEN [leaves |-> leaves, inner |-> inner]
    ELSE LET n == Last(st)
             i == ByOut(w, {"AND", "OR"}, n)
             open == IF i = 0 THEN FALSE ELSE w.s[i].k = k /\ i \notin inner /\ Exclusive(w, i)
         IN  IF open THEN Gather(w, k, Front(st) \o w.s[i].in, leaves, inner \cup {i})
             ELSE Gather(w, k, Front(st), Append(leaves, n), inner)

\* One node for each literal among the leaves, by address of its variable.
Canonical(w, leaves) ==
    LET lit(n) == Literal(w, n)
        first == FoldLeft(LAMBDA u, n : IF \E j \in DOMAIN u : lit(u[j]) = lit(n) THEN u ELSE Append(u, n),
                          <<>>, leaves)
    IN  SortSeq(first, LAMBDA m, n : \/ lit(m)[1] < lit(n)[1]
                                     \/ lit(m)[1] = lit(n)[1] /\ lit(n)[2] /\ ~lit(m)[2])

Flatten(w0, binary) ==
    AtEach(w0, {"AND", "OR"}, Removable, LAMBDA w, i :
        LET k == w.s[i].k
            r == Gather(w, k, w.s[i].in, <<>>, {})
            controlling == IF k = "AND" THEN "L" ELSE "H"
            flat == Canonical(w, SelectSeq(r.leaves, LAMBDA n : ConstAt(w.s, n) = "X"))
            lits == {Literal(w, n) : n \in ToSet(flat)}
            chain == Chain(w, k, Front(flat))
        IN  IF \/ \E n \in ToSet(r.leaves) : ConstAt(w.s, n) = controlling
               \/ binary /\ \E l \in lits : Complement(l) \in lits
            THEN ForwardConst(w, i, controlling, r.inner)
            ELSE IF flat = <<>> THEN ForwardConst(w, i, Not4(controlling), r.inner)
            ELSE IF Len(flat) - 1 >= 1 + Cardinality(r.inner) THEN w
            ELSE IF Len(flat) = 1 THEN Forward(w, i, flat[1], r.inner)
            ELSE Delete(Add(chain.w, Cell(k, <<chain.at, Last(flat)>>, Out(w, i))), {i} \cup r.inner))

-----------------------------------------------------------------------------

(***************************************************************************)
(* Passes that hold for two-valued inputs only.                            *)
(***************************************************************************)

\* The literals of a gate, by address.
Canon(w, i) ==
    LET l == Literal(w, In1(w, i))
        m == Literal(w, In2(w, i))
    IN  IF l[1] > m[1] THEN <<m, l>> ELSE <<l, m>>

\* optimize_binary_complement_simplify_in_pe_netlist: (x & y) | (x & ~y) is x, x | ~x is 1.
BinarySimplify(w0) ==
    LET pairs(w, i) ==
            LET k == w.s[i].k
                a == ByOut(w, {Dual(k)}, In1(w, i))
                b == ByOut(w, {Dual(k)}, In2(w, i))
                t == Canon(w, a)
                u == Canon(w, b)
                kept == {j \in 1..2 : t[j] = u[j]}
                l == t[CHOOSE j \in kept : TRUE]
                not == [Add(w, Cell("NOT", <<l[1]>>, w.nodes)) EXCEPT !.nodes = @ + 1]
                gone == {g \in {a, b} : Exclusive(w, g)}
            IN  IF a = 0 \/ b = 0 THEN w
                ELSE IF (\E j \in 1..2 : t[j][1] # u[j][1]) \/ Cardinality(kept) # 1 THEN w
                ELSE IF l[2] THEN Forward(not, i, w.nodes, gone)
                ELSE Forward(w, i, l[1], gone)
        tautologies(w, i) ==
            IF Literal(w, In1(w, i)) = Complement(Literal(w, In2(w, i)))
            THEN ForwardConst(w, i, IF w.s[i].k = "OR" THEN "H" ELSE "L", {})
            ELSE w
        w1 == AtEach(AtEach(w0, {"OR"}, Removable, pairs), {"AND"}, Removable, pairs)
    IN  AtEach(AtEach(w1, {"OR"}, Removable, tautologies), {"AND"}, Removable, tautologies)

\* optimize_aig_rewrite_in_pe_netlist: the same rule once more, for nodes that are protected
\* too.  Its roots come from hash tables, so in any order.
AigRewrite(w0, ors, ands) ==
    LET rewrite(w, i) ==
            LET k == w.s[i].k
                a == ByOut(w, {Dual(k)}, In1(w, i))
                b == ByOut(w, {Dual(k)}, In2(w, i))
                lit(g, j) == Literal(w, w.s[g].in[j])
                common == {j \in 1..2 : \E m \in 1..2 : /\ lit(a, j) = lit(b, m)
                                                        /\ lit(a, 3 - j) = Complement(lit(b, 3 - m))}
                n == w.s[a].in[CHOOSE j \in common : \A m \in common : j <= m]
            IN  IF DriverCount(w.s, Out(w, i)) # 1 \/ ~SoleDriver(w, i) \/ a = 0 \/ b = 0 THEN w
                ELSE IF ~Exclusive(w, a) \/ ~Exclusive(w, b) \/ common = {} THEN w
                ELSE IF Out(w, i) \in w.ports
                     THEN Delete(Add(w, Cell("YES", <<n>>, Out(w, i))), {i, a, b})
                ELSE Forward(w, i, n, {a, b})
    IN  FoldLeft(rewrite, w0, ors \o ands)

-----------------------------------------------------------------------------

\* optimize_push_input_inverters_in_pe_netlist: inverters in front of a gate go into its kind.
PushInv(w0) ==
    LET rewrite(w, i) ==
            LET k == w.s[i].k
                in == w.s[i].in
                inv == [j \in 1..2 |-> ByOut(w, {"NOT"}, in[j])]
                nots == {inv[1], inv[2]} \ {0}
                base == [j \in 1..2 |-> IF inv[j] = 0 THEN in[j] ELSE In1(w, inv[j])]
                j == IF inv[1] # 0 THEN 1 ELSE 2    \* the inverted one if there is one only
                both == [AND |-> "NOR", OR |-> "NAND", XOR |-> "XOR", XNOR |-> "XNOR"]
                cell == IF 0 \notin {inv[1], inv[2]} THEN Cell(both[k], base, Out(w, i))
                        ELSE IF k = "AND" THEN Cell("NIMP", <<in[3 - j], base[j]>>, Out(w, i))
                        ELSE IF k = "OR" THEN Cell("IMP", <<base[j], in[3 - j]>>, Out(w, i))
                        ELSE Cell(IF k = "XOR" THEN "XNOR" ELSE "XOR", base, Out(w, i))
                done == Add(Delete(w, {i}), cell)
                unread(n) == \A g \in ToSet(done.g) : Out(w, n) \notin ToSet(g.in)
            IN  IF nots = {} THEN w
                ELSE IF \E n \in nots : ~Removable(w, n) \/ DriverCount(w.s, Out(w, n)) # 1 THEN w
                ELSE Delete(done, {n \in nots : unread(n)})
    IN  AtEach(w0, {"AND", "OR", "XOR", "XNOR"}, SoleDriver, rewrite)

\* optimize_eliminate_double_not_in_pe_netlist
DoubleNot(w0) ==
    AtEach(w0, {"NOT"}, SoleDriver, LAMBDA w, i :
        LET inner == ByOut(w, {"NOT"}, In1(w, i))
        IN  IF inner = 0 THEN w
            ELSE IF ~Exclusive(w, inner) THEN w
            ELSE IF Out(w, i) \in w.ports
                 THEN Add(Delete(w, {i, inner}), Cell("YES", <<In1(w, inner)>>, Out(w, i)))
            ELSE Forward(w, i, In1(w, inner), {inner}))

Negated ==
    [AND |-> "NAND", NAND |-> "AND", OR |-> "NOR", NOR |-> "OR",
     XOR |-> "XNOR", XNOR |-> "XOR", IMP |-> "NIMP", NIMP |-> "IMP"]

\* optimize_fuse_inverters_in_pe_netlist
FuseInv(w0) ==
    AtEach(w0, {"NOT"}, SoleDriver, LAMBDA w, i :
        LET g == ByOut(w, DOMAIN Negated, In1(w, i))
        IN  IF g = 0 THEN w
            ELSE IF ~Exclusive(w, g) THEN w
            ELSE Add(Delete(w, {i, g}), Cell(Negated[w.s[g].k], w.s[g].in, Out(w, i))))

-----------------------------------------------------------------------------

\* Mutant: the order of the inputs is ignored for all kinds.
StrashKeySorted(g) == <<g.k, SortSeq(g.in, <)>>

\* The key of a gate: the order of its inputs counts for IMP and NIMP only.
StrashKey(g) == <<g.k, IF g.k \in {"IMP", "NIMP"} THEN g.in ELSE SortSeq(g.in, <)>>

\* optimize_strash_in_pe_netlist: of two gates of the same kind that read the same nodes, one
\* is kept.  It reads all pins anew.
Strash(w0) ==
    LET visit(acc, i) ==
            LET w == acc.w
                kept == SelectInSeq(acc.rep, LAMBDA e : e.key = StrashKey(w.g[i]))
                r == acc.rep[kept].gate
                drop == IF Out(w, r) \notin w.ports /\ Out(w, i) \in w.ports THEN r ELSE i
                keep == IF drop = i THEN r ELSE i
            IN  IF kept = 0 THEN [acc EXCEPT !.rep = Append(@, [key |-> StrashKey(w.g[i]), gate |-> i])]
                ELSE IF ~Removable(w, drop) \/ Out(w, drop) = Out(w, keep) THEN acc
                ELSE [w |-> Forward(w, drop, Out(w, keep), {}),
                      rep |-> [acc.rep EXCEPT ![kept].gate = keep]]
    IN  FoldLeft(visit, [w |-> w0, rep |-> <<>>], Indices(w0, GateKinds \ {"YES"})).w

\* optimize_dce_in_pe_netlist: once over the models, with the readers counted at the start.
Dce(w) ==
    Delete(w, {i \in DOMAIN w.s :
        /\ w.s[i].k \notin {"OUTPUT", "IN"}
        /\ w.s[i].out # <<>>
        /\ \A n \in ToSet(w.s[i].out) : n \notin w.ports /\ ConsumerCount(w.s, n) = 0})

-----------------------------------------------------------------------------

(***************************************************************************)
(* optimize_adders_in_pe_netlist.  It counts every pin of a model that is  *)
(* no gate of the kinds below as a reader.                                 *)
(***************************************************************************)
AdderGates == {"AND", "OR", "XOR", "XNOR", "NOT"}

Drivers(s, n) == PinCount(s, n, LAMBDA g : IF g.k \in AdderGates THEN g.out ELSE <<>>)

Readers(s, n) == PinCount(s, n, LAMBDA g : IF g.k \in AdderGates THEN g.in ELSE g.in \o g.out)

\* The first gate of kind k that reads nodes a and b, or 0.
Reading(w, k, a, b) == SelectInSeq(w.s, LAMBDA g : g.k = k /\ ToSet(g.in) = {a, b})

NoMatch == [found |-> FALSE]

\* Matched gates to delete and the cell that takes their place.
Match(k, in, out, gone) == [found |-> TRUE, cell |-> [k |-> k, in |-> in, out |-> out], gone |-> gone]

\* sum = XOR(XOR(a, b), cin), cout = OR(OR(AND(a, b), AND(a, cin)), AND(b, cin)); p says which
\* input of gate i is the inner XOR.
FullAdder(w, i, p) ==
    LET cin == w.s[i].in[3 - p]
        x == ByOut(w, AdderGates, w.s[i].in[p])
        a == In1(w, x)
        b == In2(w, x)
        t1 == Reading(w, "AND", a, b)
        t2 == Reading(w, "AND", a, cin)
        t3 == Reading(w, "AND", b, cin)
        or12 == Reading(w, "OR", Out(w, t1), Out(w, t2))
        cout == Reading(w, "OR", Out(w, or12), Out(w, t3))
        once(g) == Readers(w.s, Out(w, g)) = 1
        alone(g) == Drivers(w.s, Out(w, g)) = 1
    IN  IF x = 0 THEN NoMatch
        ELSE IF w.s[x].k # "XOR" THEN NoMatch
        ELSE IF 0 \in {t1, t2, t3} THEN NoMatch
        ELSE IF or12 = 0 THEN NoMatch
        ELSE IF cout = 0 THEN NoMatch
        ELSE IF ~alone(i) \/ ~alone(cout) \/ Readers(w.s, Out(w, i)) = 0 THEN NoMatch
        ELSE IF \E g \in {t1, t2, t3, or12} : ~once(g) THEN NoMatch
        ELSE Match("FULL_ADDER", <<a, b, cin>>, <<Out(w, i), Out(w, cout)>>,
                   <<i, t1, t2, t3, or12, cout>> \o (IF once(x) /\ alone(x) THEN <<x>> ELSE <<>>))

HalfAdder(w, i) ==
    LET c == Reading(w, "AND", In1(w, i), In2(w, i))
    IN  IF c = 0 THEN NoMatch
        ELSE IF \/ Drivers(w.s, Out(w, i)) # 1 \/ Drivers(w.s, Out(w, c)) # 1
                \/ Readers(w.s, Out(w, i)) = 0 THEN NoMatch
        ELSE Match("HALF_ADDER", w.s[i].in, <<Out(w, i), Out(w, c)>>, <<i, c>>)

\* sum = NOT(XOR(a, b)), cout = OR(a, b): the carry in is the constant 1 at node `one'.
FullAdderCin1(w, i, one) ==
    LET x == ByOut(w, AdderGates, In1(w, i))
        c == Reading(w, "OR", In1(w, x), In2(w, x))
        alone(g) == Drivers(w.s, Out(w, g)) = 1
    IN  IF x = 0 THEN NoMatch
        ELSE IF w.s[x].k # "XOR" THEN NoMatch
        ELSE IF c = 0 THEN NoMatch
        ELSE IF ~alone(i) \/ ~alone(c) \/ 0 \in {Readers(w.s, Out(w, i)), Readers(w.s, Out(w, c))} THEN NoMatch
        ELSE Match("FULL_ADDER", w.s[x].in \o <<one>>, <<Out(w, i), Out(w, c)>>,
                   <<i, c>> \o (IF Readers(w.s, Out(w, x)) = 1 /\ alone(x) THEN <<x>> ELSE <<>>))

\* mark_used: a match counts if none of its gates is taken; those before the first taken one
\* are taken even so.
Claim(acc, m) ==
    LET free == {j \in DOMAIN m.gone : m.gone[j] \notin acc.used \cup ToSet(SubSeq(m.gone, 1, j - 1))}
        prefix == {j \in free : 1..j \subseteq free}
        used == acc.used \cup {m.gone[j] : j \in prefix}
    IN  IF ~m.found THEN acc
        ELSE [acc EXCEPT !.used = used,
                         !.made = IF prefix = DOMAIN m.gone THEN Append(@, m) ELSE @]

Adders(w0) ==
    LET full(acc, i) ==
            LET first == Claim(acc, FullAdder(w0, i, 1))
            IN  IF first.made # acc.made THEN first ELSE Claim(first, FullAdder(w0, i, 2))
        half(acc, i) == Claim(acc, HalfAdder(w0, i))
        cin1(acc, i) ==
            LET c == ConstNode(acc.w, "H")
                next == Claim(acc, FullAdderCin1(w0, i, c.at))
            IN  IF next.made # acc.made THEN [next EXCEPT !.w = c.w] ELSE next
        xors == Indices(w0, {"XOR"})
        a1 == FoldLeft(full, [w |-> w0, used |-> {}, made |-> <<>>], xors)
        a2 == FoldLeft(half, a1, xors)
        a3 == FoldLeft(cin1, a2, Indices(w0, {"NOT"}))
        gone == UNION {ToSet(a3.made[j].gone) : j \in DOMAIN a3.made}
    IN  FoldLeft(LAMBDA w, m : Add(w, m.cell), Delete(a3.w, gone), a3.made)

-----------------------------------------------------------------------------

(***************************************************************************)
(* optimize_mul2_in_pe_netlist: the eight gates of a 2 by 2 bit multiplier *)
(* of named inputs.  Which operand is called A depends on the names, and   *)
(* makes no difference to the product.                                     *)
(***************************************************************************)
Mul2Match(w, p1, p2, c1) ==
    LET t1 == ByOut(w, {"AND", "XOR"}, In1(w, p1))
        t2 == ByOut(w, {"AND", "XOR"}, In2(w, p1))
        t3 == ByOut(w, {"AND", "XOR"}, Rest(w, p2, Out(w, c1)))
        p3 == Reading(w, "AND", Out(w, c1), Out(w, t3))
        x == In1(w, t3)
        y == In2(w, t3)
        s1 == ToSet(w.s[t1].in)
        s2 == ToSet(w.s[t2].in)
        b1 == IF x \in s1 THEN x ELSE y
        a1 == IF x \in s2 THEN x ELSE y
        a0 == Rest(w, t1, b1)
        b0 == Rest(w, t2, a1)
        p0 == Reading(w, "AND", a0, b0)
        twice(g) == DriverCount(w.s, Out(w, g)) = 1 /\ ConsumerCount(w.s, Out(w, g)) = 2
        primary(n) == DriverCount(w.s, n) = 1 /\ ByOut(w, {"IN"}, n) # 0
        gone == {p1, t1, t2, c1, p2, p3, t3, p0}
    IN  IF t3 = 0 THEN NoMatch
        ELSE IF p3 = 0 \/ w.s[t3].k # "AND" THEN NoMatch
        ELSE IF ~twice(t1) \/ ~twice(t2) \/ ~twice(c1) \/ ~twice(t3) THEN NoMatch
        ELSE IF ~((x \in s1 /\ y \in s2) \/ (x \in s2 /\ y \in s1)) \/ p0 = 0 THEN NoMatch
        ELSE IF \E n \in {a0, a1, b0, b1} : ~primary(n) THEN NoMatch
        ELSE IF \/ \E g \in {p0, p1, p2, p3} : DriverCount(w.s, Out(w, g)) # 1
                \/ \E g \in gone : ~Alive(w.g[g])
                \/ Cardinality(gone) # 8 THEN NoMatch
        ELSE Match("MUL2", <<a0, a1, b0, b1>>, <<Out(w, p0), Out(w, p1), Out(w, p2), Out(w, p3)>>, gone)

Mul2(w0) ==
    LET rewrite(w, p1) ==
            LET ands == {n \in ToSet(w.s[p1].in) : ByOut(w, {"AND"}, n) # 0}
                c1 == Reading(w, "AND", In1(w, p1), In2(w, p1))
                p2s == SelectSeq(Indices(w, {"XOR"}), LAMBDA i :
                           i # p1 /\ Out(w, c1) \in ToSet(w.s[i].in) /\ Mul2Match(w, p1, i, c1).found)
            IN  IF ands # ToSet(w.s[p1].in) \/ c1 = 0 THEN w
                ELSE IF p2s = <<>> THEN w
                ELSE LET m == Mul2Match(w, p1, p2s[1], c1) IN Delete(Add(w, m.cell), m.gone)
    IN  FoldLeft(rewrite, w0, Indices(w0, {"XOR"}))

-----------------------------------------------------------------------------

\* What a pass may make of a netlist.  The order of an unordered map of gates is open.
PassResults(name, net, ports, binary) ==
    LET w == Begin(net, ports)
        results ==
            CASE name = "wires" -> {Wires(w)}
              [] name = "mul2" -> {Mul2(w)}
              [] name = "adders" -> {Adders(w)}
              [] name \in {"constprop", "constprop2"} -> {ConstProp(w, binary)}
              [] name = "factor" -> {Factor(w)}
              [] name = "absorb" -> {Absorb(w)}
              [] name = "xor_rewrite" -> {XorRewrite(w)}
              [] name = "flatten" -> {Flatten(w, binary)}
              [] name = "binary_simplify" -> {BinarySimplify(w)}
              [] name = "aig_rewrite" ->
                    {AigRewrite(w, ors, ands) : ors \in SetToSeqs(ToSet(Indices(w, {"OR"}))),
                                                ands \in SetToSeqs(ToSet(Indices(w, {"AND"})))}
              [] name = "push_inv" -> {PushInv(w)}
              [] name = "double_not" -> {DoubleNot(w)}
              [] name = "fuse_inv" -> {FuseInv(w)}
              [] name = "strash" -> {Strash(w)}
              [] name = "dce" -> {Dce(w)}
    IN  {Finish(r) : r \in results}
=============================================================================
