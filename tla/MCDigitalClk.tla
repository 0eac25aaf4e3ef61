---------------------------- MODULE MCDigitalClk ----------------------------
(***************************************************************************)
(* Netlists on which DigitalClk is model-checked.                          *)
(***************************************************************************)
EXTENDS DigitalClk, SequencesExt, VerilogDesigns

Verilog == INSTANCE VerilogSim WITH CombMaxIter <- 64, LoopMaxIter <- 4096
VerilogSimulate(E, t, tick, seq) == Verilog!Simulate(E, t, tick, seq)
VerilogInitTree(E) == Verilog!InitTree(E)

NoPar == [none |-> TRUE]
Device(k, pins) == [kind |-> k, pins |-> pins, par |-> NoPar, attr |-> {}]
Driver(n, vals) == [kind |-> "INPUT", pins |-> <<n>>, par |-> NoPar, attr |-> vals]
Timed(k, pins, Tsu, Th) == [kind |-> k, pins |-> pins, par |-> [Tsu |-> Tsu, Th |-> Th], attr |-> {}]

\* A netlist in two heap layouts: nodes and models in creation order and in the
\* opposite one.
Layouts(nodes, hybrid, models, dev) ==
    {[nodes |-> l[1], hybrid |-> hybrid, models |-> models, addr |-> l[2], dev |-> dev] :
        l \in {<<nodes, models>>, <<Reverse(nodes), Reverse(models)>>}}

\* Every adder, subtractor and multiplier on three or four INPUTs.
ArithNodes == <<"a", "b", "c", "d", "s1", "c1", "s2", "c2", "d1", "b1", "d2", "b2", "p0", "p1", "p2", "p3">>
ArithModels == <<"ia", "ib", "ic", "id", "ha", "fa", "hs", "fs", "mul">>
ArithNet ==
    "ia" :> Driver("a", {"L", "H", "Z"}) @@ "ib" :> Driver("b", {"L", "H"})
    @@ "ic" :> Driver("c", {"L", "H"}) @@ "id" :> Driver("d", {"L", "H"})
    @@ "ha" :> Device("HALF_ADDER", <<"a", "b", "s1", "c1">>)
    @@ "fa" :> Device("FULL_ADDER", <<"s1", "b", "c", "s2", "c2">>)
    @@ "hs" :> Device("HALF_SUB", <<"a", "b", "d1", "b1">>)
    @@ "fs" :> Device("FULL_SUB", <<"d1", "b", "c", "d2", "b2">>)
    @@ "mul" :> Device("MUL2", <<"a", "b", "c", "d", "p0", "p1", "p2", "p3">>)
ArithNetlists == Layouts(ArithNodes, {}, ArithModels, ArithNet)

\* Flip-flops of every kind on one clock, none fed by another one.
SeqNodes == <<"clk", "d", "r", "q1", "q2", "q3", "q4", "q5">>
SeqModels == <<"iclk", "id", "ir", "dff", "arst", "jk", "t", "tbar">>
SeqNet ==
    "iclk" :> Driver("clk", {"L", "H", "X"}) @@ "id" :> Driver("d", {"L", "H", "Z"})
    @@ "ir" :> Driver("r", {"L", "H"})
    @@ "dff" :> Device("DFF", <<"d", "clk", "q1">>)
    @@ "arst" :> [Device("DFF_ARSTN", <<"d", "clk", "r", "q2">>) EXCEPT !.par = [reset_value |-> "H"]]
    @@ "jk" :> Device("JKFF", <<"d", "r", "clk", "q3">>)
    @@ "t" :> Device("TFF", <<"d", "clk", "q4">>)
    @@ "tbar" :> Device("T_BAR_FF", <<"r", "clk", "q5">>)
SeqNetlists == Layouts(SeqNodes, {}, SeqModels, SeqNet)

\* COUNTER4 with its enable, and RANDOM_GENERATOR4 with its reset.
CountNodes == <<"clk", "e", "c3", "c2", "c1", "c0">>
CountModels == <<"iclk", "ie", "cnt">>
CountNet ==
    "iclk" :> Driver("clk", {"L", "H"}) @@ "ie" :> Driver("e", {"L", "H", "X"})
    @@ "cnt" :> [Device("COUNTER4", <<"c3", "c2", "c1", "c0", "clk", "e">>) EXCEPT !.attr = {9}]
CountNetlists == Layouts(CountNodes, {}, CountModels, CountNet)

RandomNodes == <<"clk", "r", "r3", "r2", "r1", "r0">>
RandomModels == <<"iclk", "ir", "rng">>
RandomNet ==
    "iclk" :> Driver("clk", {"L", "H", "X"}) @@ "ir" :> Driver("r", Val)
    @@ "rng" :> Device("RANDOM_GENERATOR4", <<"r3", "r2", "r1", "r0", "clk", "r">>)
RandomNetlists == Layouts(RandomNodes, {}, RandomModels, RandomNet)

\* A latch, a resolver, a delay line, CASE_EQ, IS_UNKNOWN and a byte bus, all behind
\* INPUTs.
MiscNodes == <<"a", "b", "q", "o", "t", "e", "u", "x7", "x0">>
MiscModels == <<"ia", "ib", "latch", "res", "delay", "eq", "unk", "byte", "disp">>
MiscNet ==
    "ia" :> Driver("a", Val) @@ "ib" :> Driver("b", Val)
    @@ "latch" :> Device("DLATCH", <<"a", "b", "q">>)
    @@ "res" :> Device("RESOLVE2", <<"a", "b", "o">>)
    @@ "delay" :> [Device("TICK_DELAY", <<"a", "t">>) EXCEPT !.par = [ticks |-> 1]]
    @@ "eq" :> Device("CASE_EQ", <<"a", "b", "e">>)
    @@ "unk" :> Device("IS_UNKNOWN", <<"a", "u">>)
    @@ "byte" :> [Device("EIGHT_BIT_INPUT", <<"x7">> \o [i \in 1..6 |-> NoNode] \o <<"x0">>)
                    EXCEPT !.attr = {0, 1}]
    @@ "disp" :> Device("EIGHT_BIT_DISPLAY", <<"x7">> \o [i \in 1..6 |-> NoNode] \o <<"x0">>)
MiscNetlists == Layouts(MiscNodes, {}, MiscModels, MiscNet)

\* Two registers and an inverter as three VERILOG_MODULEs, with a gate between them.
InvertModule == [Module EXCEPT
    !.net = {"x", "y"}, !.ports = <<In("x"), Out("y")>>, !.assigns = <<Drive("y", Not(Sig("x")))>>]
Compiled(module, pins, ff) ==
    [Device("VERILOG_MODULE", pins) EXCEPT
        !.par = [E |-> Verilog!Elaborate("top" :> module, "top"), last |-> 1, ff |-> ff]]
Register(clk, d, q) == Compiled(DffModule, <<clk, d, q>>, [clk |-> 1, d |-> 2, q |-> 3])
ModuleNodes == <<"clk", "d", "q1", "n", "m", "q2">>
ModuleModels == <<"iclk", "id", "rx", "tx", "inv", "not">>
ModuleNet ==
    "iclk" :> Driver("clk", {"L", "H", "X"}) @@ "id" :> Driver("d", {"L", "H", "Z"})
    @@ "rx" :> Register("clk", "m", "q2") @@ "tx" :> Register("clk", "d", "q1")
    @@ "not" :> Timed("NOT", <<"q1", "n">>, 0, 0) @@ "inv" :> Compiled(InvertModule, <<"n", "m">>, <<>>)
ModuleNetlists == Layouts(ModuleNodes, {}, ModuleModels, ModuleNet)

\* A module that drives three hybrid nodes, one of them not always.
SplitModule == [Module EXCEPT
    !.net = {"a", "b", "x", "y", "z"}, !.ports = <<In("a"), Out("x"), In("b"), Out("y"), Out("z")>>,
    !.assigns = <<Drive("x", Sig("a")), Drive("y", And(Sig("a"), Sig("b"))), DriveIf(Sig("a"), "z", Sig("b"))>>]
SplitNodes == <<"a", "b", "y1", "y2", "y3">>
SplitModels == <<"ia", "split", "not">>
SplitNet ==
    "ia" :> Driver("a", {"L", "H"}) @@ "not" :> Timed("NOT", <<"a", "b">>, 0, 0)
    @@ "split" :> Compiled(SplitModule, <<"a", "y1", "b", "y2", "y3">>, <<>>)
SplitNetlists == Layouts(SplitNodes, {"y1", "y2", "y3"}, SplitModels, SplitNet)

\* A hybrid node read by a gate with setup and hold times, a Schmitt trigger, a
\* comparator against a second hybrid node, and IS_UNKNOWN.
HybridNodes == <<"v", "w", "b", "y", "s", "c", "u">>
HybridModels == <<"ib", "and", "schmitt", "cmp", "unk">>
HybridNet ==
    "ib" :> Driver("b", {"L", "H"})
    @@ "and" :> Timed("AND", <<"v", "b", "y">>, 2, 1)
    @@ "schmitt" :> [Device("SCHMITT_TRIGGER", <<"v", "s">>) EXCEPT !.par = [inverted |-> TRUE]]
    @@ "cmp" :> Device("comparator", <<"v", "w", "c">>)
    @@ "unk" :> Device("IS_UNKNOWN", <<"v", "u">>)
HybridNetlists == Layouts(HybridNodes, {"v", "w"}, HybridModels, HybridNet)

\* The sampling alone, for the liveness property.
HeldNodes == <<"v", "b", "y">>
HeldModels == <<"ib", "and", "out">>
HeldNet ==
    "ib" :> Driver("b", {}) @@ "and" :> Timed("AND", <<"v", "b", "y">>, 2, 1)
    @@ "out" :> Timed("OUTPUT", <<"v">>, 1, 2)
HeldNetlists == Layouts(HeldNodes, {"v"}, HeldModels, HeldNet)

\* Gates and an INPUT that drive hybrid nodes; a gate with an open output.
DriveNodes == <<"a", "b", "i", "y", "z">>
DriveModels == <<"ia", "ib", "iz", "not", "and", "open">>
DriveNet ==
    "ia" :> Driver("a", {"L", "H"}) @@ "ib" :> Driver("b", {"L", "H"})
    @@ "iz" :> Driver("z", {"L", "H", "Z"})
    @@ "not" :> Timed("NOT", <<"a", "i">>, 0, 0)
    @@ "and" :> Timed("AND", <<"i", "b", "y">>, 0, 0)
    @@ "open" :> Timed("OR", <<"a", "b", NoNode>>, 0, 0)
DriveNetlists == Layouts(DriveNodes, {"y", "z"}, DriveModels, DriveNet)

\* Gates only: a ring oscillator that the INPUT enables, a reconvergent pair, a
\* latch, a node with two drivers, a gate with an open pin, and an OUTPUT.
RefineNodes == <<"a", "r", "x", "y", "l">>
RefineModels == <<"ia", "ring", "not", "xor", "latch", "and", "open", "out">>
RefineNet ==
    "ia" :> Driver("a", {"L", "H", "X"})
    @@ "ring" :> Timed("NAND", <<"a", "r", "r">>, 1, 1) @@ "not" :> Timed("NOT", <<"a", "x">>, 1, 1)
    @@ "xor" :> Timed("XOR", <<"a", "x", "y">>, 1, 1) @@ "latch" :> Timed("OR", <<"r", "l", "l">>, 1, 1)
    @@ "and" :> Timed("AND", <<"a", "l", "y">>, 1, 1) @@ "open" :> Timed("NOR", <<"a", NoNode, "l">>, 1, 1)
    @@ "out" :> Timed("OUTPUT", <<"y">>, 1, 1)
RefineNetlists == Layouts(RefineNodes, {}, RefineModels, RefineNet)
ASSUME RefineGates == Netlists = RefineNetlists => GateNetlists

\* A tri-state buffer enabled by a voltage.  It keeps all nodes at higher addresses than its
\* output from being processed, so nothing else is here.
TriNodes == <<"a", "v", "o">>
TriModels == <<"ia", "tri">>
TriNet == "ia" :> Driver("a", Val) @@ "tri" :> Device("TRI", <<"a", "v", "o">>)
TriNetlists == Layouts(TriNodes, {"v"}, TriModels, TriNet)

DigitalNetlists ==
    ArithNetlists \cup SeqNetlists \cup CountNetlists \cup RandomNetlists
    \cup MiscNetlists \cup ModuleNetlists
AnalogNetlists == HybridNetlists \cup DriveNetlists \cup SplitNetlists \cup TriNetlists

-----------------------------------------------------------------------------

\* Two flip-flops in a row on one clock: a shift register.
ShiftNodes == <<"clk", "d", "q1", "q2">>
ShiftModels == <<"iclk", "id", "ff1", "ff2">>
ShiftNet ==
    "iclk" :> Driver("clk", {"L", "H"}) @@ "id" :> Driver("d", {"L", "H"})
    @@ "ff1" :> Device("DFF", <<"d", "clk", "q1">>) @@ "ff2" :> Device("DFF", <<"q1", "clk", "q2">>)
ShiftNetlists == Layouts(ShiftNodes, {}, ShiftModels, ShiftNet)
=============================================================================
