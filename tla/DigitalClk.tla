----------------------------- MODULE DigitalClk -----------------------------
(***************************************************************************)
(* circult::digital_clk() on a mixed-signal netlist, with every digital    *)
(* device, alternating with analyze() as the callers alternate them.       *)
(*                                                                         *)
(* A node is digital, or hybrid: it carries analog pins too, is seen by    *)
(* digital devices as a voltage, and is processed on every tick            *)
(* (always_tables).  Devices that drive a hybrid node return a voltage,    *)
(* which digital_clk() collects in digital_out and the next analyze()      *)
(* stamps as one voltage source per entry.                                 *)
(*                                                                         *)
(* Pending nodes and the pins of a node are visited in the order of their  *)
(* heap addresses, which the netlist record carries.                       *)
(***************************************************************************)
EXTENDS DigitalDevices

CONSTANTS
    NoNode,
    Netlists,   \* the netlists to run, each in some heap layout:
                \*   nodes   its nodes, in the order of their addresses
                \*   hybrid  those that carry analog pins too
                \*   models  its digital models, as netlist::models holds them
                \*   addr    the same models in the order of their addresses
                \*   dev     each model's kind, pins (their nodes), par (its parameters
                \*           Tsu, Th, ticks, inverted, reset_value) and attr (values for
                \*           set_attribute)
    Voltages,   \* what the analog part may put on a hybrid node
    Times,      \* time steps of one analyze(), {0} for OP and DC analyses
    MaxAge,     \* the larger of all Tsu and Th
    UsrInit,    \* USRA as prepare_tr() leaves it, "X" for other analyses
    Budget,
    Track       \* keep the ghost `prev' up to date?

OutputPins(k) ==
    CASE k \in {"NOT", "YES", "TICK_DELAY", "IS_UNKNOWN", "SCHMITT_TRIGGER"} -> {2}
      [] k \in {"OUTPUT", "EIGHT_BIT_DISPLAY"} -> {}
      [] k = "INPUT" -> {1}
      [] k = "VERILOG_MODULE" -> {}   \* given by its ports
      [] k = "EIGHT_BIT_INPUT" -> 1..8
      [] k \in {"HALF_ADDER", "HALF_SUB"} -> 3..4
      [] k \in {"FULL_ADDER", "FULL_SUB"} -> 4..5
      [] k = "MUL2" -> 5..8
      [] k \in {"DFF_ARSTN", "JKFF"} -> {4}
      [] k \in {"COUNTER4", "RANDOM_GENERATOR4"} -> 1..4
      [] OTHER -> {3}

ASSUME DeviceAssumption ==
    \A n \in Netlists : \A m \in DOMAIN n.dev :
        LET k == n.dev[m].kind
            pins == n.dev[m].pins
        IN  /\ \A i, j \in OutputPins(k) : i # j /\ pins[i] # NoNode => pins[i] # pins[j]
            /\ k = "OUTPUT" => pins[1] # NoNode
            /\ k = "comparator" => pins[1] \in n.hybrid /\ pins[2] \in n.hybrid

\* The pins of the gates, INPUT and OUTPUT.
PinCount(k) == IF k \in {"INPUT", "OUTPUT"} THEN 1 ELSE IF k \in {"NOT", "YES"} THEN 2 ELSE 3

\* Every model is listed once, and every pin is at a node of the netlist or open.
ASSUME NetlistAssumption ==
    \A n \in Netlists :
        LET nodes == Range(n.nodes)
            models == DOMAIN n.dev
        IN  /\ n.nodes \in Seq(nodes) /\ NoNode \notin nodes
            /\ n.hybrid \subseteq nodes
            /\ n.models \in Seq(models) /\ IsInjective(n.models) /\ models \subseteq Range(n.models)
            /\ n.addr \in Seq(models) /\ IsInjective(n.addr) /\ models \subseteq Range(n.addr)
            /\ \A m \in models :
                 /\ n.dev[m].pins \in Seq(nodes \cup {NoNode})
                 /\ n.dev[m].attr # {} =>
                        n.dev[m].kind \in {"INPUT", "EIGHT_BIT_INPUT", "COUNTER4", "RANDOM_GENERATOR4"}
                 /\ n.dev[m].kind \in GateKinds \cup {"INPUT", "OUTPUT"} =>
                        Len(n.dev[m].pins) = PinCount(n.dev[m].kind)

ASSUME BudgetAssumption == Budget \in Nat

ASSUME SamplingAssumption ==
    Voltages \subseteq Int /\ Times \subseteq Nat /\ MaxAge \in Nat /\ UsrInit \in {"L", "H", "X"}

VARIABLES
    nl,          \* the circuit's netlist, fixed after Init
    dn,          \* dn.state of the digital nodes
    an,          \* an.voltage of the hybrid nodes
    mem,         \* the private fields of every model
    tables,      \* digital_update_tables.tables
    digital_out, \* voltages to apply: sequence of <<node, voltage>>
    phase, queue, budget,   \* where digital_clk() stands; queue: pins or models left
    prev,        \* ghost: dn, an and mem when the running digital_clk() was entered
    ticks,       \* ghost: calls of digital_clk(), counted up to 2
    lost         \* ghost: nodes that were pending when prepare() cleared `tables'

vars == <<nl, dn, an, mem, tables, digital_out, phase, queue, budget, prev, ticks, lost>>

Nodes == Range(nl.nodes)
Hybrid == nl.hybrid
ModelSet == DOMAIN nl.dev
Kind == [m \in ModelSet |-> nl.dev[m].kind]
Pins == [m \in ModelSet |-> nl.dev[m].pins]
Par == [m \in ModelSet |-> nl.dev[m].par]

\* What model m sees at its pins.
PinView(m) ==
    [i \in DOMAIN Pins[m] |->
        LET n == Pins[m][i]
        IN  [on |-> n # NoNode, an |-> n \in Hybrid,
             st |-> IF n \in Nodes \ Hybrid THEN dn[n] ELSE "X",
             v |-> IF n \in Hybrid THEN an[n] ELSE 0]]

\* Every pin of the netlist: the place of its model in address order, and its index there.
PinPlaces == UNION {{k} \X DOMAIN Pins[nl.addr[k]] : k \in DOMAIN nl.addr}

\* The pins at the given places, in that order, as pairs of a model and an index.
PinsAt(places) ==
    LET at == InOrder(places)
    IN  [j \in 1..Cardinality(places) |-> <<nl.addr[at[j][1]], at[j][2]>>]

\* Mutant: only the inputs of a changed node are told.
NodePinsInputsOnly(n) ==
    PinsAt({x \in PinPlaces : /\ Pins[nl.addr[x[1]]][x[2]] = n
                              /\ x[2] \notin OutputPins(Kind[nl.addr[x[1]]])})

\* node_t::pins in address order.
NodePins(n) == PinsAt({x \in PinPlaces : Pins[nl.addr[x[1]]][x[2]] = n})

\* The models before_digital_clk() updates, in the order of netlist::models.
BeforeModels ==
    LET places == {1} \X {k \in DOMAIN nl.models : Kind[nl.models[k]] \in BeforeKinds}
        at == InOrder(places)
    IN  [j \in 1..Cardinality(places) |-> nl.models[at[j][2]]]

Update(m, method) ==
    \E r \in {UpdateDigitalClk(Kind[m], Par[m], mem[m], PinView(m), method)} :
        /\ mem' = [mem EXCEPT ![m] = r.mem]
        /\ dn' = [n \in Nodes \ Hybrid |->
                    IF \E w \in r.wr : Pins[m][w[1]] = n
                      THEN (CHOOSE w \in r.wr : Pins[m][w[1]] = n)[2] ELSE dn[n]]
        /\ tables' = tables \cup {Pins[m][i] : i \in r.pend}
        /\ digital_out' = digital_out \o [i \in DOMAIN r.dr |-> <<Pins[m][r.dr[i][1]], r.dr[i][2]>>]

-----------------------------------------------------------------------------

Snapshot == [dn |-> dn, an |-> an, mem |-> mem]

\* After the first prepare() and solve.
Init ==
    /\ nl \in Netlists
    /\ dn = [n \in Nodes \ Hybrid |-> "X"]
    /\ an \in [Hybrid -> Voltages]
    /\ mem = [m \in ModelSet |-> InitMem(Kind[m], Par[m], IF Kind[m] \in GateKinds THEN UsrInit ELSE "X")]
    /\ tables = {} /\ lost = {} /\ digital_out = <<>>
    /\ phase = "idle" /\ queue = <<>> /\ budget = 0
    /\ prev = <<>> /\ ticks = 0

\* set_attribute() of INPUT, EIGHT_BIT_INPUT, COUNTER4 and RANDOM_GENERATOR4.
SetAttribute(m, v) ==
    /\ phase = "idle"
    /\ mem' = [mem EXCEPT ![m] =
                 CASE Kind[m] = "INPUT" -> [@ EXCEPT !.outputA = v]
                   [] Kind[m] = "EIGHT_BIT_INPUT" -> [@ EXCEPT !.value = v]
                   [] Kind[m] \in {"COUNTER4", "RANDOM_GENERATOR4"} -> [@ EXCEPT !.q = v, !.unknown = FALSE]]
    /\ mem' # mem
    /\ UNCHANGED <<nl, dn, an, tables, digital_out, phase, queue, budget, prev, ticks, lost>>

\* set_attribute(1, ...) of COUNTER4 and RANDOM_GENERATOR4.
SetUnknown(m, unknown) ==
    /\ phase = "idle" /\ Kind[m] \in {"COUNTER4", "RANDOM_GENERATOR4"}
    /\ mem[m].unknown # unknown
    /\ mem' = [mem EXCEPT ![m].unknown = unknown]
    /\ UNCHANGED <<nl, dn, an, tables, digital_out, phase, queue, budget, prev, ticks, lost>>

DigitalClk ==
    /\ phase = "idle"
    /\ digital_out' = <<>>
    /\ phase' = "before"
    /\ queue' = BeforeModels
    /\ prev' = IF Track THEN Snapshot ELSE prev
    /\ ticks' = IF ticks = 2 THEN 2 ELSE ticks + 1
    /\ UNCHANGED <<nl, dn, an, mem, tables, budget, lost>>

BeforeModel ==
    /\ phase = "before" /\ queue # <<>>
    /\ Update(Head(queue), "before")
    /\ queue' = Tail(queue)
    /\ UNCHANGED <<nl, an, phase, budget, prev, ticks, lost>>

\* Mutant: hybrid nodes are processed only when a device reports them.
EnterTableEventsOnly ==
    /\ phase = "before" /\ queue = <<>>
    /\ phase' = "table" /\ budget' = Budget
    /\ UNCHANGED <<nl, dn, an, mem, tables, digital_out, queue, prev, ticks, lost>>

\* Entry of update_table_digital_clk(): the hybrid nodes become pending.
EnterTable ==
    /\ phase = "before" /\ queue = <<>>
    /\ phase' = "table" /\ budget' = Budget
    /\ tables' = tables \cup Hybrid
    /\ UNCHANGED <<nl, dn, an, mem, digital_out, queue, prev, ticks, lost>>

TakeNode ==
    /\ phase = "table" /\ queue = <<>> /\ tables # {} /\ budget > 0
    /\ LET n == nl.nodes[CHOOSE i \in DOMAIN nl.nodes :
                    nl.nodes[i] \in tables /\ \A j \in 1..i - 1 : nl.nodes[j] \notin tables]
       IN  tables' = tables \ {n} /\ queue' = NodePins(n) /\ lost' = lost \ {n}
    /\ budget' = budget - 1
    /\ UNCHANGED <<nl, dn, an, mem, digital_out, phase, prev, ticks>>

VisitPin ==
    /\ phase = "table" /\ queue # <<>>
    /\ Update(Head(queue)[1], "table")
    /\ queue' = Tail(queue)
    /\ UNCHANGED <<nl, an, phase, budget, prev, ticks, lost>>

\* No device asks for after_all_clk, so after_table_digital_clk() does nothing.
LeaveTable ==
    /\ phase = "table" /\ queue = <<>> /\ (tables = {} \/ budget = 0)
    /\ phase' = "idle" /\ budget' = 0 /\ prev' = <<>>
    /\ UNCHANGED <<nl, dn, an, mem, tables, digital_out, queue, ticks, lost>>

-----------------------------------------------------------------------------

(***************************************************************************)
(* analyze(): prepare() drops what is pending, and the solver finds the    *)
(* voltages.  The analog part is external: a driven node takes the voltage *)
(* it is driven with, any other hybrid node some voltage.  Two entries of  *)
(* digital_out for one node are two voltage sources in parallel, for which *)
(* the matrix is singular and analyze() returns false.                     *)
(***************************************************************************)
Driven(n) == {e \in Range(digital_out) : e[1] = n}

Solvable == \A i, j \in DOMAIN digital_out : i # j => digital_out[i][1] # digital_out[j][1]

Older(m, dt) ==
    [m EXCEPT !.in = [i \in DOMAIN m.in |->
        [m.in[i] EXCEPT !.age = IF @ + dt > MaxAge THEN MaxAge ELSE @ + dt]]]

Analyze(dt) ==
    /\ phase = "idle" /\ Solvable
    /\ an' \in [Hybrid -> Voltages \cup {Ll, Hl}]
    /\ \A n \in Hybrid :
         IF Driven(n) # {} THEN <<n, an'[n]>> \in Driven(n) ELSE an'[n] \in Voltages
    /\ mem' = [m \in ModelSet |-> IF Kind[m] \in GateKinds \cup {"OUTPUT"} THEN Older(mem[m], dt) ELSE mem[m]]
    /\ tables' = {} /\ lost' = lost \cup tables
    /\ UNCHANGED <<nl, dn, digital_out, phase, queue, budget, prev, ticks>>

AnalyzeFails ==
    /\ phase = "idle" /\ ~Solvable
    /\ tables' = {} /\ lost' = lost \cup tables
    /\ UNCHANGED <<nl, dn, an, mem, digital_out, phase, queue, budget, prev, ticks>>

Step == BeforeModel \/ EnterTable \/ TakeNode \/ VisitPin \/ LeaveTable

Next ==
    \/ \E m \in ModelSet : \E v \in nl.dev[m].attr : SetAttribute(m, v)
    \/ \E m \in ModelSet, unknown \in BOOLEAN : SetUnknown(m, unknown)
    \/ DigitalClk
    \/ Step
    \/ \E dt \in Times : Analyze(dt)
    \/ AnalyzeFails

Spec == Init /\ [][Next]_vars

\* digital_clk() runs to its end, and the caller keeps alternating it with a
\* transient analyze() that advances time (the loop of test/0006.digital/hybirds.cpp).  When
\* no input's age can grow any more, a further analyze() may leave everything as it is.
LoopSpec ==
    /\ Spec /\ WF_vars(Step)
    /\ SF_vars(DigitalClk)
    /\ SF_vars(\E dt \in Times \ {0} : Analyze(dt) /\ mem' # mem)

-----------------------------------------------------------------------------

(***************************************************************************)
(* Properties.  Most are about the moment the drain loop has emptied the   *)
(* queue; prev is the state in which this digital_clk() was entered.       *)
(***************************************************************************)
Done == phase = "table" /\ queue = <<>> /\ tables = {}

Of(kinds) == {m \in ModelSet : Kind[m] \in kinds}
At(m, i) == dn[Pins[m][i]]
WasAt(m, i) == prev.dn[Pins[m][i]]
Logic(v) == IF v = "Z" THEN "X" ELSE v
Num(v) == IF v = "H" THEN 1 ELSE 0

\* circuit.h:315 "Process pending nodes until the queue is empty (combinational
\* settle in one tick)": digital_clk() empties its queue before it returns.
QueueDrained == (phase = "idle" => tables = {}) /\ lost = {}

\* The adders, subtractors and the multiplier compute with numbers: once the queue
\* is empty their output bits are the sum, difference or product of their input
\* bits, and all X when some input is not known.
ArithmeticRight ==
    Done => \A m \in Of({"HALF_ADDER", "FULL_ADDER", "HALF_SUB", "FULL_SUB", "MUL2"}) :
        LET n(i) == Num(At(m, i))
            outs == OutputPins(Kind[m])
            known == \A i \in DOMAIN Pins[m] \ outs : Known(At(m, i))
        IN  IF ~known THEN \A i \in outs : At(m, i) = "X"
            ELSE /\ \A i \in outs : Known(At(m, i))
                 /\ CASE Kind[m] = "HALF_ADDER" -> n(1) + n(2) = n(3) + 2 * n(4)
                      [] Kind[m] = "FULL_ADDER" -> n(1) + n(2) + n(3) = n(4) + 2 * n(5)
                      [] Kind[m] = "HALF_SUB" -> n(1) - n(2) = n(3) - 2 * n(4)
                      [] Kind[m] = "FULL_SUB" -> n(1) - n(2) - n(3) = n(4) - 2 * n(5)
                      [] Kind[m] = "MUL2" -> (n(1) + 2 * n(2)) * (n(3) + 2 * n(4))
                                               = n(5) + 2 * n(6) + 4 * n(7) + 8 * n(8)

ClockPin(k) == IF k = "JKFF" THEN 3 ELSE IF k \in {"COUNTER4", "RANDOM_GENERATOR4"} THEN 5 ELSE 2
Rose(m) == prev.mem[m].last_clk = "L" /\ At(m, ClockPin(Kind[m])) = "H"

\* What a flip-flop samples at pin i on the edge of this tick: the value before the
\* tick if another flip-flop drives the pin (nonblocking), else the new value.
Sampled(m, i) ==
    LET byFlipFlop == \E f \in Of(FlipFlops) : \E j \in OutputPins(Kind[f]) : Pins[f][j] = Pins[m][i]
    IN  Logic(IF byFlipFlop THEN WasAt(m, i) ELSE At(m, i))

\* Each flip-flop takes at most one step per digital_clk(), on a rising edge of its
\* clock, from the inputs as its neighbours had them before the edge, however
\* often and in whatever order the engine calls it while the tick settles.
EdgeSemantics ==
    Done => \A m \in Of(FlipFlops) :
        LET q == prev.mem[m].q
            in(i) == Sampled(m, i)
        IN  mem[m].q =
              CASE Kind[m] = "DFF_ARSTN" /\ Logic(At(m, 3)) # "H" ->
                     IF At(m, 3) = "L" THEN Par[m].reset_value ELSE "X"
                [] ~(Kind[m] = "DFF_ARSTN" /\ Logic(At(m, 3)) # "H") /\ ~Rose(m) -> q
                [] Rose(m) /\ (Kind[m] = "DFF" \/ (Kind[m] = "DFF_ARSTN" /\ At(m, 3) = "H")) -> in(1)
                [] Rose(m) /\ Kind[m] = "JKFF" ->
                     IF in(1) = "X" \/ in(2) = "X" THEN "X"
                     ELSE IF in(1) = in(2) THEN (IF in(1) = "H" THEN Toggle(q) ELSE q) ELSE in(1)
                [] Rose(m) /\ Kind[m] \in {"TFF", "T_BAR_FF"} ->
                     IF in(1) = "X" THEN "X"
                     ELSE IF (in(1) = "H") = (Kind[m] = "TFF") THEN Toggle(q) ELSE q

\* COUNTER4 counts the rising edges of its clock modulo 16, each exactly once, and
\* shows the count on q3..q0 in the tick of the edge.
CountsEdges ==
    Done => \A m \in Of({"COUNTER4"}) :
        /\ ~mem[m].unknown =>
             mem[m].q = (prev.mem[m].q + (IF Rose(m) /\ At(m, 6) \in {"H", "Z"} THEN 1 ELSE 0)) % 16
        /\ Rose(m) /\ ~mem[m].unknown =>
             8 * Num(At(m, 1)) + 4 * Num(At(m, 2)) + 2 * Num(At(m, 3)) + Num(At(m, 4)) = mem[m].q

\* random_generator4.h "Fixed non-zero injection prevents the all-zero lock state":
\* out of reset, every rising edge changes the state of RANDOM_GENERATOR4.
NeverLocks ==
    Done => \A m \in Of({"RANDOM_GENERATOR4"}) :
        Rose(m) /\ At(m, 6) \in {"H", "Z"} /\ ~mem[m].unknown => mem[m].q # prev.mem[m].q

\* random_generator4.h "releasing reset while clk=1 does not create a spurious
\* posedge": a clock that was H and is H moves nothing that is out of reset.
NoSpuriousEdge ==
    Done => \A m \in Of({"COUNTER4", "RANDOM_GENERATOR4"} \cup FlipFlops) :
        LET c == ClockPin(Kind[m])
            reset == \/ Kind[m] = "DFF_ARSTN" /\ At(m, 3) # "H"
                     \/ Kind[m] = "RANDOM_GENERATOR4" /\ At(m, 6) = "L"
        IN  WasAt(m, c) = "H" /\ At(m, c) = "H" /\ ~reset => mem[m].q = prev.mem[m].q

\* d_latch.h "When en==1: q follows d (on each `digital_clk()` tick)", and
\* RESOLVE2 shows the driven value of two, X when both drive differently.
LatchAndResolve ==
    Done => /\ \A m \in Of({"DLATCH"}) : At(m, 2) = "H" => At(m, 3) = Logic(At(m, 1))
            /\ \A m \in Of({"RESOLVE2"}) :
                 LET driving == {At(m, 1), At(m, 2)} \ {"Z"}
                 IN  At(m, 3) = IF driving = {} THEN "Z"
                                ELSE IF Cardinality(driving) = 1 THEN CHOOSE v \in driving : TRUE ELSE "X"

\* tick_delay.h "Each `digital_clk()` outputs the value from `ticks` cycles ago":
\* a one-tick TICK_DELAY shows what its input node was after the previous cycle.
DelaysOneTick ==
    Done /\ ticks = 2 => \A m \in Of({"TICK_DELAY"}) : Par[m].ticks = 1 => At(m, 2) = WasAt(m, 1)

\* Once evaluated, CASE_EQ and IS_UNKNOWN follow their inputs within the tick.
CaseEqFollows ==
    Done => /\ \A m \in Of({"CASE_EQ"}) : Known(At(m, 3)) => (At(m, 3) = "H") = (At(m, 1) = At(m, 2))
            /\ \A m \in Of({"IS_UNKNOWN"}) : Known(At(m, 2)) => (At(m, 2) = "L") = Known(At(m, 1))

\* The bus an EIGHT_BIT_INPUT drives alone carries its value in the same tick (what
\* test_8bit of test/0006.digital/digital_blocks_smoke.cpp expects of 0xA5).
BusCarriesValue ==
    Done => \A m \in Of({"EIGHT_BIT_INPUT"}) :
        \A i \in 1..8 : Pins[m][i] # NoNode => At(m, i) = Bit(mem[m].value, 8 - i)

\* Within the tick in which its inputs change, a device without a clock shows the function
\* of its inputs, as the four definitions above have it for each: update_digital_clk_define()
\* runs on every event at its pins, and on the last one sees them settled.
OutputsFollow == ArithmeticRight /\ LatchAndResolve /\ CaseEqFollows /\ BusCarriesValue

\* A device with a clock (d_ff.h, counter4.h, random_generator4.h...) takes each rising edge
\* exactly once and from the right inputs, and nothing else for an edge.
EdgesTakenOnce == EdgeSemantics /\ CountsEdges /\ NeverLocks /\ NoSpuriousEdge

\* The nodes a VERILOG_MODULE drives show what its code computes from the settled nodes
\* at its inputs, however late in the tick those changed: evaluating it once more would
\* change nothing.
ModulesSettled ==
    Done => \A m \in Of({"VERILOG_MODULE"}) :
        LET again == EvaluateModule(Par[m].E, mem[m], PinView(m), mem[m].tick, FALSE)
        IN  \A w \in PortOutputs(Par[m].E, again.tree, PinView(m)) : At(m, w[1]) = w[2]

\* A VERILOG_MODULE with an always @(posedge clk) register (par.ff gives the pins) takes
\* each edge of a clock INPUT exactly once, though it is called many times in the tick, and
\* samples what other devices showed before the edge.  Modules that feed it come later in
\* netlist::models; a module listed earlier has already moved when this one samples.
ModulesClocked ==
    Done => \A m \in Of({"VERILOG_MODULE"}) :
        LET ff == Par[m].ff
            input == \E i \in Of({"INPUT"}) : Pins[i][1] = Pins[m][ff.d]
            d == IF input THEN At(m, ff.d) ELSE WasAt(m, ff.d)
            rose == WasAt(m, ff.clk) = "L" /\ At(m, ff.clk) = "H"
        IN  ff # <<>> => At(m, ff.q) = IF rose THEN d ELSE WasAt(m, ff.q)

\* verilog_module.h: a module is called before the tick settles and then on every event at
\* its pins; it ends the tick settled, and has taken each clock edge once.
ModulesInStep == ModulesSettled /\ ModulesClocked

-----------------------------------------------------------------------------

(***************************************************************************)
(* Properties of hybrid nodes.                                             *)
(***************************************************************************)
Samples == {s \in Of(GateKinds \cup {"OUTPUT"}) \X (1..2) :
                /\ s[2] \in DOMAIN Pins[s[1]] \ OutputPins(Kind[s[1]])
                /\ Pins[s[1]][s[2]] \in Hybrid}
AllPins == (UNION {DOMAIN n.dev : n \in Netlists}) \X (1..2)
Read(s) == mem[s[1]].in[s[2]].val
Voltage(s) == an[Pins[s[1]][s[2]]]

\* A gate or OUTPUT never takes a voltage at one rail for the other one: on every
\* tick the hybrid node is processed, and the reading is right or X.
NoWrongRail ==
    Done => \A s \in Samples : Level(Voltage(s)) # "X" => Read(s) \in {Level(Voltage(s)), "X"}

\* A voltage that stays at a rail is read as that level in the end: the setup and
\* hold times delay it but the X between the levels does not last.
HeldLevelRead ==
    \A s \in AllPins, l \in {"L", "H"} :
        <>[](s \in Samples /\ Level(Voltage(s)) = l) => <>[](s \in Samples /\ Read(s) = l)

\* SCHMITT_TRIGGER: above Vth_high it shows H, below Vth_low L, and in between what
\* it showed before, on every tick; comparator and IS_UNKNOWN follow the voltages.
HybridFollowed ==
    Done =>
        /\ \A m \in Of({"SCHMITT_TRIGGER"}) :
             Pins[m][1] \in Hybrid /\ Pins[m][2] \notin Hybrid =>
                LET v == 3 * an[Pins[m][1]]
                    out == IF v >= 10 THEN "H" ELSE IF v <= 5 THEN "L" ELSE prev.mem[m].out
                IN  At(m, 2) = IF Par[m].inverted THEN Not4(out) ELSE out
        /\ \A m \in Of({"comparator"}) :
             (At(m, 3) = "H") = (an[Pins[m][1]] >= an[Pins[m][2]]) /\ Known(At(m, 3))
        /\ \A m \in Of({"IS_UNKNOWN"}) :
             Pins[m][1] \in Hybrid => At(m, 2) = IF Level(an[Pins[m][1]]) = "X" THEN "H" ELSE "L"

\* The last voltage a tick asks for on a hybrid node is the one of the settled
\* inputs of the gate or INPUT behind it, not of a glitch on the way.
LastDriveSettled ==
    Done => \A m \in Of(GateKinds \cup {"INPUT"}) :
        LET n == Pins[m][Len(Pins[m])]
            mine == {i \in DOMAIN digital_out : digital_out[i][1] = n}
            in(i) == IF Pins[m][i] \in Hybrid THEN mem[m].in[i].val ELSE At(m, i)
            res == IF Kind[m] = "INPUT" THEN mem[m].outputA
                   ELSE GateFn(Kind[m], in(1), in(Len(mem[m].in)))
        IN  n \in Hybrid /\ res # "Z" =>
                mine # {} /\ \A i \in mine : (\A j \in mine : j <= i) => digital_out[i][2] = Volts(res)

\* verilog_module.h "Emit at most one analog drive per call ...: rotate across analog output
\* ports": one voltage per call is enough calls for every hybrid output of a module to be
\* given a voltage in every tick.
ModuleDrivesAll ==
    Done => \A m \in Of({"VERILOG_MODULE"}) : \A w \in PortOutputs(Par[m].E, mem[m].tree, PinView(m)) :
        Pins[m][w[1]] \in Hybrid /\ w[2] # "Z" => Driven(Pins[m][w[1]]) # {}

\* A tri-state buffer keeps its output node pending until the budget ends the tick; its
\* output is then that of its inputs all the same, and it lets go of the node when disabled.
TriDrives ==
    phase = "table" /\ queue = <<>> /\ (tables = {} \/ budget = 0) =>
        \A m \in Of({"TRI"}) :
            LET enabled == IF Pins[m][2] \in Hybrid THEN Level(an[Pins[m][2]]) = "H" ELSE At(m, 2) = "H"
            IN  At(m, 3) = IF enabled THEN At(m, 1) ELSE "Z"

\* Devices that read voltages directly follow them on every tick, though no digital event
\* announces a change (circuit.h:309 makes all hybrid nodes pending).
AnalogFollowed == HybridFollowed /\ TriDrives

-----------------------------------------------------------------------------

(***************************************************************************)
(* On a netlist of gates, INPUTs and OUTPUTs without hybrid nodes, this    *)
(* module implements DigitalTable: fixed visiting orders are among the     *)
(* orders it allows, and the sampling of inputs is invisible.  The         *)
(* Netlists may differ in their layouts only (GateNetlists).               *)
(***************************************************************************)
PinName(p) == IF p[2] \in OutputPins(Kind[p[1]]) THEN <<p[1], "o">>
              ELSE <<p[1], IF p[2] = 1 THEN "ia" ELSE "ib">>

TheNetlist == CHOOSE n \in Netlists : TRUE
The(kinds) == {m \in DOMAIN TheNetlist.dev : TheNetlist.dev[m].kind \in kinds}
ThePins(m) == TheNetlist.dev[m].pins

GateNetlists ==
    /\ Netlists # {}
    /\ \A n \in Netlists :
         /\ n.dev = TheNetlist.dev /\ Range(n.nodes) = Range(TheNetlist.nodes) /\ n.hybrid = {}
         /\ \A m \in DOMAIN n.dev : /\ n.dev[m].kind \in GateKinds \cup {"INPUT", "OUTPUT"}
                                    /\ n.dev[m].attr \subseteq Val
         /\ \A x \in Range(n.nodes) : \E m \in DOMAIN n.dev : x \in Range(n.dev[m].pins)

Table == INSTANCE DigitalTable WITH
    Nodes <- Range(TheNetlist.nodes),
    Gates <- The(GateKinds), Inputs <- The({"INPUT"}), Outputs <- The({"OUTPUT"}),
    Kind <- [g \in The(GateKinds) |-> TheNetlist.dev[g].kind],
    IA <- [m \in The(GateKinds \cup {"OUTPUT"}) |-> ThePins(m)[1]],
    IB <- [g \in The(GateKinds) |-> IF Len(ThePins(g)) = 3 THEN ThePins(g)[2] ELSE NoNode],
    O <- [m \in The(GateKinds \cup {"INPUT"}) |-> ThePins(m)[Len(ThePins(m))]],
    state <- dn,
    outputA <- [i \in Of({"INPUT"}) |-> mem[i].outputA],
    last <- [m \in Of(GateKinds \cup {"INPUT"}) |-> mem[m].last],
    inputA <- [o \in Of({"OUTPUT"}) |-> mem[o].in[1].val],
    before <- IF phase = "before" THEN Range(queue) ELSE {},
    todo <- IF phase = "table" THEN {PinName(p) : p \in Range(queue)} ELSE {},
    has_prepare <- TRUE

\* Every digital_clk() with the engine's own devices and visiting orders is a
\* digital_clk() of the abstract update-table loop that the proofs are about.
ImplementsTable == Table!Spec
=============================================================================
