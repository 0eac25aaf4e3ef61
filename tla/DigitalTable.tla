---------------------------- MODULE DigitalTable ----------------------------
(***************************************************************************)
(* circult::digital_clk() on a netlist of purely digital gates.            *)
(*                                                                         *)
(* One call first updates every INPUT device (before_digital_clk), then    *)
(* drains the set `tables' of pending nodes: a node is taken out, and the  *)
(* model behind every pin on it is updated (update_table_digital_clk).  A  *)
(* gate writes its output node at once and puts the node back into         *)
(* `tables' only when its cached last_outputA changes.                     *)
(*                                                                         *)
(* The order in which nodes leave `tables' and pins of a node are visited  *)
(* is the order of their heap addresses, which the program does not        *)
(* choose; here it is any order.                                           *)
(***************************************************************************)
EXTENDS Integers, FourState

CONSTANTS
    Nodes,    \* nodes of the netlist, none with an analog pin
    Gates, Inputs, Outputs,   \* the models: logic gates, INPUT and OUTPUT devices
    Kind,     \* [Gates -> GateKinds]
    IA, IB,   \* node of a gate's or OUTPUT's first, of a gate's second input pin
    O,        \* node of a gate's or INPUT's output pin
    NoNode,   \* a pin that is not connected
    Budget    \* iter_budget: nodes taken out of `tables' per call

Drivers == Gates \cup Inputs
Node == Nodes \cup {NoNode}

ASSUME NetlistAssumption ==
    /\ Gates \cap Inputs = {} /\ Gates \cap Outputs = {} /\ Inputs \cap Outputs = {}
    /\ Kind \in [Gates -> GateKinds]
    /\ IA \in [Gates \cup Outputs -> Node]
    /\ IB \in [Gates -> Node]
    /\ O \in [Drivers -> Node]
    /\ NoNode \notin Nodes

ASSUME BudgetAssumption == Budget \in Nat

VARIABLES
    state,        \* node_information.dn.state of every node
    outputA,      \* INPUT.outputA, set through set_attribute
    last,         \* last_outputA of every gate and INPUT
    inputA,       \* OUTPUT.inputA, what the user reads back
    tables,       \* digital_update_tables.tables
    phase,        \* where digital_clk() stands
    before,       \* INPUTs the loop of before_digital_clk has not reached
    todo,         \* pins of the node taken last that have not been visited
    budget,       \* iter_budget of this call
    has_prepare,  \* circult::has_prepare
    lost          \* ghost: nodes that were pending when prepare() cleared `tables'

vars == <<state, outputA, last, inputA, tables, phase, before, todo, budget, has_prepare, lost>>
clk == <<phase, before, todo, budget>>

TwoInput(g) == Kind[g] \notin {"NOT", "YES"}

\* Mutant: the second input pin is missing from node_t::pins.
NodePinsWithoutIB(n) ==
    {p \in Drivers \X {"o"} : O[p[1]] = n}
      \cup {p \in (Gates \cup Outputs) \X {"ia"} : IA[p[1]] = n}

\* node_t::pins, a pin being a device and the pin's name.
NodePins(n) ==
    {p \in Drivers \X {"o"} : O[p[1]] = n}
      \cup {p \in (Gates \cup Outputs) \X {"ia"} : IA[p[1]] = n}
      \cup {p \in Gates \X {"ib"} : TwoInput(p[1]) /\ IB[p[1]] = n}

-----------------------------------------------------------------------------

(***************************************************************************)
(* update_digital_clk of the devices.  Drive is the common tail of INPUT   *)
(* and of the gates: refresh last_outputA, write the node, and make the    *)
(* node pending only if last_outputA changed.                              *)
(***************************************************************************)
Connected(g) == IA[g] # NoNode /\ O[g] # NoNode /\ (TwoInput(g) => IB[g] # NoNode)

Drive(d, output_res) ==
    /\ last' = [last EXCEPT ![d] = output_res]
    /\ state' = [state EXCEPT ![O[d]] = output_res]
    /\ tables' = IF last[d] # output_res THEN tables \cup {O[d]} ELSE tables

UpdateInput(i) ==
    /\ IF O[i] # NoNode THEN Drive(i, outputA[i]) ELSE UNCHANGED <<last, state, tables>>
    /\ UNCHANGED inputA

OutputRes(g) == GateFn(Kind[g], state[IA[g]], IF TwoInput(g) THEN state[IB[g]] ELSE "X")

UpdateGate(g) ==
    /\ IF Connected(g) THEN Drive(g, OutputRes(g)) ELSE UNCHANGED <<last, state, tables>>
    /\ UNCHANGED inputA

UpdateOutput(o) ==
    /\ inputA' = [inputA EXCEPT ![o] = state[IA[o]]]
    /\ UNCHANGED <<last, state, tables>>

-----------------------------------------------------------------------------

(***************************************************************************)
(* The state right after the first prepare(): every node that has a pin is *)
(* X, the devices are as constructed, INPUT.outputA as the caller gave it. *)
(***************************************************************************)
Init ==
    /\ state = [n \in Nodes |-> IF NodePins(n) = {} THEN "L" ELSE "X"]
    /\ outputA \in [Inputs -> Val]
    /\ last = [d \in Drivers |-> "X"]
    /\ inputA = [o \in Outputs |-> "X"]
    /\ tables = {} /\ lost = {}
    /\ phase = "idle" /\ before = {} /\ todo = {} /\ budget = 0
    /\ has_prepare = TRUE

\* set_attribute(0, v) on an INPUT, between two calls of digital_clk().
SetAttribute(i, v) ==
    /\ phase = "idle"
    /\ outputA' = [outputA EXCEPT ![i] = v]
    /\ UNCHANGED <<state, last, inputA, tables, has_prepare, lost>> /\ UNCHANGED clk

DigitalClk ==
    /\ phase = "idle"
    /\ phase' = "before" /\ before' = Inputs
    /\ UNCHANGED <<todo, budget, state, outputA, last, inputA, tables, has_prepare, lost>>

\* One iteration of before_digital_clk().
BeforeModel(i) ==
    /\ phase = "before" /\ i \in before
    /\ UpdateInput(i)
    /\ before' = before \ {i}
    /\ UNCHANGED <<phase, todo, budget, outputA, has_prepare, lost>>

\* Entry of update_table_digital_clk(); there are no always_tables nodes here.
EnterTable ==
    /\ phase = "before" /\ before = {}
    /\ phase' = "table" /\ budget' = Budget
    /\ UNCHANGED <<before, todo, state, outputA, last, inputA, tables, has_prepare, lost>>

\* Mutant: the iteration budget is tested but not spent.
TakeNodeForFree(n) ==
    /\ phase = "table" /\ todo = {} /\ n \in tables /\ budget > 0
    /\ tables' = tables \ {n}
    /\ todo' = NodePins(n)
    /\ lost' = lost \ {n}
    /\ UNCHANGED <<phase, before, budget, state, outputA, last, inputA, has_prepare>>

\* One iteration of its loop takes a pending node out...
TakeNode(n) ==
    /\ phase = "table" /\ todo = {} /\ n \in tables /\ budget > 0
    /\ budget' = budget - 1
    /\ tables' = tables \ {n}
    /\ todo' = NodePins(n)
    /\ lost' = lost \ {n}
    /\ UNCHANGED <<phase, before, state, outputA, last, inputA, has_prepare>>

\* ... and updates the model behind each of its pins, output pins included.
VisitPin(p) ==
    /\ phase = "table" /\ p \in todo
    /\ todo' = todo \ {p}
    /\ \/ p[1] \in Inputs /\ UpdateInput(p[1])
       \/ p[1] \in Gates /\ UpdateGate(p[1])
       \/ p[1] \in Outputs /\ UpdateOutput(p[1])
    /\ UNCHANGED <<phase, before, budget, outputA, has_prepare, lost>>

\* The loop ends when nothing is pending, or is cut when the budget is spent.
LeaveTable ==
    /\ phase = "table" /\ todo = {} /\ (tables = {} \/ budget = 0)
    /\ phase' = "idle" /\ budget' = 0
    /\ UNCHANGED <<before, todo, state, outputA, last, inputA, tables, has_prepare, lost>>

\* prepare(), as the next analyze() runs it: it drops what is still pending.
Prepare ==
    /\ phase = "idle"
    /\ lost' = IF has_prepare THEN lost \cup tables ELSE {}
    /\ tables' = {}
    /\ state' = IF has_prepare THEN state
                ELSE [n \in Nodes |-> IF NodePins(n) = {} THEN state[n] ELSE "X"]
    /\ has_prepare' = TRUE
    /\ UNCHANGED <<outputA, last, inputA>> /\ UNCHANGED clk

Step ==
    \/ \E i \in Inputs : BeforeModel(i)
    \/ EnterTable
    \/ \E n \in Nodes : TakeNode(n)
    \/ \E p \in todo : VisitPin(p)
    \/ LeaveTable

Next ==
    \/ \E i \in Inputs, v \in Val : SetAttribute(i, v)
    \/ DigitalClk
    \/ Step
    \/ Prepare

Spec == Init /\ [][Next]_vars

\* digital_clk() is one call on one thread: once entered, it keeps running.
FairSpec == Spec /\ WF_vars(Step)

-----------------------------------------------------------------------------

(***************************************************************************)
(* circult::reset() between two analyses.  Nothing in it, nor in the       *)
(* prepare() that follows, touches the devices.                            *)
(***************************************************************************)
Reset ==
    /\ phase = "idle"
    /\ has_prepare' = FALSE
    /\ tables' = {}
    /\ lost' = lost \cup tables
    /\ UNCHANGED <<state, outputA, last, inputA>> /\ UNCHANGED clk

ResetSpec == Init /\ [][Next \/ Reset]_vars

-----------------------------------------------------------------------------

(***************************************************************************)
(* Properties                                                              *)
(***************************************************************************)

\* Types of the variables: every node, cache and pending set of digital_clk()
\* stays in its range, the budget between 0 and iter_budget.
TypeOK ==
    /\ state \in [Nodes -> Val]
    /\ outputA \in [Inputs -> Val]
    /\ last \in [Drivers -> Val]
    /\ inputA \in [Outputs -> Val]
    /\ tables \subseteq Nodes
    /\ lost \subseteq Nodes
    /\ phase \in {"idle", "before", "table"}
    /\ before \subseteq Inputs
    /\ todo \subseteq (Drivers \X {"o"}) \cup ((Gates \cup Outputs) \X {"ia"}) \cup (Gates \X {"ib"})
    /\ budget \in 0..Budget
    /\ has_prepare \in BOOLEAN

\* No two devices drive node n: the netlists a designer means to build.
SingleDriver(n) == \A d, e \in Drivers : O[d] = n /\ O[e] = n => d = e

Clean(g) ==
    /\ Connected(g)
    /\ SingleDriver(O[g]) /\ SingleDriver(IA[g])
    /\ TwoInput(g) => SingleDriver(IB[g])

\* The cache that suppresses events is right: last_outputA of a device equals the
\* state of the node it alone drives, so "no change" really means no change.
CacheCoherent ==
    \A d \in Drivers :
        O[d] # NoNode /\ SingleDriver(O[d]) /\ (d \in Gates => Connected(d))
            => last[d] = state[O[d]]

\* No event is lost inside the drain loop: a gate or OUTPUT that does not reflect
\* its input nodes has one of them still pending, or a pin still to be visited (or
\* prepare() threw the pending node away).
StaleArePending ==
    /\ \A g \in Gates : Clean(g) =>
         \/ state[O[g]] = OutputRes(g)
         \/ IA[g] \in tables \cup lost \/ <<g, "ia">> \in todo
         \/ TwoInput(g) /\ (IB[g] \in tables \cup lost \/ <<g, "ib">> \in todo)
    /\ \A o \in Outputs : IA[o] # NoNode /\ SingleDriver(IA[o]) =>
         \/ inputA[o] = state[IA[o]]
         \/ IA[o] \in tables \cup lost \/ <<o, "ia">> \in todo

\* What the drain loop is for: whenever digital_clk() is not running and nothing
\* is pending, every gate shows the function of its input nodes and every OUTPUT
\* the state of its node, whatever order the nodes and pins were visited in.
Settled ==
    phase = "idle" /\ tables = {} /\ lost = {} =>
        /\ \A g \in Gates : Clean(g) => state[O[g]] = OutputRes(g)
        /\ \A o \in Outputs :
             IA[o] # NoNode /\ SingleDriver(IA[o]) => inputA[o] = state[IA[o]]

\* circuit.h:315 "Process pending nodes until the queue is empty (combinational
\* settle in one tick)", read on a netlist without feedback and with reset() among the
\* calls: when the loop has emptied the queue, the gates have settled.
SettledWhenQueueEmpty ==
    phase = "table" /\ todo = {} /\ tables = {} /\ budget > 0 =>
        \A g \in Gates : Clean(g) => state[O[g]] = OutputRes(g)

\* circuit.h:316: the iteration budget keeps digital_clk() from hanging on an
\* oscillating combinational loop; every call returns.
ClkReturns == (phase # "idle") ~> (phase = "idle")
=============================================================================
