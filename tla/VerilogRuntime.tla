--------------------------- MODULE VerilogRuntime ---------------------------
(***************************************************************************)
(* A running Verilog design as its users drive it: the verilog_runtime_*   *)
(* functions of src/dll_main.cpp on one handle, and the copy of a          *)
(* VERILOG_MODULE (models/digital/verilog_module.h), which holds the same  *)
(* instance tree.                                                          *)
(*                                                                         *)
(* The C functions check their arguments and report errors through return  *)
(* codes without touching the handle; only the calls that succeed are      *)
(* actions.  A use of a destroyed handle is undefined and not modelled.    *)
(***************************************************************************)
EXTENDS VerilogSim

CONSTANTS
    Designs,    \* the designs to run, by name:
                \*   modules   the compiled modules
                \*   drive     values its inputs are set to
                \*   poke      signals verilog_runtime_set_signal_value is called for
                \*   last      bound on its ticks
                \*   copied    is a copy made of it?
                \*   timeline, twins, chain, expect   see the properties
    Pokes,      \* values it writes there
    MaxHeld,    \* bound on `held'
    MaxEvents,  \* no simulate() is called with more events than this scheduled
    None        \* no handle

VARIABLES
    top,    \* the design of the handle, or None
    tree,   \* top_instance
    tick,
    copy,   \* the instance tree of a copy that gets the same calls, or <<>> if there is none
    first,  \* tick of the first simulate(), or -1
    high,   \* largest tick simulated
    held    \* calls of simulate() since a value was last set from outside

vars == <<top, tree, tick, copy, first, high, held>>

\* Elaboration depends on the design alone.
Elab == [d \in DOMAIN Designs |-> Elaborate(Designs[d].modules, "top")]

TopModule == Elab[top][<<>>].mod

Inputs == UNION {ToSet(TopModule.ports[i].bits) :
                    i \in {j \in DOMAIN TopModule.ports : TopModule.ports[j].dir # "output"}}

Init ==
    /\ top = None
    /\ tree = <<>>
    /\ tick = 0
    /\ copy = <<>>
    /\ first = -1
    /\ high = -1
    /\ held = 0

Fresh(d) ==
    /\ top' = d
    /\ tree' = IF d = None THEN <<>> ELSE InitTree(Elab[d])
    /\ tick' = 0
    /\ copy' = <<>>
    /\ first' = -1
    /\ high' = -1
    /\ held' = 0

\* verilog_runtime_create, of a source that compiles and has the top module asked for.
Create ==
    /\ top = None
    /\ \E d \in DOMAIN Designs : Fresh(d)

\* verilog_runtime_destroy
Destroy == top # None /\ Fresh(None)

\* verilog_runtime_reset: the design is elaborated again.
Reset == top # None /\ Fresh(top)

Write(t, s, v) == [t EXCEPT ![<<>>].values[s] = v]

SetValue(s, v) ==
    /\ tree' = Write(tree, s, v)
    /\ copy' = IF copy = <<>> THEN copy ELSE Write(copy, s, v)
    /\ held' = 0
    /\ UNCHANGED <<top, tick, first, high>>

\* verilog_runtime_set_port_value: output ports are read-only.
SetPortValue ==
    /\ top # None
    /\ \E s \in Inputs : \E v \in Designs[top].drive : SetValue(s, v)

\* verilog_runtime_set_signal_value, on any signal of the top module, driven or not.
SetSignalValue ==
    /\ top # None
    /\ \E s \in Designs[top].poke : \E v \in Pokes : SetValue(s, v)

SimulateAt(k, seq) ==
    /\ \A p \in DOMAIN tree : Len(tree[p].events) <= MaxEvents
    /\ \E new \in {[t \in {tree, copy} \ {<<>>} |-> Simulate(Elab[top], t, k, seq)]} :
           /\ tree' = new[tree]
           /\ copy' = IF copy = <<>> THEN copy ELSE new[copy]
    /\ tick' = k
    /\ first' = IF first = -1 THEN k ELSE first
    /\ high' = IF k > high THEN k ELSE high
    /\ held' = IF held = MaxHeld THEN held ELSE held + 1
    /\ UNCHANGED top

\* verilog_runtime_step: any tick, with or without the sequential blocks.
Step ==
    /\ top # None
    /\ \E k \in 0..Designs[top].last, seq \in BOOLEAN : SimulateAt(k, seq)

\* verilog_runtime_tick
Tick ==
    /\ top # None
    /\ tick < Designs[top].last
    /\ SimulateAt(tick + 1, TRUE)

\* The copy constructor of VERILOG_MODULE.
Copy ==
    /\ top # None
    /\ Designs[top].copied
    /\ copy = <<>>
    /\ copy' = DeepCopy(tree)
    /\ UNCHANGED <<top, tree, tick, first, high, held>>

Next == Create \/ Destroy \/ Reset \/ SetPortValue \/ SetSignalValue \/ Step \/ Tick \/ Copy

Spec == Init /\ [][Next]_vars

-----------------------------------------------------------------------------

(***************************************************************************)
(* Properties.                                                             *)
(***************************************************************************)

\* The drivers of net s of instance p, one value each.
DriverValues(E, t, p, s) ==
    LET assigns == SelectSeq(E[p].mod.assigns, LAMBDA a : a.lhs = s /\ Holds(a.guard, t[p].values))
        own == [i \in DOMAIN assigns |-> Eval(assigns[i].rhs, t[p].values)]
        of(k) == LET d == SelectSeq(E[k].drives, LAMBDA x : x.dst[2] = s)
                 IN  [i \in DOMAIN d |-> Eval(d[i].src, t[k].values)]
        kids == E[p].kids
    IN  own \o FlattenSeq([i \in DOMAIN kids |-> of(kids[i])])

\* What a net shows for a sequence of drivers: Z if none drives it, X if two disagree.
NetValue(drivers) ==
    LET active == ToSet(drivers) \ {"Z"}
    IN  IF active = {} THEN "Z"
        ELSE IF Cardinality(active) = 1 THEN CHOOSE v \in active : TRUE
        ELSE "X"

\* Nothing combinational is out of date: each net shows what its drivers give, each
\* variable with a continuous assignment shows it, each instance input shows what it is
\* connected to, and each combinational block has nothing to change.
Consistent(E, t) ==
    \A p \in DOMAIN E :
        LET v == t[p].values
            m == E[p].mod
        IN  /\ \A s \in E[p].driven : v[s] = NetValue(DriverValues(E, t, p, s))
            /\ \A i \in DOMAIN m.assigns : LET a == m.assigns[i]
                                           IN  a.lhs \in m.reg => v[a.lhs] = Eval(a.rhs, v)
            /\ \A i \in DOMAIN E[p].bind :
                  v[E[p].bind[i].sig] = Eval(E[p].bind[i].src, t[Front(p)].values)
            /\ \A i \in DOMAIN m.combs : ExecRoots(m.combs[i].body, t[p], tick).values = v

\* No more delta cycles than this are needed to settle a design without loops.
Depth(E) ==
    LET size(p) == Cardinality(E[p].driven) + Len(E[p].mod.combs)
    IN  FoldLeft(LAMBDA n, p : n + size(p), 1, SetToSeq(DOMAIN E))

Settling == held * CombMaxIter >= Depth(Elab[top])

\* After simulate() everything combinational is up to date, across module boundaries and
\* whatever was set in between.  A design with more levels than comb_resolve has rounds
\* needs further calls, in proportion.
CombSettled == top # None /\ Settling => Consistent(Elab[top], tree)

\* Once settled, simulating the same tick again without the sequential blocks changes
\* nothing.  digital_clk() relies on this when it calls a VERILOG_MODULE several times
\* within one tick.
Repeatable == top # None /\ Settling => Simulate(Elab[top], tree, tick, FALSE) = tree

\* A straight-line initial block runs once: its target shows the last assignment whose
\* delays have passed since the first simulate(), however the ticks were stepped.
InitialTimeline ==
    top # None /\ held > 0 =>
        \A i \in DOMAIN Designs[top].timeline :
            LET line == Designs[top].timeline[i]    \* target and its pairs <<time, value>>
                past == {j \in DOMAIN line.steps : first + line.steps[j][1] <= high}
                now == CHOOSE j \in past : \A k \in past : k <= j
            IN  past # {} => tree[<<>>].values[line.sig] = line.steps[now][2]

\* Module boundaries do not show: a register in an instance and its twin in the top module
\* have the same value after every simulate().
HierarchyTransparent ==
    top # None /\ held > 0 =>
        \A pair \in Designs[top].twins : tree[<<>>].values[pair[1]] = tree[<<>>].values[pair[2]]

\* A chain of registers shifts by one place on a clock edge, and never otherwise: no value
\* falls through two of them, no edge is taken twice, and tick() takes every edge.
ShiftsByOne ==
    [][top # None /\ held' > 0 =>
          \A i \in DOMAIN Designs[top].chain :
              LET link == Designs[top].chain[i]     \* clk, from and to
                  old == tree[<<>>].values
                  new == tree'[<<>>].values
                  edge == Posedge(tree[<<>>], link.clk)
              IN  /\ new[link.to] # old[link.to] => edge /\ new[link.to] = old[link.from]
                  /\ edge /\ Tick => new[link.to] = old[link.from]
      ]_<<tree, tick, held>>

\* Outputs computed by loops with break and continue, by subprograms with return, and
\* through connections of a different width, are what the source says, given as an
\* expression of the top module's signals.
AsWritten ==
    top # None /\ Settling /\ (\A s \in Inputs : Known(tree[<<>>].values[s])) =>
        \A pair \in Designs[top].expect :
            tree[<<>>].values[pair[1]] = Eval(pair[2], tree[<<>>].values)

\* A copy behaves like the original (designs without initial blocks).
CopyAgrees ==
    copy # <<>> /\ (\A p \in DOMAIN tree : Elab[top][p].mod.initials = <<>>)
        => \A p \in DOMAIN tree : copy[p].values = tree[p].values /\ copy[p].prev = tree[p].prev
=============================================================================
