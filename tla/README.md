# A TLA+ model of phy_engine

phy_engine is a mixed-signal circuit simulator. This directory models its core in TLA+:
the digital tick, the digital devices, the netlist container, the circuit object that ties
analog analyses to them, the interpreter of Verilog designs, and the optimiser of the
synthesiser. TLC checks the models on small instances. TLAPS proves the main facts about
the digital tick, the netlist container, the floating subnets, the analyses and the search
of the optimiser for every netlist and setting.

Paths below are relative to `src/phy_engine_src/include/phy_engine/` unless they start
with `src/` or `test/`. `digital.h` is `verilog/digital/digital.h`, `pe_synth.h` is
`verilog/digital/pe_synth.h`. `PROJECT.json` maps every definition to the lines it stands
for, and lists the hazards of the code with the properties that cover them.

## The system and its parts

A caller (C++ code, or the C interface `dll_main.cpp`) builds a **netlist**: models in
chunks, nodes in chunks, and pins that connect them. A `circult` object owns the netlist.
The caller then alternates two calls on one thread:

- `analyze()` numbers nodes and branches (`prepare()`), stamps every model into a matrix
  and solves it, once or in Newton iterations, time steps or frequency points (`solve()`).
- `digital_clk()` is one digital tick. It first runs the devices that act on every tick,
  then drains a set of pending nodes until the digital part has settled.

The two halves meet at **hybrid** nodes, which carry analog and digital pins. A digital
device reads such a node as a voltage. A device that drives one returns a voltage, which
`digital_clk()` collects in `digital_out` and the next `analyze()` stamps as a source.
`node_t::num_of_analog_node` decides whether a node is digital, hybrid or analog.

The Verilog part compiles modules for an interpreter, or synthesises them into gates of
the netlist and optimises these. The interpreter runs behind its own C interface
(`verilog_runtime_*`), and as a digital device, `VERILOG_MODULE`. Around this are a file
format (PE-NL), conversions to and from physicsLab files, a layout engine, command-line
tools and a Python binding.

| Part | Code | Modules |
|---|---|---|
| four-state logic | `model/node/node.h` | `FourState` |
| digital tick, gates only, any order | `circuits/circuit.h` 298–354, 446–506 | `DigitalTable`, `MCDigitalTable`, `DigitalTableProofs` |
| all digital devices | `model/models/digital/**`, `comparator.h` | `DigitalDevices` |
| digital tick with all devices and hybrid nodes | `circuits/circuit.h` | `DigitalClk`, `MCDigitalClk`, `DigitalClkProofs`, `RefinementProofs` |
| netlist operations, copy, rollback, buffer removal | `netlist/*.h`, `model_refs/base.h`, `pe_synth.h` | `Netlist`, `MCNetlist`, `NetlistProofs`, `SnapshotProofs` |
| floating subnets | `circuits/floating_subnet/detect.h` | `FloatingSubnet`, `Walk`, `SnapshotProofs` |
| analyses | `circuits/circuit.h` 179–296, 389–989 | `Circuit`, `MCCircuit`, `CircuitProofs` |
| order of nested loops | netlist, digital tick, `prepare()` | `Order`, `OrderProofs` |
| Verilog interpreter | `digital.h` 10352–11950 | `VerilogSim`, `VerilogDesigns` |
| running designs, their copies | `dll_main.cpp` 312–762, `verilog_module.h` | `VerilogRuntime`, `MCVerilogRuntime` |
| optimisation passes | `pe_synth.h` | `SynthPasses` |
| what a netlist computes, verification | `pe_synth.h` | `SynthFunction` |
| order of the passes, limits, O4, Omax | `pe_synth.h` 17558–17847 | `Synth`, `SynthProofs` |
| the optimiser as a whole | `pe_synth.h` | `SynthSystem`, `MCSynth` |

`DigitalClk` composes the tick with the devices, and through `VERILOG_MODULE` with the
interpreter. On netlists of gates it implements `DigitalTable` (run `clk_refine`, theorem
`ImplementsTableCorrect`).

## How the models correspond to the code

**DigitalTable.** The state is the node states, each device's `last_outputA`, what an
OUTPUT last read, the set `tables`, and the loop variables of `digital_clk()`. Each
iteration of a loop is an action: `BeforeModel`, `TakeNode`, `VisitPin`. Nodes leave an
address-ordered set, and callers do not choose addresses, so the order is arbitrary here.
The netlist, with or without feedback and multiple drivers, is a constant. The ghost
`lost` remembers nodes that `prepare()` dropped after the budget had cut a tick.

**DigitalDevices / DigitalClk.** `DigitalDevices` gives `update_digital_clk_define()` of
each device as a function from its fields and the nodes at its pins to new fields,
written nodes, nodes made pending and voltages requested. `DigitalClk` runs them in the
engine's loop. A netlist record carries a heap layout (node and model addresses), so
order dependence shows as a difference between layouts. `analyze()` is one step here: it
gives undriven hybrid nodes any voltage and driven ones theirs, and fails when a node is
driven twice (two ideal sources in parallel make the matrix singular). Voltages are 0, 2
and 5 for low, between and high. The time an input has been at a level is counted up to
the larger of setup and hold time. A `VERILOG_MODULE` holds the state of its design as
`VerilogSim` has it; its tick is counted up to the first one, since the designs used here
have no delays.

**Netlist.** A netlist value holds chunks of slots (a slot is a model with its pins' nodes,
or a null model) and, per node, the set of pins it lists and `num_of_analog_node`. Counts
wrap modulo `SizeMod`, as `size_t` does. Each function of `operation.h` is an action. So
are snapshot, rollback (`restore_from_snapshot`) and `optimize_eliminate_yes_buffers` of
the synthesiser. `add_to_node` is called on unconnected pins only, as `dll_main.cpp` does.
`crashed` marks calls that dereference an end iterator; nothing follows them.
`FloatingSubnet` evaluates `detect()` in every reachable netlist; its two loops with an
explicit stack are in `Walk`, for any graph.

**Circuit.** `analyze()` is cut at each attempt to solve the equations. Between two attempts
it is a function on the record `c` (members and locals). Whether an attempt succeeds, or
Newton has converged, is a free choice, so all error paths are taken. `prepare()` reads of
the netlist only which nodes have analog pins and how many branches and internal nodes
each model has. Edits change analog models; `digital_clk()` requests any voltages on
hybrid nodes. Times are integers, and a frequency is the number of its point, so a linear
and a logarithmic sweep differ only in that the latter refuses to start at 0.

**VerilogSim / VerilogRuntime.** A compiled module is a record of signals, continuous
assignments, edge-triggered, combinational and initial blocks, and instances. `Elaborate`
gives each instance its port bindings and output drives; `Simulate` is `simulate()`:
initial blocks, due events and triggered blocks from the top down, then delta cycles of
`comb_resolve()`, then `update_prev_recursive()`. Vectors are sequences of bits, as the
code's `_vec` nodes treat them. What a round of `comb_resolve()` changed is the set of the
code's change marks. `VerilogRuntime` has an action for each `verilog_runtime_*` call that
changes the handle, and steps a copy of the design beside the original. `CombMaxIter` and
`LoopMaxIter` stand for the code's 64 and 4096.

**SynthPasses / Synth.** `Synth` has the control (order of passes, limits, tries) and takes
what a pass makes of a netlist, and what the verification accepts, as constant operators.
`SynthPasses` and `SynthFunction` define them, `SynthSystem` puts the parts together.
A netlist is a sequence of cells with the nodes at their pins.
A pass lists the gates at its start and rewrites one after the other from that list, as
the code does from its `gate_opt` vector, so that a node it listed may have lost its driver
by the time it is used. `Synth` runs the passes in the code's order, with the limits on
nodes, models and gates after each, the fixpoint loop of O4 and the tries of Omax. A time
limit may expire before any try of Omax. With `assume_binary_inputs` the model follows level 3 up to
`aig_rewrite` and then stops (`status = "beyond"`): what comes next is not modelled.

## Runs

| Run | Shows | Bounds |
|---|---|---|
| `gates` | No event is lost in any visiting order (`StaleArePending`), gates have settled when nothing is pending (`Settled`), every tick returns (`ClkReturns`). | 6 gates with a ring oscillator, a latch, a reconvergence, a doubly driven node; budget 6, so ticks are really cut |
| `clk_digital` | After one tick each device without a clock shows the function of its inputs (`OutputsFollow`), each clocked one has taken the edge once (`EdgesTakenOnce`), TICK_DELAY delays one tick (`DelaysOneTick`), Verilog modules are settled and clocked once (`ModulesInStep`); the queue drains (`QueueDrained`). | six netlists with every arithmetic, sequential, delay, comparison and bus device and three Verilog modules, two heap layouts each |
| `clk_hybrid` | Gates never mistake one rail for the other (`NoWrongRail`), devices that read a voltage follow it on every tick (`AnalogFollowed`), the last voltage requested belongs to the settled inputs (`LastDriveSettled`), a Verilog module with several hybrid outputs drives them all (`ModuleDrivesAll`). | four hybrid netlists, three voltages, setup 2, hold 1 |
| `clk_held` | A voltage held at a rail is eventually read (`HeldLevelRead`, liveness). | one gate, one OUTPUT on one hybrid node |
| `clk_refine` | `DigitalClk` implements `DigitalTable` under a refinement mapping (`ImplementsTable`). | 8 devices (gates, INPUT, OUTPUT), budget 9 |
| `netlist_calls` | Nodes list live pins only and null models are counted (`WellFormed`), positions and counts are kept (`PositionsStable`, `CountsKept`), rollback restores connections (`RolledBack`), buffer removal keeps sources (`SourceKept`), `detect()` is exact (`FloatingExact`). | chunks of 2, up to 4 models and 3 nodes, 4 calls from five start netlists |
| `analyze` | Every analysis returns (`AnalyzeReturns`), restores `at` (`AtRestored`), numbers rows without overlap (`RowsDisjoint`), stamps requested voltages at their own node (`StampsOwnNode`), bases AC on its own operating point (`OperatingPointFirst`), and leaves time and results consistent (`TimeAdvances`, `SweepComplete`). | two netlists, three settings, 2 Newton iterations, time up to 7 |
| `verilog` | After `simulate()` everything combinational is up to date (`CombSettled`) and a repeated call changes nothing (`Repeatable`); registers shift once per edge (`ShiftsByOne`), across instances as within one (`HierarchyTransparent`); initial blocks run once and on time (`InitialTimeline`); loops, subprograms and width conversions compute what is written (`AsWritten`); a copy behaves alike (`CopyAgrees`). | nine designs, ticks in any order up to 5, inputs L, H and (in one) Z, internal signals overwritten in three, 8 rounds of `comb_resolve()`, 5 iterations of a loop |
| `synth` | No pass changes what the ports show (`PassSound`), only eight of them can cut a port off (`CutsOnlyBy`), nodes keep one driver (`DriversKept`), limits are kept (`LimitsKept`), Omax returns the cheapest candidate (`OmaxNoRegress`), a verified result is right (`VerifiedResult`). | some 5000 netlists of up to 9 gates and some 140 of up to 18, levels 0 to 5, limits just below and above their sizes, 2 tries of Omax, 8 rounds of O4 |
| `gates_reset`, `clk_shift`, `synth_o1` | Disagreements between the code and its comments or docs (below). | |

Why the bounds suffice. The tick's hazards need two devices that share a node and one that
is reached along two paths, and every such shape is in the netlists. A budget of 6 is both
reached and not reached. Two models per chunk make every chunk boundary occur, and four
calls are room for a snapshot, two changes and a rollback. Two Newton iterations distinguish
first, last and exhausted; three sweep points distinguish first, middle and last; `t_stop` 3
with step 2 makes the last time step overshoot. One of the Verilog designs is deeper than
8 rounds, and one instance's clock is an expression of its parent. Loops of the designs end
by themselves, as synthesisable ones do. The netlists of `synth` are generated by the rewrite rules they are for: two
matches of any two rules in a row, listed in either order, with inner nodes read from
outside or not, which is where rewrites of one pass meet. For `factor` and `aig_rewrite` the
first match is one that only an earlier pass brings out (`HiddenStages`): three equal terms
that `constprop` leaves behind, and terms with a common factor that appear after
`binary_simplify` has run. Each of the eight passes in `Capturing` does cut a port off in this
run.

`netlist_calls`, `verilog` and `synth` end on purpose (four calls, the last tick, the end of
the synthesis), hence the disabled deadlock check there.

### Fairness

The engine is single-threaded: a call once entered runs on. `FairSpec` of DigitalTable
(`WF` of the steps inside a tick) and `Spec` of Circuit (`WF` of the solving steps) say
exactly this. `LoopSpec` of DigitalClk adds that the caller keeps alternating
`digital_clk()` with a transient `analyze()` that advances time, the loop of
`test/0006.digital/hybirds.cpp`. Strong fairness is used because the two calls disable
each other while they run. It is asked only of an `analyze()` that lets some input's age
grow: once all ages have reached their bound, a call that keeps the voltages changes
nothing, and fairness must not force a voltage to move. No fairness is put on the success of a solve. Within
`simulate()` and within an optimisation pass every loop has a bound, so termination there
is part of the functions themselves.

## What is proved

Every theorem below holds for every value of the constants that satisfies the named
assumptions; TLC evaluates these assumptions on every run.

| Theorem | Says | Module |
|---|---|---|
| `TypeCorrect` | The variables of the abstract tick stay in range. | `DigitalTableProofs` |
| `EventsNotLost` | Caches agree with nodes; a stale gate or OUTPUT has an event coming. | |
| `SettledCorrect` | With nothing pending, every singly driven gate shows the function of its inputs. | |
| `NoWrongRailCorrect` | After a tick no gate or OUTPUT takes one rail for the other. | `DigitalClkProofs` |
| `ImplementsTableCorrect` | On gates, INPUTs and OUTPUTs the engine implements `DigitalTable`. | `RefinementProofs` |
| `EngineSettles` | `SettledCorrect`, for the engine. | |
| `WellFormedCorrect` | Nodes list only pins of live models pointing back to them, addresses are unique, null models are counted. | `SnapshotProofs` |
| `RollbackCorrect` | A rollback restores the connections of the snapshot. | |
| `PositionsCorrect` | Only a rollback moves a model. | |
| `CountsCorrect` | Pin lists and analog counts stay exact, also where the counter wraps. | |
| `SourceCorrect` | The removal of buffers leaves every surviving pin with its source. | |
| `FloatingCorrect` | `detect()` returns the connected components without ground, each node once. | |
| `AtRestoredCorrect` | However `analyze()` returns, `at` is what the caller chose. | `CircuitProofs` |
| `OperatingPointCorrect` | A nonlinear AC point has an operating point of the same call. | |
| `TimeCorrect` | A transient covers `t_stop` in whole steps, or stands at the last good one. | |
| `SweepCorrect` | A sweep that succeeds recorded all its points, in order. | |
| `RowsCorrect` | No two unknowns share a row. | |
| `StampsCorrect` | A requested voltage is applied to the row of its own node. | |
| `LimitsCorrect` | The optimiser keeps the limits, or the cells it was given. | `SynthProofs` |
| `OmaxCorrect` | Omax returns nothing dearer than any candidate it considered. | |
| `VerifiedCorrect` | With `omax_verify` it returns what it was given or what passed the check. | |

**The abstract tick** (`DigitalTableProofs`): every netlist, budget and visiting order, from
`NetlistAssumption` (device sets are disjoint, pins map to nodes or to none) and
`BudgetAssumption` (a natural number). `Settled` is not inductive: it says nothing inside a
tick. The inductive invariant is `IInv == TypeInv /\ CacheCoherent /\ StaleArePending`.
While a node's pins are visited, a gate may be stale because one of its pins is still in
`todo`, so `StaleArePending` counts that as an event to come. A gate that rewrites its node
without announcing it loses an event only if its cache differs from the node, so
`CacheCoherent` is needed. `DriveNotifies` and `DriveKeepsStalePending` carry the argument;
every action is then either such a write or leaves nodes and devices alone
(`StutterKeepsStalePending`). The theorems are about `Spec`, without `reset()`, for which
`gates_reset` shows the claim to fail.

**The engine** (`DigitalClkProofs`, `RefinementProofs`): every netlist and heap layout, from `NetlistAssumption`
(each model is listed once, a pin is at a node of the netlist or open), `DeviceAssumption`,
`BudgetAssumption` and `SamplingAssumption` (numbers are numbers).

`NoWrongRailCorrect` is about all devices, any voltages, and any setup and hold times. It
speaks of the end of a tick. The inductive invariant `RailInv` adds what holds inside one:
a voltage not read yet is at a pending node, or behind a pin still to be visited
(`ReadOrPending`). It is established on entering the loop because `always_tables` holds
every hybrid node, and kept because a visited gate samples all its connected inputs
(`ConnectedGate`); an early return of a gate with an open pin leaves samples that
`NoWrongRail` does not count.

`ImplementsTableCorrect` is about `GateNetlists`: all netlists hold the same gates, INPUTs
and OUTPUTs at the same nodes, none of them hybrid or without a pin, and differ in
addresses only. The assumption `RefineGates` of `MCDigitalClk` has TLC confirm this of the netlists of
`clk_refine`. There is one lemma per action (`RefDigitalClk` to `RefLeaveTable`), each
showing the action to be an action of `DigitalTable` under the mapping. The work lists are
sequences here and sets there, so the invariant `RefInv` says that they list nothing twice:
removing the head then removes the element. What a gate computes from its sampled copies
is compared with the abstract gate in `GateRes`, its caching and pending in `DriveEffect`.
`EngineSettles` combines this theorem with `SettledCorrect`: `Loop` instantiates
`DigitalTableProofs` under the mapping, `WiringHolds` proves its assumptions, and the
`Same...` lemmas identify `Loop` with the instance that `ImplementsTable` uses.

**The netlist** (`NetlistProofs`, `SnapshotProofs`): every number of calls, models and nodes,
chunk size and width of the counters, from `SizesAssumption` (a chunk is smaller than the
range of its counter), `DevicesAssumption` (pin counts are numbers, a YES has two pins and drives the second) and
`StartAssumption` (the first netlist is well formed). `NetlistProofs` says what each
function does to places and pins (`...Effect`), and that it keeps a netlist sound
(`...Advances`). `SnapshotProofs` adds copies and the rollback. `WellFormed` is inductive for
single calls but not with snapshots: a rollback installs the copy. So `Inv` says the same of
the copy, that the copy has no node the netlist lacks (the rollback writes into the
netlist's nodes by number), and that the copy's connections are those saved. The loops over
models in `add_netlist()`, copy and rollback are handled with `LoopValues` of `OrderProofs`.

`SourceCorrect` follows a node back through the buffers that drive it, one per step, for as
many steps as there are nodes (`SourceChain`). Removing the buffer from a to b moves the
readers of b to a, so b is merged into a, and a chain of steps becomes one that is no longer
and has the same end (`ChainJoined`). The removal of all buffers is a loop of such steps
(`SourceLoop`). The property speaks of pins whose source no buffer drives, which excludes
rings of buffers, and of netlists whose nodes list the pins that point to them.

`FloatingCorrect` rests on two facts. Where nodes list their pins, the neighbours that
`detect()` walks to are the nodes a model ties to the node (`NeighboursTied`), and these
ties go both ways, so that components partition the nodes (`ReachSame`, `ReachOutside`).
And a walk visits what its start reaches (`WalkExact`). Its invariant `Walked` says that stack and visited list share no node and
name none twice, which bounds the rounds by the number of nodes; that together they are what
the walk has seen; and that the neighbours of visited nodes are seen, so that the visited
nodes are closed under ties once the stack is empty.

**Analyses** (`CircuitProofs`): every set of netlists and settings, every
bound on Newton's iteration and every choice of failing solves, from `NumbersAssumption`
(settings and netlists are of the right type, there is at least one Newton iteration).
`IInv` says, for each place where `analyze()` waits for a solve, what its locals hold: in
which kind of analysis the place is reached, that `saved_at` is the caller's choice while
`at` is overwritten, that the sweep index is one more than the number of results, and that a
transient stands a whole number of steps after its start with the present step beginning
before its end. It has one lemma for each function between two solves (`BeginGood`,
`SucceedGood`, `FailGood` and those they call), and `IInvNext` takes one case per action.
`RowInv` adds that, while a call runs, `nodes` is the sorted list of the netlist's unknowns and
`node_index` its inverse, whatever an earlier call had numbered, and that without an edit
`digital_out` names hybrid nodes only. Time is an integer here; rounding of `double` is not
covered.

**The optimiser's search** (`SynthProofs`): every set of jobs, and every meaning of the passes
and of the verification, from `JobsAssumption` (netlists given are of their type, levels and
weights are numbers). A pass is bracketed by `run_pass`, which undoes it when the result is too large;
the search keeps `best` and restores it on every way out. `LimitsInv` says of both netlists
that they are within the limits or have the given cells. `CostInv` says that `best` costs no more
than any cost seen, and `CheckedInv` that it was checked. `OmaxCorrect` has the hypothesis that
netlists stay of their type (`NetType`), since nothing is known of the passes there; TLC
checks this of the passes as part of `DriversKept`.

**Orders and loops** (`OrderProofs`): the engine's nested loops number and visit pairs of
indices in order. `Order` defines this order, and `OrderProofs` proves that `InOrder` lists every
element of a finite set of pairs once. Induction over numbers is proved from the
well-foundedness of `<` (`Induct`), for sets in place of predicates, and gives `LoopValues`:
a loop of n rounds goes through n + 1 values. The same module has the lemmas about chains of
steps and about walks on graphs that the netlist's theorems use.

The larger proof modules name Zenon as the prover of every step that says nothing else, and
SMT where a step needs arithmetic, sequences or records.

### Only model-checked

- Liveness (`ClkReturns`, `HeldLevelRead`, `AnalyzeReturns`): the prover has no rule for fairness.
- All properties of `verilog`, and `PassSound`, `CutsOnlyBy`, `DriversKept` and
  `VerifiedResult` of `synth`: what passes and the interpreter compute is defined by
  RECURSIVE operators, with which the prover loses arithmetic, and needs induction over
  data. `DigitalDevices` takes the interpreter, and `Synth` the passes, as constant operators,
  so that the theorems about engine and search do not depend on them.
- `ModulesInStep` and `ModuleDrivesAll`, which depend on that interpreter.
- `DelaysOneTick` and `QueueDrained`, which hold of the netlists of their run, not of all: a
  delay behind a gate takes one tick more, and a tri-state buffer keeps the queue filled.
- `OutputsFollow`, `EdgesTakenOnce`, `LastDriveSettled`, `AnalogFollowed`: not yet proved. They
  need an invariant about every device at once.

## Disagreements found

With a run:

- `gates_reset`: `reset()` makes nodes X but leaves the devices' caches, so unchanged INPUTs
  announce nothing and the gates behind them stay X.
- `clk_shift`: with two DFFs in a row, the new value can fall through both on one edge,
  depending on addresses.
- `synth_o1`: a pass of O1 may move a port's readers to a node whose driver it has just
  deleted (four inverters in a row, two gates that pass a constant on); the port is then X.

Modelled as the code has it, without a run:

- A tri-state buffer makes its own output pending on every call (`tri_state.h`), so the
  queue never drains, each tick uses up the budget, and pending nodes with higher addresses
  are not reached. `clk_hybrid` has one buffer and no reader of its node.
- An INPUT or a VERILOG_MODULE on a hybrid node requests its voltage twice per tick; the
  next `analyze()` fails (`AnalyzeFails`).
- `EIGHT_BIT_INPUT` whose first value is 0xFF never drives its bus (`eight_bit_input.h:28`).
- `CASE_EQ` shows X until its first event; `TICK_DELAY` behind a gate delays one tick more
  than its comment says (`tick_delay.h:14`).
- SCHMITT_TRIGGER, IS_UNKNOWN and CASE_EQ request an analog output only when it changes,
  while `digital_out` is cleared on every tick. Other devices with several hybrid outputs
  request a voltage for one of them only.
- A RANDOM_GENERATOR4 set to 15, and a `$urandom` bus of all ones, never move again.
- A VERILOG_MODULE whose clock node changes after the first phase of a tick sees the edge one
  tick late, or not at all if the node changes back.
- `merge_node()` and the buffer removal move pins without their share of
  `num_of_analog_node`; merging a node with itself empties it. Rollback clears the counts
  before it destroys the old models, which decrement them again (`pe_synth.h:511`, 521).
- Copies of a netlist lose `num_of_analog_node` and the null-model counts.
- `add_netlist()` fails on netlists with ground pins or null models, although
  `operation.h:331` says "i always != node_map.end()".
- After a netlist edit, `digital_out` may name a node with an outdated `node_index`, and the
  lists of digital models a deleted one.
- A failed transient step restores the time, not the voltages the models keep as history.
- A continuous assignment to a `logic` variable does not trigger the `always_comb` blocks
  that read it in the same call (`digital.h:10709`).
- Initial blocks run again in a copy, against "run once per instance"
  (`verilog/digital/README.md:19`); `CopyAgrees` leaves such designs out.
- Loops are cut at 4096 iterations and `comb_resolve()` at 64 rounds without a report. A
  combinational block behind exactly as many levels of nets as there are rounds never sees
  the change: the last round's marks are forgotten with the call. An
  initial block that turns out not to be a straight line keeps the events of the
  assignments scheduled before that was noticed, and executes them again.
- Adder and MUL2 cells lose known values when an input is X (from O2 on), unlike the gates
  they replace (`pe_synth.h:17613`).
- `omax_verify` fails on any netlist with adder, MUL2 or DFF cells, and leaves the failing
  candidate in the netlist.

## Not modelled

- Device equations and the numerical solvers (Eigen, CUDA): floating point.
- The Verilog preprocessor, parser and compiler, and the lowering of compiled modules to
  gates: conversions of text and trees without state; designs and netlists are given in
  their results' form.
- The optimiser's searches over truth tables (`qm_2lvl`, `techmap`, `bdd_decompose`, `resub`,
  `sweep`) and their CUDA accelerator: every step needs the function of whole cones.
- Of the passes: the limits of `factor` (16 terms, 64 gates); ports that no model reads, which
  `adders` and `mul2` do not look up among the protected nodes; a model added by a pass at the
  address of one it has deleted, whose pins the pass would then take for the old ones.
- `create_circuit_ex` of the C interface, which calls the passes on wires the caller made:
  it folds the callers' unnamed INPUTs into constants (`dll_main.cpp:1970`), and positions
  may then name deleted models (2839). The other handles and buffers of `dll_main.cpp`.
- PE-NL, physicsLab JSON, layout heuristics, command-line tools, the Python binding, the
  Android build: conversions and glue without state of their own.
- Vendored libraries (Eigen, Abseil, fast_io, LevelDB, the JSON header): by far most of the
  lines under `src/`, and not this project's code.

## Plan

1. `MnaStamps`: every analog model's stamp as signed entries; currents at its pins sum to zero.
2. `PeNl`: save and load; a loaded netlist equals the saved one.
3. `Handles`: life cycle of circuits and samples in `dll_main.cpp` and `pe_sim.h`.
4. Proofs: `AnalogFollowed` and `OutputsFollow`, device by device, on the pattern of `RailInv`.
