------------------------------- MODULE Synth -------------------------------
(***************************************************************************)
(* The optimising half of synthesize_to_pe_netlist                         *)
(* (verilog/digital/pe_synth.h): the passes in their order, the limits on  *)
(* the size of the netlist, the fixpoint loop of O4 and the search of      *)
(* Omax.  What a pass makes of a netlist, and when the verification finds  *)
(* two netlists equivalent, are constant operators: SynthPasses and        *)
(* SynthFunction define them.                                              *)
(*                                                                         *)
(* Each pass is one action.  With assume_binary_inputs, level 3 goes on    *)
(* with qm_2lvl and others after aig_rewrite; these are not modelled and   *)
(* the model stops there.                                                  *)
(***************************************************************************)
EXTENDS FourState, Integers, FiniteSets, Sequences

CONSTANTS
    Jobs,        \* calls to make:
                 \*   start   the netlist: cells, nodes, ports (the protected nodes)
                 \*   opt     pe_synth_options: level, always (the passes among wires,
                 \*           mul2 and adders asked for by name: optimize_wires, ...),
                 \*           binary (assume_binary_inputs),
                 \*           max_nodes, max_models, max_gates (0 for no limit), and for
                 \*           Omax tries (omax_max_iter), regress, verify, timed (is there
                 \*           a time limit?) and weight (of each kind of gate in the cost)
    MaxRounds,   \* rounds of the fixpoint loop
    Rewritten(_, _, _, _),   \* what the pass of a name may make of a netlist with given
                             \* protected nodes, inputs assumed binary or not
    Equivalent(_, _)         \* omax_verify_equivalence: netlist given, candidate

Kinds == GateKinds \cup {"IN", "C0", "C1", "OUTPUT", "DFF", "HALF_ADDER", "FULL_ADDER", "MUL2"}

CellType == [k : Kinds, in : Seq(Nat), out : Seq(Nat)]

NetType == [cells : Seq(CellType), nodes : Nat]

ASSUME JobsAssumption ==
    \A job \in Jobs :
        /\ [cells |-> job.start.cells, nodes |-> job.start.nodes] \in NetType
        /\ job.opt.level \in Nat
        /\ \A k \in GateKinds : job.opt.weight[k] \in Nat

VARIABLES
    start,       \* the netlist given
    opt,
    net,         \* the netlist now
    todo,        \* passes left in this run_once
    round,       \* number of this run_once in the fixpoint loop
    before,      \* gates at its start
    iter,        \* number of this try of the Omax loop, from 0
    best,        \* best_snapshot
    costs,       \* costs of the netlist given and of every candidate
    status       \* "running", "done", "failed" or "beyond" (what is not modelled)

vars == <<start, opt, net, todo, round, before, iter, best, costs, status>>

\* count_logic_gates
Gates(n) == Cardinality({i \in DOMAIN n.cells : n.cells[i].k \in GateKinds})

\* compute_omax_cost
Cost(n, o) ==
    LET upto[i \in 0..Len(n.cells)] ==
            IF i = 0 THEN 0
            ELSE upto[i - 1] + (IF n.cells[i].k \in GateKinds THEN o.weight[n.cells[i].k] ELSE 0)
    IN  upto[Len(n.cells)]

\* The passes with the lowest level that runs them.
Pipeline ==
    << <<"wires", 1>>, <<"mul2", 2>>, <<"adders", 2>>, <<"constprop", 1>>, <<"factor", 2>>, <<"absorb", 2>>,
       <<"xor_rewrite", 2>>, <<"flatten", 2>>, <<"binary_simplify", 3>>, <<"constprop2", 3>>,
       <<"aig_rewrite", 3>>, <<"qm_2lvl", 3>>, <<"push_inv", 2>>, <<"double_not", 1>>, <<"fuse_inv", 1>>,
       <<"strash", 1>>, <<"dce", 1>> >>

BinaryOnly == {"binary_simplify", "constprop2", "aig_rewrite", "qm_2lvl"}

Enabled(o, p) == p[1] \in o.always \/ (p[2] <= o.level /\ (p[1] \in BinaryOnly => o.binary))

Passes(o) ==
    LET enabled == SelectSeq(Pipeline, LAMBDA p : Enabled(o, p))
    IN  [j \in DOMAIN enabled |-> enabled[j][1]]

Init ==
    /\ \E job \in Jobs : start = job.start /\ opt = job.opt
    /\ net = [cells |-> start.cells, nodes |-> start.nodes]
    /\ todo = Passes(opt)
    /\ round = 1
    /\ before = Gates(net)
    /\ iter = 0
    /\ best = net
    /\ costs = {Cost(net, opt)}
    /\ status = "running"

Exceeds(n, limit) == limit # 0 /\ n > limit

\* Nodes are counted with the ground node.
NodesExceeded(n) == Exceeds(n.nodes + 1, opt.max_nodes)

\* Mutant: nothing is restored.
RestoredNot(snapshot, n) == n

\* restore_from_snapshot: nodes made since are kept.
Restored(snapshot, n) == [cells |-> snapshot.cells, nodes |-> n.nodes]

\* run_pass: too many nodes end this run_once, too many models or gates undo the pass.
RunPass(name) ==
    /\ status = "running"
    /\ todo # <<>>
    /\ Head(todo) = name
    /\ \E out \in Rewritten(name, net, start.ports, opt.binary) :
          LET undo == Exceeds(Len(out.cells), opt.max_models) \/ Exceeds(Gates(out), opt.max_gates)
          IN  IF NodesExceeded(net) THEN todo' = <<>> /\ net' = net
              ELSE /\ net' = IF undo THEN Restored(net, out) ELSE out
                   /\ todo' = IF NodesExceeded(out) THEN <<>> ELSE Tail(todo)
    /\ UNCHANGED <<start, opt, round, before, iter, best, costs, status>>

WiresPass == RunPass("wires")

Mul2Pass == RunPass("mul2")

AddersPass == RunPass("adders")

ConstPropPass == RunPass("constprop")

FactorPass == RunPass("factor")

AbsorbPass == RunPass("absorb")

XorRewritePass == RunPass("xor_rewrite")

FlattenPass == RunPass("flatten")

BinarySimplifyPass == RunPass("binary_simplify")

ConstProp2Pass == RunPass("constprop2")

AigRewritePass == RunPass("aig_rewrite")

\* The passes from qm_2lvl on.
Qm2lvlPass ==
    /\ status = "running"
    /\ todo # <<>>
    /\ Head(todo) = "qm_2lvl"
    /\ status' = "beyond"
    /\ UNCHANGED <<start, opt, net, todo, round, before, iter, best, costs>>

PushInvPass == RunPass("push_inv")

DoubleNotPass == RunPass("double_not")

FuseInvPass == RunPass("fuse_inv")

StrashPass == RunPass("strash")

DcePass == RunPass("dce")

-----------------------------------------------------------------------------

EndOfRound == status = "running" /\ todo = <<>>

Again == opt.level >= 4 /\ Gates(net) < before /\ round < MaxRounds

\* run_o34_fixpoint: another round as long as gates go away.
NextRound ==
    /\ EndOfRound
    /\ Again
    /\ todo' = Passes(opt)
    /\ round' = round + 1
    /\ before' = Gates(net)
    /\ UNCHANGED <<start, opt, net, iter, best, costs, status>>

\* Levels below Omax end after the fixpoint loop.
Return ==
    /\ EndOfRound
    /\ ~Again
    /\ opt.level < 5
    /\ status' = "done"
    /\ UNCHANGED <<start, opt, net, todo, round, before, iter, best, costs>>

-----------------------------------------------------------------------------

(***************************************************************************)
(* The Omax loop.                                                          *)
(***************************************************************************)

\* The start of a try with a time limit: time is up.
TimedOut ==
    /\ status = "running"
    /\ opt.level >= 5 /\ opt.timed
    /\ round = 1 /\ todo = Passes(opt)
    /\ net' = Restored(best, net)
    /\ status' = "done"
    /\ UNCHANGED <<start, opt, todo, round, before, iter, best, costs>>

EndOfTry == EndOfRound /\ ~Again /\ opt.level >= 5

\* A candidate that fails verification ends the synthesis, and stays in place.
VerifyFails ==
    /\ EndOfTry
    /\ opt.verify
    /\ ~Equivalent(start, net)
    /\ status' = "failed"
    /\ UNCHANGED <<start, opt, net, todo, round, before, iter, best, costs>>

\* Mutant: the last candidate is taken for the best.
BetterLast == net

Better == IF Cost(net, opt) < Cost(best, opt) THEN net ELSE best

\* Another try, from the best netlist so far or from this candidate.
NextTry ==
    /\ EndOfTry
    /\ opt.verify => Equivalent(start, net)
    /\ iter + 1 < opt.tries
    /\ best' = Better
    /\ costs' = costs \cup {Cost(net, opt)}
    /\ iter' = iter + 1
    /\ net' = IF opt.regress THEN net ELSE Restored(best', net)
    /\ before' = Gates(net')
    /\ todo' = Passes(opt)
    /\ round' = 1
    /\ UNCHANGED <<start, opt, status>>

\* The last try is over: the best netlist is put back.
EndTries ==
    /\ EndOfTry
    /\ opt.verify => Equivalent(start, net)
    /\ iter + 1 >= opt.tries
    /\ best' = Better
    /\ costs' = costs \cup {Cost(net, opt)}
    /\ net' = Restored(best', net)
    /\ status' = "done"
    /\ UNCHANGED <<start, opt, todo, round, before, iter>>

Next ==
    \/ WiresPass \/ Mul2Pass \/ AddersPass \/ ConstPropPass \/ FactorPass \/ AbsorbPass
    \/ XorRewritePass \/ FlattenPass \/ BinarySimplifyPass \/ ConstProp2Pass \/ AigRewritePass
    \/ Qm2lvlPass \/ PushInvPass \/ DoubleNotPass \/ FuseInvPass \/ StrashPass \/ DcePass
    \/ NextRound \/ Return \/ TimedOut \/ VerifyFails \/ NextTry \/ EndTries

Spec == Init /\ [][Next]_vars

-----------------------------------------------------------------------------

(***************************************************************************)
(* Properties.                                                             *)
(***************************************************************************)

\* A netlist never outgrows the limits on models and gates, unless it was given so: then it
\* is given back as it was.
LimitsKept ==
    \/ net.cells = start.cells
    \/ /\ ~Exceeds(Len(net.cells), opt.max_models)
       /\ ~Exceeds(Gates(net), opt.max_gates)

\* Omax "never regresses": it returns the cheapest of the netlist given and all candidates,
\* the first of which is costs O4, whatever the later tries started from.
OmaxNoRegress == status = "done" /\ opt.level >= 5 => \A c \in costs : Cost(net, opt) <= c
=============================================================================
