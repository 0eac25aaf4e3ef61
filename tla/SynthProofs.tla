---------------------------- MODULE SynthProofs ----------------------------
(***************************************************************************)
(* Proofs about Synth: what the limits and the search of Omax promise,     *)
(* for every job, whatever the passes make of a netlist and whatever the   *)
(* verification takes for equivalent.                                      *)
(***************************************************************************)
EXTENDS Synth, OrderProofs

\* n is as large as the limits allow, or as it was given.
Within(n) ==
    \/ n.cells = start.cells
    \/ /\ ~Exceeds(Len(n.cells), opt.max_models)
       /\ ~Exceeds(Gates(n), opt.max_gates)

\* Both netlists that a step may go on from are within the limits.
LimitsInv == Within(net) /\ Within(best)

\* The cost of the best netlist so far is a lower bound of all costs seen, and the search
\* ends with its cells.
CostInv ==
    /\ \A k \in GateKinds : opt.weight[k] \in Nat
    /\ opt.level \in Nat
    /\ best \in NetType
    /\ costs \in SUBSET Nat
    /\ \A c \in costs : Cost(best, opt) <= c
    /\ status = "done" /\ opt.level >= 5 => net.cells = best.cells

\* A netlist with the cells of n, nodes aside, has passed the verification, or they are the
\* cells of the netlist given.
Checked(n) ==
    \/ n.cells = start.cells
    \/ \E cand : cand.cells = n.cells /\ Equivalent(start, cand)

\* What the search keeps was checked, and is what it ends with.
CheckedInv ==
    /\ opt.level \in Nat
    /\ opt.verify => Checked(best)
    /\ status = "done" /\ opt.level >= 5 => net.cells = best.cells

\* With omax_verify, what the search returns has passed the verification.
ResultChecked == status = "done" /\ opt.level >= 5 /\ opt.verify => Checked(net)

-----------------------------------------------------------------------------

\* What a step of any pass does to the netlist.
PassEffect ==
    /\ UNCHANGED <<start, opt, best, costs>>
    /\ \/ net' = net
       \/ net'.cells = net.cells
       \/ ~Exceeds(Len(net'.cells), opt.max_models) /\ ~Exceeds(Gates(net'), opt.max_gates)
    /\ status # "done" /\ status' # "done"

\* Gates depends on the cells only.
LEMMA GatesOfCells ==
    ASSUME NEW m, NEW n, m.cells = n.cells
    PROVE  Gates(m) = Gates(n)
BY DEF Gates

\* Every pass is a run_pass, or stops.
LEMMA PassSteps ==
    ASSUME NEW name, RunPass(name)
    PROVE  PassEffect
<1>1. PICK out \in Rewritten(name, net, start.ports, opt.binary) :
          LET undo == Exceeds(Len(out.cells), opt.max_models) \/ Exceeds(Gates(out), opt.max_gates)
          IN  IF NodesExceeded(net) THEN todo' = <<>> /\ net' = net
              ELSE /\ net' = IF undo THEN Restored(net, out) ELSE out
                   /\ todo' = IF NodesExceeded(out) THEN <<>> ELSE Tail(todo)
  BY DEF RunPass
<1>2. Restored(net, out).cells = net.cells
  BY DEF Restored
<1>3. UNCHANGED <<start, opt, best, costs>> /\ status = "running" /\ status' = status
  BY DEF RunPass
<1> QED BY <1>1, <1>2, <1>3 DEF PassEffect

\* The steps of the search, by what they do.
LEMMA Steps ==
    ASSUME [Next]_vars
    PROVE  PassEffect \/ NextRound \/ Return \/ TimedOut \/ VerifyFails \/ NextTry \/ EndTries \/ UNCHANGED vars
<1>1. CASE Qm2lvlPass
  BY <1>1 DEF Qm2lvlPass, PassEffect
<1>2. ASSUME NEW name, RunPass(name) PROVE PassEffect
  BY <1>2, PassSteps
<1> QED
  BY <1>1, <1>2, Zenon DEF Next, WiresPass, Mul2Pass, AddersPass, ConstPropPass, FactorPass, AbsorbPass, XorRewritePass,
     FlattenPass, BinarySimplifyPass, ConstProp2Pass, AigRewritePass, PushInvPass, DoubleNotPass,
     FuseInvPass, StrashPass, DcePass

-----------------------------------------------------------------------------
(***************************************************************************)
(* The limits.                                                             *)
(***************************************************************************)

\* The netlist given is where the search starts.
LEMMA LimitsInit == Init => LimitsInv
<1> SUFFICES ASSUME Init PROVE LimitsInv
  OBVIOUS
<1> QED BY DEF Init, LimitsInv, Within

\* A netlist with the cells of one within the limits is within the limits.
LEMMA WithinCells ==
    ASSUME NEW m, NEW n, m.cells = n.cells, Within(n)
    PROVE  Within(m)
BY GatesOfCells DEF Within

\* run_pass undoes a step over the limits, and the search restores what was kept.
LEMMA LimitsNext == LimitsInv /\ [Next]_vars => LimitsInv'
<1> SUFFICES ASSUME LimitsInv, [Next]_vars PROVE LimitsInv'
  OBVIOUS
<1>0. Within(net) /\ Within(best)
  BY DEF LimitsInv
<1>1. ASSUME UNCHANGED <<start, opt>>, NEW n, Within(n), net' = n \/ net'.cells = n.cells
      PROVE  Within(net)'
  <2>1. net'.cells = n.cells  BY <1>1
  <2>2. Gates(net') = Gates(n)  BY <2>1, GatesOfCells
  <2> QED BY <1>1, <2>1, <2>2 DEF Within, Gates
<1>2. ASSUME UNCHANGED <<start, opt>>, NEW n, Within(n), best' = n
      PROVE  Within(best)'
  BY <1>2 DEF Within, Gates
<1>3. CASE PassEffect
  <2>1. UNCHANGED <<start, opt, best>>  BY <1>3 DEF PassEffect
  <2>2. Within(best)'  BY <1>0, <1>2, <2>1
  <2>3. Within(net)'
    <3>1. CASE net' = net \/ net'.cells = net.cells  BY <1>0, <1>1, <2>1, <3>1
    <3>2. CASE ~Exceeds(Len(net'.cells), opt.max_models) /\ ~Exceeds(Gates(net'), opt.max_gates)
      BY <2>1, <3>2 DEF Within, Gates
    <3> QED BY <1>3, <3>1, <3>2 DEF PassEffect
  <2> QED BY <2>2, <2>3 DEF LimitsInv
<1>4. CASE NextRound \/ Return \/ VerifyFails \/ UNCHANGED vars
  <2>1. UNCHANGED <<start, opt, best, net>>  BY <1>4 DEF NextRound, Return, VerifyFails, vars
  <2> QED BY <1>0, <1>1, <1>2, <2>1 DEF LimitsInv
<1>5. CASE TimedOut
  <2>1. UNCHANGED <<start, opt, best>> /\ net'.cells = best.cells  BY <1>5 DEF TimedOut, Restored
  <2> QED BY <1>0, <1>1, <1>2, <2>1 DEF LimitsInv
<1>6. CASE NextTry \/ EndTries
  <2>1. UNCHANGED <<start, opt>> /\ best' \in {net, best} /\ (net' = net \/ net'.cells = best'.cells)
    BY <1>6 DEF NextTry, EndTries, Better, Restored
  <2>2. Within(net)' /\ Within(best)'  BY <1>0, <1>1, <1>2, <2>1
  <2> QED BY <2>2 DEF LimitsInv
<1> QED BY <1>3, <1>4, <1>5, <1>6, Steps

\* For every job and whatever the passes do, run_pass and the restores of the search keep the
\* netlist within the limits on models and gates, or leave the one given.
THEOREM LimitsCorrect == Spec => []LimitsKept
<1>1. LimitsInv => LimitsKept
  BY DEF LimitsInv, Within, LimitsKept
<1> QED BY <1>1, LimitsInit, LimitsNext, PTL DEF Spec

-----------------------------------------------------------------------------
(***************************************************************************)
(* The cost.                                                               *)
(***************************************************************************)

\* A netlist's cost is a number.
LEMMA CostFacts ==
    ASSUME NEW n \in NetType, NEW o, \A k \in GateKinds : o.weight[k] \in Nat
    PROVE  Cost(n, o) \in Nat
<1> DEFINE w == Len(n.cells)
           add == [i \in 1..w |-> IF n.cells[i].k \in GateKinds THEN o.weight[n.cells[i].k] ELSE 0]
           IsSum(f) == f = [i \in 0..w |-> IF i = 0 THEN 0 ELSE
                                f[i - 1] + (IF n.cells[i].k \in GateKinds THEN o.weight[n.cells[i].k] ELSE 0)]
           up == CHOOSE f : IsSum(f)
           sums == [x \in Nat \X (1..w) |-> x[1] + add[x[2]]]
<1>1. w \in Nat
  BY DEF NetType
<1>2. add \in [1..w -> Nat]
  <2> HIDE DEF w
  <2> QED OBVIOUS
<1>3. sums \in [Nat \X (1..w) -> Nat]
  <2> HIDE DEF w, add
  <2> QED BY <1>2
<1>4. PICK g \in [0..w -> Nat] : Rounds(g, w, 0, sums)
  <2> HIDE DEF w, sums
  <2> QED BY <1>1, <1>3, LoopValues
<1>5. g[0] = 0 /\ \A i \in 1..w : g[i] = g[i - 1] + add[i]
  <2>1. \A i \in 1..w : g[i] = sums[<<g[i - 1], i>>]  BY <1>4 DEF Rounds
  <2>2. \A i \in 1..w : <<g[i - 1], i>> \in Nat \X (1..w)
    <3> HIDE DEF w
    <3> QED BY <1>1
  <2> HIDE DEF w, add
  <2> QED BY <1>4, <2>1, <2>2 DEF Rounds
<1>6. IsSum(g)
  <2> HIDE DEF w, sums
  <2> QED BY <1>1, <1>5
<1>7. IsSum(up)
  <2> HIDE DEF IsSum
  <2> QED BY <1>6
<1>8. Cost(n, o) = up[w]
  BY Zenon DEF Cost
<1> HIDE DEF up, sums
<1> DEFINE S == {i \in Nat : i <= w => up[i] = g[i]}
<1>9. \A i \in Nat : i \in S => i + 1 \in S
  <2> SUFFICES ASSUME NEW i \in S, i + 1 <= w PROVE up[i + 1] = g[i + 1]
    OBVIOUS
  <2> HIDE DEF w, add
  <2>1. i + 1 \in 1..w /\ i + 1 \in 0..w /\ (i + 1) - 1 = i /\ i <= w /\ i + 1 # 0  BY <1>1
  <2>2. up[i] = g[i]  BY <2>1
  <2>3. up[i + 1] = up[i] + add[i + 1]  BY <1>7, <2>1 DEF add
  <2> QED BY <1>5, <2>1, <2>2, <2>3
<1>10. 0 \in S
  <2>1. up[0] = 0  BY <1>1, <1>7
  <2> QED BY <1>5, <2>1
<1>11. S = Nat
  <2>1. S \in SUBSET Nat  OBVIOUS
  <2> HIDE DEF S
  <2> QED BY <1>9, <1>10, <2>1, Induct
<1>12. w \in S
  <2> HIDE DEF S, w
  <2> QED BY <1>1, <1>11
<1>13. up[w] = g[w]
  BY <1>1, <1>12
<1> HIDE DEF w, IsSum, S
<1> QED BY <1>1, <1>8, <1>13

\* The first cost seen is that of the netlist given.
LEMMA CostInit == Init => CostInv
<1> SUFFICES ASSUME Init PROVE CostInv
  OBVIOUS
<1>1. PICK job \in Jobs : start = job.start /\ opt = job.opt
  BY DEF Init
<1>2. /\ \A k \in GateKinds : opt.weight[k] \in Nat
      /\ opt.level \in Nat
      /\ [cells |-> start.cells, nodes |-> start.nodes] \in NetType
  BY <1>1, JobsAssumption
<1>3. best \in NetType /\ net = best /\ costs = {Cost(best, opt)} /\ status = "running"
  BY <1>2 DEF Init
<1>4. Cost(best, opt) \in Nat
  BY <1>2, <1>3, CostFacts
<1> QED BY <1>2, <1>3, <1>4 DEF CostInv

\* The cost depends on the cells only.
LEMMA CostOfCells ==
    ASSUME NEW m, NEW n, NEW o, m.cells = n.cells
    PROVE  Cost(m, o) = Cost(n, o)
BY DEF Cost

\* A better candidate replaces best as its cost is recorded, and every path out restores best.
LEMMA CostNext == CostInv /\ net \in NetType /\ [Next]_vars => CostInv'
<1> SUFFICES ASSUME CostInv, net \in NetType, [Next]_vars PROVE CostInv'
  OBVIOUS
<1> DEFINE A == /\ \A k \in GateKinds : opt.weight[k] \in Nat
                /\ opt.level \in Nat
<1>0. /\ A /\ best \in NetType /\ costs \in SUBSET Nat
      /\ \A c \in costs : Cost(best, opt) <= c
      /\ status = "done" /\ opt.level >= 5 => net.cells = best.cells
  BY DEF CostInv
<1>c. Cost(best, opt) \in Nat /\ Cost(net, opt) \in Nat
  BY <1>0, CostFacts
<1>a. ASSUME opt' = opt PROVE A'
  BY <1>0, <1>a
<1>1. ASSUME UNCHANGED <<opt, best, costs>>, status' = "done" /\ opt.level >= 5 => net'.cells = best.cells
      PROVE  CostInv'
  <2>1. A'  BY <1>a, <1>1
  <2>2. \A c \in costs' : Cost(best', opt') <= c  BY <1>0, <1>1
  <2> HIDE DEF A
  <2> QED BY <1>0, <1>1, <2>1, <2>2 DEF CostInv, A
<1>2. CASE PassEffect
  <2>1. UNCHANGED <<opt, best, costs>> /\ status' # "done"  BY <1>2 DEF PassEffect
  <2> QED BY <1>1, <2>1
<1>3. CASE NextRound \/ Return \/ VerifyFails \/ UNCHANGED vars
  <2>1. UNCHANGED <<opt, best, costs, net>>
    BY <1>3 DEF NextRound, Return, VerifyFails, vars
  <2>2. status' = "done" => status = "done" \/ opt.level < 5
    BY <1>3 DEF NextRound, Return, VerifyFails, vars
  <2>3. ~(opt.level < 5 /\ opt.level >= 5)  BY <1>0
  <2> HIDE DEF A
  <2> QED BY <1>0, <1>1, <2>1, <2>2, <2>3
<1>4. CASE TimedOut
  <2>1. UNCHANGED <<opt, best, costs>> /\ net'.cells = best.cells
    BY <1>4 DEF TimedOut, Restored
  <2> QED BY <1>1, <2>1
<1>5. CASE NextTry \/ EndTries
  <2>1. /\ opt' = opt /\ costs' = costs \cup {Cost(net, opt)}
        /\ best' = IF Cost(net, opt) < Cost(best, opt) THEN net ELSE best
        /\ status' = "done" => net'.cells = best'.cells
    BY <1>5 DEF NextTry, EndTries, EndOfTry, EndOfRound, Better, Restored
  <2>2. best' \in NetType /\ costs' \in SUBSET Nat  BY <1>0, <1>c, <2>1
  <2>3. Cost(best', opt') <= Cost(best, opt) /\ Cost(best', opt') <= Cost(net, opt)
    <3>1. CASE Cost(net, opt) < Cost(best, opt)
      <4>1. best' = net  BY <2>1, <3>1
      <4>2. Cost(best', opt') = Cost(net, opt)  BY <2>1, <4>1
      <4> QED BY <1>c, <3>1, <4>2
    <3>2. CASE ~(Cost(net, opt) < Cost(best, opt))
      <4>1. best' = best  BY <2>1, <3>2
      <4>2. Cost(best', opt') = Cost(best, opt)  BY <2>1, <4>1
      <4> QED BY <1>c, <3>2, <4>2
    <3> QED BY <3>1, <3>2
  <2>4. Cost(best', opt') \in Nat
    BY <1>c, <2>1
  <2>5. \A c \in costs' : Cost(best', opt') <= c
    <3>1. TAKE c \in costs'
    <3>2. CASE c = Cost(net, opt)  BY <2>3, <3>2
    <3>3. CASE c \in costs
      <4>1. c \in Nat /\ Cost(best, opt) <= c  BY <1>0, <3>3
      <4> QED BY <1>c, <2>3, <2>4, <4>1
    <3> QED BY <2>1, <3>2, <3>3
  <2>6. A'  BY <1>a, <2>1
  <2> HIDE DEF A
  <2> QED BY <2>1, <2>2, <2>5, <2>6 DEF CostInv, A
<1> QED BY <1>2, <1>3, <1>4, <1>5, Steps

\* As long as the passes return netlists, Omax "never regresses": whatever they do to the cost
\* and wherever a try starts, what it returns costs no more than what it was given or met.
THEOREM OmaxCorrect == Spec /\ [](net \in NetType) => []OmaxNoRegress
<1>1. CostInv => OmaxNoRegress
  <2> SUFFICES ASSUME CostInv, status = "done", opt.level >= 5, NEW c \in costs
               PROVE  Cost(net, opt) <= c
    BY DEF OmaxNoRegress
  <2>1. Cost(net, opt) = Cost(best, opt)
    BY CostOfCells DEF CostInv
  <2> QED BY <2>1 DEF CostInv
<1>2. Spec /\ [](net \in NetType) => []CostInv
  BY CostInit, CostNext, PTL DEF Spec
<1> QED BY <1>1, <1>2, PTL

-----------------------------------------------------------------------------
(***************************************************************************)
(* The verification.                                                       *)
(***************************************************************************)

\* The netlist given needs no check.
LEMMA CheckedInit == Init => CheckedInv
<1> SUFFICES ASSUME Init PROVE CheckedInv
  OBVIOUS
<1>1. PICK job \in Jobs : start = job.start /\ opt = job.opt
  BY DEF Init
<1>2. opt.level \in Nat
  BY <1>1, JobsAssumption
<1> QED BY <1>2 DEF Init, CheckedInv, Checked

\* With omax_verify only a candidate that passed the check becomes best.
LEMMA CheckedNext == CheckedInv /\ [Next]_vars => CheckedInv'
<1> SUFFICES ASSUME CheckedInv, [Next]_vars PROVE CheckedInv'
  OBVIOUS
<1>0. /\ opt.level \in Nat
      /\ opt.verify => Checked(best)
      /\ status = "done" /\ opt.level >= 5 => net.cells = best.cells
  BY DEF CheckedInv
<1>1. ASSUME UNCHANGED <<start, opt, best>>, status' = "done" /\ opt.level >= 5 => net'.cells = best.cells
      PROVE  CheckedInv'
  BY <1>0, <1>1 DEF CheckedInv, Checked
<1>2. CASE PassEffect
  <2>1. UNCHANGED <<start, opt, best>> /\ status' # "done"  BY <1>2 DEF PassEffect
  <2> QED BY <1>1, <2>1
<1>3. CASE NextRound \/ Return \/ VerifyFails \/ UNCHANGED vars
  <2>1. UNCHANGED <<start, opt, best, net>>
    BY <1>3 DEF NextRound, Return, VerifyFails, vars
  <2>2. status' = "done" => status = "done" \/ opt.level < 5
    BY <1>3 DEF NextRound, Return, VerifyFails, vars
  <2>3. ~(opt.level < 5 /\ opt.level >= 5)  BY <1>0
  <2> QED BY <1>0, <1>1, <2>1, <2>2, <2>3
<1>4. CASE TimedOut
  <2>1. UNCHANGED <<start, opt, best>> /\ net'.cells = best.cells
    BY <1>4 DEF TimedOut, Restored
  <2> QED BY <1>1, <2>1
<1>5. CASE NextTry \/ EndTries
  <2>1. /\ UNCHANGED <<start, opt>> /\ best' \in {net, best}
        /\ opt.verify => Equivalent(start, net)
        /\ status' = "done" => net'.cells = best'.cells
    BY <1>5 DEF NextTry, EndTries, EndOfTry, EndOfRound, Better, Restored
  <2>2. opt.verify => Checked(net)  BY <2>1 DEF Checked
  <2>3. opt.verify => Checked(best)'  BY <1>0, <2>1, <2>2 DEF Checked
  <2> QED BY <1>0, <2>1, <2>3 DEF CheckedInv
<1> QED BY <1>2, <1>3, <1>4, <1>5, Steps

\* With omax_verify, Omax returns the netlist it was given or one that passed the verification,
\* whatever candidates came between and whenever its time was up.
THEOREM VerifiedCorrect == Spec => []ResultChecked
<1>1. CheckedInv => ResultChecked
  BY DEF CheckedInv, ResultChecked, Checked
<1>2. Spec => []CheckedInv
  BY CheckedInit, CheckedNext, PTL DEF Spec
<1> QED BY <1>1, <1>2, PTL

=============================================================================
