------------------------------ MODULE Circuit ------------------------------
(***************************************************************************)
(* circult: one circuit object and what its callers do to it: choose an    *)
(* analysis, analyze(), digital_clk(), edit the netlist, reset().          *)
(*                                                                         *)
(* analyze() runs in steps, one per attempt to solve the system of         *)
(* equations: whether an attempt succeeds, and whether a Newton iteration  *)
(* has converged, is for the numbers to say and left open here.            *)
(*                                                                         *)
(* The netlist is what prepare() reads of it: the class of each node, and  *)
(* how many branches and internal nodes each model has.                    *)
(***************************************************************************)
EXTENDS Order, Sequences, Functions

CONSTANTS
    Netlists,    \* records: class (of each node: "digital", "hybrid" or "analog"),
                 \*          models (sequence of [branches, internals]), nonlinear
    Settings,    \* values of analyzer_setting, as records: t_step and t_stop of tr; sweep,
                 \* <<ac.sweep, ac.points>> ("log0" is a logarithmic sweep from 0); ac.omega,
                 \* 0 for the caller's own, i for point i of a sweep
    MaxIter,     \* max_iter of solve()
    MaxTime      \* bound: tr_duration

SettingType ==
    [t_step : Int, t_stop : Nat, sweep : {"single", "linear", "log", "log0"} \X Nat, omega : Nat]

NetlistType ==
    [class : Seq({"digital", "hybrid", "analog"}), models : Seq([branches : Nat, internals : Nat]),
     nonlinear : BOOLEAN]

ASSUME NumbersAssumption ==
    /\ Settings \subseteq SettingType
    /\ Netlists \subseteq NetlistType
    /\ MaxIter \in Nat \ {0} /\ MaxTime \in Nat

VARIABLES
    nl,           \* the netlist
    has_prepare,
    listed,       \* were the lists of digital models ever filled?
    node_index,   \* node_t::node_index of every node ever numbered
    nodes,        \* size_t_to_node_p
    branches,     \* size_t_to_branch_p: <<branch, index>>
    rows,         \* branch_counter
    digital_out,  \* the nodes digital_clk() wants driven
    c,            \* the members analyze() changes: at, setting (t_step, t_stop, sweep,
                  \* omega), tr_duration, last_step, ac_sweep_results; its locals; the
                  \* solve() it is in, or "idle" (pc); and what it returned (ret)
    asked,        \* ghost: the kind of analysis the caller chose
    edited        \* ghost: was the netlist edited since the last digital_clk()?

prepared == <<has_prepare, listed, node_index, nodes, branches, rows>>
vars == <<nl, prepared, digital_out, c, asked, edited>>

Kinds == {"OP", "DC", "AC", "ACOP", "TR", "TROP"}

-----------------------------------------------------------------------------
(* prepare(): nodes with analog pins are numbered in order, then internal  *)
(* nodes; branches are numbered after the rows of digital_out.             *)

(* Node n of the netlist is <<0, n>>, internal node or branch i of model m *)
(* <<m, i>>.                                                               *)
Analog(net) == {n \in DOMAIN net.class : net.class[n] \in {"hybrid", "analog"}}
External(net) == {<<0, n>> : n \in Analog(net)}
Internal(net) == UNION {{m} \X (1..net.models[m].internals) : m \in DOMAIN net.models}
BranchesOf(net) == UNION {{m} \X (1..net.models[m].branches) : m \in DOMAIN net.models}

Number(first) ==
    /\ nodes' = InOrder(External(nl) \cup Internal(nl))
    /\ node_index' = [n \in Range(nodes') \cup DOMAIN node_index |->
                         IF n \in Range(nodes') THEN CHOOSE i \in DOMAIN nodes' : nodes'[i] = n
                                                ELSE node_index[n]]
    /\ branches' = [i \in DOMAIN InOrder(BranchesOf(nl)) |-> <<InOrder(BranchesOf(nl))[i], first + i>>]
    /\ rows' = first + Cardinality(BranchesOf(nl))
    /\ has_prepare' = TRUE
    /\ listed' = TRUE

(* Numbering the branches from 0, over the rows of digital_out.            *)
PrepareFromZero == Number(0)
(* Numbering the nodes only the first time.                                *)
PrepareOnce == IF has_prepare THEN UNCHANGED prepared ELSE Number(Len(digital_out))

Prepare == Number(Len(digital_out))

-----------------------------------------------------------------------------
(* The parts of analyze(), as functions on its state.  Each runs to the    *)
(* next solve(), or to a return.                                           *)

(* Locals are reset on return, so that they distinguish no states.         *)
Return(s, ok) ==
    [s EXCEPT !.pc = "idle", !.ret = ok, !.saved_at = "OP", !.prev_time = 0, !.end_time = 0,
              !.idx = 0, !.iter = 0, !.start = 0, !.saved_op = FALSE]
Solve(s, stage) == [s EXCEPT !.pc = stage, !.iter = 0]

(* run_ac_analysis().                                                      *)
Recording(s) == s.setting.sweep[1] # "single" /\ s.setting.sweep[2] > 1
RunAc(s) ==
    IF ~Recording(s) THEN Solve(s, "single")
    ELSE IF s.setting.sweep[1] = "log0"
    THEN Return([s EXCEPT !.ac_sweep_results = <<>>, !.at = s.saved_at], "false")
    ELSE Solve([s EXCEPT !.ac_sweep_results = <<>>, !.idx = 1, !.setting.omega = 1], "sweep")

(* Stopping one point early.                                               *)
SweptShort(s) ==
    LET t == [s EXCEPT !.ac_sweep_results = Append(@, s.setting.omega)]
    IN  IF s.idx + 1 < s.setting.sweep[2]
        THEN Solve([t EXCEPT !.idx = @ + 1, !.setting.omega = s.idx + 1], "sweep")
        ELSE Return([t EXCEPT !.at = s.saved_at], "true")

(* After a successful solve() of the sweep.                                *)
Swept(s) ==
    LET t == [s EXCEPT !.ac_sweep_results = Append(@, s.setting.omega)]
    IN  IF s.idx < s.setting.sweep[2]
        THEN Solve([t EXCEPT !.idx = @ + 1, !.setting.omega = s.idx + 1], "sweep")
        ELSE Return([t EXCEPT !.at = s.saved_at], "true")

(* The test of the transient loop, and its body up to solve().             *)
Transient(s) ==
    IF s.tr_duration < s.end_time
    THEN Solve([s EXCEPT !.last_step = s.setting.t_step,
                         !.prev_time = s.tr_duration,
                         !.tr_duration = @ + s.setting.t_step], "tr")
    ELSE Return([s EXCEPT !.at = s.saved_at], "true")

StartTransient(s) == Transient([s EXCEPT !.end_time = s.tr_duration + s.setting.t_stop])

(* Running the AC analysis without an operating point.                     *)
BeginLinear(s0) ==
    LET s == [s0 EXCEPT !.saved_at = s0.at, !.start = s0.tr_duration, !.saved_op = FALSE]
        clear == [s EXCEPT !.ac_sweep_results = <<>>]
    IN  CASE s.at \in {"OP", "DC", "TROP"} -> Solve(s, "op")
          [] s.at = "AC" -> RunAc(clear)
          [] s.at = "ACOP" -> Solve([clear EXCEPT !.at = "OP"], "acop")
          [] s.at = "TR" -> StartTransient(s)

(* analyze() up to its first solve().                                      *)
Begin(s0) ==
    LET s == [s0 EXCEPT !.saved_at = s0.at, !.start = s0.tr_duration, !.saved_op = FALSE]
        clear == [s EXCEPT !.ac_sweep_results = <<>>]
    IN  CASE s.at \in {"OP", "DC"} -> Solve(s, "op")
          [] s.at = "AC" -> IF nl.nonlinear THEN Solve([clear EXCEPT !.at = "OP"], "acop")
                                            ELSE RunAc(clear)
          [] s.at = "ACOP" -> Solve([clear EXCEPT !.at = "OP"], "acop")
          [] s.at = "TR" -> StartTransient(s)
          [] s.at = "TROP" -> Solve(s, "op")

(* After solve() returned true.                                            *)
Succeed(s) ==
    CASE s.pc = "op" -> IF s.at = "TROP" THEN StartTransient([s EXCEPT !.at = "TR"])
                                         ELSE Return(s, "true")
      [] s.pc = "acop" -> RunAc([s EXCEPT !.at = "AC"])
      [] s.pc = "single" -> Return([s EXCEPT !.at = s.saved_at], "true")
      [] s.pc = "sweep" -> Swept(s)
      [] s.pc = "tr" -> Transient(s)

(* Returning with at still TR after a failed step of TROP.                 *)
FailForgetting(s) ==
    CASE s.pc \in {"op", "single", "sweep"} -> Return(s, "false")
      [] s.pc = "acop" -> Return([s EXCEPT !.at = s.saved_at], "false")
      [] s.pc = "tr" -> Return([s EXCEPT !.tr_duration = s.prev_time], "false")
(* Leaving the time of the failed step.                                    *)
FailKeepingTime(s) ==
    IF s.pc = "op" THEN Return(s, "false") ELSE Return([s EXCEPT !.at = s.saved_at], "false")
(* Trying a failed step again.                                             *)
FailRetrying(s) ==
    IF s.pc = "tr" THEN Transient([s EXCEPT !.tr_duration = s.prev_time])
    ELSE IF s.pc = "op" THEN Return(s, "false") ELSE Return([s EXCEPT !.at = s.saved_at], "false")

(* After solve() returned false: the time goes back, partial results of a  *)
(* sweep stay.                                                             *)
Fail(s) ==
    CASE s.pc = "op" -> Return(s, "false")
      [] s.pc = "tr" -> Return([s EXCEPT !.tr_duration = s.prev_time, !.at = s.saved_at], "false")
      [] OTHER -> Return([s EXCEPT !.at = s.saved_at], "false")

-----------------------------------------------------------------------------
Init ==
    /\ nl \in Netlists
    /\ has_prepare = FALSE /\ listed = FALSE
    /\ node_index = <<>> /\ nodes = <<>> /\ branches = <<>> /\ rows = 0
    /\ digital_out = <<>>
    /\ \E setting \in Settings :
           c = [at |-> "OP", setting |-> setting, tr_duration |-> 0, last_step |-> 0,
                ac_sweep_results |-> <<>>, pc |-> "idle", ret |-> "none", saved_at |-> "OP",
                prev_time |-> 0, end_time |-> 0, idx |-> 0, iter |-> 0, start |-> 0, saved_op |-> FALSE]
    /\ asked = "OP"
    /\ edited = FALSE

Idle == c.pc = "idle"

SetAnalyzeType(k) ==
    /\ Idle
    /\ c' = [c EXCEPT !.at = k]
    /\ asked' = k
    /\ UNCHANGED <<nl, prepared, digital_out, edited>>

SetSetting(setting) ==
    /\ Idle
    /\ c' = [c EXCEPT !.setting = setting]
    /\ UNCHANGED <<nl, prepared, digital_out, asked, edited>>

(* analyze() refuses a step of zero before it prepares anything.           *)
Analyze ==
    /\ Idle
    /\ IF c.at \in {"TR", "TROP"} /\ c.setting.t_step <= 0
       THEN c' = [c EXCEPT !.ret = "false"] /\ UNCHANGED prepared
       ELSE /\ c.at \in {"TR", "TROP"} => c.tr_duration + c.setting.t_stop <= MaxTime
            /\ Prepare
            /\ c' = Begin(c)
    /\ UNCHANGED <<nl, digital_out, asked, edited>>

(* solve_once() meets a singular matrix.                                   *)
SolveOnceFails ==
    /\ ~Idle
    /\ c' = Fail(c)
    /\ UNCHANGED <<nl, prepared, digital_out, asked, edited>>

Newton == nl.nonlinear /\ c.at # "AC"

(* solve_once() succeeds, and there is nothing to iterate, or the          *)
(* iteration has converged.                                                *)
SolveConverges ==
    /\ ~Idle
    /\ c' = Succeed([c EXCEPT !.saved_op = @ \/ (Newton /\ c.at \in {"OP", "DC", "TROP"})])
    /\ UNCHANGED <<nl, prepared, digital_out, asked, edited>>

SolveIterates ==
    /\ ~Idle
    /\ Newton
    /\ c' = IF c.iter + 1 < MaxIter THEN [c EXCEPT !.iter = @ + 1] ELSE Fail(c)
    /\ UNCHANGED <<nl, prepared, digital_out, asked, edited>>

(* digital_clk() runs the digital models prepare() has listed; those that  *)
(* drive a node with analog pins ask for it (DigitalClk has the details;   *)
(* here at most two ask).  reset() leaves those lists.                     *)
DigitalClk ==
    LET hybrid == {<<0, n>> : n \in {n \in DOMAIN nl.class : nl.class[n] = "hybrid"}}
    IN  /\ Idle
        /\ digital_out' \in IF listed THEN UNION {[1..k -> hybrid] : k \in 0..2} ELSE {<<>>}
        /\ edited' = FALSE
        /\ UNCHANGED <<nl, prepared, c, asked>>

(* Analog models are added, removed or rewired through get_netlist().      *)
Edit(net) ==
    /\ Idle
    /\ nl' = net
    /\ edited' = TRUE
    /\ UNCHANGED <<prepared, digital_out, c, asked>>

Reset ==
    /\ Idle
    /\ c' = [c EXCEPT !.tr_duration = 0, !.last_step = 0]
    /\ digital_out' = <<>> /\ nodes' = <<>> /\ branches' = <<>> /\ rows' = 0
    /\ has_prepare' = FALSE
    /\ UNCHANGED <<nl, listed, node_index, asked, edited>>

SolveStep == SolveOnceFails \/ SolveConverges \/ SolveIterates

Next ==
    \/ \E k \in Kinds : SetAnalyzeType(k)
    \/ \E setting \in Settings : SetSetting(setting)
    \/ Analyze
    \/ SolveStep
    \/ DigitalClk
    \/ \E net \in Netlists : Edit(net)
    \/ Reset

(* The caller's thread runs solve() until it returns.                      *)
Spec == Init /\ [][Next]_vars /\ WF_vars(SolveStep)

-----------------------------------------------------------------------------
(* Properties.                                                             *)

(* analyze() switches `at' between OP, AC and TR while it runs; however it *)
(* returns, at is again what the caller chose.                             *)
AtRestored == Idle => c.at = asked

(* While the system is being solved, node_index numbers the nodes of       *)
(* size_t_to_node_p without gap or overlap, and the rows of branches       *)
(* follow those of digital_out: no two unknowns share a row.               *)
RowsDisjoint ==
    ~Idle => /\ \A i \in 1..Len(nodes) : node_index[nodes[i]] = i
             /\ {branches[i][2] : i \in 1..Len(branches)} = (Len(digital_out) + 1)..rows

(* Every voltage digital_clk() asked for is applied to the row of its own  *)
(* node, as long as the netlist was not edited in between.                 *)
StampsOwnNode ==
    ~Idle /\ ~edited =>
        \A i \in 1..Len(digital_out) :
            /\ digital_out[i] \in Range(nodes)
            /\ nodes[node_index[digital_out[i]]] = digital_out[i]

(* A circuit with nonlinear devices is solved for AC only after save_op()  *)
(* has captured a converged operating point in the same analyze().         *)
OperatingPointFirst == c.pc \in {"single", "sweep"} /\ nl.nonlinear => c.saved_op

(* An AC analysis leaves the results of its own points, in order: all of   *)
(* them when it succeeds, and none for a single point.                     *)
ReturnsResults ==
    ~Idle /\ Idle' /\ c.saved_at \in {"AC", "ACOP"} =>
        /\ \A i \in 1..Len(c'.ac_sweep_results) : c'.ac_sweep_results[i] = i
        /\ c'.ret = "true" =>
               Len(c'.ac_sweep_results) = IF Recording(c) THEN c.setting.sweep[2] ELSE 0

(* Every step of analyze() and its callers keeps to that.                  *)
SweepComplete == [][ReturnsResults]_vars

(* A transient analysis that succeeds has covered t_stop and less than one *)
(* step more; one that fails stands at the end of its last good step; no   *)
(* other analysis moves the time.                                          *)
ReturnsAtTime ==
    ~Idle /\ Idle' =>
        LET done == c'.tr_duration - c.start
            step == c.setting.t_step
            stop == c.setting.t_stop
        IN  IF c.saved_at \notin {"TR", "TROP"} THEN done = 0
            ELSE IF c'.ret = "true" THEN stop <= done /\ done < stop + step /\ done % step = 0
            ELSE 0 <= done /\ (done < stop \/ stop = 0) /\ done % step = 0

(* Every step of analyze() and its callers keeps to that.                  *)
TimeAdvances == [][ReturnsAtTime]_vars

(* analyze() returns, whatever solve() does.                               *)
AnalyzeReturns == ~Idle ~> Idle

=============================================================================
