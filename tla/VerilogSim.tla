----------------------------- MODULE VerilogSim -----------------------------
(***************************************************************************)
(* The interpreter of compiled Verilog modules                             *)
(* (verilog/digital/digital.h): elaboration of a design into a tree of     *)
(* instances, and simulate(), one time step of that tree.                  *)
(*                                                                         *)
(* A compiled module is a record                                           *)
(*   reg       its signals declared reg, logic or bit                      *)
(*   net       its other signals                                           *)
(*   const     the values of its parameters, by signal                     *)
(*   ports     its ports in order: dir, signed, and bits, msb first        *)
(*   assigns   continuous assignments: lhs, rhs, guard                     *)
(*   ffs       edge-triggered blocks: events (pairs <<kind, signal>>) and  *)
(*             body                                                        *)
(*   combs     combinational blocks: star, sens and body                   *)
(*   initials  initial blocks (bodies)                                     *)
(*   insts     instances: mod, conn (one connection per port: bits and     *)
(*             signed) and param (overridden parameters)                   *)
(* and a design is a function from module names to modules.                *)
(*                                                                         *)
(* An expression is a tuple, its operator first.  A statement is a record  *)
(* with its kind in k; scalar assignments are assignments of width one.    *)
(* An instance is named by its path: the indices of the instances that     *)
(* lead to it from the top, <<>>.                                          *)
(***************************************************************************)
EXTENDS FourState, Integers, FiniteSets, SequencesExt

CONSTANTS
    CombMaxIter,    \* max_iter of comb_resolve(), 64 in the code
    LoopMaxIter     \* max_iter of the loop statements, 4096 in the code

Signals(m) == m.reg \cup m.net

-----------------------------------------------------------------------------

(***************************************************************************)
(* Expressions.                                                            *)
(***************************************************************************)
NormalizeZ(v) == IF v = "Z" THEN "X" ELSE v

Bool4(b) == IF b THEN "H" ELSE "L"

RECURSIVE Eval(_, _)

\* eval_expr and its memoizing twin.
Eval(e, values) ==
    LET a == Eval(e[2], values)
        b == Eval(e[3], values)
        unknown == ~Known(a) \/ ~Known(b)
    IN  CASE e[1] = "literal"    -> e[2]
          [] e[1] = "signal"     -> values[e[2]]
          [] e[1] = "is_unknown" -> Bool4(~Known(a))
          [] e[1] = "not"        -> Not4(a)
          [] e[1] = "and"        -> And4(a, b)
          [] e[1] = "or"         -> Or4(a, b)
          [] e[1] = "xor"        -> Xor4(a, b)
          [] e[1] = "eq"         -> IF unknown THEN "X" ELSE Bool4(a = b)
          [] e[1] = "neq"        -> IF unknown THEN "X" ELSE Bool4(a # b)
          [] e[1] = "case_eq"    -> Bool4(a = b)

Holds(e, values) == Eval(e, values) = "H"

-----------------------------------------------------------------------------

(***************************************************************************)
(* The state of one instance: signal values, the values at the end of the  *)
(* last simulate() and of the last combinational resolution, scheduled     *)
(* events, the queue of nonblocking assignments, and, inside a call,       *)
(*   recorded  signals that changed in this delta cycle                    *)
(*   changed   did a change count as one?  (the functions' return value)   *)
(*   flow      none, ret, brk or cont                                      *)
(*   next      the resolved values of the driven nets so far               *)
(***************************************************************************)
InitState(m, const) ==
    LET values == [s \in Signals(m) |-> IF s \in DOMAIN const THEN const[s] ELSE "X"]
        declared == [s \in Signals(m) |-> IF s \in DOMAIN m.const THEN m.const[s] ELSE "X"]
    IN  [values |-> values, prev |-> values, comb_prev |-> declared,
         comb_initialized |-> FALSE, initial_ran |-> FALSE, events |-> <<>>, nba |-> <<>>,
         recorded |-> {}, changed |-> FALSE, flow |-> "none", next |-> <<>>]

\* assign_signal
Assign(st, sig, v) ==
    IF st.values[sig] = v THEN st
    ELSE [st EXCEPT !.values[sig] = v, !.recorded = @ \cup {sig}, !.changed = TRUE]

AssignAll(st, lhs, vals) ==
    FoldLeft(LAMBDA s, i : Assign(s, lhs[i], vals[i]), st, [i \in DOMAIN lhs |-> i])

Sampled(st, rhs) == [i \in DOMAIN rhs |-> Eval(rhs[i], st.values)]

Queue(st, lhs, vals) ==
    [st EXCEPT !.nba = @ \o [i \in DOMAIN lhs |-> <<lhs[i], vals[i]>>]]

\* A delayed assignment; its right-hand side is evaluated when it is due.
Schedule(st, n, due) ==
    [st EXCEPT !.events = Append(@, [due |-> due, nonblocking |-> n.k = "nonblocking_assign",
                                     lhs |-> n.lhs, rhs |-> n.rhs])]

-----------------------------------------------------------------------------

(***************************************************************************)
(* Statements: exec_stmt.                                                  *)
(***************************************************************************)
BitMatches(ck, a, b) ==
    \/ a = b
    \/ ck = "casez" /\ "Z" \in {a, b}
    \/ ck = "casex" /\ ~(Known(a) /\ Known(b))

\* The statements of the first item that matches, or else of the last default.
CaseChoice(n, values) ==
    LET key == [i \in DOMAIN n.key |-> Eval(n.key[i], values)]
        matches(ci) ==
            /\ ~ci.is_default
            /\ Len(ci.match) = Len(key)
            /\ \A i \in DOMAIN key : BitMatches(n.ck, key[i], Eval(ci.match[i], values))
        hits == {i \in DOMAIN n.items : matches(n.items[i])}
        defaults == {i \in DOMAIN n.items : n.items[i].is_default}
    IN  IF hits # {} THEN n.items[CHOOSE i \in hits : \A j \in hits : i <= j].stmts
        ELSE IF defaults # {} THEN n.items[CHOOSE i \in defaults : \A j \in defaults : j <= i].stmts
        ELSE <<>>

RECURSIVE Exec(_, _, _), Loop(_, _, _, _)

ExecList(stmts, st, tick) ==
    FoldLeft(LAMBDA s, n : IF s.flow = "none" THEN Exec(n, s, tick) ELSE s, st, stmts)

\* One more iteration of a loop whose condition has been found true, and the rest.
Loop(n, st, tick, iter) ==
    LET again(step) == IF iter = LoopMaxIter \/ ~Holds(n.cond, step.values) THEN step
                       ELSE Loop(n, step, tick, iter + 1)
        after(body) == IF body.flow = "ret" THEN body
                       ELSE IF body.flow = "brk" THEN [body EXCEPT !.flow = "none"]
                       ELSE again(ExecList(n.step, [body EXCEPT !.flow = "none"], tick))
    IN  after(ExecList(n.body, st, tick))

\* The statements a block, an if or a case runs.
Chosen(n, values) ==
    CASE n.k \in {"block", "subprogram_block"} -> n.stmts
      [] n.k = "if" -> IF Holds(n.cond, values) THEN n.stmts ELSE n.else_stmts
      [] n.k = "case" -> CaseChoice(n, values)

Exec(n, st, tick) ==
    CASE n.k \in {"block", "subprogram_block", "if", "case"} ->
            [ExecList(Chosen(n, st.values), st, tick) EXCEPT
                !.flow = IF n.k = "subprogram_block" /\ @ = "ret" THEN "none" ELSE @]
      [] n.k \in {"blocking_assign", "nonblocking_assign"} /\ n.delay # 0 ->
            Schedule(st, n, tick + n.delay)
      [] n.k = "blocking_assign" /\ n.delay = 0 -> AssignAll(st, n.lhs, Sampled(st, n.rhs))
      [] n.k = "nonblocking_assign" /\ n.delay = 0 -> Queue(st, n.lhs, Sampled(st, n.rhs))
      [] n.k \in {"do_while", "for"} ->    \* while is for, with no init and no step
            LET enter(init) == IF n.k = "do_while" \/ Holds(n.cond, init.values)
                                 THEN Loop(n, init, tick, 1) ELSE init
            IN  enter(ExecList(n.init, st, tick))
      [] n.k \in {"ret", "brk", "cont"} -> [st EXCEPT !.flow = n.k]

\* A block's roots each start with a fresh flow_state.
ExecRoots(body, st, tick) ==
    FoldLeft(LAMBDA s, n : [Exec(n, [s EXCEPT !.flow = "none"], tick) EXCEPT !.flow = "none"],
             st, body)

-----------------------------------------------------------------------------
(***************************************************************************)
(* Elaboration: fill_bindings, elaborate_children, elaborate.              *)
(***************************************************************************)
Unconnected == [bits |-> <<>>, signed |-> FALSE]

\* Mutant: connections are always taken by place.
ConnectionByPlace(inst, i, port) ==
    IF i \in DOMAIN inst.conn THEN inst.conn[i].ref ELSE Unconnected

\* The connection of the i-th port: by name if any connection is named, else by place.
ConnectionOf(inst, i, port) ==
    LET named == {j \in DOMAIN inst.conn : inst.conn[j].port # ""}
        hits == {j \in named : inst.conn[j].port = port.name}
    IN  IF named = {} THEN IF i \in DOMAIN inst.conn THEN inst.conn[i].ref ELSE Unconnected
        ELSE IF hits = {} THEN Unconnected
        ELSE inst.conn[CHOOSE j \in hits : \A h \in hits : h <= j].ref

\* Mutant: a narrow connection is always zero-extended.
ResizeUnsigned(src, w, signed) ==
    IF src = <<>> THEN [i \in 1..w |-> <<"literal", "X">>]
    ELSE IF Len(src) >= w THEN SubSeq(src, Len(src) - w + 1, Len(src))
    ELSE [i \in 1..w - Len(src) |-> <<"literal", "L">>] \o src

\* resize_bits and resize_rhs: bits are dropped or added at the msb end.
Resize(src, w, signed) ==
    IF src = <<>> THEN [i \in 1..w |-> <<"literal", "X">>]
    ELSE IF Len(src) >= w THEN SubSeq(src, Len(src) - w + 1, Len(src))
    ELSE [i \in 1..w - Len(src) |-> IF signed THEN src[1] ELSE <<"literal", "L">>] \o src

\* What each bit of the child's non-output ports reads, as an expression of the parent.
Bindings(cm, inst) ==
    LET of(i) == LET port == cm.ports[i]
                     ref == ConnectionOf(inst, i, port)
                     src == Resize(ref.bits, Len(port.bits), ref.signed)
                 IN  IF port.dir = "output" THEN <<>>
                     ELSE [j \in DOMAIN port.bits |-> [sig |-> port.bits[j], src |-> src[j]]]
    IN  FlattenSeq([i \in DOMAIN cm.ports |-> of(i)])

\* What each parent signal at an output port is driven with, as an expression of the child.
OutputDrives(cm, inst) ==
    LET of(i) == LET port == cm.ports[i]
                     dst == ConnectionOf(inst, i, port).bits
                     src == Resize([j \in DOMAIN port.bits |-> <<"signal", port.bits[j]>>],
                                   Len(dst), port.signed)
                     all == [j \in DOMAIN dst |-> [dst |-> dst[j], src |-> src[j]]]
                 IN  IF port.dir \notin {"output", "inout"} THEN <<>>
                     ELSE SelectSeq(all, LAMBDA d : d.dst[1] = "signal")
    IN  FlattenSeq([i \in DOMAIN cm.ports |-> of(i)])

ElabMaxDepth == 64

RECURSIVE ElaborateFrom(_, _, _, _)

\* The instance at path p of module `name', and everything below it: for each path its
\* module, port bindings, output drives, children, driven nets and parameter values.
ElaborateFrom(design, name, inst, p) ==
    LET m == design[name]
        kids == IF Len(p) > ElabMaxDepth THEN <<>>
                ELSE SelectSeq([i \in DOMAIN m.insts |-> i], LAMBDA i : m.insts[i].mod \in DOMAIN design)
        drives(i) == OutputDrives(design[m.insts[i].mod], m.insts[i])
        written == {m.assigns[i].lhs : i \in DOMAIN m.assigns}
                   \cup UNION {{drives(i)[j].dst[2] : j \in DOMAIN drives(i)} : i \in ToSet(kids)}
        here == [mod |-> m,
                 const |-> inst.param @@ m.const,
                 bind |-> IF p = <<>> THEN <<>> ELSE Bindings(m, inst),
                 drives |-> IF p = <<>> THEN <<>> ELSE OutputDrives(m, inst),
                 driven |-> written \ m.reg,
                 kids |-> [k \in DOMAIN kids |-> Append(p, kids[k])]]
    IN  FoldLeft(LAMBDA f, i : f @@ ElaborateFrom(design, m.insts[i].mod, m.insts[i], Append(p, i)),
                 p :> here, kids)

Elaborate(design, top) == ElaborateFrom(design, top, [param |-> <<>>], <<>>)

InitTree(E) == [p \in DOMAIN E |-> InitState(E[p].mod, E[p].const)]

-----------------------------------------------------------------------------

(***************************************************************************)
(* The sequential pass.                                                    *)
(***************************************************************************)

\* process_due_events
ProcessDueEvents(st, tick) ==
    FoldLeft(LAMBDA s, ev : IF ev.due > tick THEN [s EXCEPT !.events = Append(@, ev)]
                            ELSE IF ev.nonblocking THEN Queue(s, ev.lhs, Sampled(s, ev.rhs))
                            ELSE AssignAll(s, ev.lhs, Sampled(s, ev.rhs)),
             [st EXCEPT !.events = <<>>], st.events)

\* apply_nba
ApplyNba(st) ==
    FoldLeft(LAMBDA s, a : Assign(s, a[1], a[2]), [st EXCEPT !.nba = <<>>], st.nba)

RECURSIVE Linear(_)

\* try_schedule_linear: the leading assignments of a block, and whether that is all of it.
Linear(stmts) ==
    FoldLeft(LAMBDA acc, n :
                IF ~acc.all THEN acc
                ELSE IF n.k \in {"block", "subprogram_block"}
                  THEN LET r == Linear(n.stmts) IN [asn |-> acc.asn \o r.asn, all |-> r.all]
                ELSE IF n.k \in {"blocking_assign", "nonblocking_assign"}
                  THEN [acc EXCEPT !.asn = Append(@, n)]
                ELSE [acc EXCEPT !.all = FALSE],
             [asn |-> <<>>, all |-> TRUE], stmts)

\* Mutant: every delay counts from the start of the block.
RunInitialFlat(st, body, tick) ==
    FoldLeft(LAMBDA s, n : Schedule(s, n, tick + n.delay), st, Linear(body).asn)

RunInitial(st, body, tick) ==
    LET lin == Linear(body)
        sum(i) == FoldLeft(LAMBDA d, n : d + n.delay, tick, SubSeq(lin.asn, 1, i))
        scheduled == FoldLeft(LAMBDA s, i : Schedule(s, lin.asn[i], sum(i)),
                              st, [i \in DOMAIN lin.asn |-> i])
    IN  IF lin.all THEN scheduled ELSE ExecRoots(body, scheduled, tick)

\* Mutant: the initial blocks run in every call.
RunInitialsAgain(m, st, tick) ==
    FoldLeft(LAMBDA s, body : RunInitial(s, body, tick), st, m.initials)

\* The initial blocks, in the first call only.
RunInitials(m, st, tick) ==
    IF st.initial_ran THEN st
    ELSE FoldLeft(LAMBDA s, body : RunInitial(s, body, tick), [st EXCEPT !.initial_ran = TRUE], m.initials)

Posedge(st, s) == NormalizeZ(st.prev[s]) = "L" /\ NormalizeZ(st.values[s]) = "H"

Negedge(st, s) == NormalizeZ(st.prev[s]) = "H" /\ NormalizeZ(st.values[s]) = "L"

\* The $urandom bus, a four-bit shift register clocked by `clk' and reset by `rst_n'.
UpdateRandom(m, st) ==
    LET v == st.values
        raw == CASE "rst_n" \in Signals(m) -> v["rst_n"]
                 [] "rst_n" \notin Signals(m) /\ "reset_n" \in Signals(m) -> v["reset_n"]
                 [] OTHER -> "H"
        rstn == IF raw = "Z" THEN "H" ELSE raw
        b == [i \in 1..4 |-> v[m.urandom[i]]]
        shifted == IF \A i \in 1..4 : Known(b[i])
                     THEN <<b[2], b[3], b[4], Not4(Xor4(b[1], b[2]))>>
                     ELSE <<"X", "X", "X", "X">>
        new == CASE rstn \in {"L", "X"} -> <<rstn, rstn, rstn, rstn>>
                 [] rstn = "H" /\ "clk" \in Signals(m) /\ Posedge(st, "clk") -> shifted
                 [] OTHER -> b
    IN  IF m.urandom = <<>> THEN st
        ELSE [st EXCEPT !.values = [i \in {m.urandom[j] : j \in 1..4} |->
                                       new[CHOOSE j \in 1..4 : m.urandom[j] = i]] @@ @]

Fires(st, ev) ==
    CASE ev[1] = "posedge" -> Posedge(st, ev[2])
      [] ev[1] = "negedge" -> Negedge(st, ev[2])
      [] ev[1] = "level"   -> st.prev[ev[2]] # st.values[ev[2]]

\* run_sequential
RunSequential(m, st, tick) ==
    FoldLeft(LAMBDA s, ff : IF \E i \in DOMAIN ff.events : Fires(s, ff.events[i])
                              THEN ExecRoots(ff.body, s, tick) ELSE s,
             UpdateRandom(m, st), m.ffs)

\* propagate_parent_to_child: the child's new state.
Propagate(E, t, p) ==
    FoldLeft(LAMBDA s, b : Assign(s, b.sig, Eval(b.src, t[Front(p)].values)),
             [t[p] EXCEPT !.changed = FALSE], E[p].bind)

RECURSIVE SequentialPass(_, _, _, _, _)

SequentialPass(E, t, p, tick, seq) ==
    LET m == E[p].mod
        started == RunInitials(m, [t[p] EXCEPT !.nba = <<>>], tick)
        clocked(due) == IF seq THEN RunSequential(m, due, tick) ELSE due
        here == clocked(ProcessDueEvents(started, tick))
    IN  FoldLeft(LAMBDA u, k : SequentialPass(E, [u EXCEPT ![k] = Propagate(E, u, k)], k, tick, seq),
                 [t EXCEPT ![p] = here], E[p].kids)

-----------------------------------------------------------------------------
(***************************************************************************)
(* Combinational resolution.                                               *)
(***************************************************************************)

\* resolve_net_drivers
ResolveNetDrivers(a, b) ==
    IF b = "Z" THEN a ELSE IF a = "Z" THEN b ELSE IF a = b THEN a ELSE "X"

\* prepare_net_drives
PrepareNetDrives(E, st, p) == [st EXCEPT !.next = [s \in E[p].driven |-> "Z"]]

\* drive_signal_next: only a change of a driven net counts as a change.
DriveSignalNext(st, driven, sig, v) ==
    IF sig \in driven THEN [st EXCEPT !.next[sig] = ResolveNetDrivers(@, v)]
    ELSE [Assign(st, sig, v) EXCEPT !.changed = st.changed]

\* Mutant: new values of driven nets do not ask for another delta cycle.
ApplySilently(st) == [st EXCEPT !.values = st.next @@ @]

\* apply_net_drives
ApplyNetDrives(st) ==
    LET diff == {s \in DOMAIN st.next : st.next[s] # st.values[s]}
    IN  [st EXCEPT !.values = st.next @@ @, !.recorded = @ \cup diff, !.changed = @ \/ diff # {}]

\* run_comb_local: the triggered blocks, then every continuous assignment.  A signal that
\* changes again in this delta cycle loses its trigger mark.
RunCombLocal(E, st, p, tick, triggers, any) ==
    LET m == E[p].mod
        run(s, ac) == IF ac.star THEN any ELSE ac.sens \cap (triggers \ s.recorded) # {}
        blocks == FoldLeft(LAMBDA s, ac : IF run(s, ac) THEN ExecRoots(ac.body, s, tick) ELSE s,
                           st, m.combs)
    IN  FoldLeft(LAMBDA s, a : IF Holds(a.guard, s.values)
                                 THEN DriveSignalNext(s, E[p].driven, a.lhs, Eval(a.rhs, s.values))
                                 ELSE s,
                 blocks, m.assigns)

\* Fold the children of p into t, one step for each; p counts what they report as a change.
OverKids(Step(_, _), E, t, p) ==
    LET count(u, k, r) == [r EXCEPT ![p].changed = u[p].changed \/ r[k].changed]
    IN  FoldLeft(LAMBDA u, k : count(u, k, Step(u, k)), t, E[p].kids)

\* propagate_child_to_parent
ChildToParent(E, t, k, p) ==
    [t EXCEPT ![p] = FoldLeft(LAMBDA s, d : DriveSignalNext(s, E[p].driven, d.dst[2],
                                                            Eval(d.src, t[k].values)),
                              @, E[k].drives)]

RECURSIVE CombResolve(_, _, _, _), Rounds(_, _, _, _, _, _, _)

\* One delta cycle of comb_resolve.
Round(E, t, p, tick, triggers, any) ==
    LET begun == [t EXCEPT ![p] = PrepareNetDrives(E, [@ EXCEPT !.recorded = {}, !.changed = FALSE], p)]
        inputs == OverKids(LAMBDA u, k : [u EXCEPT ![k] = Propagate(E, u, k)], E, begun, p)
        kids == OverKids(LAMBDA u, k : CombResolve(E, u, k, tick), E, inputs, p)
        outputs == FoldLeft(LAMBDA u, k : ChildToParent(E, u, k, p), kids, E[p].kids)
    IN  [outputs EXCEPT ![p] = ApplyNba(ApplyNetDrives(RunCombLocal(E, @, p, tick, triggers, any)))]

\* The rest of the delta cycles; `acc' is any_changed.
Rounds(E, t, p, tick, cycle, iter, acc) ==
    LET next(r) == [triggers |-> r[p].recorded, any |-> r[p].recorded # {}]
        after(r) == IF ~r[p].changed THEN [r EXCEPT ![p].changed = acc]
                    ELSE Rounds(E, r, p, tick, next(r), iter + 1, TRUE)
    IN  IF iter > CombMaxIter THEN [t EXCEPT ![p].changed = acc]
        ELSE after(Round(E, t, p, tick, cycle.triggers, cycle.any))

\* comb_resolve; the instance's `changed' is its result.
CombResolve(E, t, p, tick) ==
    LET triggers == {s \in DOMAIN t[p].values : t[p].values[s] # t[p].comb_prev[s]}
        first == [triggers |-> triggers, any |-> triggers # {} \/ ~t[p].comb_initialized]
        save(r) == [r EXCEPT ![p].comb_prev = r[p].values]
    IN  save(Rounds(E, [t EXCEPT ![p].comb_initialized = TRUE], p, tick, first, 1, FALSE))

\* Mutant: only the top instance is updated.
UpdatePrevTop(t) ==
    [p \in DOMAIN t |-> [t[p] EXCEPT !.prev = IF p = <<>> THEN t[p].values ELSE @,
                                     !.comb_prev = t[p].values,
                                     !.recorded = {}, !.changed = FALSE, !.next = <<>>]]

\* update_prev_recursive, and what no later call reads is forgotten.
UpdatePrev(t) ==
    [p \in DOMAIN t |-> [t[p] EXCEPT !.prev = t[p].values, !.comb_prev = t[p].values,
                                     !.recorded = {}, !.changed = FALSE, !.next = <<>>]]

\* simulate
Simulate(E, t, tick, seq) ==
    UpdatePrev(CombResolve(E, SequentialPass(E, t, <<>>, tick, seq), <<>>, tick))

\* Mutant: the copy's previous values are its present ones.
DeepCopyNow(t) ==
    [p \in DOMAIN t |-> [t[p] EXCEPT !.prev = t[p].values, !.initial_ran = FALSE,
                                     !.comb_initialized = FALSE]]

\* deep_copy_instance_state: initial_ran and comb_initialized are not copied.
DeepCopy(t) == [p \in DOMAIN t |-> [t[p] EXCEPT !.initial_ran = FALSE, !.comb_initialized = FALSE]]
=============================================================================
