-------------------------- MODULE MCVerilogRuntime --------------------------
(***************************************************************************)
(* Designs on which VerilogRuntime is model-checked, as the compiler of    *)
(* digital.h turns their source into modules.                              *)
(***************************************************************************)
EXTENDS VerilogRuntime, VerilogDesigns

Design == [last |-> 1, copied |-> TRUE, drive |-> {"L", "H"}, poke |-> {}, timeline |-> <<>>, expect |-> {}, twins |-> {}, chain |-> <<>>]

\* Two instances in a row, connected by place and by name, and a third register behind
\* them; f1 and f2 are the same chain without instances.
PipeTop == [Module EXCEPT
    !.reg = {"q3", "f1", "f2"}, !.net = {"clk", "d", "q1", "q2"},
    !.ports = <<In("clk"), In("d"), Out("q1"), Out("q2"), Out("q3"), Out("f1"), Out("f2")>>,
    !.ffs = << On(<< <<"posedge", "clk">> >>,
                  <<Nba("f1", Sig("d")), Nba("f2", Sig("f1")), Nba("q3", Sig("q2"))>>) >>,
    !.insts = << Use("dff", << By("", Sig("clk")), By("", Sig("d")), By("", Sig("q1")) >>),
                 Use("dff", << By("d", Sig("q1")), By("clk", Sig("clk")), By("q", Sig("q2")) >>) >>]
PipeDesign == [modules |-> "top" :> PipeTop @@ "dff" :> DffModule] @@
    [Design EXCEPT !.twins = {<<"q1", "f1">>, <<"q2", "f2">>},
                   !.chain = << [clk |-> "clk", from |-> "d", to |-> "q1"],
                                [clk |-> "clk", from |-> "q1", to |-> "q2"],
                                [clk |-> "clk", from |-> "q2", to |-> "q3"] >>]

\* An instance whose clock and reset are expressions of the parent, and its twin f.
RstModule == [Module EXCEPT
    !.reg = {"q"}, !.net = {"clk", "rst_n", "d", "init"}, !.const = "init" :> "L",
    !.ports = <<In("clk"), In("rst_n"), In("d"), Out("q")>>,
    !.ffs = << On(<< <<"posedge", "clk">>, <<"negedge", "rst_n">> >>,
                  <<If(Not(Sig("rst_n")), <<Nba("q", Sig("init"))>>, <<Nba("q", Sig("d"))>>)>>) >>]
RstTop == [Module EXCEPT
    !.reg = {"f"}, !.net = {"clk", "r", "d", "q"},
    !.ports = <<In("clk"), In("r"), In("d"), Out("q"), Out("f")>>,
    !.ffs = << On(<< <<"negedge", "clk">>, <<"posedge", "r">> >>,
                  <<If(Sig("r"), <<Nba("f", Lit("H"))>>, <<Nba("f", Sig("d"))>>)>>) >>,
    !.insts = << [Use("ff", << By("clk", Not(Sig("clk"))), By("rst_n", Not(Sig("r"))),
                               By("d", Sig("d")), By("q", Sig("q")) >>)
                    EXCEPT !.param = "init" :> "H"] >>]
RstDesign == [modules |-> "top" :> RstTop @@ "ff" :> RstModule] @@
    [Design EXCEPT !.twins = {<<"q", "f">>}]

\* A register that is set two ticks after the edge.
DelayTop == [Module EXCEPT
    !.reg = {"q"}, !.net = {"clk", "d"}, !.ports = <<In("clk"), In("d"), Out("q")>>,
    !.ffs = << On(<< <<"posedge", "clk">> >>, <<After(2, Nba("q", Sig("d")))>>) >>]
DelayDesign == [modules |-> "top" :> DelayTop] @@ [Design EXCEPT !.copied = FALSE, !.last = 2]

\* Two initial blocks: one of assignments only, one with an if, which is not scheduled as
\* a line.
StartTop == [Module EXCEPT
    !.reg = {"y", "w"}, !.net = {"a"}, !.ports = <<In("a"), Out("y"), Out("w")>>,
    !.initials = << << [k |-> "block", stmts |-> << Set("y", Lit("L")), After(2, Set("y", Lit("H"))),
                                                    After(1, Nba("y", Lit("L"))) >>] >>,
                    << If(Sig("a"), <<Set("w", Lit("H"))>>, <<Set("w", Lit("L"))>>) >> >>]
StartDesign == [modules |-> "top" :> StartTop] @@
    [Design EXCEPT !.last = 5,
        !.timeline = << [sig |-> "y", steps |-> << <<0, "L">>, <<2, "H">>, <<3, "L">> >>] >>]

\* Nets with two drivers, with a guarded one (assign v[e] = a), a latch with a sensitivity
\* list, a case, and an instance in the middle of a combinational path.
InvModule == [Module EXCEPT
    !.net = {"x", "y"}, !.ports = <<In("x"), Out("y")>>, !.assigns = <<Drive("y", Not(Sig("x")))>>]
CombTop == [Module EXCEPT
    !.reg = {"l", "z"}, !.net = {"a", "b", "n", "v", "w"},
    !.ports = <<In("a"), In("b"), Out("l"), Out("z")>>,
    !.assigns = << Drive("n", Sig("a")), Drive("n", Sig("b")), DriveIf(Sig("b"), "v", Sig("a")) >>,
    !.combs = << [star |-> FALSE, sens |-> {"w", "b"}, body |-> <<If(Sig("b"), <<Set("l", Sig("w"))>>, <<>>)>>],
                 Comb(<< [k |-> "case", ck |-> "casez", key |-> <<Sig("n"), Sig("v")>>,
                          items |-> << [is_default |-> TRUE, match |-> <<>>, stmts |-> <<Set("z", Lit("L"))>>],
                                       [is_default |-> FALSE, match |-> <<Lit("X"), Lit("Z")>>,
                                        stmts |-> <<Set("z", Lit("H"))>>],
                                       [is_default |-> FALSE, match |-> <<Lit("H"), Lit("H")>>,
                                        stmts |-> <<Nba("z", Sig("l"))>>] >>] >>) >>,
    !.insts = << Use("inv", << By("x", Xor(Sig("n"), Sig("v"))), By("y", Sig("w")) >>) >>]
CombDesign == [modules |-> "top" :> CombTop @@ "inv" :> InvModule] @@
    [Design EXCEPT !.drive = {"L", "H", "Z"}, !.poke = {"n"}]

\* More levels of nets than comb_resolve has rounds.  (A combinational block behind exactly
\* as many levels as there are rounds would never see the change: see the README.)
DeepTop == [Module EXCEPT
    !.reg = {"z"}, !.net = {"a", "n1", "n2", "n3", "n4", "n5", "n6", "n7", "n8"},
    !.ports = <<In("a"), Out("n8")>>,
    !.combs = << Comb(<<Set("z", Not(Sig("a")))>>) >>,
    !.assigns = << Drive("n1", Not(Sig("z"))), Drive("n2", Not(Sig("n1"))), Drive("n3", Not(Sig("n2"))),
                   Drive("n4", Not(Sig("n3"))), Drive("n5", Not(Sig("n4"))), Drive("n6", Not(Sig("n5"))),
                   Drive("n7", Not(Sig("n6"))), Drive("n8", Not(Sig("n7"))) >>]
DeepDesign == [modules |-> "top" :> DeepTop] @@ [Design EXCEPT !.poke = {"n3"}]

\* for(i = 0; i != 3; i = i + 1) begin if(i == 1 && b) continue; c = ~c; if(i == 1 && a) break; end,
\* a subprogram that returns early, and a do ... while.
Is1 == And(Not(Sig("i1")), Sig("i0"))
Step2 == [k |-> "blocking_assign", delay |-> 0, lhs |-> <<"i1", "i0">>,
          rhs |-> << Xor(Sig("i1"), Sig("i0")), Not(Sig("i0")) >>]
LoopTop == [Module EXCEPT
    !.reg = {"i1", "i0", "c", "r", "s", "k"}, !.net = {"a", "b"},
    !.ports = <<In("a"), In("b"), Out("c"), Out("r"), Out("s")>>,
    !.combs = <<
        Comb(<< Set("c", Lit("L")),
                [k |-> "for", init |-> <<Set("i1", Lit("L")), Set("i0", Lit("L"))>>,
                 cond |-> Not(And(Sig("i1"), Sig("i0"))), step |-> <<Step2>>,
                 body |-> << If(And(Is1, Sig("b")), <<Flow("cont")>>, <<>>), Set("c", Not(Sig("c"))),
                             If(And(Is1, Sig("a")), <<Flow("brk")>>, <<>>) >>] >>),
        Comb(<< Set("r", Lit("L")),
                [k |-> "subprogram_block", stmts |-> << If(Sig("a"), <<Flow("ret")>>, <<>>), Set("r", Lit("H")) >>] >>),
        Comb(<< [k |-> "block", stmts |-> << Set("s", Lit("L")), Set("k", Sig("a")),
                [k |-> "do_while", init |-> <<>>, cond |-> Sig("k"), step |-> <<>>,
                 body |-> << Set("s", Not(Sig("s"))), Set("k", And(Sig("k"), Not(Sig("s")))) >>] >>] >>) >>]
LoopDesign == [modules |-> "top" :> LoopTop] @@
    [Design EXCEPT !.copied = FALSE, !.expect = { <<"c", Not(Or(Sig("a"), Sig("b")))>>, <<"r", Not(Sig("a"))>>, <<"s", Lit("H")>> },
                   !.poke = {"k", "i0"}]

\* A signed one-bit connection of a two-bit port, and a signed two-bit output connected
\* to three bits; an unsigned one beside it.
WideModule == [Module EXCEPT
    !.net = {"x1", "x0", "u1", "u0", "y1", "y0", "v1", "v0"},
    !.ports = << [In("x") EXCEPT !.bits = <<"x1", "x0">>], [In("u") EXCEPT !.bits = <<"u1", "u0">>],
                 [Out("y") EXCEPT !.bits = <<"y1", "y0">>, !.signed = TRUE],
                 [Out("v") EXCEPT !.bits = <<"v1", "v0">>] >>,
    !.assigns = << Drive("y1", Sig("x1")), Drive("y0", Not(Sig("x0"))),
                   Drive("v1", Sig("u1")), Drive("v0", Sig("u0")) >>]
WideTop == [Module EXCEPT
    !.net = {"a", "b", "c", "y2", "y1", "y0", "v2", "v1", "v0"},
    !.ports = <<In("a"), In("b"), In("c"), Out("y2"), Out("v2")>>,
    !.insts = << Use("wide", << [port |-> "", ref |-> [bits |-> <<Sig("a")>>, signed |-> TRUE]],
                                [port |-> "", ref |-> [bits |-> <<Sig("a"), Sig("b"), Sig("c")>>, signed |-> FALSE]],
                                [port |-> "", ref |-> [bits |-> <<Sig("y2"), Sig("y1"), Sig("y0")>>, signed |-> FALSE]],
                                [port |-> "", ref |-> [bits |-> <<Sig("v2"), Sig("v1"), Sig("v0")>>, signed |-> FALSE]] >>) >>]
WideDesign == [modules |-> "top" :> WideTop @@ "wide" :> WideModule] @@
    [Design EXCEPT !.copied = FALSE, !.expect = { <<"y2", Sig("a")>>, <<"y1", Sig("a")>>, <<"y0", Not(Sig("a"))>>,
                                <<"v2", Lit("L")>>, <<"v1", Sig("b")>>, <<"v0", Sig("c")>> }]

\* assign r = $urandom[0];
RandTop == [Module EXCEPT
    !.net = {"clk", "rst_n", "r", "u3", "u2", "u1", "u0"}, !.urandom = <<"u3", "u2", "u1", "u0">>,
    !.ports = <<In("clk"), In("rst_n"), Out("r")>>, !.assigns = <<Drive("r", Sig("u0"))>>]
RandDesign == [modules |-> "top" :> RandTop] @@ [Design EXCEPT !.expect = { <<"r", Sig("u0")>> }]

MCDesigns ==
    "pipe" :> PipeDesign @@ "rst" :> RstDesign @@ "delay" :> DelayDesign @@ "start" :> StartDesign
    @@ "comb" :> CombDesign @@ "deep" :> DeepDesign @@ "loop" :> LoopDesign @@ "wide" :> WideDesign
    @@ "rand" :> RandDesign
=============================================================================
