--------------------------- MODULE VerilogDesigns ---------------------------
(***************************************************************************)
(* Notation for compiled Verilog modules, in the form VerilogSim defines,  *)
(* and the modules that several instances for TLC share.                   *)
(***************************************************************************)
EXTENDS Integers, Sequences

Lit(v) == <<"literal", v>>
Sig(s) == <<"signal", s>>
Not(e) == <<"not", e>>
And(a, b) == <<"and", a, b>>
Or(a, b) == <<"or", a, b>>
Xor(a, b) == <<"xor", a, b>>

In(s) == [name |-> s, dir |-> "input", signed |-> FALSE, bits |-> <<s>>]
Out(s) == [name |-> s, dir |-> "output", signed |-> FALSE, bits |-> <<s>>]

Set(s, e) == [k |-> "blocking_assign", delay |-> 0, lhs |-> <<s>>, rhs |-> <<e>>]
Nba(s, e) == [k |-> "nonblocking_assign", delay |-> 0, lhs |-> <<s>>, rhs |-> <<e>>]
After(d, stmt) == [stmt EXCEPT !.delay = d]
If(c, a, b) == [k |-> "if", cond |-> c, stmts |-> a, else_stmts |-> b]
Flow(f) == [k |-> f]

Drive(s, e) == [lhs |-> s, rhs |-> e, guard |-> Lit("H")]
DriveIf(g, s, e) == [lhs |-> s, rhs |-> e, guard |-> g]
Comb(body) == [star |-> TRUE, sens |-> {}, body |-> body]
On(events, body) == [events |-> events, body |-> body]
OneBit(e) == [bits |-> <<e>>, signed |-> FALSE]
By(port, e) == [port |-> port, ref |-> OneBit(e)]
Use(mod, conn) == [mod |-> mod, conn |-> conn, param |-> <<>>]

Module == [reg |-> {}, net |-> {}, const |-> <<>>, ports |-> <<>>, assigns |-> <<>>, ffs |-> <<>>,
           combs |-> <<>>, initials |-> <<>>, insts |-> <<>>, urandom |-> <<>>]
\* module dff(input clk, input d, output reg q); always @(posedge clk) q <= d;
DffModule == [Module EXCEPT
    !.reg = {"q"}, !.net = {"clk", "d"}, !.ports = <<In("clk"), In("d"), Out("q")>>,
    !.ffs = << On(<< <<"posedge", "clk">> >>, <<Nba("q", Sig("d"))>>) >>]
=============================================================================
