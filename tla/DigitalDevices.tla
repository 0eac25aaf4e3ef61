--------------------------- MODULE DigitalDevices ---------------------------
(***************************************************************************)
(* update_digital_clk of every digital device of model/models, as an       *)
(* operator on the device's private fields `m' and on what it sees at its  *)
(* pins.  A pin is a record                                                *)
(*   on  is it connected to a node?                                        *)
(*   an  num_of_analog_node # 0: the node also carries analog pins         *)
(*   st  node_information.dn.state of a digital node                       *)
(*   v   node_information.an.voltage of an analog node, in volts           *)
(* and the result is a record                                              *)
(*   mem   the device's fields afterwards                                  *)
(*   wr    what it writes: pairs <<pin, state>>                            *)
(*   pend  pins whose node it inserts into table.tables                    *)
(*   dr    the need_operate_analog_node_t it returns: <<>> or one pair     *)
(*         <<pin, voltage>>                                                *)
(***************************************************************************)
EXTENDS Order, Sequences, Functions, TLC, FourState

CONSTANTS    \* the interpreter of compiled Verilog (VerilogSim): one time step, and the start
    SimulateModule(_, _, _, _),
    ModuleTree(_)

Ll == 0
Hl == 5

NoEffect(m) == [mem |-> m, wr |-> {}, pend |-> {}, dr |-> <<>>]

AllOn(p) == \A i \in DOMAIN p : p[i].on

\* A voltage read against the rails.
Level(v) == IF v >= Hl THEN "H" ELSE IF v <= Ll THEN "L" ELSE "X"

\* The two read_dn helpers: devices that keep Z, and devices that take it for X.
ReadZ(p) == IF ~p.on THEN "X" ELSE IF p.an THEN Level(p.v) ELSE p.st

ReadX(p) == IF ReadZ(p) = "Z" THEN "X" ELSE ReadZ(p)

Volts(val) == IF val = "H" THEN Hl ELSE Ll

(***************************************************************************)
(* The three ways an output pin is driven.                                 *)
(***************************************************************************)

\* Mutant: the voltage is returned only when the output changed.
EmitCachedOnChange(m, p, i, val) ==
    LET new == [m EXCEPT !.last = val]
    IN  IF m.last = val THEN NoEffect(new)
        ELSE IF p[i].an
          THEN [NoEffect(new) EXCEPT !.dr = IF val = "Z" THEN <<>> ELSE << <<i, Volts(val)>> >>]
          ELSE [NoEffect(new) EXCEPT !.wr = {<<i, val>>}, !.pend = {i}]

\* Gates, INPUT: a cached last output decides about the event; Z drives no voltage.
EmitCached(m, p, i, val) ==
    LET new == [m EXCEPT !.last = val]
    IN  IF p[i].an
          THEN [NoEffect(new) EXCEPT !.dr = IF val = "Z" THEN <<>> ELSE << <<i, Volts(val)>> >>]
          ELSE [NoEffect(new) EXCEPT !.wr = {<<i, val>>}, !.pend = IF m.last # val THEN {i} ELSE {}]

\* Flip-flops, latch, RESOLVE2, comparator: the node itself is compared.
EmitDiff(m, p, i, val) ==
    IF p[i].an
      THEN [NoEffect(m) EXCEPT !.dr = << <<i, Volts(val)>> >>]
      ELSE IF p[i].st # val THEN [NoEffect(m) EXCEPT !.wr = {<<i, val>>}, !.pend = {i}]
           ELSE NoEffect(m)

\* IS_UNKNOWN, CASE_EQ, SCHMITT_TRIGGER: a voltage is returned only on a change.
EmitOnChange(m, p, i, val) ==
    LET new == [m EXCEPT !.last = val]
    IN  IF p[i].an /\ m.last = val THEN NoEffect(new) ELSE EmitDiff(new, p, i, val)

-----------------------------------------------------------------------------

(***************************************************************************)
(* Sampling of one input of a gate or OUTPUT.  s.val is inputA, s.usr is   *)
(* USRA, and s.age is tr_duration - duration_A, counted up to the larger   *)
(* of the two times it is compared with.                                   *)
(***************************************************************************)
Sample(s, p, Tsu, Th) ==
    LET hi == p.v >= Hl
        lo == p.v <= Ll
        start(usr) == [val |-> "X", usr |-> usr, age |-> 0]
        to(val) == [s EXCEPT !.val = val]
    IN  CASE ~p.an -> to(p.st)
          [] p.an /\ s.val = "L" -> IF ~hi THEN s ELSE IF Tsu > 0 THEN start("H") ELSE to("H")
          [] p.an /\ s.val = "H" -> IF ~lo THEN s ELSE IF Th > 0 THEN start("L") ELSE to("L")
          [] p.an /\ s.val = "Z" -> s
          [] p.an /\ s.val = "X" /\ s.usr = "L" ->
               IF ~lo THEN to("H") ELSE IF s.age >= Tsu THEN to("L") ELSE s
          [] p.an /\ s.val = "X" /\ s.usr = "H" ->
               IF ~hi THEN to("L") ELSE IF s.age >= Th THEN to("H") ELSE s
          [] p.an /\ s.val = "X" /\ s.usr = "X" ->
               IF hi THEN (IF s.age >= Th THEN to("H") ELSE s)
               ELSE IF lo THEN (IF s.age >= Tsu THEN to("L") ELSE s)
               ELSE [s EXCEPT !.age = 0]

Gate(k, par, m, p) ==
    LET n == Len(p) - 1
        in == [i \in 1..n |-> Sample(m.in[i], p[i], par.Tsu, par.Th)]
        res == GateFn(k, in[1].val, in[n].val)
    IN  IF AllOn(p) THEN EmitCached([m EXCEPT !.in = in], p, n + 1, res) ELSE NoEffect(m)

\* The ten gates have the same body around different truth tables.
UpdateAND(par, m, p) == Gate("AND", par, m, p)
UpdateOR(par, m, p) == Gate("OR", par, m, p)
UpdateXOR(par, m, p) == Gate("XOR", par, m, p)
UpdateNAND(par, m, p) == Gate("NAND", par, m, p)
UpdateNOR(par, m, p) == Gate("NOR", par, m, p)
UpdateXNOR(par, m, p) == Gate("XNOR", par, m, p)
UpdateIMP(par, m, p) == Gate("IMP", par, m, p)
UpdateNIMP(par, m, p) == Gate("NIMP", par, m, p)
UpdateNOT(par, m, p) == Gate("NOT", par, m, p)
UpdateYES(par, m, p) == Gate("YES", par, m, p)

INPUT(m, p) == IF p[1].on THEN EmitCached(m, p, 1, m.outputA) ELSE NoEffect(m)

OUTPUT(par, m, p) ==
    NoEffect([m EXCEPT !.in[1] = Sample(m.in[1], p[1], par.Tsu, par.Th)])

\* TRI reports its output node as changed on every update, changed or not.
TRI(m, p) ==
    LET enabled == IF p[2].an THEN p[2].v >= Hl ELSE p[2].st = "H"
        inputState == ReadZ(p[1])
    IN  IF ~AllOn(p) THEN NoEffect(m)
        ELSE IF p[3].an
          THEN [NoEffect(m) EXCEPT !.dr = IF enabled THEN << <<3, Volts(inputState)>> >> ELSE <<>>]
          ELSE [NoEffect(m) EXCEPT !.wr = {<<3, IF enabled THEN inputState ELSE "Z">>}, !.pend = {3}]

RESOLVE2(m, p) ==
    LET a == ReadZ(p[1])
        b == ReadZ(p[2])
        out == IF a = "Z" THEN b ELSE IF b = "Z" \/ a = b THEN a ELSE "X"
    IN  IF AllOn(p) THEN EmitDiff(m, p, 3, out) ELSE NoEffect(m)

\* Mutant: the pipeline also advances on events.
TICK_DELAYOnEvents(par, m, p, method) ==
    LET in == ReadZ(p[1])
        t == par.ticks
        filled == IF Len(m.pipe) = t THEN m ELSE [m EXCEPT !.pipe = [i \in 1..t |-> in], !.last = "X"]
        shifted == [filled EXCEPT !.pipe = IF t = 0 THEN <<>> ELSE <<in>> \o SubSeq(filled.pipe, 1, t - 1)]
    IN  IF p[2].on THEN EmitCached(shifted, p, 2, IF t = 0 THEN in ELSE filled.pipe[t]) ELSE NoEffect(m)

\* Advances only when called from before_digital_clk().
TICK_DELAY(par, m, p, method) ==
    LET in == ReadZ(p[1])
        t == par.ticks
        filled == IF Len(m.pipe) = t THEN m ELSE [m EXCEPT !.pipe = [i \in 1..t |-> in], !.last = "X"]
        shifted == [filled EXCEPT !.pipe = IF t = 0 THEN <<>> ELSE <<in>> \o SubSeq(filled.pipe, 1, t - 1)]
        out == IF t = 0 THEN in ELSE filled.pipe[t]
    IN  IF method # "before" \/ ~p[2].on THEN NoEffect(m)
        ELSE IF p[2].an
          THEN [NoEffect(shifted) EXCEPT !.dr = IF Known(out) THEN << <<2, Volts(out)>> >> ELSE <<>>]
          ELSE EmitCached(shifted, p, 2, out)

IS_UNKNOWN(m, p) ==
    IF AllOn(p) THEN EmitOnChange(m, p, 2, IF Known(ReadZ(p[1])) THEN "L" ELSE "H") ELSE NoEffect(m)

\* Mutant: Z is compared as X.
CASE_EQLogical(m, p) ==
    IF AllOn(p) THEN EmitOnChange(m, p, 3, IF ReadX(p[1]) = ReadX(p[2]) THEN "H" ELSE "L")
    ELSE NoEffect(m)

CASE_EQ(m, p) ==
    IF AllOn(p) THEN EmitOnChange(m, p, 3, IF ReadZ(p[1]) = ReadZ(p[2]) THEN "H" ELSE "L")
    ELSE NoEffect(m)

\* Mutant: one threshold, no hysteresis.
SCHMITT_TRIGGEROneThreshold(par, m, p) ==
    LET out == IF ~p[1].an THEN ReadX(p[1]) ELSE IF 3 * p[1].v >= 10 THEN "H" ELSE "L"
        driven == IF par.inverted /\ Known(out) THEN Not4(out) ELSE out
    IN  IF AllOn(p) THEN EmitOnChange([m EXCEPT !.out = out], p, 2, driven) ELSE NoEffect(m)

\* Vth_low and Vth_high are 5/3 and 10/3 volts.
SCHMITT_TRIGGER(par, m, p) ==
    LET out == IF ~p[1].an THEN ReadX(p[1])
               ELSE IF 3 * p[1].v >= 10 THEN "H"
               ELSE IF 3 * p[1].v <= 5 THEN "L" ELSE m.out
        driven == IF par.inverted /\ Known(out) THEN Not4(out) ELSE out
    IN  IF AllOn(p) THEN EmitOnChange([m EXCEPT !.out = out], p, 2, driven) ELSE NoEffect(m)

comparator(m, p) ==
    IF AllOn(p) THEN EmitDiff(m, p, 3, IF p[1].v >= p[2].v THEN "H" ELSE "L") ELSE NoEffect(m)

-----------------------------------------------------------------------------

(***************************************************************************)
(* Buses: pins 1..n show the n bits of a number, most significant first.   *)
(* Only the first analog pin of a bus is driven.                           *)
(***************************************************************************)
Bit(value, b) == IF (value \div 2^b) % 2 = 1 THEN "H" ELSE "L"

FirstAnalog(p, pins, val) ==
    LET an == {i \in pins : p[i].on /\ p[i].an}
        first == CHOOSE i \in an : \A j \in an : i <= j
    IN  IF an = {} THEN <<>> ELSE << <<first, Volts(val[first])>> >>

EmitBus(m, p, val) ==
    LET diff == {i \in DOMAIN val : p[i].on /\ ~p[i].an /\ p[i].st # val[i]}
    IN  [mem |-> m, wr |-> {<<i, val[i]>> : i \in diff}, pend |-> diff,
         dr |-> FirstAnalog(p, DOMAIN val, val)]

EIGHT_BIT_INPUT(m, p) ==
    LET bus == EmitBus([m EXCEPT !.last_value = m.value], p, [i \in 1..8 |-> Bit(m.value, 8 - i)])
    IN  IF m.last_value # m.value THEN bus ELSE [bus EXCEPT !.wr = {}, !.pend = {}]

EIGHT_BIT_DISPLAY(m, p) ==
    NoEffect([m EXCEPT !.shown = [i \in 1..8 |-> ReadX(p[i])]])

-----------------------------------------------------------------------------

(***************************************************************************)
(* Arithmetic blocks: outputs outs, all X when an input is unknown.  An    *)
(* output is written only when it differs from the cached last value.      *)
(***************************************************************************)
\* Mutant: every output is reported as changed.
EmitLastAlways(m, p, outs, val, reached) ==
    LET digital == {i \in outs : i \in reached /\ ~p[i].an}
    IN  [mem |-> [m EXCEPT !.last = [i \in outs |-> IF i \in digital THEN val[i] ELSE m.last[i]]],
         wr |-> {<<i, val[i]>> : i \in digital}, pend |-> digital,
         dr |-> FirstAnalog(p, outs, val)]

EmitLast(m, p, outs, val, reached) ==
    LET changed == {i \in outs : i \in reached /\ ~p[i].an /\ m.last[i] # val[i]}
    IN  [mem |-> [m EXCEPT !.last = [i \in outs |-> IF i \in changed THEN val[i] ELSE m.last[i]]],
         wr |-> {<<i, val[i]>> : i \in changed}, pend |-> changed,
         dr |-> FirstAnalog(p, outs, val)]

Unless(p, ins, val) == IF \E i \in ins : ReadX(p[i]) = "X" THEN "X" ELSE val

HALF_ADDER(m, p) ==
    LET A == ReadX(p[1])
        B == ReadX(p[2])
        val == (3 :> Unless(p, 1..2, Xor4(A, B)) @@ 4 :> Unless(p, 1..2, And4(A, B)))
    IN  IF AllOn(p) THEN EmitLast(m, p, 3..4, val, 3..4) ELSE NoEffect(m)

FULL_ADDER(m, p) ==
    LET A == ReadX(p[1])
        B == ReadX(p[2])
        CI == ReadX(p[3])
        val == (4 :> Unless(p, 1..3, Xor4(Xor4(A, B), CI))
                @@ 5 :> Unless(p, 1..3, Or4(Or4(And4(A, B), And4(A, CI)), And4(B, CI))))
    IN  IF AllOn(p) THEN EmitLast(m, p, 4..5, val, 4..5) ELSE NoEffect(m)

HALF_SUB(m, p) ==
    LET A == ReadX(p[1])
        B == ReadX(p[2])
        val == (3 :> Unless(p, 1..2, Xor4(A, B)) @@ 4 :> Unless(p, 1..2, And4(Not4(A), B)))
    IN  IF AllOn(p) THEN EmitLast(m, p, 3..4, val, 3..4) ELSE NoEffect(m)

FULL_SUB(m, p) ==
    LET A == ReadX(p[1])
        B == ReadX(p[2])
        BI == ReadX(p[3])
        val == (4 :> Unless(p, 1..3, Xor4(Xor4(A, B), BI))
                @@ 5 :> Unless(p, 1..3, Or4(Or4(And4(Not4(A), B), And4(Not4(A), BI)), And4(B, BI))))
    IN  IF AllOn(p) THEN EmitLast(m, p, 4..5, val, 4..5) ELSE NoEffect(m)

\* The loop over p0..p3 returns at the first analog output; the ones after it are
\* not reached.
MUL2(m, p) ==
    LET A0 == ReadX(p[1])
        A1 == ReadX(p[2])
        B0 == ReadX(p[3])
        B1 == ReadX(p[4])
        t1 == And4(A0, B1)
        t2 == And4(A1, B0)
        c1 == And4(t1, t2)
        val == (5 :> Unless(p, 1..4, And4(A0, B0)) @@ 6 :> Unless(p, 1..4, Xor4(t1, t2))
                @@ 7 :> Unless(p, 1..4, Xor4(And4(A1, B1), c1))
                @@ 8 :> Unless(p, 1..4, And4(And4(A1, B1), c1)))
        reached == {i \in 5..8 : \A j \in 5..i : ~p[j].an}
    IN  IF AllOn(p) THEN EmitLast(m, p, 5..8, val, reached) ELSE NoEffect(m)

-----------------------------------------------------------------------------

(***************************************************************************)
(* Clocked devices.  last_clk follows the clock while it is L or H, and    *)
(* last_clk = L with the clock at H is a rising edge.                      *)
(***************************************************************************)
Edge(m, clk) == m.last_clk = "L" /\ clk = "H"

\* Mutant: last_clk is only ever cleared after its first rise.
ClockedLowOnly(m, clk, q) == [m EXCEPT !.q = q, !.last_clk = IF clk = "L" THEN clk ELSE m.last_clk]

Clocked(m, clk, q) == [m EXCEPT !.q = q, !.last_clk = IF Known(clk) THEN clk ELSE m.last_clk]

\* !static_cast<bool>(q): X and Z are not zero.
Toggle(q) == IF q = "L" THEN "H" ELSE "L"

DFF(m, p) ==
    LET CLK == ReadX(p[2])
        q == IF Edge(m, CLK) THEN ReadX(p[1]) ELSE m.q
    IN  IF AllOn(p) THEN EmitDiff(Clocked(m, CLK, q), p, 3, q) ELSE NoEffect(m)

DFF_ARSTN(par, m, p) ==
    LET CLK == ReadX(p[2])
        ARSTN == ReadX(p[3])
        q == IF ARSTN = "X" THEN "X" ELSE IF ARSTN = "L" THEN par.reset_value
             ELSE IF Edge(m, CLK) THEN ReadX(p[1]) ELSE m.q
    IN  IF AllOn(p) THEN EmitDiff(Clocked(m, CLK, q), p, 4, q) ELSE NoEffect(m)

DLATCH(m, p) ==
    LET en == ReadX(p[2])
        q == IF en = "X" THEN "X" ELSE IF en = "H" THEN ReadX(p[1]) ELSE m.q
    IN  IF AllOn(p) THEN EmitDiff([m EXCEPT !.q = q], p, 3, q) ELSE NoEffect(m)

JKFF(m, p) ==
    LET J == ReadX(p[1])
        K == ReadX(p[2])
        CLK == ReadX(p[3])
        q == IF ~Edge(m, CLK) THEN m.q
             ELSE IF J = "X" \/ K = "X" THEN "X"
             ELSE IF J = "H" THEN (IF K = "H" THEN Toggle(m.q) ELSE "H")
             ELSE IF K = "H" THEN "L" ELSE m.q
    IN  IF AllOn(p) THEN EmitDiff(Clocked(m, CLK, q), p, 4, q) ELSE NoEffect(m)

ToggleOn(level, m, p) ==
    LET T == ReadX(p[1])
        CLK == ReadX(p[2])
        q == IF ~Edge(m, CLK) THEN m.q ELSE IF T = "X" THEN "X"
             ELSE IF T = level THEN Toggle(m.q) ELSE m.q
    IN  IF AllOn(p) THEN EmitDiff(Clocked(m, CLK, q), p, 3, q) ELSE NoEffect(m)

TFF(m, p) == ToggleOn("H", m, p)

T_BAR_FF(m, p) == ToggleOn("L", m, p)

\* An enable or reset_n pin that is unconnected or Z reads as H.
ReadOptional(p) == IF ~p.on THEN "H" ELSE IF ~p.an /\ p.st = "Z" THEN "H" ELSE ReadX(p)

Nibble(m) == [i \in 1..4 |-> IF m.unknown THEN "X" ELSE Bit(m.q, 4 - i)]

\* Pins q3..q0, clk, en.
COUNTER4(m, p) ==
    LET clk == ReadX(p[5])
        en == ReadOptional(p[6])
        counted == IF Edge(m, clk) /\ en = "H" /\ ~m.unknown THEN (m.q + 1) % 16 ELSE m.q
        new == [Clocked(m, clk, counted) EXCEPT !.unknown = @ \/ (Edge(m, clk) /\ en = "X")]
    IN  IF p[5].on THEN EmitBus(new, p, Nibble(new)) ELSE NoEffect(m)

\* Pins q3..q0, clk, reset_n.  The shift register injects a one.
RANDOM_GENERATOR4(m, p) ==
    LET clk == ReadX(p[5])
        rstn == ReadOptional(p[6])
        feedback == ((m.q \div 8) + ((m.q \div 4) % 2) + 1) % 2
        shifted == ((2 * m.q) % 16) + feedback
        new == IF rstn = "L" THEN [Clocked(m, clk, 0) EXCEPT !.unknown = FALSE]
               ELSE IF rstn = "X" THEN [Clocked(m, clk, m.q) EXCEPT !.unknown = TRUE]
               ELSE Clocked(m, clk, IF Edge(m, clk) /\ ~m.unknown THEN shifted ELSE m.q)
    IN  IF p[5].on THEN EmitBus(new, p, Nibble(new)) ELSE NoEffect(m)

-----------------------------------------------------------------------------

(***************************************************************************)
(* VERILOG_MODULE: a compiled Verilog module as a device, one pin for each *)
(* bit of its ports.  par.E is its elaborated design.  Its tick is counted *)
(* up to par.last, beyond which a design without delays does not see it.   *)
(***************************************************************************)
PortBits(E) ==
    LET ports == E[<<>>].mod.ports
        at == InOrder(UNION {{i} \X DOMAIN ports[i].bits : i \in DOMAIN ports})
    IN  [k \in DOMAIN at |-> [dir |-> ports[at[k][1]].dir, sig |-> ports[at[k][1]].bits[at[k][2]]]]

\* The design's state after the input nodes are sampled.
SamplePorts(E, tree, p) ==
    LET ports == PortBits(E)
        read == {i \in DOMAIN ports : ports[i].dir # "output" /\ p[i].on}
        pin(s) == CHOOSE i \in read : ports[i].sig = s
    IN  [tree EXCEPT ![<<>>].values =
            [s \in {ports[i].sig : i \in read} |-> ReadZ(p[pin(s)])] @@ @]

\* The connected output pins, with the values the design gives them.
PortOutputs(E, tree, p) ==
    LET ports == PortBits(E)
    IN  {<<i, tree[<<>>].values[ports[i].sig]>> :
            i \in {j \in DOMAIN ports : ports[j].dir \in {"output", "inout"} /\ p[j].on}}

\* Mutant: the voltages always start with the first port.
EmitPortsFirst(E, m, p) ==
    LET out == PortOutputs(E, m.tree, p)
        analog == {w \in out : p[w[1]].an /\ w[2] # "Z"}
        next == CHOOSE w \in analog : \A x \in analog : w[1] <= x[1]
    IN  [NoEffect(m) EXCEPT !.dr = IF analog = {} THEN <<>> ELSE << <<next[1], Volts(next[2])>> >>]

\* The outputs that changed are written; at most one hybrid output is given a voltage per
\* call, in turn.
EmitPorts(E, m, p) ==
    LET out == PortOutputs(E, m.tree, p)
        digital == {w \in out : ~p[w[1]].an /\ p[w[1]].st # w[2]}
        analog == {w \in out : p[w[1]].an /\ w[2] # "Z"}
        turns(w) == (w[1] - 1 - m.analog_emit_cursor + Len(p)) % Len(p)
        next == CHOOSE w \in analog : \A x \in analog : turns(w) <= turns(x)
    IN  [mem |-> [m EXCEPT !.analog_emit_cursor = IF analog = {} THEN @ ELSE next[1] % Len(p)],
         wr |-> digital, pend |-> {w[1] : w \in digital},
         dr |-> IF analog = {} THEN <<>> ELSE << <<next[1], Volts(next[2])>> >>]

\* Mutant: the sequential blocks run while the tick settles, not when it begins.
EvaluateModuleLate(E, m, p, tick, before) ==
    [m EXCEPT !.tick = tick, !.tree = SimulateModule(E, SamplePorts(E, @, p), tick, ~before)]

\* Sequential blocks run before the tick settles only.
EvaluateModule(E, m, p, tick, before) ==
    [m EXCEPT !.tick = tick, !.tree = SimulateModule(E, SamplePorts(E, @, p), tick, before)]

VERILOG_MODULE(par, m, p, method) ==
    LET before == method = "before"
        tick == IF before /\ m.tick < par.last THEN m.tick + 1 ELSE m.tick
    IN  EmitPorts(par.E, EvaluateModule(par.E, m, p, tick, before), p)

-----------------------------------------------------------------------------

FlipFlops == {"DFF", "DFF_ARSTN", "JKFF", "TFF", "T_BAR_FF"}

\* Devices whose digital_update_method is before_all_clk.
BeforeKinds == {"INPUT", "EIGHT_BIT_INPUT", "TICK_DELAY", "VERILOG_MODULE"}

\* A device as constructed; usr is USRA as prepare_tr() or the constructor leaves it.
InitMem(k, par, usr) ==
    LET s == [val |-> "X", usr |-> usr, age |-> 0]
    IN  CASE k \in GateKinds -> [in |-> IF k \in {"NOT", "YES"} THEN <<s>> ELSE <<s, s>>, last |-> "X"]
          [] k = "OUTPUT" -> [in |-> <<s>>]
          [] k = "INPUT" -> [outputA |-> "L", last |-> "X"]
          [] k = "TICK_DELAY" -> [pipe |-> <<>>, last |-> "X"]
          [] k \in {"IS_UNKNOWN", "CASE_EQ"} -> [last |-> "X"]
          [] k = "SCHMITT_TRIGGER" -> [out |-> "L", last |-> "X"]
          [] k = "EIGHT_BIT_INPUT" -> [value |-> 0, last_value |-> 255]
          [] k = "EIGHT_BIT_DISPLAY" -> [shown |-> [i \in 1..8 |-> "L"]]
          [] k \in {"HALF_ADDER", "HALF_SUB"} -> [last |-> [i \in 3..4 |-> "X"]]
          [] k \in {"FULL_ADDER", "FULL_SUB"} -> [last |-> [i \in 4..5 |-> "X"]]
          [] k = "MUL2" -> [last |-> [i \in 5..8 |-> "X"]]
          [] k \in FlipFlops -> [q |-> "L", last_clk |-> "L"]
          [] k = "DLATCH" -> [q |-> "X"]
          [] k = "COUNTER4" -> [q |-> 0, unknown |-> FALSE, last_clk |-> "L"]
          [] k = "RANDOM_GENERATOR4" -> [q |-> 1, unknown |-> FALSE, last_clk |-> "L"]
          [] k = "VERILOG_MODULE" -> [tree |-> ModuleTree(par.E), tick |-> 0, analog_emit_cursor |-> 0]
          [] k \in {"TRI", "RESOLVE2", "comparator"} -> [stateless |-> TRUE]

\* The virtual call model->ptr->update_digital_clk(table, tr_duration, method).
UpdateDigitalClk(k, par, m, p, method) ==
    CASE k = "AND" -> UpdateAND(par, m, p)
      [] k = "OR" -> UpdateOR(par, m, p)
      [] k = "XOR" -> UpdateXOR(par, m, p)
      [] k = "NAND" -> UpdateNAND(par, m, p)
      [] k = "NOR" -> UpdateNOR(par, m, p)
      [] k = "XNOR" -> UpdateXNOR(par, m, p)
      [] k = "IMP" -> UpdateIMP(par, m, p)
      [] k = "NIMP" -> UpdateNIMP(par, m, p)
      [] k = "NOT" -> UpdateNOT(par, m, p)
      [] k = "YES" -> UpdateYES(par, m, p)
      [] k = "INPUT" -> INPUT(m, p)
      [] k = "OUTPUT" -> OUTPUT(par, m, p)
      [] k = "TRI" -> TRI(m, p)
      [] k = "RESOLVE2" -> RESOLVE2(m, p)
      [] k = "TICK_DELAY" -> TICK_DELAY(par, m, p, method)
      [] k = "IS_UNKNOWN" -> IS_UNKNOWN(m, p)
      [] k = "CASE_EQ" -> CASE_EQ(m, p)
      [] k = "SCHMITT_TRIGGER" -> SCHMITT_TRIGGER(par, m, p)
      [] k = "comparator" -> comparator(m, p)
      [] k = "EIGHT_BIT_INPUT" -> EIGHT_BIT_INPUT(m, p)
      [] k = "EIGHT_BIT_DISPLAY" -> EIGHT_BIT_DISPLAY(m, p)
      [] k = "HALF_ADDER" -> HALF_ADDER(m, p)
      [] k = "FULL_ADDER" -> FULL_ADDER(m, p)
      [] k = "HALF_SUB" -> HALF_SUB(m, p)
      [] k = "FULL_SUB" -> FULL_SUB(m, p)
      [] k = "MUL2" -> MUL2(m, p)
      [] k = "DFF" -> DFF(m, p)
      [] k = "DFF_ARSTN" -> DFF_ARSTN(par, m, p)
      [] k = "DLATCH" -> DLATCH(m, p)
      [] k = "JKFF" -> JKFF(m, p)
      [] k = "TFF" -> TFF(m, p)
      [] k = "T_BAR_FF" -> T_BAR_FF(m, p)
      [] k = "COUNTER4" -> COUNTER4(m, p)
      [] k = "RANDOM_GENERATOR4" -> RANDOM_GENERATOR4(m, p)
      [] k = "VERILOG_MODULE" -> VERILOG_MODULE(par, m, p, method)
=============================================================================
