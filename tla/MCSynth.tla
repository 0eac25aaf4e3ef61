------------------------------ MODULE MCSynth ------------------------------
(***************************************************************************)
(* Netlists to optimise, by the rewrite rules they are for.                *)
(***************************************************************************)
EXTENDS SynthSystem

\* Inputs at nodes 0 to n - 1, the cells gs, and the nodes os read at ports.
Given(n, gs, os) ==
    LET cells == [j \in 1..n |-> Cell("IN", <<>>, j - 1)] \o gs
                 \o [j \in DOMAIN os |-> [k |-> "OUTPUT", in |-> <<os[j]>>, out |-> <<>>]]
        nodes == UNION {ToSet(c.out) : c \in ToSet(cells)}
    IN  [cells |-> cells, nodes |-> Max(nodes) + 1, ports |-> 0..(n - 1) \cup ToSet(os)]

G(k, a, b, o) == Cell(k, <<a, b>>, o)

N(a, o) == Cell("NOT", <<a>>, o)

\* A two-level term of literals over a, b, c under an AND or OR, read by one more gate.
Literals == {0, 1, 2, 4, 5}    \* nodes 4 and 5 are ~a and ~b

TwoLevel ==
    {Given(3, <<N(0, 4), N(1, 5), G(t, 0, q, 6), G(t2, r, s, 7), G(k, 6, 7, 8), G("XOR", 8, 2, 9)>>, <<9>>) :
        k \in {"AND", "OR"}, t \in {"AND", "OR"}, t2 \in {"AND", "OR", "NIMP"},
        q \in Literals, r \in Literals, s \in {1, 2, 5}}

\* A chain of four gates over a, b and the constants 0 and 1, listed forwards or backwards.
Links(i, o) == {N(i, o), G("AND", i, 1, o), G("AND", i, 3, o), G("OR", 3, i, o)}

Consts == <<Cell("C0", <<>>, 2), Cell("C1", <<>>, 3)>>

Chains ==
    {Given(2, Consts \o (IF back THEN Reverse(gs) ELSE gs), <<7>>) :
        back \in BOOLEAN,
        gs \in {<<g1, g2, g3, g4>> : g1 \in Links(0, 4), g2 \in Links(4, 5), g3 \in Links(5, 6), g4 \in Links(6, 7)}}

\* Two gates of any kind over a, b and a constant, the first one read by a port too or not.
AnyGate(I, o) ==
    {Cell(k, <<i>>, o) : k \in {"NOT", "YES"}, i \in I}
    \cup {G(k, i, j, o) : k \in GateKinds \ {"NOT", "YES"}, i \in I, j \in I}

Pairs ==
    {Given(2, Consts \o <<g, h, G("XOR", 5, 0, 6)>>, os) :
        g \in AnyGate({0, 1}, 4), h \in AnyGate({1, 4}, 5) \cup AnyGate({3, 4}, 5), os \in {<<6>>, <<4, 6>>}}

\* Two rewritable shapes in a row, the second one reading the result of the first twice.
Stage(sh, k, x, y, o) ==
    CASE sh = "absorb" -> <<G(Dual(k), x, y, o), G(k, x, o, o + 2)>>
      [] sh = "same" -> <<G(k, x, y, o), G(k, o, x, o + 2)>>
      [] sh = "idem" -> <<G(k, x, x, o), G(k, x, o, o + 2)>>
      [] sh = "tied" -> <<G(k, x, 2, o), G(k, o, 3, o + 2)>>
      [] sh = "not" -> <<N(x, o), N(o, o + 2)>>
      [] sh = "split" -> <<G(k, x, y, o), G(k, x, 4, o + 1), G(Dual(k), o, o + 1, o + 2)>>
      [] sh = "terms" -> <<G(k, x, x, o), G(k, x, x, o + 1), G(Dual(k), o, o + 1, o + 2)>>

Shapes == {"absorb", "same", "idem", "tied", "not", "split", "terms"}

Stages(k1, k2, back, os) ==
    {LET gs == <<N(1, 4)>> \o Stage(s1, k1, 0, 1, 5) \o Stage(s2, k2, 7, 1, 8) \o <<G("XOR", 10, 1, 11)>>
     IN  Given(2, Consts \o (IF back THEN Reverse(gs) ELSE gs), os) : s1 \in Shapes, s2 \in Shapes}

AllStages ==
    UNION {Stages(k1, k2, back, os) :
        k1 \in {"AND", "OR"}, k2 \in {"AND", "OR"}, back \in BOOLEAN, os \in {<<11>>, <<5, 8, 11>>}}

\* Two shapes in a row again, the first one of those that another pass must bring out: three
\* equal terms once constprop has seen that node o + 3 is x, and terms with a common factor once
\* flatten has seen that node 6 (or 8) is constant, and constprop2 that node o is then x.
Hidden(sh, k, x, y, o) ==
    CASE sh = "tree" -> <<G(Dual(k), o + 4, o + 2, o + 5), G(Dual(k), o, o + 1, o + 4)>>
                        \o [j \in 1..3 |-> G(k, x, o + 3, o + j - 1)]
                        \o <<G(k, x, IF k = "AND" THEN 3 ELSE 2, o + 3)>>
      [] sh = "late" -> <<G(Dual(k), x, IF k = "AND" THEN 6 ELSE 8, o), G(k, x, y, o + 1), G(k, o, 4, o + 2),
                          G(Dual(k), o + 1, o + 2, o + 5)>>

HiddenStages ==
    {LET gs == <<N(1, 4), N(3, 5), G("AND", 1, 5, 6), N(2, 7), G("OR", 1, 7, 8)>> \o Hidden(s1, k1, 0, 1, 9)
               \o (IF s2 \in Shapes THEN Stage(s2, k2, 14, 1, 18) ELSE Hidden(s2, k2, 14, 1, 15))
               \o <<G("XOR", 20, 1, 21)>>
     IN  Given(2, Consts \o (IF back THEN Reverse(gs) ELSE gs), <<21>>) :
        s1 \in {"tree", "late"}, s2 \in Shapes \cup {"tree", "late"},
        k1 \in {"AND", "OR"}, k2 \in {"AND", "OR"}, back \in BOOLEAN}

\* Adders and a multiplier, their inner nodes read from outside or not, and a flip-flop.
Arithmetic ==
    {Given(2, <<G("XOR", 0, 1, 2), G("AND", 1, 0, 3)>>, <<2, 3>>),
     Given(2, <<G("XOR", 0, 1, 2), N(2, 3), G("OR", 0, 1, 4)>>, <<3, 4>>),
     Given(2, <<G("XOR", 0, 1, 2), N(2, 3), G("OR", 0, 1, 4)>>, <<2, 3, 4>>),
     Given(4, <<G("AND", 0, 2, 4), G("AND", 0, 3, 5), G("AND", 1, 2, 6), G("XOR", 5, 6, 7), G("AND", 5, 6, 8),
                G("AND", 1, 3, 9), G("XOR", 9, 8, 10), G("AND", 9, 8, 11)>>, <<4, 7, 10, 11>>),
     Given(2, <<[k |-> "DFF", in |-> <<6, 0>>, out |-> <<2>>], N(2, 3), N(3, 4), G("XOR", 4, 1, 5), N(5, 6),
                G("AND", 6, 1, 7)>>, <<7>>)}
    \cup {Given(3, <<G("XOR", 0, 1, 3), G("XOR", 3, 2, 4), G("AND", 0, 1, 5), G("AND", 0, 2, 6), G("AND", 1, 2, 7),
                     G("OR", 5, 6, 8), G("OR", 8, 7, 9)>>, os) : os \in {<<4, 9>>, <<3, 4, 9>>, <<4, 5, 9>>}}

-----------------------------------------------------------------------------

Even == [k \in GateKinds |-> 1]

\* Inverters are cheap and the gates that absorb them are not.
Uneven == [k \in GateKinds |-> IF k = "NOT" THEN 1 ELSE IF k \in {"AND", "OR"} THEN 2 ELSE 5]

Plain(level, binary) ==
    [level |-> level, always |-> {}, binary |-> binary, max_nodes |-> 0, max_models |-> 0, max_gates |-> 0,
     tries |-> 1, regress |-> FALSE, verify |-> FALSE, timed |-> FALSE, weight |-> Even]

Limited ==
    {[Plain(4, FALSE) EXCEPT !.max_nodes = n, !.max_models = m, !.max_gates = g] :
        n \in {0, 12, 13}, m \in {0, 8}, g \in {4}}

Omax ==
    {[Plain(5, FALSE) EXCEPT !.tries = 2, !.regress = r, !.verify = v, !.timed = t, !.weight = c] :
        r \in BOOLEAN, v \in BOOLEAN, t \in BOOLEAN, c \in {Even, Uneven}}

\* What the C interface starts with.
Default == [Plain(0, FALSE) EXCEPT !.always = {"wires", "mul2", "adders"}]

Few == Stages("AND", "OR", FALSE, <<11>>) \cup Arithmetic

Calls(starts, opts) == {[start |-> s, opt |-> o] : s \in starts, o \in opts}

AllJobs ==
    Calls(TwoLevel \cup Chains \cup AllStages \cup HiddenStages \cup Arithmetic, {Plain(2, FALSE), Plain(3, TRUE)})
    \cup Calls(Pairs, {Plain(2, FALSE)})
    \cup Calls(Few, Limited \cup Omax \cup {Default})

\* Four inverters, and a gate with a constant behind another one.
SafeJobs == Calls(Chains, {Plain(1, FALSE)})
=============================================================================
