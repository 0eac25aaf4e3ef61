----------------------------- MODULE FourState -----------------------------
(***************************************************************************)
(* The four-state logic of digital nodes                                   *)
(* (include/phy_engine/model/node/node.h) and the function each gate of    *)
(* model/models/digital/logical computes with it.                          *)
(***************************************************************************)

\* digital_node_statement_t: low, high, indeterminate, high impedance.
Val == {"L", "H", "X", "Z"}

Known(v) == v \in {"L", "H"}

\* operator& , | , ~ and ^ of digital_node_statement_t.
And4(a, b) == IF a = "L" \/ b = "L" THEN "L" ELSE IF a = "H" /\ b = "H" THEN "H" ELSE "X"

Or4(a, b) == IF a = "H" \/ b = "H" THEN "H" ELSE IF a = "L" /\ b = "L" THEN "L" ELSE "X"

Not4(a) == IF a = "L" THEN "H" ELSE IF a = "H" THEN "L" ELSE "X"

Xor4(a, b) == IF ~Known(a) \/ ~Known(b) THEN "X" ELSE IF a = b THEN "L" ELSE "H"

\* output_res of each gate, from its sampled inputs (NOT and YES have one).
AND(a, b) == And4(a, b)

OR(a, b) == Or4(a, b)

XOR(a, b) == Xor4(a, b)

NAND(a, b) == Not4(And4(a, b))

NOR(a, b) == Not4(Or4(a, b))

XNOR(a, b) == Not4(Xor4(a, b))

IMP(a, b) == Or4(Not4(a), b)

NIMP(a, b) == And4(a, Not4(b))

NOT(a) == Not4(a)

YES(a) == a

GateKinds == {"AND", "OR", "XOR", "NAND", "NOR", "XNOR", "IMP", "NIMP", "NOT", "YES"}

GateFn(k, a, b) ==
    CASE k = "AND"  -> AND(a, b)
      [] k = "OR"   -> OR(a, b)
      [] k = "XOR"  -> XOR(a, b)
      [] k = "NAND" -> NAND(a, b)
      [] k = "NOR"  -> NOR(a, b)
      [] k = "XNOR" -> XNOR(a, b)
      [] k = "IMP"  -> IMP(a, b)
      [] k = "NIMP" -> NIMP(a, b)
      [] k = "NOT"  -> NOT(a)
      [] k = "YES"  -> YES(a)
=============================================================================
