--------------------------- MODULE MCDigitalTable ---------------------------
(***************************************************************************)
(* Netlists on which DigitalTable is model-checked.                        *)
(***************************************************************************)
EXTENDS DigitalTable

\* A netlist without feedback: a glitching reconvergence n3 = NAND(n1, n2),
\* n4 = XOR(n3, n1), n5 = NOT(n4), read back by an OUTPUT.
AcyclicNodes == {"n1", "n2", "n3", "n4", "n5"}
AcyclicGates == {"nand", "xor", "not"}
AcyclicKind ==
    [g \in AcyclicGates |-> CASE g = "nand" -> "NAND" [] g = "xor" -> "XOR"
                              [] g = "not" -> "NOT"]
AcyclicIA ==
    [d \in AcyclicGates \cup {"out"} |->
        CASE d = "nand" -> "n1" [] d = "xor" -> "n3" [] d = "not" -> "n4" [] d = "out" -> "n5"]
AcyclicIB ==
    [g \in AcyclicGates |-> CASE g = "nand" -> "n2" [] g = "xor" -> "n1" [] OTHER -> NoNode]
AcyclicO ==
    [d \in AcyclicGates \cup {"a", "b"} |->
        CASE d = "a" -> "n1" [] d = "b" -> "n2" [] d = "nand" -> "n3"
          [] d = "xor" -> "n4" [] d = "not" -> "n5"]

\* A netlist with feedback: a ring oscillator n2 = NAND(n1, n2) that the INPUT
\* enables, a latch n3 = OR(n2, n3), a reconvergence n5 = XOR(n3, n1), two drivers
\* (n4) on one node, and a gate whose output pin is not connected.
CyclicNodes == {"n1", "n2", "n3", "n4", "n5"}
CyclicGates == {"ring", "latch", "yes", "and", "xor", "open"}
CyclicKind ==
    [g \in CyclicGates |-> CASE g = "ring" -> "NAND" [] g = "latch" -> "OR" [] g = "yes" -> "YES"
                             [] g = "and" -> "AND" [] g = "xor" -> "XOR" [] g = "open" -> "NOR"]
CyclicIA ==
    [d \in CyclicGates \cup {"out"} |->
        CASE d = "ring" -> "n1" [] d = "latch" -> "n2" [] d = "yes" -> "n1" [] d = "and" -> "n2"
          [] d = "xor" -> "n3" [] d = "open" -> "n3" [] d = "out" -> "n5"]
CyclicIB ==
    [g \in CyclicGates |-> CASE g = "ring" -> "n2" [] g = "latch" -> "n3" [] g = "yes" -> NoNode
                             [] OTHER -> "n1"]
CyclicO ==
    [d \in CyclicGates \cup {"a"} |->
        CASE d = "a" -> "n1" [] d = "ring" -> "n2" [] d = "latch" -> "n3" [] d = "yes" -> "n4"
          [] d = "and" -> "n4" [] d = "xor" -> "n5" [] d = "open" -> NoNode]
=============================================================================
