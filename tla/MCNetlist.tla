----------------------------- MODULE MCNetlist -----------------------------
(* Resistors and buffers on two nodes and ground, in chunks of two models, *)
(* built with the operations of the netlist itself.                        *)
EXTENDS FloatingSubnet, SequencesExt

MCDevices == [R |-> [analog |-> TRUE, pins |-> 2, outputs |-> {}],
              YES |-> [analog |-> FALSE, pins |-> 2, outputs |-> {2}]]

(* A netlist with `nodes' nodes and the models <<kind, node, node>>.       *)
Build(nodes, models) ==
    LET AddNode(n, i) == CreateNodeIn(n)
        Connect(n, p, i, k) == IF k = Nullptr THEN n ELSE AddToNodeIn(n, p, i, k)
        Add(n, m) == LET a == AddModelTo(n, m[1], FreshIds(Used(n), 1)[1])
                         p == <<Len(a.models), Len(Last(a.models).slots)>>
                     IN  Connect(Connect(a, p, 1, m[2]), p, 2, m[3])
    IN  FoldLeft(Add, FoldLeft(AddNode, EmptyNetlist, [i \in 1..nodes |-> i]), models)

MCStart ==
    {EmptyNetlist,
     Build(1, <<<<"R", 1, Nullptr>>, <<"YES", 1, Nullptr>>>>),
     Build(2, <<<<"YES", 0, 1>>, <<"YES", 1, 2>>, <<"R", 2, 0>>>>),
     Build(2, <<<<"R", 1, 2>>, <<"R", 2, 1>>, <<"R", 1, 1>>>>),
     Build(3, <<<<"YES", 2, 3>>, <<"YES", 1, 2>>, <<"R", 3, Nullptr>>>>)}
=============================================================================
