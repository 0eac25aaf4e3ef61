-------------------------- MODULE RefinementProofs --------------------------
(***************************************************************************)
(* DigitalClk implements DigitalTable on every netlist of gates, INPUTs    *)
(* and OUTPUTs, in every heap layout, so that what DigitalTableProofs      *)
(* proves of the abstract tick holds of the engine.                        *)
(***************************************************************************)
EXTENDS DigitalClkProofs

\* Zenon, unless a step names another prover.
USE ZenonT(20)

(* The constants and variables of DigitalTable as DigitalClk instantiates  *)
(* them.                                                                   *)
TGates == The(GateKinds)
TInputs == The({"INPUT"})
TOutputs == The({"OUTPUT"})
TKind == [g \in The(GateKinds) |-> TheNetlist.dev[g].kind]
TIA == [m \in The(GateKinds \cup {"OUTPUT"}) |-> ThePins(m)[1]]
TIB == [g \in The(GateKinds) |-> IF Len(ThePins(g)) = 3 THEN ThePins(g)[2] ELSE NoNode]
TO == [m \in The(GateKinds \cup {"INPUT"}) |-> ThePins(m)[Len(ThePins(m))]]
TOutputA == [i \in Of({"INPUT"}) |-> mem[i].outputA]
TLast == [m \in Of(GateKinds \cup {"INPUT"}) |-> mem[m].last]
TInputA == [o \in Of({"OUTPUT"}) |-> mem[o].in[1].val]
TBefore == IF phase = "before" THEN Range(queue) ELSE {}
TTodo == IF phase = "table" THEN {PinName(p) : p \in Range(queue)} ELSE {}

Drivers == TGates \cup TInputs

\* The netlist in use is the one DigitalTable is about; all its nodes are digital.
LEMMA GateNet ==
    ASSUME GateNetlists, nl \in Netlists
    PROVE  /\ Nodes = Range(TheNetlist.nodes) /\ Hybrid = {} /\ NoNode \notin Nodes
           /\ ModelSet = TGates \cup TInputs \cup TOutputs
           /\ TGates \cap TInputs = {} /\ TGates \cap TOutputs = {} /\ TInputs \cap TOutputs = {}
           /\ \A K : The(K) = Of(K)
           /\ \A m \in ModelSet : /\ ThePins(m) = Pins[m] /\ TheNetlist.dev[m].kind = Kind[m]
                                  /\ DOMAIN Pins[m] = 1..Len(Pins[m]) /\ Len(Pins[m]) = PinCount(Kind[m])
                                  /\ \A i \in DOMAIN Pins[m] : Pins[m][i] \in Nodes \cup {NoNode}
           /\ \A m \in TGates : Kind[m] \in GateKinds
           /\ \A m \in TInputs : Kind[m] = "INPUT"
           /\ \A m \in TOutputs : Kind[m] = "OUTPUT"
<1>1. /\ nl.dev = TheNetlist.dev /\ Range(nl.nodes) = Range(TheNetlist.nodes) /\ nl.hybrid = {}
      /\ \A m \in DOMAIN nl.dev : nl.dev[m].kind \in GateKinds \cup {"INPUT", "OUTPUT"}
  BY DEF GateNetlists
<1>2. \A K : The(K) = Of(K)  BY <1>1 DEF The, Of, ModelSet, Kind
<1>3. \A m \in ModelSet : ThePins(m) = Pins[m] /\ TheNetlist.dev[m].kind = Kind[m]
  BY <1>1 DEF ThePins, Pins, ModelSet, Kind
<1>4. \A m \in ModelSet : Kind[m] \in GateKinds \cup {"INPUT", "OUTPUT"}
  BY <1>1 DEF ModelSet, Kind
<1>5. /\ TGates = {m \in ModelSet : Kind[m] \in GateKinds}
      /\ TInputs = {m \in ModelSet : Kind[m] = "INPUT"}
      /\ TOutputs = {m \in ModelSet : Kind[m] = "OUTPUT"}
  BY <1>2 DEF Of, TGates, TInputs, TOutputs
<1>6. /\ ModelSet = TGates \cup TInputs \cup TOutputs
      /\ TGates \cap TInputs = {} /\ TGates \cap TOutputs = {} /\ TInputs \cap TOutputs = {}
      /\ \A m \in TGates : Kind[m] \in GateKinds
      /\ \A m \in TInputs : Kind[m] = "INPUT"
      /\ \A m \in TOutputs : Kind[m] = "OUTPUT"
  BY <1>4, <1>5 DEF GateKinds
<1>7. ASSUME NEW m \in ModelSet
      PROVE  /\ DOMAIN Pins[m] = 1..Len(Pins[m]) /\ Len(Pins[m]) = PinCount(Kind[m])
             /\ \A i \in DOMAIN Pins[m] : Pins[m][i] \in Nodes \cup {NoNode}
  <2>1. Pins[m] \in Seq(Nodes \cup {NoNode})  BY NetFacts
  <2>2. DOMAIN Pins[m] = 1..Len(Pins[m]) /\ Len(Pins[m]) = PinCount(Kind[m])  BY <1>4, NetFacts
  <2> QED BY <2>1, <2>2, SMT
<1>8. Nodes = Range(TheNetlist.nodes) /\ Hybrid = {} /\ NoNode \notin Nodes
  BY <1>1, NetFacts DEF Nodes, Hybrid
<1> QED BY <1>2, <1>3, <1>6, <1>7, <1>8

\* The pins of a gate, INPUT or OUTPUT, by the names DigitalTable gives them.
LEMMA PinNames ==
    ASSUME GateNetlists, nl \in Netlists
    PROVE  /\ \A g \in TGates :
                IF Kind[g] \in {"NOT", "YES"}
                  THEN /\ DOMAIN Pins[g] = {1, 2} /\ Len(Pins[g]) = 2
                       /\ PinName(<<g, 1>>) = <<g, "ia">> /\ PinName(<<g, 2>>) = <<g, "o">>
                  ELSE /\ DOMAIN Pins[g] = {1, 2, 3} /\ Len(Pins[g]) = 3
                       /\ PinName(<<g, 1>>) = <<g, "ia">> /\ PinName(<<g, 2>>) = <<g, "ib">>
                       /\ PinName(<<g, 3>>) = <<g, "o">>
           /\ \A m \in TInputs : DOMAIN Pins[m] = {1} /\ Len(Pins[m]) = 1 /\ PinName(<<m, 1>>) = <<m, "o">>
           /\ \A m \in TOutputs : DOMAIN Pins[m] = {1} /\ Len(Pins[m]) = 1 /\ PinName(<<m, 1>>) = <<m, "ia">>
<1>1. \A m \in ModelSet : DOMAIN Pins[m] = 1..Len(Pins[m]) /\ Len(Pins[m]) = PinCount(Kind[m])
  BY GateNet
<1>2. \A g \in TGates : Kind[g] \in GateKinds /\ g \in ModelSet  BY GateNet
<1>3. \A m \in TInputs : Kind[m] = "INPUT" /\ m \in ModelSet  BY GateNet
<1>4. \A m \in TOutputs : Kind[m] = "OUTPUT" /\ m \in ModelSet  BY GateNet
<1>5. OutputPins("INPUT") = {1} /\ OutputPins("OUTPUT") = {}  BY DEF OutputPins
<1>6. \A k \in {"NOT", "YES"} : OutputPins(k) = {2}  BY DEF OutputPins
<1>7. \A k \in GateKinds \ {"NOT", "YES"} : OutputPins(k) = {3}  BY DEF OutputPins, GateKinds
<1>8. ASSUME NEW g \in TGates, Kind[g] \in {"NOT", "YES"}
      PROVE  /\ DOMAIN Pins[g] = {1, 2} /\ Len(Pins[g]) = 2
             /\ PinName(<<g, 1>>) = <<g, "ia">> /\ PinName(<<g, 2>>) = <<g, "o">>
  <2>1. Len(Pins[g]) = 2  BY <1>1, <1>2, <1>8 DEF PinCount
  <2>2. DOMAIN Pins[g] = 1..2  BY <2>1, <1>1, <1>2
  <2> QED BY <2>1, <2>2, <1>6, <1>8, SMT DEF PinName
<1>9. ASSUME NEW g \in TGates, Kind[g] \notin {"NOT", "YES"}
      PROVE  /\ DOMAIN Pins[g] = {1, 2, 3} /\ Len(Pins[g]) = 3
             /\ PinName(<<g, 1>>) = <<g, "ia">> /\ PinName(<<g, 2>>) = <<g, "ib">>
             /\ PinName(<<g, 3>>) = <<g, "o">>
  <2>1. Len(Pins[g]) = 3  BY <1>1, <1>2, <1>9 DEF PinCount, GateKinds
  <2>2. DOMAIN Pins[g] = 1..3  BY <2>1, <1>1, <1>2
  <2>3. OutputPins(Kind[g]) = {3}  BY <1>2, <1>7, <1>9
  <2> QED BY <2>1, <2>2, <2>3, SMT DEF PinName
<1>10. ASSUME NEW m \in TInputs
       PROVE  DOMAIN Pins[m] = {1} /\ Len(Pins[m]) = 1 /\ PinName(<<m, 1>>) = <<m, "o">>
  <2>1. Len(Pins[m]) = 1  BY <1>1, <1>3 DEF PinCount
  <2>2. DOMAIN Pins[m] = 1..1  BY <2>1, <1>1, <1>3
  <2> QED BY <2>1, <2>2, <1>3, <1>5, SMT DEF PinName
<1>11. ASSUME NEW m \in TOutputs
       PROVE  DOMAIN Pins[m] = {1} /\ Len(Pins[m]) = 1 /\ PinName(<<m, 1>>) = <<m, "ia">>
  <2>1. Len(Pins[m]) = 1  BY <1>1, <1>4 DEF PinCount
  <2>2. DOMAIN Pins[m] = 1..1  BY <2>1, <1>1, <1>4
  <2> QED BY <2>1, <2>2, <1>4, <1>5, SMT DEF PinName
<1> QED BY <1>8, <1>9, <1>10, <1>11


\* What the refinement needs of the engine's own state: the pins and models still to be
\* called are real and listed once each.
RefInv ==
    /\ RailInv
    /\ tables \subseteq Nodes /\ dn = [n \in Nodes |-> dn[n]]
    /\ \A m \in Drivers : "last" \in DOMAIN mem[m]
    /\ \A m \in TInputs : "outputA" \in DOMAIN mem[m]
    /\ phase \in {"idle", "before", "table"}
    /\ phase = "idle" => queue = <<>>
    /\ phase = "before" => IsInjective(queue) /\ Range(queue) \subseteq TInputs
    /\ phase = "table" => /\ IsInjective(queue)
                          /\ \A p \in Range(queue) :
                               \E m \in ModelSet : \E i \in DOMAIN Pins[m] : p = <<m, i>>

\* An emitted value is written and remembered, and the node pending if the value is new.
LEMMA EmitDigital ==
    ASSUME NEW y, NEW p, NEW i, NEW val, ~p[i].an
    PROVE  EmitCached(y, p, i, val) =
             [mem |-> [y EXCEPT !.last = val], wr |-> {<<i, val>>},
              pend |-> IF y.last # val THEN {i} ELSE {}, dr |-> <<>>]
BY DEF EmitCached, NoEffect

\* What an update that emits a cached result does to the fields, the node and `tables'.
LEMMA DriveEffect ==
    ASSUME GateNetlists, RefInv, NEW m \in ModelSet, NEW k \in DOMAIN Pins[m], Pins[m][k] # NoNode,
           NEW y, NEW res, NEW method, Update(m, method),
           UpdateDigitalClk(Kind[m], Par[m], mem[m], PinView(m), method) = EmitCached(y, PinView(m), k, res)
    PROVE  /\ mem' = [mem EXCEPT ![m] = [y EXCEPT !.last = res]]
           /\ dn' = [dn EXCEPT ![Pins[m][k]] = res]
           /\ tables' = IF y.last # res THEN tables \cup {Pins[m][k]} ELSE tables
           /\ Pins[m][k] \in Nodes
<1>1. nl \in Netlists  BY DEF RefInv, RailInv
<1>2. /\ Hybrid = {} /\ Pins[m][k] \in Nodes  BY <1>1, GateNet
<1>3. ~PinView(m)[k].an  BY <1>1, <1>2, PinViewFacts
<1> DEFINE r == [mem |-> [y EXCEPT !.last = res], wr |-> {<<k, res>>},
                 pend |-> IF y.last # res THEN {k} ELSE {}, dr |-> <<>>]
<1>4. EmitCached(y, PinView(m), k, res) = r  BY <1>3, EmitDigital, SMT
<1>5. /\ mem' = [mem EXCEPT ![m] = r.mem]
      /\ dn' = [n \in Nodes \ Hybrid |->
                    IF \E w \in r.wr : Pins[m][w[1]] = n
                      THEN (CHOOSE w \in r.wr : Pins[m][w[1]] = n)[2] ELSE dn[n]]
      /\ tables' = tables \cup {Pins[m][i] : i \in r.pend}
  <2>1. PICK e \in {UpdateDigitalClk(Kind[m], Par[m], mem[m], PinView(m), method)} :
             /\ mem' = [mem EXCEPT ![m] = e.mem]
             /\ dn' = [n \in Nodes \ Hybrid |->
                         IF \E w \in e.wr : Pins[m][w[1]] = n
                           THEN (CHOOSE w \in e.wr : Pins[m][w[1]] = n)[2] ELSE dn[n]]
             /\ tables' = tables \cup {Pins[m][i] : i \in e.pend}
    BY DEF Update
  <2> HIDE DEF r
  <2>2. e = r  BY <1>4
  <2> QED BY <2>1, <2>2
<1>6. tables' = IF y.last # res THEN tables \cup {Pins[m][k]} ELSE tables
  <2>1. CASE y.last # res
    <3>1. r.pend = {k}  BY <2>1
    <3> QED BY <2>1, <3>1, <1>5
  <2>2. CASE y.last = res
    <3>1. r.pend = {}  BY <2>2
    <3> QED BY <2>2, <3>1, <1>5
  <2> QED BY <2>1, <2>2
<1>7. dn' = [dn EXCEPT ![Pins[m][k]] = res]
  <2>1. dn' = [n \in Nodes |-> IF Pins[m][k] = n THEN res ELSE dn[n]]
    <3>1. r.wr = {<<k, res>>}  OBVIOUS
    <3> HIDE DEF r
    <3>2. ASSUME NEW n
          PROVE  (IF \E w \in r.wr : Pins[m][w[1]] = n
                    THEN (CHOOSE w \in r.wr : Pins[m][w[1]] = n)[2] ELSE dn[n])
                 = IF Pins[m][k] = n THEN res ELSE dn[n]
      <4>1. CASE Pins[m][k] = n
        <5>1. <<k, res>> \in r.wr /\ Pins[m][<<k, res>>[1]] = n  BY <3>1, <4>1
        <5>2. \E w \in r.wr : Pins[m][w[1]] = n  BY <5>1
        <5>3. (CHOOSE w \in r.wr : Pins[m][w[1]] = n) = <<k, res>>  BY <3>1, <5>2
        <5>4. <<k, res>>[2] = res  OBVIOUS
        <5> QED BY <5>2, <5>3, <5>4, <4>1
      <4>2. CASE Pins[m][k] # n
        <5>1. ~\E w \in r.wr : Pins[m][w[1]] = n  BY <3>1, <4>2, SMT
        <5> QED BY <5>1, <4>2
      <4> QED BY <4>1, <4>2
    <3> QED BY <1>2, <1>5, <3>2
  <2>2. DOMAIN dn = Nodes  BY DEF RefInv
  <2> QED BY <1>2, <2>1, <2>2
<1> QED BY <1>2, <1>5, <1>6, <1>7

\* What an update that emits nothing does: only the model's own fields change.
LEMMA QuietEffect ==
    ASSUME GateNetlists, RefInv, NEW m \in ModelSet, NEW y, NEW method, Update(m, method),
           UpdateDigitalClk(Kind[m], Par[m], mem[m], PinView(m), method) = NoEffect(y)
    PROVE  /\ mem' = [mem EXCEPT ![m] = y]
           /\ dn' = dn /\ tables' = tables
<1>1. nl \in Netlists  BY DEF RefInv, RailInv
<1>2. Hybrid = {}  BY <1>1, GateNet
<1>3. /\ NoEffect(y).mem = y /\ NoEffect(y).wr = {} /\ NoEffect(y).pend = {}  BY DEF NoEffect
<1>5. /\ mem' = [mem EXCEPT ![m] = y]
      /\ dn' = [n \in Nodes \ Hybrid |->
                    IF \E w \in NoEffect(y).wr : Pins[m][w[1]] = n
                      THEN (CHOOSE w \in NoEffect(y).wr : Pins[m][w[1]] = n)[2] ELSE dn[n]]
      /\ tables' = tables \cup {Pins[m][i] : i \in NoEffect(y).pend}
  BY <1>3 DEF Update
<1>6. tables' = tables  BY <1>5, <1>3
<1>7. dn' = [n \in Nodes |-> dn[n]]  BY <1>5, <1>3, <1>2
<1>8. dn = [n \in Nodes |-> dn[n]]  BY DEF RefInv
<1> QED BY <1>5, <1>6, <1>7, <1>8


\* The domains of the mapped functions.
LEMMA MapDomains ==
    ASSUME GateNetlists, nl \in Netlists
    PROVE  /\ Of(GateKinds \cup {"INPUT"}) = Drivers /\ Of({"INPUT"}) = TInputs /\ Of({"OUTPUT"}) = TOutputs
           /\ \A d \in Drivers : TO[d] = Pins[d][Len(Pins[d])] /\ TLast[d] = mem[d].last
           /\ \A i \in TInputs : TOutputA[i] = mem[i].outputA
           /\ \A m \in TGates \cup TOutputs : TIA[m] = Pins[m][1]
           /\ \A g \in TGates : /\ TKind[g] = Kind[g]
                                /\ TIB[g] = IF Len(Pins[g]) = 3 THEN Pins[g][2] ELSE NoNode
<1>1. /\ \A K : The(K) = Of(K)
      /\ \A m \in ModelSet : ThePins(m) = Pins[m] /\ TheNetlist.dev[m].kind = Kind[m]
      /\ ModelSet = TGates \cup TInputs \cup TOutputs
  BY GateNet
<1>2. \A K, L : Of(K \cup L) = Of(K) \cup Of(L)  BY DEF Of
<1>3. Of(GateKinds \cup {"INPUT"}) = Drivers /\ Of({"INPUT"}) = TInputs /\ Of({"OUTPUT"}) = TOutputs
  BY <1>1, <1>2 DEF Drivers, TGates, TInputs, TOutputs
<1>4. The(GateKinds \cup {"INPUT"}) = Drivers /\ The(GateKinds \cup {"OUTPUT"}) = TGates \cup TOutputs
  BY <1>1, <1>2 DEF Drivers, TGates, TInputs, TOutputs
<1>5. Drivers \subseteq ModelSet /\ TGates \subseteq ModelSet /\ TOutputs \subseteq ModelSet
  BY <1>1 DEF Drivers
<1>6. \A d \in Drivers : TO[d] = Pins[d][Len(Pins[d])] /\ TLast[d] = mem[d].last
  BY <1>1, <1>3, <1>4, <1>5 DEF TO, TLast
<1>7. \A i \in TInputs : TOutputA[i] = mem[i].outputA  BY <1>3 DEF TOutputA
<1>8. \A m \in TGates \cup TOutputs : TIA[m] = Pins[m][1]  BY <1>1, <1>4, <1>5 DEF TIA
<1>9. \A g \in TGates : /\ TKind[g] = Kind[g]
                        /\ TIB[g] = IF Len(Pins[g]) = 3 THEN Pins[g][2] ELSE NoNode
  BY <1>1, <1>5 DEF TKind, TIB, TGates
<1> QED BY <1>3, <1>6, <1>7, <1>8, <1>9

\* A call that changes the cache of one driver, as DigitalTable sees it.
LEMMA LastSet ==
    ASSUME GateNetlists, nl \in Netlists, nl' = nl, DOMAIN mem = ModelSet,
           NEW d \in Drivers, NEW z, mem' = [mem EXCEPT ![d] = z]
    PROVE  TLast' = [TLast EXCEPT ![d] = z.last]
<1>1. Of(GateKinds \cup {"INPUT"}) = Drivers /\ Drivers \subseteq ModelSet
  BY MapDomains, GateNet DEF Drivers
<1>2. Of(GateKinds \cup {"INPUT"})' = Drivers  BY <1>1 DEF Of, ModelSet, Kind
<1>3. TLast' = [x \in Drivers |-> mem'[x].last]  BY <1>2 DEF TLast
<1>4. TLast = [x \in Drivers |-> mem[x].last]  BY <1>1 DEF TLast
<1>5. \A x \in Drivers : mem'[x].last = IF x = d THEN z.last ELSE mem[x].last  BY <1>1
<1>6. [TLast EXCEPT ![d] = z.last] = [x \in Drivers |-> IF x = d THEN z.last ELSE mem[x].last]  BY <1>4
<1> QED BY <1>3, <1>5, <1>6

\* The mapped last_outputA depends on the drivers' fields only.
LEMMA LastKept ==
    ASSUME GateNetlists, nl \in Netlists, nl' = nl, \A d \in Drivers : mem'[d].last = mem[d].last
    PROVE  TLast' = TLast
<1>1. Of(GateKinds \cup {"INPUT"}) = Drivers  BY MapDomains
<1>2. Of(GateKinds \cup {"INPUT"})' = Drivers  BY <1>1 DEF Of, ModelSet, Kind
<1> QED BY <1>1, <1>2 DEF TLast

\* The mapped INPUT::outputA depends on the INPUTs' fields only.
LEMMA OutputAKept ==
    ASSUME GateNetlists, nl \in Netlists, nl' = nl, \A i \in TInputs : mem'[i].outputA = mem[i].outputA
    PROVE  TOutputA' = TOutputA
<1>1. Of({"INPUT"}) = TInputs  BY MapDomains
<1>2. Of({"INPUT"})' = TInputs  BY <1>1 DEF Of, ModelSet, Kind
<1> QED BY <1>1, <1>2 DEF TOutputA

\* The mapped OUTPUT::inputA depends on the OUTPUTs' fields only.
LEMMA InputAKept ==
    ASSUME GateNetlists, nl \in Netlists, nl' = nl, \A o \in TOutputs : mem'[o].in[1].val = mem[o].in[1].val
    PROVE  TInputA' = TInputA
<1>1. Of({"OUTPUT"}) = TOutputs  BY MapDomains
<1>2. Of({"OUTPUT"})' = TOutputs  BY <1>1 DEF Of, ModelSet, Kind
<1> QED BY <1>1, <1>2 DEF TInputA

\* The part of RefInv that a call of one device can disturb.
Kept ==
    /\ tables' \subseteq Nodes /\ dn' = [n \in Nodes |-> dn'[n]]
    /\ \A m \in Drivers : "last" \in DOMAIN mem'[m]
    /\ \A m \in TInputs : "outputA" \in DOMAIN mem'[m]

\* INPUT's update_digital_clk is UpdateInput.
LEMMA InputCall ==
    ASSUME GateNetlists, RefInv, nl' = nl, NEW m \in TInputs, NEW method, Update(m, method)
    PROVE  Table!UpdateInput(m) /\ TOutputA' = TOutputA /\ Kept
<1>1. nl \in Netlists /\ DOMAIN mem = ModelSet  BY DEF RefInv, RailInv
<1>2. /\ m \in ModelSet /\ Kind[m] = "INPUT" /\ m \in Drivers /\ m \notin TOutputs
      /\ Drivers \subseteq ModelSet /\ TInputs \subseteq ModelSet /\ TOutputs \subseteq ModelSet
  BY <1>1, GateNet DEF Drivers
<1>3. DOMAIN Pins[m] = {1} /\ Len(Pins[m]) = 1  BY <1>1, PinNames
<1>4. TO[m] = Pins[m][1] /\ TOutputA[m] = mem[m].outputA  BY <1>1, <1>2, <1>3, MapDomains
<1>5. PinView(m)[1].on = (Pins[m][1] # NoNode)  BY <1>1, <1>2, <1>3, PinViewFacts
<1>6. UpdateDigitalClk(Kind[m], Par[m], mem[m], PinView(m), method) = INPUT(mem[m], PinView(m))
  BY <1>2, TerminalCall, SMT
<1>7. /\ tables \subseteq Nodes /\ dn = [n \in Nodes |-> dn[n]]
      /\ \A d \in Drivers : "last" \in DOMAIN mem[d]
      /\ \A i \in TInputs : "outputA" \in DOMAIN mem[i]
  BY DEF RefInv
<1>8. CASE Pins[m][1] # NoNode
  <2> DEFINE res == mem[m].outputA
             z == [mem[m] EXCEPT !.last = res]
  <2>1. INPUT(mem[m], PinView(m)) = EmitCached(mem[m], PinView(m), 1, res)  BY <1>5, <1>8 DEF INPUT
  <2>2. /\ mem' = [mem EXCEPT ![m] = z]
        /\ dn' = [dn EXCEPT ![Pins[m][1]] = res]
        /\ tables' = IF mem[m].last # res THEN tables \cup {Pins[m][1]} ELSE tables
        /\ Pins[m][1] \in Nodes
    BY <1>2, <1>3, <1>6, <1>8, <2>1, DriveEffect, SMT
  <2>3. /\ z.last = res /\ z.outputA = mem[m].outputA
        /\ "last" \in DOMAIN z /\ "outputA" \in DOMAIN z
    BY <1>2, <1>7
  <2> HIDE DEF z
  <2>4. TLast' = [TLast EXCEPT ![m] = TOutputA[m]]
    <3>1. TLast' = [TLast EXCEPT ![m] = z.last]  BY <1>1, <1>2, <2>2, LastSet
    <3> QED BY <3>1, <2>3, <1>4
  <2>5. \A l \in ModelSet : mem'[l] = IF l = m THEN z ELSE mem[l]  BY <1>1, <2>2
  <2>6. \A i \in TInputs : mem'[i].outputA = mem[i].outputA  BY <1>2, <2>3, <2>5
  <2>7. \A o \in TOutputs : mem'[o].in[1].val = mem[o].in[1].val  BY <1>2, <2>5
  <2>8. TOutputA' = TOutputA  BY <1>1, <2>6, OutputAKept
  <2>9. TInputA' = TInputA  BY <1>1, <2>7, InputAKept
  <2>10. Table!UpdateInput(m)
    <3>1. dn' = [dn EXCEPT ![TO[m]] = TOutputA[m]]  BY <1>4, <2>2
    <3>2. tables' = IF TLast[m] # TOutputA[m] THEN tables \cup {TO[m]} ELSE tables
      BY <1>1, <1>2, <1>4, <2>2, MapDomains
    <3>3. TO[m] # NoNode  BY <1>4, <1>8
    <3> QED BY <2>4, <2>9, <3>1, <3>2, <3>3 DEF Table!UpdateInput, Table!Drive, TLast, TO, TOutputA, TInputA
  <2>11. Kept
    <3>1. tables' \subseteq Nodes  BY <1>7, <2>2
    <3>2. dn' = [n \in Nodes |-> dn'[n]]  BY <1>7, <2>2
    <3>3. \A d \in Drivers : "last" \in DOMAIN mem'[d]  BY <1>2, <1>7, <2>3, <2>5
    <3>4. \A i \in TInputs : "outputA" \in DOMAIN mem'[i]  BY <1>2, <1>7, <2>3, <2>5
    <3> QED BY <3>1, <3>2, <3>3, <3>4 DEF Kept
  <2> QED BY <2>8, <2>10, <2>11
<1>9. CASE Pins[m][1] = NoNode
  <2>1. INPUT(mem[m], PinView(m)) = NoEffect(mem[m])  BY <1>5, <1>9 DEF INPUT
  <2>2. mem' = [mem EXCEPT ![m] = mem[m]] /\ dn' = dn /\ tables' = tables
    BY <1>2, <1>6, <2>1, QuietEffect
  <2>3. \A l \in ModelSet : mem'[l] = mem[l]  BY <1>1, <2>2
  <2>4. TLast' = TLast  BY <1>1, <1>2, <2>3, LastKept
  <2>5. TOutputA' = TOutputA  BY <1>1, <1>2, <2>3, OutputAKept
  <2>6. TInputA' = TInputA  BY <1>1, <1>2, <2>3, InputAKept
  <2>7. Table!UpdateInput(m)
    BY <1>4, <1>9, <2>2, <2>4, <2>6 DEF Table!UpdateInput, TInputA, TO, TLast
  <2>8. Kept  BY <1>2, <1>7, <2>2, <2>3 DEF Kept
  <2> QED BY <2>5, <2>7, <2>8
<1> QED BY <1>8, <1>9


\* DigitalTable's Connected and OutputRes of a gate, in the names above.
TConnected(g) ==
    TIA[g] # NoNode /\ TO[g] # NoNode /\ (TKind[g] \notin {"NOT", "YES"} => TIB[g] # NoNode)

TRes(g) == GateFn(TKind[g], dn[TIA[g]], IF TKind[g] \notin {"NOT", "YES"} THEN dn[TIB[g]] ELSE "X")

\* NOT and YES have one input.
LEMMA OneInput ==
    ASSUME NEW k \in {"NOT", "YES"}, NEW a, NEW b, NEW c
    PROVE  GateFn(k, a, b) = GateFn(k, a, c)
BY DEF GateFn

\* DigitalTable's truth tables are those of the devices.
LEMMA SameGateFn ==
    ASSUME NEW k \in GateKinds, NEW a, NEW b
    PROVE  Table!GateFn(k, a, b) = GateFn(k, a, b)
<1>1. \A x, y : Table!And4(x, y) = And4(x, y)  BY DEF And4, Table!And4
<1>2. \A x, y : Table!Or4(x, y) = Or4(x, y)  BY DEF Or4, Table!Or4
<1>3. \A x, y : Table!Xor4(x, y) = Xor4(x, y)  BY DEF Xor4, Table!Xor4, Known, Table!Known
<1>4. \A x : Table!Not4(x) = Not4(x)  BY DEF Not4, Table!Not4
<1> QED BY <1>1, <1>2, <1>3, <1>4
     DEF GateKinds, GateFn, AND, OR, XOR, NAND, NOR, XNOR, IMP, NIMP, NOT, YES,
         Table!GateFn, Table!AND, Table!OR, Table!XOR, Table!NAND, Table!NOR, Table!XNOR,
         Table!IMP, Table!NIMP, Table!NOT, Table!YES

\* A gate is called with all its pins connected exactly when DigitalTable says so, and the
\* value it computes from its samples is DigitalTable's.
LEMMA GateRes ==
    ASSUME GateNetlists, RefInv, NEW m \in TGates
    PROVE  LET x == mem[m]
               p == PinView(m)
               n == Len(p) - 1
               in == [i \in 1..n |-> Sample(x.in[i], p[i], Par[m].Tsu, Par[m].Th)]
           IN  /\ AllOn(p) <=> TConnected(m)
               /\ TConnected(m) => GateFn(Kind[m], in[1].val, in[n].val) = TRes(m)
               /\ n + 1 = Len(Pins[m]) /\ n + 1 \in DOMAIN Pins[m]
<1> DEFINE x == mem[m]
           p == PinView(m)
           n == Len(p) - 1
           in == [i \in 1..n |-> Sample(x.in[i], p[i], Par[m].Tsu, Par[m].Th)]
<1>1. nl \in Netlists /\ DOMAIN mem = ModelSet  BY DEF RefInv, RailInv
<1>2. m \in ModelSet /\ Kind[m] \in GateKinds /\ m \in Drivers  BY <1>1, GateNet DEF Drivers
<1>3. /\ Len(p) = Len(Pins[m]) /\ DOMAIN p = DOMAIN Pins[m]
      /\ \A i \in DOMAIN Pins[m] : p[i].on = (Pins[m][i] # NoNode) /\ p[i].an = (Pins[m][i] \in Hybrid)
  BY <1>1, <1>2, PinViewFacts
<1>4. Hybrid = {} /\ \A i \in DOMAIN Pins[m] : Pins[m][i] \in Nodes \cup {NoNode}
  BY <1>1, <1>2, GateNet
<1>5. \A i \in DOMAIN Pins[m] : Pins[m][i] # NoNode => p[i].st = dn[Pins[m][i]]
  BY <1>4 DEF PinView
<1>6. MemOK(m, x)  BY <1>2 DEF RefInv, RailInv, Sampling
<1>7. /\ TIA[m] = Pins[m][1] /\ TO[m] = Pins[m][Len(Pins[m])] /\ TKind[m] = Kind[m]
      /\ TIB[m] = IF Len(Pins[m]) = 3 THEN Pins[m][2] ELSE NoNode
  BY <1>1, <1>2, MapDomains
<1>8. \A i \in DOMAIN Pins[m] : i \in 1..InCount(Kind[m]) =>
         Sample(x.in[i], p[i], Par[m].Tsu, Par[m].Th) = [x.in[i] EXCEPT !.val = p[i].st]
  <2> SUFFICES ASSUME NEW i \in DOMAIN Pins[m], i \in 1..InCount(Kind[m])
               PROVE  Sample(x.in[i], p[i], Par[m].Tsu, Par[m].Th) = [x.in[i] EXCEPT !.val = p[i].st]
    OBVIOUS
  <2>1. SampleShape(x.in[i])  BY <1>6 DEF MemOK
  <2>2. ~p[i].an  BY <1>3, <1>4
  <2> HIDE DEF p, x
  <2> QED BY <2>1, <2>2, SampleDigital
<1>9. \A i \in DOMAIN Pins[m] : i \in 1..InCount(Kind[m]) /\ Pins[m][i] # NoNode =>
         Sample(x.in[i], p[i], Par[m].Tsu, Par[m].Th).val = dn[Pins[m][i]]
  <2>1. \A i \in 1..InCount(Kind[m]) : "val" \in DOMAIN x.in[i]  BY <1>6 DEF MemOK, SampleShape
  <2> HIDE DEF p, x
  <2> QED BY <1>5, <1>8, <2>1
<1> HIDE DEF p, x
<1>10. CASE Kind[m] \in {"NOT", "YES"}
  <2>1. DOMAIN Pins[m] = {1, 2} /\ Len(Pins[m]) = 2  BY <1>1, <1>10, PinNames
  <2>2. n = 1 /\ InCount(Kind[m]) = 1  BY <1>3, <1>10, <2>1, SMTT(30) DEF InCount, PinCount
  <2>3. AllOn(p) <=> TConnected(m)  BY <1>3, <1>7, <1>10, <2>1 DEF AllOn, TConnected
  <2>4. ASSUME TConnected(m) PROVE GateFn(Kind[m], in[1].val, in[n].val) = TRes(m)
    <3>1. Pins[m][1] # NoNode  BY <2>4, <1>7 DEF TConnected
    <3>2. in[1].val = dn[Pins[m][1]]
      <4>0. 1 \in 1..n
        <5> HIDE DEF n
        <5> QED BY <2>2, SMT
      <4>1. in[1] = Sample(x.in[1], p[1], Par[m].Tsu, Par[m].Th)
        <5> HIDE DEF n
        <5> QED BY <4>0
      <4>2. 1 \in DOMAIN Pins[m] /\ 1 \in 1..InCount(Kind[m])  BY <2>1, <2>2, SMT
      <4> HIDE DEF in
      <4> QED BY <1>9, <3>1, <4>1, <4>2
    <3> HIDE DEF in
    <3>3. GateFn(Kind[m], in[1].val, in[n].val) = GateFn(Kind[m], in[1].val, "X")  BY <1>10, OneInput
    <3>4. TRes(m) = GateFn(Kind[m], dn[Pins[m][1]], "X")  BY <1>7, <1>10 DEF TRes
    <3> QED BY <3>2, <3>3, <3>4
  <2> QED BY <2>1, <2>2, <2>3, <2>4, SMTT(30) DEF p, x
<1>11. CASE Kind[m] \notin {"NOT", "YES"}
  <2>1. DOMAIN Pins[m] = {1, 2, 3} /\ Len(Pins[m]) = 3  BY <1>1, <1>11, PinNames
  <2>2. n = 2 /\ InCount(Kind[m]) = 2  BY <1>2, <1>3, <1>11, <2>1, SMT DEF InCount, PinCount, GateKinds
  <2>3. AllOn(p) <=> TConnected(m)
    <3>1. AllOn(p) <=> p[1].on /\ p[2].on /\ p[3].on  BY <1>3, <2>1 DEF AllOn
    <3>2. /\ p[1].on <=> Pins[m][1] # NoNode
          /\ p[2].on <=> Pins[m][2] # NoNode
          /\ p[3].on <=> Pins[m][3] # NoNode
      BY <1>3, <2>1
    <3>3. TConnected(m) <=> Pins[m][1] # NoNode /\ Pins[m][3] # NoNode /\ Pins[m][2] # NoNode
      BY <1>7, <1>11, <2>1 DEF TConnected
    <3> QED BY <3>1, <3>2, <3>3
  <2>4. ASSUME TConnected(m) PROVE GateFn(Kind[m], in[1].val, in[n].val) = TRes(m)
    <3>1. Pins[m][1] # NoNode /\ Pins[m][2] # NoNode  BY <2>4, <1>7, <1>11, <2>1 DEF TConnected
    <3>2. in[1].val = dn[Pins[m][1]]
      <4>0. 1 \in 1..n
        <5> HIDE DEF n
        <5> QED BY <2>2, SMT
      <4>1. in[1] = Sample(x.in[1], p[1], Par[m].Tsu, Par[m].Th)
        <5> HIDE DEF n
        <5> QED BY <4>0
      <4>2. 1 \in DOMAIN Pins[m] /\ 1 \in 1..InCount(Kind[m])  BY <2>1, <2>2, SMT
      <4> HIDE DEF in
      <4> QED BY <1>9, <3>1, <4>1, <4>2
    <3>3. in[n].val = dn[Pins[m][2]]
      <4>0. n = 2 /\ 2 \in 1..n
        <5> HIDE DEF n
        <5> QED BY <2>2, SMT
      <4>1. in[n] = Sample(x.in[2], p[2], Par[m].Tsu, Par[m].Th)
        <5> HIDE DEF n
        <5> QED BY <4>0
      <4>2. 2 \in DOMAIN Pins[m] /\ 2 \in 1..InCount(Kind[m])  BY <2>1, <2>2, SMT
      <4> HIDE DEF in
      <4> QED BY <1>9, <3>1, <4>1, <4>2
    <3> HIDE DEF in, n
    <3>4. TRes(m) = GateFn(Kind[m], dn[Pins[m][1]], dn[Pins[m][2]])  BY <1>7, <1>11, <2>1 DEF TRes
    <3> QED BY <3>2, <3>3, <3>4
  <2> QED BY <2>1, <2>2, <2>3, <2>4, SMTT(30) DEF p, x
<1> QED BY <1>10, <1>11

\* The update_digital_clk of the ten gates is UpdateGate.
LEMMA GateStep ==
    ASSUME GateNetlists, RefInv, nl' = nl, NEW m \in TGates, NEW method, Update(m, method)
    PROVE  Table!UpdateGate(m) /\ TOutputA' = TOutputA /\ Kept
<1> DEFINE x == mem[m]
           p == PinView(m)
           n == Len(p) - 1
           in == [i \in 1..n |-> Sample(x.in[i], p[i], Par[m].Tsu, Par[m].Th)]
           res == GateFn(Kind[m], in[1].val, in[n].val)
           y == [x EXCEPT !.in = in]
           z == [y EXCEPT !.last = res]
           k == n + 1
<1>1. nl \in Netlists /\ DOMAIN mem = ModelSet  BY DEF RefInv, RailInv
<1>2. /\ m \in ModelSet /\ Kind[m] \in GateKinds /\ m \in Drivers /\ m \notin TOutputs /\ m \notin TInputs
      /\ Drivers \subseteq ModelSet /\ TInputs \subseteq ModelSet /\ TOutputs \subseteq ModelSet
  BY <1>1, GateNet DEF Drivers
<1>3. /\ AllOn(p) <=> TConnected(m)
      /\ TConnected(m) => res = TRes(m)
      /\ k = Len(Pins[m]) /\ k \in DOMAIN Pins[m]
  BY GateRes
<1>4. UpdateDigitalClk(Kind[m], Par[m], mem[m], PinView(m), method) = Gate(Kind[m], Par[m], x, p)
  BY <1>2, GateCall
<1>5. /\ tables \subseteq Nodes /\ dn = [v \in Nodes |-> dn[v]]
      /\ \A d \in Drivers : "last" \in DOMAIN mem[d]
      /\ \A i \in TInputs : "outputA" \in DOMAIN mem[i]
  BY DEF RefInv
<1>6. TO[m] = Pins[m][k] /\ TLast[m] = x.last  BY <1>1, <1>2, <1>3, MapDomains
<1>9. TKind[m] = Kind[m]  BY <1>1, <1>2, MapDomains
<1>7. CASE TConnected(m)
  <2>1. Gate(Kind[m], Par[m], x, p) = EmitCached(y, p, k, res)  BY <1>3, <1>7 DEF Gate
  <2>2. Pins[m][k] # NoNode  BY <1>6, <1>7 DEF TConnected
  <2> HIDE DEF in, res
  <2>3. y.last = x.last /\ "last" \in DOMAIN z /\ z.last = res
    <3>1. "last" \in DOMAIN x  BY <1>2, <1>5
    <3> QED BY <3>1
  <2> HIDE DEF x, p, k, y
  <2>4. /\ mem' = [mem EXCEPT ![m] = z]
        /\ dn' = [dn EXCEPT ![Pins[m][k]] = res]
        /\ tables' = IF y.last # res THEN tables \cup {Pins[m][k]} ELSE tables
        /\ Pins[m][k] \in Nodes
    BY <1>2, <1>3, <1>4, <2>1, <2>2, DriveEffect, SMT DEF p
  <2> HIDE DEF z
  <2>5. \A l \in ModelSet : mem'[l] = IF l = m THEN z ELSE mem[l]  BY <1>1, <2>4
  <2>6. TLast' = [TLast EXCEPT ![m] = TRes(m)]
    <3>1. TLast' = [TLast EXCEPT ![m] = z.last]  BY <1>1, <1>2, <2>4, LastSet
    <3> QED BY <3>1, <2>3, <1>3, <1>7
  <2>7. TOutputA' = TOutputA
    <3>1. \A i \in TInputs : mem'[i].outputA = mem[i].outputA  BY <1>2, <2>5
    <3> QED BY <1>1, <3>1, OutputAKept
  <2>8. TInputA' = TInputA
    <3>1. \A o \in TOutputs : mem'[o].in[1].val = mem[o].in[1].val  BY <1>2, <2>5
    <3> QED BY <1>1, <3>1, InputAKept
  <2>9. dn' = [dn EXCEPT ![TO[m]] = TRes(m)]  BY <1>3, <1>6, <1>7, <2>4
  <2>10. tables' = IF TLast[m] # TRes(m) THEN tables \cup {TO[m]} ELSE tables
    BY <1>3, <1>6, <1>7, <2>3, <2>4
  <2>11. Table!UpdateGate(m)
    <3>1. Table!OutputRes(m) = TRes(m)
      BY <1>2, <1>9, SameGateFn, SMTT(30) DEF Table!OutputRes, Table!TwoInput, TRes, TIA, TIB, TKind
    <3>2. Table!Connected(m)
      BY <1>7 DEF Table!Connected, Table!TwoInput, TConnected, TO, TIA, TIB, TKind
    <3> QED BY <2>6, <2>8, <2>9, <2>10, <3>1, <3>2 DEF Table!UpdateGate, Table!Drive, TLast, TO, TInputA
  <2>12. Kept
    <3>1. tables' \subseteq Nodes  BY <1>5, <2>4
    <3>2. dn' = [v \in Nodes |-> dn'[v]]  BY <1>5, <2>4
    <3>3. \A d \in Drivers : "last" \in DOMAIN mem'[d]  BY <1>2, <1>5, <2>3, <2>5
    <3>4. \A i \in TInputs : "outputA" \in DOMAIN mem'[i]  BY <1>2, <1>5, <2>5
    <3> QED BY <3>1, <3>2, <3>3, <3>4 DEF Kept
  <2> QED BY <2>7, <2>11, <2>12
<1>8. CASE ~TConnected(m)
  <2>1. Gate(Kind[m], Par[m], x, p) = NoEffect(x)  BY <1>3, <1>8, OpenGate, SMTT(30)
  <2>2. mem' = [mem EXCEPT ![m] = x] /\ dn' = dn /\ tables' = tables
    <3> HIDE DEF p, n, in, res
    <3> QED BY <1>2, <1>4, <2>1, QuietEffect
  <2>3. \A l \in ModelSet : mem'[l] = mem[l]  BY <1>1, <2>2
  <2>4. TLast' = TLast  BY <1>1, <1>2, <2>3, LastKept
  <2>5. TOutputA' = TOutputA  BY <1>1, <1>2, <2>3, OutputAKept
  <2>6. TInputA' = TInputA  BY <1>1, <1>2, <2>3, InputAKept
  <2>7. Table!UpdateGate(m)
    BY <1>8, <2>2, <2>4, <2>6 DEF Table!UpdateGate, Table!Connected, Table!TwoInput, TConnected,
       TLast, TO, TIA, TIB, TKind, TInputA
  <2>8. Kept  BY <1>2, <1>5, <2>2, <2>3 DEF Kept
  <2> QED BY <2>5, <2>7, <2>8
<1> QED BY <1>7, <1>8

\* OUTPUT's update_digital_clk is UpdateOutput.
LEMMA OutputStep ==
    ASSUME GateNetlists, RefInv, nl' = nl, NEW m \in TOutputs, NEW method, Update(m, method)
    PROVE  Table!UpdateOutput(m) /\ TOutputA' = TOutputA /\ Kept
<1> DEFINE x == mem[m]
           p == PinView(m)
           s == Sample(x.in[1], p[1], Par[m].Tsu, Par[m].Th)
           y == [x EXCEPT !.in[1] = s]
<1>1. nl \in Netlists /\ DOMAIN mem = ModelSet  BY DEF RefInv, RailInv
<1>2. /\ m \in ModelSet /\ Kind[m] = "OUTPUT" /\ m \notin Drivers
      /\ Drivers \subseteq ModelSet /\ TInputs \subseteq Drivers /\ TOutputs \subseteq ModelSet
  BY <1>1, GateNet DEF Drivers
<1>3. DOMAIN Pins[m] = {1} /\ Len(Pins[m]) = 1  BY <1>1, PinNames
<1>4. Pins[m][1] \in Nodes /\ Hybrid = {}
  <2>1. Pins[m][1] # NoNode  BY <1>1, <1>2, DeviceAssumption DEF Pins, Kind, ModelSet
  <2> QED BY <1>1, <1>2, <1>3, <2>1, GateNet
<1>5. p[1].st = dn[Pins[m][1]] /\ ~p[1].an
  <2>1. p[1].st = dn[Pins[m][1]]  BY <1>3, <1>4 DEF PinView
  <2>3. \A i \in DOMAIN Pins[m] : p[i].an = (Pins[m][i] \in Hybrid)  BY <1>1, <1>2, PinViewFacts
  <2> HIDE DEF p
  <2>2. ~p[1].an  BY <1>3, <1>4, <2>3
  <2> QED BY <2>1, <2>2
<1>6. MemOK(m, x)  BY <1>2 DEF RefInv, RailInv, Sampling
<1>7. SampleShape(x.in[1]) /\ "in" \in DOMAIN x /\ 1 \in DOMAIN x.in
  BY <1>2, <1>6, SMT DEF MemOK, InCount
<1>8. s.val = dn[Pins[m][1]]
  <2>1. s = [x.in[1] EXCEPT !.val = p[1].st]
    <3> HIDE DEF x, p
    <3> QED BY <1>5, <1>7, SampleDigital, SMT
  <2>2. "val" \in DOMAIN x.in[1]  BY <1>7 DEF SampleShape
  <2> HIDE DEF x, p, s
  <2> QED BY <1>5, <2>1, <2>2
<1> HIDE DEF s
<1>9. y.in[1].val = dn[Pins[m][1]]  BY <1>7, <1>8
<1>10. UpdateDigitalClk(Kind[m], Par[m], mem[m], PinView(m), method) = NoEffect(y)
  <2>1. UpdateDigitalClk(Kind[m], Par[m], mem[m], PinView(m), method) = OUTPUT(Par[m], x, p)
    BY <1>2, TerminalCall, SMTT(30)
  <2> QED BY <2>1 DEF OUTPUT, s
<1> HIDE DEF y
<1>11. mem' = [mem EXCEPT ![m] = y] /\ dn' = dn /\ tables' = tables  BY <1>2, <1>10, QuietEffect
<1>12. \A l \in ModelSet : mem'[l] = IF l = m THEN y ELSE mem[l]  BY <1>1, <1>11
<1>13. TLast' = TLast
  <2>1. \A d \in Drivers : mem'[d].last = mem[d].last  BY <1>2, <1>12
  <2> QED BY <1>1, <2>1, LastKept
<1>14. TOutputA' = TOutputA
  <2>1. \A i \in TInputs : mem'[i].outputA = mem[i].outputA  BY <1>2, <1>12
  <2> QED BY <1>1, <2>1, OutputAKept
<1>15. TInputA' = [TInputA EXCEPT ![m] = dn[TIA[m]]]
  <2>1. Of({"OUTPUT"}) = TOutputs /\ TIA[m] = Pins[m][1]  BY <1>1, MapDomains
  <2>2. Of({"OUTPUT"})' = TOutputs  BY <2>1 DEF Of, ModelSet, Kind
  <2>3. TInputA' = [o \in TOutputs |-> mem'[o].in[1].val]  BY <2>2 DEF TInputA
  <2>4. TInputA = [o \in TOutputs |-> mem[o].in[1].val]  BY <2>1 DEF TInputA
  <2>5. \A o \in TOutputs : mem'[o].in[1].val = IF o = m THEN dn[TIA[m]] ELSE mem[o].in[1].val
    BY <1>2, <1>9, <1>12, <2>1
  <2>6. [TInputA EXCEPT ![m] = dn[TIA[m]]]
           = [o \in TOutputs |-> IF o = m THEN dn[TIA[m]] ELSE mem[o].in[1].val]
    BY <2>4
  <2> QED BY <2>3, <2>5, <2>6
<1>16. Table!UpdateOutput(m)
  BY <1>11, <1>13, <1>15 DEF Table!UpdateOutput, TLast, TIA, TInputA
<1>17. Kept
  <2>1. /\ tables \subseteq Nodes /\ dn = [n \in Nodes |-> dn[n]]
        /\ \A d \in Drivers : "last" \in DOMAIN mem[d]
        /\ \A i \in TInputs : "outputA" \in DOMAIN mem[i]
    BY DEF RefInv
  <2>2. \A d \in Drivers : mem'[d] = mem[d]  BY <1>2, <1>12
  <2> QED BY <1>2, <1>11, <2>1, <2>2 DEF Kept
<1> QED BY <1>14, <1>16, <1>17


\* DigitalTable's NodePins in the names above.
TNodePins(n) ==
    {p \in Drivers \X {"o"} : TO[p[1]] = n}
      \cup {p \in (TGates \cup TOutputs) \X {"ia"} : TIA[p[1]] = n}
      \cup {p \in TGates \X {"ib"} : TKind[p[1]] \notin {"NOT", "YES"} /\ TIB[p[1]] = n}

\* The pins of node_t::pins are DigitalTable's.
LEMMA SamePins ==
    ASSUME GateNetlists, nl \in Netlists, NEW n \in Nodes
    PROVE  TNodePins(n) = {PinName(p) : p \in Range(NodePins(n))}
<1>1. \A p : p \in Range(NodePins(n))
               <=> \E m \in ModelSet : \E i \in DOMAIN Pins[m] : p = <<m, i>> /\ Pins[m][i] = n
  BY NodePinsFacts
<1>2. /\ ModelSet = TGates \cup TInputs \cup TOutputs /\ Drivers = TGates \cup TInputs /\ NoNode \notin Nodes
  BY GateNet DEF Drivers
<1>3. /\ \A d \in Drivers : TO[d] = Pins[d][Len(Pins[d])]
      /\ \A m \in TGates \cup TOutputs : TIA[m] = Pins[m][1]
      /\ \A g \in TGates : /\ TKind[g] = Kind[g]
                           /\ TIB[g] = IF Len(Pins[g]) = 3 THEN Pins[g][2] ELSE NoNode
  BY MapDomains
<1>4. \A q : q \in TNodePins(n) <=>
         \/ \E d \in Drivers : q = <<d, "o">> /\ TO[d] = n
         \/ \E m \in TGates \cup TOutputs : q = <<m, "ia">> /\ TIA[m] = n
         \/ \E g \in TGates : q = <<g, "ib">> /\ TKind[g] \notin {"NOT", "YES"} /\ TIB[g] = n
  BY SMT DEF TNodePins
<1>5. ASSUME NEW m \in ModelSet, NEW i \in DOMAIN Pins[m], Pins[m][i] = n
      PROVE  PinName(<<m, i>>) \in TNodePins(n)
  <2>1. CASE m \in TGates
    <3>1. CASE Kind[m] \in {"NOT", "YES"}
      <4>1. /\ DOMAIN Pins[m] = {1, 2} /\ Len(Pins[m]) = 2
            /\ PinName(<<m, 1>>) = <<m, "ia">> /\ PinName(<<m, 2>>) = <<m, "o">>
        BY <2>1, <3>1, PinNames
      <4>2. CASE i = 1  BY <1>3, <1>4, <1>5, <2>1, <4>1, <4>2
      <4>3. CASE i = 2  BY <1>2, <1>3, <1>4, <1>5, <2>1, <4>1, <4>3, SMT
      <4> QED BY <4>1, <4>2, <4>3
    <3>2. CASE Kind[m] \notin {"NOT", "YES"}
      <4>1. /\ DOMAIN Pins[m] = {1, 2, 3} /\ Len(Pins[m]) = 3
            /\ PinName(<<m, 1>>) = <<m, "ia">> /\ PinName(<<m, 2>>) = <<m, "ib">>
            /\ PinName(<<m, 3>>) = <<m, "o">>
        BY <2>1, <3>2, PinNames
      <4>2. CASE i = 1  BY <1>3, <1>4, <1>5, <2>1, <4>1, <4>2
      <4>3. CASE i = 2  BY <1>3, <1>4, <1>5, <2>1, <3>2, <4>1, <4>3
      <4>4. CASE i = 3  BY <1>2, <1>3, <1>4, <1>5, <2>1, <4>1, <4>4, SMT
      <4> QED BY <4>1, <4>2, <4>3, <4>4
    <3> QED BY <3>1, <3>2
  <2>2. CASE m \in TInputs
    <3>1. DOMAIN Pins[m] = {1} /\ Len(Pins[m]) = 1 /\ PinName(<<m, 1>>) = <<m, "o">>  BY <2>2, PinNames
    <3> QED BY <1>2, <1>3, <1>4, <1>5, <2>2, <3>1, SMT
  <2>3. CASE m \in TOutputs
    <3>1. DOMAIN Pins[m] = {1} /\ Len(Pins[m]) = 1 /\ PinName(<<m, 1>>) = <<m, "ia">>  BY <2>3, PinNames
    <3> QED BY <1>2, <1>3, <1>4, <1>5, <2>3, <3>1, SMT
  <2> QED BY <1>2, <2>1, <2>2, <2>3
<1>6. ASSUME NEW q \in TNodePins(n)
      PROVE  \E m \in ModelSet : \E i \in DOMAIN Pins[m] : q = PinName(<<m, i>>) /\ Pins[m][i] = n
  <2>1. ASSUME NEW d \in Drivers, q = <<d, "o">>, TO[d] = n
        PROVE  \E m \in ModelSet : \E i \in DOMAIN Pins[m] : q = PinName(<<m, i>>) /\ Pins[m][i] = n
    <3>1. CASE d \in TInputs
      <4>1. DOMAIN Pins[d] = {1} /\ Len(Pins[d]) = 1 /\ PinName(<<d, 1>>) = <<d, "o">>  BY <3>1, PinNames
      <4> QED BY <1>2, <1>3, <2>1, <3>1, <4>1, SMT
    <3>2. CASE d \in TGates
      <4>1. Len(Pins[d]) \in DOMAIN Pins[d] /\ PinName(<<d, Len(Pins[d])>>) = <<d, "o">>
        BY <3>2, PinNames
      <4> QED BY <1>2, <1>3, <2>1, <3>2, <4>1
    <3> QED BY <1>2, <3>1, <3>2
  <2>2. ASSUME NEW d \in TGates \cup TOutputs, q = <<d, "ia">>, TIA[d] = n
        PROVE  \E m \in ModelSet : \E i \in DOMAIN Pins[m] : q = PinName(<<m, i>>) /\ Pins[m][i] = n
    <3>1. 1 \in DOMAIN Pins[d] /\ PinName(<<d, 1>>) = <<d, "ia">>
      BY PinNames
    <3> QED BY <1>2, <1>3, <2>2, <3>1
  <2>3. ASSUME NEW g \in TGates, q = <<g, "ib">>, TKind[g] \notin {"NOT", "YES"}, TIB[g] = n
        PROVE  \E m \in ModelSet : \E i \in DOMAIN Pins[m] : q = PinName(<<m, i>>) /\ Pins[m][i] = n
    <3>1. Kind[g] \notin {"NOT", "YES"}  BY <1>3, <2>3
    <3>2. 2 \in DOMAIN Pins[g] /\ PinName(<<g, 2>>) = <<g, "ib">> /\ Len(Pins[g]) = 3
      BY <3>1, PinNames
    <3> QED BY <1>2, <1>3, <2>3, <3>2
  <2> QED BY <1>4, <2>1, <2>2, <2>3
<1>7. \A q \in TNodePins(n) : q \in {PinName(p) : p \in Range(NodePins(n))}
  <2> SUFFICES ASSUME NEW q \in TNodePins(n) PROVE q \in {PinName(p) : p \in Range(NodePins(n))}
    OBVIOUS
  <2>1. PICK m \in ModelSet : \E i \in DOMAIN Pins[m] : q = PinName(<<m, i>>) /\ Pins[m][i] = n  BY <1>6
  <2>2. PICK i \in DOMAIN Pins[m] : q = PinName(<<m, i>>) /\ Pins[m][i] = n  BY <2>1
  <2>3. <<m, i>> \in Range(NodePins(n))  BY <1>1, <2>2
  <2> QED BY <2>2, <2>3
<1>8. \A p \in Range(NodePins(n)) : PinName(p) \in TNodePins(n)  BY <1>1, <1>5
<1> QED BY <1>7, <1>8

\* Pins of different places have different names.
LEMMA PinNameUnique ==
    ASSUME GateNetlists, nl \in Netlists, NEW m \in ModelSet, NEW i \in DOMAIN Pins[m],
           NEW l \in ModelSet, NEW j \in DOMAIN Pins[l], PinName(<<m, i>>) = PinName(<<l, j>>)
    PROVE  <<m, i>> = <<l, j>>
<1>1. \A p : PinName(p)[1] = p[1]  BY DEF PinName
<1>2. PinName(<<m, i>>)[1] = m /\ PinName(<<l, j>>)[1] = l  BY <1>1
<1>3. m = l  BY <1>2
<1>4. ModelSet = TGates \cup TInputs \cup TOutputs  BY GateNet
<1>5. CASE m \in TGates
  <2>1. CASE Kind[m] \in {"NOT", "YES"}
    <3>1. /\ DOMAIN Pins[m] = {1, 2}
          /\ PinName(<<m, 1>>) = <<m, "ia">> /\ PinName(<<m, 2>>) = <<m, "o">>
      BY <1>5, <2>1, PinNames
    <3> QED BY <1>3, <3>1, SMT
  <2>2. CASE Kind[m] \notin {"NOT", "YES"}
    <3>1. /\ DOMAIN Pins[m] = {1, 2, 3}
          /\ PinName(<<m, 1>>) = <<m, "ia">> /\ PinName(<<m, 2>>) = <<m, "ib">>
          /\ PinName(<<m, 3>>) = <<m, "o">>
      BY <1>5, <2>2, PinNames
    <3> QED BY <1>3, <3>1, SMT
  <2> QED BY <2>1, <2>2
<1>6. CASE m \in TInputs \cup TOutputs
  <2>1. DOMAIN Pins[m] = {1}  BY <1>6, PinNames
  <2> QED BY <1>3, <2>1
<1> QED BY <1>4, <1>5, <1>6

\* A gate starts with last_outputA at X.
LEMMA InitGate ==
    ASSUME NEW k \in GateKinds, NEW par, NEW usr
    PROVE  InitMem(k, par, usr).last = "X" /\ "last" \in DOMAIN InitMem(k, par, usr)
BY DEF InitMem, GateKinds, FlipFlops

\* The fields INPUT and OUTPUT start with.
LEMMA InitTerminals ==
    ASSUME NEW par, NEW usr
    PROVE  /\ InitMem("INPUT", par, usr) = [outputA |-> "L", last |-> "X"]
           /\ InitMem("OUTPUT", par, usr) = [in |-> <<[val |-> "X", usr |-> usr, age |-> 0]>>]
BY DEF InitMem, GateKinds, FlipFlops

\* The circuit after its first prepare() is DigitalTable's.
LEMMA RefInit ==
    ASSUME GateNetlists, Init
    PROVE  RefInv /\ Table!Init
<1>1. /\ nl \in Netlists /\ dn = [n \in Nodes \ Hybrid |-> "X"] /\ DOMAIN mem = ModelSet
      /\ tables = {} /\ lost = {} /\ phase = "idle" /\ queue = <<>> /\ budget = 0
  BY DEF Init
<1>2. \A m \in ModelSet :
         mem[m] = InitMem(Kind[m], Par[m], IF Kind[m] \in GateKinds THEN UsrInit ELSE "X")
  BY DEF Init
<1>3. /\ Hybrid = {} /\ ModelSet = TGates \cup TInputs \cup TOutputs /\ Nodes = Range(TheNetlist.nodes)
      /\ \A m \in TGates : Kind[m] \in GateKinds
      /\ \A m \in TInputs : Kind[m] = "INPUT"
      /\ \A m \in TOutputs : Kind[m] = "OUTPUT"
  BY <1>1, GateNet
<1>4. \A m \in TGates : mem[m].last = "X" /\ "last" \in DOMAIN mem[m]  BY <1>2, <1>3, InitGate, SMTT(30)
<1>5. \A m \in TInputs : mem[m] = [outputA |-> "L", last |-> "X"]  BY <1>2, <1>3, InitTerminals, SMT
<1>6. \A m \in TOutputs : mem[m] = [in |-> <<[val |-> "X", usr |-> "X", age |-> 0]>>]
  <2>1. \A m \in TOutputs : mem[m] = InitMem("OUTPUT", Par[m], "X")  BY <1>2, <1>3 DEF GateKinds
  <2> QED BY <2>1, InitTerminals
<1>7. \A m \in Drivers : mem[m].last = "X" /\ "last" \in DOMAIN mem[m]  BY <1>4, <1>5, SMT DEF Drivers
<1>8. \A m \in TInputs : mem[m].outputA = "L" /\ "outputA" \in DOMAIN mem[m]  BY <1>5, SMT
<1>9. \A m \in TOutputs : mem[m].in[1].val = "X"  BY <1>6, SMT
<1>10. dn = [n \in Nodes |-> "X"]  BY <1>1, <1>3
<1>11. RefInv
  <2>1. dn = [n \in Nodes |-> dn[n]]  BY <1>10
  <2> QED BY <1>1, <1>7, <1>8, <2>1, RailInit DEF RefInv
<1>12. Of(GateKinds \cup {"INPUT"}) = Drivers /\ Of({"INPUT"}) = TInputs /\ Of({"OUTPUT"}) = TOutputs
  BY <1>1, MapDomains
<1>13. TOutputA \in [TInputs -> Val]  BY <1>8, <1>12 DEF TOutputA, Val
<1>14. TLast = [d \in Drivers |-> "X"]  BY <1>7, <1>12 DEF TLast
<1>15. TInputA = [o \in TOutputs |-> "X"]  BY <1>9, <1>12 DEF TInputA
<1>16. dn = [n \in Range(TheNetlist.nodes) |-> IF TNodePins(n) = {} THEN "L" ELSE "X"]
  <2>1. \A n \in Nodes : TNodePins(n) # {}
    <3> SUFFICES ASSUME NEW n \in Nodes PROVE TNodePins(n) # {}  OBVIOUS
    <3>1. PICK m \in ModelSet : n \in Range(nl.dev[m].pins)
      BY <1>1 DEF GateNetlists, ModelSet, Nodes
    <3>2. PICK i \in DOMAIN Pins[m] : Pins[m][i] = n  BY <3>1 DEF Range, Pins
    <3>3. <<m, i>> \in Range(NodePins(n))  BY <1>1, <3>2, NodePinsFacts
    <3> QED BY <1>1, <3>3, SamePins, SMT
  <2> QED BY <1>3, <1>10, <2>1
<1>17. TBefore = {} /\ TTodo = {}  BY <1>1 DEF TBefore, TTodo
<1>18. Table!Init
  BY <1>1, <1>13, <1>14, <1>15, <1>16, <1>17
     DEF Table!Init, Table!NodePins, Table!Drivers, Table!TwoInput, Table!Val, Val, TOutputA, TLast, TInputA,
         TBefore, TTodo, TNodePins, TKind, TIA, TIB, TO, TInputs, TGates, TOutputs, Drivers
<1> QED BY <1>11, <1>18


\* What the mapped work lists are after a step, by the phase it ends in.
LEMMA TodoNext ==
    ASSUME nl' = nl
    PROVE  /\ phase' = "table" => TTodo' = {PinName(p) : p \in Range(queue')} /\ TBefore' = {}
           /\ phase' = "before" => TBefore' = Range(queue') /\ TTodo' = {}
           /\ phase' = "idle" => TBefore' = {} /\ TTodo' = {}
<1>1. Kind' = Kind  BY DEF Kind, ModelSet
<1>2. \A p : PinName(p)' = PinName(p)  BY <1>1 DEF PinName
<1>3. phase' = "table" => TTodo' = {PinName(p) : p \in Range(queue')}
  <2>1. phase' = "table" => TTodo' = {PinName(p)' : p \in Range(queue)'}  BY DEF TTodo
  <2>2. Range(queue)' = Range(queue')  BY DEF Range
  <2> QED BY <1>2, <2>1, <2>2
<1>4. phase' # "table" => TTodo' = {}  BY DEF TTodo
<1>5. phase' = "before" => TBefore' = Range(queue')  BY DEF TBefore, Range
<1>6. phase' # "before" => TBefore' = {}  BY DEF TBefore
<1> QED BY <1>3, <1>4, <1>5, <1>6

\* The facts about a step's end that make RefInv hold there.
LEMMA RefIntro ==
    ASSUME RailInv', nl' = nl, Kept, phase' \in {"idle", "before", "table"},
           phase' = "idle" => queue' = <<>>,
           phase' = "before" => IsInjective(queue') /\ Range(queue') \subseteq TInputs,
           phase' = "table" => /\ IsInjective(queue')
                               /\ \A p \in Range(queue') :
                                    \E m \in ModelSet : \E i \in DOMAIN Pins[m] : p = <<m, i>>
    PROVE  RefInv'
<1>1. ModelSet' = ModelSet /\ Pins' = Pins /\ Nodes' = Nodes  BY Static
<1>2. /\ tables' \subseteq Nodes' /\ dn' = [n \in Nodes' |-> dn'[n]]
      /\ \A m \in Drivers : "last" \in DOMAIN mem'[m]
      /\ \A m \in TInputs : "outputA" \in DOMAIN mem'[m]
  BY <1>1 DEF Kept
<1>3. IsInjective(queue)' = IsInjective(queue') /\ Range(queue)' = Range(queue')
  BY DEF IsInjective, Range
<1> QED BY <1>1, <1>2, <1>3 DEF RefInv

\* A state whose devices, nodes and pending set are as before.
LEMMA SameDevices ==
    ASSUME GateNetlists, RefInv, UNCHANGED <<nl, mem>>
    PROVE  TOutputA' = TOutputA /\ TLast' = TLast /\ TInputA' = TInputA
<1>1. nl \in Netlists  BY DEF RefInv, RailInv
<1> QED BY <1>1, LastKept, OutputAKept, InputAKept

\* A step that writes neither models nor nodes keeps what RefInv says of them.
LEMMA KeptSame ==
    ASSUME RefInv, mem' = mem, dn' = dn, tables' \subseteq tables
    PROVE  Kept
<1>1. /\ tables \subseteq Nodes /\ dn = [n \in Nodes |-> dn[n]]
      /\ \A m \in Drivers : "last" \in DOMAIN mem[m]
      /\ \A m \in TInputs : "outputA" \in DOMAIN mem[m]
  BY DEF RefInv
<1> QED BY <1>1 DEF Kept

\* set_attribute() is a step of the abstract tick, and keeps RefInv.
LEMMA RefSetAttribute ==
    ASSUME GateNetlists, RefInv, RailInv', NEW m \in ModelSet, NEW v \in nl.dev[m].attr, SetAttribute(m, v)
    PROVE  RefInv' /\ Table!Next
<1>1. nl \in Netlists /\ DOMAIN mem = ModelSet  BY DEF RefInv, RailInv
<1>2. m \in TInputs /\ v \in Val
  <2>1. nl.dev[m].kind \in {"INPUT", "EIGHT_BIT_INPUT", "COUNTER4", "RANDOM_GENERATOR4"}
    BY <1>1, NetlistAssumption DEF ModelSet
  <2>2. v \in Val /\ nl.dev[m].kind \in GateKinds \cup {"INPUT", "OUTPUT"}  BY <1>1 DEF GateNetlists, ModelSet
  <2>3. Kind[m] = "INPUT"  BY <2>1, <2>2 DEF Kind, GateKinds
  <2>4. /\ ModelSet = TGates \cup TInputs \cup TOutputs
        /\ \A g \in TGates : Kind[g] \in GateKinds
        /\ \A o \in TOutputs : Kind[o] = "OUTPUT"
    BY <1>1, GateNet
  <2> QED BY <2>2, <2>3, <2>4 DEF GateKinds
<1>3. Kind[m] = "INPUT" /\ Drivers \subseteq ModelSet /\ TInputs \subseteq Drivers /\ TOutputs \subseteq ModelSet
      /\ m \notin TOutputs
  BY <1>1, <1>2, GateNet DEF Drivers
<1> DEFINE z == [mem[m] EXCEPT !.outputA = v]
<1>4. /\ phase = "idle" /\ mem' = [mem EXCEPT ![m] = z]
      /\ UNCHANGED <<nl, dn, tables, phase, queue, budget, lost>>
  BY <1>3 DEF SetAttribute
<1>5. /\ "last" \in DOMAIN mem[m] /\ "outputA" \in DOMAIN mem[m] /\ queue = <<>>
      /\ tables \subseteq Nodes /\ dn = [n \in Nodes |-> dn[n]]
      /\ \A d \in Drivers : "last" \in DOMAIN mem[d]
      /\ \A i \in TInputs : "outputA" \in DOMAIN mem[i]
  BY <1>2, <1>3, <1>4 DEF RefInv
<1>6. z.outputA = v /\ z.last = mem[m].last /\ "last" \in DOMAIN z /\ "outputA" \in DOMAIN z  BY <1>5
<1> HIDE DEF z
<1>7. \A l \in ModelSet : mem'[l] = IF l = m THEN z ELSE mem[l]  BY <1>1, <1>4
<1>8. Kept
  <2>1. \A d \in Drivers : "last" \in DOMAIN mem'[d]  BY <1>3, <1>5, <1>6, <1>7
  <2>2. \A i \in TInputs : "outputA" \in DOMAIN mem'[i]  BY <1>3, <1>5, <1>6, <1>7
  <2> QED BY <1>4, <1>5, <2>1, <2>2 DEF Kept
<1>9. RefInv'  BY <1>4, <1>5, <1>8, RefIntro
<1>10. TLast' = TLast
  <2>1. \A d \in Drivers : mem'[d].last = mem[d].last  BY <1>3, <1>6, <1>7
  <2> QED BY <1>1, <1>4, <2>1, LastKept
<1>11. TInputA' = TInputA
  <2>1. \A o \in TOutputs : mem'[o].in[1].val = mem[o].in[1].val  BY <1>3, <1>7
  <2> QED BY <1>1, <1>4, <2>1, InputAKept
<1>12. TOutputA' = [TOutputA EXCEPT ![m] = v]
  <2>1. Of({"INPUT"}) = TInputs  BY <1>1, MapDomains
  <2>2. Of({"INPUT"})' = TInputs  BY <1>4, <2>1 DEF Of, ModelSet, Kind
  <2>3. TOutputA' = [i \in TInputs |-> mem'[i].outputA]  BY <2>2 DEF TOutputA
  <2>4. TOutputA = [i \in TInputs |-> mem[i].outputA]  BY <2>1 DEF TOutputA
  <2>5. \A i \in TInputs : mem'[i].outputA = IF i = m THEN v ELSE mem[i].outputA  BY <1>3, <1>6, <1>7
  <2>6. [TOutputA EXCEPT ![m] = v] = [i \in TInputs |-> IF i = m THEN v ELSE mem[i].outputA]  BY <2>4
  <2> QED BY <2>3, <2>5, <2>6
<1>13. TBefore' = TBefore /\ TTodo' = TTodo
  <2>1. TBefore' = {} /\ TTodo' = {}  BY <1>4, TodoNext
  <2>2. TBefore = {} /\ TTodo = {}  BY <1>4 DEF TBefore, TTodo
  <2> QED BY <2>1, <2>2
<1>14. Table!SetAttribute(m, v)
  BY <1>4, <1>10, <1>11, <1>12, <1>13 DEF Table!SetAttribute, Table!clk, TLast, TInputA, TOutputA, TBefore, TTodo
<1>15. m \in The({"INPUT"}) /\ v \in Table!Val  BY <1>2 DEF TInputs, Val, Table!Val
<1>16. Table!Next  BY <1>14, <1>15 DEF Table!Next
<1> QED BY <1>9, <1>16

\* Calling digital_clk() is a step of the abstract tick, and keeps RefInv.
LEMMA RefDigitalClk ==
    ASSUME GateNetlists, RefInv, RailInv', DigitalClk
    PROVE  RefInv' /\ Table!Next
<1>1. nl \in Netlists  BY DEF RefInv, RailInv
<1>2. /\ phase = "idle" /\ phase' = "before" /\ queue' = BeforeModels
      /\ UNCHANGED <<nl, dn, mem, tables, budget, lost>>
  BY DEF DigitalClk
<1>3. /\ IsInjective(BeforeModels)
      /\ \A m : m \in Range(BeforeModels) <=> m \in ModelSet /\ Kind[m] \in BeforeKinds
  BY <1>1, BeforeModelsFacts
<1>4. /\ ModelSet = TGates \cup TInputs \cup TOutputs
      /\ \A m \in TGates : Kind[m] \in GateKinds
      /\ \A m \in TInputs : Kind[m] = "INPUT"
      /\ \A m \in TOutputs : Kind[m] = "OUTPUT"
  BY <1>1, GateNet
<1>5. Range(queue') = TInputs
  <2>1. \A m \in TGates : Kind[m] \notin BeforeKinds  BY <1>4 DEF GateKinds, BeforeKinds
  <2>2. \A m \in TInputs : Kind[m] \in BeforeKinds  BY <1>4 DEF BeforeKinds
  <2>3. \A m \in TOutputs : Kind[m] \notin BeforeKinds  BY <1>4 DEF BeforeKinds
  <2>4. \A m : m \in Range(BeforeModels) <=> m \in TInputs  BY <1>3, <1>4, <2>1, <2>2, <2>3
  <2> QED BY <1>2, <2>4
<1>6. Kept  BY <1>2, KeptSame
<1>7. RefInv'  BY <1>2, <1>3, <1>5, <1>6, RefIntro
<1>8. TOutputA' = TOutputA /\ TLast' = TLast /\ TInputA' = TInputA  BY <1>2, SameDevices
<1>9. TBefore' = TInputs /\ TTodo' = {}  BY <1>2, <1>5, TodoNext
<1>10. TTodo = {}  BY <1>2 DEF TTodo
<1>11. Table!DigitalClk
  BY <1>2, <1>8, <1>9, <1>10 DEF Table!DigitalClk, TLast, TInputA, TOutputA, TBefore, TTodo, TInputs
<1> QED BY <1>7, <1>11 DEF Table!Next

\* Update of the model a state function denotes is Update of that model.
LEMMA UpdateAt ==
    ASSUME NEW h, NEW STATE g, h = g, NEW method, Update(g, method)
    PROVE  Update(h, method)
<1> DEFINE s == UpdateDigitalClk(Kind[h], Par[h], mem[h], PinView(h), method)
<1>1. PICK r \in {UpdateDigitalClk(Kind[g], Par[g], mem[g], PinView(g), method)} :
         /\ mem' = [mem EXCEPT ![g] = r.mem]
         /\ dn' = [n \in Nodes \ Hybrid |->
                     IF \E w \in r.wr : Pins[g][w[1]] = n
                       THEN (CHOOSE w \in r.wr : Pins[g][w[1]] = n)[2] ELSE dn[n]]
         /\ tables' = tables \cup {Pins[g][i] : i \in r.pend}
         /\ digital_out' = digital_out \o [i \in DOMAIN r.dr |-> <<Pins[g][r.dr[i][1]], r.dr[i][2]>>]
  BY DEF Update
<1>2. PinView(g) = PinView(h)  BY DEF PinView
<1>3. r = s  BY <1>1, <1>2
<1>4. /\ mem' = [mem EXCEPT ![h] = r.mem]
      /\ dn' = [n \in Nodes \ Hybrid |->
                  IF \E w \in r.wr : Pins[h][w[1]] = n
                    THEN (CHOOSE w \in r.wr : Pins[h][w[1]] = n)[2] ELSE dn[n]]
      /\ tables' = tables \cup {Pins[h][i] : i \in r.pend}
      /\ digital_out' = digital_out \o [i \in DOMAIN r.dr |-> <<Pins[h][r.dr[i][1]], r.dr[i][2]>>]
  BY <1>1
<1> HIDE DEF s
<1>5. r \in {s}  BY <1>3
<1> QED BY <1>4, <1>5 DEF Update, s

\* Updating one model of before_all_clk is an abstract step, and keeps RefInv.
LEMMA RefBeforeModel ==
    ASSUME GateNetlists, RefInv, RailInv', BeforeModel
    PROVE  RefInv' /\ Table!Next
<1>0. PICK h : h = Head(queue)  OBVIOUS
<1>1. nl \in Netlists  BY DEF RefInv, RailInv
<1>2. /\ phase = "before" /\ queue # <<>> /\ Update(h, "before") /\ queue' = Tail(queue)
      /\ UNCHANGED <<nl, phase, budget, lost>>
  <2>1. /\ phase = "before" /\ queue # <<>> /\ Update(Head(queue), "before") /\ queue' = Tail(queue)
        /\ UNCHANGED <<nl, phase, budget, lost>>
    BY DEF BeforeModel
  <2>2. Update(h, "before")  BY <1>0, <2>1, UpdateAt
  <2> QED BY <2>1, <2>2
<1>3. queue \in Seq(ModelSet) /\ IsInjective(queue) /\ Range(queue) \subseteq TInputs
  BY <1>2 DEF RefInv, RailInv
<1>4. /\ Range(queue) = {h} \cup Range(Tail(queue))
      /\ IsInjective(Tail(queue)) /\ h \notin Range(Tail(queue))
  BY <1>0, <1>2, <1>3, HeadTail
<1>5. h \in TInputs  BY <1>3, <1>4
<1>6. Table!UpdateInput(h) /\ TOutputA' = TOutputA /\ Kept  BY <1>2, <1>5, InputCall
<1>7. RefInv'  BY <1>2, <1>3, <1>4, <1>6, RefIntro
<1>8. TBefore = Range(queue) /\ TTodo = {}  BY <1>2 DEF TBefore, TTodo
<1>9. TBefore' = Range(Tail(queue)) /\ TTodo' = {}  BY <1>2, TodoNext
<1>10. h \in TBefore /\ TBefore' = TBefore \ {h} /\ TTodo' = TTodo  BY <1>4, <1>8, <1>9
<1>11. Table!BeforeModel(h)
  BY <1>2, <1>6, <1>10 DEF Table!BeforeModel, TOutputA, TBefore, TTodo
<1>12. h \in The({"INPUT"})  BY <1>5 DEF TInputs
<1> QED BY <1>7, <1>11, <1>12 DEF Table!Next, Table!Step

\* Leaving the before phase is an abstract step, and keeps RefInv.
LEMMA RefEnterTable ==
    ASSUME GateNetlists, RefInv, RailInv', EnterTable
    PROVE  RefInv' /\ Table!Next
<1>1. nl \in Netlists  BY DEF RefInv, RailInv
<1>2. Hybrid = {}  BY <1>1, GateNet
<1>3. /\ phase = "before" /\ queue = <<>> /\ phase' = "table" /\ budget' = Budget
      /\ UNCHANGED <<nl, dn, mem, tables, queue, lost>>
  BY <1>2 DEF EnterTable
<1>4. Range(queue) = {} /\ IsInjective(queue)  BY <1>3, SMT DEF Range, IsInjective
<1>5. Kept  BY <1>3, KeptSame
<1>6. RefInv'  BY <1>3, <1>4, <1>5, RefIntro
<1>7. TOutputA' = TOutputA /\ TLast' = TLast /\ TInputA' = TInputA  BY <1>3, SameDevices
<1>8. TBefore = {} /\ TTodo = {}  BY <1>3, <1>4 DEF TBefore, TTodo
<1>9. TBefore' = {} /\ TTodo' = {}
  <2>1. TBefore' = {} /\ TTodo' = {PinName(p) : p \in Range(queue')}  BY <1>3, TodoNext
  <2>2. Range(queue') = {}  BY <1>3, <1>4
  <2> QED BY <2>1, <2>2
<1>10. Table!EnterTable
  BY <1>3, <1>7, <1>8, <1>9 DEF Table!EnterTable, TLast, TInputA, TOutputA, TBefore, TTodo
<1> QED BY <1>6, <1>10 DEF Table!Next, Table!Step


\* A set of numbers has a smallest one.
LEMMA NatMin ==
    ASSUME NEW S \in SUBSET Nat, S # {}
    PROVE  \E x \in S : \A y \in S : x <= y
<1> DEFINE R == OpToRel(<, Nat)
<1>1. IsWellFoundedOn(R, Nat)  BY NatLessThanWellFounded
<1>2. PICK x \in S : \A y \in S : ~(<<y, x>> \in R)
  <2> HIDE DEF R
  <2> QED BY <1>1, WFMin
<1>3. \A y \in S : y < x => <<y, x>> \in R  BY DEF OpToRel
<1> HIDE DEF R
<1>4. \A y \in S : ~(y < x)  BY <1>2, <1>3
<1>5. \A y \in S : x <= y  BY <1>4, SMT
<1> QED BY <1>5

\* Taking the first pending node is an abstract step, and keeps RefInv.
LEMMA RefTakeNode ==
    ASSUME GateNetlists, RefInv, RailInv', TakeNode
    PROVE  RefInv' /\ Table!Next
<1> DEFINE first(i) == nl.nodes[i] \in tables /\ \A j \in 1..i - 1 : nl.nodes[j] \notin tables
<1>1. nl \in Netlists /\ tables \subseteq Nodes  BY DEF RefInv, RailInv
<1>2. /\ phase = "table" /\ queue = <<>> /\ tables # {} /\ budget > 0 /\ budget' = budget - 1
      /\ UNCHANGED <<nl, dn, mem, phase>>
  BY DEF TakeNode
<1>3. PICK n : n = nl.nodes[CHOOSE i \in DOMAIN nl.nodes : first(i)]  OBVIOUS
<1>4. tables' = tables \ {n} /\ queue' = NodePins(n) /\ lost' = lost \ {n}
  BY <1>3 DEF TakeNode
<1>5. \E i \in DOMAIN nl.nodes : first(i)
  <2>1. nl.nodes \in Seq(Nodes) /\ Nodes = Range(nl.nodes)  BY <1>1, NetFacts DEF Nodes
  <2>2. DOMAIN nl.nodes = 1..Len(nl.nodes) /\ Len(nl.nodes) \in Nat  BY <2>1, SMT
  <2>3. PICK x : x \in tables  BY <1>2
  <2>4. PICK k \in DOMAIN nl.nodes : nl.nodes[k] = x  BY <1>1, <2>1, <2>3 DEF Range
  <2> DEFINE S == {i \in DOMAIN nl.nodes : nl.nodes[i] \in tables}
  <2>5. S \subseteq Nat /\ S # {}  BY <2>2, <2>3, <2>4, SMT
  <2>6. PICK i \in S : \A j \in S : i <= j
    <3> HIDE DEF S
    <3> QED BY <2>5, NatMin
  <2>7. i \in DOMAIN nl.nodes /\ nl.nodes[i] \in tables /\ i \in 1..Len(nl.nodes)  BY <2>2, <2>6
  <2>8. ASSUME NEW j \in 1..i - 1 PROVE nl.nodes[j] \notin tables
    <3>1. j \in DOMAIN nl.nodes /\ ~(i <= j)  BY <2>2, <2>7, SMT
    <3> QED BY <2>6, <3>1
  <2> QED BY <2>7, <2>8
<1>6. n \in tables /\ n \in Nodes
  <2>1. first(CHOOSE i \in DOMAIN nl.nodes : first(i))  BY <1>5
  <2> QED BY <1>1, <1>3, <2>1
<1> HIDE DEF first
<1>7. /\ IsInjective(NodePins(n))
      /\ \A p : p \in Range(NodePins(n))
               <=> \E m \in ModelSet : \E i \in DOMAIN Pins[m] : p = <<m, i>> /\ Pins[m][i] = n
  BY <1>1, NodePinsFacts
<1>8. Kept  BY <1>2, <1>4, KeptSame
<1>9. RefInv'
  <2>1. \A p \in Range(queue') : \E m \in ModelSet : \E i \in DOMAIN Pins[m] : p = <<m, i>>  BY <1>4, <1>7
  <2> QED BY <1>2, <1>4, <1>7, <1>8, <2>1, RefIntro
<1>10. TOutputA' = TOutputA /\ TLast' = TLast /\ TInputA' = TInputA  BY <1>2, SameDevices
<1>11. TBefore = {} /\ TTodo = {}
  <2>1. Range(queue) = {}  BY <1>2, SMT DEF Range
  <2> QED BY <1>2, <2>1 DEF TBefore, TTodo
<1>12. TBefore' = {} /\ TTodo' = TNodePins(n)
  <2>1. TBefore' = {} /\ TTodo' = {PinName(p) : p \in Range(queue')}  BY <1>2, TodoNext
  <2>2. TNodePins(n) = {PinName(p) : p \in Range(NodePins(n))}  BY <1>1, <1>6, SamePins
  <2> QED BY <1>4, <2>1, <2>2
<1>13. Table!TakeNode(n)
  BY <1>2, <1>4, <1>6, <1>10, <1>11, <1>12
     DEF Table!TakeNode, Table!NodePins, Table!Drivers, Table!TwoInput, TOutputA, TLast, TInputA,
         TBefore, TTodo, TNodePins, TKind, TIA, TIB, TO, TInputs, TGates, TOutputs, Drivers
<1>14. n \in Range(TheNetlist.nodes)  BY <1>1, <1>6, GateNet
<1> QED BY <1>9, <1>13, <1>14 DEF Table!Next, Table!Step

\* Visiting the next pin of a node is an abstract step, and keeps RefInv.
LEMMA RefVisitPin ==
    ASSUME GateNetlists, RefInv, RailInv', VisitPin
    PROVE  RefInv' /\ Table!Next
<1>0. PICK h : h = Head(queue)  OBVIOUS
<1>1. nl \in Netlists  BY DEF RefInv, RailInv
<1>2. /\ phase = "table" /\ queue # <<>> /\ Update(Head(queue)[1], "table") /\ queue' = Tail(queue)
      /\ UNCHANGED <<nl, phase, budget, lost>>
  BY DEF VisitPin
<1>3. /\ queue \in Seq(ModelSet \X Nat) /\ IsInjective(queue)
      /\ \A p \in Range(queue) : \E m \in ModelSet : \E i \in DOMAIN Pins[m] : p = <<m, i>>
  BY <1>2 DEF RefInv, RailInv
<1>4. /\ Range(queue) = {h} \cup Range(Tail(queue))
      /\ IsInjective(Tail(queue)) /\ h \notin Range(Tail(queue))
  BY <1>0, <1>2, <1>3, HeadTail
<1>5. PICK m \in ModelSet : \E i \in DOMAIN Pins[m] : h = <<m, i>>  BY <1>3, <1>4
<1>6. PICK p : p = PinName(h)  OBVIOUS
<1>7. p[1] = m  BY <1>5, <1>6, SMT DEF PinName
<1>8. PICK d : d = p[1]  OBVIOUS
<1>9. Update(d, "table")
  <2>1. d = Head(queue)[1]  BY <1>0, <1>5, <1>7, <1>8, SMT
  <2> QED BY <1>2, <2>1, UpdateAt
<1>10. TTodo = {PinName(q) : q \in Range(queue)} /\ TBefore = {}  BY <1>2 DEF TTodo, TBefore
<1>11. TTodo' = {PinName(q) : q \in Range(Tail(queue))} /\ TBefore' = {}  BY <1>2, TodoNext
<1>12. \A q \in Range(Tail(queue)) : PinName(q) # p
  <2> SUFFICES ASSUME NEW q \in Range(Tail(queue)), PinName(q) = p PROVE FALSE  OBVIOUS
  <2>1. PICK i \in DOMAIN Pins[m] : h = <<m, i>>  BY <1>5
  <2>2. PICK l \in ModelSet : \E j \in DOMAIN Pins[l] : q = <<l, j>>  BY <1>3, <1>4
  <2>3. PICK j \in DOMAIN Pins[l] : q = <<l, j>>  BY <2>2
  <2>4. PinName(<<m, i>>) = PinName(<<l, j>>)  BY <1>6, <2>1, <2>3
  <2>5. <<m, i>> = <<l, j>>  BY <1>1, <2>4, PinNameUnique, SMT
  <2>6. q = h  BY <2>1, <2>3, <2>5
  <2> QED BY <1>4, <2>6
<1>13. p \in TTodo /\ TTodo' = TTodo \ {p} /\ TBefore' = TBefore
  <2>1. p \in TTodo  BY <1>4, <1>6, <1>10
  <2>2. ASSUME NEW x PROVE x \in TTodo' <=> x \in TTodo /\ x # p
    <3>1. x \in TTodo <=> \E q \in Range(queue) : x = PinName(q)  BY <1>10
    <3>2. x \in TTodo' <=> \E q \in Range(Tail(queue)) : x = PinName(q)  BY <1>11
    <3> QED BY <1>4, <1>6, <1>12, <3>1, <3>2
  <2>3. TTodo' = TTodo \ {p}  BY <2>2
  <2> QED BY <1>10, <1>11, <2>1, <2>3
<1>14. d \in TGates \cup TInputs \cup TOutputs  BY <1>1, <1>5, <1>7, <1>8, GateNet
<1>15. /\ \/ d \in TInputs /\ Table!UpdateInput(d)
          \/ d \in TGates /\ Table!UpdateGate(d)
          \/ d \in TOutputs /\ Table!UpdateOutput(d)
       /\ TOutputA' = TOutputA /\ Kept
  <2>1. CASE d \in TInputs  BY <1>2, <1>9, <2>1, InputCall
  <2>2. CASE d \in TGates  BY <1>2, <1>9, <2>2, GateStep
  <2>3. CASE d \in TOutputs  BY <1>2, <1>9, <2>3, OutputStep
  <2> QED BY <1>14, <2>1, <2>2, <2>3
<1>16. RefInv'
  <2>1. \A q \in Range(queue') : \E l \in ModelSet : \E i \in DOMAIN Pins[l] : q = <<l, i>>
    BY <1>2, <1>3, <1>4
  <2> QED BY <1>2, <1>4, <1>15, <2>1, RefIntro
<1>17. Table!VisitPin(p)
  <2>1. \/ p[1] \in The({"INPUT"}) /\ Table!UpdateInput(p[1])
        \/ p[1] \in The(GateKinds) /\ Table!UpdateGate(p[1])
        \/ p[1] \in The({"OUTPUT"}) /\ Table!UpdateOutput(p[1])
    BY <1>8, <1>15 DEF TInputs, TGates, TOutputs
  <2> QED BY <1>2, <1>13, <1>15, <2>1 DEF Table!VisitPin, TTodo, TBefore, TOutputA
<1>18. \E q \in TTodo : Table!VisitPin(q)  BY <1>13, <1>17
<1> QED BY <1>16, <1>18 DEF Table!Next, Table!Step, TTodo

\* Leaving the update loop, empty or out of budget, is an abstract step, and keeps RefInv.
LEMMA RefLeaveTable ==
    ASSUME GateNetlists, RefInv, RailInv', LeaveTable
    PROVE  RefInv' /\ Table!Next
<1>1. nl \in Netlists  BY DEF RefInv, RailInv
<1>2. /\ phase = "table" /\ queue = <<>> /\ (tables = {} \/ budget = 0) /\ phase' = "idle" /\ budget' = 0
      /\ UNCHANGED <<nl, dn, mem, tables, queue, lost>>
  BY DEF LeaveTable
<1>3. Range(queue) = {}  BY <1>2, SMT DEF Range
<1>4. Kept  BY <1>2, KeptSame
<1>5. RefInv'  BY <1>2, <1>4, RefIntro
<1>6. TOutputA' = TOutputA /\ TLast' = TLast /\ TInputA' = TInputA  BY <1>2, SameDevices
<1>7. TBefore = {} /\ TTodo = {}  BY <1>2, <1>3 DEF TBefore, TTodo
<1>8. TBefore' = {} /\ TTodo' = {}  BY <1>2, TodoNext
<1>9. Table!LeaveTable
  BY <1>2, <1>6, <1>7, <1>8 DEF Table!LeaveTable, TLast, TInputA, TOutputA, TBefore, TTodo
<1> QED BY <1>5, <1>9 DEF Table!Next, Table!Step

\* Both outcomes of analyze() are DigitalTable's Prepare.
LEMMA RefPrepare ==
    ASSUME GateNetlists, RefInv, RailInv', phase = "idle", tables' = {}, lost' = lost \cup tables,
           UNCHANGED <<nl, dn, phase, queue, budget>>,
           \A d \in Drivers : mem'[d].last = mem[d].last /\ DOMAIN mem'[d] = DOMAIN mem[d],
           \A i \in TInputs : mem'[i].outputA = mem[i].outputA,
           \A o \in TOutputs : mem'[o].in[1].val = mem[o].in[1].val
    PROVE  RefInv' /\ Table!Next
<1>1. nl \in Netlists  BY DEF RefInv, RailInv
<1>2. /\ tables \subseteq Nodes /\ dn = [n \in Nodes |-> dn[n]] /\ queue = <<>>
      /\ \A m \in Drivers : "last" \in DOMAIN mem[m]
      /\ \A m \in TInputs : "outputA" \in DOMAIN mem[m] /\ m \in Drivers
  BY DEF RefInv, Drivers
<1>3. Kept  BY <1>2 DEF Kept
<1>4. RefInv'  BY <1>2, <1>3, RefIntro
<1>5. TOutputA' = TOutputA /\ TLast' = TLast /\ TInputA' = TInputA
  BY <1>1, LastKept, OutputAKept, InputAKept
<1>6. TBefore = {} /\ TTodo = {}  BY DEF TBefore, TTodo
<1>7. TBefore' = {} /\ TTodo' = {}  BY TodoNext
<1>8. Table!Prepare
  BY <1>5, <1>6, <1>7 DEF Table!Prepare, Table!clk, TLast, TInputA, TOutputA, TBefore, TTodo
<1> QED BY <1>4, <1>8 DEF Table!Next
\* A step of the engine keeps RefInv and is a step, or a stutter, of DigitalTable.
LEMMA RefNext ==
    ASSUME GateNetlists, RefInv, [Next]_vars
    PROVE  RefInv' /\ [Table!Next]_(Table!vars)
<1>0. RailInv'  BY RailNext DEF RefInv
<1>1. nl \in Netlists /\ DOMAIN mem = ModelSet  BY DEF RefInv, RailInv
<1>2. /\ ModelSet = TGates \cup TInputs \cup TOutputs /\ Drivers = TGates \cup TInputs
      /\ \A m \in TGates : Kind[m] \in GateKinds
      /\ \A m \in TInputs : Kind[m] = "INPUT"
      /\ \A m \in TOutputs : Kind[m] = "OUTPUT"
  BY <1>1, GateNet DEF Drivers
<1>3. ASSUME NEW m \in ModelSet, NEW v \in nl.dev[m].attr, SetAttribute(m, v) PROVE RefInv' /\ Table!Next
  BY <1>0, <1>3, RefSetAttribute
<1>4. ASSUME NEW m \in ModelSet, NEW unknown \in BOOLEAN, SetUnknown(m, unknown) PROVE FALSE
  <2>1. Kind[m] \in {"COUNTER4", "RANDOM_GENERATOR4"}  BY <1>4 DEF SetUnknown
  <2>2. Kind[m] \in GateKinds \cup {"INPUT", "OUTPUT"}  BY <1>2
  <2> QED BY <2>1, <2>2 DEF GateKinds
<1>5. CASE DigitalClk  BY <1>0, <1>5, RefDigitalClk
<1>6. CASE Step
  <2>1. CASE BeforeModel  BY <1>0, <2>1, RefBeforeModel
  <2>2. CASE EnterTable  BY <1>0, <2>2, RefEnterTable
  <2>3. CASE TakeNode  BY <1>0, <2>3, RefTakeNode
  <2>4. CASE VisitPin  BY <1>0, <2>4, RefVisitPin
  <2>5. CASE LeaveTable  BY <1>0, <2>5, RefLeaveTable
  <2> QED BY <1>6, <2>1, <2>2, <2>3, <2>4, <2>5 DEF Step
<1>7. ASSUME NEW dt \in Times, Analyze(dt) PROVE RefInv' /\ Table!Next
  <2>1. /\ phase = "idle" /\ tables' = {} /\ lost' = lost \cup tables
        /\ UNCHANGED <<nl, dn, phase, queue, budget>>
        /\ mem' = [m \in ModelSet |-> IF Kind[m] \in Sampling THEN Older(mem[m], dt) ELSE mem[m]]
    BY <1>7 DEF Analyze, Sampling
  <2>2. \A m \in TInputs : mem'[m] = mem[m]  BY <1>2, <2>1 DEF Sampling, GateKinds
  <2>3. \A m \in TGates \cup TOutputs : mem'[m] = Older(mem[m], dt) /\ MemOK(m, mem[m])
    <3>1. \A m \in TGates \cup TOutputs : m \in ModelSet /\ Kind[m] \in Sampling  BY <1>2 DEF Sampling
    <3>2. \A m \in ModelSet : Kind[m] \in Sampling => MemOK(m, mem[m])  BY DEF RefInv, RailInv
    <3> QED BY <2>1, <3>1, <3>2
  <2>4. \A x : DOMAIN Older(x, dt) = DOMAIN x /\ ("last" \in DOMAIN x => Older(x, dt).last = x.last)
    BY DEF Older
  <2>5. \A d \in Drivers : mem'[d].last = mem[d].last /\ DOMAIN mem'[d] = DOMAIN mem[d]
    <3>1. \A d \in Drivers : "last" \in DOMAIN mem[d]  BY DEF RefInv
    <3> QED BY <1>2, <2>2, <2>3, <2>4, <3>1
  <2>6. \A o \in TOutputs : mem'[o].in[1].val = mem[o].in[1].val
    <3> SUFFICES ASSUME NEW o \in TOutputs PROVE mem'[o].in[1].val = mem[o].in[1].val  OBVIOUS
    <3>1. PICK x : x = mem[o]  OBVIOUS
    <3>2. mem'[o] = Older(x, dt) /\ MemOK(o, x)  BY <2>3, <3>1
    <3>3. Kind[o] = "OUTPUT"  BY <1>2
    <3>4. "in" \in DOMAIN x /\ 1 \in DOMAIN x.in /\ "val" \in DOMAIN x.in[1]
      BY <3>2, <3>3, SMTT(30) DEF MemOK, InCount, SampleShape
    <3>5. Older(x, dt).in[1].val = x.in[1].val  BY <3>4 DEF Older
    <3> QED BY <3>1, <3>2, <3>5
  <2> QED BY <1>0, <2>1, <2>2, <2>5, <2>6, RefPrepare
<1>8. CASE AnalyzeFails
  <2>1. /\ phase = "idle" /\ tables' = {} /\ lost' = lost \cup tables /\ mem' = mem
        /\ UNCHANGED <<nl, dn, phase, queue, budget>>
    BY <1>8 DEF AnalyzeFails
  <2> QED BY <1>0, <2>1, RefPrepare
<1>9. CASE UNCHANGED vars
  <2>1. UNCHANGED <<nl, dn, mem, tables, phase, queue, budget, lost>>  BY <1>9 DEF vars
  <2>2. Kept  BY <2>1, KeptSame
  <2>3. RefInv'
    <3>1. /\ phase \in {"idle", "before", "table"} /\ (phase = "idle" => queue = <<>>)
          /\ phase = "before" => IsInjective(queue) /\ Range(queue) \subseteq TInputs
          /\ phase = "table" => /\ IsInjective(queue)
                                /\ \A p \in Range(queue) :
                                     \E m \in ModelSet : \E i \in DOMAIN Pins[m] : p = <<m, i>>
      BY DEF RefInv
    <3> QED BY <1>0, <2>1, <2>2, <3>1, RefIntro
  <2>4. TOutputA' = TOutputA /\ TLast' = TLast /\ TInputA' = TInputA  BY <2>1, SameDevices
  <2>5. TBefore' = TBefore /\ TTodo' = TTodo
    <3>1. phase \in {"idle", "before", "table"}  BY DEF RefInv
    <3> QED BY <2>1, <3>1, TodoNext DEF TBefore, TTodo
  <2>6. UNCHANGED Table!vars
    BY <2>1, <2>4, <2>5 DEF Table!vars, TLast, TInputA, TOutputA, TBefore, TTodo
  <2> QED BY <2>3, <2>6
<1> QED BY <1>3, <1>4, <1>5, <1>6, <1>7, <1>8, <1>9 DEF Next

\* On every netlist of gates, INPUTs and OUTPUTs, with the devices' own sampling and caches,
\* in every heap layout, digital_clk() is the abstract update-table loop of DigitalTable:
\* what DigitalTableProofs proves of that loop holds of the engine.
THEOREM ImplementsTableCorrect == GateNetlists => (Spec => ImplementsTable)
<1> DEFINE I == GateNetlists /\ RefInv
<1>1. GateNetlists /\ Init => I /\ Table!Init  BY RefInit
<1>2. I /\ [Next]_vars => I' /\ [Table!Next]_(Table!vars)  BY RefNext
<1> HIDE DEF I
<1> QED BY <1>1, <1>2, PTL DEF Spec, ImplementsTable, Table!Spec

-----------------------------------------------------------------------------

(***************************************************************************)
(* What DigitalTableProofs proves of the abstract loop, for the engine.    *)
(***************************************************************************)
Loop == INSTANCE DigitalTableProofs WITH
    Nodes <- Range(TheNetlist.nodes),
    Gates <- The(GateKinds), Inputs <- The({"INPUT"}), Outputs <- The({"OUTPUT"}),
    Kind <- [g \in The(GateKinds) |-> TheNetlist.dev[g].kind],
    IA <- [m \in The(GateKinds \cup {"OUTPUT"}) |-> ThePins(m)[1]],
    IB <- [g \in The(GateKinds) |-> IF Len(ThePins(g)) = 3 THEN ThePins(g)[2] ELSE NoNode],
    O <- [m \in The(GateKinds \cup {"INPUT"}) |-> ThePins(m)[Len(ThePins(m))]],
    state <- dn,
    outputA <- [i \in Of({"INPUT"}) |-> mem[i].outputA],
    last <- [m \in Of(GateKinds \cup {"INPUT"}) |-> mem[m].last],
    inputA <- [o \in Of({"OUTPUT"}) |-> mem[o].in[1].val],
    before <- IF phase = "before" THEN Range(queue) ELSE {},
    todo <- IF phase = "table" THEN {PinName(p) : p \in Range(queue)} ELSE {},
    has_prepare <- TRUE

\* A netlist of gates meets the assumption of DigitalTable.
LEMMA WiringHolds ==
    ASSUME GateNetlists
    PROVE  Loop!NetlistAssumption
<1>1. PICK n : n = TheNetlist  OBVIOUS
<1>2. n \in Netlists  BY <1>1 DEF TheNetlist, GateNetlists
<1>3. /\ \A m \in DOMAIN n.dev : /\ n.dev[m].kind \in GateKinds \cup {"INPUT", "OUTPUT"}
                                 /\ n.dev[m].pins \in Seq(Range(n.nodes) \cup {NoNode})
                                 /\ Len(n.dev[m].pins) = PinCount(n.dev[m].kind)
      /\ NoNode \notin Range(n.nodes)
  BY <1>2, NetlistAssumption DEF GateNetlists
<1>4. \A m \in DOMAIN n.dev : /\ n.dev[m].pins[1] \in Range(n.nodes) \cup {NoNode}
                              /\ n.dev[m].pins[Len(n.dev[m].pins)] \in Range(n.nodes) \cup {NoNode}
                              /\ Len(n.dev[m].pins) = 3 => n.dev[m].pins[2] \in Range(n.nodes) \cup {NoNode}
  <2> SUFFICES ASSUME NEW m \in DOMAIN n.dev
               PROVE  /\ n.dev[m].pins[1] \in Range(n.nodes) \cup {NoNode}
                      /\ n.dev[m].pins[Len(n.dev[m].pins)] \in Range(n.nodes) \cup {NoNode}
                      /\ Len(n.dev[m].pins) = 3 => n.dev[m].pins[2] \in Range(n.nodes) \cup {NoNode}
    OBVIOUS
  <2>1. PICK p : p = n.dev[m].pins  OBVIOUS
  <2>2. p \in Seq(Range(n.nodes) \cup {NoNode}) /\ Len(p) \in {1, 2, 3}
    BY <1>3, <2>1 DEF PinCount
  <2>3. p[1] \in Range(n.nodes) \cup {NoNode} /\ p[Len(p)] \in Range(n.nodes) \cup {NoNode}
        /\ (Len(p) = 3 => p[2] \in Range(n.nodes) \cup {NoNode})
    BY <2>2, SMT
  <2> QED BY <2>1, <2>3
<1>5. /\ The(GateKinds) = {m \in DOMAIN n.dev : n.dev[m].kind \in GateKinds}
      /\ The({"INPUT"}) = {m \in DOMAIN n.dev : n.dev[m].kind = "INPUT"}
      /\ The({"OUTPUT"}) = {m \in DOMAIN n.dev : n.dev[m].kind = "OUTPUT"}
      /\ The(GateKinds \cup {"INPUT"}) = The(GateKinds) \cup The({"INPUT"})
      /\ The(GateKinds \cup {"OUTPUT"}) = The(GateKinds) \cup The({"OUTPUT"})
  BY <1>1 DEF The
<1>6. /\ The(GateKinds) \cap The({"INPUT"}) = {} /\ The(GateKinds) \cap The({"OUTPUT"}) = {}
      /\ The({"INPUT"}) \cap The({"OUTPUT"}) = {}
  BY <1>5 DEF GateKinds
<1>7. TKind \in [The(GateKinds) -> GateKinds]  BY <1>1, <1>5 DEF TKind
<1>8. TIA \in [The(GateKinds) \cup The({"OUTPUT"}) -> Range(n.nodes) \cup {NoNode}]
  BY <1>1, <1>4, <1>5 DEF TIA, ThePins
<1>9. TIB \in [The(GateKinds) -> Range(n.nodes) \cup {NoNode}]
  BY <1>1, <1>4, <1>5 DEF TIB, ThePins
<1>10. TO \in [The(GateKinds) \cup The({"INPUT"}) -> Range(n.nodes) \cup {NoNode}]
  BY <1>1, <1>4, <1>5 DEF TO, ThePins
<1>11. GateKinds = Loop!GateKinds  BY DEF GateKinds, Loop!GateKinds
<1> QED BY <1>1, <1>3, <1>6, <1>7, <1>8, <1>9, <1>10, <1>11
     DEF Loop!NetlistAssumption, Loop!Drivers, Loop!Node, TKind, TIA, TIB, TO

\* Both instances of DigitalTable are one specification.
LEMMA SameInit == Loop!Init <=> Table!Init
BY DEF Loop!Init, Table!Init, Loop!NodePins, Table!NodePins, Loop!Drivers, Table!Drivers, Loop!TwoInput,
       Table!TwoInput, Loop!Val, Table!Val

\* SetAttribute of the two instances.
LEMMA SameSetAttribute ==
    ASSUME NEW i, NEW v
    PROVE  Loop!SetAttribute(i, v) <=> Table!SetAttribute(i, v)
BY DEF Loop!SetAttribute, Table!SetAttribute, Loop!clk, Table!clk

\* UpdateInput and UpdateOutput of the two instances.
LEMMA SameUpdates ==
    ASSUME NEW d
    PROVE  /\ Loop!UpdateInput(d) <=> Table!UpdateInput(d)
           /\ Loop!UpdateOutput(d) <=> Table!UpdateOutput(d)
BY DEF Loop!UpdateInput, Table!UpdateInput, Loop!UpdateOutput, Table!UpdateOutput, Loop!Drive, Table!Drive

\* TakeNode of the two instances.
LEMMA SameTake ==
    ASSUME NEW n
    PROVE  Loop!TakeNode(n) <=> Table!TakeNode(n)
BY DEF Loop!TakeNode, Table!TakeNode, Loop!NodePins, Table!NodePins, Loop!Drivers, Table!Drivers, Loop!TwoInput,
       Table!TwoInput

\* A gate's result and its connection test in the two instances.
LEMMA SameRes ==
    ASSUME NEW g
    PROVE  (Loop!OutputRes(g) = Table!OutputRes(g)) /\ (Loop!Connected(g) <=> Table!Connected(g))
<1>1. \A x, y : Table!And4(x, y) = Loop!And4(x, y)  BY DEF Loop!And4, Table!And4
<1>2. \A x, y : Table!Or4(x, y) = Loop!Or4(x, y)  BY DEF Loop!Or4, Table!Or4
<1>3. \A x, y : Table!Xor4(x, y) = Loop!Xor4(x, y)  BY DEF Loop!Xor4, Table!Xor4, Loop!Known, Table!Known
<1>4. \A x : Table!Not4(x) = Loop!Not4(x)  BY DEF Loop!Not4, Table!Not4
<1>5. \A k, a, b : Table!GateFn(k, a, b) = Loop!GateFn(k, a, b)
  BY <1>1, <1>2, <1>3, <1>4
     DEF Loop!GateFn, Loop!AND, Loop!OR, Loop!XOR, Loop!NAND, Loop!NOR, Loop!XNOR,
         Loop!IMP, Loop!NIMP, Loop!NOT, Loop!YES,
         Table!GateFn, Table!AND, Table!OR, Table!XOR, Table!NAND, Table!NOR, Table!XNOR,
         Table!IMP, Table!NIMP, Table!NOT, Table!YES
<1>6. Loop!OutputRes(g) = Table!OutputRes(g)
  BY <1>5 DEF Loop!OutputRes, Table!OutputRes, Loop!TwoInput, Table!TwoInput
<1>7. Loop!Connected(g) <=> Table!Connected(g)
  BY DEF Loop!Connected, Table!Connected, Loop!TwoInput, Table!TwoInput
<1> QED BY <1>6, <1>7

\* UpdateGate of the two instances.
LEMMA SameUpdateGate ==
    ASSUME NEW g
    PROVE  Loop!UpdateGate(g) <=> Table!UpdateGate(g)
BY SameRes DEF Loop!UpdateGate, Table!UpdateGate, Loop!Drive, Table!Drive

\* VisitPin of the two instances.
LEMMA SameVisit ==
    ASSUME NEW p
    PROVE  Loop!VisitPin(p) <=> Table!VisitPin(p)
<1>1. PICK d : d = p[1]  OBVIOUS
<1>2. /\ Loop!UpdateInput(p[1]) <=> Table!UpdateInput(p[1])
      /\ Loop!UpdateGate(p[1]) <=> Table!UpdateGate(p[1])
      /\ Loop!UpdateOutput(p[1]) <=> Table!UpdateOutput(p[1])
  BY <1>1, SameUpdates, SameUpdateGate
<1> QED BY <1>2 DEF Loop!VisitPin, Table!VisitPin

\* BeforeModel of the two instances.
LEMMA SameBefore ==
    ASSUME NEW i
    PROVE  Loop!BeforeModel(i) <=> Table!BeforeModel(i)
BY SameUpdates DEF Loop!BeforeModel, Table!BeforeModel

\* The two instances take the same steps.
LEMMA SameNext == Loop!Next <=> Table!Next
<1>1. Loop!DigitalClk <=> Table!DigitalClk  BY DEF Loop!DigitalClk, Table!DigitalClk
<1>2. Loop!EnterTable <=> Table!EnterTable  BY DEF Loop!EnterTable, Table!EnterTable
<1>3. Loop!LeaveTable <=> Table!LeaveTable  BY DEF Loop!LeaveTable, Table!LeaveTable
<1>4. Loop!Prepare <=> Table!Prepare
  BY DEF Loop!Prepare, Table!Prepare, Loop!clk, Table!clk, Loop!NodePins, Table!NodePins, Loop!Drivers,
         Table!Drivers, Loop!TwoInput, Table!TwoInput
<1>5. Loop!Step <=> Table!Step
  BY <1>2, <1>3, SameBefore, SameTake, SameVisit DEF Loop!Step, Table!Step
<1>6. Loop!Val = Table!Val  BY DEF Loop!Val, Table!Val
<1> QED BY <1>1, <1>4, <1>5, <1>6, SameSetAttribute DEF Loop!Next, Table!Next

\* The two instances mean the same by Settled.
LEMMA SameSettled == Loop!Settled <=> Table!Settled
<1>1. \A n : Loop!SingleDriver(n) <=> Table!SingleDriver(n)
  BY DEF Loop!SingleDriver, Table!SingleDriver, Loop!Drivers, Table!Drivers
<1>2. \A g : Loop!Clean(g) <=> Table!Clean(g)
  BY <1>1, SameRes DEF Loop!Clean, Table!Clean, Loop!TwoInput, Table!TwoInput
<1> QED BY <1>1, <1>2, SameRes DEF Loop!Settled, Table!Settled

\* The engine settles: on every netlist of gates, INPUTs and OUTPUTs, in every heap layout and
\* for every iteration budget, whenever digital_clk() is not running and nothing is pending or
\* was dropped, each gate shows its function of its input nodes and each OUTPUT its node.
THEOREM EngineSettles == GateNetlists => (Spec => []Table!Settled)
<1>1. GateNetlists => Loop!NetlistAssumption  BY WiringHolds
<1>2. Loop!BudgetAssumption  BY BudgetAssumption DEF Loop!BudgetAssumption
<1>3. GateNetlists => (Spec => Table!Spec)  BY ImplementsTableCorrect DEF ImplementsTable
<1>4. Table!Spec => Loop!Spec
  <2>1. Table!Init => Loop!Init  BY SameInit
  <2>2. [Table!Next]_(Table!vars) => [Loop!Next]_(Loop!vars)  BY SameNext DEF Table!vars, Loop!vars
  <2> QED BY <2>1, <2>2, PTL DEF Table!Spec, Loop!Spec
<1>5. GateNetlists => (Loop!Spec => []Loop!Settled)
  <2> SUFFICES ASSUME GateNetlists PROVE Loop!Spec => []Loop!Settled  OBVIOUS
  <2>1. Loop!NetlistAssumption  BY <1>1
  <2> QED BY <2>1, <1>2, Loop!SettledCorrect, PTL
<1>6. Loop!Settled => Table!Settled  BY SameSettled
<1> QED BY <1>3, <1>4, <1>5, <1>6, PTL

=============================================================================
