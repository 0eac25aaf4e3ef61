-------------------------- MODULE DigitalClkProofs --------------------------
(***************************************************************************)
(* Proofs about DigitalClk, for every netlist in every heap layout.        *)
(***************************************************************************)
EXTENDS DigitalClk, OrderProofs

\* Zenon, unless a step names another prover.
USE ZenonT(20)

\* Taking the first element off a queue.
LEMMA HeadTail ==
    ASSUME NEW S, NEW q \in Seq(S), q # <<>>
    PROVE  /\ Head(q) \in S /\ Tail(q) \in Seq(S)
           /\ Range(q) = {Head(q)} \cup Range(Tail(q))
           /\ IsInjective(q) => IsInjective(Tail(q)) /\ Head(q) \notin Range(Tail(q))
<1>1. /\ Len(q) \in Nat /\ Len(q) >= 1 /\ DOMAIN q = 1..Len(q)
      /\ Head(q) = q[1] /\ Head(q) \in S
      /\ Tail(q) \in Seq(S) /\ Len(Tail(q)) = Len(q) - 1
      /\ \A i \in 1..Len(q) - 1 : Tail(q)[i] = q[i + 1]
  BY SMT
<1>2. DOMAIN Tail(q) = 1..Len(q) - 1
  BY <1>1, SMT
<1>3. Range(q) \subseteq {Head(q)} \cup Range(Tail(q))
  <2> SUFFICES ASSUME NEW x \in Range(q), x # Head(q) PROVE x \in Range(Tail(q))
    OBVIOUS
  <2>1. PICK i \in 1..Len(q) : x = q[i]  BY <1>1 DEF Range
  <2>2. i - 1 \in 1..Len(q) - 1 /\ (i - 1) + 1 = i  BY <1>1, <2>1, SMT
  <2>3. i - 1 \in DOMAIN Tail(q) /\ Tail(q)[i - 1] = x  BY <2>1, <2>2, <1>1, <1>2
  <2> QED BY <2>3 DEF Range
<1>4. {Head(q)} \cup Range(Tail(q)) \subseteq Range(q)
  <2>1. \A i \in 1..Len(q) - 1 : i + 1 \in 1..Len(q)  BY <1>1, SMT
  <2> QED BY <2>1, <1>1, <1>2, SMT DEF Range
<1>5. ASSUME IsInjective(q) PROVE IsInjective(Tail(q)) /\ Head(q) \notin Range(Tail(q))
  <2>1. \A i \in 1..Len(q) - 1 : i + 1 \in 1..Len(q) /\ i + 1 # 1  BY <1>1, SMT
  <2>2. \A i, j \in 1..Len(q) : q[i] = q[j] => i = j  BY <1>5, <1>1 DEF IsInjective
  <2>3. Head(q) \notin Range(Tail(q))  BY <2>1, <2>2, <1>1, <1>2, SMT DEF Range
  <2>4. \A i, j \in 1..Len(q) - 1 : Tail(q)[i] = Tail(q)[j] => i = j
    <3> SUFFICES ASSUME NEW i \in 1..Len(q) - 1, NEW j \in 1..Len(q) - 1, q[i + 1] = q[j + 1] PROVE i = j
      BY <1>1
    <3>1. i + 1 = j + 1  BY <2>1, <2>2
    <3> QED BY <3>1, SMT
  <2> QED BY <2>3, <2>4, <1>2 DEF IsInjective
<1> QED BY <1>1, <1>3, <1>4, <1>5

-----------------------------------------------------------------------------

\* What the assumptions say of the netlist in use.
LEMMA NetFacts ==
    ASSUME nl \in Netlists
    PROVE  /\ nl.nodes \in Seq(Nodes) /\ NoNode \notin Nodes /\ Hybrid \subseteq Nodes
           /\ nl.models \in Seq(ModelSet) /\ IsInjective(nl.models) /\ ModelSet = Range(nl.models)
           /\ nl.addr \in Seq(ModelSet) /\ IsInjective(nl.addr) /\ ModelSet = Range(nl.addr)
           /\ \A m \in ModelSet :
                /\ Pins[m] \in Seq(Nodes \cup {NoNode}) /\ DOMAIN Pins[m] = 1..Len(Pins[m])
                /\ Kind[m] \in GateKinds \cup {"INPUT", "OUTPUT"} => Len(Pins[m]) = PinCount(Kind[m])
<1>1. /\ nl.nodes \in Seq(Nodes) /\ NoNode \notin Nodes /\ Hybrid \subseteq Nodes
      /\ nl.models \in Seq(ModelSet) /\ IsInjective(nl.models) /\ ModelSet \subseteq Range(nl.models)
      /\ nl.addr \in Seq(ModelSet) /\ IsInjective(nl.addr) /\ ModelSet \subseteq Range(nl.addr)
  BY NetlistAssumption DEF Nodes, Hybrid, ModelSet
<1>2. Range(nl.models) \subseteq ModelSet /\ Range(nl.addr) \subseteq ModelSet
  BY <1>1, SMT DEF Range
<1>3. ASSUME NEW m \in ModelSet
      PROVE  /\ Pins[m] \in Seq(Nodes \cup {NoNode}) /\ DOMAIN Pins[m] = 1..Len(Pins[m])
             /\ Kind[m] \in GateKinds \cup {"INPUT", "OUTPUT"} => Len(Pins[m]) = PinCount(Kind[m])
  <2>1. Pins[m] = nl.dev[m].pins /\ Kind[m] = nl.dev[m].kind  BY DEF Pins, Kind
  <2>2. nl.dev[m].pins \in Seq(Nodes \cup {NoNode})  BY NetlistAssumption DEF Nodes, ModelSet
  <2>3. nl.dev[m].kind \in GateKinds \cup {"INPUT", "OUTPUT"} => Len(nl.dev[m].pins) = PinCount(nl.dev[m].kind)
    BY NetlistAssumption DEF ModelSet
  <2> QED BY <2>1, <2>2, <2>3, SMT
<1> QED BY <1>1, <1>2, <1>3

\* The places of all pins are finitely many pairs of numbers.
LEMMA PlacesFinite ==
    ASSUME nl \in Netlists
    PROVE  /\ PinPlaces \in SUBSET (Nat \X Nat) /\ IsFiniteSet(PinPlaces)
           /\ \A x : x \in PinPlaces <=> \E k \in DOMAIN nl.addr : \E i \in DOMAIN Pins[nl.addr[k]] : x = <<k, i>>
<1> DEFINE w == Len(nl.addr)
           count == [k \in 1..w |-> Len(Pins[nl.addr[k]])]
<1>1. /\ w \in Nat /\ DOMAIN nl.addr = 1..w
      /\ \A k \in 1..w : nl.addr[k] \in ModelSet
  BY NetFacts, SMT
<1>2. \A k \in 1..w : /\ Len(Pins[nl.addr[k]]) \in Nat
                        /\ DOMAIN Pins[nl.addr[k]] = 1..Len(Pins[nl.addr[k]])
  <2> SUFFICES ASSUME NEW k \in 1..w
               PROVE Len(Pins[nl.addr[k]]) \in Nat /\ DOMAIN Pins[nl.addr[k]] = 1..Len(Pins[nl.addr[k]])
    OBVIOUS
  <2>1. Pins[nl.addr[k]] \in Seq(Nodes \cup {NoNode})  BY <1>1, NetFacts
  <2> QED BY <2>1, SMT
<1>3. count \in [1..w -> Nat]  BY <1>2
<1>4. PinPlaces = UNION {{k} \X (1..count[k]) : k \in 1..w}  BY <1>1, <1>2 DEF PinPlaces
<1> HIDE DEF count, w
<1>5. PinPlaces \in SUBSET (Nat \X Nat) /\ IsFiniteSet(PinPlaces)  BY <1>1, <1>3, <1>4, FinitePairs
<1>6. \A x : x \in PinPlaces <=> \E k \in DOMAIN nl.addr : \E i \in DOMAIN Pins[nl.addr[k]] : x = <<k, i>>
  BY SMT DEF PinPlaces
<1> QED BY <1>5, <1>6

\* node_t::pins lists every pin on the node, each once.
LEMMA NodePinsFacts ==
    ASSUME nl \in Netlists, NEW n
    PROVE  /\ NodePins(n) \in Seq(ModelSet \X Nat) /\ IsInjective(NodePins(n))
           /\ \A p : p \in Range(NodePins(n))
                    <=> \E m \in ModelSet : \E i \in DOMAIN Pins[m] : p = <<m, i>> /\ Pins[m][i] = n
<1> DEFINE P == {x \in PinPlaces : Pins[nl.addr[x[1]]][x[2]] = n}
           what == [x \in P |-> <<nl.addr[x[1]], x[2]>>]
           T == ModelSet \X Nat
           c == Cardinality(P)
           o == InOrder(P)
           q == [j \in 1..c |-> what[o[j]]]
<1>1. /\ DOMAIN nl.addr = 1..Len(nl.addr) /\ Len(nl.addr) \in Nat
      /\ \A k \in DOMAIN nl.addr : nl.addr[k] \in ModelSet
      /\ \A m \in ModelSet : \E k \in DOMAIN nl.addr : nl.addr[k] = m
      /\ \A k, l \in DOMAIN nl.addr : nl.addr[k] = nl.addr[l] => k = l
  BY NetFacts, SMT DEF IsInjective, Range
<1>2. P \in SUBSET (Nat \X Nat) /\ IsFiniteSet(P)
  BY PlacesFinite, FS_Subset
<1>3. what \in [P -> T]
  BY <1>1, PlacesFinite, SMT
<1>4. \A x, y \in P : what[x] = what[y] => x = y
  <2> SUFFICES ASSUME NEW x \in P, NEW y \in P, what[x] = what[y] PROVE x = y
    OBVIOUS
  <2>1. x[1] \in DOMAIN nl.addr /\ y[1] \in DOMAIN nl.addr /\ x = <<x[1], x[2]>> /\ y = <<y[1], y[2]>>
    <3>1. x \in PinPlaces /\ y \in PinPlaces  OBVIOUS
    <3> HIDE DEF P, what
    <3>2. PICK k \in DOMAIN nl.addr : \E i : x = <<k, i>>  BY <3>1, PlacesFinite
    <3>3. PICK l \in DOMAIN nl.addr : \E i : y = <<l, i>>  BY <3>1, PlacesFinite
    <3> QED BY <3>2, <3>3, SMT
  <2>2. nl.addr[x[1]] = nl.addr[y[1]] /\ x[2] = y[2]  OBVIOUS
  <2> QED BY <2>1, <2>2, <1>1
<1>5. NodePins(n) = q
  <2>1. Cardinality(P) \in Nat /\ InOrder(P) \in [1..Cardinality(P) -> P]  BY <1>2, InOrderBijective
  <2>2. \A j \in 1..Cardinality(P) :
            what[InOrder(P)[j]] = <<nl.addr[InOrder(P)[j][1]], InOrder(P)[j][2]>>
    BY <2>1
  <2> QED BY <2>2 DEF NodePins, PinsAt
<1>6. ASSUME NEW x \in P
      PROVE  \E m \in ModelSet : \E i \in DOMAIN Pins[m] : what[x] = <<m, i>> /\ Pins[m][i] = n
  <2>1. PICK k \in DOMAIN nl.addr : \E i \in DOMAIN Pins[nl.addr[k]] : x = <<k, i>>  BY PlacesFinite
  <2>2. PICK i \in DOMAIN Pins[nl.addr[k]] : x = <<k, i>>  BY <2>1
  <2>3. x[1] = k /\ x[2] = i  BY <2>2
  <2>4. what[x] = <<nl.addr[k], i>> /\ Pins[nl.addr[k]][i] = n  BY <2>3
  <2>5. nl.addr[k] \in ModelSet  BY <1>1
  <2> HIDE DEF P, what
  <2> QED BY <2>2, <2>4, <2>5
<1>7. ASSUME NEW m \in ModelSet, NEW i \in DOMAIN Pins[m], Pins[m][i] = n
      PROVE  \E x \in P : <<m, i>> = what[x]
  <2>1. PICK k \in DOMAIN nl.addr : nl.addr[k] = m  BY <1>1
  <2>2. <<k, i>> \in PinPlaces  BY <2>1, PlacesFinite
  <2>3. <<k, i>> \in P  BY <2>1, <2>2, <1>7
  <2>4. what[<<k, i>>] = <<m, i>>  BY <2>1, <2>3
  <2> HIDE DEF P, what
  <2> QED BY <2>3, <2>4
<1>8. /\ c \in Nat /\ o \in [1..c -> P]
      /\ \A i, j \in 1..c : o[i] = o[j] => i = j
      /\ \A x \in P : \E i \in 1..c : o[i] = x
  BY <1>2, InOrderBijective
<1> HIDE DEF P, what, T, c, o
<1>9. q \in [1..c -> T] /\ DOMAIN q = 1..c /\ \A j \in 1..c : q[j] = what[o[j]]  BY <1>3, <1>8
<1> HIDE DEF q
<1>10. q \in Seq(T)  BY <1>8, <1>9, SMT
<1>11. IsInjective(q)  BY <1>4, <1>8, <1>9, SMT DEF IsInjective
<1>12. \A v : v \in Range(q) <=> \E j \in 1..c : v = what[o[j]]  BY <1>9, SMT DEF Range
<1>13. \A v : v \in Range(q) <=> \E x \in P : v = what[x]  BY <1>8, <1>12
<1>14. ASSUME NEW p
       PROVE  p \in Range(NodePins(n))
                <=> \E m \in ModelSet : \E i \in DOMAIN Pins[m] : p = <<m, i>> /\ Pins[m][i] = n
  <2>1. p \in Range(NodePins(n)) <=> \E x \in P : p = what[x]  BY <1>5, <1>13
  <2> QED BY <2>1, <1>6, <1>7, SMT
<1>15. NodePins(n) \in Seq(ModelSet \X Nat)  BY <1>5, <1>10 DEF T
<1> QED BY <1>5, <1>11, <1>14, <1>15

\* before_digital_clk() meets every model that asks for it, each once.
LEMMA BeforeModelsFacts ==
    ASSUME nl \in Netlists
    PROVE  /\ BeforeModels \in Seq(ModelSet) /\ IsInjective(BeforeModels)
           /\ \A m : m \in Range(BeforeModels) <=> m \in ModelSet /\ Kind[m] \in BeforeKinds
<1> DEFINE P == {1} \X {k \in DOMAIN nl.models : Kind[nl.models[k]] \in BeforeKinds}
           what == [x \in P |-> nl.models[x[2]]]
           T == ModelSet
           c == Cardinality(P)
           o == InOrder(P)
           q == [j \in 1..c |-> what[o[j]]]
<1>1. /\ DOMAIN nl.models = 1..Len(nl.models) /\ Len(nl.models) \in Nat
      /\ \A k \in DOMAIN nl.models : nl.models[k] \in ModelSet
      /\ \A m \in ModelSet : \E k \in DOMAIN nl.models : nl.models[k] = m
      /\ \A k, l \in DOMAIN nl.models : nl.models[k] = nl.models[l] => k = l
  BY NetFacts, SMT DEF IsInjective, Range
<1>2. P \in SUBSET (Nat \X Nat) /\ IsFiniteSet(P)
  <2>0. IsFiniteSet(1..Len(nl.models))  BY <1>1, FS_Interval, SMT
  <2>1. IsFiniteSet({1}) /\ IsFiniteSet(DOMAIN nl.models)  BY <2>0, <1>1, FS_Singleton
  <2>2. IsFiniteSet({k \in DOMAIN nl.models : Kind[nl.models[k]] \in BeforeKinds})  BY <2>1, FS_Subset
  <2>3. IsFiniteSet(P)  BY <2>1, <2>2, FS_Product
  <2> QED BY <2>3, <1>1, SMT
<1>3. what \in [P -> T]  BY <1>1, SMT
<1>4. \A x, y \in P : what[x] = what[y] => x = y
  <2> SUFFICES ASSUME NEW x \in P, NEW y \in P, what[x] = what[y] PROVE x = y
    OBVIOUS
  <2>1. x = <<1, x[2]>> /\ y = <<1, y[2]>> /\ x[2] \in DOMAIN nl.models /\ y[2] \in DOMAIN nl.models
    BY SMT
  <2>2. nl.models[x[2]] = nl.models[y[2]]  OBVIOUS
  <2> QED BY <2>1, <2>2, <1>1, SMT
<1>5. BeforeModels = q
  <2>1. Cardinality(P) \in Nat /\ InOrder(P) \in [1..Cardinality(P) -> P]  BY <1>2, InOrderBijective
  <2>2. \A j \in 1..Cardinality(P) : what[InOrder(P)[j]] = nl.models[InOrder(P)[j][2]]
    BY <2>1
  <2> QED BY <2>2 DEF BeforeModels
<1>6. ASSUME NEW x \in P PROVE what[x] \in ModelSet /\ Kind[what[x]] \in BeforeKinds
  BY <1>1
<1>7. ASSUME NEW m \in ModelSet, Kind[m] \in BeforeKinds PROVE \E x \in P : m = what[x]
  <2>1. PICK k \in DOMAIN nl.models : nl.models[k] = m  BY <1>1
  <2>2. <<1, k>> \in P  BY <2>1, <1>7
  <2>3. what[<<1, k>>] = m  BY <2>1, <2>2
  <2> HIDE DEF P, what
  <2> QED BY <2>2, <2>3
<1>8. /\ c \in Nat /\ o \in [1..c -> P]
      /\ \A i, j \in 1..c : o[i] = o[j] => i = j
      /\ \A x \in P : \E i \in 1..c : o[i] = x
  BY <1>2, InOrderBijective
<1> HIDE DEF P, what, T, c, o
<1>9. q \in [1..c -> T] /\ DOMAIN q = 1..c /\ \A j \in 1..c : q[j] = what[o[j]]  BY <1>3, <1>8
<1> HIDE DEF q
<1>10. q \in Seq(T)  BY <1>8, <1>9, SMT
<1>11. IsInjective(q)  BY <1>4, <1>8, <1>9, SMT DEF IsInjective
<1>12. \A v : v \in Range(q) <=> \E j \in 1..c : v = what[o[j]]  BY <1>9, SMT DEF Range
<1>13. \A v : v \in Range(q) <=> \E x \in P : v = what[x]  BY <1>8, <1>12
<1>14. BeforeModels \in Seq(ModelSet)  BY <1>5, <1>10 DEF T
<1> QED BY <1>5, <1>6, <1>7, <1>11, <1>13, <1>14

-----------------------------------------------------------------------------

(***************************************************************************)
(* The devices that sample their inputs: gates and OUTPUT.                 *)
(***************************************************************************)

\* What a model sees at its pins, pin by pin.
LEMMA PinViewFacts ==
    ASSUME nl \in Netlists, NEW m \in ModelSet
    PROVE  /\ Len(PinView(m)) = Len(Pins[m]) /\ DOMAIN PinView(m) = DOMAIN Pins[m]
           /\ \A i \in DOMAIN Pins[m] :
                /\ PinView(m)[i].on = (Pins[m][i] # NoNode)
                /\ PinView(m)[i].an = (Pins[m][i] \in Hybrid)
                /\ Pins[m][i] \in Hybrid => PinView(m)[i].v = an[Pins[m][i]]
                /\ Pins[m][i] \in Nodes \ Hybrid => PinView(m)[i].st = dn[Pins[m][i]]
<1> DEFINE k == Len(Pins[m])
           R == {PinView(m)[i] : i \in 1..k}
<1>1. k \in Nat /\ DOMAIN Pins[m] = 1..k
  <2>1. Pins[m] \in Seq(Nodes \cup {NoNode})  BY NetFacts
  <2> QED BY <2>1, SMT
<1> HIDE DEF k
<1>2. DOMAIN PinView(m) = 1..k /\ PinView(m) \in [1..k -> R]  BY <1>1 DEF PinView
<1>3. Len(PinView(m)) = k  BY <1>1, <1>2, SMT
<1>4. \A i \in DOMAIN Pins[m] :
        PinView(m)[i] = [on |-> Pins[m][i] # NoNode, an |-> Pins[m][i] \in Hybrid,
                         st |-> IF Pins[m][i] \in Nodes \ Hybrid THEN dn[Pins[m][i]] ELSE "X",
                         v |-> IF Pins[m][i] \in Hybrid THEN an[Pins[m][i]] ELSE 0]
  BY DEF PinView
<1>5. \A i \in DOMAIN Pins[m] :
        /\ PinView(m)[i].on = (Pins[m][i] # NoNode)
        /\ PinView(m)[i].an = (Pins[m][i] \in Hybrid)
        /\ Pins[m][i] \in Hybrid => PinView(m)[i].v = an[Pins[m][i]]
        /\ Pins[m][i] \in Nodes \ Hybrid => PinView(m)[i].st = dn[Pins[m][i]]
  <2> TAKE i \in DOMAIN Pins[m]
  <2> DEFINE x == PinView(m)[i]
             y == Pins[m][i]
  <2>1. x = [on |-> y # NoNode, an |-> y \in Hybrid, st |-> IF y \in Nodes \ Hybrid THEN dn[y] ELSE "X",
             v |-> IF y \in Hybrid THEN an[y] ELSE 0]
    BY <1>4
  <2> HIDE DEF x, y
  <2>2. /\ x.on = (y # NoNode) /\ x.an = (y \in Hybrid)
        /\ y \in Hybrid => x.v = an[y]
        /\ y \in Nodes \ Hybrid => x.st = dn[y]
    BY <2>1
  <2> QED BY <2>2 DEF x, y
<1>6. Len(PinView(m)) = Len(Pins[m]) /\ DOMAIN PinView(m) = DOMAIN Pins[m]
  BY <1>1, <1>2, <1>3 DEF k
<1> QED BY <1>5, <1>6

\* The virtual call reaches the function of the device's own kind.
LEMMA GateCall ==
    ASSUME NEW k \in GateKinds, NEW par, NEW m, NEW p, NEW method
    PROVE  UpdateDigitalClk(k, par, m, p, method) = Gate(k, par, m, p)
BY DEF GateKinds, UpdateDigitalClk, UpdateAND, UpdateOR, UpdateXOR, UpdateNAND, UpdateNOR,
       UpdateXNOR, UpdateIMP, UpdateNIMP, UpdateNOT, UpdateYES

\* The dispatch of update_digital_clk() for INPUT and OUTPUT.
LEMMA TerminalCall ==
    ASSUME NEW par, NEW m, NEW p, NEW method
    PROVE  /\ UpdateDigitalClk("INPUT", par, m, p, method) = INPUT(m, p)
           /\ UpdateDigitalClk("OUTPUT", par, m, p, method) = OUTPUT(par, m, p)
BY DEF UpdateDigitalClk

SampleShape(s) == DOMAIN s = {"val", "usr", "age"} /\ s.usr \in {"L", "H", "X"}

\* A reading at a rail is right or X.
Right(val, v) == (v >= Hl => val \in {"H", "X"}) /\ (v <= Ll => val \in {"L", "X"})

\* A digital input is taken as it is.
LEMMA SampleDigital ==
    ASSUME NEW s, SampleShape(s), NEW p, ~p.an, NEW Tsu, NEW Th
    PROVE  Sample(s, p, Tsu, Th) = [s EXCEPT !.val = p.st]
BY DEF Sample

SampleGood(s, v) == SampleShape(s) /\ s.val \in {"L", "H", "X"} /\ Right(s.val, v)

\* One sampling of a voltage never takes one rail for the other.
LEMMA SampleAnalog ==
    ASSUME NEW s, SampleShape(s), s.val \in {"L", "H", "X"}, NEW p, p.an = TRUE, p.v \in Int, NEW Tsu, NEW Th
    PROVE  SampleGood(Sample(s, p, Tsu, Th), p.v)
<1> DEFINE t == Sample(s, p, Tsu, Th)
           start(usr) == [val |-> "X", usr |-> usr, age |-> 0]
           to(val) == [s EXCEPT !.val = val]
           back == [s EXCEPT !.age = 0]
           hi == p.v >= Hl
           lo == p.v <= Ll
           v == p.v
<1>1. /\ to("L").val = "L" /\ to("H").val = "H"
      /\ SampleShape(to("L")) /\ SampleShape(to("H"))
  BY DEF SampleShape
<1>2. \A u \in {"L", "H"} : SampleShape(start(u)) /\ start(u).val = "X"
  BY DEF SampleShape
<1>3. back.val = s.val /\ SampleShape(back)
  BY DEF SampleShape
<1>4. hi \in BOOLEAN /\ lo \in BOOLEAN /\ ~(hi /\ lo)  BY SMT DEF Hl, Ll
<1>5. /\ hi => SampleGood(to("H"), v)
      /\ lo => SampleGood(to("L"), v)
      /\ ~lo => SampleGood(to("H"), v)
      /\ ~hi => SampleGood(to("L"), v)
      /\ SampleGood(start("L"), v) /\ SampleGood(start("H"), v)
      /\ s.val = "X" => SampleGood(s, v) /\ SampleGood(back, v)
      /\ s.val = "L" /\ ~hi => SampleGood(s, v)
      /\ s.val = "H" /\ ~lo => SampleGood(s, v)
  <2> HIDE DEF to, start, back
  <2> QED BY <1>1, <1>2, <1>3, <1>4 DEF SampleGood, Right
<1>6. CASE s.val = "L"
  <2>1. t = IF ~hi THEN s ELSE IF Tsu > 0 THEN start("H") ELSE to("H")  BY <1>6 DEF Sample
  <2> HIDE DEF t, start, to, hi, lo, back, v
  <2>2. SampleGood(t, v)  BY <1>4, <1>5, <1>6, <2>1
  <2> QED BY <2>2 DEF t, v
<1>7. CASE s.val = "H"
  <2>1. t = IF ~lo THEN s ELSE IF Th > 0 THEN start("L") ELSE to("L")  BY <1>7 DEF Sample
  <2> HIDE DEF t, start, to, hi, lo, back, v
  <2>2. SampleGood(t, v)  BY <1>4, <1>5, <1>7, <2>1
  <2> QED BY <2>2 DEF t, v
<1>8. CASE s.val = "X" /\ s.usr = "L"
  <2>1. t = IF ~lo THEN to("H") ELSE IF s.age >= Tsu THEN to("L") ELSE s  BY <1>8 DEF Sample
  <2> HIDE DEF t, start, to, hi, lo, back, v
  <2>2. SampleGood(t, v)  BY <1>4, <1>5, <1>8, <2>1
  <2> QED BY <2>2 DEF t, v
<1>9. CASE s.val = "X" /\ s.usr = "H"
  <2>1. t = IF ~hi THEN to("L") ELSE IF s.age >= Th THEN to("H") ELSE s  BY <1>9 DEF Sample
  <2> HIDE DEF t, start, to, hi, lo, back, v
  <2>2. SampleGood(t, v)  BY <1>4, <1>5, <1>9, <2>1
  <2> QED BY <2>2 DEF t, v
<1>10. CASE s.val = "X" /\ s.usr = "X"
  <2>1. t = IF hi THEN (IF s.age >= Th THEN to("H") ELSE s)
            ELSE IF lo THEN (IF s.age >= Tsu THEN to("L") ELSE s)
            ELSE back
    BY <1>10 DEF Sample
  <2> HIDE DEF t, start, to, hi, lo, back, v
  <2>2. SampleGood(t, v)  BY <1>4, <1>5, <1>10, <2>1
  <2> QED BY <2>2 DEF t, v
<1> HIDE DEF t, start, to, hi, lo, back, v
<1> QED BY <1>6, <1>7, <1>8, <1>9, <1>10 DEF SampleShape


Sampling == GateKinds \cup {"OUTPUT"}

InCount(k) == IF k = "OUTPUT" THEN 1 ELSE PinCount(k) - 1

Open(m) == \E i \in DOMAIN Pins[m] : Pins[m][i] = NoNode

\* The fields of gate or OUTPUT m: a reading for each input.  A gate with an open pin never
\* samples; a hybrid input is never read as Z.
MemOK(m, x) ==
    /\ "in" \in DOMAIN x /\ DOMAIN x.in = 1..InCount(Kind[m])
    /\ \A i \in 1..InCount(Kind[m]) :
         /\ SampleShape(x.in[i])
         /\ Pins[m][i] \in Hybrid => x.in[i].val \in {"L", "H", "X"} /\ (Open(m) => x.in[i].val = "X")

MemRight(m, x) ==
    \A i \in 1..InCount(Kind[m]) : Pins[m][i] \in Hybrid => Right(x.in[i].val, an[Pins[m][i]])

\* A gate with an open pin is left as it is, any other samples each of its inputs.
LEMMA OpenGate ==
    ASSUME NEW k, NEW par, NEW x, NEW p, ~AllOn(p)
    PROVE  Gate(k, par, x, p) = NoEffect(x) /\ Gate(k, par, x, p).mem = x
BY DEF Gate, NoEffect

\* With every pin connected a gate samples each input, and adds no field.
LEMMA ConnectedGate ==
    ASSUME NEW k, NEW par, NEW x, NEW p, "in" \in DOMAIN x, AllOn(p)
    PROVE  /\ DOMAIN Gate(k, par, x, p).mem = DOMAIN x
           /\ Gate(k, par, x, p).mem.in = [i \in 1..Len(p) - 1 |-> Sample(x.in[i], p[i], par.Tsu, par.Th)]
<1> DEFINE n == Len(p) - 1
           in == [i \in 1..n |-> Sample(x.in[i], p[i], par.Tsu, par.Th)]
           res == GateFn(k, in[1].val, in[n].val)
           y == [x EXCEPT !.in = in]
           z == [y EXCEPT !.last = res]
<1>1. Gate(k, par, x, p) = EmitCached(y, p, n + 1, res)  BY DEF Gate
<1> HIDE DEF res
<1>2. EmitCached(y, p, n + 1, res).mem = z
  <2> HIDE DEF y, n
  <2> QED BY DEF EmitCached, NoEffect
<1> HIDE DEF in, n
<1>3. DOMAIN z = DOMAIN x /\ z.in = in  OBVIOUS
<1> HIDE DEF z, y
<1> QED BY <1>1, <1>2, <1>3 DEF in, n

\* After its update a gate or OUTPUT has read every voltage right, or as X.
LEMMA SampledMem ==
    ASSUME nl \in Netlists, an \in [Hybrid -> Int], NEW m \in ModelSet, Kind[m] \in Sampling,
           NEW x, MemOK(m, x), NEW method, NEW r,
           r = UpdateDigitalClk(Kind[m], Par[m], x, PinView(m), method)
    PROVE  MemOK(m, r.mem) /\ MemRight(m, r.mem)
<1> DEFINE p == PinView(m)
           c == InCount(Kind[m])
           par == Par[m]
<1>1. /\ Len(p) = Len(Pins[m]) /\ DOMAIN p = DOMAIN Pins[m] /\ DOMAIN Pins[m] = 1..Len(Pins[m])
      /\ Len(Pins[m]) = PinCount(Kind[m])
      /\ \A i \in DOMAIN Pins[m] :
           /\ p[i].on = (Pins[m][i] # NoNode)
           /\ p[i].an = (Pins[m][i] \in Hybrid)
           /\ Pins[m][i] \in Hybrid => p[i].v = an[Pins[m][i]]
  BY PinViewFacts, NetFacts DEF Sampling
<1>2. c \in Nat /\ c >= 1 /\ \A i \in 1..c : i \in DOMAIN Pins[m]
  BY <1>1, SMT DEF InCount, PinCount, Sampling, GateKinds
<1> HIDE DEF p, c, par
<1>3. ASSUME NEW i \in 1..c, NEW t, t = Sample(x.in[i], p[i], par.Tsu, par.Th)
      PROVE  /\ SampleShape(t)
             /\ Pins[m][i] \in Hybrid => t.val \in {"L", "H", "X"} /\ Right(t.val, an[Pins[m][i]])
  <2>1. SampleShape(x.in[i]) /\ (Pins[m][i] \in Hybrid => x.in[i].val \in {"L", "H", "X"})
    BY DEF MemOK, c
  <2>2. CASE Pins[m][i] \in Hybrid
    <3>1. p[i].an = TRUE /\ p[i].v = an[Pins[m][i]] /\ p[i].v \in Int  BY <1>1, <1>2, <2>2
    <3>2. SampleGood(t, p[i].v)  BY <2>1, <2>2, <3>1, <1>3, SampleAnalog
    <3> QED BY <3>1, <3>2 DEF SampleGood
  <2>3. CASE Pins[m][i] \notin Hybrid
    <3>0. p[i].an = (Pins[m][i] \in Hybrid)  BY <1>1, <1>2
    <3>1. ~p[i].an  BY <3>0, <2>3
    <3>2. t = [x.in[i] EXCEPT !.val = p[i].st]  BY <2>1, <3>1, <1>3, SampleDigital, SMT
    <3>3. SampleShape(t)  BY <2>1, <3>2 DEF SampleShape
    <3> QED BY <2>3, <3>3
  <2> QED BY <2>2, <2>3
<1>4. CASE Kind[m] \in GateKinds
  <2>1. r = Gate(Kind[m], par, x, p)  BY <1>4, GateCall DEF p, par
  <2>2. AllOn(p) <=> ~Open(m)  BY <1>1 DEF AllOn, Open
  <2>3. c = Len(p) - 1  BY <1>1, <1>4 DEF c, InCount, GateKinds
  <2>4. "in" \in DOMAIN x  BY DEF MemOK
  <2>5. CASE Open(m)
    <3>1. r.mem = x  BY <2>1, <2>2, <2>5, OpenGate, SMT
    <3>2. MemRight(m, x)  BY <2>5 DEF MemOK, MemRight, Right
    <3> QED BY <3>1, <3>2
  <2>6. CASE ~Open(m)
    <3>1. /\ DOMAIN r.mem = DOMAIN x
          /\ r.mem.in = [i \in 1..c |-> Sample(x.in[i], p[i], par.Tsu, par.Th)]
      BY <2>1, <2>2, <2>3, <2>4, <2>6, ConnectedGate, SMT
    <3>2. \A i \in 1..c : r.mem.in[i] = Sample(x.in[i], p[i], par.Tsu, par.Th)  BY <3>1
    <3>3. "in" \in DOMAIN r.mem /\ DOMAIN r.mem.in = 1..c  BY <2>4, <3>1
    <3> QED BY <3>2, <3>3, <1>3, <2>6 DEF MemOK, MemRight, c
  <2> QED BY <2>5, <2>6
<1>5. CASE Kind[m] = "OUTPUT"
  <2> DEFINE t == Sample(x.in[1], p[1], par.Tsu, par.Th)
  <2>1. r = OUTPUT(par, x, p)  BY <1>5, TerminalCall, SMT DEF p, par
  <2>2. c = 1 /\ "in" \in DOMAIN x /\ DOMAIN x.in = 1..1  BY <1>5 DEF c, InCount, MemOK
  <2>3. r.mem = [x EXCEPT !.in[1] = t]  BY <2>1, SMT DEF OUTPUT, NoEffect
  <2>4. Len(Pins[m]) = 1  BY <1>1, <1>5 DEF PinCount
  <2>5. Pins[m][1] \in Hybrid => ~Open(m)  BY <1>1, <2>4, NetFacts, SMT DEF Open
  <2>6. /\ SampleShape(t)
        /\ Pins[m][1] \in Hybrid => t.val \in {"L", "H", "X"} /\ Right(t.val, an[Pins[m][1]])
    BY <1>3, <2>2, SMT
  <2> HIDE DEF t
  <2>7. "in" \in DOMAIN r.mem /\ DOMAIN r.mem.in = 1..1 /\ r.mem.in[1] = t  BY <2>2, <2>3, SMT
  <2>8. MemOK(m, r.mem)  BY <2>2, <2>5, <2>6, <2>7, SMT DEF MemOK, c
  <2>9. MemRight(m, r.mem)  BY <2>2, <2>6, <2>7, SMT DEF MemRight, c
  <2> QED BY <2>8, <2>9
<1> QED BY <1>4, <1>5 DEF Sampling


-----------------------------------------------------------------------------

(***************************************************************************)
(* No wrong rail.  NoWrongRail speaks of the end of a tick; while the tick *)
(* settles, a voltage that has not been read yet is on a pending node or   *)
(* behind a pin still to be visited.                                       *)
(***************************************************************************)
ReadOrPending ==
    phase = "table" => \A s \in Samples :
        Pins[s[1]][s[2]] \in tables \/ s \in Range(queue) \/ Right(Read(s), Voltage(s))

RailInv ==
    /\ nl \in Netlists /\ an \in [Hybrid -> Int] /\ DOMAIN mem = ModelSet
    /\ phase = "before" => queue \in Seq(ModelSet)
    /\ phase = "table" => queue \in Seq(ModelSet \X Nat)
    /\ \A m \in ModelSet : Kind[m] \in Sampling => MemOK(m, mem[m])
    /\ ReadOrPending

\* The netlist does not change.
LEMMA Static ==
    ASSUME nl' = nl
    PROVE  /\ ModelSet' = ModelSet /\ Kind' = Kind /\ Pins' = Pins /\ Hybrid' = Hybrid /\ Nodes' = Nodes
           /\ Samples' = Samples
           /\ \A m, x : MemOK(m, x)' = MemOK(m, x)
BY SMT DEF ModelSet, Kind, Pins, Hybrid, Nodes, Samples, Of, MemOK, Open

\* A gate's or OUTPUT's input is a pin of it.
LEMMA SamplesType ==
    ASSUME nl \in Netlists, NEW s \in Samples
    PROVE  /\ s[1] \in ModelSet /\ Kind[s[1]] \in Sampling
           /\ s[2] \in 1..InCount(Kind[s[1]]) /\ s = <<s[1], s[2]>> /\ s[2] \in DOMAIN Pins[s[1]]
           /\ Pins[s[1]][s[2]] \in Hybrid
<1>1. /\ s[1] \in ModelSet /\ Kind[s[1]] \in Sampling /\ s = <<s[1], s[2]>>
      /\ s[2] \in DOMAIN Pins[s[1]] /\ s[2] \notin OutputPins(Kind[s[1]]) /\ Pins[s[1]][s[2]] \in Hybrid
      /\ s[2] \in 1..2
  BY SMT DEF Samples, Of, Sampling
<1>2. DOMAIN Pins[s[1]] = 1..PinCount(Kind[s[1]])
  BY <1>1, NetFacts DEF Sampling
<1>3. s[2] \in 1..InCount(Kind[s[1]])
  BY <1>1, <1>2, SMT DEF InCount, PinCount, OutputPins, Sampling, GateKinds
<1> QED BY <1>1, <1>3

\* prepare() leaves every field where RailInv wants it.
LEMMA RailInit == Init => RailInv
<1> SUFFICES ASSUME Init PROVE RailInv  OBVIOUS
<1>1. nl \in Netlists /\ an \in [Hybrid -> Int] /\ phase = "idle"
  BY SamplingAssumption DEF Init
<1>2. DOMAIN mem = ModelSet /\ \A m \in ModelSet :
         mem[m] = InitMem(Kind[m], Par[m], IF Kind[m] \in GateKinds THEN UsrInit ELSE "X")
  BY DEF Init
<1>3. ASSUME NEW m \in ModelSet, Kind[m] \in Sampling PROVE MemOK(m, mem[m])
  <2> DEFINE u == IF Kind[m] \in GateKinds THEN UsrInit ELSE "X"
             s == [val |-> "X", usr |-> u, age |-> 0]
  <2>1. u \in {"L", "H", "X"}  BY SamplingAssumption
  <2> HIDE DEF u
  <2>2. SampleShape(s) /\ s.val = "X"  BY <2>1 DEF SampleShape
  <2>3. mem[m] = InitMem(Kind[m], Par[m], u)  BY <1>2 DEF u
  <2>4. CASE Kind[m] \in {"NOT", "YES"}
    <3>1. mem[m] = [in |-> <<s>>, last |-> "X"]  BY <2>3, <2>4 DEF InitMem, GateKinds, FlipFlops
    <3>2. InCount(Kind[m]) = 1  BY <2>4, SMT DEF InCount, PinCount
    <3> HIDE DEF s
    <3>3. "in" \in DOMAIN mem[m] /\ DOMAIN mem[m].in = 1..1 /\ mem[m].in[1] = s  BY <3>1, SMT
    <3> QED BY <2>2, <3>2, <3>3, SMT DEF MemOK
  <2>5. CASE Kind[m] \in GateKinds \ {"NOT", "YES"}
    <3>1. mem[m] = [in |-> <<s, s>>, last |-> "X"]  BY <2>3, <2>5 DEF InitMem, GateKinds, FlipFlops
    <3>2. InCount(Kind[m]) = 2  BY <2>5, SMT DEF InCount, PinCount, GateKinds
    <3> HIDE DEF s
    <3>3. /\ "in" \in DOMAIN mem[m] /\ DOMAIN mem[m].in = 1..2
          /\ mem[m].in[1] = s /\ mem[m].in[2] = s
      BY <3>1, SMT
    <3> QED BY <2>2, <3>2, <3>3, SMT DEF MemOK
  <2>6. CASE Kind[m] = "OUTPUT"
    <3>1. mem[m] = [in |-> <<s>>]  BY <2>3, <2>6 DEF InitMem, GateKinds, FlipFlops
    <3>2. InCount(Kind[m]) = 1  BY <2>6 DEF InCount, PinCount
    <3> HIDE DEF s
    <3>3. "in" \in DOMAIN mem[m] /\ DOMAIN mem[m].in = 1..1 /\ mem[m].in[1] = s  BY <3>1, SMT
    <3> QED BY <2>2, <3>2, <3>3, SMT DEF MemOK
  <2> QED BY <1>3, <2>4, <2>5, <2>6 DEF Sampling
<1> QED BY <1>1, <1>2, <1>3 DEF RailInv, ReadOrPending

\* One call of update_digital_clk: pending nodes stay pending, no other model is touched,
\* and a gate or OUTPUT has then read all its voltages.
LEMMA UpdateReads ==
    ASSUME RailInv, NEW m \in ModelSet, NEW method, Update(m, method), UNCHANGED <<nl, an>>
    PROVE  /\ tables \subseteq tables' /\ DOMAIN mem' = ModelSet
           /\ \A l \in ModelSet : l # m => mem'[l] = mem[l]
           /\ Kind[m] \in Sampling => MemOK(m, mem'[m]) /\ MemRight(m, mem'[m])
<1> DEFINE r == UpdateDigitalClk(Kind[m], Par[m], mem[m], PinView(m), method)
<1>1. /\ mem' = [mem EXCEPT ![m] = r.mem]
      /\ tables' = tables \cup {Pins[m][i] : i \in r.pend}
  BY DEF Update
<1>2. r = UpdateDigitalClk(Kind[m], Par[m], mem[m], PinView(m), method)  OBVIOUS
<1> HIDE DEF r
<1>3. /\ tables \subseteq tables' /\ DOMAIN mem' = ModelSet /\ mem'[m] = r.mem
      /\ \A l \in ModelSet : l # m => mem'[l] = mem[l]
  BY <1>1 DEF RailInv
<1>4. ASSUME Kind[m] \in Sampling PROVE MemOK(m, r.mem) /\ MemRight(m, r.mem)
  <2>1. nl \in Netlists /\ an \in [Hybrid -> Int] /\ MemOK(m, mem[m])  BY <1>4 DEF RailInv
  <2> QED BY <2>1, <1>2, <1>4, SampledMem
<1> QED BY <1>3, <1>4

\* A step that is not part of the drain loop and leaves the samples in shape.
LEMMA RailKept ==
    ASSUME RailInv, nl' = nl, an' \in [Hybrid -> Int], DOMAIN mem' = ModelSet, phase' # "table",
           phase' = "before" => queue' \in Seq(ModelSet),
           \A m \in ModelSet : Kind[m] \in Sampling => MemOK(m, mem'[m])
    PROVE  RailInv'
<1>1. /\ nl' \in Netlists /\ an' \in [Hybrid' -> Int] /\ DOMAIN mem' = ModelSet'
      /\ phase' = "before" => queue' \in Seq(ModelSet')
  BY Static DEF RailInv
<1>2. (\A m \in ModelSet : Kind[m] \in Sampling => MemOK(m, mem[m]))'
  <2> SUFFICES ASSUME NEW m \in ModelSet, Kind[m] \in Sampling PROVE MemOK(m, mem[m])'
    BY Static
  <2>1. MemOK(m, mem'[m])  OBVIOUS
  <2> QED BY <2>1, Static DEF MemOK, Open
<1> QED BY <1>1, <1>2 DEF RailInv, ReadOrPending


\* Time passing does not touch a reading.
LEMMA OlderOK ==
    ASSUME NEW m, NEW x, MemOK(m, x), NEW dt
    PROVE  MemOK(m, Older(x, dt))
<1> DEFINE c == InCount(Kind[m])
           age(i) == IF x.in[i].age + dt > MaxAge THEN MaxAge ELSE x.in[i].age + dt
           old(i) == [x.in[i] EXCEPT !.age = age(i)]
           in == [i \in DOMAIN x.in |-> old(i)]
<1>1. "in" \in DOMAIN x /\ DOMAIN x.in = 1..c /\ \A i \in 1..c : SampleShape(x.in[i])
  BY DEF MemOK
<1>2. Older(x, dt) = [x EXCEPT !.in = in]  BY DEF Older
<1> HIDE DEF age
<1>3. \A i \in 1..c : SampleShape(old(i)) /\ old(i).val = x.in[i].val
  BY <1>1 DEF SampleShape
<1> HIDE DEF old
<1>4. DOMAIN in = 1..c /\ \A i \in 1..c : in[i] = old(i)  BY <1>1
<1> HIDE DEF in
<1>5. "in" \in DOMAIN Older(x, dt) /\ Older(x, dt).in = in  BY <1>1, <1>2
<1> QED BY <1>3, <1>4, <1>5 DEF MemOK, c

\* A step of the drain loop that leaves the samples in shape.
LEMMA RailInTable ==
    ASSUME RailInv, UNCHANGED <<nl, an>>, DOMAIN mem' = ModelSet, phase' = "table",
           queue' \in Seq(ModelSet \X Nat),
           \A m \in ModelSet : Kind[m] \in Sampling => MemOK(m, mem'[m]),
           \A s \in Samples : \/ Pins[s[1]][s[2]] \in tables' \/ s \in Range(queue')
                              \/ Right(mem'[s[1]].in[s[2]].val, an[Pins[s[1]][s[2]]])
    PROVE  RailInv'
<1>1. nl' \in Netlists /\ an' \in [Hybrid' -> Int] /\ DOMAIN mem' = ModelSet' /\ queue' \in Seq(ModelSet' \X Nat)
  BY Static DEF RailInv
<1>2. (\A m \in ModelSet : Kind[m] \in Sampling => MemOK(m, mem[m]))'
  <2> SUFFICES ASSUME NEW m \in ModelSet, Kind[m] \in Sampling PROVE MemOK(m, mem[m])'
    BY Static
  <2>1. MemOK(m, mem'[m])  OBVIOUS
  <2> QED BY <2>1, Static DEF MemOK, Open
<1>3. ReadOrPending'
  <2> SUFFICES ASSUME NEW s \in Samples
               PROVE  (Pins[s[1]][s[2]] \in tables \/ s \in Range(queue) \/ Right(Read(s), Voltage(s)))'
    BY Static DEF ReadOrPending
  <2> QED BY Static DEF Read, Voltage
<1> QED BY <1>1, <1>2, <1>3 DEF RailInv

\* Every step of digital_clk(), analyze() and the callers keeps RailInv.
LEMMA RailNext == RailInv /\ [Next]_vars => RailInv'
<1> SUFFICES ASSUME RailInv, [Next]_vars PROVE RailInv'  OBVIOUS
<1>0. /\ nl \in Netlists /\ an \in [Hybrid -> Int] /\ DOMAIN mem = ModelSet
      /\ \A m \in ModelSet : Kind[m] \in Sampling => MemOK(m, mem[m])
  BY DEF RailInv
<1>1. ASSUME NEW m \in ModelSet, NEW v \in nl.dev[m].attr, SetAttribute(m, v) PROVE RailInv'
  <2>1. Kind[m] \notin Sampling
    <3>1. nl.dev[m].kind \in {"INPUT", "EIGHT_BIT_INPUT", "COUNTER4", "RANDOM_GENERATOR4"}
      BY <1>0, NetlistAssumption DEF ModelSet
    <3>2. Kind[m] = nl.dev[m].kind  BY DEF Kind
    <3> QED BY <3>1, <3>2 DEF Sampling, GateKinds
  <2>2. DOMAIN mem' = ModelSet /\ \A l \in ModelSet : l # m => mem'[l] = mem[l]
    BY <1>0, <1>1 DEF SetAttribute
  <2>3. nl' = nl /\ an' = an /\ phase' = "idle"  BY <1>1 DEF SetAttribute
  <2> QED BY <1>0, <2>1, <2>2, <2>3, RailKept
<1>2. ASSUME NEW m \in ModelSet, NEW unknown \in BOOLEAN, SetUnknown(m, unknown) PROVE RailInv'
  <2>1. Kind[m] \notin Sampling  BY <1>2 DEF SetUnknown, Sampling, GateKinds
  <2>2. DOMAIN mem' = ModelSet /\ \A l \in ModelSet : l # m => mem'[l] = mem[l]
    BY <1>0, <1>2 DEF SetUnknown
  <2>3. nl' = nl /\ an' = an /\ phase' = "idle"  BY <1>2 DEF SetUnknown
  <2> QED BY <1>0, <2>1, <2>2, <2>3, RailKept
<1>3. CASE DigitalClk
  <2>1. nl' = nl /\ an' = an /\ phase' = "before" /\ mem' = mem /\ queue' = BeforeModels
    BY <1>3 DEF DigitalClk
  <2>2. queue' \in Seq(ModelSet)  BY <1>0, <2>1, BeforeModelsFacts
  <2> QED BY <1>0, <2>1, <2>2, RailKept
<1>4. CASE BeforeModel
  <2>1. /\ nl' = nl /\ an' = an /\ phase' = "before" /\ phase = "before" /\ queue # <<>>
        /\ queue' = Tail(queue) /\ Update(Head(queue), "before")
    BY <1>4 DEF BeforeModel
  <2>2. queue \in Seq(ModelSet)  BY <2>1 DEF RailInv
  <2>3. Head(queue) \in ModelSet /\ queue' \in Seq(ModelSet)  BY <2>1, <2>2, HeadTail
  <2>4. /\ DOMAIN mem' = ModelSet /\ \A l \in ModelSet : l # Head(queue) => mem'[l] = mem[l]
        /\ Kind[Head(queue)] \in Sampling => MemOK(Head(queue), mem'[Head(queue)])
    BY <2>1, <2>3, UpdateReads
  <2>5. \A m \in ModelSet : Kind[m] \in Sampling => MemOK(m, mem'[m])  BY <1>0, <2>4
  <2> QED BY <1>0, <2>1, <2>3, <2>4, <2>5, RailKept
<1>5. CASE EnterTable
  <2>1. /\ UNCHANGED <<nl, an, mem, queue>> /\ phase' = "table" /\ queue = <<>> /\ Hybrid \subseteq tables'
    BY <1>5 DEF EnterTable
  <2>2. queue' \in Seq(ModelSet \X Nat)  BY <2>1, SMT
  <2>3. \A s \in Samples : Pins[s[1]][s[2]] \in tables'  BY <1>0, <2>1, SamplesType
  <2> QED BY <1>0, <2>1, <2>2, <2>3, RailInTable
<1>6. CASE TakeNode
  <2>1. PICK n : tables' = tables \ {n} /\ queue' = NodePins(n)
    BY <1>6 DEF TakeNode
  <2>2. /\ UNCHANGED <<nl, an, mem>> /\ phase' = "table" /\ phase = "table" /\ queue = <<>>
    BY <1>6 DEF TakeNode
  <2>3. queue' \in Seq(ModelSet \X Nat)  BY <1>0, <2>1, NodePinsFacts
  <2>4. ASSUME NEW s \in Samples
        PROVE  \/ Pins[s[1]][s[2]] \in tables' \/ s \in Range(queue')
               \/ Right(mem'[s[1]].in[s[2]].val, an[Pins[s[1]][s[2]]])
    <3>1. Range(queue) = {}  BY <2>2, SMT DEF Range
    <3>2. Pins[s[1]][s[2]] \in tables \/ Right(Read(s), Voltage(s))
      BY <2>2, <3>1 DEF RailInv, ReadOrPending
    <3>3. CASE Pins[s[1]][s[2]] = n
      <4>1. s[1] \in ModelSet /\ s[2] \in DOMAIN Pins[s[1]] /\ s = <<s[1], s[2]>>  BY <1>0, SamplesType
      <4>2. s \in Range(NodePins(n))  BY <1>0, <3>3, <4>1, NodePinsFacts
      <4> QED BY <2>1, <4>2
    <3>4. CASE Pins[s[1]][s[2]] # n
      BY <2>1, <2>2, <3>2, <3>4 DEF Read, Voltage
    <3> QED BY <3>3, <3>4
  <2> QED BY <1>0, <2>2, <2>3, <2>4, RailInTable
<1>7. CASE VisitPin
  <2> DEFINE h == Head(queue)
  <2>1. /\ UNCHANGED <<nl, an>> /\ phase' = "table" /\ phase = "table" /\ queue # <<>>
        /\ queue' = Tail(queue) /\ Update(h[1], "table")
    BY <1>7 DEF VisitPin
  <2>2. queue \in Seq(ModelSet \X Nat)  BY <2>1 DEF RailInv
  <2>3. h \in ModelSet \X Nat /\ queue' \in Seq(ModelSet \X Nat) /\ Range(queue) = {h} \cup Range(queue')
    BY <2>1, <2>2, HeadTail
  <2> HIDE DEF h
  <2>4. h[1] \in ModelSet  BY <2>3
  <2>5. /\ tables \subseteq tables' /\ DOMAIN mem' = ModelSet
        /\ \A l \in ModelSet : l # h[1] => mem'[l] = mem[l]
        /\ Kind[h[1]] \in Sampling => MemOK(h[1], mem'[h[1]]) /\ MemRight(h[1], mem'[h[1]])
    BY <2>1, <2>4, UpdateReads
  <2>6. \A m \in ModelSet : Kind[m] \in Sampling => MemOK(m, mem'[m])  BY <1>0, <2>5
  <2>7. ASSUME NEW s \in Samples
        PROVE  \/ Pins[s[1]][s[2]] \in tables' \/ s \in Range(queue')
               \/ Right(mem'[s[1]].in[s[2]].val, an[Pins[s[1]][s[2]]])
    <3>1. /\ s[1] \in ModelSet /\ Kind[s[1]] \in Sampling /\ s[2] \in 1..InCount(Kind[s[1]])
          /\ Pins[s[1]][s[2]] \in Hybrid
      BY <1>0, SamplesType
    <3>2. CASE s[1] = h[1]
      BY <3>1, <3>2, <2>5 DEF MemRight
    <3>3. CASE s[1] # h[1]
      <4>1. s # h /\ mem'[s[1]] = mem[s[1]]  BY <3>1, <3>3, <2>5
      <4>2. Pins[s[1]][s[2]] \in tables \/ s \in Range(queue) \/ Right(Read(s), Voltage(s))
        BY <2>1 DEF RailInv, ReadOrPending
      <4> QED BY <4>1, <4>2, <2>3, <2>5 DEF Read, Voltage
    <3> QED BY <3>2, <3>3
  <2> QED BY <2>1, <2>3, <2>5, <2>6, <2>7, RailInTable
<1>8. CASE LeaveTable
  <2>1. nl' = nl /\ an' = an /\ phase' = "idle" /\ mem' = mem  BY <1>8 DEF LeaveTable
  <2> QED BY <1>0, <2>1, RailKept
<1>9. ASSUME NEW dt \in Times, Analyze(dt) PROVE RailInv'
  <2>1. /\ nl' = nl /\ phase' = "idle" /\ an' \in [Hybrid -> Voltages \cup {Ll, Hl}]
        /\ mem' = [m \in ModelSet |-> IF Kind[m] \in Sampling THEN Older(mem[m], dt) ELSE mem[m]]
    BY <1>9 DEF Analyze, Sampling
  <2> DEFINE V == Voltages \cup {Ll, Hl}
  <2>5. V \subseteq Int  BY SamplingAssumption, SMT DEF Ll, Hl
  <2>6. an' \in [Hybrid -> V]  BY <2>1
  <2> HIDE DEF V
  <2>2. an' \in [Hybrid -> Int]  BY <2>5, <2>6
  <2>3. DOMAIN mem' = ModelSet /\ \A m \in ModelSet : Kind[m] \in Sampling => mem'[m] = Older(mem[m], dt)
    BY <2>1
  <2>4. \A m \in ModelSet : Kind[m] \in Sampling => MemOK(m, mem'[m])  BY <1>0, <2>3, OlderOK
  <2> QED BY <2>1, <2>2, <2>3, <2>4, RailKept
<1>10. CASE AnalyzeFails
  <2>1. nl' = nl /\ an' = an /\ phase' = "idle" /\ mem' = mem  BY <1>10 DEF AnalyzeFails
  <2> QED BY <1>0, <2>1, RailKept
<1>11. CASE UNCHANGED vars
  <2>1. UNCHANGED <<nl, an, mem, tables, queue, phase>>  BY <1>11 DEF vars
  <2>2. CASE phase = "table"
    <3>1. queue' \in Seq(ModelSet \X Nat)  BY <2>1, <2>2 DEF RailInv
    <3>2. \A s \in Samples : \/ Pins[s[1]][s[2]] \in tables' \/ s \in Range(queue')
                             \/ Right(mem'[s[1]].in[s[2]].val, an[Pins[s[1]][s[2]]])
      BY <2>1, <2>2 DEF RailInv, ReadOrPending, Read, Voltage
    <3> QED BY <1>0, <2>1, <2>2, <3>1, <3>2, RailInTable
  <2>3. CASE phase # "table"
    <3>1. phase = "before" => queue' \in Seq(ModelSet)  BY <2>1 DEF RailInv
    <3> QED BY <1>0, <2>1, <2>3, <3>1, RailKept
  <2> QED BY <2>2, <2>3
<1> QED BY <1>1, <1>2, <1>3, <1>4, <1>5, <1>6, <1>7, <1>8, <1>9, <1>10, <1>11 DEF Next, Step

\* Gates and OUTPUT never take a voltage at one rail for the other when the tick has settled,
\* whatever devices the netlist holds, in every heap layout, for all voltages, setup and hold
\* times (the sampling of and.h, update_table_digital_clk).
THEOREM NoWrongRailCorrect == Spec => []NoWrongRail
<1>1. RailInv => NoWrongRail
  <2> SUFFICES ASSUME RailInv, Done, NEW s \in Samples, Level(Voltage(s)) # "X"
               PROVE  Read(s) \in {Level(Voltage(s)), "X"}
    BY DEF NoWrongRail
  <2>1. phase = "table" /\ queue = <<>> /\ tables = {}  BY DEF Done
  <2>2. Range(queue) = {}  BY <2>1, SMT DEF Range
  <2>3. Right(Read(s), Voltage(s))  BY <2>1, <2>2 DEF RailInv, ReadOrPending
  <2> QED BY <2>3 DEF Right, Level
<1>2. Spec => []RailInv
  BY RailInit, RailNext, PTL DEF Spec
<1> QED BY <1>1, <1>2, PTL

=============================================================================
