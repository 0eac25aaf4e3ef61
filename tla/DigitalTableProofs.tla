------------------------- MODULE DigitalTableProofs -------------------------
(***************************************************************************)
(* Proofs about DigitalTable, for every netlist of gates and every budget. *)
(***************************************************************************)
EXTENDS DigitalTable, TLAPS

\* A gate maps node states to a node state.
LEMMA GateFnType ==
    ASSUME NEW k \in GateKinds, NEW a \in Val, NEW b \in Val
    PROVE  GateFn(k, a, b) \in Val
BY DEF GateKinds, GateFn, Val, AND, OR, XOR, NAND, NOR, XNOR, IMP, NIMP, NOT, YES,
       And4, Or4, Xor4, Not4, Known

\* A gate all of whose inputs are X shows X: the state prepare() gives a netlist
\* is settled before the first digital_clk().
LEMMA GateFnOfX ==
    ASSUME NEW k \in GateKinds
    PROVE  GateFn(k, "X", "X") = "X"
BY DEF GateKinds, GateFn, AND, OR, XOR, NAND, NOR, XNOR, IMP, NIMP, NOT, YES,
       And4, Or4, Xor4, Not4, Known

\* A connected gate computes a logic value.
LEMMA OutputResType ==
    ASSUME TypeOK, NEW g \in Gates, Connected(g)
    PROVE  OutputRes(g) \in Val
<1>1. Kind[g] \in GateKinds /\ IA[g] \in Nodes /\ (TwoInput(g) => IB[g] \in Nodes)
  BY NetlistAssumption DEF Connected, Node
<1>2. state[IA[g]] \in Val /\ (IF TwoInput(g) THEN state[IB[g]] ELSE "X") \in Val
  BY <1>1 DEF TypeOK, Val
<1> QED BY <1>1, <1>2, GateFnType DEF OutputRes

\* The common tail of the devices writes a legal state to a node of the netlist.
LEMMA DriveType ==
    ASSUME TypeOK, NEW d \in Drivers, NEW r \in Val, O[d] # NoNode, Drive(d, r)
    PROVE  state' \in [Nodes -> Val] /\ last' \in [Drivers -> Val] /\ tables' \subseteq Nodes
BY NetlistAssumption DEF TypeOK, Drive, Node

\* An update of a model writes logic values, and makes only nodes pending.
LEMMA UpdateType ==
    ASSUME TypeOK,
           \/ \E i \in Inputs : UpdateInput(i)
           \/ \E g \in Gates : UpdateGate(g)
           \/ \E o \in Outputs : IA[o] # NoNode /\ UpdateOutput(o)
    PROVE  /\ state' \in [Nodes -> Val] /\ last' \in [Drivers -> Val] /\ tables' \subseteq Nodes
           /\ inputA' \in [Outputs -> Val]
<1>1. ASSUME NEW i \in Inputs, UpdateInput(i)
      PROVE  /\ state' \in [Nodes -> Val] /\ last' \in [Drivers -> Val] /\ tables' \subseteq Nodes
             /\ inputA' \in [Outputs -> Val]
  <2>1. outputA[i] \in Val /\ i \in Drivers BY DEF TypeOK, Drivers
  <2> QED BY <1>1, <2>1, DriveType DEF UpdateInput, TypeOK
<1>2. ASSUME NEW g \in Gates, UpdateGate(g)
      PROVE  /\ state' \in [Nodes -> Val] /\ last' \in [Drivers -> Val] /\ tables' \subseteq Nodes
             /\ inputA' \in [Outputs -> Val]
  <2>1. g \in Drivers /\ (Connected(g) => O[g] # NoNode) BY DEF Drivers, Connected
  <2> QED BY <1>2, <2>1, DriveType, OutputResType DEF UpdateGate, TypeOK
<1>3. ASSUME NEW o \in Outputs, IA[o] # NoNode, UpdateOutput(o)
      PROVE  /\ state' \in [Nodes -> Val] /\ last' \in [Drivers -> Val] /\ tables' \subseteq Nodes
             /\ inputA' \in [Outputs -> Val]
  <2>1. state[IA[o]] \in Val BY <1>3, NetlistAssumption DEF TypeOK, Node
  <2> QED BY <1>3, <2>1 DEF UpdateOutput, TypeOK
<1> QED BY <1>1, <1>2, <1>3

\* Only an OUTPUT's connected pin is ever visited, so its node exists.
TodoOnNodes == \A o \in Outputs : <<o, "ia">> \in todo => IA[o] # NoNode

\* The loop variables of digital_clk() are dead outside their loops.
IdleLoops == (phase # "table" => todo = {}) /\ has_prepare = TRUE

TypeInv == TypeOK /\ TodoOnNodes /\ IdleLoops

\* The pins of a node, by the kind of their model.
LEMMA NodePinsType ==
    ASSUME NEW n \in Nodes
    PROVE  /\ NodePins(n) \subseteq (Drivers \X {"o"}) \cup ((Gates \cup Outputs) \X {"ia"}) \cup (Gates \X {"ib"})
           /\ \A o \in Outputs : <<o, "ia">> \in NodePins(n) => IA[o] # NoNode
BY NetlistAssumption DEF NodePins

\* prepare() establishes the types.
LEMMA TypeInvInit == Init => TypeInv
BY NetlistAssumption, BudgetAssumption
   DEF Init, TypeInv, TypeOK, TodoOnNodes, IdleLoops, Val

\* Every step keeps the types.
LEMMA TypeInvNext == TypeInv /\ [Next]_vars => TypeInv'
<1> SUFFICES ASSUME TypeInv, [Next]_vars PROVE TypeInv' OBVIOUS
<1> USE DEF TypeInv
<1>1. CASE \E i \in Inputs, v \in Val : SetAttribute(i, v)
  BY <1>1 DEF SetAttribute, clk, TypeOK, TodoOnNodes, IdleLoops
<1>2. CASE DigitalClk
  BY <1>2 DEF DigitalClk, TypeOK, TodoOnNodes, IdleLoops
<1>3. ASSUME NEW i \in Inputs, BeforeModel(i) PROVE TypeInv'
  <2>1. UpdateInput(i) BY <1>3 DEF BeforeModel
  <2>2. /\ state' \in [Nodes -> Val] /\ last' \in [Drivers -> Val] /\ tables' \subseteq Nodes
        /\ inputA' \in [Outputs -> Val]
    BY <2>1, UpdateType
  <2> QED BY <1>3, <2>2 DEF BeforeModel, TypeOK, TodoOnNodes, IdleLoops
<1>4. CASE EnterTable
  BY <1>4, BudgetAssumption DEF EnterTable, TypeOK, TodoOnNodes, IdleLoops
<1>5. ASSUME NEW n \in Nodes, TakeNode(n) PROVE TypeInv'
  <2>1. budget' \in 0..Budget BY <1>5, BudgetAssumption DEF TakeNode, TypeOK
  <2> QED BY <1>5, <2>1, NodePinsType DEF TakeNode, TypeOK, TodoOnNodes, IdleLoops
<1>6. ASSUME NEW p \in todo, VisitPin(p) PROVE TypeInv'
  <2>1. p[1] \in Outputs => IA[p[1]] # NoNode
    <3>1. p[1] \in Outputs => p = <<p[1], "ia">>
      BY NetlistAssumption DEF TypeOK, Drivers
    <3> QED BY <3>1 DEF TodoOnNodes
  <2>2. /\ state' \in [Nodes -> Val] /\ last' \in [Drivers -> Val] /\ tables' \subseteq Nodes
        /\ inputA' \in [Outputs -> Val]
    BY <1>6, <2>1, UpdateType DEF VisitPin
  <2> QED BY <1>6, <2>2 DEF VisitPin, TypeOK, TodoOnNodes, IdleLoops
<1>7. CASE LeaveTable
  BY <1>7, BudgetAssumption DEF LeaveTable, TypeOK, TodoOnNodes, IdleLoops
<1>8. CASE Prepare
  BY <1>8 DEF Prepare, clk, TypeOK, TodoOnNodes, IdleLoops
<1>9. CASE UNCHANGED vars
  BY <1>9 DEF vars, TypeOK, TodoOnNodes, IdleLoops
<1> QED BY <1>1, <1>2, <1>3, <1>4, <1>5, <1>6, <1>7, <1>8, <1>9 DEF Next, Step

\* Type correctness of digital_clk() on every netlist.
THEOREM TypeCorrect == Spec => []TypeOK
<1>1. Spec => []TypeInv
  BY TypeInvInit, TypeInvNext, PTL DEF Spec
<1> QED BY <1>1, PTL DEF TypeInv

-----------------------------------------------------------------------------

(***************************************************************************)
(* The inductive invariant.  CacheCoherent is what makes suppressing an    *)
(* event safe, StaleArePending is what the suppression must not break.     *)
(***************************************************************************)
IInv == TypeInv /\ CacheCoherent /\ StaleArePending

\* Writing a node either leaves it as it was or makes it pending, when the device
\* that writes it is its only driver.
LEMMA DriveNotifies ==
    ASSUME TypeOK, CacheCoherent, NEW d \in Drivers, NEW r \in Val, O[d] # NoNode,
           d \in Gates => Connected(d), Drive(d, r)
    PROVE  /\ CacheCoherent'
           /\ \A n \in Nodes : SingleDriver(n) => state'[n] = state[n] \/ n \in tables'
           /\ state'[O[d]] = r
           /\ tables \subseteq tables'
           /\ \A n \in Nodes : n # O[d] => state'[n] = state[n]
<1>1. O[d] \in Nodes BY NetlistAssumption DEF Node
<1>2. /\ state' = [state EXCEPT ![O[d]] = r] /\ last' = [last EXCEPT ![d] = r]
      /\ state \in [Nodes -> Val] /\ last \in [Drivers -> Val]
  BY DEF Drive, TypeOK
<1>3. state'[O[d]] = r /\ \A n \in Nodes : n # O[d] => state'[n] = state[n]
  BY <1>1, <1>2
<1>4. CacheCoherent'
  <2> SUFFICES ASSUME NEW e \in Drivers, O[e] # NoNode, SingleDriver(O[e]), e \in Gates => Connected(e)
               PROVE  last'[e] = state'[O[e]]
    BY DEF CacheCoherent, SingleDriver, Connected, TwoInput
  <2>1. O[e] \in Nodes BY NetlistAssumption DEF Node
  <2>2. CASE e = d BY <2>2, <1>2, <1>3
  <2>3. CASE e # d
    <3>1. O[e] # O[d] BY <2>3 DEF SingleDriver
    <3>2. last'[e] = last[e] /\ state'[O[e]] = state[O[e]] BY <2>1, <2>3, <3>1, <1>2, <1>3
    <3> QED BY <3>2 DEF CacheCoherent
  <2> QED BY <2>2, <2>3
<1>5. ASSUME NEW n \in Nodes, SingleDriver(n) PROVE state'[n] = state[n] \/ n \in tables'
  <2>1. CASE n = O[d]
    <3>1. last[d] = state[n] BY <2>1, <1>5 DEF CacheCoherent
    <3> QED BY <2>1, <3>1, <1>3 DEF Drive
  <2> QED BY <2>1, <1>3
<1>6. tables \subseteq tables' BY DEF Drive
<1> QED BY <1>3, <1>4, <1>5, <1>6

\* The update of a device keeps every other stale device pending, and leaves the
\* device itself up to date, or pending when it reads the node it writes.
LEMMA DriveKeepsStalePending ==
    ASSUME TypeOK, CacheCoherent, StaleArePending, NEW d \in Drivers, NEW r \in Val,
           O[d] # NoNode, d \in Gates => Connected(d) /\ r = OutputRes(d),
           Drive(d, r), inputA' = inputA, lost' = lost,
           \A p \in todo : p \in todo' \/ p[1] = d
    PROVE  StaleArePending'
<1>1. /\ \A n \in Nodes : SingleDriver(n) => state'[n] = state[n] \/ n \in tables'
      /\ state'[O[d]] = r
      /\ tables \subseteq tables'
      /\ \A n \in Nodes : n # O[d] => state'[n] = state[n]
  BY DriveNotifies
<1>2. ASSUME NEW g \in Gates, Clean(g)
      PROVE  \/ state'[O[g]] = OutputRes(g)'
             \/ IA[g] \in tables' \cup lost' \/ <<g, "ia">> \in todo'
             \/ TwoInput(g) /\ (IB[g] \in tables' \cup lost' \/ <<g, "ib">> \in todo')
  <2>1. /\ O[g] \in Nodes /\ IA[g] \in Nodes /\ (TwoInput(g) => IB[g] \in Nodes)
        /\ SingleDriver(O[g]) /\ SingleDriver(IA[g]) /\ (TwoInput(g) => SingleDriver(IB[g]))
    BY <1>2, NetlistAssumption DEF Clean, Connected, Node, Drivers
  <2>2. CASE IA[g] \in tables' \/ (TwoInput(g) /\ IB[g] \in tables')
    BY <2>2
  <2>3. CASE ~(IA[g] \in tables' \/ (TwoInput(g) /\ IB[g] \in tables'))
    <3>1. state'[IA[g]] = state[IA[g]] /\ (TwoInput(g) => state'[IB[g]] = state[IB[g]])
      BY <2>1, <2>3, <1>1
    <3>2. OutputRes(g)' = OutputRes(g)
      BY <3>1 DEF OutputRes, TwoInput
    <3>3. CASE g = d
      BY <3>2, <3>3, <1>1, <1>2 DEF Clean
    <3>4. CASE g # d
      <4>1. O[g] # O[d] BY <3>4, <2>1 DEF SingleDriver, Drivers
      <4>2. state'[O[g]] = state[O[g]] BY <4>1, <2>1, <1>1
      <4>3. /\ <<g, "ia">> \in todo => <<g, "ia">> \in todo'
            /\ <<g, "ib">> \in todo => <<g, "ib">> \in todo'
        BY <3>4
      <4> QED BY <4>2, <4>3, <3>2, <1>1, <1>2 DEF StaleArePending
    <3> QED BY <3>3, <3>4
  <2> QED BY <2>2, <2>3
<1>3. ASSUME NEW o \in Outputs, IA[o] # NoNode, SingleDriver(IA[o])
      PROVE  inputA'[o] = state'[IA[o]] \/ IA[o] \in tables' \cup lost' \/ <<o, "ia">> \in todo'
  <2>1. IA[o] \in Nodes BY <1>3, NetlistAssumption DEF Node
  <2>2. o # d BY NetlistAssumption DEF Drivers
  <2>3. <<o, "ia">> \in todo => <<o, "ia">> \in todo' BY <2>2
  <2> QED BY <2>1, <2>3, <1>1, <1>3 DEF StaleArePending
<1> QED BY <1>2, <1>3 DEF StaleArePending, Clean, Connected, SingleDriver, TwoInput

\* Nothing happens to the nodes, the devices and the events.
LEMMA StutterKeepsStalePending ==
    ASSUME CacheCoherent, StaleArePending, UNCHANGED <<state, last, inputA>>,
           tables \cup lost \subseteq tables' \cup lost',
           \A p \in todo : p \in todo' \/ ((p[1] \in Gates => ~Connected(p[1])) /\ p[1] \notin Outputs)
    PROVE  CacheCoherent' /\ StaleArePending'
<1>1. CacheCoherent' BY DEF CacheCoherent, SingleDriver, Connected, TwoInput
<1>2. ASSUME NEW g \in Gates, Clean(g)
      PROVE  \/ state'[O[g]] = OutputRes(g)'
             \/ IA[g] \in tables' \cup lost' \/ <<g, "ia">> \in todo'
             \/ TwoInput(g) /\ (IB[g] \in tables' \cup lost' \/ <<g, "ib">> \in todo')
  <2>1. OutputRes(g)' = OutputRes(g) BY DEF OutputRes, TwoInput
  <2>2. /\ <<g, "ia">> \in todo => <<g, "ia">> \in todo'
        /\ <<g, "ib">> \in todo => <<g, "ib">> \in todo'
    BY <1>2 DEF Clean
  <2> QED BY <1>2, <2>1, <2>2 DEF StaleArePending
<1>3. ASSUME NEW o \in Outputs, IA[o] # NoNode, SingleDriver(IA[o])
      PROVE  inputA'[o] = state'[IA[o]] \/ IA[o] \in tables' \cup lost' \/ <<o, "ia">> \in todo'
  <2>1. <<o, "ia">> \in todo => <<o, "ia">> \in todo' OBVIOUS
  <2> QED BY <1>3, <2>1 DEF StaleArePending
<1> QED BY <1>1, <1>2, <1>3 DEF StaleArePending, Clean, Connected, SingleDriver, TwoInput

\* update_digital_clk of an INPUT or of a gate, whichever loop calls it.
LEMMA UpdateKeepsInv ==
    ASSUME TypeOK, CacheCoherent, StaleArePending, NEW d \in Drivers, lost' = lost,
           (d \in Inputs /\ UpdateInput(d)) \/ (d \in Gates /\ UpdateGate(d)),
           \A p \in todo : p \in todo' \/ p[1] = d
    PROVE  CacheCoherent' /\ StaleArePending'
<1>1. d \notin Outputs BY NetlistAssumption DEF Drivers
<1>2. CASE UNCHANGED <<last, state, tables, inputA>> /\ (d \in Gates => ~Connected(d))
  BY <1>1, <1>2, StutterKeepsStalePending
<1>3. CASE d \in Inputs /\ O[d] # NoNode /\ Drive(d, outputA[d]) /\ inputA' = inputA
  <2>1. outputA[d] \in Val BY <1>3 DEF TypeOK
  <2>2. d \notin Gates BY <1>3, NetlistAssumption
  <2> QED BY <1>3, <2>1, <2>2, DriveNotifies, DriveKeepsStalePending
<1>4. CASE d \in Gates /\ Connected(d) /\ Drive(d, OutputRes(d)) /\ inputA' = inputA
  <2>1. OutputRes(d) \in Val /\ O[d] # NoNode BY <1>4, OutputResType DEF Connected
  <2> QED BY <1>4, <2>1, DriveNotifies, DriveKeepsStalePending
<1> QED BY <1>2, <1>3, <1>4, NetlistAssumption DEF UpdateInput, UpdateGate

\* prepare() establishes the inductive invariant.
LEMMA IInvInit == Init => IInv
<1> SUFFICES ASSUME Init PROVE CacheCoherent /\ StaleArePending
  BY TypeInvInit DEF IInv
<1>1. ASSUME NEW d \in Drivers, O[d] # NoNode PROVE state[O[d]] = "X"
  <2>1. <<d, "o">> \in NodePins(O[d]) /\ O[d] \in Nodes
    BY <1>1, NetlistAssumption DEF NodePins, Node
  <2> QED BY <2>1 DEF Init
<1>2. ASSUME NEW d \in Gates \cup Outputs, IA[d] # NoNode PROVE state[IA[d]] = "X"
  <2>1. <<d, "ia">> \in NodePins(IA[d]) /\ IA[d] \in Nodes
    BY <1>2, NetlistAssumption DEF NodePins, Node
  <2> QED BY <2>1 DEF Init
<1>3. ASSUME NEW g \in Gates, TwoInput(g), IB[g] # NoNode PROVE state[IB[g]] = "X"
  <2>1. <<g, "ib">> \in NodePins(IB[g]) /\ IB[g] \in Nodes
    BY <1>3, NetlistAssumption DEF NodePins, Node
  <2> QED BY <2>1 DEF Init
<1>4. CacheCoherent BY <1>1 DEF Init, CacheCoherent
<1>5. ASSUME NEW g \in Gates, Clean(g) PROVE state[O[g]] = OutputRes(g)
  <2>1. OutputRes(g) = GateFn(Kind[g], "X", "X")
    BY <1>2, <1>3, <1>5 DEF OutputRes, Clean, Connected
  <2>2. Kind[g] \in GateKinds /\ state[O[g]] = "X"
    BY <1>1, <1>5, NetlistAssumption DEF Clean, Connected, Drivers
  <2> QED BY <2>1, <2>2, GateFnOfX
<1>6. \A o \in Outputs : IA[o] # NoNode => inputA[o] = state[IA[o]] BY <1>2 DEF Init
<1> QED BY <1>4, <1>5, <1>6 DEF StaleArePending

\* Every step keeps the inductive invariant.
LEMMA IInvNext == IInv /\ [Next]_vars => IInv'
<1> SUFFICES ASSUME IInv, [Next]_vars PROVE CacheCoherent' /\ StaleArePending'
  BY TypeInvNext DEF IInv
<1> USE DEF IInv, TypeInv
<1>1. CASE \E i \in Inputs, v \in Val : SetAttribute(i, v)
  BY <1>1, StutterKeepsStalePending DEF SetAttribute, clk
<1>2. CASE DigitalClk
  BY <1>2, StutterKeepsStalePending DEF DigitalClk
<1>3. ASSUME NEW i \in Inputs, BeforeModel(i) PROVE CacheCoherent' /\ StaleArePending'
  BY <1>3, UpdateKeepsInv DEF BeforeModel, Drivers
<1>4. CASE EnterTable
  BY <1>4, StutterKeepsStalePending DEF EnterTable
<1>5. ASSUME NEW n \in Nodes, TakeNode(n) PROVE CacheCoherent' /\ StaleArePending'
  <2>1. CacheCoherent' BY <1>5 DEF TakeNode, CacheCoherent, SingleDriver, Connected, TwoInput
  <2>2. ASSUME NEW g \in Gates, Clean(g)
        PROVE  \/ state'[O[g]] = OutputRes(g)'
               \/ IA[g] \in tables' \cup lost' \/ <<g, "ia">> \in todo'
               \/ TwoInput(g) /\ (IB[g] \in tables' \cup lost' \/ <<g, "ib">> \in todo')
    <3>1. OutputRes(g)' = OutputRes(g) /\ state' = state
      BY <1>5 DEF TakeNode, OutputRes, TwoInput
    <3>2. /\ IA[g] = n => <<g, "ia">> \in todo'
          /\ TwoInput(g) /\ IB[g] = n => <<g, "ib">> \in todo'
      BY <1>5 DEF TakeNode, NodePins
    <3>3. tables \cup lost \subseteq tables' \cup lost' \cup {n} /\ todo = {}
      BY <1>5 DEF TakeNode
    <3> QED BY <2>2, <3>1, <3>2, <3>3 DEF StaleArePending
  <2>3. ASSUME NEW o \in Outputs, IA[o] # NoNode, SingleDriver(IA[o])
        PROVE  inputA'[o] = state'[IA[o]] \/ IA[o] \in tables' \cup lost' \/ <<o, "ia">> \in todo'
    <3>1. IA[o] = n => <<o, "ia">> \in todo' BY <1>5 DEF TakeNode, NodePins
    <3>2. tables \cup lost \subseteq tables' \cup lost' \cup {n} /\ todo = {}
      BY <1>5 DEF TakeNode
    <3>3. inputA' = inputA /\ state' = state BY <1>5 DEF TakeNode
    <3> QED BY <2>3, <3>1, <3>2, <3>3 DEF StaleArePending
  <2> QED BY <2>1, <2>2, <2>3 DEF StaleArePending, Clean, Connected, SingleDriver, TwoInput
<1>6. ASSUME NEW p \in todo, VisitPin(p) PROVE CacheCoherent' /\ StaleArePending'
  <2>1. lost' = lost /\ \A q \in todo : q \in todo' \/ q = p BY <1>6 DEF VisitPin
  <2>2. CASE p[1] \in Drivers /\ p[1] \notin Outputs
    BY <1>6, <2>1, <2>2, UpdateKeepsInv DEF VisitPin
  <2>3. CASE p[1] \in Outputs /\ UpdateOutput(p[1])
    <3>1. /\ CacheCoherent'
      BY <2>3 DEF UpdateOutput, CacheCoherent, SingleDriver, Connected, TwoInput
    <3>2. ASSUME NEW g \in Gates, Clean(g)
          PROVE  \/ state'[O[g]] = OutputRes(g)'
                 \/ IA[g] \in tables' \cup lost' \/ <<g, "ia">> \in todo'
                 \/ TwoInput(g) /\ (IB[g] \in tables' \cup lost' \/ <<g, "ib">> \in todo')
      <4>1. OutputRes(g)' = OutputRes(g) BY <2>3 DEF UpdateOutput, OutputRes, TwoInput
      <4>2. <<g, "ia">> # p /\ <<g, "ib">> # p BY <2>3, NetlistAssumption
      <4> QED BY <2>1, <2>3, <3>2, <4>1, <4>2 DEF UpdateOutput, StaleArePending
    <3>3. ASSUME NEW o \in Outputs, IA[o] # NoNode, SingleDriver(IA[o])
          PROVE  inputA'[o] = state'[IA[o]] \/ IA[o] \in tables' \cup lost' \/ <<o, "ia">> \in todo'
      <4>1. CASE o = p[1]
        BY <2>3, <4>1 DEF UpdateOutput, TypeOK
      <4>2. CASE o # p[1]
        <5>1. inputA'[o] = inputA[o] BY <2>3, <4>2 DEF UpdateOutput, TypeOK
        <5>2. <<o, "ia">> # p BY <4>2
        <5> QED BY <2>1, <2>3, <3>3, <5>1, <5>2 DEF UpdateOutput, StaleArePending
      <4> QED BY <4>1, <4>2
    <3> QED BY <3>1, <3>2, <3>3 DEF StaleArePending, Clean, Connected, SingleDriver, TwoInput
  <2> QED BY <1>6, <2>2, <2>3, NetlistAssumption DEF VisitPin, Drivers
<1>7. CASE LeaveTable
  BY <1>7, StutterKeepsStalePending DEF LeaveTable
<1>8. CASE Prepare
  BY <1>8, StutterKeepsStalePending DEF Prepare, clk, IdleLoops
<1>9. CASE UNCHANGED vars
  BY <1>9, StutterKeepsStalePending DEF vars
<1> QED BY <1>1, <1>2, <1>3, <1>4, <1>5, <1>6, <1>7, <1>8, <1>9 DEF Next, Step

\* The event-suppressing caches of the gates and INPUTs are right, and a device that
\* does not reflect its inputs is always pending, on every netlist and visiting order.
THEOREM EventsNotLost == Spec => [](CacheCoherent /\ StaleArePending)
<1>1. Spec => []IInv
  BY IInvInit, IInvNext, PTL DEF Spec
<1> QED BY <1>1, PTL DEF IInv

\* When digital_clk() has returned with nothing pending, every gate shows the function
\* of its inputs: the result does not depend on the order of nodes and pins.
THEOREM SettledCorrect == Spec => []Settled
<1>1. Spec => []IInv
  BY IInvInit, IInvNext, PTL DEF Spec
<1>2. IInv => Settled
  BY DEF IInv, TypeInv, IdleLoops, StaleArePending, Settled
<1> QED BY <1>1, <1>2, PTL
=============================================================================
