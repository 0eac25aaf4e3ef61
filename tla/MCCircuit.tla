----------------------------- MODULE MCCircuit -----------------------------
(* Three nodes; an edit of the netlist gives or takes the analog pins of   *)
(* the second and the third.                                               *)
EXTENDS Circuit

MCNetlists ==
    {[class |-> <<"analog", "hybrid", "digital">>, nonlinear |-> FALSE,
      models |-> <<[branches |-> 1, internals |-> 0]>>],
     [class |-> <<"hybrid", "digital", "analog">>, nonlinear |-> TRUE,
      models |-> <<[branches |-> 0, internals |-> 1], [branches |-> 1, internals |-> 0]>>]}
Setting(step, stop, sweep) == [t_step |-> step, t_stop |-> stop, sweep |-> sweep, omega |-> 0]
MCSettings ==
    {Setting(0, 3, <<"single", 1>>), Setting(2, 3, <<"linear", 3>>), Setting(2, 0, <<"log0", 2>>)}
=============================================================================
