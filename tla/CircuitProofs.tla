--------------------------- MODULE CircuitProofs ---------------------------
(***************************************************************************)
(* Proofs about Circuit: what analyze() leaves behind, for every netlist,  *)
(* every setting and every bound on Newton's iteration, whichever of its   *)
(* attempts to solve the equations fail; and the rows prepare() hands out, *)
(* whatever was numbered before and whatever was edited in between.        *)
(***************************************************************************)
EXTENDS Circuit, OrderProofs

Stages == {"idle", "op", "acop", "single", "sweep", "tr"}

\* The members and locals of analyze().
CType ==
    [at : Kinds, setting : SettingType, tr_duration : Nat, last_step : Int,
     ac_sweep_results : Seq(Nat), pc : Stages, ret : {"none", "true", "false"},
     saved_at : Kinds, prev_time : Nat, end_time : Nat, idx : Nat, iter : Nat, start : Nat,
     saved_op : BOOLEAN]

\* Where a transient analysis stands: at a whole number of steps from its start, with the
\* step being solved still to begin before the end.
InTransient(s) ==
    /\ s.setting.t_step > 0
    /\ s.start <= s.prev_time /\ s.prev_time < s.end_time
    /\ s.end_time = s.start + s.setting.t_stop
    /\ s.tr_duration = s.prev_time + s.setting.t_step
    /\ (s.prev_time - s.start) % s.setting.t_step = 0

\* The points recorded so far.
Points(s) == \A i \in 1..Len(s.ac_sweep_results) : s.ac_sweep_results[i] = i

InSweep(s) ==
    /\ Recording(s)
    /\ Points(s)
    /\ s.idx = Len(s.ac_sweep_results) + 1 /\ s.idx <= s.setting.sweep[2]
    /\ s.setting.omega = s.idx

\* State s of analyze(), called for an analysis of kind k on netlist net.
Good(s, net, k) ==
    /\ s \in CType
    /\ s.pc = "idle" => s.at = k
    /\ s.pc # "idle" => s.saved_at = k
    /\ s.pc = "op" => s.at = k /\ k \in {"OP", "DC", "TROP"}
    /\ s.pc = "acop" => s.at = "OP" /\ k \in {"AC", "ACOP"} /\ s.ac_sweep_results = <<>>
    /\ s.pc \in {"single", "sweep"} =>
          s.at = "AC" /\ k \in {"AC", "ACOP"} /\ (net.nonlinear => s.saved_op)
    /\ s.pc = "single" => ~Recording(s) /\ s.ac_sweep_results = <<>>
    /\ s.pc = "sweep" => InSweep(s)
    /\ s.pc \notin {"idle", "tr"} => s.tr_duration = s.start
    /\ s.pc # "idle" /\ k \in {"TR", "TROP"} => s.setting.t_step > 0
    /\ s.pc = "tr" => k \in {"TR", "TROP"} /\ InTransient(s)

IInv ==
    /\ nl \in Netlists
    /\ asked \in Kinds
    /\ Good(c, nl, asked)

-----------------------------------------------------------------------------

\* One more whole step of length d, from a time that is whole steps after `start'.
LEMMA StepsAdd ==
    ASSUME NEW x \in Nat, NEW d \in Nat \ {0}, x % d = 0
    PROVE  (x + d) % d = 0
<1>1. x = d * (x \div d) + (x % d) /\ x \div d \in Nat
  BY SMT
<1>2. PICK q \in Nat : x + d = d * q + 0
  <2>1. x + d = d * ((x \div d) + 1) + 0 /\ (x \div d) + 1 \in Nat BY <1>1
  <2> QED BY <2>1
<1>3. ASSUME NEW y \in Int, NEW n \in Int, y = d * n + 0 PROVE y % d = 0
  BY <1>3
<1> QED BY <1>2, <1>3

\* A return with `at' put back, whatever the locals were.
LEMMA ReturnGood ==
    ASSUME NEW s \in CType, NEW ok \in {"true", "false"}, NEW net, NEW k \in Kinds, s.at = k
    PROVE  Good(Return(s, ok), net, k)
BY DEF Good, Return, CType, Kinds, Stages

\* run_ac_analysis(), entered with no results and the operating point it needs.
LEMMA RunAcGood ==
    ASSUME NEW s \in CType, NEW net, NEW k \in {"AC", "ACOP"}, net.nonlinear => s.saved_op,
           s.at = "AC", s.saved_at = k, s.ac_sweep_results = <<>>, s.tr_duration = s.start
    PROVE  Good(RunAc(s), net, k)
<1>1. CASE ~Recording(s)
  <2> DEFINE t == Solve(s, "single")
  <2>1. t \in CType BY DEF Solve, CType, Stages
  <2>2. /\ t.pc = "single" /\ t.at = "AC" /\ t.saved_at = k /\ t.saved_op = s.saved_op
        /\ t.ac_sweep_results = <<>> /\ t.tr_duration = t.start /\ t.setting = s.setting
    BY DEF Solve, CType
  <2>3. ~Recording(t) BY <1>1, <2>2 DEF Recording
  <2> QED BY <1>1, <2>1, <2>2, <2>3 DEF RunAc, Good
<1>2. CASE Recording(s) /\ s.setting.sweep[1] = "log0"
  <2> DEFINE t == [s EXCEPT !.ac_sweep_results = <<>>, !.at = s.saved_at]
  <2>1. t \in CType /\ t.at = k BY DEF CType
  <2> QED BY <1>2, <2>1, ReturnGood DEF RunAc, Kinds
<1>3. CASE Recording(s) /\ s.setting.sweep[1] # "log0"
  <2> DEFINE t == Solve([s EXCEPT !.ac_sweep_results = <<>>, !.idx = 1, !.setting.omega = 1], "sweep")
  <2>1. t \in CType BY DEF Solve, CType, Stages, SettingType
  <2>2. /\ t.pc = "sweep" /\ t.at = "AC" /\ t.saved_at = k /\ t.saved_op = s.saved_op
        /\ t.ac_sweep_results = <<>> /\ t.tr_duration = t.start /\ t.idx = 1
        /\ t.setting.omega = 1 /\ t.setting.sweep = s.setting.sweep
    BY DEF Solve, CType, SettingType
  <2>3. InSweep(t) BY <1>3, <2>2 DEF InSweep, Points, Recording, CType, SettingType
  <2> QED BY <1>3, <2>1, <2>2, <2>3 DEF RunAc, Good
<1> QED BY <1>1, <1>2, <1>3

\* After a successful solve() of the sweep: one more point.
LEMMA SweptGood ==
    ASSUME NEW s, NEW net, NEW k \in Kinds, Good(s, net, k), s.pc = "sweep"
    PROVE  Good(Swept(s), net, k)
<1> DEFINE t == [s EXCEPT !.ac_sweep_results = Append(@, s.setting.omega)]
<1>1. s \in CType /\ InSweep(s) /\ s.saved_at = k BY DEF Good
<1>2. t \in CType
  <2>1. Append(s.ac_sweep_results, s.setting.omega) \in Seq(Nat) BY <1>1 DEF CType, SettingType
  <2> QED BY <1>1, <2>1 DEF CType
<1>3. /\ t.ac_sweep_results = Append(s.ac_sweep_results, s.idx)
      /\ t.pc = s.pc /\ t.at = s.at /\ t.saved_at = k /\ t.saved_op = s.saved_op
      /\ t.tr_duration = s.tr_duration /\ t.start = s.start /\ t.setting = s.setting /\ t.idx = s.idx
  BY <1>1 DEF CType, InSweep
<1>4. Points(t) /\ Len(t.ac_sweep_results) = s.idx
  BY <1>1, <1>3 DEF InSweep, Points, CType
<1>5. CASE s.idx < s.setting.sweep[2]
  <2> DEFINE u == Solve([t EXCEPT !.idx = @ + 1, !.setting.omega = s.idx + 1], "sweep")
  <2>1. u \in CType
    <3> DEFINE new == [t.setting EXCEPT !.omega = s.idx + 1]
    <3>1. s.idx + 1 \in Nat BY <1>1 DEF CType
    <3>2. t.setting \in SettingType BY <1>2 DEF CType
    <3>3. new \in SettingType BY <3>1, <3>2 DEF SettingType
    <3>4. u = [t EXCEPT !.idx = s.idx + 1, !.setting = new, !.pc = "sweep", !.iter = 0]
      BY <1>2, <1>3 DEF Solve, CType
    <3> HIDE DEF new, u, t
    <3> QED BY <1>2, <3>1, <3>3, <3>4 DEF CType, Stages
  <2>2. /\ u.pc = "sweep" /\ u.at = s.at /\ u.saved_at = k /\ u.saved_op = s.saved_op
        /\ u.ac_sweep_results = t.ac_sweep_results /\ u.tr_duration = s.tr_duration /\ u.start = s.start
        /\ u.idx = s.idx + 1 /\ u.setting.omega = s.idx + 1
        /\ u.setting.sweep = s.setting.sweep /\ u.setting.t_step = s.setting.t_step
    BY <1>1, <1>2, <1>3 DEF Solve, CType, SettingType
  <2>3. InSweep(u)
    <3>1. Recording(u) BY <1>1, <2>2 DEF InSweep, Recording
    <3>2. Points(u) /\ u.idx = Len(u.ac_sweep_results) + 1 BY <1>4, <2>2 DEF Points
    <3>3. s.idx \in Nat /\ s.setting.sweep[2] \in Nat BY <1>1 DEF CType, SettingType
    <3> HIDE DEF u, t
    <3> QED BY <1>5, <2>2, <3>1, <3>2, <3>3 DEF InSweep
  <2>4. Swept(s) = u BY <1>5 DEF Swept
  <2> HIDE DEF u
  <2> QED BY <2>1, <2>2, <2>3, <2>4 DEF Good
<1>6. CASE ~(s.idx < s.setting.sweep[2])
  <2> DEFINE u == [t EXCEPT !.at = s.saved_at]
  <2>1. u \in CType /\ u.at = k BY <1>1, <1>2 DEF CType
  <2>2. Swept(s) = Return(u, "true") BY <1>6 DEF Swept
  <2> HIDE DEF u
  <2> QED BY <2>1, <2>2, ReturnGood
<1> QED BY <1>5, <1>6

\* The test of the transient loop, at the end of a step or before the first one.
LEMMA TransientGood ==
    ASSUME NEW s \in CType, NEW net, NEW k \in {"TR", "TROP"}, s.saved_at = k,
           s.setting.t_step > 0, s.start <= s.tr_duration,
           s.end_time = s.start + s.setting.t_stop,
           (s.tr_duration - s.start) % s.setting.t_step = 0
    PROVE  Good(Transient(s), net, k)
<1>1. CASE s.tr_duration < s.end_time
  <2> DEFINE u == Solve([s EXCEPT !.last_step = s.setting.t_step, !.prev_time = s.tr_duration,
                                  !.tr_duration = @ + s.setting.t_step], "tr")
  <2>1. u \in CType
    <3>1. s.setting.t_step \in Int /\ s.tr_duration + s.setting.t_step \in Nat BY DEF CType, SettingType
    <3> QED BY <3>1 DEF Solve, CType, Stages
  <2>2. /\ u.pc = "tr" /\ u.saved_at = k /\ u.setting = s.setting /\ u.start = s.start
        /\ u.end_time = s.end_time /\ u.prev_time = s.tr_duration
        /\ u.tr_duration = s.tr_duration + s.setting.t_step
    BY DEF Solve, CType
  <2>3. InTransient(u) BY <1>1, <2>2 DEF InTransient
  <2>4. Transient(s) = u BY <1>1 DEF Transient
  <2> HIDE DEF u
  <2> QED BY <2>1, <2>2, <2>3, <2>4 DEF Good
<1>2. CASE ~(s.tr_duration < s.end_time)
  <2> DEFINE u == [s EXCEPT !.at = s.saved_at]
  <2>1. u \in CType /\ u.at = k BY DEF CType
  <2>2. Transient(s) = Return(u, "true") BY <1>2 DEF Transient
  <2> HIDE DEF u
  <2> QED BY <2>1, <2>2, ReturnGood DEF Kinds
<1> QED BY <1>1, <1>2

\* The entry of a transient analysis, after its operating point if it needs one.
LEMMA StartTransientGood ==
    ASSUME NEW s \in CType, NEW net, NEW k \in {"TR", "TROP"}, s.saved_at = k,
           s.setting.t_step > 0, s.start = s.tr_duration
    PROVE  Good(StartTransient(s), net, k)
<1> DEFINE t == [s EXCEPT !.end_time = s.tr_duration + s.setting.t_stop]
<1>1. t \in CType
  <2>1. s.tr_duration + s.setting.t_stop \in Nat BY DEF CType, SettingType
  <2> QED BY <2>1 DEF CType
<1>2. /\ t.saved_at = k /\ t.setting = s.setting /\ t.start = s.start
      /\ t.tr_duration = s.tr_duration /\ t.end_time = s.start + s.setting.t_stop
  BY DEF CType
<1>3. (t.tr_duration - t.start) % t.setting.t_step = 0
  <2>1. t.tr_duration - t.start = 0 BY <1>2 DEF CType
  <2>2. \A d \in Nat \ {0} : 0 % d = 0 OBVIOUS
  <2> QED BY <1>2, <2>1, <2>2 DEF CType, SettingType
<1>4. StartTransient(s) = Transient(t) BY DEF StartTransient
<1>5. t.start <= t.tr_duration BY <1>2 DEF CType
<1> HIDE DEF t
<1> QED BY <1>1, <1>2, <1>3, <1>4, <1>5, TransientGood

-----------------------------------------------------------------------------

\* analyze() up to its first solve(), for the analysis the caller chose.
LEMMA BeginGood ==
    ASSUME NEW s \in CType, nl \in Netlists, NEW k \in Kinds, s.at = k,
           k \in {"TR", "TROP"} => s.setting.t_step > 0
    PROVE  Good(Begin(s), nl, k)
<1> DEFINE t == [s EXCEPT !.saved_at = s.at, !.start = s.tr_duration, !.saved_op = FALSE]
           clear == [t EXCEPT !.ac_sweep_results = <<>>]
<1>1. /\ t \in CType /\ t.at = k /\ t.saved_at = k /\ t.start = t.tr_duration
      /\ t.setting = s.setting
  BY DEF CType
<1>2. /\ clear \in CType /\ clear.at = k /\ clear.saved_at = k /\ clear.start = clear.tr_duration
      /\ clear.ac_sweep_results = <<>> /\ clear.setting = s.setting
  <2> HIDE DEF t
  <2>1. clear \in CType
    <3>1. <<>> \in Seq(Nat) OBVIOUS
    <3> QED BY <1>1, <3>1 DEF CType
  <2>2. clear.ac_sweep_results = <<>> /\ clear.at = t.at /\ clear.saved_at = t.saved_at
    BY <1>1 DEF CType
  <2>3. clear.start = t.start /\ clear.tr_duration = t.tr_duration /\ clear.setting = t.setting
    BY <1>1 DEF CType
  <2> QED BY <1>1, <2>1, <2>2, <2>3
<1>3. Begin(s) = CASE t.at \in {"OP", "DC"} -> Solve(t, "op")
                   [] t.at = "AC" -> IF nl.nonlinear THEN Solve([clear EXCEPT !.at = "OP"], "acop")
                                                     ELSE RunAc(clear)
                   [] t.at = "ACOP" -> Solve([clear EXCEPT !.at = "OP"], "acop")
                   [] t.at = "TR" -> StartTransient(t)
                   [] t.at = "TROP" -> Solve(t, "op")
  BY DEF Begin
<1> HIDE DEF t, clear
<1>4. CASE k \in {"OP", "DC", "TROP"}
  <2> DEFINE u == Solve(t, "op")
  <2>1. Begin(s) = u BY <1>1, <1>3, <1>4
  <2>2. /\ u \in CType /\ u.pc = "op" /\ u.at = k /\ u.saved_at = k /\ u.start = u.tr_duration
        /\ u.setting = s.setting
    BY <1>1 DEF Solve, CType, Stages
  <2> HIDE DEF u
  <2> QED BY <1>4, <2>1, <2>2 DEF Good
<1>5. CASE k = "ACOP" \/ (k = "AC" /\ nl.nonlinear)
  <2> DEFINE u == Solve([clear EXCEPT !.at = "OP"], "acop")
  <2>1. Begin(s) = u BY <1>1, <1>3, <1>5
  <2>2. /\ u \in CType /\ u.pc = "acop" /\ u.at = "OP" /\ u.saved_at = k /\ u.start = u.tr_duration
        /\ u.ac_sweep_results = <<>>
    BY <1>2 DEF Solve, CType, Stages, Kinds
  <2> HIDE DEF u
  <2> QED BY <1>5, <2>1, <2>2 DEF Good
<1>6. CASE k = "AC" /\ ~nl.nonlinear
  <2>1. Begin(s) = RunAc(clear) BY <1>1, <1>3, <1>6
  <2> QED BY <1>2, <1>6, <2>1, RunAcGood
<1>7. CASE k = "TR"
  <2>1. Begin(s) = StartTransient(t) BY <1>1, <1>3, <1>7
  <2> QED BY <1>1, <1>7, <2>1, StartTransientGood
<1> QED BY <1>4, <1>5, <1>6, <1>7 DEF Kinds

\* What follows a successful solve().
LEMMA SucceedGood ==
    ASSUME NEW s, NEW net, NEW k \in Kinds, Good(s, net, k), s.pc # "idle",
           s.pc = "acop" /\ net.nonlinear => s.saved_op
    PROVE  Good(Succeed(s), net, k)
<1>1. s \in CType /\ s.saved_at = k BY DEF Good
<1>2. CASE s.pc = "op" /\ k = "TROP"
  <2> DEFINE t == [s EXCEPT !.at = "TR"]
  <2>1. /\ t \in CType /\ t.saved_at = k /\ t.setting = s.setting /\ t.start = s.start
        /\ t.tr_duration = s.tr_duration
    BY <1>1 DEF CType, Kinds
  <2>2. s.setting.t_step > 0 /\ s.start = s.tr_duration /\ s.at = "TROP" BY <1>2 DEF Good
  <2>3. Succeed(s) = StartTransient(t) BY <1>2, <2>2 DEF Succeed
  <2> HIDE DEF t
  <2> QED BY <1>2, <2>1, <2>2, <2>3, StartTransientGood
<1>3. CASE s.pc = "op" /\ k # "TROP"
  <2>1. s.at = k BY <1>3 DEF Good
  <2>2. Succeed(s) = Return(s, "true") BY <1>3, <2>1 DEF Succeed
  <2> QED BY <1>1, <2>1, <2>2, ReturnGood
<1>4. CASE s.pc = "acop"
  <2> DEFINE t == [s EXCEPT !.at = "AC"]
  <2>1. k \in {"AC", "ACOP"} /\ s.ac_sweep_results = <<>> /\ s.tr_duration = s.start
    BY <1>4 DEF Good
  <2>2. /\ t \in CType /\ t.at = "AC" /\ t.saved_at = k /\ t.ac_sweep_results = <<>>
        /\ t.tr_duration = t.start /\ t.saved_op = s.saved_op
    BY <1>1, <2>1 DEF CType, Kinds
  <2>3. Succeed(s) = RunAc(t) BY <1>4 DEF Succeed
  <2> HIDE DEF t
  <2> QED BY <1>4, <2>1, <2>2, <2>3, RunAcGood
<1>5. CASE s.pc = "single"
  <2> DEFINE t == [s EXCEPT !.at = s.saved_at]
  <2>1. t \in CType /\ t.at = k BY <1>1 DEF CType
  <2>2. Succeed(s) = Return(t, "true") BY <1>5 DEF Succeed
  <2> HIDE DEF t
  <2> QED BY <2>1, <2>2, ReturnGood
<1>6. CASE s.pc = "sweep"
  <2>1. Succeed(s) = Swept(s) BY <1>6 DEF Succeed
  <2> QED BY <1>6, <2>1, SweptGood
<1>7. CASE s.pc = "tr"
  <2>1. InTransient(s) /\ k \in {"TR", "TROP"} BY <1>7 DEF Good
  <2>2. Succeed(s) = Transient(s) BY <1>7 DEF Succeed
  <2>3. s.start \in Nat /\ s.prev_time \in Nat /\ s.setting.t_step \in Int BY <1>1 DEF CType, SettingType
  <2>4. (s.tr_duration - s.start) % s.setting.t_step = 0 /\ s.start <= s.tr_duration
    <3>1. s.prev_time - s.start \in Nat /\ s.setting.t_step \in Nat \ {0} BY <2>1, <2>3 DEF InTransient
    <3>2. ((s.prev_time - s.start) + s.setting.t_step) % s.setting.t_step = 0
      BY <2>1, <3>1, StepsAdd DEF InTransient
    <3>3. s.tr_duration - s.start = (s.prev_time - s.start) + s.setting.t_step
      BY <2>1, <2>3 DEF InTransient
    <3> QED BY <2>1, <2>3, <3>2, <3>3 DEF InTransient
  <2> QED BY <1>1, <2>1, <2>2, <2>4, TransientGood DEF InTransient
<1> QED BY <1>1, <1>2, <1>3, <1>4, <1>5, <1>6, <1>7 DEF CType, Stages

\* What follows a failed one.
LEMMA FailGood ==
    ASSUME NEW s, NEW net, NEW k \in Kinds, Good(s, net, k), s.pc # "idle"
    PROVE  Good(Fail(s), net, k)
<1>1. s \in CType /\ s.saved_at = k BY DEF Good
<1>2. CASE s.pc = "op"
  <2>1. s.at = k BY <1>2 DEF Good
  <2>2. Fail(s) = Return(s, "false") BY <1>2 DEF Fail
  <2> QED BY <1>1, <2>1, <2>2, ReturnGood
<1>3. CASE s.pc = "tr"
  <2> DEFINE t == [s EXCEPT !.tr_duration = s.prev_time, !.at = s.saved_at]
  <2>1. t \in CType /\ t.at = k BY <1>1 DEF CType
  <2>2. Fail(s) = Return(t, "false") BY <1>3 DEF Fail
  <2> HIDE DEF t
  <2> QED BY <2>1, <2>2, ReturnGood
<1>4. CASE s.pc \notin {"op", "tr"}
  <2> DEFINE t == [s EXCEPT !.at = s.saved_at]
  <2>1. t \in CType /\ t.at = k BY <1>1 DEF CType
  <2>2. Fail(s) = Return(t, "false") BY <1>4 DEF Fail
  <2> HIDE DEF t
  <2> QED BY <2>1, <2>2, ReturnGood
<1> QED BY <1>2, <1>3, <1>4

-----------------------------------------------------------------------------

\* A circuit as constructed.
LEMMA IInvInit == Init => IInv
<1> SUFFICES ASSUME Init PROVE IInv OBVIOUS
<1>1. PICK setting \in Settings :
        c = [at |-> "OP", setting |-> setting, tr_duration |-> 0, last_step |-> 0,
             ac_sweep_results |-> <<>>, pc |-> "idle", ret |-> "none", saved_at |-> "OP",
             prev_time |-> 0, end_time |-> 0, idx |-> 0, iter |-> 0, start |-> 0, saved_op |-> FALSE]
  BY DEF Init
<1>2. setting \in SettingType BY NumbersAssumption
<1>3. c \in CType /\ c.pc = "idle" /\ c.at = "OP" BY <1>1, <1>2 DEF CType, Kinds, Stages
<1> QED BY <1>3 DEF Init, IInv, Good, Kinds

\* Between two calls, only `at' is constrained.
LEMMA IdleGood ==
    ASSUME NEW s \in CType, NEW net, NEW k, s.pc = "idle", s.at = k
    PROVE  Good(s, net, k)
BY DEF Good

\* save_op() of a converged iteration.
LEMMA SavedGood ==
    ASSUME NEW s, Good(s, nl, asked), s.pc # "idle", nl.nonlinear \in BOOLEAN,
           NEW t, t = [s EXCEPT !.saved_op = @ \/ (nl.nonlinear /\ s.at # "AC" /\ s.at \in {"OP", "DC", "TROP"})]
    PROVE  Good(t, nl, asked) /\ t.pc = s.pc /\ (t.pc = "acop" /\ nl.nonlinear => t.saved_op)
<1> DEFINE new == s.saved_op \/ (nl.nonlinear /\ s.at # "AC" /\ s.at \in {"OP", "DC", "TROP"})
<1>1. s \in CType BY DEF Good
<1>2. new \in BOOLEAN /\ (s.saved_op => new) /\ (s.at = "OP" /\ nl.nonlinear => new) OBVIOUS
<1>3. t = [s EXCEPT !.saved_op = new] BY <1>1 DEF CType
<1> HIDE DEF new
<1>4. t \in CType BY <1>1, <1>2, <1>3 DEF CType
<1>5. /\ t.pc = s.pc /\ t.at = s.at /\ t.saved_at = s.saved_at /\ t.setting = s.setting
      /\ t.ac_sweep_results = s.ac_sweep_results /\ t.idx = s.idx /\ t.tr_duration = s.tr_duration
      /\ t.start = s.start /\ t.prev_time = s.prev_time /\ t.end_time = s.end_time /\ t.saved_op = new
  BY <1>1, <1>3 DEF CType
<1>6. /\ Recording(t) = Recording(s) /\ InSweep(t) = InSweep(s) /\ InTransient(t) = InTransient(s)
  BY <1>5 DEF Recording, InSweep, Points, InTransient
<1>7. s.pc = "acop" => s.at = "OP" BY DEF Good
<1> QED BY <1>2, <1>4, <1>5, <1>6, <1>7 DEF Good

\* One more iteration of Newton's method.
LEMMA IterGood ==
    ASSUME NEW s, NEW net, NEW k, Good(s, net, k), s.pc # "idle"
    PROVE  Good([s EXCEPT !.iter = @ + 1], net, k)
<1> DEFINE t == [s EXCEPT !.iter = @ + 1]
<1>1. s \in CType BY DEF Good
<1>2. t \in CType
  <2>1. s.iter + 1 \in Nat BY <1>1 DEF CType
  <2> QED BY <1>1, <2>1 DEF CType
<1>3. /\ t.pc = s.pc /\ t.at = s.at /\ t.saved_at = s.saved_at /\ t.setting = s.setting
      /\ t.ac_sweep_results = s.ac_sweep_results /\ t.idx = s.idx /\ t.tr_duration = s.tr_duration
      /\ t.start = s.start /\ t.prev_time = s.prev_time /\ t.end_time = s.end_time
      /\ t.saved_op = s.saved_op
  BY <1>1 DEF CType
<1> HIDE DEF t
<1>4. /\ Recording(t) = Recording(s) /\ InSweep(t) = InSweep(s) /\ InTransient(t) = InTransient(s)
  BY <1>3 DEF Recording, InSweep, Points, InTransient
<1>5. Good(t, net, k) BY <1>2, <1>3, <1>4 DEF Good
<1> QED BY <1>5 DEF t

\* Every step of the circuit, one case for each action.
LEMMA IInvNext == IInv /\ [Next]_vars => IInv'
<1> SUFFICES ASSUME IInv, [Next]_vars PROVE IInv' OBVIOUS
<1>0. c \in CType /\ nl.nonlinear \in BOOLEAN BY NumbersAssumption DEF IInv, Good, NetlistType
<1>1. ASSUME NEW k \in Kinds, SetAnalyzeType(k) PROVE IInv'
  <2>1. c' \in CType /\ c'.pc = "idle" /\ c'.at = k BY <1>0, <1>1 DEF SetAnalyzeType, Idle, CType
  <2> QED BY <1>1, <2>1, IdleGood DEF SetAnalyzeType, IInv
<1>2. ASSUME NEW setting \in Settings, SetSetting(setting) PROVE IInv'
  <2>1. setting \in SettingType BY NumbersAssumption
  <2>2. c' \in CType /\ c'.pc = "idle" /\ c'.at = c.at
    BY <1>0, <1>2, <2>1 DEF SetSetting, Idle, CType
  <2>3. c.at = asked BY <1>2 DEF SetSetting, Idle, IInv, Good
  <2> QED BY <1>2, <2>2, <2>3, IdleGood DEF SetSetting, IInv
<1>3. CASE Analyze
  <2>1. nl' = nl /\ asked' = asked /\ c.pc = "idle" BY <1>3 DEF Analyze, Idle
  <2>2. c.at = asked /\ asked \in Kinds BY <2>1 DEF IInv, Good
  <2>3. CASE c.at \in {"TR", "TROP"} /\ c.setting.t_step <= 0
    <3>1. c' = [c EXCEPT !.ret = "false"] BY <1>3, <2>3 DEF Analyze
    <3>2. c' \in CType /\ c'.pc = "idle" /\ c'.at = asked BY <1>0, <2>1, <2>2, <3>1 DEF CType
    <3> QED BY <2>1, <3>2, IdleGood DEF IInv
  <2>4. CASE ~(c.at \in {"TR", "TROP"} /\ c.setting.t_step <= 0)
    <3>1. c' = Begin(c) BY <1>3, <2>4 DEF Analyze
    <3>2. c.setting.t_step \in Int BY <1>0 DEF CType, SettingType
    <3>3. Good(Begin(c), nl, asked) BY <1>0, <2>2, <2>4, <3>2, BeginGood DEF IInv
    <3> QED BY <2>1, <3>1, <3>3 DEF IInv
  <2> QED BY <2>3, <2>4
<1>4. CASE SolveOnceFails
  BY <1>4, FailGood DEF SolveOnceFails, Idle, IInv
<1>5. CASE SolveConverges
  <2> DEFINE t == [c EXCEPT !.saved_op = @ \/ (nl.nonlinear /\ c.at # "AC" /\ c.at \in {"OP", "DC", "TROP"})]
  <2>1. c' = Succeed(t) /\ nl' = nl /\ asked' = asked /\ c.pc # "idle"
    BY <1>5 DEF SolveConverges, Idle, Newton
  <2>2. Good(t, nl, asked) /\ t.pc = c.pc /\ (t.pc = "acop" /\ nl.nonlinear => t.saved_op)
    BY <1>0, <2>1, SavedGood DEF IInv
  <2> HIDE DEF t
  <2>3. Good(Succeed(t), nl, asked) BY <2>1, <2>2, SucceedGood DEF IInv
  <2> QED BY <2>1, <2>3 DEF IInv
<1>6. CASE SolveIterates
  <2>1. c.pc # "idle" /\ nl' = nl /\ asked' = asked BY <1>6 DEF SolveIterates, Idle
  <2>2. Good([c EXCEPT !.iter = @ + 1], nl, asked) /\ Good(Fail(c), nl, asked)
    BY <2>1, IterGood, FailGood DEF IInv
  <2>3. c' = [c EXCEPT !.iter = @ + 1] \/ c' = Fail(c) BY <1>6 DEF SolveIterates
  <2> QED BY <2>1, <2>2, <2>3 DEF IInv
<1>7. CASE DigitalClk
  BY <1>7 DEF DigitalClk, IInv
<1>8. ASSUME NEW net \in Netlists, Edit(net) PROVE IInv'
  <2>1. c' = c /\ asked' = asked /\ nl' = net /\ c.pc = "idle" BY <1>8 DEF Edit, Idle
  <2>2. c.at = asked BY <2>1 DEF IInv, Good
  <2> QED BY <1>0, <2>1, <2>2, IdleGood DEF IInv
<1>9. CASE Reset
  <2>1. nl' = nl /\ asked' = asked /\ c.pc = "idle" BY <1>9 DEF Reset, Idle
  <2>2. c.at = asked BY <2>1 DEF IInv, Good
  <2>3. c' = [c EXCEPT !.tr_duration = 0, !.last_step = 0] BY <1>9 DEF Reset
  <2>4. c'.pc = "idle" /\ c'.at = asked BY <1>0, <2>1, <2>2, <2>3 DEF CType
  <2>5. c' \in CType
    <3>1. 0 \in Nat /\ 0 \in Int OBVIOUS
    <3> QED BY <1>0, <2>3, <3>1 DEF CType
  <2> QED BY <2>1, <2>4, <2>5, IdleGood DEF IInv
<1>10. CASE UNCHANGED vars
  BY <1>10 DEF vars, IInv
<1> QED BY <1>1, <1>2, <1>3, <1>4, <1>5, <1>6, <1>7, <1>8, <1>9, <1>10 DEF Next, SolveStep

\* The inductive invariant holds in every reachable state.
LEMMA IInvHolds == Spec => []IInv
BY IInvInit, IInvNext, PTL DEF Spec

\* However analyze() returns, `at' is the kind of analysis the caller chose.
THEOREM AtRestoredCorrect == Spec => []AtRestored
<1>1. IInv => AtRestored BY DEF IInv, Good, AtRestored, Idle
<1> QED BY <1>1, IInvHolds, PTL

\* A nonlinear circuit is never solved for AC before its operating point was saved by the
\* same analyze().
THEOREM OperatingPointCorrect == Spec => []OperatingPointFirst
<1>1. IInv => OperatingPointFirst BY DEF IInv, Good, OperatingPointFirst
<1> QED BY <1>1, IInvHolds, PTL

-----------------------------------------------------------------------------

\* An analyze() that returns did so from a failed or a successful attempt at stage c.pc.
LEMMA ReturningStep ==
    ASSUME IInv, Next, ~Idle, Idle'
    PROVE  \/ c' = Fail(c)
           \/ \E b \in BOOLEAN : c' = Succeed([c EXCEPT !.saved_op = b])
<1>0. c \in CType BY DEF IInv, Good
<1>1. SolveStep BY DEF Next, SetAnalyzeType, SetSetting, Analyze, DigitalClk, Edit, Reset, Idle
<1>2. CASE SolveOnceFails BY <1>2 DEF SolveOnceFails
<1>3. CASE SolveConverges
  <2> DEFINE b == c.saved_op \/ (Newton /\ c.at \in {"OP", "DC", "TROP"})
  <2>1. b \in BOOLEAN OBVIOUS
  <2>2. c' = Succeed([c EXCEPT !.saved_op = b]) BY <1>0, <1>3 DEF SolveConverges, CType
  <2> QED BY <2>1, <2>2
<1>4. CASE SolveIterates
  <2>1. c' = [c EXCEPT !.iter = @ + 1] \/ c' = Fail(c) BY <1>4 DEF SolveIterates
  <2>2. c' # [c EXCEPT !.iter = @ + 1] BY <1>0 DEF Idle, CType
  <2> QED BY <2>1, <2>2
<1> QED BY <1>1, <1>2, <1>3, <1>4 DEF SolveStep

\* The arithmetic of a transient analysis: where it stands after n whole steps.
LEMMA LastStep ==
    ASSUME NEW s \in CType, InTransient(s)
    PROVE  /\ s.prev_time - s.start \in Nat /\ s.setting.t_step \in Nat \ {0}
           /\ s.prev_time - s.start < s.setting.t_stop
           /\ s.tr_duration - s.start = (s.prev_time - s.start) + s.setting.t_step
           /\ s.tr_duration - s.start \in Nat
           /\ (s.tr_duration - s.start) % s.setting.t_step = 0
           /\ s.setting.t_stop \in Nat
<1>1. /\ s.start \in Nat /\ s.prev_time \in Nat /\ s.setting.t_step \in Int
      /\ s.setting.t_stop \in Nat /\ s.tr_duration \in Nat
  BY DEF CType, SettingType
<1>2. /\ s.prev_time - s.start \in Nat /\ s.setting.t_step \in Nat \ {0}
      /\ s.prev_time - s.start < s.setting.t_stop
      /\ s.tr_duration - s.start = (s.prev_time - s.start) + s.setting.t_step
      /\ (s.prev_time - s.start) % s.setting.t_step = 0
  BY <1>1 DEF InTransient
<1>3. ((s.prev_time - s.start) + s.setting.t_step) % s.setting.t_step = 0
  BY <1>2, StepsAdd
<1> QED BY <1>1, <1>2, <1>3

\* A step that returns from analyze() leaves tr_duration where ReturnsAtTime says.
LEMMA TimeStep == IInv /\ [Next]_vars => [ReturnsAtTime]_vars
<1> SUFFICES ASSUME IInv, Next, ~Idle, Idle' PROVE ReturnsAtTime
  BY DEF ReturnsAtTime
<1> DEFINE step == c.setting.t_step
           stop == c.setting.t_stop
<1>0. c \in CType /\ c.pc # "idle" /\ c'.pc = "idle" /\ c.saved_at = asked
  BY DEF IInv, Good, Idle
<1>1. CASE c' = Fail(c)
  <2>1. CASE c.pc = "tr"
    <3>1. c'.tr_duration = c.prev_time /\ c'.ret = "false"
      BY <1>0, <1>1, <2>1 DEF Fail, Return, CType
    <3>2. InTransient(c) /\ c.saved_at \in {"TR", "TROP"} BY <1>0, <2>1 DEF IInv, Good
    <3>3. /\ c.prev_time - c.start \in Nat /\ c.prev_time - c.start < stop
          /\ (c.prev_time - c.start) % step = 0
      BY <1>0, <3>2, LastStep DEF InTransient
    <3> QED BY <3>1, <3>2, <3>3 DEF ReturnsAtTime
  <2>2. CASE c.pc # "tr"
    <3>1. c'.tr_duration = c.tr_duration /\ c'.ret = "false"
      BY <1>0, <1>1, <2>2 DEF Fail, Return, CType
    <3>2. c.tr_duration = c.start /\ c.start \in Nat BY <1>0, <2>2 DEF IInv, Good, CType
    <3>3. c'.tr_duration - c.start = 0 BY <3>1, <3>2
    <3>4. asked \in {"TR", "TROP"} => step \in Nat \ {0} /\ stop \in Nat
      BY <1>0 DEF IInv, Good, CType, SettingType
    <3>5. asked \in {"TR", "TROP"} => 0 % step = 0 BY <3>4
    <3>6. stop \in Nat BY <1>0 DEF CType, SettingType
    <3> QED BY <1>0, <3>1, <3>3, <3>4, <3>5, <3>6 DEF ReturnsAtTime
  <2> QED BY <2>1, <2>2
<1>2. ASSUME NEW b \in BOOLEAN, c' = Succeed([c EXCEPT !.saved_op = b]) PROVE ReturnsAtTime
  <2> DEFINE t == [c EXCEPT !.saved_op = b]
  <2>1. t \in CType BY <1>0 DEF CType
  <2>2. /\ t.pc = c.pc /\ t.at = c.at /\ t.saved_at = c.saved_at /\ t.setting = c.setting
        /\ t.tr_duration = c.tr_duration /\ t.start = c.start /\ t.end_time = c.end_time
    BY <1>0 DEF CType
  <2>3. c' = Succeed(t) BY <1>2
  <2> HIDE DEF t
  <2>4. CASE c.pc = "tr"
    <3>1. c' = Transient(t) BY <2>2, <2>3, <2>4 DEF Succeed
    <3>2. ~(t.tr_duration < t.end_time) BY <1>0, <2>1, <3>1 DEF Transient, Solve, CType
    <3>3. c'.tr_duration = c.tr_duration /\ c'.ret = "true"
      BY <2>1, <2>2, <3>1, <3>2 DEF Transient, Return, CType
    <3>4. InTransient(c) /\ c.saved_at \in {"TR", "TROP"} BY <1>0, <2>4 DEF IInv, Good
    <3>5. /\ c.tr_duration - c.start \in Nat /\ (c.tr_duration - c.start) % step = 0
          /\ c.tr_duration - c.start = (c.prev_time - c.start) + step
          /\ c.prev_time - c.start \in Nat /\ c.prev_time - c.start < stop
          /\ step \in Nat /\ stop \in Nat
      BY <1>0, <3>4, LastStep
    <3>6. stop <= c.tr_duration - c.start
      <4>1. c.end_time = c.start + stop BY <3>4 DEF InTransient
      <4>2. c.start \in Nat /\ c.tr_duration \in Nat BY <1>0 DEF CType
      <4> QED BY <2>2, <3>2, <3>5, <4>1, <4>2
    <3>7. c.tr_duration - c.start < stop + step BY <3>5
    <3> QED BY <3>3, <3>4, <3>5, <3>6, <3>7 DEF ReturnsAtTime
  <2>5. CASE c.pc = "op" /\ asked = "TROP"
    <3> DEFINE u == [t EXCEPT !.at = "TR"]
               v == [u EXCEPT !.end_time = u.tr_duration + u.setting.t_stop]
    <3>1. c.at = "TROP" /\ c.tr_duration = c.start /\ step > 0 BY <2>5 DEF IInv, Good
    <3>2. u \in CType /\ u.tr_duration = c.tr_duration /\ u.setting = c.setting
      BY <2>1, <2>2 DEF CType, Kinds
    <3>3. c' = StartTransient(u) BY <2>2, <2>3, <2>5, <3>1 DEF Succeed
    <3> HIDE DEF u
    <3>4. c' = Transient(v) BY <3>3 DEF StartTransient
    <3>5. u.tr_duration + u.setting.t_stop \in Nat BY <3>2 DEF CType, SettingType
    <3>6. /\ v \in CType /\ v.tr_duration = c.tr_duration /\ v.setting = c.setting
          /\ v.end_time = c.tr_duration + stop
      BY <3>2, <3>5 DEF CType
    <3> HIDE DEF v
    <3>7. ~(v.tr_duration < v.end_time) BY <1>0, <3>4, <3>6 DEF Transient, Solve, CType
    <3>8. c'.tr_duration = c.tr_duration /\ c'.ret = "true"
      BY <3>4, <3>6, <3>7 DEF Transient, Return, CType
    <3>9. c.tr_duration \in Nat /\ stop \in Nat /\ step \in Int BY <1>0 DEF CType, SettingType
    <3>10. stop = 0 /\ c'.tr_duration - c.start = 0 BY <3>1, <3>6, <3>7, <3>8, <3>9
    <3>11. 0 % step = 0 BY <3>1, <3>9
    <3> QED BY <1>0, <2>5, <3>1, <3>8, <3>9, <3>10, <3>11 DEF ReturnsAtTime
  <2>6. CASE c.pc # "tr" /\ ~(c.pc = "op" /\ asked = "TROP")
    <3>1. asked \notin {"TR", "TROP"} /\ c.tr_duration = c.start /\ (c.pc = "op" => c.at = asked)
      BY <1>0, <2>6 DEF IInv, Good, CType, Stages
    <3>2. c'.tr_duration = t.tr_duration
      BY <2>1, <2>2, <2>3, <2>6, <3>1, <1>0
         DEF Succeed, Return, RunAc, Swept, Solve, CType, Stages
    <3>3. c'.tr_duration - c.start = 0 BY <1>0, <2>2, <3>1, <3>2 DEF CType
    <3> QED BY <1>0, <3>1, <3>3 DEF ReturnsAtTime
  <2> QED BY <2>4, <2>5, <2>6
<1> QED BY <1>1, <1>2, ReturningStep

\* A transient analysis that succeeds covers t_stop and less than one step more; one that
\* fails stands at the end of its last good step; no other analysis moves the time.
THEOREM TimeCorrect == Spec => TimeAdvances
<1>1. Spec => []IInv /\ [][Next]_vars BY IInvHolds, PTL DEF Spec
<1> QED BY <1>1, TimeStep, PTL DEF TimeAdvances

-----------------------------------------------------------------------------

\* A step that returns from analyze() leaves the sweep results ReturnsResults asks for.
LEMMA ResultsStep == IInv /\ [Next]_vars => [ReturnsResults]_vars
<1> SUFFICES ASSUME IInv, Next, ~Idle, Idle', c.saved_at \in {"AC", "ACOP"} PROVE ReturnsResults
  BY DEF ReturnsResults
<1>0. /\ c \in CType /\ c'.pc = "idle" /\ c.pc \in {"acop", "single", "sweep"}
      /\ c.pc \in {"acop", "single"} => c.ac_sweep_results = <<>>
      /\ c.pc = "single" => ~Recording(c)
      /\ c.pc = "sweep" => InSweep(c)
  BY DEF IInv, Good, Idle, CType, Stages
<1>1. Points(c) BY <1>0 DEF Points, InSweep
<1>2. CASE c' = Fail(c)
  <2>1. c'.ac_sweep_results = c.ac_sweep_results /\ c'.ret = "false"
    BY <1>0, <1>2 DEF Fail, Return, CType
  <2> QED BY <1>1, <2>1 DEF ReturnsResults, Points
<1>3. ASSUME NEW b \in BOOLEAN, c' = Succeed([c EXCEPT !.saved_op = b]) PROVE ReturnsResults
  <2> DEFINE t == [c EXCEPT !.saved_op = b]
  <2>1. t \in CType BY <1>0 DEF CType
  <2>2. /\ t.pc = c.pc /\ t.setting = c.setting /\ t.ac_sweep_results = c.ac_sweep_results
        /\ t.idx = c.idx
    BY <1>0 DEF CType
  <2>3. c' = Succeed(t) BY <1>3
  <2> HIDE DEF t
  <2>4. CASE c.pc = "acop"
    <3> DEFINE u == [t EXCEPT !.at = "AC"]
    <3>1. c' = RunAc(u) BY <2>2, <2>3, <2>4 DEF Succeed
    <3>2. u \in CType BY <2>1 DEF CType, Kinds
    <3> HIDE DEF u
    <3>3. c'.ac_sweep_results = <<>> /\ c'.ret = "false"
      BY <1>0, <3>1, <3>2 DEF RunAc, Solve, Return, CType
    <3> QED BY <3>3 DEF ReturnsResults
  <2>5. CASE c.pc = "single"
    <3>1. c' = Return([t EXCEPT !.at = t.saved_at], "true") BY <2>2, <2>3, <2>5 DEF Succeed
    <3>2. c'.ac_sweep_results = <<>> BY <1>0, <2>1, <2>2, <2>5, <3>1 DEF Return, CType
    <3>3. Len(<<>>) = 0 OBVIOUS
    <3> QED BY <1>0, <2>5, <3>2, <3>3 DEF ReturnsResults
  <2>6. CASE c.pc = "sweep"
    <3> DEFINE u == [t EXCEPT !.ac_sweep_results = Append(@, t.setting.omega)]
    <3>1. InSweep(c) BY <1>0, <2>6
    <3>2. c.idx \in Nat /\ c.setting.sweep[2] \in Nat /\ c.ac_sweep_results \in Seq(Nat)
      BY <1>0 DEF CType, SettingType
    <3>3. u.ac_sweep_results = Append(c.ac_sweep_results, c.idx)
      BY <2>1, <2>2, <3>1 DEF InSweep, CType
    <3>4. u \in CType
      <4>1. Append(t.ac_sweep_results, t.setting.omega) \in Seq(Nat) BY <2>1 DEF CType, SettingType
      <4> QED BY <2>1, <4>1 DEF CType
    <3>5. c' = Swept(t) BY <2>2, <2>3, <2>6 DEF Succeed
    <3>6. Swept(t) = IF t.idx < t.setting.sweep[2]
                     THEN Solve([u EXCEPT !.idx = @ + 1, !.setting.omega = t.idx + 1], "sweep")
                     ELSE Return([u EXCEPT !.at = t.saved_at], "true")
      BY DEF Swept
    <3> HIDE DEF u
    <3>7. ~(t.idx < t.setting.sweep[2])
      <4> DEFINE v == [u EXCEPT !.idx = @ + 1, !.setting.omega = t.idx + 1]
      <4>1. v \in [DOMAIN u -> {v[x] : x \in DOMAIN u}] /\ DOMAIN v = DOMAIN u OBVIOUS
      <4>2. "pc" \in DOMAIN u BY <3>4 DEF CType
      <4> HIDE DEF v
      <4>3. Solve(v, "sweep").pc = "sweep" BY <4>1, <4>2 DEF Solve
      <4> QED BY <1>0, <3>5, <3>6, <4>3 DEF v
    <3>8. c'.ac_sweep_results = u.ac_sweep_results
      BY <3>4, <3>5, <3>6, <3>7 DEF Return, CType
    <3>9. c.idx = c.setting.sweep[2] BY <2>2, <3>1, <3>2, <3>7 DEF InSweep
    <3>10. /\ Len(c'.ac_sweep_results) = c.idx
           /\ \A i \in 1..Len(c'.ac_sweep_results) : c'.ac_sweep_results[i] = i
      BY <3>1, <3>2, <3>3, <3>8 DEF InSweep, Points
    <3> QED BY <3>1, <3>9, <3>10 DEF ReturnsResults, InSweep
  <2> QED BY <1>0, <2>4, <2>5, <2>6
<1> QED BY <1>2, <1>3, ReturningStep

\* An AC analysis leaves exactly its own points, in order: all of them when it succeeds,
\* those before the failure otherwise.
THEOREM SweepCorrect == Spec => SweepComplete
<1>1. Spec => []IInv /\ [][Next]_vars BY IInvHolds, PTL DEF Spec
<1> QED BY <1>1, ResultsStep, PTL DEF SweepComplete

-----------------------------------------------------------------------------
(***************************************************************************)
(* The rows of the unknowns.                                               *)
(***************************************************************************)

Unknowns(net) == External(net) \cup Internal(net)

\* The nodes digital_clk() may ask a voltage for.
Hybrid(net) == {<<0, n>> : n \in {m \in DOMAIN net.class : net.class[m] = "hybrid"}}

\* What prepare() leaves, as long as the netlist is not edited.
Numbered ==
    /\ nodes = InOrder(Unknowns(nl))
    /\ \A i \in DOMAIN nodes : node_index[nodes[i]] = i
    /\ {branches[i][2] : i \in 1..Len(branches)} = (Len(digital_out) + 1)..rows

RowInv ==
    /\ nl \in Netlists
    /\ digital_out \in Seq(Nat \X Nat)
    /\ ~edited => \A i \in 1..Len(digital_out) : digital_out[i] \in Hybrid(nl)
    /\ ~Idle => Numbered

-----------------------------------------------------------------------------

\* prepare() reads finitely many nodes and branches.
LEMMA FiniteNetlist ==
    ASSUME NEW net \in NetlistType
    PROVE  /\ Unknowns(net) \in SUBSET (Nat \X Nat) /\ IsFiniteSet(Unknowns(net))
           /\ BranchesOf(net) \in SUBSET (Nat \X Nat) /\ IsFiniteSet(BranchesOf(net))
           /\ Hybrid(net) \in SUBSET Unknowns(net)
<1> DEFINE k == Len(net.class)
           m == Len(net.models)
<1>1. /\ k \in Nat /\ DOMAIN net.class = 1..k
      /\ m \in Nat /\ DOMAIN net.models = 1..m
      /\ \A j \in 1..m : net.models[j].branches \in Nat /\ net.models[j].internals \in Nat
  <2>1. /\ net.class \in Seq({"digital", "hybrid", "analog"})
        /\ net.models \in Seq([branches : Nat, internals : Nat])
    BY DEF NetlistType
  <2>2. ASSUME NEW T, NEW q \in Seq(T) PROVE \A j \in 1..Len(q) : q[j] \in T
    OBVIOUS
  <2>3. \A j \in 1..m : net.models[j] \in [branches : Nat, internals : Nat]
    BY <2>1, <2>2, Zenon
  <2> QED BY <2>1, <2>3
<1>3. Internal(net) \in SUBSET (Nat \X Nat) /\ IsFiniteSet(Internal(net))
  <2> DEFINE count == [j \in 1..m |-> net.models[j].internals]
  <2>1. count \in [1..m -> Nat] BY <1>1
  <2>2. Internal(net) = UNION {{j} \X (1..count[j]) : j \in 1..m} BY <1>1 DEF Internal
  <2> HIDE DEF count, m
  <2> QED BY <1>1, <2>1, <2>2, FinitePairs
<1>4. BranchesOf(net) \in SUBSET (Nat \X Nat) /\ IsFiniteSet(BranchesOf(net))
  <2> DEFINE count == [j \in 1..m |-> net.models[j].branches]
  <2>1. count \in [1..m -> Nat] BY <1>1
  <2>2. BranchesOf(net) = UNION {{j} \X (1..count[j]) : j \in 1..m} BY <1>1 DEF BranchesOf
  <2> HIDE DEF count, m
  <2> QED BY <1>1, <2>1, <2>2, FinitePairs
<1>5. External(net) \in SUBSET (Nat \X Nat) /\ IsFiniteSet(External(net))
  <2>1. External(net) \in SUBSET ({0} \X (1..k))
    BY <1>1 DEF External, Analog
  <2>2. IsFiniteSet({0} \X (1..k))
    <3>1. IsFiniteSet({0}) BY FS_Singleton
    <3>2. IsFiniteSet(1..k) BY <1>1, FS_Interval
    <3> QED BY <3>1, <3>2, FS_Product
  <2> HIDE DEF k
  <2> QED BY <1>1, <2>1, <2>2, FS_Subset
<1>6. Hybrid(net) \in SUBSET External(net)
  BY DEF Hybrid, External, Analog
<1> QED BY <1>3, <1>4, <1>5, <1>6, FS_Union DEF Unknowns

\* What prepare() leaves, for whatever netlist and digital_out it finds.
LEMMA PrepareNumbers ==
    ASSUME nl \in NetlistType, digital_out \in Seq(Nat \X Nat), Prepare,
           UNCHANGED <<nl, digital_out>>
    PROVE  Numbered'
<1> DEFINE U == Unknowns(nl)
           B == BranchesOf(nl)
           first == Len(digital_out)
<1>0. /\ U \in SUBSET (Nat \X Nat) /\ IsFiniteSet(U)
      /\ B \in SUBSET (Nat \X Nat) /\ IsFiniteSet(B)
  BY FiniteNetlist
<1>1. nodes' = InOrder(U)
  BY DEF Prepare, Number, Unknowns
<1>2. \A i \in DOMAIN nodes' : node_index'[nodes'[i]] = i
  <2>1. \A i, j \in DOMAIN nodes' : nodes'[i] = nodes'[j] => i = j
    <3> HIDE DEF U
    <3>1. /\ nodes' \in [1..Cardinality(U) -> U]
          /\ \A i, j \in 1..Cardinality(U) : nodes'[i] = nodes'[j] => i = j
      BY <1>0, <1>1, InOrderBijective
    <3> QED BY <3>1
  <2> TAKE i \in DOMAIN nodes'
  <2>2. nodes'[i] \in Range(nodes')
    BY DEF Range
  <2>3. node_index'[nodes'[i]] = CHOOSE j \in DOMAIN nodes' : nodes'[j] = nodes'[i]
    BY <2>2 DEF Prepare, Number
  <2> QED BY <2>1, <2>3
<1>3. {branches'[i][2] : i \in 1..Len(branches')} = (first + 1)..rows'
  <2>1. Cardinality(B) \in Nat /\ DOMAIN InOrder(B) = 1..Cardinality(B)
    <3> HIDE DEF B
    <3> QED BY <1>0, InOrderBijective
  <2>2. branches' = [i \in 1..Cardinality(B) |-> <<InOrder(B)[i], first + i>>]
    BY <2>1 DEF Prepare, Number
  <2>3. rows' = first + Cardinality(B) /\ first \in Nat
    BY DEF Prepare, Number
  <2>4. Len(branches') = Cardinality(B)
    <3> HIDE DEF B, first
    <3> QED BY <2>1, <2>2
  <2>5. \A i \in 1..Len(branches') : branches'[i][2] = first + i
    <3> HIDE DEF B, first
    <3> QED BY <2>2, <2>4
  <2> HIDE DEF B, first
  <2>6. ASSUME NEW r \in (first + 1)..rows' PROVE \E i \in 1..Len(branches') : branches'[i][2] = r
    <3>1. r - first \in 1..Len(branches') /\ first + (r - first) = r BY <2>1, <2>3, <2>4, <2>6
    <3> QED BY <2>5, <3>1
  <2>7. ASSUME NEW i \in 1..Len(branches') PROVE branches'[i][2] \in (first + 1)..rows'
    BY <2>1, <2>3, <2>4, <2>5
  <2> QED BY <2>6, <2>7
<1> QED BY <1>1, <1>2, <1>3 DEF Numbered

\* RowInv holds before the first prepare().
LEMMA RowInvInit == Init => RowInv
BY DEF Init, RowInv, Idle

\* Every step keeps RowInv.
LEMMA RowInvNext == IInv /\ RowInv /\ [Next]_vars => RowInv'
<1> SUFFICES ASSUME IInv, RowInv, [Next]_vars PROVE RowInv'
  OBVIOUS
<1>0. nl \in NetlistType /\ digital_out \in Seq(Nat \X Nat) /\ c \in CType
  BY NumbersAssumption DEF RowInv, IInv, Good
<1>1. ASSUME NEW k \in Kinds, SetAnalyzeType(k) PROVE RowInv'
  BY <1>0, <1>1 DEF SetAnalyzeType, CType, RowInv, Idle, Numbered, prepared
<1>2. ASSUME NEW setting \in Settings, SetSetting(setting) PROVE RowInv'
  BY <1>0, <1>2 DEF SetSetting, CType, RowInv, Idle, Numbered, prepared
<1>3. CASE Analyze
  <2>1. CASE c.at \in {"TR", "TROP"} /\ c.setting.t_step <= 0
    BY <1>0, <1>3, <2>1 DEF Analyze, CType, RowInv, Idle, Numbered, prepared
  <2>2. CASE ~(c.at \in {"TR", "TROP"} /\ c.setting.t_step <= 0)
    <3>1. Prepare /\ UNCHANGED <<nl, digital_out, edited>>
      BY <1>3, <2>2 DEF Analyze
    <3>2. Numbered' BY <1>0, <3>1, PrepareNumbers
    <3> QED BY <3>1, <3>2 DEF RowInv, Hybrid
  <2> QED BY <2>1, <2>2
<1>4. CASE SolveStep
  BY <1>4 DEF SolveStep, SolveOnceFails, SolveConverges, SolveIterates, RowInv, Idle, Numbered,
              prepared, Unknowns, Hybrid
<1>5. CASE DigitalClk
  <2>1. PICK k \in {0, 1, 2} : digital_out' \in [1..k -> Hybrid(nl)]
    <3>1. CASE listed
      <4>1. digital_out' \in UNION {[1..k -> Hybrid(nl)] : k \in 0..2}
        BY <1>5, <3>1, Zenon DEF DigitalClk, Hybrid
      <4>2. PICK k \in 0..2 : digital_out' \in [1..k -> Hybrid(nl)]  BY <4>1, Zenon
      <4> QED BY <4>2
    <3>2. CASE ~listed
      <4>1. digital_out' = <<>> BY <1>5, <3>2, Zenon DEF DigitalClk
      <4>2. digital_out' \in [1..0 -> Hybrid(nl)] BY <4>1
      <4> QED BY <4>2
    <3> QED BY <3>1, <3>2
  <2>2. Hybrid(nl) \in SUBSET (Nat \X Nat)
    BY <1>0, FiniteNetlist
  <2>3. digital_out' \in Seq(Nat \X Nat) /\ \A i \in 1..Len(digital_out') : digital_out'[i] \in Hybrid(nl)
    <3>1. digital_out' \in [1..k -> Nat \X Nat] BY <2>1, <2>2
    <3>2. digital_out' \in Seq(Nat \X Nat) /\ Len(digital_out') = k BY <3>1
    <3> QED BY <2>1, <3>2
  <2>4. nl' = nl /\ c' = c /\ Idle
    BY <1>5 DEF DigitalClk
  <2> QED BY <2>3, <2>4 DEF RowInv, Idle, Hybrid
<1>6. ASSUME NEW net \in Netlists, Edit(net) PROVE RowInv'
  BY <1>6 DEF Edit, RowInv, Idle
<1>7. CASE Reset
  BY <1>0, <1>7 DEF Reset, CType, RowInv, Idle
<1>8. CASE UNCHANGED vars
  BY <1>8 DEF vars, prepared, RowInv, Idle, Numbered, Unknowns, Hybrid
<1> QED BY <1>1, <1>2, <1>3, <1>4, <1>5, <1>6, <1>7, <1>8 DEF Next

\* RowInv holds in every state.
LEMMA RowInvHolds == Spec => []RowInv
BY RowInvInit, RowInvNext, IInvHolds, PTL DEF Spec

\* No two unknowns of the system of equations share a row: prepare() numbers the nodes
\* without gap or overlap, and the branches after the rows of digital_out.
THEOREM RowsCorrect == Spec => []RowsDisjoint
<1>1. RowInv => RowsDisjoint
  <2> SUFFICES ASSUME RowInv, ~Idle PROVE RowsDisjoint
    BY DEF RowsDisjoint
  <2>1. Numbered BY DEF RowInv
  <2>2. nl \in NetlistType BY NumbersAssumption DEF RowInv
  <2>3. 1..Len(nodes) = DOMAIN nodes
    <3>1. /\ Cardinality(Unknowns(nl)) \in Nat
          /\ nodes \in [1..Cardinality(Unknowns(nl)) -> Unknowns(nl)]
      BY <2>1, <2>2, FiniteNetlist, InOrderBijective DEF Numbered
    <3> QED BY <3>1
  <2> QED BY <2>1, <2>3 DEF Numbered, RowsDisjoint
<1> QED BY <1>1, RowInvHolds, PTL

\* Every voltage digital_clk() asked for is applied to the row of its own node, unless the
\* netlist was edited between the tick and the analysis.
THEOREM StampsCorrect == Spec => []StampsOwnNode
<1>1. RowInv => StampsOwnNode
  <2> SUFFICES ASSUME RowInv, ~Idle, ~edited, NEW i \in 1..Len(digital_out)
               PROVE  /\ digital_out[i] \in Range(nodes)
                      /\ nodes[node_index[digital_out[i]]] = digital_out[i]
    BY DEF StampsOwnNode
  <2>1. Numbered /\ digital_out[i] \in Hybrid(nl) BY DEF RowInv
  <2>2. nl \in NetlistType BY NumbersAssumption DEF RowInv
  <2>3. digital_out[i] \in Unknowns(nl) BY <2>1, <2>2, FiniteNetlist
  <2>4. PICK j \in DOMAIN nodes : nodes[j] = digital_out[i]
    <3>1. /\ nodes \in [1..Cardinality(Unknowns(nl)) -> Unknowns(nl)]
          /\ \A x \in Unknowns(nl) : \E j \in 1..Cardinality(Unknowns(nl)) : nodes[j] = x
      BY <2>1, <2>2, FiniteNetlist, InOrderBijective DEF Numbered
    <3> QED BY <2>3, <3>1
  <2>5. node_index[digital_out[i]] = j BY <2>1, <2>4 DEF Numbered
  <2> QED BY <2>4, <2>5 DEF Range
<1> QED BY <1>1, RowInvHolds, PTL

=============================================================================
