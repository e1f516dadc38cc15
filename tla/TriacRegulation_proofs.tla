----------------------- MODULE TriacRegulation_proofs -----------------------
(***************************************************************************)
(* The safety of the regulation of channel 0, for every resolution of the  *)
(* command, every correction, ceiling, hold time and calibration.          *)
(***************************************************************************)
EXTENDS TriacRegulation, TLAPS

(* The assumption, one fact at a time.                                     *)
LEMMA Constant ==
  /\ Full \in Nat /\ Full > 0 /\ Fine \in Nat /\ Fine > 0 /\ FullF = Full * Fine /\ FullF \in Nat
  /\ Steps \subseteq Nat /\ MinDelay \in 0 .. Full - 1 /\ Hold \in Nat
  /\ Openings \subseteq 0 .. Full
BY RegulationAssumption DEF RegulationAssumption, FullF

USE Constant

-----------------------------------------------------------------------------
(* Rounding and the other operators on the command.                        *)

LEMMA Monotone == ASSUME NEW b \in Nat, NEW i \in Int, NEW j \in Int, i <= j PROVE b * i <= b * j
<1>1. b * (j - i) >= 0 /\ b * (j - i) = b * j - b * i /\ b * i \in Int /\ b * j \in Int
  OBVIOUS
<1> QED BY <1>1

LEMMA Division == ASSUME NEW a \in Int, NEW b \in Nat, b > 0
                  PROVE  /\ a \div b \in Int
                         /\ b * (a \div b) <= a /\ a < b * ((a \div b) + 1)
OBVIOUS

(* Round is bounded by whole units on either side of its argument.         *)
LEMMA RoundBounds == ASSUME NEW x \in Int, NEW k \in Int
                     PROVE  /\ Round(x) \in Int
                            /\ k * Fine <= x => k <= Round(x)
                            /\ x <= k * Fine => Round(x) <= k
<1> DEFINE b == 2 * Fine
           a == 2 * x + Fine
           q == a \div b
<1>0. q \in Int /\ b \in Nat /\ b > 0 /\ a \in Int /\ b * q <= a /\ a < b * (q + 1)
  BY Division
<1>1. Round(x) = q
  BY DEF Round
<1>2. b * k = 2 * (k * Fine) /\ k * Fine \in Int /\ a = 2 * x + Fine
  OBVIOUS
<1> HIDE DEF a, b, q
<1>3. ASSUME k * Fine <= x, q < k PROVE FALSE
  <2>1. b * (q + 1) <= b * k
    BY <1>0, <1>3, Monotone
  <2> QED BY <1>0, <1>2, <1>3, <2>1
<1>4. ASSUME x <= k * Fine, q > k PROVE FALSE
  <2>1. b * (k + 1) <= b * q /\ b * (k + 1) = b * k + b /\ b = 2 * Fine
    BY <1>0, <1>4, Monotone DEF b
  <2> QED BY <1>0, <1>2, <1>4, <2>1
<1> QED BY <1>0, <1>1, <1>3, <1>4

(* A command within its range rounds to a delay within its range, a whole  *)
(* number of units to itself.                                              *)
LEMMA RoundRange == ASSUME NEW x \in 0 .. FullF PROVE Round(x) \in 0 .. Full
<1>1. 0 * Fine <= x /\ x <= Full * Fine
  OBVIOUS
<1> QED BY <1>1, RoundBounds

LEMMA RoundWhole == ASSUME NEW k \in Int PROVE Round(k * Fine) = k
<1>1. k * Fine \in Int
  OBVIOUS
<1> QED BY <1>1, RoundBounds

LEMMA RoundMonotone == ASSUME NEW x \in Int, NEW y \in Int, x <= y PROVE Round(x) <= Round(y)
<1> DEFINE b == 2 * Fine
           p == (2 * x + Fine) \div b
           q == (2 * y + Fine) \div b
<1>1. /\ p \in Int /\ q \in Int /\ b \in Nat
      /\ b * p <= 2 * x + Fine /\ 2 * y + Fine < b * (q + 1)
  BY Division
<1>2. Round(x) = p /\ Round(y) = q
  BY DEF Round
<1> HIDE DEF b, p, q
<1>3. ASSUME q < p PROVE FALSE
  <2>1. b * (q + 1) <= b * p
    BY <1>1, <1>3, Monotone
  <2>2. b * p \in Int /\ b * (q + 1) \in Int
    BY <1>1
  <2> QED BY <1>1, <2>1, <2>2
<1> QED BY <1>1, <1>2, <1>3

LEMMA Whole == ASSUME NEW k \in 0 .. Full PROVE k * Fine \in 0 .. FullF
<1>1. Fine * 0 <= Fine * k /\ Fine * k <= Fine * Full
  BY Monotone
<1> QED BY <1>1

(* The ceiling of a period, and the delay that stands for it.              *)
LEMMA Ceiling == /\ ThresholdMax \in 0 .. Full
                 /\ Lowest \in 0 .. FullF
                 /\ Lowest = (Full - ThresholdMax) * Fine
<1>1. ThresholdMax \in 0 .. Full
  BY DEF ThresholdMax
<1>2. Full - ThresholdMax \in 0 .. Full
  BY <1>1
<1> QED BY <1>1, <1>2, Whole DEF Lowest

(* The division of C is whole, whatever the signs.                         *)
LEMMA QuotientInt == ASSUME NEW a \in Int, NEW b \in Int, b # 0 PROVE Quotient(a, b) \in Int
<1>1. Abs(a) \in Int /\ Abs(b) \in Nat /\ Abs(b) > 0
  BY DEF Abs
<1>2. Abs(a) \div Abs(b) \in Int
  BY <1>1, Division
<1>3. -(Abs(a) \div Abs(b)) \in Int
  BY <1>2
<1> QED BY <1>2, <1>3 DEF Quotient

LEMMA LerpInt == ASSUME NEW i \in {1, 2}, NEW x \in Int
                 PROVE  Lerp(CalPoints[i], CalPoints[i + 1], x) \in Int
<1> DEFINE p == CalPoints[i]
           q == CalPoints[i + 1]
<1>1. p.duty \in Nat /\ q.duty \in Nat /\ p.watts \in Nat /\ q.watts \in Nat
  BY RegulationAssumption DEF RegulationAssumption
<1> HIDE DEF p, q
<1>2. (q.watts - p.watts) * (x - p.duty) \in Int /\ q.duty - p.duty \in Int
  BY <1>1
<1>3. p.duty # q.duty => Quotient((q.watts - p.watts) * (x - p.duty), q.duty - p.duty) \in Int
  BY <1>1, <1>2, QuotientInt
<1>4. Lerp(p, q, x) \in Int
  BY <1>1, <1>3 DEF Lerp
<1> QED BY <1>4 DEF p, q

(* The calibration maps openings to openings, and a closed triac to a      *)
(* closed one.                                                             *)
LEMMA Calibration == ASSUME NEW open \in 0 .. Full
                     PROVE  /\ Calibrated(open) \in 0 .. Full
                            /\ open = 0 => Calibrated(open) = 0
                            /\ ~CalEnabled => Calibrated(open) = open
<1> DEFINE i == IF open <= CalPoints[2].duty THEN 1 ELSE 2
           target == Lerp(CalPoints[i], CalPoints[i + 1], open)
           nominal == IF CalPoints[2].watts = 0 THEN 1 ELSE CalPoints[2].watts
           unset == \A j \in 1 .. 3 : CalPoints[j].duty = 0
<1>1. target \in Int
  BY LerpInt
<1>2. nominal \in Nat
  BY RegulationAssumption DEF RegulationAssumption
<1>3. Calibrated(open) = IF ~CalEnabled \/ unset \/ target <= 0 THEN open
                         ELSE AtMost((open * nominal) \div target, Full)
  BY DEF Calibrated
<1> HIDE DEF target, nominal, unset
<1>4. CASE ~CalEnabled \/ unset \/ target <= 0
  BY <1>3, <1>4
<1>5. CASE ~(~CalEnabled \/ unset \/ target <= 0)
  <2> DEFINE n == open * nominal
             v == n \div target
  <2>1. n \in Nat /\ (open = 0 => n = 0)
    BY <1>2, Monotone
  <2> HIDE DEF n
  <2>2. v \in Int /\ target * v <= n /\ n < target * (v + 1) /\ target \in Nat /\ target > 0
    BY <1>1, <1>5, <2>1, Division
  <2> HIDE DEF v
  <2>3. v >= 0
    <3>1. ASSUME v + 1 <= 0 PROVE FALSE
      <4>1. target * (v + 1) <= target * 0
        BY <2>2, <3>1, Monotone
      <4> QED BY <2>1, <2>2, <4>1
    <3> QED BY <2>2, <3>1
  <2>4. open = 0 => v = 0
    <3>1. ASSUME open = 0, v >= 1 PROVE FALSE
      <4>1. target * 1 <= target * v
        BY <2>2, <3>1, Monotone
      <4> QED BY <2>1, <2>2, <3>1, <4>1
    <3> QED BY <2>2, <2>3, <3>1
  <2>5. Calibrated(open) = AtMost(v, Full)
    BY <1>3, <1>5 DEF n, v
  <2> QED BY <1>5, <2>2, <2>3, <2>4, <2>5 DEF AtMost
<1> QED BY <1>4, <1>5

-----------------------------------------------------------------------------
(* What the stages of a tick make of the command.                          *)

LEMMA IntegratedRange == ASSUME f \in 0 .. FullF, net \in Nets, NEW x \in Integrated
                         PROVE  x \in 0 .. FullF /\ Lowest <= x
<1>1. Lowest \in 0 .. FullF
  BY Ceiling
<1>2. CASE Pid
  BY <1>1, <1>2 DEF Integrated
<1>3. CASE ~Pid
  <2>1. PICK k \in Steps : x = Within(Start + Correction(Error, k), Lowest, FullF)
    BY <1>3 DEF Integrated
  <2>2. Start + Correction(Error, k) \in Int
    BY DEF Correction, Start
  <2> QED BY <1>1, <2>1, <2>2 DEF Within
<1> QED BY <1>2, <1>3

LEMMA ComputedRange ==
  ASSUME f \in 0 .. FullF, sched \in Schedules, net \in Nets,
         NEW override \in Overrides, NEW open \in 0 .. Full, NEW c \in Computed(override, open)
  PROVE  /\ c.f \in 0 .. FullF /\ c.on \in BOOLEAN
         /\ override = "off" => c.f = FullF
         /\ override = "auto" => Lowest <= c.f
<1>1. Lowest \in 0 .. FullF /\ FullF \in 0 .. FullF /\ 0 \in 0 .. FullF
  BY Ceiling
<1>2. CASE override = "off"
  <2>1. c = [f |-> FullF, on |-> FALSE]
    BY <1>2 DEF Computed
  <2> QED BY <1>1, <1>2, <2>1
<1>3. CASE override = "on"
  <2>1. c = [f |-> FullyOn, on |-> TRUE]
    BY <1>3 DEF Computed
  <2>2. FullyOn \in 0 .. FullF
    BY <1>1 DEF FullyOn
  <2> QED BY <1>3, <2>1, <2>2
<1>4. CASE override = "fixed"
  <2>1. c = [f |-> (Full - open) * Fine, on |-> open > 0]
    BY <1>4 DEF Computed
  <2>2. (Full - open) * Fine \in 0 .. FullF
    <3>1. Full - open \in 0 .. Full
      OBVIOUS
    <3> QED BY <3>1, Whole
  <2>3. c.on \in BOOLEAN
    <3>1. c.on = (open > 0)
      BY <2>1, Zenon
    <3>2. (open > 0) \in BOOLEAN
      OBVIOUS
    <3> QED BY <3>1, <3>2, Zenon
  <2> QED BY <1>4, <2>1, <2>2, <2>3
<1>5. CASE override = "auto"
  <2>1. CASE sched = "off"
    <3>1. c = [f |-> FullF, on |-> FALSE]
      BY <1>5, <2>1 DEF Computed
    <3> QED BY <1>1, <1>5, <3>1
  <2>2. CASE sched = "on"
    <3>1. c = [f |-> Lowest, on |-> Lowest < FullF]
      BY <1>5, <2>2 DEF Computed
    <3>2. c.on \in BOOLEAN
      <4>1. c.on = (Lowest < FullF)
        BY <3>1, Zenon
      <4>2. (Lowest < FullF) \in BOOLEAN
        BY <1>1
      <4> QED BY <4>1, <4>2, Zenon
    <3> QED BY <1>1, <1>5, <3>1, <3>2
  <2>3. CASE sched = "surplus"
    <3>1. PICK x \in Integrated : c = [f |-> x, on |-> Round(x) < Full]
      BY <1>5, <2>3 DEF Computed
    <3>2. c.on \in BOOLEAN
      <4>1. c.on = (Round(x) < Full)
        BY <3>1, Zenon
      <4>2. (Round(x) < Full) \in BOOLEAN
        BY IntegratedRange, RoundRange
      <4> QED BY <4>1, <4>2, Zenon
    <3> QED BY <1>5, <3>1, <3>2, IntegratedRange
  <2> QED BY <2>1, <2>2, <2>3 DEF Schedules
<1> QED BY <1>2, <1>3, <1>4, <1>5 DEF Overrides

(* The delay a tick publishes: backoff and a closed command close; without *)
(* calibration no stage opens beyond the command, and the command kept for *)
(* the next tick is the one the interrupts obey.                           *)
LEMMA CommandEffect ==
  ASSUME NEW cmd, cmd.f \in 0 .. FullF, NEW st, Command(cmd, st)
  PROVE  /\ f' \in 0 .. FullF /\ hw' \in 0 .. Full /\ on' = cmd.on
         /\ st.backoff \/ Round(cmd.f) = Full => hw' = Full
         /\ ~CalEnabled => Round(cmd.f) <= hw' /\ hw' = Round(f')
<1> DEFINE computed == Full - Round(cmd.f)
           kept == IF st.backoff THEN 0 ELSE computed
<1>1. computed \in 0 .. Full /\ Round(cmd.f) \in 0 .. Full
  BY RoundRange
<1>2. PICK clamped \in SiteClamped(kept) :
        /\ hw' = Full - Calibrated(clamped)
        /\ f' = IF st.backoff \/ clamped # kept \/ CalEnabled
                  THEN (Full - Calibrated(clamped)) * Fine ELSE cmd.f
        /\ on' = cmd.on
  BY DEF Command
<1>3. kept \in 0 .. Full /\ kept <= computed /\ (st.backoff => kept = 0)
      /\ (~st.backoff => kept = computed)
  BY <1>1
<1> HIDE DEF kept
<1>4. clamped \in 0 .. Full /\ clamped <= kept
  BY <1>3 DEF SiteClamped
<1> HIDE DEF computed
<1>5. /\ Calibrated(clamped) \in 0 .. Full
      /\ clamped = 0 => Calibrated(clamped) = 0
      /\ ~CalEnabled => Calibrated(clamped) = clamped
  BY <1>4, Calibration
<1>6. Full - Calibrated(clamped) \in 0 .. Full
  BY <1>5
<1>7. (Full - Calibrated(clamped)) * Fine \in 0 .. FullF
      /\ Round((Full - Calibrated(clamped)) * Fine) = Full - Calibrated(clamped)
  BY <1>6, Whole, RoundWhole
<1>8. f' \in 0 .. FullF /\ hw' \in 0 .. Full /\ on' = cmd.on
  BY <1>2, <1>6, <1>7
<1>9. ASSUME st.backoff \/ Round(cmd.f) = Full PROVE hw' = Full
  BY <1>1, <1>2, <1>3, <1>4, <1>5, <1>9 DEF computed
<1>10. ASSUME ~CalEnabled PROVE Round(cmd.f) <= hw' /\ hw' = Round(f')
  <2>1. hw' = Full - clamped /\ Round(cmd.f) <= hw'
    BY <1>1, <1>2, <1>3, <1>4, <1>5, <1>10 DEF computed
  <2>2. CASE st.backoff \/ clamped # kept
    <3>1. f' = (Full - Calibrated(clamped)) * Fine /\ hw' = Full - Calibrated(clamped)
      BY <1>2, <2>2
    <3> QED BY <1>7, <2>1, <3>1
  <2>3. CASE ~st.backoff /\ clamped = kept
    <3>1. f' = cmd.f /\ clamped = computed
      BY <1>2, <1>3, <1>10, <2>3
    <3> QED BY <1>1, <2>1, <3>1 DEF computed
  <2> QED BY <2>1, <2>2, <2>3
<1> QED BY <1>8, <1>9, <1>10

-----------------------------------------------------------------------------
(* Type correctness: the numbers, the switches and the names.              *)

Numbers == /\ f \in 0 .. FullF /\ hw \in 0 .. Full
           /\ ovrOpen \in 0 .. Full /\ suspectAge \in 0 .. Hold /\ ceiling \in 0 .. Full

Switches == /\ on \in BOOLEAN /\ backoff \in BOOLEAN /\ suspect \in BOOLEAN /\ heaterFlag \in BOOLEAN
            /\ siteFlag \in BOOLEAN /\ mqttLive \in BOOLEAN /\ meterValid \in BOOLEAN
            /\ barred \in BOOLEAN /\ suspended \in BOOLEAN

Names == /\ ovr \in Overrides /\ deadline \in {"none", "running", "passed"}
         /\ sched \in Schedules /\ limit \in Limits /\ plan \in Plans
         /\ net \in Nets /\ second \in Seconds
         /\ by \in {"loop", "manual", "suspend", "mqtt", "api"}

LEMMA Parts == TypeOK <=> Numbers /\ Switches /\ Names
BY DEF TypeOK, Numbers, Switches, Names

LoadStates == [backoff : BOOLEAN, suspect : BOOLEAN, age : 0 .. Hold]

(* The feedback moves between load states.                                 *)
LEMMA LoadStateOK == ASSUME TypeOK, NEW open \in 0 .. Full
                     PROVE  /\ NoLoadState \in LoadStates /\ Aged \in LoadStates
                            /\ HeaterFeedback(open, Aged) \in LoadStates
<1>1. NoLoadState \in LoadStates /\ Aged \in LoadStates
  BY DEF NoLoadState, LoadStates, Aged, TypeOK, AtMost
<1>2. Suspected(Aged) \in LoadStates
  BY <1>1 DEF Suspected, LoadStates
<1> QED BY <1>1, <1>2 DEF HeaterFeedback

(* A regulated tick, taken apart.                                          *)
LEMMA RegulatedEffect ==
  ASSUME TypeOK, RegulatedTick
  PROVE  \E cmd, st :
           /\ cmd.f \in 0 .. FullF /\ cmd.on \in BOOLEAN /\ st \in LoadStates
           /\ Command(cmd, st) /\ SetLoad(st) /\ heaterFlag' = st.backoff
           /\ OvrNow = "auto" /\ mqttLive => by' = "mqtt"
           /\ OvrNow = "off" => cmd.f = FullF
           /\ OvrNow = "auto" /\ ~mqttLive
                 => cmd \in Computed("auto", ovrOpen) /\ Lowest <= cmd.f
<1>0. /\ ovrOpen \in 0 .. Full /\ f \in 0 .. FullF /\ sched \in Schedules /\ net \in Nets
      /\ OvrNow \in Overrides
  BY DEF TypeOK, OvrNow, Overrides
<1> DEFINE live == OvrNow = "auto" /\ mqttLive
           cmds == IF live THEN {[f |-> f, on |-> d < Full]} ELSE Computed(OvrNow, ovrOpen)
           st(cmd) == IF OvrNow = "auto" THEN HeaterFeedback(Full - Round(cmd.f), Aged) ELSE NoLoadState
<1>1. PICK cmd \in cmds : /\ SetLoad(st(cmd)) /\ heaterFlag' = st(cmd).backoff
                          /\ Command(cmd, st(cmd))
  BY DEF RegulatedTick
<1>2. live => by' = "mqtt"
  BY DEF RegulatedTick
<1>3. CASE live
  <2>1. cmd = [f |-> f, on |-> d < Full]
    BY <1>1, <1>3
  <2>2. cmd.f = f /\ cmd.on = (d < Full)
    BY <2>1, Zenon
  <2>3. (d < Full) \in BOOLEAN
    BY <1>0, RoundRange DEF d
  <2>4. cmd.on \in BOOLEAN
    BY <2>2, <2>3, Zenon
  <2>5. st(cmd) \in LoadStates
    BY <1>0, <2>2, RoundRange, LoadStateOK
  <2> QED BY <1>0, <1>1, <1>2, <1>3, <2>2, <2>4, <2>5
<1>4. CASE ~live
  <2>1. cmd \in Computed(OvrNow, ovrOpen)
    BY <1>1, <1>4
  <2>2. /\ cmd.f \in 0 .. FullF /\ cmd.on \in BOOLEAN
        /\ OvrNow = "off" => cmd.f = FullF
        /\ OvrNow = "auto" => Lowest <= cmd.f
    BY <1>0, <2>1, ComputedRange
  <2>3. st(cmd) \in LoadStates
    BY <2>2, RoundRange, LoadStateOK
  <2> QED BY <1>1, <1>4, <2>1, <2>2, <2>3
<1> QED BY <1>3, <1>4

LEMMA InitType == Init => TypeOK
<1> SUFFICES ASSUME Init PROVE TypeOK
  OBVIOUS
<1>1. Numbers
  BY DEF Init, Numbers
<1>2. Switches
  BY DEF Init, Switches
<1>3. Names
  BY DEF Init, Names, Overrides, Nets, Seconds
<1> QED BY <1>1, <1>2, <1>3, Parts

(* A tick, whichever branch it takes.                                      *)
LEMMA TickType == TypeOK /\ Tick => TypeOK'
<1> SUFFICES ASSUME TypeOK, Tick PROVE TypeOK'
  OBVIOUS
<1> USE DEF command, request, load, report, config, plan, meter
<1>0. Numbers /\ Switches /\ Names
  BY Parts
<1>1. Numbers' /\ Switches' /\ Names' => TypeOK'
  BY DEF TypeOK, Numbers, Switches, Names
<1>2. CASE SuspendedTick
  <2>1. Numbers'
    BY <1>0, <1>2 DEF SuspendedTick, Close, SetLoad, NoLoadState, Numbers
  <2>2. Switches'
    <3>1. backoff' = FALSE /\ suspect' = FALSE
      BY <1>2 DEF SuspendedTick, SetLoad, NoLoadState
    <3> QED BY <1>0, <1>2, <3>1, Zenon DEF SuspendedTick, Switches
  <2>3. Names'
    BY <1>0, <1>2 DEF SuspendedTick, Names
  <2> QED BY <1>1, <2>1, <2>2, <2>3
<1>3. ASSUME SkippedTick \/ RegulatedTick
      PROVE  /\ ovr' \in Overrides /\ ovrOpen' \in 0 .. Full
             /\ deadline' \in {"none", "running", "passed"}
  BY <1>0, <1>3 DEF SkippedTick, RegulatedTick, ClearExpired, OvrNow, Overrides, Numbers, Names
<1>4. CASE SkippedTick
  <2>0. Aged \in LoadStates
    BY LoadStateOK
  <2>1. Numbers'
    BY <1>0, <1>3, <1>4, <2>0 DEF SkippedTick, Close, SetLoad, LoadStates, Numbers
  <2>2. Switches'
    <3>1. backoff' \in BOOLEAN /\ suspect' \in BOOLEAN
      BY <1>4, <2>0, Zenon DEF SkippedTick, SetLoad, Aged, TypeOK
    <3> QED BY <1>0, <1>4, <3>1, Zenon DEF SkippedTick, Switches
  <2>3. Names'
    BY <1>0, <1>3, <1>4 DEF SkippedTick, Names
  <2> QED BY <1>1, <2>1, <2>2, <2>3
<1>5. CASE RegulatedTick
  <2>1. PICK cmd, st : /\ cmd.f \in 0 .. FullF /\ cmd.on \in BOOLEAN /\ st \in LoadStates
                       /\ Command(cmd, st) /\ SetLoad(st) /\ heaterFlag' = st.backoff
    BY <1>5, RegulatedEffect
  <2>2. f' \in 0 .. FullF /\ hw' \in 0 .. Full /\ on' = cmd.on
    BY <2>1, CommandEffect
  <2>3. ceiling' \in 0 .. Full
    BY <1>0, <1>5, Ceiling DEF RegulatedTick, Names
  <2>4. suspectAge' \in 0 .. Hold
    BY <2>1 DEF SetLoad, LoadStates
  <2>5. Numbers'
    BY <1>3, <1>5, <2>2, <2>3, <2>4 DEF Numbers
  <2>6. st.backoff \in BOOLEAN /\ st.suspect \in BOOLEAN
    BY <2>1 DEF LoadStates
  <2>7. siteFlag' \in BOOLEAN
    BY <2>1, Zenon DEF Command
  <2>8. Switches'
    BY <1>0, <1>5, <2>1, <2>2, <2>6, <2>7, Zenon DEF RegulatedTick, SetLoad, Switches
  <2>9. by' \in {"loop", "manual", "suspend", "mqtt", "api"}
    BY <1>5 DEF RegulatedTick
  <2>10. Names'
    BY <1>0, <1>3, <1>5, <2>9 DEF RegulatedTick, Names
  <2> QED BY <1>1, <2>5, <2>8, <2>10
<1> QED BY <1>2, <1>4, <1>5 DEF Tick

(* A request writes a command of its range, and the delay it rounds to.    *)
LEMMA RequestCommand ==
  ASSUME NEW state \in Overrides, NEW open \in 0 .. Full
  PROVE  /\ OverrideCommand(state, open) \in 0 .. FullF
         /\ state = "off" => OverrideCommand(state, open) = FullF
<1>1. Full - open \in 0 .. Full /\ 0 \in 0 .. FullF /\ FullF \in 0 .. FullF
  OBVIOUS
<1>2. (Full - open) * Fine \in 0 .. FullF
  BY <1>1, Whole
<1> QED BY <1>1, <1>2 DEF OverrideCommand

LEMMA RequestedIs ==
  ASSUME Requested
  PROVE  \/ \E state \in {"on", "off", "fixed"}, open \in 0 .. Full, timed \in BOOLEAN :
               ApiOverride(state, open, timed)
         \/ ClearOverride
         \/ \E open \in 0 .. Full : MqttOpening(open)
<1>1. CASE ApiAuto \/ ReadOverride
  BY <1>1 DEF ApiAuto, ReadOverride
<1>2. ASSUME NEW timed \in BOOLEAN, NEW state \in {"on", "off"}, ApiOverride(state, 0, timed)
      PROVE  \E s \in {"on", "off", "fixed"}, open \in 0 .. Full, t \in BOOLEAN : ApiOverride(s, open, t)
  <2>1. 0 \in 0 .. Full
    OBVIOUS
  <2> QED BY <1>2, <2>1
<1>3. ASSUME NEW timed \in BOOLEAN, NEW open \in Openings, ApiOverride("fixed", open, timed)
      PROVE  \E s \in {"on", "off", "fixed"}, o \in 0 .. Full, t \in BOOLEAN : ApiOverride(s, o, t)
  BY <1>3
<1>4. ASSUME NEW open \in Openings, MqttOpening(open) PROVE \E o \in 0 .. Full : MqttOpening(o)
  BY <1>4
<1> QED BY <1>1, <1>2, <1>3, <1>4 DEF Requested

LEMMA RequestType == TypeOK /\ Requested => TypeOK'
<1> SUFFICES ASSUME TypeOK, Requested PROVE TypeOK'
  OBVIOUS
<1> USE DEF command, request, load, report, config, plan, meter
<1>0. Numbers /\ Switches /\ Names
  BY Parts
<1>1. Numbers' /\ Switches' /\ Names' => TypeOK'
  BY DEF TypeOK, Numbers, Switches, Names
<1>2. ASSUME NEW state \in {"on", "off", "fixed"}, NEW open \in 0 .. Full, NEW timed \in BOOLEAN,
             ApiOverride(state, open, timed)
      PROVE  TypeOK'
  <2>1. state \in Overrides
    BY DEF Overrides
  <2>2. f' \in 0 .. FullF /\ hw' = Round(f')
    BY <1>2, <2>1, RequestCommand DEF ApiOverride
  <2>3. hw' \in 0 .. Full
    BY <2>2, RoundRange
  <2>4. Numbers'
    BY <1>0, <1>2, <2>2, <2>3 DEF ApiOverride, Numbers
  <2>5. Switches'
    BY <1>0, <1>2, Zenon DEF ApiOverride, Switches
  <2>6. Names'
    BY <1>0, <1>2, <2>1 DEF ApiOverride, Names
  <2> QED BY <1>1, <2>4, <2>5, <2>6
<1>3. CASE ClearOverride
  <2>1. Numbers'
    BY <1>0, <1>3 DEF ClearOverride, Numbers
  <2>2. Switches'
    BY <1>0, <1>3, Zenon DEF ClearOverride, Switches
  <2>3. Names'
    BY <1>0, <1>3 DEF ClearOverride, Names, Overrides
  <2> QED BY <1>1, <2>1, <2>2, <2>3
<1>4. ASSUME NEW open \in 0 .. Full, MqttOpening(open) PROVE TypeOK'
  <2>1. Full - open \in 0 .. Full
    OBVIOUS
  <2>2. f' \in 0 .. FullF /\ hw' \in 0 .. Full
    BY <1>4, <2>1, Whole DEF MqttOpening
  <2>3. Numbers'
    BY <1>0, <1>4, <2>2 DEF MqttOpening, Numbers
  <2>4. Switches'
    BY <1>0, <1>4, Zenon DEF MqttOpening, Switches
  <2>5. Names'
    BY <1>0, <1>4 DEF MqttOpening, Names
  <2> QED BY <1>1, <2>3, <2>4, <2>5
<1> QED BY RequestedIs, <1>2, <1>3, <1>4

Environment == DeadlinePasses \/ MqttFallsSilent \/ Measured \/ Reconfigured

LEMMA EnvironmentType == TypeOK /\ (Environment \/ UNCHANGED vars) => TypeOK'
<1> SUFFICES ASSUME TypeOK, Environment \/ UNCHANGED vars PROVE TypeOK'
  OBVIOUS
<1> USE DEF command, request, load, report, config, plan, meter, Unmoved, Environment, DeadlinePasses,
            MqttFallsSilent, Measured, Reconfigured, vars
<1>0. Numbers /\ Switches /\ Names
  BY Parts
<1>1. Numbers'
  BY <1>0 DEF Numbers
<1>2. Switches'
  BY <1>0, Zenon DEF Switches
<1>3. Names'
  BY <1>0 DEF Names
<1> QED BY <1>1, <1>2, <1>3 DEF TypeOK, Numbers, Switches, Names

LEMMA TypeStep == TypeOK /\ [Next]_vars => TypeOK'
BY TickType, RequestType, EnvironmentType DEF Next, Environment

(* The command stays between open and closed in both its forms, through    *)
(* rounding, clamping and calibration, and every name is one of its set.   *)
THEOREM TypeCorrect == Spec => []TypeOK
<1> QED BY InitType, TypeStep, PTL DEF Spec

-----------------------------------------------------------------------------
(* Closed means closed.                                                    *)

LEMMA ClosedRounds == Round(FullF) = Full
BY RoundWhole

(* With the types, ForbiddenMeansClosed is inductive: what makes it so is  *)
(* that every stage of a tick maps a closed command to a closed one.       *)
LEMMA ForbiddenStep == TypeOK /\ ForbiddenMeansClosed /\ [Next]_vars => ForbiddenMeansClosed'
<1> SUFFICES ASSUME TypeOK, ForbiddenMeansClosed, [Next]_vars PROVE ForbiddenMeansClosed'
  OBVIOUS
<1> USE DEF ForbiddenMeansClosed, command, request, load, report, config, meter
<1>1. CASE SuspendedTick \/ SkippedTick
  BY <1>1 DEF SuspendedTick, SkippedTick, Close
<1>2. CASE RegulatedTick
  <2>1. by' # "suspend" /\ ovr' = OvrNow
    BY <1>2 DEF RegulatedTick, ClearExpired
  <2>2. ASSUME OvrNow = "off" PROVE hw' = Full
    <3>1. PICK cmd, st : cmd.f \in 0 .. FullF /\ Command(cmd, st) /\ cmd.f = FullF
      BY <1>2, <2>2, RegulatedEffect
    <3> QED BY <3>1, CommandEffect, ClosedRounds
  <2> QED BY <2>1, <2>2
<1>3. CASE Requested
  <2>1. ASSUME NEW state \in {"on", "off", "fixed"}, NEW open \in 0 .. Full, NEW timed \in BOOLEAN,
               ApiOverride(state, open, timed)
        PROVE  ForbiddenMeansClosed'
    <3>1. by' = "api" /\ ovr' = state /\ hw' = Round(f') /\ f' = OverrideCommand(state, open)
      BY <2>1 DEF ApiOverride
    <3>2. state = "off" => f' = FullF
      BY <3>1 DEF OverrideCommand
    <3> QED BY <3>1, <3>2, ClosedRounds
  <2>2. CASE ClearOverride
    BY <2>2 DEF ClearOverride
  <2>3. ASSUME NEW open \in 0 .. Full, MqttOpening(open) PROVE ForbiddenMeansClosed'
    BY <2>3 DEF MqttOpening
  <2> QED BY <1>3, RequestedIs, <2>1, <2>2, <2>3
<1>4. CASE Environment \/ UNCHANGED vars
  BY <1>4 DEF Environment, DeadlinePasses, MqttFallsSilent, Measured, Reconfigured, Unmoved, vars
<1> QED BY <1>1, <1>2, <1>3, <1>4 DEF Next, Tick, Environment

(* A suspension and an OFF override keep the triac closed, whatever runs   *)
(* in between.                                                             *)
THEOREM Forbidden == Spec => []ForbiddenMeansClosed
<1>1. Init => ForbiddenMeansClosed
  BY DEF Init, ForbiddenMeansClosed
<1> QED BY <1>1, ForbiddenStep, TypeCorrect, PTL DEF Spec

LEMMA BackoffStep == TypeOK /\ ReportedBackoffIsClosed /\ [Next]_vars => ReportedBackoffIsClosed'
<1> SUFFICES ASSUME TypeOK, ReportedBackoffIsClosed, [Next]_vars PROVE ReportedBackoffIsClosed'
  OBVIOUS
<1> USE DEF ReportedBackoffIsClosed, command, request, load, report, config, meter
<1>1. CASE SuspendedTick \/ SkippedTick
  BY <1>1 DEF SuspendedTick, SkippedTick, Close
<1>2. CASE RegulatedTick
  <2>1. PICK cmd, st : cmd.f \in 0 .. FullF /\ Command(cmd, st) /\ heaterFlag' = st.backoff
    BY <1>2, RegulatedEffect
  <2> QED BY <2>1, CommandEffect
<1>3. CASE Requested
  BY <1>3, RequestedIs DEF ApiOverride, ClearOverride, MqttOpening
<1>4. CASE Environment \/ UNCHANGED vars
  BY <1>4 DEF Environment, DeadlinePasses, MqttFallsSilent, Measured, Reconfigured, Unmoved, vars
<1> QED BY <1>1, <1>2, <1>3, <1>4 DEF Next, Tick, Environment

(* A backoff that is reported is in force.                                 *)
THEOREM BackoffClosed == Spec => []ReportedBackoffIsClosed
<1>1. Init => ReportedBackoffIsClosed
  BY DEF Init, ReportedBackoffIsClosed
<1> QED BY <1>1, BackoffStep, TypeCorrect, PTL DEF Spec

-----------------------------------------------------------------------------
(* The ceiling, and opening on export only.  Both need a command no later  *)
(* stage raises: they are theorems without calibration (the run            *)
(* "calibration" shows the difference), the second also without the PID,   *)
(* whose derivative may open on import.                                    *)

(* A delay under which the opening is under the ceiling.                   *)
LEMMA Under == ASSUME NEW top \in Int, NEW h \in Int, Full - top <= h PROVE Full - h <= top
OBVIOUS

CeilingInv == TypeOK /\ CeilingHolds

LEMMA CeilingStep == ASSUME ~CalEnabled, CeilingInv, [Next]_vars PROVE CeilingHolds'
<1> USE DEF CeilingHolds, command, request, load, report, config, meter
<1>0. TypeOK /\ CeilingHolds /\ hw \in 0 .. Full /\ ceiling \in 0 .. Full /\ sched \in Schedules
  BY DEF CeilingInv, TypeOK
<1>1. CASE SuspendedTick \/ SkippedTick
  BY <1>1 DEF SuspendedTick, SkippedTick, Close, Open
<1>2. CASE RegulatedTick
  <2> SUFFICES ASSUME by' = "loop" PROVE Open' <= ceiling'
    OBVIOUS
  <2>1. PICK top \in 0 .. Full : ceiling' = top /\ Lowest = (Full - top) * Fine
    BY <1>0, <1>2, Ceiling DEF RegulatedTick
  <2>2. OvrNow = "off" \/ (OvrNow = "auto" /\ ~mqttLive)
    BY <1>0, <1>2 DEF RegulatedTick, OvrNow, TypeOK, Overrides
  <2>3. PICK cmd, st : /\ cmd.f \in 0 .. FullF /\ Command(cmd, st)
                       /\ OvrNow = "off" => cmd.f = FullF
                       /\ OvrNow = "auto" /\ ~mqttLive => Lowest <= cmd.f
    BY <1>0, <1>2, RegulatedEffect
  <2>4. Round(cmd.f) <= hw' /\ hw' \in 0 .. Full /\ Round(cmd.f) \in 0 .. Full
    BY <2>3, CommandEffect, RoundRange
  <2>5. CASE OvrNow = "off"
    <3>1. hw' = Full
      BY <2>3, <2>4, <2>5, ClosedRounds
    <3>2. Open' = Full - hw'
      BY DEF Open
    <3> QED BY <2>1, <3>1, <3>2
  <2>6. CASE OvrNow = "auto" /\ ~mqttLive
    <3>1. Full - top \in Int /\ (Full - top) * Fine <= cmd.f
      BY <2>1, <2>3, <2>6
    <3>2. Full - top <= Round(cmd.f)
      BY <2>3, <3>1, RoundBounds
    <3>3. Open' = Full - hw'
      BY DEF Open
    <3>4. Full - top <= hw'
      BY <2>4, <3>2
    <3>5. hw' \in Int /\ top \in Int /\ ceiling' = top
      BY <2>1, <2>4
    <3>6. Full - hw' <= top
      BY <3>4, <3>5, Under
    <3> QED BY <3>3, <3>5, <3>6
  <2> QED BY <2>2, <2>5, <2>6
<1>3. CASE Requested
  <2>1. by' \in {"api", "mqtt"} \/ UNCHANGED <<hw, ceiling, by>>
    BY <1>3, RequestedIs DEF ApiOverride, ClearOverride, MqttOpening
  <2> QED BY <1>0, <2>1 DEF Open
<1>4. CASE Environment \/ UNCHANGED vars
  <2>1. UNCHANGED <<hw, ceiling, by>>
    BY <1>4 DEF Environment, DeadlinePasses, MqttFallsSilent, Measured, Reconfigured, Unmoved, vars
  <2> QED BY <1>0, <2>1 DEF Open
<1> QED BY <1>1, <1>2, <1>3, <1>4 DEF Next, Tick, Environment

(* In automatic operation the triac is not open beyond the ceiling of its  *)
(* period.                                                                 *)
THEOREM CeilingKept == ASSUME ~CalEnabled PROVE Spec => []CeilingHolds
<1>1. Init => CeilingInv
  BY InitType DEF Init, CeilingInv, CeilingHolds, Open
<1>2. CeilingInv /\ [Next]_vars => CeilingInv'
  BY CeilingStep, TypeStep DEF CeilingInv
<1>3. CeilingInv => CeilingHolds
  BY DEF CeilingInv
<1> QED BY <1>1, <1>2, <1>3, PTL DEF Spec

(* Without calibration the delay the interrupts obey is the rounded        *)
(* command, so the next correction starts from the opening in force.       *)
InStep     == hw = Round(f)
InStepInv  == TypeOK /\ InStep

LEMMA InStepStep == ASSUME ~CalEnabled, InStepInv, [Next]_vars PROVE InStep'
<1> USE DEF InStep, command, request, load, report, config, meter
<1>0. TypeOK /\ InStep
  BY DEF InStepInv
<1>1. CASE SuspendedTick \/ SkippedTick
  BY <1>1, ClosedRounds DEF SuspendedTick, SkippedTick, Close
<1>2. CASE RegulatedTick
  <2>1. PICK cmd, st : cmd.f \in 0 .. FullF /\ Command(cmd, st)
    BY <1>0, <1>2, RegulatedEffect
  <2> QED BY <2>1, CommandEffect
<1>3. CASE Requested
  <2>1. ASSUME NEW state \in {"on", "off", "fixed"}, NEW open \in 0 .. Full, NEW timed \in BOOLEAN,
               ApiOverride(state, open, timed)
        PROVE  InStep'
    BY <2>1 DEF ApiOverride
  <2>2. CASE ClearOverride
    <3>1. f' = f /\ hw' = hw
      BY <2>2 DEF ClearOverride
    <3> QED BY <1>0, <3>1
  <2>3. ASSUME NEW open \in 0 .. Full, MqttOpening(open) PROVE InStep'
    <3>1. f' = (Full - open) * Fine /\ hw' = Full - open /\ Full - open \in Int
      BY <2>3 DEF MqttOpening
    <3> QED BY <3>1, RoundWhole
  <2> QED BY <1>3, RequestedIs, <2>1, <2>2, <2>3
<1>4. CASE Environment \/ UNCHANGED vars
  <2>1. f' = f /\ hw' = hw
    BY <1>4 DEF Environment, DeadlinePasses, MqttFallsSilent, Measured, Reconfigured, Unmoved, vars
  <2> QED BY <1>0, <2>1
<1> QED BY <1>1, <1>2, <1>3, <1>4 DEF Next, Tick, Environment

(* A correction that is not for export does not lower the delay.           *)
LEMMA NotOpening ==
  ASSUME ~Pid, f \in 0 .. FullF, sched \in Schedules, sched # "on", net \in Nets,
         Error # "export", NEW open \in 0 .. Full, NEW c \in Computed("auto", open)
  PROVE  f <= c.f
<1>1. CASE sched = "off"
  <2>1. c = [f |-> FullF, on |-> FALSE]
    BY <1>1 DEF Computed
  <2> QED BY <2>1
<1>2. CASE sched = "surplus"
  <2>1. PICK x \in Integrated : c = [f |-> x, on |-> Round(x) < Full]
    BY <1>2 DEF Computed
  <2>2. PICK k \in Steps : x = Within(f + Correction(Error, k), Lowest, FullF)
    BY <2>1 DEF Integrated, Start
  <2>3. Correction(Error, k) \in Nat
    BY DEF Correction, Nets
  <2>4. Lowest \in 0 .. FullF
    BY Ceiling
  <2>5. f <= x
    BY <2>2, <2>3, <2>4 DEF Within
  <2>6. c.f = x
    BY <2>1, Zenon
  <2> QED BY <2>5, <2>6
<1> QED BY <1>1, <1>2 DEF Schedules

LEMMA ExportStep ==
  ASSUME ~CalEnabled, ~Pid, InStepInv, [Next]_vars, hw' < hw, by' = "loop"
  PROVE  net = "export" \/ sched = "on" \/ limit = "on"
<1> USE DEF command, request, load, report, config, plan, meter
<1>0. /\ TypeOK /\ hw = Round(f) /\ f \in 0 .. FullF /\ hw \in 0 .. Full /\ ovrOpen \in 0 .. Full
      /\ sched \in Schedules /\ net \in Nets
  BY DEF InStepInv, InStep, TypeOK
<1>1. CASE SuspendedTick \/ SkippedTick
  BY <1>0, <1>1 DEF SuspendedTick, SkippedTick, Close
<1>2. CASE RegulatedTick
  <2>1. OvrNow = "off" \/ (OvrNow = "auto" /\ ~mqttLive)
    BY <1>0, <1>2 DEF RegulatedTick, OvrNow, TypeOK, Overrides
  <2>2. PICK cmd, st : /\ cmd.f \in 0 .. FullF /\ Command(cmd, st)
                       /\ OvrNow = "off" => cmd.f = FullF
                       /\ OvrNow = "auto" /\ ~mqttLive
                            => cmd \in Computed("auto", ovrOpen)
    BY <1>0, <1>2, RegulatedEffect
  <2>3. Round(cmd.f) <= hw' /\ Round(cmd.f) \in 0 .. Full /\ hw' \in 0 .. Full
    BY <2>2, CommandEffect, RoundRange
  <2>4. CASE OvrNow = "off"
    BY <1>0, <2>2, <2>3, <2>4, ClosedRounds
  <2>5. ASSUME OvrNow = "auto", ~mqttLive, net # "export", sched # "on", limit # "on" PROVE FALSE
    <3>1. f <= cmd.f
      <4>1. Error # "export"
        BY <2>5 DEF Error
      <4> QED BY <1>0, <2>2, <2>5, <4>1, NotOpening
    <3>2. Round(f) <= Round(cmd.f)
      BY <1>0, <2>2, <3>1, RoundMonotone
    <3> QED BY <1>0, <2>3, <3>2
  <2> QED BY <2>1, <2>4, <2>5
<1>3. CASE Requested
  <2>1. by' \in {"api", "mqtt"} \/ hw' = hw
    BY <1>3, RequestedIs DEF ApiOverride, ClearOverride, MqttOpening
  <2> QED BY <1>0, <2>1
<1>4. CASE Environment \/ UNCHANGED vars
  <2>1. hw' = hw
    BY <1>4 DEF Environment, DeadlinePasses, MqttFallsSilent, Measured, Reconfigured, Unmoved, vars
  <2> QED BY <1>0, <2>1
<1> QED BY <1>1, <1>2, <1>3, <1>4 DEF Next, Tick, Environment

(* In automatic operation the loop opens the triac further only on export, *)
(* in an ON period or against the threshold of one, whatever override,     *)
(* reading, feedback or cap came before.                                   *)
THEOREM OpensOnExport == ASSUME ~CalEnabled, ~Pid PROVE Spec => OpensOnlyOnExport
<1>1. Init => InStepInv
  BY InitType, ClosedRounds DEF Init, InStepInv, InStep
<1>2. InStepInv /\ [Next]_vars => InStepInv'
  BY InStepStep, TypeStep DEF InStepInv
<1>3. InStepInv /\ [Next]_vars
        => [hw' < hw /\ by' = "loop" => net = "export" \/ sched = "on" \/ limit = "on"]_vars
  BY ExportStep
<1> QED BY <1>1, <1>2, <1>3, PTL DEF Spec, OpensOnlyOnExport
=============================================================================
