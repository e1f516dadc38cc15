--------------------------- MODULE TriacRegulation ---------------------------
(***************************************************************************)
(* Channel 0 of the surplus regulation: what the 200 ms tick of the main   *)
(* loop commands to the triac (core/balansun_regulation_runtime.cpp and    *)
(* the decisions it calls), together with the three writers that bypass    *)
(* it: override requests, MQTT readings bound to the opening, and          *)
(* configuration.  All of them run on the main loop, so each is one step;  *)
(* the measurements come from the metering task and change at any time.    *)
(*                                                                         *)
(* The integer command counts Full units of delay (100 percent: closed),   *)
(* the floating-point command Fine parts of a unit.                        *)
(*                                                                         *)
(* A definition named ...Fault is a seeded error in the definition after   *)
(* it, kept to show that the properties can fail; no specification uses it. *)
(***************************************************************************)
EXTENDS Integers

CONSTANTS
  Full,         \* units of delay of a closed triac
  Fine,         \* parts of a unit the floating-point command tells apart
  Steps,        \* magnitudes of error * ki in one tick, in parts of a unit
  MinDelay,     \* delay at the ceiling of a surplus period (100 - power_max)
  Pid,          \* expert PID: the result is any opening under the ceiling
  Feedback,     \* triacBackoffWhenHeaterIdle, with a second channel
  MinOpen,      \* min_triac_open_percent of the load feedback
  ReleaseOpen,  \* release_triac_open_percent of the load feedback
  Hold,         \* idle_hold_ms, in ticks
  SiteCap,      \* maxRoutedW is set
  CalEnabled,   \* g_triac_cal.enabled
  CalPoints,    \* g_triac_cal.points: duties in units, measured powers
  Openings      \* openings requests and readings ask for

ASSUME RegulationAssumption ==
  /\ Full \in Nat /\ Full > 0 /\ Fine \in Nat /\ Fine > 0
  /\ Steps \subseteq Nat \ {0}
  /\ MinDelay \in 0 .. Full - 1
  /\ {Pid, Feedback, SiteCap, CalEnabled} \subseteq BOOLEAN
  /\ ReleaseOpen \in 1 .. MinOpen /\ MinOpen \in 1 .. Full
  /\ Hold \in Nat
  /\ CalPoints \in [1 .. 3 -> [duty : Nat, watts : Nat]]
  /\ Openings \subseteq 0 .. Full

VARIABLES
  f,          \* g_triac_delay_percent_f[0]
  hw,         \* triac_delay_percent, the delay the interrupts obey
  on,         \* load_channels[0].On
  ovr,        \* load_channels[0].OverrideState
  ovrOpen,    \* load_channels[0].OverrideTriacPercent
  deadline,   \* OverrideUntilMillis against the clock
  backoff,    \* g_heater_load_feedback_state.backoff_active
  suspect,    \* ... .suspect_active
  suspectAge, \* ticks since ... .suspect_since_ms, saturating at Hold
  heaterFlag, \* heaterLoadBackoffActive, as reported
  siteFlag,   \* siteCapActive, as reported
  ceiling,    \* triac_ceiling_percent of the state snapshot, as reported
  mqttLive,   \* a bound opening was received lately
  meterValid, \* meter_reading_valid
  barred,     \* load_channels[0] is inactive, or its daily cap is hit
  sched,      \* current_triac_schedule_type: the period whose temperature fits
  limit,      \* the period the thresholds come from, which looks at time alone
  suspended,  \* vacation, or stale source with the cut enabled
  net,        \* grid_net_w against power_min of the period
  second,     \* power of the routed load on the second channel
  by          \* history: who chose the delay the interrupts obey: a tick in
              \* automatic operation ("loop") or under an override ("manual"),
              \* a suspended tick ("suspend"), a request ("api") or a reading ("mqtt")

command == <<f, hw, on>>
request == <<ovr, ovrOpen, deadline>>
load    == <<backoff, suspect, suspectAge, heaterFlag>>
report  == <<siteFlag, ceiling>>
plan    == <<sched, limit>>
config  == <<meterValid, barred, plan, suspended>>
meter   == <<net, second>>
vars == <<command, request, load, report, mqttLive, config, meter, by>>

Overrides == {"auto", "off", "on", "fixed"}
Schedules == {"off", "on", "surplus"} \* no period or type 1, types 2 and 3
Limits    == {"none", "on", "other"}  \* no period, type 2, types 1 and 3
Plans     == {p \in Schedules \X Limits : p[2] = "none" => p[1] = "off"}
Nets      == {"export", "zero", "import"}
Seconds   == {"idle", "between", "load"}

FullF == Full * Fine

Round(x) == (2 * x + Fine) \div (2 * Fine)
Within(x, lo, hi) == IF x < lo THEN lo ELSE IF x > hi THEN hi ELSE x
AtMost(x, hi) == IF x > hi THEN hi ELSE x

(* Openings and delays count the same units from the two ends.             *)
d == Round(f)                               \* g_triac_delay_percent[0]
Open == Full - hw

Init ==
  /\ f = FullF /\ hw = Full /\ on = FALSE
  /\ ovr = "auto" /\ ovrOpen = 0 /\ deadline = "none"
  /\ backoff = FALSE /\ suspect = FALSE /\ suspectAge = 0 /\ heaterFlag = FALSE
  /\ siteFlag = FALSE /\ ceiling = Full /\ mqttLive = FALSE
  /\ meterValid = FALSE /\ barred \in BOOLEAN /\ suspended \in BOOLEAN
  /\ sched \in Schedules /\ limit \in Limits /\ plan \in Plans
  /\ net = "zero" /\ second = "idle"
  /\ by = "loop"

-----------------------------------------------------------------------------
(* Decisions of one tick.                                                  *)

(* actions_logic_override_tick_all *)
Expired == deadline = "passed"
OvrNow  == IF Expired THEN "auto" ELSE ovr

(* actions_logic_threshold_max: the ceiling of the period the time is in.  *)
ThresholdMax == CASE limit = "none" -> 0 [] limit = "on" -> Full [] OTHER -> Full - MinDelay

(* actions_logic_threshold_min: no house imports the 32000 W of an ON      *)
(* period, so against that threshold everything is an export.              *)
Error == IF limit = "on" THEN "export" ELSE net

(* balansun_regulation_compute_action, schedule type 3, channel 0: the     *)
(* integrator restarts from the current command and stays between the      *)
(* ceiling of the period and closed.                                       *)
LowestFault == 0
Lowest      == (Full - ThresholdMax) * Fine

CorrectionFault(error, k) == CASE error = "import" -> -k [] error = "export" -> k [] OTHER -> 0
Correction(error, k)      == CASE error = "import" -> k [] error = "export" -> -k [] OTHER -> 0

StartFault == d * Fine
Start      == f

Integrated ==
  IF Pid THEN Lowest .. FullF
         ELSE {Within(Start + Correction(Error, k), Lowest, FullF) : k \in Steps}

(* A ceiling of 0 means 100 for an ON override.                            *)
FullyOn == IF ThresholdMax = 0 THEN 0 ELSE Lowest

(* balansun_regulation_compute_triac: the possible commands with their On. *)
Computed(override, open) ==
  CASE override = "off"   -> {[f |-> FullF, on |-> FALSE]}
    [] override = "on"    -> {[f |-> FullyOn, on |-> TRUE]}
    [] override = "fixed" -> {[f |-> (Full - open) * Fine, on |-> open > 0]}
    [] OTHER ->
         CASE sched = "off" -> {[f |-> FullF, on |-> FALSE]}
           [] sched = "on"  -> {[f |-> Lowest, on |-> Lowest < FullF]}
           [] OTHER         -> {[f |-> x, on |-> Round(x) < Full] : x \in Integrated}

(* balansun_heater_load_feedback_logic_tick, on the opening just computed. *)
NoLoadState == [backoff |-> FALSE, suspect |-> FALSE, age |-> 0]

ReleasedFault(open) == open < ReleaseOpen
Released(open)      == second = "load" \/ open < ReleaseOpen
LoadMissing(open)   == open >= MinOpen /\ second = "idle"

Suspected(st) == IF ~st.suspect THEN [NoLoadState EXCEPT !.suspect = TRUE]
                 ELSE IF st.age >= Hold THEN [NoLoadState EXCEPT !.backoff = TRUE]
                 ELSE st

HeaterFeedback(open, st) ==
  IF ~Feedback THEN NoLoadState
  ELSE IF st.backoff THEN IF Released(open) THEN NoLoadState ELSE st
  ELSE IF LoadMissing(open) THEN Suspected(st) ELSE NoLoadState

(* balansun_site_cap_logic_clamp_triac_open: an estimate above the cap     *)
(* scales the opening down; the estimate is read after the feedback ran.   *)
SiteClamped(open) == {open} \union IF SiteCap THEN 0 .. open - 1 ELSE {}

(* balansun_triac_calibration_apply_open_percent, with the division of C.  *)
Abs(x)         == IF x < 0 THEN -x ELSE x
Quotient(a, b) == IF a < 0 <=> b < 0 THEN Abs(a) \div Abs(b) ELSE -(Abs(a) \div Abs(b))

Lerp(p, q, x) ==
  IF p.duty = q.duty THEN p.watts
  ELSE p.watts + Quotient((q.watts - p.watts) * (x - p.duty), q.duty - p.duty)

Calibrated(open) ==
  LET i       == IF open <= CalPoints[2].duty THEN 1 ELSE 2
      target  == Lerp(CalPoints[i], CalPoints[i + 1], open)
      nominal == IF CalPoints[2].watts = 0 THEN 1 ELSE CalPoints[2].watts
      unset   == \A j \in 1 .. 3 : CalPoints[j].duty = 0
  IN IF ~CalEnabled \/ unset \/ target <= 0 THEN open
     ELSE AtMost((open * nominal) \div target, Full)

-----------------------------------------------------------------------------
(* The tick: balansun_apply_surplus_regulation.                            *)

SetLoad(st) == /\ backoff' = st.backoff
               /\ suspect' = st.suspect
               /\ suspectAge' = st.age

(* The load state as a tick finds it, suspect_since_ms having aged.        *)
Aged == [backoff |-> backoff, suspect |-> suspect,
         age |-> IF suspect THEN AtMost(suspectAge + 1, Hold) ELSE 0]

ClearExpired == /\ ovr' = OvrNow
                /\ ovrOpen' = IF Expired THEN 0 ELSE ovrOpen
                /\ deadline' = IF Expired THEN "none" ELSE deadline

(* balansun_regulation_force_outputs_off: the early return leaves expired  *)
(* overrides in place.                                                     *)
CloseFault == f' = FullF /\ hw' = hw
Close      == f' = FullF /\ hw' = Full

SuspendedTick ==
  /\ meterValid /\ suspended
  /\ Close
  /\ on' = FALSE
  /\ SetLoad(NoLoadState)
  /\ heaterFlag' = FALSE /\ siteFlag' = FALSE /\ ceiling' = Full
  /\ by' = "suspend"
  /\ UNCHANGED <<request, mqttLive, config, meter>>

(* A barred channel 0: the loop continues with the next channel and leaves *)
(* On, the load feedback and the flags alone.                              *)
SkippedTick ==
  /\ meterValid /\ ~suspended /\ barred
  /\ ClearExpired
  /\ Close
  /\ SetLoad(Aged) /\ ceiling' = Full
  /\ by' = "loop"
  /\ UNCHANGED <<on, heaterFlag, siteFlag, mqttLive, config, meter>>

(* What the interrupts obey after the feedback, the cap and the            *)
(* calibration; any of them leaves the command in whole units.             *)
Command(cmd, st) ==
  LET computed == Full - Round(cmd.f)
      kept     == IF st.backoff THEN 0 ELSE computed
  IN \E clamped \in SiteClamped(kept) :
       LET final == Calibrated(clamped) IN
       /\ hw' = Full - final
       /\ f' = IF st.backoff \/ clamped # kept \/ CalEnabled THEN (Full - final) * Fine ELSE cmd.f
       /\ on' = cmd.on
       /\ siteFlag' = (clamped # kept)

RegulatedTick ==
  /\ meterValid /\ ~suspended /\ ~barred
  /\ ClearExpired
  /\ LET live == OvrNow = "auto" /\ mqttLive
         cmds == IF live THEN {[f |-> f, on |-> d < Full]}
                         ELSE Computed(OvrNow, ovrOpen)
     IN /\ \E cmd \in cmds :
             LET open == Full - Round(cmd.f)
                 st == IF OvrNow = "auto" THEN HeaterFeedback(open, Aged) ELSE NoLoadState
             IN /\ SetLoad(st)
                /\ heaterFlag' = st.backoff
                /\ Command(cmd, st)
        /\ by' = IF live THEN "mqtt" ELSE IF OvrNow \in {"on", "fixed"} THEN "manual" ELSE "loop"
        /\ ceiling' = ThresholdMax
  /\ UNCHANGED <<mqttLive, config, meter>>

Tick == SuspendedTick \/ SkippedTick \/ RegulatedTick

-----------------------------------------------------------------------------
(* Requests.                                                               *)

(* ApiSetActionOverride with api_sync_action0_override_triac: the command  *)
(* and the delay the interrupts obey change at once; the ceiling of that   *)
(* computation is the default, 100 percent.                                *)
OverrideCommandFault(state, open) == f
OverrideCommand(state, open) ==
  CASE state = "off" -> FullF
    [] state = "on"  -> 0
    [] OTHER         -> (Full - open) * Fine

ApiOverride(state, open, timed) ==
  /\ ovr' = state
  /\ ovrOpen' = open
  /\ deadline' = IF timed THEN "running" ELSE "none"
  /\ f' = OverrideCommand(state, open)
  /\ hw' = Round(f')
  /\ by' = "api"
  /\ UNCHANGED <<on, load, report, mqttLive, config, meter>>

ClearOverride ==
  /\ ovr' = "auto" /\ ovrOpen' = 0 /\ deadline' = "none"
  /\ UNCHANGED <<command, load, report, mqttLive, config, meter, by>>

(* Auto requested, or an expired override found while it is read.          *)
ApiAuto      == ovr # "auto" /\ ClearOverride
ReadOverride == Expired /\ ClearOverride

(* apply_metric_value, metric triac.open_percent.                          *)
MqttOpening(open) ==
  /\ f' = (Full - open) * Fine /\ hw' = Full - open
  /\ mqttLive' = TRUE
  /\ by' = "mqtt"
  /\ UNCHANGED <<on, request, load, report, config, meter>>

-----------------------------------------------------------------------------
(* Environment: time, measurements, configuration.                         *)
Unmoved == UNCHANGED <<command, load, report, by>>

DeadlinePasses ==
  /\ deadline = "running" /\ deadline' = "passed"
  /\ Unmoved /\ UNCHANGED <<ovr, ovrOpen, mqttLive, config, meter>>

MqttFallsSilent ==
  /\ mqttLive /\ mqttLive' = FALSE
  /\ Unmoved /\ UNCHANGED <<request, config, meter>>

Measured ==
  /\ net' \in Nets /\ second' \in Seconds /\ meterValid' = TRUE
  /\ Unmoved /\ UNCHANGED <<request, mqttLive, barred, plan, suspended>>

Reconfigured ==
  /\ \/ barred' = ~barred /\ UNCHANGED <<plan, suspended>>
     \/ /\ sched' \in Schedules /\ limit' \in Limits /\ plan' \in Plans
        /\ UNCHANGED <<barred, suspended>>
     \/ suspended' = ~suspended /\ UNCHANGED <<barred, plan>>
  /\ Unmoved /\ UNCHANGED <<request, mqttLive, meter, meterValid>>

Requested ==
  \/ \E timed \in BOOLEAN : \/ \E state \in {"on", "off"} : ApiOverride(state, 0, timed)
                            \/ \E open \in Openings : ApiOverride("fixed", open, timed)
  \/ ApiAuto \/ ReadOverride
  \/ \E open \in Openings : MqttOpening(open)

Next == Tick \/ Requested \/ DeadlinePasses \/ MqttFallsSilent \/ Measured \/ Reconfigured

Spec == Init /\ [][Next]_vars

(* The loop ticks every 200 ms once a measurement was valid; nothing is    *)
(* assumed of requests, measurements or configuration.                     *)
FairSpec == Spec /\ WF_vars(Tick)

-----------------------------------------------------------------------------
TypeOK ==
  /\ f \in 0 .. FullF /\ hw \in 0 .. Full /\ on \in BOOLEAN
  /\ ovr \in Overrides /\ ovrOpen \in 0 .. Full /\ deadline \in {"none", "running", "passed"}
  /\ backoff \in BOOLEAN /\ suspect \in BOOLEAN /\ suspectAge \in 0 .. Hold
  /\ heaterFlag \in BOOLEAN /\ siteFlag \in BOOLEAN /\ mqttLive \in BOOLEAN
  /\ ceiling \in 0 .. Full
  /\ meterValid \in BOOLEAN /\ barred \in BOOLEAN /\ suspended \in BOOLEAN
  /\ sched \in Schedules /\ limit \in Limits /\ plan \in Plans
  /\ net \in Nets /\ second \in Seconds
  /\ by \in {"loop", "manual", "suspend", "mqtt", "api"}

(* A suspended tick closes the triac for the interrupts, and so does an    *)
(* OFF override for as long as it stands, whatever tick, expiry, cap or    *)
(* reconfiguration comes in between; only a bound MQTT reading reopens it. *)
ForbiddenMeansClosed ==
  /\ by = "suspend" => hw = Full
  /\ ovr = "off" /\ by # "mqtt" => hw = Full

(* While the load feedback is reported as holding the triac off, the loop  *)
(* does hold it off, also in the ticks that skip the feedback: proved, so  *)
(* no run checks this one.                                                 *)
ReportedBackoffIsClosed == heaterFlag /\ by \notin {"api", "mqtt"} => hw = Full

(* In automatic operation the triac is never open beyond the ceiling the   *)
(* tick reports, whatever opening an override, a reading or another        *)
(* period left to start from.                                              *)
CeilingHolds == by = "loop" => Open <= ceiling

(* In automatic operation the loop opens the triac further only on export  *)
(* or in an ON period, whoever chose the opening before.  The exception is *)
(* a surplus period in force while the thresholds come from an ON period   *)
(* out of its temperatures: it regulates against 32000 W.                  *)
OpensOnlyOnExport ==
  [][hw' < hw /\ by' = "loop" => net = "export" \/ sched = "on" \/ limit = "on"]_vars

(* A regulated import, with nobody else writing, closes the triac for good *)
(* however small the correction of one tick is.                            *)
Undisturbed == meterValid /\ ~suspended /\ ~barred /\ ovr = "auto" /\ ~mqttLive

ImportCloses ==
  <>[](Undisturbed /\ sched = "surplus" /\ limit # "on" /\ net = "import") => <>[](hw = Full)

(* Once the load draws power again, the feedback lets go of the triac.     *)
LoadEndsBackoff == <>[](Undisturbed /\ second = "load") => <>[](~heaterFlag)

-----------------------------------------------------------------------------
(* What the documents say and the code does not do.                        *)

(* "triac held off while CH2 reads no load" (en.ts): with surplus left and *)
(* the load still idle, a tick of the regulation keeps the backoff. No run *)
(* checks this one: the closed triac is what releases the backoff.         *)
HeldWhileIdle ==
  [][heaterFlag /\ second = "idle" /\ net = "export" /\ RegulatedTick /\ ovr' = "auto"
       => heaterFlag']_vars
=============================================================================
