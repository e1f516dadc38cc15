------------------------------ MODULE AuxChannel ------------------------------
(***************************************************************************)
(* A local auxiliary channel (index 1 and up): the part of the 200 ms tick *)
(* that regulates it (core/balansun_regulation_runtime.cpp), the outputs   *)
(* it stops (core/balansun_load_runtime.cpp) and the 10 ms interrupt that  *)
(* drives its pin (core/balansun_pulse_modes.cpp).  The interrupt preempts *)
(* the tick between any two of its writes, so the tick is a sequence of    *)
(* steps: a decision, then a stop, or the two writes of a pulse pattern.   *)
(*                                                                         *)
(* The channel switches one pin both ways (path_on and path_off name the   *)
(* same GPIO) and its paths have no init= option.  Delays count Full units *)
(* (100 percent: closed).  On, which only telemetry reads, is left out.    *)
(*                                                                         *)
(* The names the specification shares with others have a prefix: the       *)
(* theorems about it are in one module with those about ActionNode.        *)
(*                                                                         *)
(* A definition named ...Fault is a seeded error in the definition after   *)
(* it, kept to show that the properties can fail; no specification uses it. *)
(***************************************************************************)
EXTENDS Integers

CONSTANTS
  Full,        \* units of delay of a closed channel
  Modes,       \* regulation modes the configuration may select
  OutOn,       \* pin level that energises the load (out= of path_on)
  MaxOpen,     \* power_max of a surplus period, as an opening
  SinusOn,     \* half waves conducted per multi-sine period, by opening
  SinusTotal,  \* length of the multi-sine period, by opening
  PwmMatches,  \* the PWM channel written is the one attached to the pin
  CounterCap   \* bound of this model on the half-sine accumulator

ASSUME AuxAssumption ==
  /\ Full \in Nat /\ Full > 1 /\ MaxOpen \in 0 .. Full
  /\ Modes \subseteq {"inactive", "onoff", "multi", "train", "demi", "pwm"}
  /\ OutOn \in {0, 1} /\ PwmMatches \in BOOLEAN
  /\ SinusOn \in [0 .. Full -> Nat] /\ SinusTotal \in [0 .. Full -> Nat \ {0}]
  /\ CounterCap \in Nat /\ CounterCap > Full /\ \A o \in 0 .. Full : SinusTotal[o] <= CounterCap

VARIABLES
  f,          \* g_triac_delay_percent_f[i], in whole units
  d,          \* g_triac_delay_percent[i]
  integ,      \* g_surplus_integrator[i]
  pulseOn,    \* g_pulse_on[i]
  pulseTotal, \* g_pulse_total[i]
  counter,    \* g_pulseCounter[i]
  phase,      \* g_phase_230v
  pin,        \* level of the pin
  step,       \* where the tick is: between ticks or before one of its writes
  mode,       \* load_channels[i].Actif
  sched,      \* schedule_type_at
  suspended,  \* the outputs are suspended
  net,        \* grid power against the thresholds of the period
  synced,     \* zc_sync_state >= 0: zero crossings arrive
  fired,      \* history: phase of the last half wave fired in half-sine mode
  last        \* history: what the last whole tick did, under this configuration

delays == <<f, d, integ>>
pulse  == <<pulseOn, pulseTotal, counter>>
config == <<mode, sched, suspended, net, synced>>
auxVars == <<delays, pulse, phase, pin, step, config, fired, last>>

OutOff == 1 - OutOn
Within(x, lo, hi) == IF x < lo THEN lo ELSE IF x > hi THEN hi ELSE x
AtMost(x, hi)     == IF x > hi THEN hi ELSE x

AuxInit ==
  /\ f = Full /\ d = Full /\ integ = Full
  /\ pulseOn = 0 /\ pulseTotal = Full /\ counter = 0 /\ phase = FALSE
  /\ pin = OutOff /\ step = "idle"
  /\ mode \in Modes /\ sched \in {"off", "on", "surplus"}
  /\ suspended \in BOOLEAN /\ net = "between" /\ synced \in BOOLEAN
  /\ fired = "none" /\ last = "none"

-----------------------------------------------------------------------------
(* The tick.                                                               *)

(* balansun_regulation_compute_action for a channel that is not the first: *)
(* the decisions, each the new f, d and integrator.                        *)
Switched == IF net = "above" THEN Full ELSE IF net = "below" THEN 0 ELSE f

Integrated(k) == Within(integ + k, 0, Full)

Ceiled(x) == IF x < Full - MaxOpen THEN Full - MaxOpen ELSE x

Decisions ==
  CASE sched = "off" -> {[f |-> Full, d |-> d, integ |-> Full]}
    [] sched = "on"  -> {[f |-> 0, d |-> 0, integ |-> integ]}
    [] mode = "onoff" -> {[f |-> Switched, d |-> Switched, integ |-> integ]}
    [] OTHER -> {[f |-> Ceiled(i), d |-> Ceiled(i), integ |-> i] :
                   i \in CASE net = "below" -> {Integrated(-1)}
                           [] net = "above" -> {Integrated(1)}
                           [] OTHER -> {Integrated(-1), Integrated(0), Integrated(1)}}

(* Suspended outputs and inactive channels are closed before they stop.    *)
CloseFault == UNCHANGED <<f, d>>
Close      == f' = Full /\ d' = Full

ForcedOff ==
  /\ step = "idle"
  /\ suspended \/ mode = "inactive"
  /\ Close /\ step' = IF suspended THEN "suspend" ELSE "stop"
  /\ UNCHANGED <<integ, pulse, phase, pin, config, fired, last>>

(* balansun_pulse_modes_apply_regulation_output has nothing to write for   *)
(* relays and PWM.                                                         *)
PulseModes == {"multi", "train", "demi"}

Decide ==
  /\ step = "idle" /\ ~suspended /\ mode # "inactive"
  /\ \E r \in Decisions :
       /\ f' = r.f /\ d' = r.d /\ integ' = r.integ
       /\ step' = IF r.d = Full THEN "stop" ELSE IF mode \in PulseModes THEN "on" ELSE "idle"
       /\ last' = IF r.d = Full THEN last ELSE "drive"
  /\ UNCHANGED <<pulse, phase, pin, config, fired>>

(* StopOutputs on a single pin: OutOff, then LOW.                          *)
StoppedFault == pin
Stopped      == 0

Stop ==
  /\ step \in {"stop", "suspend"} /\ step' = "idle"
  /\ pin' = Stopped /\ last' = step
  /\ UNCHANGED <<f, d, integ, pulse, phase, config, fired>>

ApplyOn ==
  /\ step = "on" /\ step' = "total"
  /\ pulseOn' = IF mode = "multi" THEN SinusOn[Full - d] ELSE Full - d
  /\ UNCHANGED <<delays, pulseTotal, counter, phase, pin, config, fired, last>>

(* A half-sine channel keeps the phase it is to fire next, 0 or 1, in      *)
(* pulse_total; the value of another mode is reset.                        *)
DemiTotalFault == 0
DemiTotal      == IF pulseTotal > 1 THEN 0 ELSE pulseTotal

ApplyTotal ==
  /\ step = "total" /\ step' = "idle"
  /\ pulseTotal' = CASE mode = "multi" -> SinusTotal[Full - d]
                     [] mode = "train" -> Full - 1
                     [] OTHER -> DemiTotal
  /\ counter' = IF mode = "multi" /\ counter >= pulseTotal' THEN 0 ELSE counter
  /\ fired' = IF mode = "demi" /\ pulseTotal <= 1 THEN fired ELSE "none"
  /\ UNCHANGED <<delays, pulseOn, phase, pin, config, last>>

-----------------------------------------------------------------------------
(* The 10 ms interrupt, balansun_pulse_modes_tick_10ms, which              *)
(* balansun_half_cycle_tick_isr calls only while no zero crossing arrives.  *)

RelayTick ==
  /\ pin' = IF d < Full THEN OutOn ELSE pin
  /\ UNCHANGED <<counter, pulseTotal, fired>>

PwmTick ==
  /\ pin' = IF PwmMatches THEN IF f < Full THEN OutOn ELSE OutOff ELSE pin
  /\ UNCHANGED <<counter, pulseTotal, fired>>

(* The half wave of a half-sine channel: fires the phase in turn once a    *)
(* whole one has accumulated.                                              *)
Turn(p, total) == (p /\ total = 0) \/ (~p /\ total = 1)

DemiTick ==
  LET sum == counter + pulseOn
      fires == Turn(phase', pulseTotal) /\ sum >= Full
  IN /\ pin' = IF fires THEN OutOn ELSE OutOff
     /\ pulseTotal' = IF fires THEN IF phase' THEN 1 ELSE 0 ELSE pulseTotal
     /\ counter' = AtMost(IF fires THEN sum - Full ELSE sum, CounterCap)
     /\ fired' = IF fires THEN IF phase' THEN "positive" ELSE "negative" ELSE fired

TrainStepFault(c) == c
TrainStep(c)      == IF c + 1 >= pulseTotal THEN 0 ELSE c + 1

TrainTick ==
  LET c == IF counter >= pulseTotal THEN 0 ELSE counter
  IN /\ pin' = IF c < pulseOn THEN OutOn ELSE OutOff
     /\ counter' = TrainStep(c)
     /\ UNCHANGED <<pulseTotal, fired>>

HalfCycle ==
  /\ ~synced
  /\ phase' = ~phase
  /\ CASE mode = "inactive" -> UNCHANGED <<pin, counter, pulseTotal, fired>>
       [] mode = "onoff"    -> RelayTick
       [] mode = "pwm"      -> PwmTick
       [] mode = "demi"     -> DemiTick
       [] OTHER             -> TrainTick
  /\ UNCHANGED <<f, d, integ, pulseOn, step, config, last>>

-----------------------------------------------------------------------------
(* Environment.                                                            *)
Unmoved == UNCHANGED <<delays, pulse, phase, pin, step>>

Measured ==
  /\ net' \in {"below", "between", "above"} \ {net}
  /\ Unmoved /\ UNCHANGED <<mode, sched, suspended, synced, fired, last>>

SyncChanges ==
  /\ synced' = ~synced
  /\ Unmoved /\ UNCHANGED <<mode, sched, suspended, net, fired, last>>

(* Configuration and suspension change on the loop, between two ticks.     *)
Reconfigured ==
  /\ step = "idle"
  /\ \/ mode' \in Modes \ {mode} /\ fired' = "none" /\ UNCHANGED <<sched, suspended>>
     \/ sched' \in {"off", "on", "surplus"} \ {sched} /\ UNCHANGED <<mode, suspended, fired>>
     \/ suspended' = ~suspended /\ UNCHANGED <<mode, sched, fired>>
  /\ last' = "none"
  /\ Unmoved /\ UNCHANGED <<net, synced>>

AuxTick == ForcedOff \/ Decide \/ Stop \/ ApplyOn \/ ApplyTotal
AuxNext == AuxTick \/ HalfCycle \/ Measured \/ SyncChanges \/ Reconfigured
AuxSpec == AuxInit /\ [][AuxNext]_auxVars

(* The loop ticks every 200 ms and the hardware timer every 10 ms.         *)
AuxFairSpec == AuxSpec /\ WF_auxVars(AuxTick) /\ WF_auxVars(HalfCycle)

-----------------------------------------------------------------------------
AuxTypeOK ==
  /\ f \in 0 .. Full /\ d \in 0 .. Full /\ integ \in 0 .. Full
  /\ pulseOn \in Nat /\ pulseTotal \in Nat /\ counter \in 0 .. CounterCap
  /\ phase \in BOOLEAN /\ pin \in {0, 1}
  /\ step \in {"idle", "stop", "suspend", "on", "total"}
  /\ mode \in Modes /\ sched \in {"off", "on", "surplus"}
  /\ suspended \in BOOLEAN /\ net \in {"below", "between", "above"} /\ synced \in BOOLEAN
  /\ fired \in {"none", "positive", "negative"} /\ last \in {"none", "stop", "suspend", "drive"}

Energised == pin = OutOn

(* A relay or an inactive channel that a tick stopped or suspended stays   *)
(* released until a tick drives it again, wherever the interrupt preempts. *)
StoppedRelayStaysReleased ==
  mode \in {"onoff", "inactive"} /\ last \in {"stop", "suspend"} => ~Energised

(* A half-sine channel fires the two half waves of the mains in turn, so   *)
(* the load draws no direct current, whatever the opening does meanwhile.  *)
HalfSinesAlternate ==
  [][HalfCycle /\ mode = "demi" /\ pin' = OutOn => fired' # fired]_auxVars

(* A pulse train neither sticks on nor off while its pattern has both, and *)
(* its counter stays inside the pattern, whatever mode left it behind.     *)
TrainSteady ==
  /\ ~synced /\ ~suspended /\ mode = "train" /\ sched = "surplus" /\ net = "between"
  /\ pulseOn > 0 /\ pulseOn < pulseTotal

TrainAlternates == <>[]TrainSteady => []<>Energised /\ []<>~Energised

(* Without zero crossings a relay follows the thresholds of its window.    *)
RelayRegulated == mode = "onoff" /\ sched = "surplus" /\ ~suspended

UnsyncedRelayFollows ==
  /\ <>[](RelayRegulated /\ ~synced /\ net = "below") => <>[]Energised
  /\ <>[](RelayRegulated /\ net = "above") => <>[]~Energised

-----------------------------------------------------------------------------
(* What the documents say and the code does not do.                        *)

(* "auxiliary actions stopped" (balansun_regulation_safety.h): a channel   *)
(* the suspension stopped stays released until it ends. No run checks this *)
(* one: the 10 ms interrupt goes on with the pattern.                      *)
SuspendedStaysReleased == last = "suspend" => ~Energised

(* "turn on when house power is below this value" (fieldHelp), with the    *)
(* mains present like anywhere the router runs. No run checks this one:    *)
(* the interrupt that drives the relay runs only without zero crossings,   *)
(* and TLC finds it violated.                                              *)
RelayFollowsExport == <>[](RelayRegulated /\ synced /\ net = "below") => <>[]Energised
=============================================================================
