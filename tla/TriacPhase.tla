----------------------------- MODULE TriacPhase -----------------------------
(***************************************************************************)
(* The phase-cut triac output: the zero-cross interrupt, the 100 us phase  *)
(* timer, the 10 ms timer and the main-loop writes they interleave with    *)
(* (core/balansun_triac_isr.cpp, lib/balansun-core/src/triac.cpp).         *)
(*                                                                         *)
(* Time is counted in phase ticks of 100 us.  Elapse lets one tick pass    *)
(* and makes the timer interrupts of that tick due; the handlers run to    *)
(* completion (they share a core and a priority) in either order before    *)
(* the next tick.  The main loop runs on the same core and is preempted    *)
(* between any two of its steps; the metering task on the other core may   *)
(* change maxTicks in the middle of a handler.                             *)
(*                                                                         *)
(* A definition named ...Fault is a seeded error in the definition after   *)
(* it, kept to show that the properties can fail; no specification uses it. *)
(***************************************************************************)
EXTENDS Integers

CONSTANTS
  HalfCycle,      \* phase ticks per 10 ms alarm (100 on the device)
  MainsHalf,      \* phase ticks per half period of the mains (100 or 83)
  Debounce,       \* ticks during which a further edge is ignored (20)
  Delays,         \* percentages the regulation writes to triac_delay_percent
  MaxTickValues,  \* values g_triac_max_delay_ticks_isr takes (98, 81)
  TickCap         \* saturation of phase_delay_ticks and of age, above every threshold

ASSUME TriacAssumption ==
  /\ HalfCycle \in Nat /\ HalfCycle >= 3
  /\ MainsHalf \in Nat /\ MainsHalf > Debounce
  /\ Debounce \in Nat
  /\ Delays \subseteq 0 .. 100 /\ 100 \in Delays
  /\ MaxTickValues \subseteq Nat /\ MaxTickValues # {}
  /\ TickCap \in Nat /\ TickCap >= MainsHalf
  /\ \A m \in MaxTickValues : m < TickCap

VARIABLES
  ticks,       \* phase_delay_ticks
  delay,       \* triac_delay_percent
  sync,        \* zc_sync_state
  dim,         \* level of the triac gate pin
  isrMode,     \* g_action0_mode
  cfgMode,     \* load_channels[0].Actif
  maxTicks,    \* g_triac_max_delay_ticks_isr
  request,     \* g_triac_request_timers
  phaseTimer,  \* g_triac_phase_timer_running
  tenMsTimer,  \* g_triac_10ms_timer_running
  attached,    \* the zero-cross interrupt is attached
  age,         \* ticks since the last accepted edge (now - last_zc_us), saturating
  sub,         \* ticks since the last 10 ms alarm
  phaseDue,    \* the 100 us interrupt of this tick has not run yet
  tenMsDue,    \* the 10 ms alarm of this tick has not run yet
  pc,          \* "low" between the write of triac_delay_percent and the test of it
  mains,       \* environment: state of the mains as the detector sees it
  missed,      \* history: 10 ms alarms since the last accepted edge, saturating
  loose        \* history: an override wrote the delay and nothing acted on it yet

isrVars   == <<ticks, sync, dim, age, missed, request>>
timerVars == <<phaseTimer, tenMsTimer, attached, sub>>
dueVars   == <<phaseDue, tenMsDue>>
loopVars  == <<delay, isrMode, cfgMode, pc, loose>>
vars == <<isrVars, timerVars, dueVars, loopVars, maxTicks, mains>>

Modes      == {"onoff", "other"}          \* kModeDecoupeOnoff or any other mode
MainsState == {"good", "absent", "noisy"}

SyncGainFault == 1
SyncGain  == 3
SyncCap   == 5
SyncFloor == -5
FireLimit == 98
MissCap   == 10                 \* SyncCap - SyncFloor alarms reach the floor

AtMost(x, hi)  == IF x > hi THEN hi ELSE x
AtLeast(x, lo) == IF x < lo THEN lo ELSE x

(* balansun_triac_delay_threshold_ticks *)
Threshold(percent, max) ==
  IF percent >= 100 THEN max + 1
  ELSE IF percent <= 0 THEN 0 ELSE (percent * max) \div 100

-----------------------------------------------------------------------------
(* After balansun_setup: nothing armed, delay 100, gate low.               *)
Init ==
  /\ ticks = 0 /\ delay = 100 /\ sync = 0 /\ dim = 0
  /\ isrMode = "onoff" /\ cfgMode \in Modes
  /\ maxTicks \in MaxTickValues
  /\ request = FALSE /\ phaseTimer = FALSE /\ tenMsTimer = FALSE
  /\ attached = FALSE
  /\ age = TickCap /\ sub = 0
  /\ phaseDue = FALSE /\ tenMsDue = FALSE
  /\ pc = "idle" /\ mains = "good" /\ missed = 0 /\ loose = FALSE

(* The writes of balansun_zc_isr for an edge outside the debounce window.  *)
Accept(count, cap) ==
  /\ ticks' = count
  /\ age' = 0
  /\ dim' = 0
  /\ request' = TRUE
  /\ sync' = AtMost(sync + SyncGain, cap)
  /\ missed' = 0

ZcAcceptCountFault == Accept(ticks, SyncCap)
ZcAccept           == Accept(0, SyncCap)

(* balansun_zc_isr: an edge within the debounce window changes nothing.    *)
ZcIsr ==
  /\ attached
  /\ \/ mains = "noisy" /\ age > Debounce
     \/ mains = "good" /\ age >= MainsHalf
  /\ ZcAccept
  /\ UNCHANGED <<timerVars, dueVars, loopVars, maxTicks, mains>>

(* The condition of balansun_phase_tick_isr.  The threshold is computed    *)
(* from one read of g_triac_max_delay_ticks_isr and compared with another. *)
FiresUnsyncedFault(count, max1, max2) ==
  LET threshold == Threshold(delay, max1) IN
  /\ count > threshold /\ delay < FireLimit
  /\ threshold <= max2

FiresMarginFault(count, max1, max2) ==
  LET threshold == Threshold(delay, max1) IN
  /\ count > threshold /\ delay < FireLimit /\ sync > 0
  /\ threshold <= max2 - 2

Fires(count, max1, max2) ==
  LET threshold == Threshold(delay, max1) IN
  /\ count > threshold
  /\ delay < FireLimit
  /\ sync > 0
  /\ threshold <= max2

(* balansun_phase_tick_isr; recompute_timing of the other core may change  *)
(* the maximum between the two reads.                                      *)
PhaseTick ==
  /\ phaseDue
  /\ phaseDue' = FALSE
  /\ \E max2 \in MaxTickValues :
       /\ maxTicks' = max2
       /\ \/ /\ isrMode # "onoff"
             /\ dim' = 0
             /\ ticks' = ticks
          \/ /\ isrMode = "onoff"
             /\ ticks' = AtMost(ticks + 1, TickCap)
             /\ dim' = IF Fires(ticks', maxTicks, max2) THEN 1 ELSE 0
  /\ loose' = FALSE
  /\ UNCHANGED <<sync, age, missed, request, timerVars, tenMsDue, delay, isrMode,
                 cfgMode, pc, mains>>

(* balansun_half_cycle_tick_isr with the part of                           *)
(* balansun_pulse_modes_tick_10ms that concerns channel 0.                 *)
HalfCycleTick ==
  /\ tenMsDue
  /\ tenMsDue' = FALSE
  /\ sync' = AtLeast(sync - 1, SyncFloor)
  /\ missed' = AtMost(missed + 1, MissCap)
  /\ IF sync' < 0 /\ cfgMode = "onoff"
       THEN ticks' = 0 /\ dim' = 0
       ELSE UNCHANGED <<ticks, dim>>
  /\ UNCHANGED <<age, request, timerVars, phaseDue, loopVars, maxTicks, mains>>

(* 100 us pass; running timers raise their interrupts.  A mains that is    *)
(* good and attached delivers its edge before its half period is exceeded. *)
Elapse ==
  /\ ~phaseDue /\ ~tenMsDue
  /\ ~(attached /\ mains = "good" /\ age >= MainsHalf)
  /\ age' = AtMost(age + 1, TickCap)
  /\ phaseDue' = phaseTimer
  /\ IF tenMsTimer
       THEN /\ sub' = (sub + 1) % HalfCycle
            /\ tenMsDue' = (sub' = 0)
       ELSE UNCHANGED <<sub, tenMsDue>>
  /\ UNCHANGED <<ticks, sync, dim, missed, request, phaseTimer, tenMsTimer,
                 attached, loopVars, maxTicks, mains>>

-----------------------------------------------------------------------------
(* Main loop.                                                              *)

(* balansun_hw_presence_tick attaches the interrupt once polling saw edges. *)
AttachZc ==
  /\ pc = "idle" /\ ~attached /\ mains # "absent"
  /\ attached' = TRUE
  /\ UNCHANGED <<isrVars, phaseTimer, tenMsTimer, sub, dueVars, loopVars, maxTicks, mains>>

(* balansun_triac_poll_hw: each timer is started unless it runs already;   *)
(* timerBegin may return nullptr, the next loop then tries again.          *)
PollHw ==
  /\ pc = "idle" /\ request /\ ~(phaseTimer /\ tenMsTimer)
  /\ \E phaseStarts, tenMsStarts \in BOOLEAN :
       /\ phaseTimer' = (phaseTimer \/ phaseStarts)
       /\ tenMsTimer' = (tenMsTimer \/ tenMsStarts)
  /\ UNCHANGED <<isrVars, attached, sub, dueVars, loopVars, maxTicks, mains>>

(* End of a regulation tick: balansun_triac_set_action0_mode, then         *)
(* balansun_regulation_sync_triac_globals ...                              *)
SyncTriac(d) ==
  /\ pc = "idle"
  /\ isrMode' = cfgMode
  /\ delay' = d
  /\ pc' = "low"
  /\ UNCHANGED <<isrVars, timerVars, dueVars, cfgMode, loose, maxTicks, mains>>

(* ... and the write of the pin when the triac is off.                     *)
LowPin(level) ==
  /\ pc = "low"
  /\ pc' = "idle"
  /\ dim' = level
  /\ loose' = FALSE
  /\ UNCHANGED <<ticks, sync, age, missed, request, timerVars, dueVars,
                 delay, isrMode, cfgMode, maxTicks, mains>>

WriteLowFault == LowPin(dim)
WriteLow      == LowPin(IF delay >= 100 THEN 0 ELSE dim)

(* api_sync_action0_override_triac: the delay alone is written.            *)
ApiOverride(d) ==
  /\ pc = "idle"
  /\ delay' = d
  /\ loose' = TRUE
  /\ UNCHANGED <<isrVars, timerVars, dueVars, isrMode, cfgMode, pc, maxTicks, mains>>

(* A configuration request changes channel 0; the handlers see it at once  *)
(* through load_channels, and through g_action0_mode at the next sync.     *)
ConfigMode ==
  /\ pc = "idle"
  /\ cfgMode' \in Modes \ {cfgMode}
  /\ UNCHANGED <<isrVars, timerVars, dueVars, delay, isrMode, pc, loose, maxTicks, mains>>

-----------------------------------------------------------------------------
(* Environment.                                                            *)

(* recompute_timing, on the metering core.                                 *)
MainsFrequency ==
  /\ maxTicks' \in MaxTickValues \ {maxTicks}
  /\ UNCHANGED <<isrVars, timerVars, dueVars, loopVars, mains>>

MainsChange ==
  /\ mains' \in MainsState \ {mains}
  /\ UNCHANGED <<isrVars, timerVars, dueVars, loopVars, maxTicks>>

Isr  == ZcIsr \/ PhaseTick \/ HalfCycleTick
Loop == AttachZc \/ PollHw \/ WriteLow \/ ConfigMode
          \/ \E d \in Delays : SyncTriac(d) \/ ApiOverride(d)

Next == Isr \/ Loop \/ Elapse \/ MainsFrequency \/ MainsChange

Spec == Init /\ [][Next]_vars

(* Interrupts run when due, time passes, every pass of the loop goes       *)
(* through AttachZc and PollHw (so they are taken if enabled again and     *)
(* again), and timerBegin succeeds in the end.  Nothing is assumed of the  *)
(* mains, of configuration and overrides, or of the other core.            *)
PollHwStarts == PollHw /\ phaseTimer' /\ tenMsTimer'

Fairness ==
  /\ WF_vars(ZcIsr /\ mains = "good")
  /\ WF_vars(PhaseTick)
  /\ WF_vars(HalfCycleTick)
  /\ WF_vars(Elapse)
  /\ SF_vars(AttachZc)
  /\ SF_vars(PollHwStarts)
  /\ WF_vars(WriteLow)

FairSpec == Spec /\ Fairness

-----------------------------------------------------------------------------
(* Types, with the bounds balansun_zc_isr and balansun_half_cycle_tick_isr *)
(* clamp the synchronisation count to.                                     *)
Ranges ==
  /\ ticks \in 0 .. TickCap /\ delay \in Delays
  /\ sync \in SyncFloor .. SyncCap /\ dim \in {0, 1}
  /\ isrMode \in Modes /\ cfgMode \in Modes
  /\ maxTicks \in MaxTickValues
  /\ age \in 0 .. TickCap /\ sub \in 0 .. HalfCycle - 1
  /\ pc \in {"idle", "low"} /\ mains \in MainsState
  /\ missed \in 0 .. MissCap

Flags ==
  /\ request \in BOOLEAN /\ phaseTimer \in BOOLEAN /\ tenMsTimer \in BOOLEAN
  /\ attached \in BOOLEAN /\ phaseDue \in BOOLEAN /\ tenMsDue \in BOOLEAN
  /\ loose \in BOOLEAN

TypeOK == Ranges /\ Flags

(* When zero crossings stop, the triac keeps conducting at full power on   *)
(* the stale phase count only as long as zc_sync_state lasts: the gate is  *)
(* never high once more than SyncCap 10 ms alarms passed without an edge.  *)
GateNeedsRecentEdge == dim = 1 => missed <= SyncCap

(* Once the loop has switched the triac off (delay 100 published, then the *)
(* pin written low) no interrupt that preempted it can leave the gate      *)
(* high.  An override request writes the delay alone, so the gate is only  *)
(* released by the next phase tick or regulation tick.                     *)
OffMeansReleased == delay = 100 /\ pc = "idle" /\ ~loose => dim = 0

(* The gate never rises before the requested part of the half cycle has    *)
(* passed since the last accepted zero crossing, whatever happened to the  *)
(* phase count in between (mode changes, fallback resets, lost edges).     *)
GateNotEarly == [][dim = 0 /\ dim' = 1 => age >= Threshold(delay, maxTicks)]_vars

(* When the mains is good for good, synchronisation is reached and kept,   *)
(* from the deepest fallback too.                                          *)
MainsBringsSync == <>[](mains = "good") => <>[](sync > 0)

(* A triac that stays partly open on a good mains conducts again and again:*)
(* no interleaving of the two timers and the edges starves the gate.       *)
OpenTriacConducts ==
  \A d \in Delays :
    d < FireLimit /\ <>[](mains = "good" /\ delay = d /\ isrMode = "onoff")
      => []<>(dim = 1)
=============================================================================
