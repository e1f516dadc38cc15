-------------------------- MODULE TriacPhase_proofs --------------------------
(***************************************************************************)
(* The safety properties of TriacPhase, for every value of its constants.  *)
(***************************************************************************)
EXTENDS TriacPhase, TLAPS

(* A threshold is an integer, whatever the percentage and the maximum.     *)
LEMMA ThresholdInt == ASSUME NEW p \in 0 .. 100, NEW m \in Nat
                      PROVE  Threshold(p, m) \in Int
<1> DEFINE q == p * m
<1>1. q \in Int
  OBVIOUS
<1>2. q \div 100 \in Int
  <2> HIDE DEF q
  <2> QED BY <1>1
<1>3. CASE p >= 100
  BY <1>3 DEF Threshold
<1>4. CASE p < 100 /\ p <= 0
  BY <1>4 DEF Threshold
<1>5. CASE p < 100 /\ p > 0
  BY <1>2, <1>5 DEF Threshold
<1> QED BY <1>3, <1>4, <1>5

(* One conjunct per fact the properties rest on.                           *)
(* The synchronisation count cannot outlive the edges that fed it.         *)
SyncIsEarned == sync + missed <= SyncCap

(* A gate that is still high after synchronisation ran out meets a phase   *)
(* tick, which lowers it, before the next 10 ms alarm.                     *)
GateOnItsWayDown ==
  dim = 1 => /\ phaseTimer
             /\ sync <= 0 => /\ sync = 0 /\ ~tenMsDue
                             /\ sub = 0 \/ (sub = 1 /\ phaseDue)

(* The phase count is at most one tick ahead of the time since the edge,   *)
(* and not ahead of it while the interrupt of the current tick is due.     *)
CountFollowsTime == ticks <= age + 1 /\ (phaseDue => ticks <= age)

DueMeansRunning == (phaseDue => phaseTimer) /\ (tenMsDue => sub = 0)

IInv == /\ Ranges /\ Flags /\ DueMeansRunning
        /\ SyncIsEarned /\ GateOnItsWayDown /\ CountFollowsTime
        /\ OffMeansReleased

USE TriacAssumption DEF TriacAssumption

LEMMA InitIInv == Init => IInv
<1> SUFFICES ASSUME Init PROVE IInv
  OBVIOUS
<1>1. Ranges
  BY DEF Init, Ranges, Modes, MainsState, SyncCap, SyncFloor, MissCap
<1>2. Flags
  BY DEF Init, Flags
<1>3. DueMeansRunning /\ SyncIsEarned /\ GateOnItsWayDown /\ CountFollowsTime
  BY DEF Init, DueMeansRunning, SyncIsEarned, GateOnItsWayDown, CountFollowsTime, SyncCap
<1>4. OffMeansReleased
  BY DEF Init, OffMeansReleased
<1> QED BY <1>1, <1>2, <1>3, <1>4 DEF IInv

(* The flags are Boolean, whatever the handlers do.                        *)
LEMMA FlagsStep == Flags /\ [Next]_vars => Flags'
BY DEF Flags, Next, Isr, Loop, ZcIsr, ZcAccept, Accept, PhaseTick, HalfCycleTick, Elapse, AttachZc,
       PollHw, WriteLow, LowPin, ConfigMode, SyncTriac, ApiOverride, MainsFrequency, MainsChange,
       vars, isrVars, timerVars, dueVars, loopVars

(* The ranges: one step per action.                                        *)
LEMMA RangesStep == Ranges /\ [Next]_vars => Ranges'
<1> SUFFICES ASSUME Ranges, [Next]_vars PROVE Ranges'
  OBVIOUS
<1> USE DEF Ranges, Modes, MainsState, SyncCap, SyncFloor, MissCap, isrVars, timerVars, dueVars,
            loopVars
<1>1. CASE ZcIsr
  BY <1>1 DEF ZcIsr, ZcAccept, Accept, AtMost, SyncGain
<1>2. CASE PhaseTick
  <2>1. ticks' \in 0 .. TickCap /\ dim' \in {0, 1} /\ maxTicks' \in MaxTickValues
    BY <1>2 DEF PhaseTick, AtMost
  <2> QED BY <1>2, <2>1 DEF PhaseTick
<1>3. CASE HalfCycleTick
  BY <1>3 DEF HalfCycleTick, AtMost, AtLeast
<1>4. CASE Elapse
  BY <1>4 DEF Elapse, AtMost
<1>5. CASE AttachZc
  BY <1>5 DEF AttachZc
<1>6. CASE PollHw
  BY <1>6 DEF PollHw
<1>7. CASE WriteLow
  BY <1>7 DEF WriteLow, LowPin
<1>8. CASE ConfigMode
  BY <1>8 DEF ConfigMode
<1>9. ASSUME NEW d \in Delays, SyncTriac(d) PROVE Ranges'
  BY <1>9 DEF SyncTriac
<1>10. ASSUME NEW d \in Delays, ApiOverride(d) PROVE Ranges'
  BY <1>10 DEF ApiOverride
<1>11. CASE MainsFrequency
  BY <1>11 DEF MainsFrequency
<1>12. CASE MainsChange
  BY <1>12 DEF MainsChange
<1>13. CASE UNCHANGED vars
  BY <1>13 DEF vars
<1> QED
  BY <1>1, <1>2, <1>3, <1>4, <1>5, <1>6, <1>7, <1>8, <1>9, <1>10, <1>11, <1>12, <1>13
  DEF Next, Isr, Loop

LEMMA IInvStep == IInv /\ [Next]_vars => IInv'
<1> SUFFICES ASSUME IInv, [Next]_vars PROVE IInv'
  OBVIOUS
<1>0. Ranges' /\ Flags'
  BY FlagsStep, RangesStep DEF IInv
<1> USE <1>0 DEF IInv, Ranges, DueMeansRunning, SyncIsEarned, GateOnItsWayDown,
            CountFollowsTime, OffMeansReleased, isrVars, timerVars, dueVars, loopVars
<1>1. CASE ZcIsr
  BY <1>1 DEF ZcIsr, ZcAccept, Accept, AtMost, SyncGain, SyncCap, SyncFloor
<1>2. CASE PhaseTick
  <2>1. PICK max2 \in MaxTickValues :
          \/ isrMode # "onoff" /\ dim' = 0 /\ ticks' = ticks
          \/ isrMode = "onoff" /\ ticks' = AtMost(ticks + 1, TickCap)
             /\ dim' = IF Fires(ticks', maxTicks, max2) THEN 1 ELSE 0
    BY <1>2 DEF PhaseTick
  <2>2. ticks' <= ticks + 1 /\ (dim' = 1 => sync > 0 /\ delay < FireLimit)
    BY <2>1 DEF AtMost, Fires
  <2> QED BY <1>2, <2>2 DEF PhaseTick, FireLimit, SyncCap, SyncFloor
<1>3. CASE HalfCycleTick
  <2>1. sync' + missed' <= SyncCap
    BY <1>3 DEF HalfCycleTick, AtMost, AtLeast, SyncCap, SyncFloor, MissCap
  <2>2. (sync > 0 => sync' = sync - 1) /\ tenMsDue /\ ~tenMsDue' /\ UNCHANGED <<sub, phaseDue, age>>
    BY <1>3 DEF HalfCycleTick, AtLeast, SyncCap, SyncFloor
  <2>3. dim' # dim => dim' = 0
    BY <1>3 DEF HalfCycleTick
  <2>4. ticks' <= age + 1 /\ (phaseDue => ticks' <= age)
    BY <1>3 DEF HalfCycleTick
  <2> QED BY <1>3, <2>1, <2>2, <2>3, <2>4 DEF HalfCycleTick, SyncCap, SyncFloor
<1>4. CASE Elapse
  <2>1. ticks <= age' /\ UNCHANGED <<sync, missed, dim, ticks, phaseTimer, delay, pc, loose>>
    BY <1>4 DEF Elapse, AtMost
  <2>2. tenMsDue' => sub' = 0
    BY <1>4 DEF Elapse
  <2>3. ASSUME sub = 0 PROVE ~tenMsDue' /\ sub' \in {0, 1}
    <3>1. 1 % HalfCycle = 1
      OBVIOUS
    <3>2. CASE tenMsTimer
      <4>1. sub' = (sub + 1) % HalfCycle /\ (tenMsDue' <=> sub' = 0)
        BY <3>2, <1>4 DEF Elapse
      <4>2. sub' = 1
        BY <4>1, <3>1, <2>3
      <4> QED BY <4>1, <4>2
    <3>3. CASE ~tenMsTimer
      BY <3>3, <2>3, <1>4 DEF Elapse
    <3> QED BY <3>2, <3>3
  <2> QED BY <1>4, <2>1, <2>2, <2>3 DEF Elapse, SyncCap, SyncFloor
<1>5. CASE AttachZc
  BY <1>5 DEF AttachZc
<1>6. CASE PollHw
  BY <1>6 DEF PollHw
<1>7. CASE WriteLow
  BY <1>7 DEF WriteLow, LowPin
<1>8. CASE ConfigMode
  BY <1>8 DEF ConfigMode
<1>9. ASSUME NEW d \in Delays, SyncTriac(d) PROVE IInv'
  BY <1>9 DEF SyncTriac
<1>10. ASSUME NEW d \in Delays, ApiOverride(d) PROVE IInv'
  BY <1>10 DEF ApiOverride
<1>11. CASE MainsFrequency
  BY <1>11 DEF MainsFrequency
<1>12. CASE MainsChange
  BY <1>12 DEF MainsChange
<1>13. CASE UNCHANGED vars
  BY <1>13 DEF vars
<1> QED
  BY <1>1, <1>2, <1>3, <1>4, <1>5, <1>6, <1>7, <1>8, <1>9, <1>10, <1>11, <1>12, <1>13
  DEF Next, Isr, Loop

(* The inductive invariant, from which the four theorems below follow.     *)
THEOREM Inductive == Spec => []IInv
BY InitIInv, IInvStep, PTL DEF Spec

(* The clamps of the two handlers keep every variable in its range.        *)
THEOREM TypeCorrect == Spec => []TypeOK
<1>1. IInv => TypeOK
  BY DEF IInv, TypeOK
<1> QED BY <1>1, Inductive, PTL

(* The gate of the triac is never high once more than SyncCap 10 ms alarms *)
(* passed since the last zero crossing.                                    *)
THEOREM RecentEdge == Spec => []GateNeedsRecentEdge
<1>1. IInv => GateNeedsRecentEdge
  BY DEF IInv, Ranges, SyncIsEarned, GateOnItsWayDown, GateNeedsRecentEdge, SyncCap, SyncFloor,
         MissCap
<1> QED BY <1>1, Inductive, PTL

(* Once the loop switched the triac off, no interrupt leaves the gate high. *)
THEOREM OffReleases == Spec => []OffMeansReleased
<1>1. IInv => OffMeansReleased
  BY DEF IInv
<1> QED BY <1>1, Inductive, PTL

(* The gate never rises before its part of the half cycle has passed.      *)
THEOREM NotEarly == Spec => GateNotEarly
<1> DEFINE OnTime == dim = 0 /\ dim' = 1 => age >= Threshold(delay, maxTicks)
<1>1. IInv /\ [Next]_vars => [OnTime]_vars
  <2> SUFFICES ASSUME IInv, Next, dim = 0, dim' = 1 PROVE age >= Threshold(delay, maxTicks)
    BY DEF vars
  <2>1. PhaseTick
    BY DEF Next, Isr, Loop, ZcIsr, ZcAccept, Accept, HalfCycleTick, Elapse, AttachZc, PollHw,
           WriteLow, LowPin, ConfigMode, SyncTriac, ApiOverride, MainsFrequency, MainsChange,
           isrVars, IInv, Ranges
  <2>2. /\ phaseDue
        /\ ticks' = AtMost(ticks + 1, TickCap)
        /\ ticks' > Threshold(delay, maxTicks)
    BY <2>1 DEF PhaseTick, Fires
  <2>3. ticks \in Int /\ age \in Int /\ ticks <= age
    BY <2>2 DEF IInv, Ranges, CountFollowsTime
  <2>4. Threshold(delay, maxTicks) \in Int
    BY ThresholdInt DEF IInv, Ranges
  <2> QED BY <2>2, <2>3, <2>4 DEF AtMost
<1> QED BY <1>1, Inductive, PTL DEF Spec, GateNotEarly
=============================================================================
