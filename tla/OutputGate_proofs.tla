--------------------------- MODULE OutputGate_proofs ---------------------------
(***************************************************************************)
(* The safety of the output gate, for every polling period, saturation of  *)
(* the error streak and choice of vacation ends, wherever the metering     *)
(* task stands when the loop takes its turn.                               *)
(***************************************************************************)
EXTENDS OutputGate, TLAPS

(* The assumption, one fact at a time.                                     *)
LEMMA Constant ==
  /\ Period \in Nat /\ Period > 0 /\ MaxStreak \in Nat /\ MaxStreak >= 2
  /\ LastDay \in Nat /\ LastDay > 1 /\ Ends \subseteq Nat /\ 0 \in Ends
BY GateAssumption DEF GateAssumption

(* What each part of the metering task may be.                             *)
MeteringOK ==
  /\ {kind, row} \subseteq Kinds
  /\ phase \in {"rest", "ask", "good", "bad"}
  /\ age \in 0 .. Oldest /\ streak \in 0 .. MaxStreak /\ misses \in 0 .. 2
  /\ {peerOk, valid, synced, known} \subseteq BOOLEAN

LoopOK ==
  /\ {guard, open, unsaved} \subseteq BOOLEAN
  /\ day \in 1 .. LastDay
  /\ vac \in Vacation /\ flash \in Vacation /\ asked \in Vacation
  /\ over \in {"auto", "on", "off"}

LEMMA TypeParts == TypeOK <=> MeteringOK /\ LoopOK
BY DEF TypeOK, MeteringOK, LoopOK

LEMMA KeptType == ASSUME NEW v \in Vacation PROVE Kept(v) \in Vacation
BY DEF Kept, Active, Ended, Vacation

LEMMA EndType == ASSUME NEW v \in Vacation PROVE v.end \in Nat
<1>1. v.end \in Ends
  BY DEF Vacation
<1> QED BY <1>1, Constant

LEMMA Times == TypeOK => day \in Nat /\ vac.end \in Nat /\ asked.end \in Nat
<1> SUFFICES ASSUME TypeOK PROVE day \in Nat /\ vac.end \in Nat /\ asked.end \in Nat
  OBVIOUS
<1>1. vac \in Vacation /\ asked \in Vacation /\ day \in 1 .. LastDay
  BY DEF TypeOK
<1> QED BY <1>1, EndType, Constant

LEMMA MeteringStep == TypeOK /\ [Next]_vars => MeteringOK'
<1> SUFFICES ASSUME MeteringOK, LoopOK, [Next]_vars PROVE MeteringOK'
  BY TypeParts
<1> USE Constant DEF MeteringOK, Oldest
<1>1. CASE PollStart
  BY <1>1 DEF PollStart, clock
<1>2. ASSUME NEW good \in BOOLEAN, PollAnswer(good) PROVE MeteringOK'
  BY <1>2 DEF PollAnswer, clock
<1>3. CASE PollEnd
  BY <1>3 DEF PollEnd, clock
<1>4. CASE Elapse
  BY <1>4 DEF Elapse, clock
<1>5. CASE ClockSync
  BY <1>5 DEF ClockSync, metering
<1>6. CASE Tomorrow \/ Suspend \/ (\E barred \in BOOLEAN : Regulate(barred)) \/ GetState \/ GetOverride \/ Save \/ SetGuard
  BY <1>6 DEF Tomorrow, Suspend, Regulate, GetState, GetOverride, Save, SetGuard, metering, clock
<1>7. ASSUME NEW v, Request(v) PROVE MeteringOK'
  BY <1>7 DEF Request, metering, clock
<1>8. CASE SetSource
  <2>1. kind' \in Kinds
    BY <1>8 DEF SetSource, Kinds
  <2> QED BY <1>8, <2>1 DEF SetSource, clock
<1>9. ASSUME NEW state \in {"auto", "on", "off"}, SetOverride(state) PROVE MeteringOK'
  BY <1>9 DEF SetOverride, metering, clock
<1>10. CASE Restart
  <2>1. known' \in BOOLEAN
    BY <1>10 DEF Restart
  <2>2. row' \in Kinds /\ kind' \in Kinds
    BY <1>10 DEF Restart
  <2>3. age' \in 0 .. Oldest /\ streak' \in 0 .. MaxStreak /\ misses' \in 0 .. 2
    BY <1>10 DEF Restart
  <2>4. phase' = "rest" /\ {peerOk', valid', synced'} \subseteq BOOLEAN
    BY <1>10 DEF Restart
  <2> QED BY <2>1, <2>2, <2>3, <2>4
<1>11. CASE UNCHANGED vars
  BY <1>11 DEF vars, metering, clock
<1> QED
  BY <1>1, <1>2, <1>3, <1>4, <1>5, <1>6, <1>7, <1>8, <1>9, <1>10, <1>11 DEF Next, Switch, Configure

LEMMA LoopStep == TypeOK /\ [Next]_vars => LoopOK'
<1> SUFFICES ASSUME MeteringOK, LoopOK, [Next]_vars PROVE LoopOK'
  BY TypeParts
<1> USE Constant DEF LoopOK
<1>1. CASE PollStart \/ PollEnd \/ Elapse \/ ClockSync \/ SetSource
  BY <1>1 DEF PollStart, PollEnd, Elapse, ClockSync, SetSource, clock, vacation, output
<1>2. ASSUME NEW good \in BOOLEAN, PollAnswer(good) PROVE LoopOK'
  BY <1>2 DEF PollAnswer, clock, vacation, output
<1>3. CASE Tomorrow
  BY <1>3 DEF Tomorrow, vacation, output
<1>4. CASE Suspend \/ GetState
  BY <1>4, KeptType DEF Suspend, GetState, clock, output
<1>5. CASE \E barred \in BOOLEAN : Regulate(barred)
  BY <1>5, KeptType DEF Regulate, clock
<1>6. ASSUME NEW v \in Vacation, Request(v) PROVE LoopOK'
  BY <1>6 DEF Request, clock, output
<1>7. CASE SetGuard \/ GetOverride \/ Save
  BY <1>7 DEF SetGuard, GetOverride, Save, clock, vacation, output
<1>8. ASSUME NEW state \in {"auto", "on", "off"}, SetOverride(state) PROVE LoopOK'
  BY <1>8 DEF SetOverride, clock, vacation
<1>9. CASE Restart
  BY <1>9 DEF Restart
<1>10. CASE UNCHANGED vars
  BY <1>10 DEF vars, clock, vacation, output
<1>11. ASSUME NEW on \in BOOLEAN, Switch(on) PROVE LoopOK'
  <2>1. [on |-> on, end |-> IF on THEN vac.end ELSE 0] \in Vacation
    BY DEF Vacation
  <2> QED BY <1>11, <2>1, <1>6 DEF Switch
<1>12. ASSUME NEW on \in BOOLEAN, NEW end \in Ends, Configure(on, end) PROVE LoopOK'
  <2>1. [on |-> on, end |-> end] \in Vacation
    BY DEF Vacation
  <2> QED BY <1>12, <2>1, <1>6 DEF Configure
<1> QED
  BY <1>1, <1>2, <1>3, <1>4, <1>5, <1>7, <1>8, <1>9, <1>10, <1>11, <1>12 DEF Next

(* Every variable keeps the range the code gives it.                       *)
THEOREM TypeCorrect == Spec => []TypeOK
<1>1. Init => TypeOK
  <2> SUFFICES ASSUME Init PROVE TypeOK
    OBVIOUS
  <2> USE Constant DEF Init
  <2>1. [on |-> FALSE, end |-> 0] \in Vacation
    BY DEF Vacation
  <2>2. LoopOK
    <3>1. vac \in Vacation /\ flash \in Vacation /\ asked \in Vacation
      BY <2>1
    <3>2. guard \in BOOLEAN /\ open \in BOOLEAN /\ unsaved \in BOOLEAN
      OBVIOUS
    <3>3. day \in 1 .. LastDay /\ over \in {"auto", "on", "off"}
      OBVIOUS
    <3> QED BY <3>1, <3>2, <3>3 DEF LoopOK
  <2>3. MeteringOK
    <3>1. kind \in Kinds /\ row \in Kinds
      OBVIOUS
    <3>2. peerOk \in BOOLEAN /\ valid \in BOOLEAN /\ synced \in BOOLEAN /\ known \in BOOLEAN
      OBVIOUS
    <3>3. age \in 0 .. Oldest /\ streak \in 0 .. MaxStreak /\ misses \in 0 .. 2
      BY DEF Oldest
    <3> QED BY <3>1, <3>2, <3>3 DEF MeteringOK
  <2> QED BY <2>2, <2>3, TypeParts
<1>2. TypeOK /\ [Next]_vars => TypeOK'
  BY MeteringStep, LoopStep DEF TypeOK, MeteringOK, LoopOK
<1> QED BY <1>1, <1>2, PTL DEF Spec

-----------------------------------------------------------------------------
(* The score.  Freshness is worth forty points at most, and twenty at      *)
(* least until two periods have gone by.                                   *)

LEMMA FreshnessType == TypeOK => Freshness \in Int
BY Constant DEF Freshness, TypeOK, Oldest

LEMMA ScoreType == TypeOK => Score \in Int
BY FreshnessType DEF Score, StreakPoints

LEMMA FreshnessBound == TypeOK => Freshness <= 40
<1> SUFFICES ASSUME TypeOK PROVE Freshness <= 40
  OBVIOUS
<1> USE Constant DEF Freshness
<1>1. age \in Nat
  BY DEF TypeOK, Oldest
<1>2. CASE age > Period /\ age <= 3 * Period
  <2> DEFINE s == 2 * Period
             q == (40 * (3 * Period - age)) \div s
  <2>1. s \in Nat /\ s > 0 /\ 40 * (3 * Period - age) \in Nat /\ 40 * (3 * Period - age) < 40 * s
    BY <1>1, <1>2
  <2>2. q \in Nat /\ s * q <= 40 * (3 * Period - age)
    BY <2>1
  <2>3. s * q < 40 * s
    BY <2>1, <2>2
  <2>4. q < 40
    BY <2>1, <2>2, <2>3
  <2> QED BY <1>1, <1>2, <2>4
<1> QED BY <1>1, <1>2

LEMMA FreshnessOfSound == TypeOK /\ age <= 2 * Period => Freshness >= 20
<1> SUFFICES ASSUME TypeOK, age <= 2 * Period PROVE Freshness >= 20
  OBVIOUS
<1> USE Constant DEF Freshness
<1>1. age \in Nat
  BY DEF TypeOK, Oldest
<1>2. CASE age > Period
  <2> DEFINE s == 2 * Period
             n == 40 * (3 * Period - age)
             q == n \div s
  <2>1. s \in Nat /\ s > 0 /\ n \in Nat /\ n >= 20 * s
    BY <1>1, <1>2
  <2>2. q \in Nat /\ n < s * (q + 1)
    BY <2>1
  <2>3. 20 * s < s * (q + 1)
    BY <2>1, <2>2
  <2>4. q >= 20
    BY <2>1, <2>2, <2>3
  <2> QED BY <1>1, <1>2, <2>4
<1> QED BY <1>1, <1>2

-----------------------------------------------------------------------------
(* The error streak is at least the number of polls missed since the peer  *)
(* was chosen, whatever it was when the outage began.                      *)
Counted ==
  /\ kind = "peer" => misses <= streak
  /\ phase = "good" \/ row # kind => misses = 0
  /\ kind = "peer" /\ misses > 0 => ~peerOk
  /\ phase = "bad" /\ row = "peer" => ~peerOk

LEMMA CountedStep == TypeOK /\ Counted /\ [Next]_vars => Counted'
<1> SUFFICES ASSUME TypeOK, Counted, [Next]_vars PROVE Counted'
  OBVIOUS
<1> USE Constant DEF TypeOK, Counted, Kinds
<1>1. CASE PollStart
  BY <1>1 DEF PollStart
<1>2. ASSUME NEW good \in BOOLEAN, PollAnswer(good) PROVE Counted'
  <2>1. CASE good
    BY <1>2, <2>1 DEF PollAnswer
  <2>2. CASE ~good
    BY <1>2, <2>2 DEF PollAnswer
  <2> QED BY <2>1, <2>2
<1>3. CASE PollEnd
  <2>1. kind' = kind /\ row' = kind /\ peerOk' = peerOk /\ phase' = "rest"
    BY <1>3 DEF PollEnd
  <2>2. kind = "peer" => misses' <= streak'
    <3>1. CASE PollOk
      BY <1>3, <3>1 DEF PollEnd, PollOk
    <3>2. CASE ~PollOk
      BY <1>3, <3>2 DEF PollEnd, PollOk
    <3> QED BY <3>1, <3>2
  <2>3. kind = "peer" /\ misses' > 0 => ~peerOk
    BY <1>3 DEF PollEnd
  <2> QED BY <2>1, <2>2, <2>3
<1>4. CASE Elapse
  BY <1>4 DEF Elapse
<1>10. CASE Restart
  <2>1. row' = kind' /\ phase' = "rest" /\ misses' = 0 /\ streak' = 0
    BY <1>10 DEF Restart
  <2> QED BY <2>1
<1>9. CASE SetSource
  <2>1. misses' = 0 /\ phase' = phase /\ peerOk' = peerOk /\ streak' = streak
    BY <1>9 DEF SetSource
  <2>2. row' = "peer" /\ phase' = "bad" => row = "peer"
    BY <1>9 DEF SetSource
  <2> QED BY <2>1, <2>2
<1>5. CASE ClockSync \/ Tomorrow \/ Suspend \/ (\E barred \in BOOLEAN : Regulate(barred)) \/ GetState \/ GetOverride \/ Save \/ SetGuard
  <2>1. UNCHANGED <<kind, metering>>
    BY <1>5 DEF ClockSync, Tomorrow, Suspend, Regulate, GetState, GetOverride, Save, SetGuard
  <2> QED BY <2>1 DEF metering
<1>6. ASSUME NEW v, Request(v) PROVE Counted'
  BY <1>6 DEF Request, metering
<1>7. ASSUME NEW state, SetOverride(state) PROVE Counted'
  BY <1>7 DEF SetOverride, metering
<1>8. CASE UNCHANGED vars
  BY <1>8 DEF vars, metering
<1> QED BY <1>1, <1>2, <1>3, <1>4, <1>5, <1>6, <1>7, <1>8, <1>9, <1>10 DEF Next, Switch, Configure

(* Two polls of the peer without a reading cut the triac at the next tick, *)
(* whatever override is in force.                                          *)
THEOREM DeadPeer == Spec => DeadPeerCuts
<1>1. Init => Counted
  BY DEF Init, Counted
<1>2. TypeOK /\ Counted /\ [Next]_vars
        => (AnyTurn /\ guard /\ kind = "peer" /\ misses = 2 => ~open')
  <2> SUFFICES ASSUME TypeOK, Counted, AnyTurn, guard, kind = "peer", misses = 2 PROVE ~open'
    OBVIOUS
  <2>1. Score <= 40
    <3>1. Freshness <= 40 /\ Freshness \in Int
      BY FreshnessBound, FreshnessType
    <3>2. StreakPoints = 0 /\ ~PollOk
      BY DEF StreakPoints, Counted, PollOk, TypeOK
    <3> QED BY <3>1, <3>2 DEF Score
  <2>2. Suspended
    BY <2>1, ScoreType DEF Suspended, Stale
  <2> QED BY <2>2 DEF AnyTurn, Turn, Suspend, Regulate
<1> QED BY <1>1, <1>2, TypeCorrect, CountedStep, PTL DEF Spec, DeadPeerCuts

(* A peer whose last poll succeeded is not taken for dead until two        *)
(* periods have gone by, however long it was away.                         *)
THEOREM SoundPeer == Spec => SoundPeerRuns
<1>1. TypeOK /\ [Next]_vars
        => (Turn(FALSE) /\ kind = "peer" /\ peerOk /\ age <= 2 * Period /\ ~vac.on
              => (over' = "on" => open'))
  <2> SUFFICES ASSUME TypeOK, Turn(FALSE), kind = "peer", peerOk, age <= 2 * Period, ~vac.on, over' = "on"
               PROVE  open'
    OBVIOUS
  <2>1. Score >= 60
    <3>1. Freshness >= 20 /\ Freshness \in Int
      BY FreshnessOfSound, FreshnessType
    <3>2. StreakPoints \in {0, 10, 20} /\ PollOk
      BY DEF StreakPoints, PollOk
    <3> QED BY <3>1, <3>2 DEF Score
  <2>2. ~Suspended
    BY <2>1, ScoreType DEF Suspended, Stale, Active
  <2> QED BY <2>2 DEF Turn, Suspend, Regulate
<1> QED BY <1>1, TypeCorrect, PTL DEF Spec, SoundPeerRuns

-----------------------------------------------------------------------------
(* A copy of the settings agrees with the request if it differs at most by *)
(* a vacation that was wanted and has ended.                               *)
Agrees(v) ==
  /\ v.end = asked.end /\ (v.on => asked.on)
  /\ asked.on /\ ~v.on => asked.end # 0 /\ day >= asked.end

Remembered == Agrees(vac) /\ (~unsaved => Agrees(flash))

LEMMA RememberedStep == TypeOK /\ Remembered /\ [Next]_vars => Remembered'
<1> SUFFICES ASSUME TypeOK, Remembered, [Next]_vars PROVE Remembered'
  OBVIOUS
<1> USE DEF Remembered, Agrees
<1>1. CASE PollStart \/ PollEnd \/ Elapse \/ ClockSync \/ SetSource \/ SetGuard \/ GetOverride
  BY <1>1 DEF PollStart, PollEnd, Elapse, ClockSync, SetSource, SetGuard, GetOverride, clock, vacation
<1>2. ASSUME NEW good \in BOOLEAN, PollAnswer(good) PROVE Remembered'
  BY <1>2 DEF PollAnswer, clock, vacation
<1>3. CASE Tomorrow
  <2>1. UNCHANGED <<vac, flash, asked, unsaved>> /\ day' = day + 1
    BY <1>3 DEF Tomorrow, vacation
  <2>2. day \in Nat /\ asked.end \in Nat
    BY Times
  <2> QED BY <2>1, <2>2
<1>4. CASE Suspend \/ (\E barred \in BOOLEAN : Regulate(barred)) \/ GetState
  <2>1. vac' = Kept(vac) /\ UNCHANGED <<flash, asked, unsaved, day>>
    BY <1>4 DEF Suspend, Regulate, GetState, clock
  <2>2. vac'.end = vac.end /\ (vac'.on => vac.on) /\ (vac.on /\ ~vac'.on => vac.end # 0 /\ day >= vac.end)
    <3>1. CASE Active(vac)
      BY <2>1, <3>1 DEF Kept, Active, TypeOK, Vacation
    <3>2. CASE ~Active(vac)
      BY <2>1, <3>2 DEF Kept, Active, Ended, TypeOK, Vacation
    <3> QED BY <3>1, <3>2
  <2> QED BY <2>1, <2>2
<1>5. ASSUME NEW v \in Vacation, Request(v) PROVE Remembered'
  BY <1>5 DEF Request
<1>6. CASE Save \/ Restart
  BY <1>6 DEF Save, Restart, clock
<1>7. ASSUME NEW state, SetOverride(state) PROVE Remembered'
  BY <1>7 DEF SetOverride, clock, vacation
<1>8. CASE UNCHANGED vars
  BY <1>8 DEF vars, clock, vacation
<1>9. ASSUME NEW on \in BOOLEAN, Switch(on) PROVE Remembered'
  <2>1. [on |-> on, end |-> IF on THEN vac.end ELSE 0] \in Vacation
    BY Constant DEF Vacation, TypeOK
  <2> QED BY <1>9, <2>1, <1>5 DEF Switch
<1>10. ASSUME NEW on \in BOOLEAN, NEW end \in Ends, Configure(on, end) PROVE Remembered'
  <2>1. [on |-> on, end |-> end] \in Vacation
    BY DEF Vacation
  <2> QED BY <1>10, <2>1, <1>5 DEF Configure
<1> QED BY <1>1, <1>2, <1>3, <1>4, <1>6, <1>7, <1>8, <1>9, <1>10 DEF Next

(* A vacation closes the triac from the request to its end and no longer,  *)
(* restarts included.                                                      *)
THEOREM VacationKept == Spec => VacationAsAsked
<1>1. Init => Remembered
  BY DEF Init, Remembered, Agrees
<1>2. TypeOK /\ Remembered /\ [Next]_vars
        => /\ AnyTurn /\ Wanted => ~open'
           /\ Turn(FALSE) /\ Over /\ ~guard => (over' = "on" => open')
  <2> SUFFICES ASSUME TypeOK, Remembered
               PROVE  /\ AnyTurn /\ Wanted => ~open'
                      /\ Turn(FALSE) /\ Over /\ ~guard => (over' = "on" => open')
    OBVIOUS
  <2>a. asked.end \in Nat /\ vac.end \in Nat /\ day \in Nat
    BY Times
  <2>b. /\ vac.end = asked.end /\ (vac.on => asked.on)
        /\ asked.on /\ ~vac.on => asked.end # 0 /\ day >= asked.end
    BY DEF Remembered, Agrees
  <2>1. Wanted => Active(vac)
    BY <2>a, <2>b DEF Wanted, Active, Ended
  <2>2. Over => ~Active(vac)
    BY <2>a, <2>b DEF Over, Wanted, Active, Ended
  <2>3. Wanted => Suspended
    BY <2>1 DEF Suspended
  <2>4. Over /\ ~guard => ~Suspended
    BY <2>2 DEF Suspended
  <2> QED BY <2>3, <2>4 DEF AnyTurn, Turn, Suspend, Regulate
<1> QED BY <1>1, <1>2, TypeCorrect, RememberedStep, PTL DEF Spec, VacationAsAsked
=============================================================================
