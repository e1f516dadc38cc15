-------------------------- MODULE RemoteRelay_proofs --------------------------
(***************************************************************************)
(* The agreement of the two lookups of a schedule, and on it the safety of *)
(* a remote relay, for every schedule, reading, tempo, repetition and      *)
(* duration of a call, whether the clock wraps or not.                     *)
(***************************************************************************)
EXTENDS RemoteRelay, TLAPS

-----------------------------------------------------------------------------
(* The two lookups of a schedule agree, for every schedule an upload may   *)
(* leave and every time of the day.  A schedule has at most eight periods, *)
(* so that facts about all of them need no induction.                      *)

USE ScheduleAssumption DEF ScheduleAssumption

LEMMA Shape == ASSUME NEW s, ScheduleValid(s)
               PROVE  /\ Len(s) \in 1 .. 8 /\ s[Len(s)].end = TimeMax
                      /\ \A k \in 1 .. Len(s) : s[k].end \in Nat /\ s[k].end > Start(s, k)
<1>1. Len(s) \in 1 .. MaxPeriods /\ s[Len(s)].end = TimeMax
  BY Zenon DEF ScheduleValid
<1>2. \A n \in 1 .. MaxPeriods : n \in 1 .. 8
  OBVIOUS
<1>3. \A k \in 1 .. Len(s) : s[k].end \in 0 .. TimeMax /\ s[k].end > Start(s, k)
  BY Zenon DEF ScheduleValid
<1>4. Len(s) \in 1 .. 8
  BY Zenon, <1>1, <1>2
<1>5. \A k \in 1 .. Len(s) : s[k].end \in Nat
  BY <1>3
<1> QED BY Zenon, <1>1, <1>3, <1>4, <1>5

(* The periods follow one another.                                         *)
LEMMA Ordered == ASSUME NEW s, ScheduleValid(s),
                        NEW i \in 1 .. Len(s), NEW j \in 1 .. Len(s), i < j
                 PROVE  s[i].end <= Start(s, j)
<1> DEFINE n == Len(s)
<1>0. n \in 1 .. 8
  BY Shape
<1>1. \A k \in 1 .. n : s[k].end \in Nat /\ s[k].end > Start(s, k)
  BY Shape
<1>2. \A k \in 1 .. n : k + 1 <= n => s[k].end < s[k + 1].end
  <2> TAKE k \in 1 .. n
  <2> HAVE k + 1 <= n
  <2>1. k + 1 \in 1 .. n /\ Start(s, k + 1) = s[k].end
    BY <1>0 DEF Start
  <2> QED BY <1>1, <2>1
<1> HIDE DEF n
<1> DEFINE Apart(d) == \A k \in 1 .. n : k + d <= n => s[k].end <= s[k + d].end
<1>3. Apart(0)
  BY <1>0, <1>1
<1>4. ASSUME NEW d \in Nat, Apart(d) PROVE Apart(d + 1)
  <2> TAKE k \in 1 .. n
  <2> HAVE k + (d + 1) <= n
  <2>1. k + d \in 1 .. n /\ k + d + 1 \in 1 .. n /\ k + (d + 1) = k + d + 1
    BY <1>0
  <2>2. s[k].end <= s[k + d].end /\ s[k + d].end < s[k + d + 1].end
    BY <1>0, <1>2, <1>4, <2>1
  <2> QED BY <1>1, <2>1, <2>2
<1> HIDE DEF Apart
<1>5. Apart(1) /\ Apart(2) /\ Apart(3)
  <2>1. Apart(0 + 1)
    BY <1>3, <1>4
  <2>2. Apart(1 + 1)
    BY <1>4, <2>1
  <2>3. Apart(2 + 1)
    BY <1>4, <2>2
  <2> QED BY <2>1, <2>2, <2>3
<1>6. Apart(4) /\ Apart(5) /\ Apart(6)
  <2>1. Apart(3 + 1)
    BY <1>4, <1>5
  <2>2. Apart(4 + 1)
    BY <1>4, <2>1
  <2>3. Apart(5 + 1)
    BY <1>4, <2>2
  <2> QED BY <2>1, <2>2, <2>3
<1>7. j - 1 - i \in 0 .. 6 /\ i + (j - 1 - i) = j - 1 /\ j # 1 /\ i \in 1 .. n /\ j - 1 <= n
  <2>1. i \in 1 .. n /\ j \in 1 .. n /\ i < j
    BY DEF n
  <2> QED BY <1>0, <2>1
<1>8. s[i].end <= s[j - 1].end
  <2>1. Apart(j - 1 - i)
    BY <1>3, <1>5, <1>6, <1>7
  <2> QED BY <1>7, <2>1 DEF Apart
<1> QED BY <1>7, <1>8 DEF Start

(* Some period is in force: no gap is left between 0 and midnight.         *)
LEMMA Covered == ASSUME NEW s, ScheduleValid(s), NEW t \in 0 .. TimeMax - 1
                 PROVE  InForce(s, t) # {}
<1> DEFINE n == Len(s)
<1>0. n \in 1 .. 8 /\ s[n].end = TimeMax /\ \A k \in 1 .. n : s[k].end \in Nat
  BY Shape
<1> SUFFICES ASSUME \A k \in 1 .. n : Start(s, k) <= t => s[k].end <= t
             PROVE  FALSE
  BY <1>0 DEF InForce
<1> HIDE DEF n
<1> DEFINE Past(k) == k <= n => s[k].end <= t
<1>1. Past(1)
  BY <1>0 DEF Start
<1>2. ASSUME NEW k \in 1 .. 8, Past(k) PROVE Past(k + 1)
  <2> HAVE k + 1 <= n
  <2>1. k \in 1 .. n /\ k + 1 \in 1 .. n /\ Start(s, k + 1) = s[k].end
    BY <1>0 DEF Start
  <2> QED BY <1>2, <2>1
<1> HIDE DEF Past
<1>3. Past(2) /\ Past(3) /\ Past(4)
  <2>1. Past(1 + 1)
    BY <1>1, <1>2
  <2>2. Past(2 + 1)
    BY <1>2, <2>1
  <2>3. Past(3 + 1)
    BY <1>2, <2>2
  <2> QED BY <2>1, <2>2, <2>3
<1>4. Past(5) /\ Past(6) /\ Past(7) /\ Past(8)
  <2>1. Past(4 + 1)
    BY <1>2, <1>3
  <2>2. Past(5 + 1)
    BY <1>2, <2>1
  <2>3. Past(6 + 1)
    BY <1>2, <2>2
  <2>4. Past(7 + 1)
    BY <1>2, <2>3
  <2> QED BY <2>1, <2>2, <2>3, <2>4
<1>5. Past(n)
  BY <1>0, <1>1, <1>3, <1>4
<1> QED BY <1>0, <1>5 DEF Past

(* Exactly one period is in force at any time of the day, and the lookup   *)
(* the router reports, whose periods share their ends, finds its type.     *)
THEOREM OneInForce == ASSUME NEW s, ScheduleValid(s), NEW t \in 0 .. TimeMax - 1
                      PROVE  \E k \in 1 .. Len(s) :
                               InForce(s, t) = {k} /\ ActiveType(s, t) = s[k].type
<1>0. /\ Len(s) \in 1 .. 8 /\ s[Len(s)].end = TimeMax
      /\ \A k \in 1 .. Len(s) : s[k].end \in Nat /\ Start(s, k) \in Nat /\ s[k].end > Start(s, k)
  BY Shape DEF Start
<1>1. PICK k \in InForce(s, t) : TRUE
  BY Covered
<1>2. k \in 1 .. Len(s) /\ Start(s, k) <= t /\ t < s[k].end
  BY <1>1 DEF InForce
<1>3. ASSUME NEW i \in 1 .. Len(s), Start(s, i) <= t, t < s[i].end PROVE i = k
  <2>1. ~(i < k)
    BY <1>0, <1>2, <1>3, Ordered
  <2>2. ~(k < i)
    BY <1>0, <1>2, <1>3, Ordered
  <2> QED BY <1>0, <1>2, <2>1, <2>2
<1>4. InForce(s, t) = {k}
  BY <1>1, <1>3 DEF InForce
<1>5. ASSUME NEW i \in Matching(s, t) PROVE i <= k
  <2>1. i \in 1 .. Len(s) /\ Start(s, i) <= t /\ t <= s[i].end
    BY DEF Matching
  <2>2. CASE t < s[i].end
    BY <1>0, <1>2, <1>3, <2>1, <2>2
  <2>3. CASE t = s[i].end
    <3>1. i + 1 \in 1 .. Len(s) /\ Start(s, i + 1) = t
      BY <1>0, <2>1, <2>3 DEF Start
    <3>2. i + 1 = k
      BY <1>0, <1>3, <3>1
    <3> QED BY <1>0, <2>1, <3>2
  <2> QED BY <1>0, <2>1, <2>2, <2>3
<1>6. k \in Matching(s, t) /\ Matching(s, t) \subseteq 1 .. Len(s)
  BY <1>0, <1>2 DEF Matching
<1>7. Last(Matching(s, t)) = k
  <2>1. Last(Matching(s, t)) \in Matching(s, t) /\ \A j \in Matching(s, t) : j <= Last(Matching(s, t))
    BY <1>5, <1>6 DEF Last
  <2> QED BY <1>0, <1>5, <1>6, <2>1
<1> QED BY <1>2, <1>4, <1>6, <1>7 DEF ActiveType

(* Whatever is uploaded, the schedule that is kept is valid.               *)
THEOREM SanitizedValid == ASSUME NEW s PROVE ScheduleValid(Sanitized(s))
<1>1. ScheduleValid(DefaultSchedule)
  BY DEF ScheduleValid, DefaultSchedule, Start, Types
<1> QED BY <1>1 DEF Sanitized

HIDE ScheduleAssumption DEF ScheduleAssumption
-----------------------------------------------------------------------------

(* The assumption, one fact at a time.                                     *)
LEMMA Constant ==
  /\ Tempo \in Nat /\ Repet \in Nat /\ CallTime \in Nat /\ Clock \in Nat /\ Clock > 1
  /\ Walls \subseteq 0 .. TimeMax - 1
BY RemoteAssumption DEF RemoteAssumption

USE Constant

-----------------------------------------------------------------------------
(* Type correctness: flags, names and numbers.  That the seconds since the *)
(* last command stay in range after a wrap needs the time of that command  *)
(* to be a reading of the clock.                                           *)

Flags == /\ on \in BOOLEAN /\ onoff \in BOOLEAN /\ suspended \in BOOLEAN /\ heard \in BOOLEAN
         /\ peer \in BOOLEAN /\ lost \in BOOLEAN /\ excused \in BOOLEAN

Names == /\ override \in {"auto", "on", "off"} /\ applied \in {"auto", "on", "off"}
         /\ call \in {"none", "on", "off"} /\ second \in {"none", "due", "begun"}
         /\ plan \in Schedules /\ wall \in Walls /\ temp \in Temperatures /\ net \in Powers

Numbers == /\ since \in 1 - Clock .. Clock - 1 /\ now \in 0 .. Clock - 1
           /\ waited \in 0 .. CallTime /\ rest \in 0 .. RestCap
           /\ Wraps => now - since \in 0 .. Clock - 1

TypeInv == Flags /\ Names /\ Numbers

LEMMA InitType == Init => TypeInv
<1> SUFFICES ASSUME Init PROVE Flags /\ Names /\ Numbers
  BY DEF TypeInv
<1>1. Flags
  BY DEF Init, Flags
<1>2. Names
  BY DEF Init, Names
<1>3. Numbers
  BY DEF Init, Numbers, RestCap
<1> QED BY <1>1, <1>2, <1>3

LEMMA FlagsStep == Flags /\ [Next]_vars => Flags'
<1> SUFFICES ASSUME Flags, [Next]_vars PROVE Flags'
  OBVIOUS
<1> USE DEF Flags
<1>1. CASE Tick
  BY <1>1, Zenon DEF Tick, SuspendedTick, OverriddenTick, AutoTick, WindowTick, DisabledTick, SwitchOff,
     Once, Command, Silent, belief, calling, inputs, peers
<1>2. CASE Hear
  BY <1>2, Zenon DEF Hear, belief, inputs, orders
<1>3. CASE Return \/ Elapse
  BY <1>3, Zenon DEF Return, Elapse, Command, belief, inputs, orders
<1>4. CASE Request \/ Reconfigured \/ ClockTick \/ Measured
  BY <1>4, Zenon DEF Request, Reconfigured, ClockTick, Measured, belief, calling, inputs, orders, peers
<1>5. CASE Restart
  BY <1>5, Zenon DEF Restart, inputs
<1>6. CASE UNCHANGED vars
  BY <1>6, Zenon DEF vars, belief, calling, inputs, orders, peers
<1> QED BY <1>1, <1>2, <1>3, <1>4, <1>5, <1>6 DEF Next

LEMMA OrderType == ASSUME NEW p, NEW warm, p.type \in Types
                   PROVE  OrderOf(p, warm) \in {"none", "on", "off"}
BY DEF OrderOf, Held, Types

LEMMA PeriodExists == ASSUME Names
                      PROVE  \E k \in 1 .. Len(plan) :
                               /\ InForce(plan, wall) = {k} /\ Period = plan[k]
                               /\ ActiveType(plan, wall) = plan[k].type /\ plan[k].type \in Types
<1>1. ScheduleValid(plan) /\ wall \in 0 .. TimeMax - 1
  BY SanitizedValid DEF Names, Schedules
<1>2. PICK k \in 1 .. Len(plan) : InForce(plan, wall) = {k} /\ ActiveType(plan, wall) = plan[k].type
  BY <1>1, OneInForce
<1>3. Period = plan[k]
  BY <1>2 DEF Period
<1>4. plan[k].type \in Types
  BY <1>1 DEF ScheduleValid
<1> QED BY <1>2, <1>3, <1>4

LEMMA NamesStep == Flags /\ Names /\ [Next]_vars => Names'
<1> SUFFICES ASSUME Flags, Names, [Next]_vars PROVE Names'
  OBVIOUS
<1>1. CASE Tick
  <2>1. Period.type \in Types
    BY PeriodExists
  <2>2. OrderOf(Period, Warm) \in {"none", "on", "off"}
    BY <2>1, OrderType
  <2>3. call' \in {"none", "on", "off"} /\ second' \in {"none", "due", "begun"}
    BY <1>1, <2>2, Zenon DEF Tick, SuspendedTick, OverriddenTick, AutoTick, WindowTick, DisabledTick,
       SwitchOff, Once, Command, Silent, belief, calling, inputs, Names
  <2>4. override' \in {"auto", "on", "off"} /\ applied' \in {"auto", "on", "off"}
    BY <1>1, Zenon DEF Tick, SuspendedTick, OverriddenTick, AutoTick, belief, Names
  <2> QED BY <1>1, <2>3, <2>4, Zenon DEF Tick, inputs, Names
<1>2. CASE Hear \/ Return \/ Elapse
  BY <1>2, Zenon DEF Hear, Return, Elapse, Command, belief, inputs, orders, Names
<1>3. CASE Request \/ Reconfigured \/ ClockTick \/ Measured
  BY <1>3 DEF Request, Reconfigured, ClockTick, Measured, belief, calling, inputs, orders, peers, Names
<1>4. CASE Restart
  BY <1>4 DEF Restart, inputs, Names
<1>5. CASE UNCHANGED vars
  BY <1>5 DEF vars, belief, calling, inputs, orders, Names
<1> QED BY <1>1, <1>2, <1>3, <1>4, <1>5 DEF Next

LEMMA NumbersStep == Numbers /\ [Next]_vars => Numbers'
<1> SUFFICES ASSUME Numbers, [Next]_vars PROVE Numbers'
  OBVIOUS
<1> USE DEF Numbers, RestCap
<1>1. CASE Tick
  BY <1>1 DEF Tick, SuspendedTick, OverriddenTick, AutoTick, WindowTick, DisabledTick, SwitchOff,
     Once, Command, Silent, Stamp, belief, calling, peers
<1>2. CASE Hear \/ Return
  BY <1>2 DEF Hear, Return, Command, belief, inputs, orders
<1>3. CASE Elapse
  <2>0. Wraps /\ now + 1 = Clock => (now + 1) % Clock = 0
    OBVIOUS
  <2>1. now' \in 0 .. Clock - 1 /\ (Wraps => now' = IF now + 1 = Clock THEN 0 ELSE now + 1)
    BY <1>3 DEF Elapse
  <2>2. since' \in 1 - Clock .. Clock - 1 /\ (Wraps => now' - since' \in 0 .. Clock - 1)
    <3>1. CASE Wraps /\ now + 1 = Clock
      BY <1>3, <2>1, <3>1 DEF Elapse, AtMost
    <3>2. CASE Wraps /\ now + 1 # Clock
      BY <1>3, <2>1, <3>2 DEF Elapse, AtMost
    <3>3. CASE ~Wraps
      BY <1>3, <3>3 DEF Elapse, AtMost
    <3> QED BY <3>1, <3>2, <3>3
  <2>3. waited' \in 0 .. CallTime /\ rest' \in 0 .. RestCap
    BY <1>3 DEF Elapse, AtMost, TimedOut
  <2> QED BY <2>1, <2>2, <2>3
<1>4. CASE Request \/ Reconfigured \/ ClockTick \/ Measured
  BY <1>4 DEF Request, Reconfigured, ClockTick, Measured, belief, calling, inputs, orders, peers
<1>5. CASE Restart
  BY <1>5 DEF Restart, inputs
<1>6. CASE UNCHANGED vars
  BY <1>6 DEF vars, belief, calling, inputs, orders, peers
<1> QED BY <1>1, <1>2, <1>3, <1>4, <1>5, <1>6 DEF Next

LEMMA TypeStep == TypeInv /\ [Next]_vars => TypeInv'
BY FlagsStep, NamesStep, NumbersStep DEF TypeInv

LEMMA AlwaysTyped == Spec => []TypeInv
BY InitType, TypeStep, PTL DEF Spec

(* Every variable keeps its type.                                          *)
THEOREM TypeCorrect == Spec => []TypeOK
<1>1. TypeInv => TypeOK
  BY DEF TypeInv, Flags, Names, Numbers, TypeOK
<1> QED BY <1>1, AlwaysTyped, PTL

-----------------------------------------------------------------------------
(* The period a remote relay obeys is unique and the one the API reports.  *)
THEOREM OnePeriod == Spec => []OnePeriodInForce
<1>1. TypeInv => OnePeriodInForce
  BY PeriodExists DEF TypeInv, OnePeriodInForce
<1> QED BY <1>1, AlwaysTyped, PTL

-----------------------------------------------------------------------------
(* Belief.  While a call is in progress On is what it commands, and once   *)
(* the peer heard it On is what the peer does.                             *)
CallIsBelief ==
  /\ call # "none" => on = (call = "on")
  /\ (call = "none" \/ heard) /\ ~lost => on = peer

LEMMA BeliefStep == TypeInv /\ CallIsBelief /\ [Next]_vars => CallIsBelief'
<1> SUFFICES ASSUME TypeInv, CallIsBelief, [Next]_vars PROVE CallIsBelief'
  OBVIOUS
<1> USE DEF TypeInv, Flags, Names, CallIsBelief
<1>1. CASE Tick
  <2>1. Period.type \in Types
    BY PeriodExists
  <2>2. OrderOf(Period, Warm) \in {"none", "on", "off"}
    BY <2>1, OrderType
  <2>3. call = "none" /\ peer' = peer /\ lost' = lost
    BY <1>1 DEF Tick, peers
  <2>4. \/ call' = call /\ on' = on
        \/ call' # "none" /\ on' = (call' = "on") /\ heard' = FALSE
    <3>1. ASSUME SwitchOff PROVE <2>4!1 \/ <2>4!2
      BY <3>1 DEF SwitchOff, Silent, Once, Command, calling
    <3>2. CASE SuspendedTick
      BY <3>1, <3>2 DEF SuspendedTick
    <3>3. CASE OverriddenTick
      BY <3>3 DEF OverriddenTick, Silent, Once, Command, belief, calling
    <3>4. CASE AutoTick
      BY <2>2, <3>1, <3>4 DEF AutoTick, WindowTick, DisabledTick, Silent, Command, calling
    <3> QED BY <1>1, <3>2, <3>3, <3>4 DEF Tick
  <2> QED BY <2>3, <2>4
<1>2. CASE Hear
  BY <1>2 DEF Hear, belief
<1>3. CASE Return \/ Elapse
  BY <1>3 DEF Return, Elapse, Command, belief
<1>4. CASE Request \/ Reconfigured \/ ClockTick \/ Measured
  BY <1>4 DEF Request, Reconfigured, ClockTick, Measured, belief, calling, peers
<1>5. CASE Restart
  BY <1>5 DEF Restart
<1>6. CASE UNCHANGED vars
  BY <1>6 DEF vars, belief, calling, peers
<1> QED BY <1>1, <1>2, <1>3, <1>4, <1>5, <1>6 DEF Next

(* Between two calls the router believes what is true of the peer, unless  *)
(* the peer missed a call or the router restarted.                         *)
THEOREM Belief == Spec => []BeliefIsTrue
<1>1. Init => CallIsBelief
  BY DEF Init, CallIsBelief
<1>2. TypeInv /\ CallIsBelief => BeliefIsTrue
  BY DEF CallIsBelief, BeliefIsTrue
<1> QED BY <1>1, <1>2, AlwaysTyped, BeliefStep, PTL DEF Spec

-----------------------------------------------------------------------------
(* Rest.  The first call of the schedule in a tick lasts as long as its    *)
(* time stamp is old, and the time stamp is older than the last switching  *)
(* by CallTime at the most, until another call has waited for Tempo.       *)
StampIsRecent == call # "none" => suspended \/ ~onoff \/ second = "begun" \/ since <= waited

Rested == ~excused => \/ rest >= Tempo - CallTime
                      \/ since <= rest + CallTime /\ (call = "none" \/ heard)

RestInv == TypeInv /\ StampIsRecent /\ Rested

(* What one second does to the two ages.                                   *)
LEMMA SecondMore ==
  ASSUME NEW r \in Int, NEW rn \in Int, NEW s \in Int, NEW sn \in Int,
         sn <= s + 1, rn = r + 1 \/ rn >= Tempo
  PROVE  /\ r >= Tempo - CallTime => rn >= Tempo - CallTime
         /\ s <= r + CallTime => rn >= Tempo - CallTime \/ sn <= rn + CallTime
OBVIOUS

LEMMA RestStep == RestInv /\ [Next]_vars => StampIsRecent' /\ Rested'
<1> SUFFICES ASSUME RestInv, [Next]_vars PROVE StampIsRecent' /\ Rested'
  OBVIOUS
<1> USE DEF RestInv, TypeInv, Flags, Numbers, StampIsRecent, Rested, RestCap
<1>1. CASE Tick
  <2>1. CASE SuspendedTick
    BY <1>1, <2>1 DEF Tick, SuspendedTick
  <2>2. CASE OverriddenTick
    BY <1>1, <2>2 DEF Tick, OverriddenTick, Silent, Once, Command, belief, calling
  <2>3. CASE AutoTick /\ ~Due
    BY <1>1, <2>3 DEF Tick, AutoTick, Silent, calling, peers
  <2>4. CASE AutoTick /\ Due /\ WindowTick
    BY <1>1, <2>4 DEF Tick, Due, WindowTick, Stamp, Silent, Command, calling, peers
  <2>5. CASE AutoTick /\ Due /\ DisabledTick
    BY <1>1, <2>5 DEF Tick, DisabledTick
  <2> QED BY <1>1, <2>1, <2>2, <2>3, <2>4, <2>5 DEF Tick, AutoTick
<1>2. CASE Hear
  <2>1. StampIsRecent'
    BY <1>2 DEF Hear, belief, orders
  <2>2. heard' = TRUE /\ since' = since
    BY <1>2 DEF Hear, belief
  <2>3. ASSUME peer' # peer, ~excused' PROVE rest' = 0 /\ since <= waited
    BY <1>2, <2>3 DEF Hear
  <2>4. ASSUME peer' = peer PROVE Rested'
    <3>1. rest' = rest /\ excused' = excused /\ call # "none" /\ ~heard
      BY <1>2, <2>4 DEF Hear
    <3> QED BY <3>1
  <2> QED BY <2>1, <2>2, <2>3, <2>4
<1>3. CASE Return
  <2>1. CASE second = "due"
    BY <1>3, <2>1 DEF Return, Command
  <2>2. CASE second # "due"
    BY <1>3, <2>2 DEF Return, inputs, orders
  <2> QED BY <2>1, <2>2
<1>4. CASE Elapse
  <2>1. since' <= since + 1
    BY <1>4 DEF Elapse, AtMost
  <2>2. rest' = rest + 1 \/ rest' >= Tempo
    BY <1>4 DEF Elapse, AtMost
  <2>3. Numbers'
    BY NumbersStep
  <2>4. UNCHANGED <<call, heard, second, excused, orders>>
    BY <1>4 DEF Elapse
  <2>5. call # "none" => waited' = waited + 1
    BY <1>4 DEF Elapse
  <2>6. StampIsRecent'
    BY <2>1, <2>3, <2>4, <2>5 DEF orders
  <2>7. rest \in Int /\ rest' \in Int /\ since \in Int /\ since' \in Int
    BY <2>3
  <2>8. (rest >= Tempo - CallTime => rest' >= Tempo - CallTime)
        /\ (since <= rest + CallTime => rest' >= Tempo - CallTime \/ since' <= rest' + CallTime)
    BY <2>1, <2>2, <2>7, SecondMore
  <2> QED BY <2>4, <2>6, <2>8
<1>5. CASE Request \/ Reconfigured \/ ClockTick \/ Measured
  BY <1>5 DEF Request, Reconfigured, ClockTick, Measured, belief, calling, inputs, orders, peers
<1>6. CASE Restart
  BY <1>6 DEF Restart, inputs
<1>7. CASE UNCHANGED vars
  BY <1>7 DEF vars, belief, calling, inputs, orders, peers
<1> QED BY <1>1, <1>2, <1>3, <1>4, <1>5, <1>6, <1>7 DEF Next

(* Left in automatic operation the peer rests for Tempo seconds between    *)
(* two switchings, less the time a call may take to reach it, unless a     *)
(* tick called twice.                                                      *)
THEOREM Rests == Spec => PeerRests
<1>1. Init => StampIsRecent /\ Rested
  BY DEF Init, StampIsRecent, Rested
<1>2. RestInv /\ [Next]_vars => RestInv'
  BY RestStep, TypeStep DEF RestInv
<1>3. RestInv /\ [Next]_vars => (peer' # peer /\ ~excused => rest >= Tempo - CallTime)
  <2> SUFFICES ASSUME RestInv, [Next]_vars, peer' # peer, ~excused PROVE rest >= Tempo - CallTime
    OBVIOUS
  <2>1. Hear
    BY Zenon DEF Next, Tick, Return, Elapse, Request, Reconfigured, ClockTick, Measured, Restart, vars, peers
  <2> QED BY <2>1 DEF Hear, RestInv, Rested
<1>4. RestInv /\ UNCHANGED vars => (peer' # peer /\ ~excused => rest >= Tempo - CallTime)
  BY DEF vars, peers
<1>5. Spec => []RestInv
  BY <1>1, <1>2, InitType, PTL DEF Spec, RestInv
<1> QED BY <1>3, <1>5, PTL DEF Spec, PeerRests
=============================================================================
