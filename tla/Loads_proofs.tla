----------------------------- MODULE Loads_proofs -----------------------------
(***************************************************************************)
(* The safety of the two kinds of load the router does not dim itself: the *)
(* action node at the far end of a remote relay, for every clock, length   *)
(* of the day, wiring and set of uploads, orders, durations and readings,  *)
(* and a local auxiliary channel, for every number of units, pattern       *)
(* table, ceiling and set of modes, wherever the interrupt preempts the    *)
(* writes of a tick.                                                       *)
(***************************************************************************)
EXTENDS ActionNode, AuxChannel, WellFoundedInduction, TLAPS

(* The assumption on the node, part by part.                               *)
LEMMA Clocks == Clock \in Nat /\ Clock > 3 /\ Day \in Nat /\ Day > 0
BY Zenon, NodeAssumption DEF NodeAssumption

LEMMA Choices == /\ Wiring \in {"3relay", "2relay"}
                 /\ Orders \subseteq Supported
                 /\ Durations \subseteq 0 .. (Clock - 1)
                 /\ Readings \subseteq 0 .. Disabled
                 /\ \A u \in Uploads : u \in Seq(Offered) /\ Len(u) > 0
BY Zenon, NodeAssumption DEF NodeAssumption

LEMMA ResolveSupported == ASSUME NEW m, NEW s, NEW b, NEW t, NEW w
                          PROVE  Resolve(m, s, b, t, w) \in Supported
<1> DEFINE p == Period(s, w)
           scheduled == IF p.kind = "fixed" THEN p.order ELSE IF b THEN "eco" ELSE "confort"
           order == IF m.active THEN m.order ELSE Gated(scheduled, p, t)
<1>1. Resolve(m, s, b, t, w) = IF order \in Supported THEN order ELSE "confort"
  BY DEF Resolve
<1>2. "confort" \in Supported
  BY DEF Supported
<1> HIDE DEF order
<1> QED BY <1>1, <1>2

(* An override in force decides the order.                                 *)
LEMMA OverrideDecides == ASSUME NEW m, NEW s, NEW b, NEW t, NEW w, m.active, m.order \in Supported
                         PROVE  Resolve(m, s, b, t, w) = m.order
<1> DEFINE p == Period(s, w)
           scheduled == IF p.kind = "fixed" THEN p.order ELSE IF b THEN "eco" ELSE "confort"
           gated == Gated(scheduled, p, t)
<1>1. Resolve(m, s, b, t, w)
        = LET order == IF m.active THEN m.order ELSE gated
          IN  IF order \in Supported THEN order ELSE "confort"
  BY DEF Resolve
<1> HIDE DEF gated
<1> QED BY <1>1

(* The clock and what an override has left: a deadline less than half a    *)
(* turn ahead has not passed, and one reached has.                         *)
LEMMA ModTurn == ASSUME NEW x \in -Clock .. (2 * Clock - 1)
                 PROVE  x % Clock = IF x < 0 THEN x + Clock ELSE IF x >= Clock THEN x - Clock ELSE x
BY Clocks

LEMMA HalfTurn == Clock \div 2 \in Nat /\ 2 * (Clock \div 2) = Clock
<1>1. Clock % 2 = 0
  BY Zenon, NodeAssumption DEF NodeAssumption
<1> QED BY <1>1, Clocks

Ahead(until, left, t) == until = t + left \/ until = t + left - Clock

LEMMA NotReached == ASSUME NEW m, NEW t \in 0 .. (Clock - 1), m.until \in 0 .. (Clock - 1),
                           NEW left \in 1 .. (Clock - 1), 2 * left < Clock, Ahead(m.until, left, t)
                    PROVE  ~Expired(m, t)
<1>1. t - m.until \in -Clock .. (2 * Clock - 1)
  BY Clocks
<1>2. t - m.until = -left \/ t - m.until = Clock - left
  BY Clocks DEF Ahead
<1> DEFINE x == t - m.until
<1> HIDE DEF x
<1>3. x % Clock = Clock - left
  <2>1. x % Clock = IF x < 0 THEN x + Clock ELSE IF x >= Clock THEN x - Clock ELSE x
    BY <1>1, ModTurn DEF x
  <2>2. x = -left \/ x = Clock - left
    BY <1>2 DEF x
  <2> QED BY <2>1, <2>2, Clocks
<1> QED BY <1>3, HalfTurn, Clocks DEF x, Expired

LEMMA Reached == ASSUME NEW m, NEW t \in 0 .. (Clock - 1), m.active,
                        m.until \in 0 .. (Clock - 1), m.until # 0, Ahead(m.until, 0, t)
                 PROVE  Expired(m, t)
<1>1. t - m.until \in -Clock .. (2 * Clock - 1)
  BY Clocks
<1>2. (t - m.until) % Clock = 0
  BY <1>1, ModTurn, Clocks DEF Ahead
<1> QED BY <1>2, HalfTurn, Clocks DEF Expired
-----------------------------------------------------------------------------
On == pc \notin {"off", "boot"}

Overrides == [active : BOOLEAN, order : Supported, until : 0 .. (Clock - 1)]
Commands == [what : {"auto", "held", "timed", "other"}, order : Supported, left : 0 .. (Clock - 1)]

(* The override m does at time t what the command a asked for; before the  *)
(* tick one whose time is over may still be active.                        *)
Serves(m, a, t) ==
  /\ a.what = "auto" => ~m.active
  /\ a.what = "held" => m.active /\ m.order = a.order /\ m.until = 0 /\ a.left = 0
  /\ a.what = "timed" /\ a.left > 0 =>
       /\ m.active /\ m.order = a.order
       /\ m.until # 0 /\ 2 * a.left < Clock /\ Ahead(m.until, a.left, t)
Over(m, a, t) == a.what = "timed" /\ a.left = 0 /\ m.active => m.until # 0 /\ Ahead(m.until, 0, t)
Ended(m, a) == a.what = "timed" /\ a.left = 0 => ~m.active

Obeyed ==
  /\ pc \in {"off", "boot", "run", "schedule", "config", "wifi"}
  /\ now \in 0 .. (Clock - 1) /\ manual \in Overrides /\ asked \in Commands
  /\ ~On => manual = NoOverride /\ asked = Automatic
  /\ On /\ manual.active => applied = manual.order
  /\ Serves(manual, asked, now) /\ Ended(manual, asked)

LEMMA ObeyedMeans == Obeyed => OverrideTimed
<1> SUFFICES ASSUME Obeyed, pc = "run" PROVE OverrideTimed
  BY DEF OverrideTimed
<1>1. manual.active => applied = manual.order
  BY DEF Obeyed, On
<1> QED BY <1>1 DEF Obeyed, OverrideTimed, Serves, Ended

LEMMA NoOverrideTyped == NoOverride \in Overrides /\ Automatic \in Commands
<1>1. 0 \in 0 .. (Clock - 1) /\ "confort" \in Supported
  BY Clocks DEF Supported
<1>2. NoOverride \in Overrides
  BY <1>1 DEF NoOverride, Overrides
<1>3. Automatic \in Commands
  BY <1>1 DEF Automatic, Commands
<1> QED BY <1>2, <1>3

LEMMA ObeyedInit == Init => Obeyed
<1> SUFFICES ASSUME Init PROVE Obeyed
  OBVIOUS
<1>1. manual \in Overrides /\ asked \in Commands
  BY NoOverrideTyped DEF Init
<1>2. Serves(manual, asked, now) /\ Ended(manual, asked)
  BY DEF Init, Serves, Ended, Automatic, NoOverride
<1> QED BY <1>1, <1>2, Clocks DEF Init, Obeyed, On

(* The tick ends an override whose time is over, and no other one.         *)
LEMMA TickServes ==
  ASSUME NEW m \in Overrides, NEW a \in Commands, NEW t \in 0 .. (Clock - 1),
         Serves(m, a, t), Over(m, a, t), NEW n, n = IF Expired(m, t) THEN NoOverride ELSE m
  PROVE  n \in Overrides /\ Serves(n, a, t) /\ Ended(n, a)
<1>1. n \in Overrides
  BY NoOverrideTyped
<1>2. CASE ~Expired(m, t)
  <2>1. Ended(m, a)
    <3> SUFFICES ASSUME a.what = "timed", a.left = 0, m.active PROVE FALSE
      BY DEF Ended
    <3> QED BY <1>2, Reached DEF Over, Overrides
  <2> QED BY <1>1, <1>2, <2>1
<1>3. CASE Expired(m, t)
  <2>1. a.what # "held" /\ n = NoOverride
    BY <1>3 DEF Expired, Serves
  <2>2. ~(a.what = "timed" /\ a.left > 0)
    <3> SUFFICES ASSUME a.what = "timed", a.left > 0 PROVE FALSE
      OBVIOUS
    <3> QED BY <1>3, NotReached DEF Serves, Overrides, Commands
  <2> QED BY <1>1, <2>1, <2>2 DEF Serves, Ended, NoOverride
<1> QED BY <1>2, <1>3

LEMMA ObeyedTick ==
  ASSUME NEW m \in Overrides, asked' \in Commands, now' \in 0 .. (Clock - 1),
         Tick(m), pc' = "run", Serves(m, asked', now'), Over(m, asked', now')
  PROVE  Obeyed'
<1>1. manual' = IF Expired(m, now') THEN NoOverride ELSE m
  BY DEF Tick
<1>2. manual' \in Overrides /\ Serves(manual', asked', now') /\ Ended(manual', asked')
  BY <1>1, TickServes
<1>3. manual'.active => applied' = manual'.order
  BY <1>2, OverrideDecides DEF Tick, Overrides
<1> QED BY <1>2, <1>3 DEF Obeyed, On, Serves, Ended, Ahead

(* A step of the node while it runs that leaves the override alone.        *)
LEMMA ObeyedSame ==
  ASSUME Obeyed, pc \in {"run", "schedule", "config", "wifi"}, pc' \in {"run", "schedule", "config", "wifi"},
         UNCHANGED <<now, manual, asked, applied>>
  PROVE  Obeyed'
BY DEF Obeyed, On, Serves, Ended, Ahead, Overrides, Commands

LEMMA ObeyedTickSame ==
  ASSUME Obeyed, Tick(manual), pc' = "run", UNCHANGED <<now, asked>>
  PROVE  Obeyed'
<1>1. Serves(manual, asked', now') /\ Over(manual, asked', now')
  BY DEF Obeyed, Over, Serves, Ended, Ahead
<1> QED BY <1>1, ObeyedTick DEF Obeyed

LEMMA DeadlineAhead == ASSUME NEW t \in 0 .. (Clock - 1), NEW l \in 0 .. (Clock - 1)
                       PROVE  (t + l) % Clock \in 0 .. (Clock - 1) /\ Ahead((t + l) % Clock, l, t)
<1>1. t + l \in -Clock .. (2 * Clock - 1) /\ t + l >= 0 /\ t + l <= 2 * Clock - 2
  BY Clocks
<1>2. (t + l) % Clock = IF t + l >= Clock THEN t + l - Clock ELSE t + l
  BY <1>1, ModTurn, Clocks
<1> QED BY <1>1, <1>2, Clocks DEF Ahead

LEMMA AheadNext ==
  ASSUME Clock \in Nat, NEW u \in 0 .. (Clock - 1), NEW l \in 1 .. (Clock - 1),
         NEW t \in 0 .. (Clock - 1), NEW n \in 0 .. (Clock - 1),
         Ahead(u, l, t), n = t + 1 \/ n = t + 1 - Clock
  PROVE  Ahead(u, l - 1, n)
BY DEF Ahead

LEMMA ObeyedSecond == ASSUME Obeyed, Second PROVE Obeyed'
<1> DEFINE left == IF asked.left > 0 THEN asked.left - 1 ELSE 0
<1>1. /\ now' = (now + 1) % Clock /\ asked' = [asked EXCEPT !.left = left]
      /\ Tick(manual) /\ pc' = "run"
  BY DEF Second
<1>2. /\ now \in 0 .. (Clock - 1) /\ now' \in 0 .. (Clock - 1)
      /\ now' = now + 1 \/ now' = now + 1 - Clock
  <2>1. now \in 0 .. (Clock - 1) /\ now + 1 \in -Clock .. (2 * Clock - 1)
    BY Clocks DEF Obeyed
  <2>2. now' = IF now + 1 >= Clock THEN now + 1 - Clock ELSE now + 1
    BY <1>1, <2>1, ModTurn, Clocks
  <2> QED BY <2>1, <2>2, Clocks
<1>3. asked.left \in 0 .. (Clock - 1) /\ left \in 0 .. (Clock - 1)
  BY Clocks DEF Obeyed, Commands
<1>4. /\ asked' \in Commands
      /\ asked'.what = asked.what /\ asked'.order = asked.order /\ asked'.left = left
  BY <1>1, <1>3 DEF Obeyed, Commands
<1>5. manual \in Overrides /\ manual.until \in 0 .. (Clock - 1)
  BY DEF Obeyed, Overrides
<1>6. /\ asked.left > 0 => left = asked.left - 1
      /\ asked.left = 0 => left = 0
  BY <1>3
<1> HIDE DEF left
<1>7. ASSUME asked.what = "timed", asked.left > 0
      PROVE  /\ manual.active /\ manual.order = asked.order /\ manual.until # 0
             /\ 2 * left < Clock /\ Ahead(manual.until, left, now')
  <2>1. Ahead(manual.until, asked.left, now) /\ 2 * asked.left < Clock
    BY <1>7 DEF Obeyed, Serves
  <2>2. Ahead(manual.until, left, now')
    <3>1. asked.left \in 1 .. (Clock - 1) /\ left = asked.left - 1
      BY <1>3, <1>6, <1>7
    <3> QED BY <2>1, <3>1, <1>2, <1>5, Clocks, AheadNext
  <2>3. 2 * left < Clock
    BY <2>1, <1>3, <1>6, <1>7, Clocks
  <2> QED BY <1>7, <2>2, <2>3 DEF Obeyed, Serves
<1>8. ASSUME asked.what = "timed", asked.left = 0 PROVE ~manual.active
  BY <1>8 DEF Obeyed, Ended
<1>9. asked.left > 0 \/ asked.left = 0
  BY <1>3
<1>10. asked.what = "auto" => ~manual.active
  BY DEF Obeyed, Serves
<1>11. asked.what = "held" => manual.active /\ manual.order = asked.order /\ manual.until = 0 /\ left = 0
  BY <1>6 DEF Obeyed, Serves
<1>12. Serves(manual, asked', now')
  BY <1>3, <1>4, <1>6, <1>7, <1>8, <1>9, <1>10, <1>11 DEF Serves
<1>13. Over(manual, asked', now')
  BY <1>4, <1>7, <1>8, <1>9 DEF Over
<1> QED BY <1>1, <1>2, <1>4, <1>5, <1>12, <1>13, ObeyedTick

LEMMA ObeyedCommand ==
  ASSUME Obeyed, NEW order \in Orders, NEW duration \in Durations,
         Command(order, duration)
  PROVE  Obeyed'
<1> DEFINE until == IF duration = 0 THEN 0 ELSE (now + duration) % Clock
           what == IF duration = 0 THEN "held"
                   ELSE IF until # 0 /\ duration < Clock \div 2 THEN "timed" ELSE "other"
           m == [active |-> TRUE, order |-> order, until |-> until]
<1>1. /\ asked' = [what |-> what, order |-> order, left |-> duration]
      /\ UNCHANGED now /\ Tick(m) /\ pc' = "run"
  BY DEF Command
<1>2. duration \in 0 .. (Clock - 1) /\ order \in Supported /\ now \in 0 .. (Clock - 1)
  BY Choices DEF Obeyed
<1>3. /\ until \in 0 .. (Clock - 1)
      /\ duration # 0 => Ahead(until, duration, now)
  <2>1. (now + duration) % Clock \in 0 .. (Clock - 1) /\ Ahead((now + duration) % Clock, duration, now)
    BY <1>2, DeadlineAhead
  <2>2. 0 \in 0 .. (Clock - 1)
    BY Clocks
  <2> QED BY Zenon, <2>1, <2>2
<1>4. what = "timed" => until # 0 /\ duration > 0 /\ 2 * duration < Clock
  <2>1. what = "timed" => until # 0 /\ duration # 0 /\ duration < Clock \div 2
    BY Zenon
  <2> HIDE DEF what, until
  <2> QED BY <1>2, <2>1, HalfTurn, Clocks
<1>5. what = "held" => until = 0 /\ duration = 0
  OBVIOUS
<1>6. what \in {"held", "timed", "other"}
  OBVIOUS
<1> HIDE DEF until, what
<1>7. m \in Overrides /\ asked' \in Commands
  BY <1>1, <1>2, <1>3, <1>6 DEF Overrides, Commands
<1>8. asked'.what = what /\ asked'.order = order /\ asked'.left = duration
  BY <1>1
<1>9. Serves(m, asked', now') /\ Over(m, asked', now')
  BY <1>1, <1>2, <1>3, <1>4, <1>5, <1>6, <1>8 DEF Serves, Over, Ahead
<1> HIDE DEF m
<1> QED BY <1>1, <1>2, <1>7, <1>9, ObeyedTick

LEMMA ObeyedStep == Obeyed /\ [Next]_vars => Obeyed'
<1> SUFFICES ASSUME Obeyed, [Next]_vars PROVE Obeyed'
  OBVIOUS
<1>1. CASE Boot
  <2>1. pc' \in {"off", "boot"} /\ ~On /\ UNCHANGED <<now, manual, asked>>
    BY <1>1 DEF Boot, command, On
  <2> QED BY <2>1 DEF Obeyed, On, Serves, Ended, Ahead, Overrides, Commands
<1>2. CASE SetupDone
  BY <1>2, ObeyedTickSame DEF SetupDone
<1>3. CASE Second
  BY <1>3, ObeyedSecond
<1>4. CASE PowerOff
  <2>1. manual' \in Overrides /\ asked' \in Commands /\ now' \in 0 .. (Clock - 1)
    BY <1>4, NoOverrideTyped, Clocks DEF PowerOff
  <2>2. Serves(manual', asked', now') /\ Ended(manual', asked')
    BY <1>4 DEF PowerOff, Serves, Ended, NoOverride, Automatic
  <2>3. pc' = "off" /\ manual' = NoOverride /\ asked' = Automatic
    BY <1>4 DEF PowerOff
  <2> QED BY <2>1, <2>2, <2>3 DEF Obeyed, On, Serves, Ended, Ahead
<1>5. CASE Commit
  BY <1>5, ObeyedTickSame, ObeyedSame DEF Commit, Written, output
<1>6. ASSUME NEW t, WallMoves(t) \/ PollTemperature(t) PROVE Obeyed'
  BY <1>6, ObeyedSame DEF WallMoves, PollTemperature, output, command
<1>7. CASE CommandAuto
  <2>1. Serves(NoOverride, asked', now') /\ Over(NoOverride, asked', now')
    BY <1>7 DEF CommandAuto, Serves, Over, NoOverride, Automatic
  <2> QED BY <1>7, <2>1, NoOverrideTyped, ObeyedTick DEF CommandAuto, Obeyed
<1>8. ASSUME NEW order \in Orders, NEW duration \in Durations, Command(order, duration) PROVE Obeyed'
  BY <1>8, ObeyedCommand
<1>9. ASSUME NEW upload \in Uploads, SchedulePut(upload) PROVE Obeyed'
  BY <1>9, ObeyedTickSame, ObeyedSame DEF SchedulePut, output
<1>10. ASSUME NEW low \in BOOLEAN, ConfigPut(low) PROVE Obeyed'
  BY <1>10, ObeyedSame DEF ConfigPut, output, command
<1>11. CASE WifiPut
  BY <1>11, ObeyedSame DEF WifiPut, output, command
<1>12. ASSUME NEW b, Relay(b) PROVE Obeyed'
  BY <1>12, ObeyedTickSame DEF Relay
<1>13. CASE RefuseLate \/ WantChanges \/ UNCHANGED vars
  <2>1. UNCHANGED <<pc, now, manual, asked, applied>>
    BY <1>13 DEF RefuseLate, WantChanges, vars, output, command
  <2> QED BY <2>1 DEF Obeyed, On, Serves, Ended, Ahead, Overrides, Commands
<1> QED
  BY <1>1, <1>2, <1>3, <1>4, <1>5, <1>6, <1>7, <1>8, <1>9, <1>10, <1>11, <1>12, <1>13
     DEF Next, Hear, HearLate

(* An override holds for the time asked and no longer, for every clock and *)
(* duration, through requests, ticks, flash writes and restarts.           *)
THEOREM Timed == Spec => []OverrideTimed
<1> QED BY ObeyedInit, ObeyedStep, ObeyedMeans, PTL DEF Spec
-----------------------------------------------------------------------------
(* A schedule whose periods follow one another from 0 to the end of the day. *)
Whole(s) ==
  /\ Len(s) \in Nat \ {0} /\ DOMAIN s = 1 .. Len(s)
  /\ \A i \in DOMAIN s : s[i].start \in Int /\ s[i].end \in Int
  /\ s[1].start = 0
  /\ \A i \in DOMAIN s : i + 1 \in DOMAIN s => s[i + 1].start = s[i].end
  /\ Valid(s)

LEMMA DefaultsWhole == Whole(Defaults)
<1>1. /\ Len(Defaults) = 1 /\ DOMAIN Defaults = 1 .. 1
      /\ Defaults[1].start = 0 /\ Defaults[1].end = Day
  BY DEF Defaults
<1> HIDE DEF Defaults
<1>2. \A i \in DOMAIN Defaults : i = 1
  BY <1>1
<1>3. Valid(Defaults)
  BY <1>1, <1>2, Clocks DEF Valid
<1> QED BY <1>1, <1>2, <1>3, Clocks DEF Whole

LEMMA ParsedWhole == ASSUME NEW upload \in Uploads, Valid(Parsed(upload))
                     PROVE  Whole(Parsed(upload))
<1>1. upload \in Seq(Offered) /\ Len(upload) > 0
  BY Choices
<1>2. /\ Len(upload) \in Nat \ {0} /\ DOMAIN upload = 1 .. Len(upload)
      /\ \A i \in DOMAIN upload : upload[i].end \in Int
  <2>1. Len(upload) \in Nat /\ DOMAIN upload = 1 .. Len(upload) /\ \A i \in DOMAIN upload : upload[i] \in Offered
    BY <1>1
  <2> QED BY <1>1, <2>1 DEF Offered
<1> DEFINE s == Parsed(upload)
           n == Len(upload)
<1> HIDE DEF n
<1>3. DOMAIN s = 1 .. n /\ n \in Nat \ {0}
  BY <1>2 DEF Parsed, n
<1>4. /\ \A i \in 1 .. n : s[i].end = upload[i].end
      /\ \A i \in 1 .. n : s[i].start = IF i = 1 THEN 0 ELSE upload[i - 1].end
  BY <1>2 DEF Parsed, n
<1>5. s \in Seq({s[i] : i \in 1 .. n}) /\ Len(s) = n
  <2>1. s = [i \in 1 .. n |-> s[i]]
    BY <1>2 DEF Parsed, n
  <2> QED BY <1>3, <2>1
<1> HIDE DEF s
<1>6. \A i \in 1 .. n : s[i].start \in Int /\ s[i].end \in Int
  BY <1>2, <1>3, <1>4 DEF n
<1>7. s[1].start = 0 /\ \A i \in 1 .. n : i + 1 \in 1 .. n => s[i + 1].start = s[i].end
  BY <1>3, <1>4
<1>8. Valid(s)
  BY DEF s
<1>9. Whole(s)
  BY <1>3, <1>5, <1>6, <1>7, <1>8 DEF Whole
<1> QED BY <1>9 DEF s

(* What the sector holds, and what was last answered for.                  *)
Settled ==
  /\ pc \in {"off", "boot", "run", "schedule", "config", "wifi"}
  /\ Whole(schedule) /\ activeLow \in BOOLEAN
  /\ flash # <<>> => /\ Whole(flash.schedule) /\ flash.low \in BOOLEAN
                     /\ flash.schedule = acked.schedule /\ flash.low = acked.low
  /\ pc \in {"boot", "run"} => acked.schedule = schedule /\ acked.low = activeLow

LEMMA SettledInit == Init => Settled
BY DefaultsWhole DEF Init, Settled

LEMMA BlobHolds == Blob.schedule = schedule /\ Blob.low = activeLow
BY DEF Blob

LEMMA FactoryHolds == Factory.schedule = Defaults /\ Factory.low = TRUE
BY DEF Factory

LEMMA SettledSame == ASSUME Settled, UNCHANGED <<pc, schedule, activeLow, flash, acked>> PROVE Settled'
BY DEF Settled, Whole, Valid

(* The sector is being rewritten.                                          *)
LEMMA SettledErase ==
  ASSUME Settled, Whole(schedule'), activeLow' \in BOOLEAN, flash' = <<>>, pc' \in {"schedule", "config", "wifi"}
  PROVE  Settled'
BY DEF Settled, Whole, Valid

LEMMA SettledStep == Settled /\ [Next]_vars => Settled'
<1> SUFFICES ASSUME Settled, [Next]_vars PROVE Settled'
  OBVIOUS
<1>1. CASE Boot
  <2> DEFINE loaded == IF flash = <<>> THEN Factory ELSE flash
  <2>1. /\ schedule' = loaded.schedule /\ activeLow' = loaded.low
        /\ acked' = IF flash = <<>> THEN Factory ELSE acked
        /\ pc' = "boot" /\ UNCHANGED flash
    BY <1>1 DEF Boot
  <2>2. CASE flash = <<>>
    <3>1. schedule' = Defaults /\ activeLow' = TRUE /\ acked'.schedule = Defaults /\ acked'.low = TRUE
      BY <2>1, <2>2, FactoryHolds
    <3>2. Whole(schedule')
      BY <3>1, DefaultsWhole
    <3> QED BY <2>1, <2>2, <3>1, <3>2 DEF Settled, Whole, Valid
  <2>3. CASE flash # <<>>
    <3>1. schedule' = flash.schedule /\ activeLow' = flash.low /\ acked' = acked
      BY <2>1, <2>3
    <3>2. Whole(schedule') /\ Whole(flash'.schedule)
      BY <2>1, <2>3, <3>1 DEF Settled
    <3> QED BY <2>1, <2>3, <3>1, <3>2 DEF Settled, Whole, Valid
  <2> QED BY <2>2, <2>3
<1>2. CASE SetupDone
  <2>1. flash'.schedule = schedule /\ flash'.low = activeLow /\ pc = "boot" /\ pc' = "run"
        /\ UNCHANGED <<schedule, activeLow, acked>>
    BY <1>2, BlobHolds DEF SetupDone
  <2> QED BY <2>1 DEF Settled, Whole, Valid
<1>3. CASE Second \/ CommandAuto \/ (\E order, duration : Command(order, duration)) \/ (\E b : Relay(b))
  <2>1. UNCHANGED <<pc, schedule, activeLow, flash, acked>>
    BY <1>3 DEF Second, CommandAuto, Command, Relay, settings
  <2> QED BY <2>1, SettledSame
<1>4. CASE (\E t : WallMoves(t) \/ PollTemperature(t)) \/ RefuseLate \/ WantChanges \/ UNCHANGED vars
  <2>1. UNCHANGED <<pc, schedule, activeLow, flash, acked>>
    BY <1>4 DEF WallMoves, PollTemperature, RefuseLate, WantChanges, vars, settings
  <2> QED BY <2>1, SettledSame
<1>5. CASE PowerOff
  <2>1. schedule' = Defaults /\ activeLow' = TRUE /\ pc' = "off" /\ UNCHANGED <<flash, acked>>
    BY <1>5 DEF PowerOff
  <2>2. Whole(schedule') /\ (flash' # <<>> => Whole(flash'.schedule))
    BY <2>1, DefaultsWhole DEF Settled
  <2> QED BY <2>1, <2>2 DEF Settled, Whole, Valid
<1>6. CASE Commit
  <2>1. /\ flash'.schedule = schedule /\ flash'.low = activeLow /\ pc' = "run"
        /\ acked'.schedule = schedule /\ acked'.low = activeLow
        /\ UNCHANGED <<schedule, activeLow>>
    BY <1>6, BlobHolds DEF Commit, Written
  <2> QED BY <2>1 DEF Settled, Whole, Valid
<1>7. ASSUME NEW upload \in Uploads, SchedulePut(upload) PROVE Settled'
  <2>1. Whole(schedule') /\ UNCHANGED activeLow
    BY <1>7, ParsedWhole DEF SchedulePut
  <2>2. CASE UNCHANGED <<pc, schedule, flash>>
    BY <1>7, <2>2, SettledSame DEF SchedulePut
  <2>3. CASE pc' = "schedule" /\ flash' = <<>>
    BY <2>1, <2>3, SettledErase DEF Settled
  <2> QED BY <1>7, <2>2, <2>3 DEF SchedulePut
<1>8. ASSUME NEW low \in BOOLEAN, ConfigPut(low) PROVE Settled'
  <2>1. Whole(schedule') /\ activeLow' \in BOOLEAN /\ pc' = "config" /\ flash' = <<>>
    BY <1>8 DEF ConfigPut, Settled, Whole, Valid
  <2> QED BY <2>1, SettledErase
<1>9. CASE WifiPut
  <2>1. Whole(schedule') /\ activeLow' \in BOOLEAN /\ pc' = "wifi" /\ flash' = <<>>
    BY <1>9 DEF WifiPut, Settled, Whole, Valid
  <2> QED BY <2>1, SettledErase
<1> QED
  BY <1>1, <1>2, <1>3, <1>4, <1>5, <1>6, <1>7, <1>8, <1>9 DEF Next, Hear, HearLate

(* A node that finds a sector starts with what it last answered for.       *)
THEOREM Survive == Spec => SettingsSurvive
<1> DEFINE Kept == Boot /\ flash # <<>> => schedule' = acked.schedule /\ activeLow' = acked.low
<1>1. Settled /\ [Next]_vars => [Kept]_vars
  BY DEF Boot, Settled
<1> QED BY <1>1, SettledInit, SettledStep, PTL DEF Spec, SettingsSurvive
-----------------------------------------------------------------------------
(* A set of positions that is not empty has a last one.                    *)
Below == {p \in Nat \X Nat : p[1] < p[2]}

LEMMA BelowWellFounded == IsWellFoundedOn(Below, Nat)
BY NatLessThanWellFounded DEF OpToRel, Below

LEMMA LastOne == ASSUME NEW n \in Nat, NEW S \in SUBSET (1 .. n), S # {}
                 PROVE  \E i \in S : \A j \in S : j <= i
<1> DEFINE T == {n - i : i \in S}
<1>1. T \in SUBSET Nat /\ T # {}
  <2>1. \A i \in S : i \in 1 .. n /\ n - i \in Nat
    OBVIOUS
  <2> QED BY <2>1
<1>2. PICK x \in T : \A y \in T : ~(<<y, x>> \in Below)
  BY <1>1, BelowWellFounded, WFMin, Zenon
<1>3. PICK i \in S : x = n - i
  BY <1>2
<1>4. ASSUME NEW j \in S, j > i PROVE FALSE
  <2>1. n - j \in T /\ n - j \in Nat /\ n - i \in Nat /\ n - j < n - i
    BY <1>4
  <2>2. <<n - j, n - i>> \in Below
    BY <2>1 DEF Below
  <2> QED BY <1>2, <1>3, <2>1, <2>2
<1> QED BY <1>4

Open(s, t) == {i \in DOMAIN s : s[i].start <= t /\ t <= s[i].end}

LEMMA WholeCovers == ASSUME NEW s, Whole(s), NEW t \in 0 .. (Day - 1)
                     PROVE  \E i \in Open(s, t) : \A j \in Open(s, t) : j <= i
<1> DEFINE n == Len(s)
           S == {i \in 1 .. n : s[i].start <= t}
<1>1. n \in Nat \ {0} /\ DOMAIN s = 1 .. n
  BY DEF Whole
<1>2. 1 \in S
  BY <1>1, Clocks DEF Whole
<1>3. PICK i \in S : \A j \in S : j <= i
  BY <1>1, <1>2, LastOne
<1>4. t <= s[i].end
  <2>1. CASE i = n
    BY <1>1, <1>3, <2>1, Clocks DEF Whole, Valid
  <2>2. CASE i # n
    <3>1. i + 1 \in 1 .. n /\ i \in 1 .. n /\ i + 1 \notin S
      <4>1. i \in 1 .. n /\ i + 1 \in 1 .. n /\ ~(i + 1 <= i)
        BY <1>1, <1>3, <2>2
      <4> QED BY <1>3, <4>1
    <3>2. s[i + 1].start = s[i].end /\ s[i].end \in Int
      BY <1>1, <3>1 DEF Whole
    <3> QED BY <3>1, <3>2, Clocks
  <2> QED BY <2>1, <2>2
<1>5. i \in Open(s, t)
  BY <1>1, <1>3, <1>4 DEF Open
<1>6. \A j \in Open(s, t) : j <= i
  BY <1>1, <1>3 DEF Open
<1> QED BY <1>5, <1>6

(* The period Period looks up is the last one of the schedule that holds   *)
(* the time: radiator_schedule_active_period never returns a null pointer. *)
PeriodHolds ==
  \E i \in DOMAIN schedule :
    /\ Period(schedule, wall) = schedule[i]
    /\ schedule[i].start <= wall /\ wall <= schedule[i].end
    /\ \A j \in DOMAIN schedule : schedule[j].start <= wall /\ wall <= schedule[j].end => j <= i

(* The variables the requests and the world change.                        *)
Ranged ==
  /\ {surplus, want, late} \subseteq BOOLEAN
  /\ wall \in 0 .. (Day - 1) /\ temperature \in Readings \cup {Disabled}

LEMMA RangedInit == Init => Ranged
<1>1. 0 \in 0 .. (Day - 1)
  BY Clocks
<1> QED BY <1>1 DEF Init, Ranged

LEMMA RangedStep == Ranged /\ [Next]_vars => Ranged'
<1> SUFFICES ASSUME Ranged, [Next]_vars PROVE Ranged'
  OBVIOUS
<1> DEFINE Same == UNCHANGED <<surplus, want, late, wall, temperature>>
<1>0. Same => Ranged'
  BY DEF Ranged
<1>1. CASE Boot \/ SetupDone \/ Second \/ Commit \/ CommandAuto \/ WifiPut \/ UNCHANGED vars
  BY <1>0, <1>1 DEF Boot, SetupDone, Second, Commit, Written, CommandAuto, WifiPut, vars, router
<1>2. CASE (\E order, duration : Command(order, duration)) \/ (\E upload : SchedulePut(upload))
           \/ (\E low : ConfigPut(low))
  BY <1>0, <1>2 DEF Command, SchedulePut, ConfigPut, router
<1>3. CASE PowerOff
  <2>1. 0 \in 0 .. (Day - 1)
    BY Clocks
  <2> QED BY <1>3, <2>1 DEF PowerOff, router, Ranged
<1>4. ASSUME NEW t \in 0 .. (Day - 1), WallMoves(t) PROVE Ranged'
  BY <1>4 DEF WallMoves, router, Ranged
<1>5. ASSUME NEW t \in Readings \cup {Disabled}, PollTemperature(t) PROVE Ranged'
  BY <1>5 DEF PollTemperature, router, Ranged
<1>6. CASE Hear \/ HearLate
  BY <1>6 DEF Hear, HearLate, Relay, router, Ranged
<1>7. CASE RefuseLate \/ WantChanges
  BY <1>7 DEF RefuseLate, WantChanges, Ranged
<1> QED BY <1>1, <1>2, <1>3, <1>4, <1>5, <1>6, <1>7 DEF Next

(* At any time the schedule in force has a period for it, the last that    *)
(* holds it, for every upload accepted, the defaults and every reload.     *)
THEOREM PeriodInForce == Spec => []PeriodHolds
<1>1. Settled /\ Ranged => PeriodHolds
  <2> SUFFICES ASSUME Settled, Ranged PROVE PeriodHolds
    OBVIOUS
  <2>1. Whole(schedule) /\ wall \in 0 .. (Day - 1)
    BY DEF Settled, Ranged
  <2>2. PICK i \in Open(schedule, wall) : \A j \in Open(schedule, wall) : j <= i
    BY <2>1, WholeCovers
  <2> DEFINE k == CHOOSE k \in Open(schedule, wall) : \A j \in Open(schedule, wall) : j <= k
  <2>3. k \in Open(schedule, wall) /\ \A j \in Open(schedule, wall) : j <= k
    BY <2>2
  <2>4. Period(schedule, wall) = schedule[k]
    BY DEF Period, Open
  <2> HIDE DEF k
  <2> QED BY <2>3, <2>4 DEF PeriodHolds, Open
<1> QED BY <1>1, SettledInit, SettledStep, RangedInit, RangedStep, PTL DEF Spec
-----------------------------------------------------------------------------
(* The levels of the pins are those of the order the node reports.         *)
Told ==
  /\ pc \in {"off", "boot", "run", "schedule", "config", "wifi"}
  /\ pins \in [Pins -> {"low", "high", "float"}]
  /\ polarity \in BOOLEAN /\ applied \in Supported
  /\ On => pins = Levels(applied, polarity)

LEMMA LevelsTyped == ASSUME NEW o, NEW low PROVE Levels(o, low) \in [Pins -> {"low", "high", "float"}]
BY DEF Levels

LEMMA AllTyped == ASSUME NEW level \in {"low", "float"} PROVE All(level) \in [Pins -> {"low", "high", "float"}]
BY DEF All

LEMMA ToldInit == Init => Told
BY AllTyped DEF Init, Told, On, Supported

LEMMA ToldTick == ASSUME NEW m, Tick(m), activeLow \in BOOLEAN, pc' = "run" PROVE Told'
<1>1. /\ applied' = Resolve(manual', schedule', surplus', temperature, wall)
      /\ pins' = Levels(applied', activeLow) /\ polarity' = activeLow
  BY Zenon DEF Tick
<1>2. applied' \in Supported
  BY <1>1, ResolveSupported
<1>3. pins' \in [Pins -> {"low", "high", "float"}]
  BY <1>1, LevelsTyped
<1>4. pins' = Levels(applied', polarity')
  BY <1>1
<1> QED BY <1>1, <1>2, <1>3, <1>4 DEF Told, Levels, On

LEMMA ToldSame == ASSUME Told, On <=> On', pc' \in {"off", "boot", "run", "schedule", "config", "wifi"},
                         UNCHANGED <<pins, polarity, applied>>
                  PROVE  Told'
BY DEF Told, Levels

LEMMA ToldStep == Settled /\ Told /\ [Next]_vars => Told'
<1> SUFFICES ASSUME Settled, Told, [Next]_vars PROVE Told'
  OBVIOUS
<1>0. activeLow \in BOOLEAN
  BY DEF Settled
<1>1. CASE Boot
  <2>1. pc' = "boot" /\ pins' = All("low") /\ UNCHANGED <<polarity, applied>>
    BY <1>1 DEF Boot
  <2>2. pins' \in [Pins -> {"low", "high", "float"}]
    BY <2>1, AllTyped
  <2> QED BY <2>1, <2>2 DEF Told, On
<1>2. CASE SetupDone \/ Second \/ CommandAuto \/ (\E order, duration : Command(order, duration))
           \/ (\E b : Relay(b))
  <2>1. PICK m : Tick(m) /\ pc' = "run"
    BY <1>2 DEF SetupDone, Second, CommandAuto, Command, Relay
  <2> QED BY <1>0, <2>1, ToldTick
<1>3. CASE PowerOff
  <2>1. pc' = "off" /\ pins' = All("float") /\ polarity' = TRUE /\ applied' = "confort"
    BY <1>3 DEF PowerOff
  <2>2. pins' \in [Pins -> {"low", "high", "float"}]
    BY <2>1, AllTyped
  <2> QED BY <2>1, <2>2 DEF Told, On, Supported
<1>4. CASE Commit
  <2>1. CASE Tick(manual)
    BY <1>0, <1>4, <2>1, ToldTick DEF Commit, Written
  <2>2. CASE UNCHANGED output
    BY <1>4, <2>2, ToldSame DEF Commit, Written, output, On
  <2> QED BY <1>4, <2>1, <2>2 DEF Commit
<1>5. ASSUME NEW upload, SchedulePut(upload) PROVE Told'
  <2>1. CASE Tick(manual) /\ UNCHANGED pc
    BY <1>0, <1>5, <2>1, ToldTick DEF SchedulePut
  <2>2. CASE UNCHANGED output /\ pc' = "schedule"
    BY <1>5, <2>2, ToldSame DEF SchedulePut, output, On
  <2> QED BY <1>5, <2>1, <2>2 DEF SchedulePut
<1>6. CASE (\E low : ConfigPut(low)) \/ WifiPut
  BY <1>6, ToldSame DEF ConfigPut, WifiPut, output, On
<1>7. CASE (\E t : WallMoves(t) \/ PollTemperature(t)) \/ RefuseLate \/ WantChanges \/ UNCHANGED vars
  <2>1. UNCHANGED <<pc, pins, polarity, applied>>
    BY <1>7 DEF WallMoves, PollTemperature, RefuseLate, WantChanges, vars, output
  <2> QED BY <2>1, ToldSame DEF Told, On
<1> QED
  BY <1>1, <1>2, <1>3, <1>4, <1>5, <1>6, <1>7 DEF Next, Hear, HearLate

(* Two orders that give the pins the same levels: none with three relays,  *)
(* and with two only confort and arret.                                    *)
LEMMA LevelsTell ==
  ASSUME NEW low \in BOOLEAN, NEW o \in Supported, NEW q \in Supported,
         Levels(o, low) = Levels(q, low), o # q
  PROVE  Wiring = "2relay" /\ {o, q} = {"confort", "arret"}
<1>1. \A p \in Pins : (p \in Relays(o)) <=> (p \in Relays(q))
  <2> TAKE p \in Pins
  <2>1. Levels(o, low)[p] = Levels(q, low)[p]
    OBVIOUS
  <2>2. (p \in Relays(o)) \in BOOLEAN /\ (p \in Relays(q)) \in BOOLEAN
    OBVIOUS
  <2> QED BY <2>1, <2>2 DEF Levels
<1>2. "full" \in Pins /\ "neg" \in Pins /\ (Wiring = "3relay" => "pos" \in Pins)
  BY DEF Pins
<1>3. \A r \in Supported : /\ "full" \in Relays(r) <=> r = "eco"
                           /\ "neg" \in Relays(r) <=> r = "hors_gel"
                           /\ "pos" \in Relays(r) <=> r = "arret"
  BY DEF Supported, Relays
<1>4. (o = "eco" <=> q = "eco") /\ (o = "hors_gel" <=> q = "hors_gel")
  BY <1>1, <1>2, <1>3
<1>5. {o, q} = {"confort", "arret"}
  BY <1>4 DEF Supported
<1>6. Wiring # "3relay"
  BY <1>1, <1>2, <1>3, <1>5
<1> QED BY <1>5, <1>6, Choices

(* With two relays the pins cannot tell arret from confort.                *)
Ambiguous == Wiring = "2relay" /\ applied \in {"confort", "arret"}

(* Whatever order the node reports, the pins show it and no other, unless  *)
(* the two orders a node with two relays cannot tell apart are meant.      *)
THEOREM PinsTell == Spec => [](~Ambiguous => PinsTellOrder)
<1>1. Told => (~Ambiguous => PinsTellOrder)
  <2> SUFFICES ASSUME Told, ~PinsTellOrder PROVE Ambiguous
    OBVIOUS
  <2>1. pc = "run" /\ \E o \in Supported \ {applied} : Levels(o, polarity) = pins
    BY DEF PinsTellOrder
  <2>2. PICK o \in Supported \ {applied} : Levels(o, polarity) = pins
    BY <2>1
  <2>3. pins = Levels(applied, polarity) /\ polarity \in BOOLEAN /\ applied \in Supported
    BY <2>1 DEF Told, On
  <2> QED BY <2>2, <2>3, LevelsTell DEF Ambiguous
<1> QED BY <1>1, SettledInit, SettledStep, ToldInit, ToldStep, PTL DEF Spec

(* Every variable stays in its range, for every clock, wiring, schedule,   *)
(* order and sensor.                                                       *)
THEOREM NodeTypeCorrect == Spec => []TypeOK
<1>1. Obeyed /\ Settled /\ Ranged /\ Told => TypeOK
  BY DEF Obeyed, Overrides, Settled, Whole, Ranged, Told, TypeOK
<1> QED BY <1>1, ObeyedInit, ObeyedStep, SettledInit, SettledStep, RangedInit, RangedStep,
           ToldInit, ToldStep, PTL DEF Spec

-----------------------------------------------------------------------------
(* A local auxiliary channel.                                              *)

(* The assumption, one fact at a time.                                     *)
LEMMA AuxConstants ==
  /\ Full \in Nat /\ Full > 1 /\ MaxOpen \in 0 .. Full /\ OutOn \in {0, 1}
  /\ CounterCap \in Nat /\ CounterCap > Full
BY AuxAssumption DEF AuxAssumption

LEMMA AuxTable == ASSUME NEW o \in 0 .. Full
                  PROVE  SinusOn[o] \in Nat /\ SinusTotal[o] \in 0 .. CounterCap
BY AuxAssumption DEF AuxAssumption

-----------------------------------------------------------------------------
(* Type correctness.  The pattern length stays within the bound of the     *)
(* counter, so that the counter of a train cannot pass it.                 *)

AuxNumbers == /\ f \in 0 .. Full /\ d \in 0 .. Full /\ integ \in 0 .. Full
              /\ pulseOn \in Nat /\ pulseTotal \in 0 .. CounterCap /\ counter \in 0 .. CounterCap
              /\ pin \in {0, 1}

AuxNames == /\ phase \in BOOLEAN
            /\ step \in {"idle", "stop", "suspend", "on", "total"}
            /\ mode \in Modes /\ sched \in {"off", "on", "surplus"}
            /\ suspended \in BOOLEAN /\ net \in {"below", "between", "above"} /\ synced \in BOOLEAN
            /\ fired \in {"none", "positive", "negative"} /\ last \in {"none", "stop", "suspend", "drive"}

AuxTyped == AuxNumbers /\ AuxNames

LEMMA AuxTypedInit == AuxInit => AuxTyped
<1> USE AuxConstants
<1>1. AuxInit => AuxNumbers
  BY DEF AuxInit, AuxNumbers, OutOff
<1>2. AuxInit => AuxNames
  BY DEF AuxInit, AuxNames
<1> QED BY <1>1, <1>2 DEF AuxTyped

(* A decision keeps the delays within range.                               *)
LEMMA AuxDecision ==
  ASSUME AuxNumbers, NEW r \in Decisions
  PROVE  r.f \in 0 .. Full /\ r.d \in 0 .. Full /\ r.integ \in 0 .. Full
<1> USE AuxConstants
<1>1. \A k \in {-1, 0, 1} : Integrated(k) \in 0 .. Full
  BY DEF AuxNumbers, Integrated, Within
<1>2. \A x \in 0 .. Full : Ceiled(x) \in 0 .. Full
  BY DEF Ceiled
<1>3. Switched \in 0 .. Full
  BY DEF Switched, AuxNumbers
<1>4. CASE sched = "off" \/ sched = "on" \/ mode = "onoff"
  <2>1. r \in {[f |-> Full, d |-> d, integ |-> Full], [f |-> 0, d |-> 0, integ |-> integ],
               [f |-> Switched, d |-> Switched, integ |-> integ]}
    BY <1>4 DEF Decisions
  <2> QED BY <1>3, <2>1 DEF AuxNumbers
<1>5. CASE ~(sched = "off" \/ sched = "on" \/ mode = "onoff")
  <2>1. PICK i \in {Integrated(-1), Integrated(0), Integrated(1)} :
          r = [f |-> Ceiled(i), d |-> Ceiled(i), integ |-> i]
    BY <1>5 DEF Decisions
  <2> QED BY <2>1, <1>1, <1>2
<1> QED BY <1>4, <1>5

LEMMA AuxNumbersStep == AuxTyped /\ [AuxNext]_auxVars => AuxNumbers'
<1> SUFFICES ASSUME AuxTyped, [AuxNext]_auxVars PROVE AuxNumbers'
  OBVIOUS
<1> USE AuxConstants
<1> USE DEF AuxTyped, AuxNumbers
<1>1. CASE ForcedOff
  BY <1>1 DEF ForcedOff, Close, pulse
<1>2. CASE Decide
  <2>1. PICK r \in Decisions : f' = r.f /\ d' = r.d /\ integ' = r.integ
    BY <1>2 DEF Decide
  <2> QED BY <1>2, <2>1, AuxDecision DEF Decide, pulse
<1>3. CASE Stop
  BY <1>3 DEF Stop, Stopped, pulse
<1>4. CASE ApplyOn
  <2>1. Full - d \in 0 .. Full
    OBVIOUS
  <2> QED BY <1>4, <2>1, AuxTable DEF ApplyOn, delays
<1>5. CASE ApplyTotal
  <2>1. Full - d \in 0 .. Full
    OBVIOUS
  <2>2. DemiTotal \in 0 .. CounterCap
    BY DEF DemiTotal
  <2>3. pulseTotal' \in 0 .. CounterCap
    <3>1. SinusTotal[Full - d] \in 0 .. CounterCap /\ Full - 1 \in 0 .. CounterCap
      BY <2>1, AuxTable
    <3>2. pulseTotal' \in {SinusTotal[Full - d], Full - 1, DemiTotal}
      BY <1>5 DEF ApplyTotal
    <3> QED BY <2>2, <3>1, <3>2
  <2> QED BY <1>5, <2>3 DEF ApplyTotal, delays
<1>6. CASE HalfCycle
  <2>1. CASE mode \in {"inactive", "onoff", "pwm"}
    BY <1>6, <2>1 DEF HalfCycle, RelayTick, PwmTick, OutOff
  <2>2. CASE mode = "demi"
    <3>1. DemiTick /\ UNCHANGED <<f, d, integ, pulseOn>>
      BY <1>6, <2>2 DEF HalfCycle
    <3>2. pulseTotal' \in {0, 1, pulseTotal} /\ pin' \in {OutOn, OutOff}
      BY <3>1 DEF DemiTick
    <3>3. \E sum \in Nat : counter' = AtMost(sum, CounterCap)
      BY <3>1 DEF DemiTick
    <3> QED BY <3>1, <3>2, <3>3 DEF AtMost, OutOff
  <2>3. CASE mode \notin {"inactive", "onoff", "pwm", "demi"}
    <3>1. TrainTick /\ UNCHANGED <<f, d, integ, pulseOn>>
      BY <1>6, <2>3 DEF HalfCycle
    <3>2. pulseTotal' = pulseTotal /\ pin' \in {OutOn, OutOff}
      BY <3>1 DEF TrainTick
    <3>3. counter' = 0 \/ (counter' \in Nat /\ counter' < pulseTotal)
      BY <3>1 DEF TrainTick, TrainStep
    <3> QED BY <3>1, <3>2, <3>3 DEF OutOff
  <2> QED BY <2>1, <2>2, <2>3
<1>7. CASE Measured \/ SyncChanges \/ Reconfigured
  BY <1>7 DEF Measured, SyncChanges, Reconfigured, Unmoved, delays, pulse
<1>8. CASE UNCHANGED auxVars
  BY <1>8 DEF auxVars, delays, pulse
<1> QED BY <1>1, <1>2, <1>3, <1>4, <1>5, <1>6, <1>7, <1>8 DEF AuxNext, AuxTick

LEMMA AuxNamesStep == AuxTyped /\ [AuxNext]_auxVars => AuxNames'
<1> SUFFICES ASSUME AuxTyped, [AuxNext]_auxVars PROVE AuxNames'
  OBVIOUS
<1> USE AuxConstants
<1> USE DEF AuxTyped, AuxNames
<1>1. CASE ForcedOff
  BY <1>1 DEF ForcedOff, config
<1>2. CASE Decide
  BY <1>2 DEF Decide, config
<1>3. CASE Stop \/ ApplyOn \/ ApplyTotal
  BY <1>3 DEF Stop, ApplyOn, ApplyTotal, config
<1>4. CASE HalfCycle
  BY <1>4 DEF HalfCycle, RelayTick, PwmTick, DemiTick, TrainTick, config
<1>5. CASE Measured
  BY <1>5 DEF Measured, Unmoved
<1>6. CASE SyncChanges
  BY <1>6 DEF SyncChanges, Unmoved
<1>7. CASE Reconfigured
  BY <1>7 DEF Reconfigured, Unmoved
<1>8. CASE UNCHANGED auxVars
  BY <1>8 DEF auxVars, config
<1> QED BY <1>1, <1>2, <1>3, <1>4, <1>5, <1>6, <1>7, <1>8 DEF AuxNext, AuxTick

LEMMA AuxTypedStep == AuxTyped /\ [AuxNext]_auxVars => AuxTyped'
BY AuxNumbersStep, AuxNamesStep DEF AuxTyped

LEMMA AuxAlwaysTyped == AuxSpec => []AuxTyped
BY AuxTypedInit, AuxTypedStep, PTL DEF AuxSpec

(* Types are preserved by every operation of the program.                  *)
THEOREM AuxTypeCorrect == AuxSpec => []AuxTypeOK
<1> USE AuxConstants
<1>1. AuxTyped => AuxTypeOK
  BY DEF AuxTyped, AuxNumbers, AuxNames, AuxTypeOK
<1> QED BY <1>1, AuxAlwaysTyped, PTL

-----------------------------------------------------------------------------
(* A stop follows a decision that closed the channel, and until the next   *)
(* decision nothing but a tick moves the delay the interrupt reads.        *)
StoppedIsClosed == /\ step \in {"stop", "suspend"} => d = Full
                   /\ last \in {"stop", "suspend"} => d = Full /\ step \notin {"on", "total"}

StoppedInv == StoppedIsClosed /\ StoppedRelayStaysReleased

LEMMA StoppedStep ==
  OutOn = 1 /\ AuxTyped /\ StoppedInv /\ [AuxNext]_auxVars => StoppedInv'
<1> SUFFICES ASSUME OutOn = 1, AuxTyped, StoppedInv, [AuxNext]_auxVars PROVE StoppedInv'
  OBVIOUS
<1> USE AuxConstants
<1> USE DEF AuxTyped, StoppedInv, StoppedIsClosed, StoppedRelayStaysReleased, Energised
<1>1. CASE ForcedOff
  BY <1>1 DEF ForcedOff, Close, config
<1>2. CASE Decide
  BY <1>2 DEF Decide, config
<1>3. CASE Stop
  BY <1>3 DEF Stop, Stopped, config
<1>4. CASE ApplyOn \/ ApplyTotal
  BY <1>4 DEF ApplyOn, ApplyTotal, delays, config
<1>5. CASE HalfCycle
  <2>1. CASE mode = "onoff"
    BY <1>5, <2>1 DEF HalfCycle, RelayTick, config
  <2>2. CASE mode = "inactive"
    BY <1>5, <2>2 DEF HalfCycle, config
  <2>3. CASE mode \notin {"onoff", "inactive"}
    BY <1>5, <2>3 DEF HalfCycle, config
  <2> QED BY <2>1, <2>2, <2>3
<1>6. CASE Measured \/ SyncChanges \/ Reconfigured
  BY <1>6 DEF Measured, SyncChanges, Reconfigured, Unmoved, delays
<1>7. CASE UNCHANGED auxVars
  BY <1>7 DEF auxVars, delays, config
<1> QED BY <1>1, <1>2, <1>3, <1>4, <1>5, <1>6, <1>7 DEF AuxNext, AuxTick

(* With an active-high output, a relay or an inactive channel that a tick  *)
(* stopped or suspended stays released until a tick drives it again.       *)
THEOREM StaysReleased ==
  OutOn = 1 => (AuxSpec => []StoppedRelayStaysReleased)
<1> SUFFICES ASSUME OutOn = 1
             PROVE  AuxSpec => []StoppedRelayStaysReleased
  OBVIOUS
<1> USE AuxConstants
<1>1. AuxInit => StoppedInv
  BY DEF AuxInit, StoppedInv, StoppedIsClosed, StoppedRelayStaysReleased
<1>2. AuxTyped /\ StoppedInv /\ [AuxNext]_auxVars => StoppedInv'
  BY StoppedStep
<1>3. StoppedInv => StoppedRelayStaysReleased
  BY DEF StoppedInv
<1> QED BY <1>1, <1>2, <1>3, AuxAlwaysTyped, PTL DEF AuxSpec

-----------------------------------------------------------------------------
(* The phase a half-sine channel keeps is the other one than it fired last. *)
TurnIsKept == /\ fired = "positive" => pulseTotal = 1
              /\ fired = "negative" => pulseTotal = 0

LEMMA TurnStep == AuxTyped /\ TurnIsKept /\ [AuxNext]_auxVars => TurnIsKept'
<1> SUFFICES ASSUME AuxTyped, TurnIsKept, [AuxNext]_auxVars PROVE TurnIsKept'
  OBVIOUS
<1> USE AuxConstants
<1> USE DEF AuxTyped, TurnIsKept
<1>1. CASE ForcedOff \/ Decide \/ Stop \/ ApplyOn
  BY <1>1 DEF ForcedOff, Decide, Stop, ApplyOn, pulse
<1>2. CASE ApplyTotal
  BY <1>2 DEF ApplyTotal, DemiTotal, AuxNumbers
<1>3. CASE HalfCycle
  BY <1>3 DEF HalfCycle, RelayTick, PwmTick, DemiTick, TrainTick
<1>4. CASE Measured \/ SyncChanges \/ Reconfigured
  BY <1>4 DEF Measured, SyncChanges, Reconfigured, Unmoved, pulse
<1>5. CASE UNCHANGED auxVars
  BY <1>5 DEF auxVars, pulse
<1> QED BY <1>1, <1>2, <1>3, <1>4, <1>5 DEF AuxNext, AuxTick

(* A half-sine channel fires the two half waves of the mains in turn,      *)
(* whatever the opening does meanwhile and whatever mode came before.      *)
THEOREM Alternate == AuxSpec => HalfSinesAlternate
<1> USE AuxConstants
<1>1. AuxInit => TurnIsKept
  BY DEF AuxInit, TurnIsKept
<1>2. AuxTyped /\ TurnIsKept /\ [AuxNext]_auxVars
        => (HalfCycle /\ mode = "demi" /\ pin' = OutOn => fired' # fired)
  <2> SUFFICES ASSUME AuxTyped, TurnIsKept, HalfCycle, mode = "demi", pin' = OutOn
               PROVE  fired' # fired
    OBVIOUS
  <2>1. Turn(phase', pulseTotal) /\ fired' = IF phase' THEN "positive" ELSE "negative"
    BY DEF HalfCycle, DemiTick, OutOff
  <2> QED BY <2>1 DEF Turn, TurnIsKept
<1> QED BY <1>1, <1>2, AuxAlwaysTyped, TurnStep, PTL DEF AuxSpec, HalfSinesAlternate
=============================================================================
