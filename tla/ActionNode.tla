------------------------------ MODULE ActionNode ------------------------------
(***************************************************************************)
(* The action node (firmware/action_node, an ESP8266): the pilot wire of a *)
(* radiator, driven by a daily schedule, an override, the surplus the      *)
(* router reports over HTTP and the room temperature.  The node has one    *)
(* thread; its steps are set-up, the tick of every second, one request, a  *)
(* reading of the sensor, and the two halves of a write to its flash       *)
(* sector, between which the power may fail.                               *)
(*                                                                         *)
(* The handlers refuse a body that parses and act on one that does not     *)
(* (body_json is tested the wrong way round), with the fields read before  *)
(* the break and defaults for the others: such are the requests below.     *)
(*                                                                         *)
(* A definition named ...Fault is a seeded error in the definition after   *)
(* it, kept to show that the properties can fail; no specification uses it. *)
(***************************************************************************)
EXTENDS Integers, Sequences

CONSTANTS
  Clock,      \* modulus of millis(), in seconds
  Day,        \* kRadiatorScheduleTimeMax
  Wiring,     \* the build: "3relay" or "2relay"
  Uploads,    \* schedules offered: sequences of periods without their start
  Orders,     \* orders asked for by an override
  Durations,  \* duration_sec of an override, 0 for no end
  Readings    \* temperatures the sensor returns

Disabled == 150
Supported == {"confort", "eco", "hors_gel", "arret"}
Offered == [end : Int, kind : {"regulation", "fixed"}, order : Supported, inf : Int, sup : Int]

ASSUME NodeAssumption ==
  /\ Clock \in Nat /\ Clock > 3 /\ Clock % 2 = 0
  /\ Day \in Nat /\ Day > 0
  /\ Wiring \in {"3relay", "2relay"}
  /\ Orders \subseteq Supported
  /\ Durations \subseteq 0 .. (Clock - 1)
  /\ Readings \subseteq 0 .. Disabled
  /\ \A u \in Uploads : u \in Seq(Offered) /\ Len(u) > 0

VARIABLES
  pc,          \* off, boot, run, or the part of the sector being rewritten
  pins,        \* level of each relay pin
  schedule,    \* state.schedule
  activeLow,   \* state.config.relay_active_low
  flash,       \* the sector: the two above, or <<>> once erased
  now,         \* millis()
  wall,        \* what action_node_wall_decihours returns
  temperature, \* temperature_c while temperature_ok, else Disabled
  manual,      \* state.manual
  surplus,     \* state.router.surplus_on
  applied,     \* state.applied_order
  want,        \* the router: the state it repeats
  late,        \* a request of the opposite state waits before it
  polarity,    \* history: activeLow when the pins were last written
  asked,       \* history: the last override, with the time it has left
  acked        \* history: the settings last answered with 200

settings == <<schedule, activeLow, flash, acked>>
output   == <<pins, polarity, applied>>
command  == <<manual, asked, now>>
router   == <<want, late>>
vars == <<pc, settings, output, command, wall, temperature, surplus, router>>
-----------------------------------------------------------------------------
(* The schedule (radiator_schedule.cpp). *)

Defaults ==
  <<[start |-> 0, end |-> Day, kind |-> "regulation", order |-> "confort",
     inf |-> Disabled, sup |-> Disabled]>>

Parsed(upload) ==
  [i \in DOMAIN upload |->
     [start |-> IF i = 1 THEN 0 ELSE upload[i - 1].end, end |-> upload[i].end,
      kind |-> upload[i].kind, order |-> upload[i].order,
      inf |-> upload[i].inf, sup |-> upload[i].sup]]

Valid(s) ==
  /\ \A i \in DOMAIN s : s[i].start < s[i].end /\ s[i].end <= Day
  /\ s[Len(s)].end = Day

(* Both ends of a period belong to it; of two periods the later one counts. *)
Period(s, t) ==
  LET open == {i \in DOMAIN s : s[i].start <= t /\ t <= s[i].end}
  IN  s[CHOOSE i \in open : \A j \in open : j <= i]

InWindow == Period(schedule, wall).kind = "regulation"

(* Out of the bounds of its period, the room gets confort. *)
Gated(order, p, t) ==
  IF \/ p.inf < Disabled /\ t < p.inf
     \/ p.sup < Disabled /\ p.sup < t /\ t < Disabled
  THEN "confort" ELSE order
-----------------------------------------------------------------------------
(* The override, the order and the relays. *)

ExpiredFault(m, t) == m.active /\ m.until # 0 /\ t >= m.until
Expired(m, t) == m.active /\ m.until # 0 /\ (t - m.until) % Clock < Clock \div 2

Resolve(m, s, b, t, w) ==
  LET p == Period(s, w)
      scheduled == IF p.kind = "fixed" THEN p.order ELSE IF b THEN "eco" ELSE "confort"
      order == IF m.active THEN m.order ELSE Gated(scheduled, p, t)
  IN  IF order \in Supported THEN order ELSE "confort"

Relays(order) ==
  CASE order = "eco" -> {"full"} [] order = "hors_gel" -> {"neg"}
    [] order = "arret" -> {"pos"} [] OTHER -> {}

(* With two relays the pin of the negative half is the selector, energised *)
(* for either half wave and released again when it is arret that selects.  *)
Pins == IF Wiring = "3relay" THEN {"full", "neg", "pos"} ELSE {"full", "neg"}

Levels(order, low) ==
  [p \in Pins |-> IF (p \in Relays(order)) = low THEN "low" ELSE "high"]

All(level) == [p \in Pins |-> level]

NoOverride == [active |-> FALSE, order |-> "confort", until |-> 0]
Automatic == [what |-> "auto", order |-> "confort", left |-> 0]

(* action_node_tick with the override m; the caller gives the other primes. *)
(* What an override that is not active was about is never read again.       *)
Tick(m) ==
  /\ manual' = IF Expired(m, now') THEN NoOverride ELSE m
  /\ applied' = Resolve(manual', schedule', surplus', temperature, wall)
  /\ pins' = Levels(applied', activeLow) /\ polarity' = activeLow

BlobFault == [schedule |-> schedule, low |-> TRUE]
Blob == [schedule |-> schedule, low |-> activeLow]

Factory == [schedule |-> Defaults, low |-> TRUE]

Init ==
  /\ pc = "off" /\ pins = All("float") /\ polarity = TRUE /\ applied = "confort"
  /\ schedule = Defaults /\ activeLow = TRUE /\ flash = <<>> /\ acked = Factory
  /\ now = 0 /\ wall = 0 /\ temperature = Disabled
  /\ manual = NoOverride /\ asked = Automatic /\ surplus = FALSE
  /\ want = FALSE /\ late = FALSE
-----------------------------------------------------------------------------
(* Power, set-up and the loop. *)

(* A sector without the magic gives the defaults.  The pins become outputs *)
(* at their reset level, low, and stay so while set-up looks for the WiFi.  *)
Boot ==
  /\ pc = "off"
  /\ pc' = "boot" /\ pins' = All("low")
  /\ LET loaded == IF flash = <<>> THEN Factory ELSE flash
     IN  /\ schedule' = loaded.schedule /\ activeLow' = loaded.low
         /\ acked' = IF flash = <<>> THEN Factory ELSE acked
  /\ UNCHANGED <<flash, polarity, applied, command, wall, temperature, surplus, router>>

(* Set-up writes the sector where it found none, and ends in a tick. *)
SetupDone ==
  /\ pc = "boot"
  /\ pc' = "run" /\ flash' = Blob
  /\ UNCHANGED <<schedule, activeLow, acked, now, asked, wall, temperature, surplus, router>>
  /\ Tick(manual)

(* The tick of the loop, a second after the last. *)
Second ==
  /\ pc = "run"
  /\ now' = (now + 1) % Clock
  /\ asked' = [asked EXCEPT !.left = IF @ > 0 THEN @ - 1 ELSE 0]
  /\ UNCHANGED <<pc, settings, wall, temperature, surplus, router>>
  /\ Tick(manual)

(* The time of day passes, is set by NTP, or is not known and reads 0. *)
WallMoves(t) ==
  /\ pc = "run" /\ t # wall
  /\ wall' = t
  /\ UNCHANGED <<pc, settings, output, command, temperature, surplus, router>>

(* A sensor that no longer answers leaves the last temperature in force. *)
PollTemperature(t) ==
  /\ pc = "run" /\ t # temperature
  /\ temperature' = t
  /\ UNCHANGED <<pc, settings, output, command, wall, surplus, router>>

PowerOff ==
  /\ pc # "off"
  /\ pc' = "off" /\ pins' = All("float")
  /\ now' = 0 /\ wall' = 0 /\ temperature' = Disabled
  /\ manual' = NoOverride /\ asked' = Automatic /\ surplus' = FALSE
  /\ applied' = "confort" /\ polarity' = TRUE
  /\ schedule' = Defaults /\ activeLow' = TRUE
  /\ UNCHANGED <<flash, acked, router>>
-----------------------------------------------------------------------------
(* Requests. *)

CommandAuto ==
  /\ pc = "run"
  /\ asked' = Automatic
  /\ UNCHANGED <<pc, settings, now, wall, temperature, surplus, router>>
  /\ Tick(NoOverride)

(* A deadline of 0 stands for none, and one half a clock ahead has passed: *)
(* what such a command asked for is recorded as "other".                   *)
Command(order, duration) ==
  /\ pc = "run"
  /\ LET until == IF duration = 0 THEN 0 ELSE (now + duration) % Clock
     IN  /\ asked' = [what |-> IF duration = 0 THEN "held"
                               ELSE IF until # 0 /\ duration < Clock \div 2 THEN "timed"
                               ELSE "other",
                      order |-> order, left |-> duration]
         /\ UNCHANGED <<pc, settings, now, wall, temperature, surplus, router>>
         /\ Tick([active |-> TRUE, order |-> order, until |-> until])

(* EEPROM.commit erases the sector and writes it, if anything changed; the *)
(* answer, and for a schedule the tick, come after it.                     *)
SchedulePut(upload) ==
  /\ pc = "run" /\ Valid(Parsed(upload))
  /\ schedule' = Parsed(upload)
  /\ UNCHANGED <<activeLow, acked, now, asked, wall, temperature, surplus, router>>
  /\ \/ schedule' = schedule /\ UNCHANGED <<pc, flash>> /\ Tick(manual)
     \/ /\ schedule' # schedule /\ pc' = "schedule" /\ flash' = <<>>
        /\ UNCHANGED <<output, manual>>

ConfigPut(low) ==
  /\ pc = "run" /\ low # activeLow
  /\ activeLow' = low /\ pc' = "config" /\ flash' = <<>>
  /\ UNCHANGED <<schedule, acked, output, command, wall, temperature, surplus, router>>

(* New WiFi credentials go to the same sector. *)
WifiPut ==
  /\ pc = "run"
  /\ pc' = "wifi" /\ flash' = <<>>
  /\ UNCHANGED <<schedule, activeLow, acked, output, command, wall, temperature, surplus, router>>

Written ==
  /\ pc' = "run" /\ flash' = Blob
  /\ acked' = [schedule |-> schedule, low |-> activeLow]
  /\ UNCHANGED <<schedule, activeLow, now, asked, wall, temperature, surplus, router>>

Commit ==
  \/ pc = "schedule" /\ Written /\ Tick(manual)
  \/ pc \in {"config", "wifi"} /\ Written /\ UNCHANGED <<output, manual>>

(* /relay/on and /relay/off: a surplus is heard in a regulation period only. *)
RelayFault(b) ==
  /\ pc = "run" /\ InWindow
  /\ surplus' = (surplus \/ b)
  /\ UNCHANGED <<pc, settings, now, asked, wall, temperature>>
  /\ Tick(manual)
Relay(b) ==
  /\ pc = "run" /\ InWindow
  /\ surplus' = b
  /\ UNCHANGED <<pc, settings, now, asked, wall, temperature>>
  /\ Tick(manual)

(* The router repeats its state.  A request it gave up on may still wait in *)
(* the node's queue, and is answered first: late.                           *)
Hear == ~late /\ Relay(want) /\ UNCHANGED router
HearLate == late /\ Relay(~want) /\ late' = FALSE /\ UNCHANGED want
RefuseLate ==
  /\ late /\ (pc = "run" => ~InWindow)
  /\ late' = FALSE
  /\ UNCHANGED <<pc, settings, output, command, wall, temperature, surplus, want>>

WantChanges ==
  /\ want' = ~want /\ late' \in BOOLEAN
  /\ UNCHANGED <<pc, settings, output, command, wall, temperature, surplus>>

Next ==
  \/ Boot \/ SetupDone \/ Second \/ PowerOff \/ Commit
  \/ (\E t \in 0 .. (Day - 1) : WallMoves(t))
  \/ (\E t \in Readings \cup {Disabled} : PollTemperature(t))
  \/ CommandAuto \/ (\E order \in Orders, duration \in Durations : Command(order, duration))
  \/ (\E upload \in Uploads : SchedulePut(upload))
  \/ (\E low \in BOOLEAN : ConfigPut(low)) \/ WifiPut
  \/ Hear \/ HearLate \/ RefuseLate \/ WantChanges

Spec == Init /\ [][Next]_vars

(* The node runs while it has power; of the requests the router repeats    *)
(* for ever in regulation periods, some arrive, and none waits for ever.   *)
FairSpec ==
  /\ Spec
  /\ WF_vars(SetupDone) /\ WF_vars(Commit) /\ WF_vars(Second)
  /\ SF_vars(Hear) /\ SF_vars(HearLate \/ RefuseLate)
-----------------------------------------------------------------------------
(* Every variable stays in the range the code gives it; the schedule in    *)
(* force covers the day.                                                   *)
TypeOK ==
  /\ pc \in {"off", "boot", "run", "schedule", "config", "wifi"}
  /\ pins \in [Pins -> {"low", "high", "float"}]
  /\ Valid(schedule)
  /\ flash = <<>> \/ Valid(flash.schedule)
  /\ {activeLow, surplus, want, late, polarity} \subseteq BOOLEAN
  /\ now \in 0 .. (Clock - 1) /\ wall \in 0 .. (Day - 1)
  /\ temperature \in Readings \cup {Disabled}
  /\ manual.until \in 0 .. (Clock - 1)
  /\ {applied, manual.order} \subseteq Supported

(* What the radiator is told is what the node reports: once it runs, no    *)
(* other order gives the pins the levels they have                         *)
(* (action_node_apply_relays, pilot_wire_full.cpp): so with three relays,   *)
(* not with two. No run checks this one.                                   *)
PinsTellOrder ==
  pc = "run" => \A o \in Supported \ {applied} : Levels(o, polarity) # pins

(* An override holds for the time asked, and no longer: through requests,  *)
(* new schedules, temperatures, flash writes and wraps of millis() the     *)
(* radiator has its order until the time is over, and is back to automatic *)
(* then (action_node_manual.cpp, action_node_tick).                        *)
OverrideTimed ==
  pc = "run" =>
    /\ asked.what = "auto" => ~manual.active
    /\ asked.what = "held" => applied = asked.order
    /\ asked.what = "timed" /\ asked.left > 0 => applied = asked.order
    /\ asked.what = "timed" /\ asked.left = 0 => ~manual.active

(* Unless the power failed while the sector was erased, the node starts    *)
(* with the schedule and the polarity it last answered for                 *)
(* (action_node_app_save_*, load_blob).                                    *)
SettingsSurvive ==
  [][Boot /\ flash # <<>> => schedule' = acked.schedule /\ activeLow' = acked.low]_vars

(* The latch outlives its window, but not for good: if the router goes on  *)
(* wanting one state, and the node stays on and comes to regulation        *)
(* periods, from some tick on every one of them has the radiator follow    *)
(* the router, whatever was refused or came late before (handle_relay_on). *)
LatchFollows ==
  \A b \in BOOLEAN :
    <>[](want = b /\ pc # "off") /\ []<>(pc = "run" /\ InWindow) =>
      <>[][Second /\ InWindow /\ ~manual'.active /\ temperature = Disabled =>
             applied' = IF b THEN "eco" ELSE "confort"]_vars
=============================================================================
