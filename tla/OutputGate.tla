------------------------------ MODULE OutputGate ------------------------------
(***************************************************************************)
(* Whether the outputs of channel 0 are suspended: the health of the       *)
(* measurement source (core/balansun_source_health_logic.cpp), vacation    *)
(* mode (core/balansun_vacation_logic.cpp) and the two early decisions of  *)
(* a tick, no valid reading and output suspension.  The metering task      *)
(* polls on the other core, so each of its writes is a step of its own;    *)
(* requests run on the main loop and are atomic.                           *)
(*                                                                         *)
(* What a regulated tick computes is the business of TriacRegulation: here *)
(* the triac is open or closed, and automatic regulation may do either.    *)
(*                                                                         *)
(* A definition named ...Fault is a seeded error in the definition after   *)
(* it, kept to show that the properties can fail; no specification uses it. *)
(***************************************************************************)
EXTENDS Integers

CONSTANTS
  Period,     \* poll_period_ms, in units of Elapse
  MaxStreak,  \* where g_source_error_streak saturates (255)
  LastDay,    \* bound on the wall clock
  Ends        \* ends of a vacation requests ask for, 0 for none

ASSUME GateAssumption ==
  /\ Period \in Nat /\ Period > 0
  /\ MaxStreak \in Nat /\ MaxStreak >= 2
  /\ LastDay \in Nat /\ LastDay > 1
  /\ Ends \subseteq Nat /\ 0 \in Ends

VARIABLES
  kind,    \* g_active_source: the peer, or any other
  row,     \* source of the poll in progress
  phase,   \* metering task: rest, ask, or what the poll brought: good, bad
  age,     \* now - last_metering_task_ms, saturating beyond three periods
  peerOk,  \* ext_peer_last_poll_ok
  streak,  \* g_source_error_streak
  valid,   \* meter_reading_valid
  synced,  \* time_sync_valid
  known,   \* time() is set
  day,     \* what the wall clock shows, or would show
  vac,     \* vacationEnabled, vacationEndEpoch
  flash,   \* the same two in flash
  guard,   \* triacOffWhenSourceStale
  over,    \* load_channels[0].OverrideState
  open,    \* the delay commanded to the triac is below 100
  misses,  \* history: polls of the active source without a reading, in a row
  asked,   \* history: vac as the last request left it
  unsaved  \* history: nothing was saved since that request

metering == <<row, phase, age, peerOk, streak, misses>>
clock    == <<synced, known, day>>
vacation == <<vac, flash, asked, unsaved>>
output   == <<over, open>>
vars     == <<kind, metering, valid, clock, vacation, guard, output>>

Kinds    == {"peer", "other"}
Vacation == [on : BOOLEAN, end : Ends]
Oldest   == 3 * Period + 1
-----------------------------------------------------------------------------
(* Health of the source. *)

PollOkFault == synced
PollOk == IF kind = "peer" THEN peerOk ELSE synced

FreshnessFault == IF age <= Period THEN 40 ELSE 0
Freshness ==
  IF age <= Period THEN 40
  ELSE IF age <= 3 * Period THEN (40 * (3 * Period - age)) \div (2 * Period)
  ELSE 0

StreakPoints == IF streak = 0 THEN 20 ELSE IF streak = 1 THEN 10 ELSE 0

Score == Freshness + (IF PollOk THEN 40 ELSE 0) + StreakPoints

Stale == Score < 50

(* Vacation mode; a clock that is not set reads as before any end. *)
Ended(v) == v.end # 0 /\ known /\ day >= v.end

ActiveFault(v) == v.on /\ known /\ ~Ended(v)
Active(v) == v.on /\ ~Ended(v)

Kept(v) == [v EXCEPT !.on = Active(v)]

Suspended == Active(vac) \/ (guard /\ Stale)

Init ==
  /\ kind \in Kinds /\ row = kind /\ phase = "rest" /\ age = Oldest
  /\ peerOk = FALSE /\ streak = 0 /\ valid = FALSE /\ synced = FALSE
  /\ known = FALSE /\ day = 1
  /\ vac = [on |-> FALSE, end |-> 0] /\ flash = vac /\ asked = vac
  /\ unsaved = FALSE
  /\ guard \in BOOLEAN
  /\ over = "auto" /\ open = FALSE
  /\ misses = 0
-----------------------------------------------------------------------------
(* The metering task. *)

PollStart ==
  /\ phase = "rest" /\ age >= Period
  /\ phase' = "ask" /\ row' = kind /\ age' = 0
  /\ UNCHANGED <<kind, peerOk, streak, misses, valid, clock, vacation, guard, output>>

(* The driver gets a reading or gives up; only the peer's records which. *)
PollAnswer(good) ==
  /\ phase = "ask"
  /\ phase' = IF good THEN "good" ELSE "bad"
  /\ valid' = (valid \/ good)
  /\ peerOk' = IF row = "peer" THEN good ELSE peerOk
  /\ misses' = IF good THEN 0 ELSE misses
  /\ UNCHANGED <<kind, row, age, streak, clock, vacation, guard, output>>

PollEndFault ==
  /\ phase \in {"good", "bad"}
  /\ phase' = "rest"
  /\ age' \in IF row = "peer" THEN {0} ELSE {0, age}
  /\ streak' = IF PollOk THEN streak ELSE IF streak < MaxStreak THEN streak + 1 ELSE streak
  /\ misses' = IF phase = "bad" /\ row = kind /\ misses < 2 THEN misses + 1 ELSE misses
  /\ row' = kind
  /\ UNCHANGED <<kind, peerOk, valid, clock, vacation, guard, output>>
PollEnd ==
  /\ phase \in {"good", "bad"}
  /\ phase' = "rest"
  /\ age' \in IF row = "peer" THEN {0} ELSE {0, age}
  /\ streak' = IF PollOk THEN (IF streak > 0 THEN streak - 1 ELSE 0)
               ELSE IF streak < MaxStreak THEN streak + 1 ELSE streak
  /\ misses' = IF phase = "bad" /\ row = kind /\ misses < 2 THEN misses + 1 ELSE misses
  /\ row' = kind
  /\ UNCHANGED <<kind, peerOk, valid, clock, vacation, guard, output>>

Elapse ==
  /\ age < Oldest
  /\ age' = age + 1
  /\ UNCHANGED <<kind, row, phase, peerOk, streak, misses, valid, clock, vacation, guard, output>>

ClockSync ==
  /\ ~synced
  /\ synced' = TRUE /\ known' = TRUE
  /\ UNCHANGED <<kind, metering, valid, day, vacation, guard, output>>

Tomorrow ==
  /\ day < LastDay
  /\ day' = day + 1
  /\ UNCHANGED <<kind, metering, valid, synced, known, vacation, guard, output>>
-----------------------------------------------------------------------------
(* The main loop. *)

(* Without a reading the loop skips the regulation altogether.  Clearing   *)
(* a vacation that has ended comes first, in either case.                  *)
Suspend ==
  /\ valid /\ Suspended
  /\ vac' = Kept(vac)
  /\ open' = FALSE
  /\ UNCHANGED <<kind, metering, valid, clock, flash, asked, unsaved, guard, over>>

(* The deadline of an override may have passed.  A channel that is barred, *)
(* because it is disabled, has reached its daily cap, or its site cap or   *)
(* calibration leave nothing of what it may open, is closed whatever       *)
(* overrides it.                                                           *)
Regulate(barred) ==
  /\ valid /\ ~Suspended
  /\ vac' = Kept(vac)
  /\ over' \in {over, "auto"}
  /\ open' \in IF barred \/ over' = "off" THEN {FALSE}
               ELSE IF over' = "on" THEN {TRUE} ELSE BOOLEAN
  /\ UNCHANGED <<kind, metering, valid, clock, flash, asked, unsaved, guard>>

Turn(barred) == Suspend \/ Regulate(barred)
AnyTurn      == \E barred \in BOOLEAN : Turn(barred)

(* A request for the state ends a vacation whose time has come. *)
GetState ==
  /\ vac' = Kept(vac)
  /\ UNCHANGED <<kind, metering, valid, clock, flash, asked, unsaved, guard, output>>

Request(v) ==
  /\ vac' = v /\ asked' = v /\ unsaved' = TRUE
  /\ UNCHANGED <<kind, metering, valid, clock, flash, guard, output>>

(* The switch of Home Assistant: ON keeps the end on record. *)
Switch(on) == Request([on |-> on, end |-> IF on THEN vac.end ELSE 0])

(* The site configuration sets both fields or one of them. *)
Configure(on, end) == Request([on |-> on, end |-> end])

SetGuard ==
  /\ guard' = ~guard
  /\ UNCHANGED <<kind, metering, valid, clock, vacation, output>>

(* A source chosen at run time inherits validity, streak and peer result. *)
SetSource ==
  /\ kind' = (CHOOSE k \in Kinds : k # kind)
  /\ misses' = 0
  /\ row' = IF phase = "rest" THEN kind' ELSE row
  /\ UNCHANGED <<phase, age, peerOk, streak, valid, clock, vacation, guard, output>>

(* An override is obeyed at once, "auto" at the next regulated tick. *)
SetOverride(state) ==
  /\ over' = state
  /\ open' = IF state = "auto" THEN open ELSE state = "on"
  /\ UNCHANGED <<kind, metering, valid, clock, vacation, guard>>

(* Reading an override that is due clears it and leaves the triac. *)
GetOverride ==
  /\ over' = "auto"
  /\ UNCHANGED <<kind, metering, valid, clock, vacation, guard, open>>

Save ==
  /\ flash' = vac /\ unsaved' = FALSE
  /\ UNCHANGED <<kind, metering, valid, clock, vac, asked, guard, output>>

(* A restart may keep the time.  The settings are those of flash; a        *)
(* request it overtook is forgotten, and the guard is one it had before.   *)
Restart ==
  /\ row' = kind /\ phase' = "rest" /\ age' = Oldest
  /\ peerOk' = FALSE /\ streak' = 0 /\ misses' = 0 /\ valid' = FALSE
  /\ synced' = FALSE /\ known' \in {known, FALSE}
  /\ vac' = flash
  /\ asked' = (IF unsaved THEN flash ELSE asked) /\ unsaved' = FALSE
  /\ guard' \in BOOLEAN
  /\ over' = "auto" /\ open' = FALSE
  /\ UNCHANGED <<kind, day, flash>>

Next ==
  \/ PollStart \/ PollEnd \/ (\E good \in BOOLEAN : PollAnswer(good))
  \/ Elapse \/ ClockSync \/ Tomorrow
  \/ Suspend \/ (\E barred \in BOOLEAN : Regulate(barred)) \/ GetState
  \/ (\E on \in BOOLEAN : Switch(on))
  \/ (\E on \in BOOLEAN, end \in Ends : Configure(on, end))
  \/ SetGuard \/ SetSource
  \/ (\E state \in {"auto", "on", "off"} : SetOverride(state))
  \/ GetOverride \/ Save \/ Restart

Spec == Init /\ [][Next]_vars

(* The metering task and the loop run; time passes.  Nothing is assumed of *)
(* the meter, the clock or the requests.                                   *)
FairSpec ==
  /\ Spec
  /\ WF_vars(PollStart) /\ WF_vars(\E good \in BOOLEAN : PollAnswer(good))
  /\ WF_vars(PollEnd) /\ WF_vars(Elapse)
-----------------------------------------------------------------------------
(* Every variable stays in the range the code gives it. *)
TypeOK ==
  /\ {kind, row} \subseteq Kinds
  /\ phase \in {"rest", "ask", "good", "bad"}
  /\ age \in 0 .. Oldest /\ streak \in 0 .. MaxStreak /\ misses \in 0 .. 2
  /\ {peerOk, valid, synced, known, guard, open, unsaved} \subseteq BOOLEAN
  /\ day \in 1 .. LastDay
  /\ vac \in Vacation /\ flash \in Vacation /\ asked \in Vacation
  /\ over \in {"auto", "on", "off"}

(* The fail-safe cuts a dead peer (core/balansun_source_health_logic.cpp):  *)
(* once two polls in a row brought no reading, the next tick closes the    *)
(* triac, whatever the streak was before and whatever override is in force. *)
DeadPeerCuts ==
  [][AnyTurn /\ guard /\ kind = "peer" /\ misses = 2 => ~open']_vars

(* And only a dead one: as soon as a poll of the peer succeeded, and until *)
(* two periods without another, the guard does not suspend the outputs,    *)
(* however long the outage before it was: an override in force is obeyed,  *)
(* unless the channel itself is barred.                                    *)
SoundPeerRuns ==
  [][Turn(FALSE) /\ kind = "peer" /\ peerOk /\ age <= 2 * Period /\ ~vac.on
       => (over' = "on" => open')]_vars

(* What the setting is documented to do for every source; the score of a   *)
(* source other than the peer takes the wall clock for a good poll, so TLC *)
(* finds this violated. No run checks this one.                            *)
DeadSourceCuts ==
  [][AnyTurn /\ guard /\ misses = 2 => ~open']_vars

(* A vacation is what was last asked for (core/balansun_vacation_logic.cpp): *)
(* through ticks, requests for the state, saves and restarts, an unset     *)
(* clock included, it closes the triac until its end, and after the end    *)
(* outputs are obeyed again.  While the time is unknown its end does not   *)
(* count; a request that a restart overtook before it was saved is gone.   *)
Wanted == asked.on /\ (asked.end = 0 \/ day < asked.end)
Over == ~Wanted /\ (known \/ ~asked.on)

VacationAsAsked ==
  [][/\ AnyTurn /\ Wanted => ~open'
     /\ Turn(FALSE) /\ Over /\ ~guard => (over' = "on" => open')]_vars

(* The cut is no lockout: if from some moment on every poll of the peer    *)
(* succeeds, the error streak of the outage drains and the source is       *)
(* sound for good, however irregularly it is polled.                       *)
RecoveryEnds ==
  <>[](kind = "peer" /\ peerOk) => <>[](~Stale)
=============================================================================
