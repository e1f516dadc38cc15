------------------------------- MODULE Schedule -------------------------------
(***************************************************************************)
(* The day schedule of a load channel (core/actions_logic.cpp) and the     *)
(* second lookup of it, in core/Actions.cpp, that drives remote relays.    *)
(*                                                                         *)
(* A schedule is a sequence of periods [type, end, pmin, pmax, tmin, tmax] *)
(* that follow one another from 0 to TimeMax; a period starts where the    *)
(* one before it ends.                                                     *)
(*                                                                         *)
(* A definition named ...Fault is a seeded error in the definition after   *)
(* it, kept to show that the properties can fail; no specification uses it. *)
(***************************************************************************)
EXTENDS Integers, Sequences

CONSTANTS
  TimeMax,     \* kActionScheduleTimeMax: midnight
  MaxPeriods,  \* kActionMaxPeriods
  TempNone,    \* readings up to this value mean that there is no sensor
  TempLimitMax \* a limit above this value is not in use

ASSUME ScheduleAssumption ==
  /\ TimeMax \in Nat \ {0} /\ MaxPeriods \in 1 .. 8
  /\ TempNone \in Int /\ TempLimitMax \in Int

Types == {"off", "on", "power"}

Start(s, i) == IF i = 1 THEN 0 ELSE s[i - 1].end

(* What an upload has to satisfy; another schedule is replaced by the      *)
(* default, which keeps the load off all day.                              *)
ScheduleValid(s) ==
  /\ Len(s) \in 1 .. MaxPeriods
  /\ \A i \in 1 .. Len(s) : s[i].type \in Types /\ s[i].end \in 0 .. TimeMax /\ s[i].end > Start(s, i)
  /\ s[Len(s)].end = TimeMax

DefaultSchedule ==
  <<[type |-> "off", end |-> TimeMax, pmin |-> 0, pmax |-> 0,
     tmin |-> TempLimitMax + 1, tmax |-> TempLimitMax + 1]>>

Sanitized(s) == IF ScheduleValid(s) THEN s ELSE DefaultSchedule

(* The tank may be heated: tmin is the temperature above which it is warm  *)
(* enough, tmax the one below which it must not be heated.                 *)
TemperatureOk(p, temp) ==
  temp > TempNone =>
    /\ p.tmin <= TempLimitMax => temp <= p.tmin
    /\ p.tmax <= TempLimitMax => temp >= p.tmax

(* The loops over the periods keep the last one that matches.  Both ends   *)
(* of a period match.                                                      *)
Matching(s, t) == {i \in 1 .. Len(s) : Start(s, i) <= t /\ t <= s[i].end}
Last(S) == CHOOSE i \in S : \A j \in S : j <= i

ActiveType(s, t) == IF Matching(s, t) = {} THEN "none" ELSE s[Last(Matching(s, t))].type

(* A remote relay looks its period up with an end that does not match.     *)
InForce(s, t) == {i \in 1 .. Len(s) : Start(s, i) <= t /\ t < s[i].end}
=============================================================================
