------------------------------ MODULE RemoteRelay ------------------------------
(***************************************************************************)
(* A load channel on another device, switched by HTTP calls: the remote    *)
(* branches of Action::apply_regulation (core/Actions.cpp), StopOutputs    *)
(* and CallExterne (core/balansun_load_runtime.cpp), the requests that     *)
(* override the channel, and the peer.                                     *)
(*                                                                         *)
(* A call blocks the main loop: while it lasts the clock runs and the      *)
(* meter is read, but no tick and no request is handled.  Whether the peer *)
(* heard it makes no difference to the router.                             *)
(*                                                                         *)
(* A client may send a window whose limits cross, pmin > pmax + 1; a tick  *)
(* in it may call twice, on and then off.                                  *)
(*                                                                         *)
(* A definition named ...Fault is a seeded error in the definition after   *)
(* it, kept to show that the properties can fail; no specification uses it. *)
(***************************************************************************)
EXTENDS Schedule

CONSTANTS
  Uploads,      \* schedules a client may send
  Temperatures, \* readings of the temperature sensor
  Walls,        \* times of day
  Powers,       \* net power drawn from the grid
  Tempo,        \* seconds between two commands
  Repet,        \* seconds after which a command is repeated, or 0
  CallTime,     \* seconds a call without an answer blocks the loop
  Clock,        \* seconds after which millis() starts again from 0
  Wraps         \* the router runs longer than that

ASSUME RemoteAssumption ==
  /\ Temperatures \subseteq Int /\ Powers \subseteq Int /\ Walls \subseteq 0 .. TimeMax - 1
  /\ Tempo \in Nat /\ Repet \in Nat /\ (Repet = 0 \/ Repet > Tempo)
  /\ CallTime \in Nat /\ Clock \in Nat /\ Clock > Repet + 1 /\ Clock > Tempo
  /\ Wraps \in BOOLEAN

VARIABLES
  on,        \* On: the state the router believes the peer to be in
  since,     \* Tseconde - T_LastAction
  now,       \* Tseconde, kept only if the clock wraps
  override,  \* OverrideState
  applied,   \* LastOverrideState
  onoff,     \* Actif is the relay mode, the only one a remote channel has
  suspended, \* the outputs are suspended
  plan,      \* the periods
  wall,      \* wall_clock_decihours
  temp,      \* temperature
  net,       \* grid_net_w
  call,      \* command of the call in progress, or "none"
  waited,    \* seconds it has lasted
  heard,     \* the peer has acted on it
  second,    \* the second call of a tick is "due", has "begun", or there is none
  peer,      \* the relay of the peer is on
  lost,      \* history: the peer missed a command, or the router a restart
  rest,      \* history: seconds since the peer last switched
  excused    \* history: since then the channel left automatic operation,
             \* or a tick called twice

belief  == <<on, since, applied>>
calling == <<call, waited, heard, second>>
inputs  == <<plan, wall, temp, net>>
orders  == <<override, onoff, suspended>>
peers   == <<peer, lost, rest>>
vars == <<belief, calling, inputs, orders, peers, now, excused>>

Schedules == {Sanitized(s) : s \in Uploads}

AtMost(x, hi) == IF x > hi THEN hi ELSE x
RestCap == Tempo + 1

Init ==
  /\ on = FALSE /\ since = 0 /\ now = 0 /\ override = "auto" /\ applied = "auto"
  /\ onoff \in BOOLEAN /\ suspended \in BOOLEAN /\ plan \in Schedules
  /\ wall \in Walls /\ temp \in Temperatures /\ net \in Powers
  /\ call = "none" /\ waited = 0 /\ heard = FALSE /\ second = "none"
  /\ peer \in BOOLEAN /\ lost = TRUE /\ rest = RestCap /\ excused = TRUE

-----------------------------------------------------------------------------
(* The tick.                                                               *)

Period == plan[CHOOSE i \in InForce(plan, wall) : TRUE]
Warm   == TemperatureOk(Period, temp)

Silent     == UNCHANGED calling
Command(o) == call' = o /\ waited' = 0 /\ heard' = FALSE /\ on' = (o = "on")
Once(o)    == Command(o) /\ second' = "none"

(* StopOutputs.  The time of the last command is not touched.              *)
SwitchOffFault == Silent /\ on' = FALSE
SwitchOff == IF on THEN Once("off") ELSE Silent /\ UNCHANGED on

SuspendedTick ==
  /\ suspended
  /\ SwitchOff
  /\ excused' = TRUE
  /\ UNCHANGED <<since, applied, override>>

(* An override is called for once, when it is new or On disagrees.         *)
OverriddenTick ==
  /\ ~suspended /\ override \in {"on", "off"}
  /\ IF on # (override = "on") \/ applied # override
       THEN Once(override) /\ since' = 0 /\ applied' = override
       ELSE Silent /\ UNCHANGED belief
  /\ excused' = TRUE
  /\ UNCHANGED override

(* The last command is repeated, but only in a surplus window.             *)
Held == IF on THEN "on" ELSE "off"

RepeatsFault == Repet # 0 /\ since > Repet /\ on
Repeats      == Repet # 0 /\ since > Repet

(* The command the period in force asks for, if any.                       *)

OrderOf(p, warm) ==
  CASE p.type = "off" -> IF on THEN "off" ELSE "none"
    [] p.type = "on" -> IF warm = on THEN "none" ELSE IF warm THEN "on" ELSE "off"
    [] p.type = "power" ->
         CASE ~on /\ warm /\ net < p.pmin -> "on"
           [] on /\ (~warm \/ net > p.pmax) -> "off"
           [] OTHER -> IF Repeats THEN Held ELSE "none"

(* The time an order is given is the time of the last action.              *)
StampFault == since
Stamp      == 0

(* The limits of a window are looked at one after the other: what the      *)
(* first switched on the second may switch off again.                      *)
Revoked(o) == o = "on" /\ Period.type = "power" /\ net > Period.pmax

WindowTick ==
  /\ onoff
  /\ LET o == OrderOf(Period, Warm)
     IN  IF o # "none" THEN /\ Command(o) /\ since' = Stamp
                            /\ second' = IF Revoked(o) THEN "due" ELSE "none"
                       ELSE Silent /\ UNCHANGED <<on, since>>
  /\ UNCHANGED excused

DisabledTick == ~onoff /\ SwitchOff /\ excused' = TRUE /\ UNCHANGED since

DueFault == since = Tempo
Due      == since >= Tempo

(* An override may have expired; whether it has a deadline is left open.   *)
AutoTick ==
  /\ ~suspended
  /\ override' = "auto" /\ applied' = "auto"
  /\ \/ Due /\ (WindowTick \/ DisabledTick)
     \/ ~Due /\ Silent /\ UNCHANGED <<on, since, excused>>

Tick ==
  /\ call = "none"
  /\ SuspendedTick \/ OverriddenTick \/ AutoTick
  /\ UNCHANGED <<inputs, onoff, suspended, peers, now>>

-----------------------------------------------------------------------------
(* The call and the peer.                                                  *)
Hear ==
  /\ call # "none" /\ ~heard /\ heard' = TRUE
  /\ peer' = (call = "on") /\ lost' = FALSE
  /\ IF peer' # peer THEN /\ rest' = 0
                          /\ excused' = (suspended \/ override # "auto" \/ ~onoff \/ second = "begun")
                     ELSE UNCHANGED <<rest, excused>>
  /\ UNCHANGED <<belief, call, waited, second, inputs, orders, now>>

(* CallExterne returns after the answer, without a connection, or when the *)
(* peer has been silent for too long; its caller is not told which, and    *)
(* makes its second call, stamped with the time of the tick.               *)
Return ==
  /\ call # "none"
  /\ IF second = "due" THEN Command("off") /\ second' = "begun" /\ excused' = TRUE
                       ELSE /\ call' = "none" /\ second' = "none"
                            /\ UNCHANGED <<on, waited, heard, excused>>
  /\ lost' = (lost \/ ~heard)
  /\ UNCHANGED <<since, applied, inputs, orders, peer, rest, now>>

TimedOut == waited = CallTime

Elapse ==
  /\ call = "none" \/ ~TimedOut
  /\ waited' = IF call = "none" THEN waited ELSE waited + 1
  /\ now' = IF Wraps THEN (now + 1) % Clock ELSE now
  /\ since' = AtMost(IF Wraps /\ now' = 0 THEN since + 1 - Clock ELSE since + 1, Clock - 1)
  /\ rest' = AtMost(rest + 1, RestCap)
  /\ UNCHANGED <<on, applied, call, heard, second, inputs, orders, peer, lost, excused>>

-----------------------------------------------------------------------------
(* Requests and configuration, served by the loop between two ticks.       *)
Request ==
  /\ call = "none"
  /\ \E o \in {"auto", "on", "off"} :
       override' = o /\ (o = "auto" => override # "auto")
  /\ applied' = "auto" /\ excused' = TRUE
  /\ UNCHANGED <<on, since, calling, inputs, onoff, suspended, peers, now>>

Reconfigured ==
  /\ call = "none"
  /\ \/ onoff' = ~onoff /\ UNCHANGED <<suspended, plan>>
     \/ suspended' = ~suspended /\ UNCHANGED <<onoff, plan>>
     \/ plan' \in Schedules \ {plan} /\ UNCHANGED <<onoff, suspended>>
  /\ excused' = TRUE
  /\ UNCHANGED <<belief, calling, override, wall, temp, net, peers, now>>

ClockTick ==
  /\ call = "none"
  /\ \/ wall' \in Walls \ {wall} /\ UNCHANGED temp
     \/ temp' \in Temperatures \ {temp} /\ UNCHANGED wall
  /\ UNCHANGED <<belief, calling, plan, net, orders, peers, now, excused>>

Measured ==
  /\ net' \in Powers \ {net}
  /\ UNCHANGED <<belief, calling, plan, wall, temp, orders, peers, now, excused>>

(* The peer keeps its relay; the router starts with On false.              *)
Restart ==
  /\ on' = FALSE /\ since' = 0 /\ now' = 0 /\ override' = "auto" /\ applied' = "auto"
  /\ call' = "none" /\ waited' = 0 /\ heard' = FALSE /\ second' = "none"
  /\ lost' = TRUE /\ excused' = TRUE
  /\ UNCHANGED <<inputs, onoff, suspended, peer, rest>>

Next == Tick \/ Hear \/ Return \/ Elapse \/ Request \/ Reconfigured \/ ClockTick \/ Measured \/ Restart
Spec == Init /\ [][Next]_vars

(* The loop ticks several times a second, time passes, calls end, and of   *)
(* calls made again and again the peer hears some.                         *)
FairSpec == Spec /\ SF_vars(Tick) /\ WF_vars(Elapse) /\ WF_vars(Return) /\ SF_vars(Hear)

-----------------------------------------------------------------------------
TypeOK ==
  /\ on \in BOOLEAN /\ since \in 1 - Clock .. Clock - 1 /\ now \in 0 .. Clock - 1
  /\ override \in {"auto", "on", "off"} /\ applied \in {"auto", "on", "off"}
  /\ onoff \in BOOLEAN /\ suspended \in BOOLEAN
  /\ plan \in Schedules /\ wall \in Walls /\ temp \in Temperatures /\ net \in Powers
  /\ call \in {"none", "on", "off"} /\ waited \in 0 .. CallTime /\ heard \in BOOLEAN
  /\ second \in {"none", "due", "begun"}
  /\ peer \in BOOLEAN /\ lost \in BOOLEAN /\ rest \in 0 .. RestCap /\ excused \in BOOLEAN

(* Between two calls the router believes what is true of the peer, unless  *)
(* the peer missed a call or the router restarted.                         *)
BeliefIsTrue == call = "none" /\ ~lost => on = peer

(* Left in automatic operation the peer rests for Tempo seconds between    *)
(* two switchings, less the time a call may take to reach it.  The second  *)
(* call of a tick is the exception: it follows the first at once, and      *)
(* reaches the peer so late that the next rest is short as well.           *)
PeerRests ==
  [][peer' # peer /\ ~excused => rest >= Tempo - CallTime]_vars

(* The period a remote relay obeys is unique and the one the API reports:   *)
(* proved for every schedule, so no run checks this one.                   *)
OnePeriodInForce ==
  /\ \E i \in 1 .. Len(plan) : InForce(plan, wall) = {i}
  /\ ActiveType(plan, wall) = Period.type

(* In a surplus window with repetition the peer ends as the meter demands, *)
(* however many calls were lost before, if its limits, which may cross,    *)
(* demand one thing.                                                       *)
Regulated == override = "auto" /\ onoff /\ ~suspended

Called  == Period.type = "power" /\ Warm /\ net < Period.pmin
Refused == Period.type = "power" /\ net > Period.pmax

RepeatHeals ==
  <>[][~Restart]_vars =>
    /\ <>[](Regulated /\ Called /\ ~Refused) => <>[]peer
    /\ <>[](Regulated /\ Refused /\ ~Called) => <>[]~peer

(* An OFF window, or an ON window of a tank that may be heated, decides    *)
(* the state the router commands, whatever order was in force before.      *)
WindowObeyed ==
  /\ <>[](Regulated /\ Period.type = "off") => <>[]~on
  /\ <>[][~Restart]_vars /\ <>[](Regulated /\ Period.type = "on" /\ Warm) => <>[]on
=============================================================================
