------------------------------ MODULE MqttClient ------------------------------
(***************************************************************************)
(* The link to the MQTT broker (mqtt_ha_client.cpp): when it is opened and *)
(* given up, which topics it hears, the publications for Home Assistant,   *)
(* and the readings that arrive over it when the meter is on the broker    *)
(* (metering/pmqtt_bindings.cpp, metering/pmqtt_meter.cpp).                *)
(*                                                                         *)
(* Everything runs on the main loop.  One pass a second does the service   *)
(* tick and, every second pass, the publication; both are cut where they   *)
(* pump the web server, so a request finds the link half way through, and  *)
(* where clientMQTT.loop() runs the callback of a message.  The broker may *)
(* vanish with or without the client noticing.                             *)
(*                                                                         *)
(* A definition named ...Fault is a seeded error in the definition after   *)
(* it, kept to show that the properties can fail; no specification uses it. *)
(***************************************************************************)
EXTENDS Integers

CONSTANTS
  Backoff,  \* seconds between two attempts to connect
  Drains,   \* bound on the messages one service tick takes
  Topics,   \* topics a meter may publish on
  NoTopic,  \* PmqttTopic is empty
  Configs   \* what the configuration may hold

Sources == {"Pmqtt", "Other"}
Metrics == {"signed", "import", "export", "snapshot", "other"}
Config  == [period : Nat, src : Sources, topic : Topics \cup {NoTopic},
            bind : SUBSET (Metrics \X Topics)]

ASSUME MqttAssumption ==
  /\ Backoff \in Nat /\ Backoff > 0 /\ Drains \in Nat /\ Drains > 0
  /\ NoTopic \notin Topics
  /\ Configs \subseteq Config
  /\ \E c \in Configs : \A d \in Configs : d.period <= c.period  \* 16 bits in the code

VARIABLES
  config,        \* mqtt_publish_period_sec, Source, PmqttTopic, PmqttBindingsJson
  broker,        \* the broker answers
  link,          \* clientMQTT: down, up, or dead, lost without the client knowing
  subs,          \* meter topics subscribed on the link
  discovered,    \* mqtt_ha_discovered
  sinceHa,       \* seconds since previousMqttMillis, saturating
  sinceAttempt,  \* seconds since g_lastMqttConnectAttemptMs, saturating
  even,          \* this pass includes the two-second timer
  at,            \* where the pass is
  by,            \* who is connecting: the publication ("timer"), or the service
                 \* tick with publications ("service") or without ("meter")
  left,          \* calls of clientMQTT.loop() the service tick still makes
  reply,         \* a request handler still calls clientMQTT.loop()
  live,          \* bindings whose last message could be read
  valid,         \* meter_reading_valid
  measured,      \* history: powers of the house received since the start
  replaced       \* history: the configuration was put while this link was open

ages    == <<sinceHa, sinceAttempt, even>>
pass    == <<at, by, left>>
reading == <<live, valid, measured>>
vars == <<config, broker, link, subs, discovered, ages, pass, reply, reading, replaced>>

Powers == {"import", "export"}
Oldest == 1 + CHOOSE p \in {c.period : c \in Configs} : \A c \in Configs : c.period <= p
Least(a, b) == IF a <= b THEN a ELSE b
-----------------------------------------------------------------------------
(* Operators on the configuration. *)

MeterTopics(c) ==
  IF c.src # "Pmqtt" THEN {}
  ELSE IF c.bind # {} THEN {b[2] : b \in c.bind}
  ELSE {c.topic} \ {NoTopic}

(* pmqtt_ingest_mqtt_wanted: the meter is on the broker. *)
Ingest == MeterTopics(config) # {}

Open == link # "down"

Has(set, metric) == \E b \in set : b[1] = metric

(* Which metrics stand for the power of the house. *)
Group(bind) ==
  IF Has(bind, "signed") THEN "signed"
  ELSE IF Has(bind, "import") /\ Has(bind, "export") THEN "split"
  ELSE IF Has(bind, "snapshot") THEN "snapshot" ELSE "none"

ReadyFault(bind, l) ==
  CASE Group(bind) = "split" -> Has(l, "import") \/ Has(l, "export")
    [] Group(bind) = "none"  -> FALSE
    [] OTHER                 -> Has(l, Group(bind))
Ready(bind, l) ==
  CASE Group(bind) = "split" -> Has(l, "import") /\ Has(l, "export")
    [] Group(bind) = "none"  -> FALSE
    [] OTHER                 -> Has(l, Group(bind))

(* What a readable value says for certain of the house's two powers. *)
Measures(b) == IF b[1] = "signed" THEN Powers ELSE Powers \cap {b[1]}

Init ==
  /\ config \in {c \in Configs : c.bind = {} \/ Group(c.bind) # "none"}
  /\ broker \in BOOLEAN /\ link = "down" /\ subs = {} /\ discovered = FALSE
  /\ sinceHa = Least(5, Oldest) /\ sinceAttempt = Backoff /\ even = FALSE
  /\ at = "rest" /\ by = "service" /\ left = 0 /\ reply = FALSE
  /\ live = {} /\ valid = FALSE /\ measured = {}
  /\ replaced = FALSE
-----------------------------------------------------------------------------
(* Steps the handlers share. *)

(* previousMqttMillis is set back by one period: the publication is due a  *)
(* second from now.                                                        *)
DueSoon == sinceHa' = config'.period

Opened ==
  /\ link' = "up" /\ subs' = MeterTopics(config) /\ replaced' = FALSE

Closed ==
  /\ link' = "down" /\ subs' = {} /\ replaced' = FALSE

SameLink == UNCHANGED <<link, subs, replaced>>

(* mqttEnsureConnected on a link that is down: whether it may try, and the *)
(* stamp it leaves.                                                        *)
MayTry == (config.period > 0 \/ Ingest) /\ sinceAttempt = Backoff

StampFault(tried) == 0
Stamp(tried) == IF tried THEN 0 ELSE sinceAttempt

Go(place) == at' = place /\ UNCHANGED <<by, left>>

AfterService == IF even THEN "timer" ELSE "rest"
-----------------------------------------------------------------------------
(* The main loop. *)

Tick ==
  /\ at = "rest" /\ ~reply
  /\ at' = "service" /\ even' = ~even
  /\ sinceHa' = Least(sinceHa + 1, Oldest)
  /\ sinceAttempt' = Least(sinceAttempt + 1, Backoff)
  /\ UNCHANGED <<config, broker, link, subs, discovered, by, left, reply, reading, replaced>>

(* Connecting goes on only if an attempt is due. *)
Try(who, otherwise) ==
  /\ sinceAttempt' = Stamp(MayTry)
  /\ IF MayTry THEN at' = "connecting" /\ by' = who
               ELSE at' = otherwise /\ UNCHANGED by
  /\ UNCHANGED left

(* pmqtt_mqtt_service_tick: without publications it runs the publication   *)
(* loop's branch for the meter.                                            *)
Service ==
  /\ at = "service" /\ ~reply
  /\ \/ /\ ~Ingest
        /\ Go(AfterService)
        /\ UNCHANGED sinceAttempt
     \/ /\ Ingest /\ ~Open
        /\ Try(IF config.period > 0 THEN "service" ELSE "meter", AfterService)
     \/ /\ Ingest /\ Open
        /\ at' = "listening" /\ left' = Drains
        /\ UNCHANGED <<by, sinceAttempt>>
  /\ UNCHANGED <<config, broker, link, subs, discovered, sinceHa, even, reply, reading, replaced>>

(* publishMqttLoop.  Whether the attempt succeeds or is refused, the next  *)
(* one is a period away.                                                   *)
Timer ==
  /\ at = "timer" /\ ~reply
  /\ \/ /\ config.period = 0 \/ sinceHa <= config.period
        /\ Go("rest")
        /\ UNCHANGED <<sinceHa, sinceAttempt>>
     \/ /\ config.period > 0 /\ sinceHa > config.period
        /\ sinceHa' = 0
        /\ IF Open THEN Go("hear") /\ UNCHANGED sinceAttempt ELSE Try("timer", "rest")
  /\ UNCHANGED <<config, broker, link, subs, discovered, even, reply, reading, replaced>>

(* The web server was pumped once more before the connection is made. *)
Connect ==
  /\ at = "connecting" /\ ~reply
  /\ IF broker
     THEN Opened /\ Go("opened")
     ELSE /\ SameLink /\ by' = "service" /\ UNCHANGED left
          /\ at' = IF by = "timer" THEN "rest" ELSE AfterService
  /\ UNCHANGED <<config, broker, discovered, ages, reply, reading>>

(* It is pumped again when the topics are subscribed.  The link is not     *)
(* looked at again: a publication goes on.                                 *)
GoOn ==
  /\ at = "opened" /\ ~reply
  /\ by' = "service"
  /\ at' = CASE by = "timer" -> "hear"
             [] by = "meter" /\ Open -> "listening"
             [] OTHER -> AfterService
  /\ left' = IF at' = "listening" THEN Drains ELSE left
  /\ UNCHANGED <<config, broker, link, subs, discovered, ages, reply, reading, replaced>>

(* Discovery, if it is due, then the state and the events. *)
Report ==
  /\ at = "report" /\ ~reply
  /\ discovered' = TRUE
  /\ Go("close")
  /\ UNCHANGED <<config, broker, link, subs, ages, reply, reading, replaced>>
-----------------------------------------------------------------------------
(* clientMQTT.loop() takes at most one message. *)

Hearing == reply \/ at \in {"hear", "close", "listening"}

Heard ==
  /\ reply' = FALSE
  /\ UNCHANGED <<by, even, sinceAttempt>>
  /\ CASE reply -> UNCHANGED <<at, left>>
       [] ~reply /\ at = "hear"  -> at' = "report" /\ UNCHANGED left
       [] ~reply /\ at = "close" -> at' = "rest" /\ UNCHANGED left
       [] OTHER -> /\ left' = left - 1
                   /\ at' = IF left = 1 THEN AfterService ELSE at

(* Nothing has come, or nothing this module knows. *)
Nothing ==
  /\ Hearing /\ Heard
  /\ UNCHANGED <<config, broker, link, subs, discovered, sinceHa, reading, replaced>>

Receives == Hearing /\ link = "up" /\ broker

(* source/set: ApiSetSource saves the source and closes the link under the *)
(* publication that may be running.                                        *)
SetSourceFault(s) ==
  /\ Receives /\ Heard
  /\ config' = [config EXCEPT !.src = s]
  /\ DueSoon /\ discovered' = FALSE
  /\ SameLink
  /\ UNCHANGED <<broker, reading>>
SetSource(s) ==
  /\ Receives /\ Heard
  /\ config' = [config EXCEPT !.src = s]
  /\ DueSoon /\ discovered' = FALSE
  /\ Closed
  /\ UNCHANGED <<broker, reading>>

(* An unknown source asks for discovery all the same. *)
RefuseSource ==
  /\ Receives /\ Heard
  /\ discovered' = FALSE
  /\ UNCHANGED <<config, broker, link, subs, sinceHa, reading, replaced>>

Bound(t) == {b \in config.bind : b[2] = t}

MeterMessage(t) ==
  /\ Receives /\ Heard
  /\ config.src = "Pmqtt" /\ t \in subs
  /\ UNCHANGED <<config, broker, link, subs, discovered, sinceHa, replaced>>

(* A message that at least one binding of its topic can read. *)
ReadBindings(t, read) ==
  /\ MeterMessage(t)
  /\ read # {} /\ read \subseteq Bound(t)
  /\ live' = (live \ Bound(t)) \cup read
  /\ valid' = (valid \/ Ready(config.bind, live'))
  /\ measured' = measured \cup UNION {Measures(b) : b \in read}

(* One that none can read is tried as the reading of the plain topic. *)
ReadTopic(t, readable) ==
  /\ MeterMessage(t)
  /\ live' = live \ Bound(t)
  /\ valid' = (valid \/ (t = config.topic /\ readable))
  /\ UNCHANGED measured

Message ==
  \/ \E s \in Sources : SetSource(s)
  \/ RefuseSource
  \/ \E t \in Topics, readable \in BOOLEAN : ReadTopic(t, readable)
  \/ \E t \in Topics : \E read \in SUBSET Bound(t) : ReadBindings(t, read)
-----------------------------------------------------------------------------
(* Requests, wherever the web server is pumped. *)

Pumped == ~reply /\ at \in {"rest", "service", "timer", "connecting", "opened", "listening"}

(* mqtt/discover and mqtt/publish-now. *)
Publish(again) ==
  /\ Pumped
  /\ sinceAttempt' = Stamp(~Open /\ MayTry)
  /\ \/ /\ Open \/ (MayTry /\ broker)
        /\ IF Open THEN SameLink ELSE Opened
        /\ discovered' = TRUE /\ reply' = TRUE
        /\ UNCHANGED <<config, sinceHa>>
     \/ /\ ~Open /\ ~(MayTry /\ broker)
        /\ UNCHANGED <<config, reply>> /\ SameLink
        /\ discovered' = (discovered /\ ~again) /\ DueSoon
  /\ UNCHANGED <<broker, even, pass, reading>>

(* mqtt/reconnect. *)
Reconnect ==
  /\ Pumped
  /\ discovered' = FALSE
  /\ Closed /\ UNCHANGED config /\ DueSoon
  /\ UNCHANGED <<broker, sinceAttempt, even, pass, reply, reading>>

(* mqtt/test takes the client for a connection of its own. *)
Test ==
  /\ Pumped /\ Open
  /\ Closed /\ UNCHANGED config
  /\ IF config.period > 0 THEN DueSoon ELSE UNCHANGED sinceHa
  /\ UNCHANGED <<broker, discovered, sinceAttempt, even, pass, reply, reading>>

(* The link is left as it is.  Bindings without a power are refused, with  *)
(* the fields before them taken; temperature slots ask for discovery.      *)
PutConfig(c) ==
  /\ Pumped
  /\ config' = IF Group(c.bind) # "none" THEN c ELSE [c EXCEPT !.bind = config.bind]
  /\ replaced' = Open
  /\ discovered' \in {discovered, FALSE}
  /\ UNCHANGED <<broker, link, subs, ages, pass, reply, reading>>

Request ==
  \/ \E again \in BOOLEAN : Publish(again)
  \/ Reconnect \/ Test
  \/ \E c \in Configs : PutConfig(c)
-----------------------------------------------------------------------------
(* The network, the other meters and the power supply. *)

BrokerChanges ==
  /\ broker' = ~broker
  /\ link' \in IF Open THEN {"down", "dead"} ELSE {link}
  /\ subs' = IF link' = "down" THEN {} ELSE subs
  /\ replaced' = (replaced /\ link' # "down")
  /\ UNCHANGED <<config, discovered, ages, pass, reply, reading>>

(* The broker drops a client it did not hear in time, or the network does. *)
Dropped ==
  /\ link = "up"
  /\ link' = "dead"
  /\ UNCHANGED <<config, broker, subs, discovered, ages, pass, reply, reading, replaced>>

(* TCP or the ping of PubSubClient finds out. *)
Noticed ==
  /\ link = "dead" /\ Closed
  /\ UNCHANGED <<config, broker, discovered, ages, pass, reply, reading>>

OtherReading ==
  /\ config.src = "Other" /\ ~valid
  /\ valid' = TRUE
  /\ UNCHANGED <<config, broker, link, subs, discovered, ages, pass, reply, live, measured, replaced>>

Restart ==
  /\ Closed /\ discovered' = FALSE
  /\ sinceHa' = Least(5, Oldest) /\ sinceAttempt' = Backoff /\ even' = FALSE
  /\ at' = "rest" /\ by' = "service" /\ left' = 0 /\ reply' = FALSE
  /\ live' = {} /\ valid' = FALSE /\ measured' = {}
  /\ UNCHANGED <<config, broker>>

Loop == Tick \/ Service \/ Timer \/ Connect \/ GoOn \/ Report \/ Nothing \/ Message

Next ==
  \/ Loop \/ Request
  \/ BrokerChanges \/ Dropped \/ Noticed \/ OtherReading \/ Restart

Spec == Init /\ [][Next]_vars

(* The loop runs, and a lost connection is noticed in the end. *)
FairSpec == Spec /\ WF_vars(Loop) /\ WF_vars(Noticed)
-----------------------------------------------------------------------------
(* Every variable stays in the range the code gives it. *)
TypeOK ==
  /\ config \in Config
  /\ {broker, discovered, even, reply, valid, replaced} \subseteq BOOLEAN
  /\ link \in {"down", "up", "dead"} /\ subs \subseteq Topics
  /\ sinceHa \in 0 .. Oldest /\ sinceAttempt \in 0 .. Backoff
  /\ at \in {"rest", "service", "timer", "connecting", "opened", "listening",
             "hear", "report", "close"}
  /\ by \in {"service", "meter", "timer"} /\ left \in 0 .. Drains
  /\ live \subseteq Metrics \X Topics /\ measured \subseteq Powers

(* Subscriptions are made once, when a link opens (subscribeMQTTCommands), *)
(* and the source may change under it by MQTT, in the middle of a          *)
(* publication: a link that is open hears every topic the meter in force   *)
(* needs, unless the configuration was put while it was open, which        *)
(* nothing follows with a reconnection.                                    *)
OpenLinkHears ==
  Open /\ ~replaced => MeterTopics(config) \subseteq subs

(* Requests, source commands, losses and restarts. *)
Disturbance ==
  \/ Request \/ Dropped \/ Restart
  \/ \E s \in Sources : SetSource(s)

(* Publication and service tick share one backoff and each is put off by a *)
(* refusal (mqttEnsureConnected): once the broker answers and nobody       *)
(* meddles, the state is published over an open link again and again, and  *)
(* a meter on the broker is listened to again and again, whatever requests *)
(* and losses were before.                                                 *)
LinkResumes ==
  <>[][~Disturbance]_vars =>
    /\ <>[](broker /\ config.period > 0) => []<>(at = "report" /\ link = "up")
    /\ <>[](broker /\ Ingest) => []<>(at = "listening" /\ link = "up")

(* Import and export bound to two topics arrive apart, in any order, some  *)
(* unreadable, across losses and source changes: bindings of the pair make *)
(* the reading valid only once both powers were received                   *)
(* (pmqtt_bindings_meter_ready); the triac waits for that.                 *)
SplitWaitsForBoth ==
  [][\A t \in Topics : \A read \in SUBSET Bound(t) :
       ReadBindings(t, read) /\ valid' /\ ~valid /\ Group(config.bind) = "split"
         => measured' = Powers]_vars
=============================================================================
