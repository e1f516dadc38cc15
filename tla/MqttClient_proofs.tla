-------------------------- MODULE MqttClient_proofs --------------------------
(***************************************************************************)
(* What an open link hears and what makes a reading valid, for every set   *)
(* of topics and configurations and every pacing of the attempts.          *)
(***************************************************************************)
EXTENDS MqttClient, TLAPS

(* The variables the theorems are about.                                   *)
Linked == /\ config \in Config
          /\ link \in {"down", "up", "dead"} /\ replaced \in BOOLEAN
          /\ OpenLinkHears

(* Every binding read with success says which powers were received.        *)
Received == /\ live \subseteq Metrics \X Topics
            /\ measured \subseteq Powers
            /\ \A b \in live : Measures(b) \subseteq measured

LEMMA SourceSet == ASSUME NEW c \in Config, NEW s \in Sources
                   PROVE  [c EXCEPT !.src = s] \in Config
BY DEF Config, Sources

LEMMA BindingsKept == ASSUME NEW c \in Config, NEW d \in Config
                      PROVE  [c EXCEPT !.bind = d.bind] \in Config
BY DEF Config

LEMMA LinkInit == Init => Linked
<1> SUFFICES ASSUME Init PROVE Linked
  OBVIOUS
<1>1. config \in Config
  BY MqttAssumption DEF Init, MqttAssumption
<1> QED BY <1>1 DEF Init, Linked, OpenLinkHears, Open

(* A step that leaves link and configuration alone, opens or closes.       *)
LEMMA LinkSame == ASSUME Linked, UNCHANGED config, SameLink PROVE Linked'
BY DEF Linked, SameLink, OpenLinkHears, Open, MeterTopics

LEMMA LinkOpened == ASSUME Linked, UNCHANGED config, Opened PROVE Linked'
BY DEF Linked, Opened, OpenLinkHears, Open, MeterTopics

LEMMA LinkClosed == ASSUME Linked, config' \in Config, Closed PROVE Linked'
BY DEF Linked, Closed, OpenLinkHears, Open

LEMMA LinkStep == Linked /\ [Next]_vars => Linked'
<1> SUFFICES ASSUME Linked, [Next]_vars PROVE Linked'
  OBVIOUS
<1>1. CASE Tick \/ Service \/ Timer \/ GoOn \/ Report \/ Nothing \/ RefuseSource \/ OtherReading
  BY <1>1, LinkSame DEF Tick, Service, Timer, GoOn, Report, Nothing, RefuseSource, OtherReading, SameLink
<1>2. CASE Connect
  BY <1>2, LinkSame, LinkOpened DEF Connect
<1>3. ASSUME NEW s \in Sources, SetSource(s) PROVE Linked'
  <2>1. config \in Config
    BY DEF Linked
  <2>2. config' \in Config
    BY <1>3, <2>1, SourceSet DEF SetSource
  <2> QED BY <1>3, <2>2, LinkClosed DEF SetSource
<1>4. ASSUME NEW t \in Topics, MeterMessage(t) PROVE Linked'
  BY <1>4, LinkSame DEF MeterMessage, SameLink
<1>5. ASSUME NEW again \in BOOLEAN, Publish(again) PROVE Linked'
  BY <1>5, LinkSame, LinkOpened DEF Publish
<1>6. CASE Reconnect \/ Test \/ Noticed \/ Restart
  <2>1. UNCHANGED config /\ Closed
    BY <1>6 DEF Reconnect, Test, Noticed, Restart
  <2> QED BY <2>1, LinkClosed DEF Linked
<1>7. ASSUME NEW c \in Configs, PutConfig(c) PROVE Linked'
  <2>1. c \in Config /\ config \in Config
    BY MqttAssumption DEF MqttAssumption, Linked
  <2>2. config' \in Config
    BY <1>7, <2>1, BindingsKept DEF PutConfig
  <2>3. replaced' = Open' /\ UNCHANGED link
    BY <1>7 DEF PutConfig, Open
  <2> QED BY <2>2, <2>3 DEF Linked, OpenLinkHears, Open
<1>8. CASE BrokerChanges
  <2>1. UNCHANGED config /\ link' \in {"down", "dead", link}
    BY <1>8 DEF BrokerChanges
  <2>2. CASE link' = "down"
    BY <1>8, <2>1, <2>2 DEF BrokerChanges, Linked, OpenLinkHears, Open
  <2>3. CASE link' # "down"
    <3>1. Open /\ UNCHANGED subs /\ replaced' = replaced
      BY <1>8, <2>3 DEF BrokerChanges, Open, Linked
    <3> QED BY <2>1, <3>1 DEF Linked, OpenLinkHears, Open, MeterTopics
  <2> QED BY <2>2, <2>3
<1>9. CASE Dropped
  BY <1>9 DEF Dropped, Linked, OpenLinkHears, Open, MeterTopics
<1>10. CASE UNCHANGED vars
  BY <1>10, LinkSame DEF vars, SameLink
<1> QED
  BY <1>1, <1>2, <1>3, <1>4, <1>5, <1>6, <1>7, <1>8, <1>9, <1>10
     DEF Next, Loop, Message, Request, ReadTopic, ReadBindings

(* A link that is open hears every topic the meter needs, for every set of *)
(* configurations: no source command, request, loss or restart leaves one  *)
(* open that does not, replacing the configuration excepted.               *)
THEOREM OpenHears == Spec => []OpenLinkHears
<1>1. Linked => OpenLinkHears
  BY DEF Linked
<1> QED BY <1>1, LinkInit, LinkStep, PTL DEF Spec
-----------------------------------------------------------------------------
LEMMA ReadingInit == Init => Received
BY DEF Init, Received, Powers

LEMMA MeasuresPowers == ASSUME NEW b PROVE Measures(b) \subseteq Powers
BY DEF Measures, Powers

(* One message moves live and measured together.                           *)
LEMMA ReadStep == ASSUME Linked, Received, NEW t \in Topics, NEW read, ReadBindings(t, read)
                  PROVE  Received'
<1>1. /\ read \subseteq config.bind
      /\ live' \subseteq live \cup read
      /\ measured' = measured \cup UNION {Measures(b) : b \in read}
  BY Zenon DEF ReadBindings, Bound
<1>2. config.bind \subseteq Metrics \X Topics
  BY DEF Linked, Config
<1>3. live' \subseteq Metrics \X Topics
  BY Zenon, <1>1, <1>2 DEF Received
<1>4. measured' \subseteq Powers
  BY Zenon, <1>1, MeasuresPowers DEF Received
<1>5. ASSUME NEW b \in live' PROVE Measures(b) \subseteq measured'
  <2>1. CASE b \in live
    BY Zenon, <1>1, <2>1 DEF Received
  <2>2. CASE b \in read
    BY Zenon, <1>1, <2>2
  <2> QED BY Zenon, <1>1, <1>5, <2>1, <2>2
<1> QED BY <1>3, <1>4, <1>5 DEF Received

LEMMA ReadingStep == Linked /\ Received /\ [Next]_vars => Received'
<1> SUFFICES ASSUME Linked, Received, [Next]_vars PROVE Received'
  OBVIOUS
<1> DEFINE Same == UNCHANGED <<live, measured>>
<1>0. Same => Received'
  BY DEF Received, Measures
<1>1. CASE Tick \/ Service \/ Timer \/ Connect \/ GoOn \/ Report \/ Nothing
  BY <1>0, <1>1 DEF Tick, Service, Timer, Connect, GoOn, Report, Nothing, reading
<1>2. CASE RefuseSource \/ \E s \in Sources : SetSource(s)
  BY <1>0, <1>2 DEF RefuseSource, SetSource, reading
<1>3. ASSUME NEW t \in Topics, NEW readable, ReadTopic(t, readable) PROVE Received'
  <2>1. live' \subseteq live /\ UNCHANGED measured
    BY <1>3 DEF ReadTopic
  <2> QED BY <2>1 DEF Received, Measures
<1>4. ASSUME NEW t \in Topics, NEW read, ReadBindings(t, read) PROVE Received'
  BY <1>4, ReadStep
<1>5. CASE Request
  BY <1>0, <1>5 DEF Request, Publish, Reconnect, Test, PutConfig, reading
<1>6. CASE BrokerChanges \/ Dropped \/ Noticed \/ OtherReading
  BY <1>0, <1>6 DEF BrokerChanges, Dropped, Noticed, OtherReading, reading
<1>7. CASE Restart
  BY <1>7 DEF Restart, Received, Powers
<1>8. CASE UNCHANGED vars
  BY <1>0, <1>8 DEF vars, reading
<1> QED
  BY <1>1, <1>2, <1>3, <1>4, <1>5, <1>6, <1>7, <1>8 DEF Next, Loop, Message

LEMMA BothReceived == ASSUME NEW bind, NEW l, NEW m, m \subseteq Powers,
                             \A b \in l : Measures(b) \subseteq m,
                             Group(bind) = "split", Ready(bind, l)
                      PROVE  m = Powers
<1>1. Has(l, "import") /\ Has(l, "export")
  BY Zenon DEF Ready
<1>2. PICK i \in l : i[1] = "import"
  BY <1>1 DEF Has
<1>3. PICK e \in l : e[1] = "export"
  BY <1>1 DEF Has
<1>4. "import" \in Measures(i) /\ "export" \in Measures(e)
  BY <1>2, <1>3 DEF Measures, Powers
<1> QED BY <1>4 DEF Powers

(* Bindings of the pair make the reading valid only with both powers       *)
(* received, for every set of topics and bindings, whatever the order of   *)
(* messages, losses, source changes and new bindings.                      *)
THEOREM WaitsForBoth == Spec => SplitWaitsForBoth
<1> DEFINE Waits == \A t \in Topics : \A read \in SUBSET Bound(t) :
              ReadBindings(t, read) /\ valid' /\ ~valid /\ Group(config.bind) = "split"
                => measured' = Powers
<1>1. Linked /\ Received /\ [Next]_vars => [Waits]_vars
  <2> SUFFICES ASSUME Linked, Received, NEW t \in Topics, NEW read \in SUBSET Bound(t),
                      ReadBindings(t, read), valid', ~valid, Group(config.bind) = "split"
               PROVE  measured' = Powers
    OBVIOUS
  <2>1. Received'
    BY ReadStep
  <2>2. UNCHANGED config /\ Ready(config.bind, live')
    BY Zenon DEF ReadBindings, MeterMessage
  <2>3. /\ measured' \subseteq Powers
        /\ \A b \in live' : Measures(b) \subseteq measured'
    BY <2>1 DEF Received, Measures
  <2> QED BY <2>2, <2>3, BothReceived
<1>2. Spec => [](Linked /\ Received)
  BY LinkInit, LinkStep, ReadingInit, ReadingStep, PTL DEF Spec
<1> QED BY <1>1, <1>2, PTL DEF Spec, SplitWaitsForBoth
-----------------------------------------------------------------------------
(* Types.  The places of the pass apart from the numbers.                  *)

LEMMA Longest == /\ Oldest \in Nat /\ Oldest > 0 /\ Backoff \in Nat /\ Backoff > 0
                 /\ Drains \in Nat /\ Drains > 0
                 /\ \A c \in Configs : c \in Config /\ c.period \in Nat /\ c.period < Oldest
<1> DEFINE Periods == {c.period : c \in Configs}
           longest == CHOOSE p \in Periods : \A c \in Configs : c.period <= p
<1>1. Configs \subseteq Config /\ \E c \in Configs : \A d \in Configs : d.period <= c.period
  BY MqttAssumption DEF MqttAssumption
<1>2. longest \in Periods /\ \A c \in Configs : c.period <= longest
  BY <1>1
<1>3. \A c \in Configs : c.period \in Nat
  BY <1>1 DEF Config
<1>4. longest \in Nat /\ Oldest = 1 + longest
  BY <1>2, <1>3 DEF Oldest
<1>5. Backoff \in Nat /\ Backoff > 0 /\ Drains \in Nat /\ Drains > 0
  BY MqttAssumption DEF MqttAssumption
<1> HIDE DEF longest
<1> QED BY <1>1, <1>2, <1>3, <1>4, <1>5

LEMMA LeastIs == ASSUME NEW a \in Nat, NEW b \in Nat PROVE Least(a, b) \in 0 .. b
BY DEF Least

Places == {"rest", "service", "timer", "connecting", "opened", "listening",
           "hear", "report", "close"}

Flags == /\ broker \in BOOLEAN /\ discovered \in BOOLEAN /\ even \in BOOLEAN
         /\ reply \in BOOLEAN /\ valid \in BOOLEAN
         /\ at \in Places /\ by \in {"service", "meter", "timer"}

(* The times wait at their ends, and a tick that listens has a call left.  *)
Numbers == /\ config.period < Oldest
           /\ sinceHa \in 0 .. Oldest /\ sinceAttempt \in 0 .. Backoff
           /\ left \in 0 .. Drains /\ (at = "listening" => left > 0)

(* What is subscribed is some meter's topic, and only on a link.           *)
Subscribed == subs \subseteq Topics /\ (Open \/ subs = {})

Typed == Flags /\ Numbers /\ Subscribed

LEMMA TypedInit == Init => Typed
<1> SUFFICES ASSUME Init PROVE Typed
  OBVIOUS
<1>1. config \in Configs
  BY DEF Init
<1>2. Least(5, Oldest) \in 0 .. Oldest
  BY Longest, LeastIs
<1>3. Flags
  BY DEF Init, Flags, Places
<1>4. Numbers
  BY <1>1, <1>2, Longest DEF Init, Numbers
<1> QED BY <1>3, <1>4 DEF Init, Typed, Subscribed, Open

LEMMA FlagsStep == Flags /\ [Next]_vars => Flags'
<1> SUFFICES ASSUME Flags, [Next]_vars PROVE Flags'
  OBVIOUS
<1> USE DEF Flags, Places
<1>1. CASE Tick \/ Service \/ Timer \/ Connect \/ GoOn \/ Report
  BY <1>1 DEF Tick, Service, Timer, Connect, GoOn, Report, Try, Go, AfterService, ages, pass, reading
<1>2. CASE Heard /\ UNCHANGED broker /\ discovered' \in BOOLEAN /\ valid' \in BOOLEAN
  BY <1>2 DEF Heard, AfterService
<1>3. CASE Nothing
  BY <1>2, <1>3 DEF Nothing, reading
<1>4. CASE Message
  <2>1. ASSUME NEW s \in Sources, SetSource(s) PROVE Flags'
    BY <1>2, <2>1 DEF SetSource, reading
  <2>2. CASE RefuseSource
    BY <1>2, <2>2 DEF RefuseSource, reading
  <2>3. ASSUME NEW t \in Topics, NEW readable \in BOOLEAN, ReadTopic(t, readable) PROVE Flags'
    BY <1>2, <2>3 DEF ReadTopic, MeterMessage
  <2>4. ASSUME NEW t \in Topics, NEW read, ReadBindings(t, read) PROVE Flags'
    <3>1. valid' \in BOOLEAN
      BY Zenon, <2>4 DEF ReadBindings
    <3> QED BY <1>2, <2>4, <3>1 DEF ReadBindings, MeterMessage
  <2> QED BY <1>4, <2>1, <2>2, <2>3, <2>4 DEF Message
<1>5. CASE Request
  BY <1>5 DEF Request, Publish, Reconnect, Test, PutConfig, ages, pass, reading
<1>6. CASE BrokerChanges \/ Dropped \/ Noticed \/ OtherReading \/ Restart
  BY <1>6 DEF BrokerChanges, Dropped, Noticed, OtherReading, Restart, ages, pass, reading
<1>7. CASE UNCHANGED vars
  BY <1>7 DEF vars, ages, pass, reading
<1> QED BY <1>1, <1>3, <1>4, <1>5, <1>6, <1>7 DEF Next, Loop

(* The period in force is one the configuration may hold, so a publication *)
(* that is due soon stays within the age at which the clock stops.         *)
LEMMA PeriodStep == ASSUME Linked, config.period < Oldest, [Next]_vars
                    PROVE  config'.period \in Nat /\ config'.period < Oldest
<1>0. config.period \in Nat
  BY DEF Linked, Config
<1>1. ASSUME NEW s \in Sources, SetSource(s) PROVE config'.period = config.period
  BY <1>1 DEF SetSource, Linked, Config
<1>2. ASSUME NEW c \in Configs, PutConfig(c) PROVE config'.period = c.period
  BY <1>2, Longest DEF PutConfig, Config
<1>3. CASE UNCHANGED config
  BY <1>0, <1>3
<1>4. UNCHANGED config \/ (\E s \in Sources : SetSource(s)) \/ (\E c \in Configs : PutConfig(c))
  BY DEF Next, Loop, Message, Request, Tick, Service, Timer, Connect, GoOn, Report, Nothing,
         RefuseSource, ReadTopic, ReadBindings, MeterMessage, Publish, Reconnect, Test,
         BrokerChanges, Dropped, Noticed, OtherReading, Restart, vars
<1> QED BY <1>0, <1>1, <1>2, <1>3, <1>4, Longest

LEMMA AgesStep == ASSUME Linked, Numbers, [Next]_vars
                  PROVE  sinceHa' \in 0 .. Oldest /\ sinceAttempt' \in 0 .. Backoff
<1> DEFINE Aged == sinceHa' \in 0 .. Oldest /\ sinceAttempt' \in 0 .. Backoff
<1>0. /\ config'.period \in Nat /\ config'.period < Oldest
      /\ Oldest \in Nat /\ Oldest > 0 /\ Backoff \in Nat
  BY PeriodStep, Longest DEF Numbers
<1>1. sinceHa \in 0 .. Oldest /\ sinceAttempt \in 0 .. Backoff
  BY DEF Numbers
<1>2. CASE Tick \/ Restart
  <2>1. Least(5, Oldest) \in 0 .. Oldest
    BY <1>0, LeastIs
  <2>2. Least(sinceHa + 1, Oldest) \in 0 .. Oldest
    BY <1>0, <1>1 DEF Least
  <2>3. Least(sinceAttempt + 1, Backoff) \in 0 .. Backoff
    BY <1>0, <1>1 DEF Least
  <2> QED BY <1>0, <1>2, <2>1, <2>2, <2>3 DEF Tick, Restart
<1>3. CASE Timer \/ Service
  BY <1>0, <1>1, <1>3 DEF Timer, Service, Try, Stamp
<1>4. CASE Request
  <2>1. sinceHa' \in {sinceHa, config'.period}
    BY <1>4 DEF Request, Publish, Reconnect, Test, PutConfig, DueSoon, ages
  <2>2. sinceAttempt' \in {sinceAttempt, 0}
    BY <1>4 DEF Request, Publish, Reconnect, Test, PutConfig, Stamp, ages
  <2> QED BY <1>0, <1>1, <2>1, <2>2
<1>5. ASSUME NEW s \in Sources, SetSource(s) PROVE Aged
  BY <1>0, <1>1, <1>5 DEF SetSource, DueSoon, Heard
<1>6. CASE UNCHANGED <<sinceHa, sinceAttempt>>
  BY <1>1, <1>6
<1> QED
  BY <1>2, <1>3, <1>4, <1>5, <1>6
     DEF Next, Loop, Message, Connect, GoOn, Report, Nothing, RefuseSource, ReadTopic, ReadBindings,
         MeterMessage, Heard, BrokerChanges, Dropped, Noticed, OtherReading, ages, vars

(* A tick that listens has a call left.                                    *)
Calls == left \in 0 .. Drains /\ (at = "listening" => left > 0)

LEMMA CallsStep == ASSUME Flags, Calls, [Next]_vars PROVE Calls'
<1>0. Drains \in Nat /\ Drains > 0
  BY Longest
<1>1. CASE UNCHANGED <<at, left>>
  BY <1>1 DEF Calls
<1>2. CASE Hearing /\ Heard
  BY <1>0, <1>2 DEF Calls, Flags, Places, Hearing, Heard, AfterService
<1>3. CASE Tick \/ Timer \/ Connect \/ GoOn \/ Report \/ Restart
  BY <1>0, <1>3 DEF Calls, Tick, Timer, Connect, GoOn, Report, Restart, Try, Go, AfterService
<1>4. CASE Service
  BY <1>0, <1>4 DEF Calls, Service, Try, Go, AfterService
<1> QED
  BY <1>1, <1>2, <1>3, <1>4
     DEF Next, Loop, Message, Nothing, Receives, SetSource, RefuseSource, ReadTopic, ReadBindings,
         MeterMessage, Request, Publish, Reconnect, Test, PutConfig, BrokerChanges, Dropped, Noticed,
         OtherReading, pass, vars

LEMMA TopicsAreTopics == ASSUME config \in Config PROVE MeterTopics(config) \subseteq Topics
BY DEF Config, MeterTopics

LEMMA SubscribedStep == ASSUME Linked, Subscribed, [Next]_vars PROVE Subscribed'
<1>1. MeterTopics(config) \subseteq Topics
  BY TopicsAreTopics DEF Linked
<1>2. CASE UNCHANGED <<link, subs>>
  BY <1>2 DEF Subscribed, Open
<1>3. CASE Opened \/ Closed
  BY <1>1, <1>3 DEF Opened, Closed, Subscribed, Open
<1>4. CASE BrokerChanges \/ Dropped
  BY <1>4 DEF BrokerChanges, Dropped, Subscribed, Open
<1> QED
  BY <1>2, <1>3, <1>4
     DEF Next, Loop, Message, Tick, Service, Timer, Connect, GoOn, Report, Nothing, SetSource,
         RefuseSource, ReadTopic, ReadBindings, MeterMessage, Request, Publish, Reconnect, Test,
         PutConfig, Noticed, OtherReading, Restart, SameLink, vars

LEMMA TypedStep == ASSUME Linked, Typed, [Next]_vars PROVE Typed'
<1>1. Numbers => Calls
  BY DEF Numbers, Calls
<1>2. Numbers'
  BY <1>1, PeriodStep, AgesStep, CallsStep DEF Typed, Numbers, Calls
<1> QED BY <1>2, FlagsStep, SubscribedStep DEF Typed

(* Every variable stays in the range the code gives it, for every set of   *)
(* configurations; the seconds since the last publication never pass one   *)
(* more than the longest period, wherever requests set them back.          *)
THEOREM TypeCorrect == Spec => []TypeOK
<1>1. Linked /\ Typed /\ Received => TypeOK
  BY DEF Linked, Typed, Received, Flags, Places, Numbers, Subscribed, TypeOK
<1> QED
  BY <1>1, LinkInit, LinkStep, TypedInit, TypedStep, ReadingInit, ReadingStep, PTL DEF Spec
=============================================================================
