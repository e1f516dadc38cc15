---------------------------- MODULE ConfigImage -----------------------------
(***************************************************************************)
(* The parameter stream of the configuration image: how a save lays every  *)
(* setting out behind the history (persistConfigToEeprom and               *)
(* storage_eeprom_extension_write) and how a start reads it back           *)
(* (loadConfigFromEeprom and storage_eeprom_extension_read).  A fixed      *)
(* block is followed by a chain of blocks, each behind a two-byte mark; a  *)
(* block whose mark is not found is passed over without advancing.  What   *)
(* does not fit is dropped, and a save says so.                            *)
(*                                                                         *)
(* Cells hold bytes.  Numbers are below 256 (WidthBound), their other      *)
(* bytes are zero; a text is a sequence of character codes.  One load      *)
(* channel stands for the twenty of the tables of coefficients and caps.   *)
(* How the image reaches flash, key by key, is ConfigStore.                *)
(*                                                                         *)
(* A definition named ...Fault is a seeded error in the definition after   *)
(* it, kept to show that the properties can fail; no specification uses it.*)
(***************************************************************************)
EXTENDS Integers, Sequences, SequencesExt, TLC

CONSTANTS
  Cap,        \* cells of the parameter stream
  Scratch,    \* characters the serializer of the channels has room for
  Changes,    \* what a request may set: records of some fields of the settings
  OldSettings,\* what an older firmware's image may hold, likewise
  MaxChanges, \* bound: changes of settings in a behaviour
  SecretLen,  \* characters of the secret of an access token
  MaxTokens   \* access tokens stored

ASSUME ImageAssumption ==
  /\ Cap \in Nat /\ MaxChanges \in Nat /\ Scratch \in Nat
  /\ SecretLen \in Nat \ {0} /\ MaxTokens \in Nat

-----------------------------------------------------------------------------
(* What a request, the firmware and a restart can find in RAM.             *)
LayoutKey == 203
Pw        == <<80, 119>>          \* the default keys of a Pmqtt source
NoBinds   == <<91, 93>>
ApiPath   == <<47, 109>>          \* a path starts with a slash (47)
Profile   == <<119>>              \* "water_heater_triac"
Label     == <<116>>              \* the default name of the probe
Balansun  == <<98>>               \* the MQTT name that a start replaces
Uid       == <<98, 49>>           \* by the identifier of the chip
Tempo     == <<85>>               \* "UNDEFINED"
Country   == [FR |-> <<70, 82>>, US |-> <<85, 83>>, ZZ |-> <<90, 90>>]
BoardPin  == 4                    \* the probe's GPIO of the board
Off       == 255                  \* -1 as a byte
DefaultChannel == 6               \* JSON characters of a channel nobody set

(* The globals as the program starts, before anything is read.             *)
Static == [
  ssid |-> <<>>, password |-> <<>>, dhcpOn |-> 1, IP_Fixe |-> 0,
  Gateway |-> 0, subnetMask |-> 24, dns |-> 0, Source |-> <<85>>,
  ext_peer_ip |-> 0, EnphaseUser |-> <<>>, EnphasePwd |-> <<>>,
  meter_channel |-> <<48>>, mqtt_publish_period_sec |-> 0, MQTTIP |-> 0,
  MQTTPort |-> 183, MQTTUser |-> <<>>, MQTTPwd |-> <<>>,
  MQTTPrefix |-> <<98>>, MQTTdeviceName |-> Balansun, routerName |-> <<66>>,
  probeSecondName |-> <<83>>, probeHouseName |-> <<72>>,
  temperatureSensorName |-> Label, CalibU |-> 100, CalibI |-> 100,
  channels |-> <<>>,              \* characters of each channel's JSON
  PmqttTopic |-> <<>>, PmqttSchema |-> Pw, JsyMk333SerialBaud |-> 96,
  PmqttBindingsJson |-> NoBinds, ext_peer_port |-> 80,
  ext_peer_path |-> ApiPath, arduinoOtaPassword |-> <<>>,
  country |-> Country.FR, variant |-> <<>>, freq_mode |-> 0, freq_hz |-> 50,
  nominal_v |-> 230, httpApiPassword |-> <<>>, httpCorsEnabled |-> 0,
  pwmGpio |-> Off, pwmMode |-> 0, pwmDutyPercent |-> 0, pwmInverted |-> 0,
  fleetTrustKey |-> <<>>, tempoRteEnabled |-> 0, LTARF |-> <<>>,
  STGEt |-> <<>>, rte_today |-> Tempo, rte_tomorrow |-> Tempo,
  tempoRteLastFetchEpoch |-> 0, expert_regulation_mode |-> 0,
  regulation_gain |-> 1, coeffs |-> <<0, 4, 0, 0>>,  \* Kp, Ki, Kd, PID
  vacationEnabled |-> 0, vacationEndEpoch |-> 0, maxRoutedW |-> 0,
  mqttJsonCommands |-> 0, triacOffWhenSourceStale |-> 0,
  triacBackoffWhenHeaterIdle |-> 0, actionDailyCapWh |-> 0,
  self_test |-> 0, run_epoch |-> 0, zc_edges_per_sec |-> 0,
  cal_enabled |-> 0, cal_duty |-> <<0, 0, 0>>, cal_w |-> <<0, 0, 0>>,
  statusLedMode |-> 1, statusLedGpioActivity |-> 18,
  statusLedGpioRegulation |-> 19, statusLedRgbGpio |-> Off,
  statusLedActiveLow |-> 0, statusLedColorActivity |-> <<255, 180, 0>>,
  statusLedColorRegulation |-> <<0, 255, 0>>,
  statusLedColorReboot |-> <<255, 0, 0>>, statusLedColorAp |-> <<102, 0, 255>>,
  slotEnabled |-> <<0, 0>>, slotLabel |-> <<<<>>, <<>>>>,
  slotLow |-> <<0, 0>>, slotHigh |-> <<0, 0>>,
  victron_broker_ip |-> 0, VictronPortalId |-> <<>>,
  victron_battery_device_id |-> 0, VictronSurplusMode |-> 0,
  victron_grid_phases |-> 1, tokens |-> <<>>,
  loadProfileWire |-> Profile ]

VARIABLES
  settings,  \* the globals
  work,      \* the image in RAM
  disk,      \* what survives: the image, the bindings' own key, and as history
             \* who wrote the image ("none", "old", "this"), from which settings,
             \* and whether that save set RomPersistTruncated, which is
             \* logged and read by nothing
  on,        \* the settings have been read
  changes    \* bound: changes so far

vars == <<settings, work, disk, on, changes>>

-----------------------------------------------------------------------------
(* Items of a block.  An item with room r is written, or read, when r      *)
(* cells are left; otherwise it is skipped, or the rest of its block is    *)
(* left, or the stream stops.  A reader takes an item from version since.  *)
Item(k, f)      == [kind |-> k, field |-> f, part |-> 0, value |-> <<>>,
                    room |-> 0, miss |-> "skip", since |-> 0, known |-> {}]
Text(f)         == Item("text", f)
Byte(f)         == Item("byte", f)
Short(f)        == Item("short", f)
Long(f)         == Item("long", f)
Part(p, i)      == [i EXCEPT !.part = p]
Value(k, v)     == [Item(k, "") EXCEPT !.value = v]
Const(v)        == Value("byte", v)
Known(versions) == [Item("byte", "version") EXCEPT !.known = versions]
Gap             == Item("gap", "")
InRoom(r, i)    == [i EXCEPT !.room = r]
Or(miss, r, i)  == [i EXCEPT !.room = r, !.miss = miss]
EachInRoom(is)  == [j \in DOMAIN is |-> InRoom(1, is[j])]
Bytes(f, n)     == [p \in 1..n |-> Part(p, Byte(f))]

(* A block whose mark does not fit is left out, or stops the stream.  The  *)
(* fixed block has neither mark nor guard.                                 *)
Block(m, miss, items) == [mark |-> m, miss |-> miss, items |-> items]
NoMark == 0
Mark(m) == CASE m = NoMark -> <<>>               \* 0xE1C0, 0xE2mm
             [] m = 192    -> <<192, 225>>
             [] m = 256    -> <<0, 226>>
             [] OTHER      -> <<m, 226>>

FixedBlock == Block(NoMark, "stop",
  << Text("ssid"), Text("password"), Byte("dhcpOn"), Long("IP_Fixe"),
     Long("Gateway"), Long("subnetMask"), Long("dns"), Text("Source"),
     Long("ext_peer_ip"), Text("EnphaseUser"), Text("EnphasePwd"),
     Text("meter_channel"), Short("mqtt_publish_period_sec"), Long("MQTTIP"),
     Short("MQTTPort"), Text("MQTTUser"), Text("MQTTPwd"), Text("MQTTPrefix"),
     Text("MQTTdeviceName"), Text("routerName"), Text("probeSecondName"),
     Text("probeHouseName"), Text("temperatureSensorName"), Short("CalibU"),
     Short("CalibI"), Short("NbActions") >>)

PmqttBlock == Block(256, "stop",
  << Text("PmqttTopic"), Or("stop", 1, Text("PmqttSchema")),
     Or("stop", 4, Long("JsyMk333SerialBaud")) >>)

PwmItems   == EachInRoom(<<Byte("pwmGpio"), Byte("pwmMode"),
                           Byte("pwmDutyPercent"), Byte("pwmInverted")>>)
TempoItems == EachInRoom(<<Byte("tempoRteEnabled"), Text("LTARF"), Text("STGEt"),
                           Text("rte_today"), Text("rte_tomorrow")>>)
              \o <<InRoom(4, Long("tempoRteLastFetchEpoch"))>>
LedItems   == EachInRoom(<<Byte("statusLedMode"), Byte("statusLedGpioActivity"),
                           Byte("statusLedGpioRegulation"), Byte("statusLedRgbGpio"),
                           Byte("statusLedActiveLow")>>
                         \o Bytes("statusLedColorActivity", 3)
                         \o Bytes("statusLedColorRegulation", 3))
AdvItems   == EachInRoom(Bytes("statusLedColorReboot", 3)
                         \o Bytes("statusLedColorAp", 3))
Backoff    == InRoom(1, Byte("triacBackoffWhenHeaterIdle"))
HaItems(version, backoff) ==
  << InRoom(1, version), InRoom(1, Byte("vacationEnabled")),
     InRoom(4, Long("vacationEndEpoch")), InRoom(2, Short("maxRoutedW")),
     InRoom(1, Byte("mqttJsonCommands")), InRoom(1, Byte("triacOffWhenSourceStale")) >>
  \o backoff \o <<InRoom(4, Long("actionDailyCapWh"))>>
DiagItems  == <<Byte("self_test"), Long("run_epoch"), Short("zc_edges_per_sec"), Gap>>
CalItems   == << Part(1, Byte("cal_duty")), Part(1, Short("cal_w")),
                 Part(2, Byte("cal_duty")), Part(2, Short("cal_w")),
                 Part(3, Byte("cal_duty")), Part(3, Short("cal_w")) >>
SlotItems(p, miss) ==
  << Or(miss, 1, Part(p, Byte("slotEnabled"))), Or(miss, 1, Part(p, Text("slotLabel"))),
     Or(miss, 8, Part(p, Long("slotLow"))), Part(p, Long("slotHigh")) >>

-----------------------------------------------------------------------------
(* Writing.  A cell past the capacity is not written, an item that does    *)
(* not fit whole is not written at all; the address moves on either way.   *)
Kept == 256                       \* the cell keeps what the image has

Left(w) == Cap - Len(w.cells)

(* The channels' JSON alone is cut to what is left, its end kept for NUL.  *)
Cut(i, v, w) == i.kind = "json" /\ Len(v) >= Left(w)

Cells(i, v, w) ==
  CASE i.kind = "byte"  -> <<v>>
    [] i.kind = "short" -> <<v, 0>>
    [] i.kind = "long"  -> <<v, 0, 0, 0>>
    [] i.kind \in {"text", "json"} ->
         Append(IF Cut(i, v, w) THEN SubSeq(v, 1, Left(w) - 1) ELSE v, 0)
    [] i.kind = "gap"   -> <<Kept, Kept>>
    [] i.kind = "none"  -> <<>>

(* The value an item stores, as the writer adjusts it.                     *)
Stored(i, s) ==
  CASE i.field = ""            -> i.value
    [] i.field = "NbActions"   -> Len(s.channels)
    [] i.field = "PmqttSchema" -> IF s.PmqttSchema = <<>> THEN Pw ELSE s.PmqttSchema
    [] i.field = "ext_peer_port" -> IF s.ext_peer_port = 0 THEN 80 ELSE s.ext_peer_port
    [] i.field = "ext_peer_path" -> IF s.ext_peer_path = <<>> THEN ApiPath ELSE s.ext_peer_path
    [] OTHER -> IF i.part = 0 THEN s[i.field] ELSE s[i.field][i.part]

Emit(w, cells, cut) ==
  [w EXCEPT !.cells = @ \o IF Len(cells) <= Left(w) THEN cells
                           ELSE [j \in DOMAIN cells |-> Kept],
            !.told = @ \/ cut]

Missed(w, miss) ==
  CASE miss = "leave" -> [w EXCEPT !.left = TRUE]
    [] miss = "stop"  -> [w EXCEPT !.done = TRUE, !.told = TRUE]
    [] OTHER          -> w

WriteItem(w, i) ==
  CASE w.done \/ w.left                 -> w
    [] i.room = 0 \/ i.room <= Left(w)  ->
         LET v == Stored(i, w.set) IN Emit(w, Cells(i, v, w), Cut(i, v, w))
    [] OTHER                            -> Missed(w, i.miss)

Marks(b) == [j \in DOMAIN Mark(b.mark) |-> Or(b.miss, 3 - j, Const(Mark(b.mark)[j]))]

WriteBlock(w, b) ==
  IF w.done THEN w
  ELSE [FoldLeft(WriteItem, w, Marks(b) \o b.items) EXCEPT !.left = FALSE]

FrontBlocks ==
  << FixedBlock, PmqttBlock,
     Block(12, "stop", <<Const(91), Const(93), Const(0)>>),
     Block(1, "stop", <<Or("stop", 2, Short("ext_peer_port")), Text("ext_peer_path")>>),
     Block(2, "stop", <<Text("arduinoOtaPassword")>>),
     Block(192, "leave", Bytes("country", 2) \o <<Text("variant"), Byte("freq_mode"),
                           Byte("freq_hz"), Short("nominal_v")>>),
     Block(3, "stop", <<Text("httpApiPassword")>>),
     Block(4, "stop", <<InRoom(1, Byte("httpCorsEnabled"))>>),
     Block(5, "stop", PwmItems),
     Block(6, "stop", <<InRoom(1, Text("fleetTrustKey"))>>),
     Block(7, "stop", TempoItems) >>

(* The channels as JSON: their own text and the coefficients of the triac. *)
Json(s) ==
  IF s.channels = <<>> THEN <<91, 93>>
  ELSE <<91>> \o [k \in 1..4 |-> 48 + s.coeffs[k]]
       \o FlattenSeq([c \in DOMAIN s.channels |->
                        [n \in 1..s.channels[c] |-> 120] \o <<44>>]) \o <<93>>

(* Channels that outgrow the serializer leave no block, and nobody says so. *)
Outgrown(s) == Len(Json(s)) >= Scratch

ActionsBlocks(s) ==
  IF Outgrown(s) THEN <<>> ELSE <<Block(32, "leave", <<InRoom(1, Value("json", Json(s)))>>)>>

(* The coefficients of all twenty channels are written cell by cell.       *)
RearBlocks ==
  << Block(8, "leave", EachInRoom(<<Const(1), Byte("expert_regulation_mode"),
                                    Byte("regulation_gain"), Const(1)>>
                                  \o Bytes("coeffs", 4))),
     Block(9, "leave", HaItems(Const(3), <<Backoff>>)),
     Block(10, "leave", DiagItems \o <<Byte("cal_enabled")>> \o CalItems),
     Block(14, "stop", LedItems),
     Block(15, "stop", AdvItems),
     Block(16, "stop", <<InRoom(1, Const(BoardPin))>> \o SlotItems(1, "stop")
                       \o SlotItems(2, "stop")),
     Block(18, "stop", <<Or("stop", 4, Long("victron_broker_ip")),
                         Or("stop", 1, Text("VictronPortalId")),
                         Or("stop", 4, Short("victron_battery_device_id")),
                         Byte("VictronSurplusMode"), Byte("victron_grid_phases")>>) >>

(* An older firmware wrote the site block without the backoff switch and   *)
(* the load profile in a block before the tokens.                          *)
OldRearBlocks ==
  Append([RearBlocks EXCEPT ![2] = Block(9, "leave", HaItems(Const(2), <<>>))],
         Block(17, "stop", <<Const(1), Text("loadProfileWire"),
                             Gap, Gap, Gap, Const(0), Const(0)>>))

(* Of a secret of another length nothing is written.                       *)
TokenItems(t) ==
  << Or("stop", 1, Const(t.id)), Or("stop", 1, Value("text", t.label)),
     Or("stop", 1, Value(IF Len(t.secret) = SecretLen THEN "text" ELSE "none", t.secret)) >>

TokensBlock(s) ==
  Block(13, "stop", <<Or("stop", 1, Const(Len(s.tokens)))>>
    \o FlattenSeq([k \in DOMAIN s.tokens |-> TokenItems(s.tokens[k])]))

Written(s, rear) ==
  FoldLeft(WriteBlock,
           [cells |-> <<LayoutKey, 0, 0, 0>>, set |-> s, done |-> FALSE,
            left |-> FALSE, told |-> FALSE],
           FrontBlocks \o ActionsBlocks(s) \o rear \o <<TokensBlock(s)>>)

(* The image after a save: cells not written keep what was there.          *)
Laid(w, image) ==
  [a \in 1..Cap |-> IF a > Len(w.cells) \/ w.cells[a] = Kept
                    THEN image[a] ELSE w.cells[a]]

-----------------------------------------------------------------------------
(* Reading.  A number past the capacity reads as 0, a text without an end  *)
(* as the empty one; items skipped keep what the program started with.     *)
Room(r) == Cap - r.at + 1

TextAt(r) ==
  LET ends == {a \in r.at..Cap : r.image[a] = 0}
  IN IF ends = {} THEN <<>>
     ELSE SubSeq(r.image, r.at, (CHOOSE a \in ends : \A b \in ends : a <= b) - 1)

(* A secret of another length is dropped, and only its NUL is passed.      *)
SecretFault(text) == text
Secret(text)      == IF Len(text) = SecretLen THEN text ELSE <<>>

Numbers == [byte |-> 1, short |-> 2, gap |-> 2, long |-> 4]

Read(r, i) ==
  CASE i.kind = "secret"          -> Secret(TextAt(r))
    [] i.kind \in {"text", "json"} -> TextAt(r)
    [] OTHER -> IF Numbers[i.kind] <= Room(r) THEN r.image[r.at] ELSE 0

NoToken == [id |-> 0, label |-> <<>>, secret |-> <<>>]

Put(s, i, v) ==
  CASE i.field \in {"", "version", "json"} -> s
    [] i.field = "NbActions" -> [s EXCEPT !.channels = [k \in 1..v |-> DefaultChannel]]
    [] i.field = "tokens"    ->
         [s EXCEPT !.tokens = [k \in 1..(IF v <= MaxTokens THEN v ELSE MaxTokens) |-> NoToken]]
    [] i.field \in DOMAIN NoToken -> [s EXCEPT !.tokens[i.part][i.field] = v]
    [] OTHER -> IF i.part = 0 THEN [s EXCEPT ![i.field] = v]
                              ELSE [s EXCEPT ![i.field][i.part] = v]

(* The rest of a block of a version this firmware does not know is left.   *)
Got(r, i, v) ==
  [r EXCEPT !.at      = @ + IF i.kind \in DOMAIN Numbers THEN Numbers[i.kind] ELSE Len(v) + 1,
            !.set     = Put(@, i, v),
            !.json    = IF i.field = "json" THEN v ELSE @,
            !.version = IF i.field = "version" THEN v ELSE @,
            !.left    = i.field = "version" /\ v \notin i.known]

Wanted(r, i) ==
  /\ ~r.done /\ ~r.left /\ i.since <= r.version
  /\ i.field \in DOMAIN NoToken => i.part <= Len(r.set.tokens)

ReadItem(r, i) ==
  CASE ~Wanted(r, i)                   -> r
    [] i.room = 0 \/ i.room <= Room(r) -> Got(r, i, Read(r, i))
    [] i.miss = "leave"                -> [r EXCEPT !.left = TRUE]
    [] i.miss = "stop"                 -> [r EXCEPT !.done = TRUE]
    [] OTHER                           -> r

Marked(r, m) ==
  /\ ~r.done
  /\ m # NoMark => Room(r) >= 2 /\ <<r.image[r.at], r.image[r.at + 1]>> = Mark(m)

(* A block whose mark is not here is passed over without advancing; only   *)
(* without the first of them the others are not looked for.                *)
ReadBlock(r, b) ==
  IF ~Marked(r, b.mark) THEN [r EXCEPT !.done = @ \/ b.miss = "stop"]
  ELSE [FoldLeft(ReadItem, [r EXCEPT !.at = @ + Len(Mark(b.mark)), !.version = 0,
                                     !.seen = @ \cup {b.mark}], b.items)
          EXCEPT !.left = FALSE]

Found(m, items) == Block(m, "leave", items)

FrontFound ==
  << FixedBlock, PmqttBlock,
     Found(12, <<InRoom(1, Text("PmqttBindingsJson"))>>),
     Found(1, <<Or("leave", 2, Short("ext_peer_port")), InRoom(1, Text("ext_peer_path"))>>),
     Found(2, <<InRoom(1, Text("arduinoOtaPassword"))>>),
     Found(192, Bytes("country", 2)
                \o <<InRoom(1, Text("variant")), Or("leave", 4, Byte("freq_mode")),
                     Byte("freq_hz"), Short("nominal_v")>>),
     Found(3, <<InRoom(1, Text("httpApiPassword"))>>),
     Found(4, <<InRoom(1, Byte("httpCorsEnabled"))>>),
     Found(5, PwmItems),
     Found(6, <<InRoom(1, Text("fleetTrustKey"))>>),
     Found(7, TempoItems),
     Found(32, <<InRoom(1, Item("json", "json"))>>),
     Found(8, <<InRoom(1, Const(0)), InRoom(1, Byte("expert_regulation_mode")),
                InRoom(1, Byte("regulation_gain")), InRoom(1, Const(0)),
                Or("leave", 4, Part(1, Byte("coeffs"))), Part(2, Byte("coeffs")),
                Part(3, Byte("coeffs")), Part(4, Byte("coeffs"))>>) >>

SiteFoundFault == Found(9, HaItems(Known({2, 3}), <<Backoff>>))
SiteFound      == Found(9, HaItems(Known({2, 3}), <<[Backoff EXCEPT !.since = 3]>>))

ProfileFound ==
  Found(17, <<InRoom(1, Known({1})), InRoom(1, Text("loadProfileWire")),
              InRoom(4, Long("")), InRoom(2, Short("")), InRoom(1, Text("")),
              InRoom(1, Text(""))>>)

TokensFound ==
  Found(13, <<InRoom(1, Byte("tokens"))>>
    \o FlattenSeq([k \in 1..MaxTokens |->
         EachInRoom(<<Part(k, Byte("id")), Part(k, Text("label")),
                      Part(k, Item("secret", "secret"))>>)]))

RearFound ==
  << SiteFound,
     Found(10, <<Or("leave", 12, DiagItems[1])>> \o Tail(DiagItems)
               \o <<Or("leave", 1, Byte("cal_enabled"))>>
               \o [j \in DOMAIN CalItems |-> IF j % 2 = 1 THEN Or("leave", 3, CalItems[j])
                                                            ELSE CalItems[j]]),
     Found(14, LedItems),
     Found(15, AdvItems),
     Found(16, <<InRoom(1, Const(0))>> \o SlotItems(1, "leave") \o SlotItems(2, "leave")),
     Found(18, <<InRoom(4, Long("victron_broker_ip")), InRoom(1, Text("VictronPortalId")),
                 Or("leave", 4, Short("victron_battery_device_id")),
                 Byte("VictronSurplusMode"), Byte("victron_grid_phases")>>),
     ProfileFound,
     TokensFound >>

(* The whole stream, behind the key of the layout.                         *)
ReadStream(image) ==
  FoldLeft(ReadBlock,
           [at |-> 5, set |-> Static, json |-> <<>>, image |-> image, version |-> 0,
            done |-> FALSE, left |-> FALSE, seen |-> {}],
           FrontFound \o RearFound)

-----------------------------------------------------------------------------
(* From the stream to the globals.                                         *)
AtLeast(n, v) == IF v < n THEN n ELSE v

Taken(r, nvs) ==
  [r.set EXCEPT
    !.PmqttBindingsJson = IF 12 \in r.seen /\ nvs # <<>> THEN nvs
                          ELSE IF @ = <<>> THEN NoBinds ELSE @,
    !.ext_peer_port     = IF @ = 0 THEN 80 ELSE @,
    !.ext_peer_path     = IF @ = <<>> \/ Head(@) # 47 THEN ApiPath ELSE @,
    !.freq_mode         = IF @ = 1 THEN 1 ELSE 0,
    !.freq_hz           = IF @ \in {50, 60} THEN @ ELSE 50,
    !.pwmMode           = IF @ > 2 THEN 0 ELSE @,
    !.statusLedMode     = IF @ > 2 THEN 1 ELSE @,
    !.rte_today         = IF @ = <<>> THEN Tempo ELSE @,
    !.rte_tomorrow      = IF @ = <<>> THEN Tempo ELSE @,
    !.loadProfileWire   = IF @ = <<>> THEN Profile ELSE @,
    !.regulation_gain   = AtLeast(1, @),
    !.victron_grid_phases = AtLeast(1, @),
    !.coeffs            = IF @[2] = 0 THEN [@ EXCEPT ![2] = 4] ELSE @]

(* The channels the JSON lists: the runs of text between its separators.   *)
Listed(json) ==
  LET ends  == SetToSortSeq({j \in DOMAIN json : json[j] = 44}, <)
      from(c) == IF c = 1 THEN 5 ELSE ends[c - 1]
  IN [c \in DOMAIN ends |-> ends[c] - from(c) - 1]

(* The channels: JSON that does not end, or lists none, changes nothing.   *)
ParsedFault(s, json) ==
  IF json = <<>> THEN s
  ELSE IF Last(json) # 93 THEN Static
  ELSE IF Len(json) < 3 THEN s ELSE [s EXCEPT !.channels = Listed(json)]

Parsed(s, json) ==
  IF json = <<>> \/ Len(json) < 3 \/ Last(json) # 93 THEN s
  ELSE [s EXCEPT !.channels = Listed(json),
                 !.coeffs = [k \in 1..4 |-> LET v == json[k + 1] - 48
                                            IN IF k = 2 /\ v = 0 THEN 1 ELSE v]]

SyncLegacyLabel(s, seen) ==
  IF 16 \in seen /\ s.slotLabel[1] # <<>>
  THEN [s EXCEPT !.temperatureSensorName = s.slotLabel[1]] ELSE s

InitTemperature(s) ==
  [s EXCEPT !.slotEnabled = <<1, 0>>, !.slotLow = <<0, 0>>, !.slotHigh = <<0, 0>>,
            !.slotLabel = <<s.temperatureSensorName, <<>>>>]

(* A country brings its voltage and its frequency.                         *)
CountryApply(s) ==
  CASE s.country = Country.ZZ -> [s EXCEPT !.variant = <<>>]
    [] s.country = Country.US -> [s EXCEPT !.nominal_v = 120, !.freq_hz = 60]
    [] s.country = Country.FR -> [s EXCEPT !.nominal_v = 230, !.freq_hz = 50]
    [] OTHER                  -> s

FromStream(r, nvs) ==
  CountryApply(InitTemperature(SyncLegacyLabel(Parsed(Taken(r, nvs), r.json), r.seen)))

Loaded(image, nvs) == FromStream(ReadStream(image), nvs)

HasConfig(image) == SubSeq(image, 1, 4) = <<LayoutKey, 0, 0, 0>>

AtBoot(d) ==
  IF HasConfig(d.image) THEN Loaded(d.image, d.nvs) ELSE InitTemperature(Static)

-----------------------------------------------------------------------------
Erased == [a \in 1..Cap |-> 255]
Blank  == [image |-> Erased, nvs |-> <<>>, writer |-> "none", saved |-> Static,
           cut |-> FALSE]

Binds(s) == IF s.PmqttBindingsJson = <<>> THEN NoBinds ELSE s.PmqttBindingsJson

(* A save: the bindings go to their own key first, the image is laid out   *)
(* over what it held, then the commit stores it or fails.                  *)
DiskAfter(d, s, image, told, stored, bound) ==
  LET kept == IF stored
              THEN [d EXCEPT !.image = image, !.writer = "this", !.cut = told, !.saved =
                      [s EXCEPT !.PmqttBindingsJson = d.saved.PmqttBindingsJson]]
              ELSE d
  IN IF bound THEN [kept EXCEPT !.nvs = Binds(s), !.saved.PmqttBindingsJson = Binds(s)]
     ELSE kept

Persist(d, s, image) ==
  \E w \in {Written(s, RearBlocks)}, stored, bound \in BOOLEAN :
    /\ work' = Laid(w, image)
    /\ disk' = DiskAfter(d, s, work', w.told \/ ~bound, stored, bound)

(* A flash as it leaves the factory, or as an older firmware left it.      *)
Older(s, w) ==
  [image |-> Laid(w, Erased), nvs |-> Binds(s), writer |-> "old", saved |-> s,
   cut |-> w.told]

Init ==
  /\ settings = Static /\ work = Erased /\ on = FALSE
  /\ changes = 0
  /\ \/ disk = Blank
     \/ \E c \in OldSettings :
          \E s \in {c @@ [loadProfileWire |-> <<112>>, triacOffWhenSourceStale |-> 1,
                          actionDailyCapWh |-> 9] @@ Static} :
            disk = Older(s, Written(s, OldRearBlocks))

(* A restart or a power failure at any time: what RAM held is gone.        *)
PowerOff ==
  /\ on /\ on' = FALSE
  /\ settings' = Static /\ work' = Erased
  /\ UNCHANGED <<disk, changes>>

Start ==
  /\ ~on /\ on' = TRUE
  /\ \E read \in {AtBoot(disk)} :
       IF HasConfig(disk.image) /\ read.MQTTdeviceName = Balansun
       THEN /\ settings' = [read EXCEPT !.MQTTdeviceName = Uid]
            /\ Persist(disk, settings', disk.image)
       ELSE settings' = read /\ work' = disk.image /\ UNCHANGED disk
  /\ UNCHANGED changes

Change ==
  /\ on /\ changes < MaxChanges
  /\ \E c \in Changes : settings' = c @@ settings
  /\ changes' = changes + 1
  /\ UNCHANGED <<work, disk, on>>

Save ==
  /\ on
  /\ Persist(disk, settings, work)
  /\ UNCHANGED <<settings, on, changes>>

(* What a factory reset leaves in RAM.                                     *)
AfterReset(s) ==
  LET kept == {"LTARF", "loadProfileWire", "run_epoch", "zc_edges_per_sec",
               "cal_enabled", "cal_duty", "cal_w", "victron_broker_ip",
               "VictronPortalId", "victron_battery_device_id", "VictronSurplusMode",
               "victron_grid_phases"}
  IN InitTemperature([f \in kept |-> s[f]]
       @@ [MQTTdeviceName |-> Uid,
           self_test |-> IF s.self_test % 2 = 1 THEN s.self_test ELSE s.self_test + 1]
       @@ Static)

FactoryReset ==
  /\ on /\ changes < MaxChanges
  /\ settings' = AfterReset(settings)
  /\ Persist(Blank, AfterReset(settings), work)
  /\ changes' = changes + 1
  /\ UNCHANGED on

Next == Start \/ PowerOff \/ Change \/ Save \/ FactoryReset

Spec == Init /\ [][Next]_vars

-----------------------------------------------------------------------------
(* What a start must make of the settings a save stored.                   *)
Restored(s, writer) ==
  CountryApply(InitTemperature([s EXCEPT
    !.channels = IF Outgrown(s) THEN [c \in DOMAIN @ |-> DefaultChannel] ELSE @,
    !.MQTTdeviceName = IF @ = Balansun THEN Uid ELSE @,
    !.loadProfileWire = IF writer = "old" THEN @ ELSE Profile,
    !.triacBackoffWhenHeaterIdle = IF writer = "old" THEN 0 ELSE @]))

SameButLastSecret(a, b) ==
  a = b \/ (Len(b) > 0 /\ a = [b EXCEPT ![Len(b)].secret = <<>>])

(* A save that reported no truncation is read back whole by the next       *)
(* start, whatever blocks are empty, full or cut by an earlier save, and   *)
(* so is the image of an older firmware.  Channels that outgrew their      *)
(* serializer come back as so many channels nobody set, all else around    *)
(* them as it was.  Only the secret of the last token may be missing, and  *)
(* a list that already misses one says nothing.                            *)
RestartRestores ==
  [][~on /\ on' /\ disk.writer # "none" /\ ~disk.cut
     => LET want == Restored(disk.saved, disk.writer) IN
        /\ settings' = [want EXCEPT !.tokens = settings'.tokens]
        /\ (\A k \in DOMAIN want.tokens : want.tokens[k].secret # <<>>)
             => SameButLastSecret(settings'.tokens, want.tokens)]_vars

(* What a truncated save drops is behind the channels: the network, the    *)
(* meter, MQTT, passwords, mains and Tempo come back whatever was cut, so  *)
(* the router stays reachable and can be given a shorter configuration.    *)
FrontFields == DOMAIN Static \ {"channels", "coeffs", "expert_regulation_mode",
  "regulation_gain", "vacationEnabled", "vacationEndEpoch", "maxRoutedW",
  "mqttJsonCommands", "triacOffWhenSourceStale", "triacBackoffWhenHeaterIdle",
  "actionDailyCapWh", "self_test", "run_epoch", "zc_edges_per_sec", "cal_enabled",
  "cal_duty", "cal_w", "statusLedMode", "statusLedGpioActivity",
  "statusLedGpioRegulation", "statusLedRgbGpio", "statusLedActiveLow",
  "statusLedColorActivity", "statusLedColorRegulation", "statusLedColorReboot",
  "statusLedColorAp", "victron_broker_ip", "VictronPortalId",
  "victron_battery_device_id", "VictronSurplusMode", "victron_grid_phases",
  "tokens", "loadProfileWire"}

FrontSurvives ==
  [][~on /\ on' /\ disk.cut
     => \A f \in FrontFields : settings'[f] = Restored(disk.saved, disk.writer)[f]]_vars

(* A start admits no secret the last save had not: a token revoked before  *)
(* that save is not read back from the cells of an older one, however the  *)
(* newer stream was cut.                                                   *)
RevokedStaysOut ==
  [][~on /\ on' /\ disk.writer # "none"
     => \A k \in DOMAIN settings'.tokens :
          settings'.tokens[k].secret # <<>>
          => \E j \in DOMAIN disk.saved.tokens :
               disk.saved.tokens[j].secret = settings'.tokens[k].secret]_vars

=============================================================================
