------------------------------- MODULE DayEnergy -------------------------------
(***************************************************************************)
(* The energy of the day: the anchor it is counted from, the midnight      *)
(* rollover into the history ring (metering/storage_eeprom.cpp), the       *)
(* counter kept across restarts (metering/intraday_day_nvs.cpp) and the    *)
(* arithmetic between them (core/balansun_daily_energy_logic.h).           *)
(*                                                                         *)
(* The clock tick runs on the main loop and in the callback of the time    *)
(* synchronisation, which is another task; with a source that has a second *)
(* meter, the metering task counts the day as well as the loop.  One of    *)
(* the four counters is modelled, and of the others what they do to it:    *)
(* the largest of the four decides when they are saved.  Import of a       *)
(* history and sources that report a day's energy themselves are left out. *)
(*                                                                         *)
(* The names the specification shares with others have a prefix: the       *)
(* theorems about it are in one module with those about Persistence.       *)
(*                                                                         *)
(* A definition named ...Fault is a seeded error in the definition after   *)
(* it, kept to show that the properties can fail; no specification uses it. *)
(***************************************************************************)
EXTENDS Integers, FiniteSets, FiniteSetsExt

CONSTANTS
  LastDay,  \* bound of this model on the date
  MaxUsed,  \* bound of this model on the energy used, and on another counter
            \* larger than this one
  Cap,      \* history_days_capacity
  BigDrop   \* 10000: a larger backward jump is a new meter

ASSUME DayAssumption ==
  /\ LastDay \in Nat \ {0} /\ MaxUsed \in Nat /\ Cap \in Nat /\ Cap > 1
  /\ BigDrop \in Nat

VARIABLES
  today,    \* the date
  used,     \* energy the house has used
  second,   \* the source reads the second meter itself (VictronGx)
  register, \* counter of the meter
  valid,    \* meter_reading_valid
  cum,      \* house_energy_import_wh
  synced,   \* time_sync_valid
  date,     \* currentDateStr, or 0
  j0,       \* EAS_M_J0: the counter at the beginning of the day
  floor,    \* g_day_floor_house_import_wh
  pub,      \* house_day_energy_import_wh
  idx,      \* idxPromDuJour
  img,      \* image of the EEPROM in RAM
  hist,     \* flash key "hist": the ring
  anchor,   \* flash key "anchor"
  intra,    \* NVS namespace of the counter of the day
  saved,    \* g_last_saved_max: the largest counter at the last save
  pc,       \* where each task is
  overlap,  \* history: two tasks have been at the stores at once
  behind,   \* history: another counter was larger at the last save
  since,    \* history: date of the anchor from which the last day of the ring
            \* was counted, of the ring in RAM and of the stored one
  torn      \* history: a restart fell inside the save of the counter, or after
            \* a late rollover and before the counter of the same date was
            \* erased, or found a ring two rollovers ahead of the anchor; or a
            \* reset of the history left the stored anchor

meter == <<second, register, valid, cum>>
ram   == <<synced, date, j0, floor, pub, idx, img, saved>>
nvs   == <<hist, anchor, intra>>
ghosts == <<since, overlap, behind, torn>>
dayVars  == <<today, used, meter, ram, nvs, pc, ghosts>>

Tasks   == {"loop", "sntp", "meter"}
Nowhere == [t \in Tasks |-> "idle"]
Idle    == pc = Nowhere
Slots   == 0 .. Cap - 1

Blank == [j0 |-> 0, date |-> 0, idx |-> 0]
NoDay == [date |-> 0, wh |-> 0]

DayInit ==
  /\ today = 1 /\ used = 0 /\ second \in BOOLEAN /\ register = 1 /\ valid = FALSE /\ cum = 0
  /\ synced = FALSE /\ date = 0 /\ j0 = 0 /\ floor = 0 /\ pub = 0 /\ idx = 0 /\ saved = 0
  /\ hist = [s \in Slots |-> 0] /\ anchor = Blank /\ intra = NoDay
  /\ img = [ring |-> hist, anchor |-> Blank]
  /\ pc = Nowhere /\ since = [ram |-> 0, flash |-> 0]
  /\ overlap = FALSE /\ behind = FALSE /\ torn = FALSE

-----------------------------------------------------------------------------
(* The clock tick.                                                         *)

At(t, from, to) == pc[t] = from /\ pc' = [pc EXCEPT ![t] = to]

(* A tick begins in the callback, which marks the time as valid, or in the *)
(* loop, with a valid reading or every few seconds for display.            *)
Begin(t) ==
  /\ t = "loop" => synced
  /\ synced' = TRUE
  /\ overlap' = (overlap \/ ~Idle)

(* The loop goes on with the counter of the day, unless the tick is the    *)
(* one for display.                                                        *)
After(t) == IF t = "loop" /\ valid THEN {"daily", "idle"} ELSE {"idle"}

(* The slot gets the counter published last, the anchor the counter of the *)
(* meter now.                                                              *)
RollsFault == date # today /\ date # 0 /\ cum > 0
Rolls      == date # today /\ date # 0 /\ valid

NextSlot == (idx + 1) % Cap

Roll(t) ==
  /\ Begin(t) /\ At(t, "idle", "hist")
  /\ Rolls
  /\ idx' = NextSlot
  /\ img' = [ring   |-> [img.ring EXCEPT ![idx'] = pub],
             anchor |-> [j0 |-> cum, date |-> today, idx |-> idx']]
  /\ since' = [since EXCEPT !.ram = img.anchor.date]
  /\ UNCHANGED <<today, used, meter, date, j0, floor, pub, saved, nvs, behind, torn>>

(* Without a valid reading, on the first day, or when the second meter     *)
(* does not answer, the date alone advances.                               *)
SameOrSkip(t) ==
  /\ Begin(t) /\ \E next \in After(t) : At(t, "idle", next)
  /\ ~Rolls \/ second
  /\ date' = today
  /\ UNCHANGED <<today, used, meter, j0, floor, pub, idx, img, saved, nvs, since, behind, torn>>

(* balansun_eeprom_commit: two keys, each of whose writes may fail with no *)
(* more than a warning.                                                    *)
HistSaved == hist' = img.ring /\ since' = [since EXCEPT !.flash = since.ram]

PutHist(t, from, to) ==
  /\ At(t, from, to)
  /\ HistSaved \/ UNCHANGED <<hist, since>>
  /\ UNCHANGED <<today, used, meter, ram, anchor, intra, overlap, behind, torn>>

PutAnchor(t, from, to) ==
  /\ At(t, from, to)
  /\ anchor' \in {anchor, img.anchor}
  /\ torn' = (torn \/ (from = "clear-anchor" /\ anchor' # img.anchor))
  /\ UNCHANGED <<today, used, meter, ram, hist, intra, since, overlap, behind>>

(* eepromLoadMorningDayEnergy reads the image, and the counter of the day  *)
(* if it is of the same date.                                              *)
Restored(d) == d # 0 /\ intra.date = d

FloorsFault(f) == f
Floors(f)      == 0

(* The floors it restores are then reset, the published counter is not.    *)
Morning(t) ==
  /\ At(t, "morning", "wipe")
  /\ j0' = img.anchor.j0 /\ date' = img.anchor.date /\ idx' = img.anchor.idx
  /\ pub' = IF Restored(date') THEN intra.wh ELSE pub
  /\ floor' = Floors(floor)
  /\ UNCHANGED <<today, used, meter, synced, img, saved, nvs, ghosts>>

Forget == intra' = NoDay /\ saved' = 0 /\ behind' = FALSE

Wipe(t) ==
  /\ \E next \in After(t) : At(t, "wipe", next)
  /\ Forget /\ date' = today
  /\ UNCHANGED <<today, used, meter, synced, j0, floor, pub, idx, img, hist, anchor, since, overlap, torn>>

-----------------------------------------------------------------------------
(* balansun_daily_energy_tick, on the loop and, once the second meter has  *)
(* answered, on the metering task.                                         *)
Polled ==
  /\ second /\ synced
  /\ At("meter", "idle", "daily")
  /\ overlap' = (overlap \/ ~Idle)
  /\ UNCHANGED <<today, used, meter, ram, nvs, since, behind, torn>>

NewMeter == cum < j0 \div 2 \/ j0 - cum > BigDrop

(* A counter that outgrew the largest one saved is saved at once, any      *)
(* other when some time has passed or another counter outgrew it.          *)
Gate == IF date = 0 THEN {"idle"} ELSE IF pub' > saved THEN {"save"} ELSE {"save", "idle"}

Daily(t) ==
  /\ pc[t] = "daily"
  /\ CASE cum = 0 -> UNCHANGED <<j0, floor>>
       [] cum > 0 /\ j0 = 0 -> j0' = cum /\ floor' = 0
       [] cum > 0 /\ cum < j0 -> IF NewMeter THEN j0' = cum /\ floor' = 0 ELSE UNCHANGED <<j0, floor>>
       [] OTHER -> floor' = Max({floor, cum - j0}) /\ UNCHANGED j0
  /\ pub' = floor'
  /\ \E next \in Gate : At(t, "daily", next)
  /\ UNCHANGED <<today, used, meter, synced, date, idx, img, saved, nvs, ghosts>>

(* intraday_day_nvs_maybe_save writes the date, then the counters.         *)
SaveDate(t) ==
  /\ At(t, "save", "value")
  /\ intra' = [intra EXCEPT !.date = date]
  /\ UNCHANGED <<today, used, meter, ram, hist, anchor, ghosts>>

SavedFault == saved
Saved      == pub

SaveValue(t) ==
  /\ At(t, "value", "idle")
  /\ intra' = [intra EXCEPT !.wh = Saved]
  /\ saved' \in {pub} \cup pub .. MaxUsed /\ behind' = (saved' > pub)
  /\ UNCHANGED <<today, used, meter, synced, date, j0, floor, pub, idx, img, hist, anchor, since, overlap, torn>>

-----------------------------------------------------------------------------
(* eepromClearConsumptionHistory, on request.  The anchor and the counter  *)
(* in RAM go on.                                                           *)
ClearImage ==
  /\ At("loop", "idle", "clear-hist")
  /\ img' = [ring |-> [s \in Slots |-> 0], anchor |-> Blank]
  /\ since' = [since EXCEPT !.ram = 0]
  /\ overlap' = (overlap \/ ~Idle)
  /\ UNCHANGED <<today, used, meter, synced, date, j0, floor, pub, idx, saved, nvs, behind, torn>>

ClearRest ==
  /\ At("loop", "clear-rest", "idle")
  /\ Forget /\ date' = 0 /\ idx' = 0
  /\ UNCHANGED <<today, used, meter, synced, j0, floor, pub, img, hist, anchor, since, overlap, torn>>

(* Saving the configuration writes every key that changed, each of which   *)
(* may fail (persistConfigToEeprom).                                       *)
Persist ==
  /\ At("loop", "idle", "idle")
  /\ HistSaved \/ UNCHANGED <<hist, since>>
  /\ anchor' \in {anchor, img.anchor}
  /\ overlap' = (overlap \/ ~Idle)
  /\ UNCHANGED <<today, used, meter, ram, intra, behind, torn>>

-----------------------------------------------------------------------------
(* The meter, the calendar and restarts.  The router may be off for long:  *)
(* nothing but these happens before the first reading.                     *)
Use ==
  /\ used < MaxUsed /\ used' = used + 1 /\ register' = register + 1
  /\ UNCHANGED <<today, second, valid, cum, ram, nvs, pc, ghosts>>

(* Some sources know the power before they know the counter.               *)
Poll ==
  /\ valid' = TRUE /\ cum' \in {cum, register}
  /\ UNCHANGED <<today, used, second, register, ram, nvs, pc, ghosts>>

(* Another meter, or the same one reset, starts from a lower counter.      *)
ReplaceMeter ==
  /\ register' \in 1 .. register - 1
  /\ UNCHANGED <<today, used, second, valid, cum, ram, nvs, pc, ghosts>>

(* The loop passes many times between a rollover and the next midnight.    *)
Midnight ==
  /\ Idle /\ pub = floor
  /\ today < LastDay /\ today' = today + 1
  /\ UNCHANGED <<used, meter, ram, nvs, pc, ghosts>>

(* The stored counter has the date of the new anchor, and what it counted  *)
(* went into the ring: the rollover came late, after a restart.            *)
Stale == /\ \E t \in Tasks : pc[t] \in {"morning", "wipe"}
         /\ Restored(anchor.date)

(* The stored ring has a day that was counted from a later anchor than the *)
(* stored one: two writes of the anchor were lost, of the ring none.       *)
Ahead == anchor.j0 # 0 /\ anchor.date < since.flash

Restart ==
  /\ valid' = FALSE /\ cum' = 0 /\ synced' = FALSE /\ saved' = 0 /\ behind' = FALSE
  /\ img' = [ring |-> hist, anchor |-> anchor]
  /\ j0' = anchor.j0 /\ date' = anchor.date /\ idx' = anchor.idx
  /\ floor' = IF Restored(anchor.date) THEN intra.wh ELSE 0
  /\ pub' = floor'
  /\ pc' = Nowhere
  /\ since' = [since EXCEPT !.ram = since.flash]
  /\ torn' = (torn \/ (\E t \in Tasks : pc[t] = "value") \/ Stale \/ Ahead)
  /\ UNCHANGED <<today, used, second, register, nvs, overlap>>

Tick(t) ==
  \/ Roll(t) \/ SameOrSkip(t)
  \/ PutHist(t, "hist", "anchor") \/ PutAnchor(t, "anchor", "morning")
  \/ Morning(t) \/ Wipe(t)

Clear ==
  \/ ClearImage \/ ClearRest
  \/ PutHist("loop", "clear-hist", "clear-anchor") \/ PutAnchor("loop", "clear-anchor", "clear-rest")

DayNext ==
  \/ \E t \in {"loop", "sntp"} : Tick(t)
  \/ \E t \in {"loop", "meter"} : Daily(t) \/ SaveDate(t) \/ SaveValue(t)
  \/ Polled \/ Clear \/ Persist
  \/ Use \/ Poll \/ ReplaceMeter \/ Midnight \/ Restart

DaySpec == DayInit /\ [][DayNext]_dayVars

-----------------------------------------------------------------------------
Anchors == [j0 : Nat, date : 0 .. LastDay, idx : Slots]

DayTypeOK ==
  /\ today \in 1 .. LastDay /\ used \in 0 .. MaxUsed /\ register \in Nat /\ cum \in Nat
  /\ second \in BOOLEAN /\ valid \in BOOLEAN /\ synced \in BOOLEAN
  /\ overlap \in BOOLEAN /\ behind \in BOOLEAN /\ torn \in BOOLEAN
  /\ date \in 0 .. LastDay /\ j0 \in Nat /\ floor \in Nat /\ pub \in Nat /\ saved \in Nat
  /\ idx \in Slots /\ hist \in [Slots -> Nat] /\ anchor \in Anchors
  /\ img \in [ring : [Slots -> Nat], anchor : Anchors]
  /\ intra \in [date : 0 .. LastDay, wh : Nat]
  /\ since \in [ram : 0 .. LastDay, flash : 0 .. LastDay]
  /\ pc \in [Tasks -> {"idle", "hist", "anchor", "morning", "wipe", "daily",
                       "save", "value", "clear-hist", "clear-anchor", "clear-rest"}]

(* No energy is counted in two days: the slots of the ring, without the    *)
(* one the next midnight overwrites, and the day in progress do not exceed *)
(* what the house used, whatever restarts, failing writes, meters without  *)
(* a reading and replaced meters do.  The exceptions are a callback of the *)
(* clock or a count of the metering task while another task is at the same *)
(* stores, and what tears writes that belong together (see torn).          *)
Rolling == \E t \in Tasks : pc[t] \in {"hist", "anchor", "morning"}

Recorded == FoldSet(LAMBDA s, n : n + img.ring[s], 0, Slots \ {NextSlot})

NoDoubleCount == ~overlap /\ ~torn /\ ~Rolling => Recorded + floor <= used

(* A restart between two ticks, on a day whose anchor is stored and still  *)
(* the one in use, keeps the energy of the day (a replaced meter and an    *)
(* anchor of 0 take another anchor in RAM, which nothing stores).  It adds *)
(* none, and loses some only below another counter that was larger at the  *)
(* last save: the gate is on the largest of the four.                      *)
RestartKeepsDay ==
  [][Restart /\ Idle /\ ~overlap /\ date # 0 /\ anchor = img.anchor
       /\ anchor.date = date /\ anchor.j0 = j0
       => floor' <= floor /\ (floor' = floor \/ (behind /\ floor <= saved))]_dayVars

(* Once the meter delivers, the date in RAM never advances without the     *)
(* anchor the day is counted from, but for a source whose second meter     *)
(* does not answer at midnight: the date then advances alone.              *)
AnchorsFollowDate ==
  [][valid /\ ~second /\ date # 0 /\ date' \notin {0, date} /\ ~Restart
       => img.anchor.date = date']_dayVars
=============================================================================
