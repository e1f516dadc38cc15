----------------------------- MODULE ConfigStore -----------------------------
(***************************************************************************)
(* The configuration store (metering/balansun_config_store.cpp and its     *)
(* callers in metering/storage_eeprom.cpp): an image in RAM, one key of    *)
(* flash for each of its three domains, a checksum per domain that lets a  *)
(* commit skip what did not change, and the single blob of older firmware  *)
(* that the first boot migrates.  Every write of a key is a step, and the  *)
(* power may fail between any two.                                         *)
(*                                                                         *)
(* A key is written whole or not at all, as the NVS library promises, and  *)
(* two contents with the same checksum are the same content.               *)
(*                                                                         *)
(* A definition named ...Fault is a seeded error in the definition after   *)
(* it, kept to show that the properties can fail; no specification uses it. *)
(***************************************************************************)
EXTENDS Integers

CONSTANTS
  Values,       \* contents the program writes into a domain
  Erased,       \* content of erased flash: no valid layout key
  Zero,         \* content of a cleared history
  None,         \* absent: a key, the old blob, a checksum
  PutMayFail    \* a write of a commit may fail

Hist == 1
Anchor == 2
Params == 3
Domains == {Hist, Anchor, Params}

Contents == Values \union {Erased, Zero}
Images   == [Domains -> Contents]

(* Checksums, and checksums with every bit inverted: a second inversion    *)
(* gives the first one back.                                               *)
Sums     == Contents \union {None}
Inverted == {<<c>> : c \in Sums}
Flip(c)  == IF c \in Inverted THEN c[1] ELSE <<c>>

ASSUME StoreAssumption ==
  /\ Values # {} /\ Erased \notin Values /\ Zero \notin Values /\ Erased # Zero
  /\ None \notin Contents /\ None \notin Images
  /\ Sums \intersect Inverted = {}
  /\ PutMayFail \in BOOLEAN

VARIABLES
  flash,    \* the keys of the namespace balansun_cfg
  legacy,   \* the blob of the namespace eeprom
  image,    \* the image in RAM
  crc,      \* g_lastCrc: the content it is the checksum of, or None
  crcValid, \* g_lastCrcValid
  pc,       \* what the program is doing
  todo,     \* domains the current migration or commit has still to handle
  ok,       \* result of the current commit
  then,     \* what the caller does when the commit returns
  origin,   \* history: parameters of the old blob, None once superseded
  maybe     \* history: parameters a restart may find, after what persist reported

nvs  == <<flash, legacy>>
ram  == <<image, crc, crcValid>>
vars == <<nvs, ram, pc, todo, ok, then, origin, maybe>>

Present == {i \in Domains : flash[i] # None}
Ready   == Present = Domains            \* balansun_config_store_domains_ready
Blank   == [i \in Domains |-> Erased]

First(s) == CHOOSE i \in s : \A j \in s : i <= j

Init ==
  /\ flash = [i \in Domains |-> None]
  /\ legacy \in {None} \union [Domains -> Values]
  /\ image = Blank /\ crc = [i \in Domains |-> None] /\ crcValid = FALSE
  /\ pc = "off" /\ todo = {} /\ ok = TRUE /\ then = "none"
  /\ origin = IF legacy = None THEN None ELSE legacy[Params]
  /\ maybe = {}

-----------------------------------------------------------------------------
(* Boot: eepromInit, then balansun_config_store_load.                      *)

(* Reclaim the old blob when the new keys are there, else let EEPROM.begin *)
(* read it, which creates an erased one if there is none.                  *)
LegacyAtBoot == IF Present # {} \/ legacy = None THEN Blank ELSE legacy

PowerUp ==
  /\ pc = "off" /\ pc' = "load"
  /\ legacy' = IF Ready THEN None ELSE LegacyAtBoot
  /\ image' = IF Ready THEN Blank ELSE LegacyAtBoot
  /\ crc' = [i \in Domains |-> None] /\ crcValid' = FALSE
  /\ UNCHANGED <<flash, todo, ok, then, origin, maybe>>

(* The keys that are there replace their part of the image; the others are *)
(* seeded from the old blob.                                               *)
MissingFault == IF Ready THEN {} ELSE Domains
Missing      == Domains \ Present

Load ==
  /\ pc = "load" /\ pc' = "seed"
  /\ todo' = Missing
  /\ image' = [i \in Domains |-> IF i \in Missing THEN image[i] ELSE flash[i]]
  /\ crc' = [i \in Domains |-> IF i \in Missing THEN None ELSE flash[i]]
  /\ UNCHANGED <<flash, legacy, crcValid, ok, then, origin, maybe>>

(* domain_seed_nvs takes no notice of the result; here the write succeeds. *)
Seed ==
  /\ pc = "seed" /\ todo # {}
  /\ LET i == First(todo) IN
       /\ todo' = todo \ {i}
       /\ flash' = [flash EXCEPT ![i] = image[i]]
       /\ crc' = [crc EXCEPT ![i] = image[i]]
       /\ maybe' = IF i = Params /\ flash[i] = None THEN {image[i]} ELSE maybe
  /\ UNCHANGED <<legacy, image, crcValid, pc, ok, then, origin>>

(* A commit of the domains in mask, for a caller that goes on with next.   *)
Commit(mask, next) ==
  /\ pc' = "commit" /\ todo' = mask /\ ok' = TRUE /\ then' = next

(* The old blob is erased.  Without a valid layout key the first setup     *)
(* clears the history (eepromClearConsumptionHistory).                     *)
Cleared(img) == [img EXCEPT ![Hist] = Zero, ![Anchor] = Zero]

Seeded ==
  /\ pc = "seed" /\ todo = {}
  /\ legacy' = None
  /\ crcValid' = TRUE
  /\ IF image[Params] = Erased
       THEN image' = Cleared(image) /\ Commit({Hist, Anchor}, "run")
       ELSE pc' = "run" /\ UNCHANGED <<image, todo, ok, then>>
  /\ UNCHANGED <<flash, crc, origin, maybe>>

-----------------------------------------------------------------------------
(* balansun_config_store_commit.                                           *)

Skips(i) == crcValid /\ crc[i] = image[i]

FailedCrcFault(i) == image[i]
FailedCrc(i)      == crc[i]

Put ==
  /\ pc = "commit" /\ todo # {}
  /\ LET i == First(todo) IN
       /\ todo' = todo \ {i}
       /\ \/ Skips(i) /\ UNCHANGED <<flash, crc, ok>>
          \/ /\ ~Skips(i)
             /\ flash' = [flash EXCEPT ![i] = image[i]]
             /\ crc' = [crc EXCEPT ![i] = image[i]]
             /\ UNCHANGED ok
          \/ /\ ~Skips(i) /\ PutMayFail
             /\ crc' = [crc EXCEPT ![i] = FailedCrc(i)]
             /\ ok' = FALSE
             /\ UNCHANGED flash
  /\ UNCHANGED <<legacy, image, crcValid, pc, then, origin, maybe>>

(* persistConfigToEeprom: the checksum of the parameters is inverted, to   *)
(* force their write, and every domain is committed.                       *)
Mark == IF crcValid THEN [crc EXCEPT ![Params] = Flip(@)] ELSE crc

Persist(v) ==
  /\ image' = [image EXCEPT ![Params] = v]
  /\ crc' = Mark
  /\ Commit(Domains, "persisted")
  /\ origin' = None /\ maybe' = maybe \union {v}

Done ==
  /\ pc = "commit" /\ todo = {}
  /\ pc' = IF then = "reset" THEN "defaults" ELSE "run"
  /\ crcValid' = TRUE /\ then' = "none"
  /\ maybe' = IF then = "persisted" /\ ok THEN {image[Params]} ELSE maybe
  /\ UNCHANGED <<nvs, image, crc, todo, ok, origin>>

-----------------------------------------------------------------------------
(* The running program and the power.                                      *)

Save == pc = "run" /\ (\E v \in Values : Persist(v)) /\ UNCHANGED <<nvs, crcValid>>

(* The reset ends with the defaults, saved like any configuration.         *)
Defaults == pc = "defaults" /\ (\E v \in Values : Persist(v)) /\ UNCHANGED <<nvs, crcValid>>

(* Midnight: history and day anchors.                                      *)
DayTick ==
  /\ pc = "run"
  /\ \E v \in Values : image' = [image EXCEPT ![Hist] = v, ![Anchor] = v]
  /\ Commit({Hist, Anchor}, "none")
  /\ UNCHANGED <<nvs, crc, crcValid, origin, maybe>>

(* handle_post_factory_reset: the keys and the old blob are removed one    *)
(* after the other, then the history is cleared and the defaults saved.    *)
FactoryReset ==
  /\ pc = "run" /\ pc' = "wipe" /\ todo' = Domains
  /\ crcValid' = FALSE /\ crc' = [i \in Domains |-> None]
  /\ origin' = None
  /\ UNCHANGED <<nvs, image, ok, then, maybe>>

Wipe ==
  /\ pc = "wipe"
  /\ IF todo # {}
       THEN /\ flash' = [flash EXCEPT ![First(todo)] = None]
            /\ maybe' = IF First(todo) = Params THEN {} ELSE maybe
            /\ todo' = todo \ {First(todo)}
            /\ UNCHANGED <<legacy, image, pc, ok, then>>
       ELSE /\ legacy' = None
            /\ image' = Cleared(image)
            /\ Commit({Hist, Anchor}, "reset")
            /\ UNCHANGED <<flash, maybe>>
  /\ UNCHANGED <<crc, crcValid, origin>>

Crash ==
  /\ pc # "off" /\ pc' = "off"
  /\ image' = Blank /\ todo' = {} /\ then' = "none"
  /\ UNCHANGED <<nvs, crc, crcValid, ok, origin, maybe>>

Work == PowerUp \/ Load \/ Seed \/ Seeded \/ Put \/ Done \/ Wipe \/ Defaults
Next == Work \/ Save \/ DayTick \/ FactoryReset \/ Crash
Spec == Init /\ [][Next]_vars

-----------------------------------------------------------------------------
TypeOK ==
  /\ flash \in [Domains -> Contents \union {None}]
  /\ legacy \in Images \union {None} /\ image \in Images
  /\ crc \in [Domains -> Sums \union Inverted] /\ crcValid \in BOOLEAN
  /\ pc \in {"off", "load", "seed", "run", "commit", "wipe", "defaults"}
  /\ todo \subseteq Domains /\ ok \in BOOLEAN
  /\ then \in {"none", "run", "persisted", "reset"}
  /\ origin \in Values \union {None} /\ maybe \subseteq Contents

(* What a commit skips is what flash already holds: the remembered         *)
(* checksums agree with the keys through failures, resets and restarts.    *)
SkipIsSound ==
  pc \in {"run", "commit"} => \A i \in Domains : Skips(i) => flash[i] = image[i]

(* A restart finds the parameters of the last save that was reported done, *)
(* or of a later attempt; never a mixture with an erased image.            *)
SavedSurvives == flash[Params] # None => flash[Params] \in maybe

(* A commit that reports success stored every domain it was asked to.      *)
CommitMeansStored ==
  [][pc = "commit" /\ todo = {} /\ ok /\ then = "persisted" /\ pc' = "run"
       => flash = image]_vars

-----------------------------------------------------------------------------
(* What the documents say and the code does not do.                        *)

(* "safe to drop legacy" (balansun_config_store.h): until the parameters   *)
(* are saved anew or reset, the upgraded ones are in flash. No run checks  *)
(* this one: power lost between two writes of the migration loses them.    *)
MigrationKeepsSettings ==
  origin # None => flash[Params] = origin \/ (legacy # None /\ legacy[Params] = origin)
=============================================================================
