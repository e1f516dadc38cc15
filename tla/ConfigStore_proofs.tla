-------------------------- MODULE ConfigStore_proofs --------------------------
(***************************************************************************)
(* The safety of the configuration store, for every set of contents,       *)
(* whether writes fail or not, and wherever the power fails.               *)
(***************************************************************************)
EXTENDS ConfigStore, TLAPS

USE StoreAssumption DEF StoreAssumption

-----------------------------------------------------------------------------
(* The operators the store is built from.                                  *)

LEMMA FirstIsIn == ASSUME NEW s \in SUBSET Domains, s # {} PROVE First(s) \in s
<1>1. \E i \in s : \A j \in s : i <= j
  <2>1. CASE 1 \in s
    BY <2>1 DEF Domains, Hist, Anchor, Params
  <2>2. CASE 1 \notin s /\ 2 \in s
    BY <2>2 DEF Domains, Hist, Anchor, Params
  <2>3. CASE 1 \notin s /\ 2 \notin s
    <3>1. PICK i \in s : TRUE
      OBVIOUS
    <3>2. \A j \in s : j = 3
      BY <2>3 DEF Domains, Hist, Anchor, Params
    <3> QED BY <3>1, <3>2
  <2> QED BY <2>1, <2>2, <2>3
<1> QED BY <1>1 DEF First

(* Inverting twice gives the checksum back.                                *)
LEMMA FlipTwice == ASSUME NEW c \in Sums
                   PROVE  /\ Flip(c) = <<c>> /\ Flip(<<c>>) = c
                          /\ <<c>> \in Inverted /\ <<c>> \notin Sums
<1>1. <<c>> \in Inverted /\ c \notin Inverted /\ <<c>>[1] = c
  BY DEF Inverted
<1> QED BY <1>1 DEF Flip

LEMMA FlipType == ASSUME NEW c \in Sums \union Inverted PROVE Flip(c) \in Sums \union Inverted
<1>1. CASE c \in Sums
  BY <1>1, FlipTwice
<1>2. CASE c \in Inverted
  <2>1. PICK b \in Sums : c = <<b>>
    BY <1>2 DEF Inverted
  <2> QED BY <2>1, FlipTwice
<1> QED BY <1>1, <1>2

-----------------------------------------------------------------------------
(* Type correctness: the store, the flags and the control.                 *)

StoreType ==
  /\ flash \in [Domains -> Contents \union {None}]
  /\ legacy \in Images \union {None} /\ image \in Images
  /\ crc \in [Domains -> Sums \union Inverted]

FlagType == crcValid \in BOOLEAN /\ ok \in BOOLEAN

ControlType ==
  /\ pc \in {"off", "load", "seed", "run", "commit", "wipe", "defaults"}
  /\ todo \subseteq Domains
  /\ then \in {"none", "run", "persisted", "reset"}
  /\ origin \in Values \union {None} /\ maybe \subseteq Contents

LEMMA Parts == TypeOK <=> StoreType /\ FlagType /\ ControlType
BY DEF TypeOK, StoreType, FlagType, ControlType

LEMMA FlagStep == FlagType /\ [Next]_vars => FlagType'
BY Zenon DEF FlagType, Next, Work, PowerUp, Load, Seed, Seeded, Commit, Put, Done, Save, Defaults, Persist,
   DayTick, FactoryReset, Wipe, Crash, vars, nvs, ram

LEMMA InitType == Init => TypeOK
<1> SUFFICES ASSUME Init PROVE TypeOK
  OBVIOUS
<1>1. FlagType
  BY DEF Init, FlagType
<1>2. StoreType
  BY DEF Init, StoreType, Blank, Images, Contents, Sums
<1>3. ControlType
  BY DEF Init, ControlType, Domains, Params
<1> QED BY <1>1, <1>2, <1>3, Parts

(* Images stay images, and keys hold contents or nothing.                  *)
LEMMA StoreStep == TypeOK /\ [Next]_vars => StoreType'
<1> SUFFICES ASSUME TypeOK, [Next]_vars PROVE StoreType'
  OBVIOUS
<1> USE DEF nvs, ram
<1>0. /\ StoreType /\ ControlType
      /\ Hist \in Domains /\ Anchor \in Domains /\ Params \in Domains
      /\ Blank \in Images /\ Images = [Domains -> Contents] /\ Contents \subseteq Sums
      /\ Values \subseteq Contents /\ Zero \in Contents /\ Erased \in Contents /\ None \in Sums
      /\ [i \in Domains |-> None] \in [Domains -> Sums \union Inverted]
  BY Parts DEF Blank, Images, Contents, Sums, Domains
<1> USE DEF StoreType
<1>1. CASE PowerUp
  <2>1. LegacyAtBoot \in Images
    BY <1>0 DEF LegacyAtBoot
  <2> QED BY <1>0, <1>1, <2>1 DEF PowerUp
<1>2. CASE Load
  <2>1. \A i \in Domains \ Missing : flash[i] \in Contents
    BY <1>0 DEF Missing, Present
  <2>2. image' \in Images
    BY <1>0, <1>2, <2>1 DEF Load
  <2>3. crc' \in [Domains -> Sums \union Inverted]
    BY <1>0, <1>2, <2>1 DEF Load
  <2> QED BY <1>0, <1>2, <2>2, <2>3 DEF Load
<1>3. CASE Seed
  <2>1. First(todo) \in Domains /\ image[First(todo)] \in Contents
    BY <1>0, <1>3, FirstIsIn DEF Seed, ControlType
  <2> QED BY <1>0, <1>3, <2>1 DEF Seed
<1>4. CASE Seeded
  <2>1. Cleared(image) \in Images
    BY <1>0 DEF Cleared
  <2> QED BY <1>0, <1>4, <2>1 DEF Seeded
<1>5. CASE Put
  <2>1. First(todo) \in Domains /\ image[First(todo)] \in Contents
    BY <1>0, <1>5, FirstIsIn DEF Put, ControlType
  <2> QED BY <1>0, <1>5, <2>1 DEF Put, FailedCrc
<1>6. CASE Done
  BY <1>0, <1>6 DEF Done
<1>7. CASE Wipe
  <2>1. CASE todo # {}
    <3>1. First(todo) \in Domains
      BY <1>0, <2>1, FirstIsIn DEF ControlType
    <3> QED BY <1>0, <1>7, <2>1, <3>1 DEF Wipe
  <2>2. CASE todo = {}
    <3>1. Cleared(image) \in Images
      BY <1>0 DEF Cleared
    <3> QED BY <1>0, <1>7, <2>2, <3>1 DEF Wipe
  <2> QED BY <2>1, <2>2
<1>8. CASE Defaults \/ Save
  <2>1. PICK v \in Values : Persist(v)
    BY <1>8 DEF Defaults, Save
  <2>2. image' \in Images
    BY <1>0, <2>1 DEF Persist
  <2>3. Mark \in [Domains -> Sums \union Inverted]
    <3>1. Flip(crc[Params]) \in Sums \union Inverted
      BY <1>0, FlipType
    <3> QED BY <1>0, <3>1 DEF Mark
  <2> QED BY <1>0, <1>8, <2>1, <2>2, <2>3 DEF Persist, Defaults, Save
<1>9. CASE DayTick
  BY <1>0, <1>9 DEF DayTick
<1>10. CASE FactoryReset \/ Crash
  BY <1>0, <1>10 DEF FactoryReset, Crash
<1>11. CASE UNCHANGED vars
  BY <1>0, <1>11 DEF vars
<1> QED BY <1>1, <1>2, <1>3, <1>4, <1>5, <1>6, <1>7, <1>8, <1>9, <1>10, <1>11 DEF Next, Work

LEMMA ControlStep == TypeOK /\ [Next]_vars => ControlType'
<1> SUFFICES ASSUME TypeOK, [Next]_vars PROVE ControlType'
  OBVIOUS
<1> USE DEF nvs, ram
<1>0. StoreType /\ ControlType /\ Hist \in Domains /\ Anchor \in Domains /\ Params \in Domains
  BY Parts DEF Domains
<1> USE DEF ControlType
<1>1. CASE PowerUp \/ Load
  BY <1>0, <1>1 DEF PowerUp, Load, Missing
<1>2. CASE Seed
  <2>1. First(todo) \in Domains /\ image[First(todo)] \in Contents
    BY <1>0, <1>2, FirstIsIn DEF Seed, StoreType, Images
  <2> QED BY <1>0, <1>2, <2>1 DEF Seed
<1>3. CASE Seeded
  BY <1>0, <1>3 DEF Seeded, Commit
<1>4. CASE Put
  BY <1>0, <1>4 DEF Put
<1>5. CASE Done
  BY <1>0, <1>5 DEF Done, StoreType, Images
<1>6. CASE Wipe
  BY <1>0, <1>6 DEF Wipe, Commit
<1>7. CASE Defaults \/ Save
  BY <1>0, <1>7 DEF Defaults, Save, Persist, Commit, Contents
<1>8. CASE DayTick \/ FactoryReset \/ Crash
  BY <1>0, <1>8 DEF DayTick, FactoryReset, Crash, Commit
<1>9. CASE UNCHANGED vars
  BY <1>0, <1>9 DEF vars
<1> QED BY <1>1, <1>2, <1>3, <1>4, <1>5, <1>6, <1>7, <1>8, <1>9 DEF Next, Work

LEMMA TypeStep == TypeOK /\ [Next]_vars => TypeOK'
<1>1. StoreType' /\ FlagType' /\ ControlType' => TypeOK'
  BY DEF TypeOK, StoreType, FlagType, ControlType
<1> QED BY <1>1, Parts, StoreStep, FlagStep, ControlStep

(* Images stay images, keys hold whole contents, checksums are checksums   *)
(* or inverted ones, and every commit returns to a caller it knows.        *)
THEOREM TypeCorrect == Spec => []TypeOK
<1> QED BY InitType, TypeStep, PTL DEF Spec

-----------------------------------------------------------------------------
(* The inductive invariant.  SkipIsSound speaks of checksums that equal    *)
(* the image; what makes it inductive is where any checksum comes from.    *)

(* What flash holds, or nothing, as recorded or inverted.                  *)
Known(i) == {None, <<None>>, flash[i], <<flash[i]>>}

SumsAgree     == pc # "off" => \A i \in Domains : crc[i] \in Known(i)
WipeForgets   == pc = "wipe" => \A i \in Domains : crc[i] = None
SeedsAbsent   == pc = "seed" => \A i \in todo : flash[i] = None
SavesAreKnown == pc = "commit" /\ Params \in todo => image[Params] \in maybe
StoredSoFar   == pc = "commit" /\ then = "persisted" /\ ok
                   => \A i \in Domains \ todo : flash[i] = image[i]

IInv == TypeOK /\ SumsAgree /\ WipeForgets /\ SeedsAbsent /\ SavesAreKnown /\ StoredSoFar
               /\ SavedSurvives

(* A skip is justified in every phase the program runs in.                 *)
LEMMA SkipsAreSound == ASSUME TypeOK, SumsAgree, pc # "off", NEW i \in Domains, Skips(i)
                       PROVE  flash[i] = image[i]
<1>1. image[i] \in Sums /\ image[i] # None /\ flash[i] \in Sums
  BY Parts DEF StoreType, Images, Sums
<1>2. <<None>> \notin Sums /\ <<flash[i]>> \notin Sums
  BY <1>1, FlipTwice DEF Sums
<1>3. crc[i] = image[i] /\ crc[i] \in Known(i)
  BY DEF Skips, SumsAgree
<1> QED BY <1>1, <1>2, <1>3 DEF Known

(* Every step records a checksum of what it leaves in flash, inverts one,  *)
(* or forgets it.                                                          *)
LEMMA SumsStep == IInv /\ [Next]_vars => SumsAgree' /\ WipeForgets'
<1> SUFFICES ASSUME IInv, [Next]_vars PROVE SumsAgree' /\ WipeForgets'
  OBVIOUS
<1> USE DEF nvs, ram, SumsAgree, WipeForgets, Known
<1>0. /\ SumsAgree /\ WipeForgets
      /\ flash \in [Domains -> Contents \union {None}] /\ image \in [Domains -> Contents]
      /\ crc \in [Domains -> Sums \union Inverted] /\ todo \subseteq Domains /\ Params \in Domains
  BY Parts DEF IInv, StoreType, ControlType, Images, Domains
<1>1. CASE PowerUp
  BY <1>1 DEF PowerUp
<1>2. CASE Load
  BY <1>0, <1>2 DEF Load
<1>3. CASE Seed
  <2>1. First(todo) \in Domains
    BY <1>0, <1>3, FirstIsIn DEF Seed
  <2> QED BY <1>0, <1>3, <2>1 DEF Seed
<1>4. CASE Seeded
  BY <1>0, <1>4 DEF Seeded, Commit
<1>5. CASE Put
  <2>1. First(todo) \in Domains
    BY <1>0, <1>5, FirstIsIn DEF Put
  <2> QED BY <1>0, <1>5, <2>1 DEF Put, FailedCrc
<1>6. CASE Done
  BY <1>0, <1>6 DEF Done
<1>7. CASE Wipe
  <2>1. pc = "wipe" /\ UNCHANGED crc
    BY <1>7 DEF Wipe
  <2> QED BY <1>0, <2>1
<1>8. CASE Defaults \/ Save
  <2>1. crc' = Mark /\ flash' = flash /\ pc' = "commit" /\ pc # "off"
    BY <1>8 DEF Defaults, Save, Persist, Commit
  <2>2. Flip(crc[Params]) \in Known(Params)
    <3>1. None \in Sums /\ flash[Params] \in Sums
      BY <1>0 DEF Sums
    <3>2. /\ Flip(None) = <<None>> /\ Flip(<<None>>) = None
          /\ Flip(flash[Params]) = <<flash[Params]>> /\ Flip(<<flash[Params]>>) = flash[Params]
      BY <3>1, FlipTwice
    <3> QED BY <1>0, <2>1, <3>2
  <2>3. \A i \in Domains : crc'[i] = crc[i] \/ (i = Params /\ crc'[i] = Flip(crc[Params]))
    BY <1>0, <2>1 DEF Mark
  <2> QED BY <1>0, <2>1, <2>2, <2>3
<1>9. CASE DayTick
  BY <1>0, <1>9 DEF DayTick, Commit
<1>10. CASE FactoryReset
  BY <1>10 DEF FactoryReset
<1>11. CASE Crash
  BY <1>11 DEF Crash
<1>12. CASE UNCHANGED vars
  BY <1>0, <1>12 DEF vars
<1> QED BY <1>1, <1>2, <1>3, <1>4, <1>5, <1>6, <1>7, <1>8, <1>9, <1>10, <1>11, <1>12 DEF Next, Work

(* What a commit or a migration has still to do, and has done so far.      *)
LEMMA ProgressStep == IInv /\ [Next]_vars => SeedsAbsent' /\ SavesAreKnown' /\ StoredSoFar'
<1> SUFFICES ASSUME IInv, [Next]_vars PROVE SeedsAbsent' /\ SavesAreKnown' /\ StoredSoFar'
  OBVIOUS
<1> USE DEF nvs, ram, SeedsAbsent, SavesAreKnown, StoredSoFar
<1>0. /\ TypeOK /\ SumsAgree /\ SeedsAbsent /\ SavesAreKnown /\ StoredSoFar
      /\ flash \in [Domains -> Contents \union {None}] /\ image \in [Domains -> Contents]
      /\ todo \subseteq Domains /\ Params \in Domains /\ Params \notin {Hist, Anchor}
  BY Parts DEF IInv, StoreType, ControlType, Images, Domains, Params, Hist, Anchor
<1>1. CASE PowerUp \/ FactoryReset \/ Crash
  BY <1>1 DEF PowerUp, FactoryReset, Crash
<1>2. CASE Load
  <2>1. pc' = "seed" /\ todo' = Missing /\ flash' = flash
    BY <1>2 DEF Load
  <2>2. \A i \in Missing : flash[i] = None
    BY DEF Missing, Present
  <2> QED BY <2>1, <2>2
<1>3. CASE Seed
  <2>1. pc' = "seed" /\ todo' = todo \ {First(todo)} /\ First(todo) \in Domains
    BY <1>0, <1>3, FirstIsIn DEF Seed
  <2>2. \A i \in todo' : flash'[i] = flash[i]
    BY <1>0, <1>3, <2>1 DEF Seed
  <2> QED BY <1>0, <1>3, <2>1, <2>2 DEF Seed
<1>4. CASE Seeded
  BY <1>0, <1>4 DEF Seeded, Commit
<1>5. CASE Put
  <2> DEFINE i == First(todo)
  <2>1. /\ i \in Domains /\ i \in todo /\ todo' = todo \ {i} /\ pc = "commit" /\ pc' = "commit"
        /\ UNCHANGED <<image, then, maybe>>
    BY <1>0, <1>5, FirstIsIn DEF Put
  <2>2. SeedsAbsent' /\ SavesAreKnown'
    BY <1>0, <2>1
  <2>3. ok' => ok /\ flash'[i] = image[i] /\ \A j \in Domains \ {i} : flash'[j] = flash[j]
    <3>1. CASE Skips(i) /\ UNCHANGED <<flash, crc, ok>>
      BY <1>0, <2>1, <3>1, SkipsAreSound
    <3>2. CASE flash' = [flash EXCEPT ![i] = image[i]] /\ UNCHANGED ok
      BY <1>0, <2>1, <3>2
    <3>3. CASE ok' = FALSE
      BY <3>3
    <3> QED BY <1>5, <3>1, <3>2, <3>3 DEF Put
  <2> HIDE DEF i
  <2>4. StoredSoFar'
    BY <1>0, <2>1, <2>3
  <2> QED BY <2>2, <2>4
<1>6. CASE Done
  BY <1>6 DEF Done
<1>7. CASE Wipe
  BY <1>0, <1>7 DEF Wipe, Commit
<1>8. CASE Defaults \/ Save
  BY <1>0, <1>8 DEF Defaults, Save, Persist, Commit
<1>9. CASE DayTick
  BY <1>0, <1>9 DEF DayTick, Commit
<1>10. CASE UNCHANGED vars
  BY <1>0, <1>10 DEF vars
<1> QED BY <1>1, <1>2, <1>3, <1>4, <1>5, <1>6, <1>7, <1>8, <1>9, <1>10 DEF Next, Work

(* A restart finds nothing but what a save left for it to find.            *)
LEMMA SavedStep == IInv /\ [Next]_vars => SavedSurvives'
<1> SUFFICES ASSUME IInv, [Next]_vars PROVE SavedSurvives'
  OBVIOUS
<1> USE DEF nvs, ram, SavedSurvives
<1>0. /\ SavedSurvives /\ SeedsAbsent /\ SavesAreKnown /\ StoredSoFar
      /\ flash \in [Domains -> Contents \union {None}] /\ todo \subseteq Domains /\ Params \in Domains
  BY Parts DEF IInv, StoreType, ControlType, Domains
<1>1. CASE PowerUp \/ Load \/ Seeded \/ DayTick \/ FactoryReset \/ Crash \/ UNCHANGED vars
  BY <1>0, <1>1 DEF PowerUp, Load, Seeded, DayTick, FactoryReset, Crash, vars
<1>2. CASE Seed
  <2> DEFINE i == First(todo)
  <2>1. /\ i \in Domains /\ flash[i] = None /\ flash' = [flash EXCEPT ![i] = image[i]]
        /\ maybe' = IF i = Params /\ flash[i] = None THEN {image[i]} ELSE maybe
    BY <1>0, <1>2, FirstIsIn DEF Seed, SeedsAbsent
  <2> HIDE DEF i
  <2> QED BY <1>0, <2>1
<1>3. CASE Put
  <2> DEFINE i == First(todo)
  <2>1. /\ pc = "commit" /\ i \in Domains /\ i \in todo /\ maybe' = maybe
        /\ flash' = flash \/ flash' = [flash EXCEPT ![i] = image[i]]
    BY <1>0, <1>3, FirstIsIn DEF Put
  <2> HIDE DEF i
  <2>2. i = Params => image[Params] \in maybe
    BY <1>0, <2>1 DEF SavesAreKnown
  <2> QED BY <1>0, <2>1, <2>2
<1>4. CASE Done
  <2>1. then = "persisted" /\ ok => flash[Params] = image[Params]
    BY <1>0, <1>4 DEF Done, StoredSoFar
  <2> QED BY <1>0, <1>4, <2>1 DEF Done
<1>5. CASE Wipe
  <2>1. CASE todo # {}
    <3> DEFINE i == First(todo)
    <3>1. /\ i \in Domains /\ flash' = [flash EXCEPT ![i] = None]
          /\ maybe' = IF i = Params THEN {} ELSE maybe
      BY <1>0, <1>5, <2>1, FirstIsIn DEF Wipe
    <3> HIDE DEF i
    <3> QED BY <1>0, <3>1
  <2>2. CASE todo = {}
    BY <1>0, <1>5, <2>2 DEF Wipe
  <2> QED BY <2>1, <2>2
<1>6. CASE Defaults \/ Save
  BY <1>0, <1>6 DEF Defaults, Save, Persist
<1> QED BY <1>1, <1>2, <1>3, <1>4, <1>5, <1>6 DEF Next, Work

(* The invariant the next three theorems follow from.                      *)
THEOREM Inductive == Spec => []IInv
<1>1. Init => IInv
  BY InitType DEF Init, IInv, SumsAgree, WipeForgets, SeedsAbsent, SavesAreKnown, StoredSoFar,
                  SavedSurvives, Domains, Params
<1>2. IInv /\ [Next]_vars => IInv'
  BY TypeStep, SumsStep, ProgressStep, SavedStep DEF IInv
<1> QED BY <1>1, <1>2, PTL DEF Spec

(* What a commit skips is what flash already holds.                        *)
THEOREM SkipSound == Spec => []SkipIsSound
<1>1. IInv => SkipIsSound
  BY SkipsAreSound DEF IInv, SkipIsSound
<1> QED BY <1>1, Inductive, PTL

(* A restart finds the parameters of the last save reported done, or of a  *)
(* later attempt, wherever the power failed.                               *)
THEOREM SavedFound == Spec => []SavedSurvives
<1>1. IInv => SavedSurvives
  BY DEF IInv
<1> QED BY <1>1, Inductive, PTL

(* At the end of a commit that failed nowhere, every domain was handled.   *)
LEMMA CommitStores ==
  IInv /\ [Next]_vars =>
    (pc = "commit" /\ todo = {} /\ ok /\ then = "persisted" /\ pc' = "run" => flash = image)
<1> SUFFICES ASSUME IInv, pc = "commit", todo = {}, ok, then = "persisted" PROVE flash = image
  OBVIOUS
<1>1. \A i \in Domains : flash[i] = image[i]
  BY DEF IInv, StoredSoFar
<1> QED BY <1>1, Parts DEF IInv, StoreType, Images

(* A commit that reports success stored every domain.                      *)
THEOREM CommitStored == Spec => CommitMeansStored
<1>1. IInv /\ [Next]_vars =>
        [pc = "commit" /\ todo = {} /\ ok /\ then = "persisted" /\ pc' = "run"
           => flash = image]_vars
  BY CommitStores
<1> QED BY <1>1, Inductive, PTL DEF Spec, CommitMeansStored
=============================================================================
