--------------------------- MODULE Storage_proofs ---------------------------
(***************************************************************************)
(* The safety of what the router keeps across restarts: the energy of the  *)
(* day and its history, for every size of the ring, number of days, use    *)
(* and threshold of a new meter; and the coalescer of the configuration    *)
(* writes, for every period of millis(), debounce, ceiling and stall the   *)
(* assumption allows.                                                      *)
(***************************************************************************)
EXTENDS Persistence, DayEnergy, FiniteSetTheorems, WellFoundedInduction, TLAPS

(* The sum of the slots T of a ring.                                       *)
Total(X, T) == FoldSet(LAMBDA s, n : n + X[s], 0, T)

(* The element the sum of a set takes away first.                          *)
Pick(u) == CHOOSE x \in u : TRUE

(* g adds up X over every subset of T, one chosen element after another.   *)
Adds(g, X, T) ==
  g = [u \in SUBSET T |-> IF u = {} THEN 0 ELSE g[u \ {Pick(u)}] + X[Pick(u)]]

LEMMA TotalIs == ASSUME NEW X, NEW T
                 PROVE  Total(X, T) = (CHOOSE g : Adds(g, X, T))[T]
BY DEF Total, FoldSet, MapThenFoldSet, Adds, Pick

LEMMA PickIn == ASSUME NEW u, u # {} PROVE Pick(u) \in u
BY DEF Pick

(* A set of subsets that is not empty has a member with none below it.     *)
LEMMA Smallest == ASSUME NEW T, IsFiniteSet(T), NEW B, B \subseteq SUBSET T, B # {}
                  PROVE  \E u \in B : \A x \in u : u \ {x} \notin B
<1>1. IsWellFoundedOn(StrictSubsetOrdering(T), SUBSET T)
  BY FS_StrictSubsetOrderingWellFounded, FS_FiniteSubsetsOfFinite
<1>2. PICK u \in B : \A v \in B : ~ (<<v, u>> \in StrictSubsetOrdering(T))
  BY <1>1, WFMin
<1>3. ASSUME NEW x \in u, u \ {x} \in B PROVE FALSE
  BY <1>2, <1>3 DEF StrictSubsetOrdering
<1> QED BY <1>2, <1>3

LEMMA AddsAt == ASSUME NEW X, NEW T, NEW g, Adds(g, X, T)
                PROVE  \A u \in SUBSET T :
                         g[u] = IF u = {} THEN 0 ELSE g[u \ {Pick(u)}] + X[Pick(u)]
BY Zenon DEF Adds

(* Two such functions agree where both are defined.                        *)
LEMMA AddsAgree == ASSUME NEW X, NEW S, NEW T, IsFiniteSet(S), NEW g, NEW h,
                          Adds(g, X, S), Adds(h, X, T)
                   PROVE  \A u \in SUBSET S : u \subseteq T => g[u] = h[u]
<1> SUFFICES ASSUME NEW u \in SUBSET S, u \subseteq T PROVE g[u] = h[u]
  OBVIOUS
<1> DEFINE B == {v \in SUBSET u : g[v] # h[v]}
<1> SUFFICES ASSUME B # {} PROVE FALSE
  OBVIOUS
<1>1. PICK v \in B : \A x \in v : v \ {x} \notin B
  <2>1. IsFiniteSet(u)
    BY FS_Subset
  <2> QED BY <2>1, Smallest
<1>2. v \in SUBSET S /\ v \in SUBSET T /\ v \in SUBSET u
  OBVIOUS
<1>3. g[v] = IF v = {} THEN 0 ELSE g[v \ {Pick(v)}] + X[Pick(v)]
  <2>1. \A w \in SUBSET S : g[w] = IF w = {} THEN 0 ELSE g[w \ {Pick(w)}] + X[Pick(w)]
    BY AddsAt
  <2> QED BY <1>2, <2>1
<1>4. h[v] = IF v = {} THEN 0 ELSE h[v \ {Pick(v)}] + X[Pick(v)]
  <2>1. \A w \in SUBSET T : h[w] = IF w = {} THEN 0 ELSE h[w \ {Pick(w)}] + X[Pick(w)]
    BY AddsAt
  <2> QED BY <1>2, <2>1
<1>5. v # {}
  BY <1>1, <1>3, <1>4
<1>6. g[v \ {Pick(v)}] = h[v \ {Pick(v)}]
  BY <1>1, <1>5, PickIn
<1> QED BY <1>1, <1>3, <1>4, <1>6

(* An element of s outside u.                                              *)
Other(s, u) == CHOOSE x \in s : x \notin u

LEMMA OtherOut == ASSUME NEW s, NEW u \in SUBSET s, u # s
                  PROVE  Other(s, u) \in s /\ Other(s, u) \notin u
<1>1. \E x \in s : x \notin u
  OBVIOUS
<1> QED BY Zenon, <1>1 DEF Other

(* The function that adds up X over the subsets of T.                      *)
Adder(X, T) == CHOOSE g : Adds(g, X, T)

(* There is one, over every finite set: it takes its values from those of  *)
(* the sets with one element less.                                         *)
LEMMA AddsExists == ASSUME NEW X, NEW T, IsFiniteSet(T)
                    PROVE  Adds(Adder(X, T), X, T)
<1> DEFINE B == {u \in SUBSET T : ~ \E g : Adds(g, X, u)}
<1> SUFFICES ASSUME B # {} PROVE FALSE
  BY Zenon DEF Adder
<1>1. PICK s \in B : \A x \in s : s \ {x} \notin B
  BY Smallest
<1> DEFINE H(x) == Adder(X, s \ {x})
           Below(u) == H(Other(s, u))[u]
           Sum(u) == IF u = {} THEN 0
                     ELSE IF u = s THEN Below(s \ {Pick(s)}) + X[Pick(s)] ELSE Below(u)
           G == [u \in SUBSET s |-> Sum(u)]
<1>2. ASSUME NEW x \in s PROVE Adds(H(x), X, s \ {x}) /\ IsFiniteSet(s \ {x})
  <2>1. \E g : Adds(g, X, s \ {x})
    BY <1>1
  <2>2. IsFiniteSet(s \ {x})
    BY FS_Subset
  <2> QED BY Zenon, <2>1, <2>2 DEF Adder
<1> HIDE DEF H
<1>4. ASSUME NEW u \in SUBSET s, NEW x \in s, x \notin u PROVE Below(u) = H(x)[u]
  <2> DEFINE o == Other(s, u)
  <2>1. o \in s /\ o \notin u
    BY <1>4, OtherOut
  <2> HIDE DEF o
  <2>2. u \in SUBSET (s \ {o}) /\ u \subseteq s \ {x}
    BY <1>4, <2>1
  <2>3. Adds(H(x), X, s \ {x}) /\ Adds(H(o), X, s \ {o}) /\ IsFiniteSet(s \ {o})
    BY <1>2, <2>1
  <2>5. H(o)[u] = H(x)[u]
    BY <2>2, <2>3, AddsAgree
  <2> QED BY <2>5 DEF o
<1> HIDE DEF Below
<1>5. ASSUME NEW u \in SUBSET s, u # {}
      PROVE  Sum(u) = Sum(u \ {Pick(u)}) + X[Pick(u)]
  <2> DEFINE v == u \ {Pick(u)}
  <2>1. Pick(u) \in u
    BY <1>5, PickIn
  <2>2. v \in SUBSET s /\ v # s /\ Pick(u) \notin v /\ Pick(u) \in s
    BY <2>1
  <2>3. Sum(v) = Below(v)
    <3>1. CASE v = {}
      <4>1. H(Pick(u))[v] = 0
        <5>1. Adds(H(Pick(u)), X, s \ {Pick(u)}) /\ v \in SUBSET (s \ {Pick(u)})
          BY <1>2, <2>2
        <5> HIDE DEF v
        <5> QED BY <3>1, <5>1, AddsAt
      <4>2. Below(v) = H(Pick(u))[v]
        BY <1>4, <2>2
      <4> HIDE DEF v
      <4> QED BY <3>1, <4>1, <4>2
    <3> HIDE DEF v
    <3> QED BY <2>2, <3>1
  <2>4. CASE u = s
    BY <1>5, <2>3, <2>4
  <2>5. CASE u # s
    <3> DEFINE o == Other(s, u)
    <3>1. o \in s /\ o \notin u
      BY <2>5, OtherOut
    <3> HIDE DEF o
    <3>2. Sum(u) = Below(u) /\ Below(u) = H(o)[u]
      BY <1>4, <1>5, <2>5, <3>1
    <3>3. H(o)[u] = H(o)[v] + X[Pick(u)]
      <4>1. u \in SUBSET (s \ {o}) /\ Adds(H(o), X, s \ {o})
        BY <1>2, <3>1
      <4> QED BY <1>5, <4>1, AddsAt
    <3>4. Below(v) = H(o)[v]
      BY <1>4, <2>2, <3>1
    <3> HIDE DEF Sum, v
    <3> QED BY <2>3, <3>2, <3>3, <3>4 DEF v
  <2> QED BY <2>4, <2>5
<1>6. Sum({}) = 0
  OBVIOUS
<1> HIDE DEF Sum
<1>7. G = [u \in SUBSET s |-> IF u = {} THEN 0 ELSE G[u \ {Pick(u)}] + X[Pick(u)]]
  <2>1. ASSUME NEW u \in SUBSET s
        PROVE  G[u] = IF u = {} THEN 0 ELSE G[u \ {Pick(u)}] + X[Pick(u)]
    <3>1. CASE u = {}
      BY <1>6, <3>1
    <3>2. CASE u # {}
      BY <1>5, <3>2
    <3> QED BY <3>1, <3>2
  <2> QED BY <2>1
<1>8. Adds(G, X, s)
  <2> HIDE DEF G
  <2> QED BY <1>7 DEF Adds
<1> QED BY <1>1, <1>8

(* The sum takes away one chosen slot after another.                       *)
LEMMA TotalStep == ASSUME NEW X, NEW T, IsFiniteSet(T)
                   PROVE  Total(X, T) = IF T = {} THEN 0 ELSE Total(X, T \ {Pick(T)}) + X[Pick(T)]
<1> DEFINE g == Adder(X, T)
           v == T \ {Pick(T)}
           h == Adder(X, v)
<1>1. IsFiniteSet(v) /\ v \in SUBSET v /\ v \subseteq T /\ T \in SUBSET T
  BY FS_Subset
<1>2. Adds(g, X, T) /\ Total(X, T) = g[T]
  BY AddsExists, TotalIs DEF Adder
<1>3. Adds(h, X, v) /\ Total(X, v) = h[v]
  BY <1>1, AddsExists, TotalIs DEF Adder
<1> HIDE DEF g, h, v
<1>4. h[v] = g[v]
  <2>1. \A u \in SUBSET v : u \subseteq T => h[u] = g[u]
    BY <1>1, <1>2, <1>3, AddsAgree
  <2> QED BY <1>1, <2>1
<1>5. g[T] = IF T = {} THEN 0 ELSE g[T \ {Pick(T)}] + X[Pick(T)]
  BY <1>1, <1>2, AddsAt
<1> QED BY <1>2, <1>3, <1>4, <1>5 DEF v

(* Rings that agree on T have the same sum there.                          *)
LEMMA TotalSame == ASSUME NEW X, NEW Y, NEW T, IsFiniteSet(T), \A x \in T : X[x] = Y[x]
                   PROVE  Total(X, T) = Total(Y, T)
<1> DEFINE B == {u \in SUBSET T : Total(X, u) # Total(Y, u)}
<1> SUFFICES ASSUME B # {} PROVE FALSE
  OBVIOUS
<1>1. PICK u \in B : \A x \in u : u \ {x} \notin B
  BY Smallest
<1>2. IsFiniteSet(u)
  BY FS_Subset
<1>3. Total(X, u) = IF u = {} THEN 0 ELSE Total(X, u \ {Pick(u)}) + X[Pick(u)]
  BY <1>2, TotalStep
<1>4. Total(Y, u) = IF u = {} THEN 0 ELSE Total(Y, u \ {Pick(u)}) + Y[Pick(u)]
  BY <1>2, TotalStep
<1>5. u # {} => Pick(u) \in u
  BY PickIn
<1> QED BY <1>1, <1>3, <1>4, <1>5

LEMMA TotalNat == ASSUME NEW T, IsFiniteSet(T), NEW X, \A x \in T : X[x] \in Nat
                  PROVE  Total(X, T) \in Nat
<1> DEFINE B == {u \in SUBSET T : Total(X, u) \notin Nat}
<1> SUFFICES ASSUME B # {} PROVE FALSE
  OBVIOUS
<1>1. PICK u \in B : \A x \in u : u \ {x} \notin B
  BY Smallest
<1>2. IsFiniteSet(u)
  BY FS_Subset
<1>3. Total(X, u) = IF u = {} THEN 0 ELSE Total(X, u \ {Pick(u)}) + X[Pick(u)]
  BY <1>2, TotalStep
<1>4. u # {} => Pick(u) \in u
  BY PickIn
<1> QED BY <1>1, <1>3, <1>4

(* Any slot can be taken away first.                                       *)
LEMMA TotalSplit == ASSUME NEW T, IsFiniteSet(T), NEW X, \A x \in T : X[x] \in Nat, NEW x \in T
                    PROVE  Total(X, T) = Total(X, T \ {x}) + X[x]
<1> DEFINE Off(u, y) == Total(X, u) # Total(X, u \ {y}) + X[y]
           B == {u \in SUBSET T : \E y \in u : Off(u, y)}
<1> SUFFICES ASSUME B # {} PROVE FALSE
  OBVIOUS
<1>1. PICK u \in B : \A y \in u : u \ {y} \notin B
  <2>1. B \subseteq SUBSET T
    OBVIOUS
  <2> HIDE DEF B
  <2> QED BY <2>1, Smallest
<1>2. PICK y \in u : Off(u, y)
  BY <1>1
<1>3. PICK p \in u : Total(X, u) = Total(X, u \ {p}) + X[p]
  <2>1. IsFiniteSet(u) /\ u # {}
    BY <1>1, <1>2, FS_Subset
  <2> QED BY <2>1, PickIn, TotalStep
<1>4. y # p
  BY <1>2, <1>3
<1>5. ~Off(u \ {p}, y) /\ ~Off(u \ {y}, p)
  BY <1>1, <1>2, <1>3, <1>4
<1> DEFINE w == (u \ {p}) \ {y}
<1>6. w = (u \ {y}) \ {p}
  OBVIOUS
<1>7. Total(X, w) \in Nat /\ X[y] \in Nat /\ X[p] \in Nat
  <2>1. IsFiniteSet(w) /\ w \subseteq T
    BY FS_Subset
  <2> QED BY <2>1, TotalNat
<1>8. Total(X, u \ {p}) = Total(X, w) + X[y] /\ Total(X, u \ {y}) = Total(X, w) + X[p]
  BY <1>5, <1>6
<1> HIDE DEF w
<1> QED BY <1>2, <1>3, <1>7, <1>8
-----------------------------------------------------------------------------
(* The assumption, one fact at a time.                                     *)
LEMMA DayConstants == /\ LastDay \in Nat /\ LastDay > 0 /\ MaxUsed \in Nat
                      /\ Cap \in Nat /\ Cap > 1
BY DayAssumption DEF DayAssumption

LEMMA SlotAfter == ASSUME NEW i \in Slots
                   PROVE  (i + 1) % Cap \in Slots /\ (i + 1) % Cap # i
<1> USE DayConstants DEF Slots
<1>1. CASE i = Cap - 1
  <2>1. (i + 1) % Cap = 0
    BY <1>1
  <2> QED BY <1>1, <2>1
<1>2. CASE i # Cap - 1
  <2>1. (i + 1) % Cap = i + 1
    BY <1>2
  <2> QED BY <1>2, <2>1
<1> QED BY <1>1, <1>2

LEMMA SlotNext == ASSUME idx \in Slots PROVE NextSlot \in Slots /\ NextSlot # idx
BY SlotAfter DEF NextSlot

LEMMA LargerOf == ASSUME NEW a \in Int, NEW b \in Int
                  PROVE  Max({a, b}) = IF a >= b THEN a ELSE b
<1> DEFINE m == IF a >= b THEN a ELSE b
<1>1. m \in {a, b} /\ \A y \in {a, b} : m >= y
  OBVIOUS
<1>2. \A x \in {a, b} : (\A y \in {a, b} : x >= y) => x = m
  OBVIOUS
<1> HIDE DEF m
<1>3. Max({a, b}) = m
  BY <1>1, <1>2 DEF Max
<1> QED BY <1>3 DEF m

(* What a tick of the counter does to the anchor and to the floor.         *)
Counts == \/ UNCHANGED <<j0, floor>> /\ (cum = 0 \/ cum < j0)
          \/ cum > 0 /\ (j0 = 0 \/ cum < j0) /\ j0' = cum /\ floor' = 0
          \/ /\ cum >= j0 /\ j0 > 0 /\ j0' = j0
             /\ floor' = IF floor >= cum - j0 THEN floor ELSE cum - j0

LEMMA DailyCounts == ASSUME cum \in Nat, j0 \in Nat, floor \in Nat, NEW t, Daily(t) PROVE Counts
<1>1. CASE cum = 0
  BY <1>1 DEF Daily, Counts
<1>2. CASE cum > 0 /\ j0 = 0
  BY <1>2 DEF Daily, Counts
<1>3. CASE cum > 0 /\ cum < j0
  BY <1>3 DEF Daily, Counts
<1>4. CASE cum > 0 /\ j0 > 0 /\ cum >= j0
  <2>1. floor' = Max({floor, cum - j0}) /\ j0' = j0
    BY <1>4 DEF Daily
  <2> QED BY <1>4, <2>1, LargerOf DEF Counts
<1> QED BY <1>1, <1>2, <1>3, <1>4

(* The places a task can be at.                                            *)
Places == {"idle", "hist", "anchor", "morning", "wipe", "daily",
           "save", "value", "clear-hist", "clear-anchor", "clear-rest"}

LEMMA PcTyped == ASSUME pc \in [Tasks -> Places], [DayNext]_dayVars
                 PROVE  pc' \in [Tasks -> Places]
<1>1. ASSUME NEW t \in Tasks, NEW from, NEW to \in Places, At(t, from, to)
      PROVE  pc' \in [Tasks -> Places]
  BY <1>1 DEF At
<1> USE DEF Tasks, Places
<1>2. ASSUME NEW t \in Tasks, Tick(t) PROVE pc' \in [Tasks -> Places]
  <2>1. After(t) \subseteq Places
    BY DEF After
  <2>2. CASE Roll(t)
    BY <1>1, <2>2 DEF Roll
  <2>3. CASE SameOrSkip(t)
    BY <1>1, <2>1, <2>3 DEF SameOrSkip
  <2>4. CASE PutHist(t, "hist", "anchor") \/ PutAnchor(t, "anchor", "morning") \/ Morning(t)
    BY <1>1, <2>4 DEF PutHist, PutAnchor, Morning
  <2>5. CASE Wipe(t)
    BY <1>1, <2>1, <2>5 DEF Wipe
  <2> QED BY <1>2, <2>2, <2>3, <2>4, <2>5 DEF Tick
<1>3. ASSUME NEW t \in Tasks, Daily(t) \/ SaveDate(t) \/ SaveValue(t)
      PROVE  pc' \in [Tasks -> Places]
  <2>1. Gate \subseteq Places
    BY DEF Gate
  <2>2. CASE Daily(t)
    BY <1>1, <2>1, <2>2 DEF Daily
  <2>3. CASE SaveDate(t) \/ SaveValue(t)
    BY <1>1, <2>3 DEF SaveDate, SaveValue
  <2> QED BY <1>3, <2>2, <2>3
<1>4. CASE Polled \/ Clear \/ Persist
  BY <1>1, <1>4
     DEF Polled, Clear, ClearImage, ClearRest, PutHist, PutAnchor, Persist
<1>5. CASE Use \/ Poll \/ ReplaceMeter \/ Midnight
  BY <1>5 DEF Use, Poll, ReplaceMeter, Midnight
<1>6. CASE Restart
  BY <1>6 DEF Restart, Nowhere
<1>7. CASE UNCHANGED dayVars
  BY <1>7 DEF dayVars
<1> QED BY <1>2, <1>3, <1>4, <1>5, <1>6, <1>7 DEF DayNext

(* A ring with one slot written is a ring.                                 *)
LEMMA RingTyped == ASSUME NEW r \in [Slots -> Nat], NEW s \in Slots, NEW n \in Nat
                   PROVE  [r EXCEPT ![s] = n] \in [Slots -> Nat]
OBVIOUS

LEMMA SinceTyped == ASSUME since \in [ram : 0 .. LastDay, flash : 0 .. LastDay],
                           NEW d \in 0 .. LastDay
                    PROVE  /\ [since EXCEPT !.ram = d]
                                \in [ram : 0 .. LastDay, flash : 0 .. LastDay]
                           /\ [since EXCEPT !.flash = since.ram]
                                \in [ram : 0 .. LastDay, flash : 0 .. LastDay]
                           /\ [since EXCEPT !.ram = since.flash]
                                \in [ram : 0 .. LastDay, flash : 0 .. LastDay]
OBVIOUS

LEMMA DayTypedInit == DayInit => DayTypeOK
<1> SUFFICES ASSUME DayInit PROVE DayTypeOK
  OBVIOUS
<1> USE DayConstants
<1>1. Blank \in Anchors /\ [s \in Slots |-> 0] \in [Slots -> Nat] /\ 0 \in Slots
  BY DEF Blank, Anchors, Slots
<1>2. NoDay \in [date : 0 .. LastDay, wh : Nat]
  BY DEF NoDay
<1>3. pc \in [Tasks -> Places]
  BY DEF DayInit, Nowhere, Places
<1>4. img \in [ring : [Slots -> Nat], anchor : Anchors]
  BY <1>1 DEF DayInit
<1>5. since \in [ram : 0 .. LastDay, flash : 0 .. LastDay]
  <2>1. since = [ram |-> 0, flash |-> 0]
    BY DEF DayInit
  <2> QED BY <2>1
<1>6. /\ idx \in Slots /\ hist \in [Slots -> Nat] /\ anchor \in Anchors
      /\ intra \in [date : 0 .. LastDay, wh : Nat]
  BY <1>1, <1>2 DEF DayInit
<1>7. /\ second \in BOOLEAN /\ valid \in BOOLEAN /\ synced \in BOOLEAN
      /\ overlap \in BOOLEAN /\ behind \in BOOLEAN /\ torn \in BOOLEAN
  BY DEF DayInit
<1>8. /\ today \in 1 .. LastDay /\ used \in 0 .. MaxUsed /\ register \in Nat /\ cum \in Nat
      /\ date \in 0 .. LastDay /\ j0 \in Nat /\ floor \in Nat /\ pub \in Nat /\ saved \in Nat
  BY DEF DayInit
<1> QED BY <1>3, <1>4, <1>5, <1>6, <1>7, <1>8 DEF DayTypeOK, Places

LEMMA DayTypedStep == DayTypeOK /\ [DayNext]_dayVars => DayTypeOK'
<1> SUFFICES ASSUME DayTypeOK, [DayNext]_dayVars PROVE DayTypeOK'
  OBVIOUS
<1> USE DayConstants
<1>0. pc' \in [Tasks -> Places]
  BY PcTyped DEF DayTypeOK, Places
<1> USE <1>0 DEF DayTypeOK, Places
<1>1. ASSUME NEW t \in Tasks, Roll(t) PROVE DayTypeOK'
  <2>1. idx' = NextSlot /\ NextSlot \in Slots
    BY <1>1, SlotNext DEF Roll
  <2>2. img' = [ring   |-> [img.ring EXCEPT ![idx'] = pub],
                anchor |-> [j0 |-> cum, date |-> today, idx |-> idx']]
    BY <1>1 DEF Roll
  <2>3. [img.ring EXCEPT ![idx'] = pub] \in [Slots -> Nat]
    BY <2>1, RingTyped
  <2>4. [j0 |-> cum, date |-> today, idx |-> idx'] \in Anchors
    BY <2>1 DEF Anchors
  <2>5. img' \in [ring : [Slots -> Nat], anchor : Anchors]
    BY <2>2, <2>3, <2>4
  <2>6. since' \in [ram : 0 .. LastDay, flash : 0 .. LastDay]
    <3>1. img.anchor.date \in 0 .. LastDay
      BY DEF Anchors
    <3> QED BY <1>1, <3>1, SinceTyped DEF Roll
  <2> QED BY <1>1, <2>1, <2>5, <2>6 DEF Roll, Begin, meter, nvs
<1>2. ASSUME NEW t \in Tasks, SameOrSkip(t) PROVE DayTypeOK'
  BY <1>2 DEF SameOrSkip, Begin, meter, nvs
<1>3. ASSUME NEW t, NEW from, NEW to, PutHist(t, from, to) PROVE DayTypeOK'
  <2>1. hist' \in [Slots -> Nat] /\ since' \in [ram : 0 .. LastDay, flash : 0 .. LastDay]
    BY <1>3, SinceTyped DEF PutHist, HistSaved
  <2> QED BY <1>3, <2>1 DEF PutHist, meter, ram
<1>4. ASSUME NEW t, NEW from, NEW to, PutAnchor(t, from, to) PROVE DayTypeOK'
  BY <1>4 DEF PutAnchor, meter, ram
<1>5. ASSUME NEW t \in Tasks, Morning(t) PROVE DayTypeOK'
  BY <1>5 DEF Morning, Anchors, Floors, meter, nvs, ghosts
<1>6. ASSUME NEW t \in Tasks, Wipe(t) PROVE DayTypeOK'
  <2>1. /\ intra' \in [date : 0 .. LastDay, wh : Nat] /\ saved' \in Nat /\ behind' \in BOOLEAN
        /\ UNCHANGED <<used, meter, synced, j0, floor, pub, idx, img, hist, anchor,
                       since, overlap, torn>>
        /\ date' = today /\ today' = today
    <3>1. NoDay \in [date : 0 .. LastDay, wh : Nat]
      BY DEF NoDay
    <3> QED BY <1>6, <3>1 DEF Wipe, Forget
  <2> QED BY <2>1 DEF meter
<1>7. ASSUME NEW t \in Tasks, Daily(t) PROVE DayTypeOK'
  <2>1. Counts
    BY <1>7, DailyCounts
  <2>2. j0' \in Nat /\ floor' \in Nat
    BY <2>1 DEF Counts
  <2> QED BY <1>7, <2>2 DEF Daily, meter, nvs, ghosts
<1>8. ASSUME NEW t \in Tasks, SaveDate(t) \/ SaveValue(t) PROVE DayTypeOK'
  <2>1. CASE SaveDate(t)
    BY <2>1 DEF SaveDate, meter, ram, ghosts
  <2>2. CASE SaveValue(t)
    <3>1. /\ intra' \in [date : 0 .. LastDay, wh : Nat] /\ saved' \in Nat /\ behind' \in BOOLEAN
          /\ UNCHANGED <<today, used, meter, synced, date, j0, floor, pub, idx, img, hist, anchor,
                         since, overlap, torn>>
      BY <2>2 DEF SaveValue, Saved
    <3> QED BY <3>1 DEF meter
  <2> QED BY <1>8, <2>1, <2>2
<1>18. CASE Polled
  BY <1>18 DEF Polled, meter, ram, nvs
<1>9. CASE ClearImage
  <2>1. since' \in [ram : 0 .. LastDay, flash : 0 .. LastDay]
    BY <1>9, SinceTyped DEF ClearImage
  <2>2. img' \in [ring : [Slots -> Nat], anchor : Anchors]
    BY <1>9 DEF ClearImage, Blank, Anchors, Slots
  <2> QED BY <1>9, <2>1, <2>2 DEF ClearImage, meter, nvs
<1>10. CASE ClearRest
  <2>1. /\ intra' \in [date : 0 .. LastDay, wh : Nat] /\ saved' \in Nat /\ behind' \in BOOLEAN
        /\ UNCHANGED <<today, used, meter, synced, j0, floor, pub, img, hist, anchor,
                       since, overlap, torn>>
        /\ date' \in 0 .. LastDay /\ idx' \in Slots
    <3>1. NoDay \in [date : 0 .. LastDay, wh : Nat] /\ 0 \in 0 .. LastDay /\ 0 \in Slots
      BY DEF NoDay, Slots
    <3> QED BY <1>10, <3>1 DEF ClearRest, Forget
  <2> QED BY <2>1 DEF meter
<1>11. CASE Persist
  <2>1. hist' \in [Slots -> Nat] /\ since' \in [ram : 0 .. LastDay, flash : 0 .. LastDay]
    BY <1>11, SinceTyped DEF Persist, HistSaved
  <2> QED BY <1>11, <2>1 DEF Persist, meter, ram
<1>12. CASE Use
  BY <1>12 DEF Use, ram, nvs, ghosts
<1>15. CASE Poll
  BY <1>15 DEF Poll, ram, nvs, ghosts
<1>16. CASE ReplaceMeter
  BY <1>16 DEF ReplaceMeter, ram, nvs, ghosts
<1>17. CASE Midnight
  BY <1>17 DEF Midnight, meter, ram, nvs, ghosts
<1>13. CASE Restart
  <2>1. since' \in [ram : 0 .. LastDay, flash : 0 .. LastDay]
    BY <1>13, SinceTyped DEF Restart
  <2> QED BY <1>13, <2>1 DEF Restart, Restored, Anchors, nvs
<1>14. CASE UNCHANGED dayVars
  BY <1>14 DEF dayVars, meter, ram, nvs, ghosts
<1> QED
  BY <1>1, <1>2, <1>3, <1>4, <1>5, <1>6, <1>7, <1>8, <1>9, <1>10, <1>11, <1>12, <1>13, <1>14,
     <1>15, <1>16, <1>17, <1>18 DEF DayNext, Tick, Clear, Tasks

-----------------------------------------------------------------------------

LEMMA AtMoves == ASSUME pc \in [Tasks -> Places], NEW t \in Tasks, NEW from, NEW to, At(t, from, to)
                 PROVE  pc[t] = from /\ pc'[t] = to /\ \A u \in Tasks : u # t => pc'[u] = pc[u]
BY DEF At

(* A task on its way through a rollover finds its anchor, or none at all.  *)
Follows ==
  \A t \in Tasks :
    /\ pc[t] \in {"hist", "anchor", "morning"} => img.anchor.date \in {0, today}
    /\ pc[t] = "wipe" => date \in {0, today}

LEMMA FollowsStep == DayTypeOK /\ Follows /\ [DayNext]_dayVars => Follows'
<1> SUFFICES ASSUME DayTypeOK, Follows, [DayNext]_dayVars PROVE Follows'
  OBVIOUS
<1>0. pc \in [Tasks -> Places]
  BY DEF DayTypeOK, Places
<1> USE DEF Follows
<1>1. ASSUME NEW t \in Tasks, Roll(t) PROVE Follows'
  <2>1. pc'[t] = "hist" /\ \A u \in Tasks : u # t => pc'[u] = pc[u]
    BY <1>0, <1>1, AtMoves DEF Roll
  <2> QED BY <1>1, <2>1 DEF Roll
<1>2. ASSUME NEW t \in Tasks, SameOrSkip(t) PROVE Follows'
  <2>1. pc'[t] \in {"daily", "idle"} /\ \A u \in Tasks : u # t => pc'[u] = pc[u]
    BY <1>0, <1>2, AtMoves DEF SameOrSkip, After
  <2> QED BY <1>2, <2>1 DEF SameOrSkip
<1>3. ASSUME NEW t \in Tasks, PutHist(t, "hist", "anchor") \/ PutAnchor(t, "anchor", "morning")
      PROVE  Follows'
  <2>1. /\ pc[t] \in {"hist", "anchor"} /\ pc'[t] \in {"anchor", "morning"}
        /\ \A u \in Tasks : u # t => pc'[u] = pc[u]
    BY <1>0, <1>3, AtMoves DEF PutHist, PutAnchor
  <2>2. UNCHANGED <<img, today, date>>
    BY <1>3 DEF PutHist, PutAnchor, ram
  <2> QED BY <2>1, <2>2
<1>4. ASSUME NEW t \in Tasks, Morning(t) PROVE Follows'
  <2>1. /\ pc[t] = "morning" /\ pc'[t] = "wipe"
        /\ \A u \in Tasks : u # t => pc'[u] = pc[u]
    BY <1>0, <1>4, AtMoves DEF Morning
  <2>2. UNCHANGED <<img, today>> /\ date' = img.anchor.date
    BY <1>4 DEF Morning
  <2> QED BY <2>1, <2>2
<1>5. ASSUME NEW t \in Tasks, Wipe(t) PROVE Follows'
  <2>1. pc'[t] \in {"daily", "idle"} /\ \A u \in Tasks : u # t => pc'[u] = pc[u]
    BY <1>0, <1>5, AtMoves DEF Wipe, After
  <2> QED BY <1>5, <2>1 DEF Wipe
<1>6. ASSUME NEW t \in Tasks, \A u \in Tasks : u # t => pc'[u] = pc[u],
             pc'[t] \notin {"hist", "anchor", "morning", "wipe"},
             today' = today, img'.anchor.date \in {0, img.anchor.date}, date' \in {0, date}
      PROVE  Follows'
  BY <1>6
<1>15. ASSUME NEW t \in Tasks, Daily(t) \/ SaveDate(t) \/ SaveValue(t) PROVE Follows'
  <2>1. /\ pc'[t] \notin {"hist", "anchor", "morning", "wipe"}
        /\ \A u \in Tasks : u # t => pc'[u] = pc[u]
    BY <1>0, <1>15, AtMoves DEF Daily, Gate, SaveDate, SaveValue
  <2>2. today' = today /\ img' = img /\ date' = date
    BY <1>15 DEF Daily, SaveDate, SaveValue, ram
  <2> QED BY <1>6, <2>1, <2>2
<1>16. CASE Polled
  <2>1. /\ "meter" \in Tasks /\ pc'["meter"] = "daily"
        /\ \A u \in Tasks : u # "meter" => pc'[u] = pc[u]
    BY <1>0, <1>16, AtMoves DEF Polled, Tasks
  <2>2. today' = today /\ img' = img /\ date' = date
    BY <1>16 DEF Polled, ram
  <2> QED BY <1>6, <2>1, <2>2
<1>17. CASE Clear \/ Persist
  <2>1. /\ "loop" \in Tasks /\ pc'["loop"] \notin {"hist", "anchor", "morning", "wipe"}
        /\ \A u \in Tasks : u # "loop" => pc'[u] = pc[u]
    BY <1>0, <1>17, AtMoves
       DEF Clear, ClearImage, ClearRest, PutHist, PutAnchor, Persist, Tasks
  <2>2. today' = today /\ img'.anchor.date \in {0, img.anchor.date} /\ date' \in {0, date}
    BY <1>17 DEF Clear, ClearImage, ClearRest, PutHist, PutAnchor, Persist, Blank, ram
  <2> QED BY <1>6, <2>1, <2>2
<1>7. CASE Use
  BY <1>7 DEF Use, ram
<1>8. CASE Poll
  BY <1>8 DEF Poll, ram
<1>9. CASE ReplaceMeter
  BY <1>9 DEF ReplaceMeter, ram
<1>10. CASE Midnight
  BY <1>10 DEF Midnight, Idle, Nowhere
<1>11. CASE Restart
  BY <1>11 DEF Restart, Nowhere
<1>12. CASE UNCHANGED dayVars
  BY <1>12 DEF dayVars, ram
<1>13. CASE \E t \in {"loop", "sntp"} : Tick(t)
  <2>1. {"loop", "sntp"} \subseteq Tasks
    BY DEF Tasks
  <2> QED BY <1>1, <1>2, <1>3, <1>4, <1>5, <1>13, <2>1 DEF Tick
<1> QED
  BY <1>7, <1>8, <1>9, <1>10, <1>11, <1>12, <1>13, <1>15, <1>16, <1>17 DEF DayNext, Tasks

LEMMA DayAlwaysTyped == DaySpec => []DayTypeOK
BY DayTypedInit, DayTypedStep, PTL DEF DaySpec

(* Types are preserved by every operation of the program.                  *)
THEOREM DayTypeCorrect == DaySpec => []DayTypeOK
BY DayAlwaysTyped

(* Once the meter delivers, the date in RAM never advances without the     *)
(* anchor the day is counted from, for every size of the ring, whatever    *)
(* tasks are at the stores at once, and with restarts, failing writes and  *)
(* resets anywhere.  A source with a second meter is excepted.             *)
THEOREM AnchorFollows == DaySpec => AnchorsFollowDate
<1> DEFINE Step ==
             valid /\ ~second /\ date # 0 /\ date' \notin {0, date} /\ ~Restart
               => img.anchor.date = date'
<1>1. DayInit => Follows
  BY DEF DayInit, Follows, Nowhere
<1>2. DayTypeOK /\ Follows /\ [DayNext]_dayVars => [Step]_dayVars
  <2> SUFFICES ASSUME DayTypeOK, Follows, DayNext, valid, ~second, date # 0,
                      date' \notin {0, date}, ~Restart
               PROVE  img.anchor.date = date'
    OBVIOUS
  <2>1. ASSUME NEW t \in Tasks, Tick(t) PROVE img.anchor.date = date'
    <3>1. CASE Roll(t) \/ PutHist(t, "hist", "anchor") \/ PutAnchor(t, "anchor", "morning")
      BY <3>1 DEF Roll, PutHist, PutAnchor, ram
    <3>2. CASE SameOrSkip(t)
      BY <3>2 DEF SameOrSkip, Rolls
    <3>3. CASE Morning(t)
      BY <3>3 DEF Morning
    <3>4. CASE Wipe(t)
      <4>1. pc[t] = "wipe"
        BY <3>4 DEF Wipe, At
      <4> QED BY <3>4, <4>1 DEF Wipe, Follows
    <3> QED BY <2>1, <3>1, <3>2, <3>3, <3>4 DEF Tick
  <2>2. CASE Polled \/ \E t \in {"loop", "meter"} : Daily(t) \/ SaveDate(t) \/ SaveValue(t)
    BY <2>2 DEF Polled, Daily, SaveDate, SaveValue, ram
  <2>3. CASE Clear \/ Persist
    BY <2>3 DEF Clear, ClearImage, ClearRest, PutHist, PutAnchor, Persist, ram
  <2>4. CASE Use \/ Poll \/ ReplaceMeter \/ Midnight
    BY <2>4 DEF Use, Poll, ReplaceMeter, Midnight, ram
  <2> QED BY <2>1, <2>2, <2>3, <2>4 DEF DayNext, Tasks
<1> QED BY <1>1, <1>2, DayAlwaysTyped, FollowsStep, PTL DEF DaySpec, AnchorsFollowDate

-----------------------------------------------------------------------------
(* One task at a time.                                                     *)

(* Where the program is, while only one of the tasks is at the stores.     *)
Where == IF pc["loop"] # "idle" THEN pc["loop"]
         ELSE IF pc["sntp"] # "idle" THEN pc["sntp"] ELSE pc["meter"]
Alone == \A t, u \in Tasks : t # u => pc[t] = "idle" \/ pc[u] = "idle"

Unsaved == {"hist", "anchor", "morning"}
Clearing == {"clear-hist", "clear-anchor", "clear-rest"}

LEMMA WhereIdle == ASSUME Idle PROVE Where = "idle" /\ Alone
BY DEF Idle, Nowhere, Where, Alone, Tasks

LEMMA WhereMoves == ASSUME pc \in [Tasks -> Places], Alone, NEW t \in Tasks, NEW from, NEW to,
                           At(t, from, to), from = "idle" => Idle
                    PROVE  Where = from /\ Where' = to /\ Alone'
<1>1. pc[t] = from /\ pc'[t] = to /\ \A u \in Tasks : u # t => pc'[u] = pc[u]
  BY AtMoves
<1>2. CASE from = "idle"
  BY <1>1, <1>2 DEF Idle, Nowhere, Where, Alone, Tasks
<1>3. CASE from # "idle"
  BY <1>1, <1>3 DEF Where, Alone, Tasks
<1> QED BY <1>2, <1>3

LEMMA DailyMoves == ASSUME pc \in [Tasks -> Places], Alone, NEW t \in Tasks, Daily(t)
                    PROVE  /\ Where = "daily" /\ Where' \in {"save", "idle"} /\ Alone'
                           /\ IF Where' = "save" THEN date # 0 ELSE date = 0 \/ ~(pub' > saved)
<1>1. PICK next \in Gate : At(t, "daily", next)
  BY DEF Daily
<1>2. Where = "daily" /\ Where' = next /\ Alone'
  BY <1>1, WhereMoves
<1> QED BY <1>1, <1>2 DEF Gate

(* The dates of the anchor in RAM, of the counter and of the calendar.     *)
Dated ==
  /\ Where \in Unsaved \cup {"wipe"} => img.anchor.date = today
  /\ Where \notin Unsaved => img.anchor.date <= date
  /\ date <= today /\ anchor.date <= today
  /\ img.anchor.date # 0 => idx = img.anchor.idx
  /\ img.anchor.date = 0 => img.anchor = Blank
  /\ anchor.date = 0 => anchor = Blank
  /\ Where \in Clearing => img.anchor = Blank /\ img.ring = [s \in Slots |-> 0]

(* What is published is the counter of the day, where a rollover or a save *)
(* takes it.                                                               *)
Published ==
  /\ Where = "idle" /\ date \notin {0, today} => pub = floor
  /\ Where \in {"save", "value"} => pub = floor /\ date # 0
  /\ Where = "value" => intra.date = date
  /\ Where = "wipe" => floor = 0

(* The counter of the day may have left its anchor for a lower one, or for *)
(* one where there was none.                                               *)
Drifts == Where \notin Unsaved => \/ j0 = img.anchor.j0
                                  \/ 0 < j0 /\ j0 < img.anchor.j0
                                  \/ img.anchor.j0 = 0

(* On its own anchor, the counter of the day is the stored one, or below   *)
(* another one that was larger when both were saved.                       *)
OnAnchor == date # 0 /\ img.anchor.date = date /\ img.anchor.j0 = j0
DayStored   == IF intra.date = date THEN intra.wh ELSE 0
Kept ==
  /\ OnAnchor /\ Where \in {"idle", "daily", "save", "value"} => behind \/ saved <= floor
  /\ OnAnchor /\ Where \in {"idle", "daily"} =>
       DayStored <= floor /\ (DayStored = floor \/ (behind /\ floor <= saved))

(* What holds of the stores between the steps of a single task.            *)
Keep == Alone /\ Dated /\ Published /\ Drifts /\ Kept

LEMMA KeepInit == DayInit => Keep
BY DEF DayInit, Keep, Alone, Where, Dated, Published, Drifts, Kept, OnAnchor, DayStored,
       Nowhere, Tasks, Blank, Unsaved, Clearing

LEMMA KeepRoll == ASSUME DayTypeOK, Keep, NEW t \in Tasks, Roll(t), ~overlap'
                  PROVE  Keep'
<1> USE DEF DayTypeOK, Anchors
<1>0. pc \in [Tasks -> Places] /\ Alone
  BY DEF Places, Keep
<1>1. Where = "idle" /\ Where' = "hist" /\ Alone'
  BY <1>0, WhereMoves DEF Roll, Begin
<1>2. Dated'
  BY <1>1 DEF Keep, Dated, Unsaved, Clearing, Roll, Rolls, meter, nvs, Blank
<1>3. Published'
  BY <1>1 DEF Keep, Dated, Published, Unsaved, Roll, Rolls, meter, nvs, Blank
<1>4. Drifts'
  BY <1>1 DEF Keep, Dated, Drifts, Unsaved, Roll, Rolls, meter, nvs, Blank
<1>5. Kept'
  BY <1>1
     DEF Keep, Dated, Published, Drifts, Kept, OnAnchor, DayStored, Unsaved, Roll, Rolls,
         meter, nvs, Blank
<1> QED BY <1>1, <1>2, <1>3, <1>4, <1>5 DEF Keep

LEMMA KeepSame == ASSUME DayTypeOK, Keep, NEW t \in Tasks, SameOrSkip(t), ~overlap'
                  PROVE  Keep'
<1> USE DEF DayTypeOK, Anchors
<1>0. pc \in [Tasks -> Places] /\ Alone
  BY DEF Places, Keep
<1>1. Where = "idle" /\ Where' \in {"daily", "idle"} /\ Alone'
  BY <1>0, WhereMoves DEF SameOrSkip, Begin, After
<1>2. Dated'
  BY <1>1 DEF Keep, Dated, Unsaved, Clearing, SameOrSkip, meter, nvs
<1>3. Published'
  BY <1>1 DEF Keep, Dated, Published, Unsaved, SameOrSkip, meter, nvs
<1>4. Drifts'
  BY <1>1 DEF Keep, Dated, Drifts, Unsaved, SameOrSkip, meter, nvs
<1>5. Kept'
  BY <1>1
     DEF Keep, Dated, Published, Drifts, Kept, OnAnchor, DayStored, Unsaved, SameOrSkip,
         meter, nvs
<1> QED BY <1>1, <1>2, <1>3, <1>4, <1>5 DEF Keep

LEMMA KeepHist == ASSUME DayTypeOK, Keep, NEW t \in Tasks, PutHist(t, "hist", "anchor"), ~overlap'
                  PROVE  Keep'
<1> USE DEF DayTypeOK, Anchors
<1>0. pc \in [Tasks -> Places] /\ Alone
  BY DEF Places, Keep
<1>1. Where = "hist" /\ Where' = "anchor" /\ Alone'
  BY <1>0, WhereMoves DEF PutHist
<1>2. Dated'
  BY <1>1 DEF Keep, Dated, Unsaved, Clearing, PutHist, ram, meter
<1>3. Published'
  BY <1>1 DEF Keep, Dated, Published, Unsaved, PutHist, ram, meter
<1>4. Drifts'
  BY <1>1 DEF Keep, Dated, Drifts, Unsaved, PutHist, ram, meter
<1>5. Kept'
  BY <1>1
     DEF Keep, Dated, Published, Drifts, Kept, OnAnchor, DayStored, Unsaved, PutHist, ram,
         meter
<1> QED BY <1>1, <1>2, <1>3, <1>4, <1>5 DEF Keep

LEMMA KeepAnchor == ASSUME DayTypeOK, Keep, NEW t \in Tasks,
                           PutAnchor(t, "anchor", "morning"), ~overlap'
                    PROVE  Keep'
<1> USE DEF DayTypeOK, Anchors
<1>0. pc \in [Tasks -> Places] /\ Alone
  BY DEF Places, Keep
<1>1. Where = "anchor" /\ Where' = "morning" /\ Alone'
  BY <1>0, WhereMoves DEF PutAnchor
<1>2. Dated'
  BY <1>1 DEF Keep, Dated, Unsaved, Clearing, PutAnchor, ram, meter
<1>3. Published'
  BY <1>1 DEF Keep, Dated, Published, Unsaved, PutAnchor, ram, meter
<1>4. Drifts'
  BY <1>1 DEF Keep, Dated, Drifts, Unsaved, PutAnchor, ram, meter
<1>5. Kept'
  BY <1>1
     DEF Keep, Dated, Published, Drifts, Kept, OnAnchor, DayStored, Unsaved, PutAnchor, ram,
         meter
<1> QED BY <1>1, <1>2, <1>3, <1>4, <1>5 DEF Keep

LEMMA KeepMorning == ASSUME DayTypeOK, Keep, NEW t \in Tasks, Morning(t), ~overlap'
                     PROVE  Keep'
<1> USE DEF DayTypeOK, Anchors
<1>0. pc \in [Tasks -> Places] /\ Alone
  BY DEF Places, Keep
<1>1. Where = "morning" /\ Where' = "wipe" /\ Alone'
  BY <1>0, WhereMoves DEF Morning
<1>2. Dated'
  BY <1>1 DEF Keep, Dated, Unsaved, Clearing, Morning, Floors, nvs, meter
<1>3. Published'
  BY <1>1 DEF Keep, Dated, Published, Unsaved, Morning, Floors, nvs, meter
<1>4. Drifts'
  BY <1>1 DEF Keep, Dated, Drifts, Unsaved, Morning, Floors, nvs, meter
<1>5. Kept'
  BY <1>1
     DEF Keep, Dated, Published, Drifts, Kept, OnAnchor, DayStored, Unsaved, Morning,
         Floors, nvs, meter
<1> QED BY <1>1, <1>2, <1>3, <1>4, <1>5 DEF Keep

LEMMA KeepWipe == ASSUME DayTypeOK, Keep, NEW t \in Tasks, Wipe(t), ~overlap'
                  PROVE  Keep'
<1> USE DEF DayTypeOK, Anchors
<1>0. pc \in [Tasks -> Places] /\ Alone
  BY DEF Places, Keep
<1>1. Where = "wipe" /\ Where' \in {"daily", "idle"} /\ Alone'
  BY <1>0, WhereMoves DEF Wipe, After
<1>2. Dated'
  BY <1>1 DEF Keep, Dated, Unsaved, Clearing, Wipe, Forget, NoDay, meter
<1>3. Published'
  BY <1>1 DEF Keep, Dated, Published, Unsaved, Wipe, Forget, NoDay, meter
<1>4. Drifts'
  BY <1>1 DEF Keep, Dated, Drifts, Unsaved, Wipe, Forget, NoDay, meter
<1>5. Kept'
  BY <1>1
     DEF Keep, Dated, Published, Drifts, Kept, OnAnchor, DayStored, Unsaved, Wipe, Forget,
         NoDay, meter
<1> QED BY <1>1, <1>2, <1>3, <1>4, <1>5 DEF Keep

LEMMA KeepDaily == ASSUME DayTypeOK, Keep, NEW t \in Tasks, Daily(t), ~overlap'
                   PROVE  Keep'
<1> USE DEF DayTypeOK, Anchors
<1>0. pc \in [Tasks -> Places] /\ Alone
  BY DEF Places, Keep
<1>6. Counts
  BY DailyCounts
<1>7. pub' = floor' /\ UNCHANGED <<today, date, idx, img, saved, hist, anchor, intra, behind>>
  BY DEF Daily, nvs, ghosts
<1>1. /\ Where = "daily" /\ Where' \in {"save", "idle"} /\ Alone'
      /\ IF Where' = "save" THEN date # 0 ELSE date = 0 \/ ~(pub' > saved)
  BY <1>0, DailyMoves
<1>2. Dated'
  BY <1>1, <1>6, <1>7 DEF Counts, Keep, Dated, Unsaved, Clearing
<1>3. Published'
  BY <1>1, <1>6, <1>7 DEF Counts, Keep, Dated, Published, Unsaved
<1>4. Drifts'
  BY <1>1, <1>6, <1>7 DEF Counts, Keep, Dated, Drifts, Unsaved
<1>5. Kept'
  BY <1>1, <1>6, <1>7
     DEF Counts, Keep, Dated, Published, Drifts, Kept, OnAnchor, DayStored, Unsaved
<1> QED BY <1>1, <1>2, <1>3, <1>4, <1>5 DEF Keep

LEMMA KeepSaves == ASSUME DayTypeOK, Keep, NEW t \in Tasks, SaveDate(t) \/ SaveValue(t), ~overlap'
                   PROVE  Keep'
<1> USE DEF DayTypeOK, Anchors
<1>0. pc \in [Tasks -> Places] /\ Alone
  BY DEF Places, Keep
<1>1. /\ SaveDate(t) => Where = "save" /\ Where' = "value" /\ Alone'
      /\ SaveValue(t) => Where = "value" /\ Where' = "idle" /\ Alone'
  BY <1>0, WhereMoves DEF SaveDate, SaveValue
<1>2. Dated'
  BY <1>1 DEF Keep, Dated, Unsaved, Clearing, SaveDate, SaveValue, Saved, ram, meter
<1>3. Published'
  BY <1>1 DEF Keep, Dated, Published, Unsaved, SaveDate, SaveValue, Saved, ram, meter
<1>4. Drifts'
  BY <1>1 DEF Keep, Dated, Drifts, Unsaved, SaveDate, SaveValue, Saved, ram, meter
<1>5. Kept'
  <2>1. CASE SaveDate(t)
    BY <1>1, <2>1 DEF Keep, Kept, OnAnchor, SaveDate, ram, ghosts
  <2>2. CASE SaveValue(t)
    <3>1. UNCHANGED <<date, j0, floor, img>> /\ pub = floor /\ intra.date = date
      BY <1>1, <2>2 DEF Keep, Published, SaveValue
    <3>2. intra'.date = date /\ intra'.wh = floor /\ (behind' \/ saved' = floor)
      <4>1. intra' = [intra EXCEPT !.wh = pub] /\ saved' \in {pub} \cup pub .. MaxUsed
        BY <2>2 DEF SaveValue, Saved
      <4>2. saved' > pub => behind'
        BY <2>2 DEF SaveValue
      <4>3. saved' > pub \/ saved' = pub
        BY <4>1, DayConstants
      <4> QED BY <3>1, <4>1, <4>2, <4>3
    <3> QED BY <1>1, <3>1, <3>2 DEF Kept, OnAnchor, DayStored
  <2> QED BY <2>1, <2>2
<1> QED BY <1>1, <1>2, <1>3, <1>4, <1>5 DEF Keep

LEMMA KeepPolled == ASSUME DayTypeOK, Keep, Polled, ~overlap'
                    PROVE  Keep'
<1> USE DEF DayTypeOK, Anchors
<1>0. pc \in [Tasks -> Places] /\ Alone
  BY DEF Places, Keep
<1>1. Where = "idle" /\ Where' = "daily" /\ Alone'
  BY <1>0, WhereMoves DEF Polled, Tasks
<1>2. UNCHANGED <<today, date, j0, floor, pub, saved, idx, img, hist, anchor, intra, behind>>
  BY DEF Polled, ram, nvs
<1>3. Dated' /\ Published'
  BY <1>1, <1>2 DEF Keep, Dated, Published, Unsaved, Clearing
<1>4. Drifts'
  BY <1>1, <1>2 DEF Keep, Drifts, Unsaved
<1>5. Kept'
  BY <1>1, <1>2 DEF Keep, Kept, OnAnchor, DayStored
<1> QED BY <1>1, <1>3, <1>4, <1>5 DEF Keep

LEMMA KeepClear == ASSUME DayTypeOK, Keep, ClearImage \/ ClearRest, ~overlap'
                   PROVE  Keep'
<1> USE DEF DayTypeOK, Anchors
<1>0. pc \in [Tasks -> Places] /\ Alone
  BY DEF Places, Keep
<1>1. /\ ClearImage => Where = "idle" /\ Where' = "clear-hist" /\ Alone'
      /\ ClearRest => Where = "clear-rest" /\ Where' = "idle" /\ Alone'
  BY <1>0, WhereMoves DEF ClearImage, ClearRest, Tasks
<1>2. Dated'
  BY <1>1
     DEF Keep, Dated, Unsaved, Clearing, ClearImage, ClearRest, Forget, NoDay, Blank, nvs,
         meter
<1>3. Published'
  BY <1>1
     DEF Keep, Dated, Published, Unsaved, ClearImage, ClearRest, Forget, NoDay, Blank, nvs,
         meter
<1>4. Drifts'
  BY <1>1
     DEF Keep, Dated, Drifts, Unsaved, ClearImage, ClearRest, Forget, NoDay, Blank, nvs,
         meter
<1>5. Kept'
  BY <1>1
     DEF Keep, Dated, Published, Drifts, Kept, OnAnchor, DayStored, Unsaved, ClearImage,
         ClearRest, Forget, NoDay, Blank, nvs, meter
<1> QED BY <1>1, <1>2, <1>3, <1>4, <1>5 DEF Keep

LEMMA KeepClears == ASSUME DayTypeOK, Keep, ~overlap',
                           \/ PutHist("loop", "clear-hist", "clear-anchor")
                           \/ PutAnchor("loop", "clear-anchor", "clear-rest")
                    PROVE  Keep'
<1> USE DEF DayTypeOK, Anchors
<1>0. pc \in [Tasks -> Places] /\ Alone
  BY DEF Places, Keep
<1>1. Where \in Clearing /\ Where' \in Clearing /\ Alone'
  BY <1>0, WhereMoves DEF PutHist, PutAnchor, Tasks, Clearing
<1>2. Dated'
  BY <1>1 DEF Keep, Dated, Unsaved, Clearing, PutHist, PutAnchor, ram, meter
<1>3. Published'
  BY <1>1 DEF Keep, Dated, Published, Unsaved, Clearing, PutHist, PutAnchor, ram, meter
<1>4. Drifts'
  BY <1>1 DEF Keep, Dated, Drifts, Unsaved, Clearing, PutHist, PutAnchor, ram, meter
<1>5. Kept'
  BY <1>1
     DEF Keep, Dated, Published, Drifts, Kept, OnAnchor, DayStored, Unsaved, Clearing,
         PutHist, PutAnchor, ram, meter
<1> QED BY <1>1, <1>2, <1>3, <1>4, <1>5 DEF Keep

LEMMA KeepPersist == ASSUME DayTypeOK, Keep, Persist, ~overlap'
                     PROVE  Keep'
<1> USE DEF DayTypeOK, Anchors
<1>0. pc \in [Tasks -> Places] /\ Alone
  BY DEF Places, Keep
<1>1. Where = "idle" /\ Where' = "idle" /\ Alone'
  BY <1>0, WhereMoves DEF Persist, Tasks
<1>2. Dated'
  BY <1>1 DEF Keep, Dated, Unsaved, Clearing, Persist, ram, meter
<1>3. Published'
  BY <1>1 DEF Keep, Dated, Published, Unsaved, Persist, ram, meter
<1>4. Drifts'
  BY <1>1 DEF Keep, Dated, Drifts, Unsaved, Persist, ram, meter
<1>5. Kept'
  BY <1>1
     DEF Keep, Dated, Published, Drifts, Kept, OnAnchor, DayStored, Unsaved, Persist, ram,
         meter
<1> QED BY <1>1, <1>2, <1>3, <1>4, <1>5 DEF Keep

LEMMA KeepRestart == ASSUME DayTypeOK, Keep, Restart, ~overlap'
                     PROVE  Keep'
<1> USE DEF DayTypeOK, Anchors
<1>0. pc \in [Tasks -> Places] /\ Alone
  BY DEF Places, Keep
<1>1. Where' = "idle" /\ Alone'
  BY DEF Restart, Where, Alone, Nowhere, Tasks
<1>2. Dated'
  BY <1>1 DEF Keep, Dated, Unsaved, Clearing, Restart, Restored, nvs
<1>3. Published'
  BY <1>1 DEF Keep, Dated, Published, Unsaved, Restart, Restored, nvs
<1>4. Drifts'
  BY <1>1 DEF Keep, Dated, Drifts, Unsaved, Restart, Restored, nvs
<1>5. Kept'
  BY <1>1
     DEF Keep, Dated, Published, Drifts, Kept, OnAnchor, DayStored, Unsaved, Restart,
         Restored, nvs
<1> QED BY <1>1, <1>2, <1>3, <1>4, <1>5 DEF Keep

LEMMA KeepRest == ASSUME DayTypeOK, Keep, Use \/ Poll \/ ReplaceMeter \/ UNCHANGED dayVars
                  PROVE  Keep'
<1>1. UNCHANGED <<today, ram, nvs, behind, pc>>
  BY DEF Use, Poll, ReplaceMeter, ghosts, dayVars
<1> QED
  BY <1>1
     DEF Keep, Alone, Where, Dated, Published, Drifts, Kept, OnAnchor, DayStored, ram, nvs,
         Blank

LEMMA KeepMidnight == ASSUME DayTypeOK, Keep, Midnight PROVE Keep'
<1> USE DEF DayTypeOK, Anchors
<1>1. /\ UNCHANGED <<ram, nvs, behind, pc>> /\ Where = "idle" /\ pub = floor
      /\ today' = today + 1
  BY WhereIdle DEF Midnight, ghosts
<1> QED
  BY <1>1
     DEF Keep, Alone, Where, Dated, Published, Drifts, Kept, OnAnchor, DayStored, ram, nvs,
         Blank, Unsaved, Clearing

(* While no two tasks have been at the stores at once.                     *)
KeepWhile == ~overlap => Keep

LEMMA OverlapStays == ASSUME [DayNext]_dayVars, ~overlap' PROVE ~overlap
<1>1. CASE \E t \in Tasks : Roll(t) \/ SameOrSkip(t)
  BY <1>1 DEF Roll, SameOrSkip, Begin
<1>2. CASE Polled \/ ClearImage \/ Persist
  BY <1>2 DEF Polled, ClearImage, Persist
<1>3. CASE UNCHANGED overlap
  BY <1>3
<1> QED
  BY <1>1, <1>2, <1>3
     DEF DayNext, Tick, Clear, PutHist, PutAnchor, Morning, Wipe, Daily, SaveDate,
         SaveValue, ClearRest, Use, Poll, ReplaceMeter, Midnight, Restart, dayVars, ghosts,
         Tasks

LEMMA KeepStep == DayTypeOK /\ KeepWhile /\ [DayNext]_dayVars => KeepWhile'
<1> SUFFICES ASSUME DayTypeOK, KeepWhile, [DayNext]_dayVars, ~overlap' PROVE Keep'
  BY DEF KeepWhile
<1>1. ~overlap
  BY OverlapStays
<1>2. Keep
  BY <1>1 DEF KeepWhile
<1> QED
  BY <1>2, KeepRoll, KeepSame, KeepHist, KeepAnchor, KeepMorning, KeepWipe, KeepDaily,
     KeepSaves, KeepPolled, KeepClear, KeepClears, KeepPersist, KeepRestart, KeepRest,
     KeepMidnight
     DEF DayNext, Tick, Clear, Tasks

(* A restart between two ticks keeps the energy of a day whose anchor is   *)
(* stored and still in use, but for what grew below a larger counter since *)
(* the last save, for every size of the ring, whatever meters, late        *)
(* readings, failing writes and resets came before.                        *)
THEOREM KeepsDay == DaySpec => RestartKeepsDay
<1> DEFINE Step == Restart /\ Idle /\ ~overlap /\ date # 0 /\ anchor = img.anchor
                     /\ anchor.date = date /\ anchor.j0 = j0
                       => floor' <= floor /\ (floor' = floor \/ (behind /\ floor <= saved))
<1>1. DayInit => KeepWhile
  BY KeepInit DEF KeepWhile
<1>2. DayTypeOK /\ KeepWhile /\ [DayNext]_dayVars => [Step]_dayVars
  <2> SUFFICES ASSUME KeepWhile, Restart, Idle, ~overlap, date # 0, anchor = img.anchor,
                      anchor.date = date, anchor.j0 = j0
               PROVE  floor' <= floor /\ (floor' = floor \/ (behind /\ floor <= saved))
    OBVIOUS
  <2>1. Where = "idle"
    BY WhereIdle
  <2> QED BY <2>1 DEF KeepWhile, Keep, Kept, OnAnchor, DayStored, Restart, Restored
<1> QED BY <1>1, <1>2, DayAlwaysTyped, KeepStep, PTL DEF DaySpec, RestartKeepsDay
-----------------------------------------------------------------------------
(* No energy is counted twice.                                             *)

(* The days of a ring, with and without the one the next midnight          *)
(* overwrites.                                                             *)
Whole(X)   == Total(X, Slots)
Rest(X, i) == Total(X, Slots \ {(i + 1) % Cap})

LEMMA SlotsFinite == IsFiniteSet(Slots) /\ \A T \in SUBSET Slots : IsFiniteSet(T)
<1>1. IsFiniteSet(0 .. Cap - 1)
  <2>1. 0 \in Int /\ Cap - 1 \in Int
    BY DayConstants
  <2> QED BY <2>1, FS_Interval
<1> QED BY <1>1, FS_Subset DEF Slots

LEMMA RingSums == ASSUME NEW X \in [Slots -> Nat], NEW i \in Slots
                  PROVE  Rest(X, i) \in Nat /\ Whole(X) \in Nat /\ Rest(X, i) <= Whole(X)
<1> DEFINE n == (i + 1) % Cap
<1>1. n \in Slots
  BY SlotAfter
<1> HIDE DEF n
<1>2. Total(X, Slots) = Total(X, Slots \ {n}) + X[n]
  BY <1>1, SlotsFinite, TotalSplit
<1>3. Total(X, Slots) \in Nat /\ Total(X, Slots \ {n}) \in Nat
  BY SlotsFinite, TotalNat
<1>4. X[n] \in Nat
  BY <1>1
<1> QED BY <1>2, <1>3, <1>4 DEF Rest, Whole, n

(* Midnight puts a day into the slot it overwrites.                        *)
LEMMA RingPut == ASSUME NEW X \in [Slots -> Nat], NEW i \in Slots, NEW p \in Nat, NEW Y,
                        Y = [X EXCEPT ![(i + 1) % Cap] = p]
                 PROVE  /\ Y \in [Slots -> Nat]
                        /\ Whole(Y) = Rest(X, i) + p /\ Rest(Y, i) = Rest(X, i)
<1> DEFINE n == (i + 1) % Cap
<1>1. n \in Slots
  BY SlotAfter
<1> HIDE DEF n
<1>2. Y \in [Slots -> Nat] /\ Y[n] = p /\ \A s \in Slots \ {n} : Y[s] = X[s]
  BY <1>1 DEF n
<1>3. Total(Y, Slots) = Total(Y, Slots \ {n}) + Y[n]
  <2>1. \A s \in Slots : Y[s] \in Nat
    BY <1>2
  <2> QED BY <1>1, <2>1, SlotsFinite, TotalSplit
<1>4. Total(Y, Slots \ {n}) = Total(X, Slots \ {n})
  BY <1>2, SlotsFinite, TotalSame
<1> QED BY Zenon, <1>2, <1>3, <1>4 DEF Rest, Whole, n

LEMMA RingBlank == ASSUME NEW i \in Slots, NEW X, X = [s \in Slots |-> 0]
                   PROVE  Whole(X) = 0 /\ Rest(X, i) = 0
<1> DEFINE n == (i + 1) % Cap
<1>1. \A u \in SUBSET Slots : Total(X, u) = 0
  <2> DEFINE B == {u \in SUBSET Slots : Total(X, u) # 0}
  <2> SUFFICES ASSUME B # {} PROVE FALSE
    OBVIOUS
  <2>1. PICK u \in B : \A x \in u : u \ {x} \notin B
    BY SlotsFinite, Smallest
  <2>2. Total(X, u) = IF u = {} THEN 0 ELSE Total(X, u \ {Pick(u)}) + X[Pick(u)]
    BY SlotsFinite, TotalStep
  <2>3. u # {} => Pick(u) \in u
    BY PickIn
  <2> QED BY <2>1, <2>2, <2>3
<1> QED BY <1>1 DEF Rest, Whole

(* How far a meter at a is above one at b.                                 *)
Above(a, b) == IF a > b THEN a - b ELSE 0

(* The sums of the two rings over each of the three anchors are sizes.     *)
LEMMA Sizes == ASSUME DayTypeOK
               PROVE  /\ \A X \in {img.ring, hist} : \A i \in {idx, img.anchor.idx, anchor.idx} :
                           Rest(X, i) \in Nat /\ Whole(X) \in Nat /\ Rest(X, i) <= Whole(X)
                      /\ today \in Nat /\ used \in Nat /\ register \in Nat /\ cum \in Nat
                      /\ j0 \in Nat /\ floor \in Nat /\ pub \in Nat /\ date \in Nat
                      /\ anchor.j0 \in Nat /\ img.anchor.j0 \in Nat
                      /\ anchor.date \in Nat /\ img.anchor.date \in Nat
                      /\ intra.wh \in Nat /\ since.ram \in Nat /\ since.flash \in Nat
<1>1. img.ring \in [Slots -> Nat] /\ hist \in [Slots -> Nat]
  BY DEF DayTypeOK
<1>2. idx \in Slots /\ img.anchor.idx \in Slots /\ anchor.idx \in Slots
  BY DEF DayTypeOK, Anchors
<1>3. \A X \in {img.ring, hist} : \A i \in {idx, img.anchor.idx, anchor.idx} :
        Rest(X, i) \in Nat /\ Whole(X) \in Nat /\ Rest(X, i) <= Whole(X)
  BY <1>1, <1>2, RingSums
<1> QED BY <1>3, DayConstants DEF DayTypeOK, Anchors

(* The counter of the day and its anchor, as a rollover leaves them.       *)
DayFloor == IF Where \in Unsaved THEN 0 ELSE floor
DayJ0    == IF Where \in Unsaved THEN img.anchor.j0 ELSE j0

(* The other days of a ring, the day so far and what the meter shows more  *)
(* than the counter have all been used.                                    *)
DayFits(X) ==
  /\ Rest(X, idx) + DayFloor <= used
  /\ cum > 0 => Rest(X, idx) + DayFloor + Above(register, cum) <= used
  /\ DayJ0 > 0 => /\ Rest(X, idx) + Above(cum, DayJ0) <= used
                  /\ Rest(X, idx) + Above(register, DayJ0) <= used

(* So have all days of a ring, without the day so far.                     *)
RingFits(X) == Whole(X) <= used /\ (cum > 0 => Whole(X) + Above(register, cum) <= used)

(* What the meter shows more than an anchor has been used.                 *)
AnchorFits(B) == B.j0 > 0 => Above(register, B.j0) <= used

(* What the rings and anchors of RAM and flash account for has been used.  *)
Ledger ==
  /\ DayFits(img.ring) /\ (img.anchor.date # 0 => DayFits(hist))
  /\ RingFits(img.ring) /\ RingFits(hist)
  /\ AnchorFits(img.anchor) /\ AnchorFits(anchor)

(* A ring and an anchor from which a restart may count, the ring not ahead *)
(* of the anchor.                                                          *)
PairFits(X, s, B) ==
  B.j0 > 0 /\ s <= B.date => Rest(X, B.idx) + Above(register, B.j0) <= used

Pairs ==
  /\ PairFits(img.ring, since.ram, img.anchor) /\ PairFits(img.ring, since.ram, anchor)
  /\ PairFits(hist, since.flash, img.anchor) /\ PairFits(hist, since.flash, anchor)

(* A ring and the stored counter of the day that an anchor would restore.  *)
StoreFits(X, B) ==
  B.date # 0 /\ intra.date = B.date => Rest(X, B.idx) + intra.wh <= used

Stores ==
  /\ Where \notin Unsaved \cup {"wipe", "value"} =>
       StoreFits(img.ring, img.anchor) /\ StoreFits(hist, img.anchor)
  /\ Where \notin {"morning", "wipe", "value"} =>
       StoreFits(img.ring, anchor) /\ StoreFits(hist, anchor)

(* The stored anchor is the one in RAM or an earlier one, whose counter    *)
(* the rollover has erased.                                                *)
Lineage ==
  /\ Where \notin {"clear-hist", "clear-anchor"} =>
       anchor = img.anchor \/ anchor.date < img.anchor.date
  /\ anchor.date < img.anchor.date /\ Where \notin Unsaved \cup {"wipe"} =>
       anchor.date = 0 \/ intra.date # anchor.date

(* The whole account, from which NoDoubleCount is read off.                *)
Counted == Ledger /\ Pairs /\ Stores /\ Lineage

LEMMA CountedInit == DayInit => Counted
<1> SUFFICES ASSUME DayInit PROVE Counted
  OBVIOUS
<1>1. 0 \in Slots
  BY DayConstants DEF Slots
<1>2. hist = [s \in Slots |-> 0] /\ img.ring = hist
  BY DEF DayInit
<1>3. Whole(hist) = 0 /\ Rest(hist, 0) = 0
  BY <1>1, <1>2, RingBlank
<1>4. /\ used = 0 /\ cum = 0 /\ j0 = 0 /\ floor = 0 /\ idx = 0 /\ Where = "idle"
      /\ anchor = Blank /\ img.anchor = Blank
  BY DEF DayInit, Where, Nowhere, Tasks
<1> QED
  BY <1>2, <1>3, <1>4
     DEF Counted, Ledger, Pairs, Stores, Lineage, DayFits, RingFits, AnchorFits, PairFits,
         StoreFits, DayFloor, DayJ0, Unsaved, Blank

LEMMA CountedSame == ASSUME DayTypeOK, DayTypeOK', Keep, Keep', Counted,
                            NEW t \in Tasks, SameOrSkip(t), ~overlap', ~torn'
                     PROVE  Counted'
<1>1. pc \in [Tasks -> Places] /\ Alone
  BY DEF DayTypeOK, Places, Keep
<1>2. Where = "idle" /\ Where' \in {"daily", "idle"}
  BY <1>1, WhereMoves DEF SameOrSkip, Begin, After
<1>3. UNCHANGED <<used, register, cum, j0, floor, idx, img, hist, anchor, intra, since>>
  BY DEF SameOrSkip, meter, nvs
<1>4. Ledger'
  BY <1>2, <1>3, Sizes
     DEF Counted, Ledger, DayFits, RingFits, AnchorFits, DayFloor, DayJ0, Above, Unsaved
<1>5. Pairs'
  BY <1>2, <1>3, Sizes DEF Counted, Pairs, PairFits, Above
<1>6. Stores'
  BY <1>2, <1>3, Sizes DEF Counted, Stores, StoreFits, Unsaved
<1>7. Lineage'
  BY <1>2, <1>3, Sizes DEF Counted, Lineage, Unsaved
<1> QED BY <1>4, <1>5, <1>6, <1>7 DEF Counted

LEMMA CountedHist == ASSUME DayTypeOK, DayTypeOK', Keep, Keep', Counted,
                            NEW t \in Tasks, PutHist(t, "hist", "anchor"), ~overlap', ~torn'
                     PROVE  Counted'
<1>1. pc \in [Tasks -> Places] /\ Alone
  BY DEF DayTypeOK, Places, Keep
<1>2. Where = "hist" /\ Where' = "anchor"
  BY <1>1, WhereMoves DEF PutHist
<1>3. /\ UNCHANGED <<used, register, cum, j0, floor, idx, img, anchor, intra>>
      /\ since'.ram = since.ram
      /\ \/ hist' = img.ring /\ since'.flash = since.ram
         \/ hist' = hist /\ since'.flash = since.flash
  BY DEF PutHist, HistSaved, meter, ram, DayTypeOK
<1>4. Ledger'
  BY <1>2, <1>3, Sizes
     DEF Counted, Ledger, DayFits, RingFits, AnchorFits, DayFloor, DayJ0, Above, Unsaved
<1>5. Pairs'
  BY <1>2, <1>3, Sizes DEF Counted, Pairs, PairFits, Above
<1>6. Stores'
  BY <1>2, <1>3, Sizes DEF Counted, Stores, StoreFits, Unsaved
<1>7. Lineage'
  BY <1>2, <1>3, Sizes DEF Counted, Lineage, Unsaved
<1> QED BY <1>4, <1>5, <1>6, <1>7 DEF Counted

LEMMA CountedAnchor == ASSUME DayTypeOK, DayTypeOK', Keep, Keep', Counted,
                              NEW t \in Tasks, PutAnchor(t, "anchor", "morning"), ~overlap', ~torn'
                       PROVE  Counted'
<1>1. pc \in [Tasks -> Places] /\ Alone
  BY DEF DayTypeOK, Places, Keep
<1>2. Where = "anchor" /\ Where' = "morning"
  BY <1>1, WhereMoves DEF PutAnchor
<1>3. /\ UNCHANGED <<used, register, cum, j0, floor, idx, img, hist, intra, since>>
      /\ anchor' \in {anchor, img.anchor}
  BY DEF PutAnchor, meter, ram
<1>4. Ledger'
  BY <1>2, <1>3, Sizes
     DEF Counted, Ledger, DayFits, RingFits, AnchorFits, DayFloor, DayJ0, Above, Unsaved
<1>5. Pairs'
  BY <1>2, <1>3, Sizes DEF Counted, Pairs, PairFits, Above
<1>6. Stores'
  BY <1>2, <1>3, Sizes DEF Counted, Stores, StoreFits, Unsaved
<1>7. Lineage'
  BY <1>2, <1>3, Sizes DEF Counted, Lineage, Unsaved
<1> QED BY <1>4, <1>5, <1>6, <1>7 DEF Counted

LEMMA CountedMorning == ASSUME DayTypeOK, DayTypeOK', Keep, Keep', Counted,
                               NEW t \in Tasks, Morning(t), ~overlap', ~torn'
                        PROVE  Counted'
<1>1. pc \in [Tasks -> Places] /\ Alone
  BY DEF DayTypeOK, Places, Keep
<1>2. Where = "morning" /\ Where' = "wipe"
  BY <1>1, WhereMoves DEF Morning
<1>3. /\ UNCHANGED <<used, register, cum, img, hist, anchor, intra, since>>
      /\ j0' = img.anchor.j0 /\ floor' = 0 /\ idx' = idx
  <2>1. img.anchor.date # 0
    BY <1>2 DEF Keep, Dated, Unsaved, DayTypeOK
  <2> QED BY <2>1 DEF Morning, Floors, meter, nvs, ghosts, Keep, Dated
<1>4. Ledger'
  BY <1>2, <1>3, Sizes
     DEF Counted, Ledger, DayFits, RingFits, AnchorFits, DayFloor, DayJ0, Above, Unsaved
<1>5. Pairs'
  BY <1>2, <1>3, Sizes DEF Counted, Pairs, PairFits, Above
<1>6. Stores'
  BY <1>2, <1>3, Sizes DEF Counted, Stores, StoreFits, Unsaved
<1>7. Lineage'
  BY <1>2, <1>3, Sizes DEF Counted, Lineage, Unsaved
<1> QED BY <1>4, <1>5, <1>6, <1>7 DEF Counted

LEMMA CountedWipe == ASSUME DayTypeOK, DayTypeOK', Keep, Keep', Counted,
                            NEW t \in Tasks, Wipe(t), ~overlap', ~torn'
                     PROVE  Counted'
<1>1. pc \in [Tasks -> Places] /\ Alone
  BY DEF DayTypeOK, Places, Keep
<1>2. Where = "wipe" /\ Where' \in {"daily", "idle"}
  BY <1>1, WhereMoves DEF Wipe, After
<1>3. UNCHANGED <<used, register, cum, j0, floor, idx, img, hist, anchor, since>> /\ intra' = NoDay
  BY DEF Wipe, Forget, meter
<1>4. Ledger'
  BY <1>2, <1>3, Sizes
     DEF Counted, Ledger, DayFits, RingFits, AnchorFits, DayFloor, DayJ0, Above, Unsaved
<1>5. Pairs'
  BY <1>2, <1>3, Sizes DEF Counted, Pairs, PairFits, Above
<1>6. Stores'
  BY <1>2, <1>3, Sizes DEF Counted, Stores, StoreFits, Unsaved, NoDay
<1>7. Lineage'
  BY <1>2, <1>3, Sizes DEF Counted, Lineage, Unsaved, NoDay
<1> QED BY <1>4, <1>5, <1>6, <1>7 DEF Counted

LEMMA CountedDaily == ASSUME DayTypeOK, DayTypeOK', Keep, Keep', Counted,
                             NEW t \in Tasks, Daily(t), ~overlap', ~torn'
                      PROVE  Counted'
<1>1. pc \in [Tasks -> Places] /\ Alone
  BY DEF DayTypeOK, Places, Keep
<1>2. Where = "daily" /\ Where' \in {"save", "idle"}
  BY <1>1, DailyMoves
<1>3. UNCHANGED <<used, register, cum, idx, img, hist, anchor, intra, since>>
  BY DEF Daily, meter, nvs, ghosts
<1>4. Counts
  BY DailyCounts DEF DayTypeOK
<1>5. Ledger'
  BY <1>2, <1>3, <1>4, Sizes
     DEF Counted, Ledger, DayFits, RingFits, AnchorFits, DayFloor, DayJ0, Above, Counts,
         Unsaved
<1>6. Pairs'
  BY <1>2, <1>3, <1>4, Sizes DEF Counted, Pairs, PairFits, Above
<1>7. Stores'
  BY <1>2, <1>3, <1>4, Sizes DEF Counted, Stores, StoreFits, Unsaved
<1>8. Lineage'
  BY <1>2, <1>3, <1>4, Sizes DEF Counted, Lineage, Unsaved
<1> QED BY <1>5, <1>6, <1>7, <1>8 DEF Counted

LEMMA CountedSaveDate == ASSUME DayTypeOK, DayTypeOK', Keep, Keep', Counted,
                                NEW t \in Tasks, SaveDate(t), ~overlap', ~torn'
                         PROVE  Counted'
<1>1. pc \in [Tasks -> Places] /\ Alone
  BY DEF DayTypeOK, Places, Keep
<1>2. Where = "save" /\ Where' = "value"
  BY <1>1, WhereMoves DEF SaveDate
<1>3. /\ UNCHANGED <<used, register, cum, j0, floor, idx, img, hist, anchor, since>>
      /\ intra'.date = date /\ img.anchor.date <= date
  BY <1>2 DEF SaveDate, meter, ram, ghosts, DayTypeOK, Keep, Dated, Unsaved
<1>4. Ledger'
  BY <1>2, <1>3, Sizes
     DEF Counted, Ledger, DayFits, RingFits, AnchorFits, DayFloor, DayJ0, Above, Unsaved
<1>5. Pairs'
  BY <1>2, <1>3, Sizes DEF Counted, Pairs, PairFits, Above
<1>6. Stores'
  BY <1>2, <1>3, Sizes DEF Counted, Stores, StoreFits, Unsaved
<1>7. Lineage'
  BY <1>2, <1>3, Sizes DEF Counted, Lineage, Unsaved
<1> QED BY <1>4, <1>5, <1>6, <1>7 DEF Counted

LEMMA CountedSaveValue == ASSUME DayTypeOK, DayTypeOK', Keep, Keep', Counted,
                                 NEW t \in Tasks, SaveValue(t), ~overlap', ~torn'
                          PROVE  Counted'
<1>1. pc \in [Tasks -> Places] /\ Alone
  BY DEF DayTypeOK, Places, Keep
<1>2. Where = "value" /\ Where' = "idle"
  BY <1>1, WhereMoves DEF SaveValue
<1>3. /\ UNCHANGED <<used, register, cum, j0, floor, idx, img, hist, anchor, since>>
      /\ intra'.wh = floor /\ intra'.date = date /\ intra.date = date /\ img.anchor.date <= date
      /\ img.anchor.date # 0 => idx = img.anchor.idx
  BY <1>2 DEF SaveValue, Saved, meter, ghosts, DayTypeOK, Keep, Dated, Published, Unsaved
<1>4. Ledger'
  BY <1>2, <1>3, Sizes
     DEF Counted, Ledger, DayFits, RingFits, AnchorFits, DayFloor, DayJ0, Above, Unsaved
<1>5. Pairs'
  BY <1>2, <1>3, Sizes DEF Counted, Pairs, PairFits, Above
<1>6. Stores'
  <2>1. DayFits(img.ring) /\ (img.anchor.date # 0 => DayFits(hist))
    BY DEF Counted, Ledger
  <2>2. DayFloor = floor
    BY <1>2 DEF DayFloor, Unsaved
  <2>3. StoreFits(img.ring, img.anchor)' /\ StoreFits(hist, img.anchor)'
    BY <1>3, <2>1, <2>2 DEF DayFits, StoreFits
  <2>4. anchor = img.anchor \/ anchor.date # date
    BY <1>2, <1>3, Sizes DEF Counted, Lineage
  <2>5. StoreFits(img.ring, anchor)' /\ StoreFits(hist, anchor)'
    BY <1>3, <2>3, <2>4 DEF StoreFits
  <2> QED BY <2>3, <2>5 DEF Stores
<1>7. Lineage'
  BY <1>2, <1>3, Sizes DEF Counted, Lineage, Unsaved
<1> QED BY <1>4, <1>5, <1>6, <1>7 DEF Counted

LEMMA CountedClearImage == ASSUME DayTypeOK, DayTypeOK', Keep, Keep', Counted,
                                  ClearImage, ~overlap', ~torn'
                           PROVE  Counted'
<1>1. pc \in [Tasks -> Places] /\ Alone
  BY DEF DayTypeOK, Places, Keep
<1>2. Where = "idle" /\ Where' = "clear-hist"
  BY <1>1, WhereMoves DEF ClearImage, Tasks
<1>3. /\ UNCHANGED <<used, register, cum, j0, floor, idx, hist, anchor, intra>>
      /\ img'.anchor = Blank /\ since'.flash = since.flash
  BY DEF ClearImage, meter, nvs, DayTypeOK
<1>4. Whole(img'.ring) = 0 /\ Rest(img'.ring, idx) = 0 /\ Rest(img'.ring, anchor.idx) = 0
  <2>1. img'.ring = [s \in Slots |-> 0] /\ idx \in Slots /\ anchor.idx \in Slots
    BY DEF ClearImage, DayTypeOK, Anchors
  <2> QED BY <2>1, RingBlank
<1>5. Ledger'
  BY <1>2, <1>3, <1>4, Sizes
     DEF Counted, Ledger, DayFits, RingFits, AnchorFits, DayFloor, DayJ0, Above, Unsaved,
         Blank
<1>6. Pairs'
  BY <1>2, <1>3, <1>4, Sizes DEF Counted, Pairs, PairFits, Above, Blank, Ledger, AnchorFits
<1>7. Stores'
  BY <1>2, <1>3, <1>4, Sizes DEF Counted, Stores, StoreFits, Unsaved, Blank
<1>8. Lineage'
  BY <1>2, <1>3, <1>4, Sizes DEF Counted, Lineage, Unsaved, Blank
<1> QED BY <1>5, <1>6, <1>7, <1>8 DEF Counted

LEMMA CountedClears == ASSUME DayTypeOK, DayTypeOK', Keep, Keep', Counted,
                              \/ PutHist("loop", "clear-hist", "clear-anchor")
                              \/ PutAnchor("loop", "clear-anchor", "clear-rest"),
                              ~overlap', ~torn'
                       PROVE  Counted'
<1>1. pc \in [Tasks -> Places] /\ Alone
  BY DEF DayTypeOK, Places, Keep
<1>2. \/ Where = "clear-hist" /\ Where' = "clear-anchor" /\ UNCHANGED anchor
      \/ Where = "clear-anchor" /\ Where' = "clear-rest" /\ anchor' = img.anchor
  <2>1. CASE PutHist("loop", "clear-hist", "clear-anchor")
    BY <1>1, <2>1, WhereMoves DEF PutHist, Tasks
  <2>2. CASE PutAnchor("loop", "clear-anchor", "clear-rest")
    <3>1. torn' = (torn \/ anchor' # img.anchor)
      BY <2>2 DEF PutAnchor
    <3>2. anchor' = img.anchor
      BY <3>1 DEF DayTypeOK
    <3> QED BY <1>1, <2>2, <3>2, WhereMoves DEF PutAnchor, Tasks
  <2> QED BY <2>1, <2>2
<1>3. /\ UNCHANGED <<used, register, cum, j0, floor, idx, img, intra>> /\ since'.ram = since.ram
      /\ \/ hist' = img.ring /\ since'.flash = since.ram
         \/ hist' = hist /\ since'.flash = since.flash
      /\ img.anchor = Blank
  BY <1>2 DEF PutHist, PutAnchor, HistSaved, meter, ram, DayTypeOK, Keep, Dated, Clearing
<1>4. Ledger'
  BY <1>2, <1>3, Sizes
     DEF Counted, Ledger, DayFits, RingFits, AnchorFits, DayFloor, DayJ0, Above, Unsaved,
         Blank
<1>5. Pairs'
  BY <1>2, <1>3, Sizes DEF Counted, Pairs, PairFits, Above, Blank
<1>6. Stores'
  BY <1>2, <1>3, Sizes DEF Counted, Stores, StoreFits, Unsaved, Blank
<1>7. Lineage'
  BY <1>2, <1>3, Sizes DEF Counted, Lineage, Unsaved, Blank
<1> QED BY <1>4, <1>5, <1>6, <1>7 DEF Counted

LEMMA CountedClearRest == ASSUME DayTypeOK, DayTypeOK', Keep, Keep', Counted,
                                 ClearRest, ~overlap', ~torn'
                          PROVE  Counted'
<1>1. pc \in [Tasks -> Places] /\ Alone
  BY DEF DayTypeOK, Places, Keep
<1>2. Where = "clear-rest" /\ Where' = "idle"
  BY <1>1, WhereMoves DEF ClearRest, Tasks
<1>3. /\ UNCHANGED <<used, register, cum, j0, floor, img, hist, anchor, since>>
      /\ img.anchor = Blank /\ intra' = NoDay
  BY <1>2 DEF ClearRest, Forget, meter, Keep, Dated, Clearing
<1>4. Rest(img.ring, idx) = 0 /\ Rest(img.ring, idx') = 0
  <2>1. img.ring = [s \in Slots |-> 0] /\ idx \in Slots /\ idx' \in Slots
    BY <1>2 DEF Keep, Dated, Clearing, DayTypeOK
  <2> QED BY <2>1, RingBlank
<1>5. Ledger'
  BY <1>2, <1>3, <1>4, Sizes
     DEF Counted, Ledger, DayFits, RingFits, AnchorFits, DayFloor, DayJ0, Above, Unsaved,
         Blank
<1>6. Pairs'
  BY <1>2, <1>3, <1>4, Sizes DEF Counted, Pairs, PairFits, Above, Blank
<1>7. Stores'
  BY <1>2, <1>3, <1>4, Sizes DEF Counted, Stores, StoreFits, Unsaved, Blank, NoDay
<1>8. Lineage'
  BY <1>2, <1>3, <1>4, Sizes DEF Counted, Lineage, Unsaved, Blank
<1> QED BY <1>5, <1>6, <1>7, <1>8 DEF Counted

LEMMA CountedPolled == ASSUME DayTypeOK, DayTypeOK', Keep, Keep', Counted,
                              Polled, ~overlap', ~torn'
                       PROVE  Counted'
<1>1. pc \in [Tasks -> Places] /\ Alone
  BY DEF DayTypeOK, Places, Keep
<1>2. Where = "idle" /\ Where' = "daily"
  BY <1>1, WhereMoves DEF Polled, Tasks
<1>3. UNCHANGED <<used, register, cum, j0, floor, idx, img, hist, anchor, intra, since>>
  BY DEF Polled, meter, ram, nvs
<1>4. Ledger'
  BY <1>2, <1>3
     DEF Counted, Ledger, DayFits, RingFits, AnchorFits, DayFloor, DayJ0, Unsaved
<1>5. Pairs'
  BY <1>2, <1>3 DEF Counted, Pairs, PairFits
<1>6. Stores'
  BY <1>2, <1>3 DEF Counted, Stores, StoreFits, Unsaved
<1>7. Lineage'
  BY <1>2, <1>3 DEF Counted, Lineage, Unsaved
<1> QED BY <1>4, <1>5, <1>6, <1>7 DEF Counted

LEMMA CountedPersist == ASSUME DayTypeOK, DayTypeOK', Keep, Keep', Counted,
                               Persist, ~overlap', ~torn'
                        PROVE  Counted'
<1>1. pc \in [Tasks -> Places] /\ Alone
  BY DEF DayTypeOK, Places, Keep
<1>2. Where = "idle" /\ Where' = "idle"
  BY <1>1, WhereMoves DEF Persist, Tasks
<1>3. /\ UNCHANGED <<used, register, cum, j0, floor, idx, img, intra>> /\ since'.ram = since.ram
      /\ \/ hist' = img.ring /\ since'.flash = since.ram
         \/ hist' = hist /\ since'.flash = since.flash
      /\ anchor' \in {anchor, img.anchor}
  BY DEF Persist, HistSaved, meter, ram, DayTypeOK
<1>4. Ledger'
  BY <1>2, <1>3, Sizes
     DEF Counted, Ledger, DayFits, RingFits, AnchorFits, DayFloor, DayJ0, Above, Unsaved
<1>5. Pairs'
  BY <1>2, <1>3, Sizes DEF Counted, Pairs, PairFits, Above
<1>6. Stores'
  BY <1>2, <1>3, Sizes DEF Counted, Stores, StoreFits, Unsaved
<1>7. Lineage'
  BY <1>2, <1>3, Sizes DEF Counted, Lineage, Unsaved
<1> QED BY <1>4, <1>5, <1>6, <1>7 DEF Counted

LEMMA CountedMeter == ASSUME DayTypeOK, DayTypeOK', Keep, Keep', Counted,
                             Use \/ Poll \/ ReplaceMeter, ~overlap', ~torn'
                      PROVE  Counted'
<1>1. UNCHANGED Where
  BY DEF Where, Use, Poll, ReplaceMeter
<1>2. /\ UNCHANGED <<j0, floor, idx, img, hist, anchor, intra, since>>
      /\ \/ used' = used + 1 /\ register' = register + 1 /\ cum' = cum
         \/ used' = used /\ register' = register /\ cum' \in {cum, register}
         \/ used' = used /\ register' \in 0 .. register /\ cum' = cum
  BY DEF Use, Poll, ReplaceMeter, ram, nvs, ghosts, DayTypeOK
<1>3. Ledger'
  <2>1. CASE used' = used + 1 /\ register' = register + 1 /\ cum' = cum
    BY <1>1, <1>2, <2>1, Sizes
       DEF Counted, Ledger, DayFits, RingFits, AnchorFits, DayFloor, DayJ0, Above
  <2>2. CASE used' = used /\ register' = register /\ cum' \in {cum, register}
    BY <1>1, <1>2, <2>2, Sizes
       DEF Counted, Ledger, DayFits, RingFits, AnchorFits, DayFloor, DayJ0, Above
  <2>3. CASE used' = used /\ register' \in 0 .. register /\ cum' = cum
    BY <1>1, <1>2, <2>3, Sizes
       DEF Counted, Ledger, DayFits, RingFits, AnchorFits, DayFloor, DayJ0, Above
  <2> QED BY <1>2, <2>1, <2>2, <2>3
<1>4. Pairs'
  <2>1. CASE used' = used + 1 /\ register' = register + 1 /\ cum' = cum
    BY <1>1, <1>2, <2>1, Sizes DEF Counted, Pairs, PairFits, Above
  <2>2. CASE used' = used /\ register' = register /\ cum' \in {cum, register}
    BY <1>1, <1>2, <2>2, Sizes DEF Counted, Pairs, PairFits, Above
  <2>3. CASE used' = used /\ register' \in 0 .. register /\ cum' = cum
    BY <1>1, <1>2, <2>3, Sizes DEF Counted, Pairs, PairFits, Above
  <2> QED BY <1>2, <2>1, <2>2, <2>3
<1>5. Stores'
  BY <1>1, <1>2, Sizes DEF Counted, Stores, StoreFits
<1>6. Lineage'
  BY <1>1, <1>2, Sizes DEF Counted, Lineage
<1> QED BY <1>3, <1>4, <1>5, <1>6 DEF Counted

LEMMA CountedStill == ASSUME DayTypeOK, DayTypeOK', Keep, Keep', Counted,
                             Midnight \/ UNCHANGED dayVars, ~overlap', ~torn'
                      PROVE  Counted'
<1>1. UNCHANGED Where
  BY DEF Where, Midnight, dayVars
<1>2. UNCHANGED <<used, register, cum, j0, floor, idx, img, hist, anchor, intra, since>>
  BY DEF Midnight, dayVars, meter, ram, nvs, ghosts
<1>3. Ledger'
  BY <1>1, <1>2, Sizes
     DEF Counted, Ledger, DayFits, RingFits, AnchorFits, DayFloor, DayJ0, Above
<1>4. Pairs'
  BY <1>1, <1>2, Sizes DEF Counted, Pairs, PairFits, Above
<1>5. Stores'
  BY <1>1, <1>2, Sizes DEF Counted, Stores, StoreFits
<1>6. Lineage'
  BY <1>1, <1>2, Sizes DEF Counted, Lineage
<1> QED BY <1>3, <1>4, <1>5, <1>6 DEF Counted

LEMMA CountedRoll == ASSUME DayTypeOK, DayTypeOK', Keep, Keep', Counted,
                            NEW t \in Tasks, Roll(t), ~overlap', ~torn'
                     PROVE  Counted'
<1>1. pc \in [Tasks -> Places] /\ Alone
  BY DEF DayTypeOK, Places, Keep
<1>2. Where = "idle" /\ Where' = "hist"
  BY <1>1, WhereMoves DEF Roll, Begin
<1>3. /\ UNCHANGED <<used, register, cum, j0, floor, hist, anchor, intra>>
      /\ since'.ram = img.anchor.date /\ since'.flash = since.flash
      /\ img'.anchor.j0 = cum /\ img'.anchor.date = today /\ img'.anchor.idx = idx'
  BY DEF Roll, meter, nvs, DayTypeOK
<1>4. /\ img.anchor.date < today /\ anchor.date <= today
      /\ img.anchor.date # 0 => idx = img.anchor.idx
      /\ img.anchor.date = 0 => img.anchor.j0 = 0
      /\ j0 = img.anchor.j0 \/ (0 < j0 /\ j0 < img.anchor.j0) \/ img.anchor.j0 = 0
  BY <1>2, Sizes DEF Roll, Rolls, Keep, Dated, Drifts, Unsaved, Blank
<1>5. Whole(img'.ring) = Rest(img.ring, idx) + floor /\ Rest(img'.ring, idx) = Rest(img.ring, idx)
  <2>1. pub = floor
    BY <1>2 DEF Keep, Published, Roll, Rolls
  <2>2. img'.ring = [img.ring EXCEPT ![(idx + 1) % Cap] = pub]
    BY DEF Roll, NextSlot
  <2>3. img.ring \in [Slots -> Nat] /\ idx \in Slots /\ pub \in Nat
    BY DEF DayTypeOK
  <2> QED BY <2>1, <2>2, <2>3, RingPut
<1>6. /\ Rest(img'.ring, idx') \in Nat /\ Rest(img'.ring, idx') <= Whole(img'.ring)
      /\ Whole(img'.ring) \in Nat
      /\ Rest(hist, idx') \in Nat /\ Rest(hist, idx') <= Whole(hist)
  <2>1. img'.ring \in [Slots -> Nat] /\ hist \in [Slots -> Nat] /\ idx' \in Slots
    BY DEF DayTypeOK
  <2> QED BY <2>1, RingSums
<1>7. /\ Rest(img.ring, idx) + floor <= used
      /\ cum > 0 => Rest(img.ring, idx) + floor + Above(register, cum) <= used
      /\ j0 > 0 => Rest(img.ring, idx) + Above(register, j0) <= used
      /\ RingFits(hist) /\ AnchorFits(anchor)
  BY <1>2 DEF Counted, Ledger, DayFits, DayFloor, DayJ0, Unsaved
<1>8. Ledger'
  <2>1. DayFloor' = 0 /\ DayJ0' = cum
    BY <1>2, <1>3 DEF DayFloor, DayJ0, Unsaved
  <2>2. RingFits(img.ring)' /\ RingFits(hist)'
    BY <1>3, <1>5, <1>7 DEF RingFits
  <2>3. AnchorFits(img.anchor)' /\ AnchorFits(anchor)'
    BY <1>3, <1>5, <1>6, <1>7, Sizes DEF AnchorFits, Above
  <2>4. DayFits(img.ring)'
    BY <1>3, <1>6, <2>1, <2>2, Sizes DEF DayFits, RingFits, Above
  <2>5. DayFits(hist)'
    BY <1>3, <1>6, <2>1, <2>2, Sizes DEF DayFits, RingFits, Above
  <2> QED BY <2>2, <2>3, <2>4, <2>5 DEF Ledger
<1>9. Pairs'
  <2>1. PairFits(img.ring, since.ram, img.anchor)'
    BY <1>3, <1>5, <1>6, <1>7, Sizes DEF PairFits, Above
  <2>2. PairFits(hist, since.flash, img.anchor)'
    BY <1>3, <1>6, <1>7, Sizes DEF PairFits, RingFits, Above
  <2>3. PairFits(img.ring, since.ram, anchor)'
    <3> SUFFICES ASSUME anchor.j0 > 0, img.anchor.date <= anchor.date
                 PROVE  Rest(img'.ring, anchor.idx) + Above(register, anchor.j0) <= used
      BY <1>3 DEF PairFits
    <3>1. anchor = img.anchor
      BY <1>2, Sizes DEF Counted, Lineage
    <3>2. anchor.idx = idx /\ 0 < j0 /\ j0 <= anchor.j0
      BY <1>4, <3>1, Sizes
    <3> QED BY <1>5, <1>7, <3>2, Sizes DEF Above
  <2>4. PairFits(hist, since.flash, anchor)'
    BY <1>3 DEF Counted, Pairs, PairFits
  <2> QED BY <2>1, <2>2, <2>3, <2>4 DEF Pairs
<1>10. Stores'
  <2>1. StoreFits(hist, anchor)'
    BY <1>2, <1>3 DEF Counted, Stores, StoreFits, Unsaved
  <2>2. StoreFits(img.ring, anchor)'
    <3> SUFFICES ASSUME anchor.date # 0, intra.date = anchor.date
                 PROVE  Rest(img'.ring, anchor.idx) + intra.wh <= used
      BY <1>3 DEF StoreFits
    <3>1. anchor = img.anchor
      BY <1>2 DEF Counted, Lineage, Unsaved
    <3>2. anchor.idx = idx /\ StoreFits(img.ring, anchor)
      BY <1>2, <1>4, <3>1 DEF Counted, Stores, Unsaved
    <3> QED BY <1>5, <3>2 DEF StoreFits
  <2> QED BY <1>2, <2>1, <2>2 DEF Stores, Unsaved
<1>11. Lineage'
  BY <1>2, <1>3, <1>4, Sizes DEF Counted, Lineage, Unsaved
<1> QED BY <1>8, <1>9, <1>10, <1>11 DEF Counted

LEMMA CountedRestart == ASSUME DayTypeOK, DayTypeOK', Keep, Keep', Counted,
                               Restart, ~overlap', ~torn'
                        PROVE  Counted'
<1>1. Where' = "idle"
  BY DEF Restart, Where, Nowhere, Tasks
<1>2. /\ UNCHANGED <<used, register, hist, anchor, intra>> /\ cum' = 0
      /\ img'.ring = hist /\ img'.anchor = anchor /\ idx' = anchor.idx /\ j0' = anchor.j0
      /\ since'.ram = since.flash /\ since'.flash = since.flash
      /\ floor' = IF anchor.date # 0 /\ intra.date = anchor.date THEN intra.wh ELSE 0
  BY DEF Restart, Restored, nvs, DayTypeOK
<1>3. (\A t \in Tasks : pc[t] # "value") /\ ~Stale /\ ~Ahead
  BY DEF Restart
<1>4. StoreFits(hist, anchor)
  <2> SUFFICES ASSUME anchor.date # 0, intra.date = anchor.date PROVE StoreFits(hist, anchor)
    BY DEF StoreFits
  <2>1. \A t \in Tasks : pc[t] \notin {"morning", "wipe", "value"}
    BY <1>3 DEF Stale, Restored
  <2>2. Where \notin {"morning", "wipe", "value"}
    BY <2>1 DEF Where, Tasks
  <2> QED BY <2>2 DEF Counted, Stores
<1>5. PairFits(hist, since.flash, anchor) /\ (anchor.j0 > 0 => since.flash <= anchor.date)
  BY <1>3, Sizes DEF Counted, Pairs, Ahead
<1>6. RingFits(hist) /\ AnchorFits(anchor)
  BY DEF Counted, Ledger
<1>7. Ledger'
  <2>1. DayFits(hist)'
    BY <1>1, <1>2, <1>4, <1>5, <1>6, Sizes
       DEF DayFits, DayFloor, DayJ0, StoreFits, PairFits, RingFits, Unsaved, Above
  <2> QED
    BY <1>2, <1>6, <2>1, Sizes DEF Ledger, RingFits, AnchorFits, DayFits, DayFloor, DayJ0
<1>8. Pairs'
  BY <1>2, <1>5 DEF Pairs, PairFits
<1>9. Stores'
  BY <1>1, <1>2, <1>4 DEF Stores, StoreFits
<1>10. Lineage'
  BY <1>1, <1>2, Sizes DEF Lineage
<1> QED BY <1>7, <1>8, <1>9, <1>10 DEF Counted

(* And nothing that belongs together has been torn.                        *)
CountedWhile == ~overlap /\ ~torn => Counted

LEMMA CountedStep ==
  DayTypeOK /\ DayTypeOK' /\ KeepWhile /\ KeepWhile' /\ CountedWhile /\ [DayNext]_dayVars
                       => CountedWhile'
<1> SUFFICES ASSUME DayTypeOK, DayTypeOK', KeepWhile, KeepWhile', CountedWhile, [DayNext]_dayVars,
                    ~overlap', ~torn'
             PROVE  Counted'
  BY DEF CountedWhile
<1>1. ~overlap
  BY OverlapStays
<1>2. ~torn
  <2>1. CASE \E t, from, to : PutAnchor(t, from, to)
    BY <2>1 DEF PutAnchor
  <2>2. CASE Restart
    BY <2>2 DEF Restart
  <2>3. CASE UNCHANGED torn
    BY <2>3
  <2> QED
    BY <2>1, <2>2, <2>3
       DEF DayNext, Tick, Clear, Roll, SameOrSkip, PutHist, Morning, Wipe, Daily, SaveDate,
           SaveValue, Polled, ClearImage, ClearRest, Persist, Use, Poll, ReplaceMeter, Midnight,
           dayVars, ghosts
<1>3. Keep /\ Keep' /\ Counted
  BY <1>1, <1>2 DEF KeepWhile, CountedWhile
<1> QED
  BY <1>3, CountedRoll, CountedSame, CountedHist, CountedAnchor, CountedMorning, CountedWipe,
     CountedDaily, CountedSaveDate, CountedSaveValue, CountedClearImage, CountedClears,
     CountedClearRest, CountedPolled, CountedPersist, CountedMeter, CountedStill, CountedRestart
     DEF DayNext, Tick, Clear, Tasks

(* No energy is counted in two days, for every size of the ring, every     *)
(* number of days and use, whatever restarts, failing writes, late         *)
(* readings, replaced meters and resets of the history do, short of what   *)
(* tears writes that belong together.                                      *)
THEOREM CountedOnce == DaySpec => []NoDoubleCount
<1>1. DayInit => CountedWhile /\ KeepWhile
  BY CountedInit, KeepInit DEF CountedWhile, KeepWhile
<1>2. DayTypeOK /\ KeepWhile /\ CountedWhile => NoDoubleCount
  <2> SUFFICES ASSUME DayTypeOK, Keep, Counted, ~Rolling PROVE Recorded + floor <= used
    BY DEF KeepWhile, CountedWhile, NoDoubleCount
  <2>1. Where \notin Unsaved
    BY DEF Rolling, Where, Unsaved, Tasks
  <2>2. Recorded = Rest(img.ring, idx)
    BY DEF Recorded, Rest, Total, NextSlot
  <2> QED BY <2>1, <2>2 DEF Counted, Ledger, DayFits, DayFloor
<1> QED BY <1>1, <1>2, DayAlwaysTyped, KeepStep, CountedStep, PTL DEF DaySpec
-----------------------------------------------------------------------------
(* The coalescer.                                                          *)

(* The assumption, one fact at a time.                                     *)
LEMMA Constant ==
  /\ Clock \in Nat /\ Debounce \in Nat /\ MaxDefer \in Nat /\ RebootDelay \in Nat /\ Stall \in Nat
  /\ Clock > 0 /\ Debounce > 0 /\ MaxDefer > 0 /\ RebootDelay > 0 /\ Stall > 0
  /\ Debounce <= MaxDefer /\ 2 * (MaxDefer + Stall) < Clock /\ 2 * (RebootDelay + Stall) < Clock
  /\ Default \in Values /\ None \notin Values
BY PersistenceAssumption DEF PersistenceAssumption

USE Constant

-----------------------------------------------------------------------------
(* The clock.  Readings are numbers below Clock; the operators that count  *)
(* modulo Clock are restated without a remainder.                          *)

Reading == 0 .. Clock - 1

LEMMA ModWraps == ASSUME NEW x \in Int, x >= -Clock, x < 2 * Clock
                  PROVE  /\ x % Clock \in Reading
                         /\ x >= 0 /\ x < Clock => x % Clock = x
                         /\ x >= Clock => x % Clock = x - Clock
                         /\ x < 0 => x % Clock = x + Clock
BY DEF Reading

LEMMA SinceIs == ASSUME now \in Reading, NEW t \in Reading, NEW a \in Nat, 2 * a < Clock,
                        now = t + a \/ now = t + a - Clock
                 PROVE  Since(t) = a
<1>1. now - t \in Int /\ now - t >= -Clock /\ now - t < 2 * Clock
  BY DEF Reading
<1>2. (now - t) % Clock = a
  BY <1>1, ModWraps DEF Reading
<1> QED BY <1>2 DEF Since

(* now is a reading taken age after the reading t.                         *)
Later(t, age) == now = t + age \/ now = t + age - Clock

-----------------------------------------------------------------------------
(* Type correctness.                                                       *)

LEMMA LoadedIsAValue == ASSUME NEW d \in Values \union {None}
                        PROVE  Loaded(d) \in Values /\ (d \in Values => Loaded(d) = d)
BY DEF Loaded

Flags == dirty \in BOOLEAN /\ failed \in BOOLEAN /\ rebooting \in BOOLEAN /\ loaded \in BOOLEAN

Ranges ==
  /\ now \in Reading /\ value \in Values /\ disk \in Values \union {None}
  /\ dirtySince \in Reading /\ lastChange \in Reading /\ rebootAt \in Reading
  /\ idle \in 0 .. Stall /\ batchAge \in 0 .. AgeCap /\ changeAge \in 0 .. AgeCap

LEMMA Halves == TypeOK <=> Flags /\ Ranges
BY DEF TypeOK, Flags, Ranges, Reading

LEMMA Zeros == 0 \in Reading /\ 0 \in 0 .. Stall /\ 0 \in 0 .. AgeCap
BY DEF Reading, AgeCap

LEMMA FlagsInit == Init => Flags
BY Zenon DEF Init, Flags

LEMMA FlagsStep == Flags /\ [Next]_vars => Flags'
BY Zenon
   DEF Flags, Next, Turn, RebootPoll, Boot, Flush, Cleared, Elapse, Deferred, Critical,
       RequestReboot, WifiRestart, OtaStart, FlushAll, Crash, state, reboot, ages, vars

LEMMA RangesInit == Init => Ranges
BY Zeros DEF Init, Ranges, Reading

LEMMA RangesBoot == ASSUME NEW d \in Values \union {None}, disk' = d, Boot(d) PROVE Ranges'
<1>1. value' \in Values
  BY LoadedIsAValue DEF Boot
<1>2. AgeCap' = AgeCap
  BY DEF AgeCap
<1> QED BY <1>1, <1>2, Zeros DEF Boot, Ranges, Reading

LEMMA RangesStep == Ranges /\ [Next]_vars => Ranges'
<1> SUFFICES ASSUME Ranges, [Next]_vars PROVE Ranges'
  OBVIOUS
<1> USE DEF Ranges
<1>1. ASSUME NEW ok \in BOOLEAN, RebootPoll(ok) PROVE Ranges'
  <2>1. disk' \in Values \union {None}
    BY <1>1 DEF RebootPoll, Written, Outcomes
  <2> QED BY <1>1, <2>1, RangesBoot DEF RebootPoll
<1>2. ASSUME NEW ok \in BOOLEAN, Turn(ok), ~RebootPoll(ok) PROVE Ranges'
  BY <1>2, Zeros DEF Turn, Flush, Cleared, Stored, Outcomes, state, reboot, ages
<1>3. CASE Elapse
  <2>1. now' \in Reading
    BY <1>3, ModWraps DEF Elapse, Reading
  <2>2. batchAge' \in 0 .. AgeCap /\ changeAge' \in 0 .. AgeCap
    BY <1>3 DEF Elapse, AtMost, AgeCap
  <2> QED BY <1>3, <2>1, <2>2 DEF Elapse, state, reboot
<1>4. ASSUME NEW v \in Values, Deferred(v) PROVE Ranges'
  BY <1>4, Zeros DEF Deferred, BatchStart, LastMark, reboot
<1>5. ASSUME NEW v \in Values, NEW ok \in BOOLEAN, Critical(v, ok) PROVE Ranges'
  BY <1>5, Zeros DEF Critical, Cleared, Outcomes, reboot, ages
<1>6. CASE RequestReboot
  <2>1. rebootAt' \in Reading
    BY <1>6, ModWraps DEF RequestReboot, Deadline, Reading
  <2> QED BY <1>6, <2>1 DEF RequestReboot, state, ages
<1>7. ASSUME NEW ok \in BOOLEAN, WifiRestart(ok) PROVE Ranges'
  <2>1. disk' \in Values \union {None}
    BY <1>7 DEF WifiRestart, Flushed, Outcomes
  <2> QED BY <1>7, <2>1, RangesBoot DEF WifiRestart
<1>8. ASSUME NEW ok \in BOOLEAN, OtaStart(ok) PROVE Ranges'
  BY <1>8, Zeros
     DEF OtaStart, FlushAll, Flush, Cleared, Stored, Outcomes, state, reboot, ages
<1>9. CASE Crash
  BY <1>9, RangesBoot DEF Crash
<1>10. CASE UNCHANGED vars
  BY <1>10 DEF vars, state, reboot, ages
<1> QED BY <1>1, <1>2, <1>3, <1>4, <1>5, <1>6, <1>7, <1>8, <1>9, <1>10 DEF Next

LEMMA TypeStep == TypeOK /\ [Next]_vars => TypeOK'
<1>1. (Flags /\ Ranges)' => TypeOK'
  BY DEF TypeOK, Flags, Ranges, Reading
<1> QED BY <1>1, Halves, FlagsStep, RangesStep

LEMMA InitType == Init => TypeOK
BY Halves, FlagsInit, RangesInit

(* Every variable keeps its type, every deadline stays a reading of        *)
(* millis().                                                               *)
THEOREM TypeCorrect == Spec => []TypeOK
<1> QED BY InitType, TypeStep, PTL DEF Spec

-----------------------------------------------------------------------------
(* Nothing is lost.                                                        *)

LEMMA CleanStep == TypeOK /\ CleanMeansStored /\ [Next]_vars => CleanMeansStored'
<1> SUFFICES ASSUME TypeOK, CleanMeansStored, [Next]_vars PROVE CleanMeansStored'
  OBVIOUS
<1>1. /\ value \in Values /\ disk \in Values \union {None} /\ failed \in BOOLEAN
      /\ \A v \in Values : Loaded(v) = v
  BY LoadedIsAValue DEF TypeOK
<1> USE DEF CleanMeansStored
<1>2. CASE Crash \/ \E ok \in BOOLEAN : RebootPoll(ok) \/ WifiRestart(ok)
  BY <1>2 DEF RebootPoll, WifiRestart, Crash, Boot, Loaded
(* What succeeds stores the configuration, what fails is marked.           *)
<1>3. ASSUME value' \in Values, NEW ok \in BOOLEAN, disk' \in Outcomes(value', ok), failed' = ~ok
      PROVE  CleanMeansStored'
  <2>1. CASE ok
    BY <1>3, <2>1, LoadedIsAValue DEF Outcomes, Loaded
  <2>2. CASE ~ok
    BY <1>3, <2>2
  <2> QED BY <2>1, <2>2
<1>4. ASSUME NEW ok \in BOOLEAN, Turn(ok), ~RebootPoll(ok) PROVE CleanMeansStored'
  <2>1. CASE ShouldFlush
    BY <1>1, <1>3, <1>4, <2>1 DEF Turn, Flush, Stored, Outcomes
  <2>2. CASE ~ShouldFlush
    BY <1>4, <2>2 DEF Turn, state, Loaded
  <2> QED BY <2>1, <2>2
<1>5. CASE Elapse
  BY <1>5 DEF Elapse, state, Loaded
<1>6. ASSUME NEW v \in Values, Deferred(v) PROVE CleanMeansStored'
  BY <1>6 DEF Deferred
<1>7. ASSUME NEW v \in Values, NEW ok \in BOOLEAN, Critical(v, ok) PROVE CleanMeansStored'
  BY <1>3, <1>7 DEF Critical
<1>8. CASE RequestReboot
  BY <1>8 DEF RequestReboot, state, Loaded
<1>9. ASSUME NEW ok \in BOOLEAN, OtaStart(ok) PROVE CleanMeansStored'
  <2>1. CASE dirty
    BY <1>1, <1>3, <1>9, <2>1 DEF OtaStart, FlushAll, Flush, Stored, Outcomes
  <2>2. CASE ~dirty
    BY <1>9, <2>2 DEF OtaStart, FlushAll, state, Loaded
  <2> QED BY <2>1, <2>2
<1>10. CASE UNCHANGED vars
  BY <1>10 DEF vars, state, Loaded
<1> QED BY <1>2, <1>4, <1>5, <1>6, <1>7, <1>8, <1>9, <1>10 DEF Next

(* While nothing is pending and no write has failed since the last         *)
(* deferred change, flash holds what RAM holds.                            *)
THEOREM Clean == Spec => []CleanMeansStored
<1>1. Init => CleanMeansStored
  BY DEF Init, CleanMeansStored, Loaded
<1> QED BY <1>1, CleanStep, TypeCorrect, PTL DEF Spec

(* A restart the program asks for keeps the configuration: what it does    *)
(* not write, because nothing is loaded or pending and no write failed, is *)
(* in flash already.                                                       *)
LEMMA GracefulStep == TypeOK /\ CleanMeansStored /\ Graceful => value' = value
<1> SUFFICES ASSUME TypeOK, CleanMeansStored, Graceful PROVE value' = value
  OBVIOUS
<1>1. value \in Values
  BY DEF TypeOK
<1>2. disk' = value \/ (disk' = disk /\ ~dirty /\ ~failed)
  BY DEF Graceful, RebootPoll, WifiRestart, Written, Flushed, Outcomes
<1>3. value' = IF disk' = None THEN Default ELSE disk'
  BY DEF Graceful, RebootPoll, WifiRestart, Boot, Loaded
<1> QED BY <1>1, <1>2, <1>3 DEF CleanMeansStored, Loaded

(* "so no deferred change is lost on a graceful restart", for a change     *)
(* whose write has not failed before.                                      *)
THEOREM GracefulKept == Spec => GracefulKeeps
<1>1. TypeOK /\ CleanMeansStored /\ [Next]_vars => [Graceful => value' = value]_vars
  BY GracefulStep
<1> QED BY <1>1, TypeCorrect, Clean, PTL DEF Spec, GracefulKeeps

-----------------------------------------------------------------------------
(* In time, and coalesced.  The inductive invariant ties the history ages  *)
(* to the readings the code keeps, and the age of the batch to the time    *)
(* since the last turn of the loop: FlushedInTime alone does not say why a *)
(* turn finds a batch at its ceiling.                                      *)

BatchTracked  == dirty => Later(dirtySince, batchAge)
ChangeTracked == dirty => Later(lastChange, changeAge) /\ changeAge <= batchAge
BatchInTime   == dirty => batchAge <= MaxDefer + idle

Tracked == TypeOK /\ BatchTracked /\ ChangeTracked /\ BatchInTime

(* The differences the code computes are the true ages.                    *)
LEMMA AgesAreSeen == ASSUME Tracked, dirty
                     PROVE  Since(dirtySince) = batchAge /\ Since(lastChange) = changeAge
<1>1. batchAge \in Nat /\ 2 * batchAge < Clock /\ changeAge \in Nat /\ 2 * changeAge < Clock
  BY DEF Tracked, TypeOK, BatchInTime, ChangeTracked, AgeCap
<1>2. now \in Reading /\ dirtySince \in Reading /\ lastChange \in Reading
  BY DEF Tracked, TypeOK, Reading
<1> QED BY <1>1, <1>2, SinceIs DEF Tracked, BatchTracked, ChangeTracked, Later

LEMMA NextReading == ASSUME now \in Reading, now' = (now + 1) % Clock, NEW t \in Reading,
                            NEW a \in Nat, a + 1 < Clock, Later(t, a)
                     PROVE  now' = t + (a + 1) \/ now' = t + (a + 1) - Clock
BY ModWraps DEF Reading, Later

LEMMA TrackedStep == Tracked /\ [Next]_vars => Tracked'
<1> SUFFICES ASSUME Tracked, [Next]_vars PROVE BatchTracked' /\ ChangeTracked' /\ BatchInTime'
  BY TypeStep DEF Tracked
<1> USE DEF BatchTracked, ChangeTracked, BatchInTime
<1>0. TypeOK /\ BatchTracked /\ ChangeTracked /\ BatchInTime
  BY DEF Tracked
<1>1. CASE Crash \/ \E ok \in BOOLEAN : RebootPoll(ok) \/ WifiRestart(ok)
  BY <1>1 DEF RebootPoll, WifiRestart, Crash, Boot
<1>2. ASSUME NEW ok \in BOOLEAN, Turn(ok), ~RebootPoll(ok)
      PROVE  BatchTracked' /\ ChangeTracked' /\ BatchInTime'
  <2>1. CASE ShouldFlush
    BY <1>2, <2>1 DEF Turn, Flush, Cleared
  <2>2. CASE ~ShouldFlush
    <3>1. UNCHANGED <<now, dirty, dirtySince, lastChange, batchAge, changeAge>> /\ idle' = 0
      BY <1>2, <2>2 DEF Turn, state, ages
    <3>2. dirty => batchAge < MaxDefer
      BY <2>2, AgesAreSeen, <1>0 DEF ShouldFlush, TypeOK, AgeCap
    <3> QED BY <1>0, <3>1, <3>2 DEF Later, TypeOK, AgeCap
  <2> QED BY <2>1, <2>2
<1>3. CASE Elapse
  <2> SUFFICES ASSUME dirty' PROVE BatchTracked' /\ ChangeTracked' /\ BatchInTime'
    OBVIOUS
  <2>1. dirty /\ UNCHANGED <<dirtySince, lastChange>> /\ idle' = idle + 1 /\ idle < Stall
    BY <1>3 DEF Elapse, state
  <2>2. /\ batchAge \in Nat /\ batchAge + 1 <= MaxDefer + Stall
        /\ changeAge \in Nat /\ changeAge + 1 <= MaxDefer + Stall
        /\ changeAge <= batchAge /\ batchAge <= MaxDefer + idle /\ idle \in Nat
    BY <1>0, <2>1 DEF TypeOK, AgeCap
  <2>3. batchAge' = batchAge + 1 /\ changeAge' = changeAge + 1
    BY <1>3, <2>1, <2>2 DEF Elapse, AtMost, AgeCap
  <2>4. now' = (now + 1) % Clock /\ now \in Reading
        /\ dirtySince \in Reading /\ lastChange \in Reading
    BY <1>0, <1>3 DEF Elapse, TypeOK, Reading
  <2>5. Later(dirtySince, batchAge) /\ Later(lastChange, changeAge)
    BY <1>0, <2>1
  <2>6. /\ now' = dirtySince + (batchAge + 1) \/ now' = dirtySince + (batchAge + 1) - Clock
        /\ now' = lastChange + (changeAge + 1) \/ now' = lastChange + (changeAge + 1) - Clock
    BY <2>2, <2>4, <2>5, NextReading
  <2>7. BatchTracked' /\ ChangeTracked'
    BY <2>1, <2>2, <2>3, <2>6 DEF Later
  <2>8. BatchInTime'
    BY <2>1, <2>2, <2>3
  <2> QED BY <2>7, <2>8
<1>4. ASSUME NEW v \in Values, Deferred(v)
      PROVE  BatchTracked' /\ ChangeTracked' /\ BatchInTime'
  <2>1. /\ now' = now /\ idle' = idle /\ lastChange' = now /\ changeAge' = 0
        /\ dirtySince' = IF dirty THEN dirtySince ELSE now
        /\ batchAge' = IF dirty THEN batchAge ELSE 0
    BY <1>4 DEF Deferred, BatchStart, LastMark
  <2> QED BY <1>0, <2>1 DEF Later, TypeOK, AgeCap
<1>5. ASSUME NEW v \in Values, NEW ok \in BOOLEAN, Critical(v, ok)
      PROVE  BatchTracked' /\ ChangeTracked' /\ BatchInTime'
  BY <1>0, <1>5 DEF Critical, Cleared, ages, Later
<1>6. CASE RequestReboot
  BY <1>0, <1>6 DEF RequestReboot, state, ages, Later
<1>7. ASSUME NEW ok \in BOOLEAN, OtaStart(ok)
      PROVE  BatchTracked' /\ ChangeTracked' /\ BatchInTime'
  BY <1>0, <1>7 DEF OtaStart, FlushAll, Flush, Cleared, state, ages, Later
<1>8. CASE UNCHANGED vars
  BY <1>0, <1>8 DEF vars, state, ages, Later
<1> QED BY <1>1, <1>2, <1>3, <1>4, <1>5, <1>6, <1>7, <1>8 DEF Next

LEMMA AlwaysTracked == Spec => []Tracked
<1>1. Init => Tracked
  BY InitType DEF Init, Tracked, BatchTracked, ChangeTracked, BatchInTime
<1> QED BY <1>1, TrackedStep, PTL DEF Spec

(* No batch waits longer than the ceiling plus one turn of the loop,       *)
(* wherever millis() wraps.                                                *)
THEOREM InTime == Spec => []FlushedInTime
<1>1. Tracked => FlushedInTime
  BY DEF Tracked, BatchInTime, FlushedInTime, TypeOK
<1> QED BY <1>1, AlwaysTracked, PTL

(* The loop writes a batch only after a quiet debounce or at its ceiling.  *)
TurnClears == dirty /\ ~dirty' /\ Served

LEMMA CoalesceStep ==
  Tracked /\ TurnClears => changeAge >= Debounce \/ batchAge >= MaxDefer
<1> SUFFICES ASSUME Tracked, TurnClears PROVE changeAge >= Debounce \/ batchAge >= MaxDefer
  OBVIOUS
<1>1. dirty /\ ShouldFlush
  BY DEF TurnClears, Served, Turn, RebootPoll, state
<1> QED BY <1>1, AgesAreSeen DEF ShouldFlush

(* Wear: the service writes no oftener than its two deadlines allow.       *)
THEOREM Coalesced == Spec => Coalesces
<1>1. Tracked /\ [Next]_vars
        => [TurnClears => changeAge >= Debounce \/ batchAge >= MaxDefer]_vars
  BY CoalesceStep
<1> QED BY <1>1, AlwaysTracked, PTL DEF Spec, Coalesces, TurnClears

-----------------------------------------------------------------------------
(* The coalescer implements the safety of WriteBack: each step is one of   *)
(* its steps on the configuration and what flash would load, or a stutter. *)

LEMMA StepImplements == TypeOK /\ [Next]_vars => [Promise!Next]_(Promise!vars)
<1> SUFFICES ASSUME TypeOK, [Next]_vars PROVE [Promise!Next]_(Promise!vars)
  OBVIOUS
<1> USE DEF Promise!Next, Promise!vars, Promise!Change, Promise!WriteNew, Promise!WriteBack,
            Promise!Fail, Promise!Restart
<1>1. value \in Values /\ \A v \in Values : Loaded(v) = v
  BY LoadedIsAValue DEF TypeOK
(* A write of the configuration, a failure of one and a restart.           *)
<1>2. ASSUME NEW ok \in BOOLEAN, value' \in Values, disk' \in Outcomes(value', ok), failed' = ~ok
      PROVE  [Promise!Next]_(Promise!vars)
  <2>1. Loaded(disk)' = value' \/ (~ok /\ Loaded(disk)' = Loaded(disk))
    BY <1>1, <1>2 DEF Outcomes, Loaded
  <2>2. CASE ok
    <3>1. failed' = FALSE /\ Loaded(disk)' = value'
      BY <1>2, <2>1, <2>2
    <3> QED BY <1>2, <3>1
  <2>3. CASE ~ok
    <3>1. failed' = TRUE /\ Loaded(disk)' \in {Loaded(disk), value'}
      BY <1>2, <2>1, <2>3
    <3> QED BY <1>2, <3>1
  <2> QED BY <2>2, <2>3
<1>3. ASSUME disk' \in {disk, value}, Boot(disk') PROVE [Promise!Next]_(Promise!vars)
  <2>1. /\ value' = Loaded(disk)' /\ failed' = FALSE
        /\ Loaded(disk)' = Loaded(disk) \/ Loaded(disk)' = value
    BY <1>1, <1>3 DEF Boot, Loaded
  <2> QED BY <2>1
<1>4. ASSUME UNCHANGED <<value, disk, failed>> PROVE [Promise!Next]_(Promise!vars)
  BY <1>4 DEF Loaded
<1>5. ASSUME NEW ok \in BOOLEAN, RebootPoll(ok) \/ WifiRestart(ok)
      PROVE  [Promise!Next]_(Promise!vars)
  BY <1>3, <1>5 DEF RebootPoll, WifiRestart, Written, Flushed, Outcomes
<1>6. ASSUME NEW ok \in BOOLEAN, Turn(ok) \/ OtaStart(ok), ~RebootPoll(ok)
      PROVE  [Promise!Next]_(Promise!vars)
  <2>1. value' = value /\ (Flush(ok) \/ UNCHANGED <<disk, failed>>)
    BY <1>6 DEF Turn, OtaStart, FlushAll
  <2>2. CASE Flush(ok)
    BY <1>1, <1>2, <2>1, <2>2 DEF Flush, Stored, Outcomes
  <2> QED BY <1>4, <2>1, <2>2
<1>7. CASE Elapse \/ RequestReboot \/ UNCHANGED vars
  BY <1>4, <1>7 DEF Elapse, RequestReboot, vars
<1>8. ASSUME NEW v \in Values, Deferred(v) PROVE [Promise!Next]_(Promise!vars)
  <2>1. value' = v /\ failed' = FALSE /\ Loaded(disk)' = Loaded(disk)
    BY <1>8 DEF Deferred, Loaded
  <2> QED BY <2>1
<1>9. ASSUME NEW v \in Values, NEW ok \in BOOLEAN, Critical(v, ok)
      PROVE  [Promise!Next]_(Promise!vars)
  BY <1>2, <1>9 DEF Critical
<1>10. CASE Crash
  BY <1>3, <1>10 DEF Crash
<1> QED BY <1>5, <1>6, <1>7, <1>8, <1>9, <1>10 DEF Next

(* Whole configurations only, never one that was not current, a restart    *)
(* that falls back to what flash holds, and a write given up only when it  *)
(* failed.                                                                 *)
THEOREM Refines == Spec => Promise!Init /\ [][Promise!Next]_(Promise!vars)
<1>1. Init => Promise!Init
  BY DEF Init, Promise!Init, Loaded
<1> QED BY <1>1, StepImplements, TypeCorrect, PTL DEF Spec
=============================================================================
