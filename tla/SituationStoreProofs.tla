------------------------- MODULE SituationStoreProofs -------------------------
(***************************************************************************)
(* Theorems about SituationStore, for every finite set of situations, every *)
(* positive size, every lifetime and every medium.                         *)
(***************************************************************************)
EXTENDS SituationStore, FiniteSetTheorems, TLAPS

-----------------------------------------------------------------------------
(* What the evictions leave. *)

Row(r) == [value |-> r, at |-> clock]

\* The entries of f that have not outlived their lifetime.
LiveIn(f) == {k \in Held(f) : clock - f[k].at <= TTL}

\* Only a full f gives a live entry up, one alone, and none that stays is older.
MakesRoomIn(f, i, gone) ==
    \A g \in gone \cap LiveIn(f) :
        /\ Cardinality(LiveIn(f)) >= MAX_SIZE
        /\ gone \cap LiveIn(f) = {g}
        /\ \A j \in LiveIn(f) \ {g, i} : f[g].at <= f[j].at

LEMMA NothingIsNoEntry == \A e \in Entries : e # Nothing
  BY NothingAssumption, BoundsAssumption DEF Entries

LEMMA HeldIsFinite == ASSUME NEW f PROVE IsFiniteSet(Held(f)) /\ Cardinality(Held(f)) \in Nat
  BY IdsAssumption, FS_Subset, FS_CardinalityType DEF Held

\* Leaving entries out keeps the table a table and makes it no larger.
LEMMA WithoutFacts ==
    ASSUME NEW f \in Tables, NEW gone
    PROVE  /\ Without(f, gone) \in Tables
           /\ Held(Without(f, gone)) = Held(f) \ gone
           /\ \A j \in Ids : Without(f, gone)[j] = IF j \in gone THEN Nothing ELSE f[j]
           /\ Cardinality(Held(f) \ gone) <= Cardinality(Held(f))
  <1>1. Cardinality(Held(f) \ gone) <= Cardinality(Held(f))
    BY HeldIsFinite, FS_Subset
  <1>2. Without(f, gone) \in Tables
    BY DEF Without, Tables
  <1>3. \A j \in Ids : Without(f, gone)[j] = IF j \in gone THEN Nothing ELSE f[j]
    BY DEF Without
  <1> QED BY <1>1, <1>2, <1>3 DEF Held

\* After evict_expired the live entries are left, as they were.
LEMMA EvictExpiredFacts ==
    ASSUME NEW f \in Tables, clock \in Nat
    PROVE  /\ EvictExpired(f) \in Tables
           /\ Held(EvictExpired(f)) = LiveIn(f)
           /\ \A j \in LiveIn(f) : EvictExpired(f)[j] = f[j]
           /\ EvictExpired(f) = Without(f, Held(f) \ LiveIn(f))
  <1> DEFINE X == {j \in Ids : Expired(f, j)}
  <1>1. \A j \in Held(f) : f[j].at \in Nat
    BY BoundsAssumption DEF Tables, Entries, Held
  <1>2. X = Held(f) \ LiveIn(f)
    BY <1>1, BoundsAssumption DEF Expired, LiveIn, Held
  <1>3. EvictExpired(f) = Without(f, X)
    BY DEF EvictExpired
  <1> HIDE DEF X
  <1>4. LiveIn(f) \subseteq Held(f) /\ Held(f) \subseteq Ids
    BY DEF LiveIn, Held
  <1>5. /\ Without(f, X) \in Tables
        /\ Held(Without(f, X)) = Held(f) \ X
        /\ \A j \in Ids : Without(f, X)[j] = IF j \in X THEN Nothing ELSE f[j]
    BY WithoutFacts
  <1>6. Held(EvictExpired(f)) = LiveIn(f)
    BY <1>2, <1>3, <1>4, <1>5
  <1>7. \A j \in LiveIn(f) : EvictExpired(f)[j] = f[j]
    BY <1>2, <1>3, <1>4, <1>5
  <1> QED BY <1>2, <1>3, <1>5, <1>6, <1>7

\* A save puts its row, leaves or drops the others, and keeps within the size.
LEMMA UpsertedFacts ==
    ASSUME NEW f \in Tables, NEW i \in Ids, NEW r \in Results, clock \in 0..MaxTime,
           NEW h \in Upserted(f, i, r)
    PROVE  /\ h \in Tables
           /\ h[i] = Row(r)
           /\ \A j \in Ids \ {i} : h[j] \in {f[j], Nothing}
           /\ Cardinality(Held(h)) <= MAX_SIZE
  <1> DEFINE live == EvictExpired(f)
  <1>1. clock \in Nat /\ Row(r) \in Entries
    BY BoundsAssumption DEF Row, Entries
  <1>2. live \in Tables /\ \A j \in Ids : live[j] \in {f[j], Nothing}
    <2>1. live \in Tables /\ live = Without(f, Held(f) \ LiveIn(f))
      BY <1>1, EvictExpiredFacts
    <2> QED BY <2>1 DEF Without
  <1> HIDE DEF live
  <1>3. PICK gone \in SUBSET Held(live) :
           /\ h = [Without(live, gone) EXCEPT ![i] = Row(r)]
           /\ Cardinality(Held(live) \ gone) < MAX_SIZE
    BY DEF Upserted, EvictOverflow, Row, live
  <1>4. /\ Without(live, gone) \in Tables
        /\ Held(Without(live, gone)) = Held(live) \ gone
        /\ \A j \in Ids : Without(live, gone)[j] = IF j \in gone THEN Nothing ELSE live[j]
    BY <1>2, WithoutFacts
  <1>5. h \in Tables /\ h[i] = Row(r)
    BY <1>1, <1>3, <1>4 DEF Tables
  <1>6. \A j \in Ids \ {i} : h[j] \in {f[j], Nothing}
    BY <1>2, <1>3, <1>4 DEF Tables
  <1>7. Held(h) = (Held(live) \ gone) \cup {i}
    BY <1>1, <1>3, <1>4, NothingIsNoEntry DEF Held, Tables
  <1>8. IsFiniteSet(Held(live) \ gone)
    BY HeldIsFinite, FS_Subset
  <1>9. Cardinality(Held(h)) <= Cardinality(Held(live) \ gone) + 1
    <2>1. Cardinality(Held(live) \ gone) \in Nat
      BY <1>8, FS_CardinalityType
    <2>2. Cardinality((Held(live) \ gone) \cup {i}) <= Cardinality(Held(live) \ gone) + 1
      <3> DEFINE kept == Held(live) \ gone
      <3>1. IsFiniteSet(kept) /\ Cardinality(kept) \in Nat
        BY <1>8, <2>1
      <3> HIDE DEF kept
      <3>2. Cardinality(kept \cup {i}) = IF i \in kept THEN Cardinality(kept)
                                       ELSE Cardinality(kept) + 1
        BY <3>1, FS_AddElement
      <3>3. Cardinality(kept \cup {i}) <= Cardinality(kept) + 1
        BY <3>1, <3>2
      <3> QED BY <3>3 DEF kept
    <2> QED BY <1>7, <2>2
  <1>10. Cardinality(Held(h)) <= MAX_SIZE
    BY <1>3, <1>8, <1>9, HeldIsFinite, FS_CardinalityType, SizeAssumption
  <1> QED BY <1>5, <1>6, <1>10

\* In a table within its size a save costs what a bounded map may give up.
LEMMA UpsertedMakesRoom ==
    ASSUME NEW f \in Tables, NEW i \in Ids, NEW r \in Results, clock \in 0..MaxTime,
           NEW h \in Upserted(f, i, r), Cardinality(Held(f)) <= MAX_SIZE
    PROVE  \E gone \in SUBSET Held(f) :
              /\ MakesRoomIn(f, i, gone)
              /\ h = [Without(f, gone) EXCEPT ![i] = Row(r)]
  <1> DEFINE live == EvictExpired(f)
  <1>1. clock \in Nat
    BY BoundsAssumption
  <1>2. /\ live \in Tables /\ Held(live) = LiveIn(f)
        /\ \A j \in LiveIn(f) : live[j] = f[j]
        /\ live = Without(f, Held(f) \ LiveIn(f))
    BY <1>1, EvictExpiredFacts
  <1> HIDE DEF live
  <1>3. PICK g \in SUBSET Held(live) :
           /\ h = [Without(live, g) EXCEPT ![i] = Row(r)]
           /\ \A x \in g, j \in Held(live) \ g : live[x].at <= live[j].at
           /\ g # {} => Cardinality(Held(live) \ g) = MAX_SIZE - 1
    BY DEF Upserted, EvictOverflow, Row, live
  <1> DEFINE gone == (Held(f) \ LiveIn(f)) \cup g
  <1>4. LiveIn(f) \subseteq Held(f) /\ IsFiniteSet(LiveIn(f))
        /\ Cardinality(LiveIn(f)) \in Nat /\ Cardinality(LiveIn(f)) <= MAX_SIZE
    <2>1. LiveIn(f) \subseteq Held(f)
      BY DEF LiveIn
    <2>2. IsFiniteSet(LiveIn(f)) /\ Cardinality(LiveIn(f)) <= Cardinality(Held(f))
      BY <2>1, HeldIsFinite, FS_Subset
    <2>3. Cardinality(LiveIn(f)) \in Nat
      BY <2>2, FS_CardinalityType
    <2> QED BY <2>1, <2>2, <2>3, HeldIsFinite, SizeAssumption
  <1>5. gone \in SUBSET Held(f) /\ gone \cap LiveIn(f) = g
    BY <1>2, <1>3, <1>4
  <1>6. Without(live, g) = Without(f, gone)
    <2>1. \A j \in Ids : live[j] = IF j \in Held(f) \ LiveIn(f) THEN Nothing ELSE f[j]
      BY <1>2 DEF Without
    <2>2. \A j \in Ids : (IF j \in g THEN Nothing ELSE live[j])
                           = (IF j \in gone THEN Nothing ELSE f[j])
      BY <2>1
    <2> QED BY <2>2 DEF Without
  <1>7. MakesRoomIn(f, i, gone)
    <2> SUFFICES ASSUME NEW x \in g
                 PROVE  /\ Cardinality(LiveIn(f)) >= MAX_SIZE
                        /\ g = {x}
                        /\ \A j \in LiveIn(f) \ {x, i} : f[x].at <= f[j].at
      BY <1>5 DEF MakesRoomIn
    <2>1. Cardinality(LiveIn(f) \ g) = MAX_SIZE - 1
      BY <1>2, <1>3
    <2>2. /\ IsFiniteSet(LiveIn(f) \ {x})
          /\ Cardinality(LiveIn(f) \ {x}) = Cardinality(LiveIn(f)) - 1
      BY <1>2, <1>3, <1>4, FS_RemoveElement
    <2>3. LiveIn(f) \ g \in SUBSET (LiveIn(f) \ {x})
      OBVIOUS
    <2>4. /\ Cardinality(LiveIn(f) \ g) <= Cardinality(LiveIn(f) \ {x})
          /\ Cardinality(LiveIn(f) \ g) = Cardinality(LiveIn(f) \ {x})
               => LiveIn(f) \ {x} = LiveIn(f) \ g
      BY <2>2, <2>3, FS_Subset
    <2>5. Cardinality(LiveIn(f)) = MAX_SIZE
      BY <2>1, <2>2, <2>4, <1>4, SizeAssumption
    <2>6. LiveIn(f) \ {x} = LiveIn(f) \ g
      BY <2>1, <2>2, <2>4, <2>5
    <2>7. g = {x}
      BY <2>6, <1>2, <1>3
    <2>8. \A j \in LiveIn(f) \ {x, i} : f[x].at <= f[j].at
      BY <2>7, <1>2, <1>3
    <2> QED BY <2>5, <2>7, <2>8, <1>4, SizeAssumption
  <1> QED BY <1>3, <1>5, <1>6, <1>7

\* A lookup deletes at most the entry it finds expired.
LEMMA LookedFacts ==
    ASSUME NEW f \in Tables, NEW i \in Ids
    PROVE  /\ Looked(f, i) \in Tables
           /\ \A j \in Ids : Looked(f, i)[j] \in {f[j], Nothing}
           /\ Held(Looked(f, i)) \subseteq Held(f)
           /\ Found(f, i) \in Results \cup {Nothing}
           /\ Found(f, i) # Nothing => Found(f, i) = f[i].value
  <1>1. /\ Looked(f, i) \in Tables
        /\ \A j \in Ids : Looked(f, i)[j] \in {f[j], Nothing}
    BY DEF Looked, Tables
  <1>2. Found(f, i) \in Results \cup {Nothing}
    BY DEF Found, Tables, Entries
  <1> QED BY <1>1, <1>2 DEF Found, Held

-----------------------------------------------------------------------------
(* The invariant. *)

\* What the size and the pages rest on: the dictionary is empty before the fallback, the
\* table unless the medium can be written, and every entry in use is that of the last
\* save, but for a table that is in use on a flaky medium.
Kept ==
    /\ ~use_memory => mem = NoEntry
    /\ medium = "readonly" => disk = NoEntry
    /\ medium = "memory" => use_memory
    /\ medium = "works" => ~use_memory
    /\ \A i \in Ids : cache[i] # Nothing => cache[i].value = latest[i]
    /\ Steady \/ use_memory => \A i \in Ids : Store[i] # Nothing => Store[i].value = latest[i]

Inv == TypeOK /\ BoundedSize /\ Kept

\* h is f with entries left out.
Shrunk(f, h) == h \in Tables /\ \A i \in Ids : h[i] \in {f[i], Nothing}

LEMMA ShrunkIsBounded ==
    ASSUME NEW f \in Tables, NEW h, Shrunk(f, h), Cardinality(Held(f)) <= MAX_SIZE
    PROVE  Cardinality(Held(h)) <= MAX_SIZE
  <1>1. Held(h) \in SUBSET Held(f)
    BY DEF Shrunk, Held
  <1>2. Cardinality(Held(h)) <= Cardinality(Held(f))
    BY <1>1, HeldIsFinite, FS_Subset
  <1> QED BY <1>2, HeldIsFinite, SizeAssumption

LEMMA ShrunkCases ==
    ASSUME NEW f \in Tables, clock \in Nat
    PROVE  /\ Shrunk(f, f)
           /\ Shrunk(f, NoEntry)
           /\ Shrunk(f, EvictExpired(f))
           /\ \A i \in Ids : Shrunk(f, Looked(f, i))
  <1>1. Shrunk(f, f) /\ Shrunk(f, NoEntry)
    BY DEF Shrunk, NoEntry, Tables
  <1>2. Shrunk(f, EvictExpired(f))
    BY EvictExpiredFacts DEF Shrunk, EvictExpired, Without
  <1>3. \A i \in Ids : Shrunk(f, Looked(f, i))
    BY LookedFacts DEF Shrunk
  <1> QED BY <1>1, <1>2, <1>3

\* The empty dictionary holds nothing.
LEMMA NoEntryFacts ==
    /\ NoEntry \in Tables
    /\ Held(NoEntry) = {}
    /\ Cardinality(Held(NoEntry)) <= MAX_SIZE
    /\ \A i \in Ids : NoEntry[i] = Nothing
  <1>1. NoEntry \in Tables /\ Held(NoEntry) = {} /\ \A i \in Ids : NoEntry[i] = Nothing
    BY DEF NoEntry, Tables, Held
  <1>2. Cardinality(Held(NoEntry)) = 0
    BY <1>1, FS_EmptySet
  <1> QED BY <1>1, <1>2, SizeAssumption

LEMMA InvInit == Init => Inv
  <1> SUFFICES ASSUME Init PROVE Inv
    OBVIOUS
  <1>1. TypeOK
    BY NoEntryFacts, BoundsAssumption DEF Init, TypeOK, Loaded
  <1>2. BoundedSize
    BY NoEntryFacts DEF Init, BoundedSize
  <1>3. Kept
    BY NoEntryFacts DEF Init, Kept, Store, Loaded, Media
  <1> QED BY <1>1, <1>2, <1>3 DEF Inv

\* What every step but a save does to the four: entries go, none comes or changes.
LEMMA QuietSteps ==
    ASSUME Inv, Next, ~ \E i \in Ids : StoreSituation(i)
    PROVE  /\ Shrunk(disk, disk') /\ Shrunk(mem, mem') /\ Shrunk(cache, cache')
           /\ Steady => Shrunk(Store, Store')
           /\ UNCHANGED <<medium, saves, latest>>
           /\ clock' \in 0..MaxTime
           /\ use_memory' \in BOOLEAN /\ answer' \in Results \cup {Nothing}
           /\ ~use_memory' => mem' = NoEntry
           /\ medium = "readonly" => disk' = NoEntry
           /\ medium = "memory" => use_memory'
           /\ medium = "works" => ~use_memory'
  <1> DEFINE Goal ==
           /\ Shrunk(disk, disk') /\ Shrunk(mem, mem') /\ Shrunk(cache, cache')
           /\ Steady => Shrunk(Store, Store')
           /\ UNCHANGED <<medium, saves, latest>>
           /\ clock' \in 0..MaxTime
           /\ use_memory' \in BOOLEAN /\ answer' \in Results \cup {Nothing}
           /\ ~use_memory' => mem' = NoEntry
           /\ medium = "readonly" => disk' = NoEntry
           /\ medium = "memory" => use_memory'
           /\ medium = "works" => ~use_memory'
  <1> SUFFICES Goal
    OBVIOUS
  <1>1. /\ medium \in Media /\ clock \in 0..MaxTime /\ clock \in Nat
        /\ disk \in Tables /\ mem \in Tables /\ cache \in Tables
        /\ use_memory \in BOOLEAN /\ answer \in Results \cup {Nothing}
        /\ ~use_memory => mem = NoEntry
        /\ medium = "readonly" => disk = NoEntry
        /\ medium = "memory" => use_memory
        /\ medium = "works" => ~use_memory
    BY BoundsAssumption DEF Inv, TypeOK, Kept
  <1>2. \A f \in {disk, mem, cache} :
           /\ Shrunk(f, f) /\ Shrunk(f, NoEntry) /\ Shrunk(f, EvictExpired(f))
           /\ \A i \in Ids : Shrunk(f, Looked(f, i)) /\ Found(f, i) \in Results \cup {Nothing}
    BY <1>1, ShrunkCases, LookedFacts
  <1>3. EvictExpired(NoEntry) = NoEntry /\ \A i \in Ids : Looked(NoEntry, i) = NoEntry
    BY DEF EvictExpired, Looked, Expired, Without, NoEntry
  <1>4. ASSUME FallBack PROVE Steady => Shrunk(Store, Store')
    BY <1>1, <1>2, <1>4 DEF FallBack, Store, Steady, Shrunk, NoEntry
  <1>5. ASSUME NEW i \in Ids, Get(i), UNCHANGED <<medium, clock, saves, latest>>,
               Shrunk(cache, cache')
        PROVE  Goal
    <2>1. CASE use_memory /\ answer' = Found(mem, i) /\ mem' = Looked(mem, i)
               /\ UNCHANGED <<disk, use_memory>>
      BY <1>1, <1>2, <1>5, <2>1 DEF Store
    <2>2. CASE /\ ~use_memory /\ Opens /\ answer' = Found(disk, i)
               /\ disk' = Looked(disk, i) /\ UNCHANGED <<mem, use_memory>>
      BY <1>1, <1>2, <1>3, <1>5, <2>2 DEF Store, Opens
    <2>3. CASE ~use_memory /\ OpenFails /\ answer' = Nothing /\ FallBack
      BY <1>1, <1>2, <1>4, <1>5, <2>3 DEF FallBack, OpenFails
    <2>4. CASE /\ ~use_memory /\ medium = "flaky" /\ answer' = Nothing
               /\ UNCHANGED <<disk, mem, use_memory>>
      BY <1>1, <1>2, <1>5, <2>4 DEF Steady
    <2> QED BY <1>5, <2>1, <2>2, <2>3, <2>4 DEF Get
  <1>6. CASE \E i \in Ids : ViewDerived(i) \/ GetSituation(i)
    BY <1>2, <1>5, <1>6 DEF ViewDerived, GetSituation
  <1>7. CASE OpenApprovalPage
    <2>1. CASE ~use_memory /\ OpenFails /\ FallBack
      BY <1>1, <1>2, <1>4, <1>7, <2>1 DEF OpenApprovalPage, FallBack, OpenFails
    <2>2. CASE UNCHANGED <<disk, mem, use_memory>>
      BY <1>1, <1>2, <1>7, <2>2 DEF OpenApprovalPage, Store
    <2> QED BY <1>7, <2>1, <2>2 DEF OpenApprovalPage
  <1>8. CASE Count
    <2>1. CASE use_memory /\ mem' = EvictExpired(mem) /\ UNCHANGED <<disk, use_memory>>
      BY <1>1, <1>2, <1>8, <2>1 DEF Count, Store
    <2>2. CASE /\ ~use_memory /\ Opens /\ disk' = EvictExpired(disk)
               /\ UNCHANGED <<mem, use_memory>>
      BY <1>1, <1>2, <1>3, <1>8, <2>2 DEF Count, Store, Opens
    <2>3. CASE ~use_memory /\ OpenFails /\ FallBack
      BY <1>1, <1>2, <1>4, <1>8, <2>3 DEF Count, FallBack, OpenFails
    <2> QED BY <1>8, <2>1, <2>2, <2>3 DEF Count
  <1>9. CASE Clear
    <2>1. CASE use_memory /\ mem' = NoEntry /\ UNCHANGED <<disk, use_memory>>
      BY <1>1, <1>2, <1>9, <2>1 DEF Clear, Store
    <2>2. CASE ~use_memory /\ Opens /\ disk' = NoEntry /\ UNCHANGED <<mem, use_memory>>
      BY <1>1, <1>2, <1>9, <2>2 DEF Clear, Store, Opens
    <2>3. CASE ~use_memory /\ OpenFails /\ FallBack
      BY <1>1, <1>2, <1>4, <1>9, <2>3 DEF Clear, FallBack, OpenFails
    <2> QED BY <1>9, <2>1, <2>2, <2>3 DEF Clear
  <1>10. CASE Tick
    BY <1>1, <1>2, <1>10, BoundsAssumption DEF Tick, Store
  <1>11. CASE Restart
    <2>1. Steady => Shrunk(Store, Store')
      BY <1>1, <1>2, <1>11, NoEntryFacts DEF Restart, Store, Loaded, Steady, Media, Shrunk
    <2> QED BY <1>1, <1>2, <1>11, <2>1 DEF Restart, Loaded
  <1>12. CASE Replace
    <2>1. Shrunk(Store, Store')
      BY <1>2, <1>12 DEF Replace, Store
    <2> QED BY <1>1, <1>2, <1>12, <2>1 DEF Replace, Loaded
  <1> QED BY <1>6, <1>7, <1>8, <1>9, <1>10, <1>11, <1>12 DEF Next

\* Entries that are left out take nothing from the invariant.
LEMMA QuietStepsKeepInv ==
    ASSUME Inv, Next, ~ \E i \in Ids : StoreSituation(i)
    PROVE  Inv'
  <1>1. TypeOK'
    BY QuietSteps DEF Inv, TypeOK, Shrunk
  <1>2. BoundedSize'
    <2>1. \A f \in {disk, mem, cache} : f \in Tables /\ Cardinality(Held(f)) <= MAX_SIZE
      BY DEF Inv, TypeOK, BoundedSize
    <2>2. /\ Cardinality(Held(disk')) <= MAX_SIZE
          /\ Cardinality(Held(mem')) <= MAX_SIZE
          /\ Cardinality(Held(cache')) <= MAX_SIZE
      BY <2>1, QuietSteps, ShrunkIsBounded
    <2> QED BY <2>2 DEF BoundedSize, Held
  <1>3. Kept'
    <2>1. ASSUME use_memory', NEW i \in Ids, mem'[i] # Nothing PROVE mem'[i].value = latest'[i]
      <3>1. mem'[i] = mem[i] /\ use_memory
        BY <2>1, QuietSteps DEF Inv, Kept, Shrunk, NoEntry
      <3> QED BY <2>1, <3>1, QuietSteps DEF Inv, Kept, Store
    <2>2. Steady' => \A i \in Ids : Store'[i] # Nothing => Store'[i].value = latest'[i]
      BY QuietSteps DEF Inv, Kept, Shrunk, Steady
    <2> QED BY <2>1, <2>2, QuietSteps DEF Inv, Kept, Shrunk, Store
  <1> QED BY <1>1, <1>2, <1>3 DEF Inv

\* A save that keeps or loses its row leaves the store a table of last saves.
LEMMA SavesKeepInv ==
    ASSUME Inv, NEW i \in Ids, StoreSituation(i)
    PROVE  Inv'
  <1> DEFINE r == saves + 1
  <1>1. /\ clock \in 0..MaxTime /\ r \in Results /\ r \in 0..MaxSaves
        /\ disk \in Tables /\ mem \in Tables /\ cache \in Tables
        /\ latest' = [latest EXCEPT ![i] = r] /\ latest \in [Ids -> Results \cup {Nothing}]
        /\ UNCHANGED <<medium, clock, answer>> /\ saves' = r
        /\ Save(i, r) /\ cache' \in Upserted(cache, i, r)
    BY BoundsAssumption DEF Inv, TypeOK, StoreSituation, Save, Results
  <1>2. latest'[i] = r /\ \A j \in Ids \ {i} : latest'[j] = latest[j]
    BY <1>1
  <1> HIDE DEF r
  <1>3. ASSUME NEW f \in Tables, NEW h \in Upserted(f, i, r)
        PROVE  /\ h \in Tables
               /\ Cardinality(Held(h)) <= MAX_SIZE
               /\ (\A j \in Ids : f[j] # Nothing => f[j].value = latest[j])
                    => \A j \in Ids : h[j] # Nothing => h[j].value = latest'[j]
    <2>1. /\ h \in Tables /\ h[i] = Row(r) /\ \A j \in Ids \ {i} : h[j] \in {f[j], Nothing}
          /\ Cardinality(Held(h)) <= MAX_SIZE
      BY <1>1, <1>3, UpsertedFacts
    <2>2. h[i].value = r
      BY <2>1 DEF Row
    <2> QED BY <2>1, <2>2, <1>2
  <1>4. /\ cache' \in Tables /\ Cardinality(Held(cache')) <= MAX_SIZE
        /\ \A j \in Ids : cache'[j] # Nothing => cache'[j].value = latest'[j]
    BY <1>1, <1>3 DEF Inv, Kept
  <1>5. /\ mem' \in Tables /\ disk' \in Tables /\ use_memory' \in BOOLEAN
        /\ Cardinality(Held(mem')) <= MAX_SIZE /\ Cardinality(Held(disk')) <= MAX_SIZE
        /\ ~use_memory' => mem' = NoEntry
        /\ medium = "readonly" => disk' = NoEntry
        /\ medium = "memory" => use_memory'
        /\ medium = "works" => ~use_memory'
        /\ Steady \/ use_memory' => \A j \in Ids : Store'[j] # Nothing => Store'[j].value = latest'[j]
    <2> USE DEF Inv, Kept, TypeOK, BoundedSize, Store, Steady
    <2>1. CASE SaveInMemory(i, r)
      BY <1>1, <1>3, <2>1 DEF SaveInMemory
    <2>2. CASE SaveOnDisk(i, r)
      BY <1>1, <1>3, <2>2 DEF SaveOnDisk, Opens
    <2>3. CASE SaveUnopened(i, r)
      BY <1>1, <2>3, NoEntryFacts DEF SaveUnopened, OpenFails, FallBack
    <2>4. CASE SaveRaises(i, r)
      BY <1>1, <2>4 DEF SaveRaises
    <2> QED BY <1>1, <2>1, <2>2, <2>3, <2>4 DEF Save
  <1>6. TypeOK'
    BY <1>1, <1>4, <1>5 DEF Inv, TypeOK
  <1>7. BoundedSize'
    BY <1>4, <1>5 DEF BoundedSize, Held
  <1>8. Kept'
    BY <1>1, <1>4, <1>5 DEF Kept, Steady
  <1> QED BY <1>6, <1>7, <1>8 DEF Inv

LEMMA InvStep == Inv /\ [Next]_vars => Inv'
  <1> SUFFICES ASSUME Inv, [Next]_vars PROVE Inv'
    OBVIOUS
  <1>1. CASE \E i \in Ids : StoreSituation(i)
    BY <1>1, SavesKeepInv
  <1>2. CASE Next /\ ~ \E i \in Ids : StoreSituation(i)
    BY <1>2, QuietStepsKeepInv
  <1>3. CASE UNCHANGED vars
    BY <1>3 DEF vars, Inv, TypeOK, BoundedSize, Kept, Store, Steady
  <1> QED BY <1>1, <1>2, <1>3

LEMMA InvHolds == Spec => []Inv
  BY InvInit, InvStep, PTL DEF Spec

-----------------------------------------------------------------------------
(* The theorems. *)

\* Every variable keeps to its type.
THEOREM TypeCorrect == Spec => []TypeOK
  BY InvHolds, PTL DEF Inv

\* "FIFO eviction threshold" (_MAX_SIZE): whatever the medium does and however often
\* the process restarts, neither table nor dictionary nor cache outgrows its size.
THEOREM NothingOutgrows == Spec => []BoundedSize
  BY InvHolds, PTL DEF Inv

\* No page shows a superseded situation, except from a table in use on a flaky
\* medium: neither cache nor dictionary ever does (situation_viewer, get_situation).
THEOREM PagesAreLatest == Spec => []PagesShowTheLatest
  <1>1. Inv => PagesShowTheLatest
    BY DEF Inv, Kept, PagesShowTheLatest, Found
  <1> QED BY <1>1, InvHolds, PTL

-----------------------------------------------------------------------------
(* The refinement. *)

\* What was set aside: the table, once the process has given up on it.
Shelf == IF use_memory THEN disk ELSE NoEntry

LEMMA MapInit == Init => Map!Init
  BY NoEntryFacts DEF Init, Map!Init, Map!Empty, NoEntry, Store, Steady

\* The words of BoundedMap, said of the store.
LEMMA MapWords ==
    /\ Map!Held = Held(Store)
    /\ Map!Live = LiveIn(Store)
    /\ Map!Empty = NoEntry
    /\ \A gone : Map!Without(gone) = Without(Store, gone)
  BY DEF Map!Held, Held, Map!Live, LiveIn, Map!Empty, NoEntry, Map!Without, Without

LEMMA MapCardinality == \A S : Map!Cardinality(S) = Cardinality(S)
  BY Zenon DEF Map!Cardinality, Cardinality

LEMMA MapPut ==
    ASSUME Inv, NEW i \in Ids, NEW r \in Results, Store' \in Upserted(Store, i, r),
           UNCHANGED <<Shelf, medium, clock, answer>>
    PROVE  Map!Put(i, r)
  <1>1. Store \in Tables /\ clock \in 0..MaxTime /\ Cardinality(Held(Store)) <= MAX_SIZE
    BY DEF Inv, TypeOK, BoundedSize, Store
  <1>2. PICK gone \in SUBSET Held(Store) :
           /\ MakesRoomIn(Store, i, gone)
           /\ Store' = [Without(Store, gone) EXCEPT ![i] = Row(r)]
    BY <1>1, UpsertedMakesRoom
  <1>3. gone \in SUBSET Map!Held /\ Map!MakesRoom(i, gone)
    BY <1>2, MapWords, MapCardinality DEF Map!MakesRoom, MakesRoomIn
  <1>4. Store' = [Map!Without(gone) EXCEPT ![i] = [value |-> r, at |-> clock]]
    BY <1>2, MapWords DEF Row
  <1>5. Steady' = Steady
    BY DEF Steady
  <1> QED BY <1>3, <1>4, <1>5 DEF Map!Put, Shelf

LEMMA MapLookup ==
    ASSUME Inv, NEW i \in Ids, answer' = Found(Store, i), Store' = Looked(Store, i),
           UNCHANGED <<Shelf, medium, clock>>
    PROVE  Map!Lookup(i)
  <1>1. Store \in Tables /\ clock \in Nat
    BY BoundsAssumption DEF Inv, TypeOK, Store
  <1>2. Store[i] # Nothing => Store[i].at \in Nat
    BY <1>1, BoundsAssumption DEF Tables, Entries
  <1>3. i \in LiveIn(Store) <=> Store[i] # Nothing /\ ~Expired(Store, i)
    BY <1>1, <1>2, BoundsAssumption DEF LiveIn, Held, Expired
  <1>4. answer' = IF i \in Map!Live THEN Store[i].value ELSE Nothing
    BY <1>3, MapWords DEF Found
  <1>5. \E gone \in SUBSET (Map!Held \ Map!Live) : Store' = Map!Without(gone)
    <2>1. CASE Expired(Store, i)
      <3>1. {i} \in SUBSET (Map!Held \ Map!Live)
        BY <1>3, <2>1, MapWords DEF Expired, Held
      <3>2. Store' = Without(Store, {i})
        BY <1>1, <2>1 DEF Looked, Without, Tables
      <3> QED BY <3>1, <3>2, MapWords
    <2>2. CASE ~Expired(Store, i)
      <3>1. Store' = Without(Store, {})
        BY <1>1, <2>2 DEF Looked, Without, Tables
      <3> QED BY <3>1, MapWords
    <2> QED BY <2>1, <2>2
  <1>6. Steady' = Steady
    BY DEF Steady
  <1> QED BY <1>4, <1>5, <1>6 DEF Map!Lookup, Shelf

\* The fallback sets the table aside.
LEMMA MapFallBack ==
    ASSUME Inv, ~use_memory, OpenFails, FallBack, UNCHANGED medium
    PROVE  Map!SetsAside \/ UNCHANGED <<Store, Shelf>>
  <1>1. /\ mem = NoEntry /\ (medium = "readonly" => disk = NoEntry)
        /\ medium \in {"readonly", "flaky"}
        /\ Store = disk /\ Store' = mem /\ Shelf = NoEntry /\ Shelf' = disk
    BY DEF Inv, Kept, OpenFails, FallBack, Store, Shelf
  <1>2. CASE medium = "readonly"
    BY <1>1, <1>2
  <1>3. CASE medium = "flaky"
    BY <1>1, <1>3, MapWords DEF Map!SetsAside, Map!Become, Steady, Shelf
  <1> QED BY <1>1, <1>2, <1>3

LEMMA MapGet ==
    ASSUME Inv, NEW i \in Ids, Get(i), UNCHANGED <<medium, clock>>
    PROVE  Map!Lookup(i) \/ Map!LookupFails
  <1>1. Steady' = Steady
    BY DEF Steady
  <1>2. CASE use_memory /\ answer' = Found(mem, i) /\ mem' = Looked(mem, i)
             /\ UNCHANGED <<disk, use_memory>>
    BY <1>2, MapLookup DEF Store, Shelf
  <1>3. CASE /\ ~use_memory /\ Opens /\ answer' = Found(disk, i)
             /\ disk' = Looked(disk, i) /\ UNCHANGED <<mem, use_memory>>
    BY <1>3, MapLookup DEF Store, Shelf
  <1>4. CASE ~use_memory /\ OpenFails /\ answer' = Nothing /\ FallBack
    BY <1>1, <1>4, MapFallBack DEF Map!LookupFails, Shelf
  <1>5. CASE /\ ~use_memory /\ medium = "flaky" /\ answer' = Nothing
             /\ UNCHANGED <<disk, mem, use_memory>>
    BY <1>1, <1>5 DEF Map!LookupFails, Store
  <1> QED BY <1>2, <1>3, <1>4, <1>5 DEF Get

LEMMA MapStep == Inv /\ [Next]_vars => [Map!Next]_(Map!vars)
  <1> SUFFICES ASSUME Inv, [Next]_vars
               PROVE  Map!Next \/ UNCHANGED Map!vars
    OBVIOUS
  <1> USE DEF Map!vars
  <1>1. /\ ~use_memory => mem = NoEntry
        /\ medium = "readonly" => disk = NoEntry
        /\ medium = "memory" => use_memory
        /\ medium = "works" => ~use_memory
        /\ medium \in Media /\ disk \in Tables /\ Store \in Tables
    BY DEF Inv, Kept, TypeOK, Store
  <1>2. ASSUME FallBack, ~use_memory, OpenFails, UNCHANGED <<medium, clock, answer>>
        PROVE  Map!Next \/ UNCHANGED Map!vars
    BY <1>2, MapFallBack DEF Map!Next, Map!SetAside, Shelf, Steady
  <1>3. UNCHANGED medium => Steady' = Steady
    BY DEF Steady
  <1>4. ASSUME NEW i \in Ids, StoreSituation(i) PROVE Map!Next \/ UNCHANGED Map!vars
    <2>1. saves + 1 \in Results /\ Save(i, saves + 1) /\ UNCHANGED <<medium, clock, answer>>
      BY <1>4, BoundsAssumption DEF StoreSituation, Save, Inv, TypeOK, Results
    <2>2. CASE SaveInMemory(i, saves + 1)
      BY <2>1, <2>2, MapPut DEF SaveInMemory, Store, Shelf, Map!Next
    <2>3. CASE SaveOnDisk(i, saves + 1)
      BY <2>1, <2>3, MapPut DEF SaveOnDisk, Store, Shelf, Map!Next
    <2>4. CASE SaveUnopened(i, saves + 1)
      BY <1>2, <2>1, <2>4 DEF SaveUnopened
    <2>5. CASE SaveRaises(i, saves + 1)
      BY <1>3, <2>1, <2>5 DEF SaveRaises, Store
    <2> QED BY <2>1, <2>2, <2>3, <2>4, <2>5 DEF Save
  <1>5. ASSUME NEW i \in Ids, ViewDerived(i) \/ GetSituation(i) PROVE Map!Next
    BY <1>5, MapGet DEF ViewDerived, GetSituation, Map!Next
  <1>6. CASE OpenApprovalPage
    <2>1. Map!LookupFails
      BY <1>3, <1>6, MapFallBack DEF OpenApprovalPage, Map!LookupFails, Store, Shelf
    <2> QED BY <2>1 DEF Map!Next
  <1>7. CASE Count
    <2>1. CASE ~use_memory /\ OpenFails /\ FallBack
      BY <1>2, <1>7, <2>1 DEF Count
    <2>2. CASE Store' = EvictExpired(Store) /\ Shelf' = Shelf
      <3>1. EvictExpired(Store) = Map!Without(Map!Held \ Map!Live)
        BY <1>1, MapWords, EvictExpiredFacts, BoundsAssumption DEF Inv, TypeOK
      <3>2. Map!Forget
        BY <1>3, <1>7, <2>2, <3>1 DEF Count, Map!Forget, Shelf
      <3> QED BY <3>2 DEF Map!Next
    <2> QED BY <1>7, <2>1, <2>2 DEF Count, Store, Shelf
  <1>8. CASE Clear
    <2>1. CASE ~use_memory /\ OpenFails /\ FallBack
      BY <1>2, <1>8, <2>1 DEF Clear
    <2>2. CASE Store' = Map!Empty /\ Shelf' = Shelf
      <3>1. Map!Wipe
        BY <1>3, <1>8, <2>2 DEF Clear, Map!Wipe, Map!Become, Shelf
      <3> QED BY <3>1 DEF Map!Next
    <2> QED BY <1>8, <2>1, <2>2, MapWords DEF Clear, Store, Shelf
  <1>9. CASE Tick
    <2>1. Map!Tick
      BY <1>3, <1>9 DEF Tick, Map!Tick, Store
    <2> QED BY <2>1 DEF Map!Next
  <1>10. CASE Restart
    <2>1. CASE ~use_memory
      BY <1>1, <1>3, <1>10, <2>1 DEF Restart, Store, Loaded
    <2>2. CASE use_memory /\ medium = "flaky"
      <3>1. Store' = Shelf /\ Shelf' = Map!Empty
        BY <1>10, <2>2, MapWords DEF Restart, Store, Shelf, Loaded
      <3>2. Map!ComesBack
        BY <1>3, <1>10, <2>2, <3>1 DEF Restart, Map!ComesBack, Map!Become, Shelf, Steady
      <3> QED BY <3>2 DEF Map!Next
    <2>3. CASE use_memory /\ medium # "flaky"
      <3>1. Store' = Map!Empty /\ Shelf' \in {Shelf, Map!Empty}
        BY <1>1, <1>10, <2>3, MapWords DEF Restart, Store, Shelf, Loaded, Media
      <3>2. Map!Wipe
        BY <1>3, <1>10, <3>1 DEF Restart, Map!Wipe, Map!Become, Shelf
      <3> QED BY <3>2 DEF Map!Next
    <2> QED BY <2>1, <2>2, <2>3
  <1>11. CASE Replace
    <2>1. Store' = Map!Empty /\ Shelf' = Map!Empty
      BY <1>11, MapWords DEF Replace, Store, Shelf
    <2>2. Map!Wipe
      BY <1>3, <1>11, <2>1 DEF Replace, Map!Wipe, Map!Become, Shelf
    <2> QED BY <2>2 DEF Map!Next
  <1>12. CASE UNCHANGED vars
    BY <1>12 DEF vars, Store, Steady
  <1> QED BY <1>4, <1>5, <1>6, <1>7, <1>8, <1>9, <1>10, <1>11, <1>12 DEF Next

\* Whatever it is kept on, the situation store is the bounded map with a lifetime its
\* callers take it for (SituationStore).
THEOREM StoreKeepsItsPromise == Spec => StoreIsABoundedMap
  BY MapInit, MapStep, InvHolds, PTL DEF Spec, StoreIsABoundedMap, Map!Spec
=============================================================================
