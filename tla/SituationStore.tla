---------------------------- MODULE SituationStore ----------------------------
(***************************************************************************)
(* Where the situations of the webhook are kept, and what a reader sees.   *)
(*   src/src/forgemind/situation_store.py    SituationStore                *)
(*   src/src/forgemind/api/situation_cache.py                              *)
(*   src/src/forgemind/api/adk_routes.py     the end of adk_github_webhook *)
(*   src/src/forgemind/api/routes.py         situation_viewer, get_situation*)
(*   src/src/forgemind/api/pipeline.py       _fixture_body_for             *)
(*                                                                         *)
(* The store keeps its rows in SQLite, or in the process once SQLite could *)
(* not be opened; the cache beside it is always in the process.  Every     *)
(* caller runs on the event loop and awaits nothing in between, so that an *)
(* operation is one action.  Of an event and its result only the save they *)
(* come from is kept: the number of the save.                              *)
(***************************************************************************)
EXTENDS Naturals, FiniteSets

CONSTANTS Ids,        \* situation identifiers
          TTL,        \* _TTL_SECONDS and _TTL, in ticks
          MAX_SIZE,   \* _MAX_SIZE of either
          MaxTime,    \* bound on the clock
          MaxSaves,   \* bound on the saves
          Nothing

Results == 1..MaxSaves

\* What the database file is on.
Media == {"works",     \* every open and every statement succeeds
          "readonly",  \* no open does
          "flaky",     \* either may fail, each time
          "memory"}    \* FORGEMIND_SITUATION_STORE = "memory"

ASSUME IdsAssumption == IsFiniteSet(Ids)
ASSUME SizeAssumption == MAX_SIZE \in Nat \ {0}
ASSUME BoundsAssumption == TTL \in Nat /\ MaxTime \in Nat /\ MaxSaves \in Nat
ASSUME NothingAssumption == Nothing \notin [value : Results, at : Nat] \cup Results

VARIABLES medium,
          clock,
          saves,       \* saves made so far
          latest,      \* of each situation: its last save
          disk,        \* the table situations
          mem,         \* _mem_store
          use_memory,  \* _use_memory
          cache,       \* _cache of situation_cache
          answer       \* what the last lookup in the store returned

vars == <<medium, clock, saves, latest, disk, mem, use_memory, cache, answer>>

NoEntry == [i \in Ids |-> Nothing]

\* The class attribute as the module is loaded.
Loaded == medium = "memory"

Init ==
    /\ medium \in Media
    /\ clock = 0
    /\ saves = 0
    /\ latest = [i \in Ids |-> Nothing]
    /\ disk = NoEntry
    /\ mem = NoEntry
    /\ use_memory = Loaded
    /\ cache = NoEntry
    /\ answer = Nothing

-----------------------------------------------------------------------------
(* The dictionaries and the table, which evict alike. *)

Held(f) == {i \in Ids : f[i] # Nothing}

Expired(f, i) == f[i] # Nothing /\ clock - f[i].at > TTL

Without(f, gone) == [i \in Ids |-> IF i \in gone THEN Nothing ELSE f[i]]

EvictExpired(f) == Without(f, {i \in Ids : Expired(f, i)})

\* Fault for the checks: the loop stops one entry late.
EvictOverflow_OneLate(f) ==
    {Without(f, gone) : gone \in
        {g \in SUBSET Held(f) :
            /\ \A i \in g, j \in Held(f) \ g : f[i].at <= f[j].at
            /\ Cardinality(Held(f) \ g) <= MAX_SIZE
            /\ g # {} => Cardinality(Held(f) \ g) = MAX_SIZE}}

\* Fault for the checks: the youngest makes room.
EvictOverflow_Youngest(f) ==
    {Without(f, gone) : gone \in
        {g \in SUBSET Held(f) :
            /\ \A i \in g, j \in Held(f) \ g : f[i].at >= f[j].at
            /\ Cardinality(Held(f) \ g) < MAX_SIZE
            /\ g # {} => Cardinality(Held(f) \ g) = MAX_SIZE - 1}}

\* The oldest entries go, one by one, until there is room for one more; of entries
\* of one age any may be first.
EvictOverflow(f) ==
    {Without(f, gone) : gone \in
        {g \in SUBSET Held(f) :
            /\ \A i \in g, j \in Held(f) \ g : f[i].at <= f[j].at
            /\ Cardinality(Held(f) \ g) < MAX_SIZE
            /\ g # {} => Cardinality(Held(f) \ g) = MAX_SIZE - 1}}

\* Fault for the checks: the row that is there already stays.
Upserted_IfAbsent(f, i, r) ==
    {IF g[i] # Nothing THEN g ELSE [g EXCEPT ![i] = [value |-> r, at |-> clock]] :
        g \in EvictOverflow(EvictExpired(f))}

\* What f may be after a save of r under i.
Upserted(f, i, r) ==
    {[g EXCEPT ![i] = [value |-> r, at |-> clock]] : g \in EvictOverflow(EvictExpired(f))}

-----------------------------------------------------------------------------
(* The store. *)

\* Where a lookup looks.
Store == IF use_memory THEN mem ELSE disk

\* _db: with a connection, or without.
Opens == medium \in {"works", "flaky"}
OpenFails == medium \in {"readonly", "flaky"}

\* Without one the process gives up on SQLite for good.
FallBack == use_memory' = TRUE /\ UNCHANGED <<disk, mem>>

SaveInMemory(i, r) ==
    /\ use_memory
    /\ mem' \in Upserted(mem, i, r)
    /\ UNCHANGED <<disk, use_memory>>

SaveOnDisk(i, r) ==
    /\ ~use_memory /\ Opens
    /\ disk' \in Upserted(disk, i, r)
    /\ UNCHANGED <<mem, use_memory>>

\* The save that discovers the file cannot be opened returns without saving.
SaveUnopened(i, r) == ~use_memory /\ OpenFails /\ FallBack

\* A statement fails: nothing is committed, the webhook logs the exception.
SaveRaises(i, r) ==
    /\ ~use_memory /\ medium = "flaky"
    /\ UNCHANGED <<disk, mem, use_memory>>

Save(i, r) ==
    /\ UNCHANGED answer
    /\ \/ SaveInMemory(i, r) \/ SaveOnDisk(i, r)
       \/ SaveUnopened(i, r) \/ SaveRaises(i, r)

\* Fault for the checks: the wrong column is returned.
Found_Stamp(f, i) == IF f[i] = Nothing \/ Expired(f, i) THEN Nothing ELSE f[i].at

Found(f, i) == IF f[i] = Nothing \/ Expired(f, i) THEN Nothing ELSE f[i].value

\* An entry found expired is deleted.
Looked(f, i) == IF Expired(f, i) THEN [f EXCEPT ![i] = Nothing] ELSE f

Get(i) ==
    \/ /\ use_memory
       /\ answer' = Found(mem, i)
       /\ mem' = Looked(mem, i)
       /\ UNCHANGED <<disk, use_memory>>
    \/ /\ ~use_memory /\ Opens
       /\ answer' = Found(disk, i)
       /\ disk' = Looked(disk, i)
       /\ UNCHANGED <<mem, use_memory>>
    \/ ~use_memory /\ OpenFails /\ answer' = Nothing /\ FallBack
    \/ /\ ~use_memory /\ medium = "flaky"
       /\ answer' = Nothing
       /\ UNCHANGED <<disk, mem, use_memory>>

\* The approval page looks its token up, which is no situation's identifier.
OpenApprovalPage ==
    /\ answer' = Nothing
    /\ \/ ~use_memory /\ OpenFails /\ FallBack
       \/ UNCHANGED <<disk, mem, use_memory>>
    /\ UNCHANGED <<medium, clock, saves, latest, cache>>

\* count and clear fail without a connection, after _db has given up.
Count ==
    /\ \/ use_memory /\ mem' = EvictExpired(mem) /\ UNCHANGED <<disk, use_memory>>
       \/ ~use_memory /\ Opens /\ disk' = EvictExpired(disk) /\ UNCHANGED <<mem, use_memory>>
       \/ ~use_memory /\ OpenFails /\ FallBack
    /\ UNCHANGED <<medium, clock, saves, latest, answer, cache>>

Clear ==
    /\ \/ use_memory /\ mem' = NoEntry /\ UNCHANGED <<disk, use_memory>>
       \/ ~use_memory /\ Opens /\ disk' = NoEntry /\ UNCHANGED <<mem, use_memory>>
       \/ ~use_memory /\ OpenFails /\ FallBack
    /\ UNCHANGED <<medium, clock, saves, latest, answer, cache>>

-----------------------------------------------------------------------------
(* The callers. *)

\* A webhook delivery is through the pipeline: the situation is saved, as well as
\* that goes, and put into the cache.
StoreSituation(i) ==
    /\ saves < MaxSaves
    /\ saves' = saves + 1
    /\ latest' = [latest EXCEPT ![i] = saves + 1]
    /\ Save(i, saves + 1)
    /\ cache' \in Upserted(cache, i, saves + 1)
    /\ UNCHANGED <<medium, clock>>

\* The viewer asks the cache first; what it finds there it shows, and nothing
\* changes.  Otherwise it derives the situation anew from the stored event ...
ViewDerived(i) ==
    /\ Found(cache, i) = Nothing
    /\ cache' = Looked(cache, i)
    /\ Get(i)
    /\ UNCHANGED <<medium, clock, saves, latest>>

\* ... which is all GET /api/v1/situations/{id} ever does.
GetSituation(i) ==
    /\ Get(i)
    /\ UNCHANGED <<medium, clock, saves, latest, cache>>

Tick ==
    /\ clock < MaxTime
    /\ clock' = clock + 1
    /\ UNCHANGED <<medium, saves, latest, disk, mem, use_memory, cache, answer>>

\* The process starts anew and finds the file as it left it ...
Restart ==
    /\ mem' = NoEntry
    /\ cache' = NoEntry
    /\ use_memory' = Loaded
    /\ UNCHANGED <<medium, clock, saves, latest, disk, answer>>

\* ... unless the container was replaced.
Replace ==
    /\ disk' = NoEntry
    /\ mem' = NoEntry
    /\ cache' = NoEntry
    /\ use_memory' = Loaded
    /\ UNCHANGED <<medium, clock, saves, latest, answer>>

Next ==
    \/ \E i \in Ids : StoreSituation(i) \/ ViewDerived(i) \/ GetSituation(i)
    \/ OpenApprovalPage \/ Count \/ Clear
    \/ Tick \/ Restart \/ Replace

Spec == Init /\ [][Next]_vars

-----------------------------------------------------------------------------
(* Properties. *)

Entries == [value : Results, at : 0..MaxTime]
Tables == [Ids -> Entries \cup {Nothing}]

\* Every variable keeps to its type.
TypeOK ==
    /\ medium \in Media
    /\ clock \in 0..MaxTime
    /\ saves \in 0..MaxSaves
    /\ latest \in [Ids -> Results \cup {Nothing}]
    /\ disk \in Tables /\ mem \in Tables /\ cache \in Tables
    /\ use_memory \in BOOLEAN
    /\ answer \in Results \cup {Nothing}

\* "FIFO eviction threshold" (_MAX_SIZE): neither the table, nor the dictionary, nor
\* the cache ever outgrows it, whichever of them a save went to.
BoundedSize == \A f \in {disk, mem, cache} : Cardinality(Held(f)) <= MAX_SIZE

\* SQLite does not come and go.
Steady == medium # "flaky"

\* A page never shows a superseded situation: not when cache and store have evicted
\* differently, not after a restart, and not after the fallback, whose save was lost
\* and whose table still has the older row.  Where SQLite comes and goes, the
\* table alone is excused, as long as it is in use (situation_viewer, get_situation).
PagesShowTheLatest ==
    \A i \in Ids :
        /\ Found(cache, i) \in {latest[i], Nothing}
        /\ Steady \/ use_memory => Found(Store, i) \in {latest[i], Nothing}

\* Whatever it is kept on, the store is a bounded map with a lifetime: its readers
\* see the last value saved or nothing, and a save costs at most one live entry, the
\* oldest, and only in a full store.  When SQLite comes and goes, what a restart brings
\* back is the table as it was at the fallback, neither more nor less of it (SituationStore).
Map == INSTANCE BoundedMap WITH
    Keys <- Ids, Values <- Results, Capacity <- MAX_SIZE, Lifetime <- TTL,
    map <- Store, now <- clock, steady <- Steady,
    shelf <- IF use_memory THEN disk ELSE NoEntry

StoreIsABoundedMap == Map!Spec
=============================================================================
