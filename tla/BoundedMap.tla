------------------------------ MODULE BoundedMap ------------------------------
(***************************************************************************)
(* What the situation store promises its callers: a map of bounded size    *)
(* whose entries live for a while.  A lookup yields the value last put     *)
(* under the key, as long as it is held and has not outlived its lifetime; *)
(* room is made at the cost of one entry, the oldest.  A map that is not   *)
(* steady may be set aside, for an empty one, and come back as it was.     *)
(***************************************************************************)
EXTENDS Naturals, FiniteSets

CONSTANTS Keys, Values, Capacity, Lifetime, Nothing

VARIABLES map,     \* map[k] is Nothing or a value and the time it was put
          now,
          shelf,   \* the map that was set aside, empty if none is
          answer,  \* of the last lookup
          steady   \* TRUE: nothing is set aside

vars == <<map, now, shelf, answer, steady>>

Empty == [k \in Keys |-> Nothing]
Held == {k \in Keys : map[k] # Nothing}
Live == {k \in Held : now - map[k].at <= Lifetime}

Init == map = Empty /\ shelf = Empty /\ now = 0 /\ answer = Nothing /\ steady \in BOOLEAN

\* Without the entries of gone.
Without(gone) == [k \in Keys |-> IF k \in gone THEN Nothing ELSE map[k]]

\* A live entry makes room only in a full map, alone, and none that stays is older.
MakesRoom(k, gone) ==
    /\ \A g \in gone \cap Live :
          /\ Cardinality(Live) >= Capacity
          /\ gone \cap Live = {g}
          /\ \A j \in Live \ {g, k} : map[g].at <= map[j].at

Put(k, v) ==
    /\ \E gone \in SUBSET Held :
          /\ MakesRoom(k, gone)
          /\ map' = [Without(gone) EXCEPT ![k] = [value |-> v, at |-> now]]
    /\ UNCHANGED <<now, shelf, answer, steady>>

\* What has outlived its lifetime may go at any time.
Forget ==
    /\ \E gone \in SUBSET (Held \ Live) : map' = Without(gone)
    /\ UNCHANGED <<now, shelf, answer, steady>>

Lookup(k) ==
    /\ answer' = IF k \in Live THEN map[k].value ELSE Nothing
    /\ \E gone \in SUBSET (Held \ Live) : map' = Without(gone)
    /\ UNCHANGED <<now, shelf, steady>>

Become(m, s) == map' = m /\ shelf' = s

\* Another map takes over, empty; this one is left as it is.
SetsAside == ~steady /\ shelf = Empty /\ Become(Empty, map)

SetAside == SetsAside /\ UNCHANGED <<now, answer, steady>>

\* What was set aside comes back: nothing else, and in place of what was put since.
ComesBack ==
    /\ ~steady
    /\ Become(shelf, Empty)
    /\ UNCHANGED <<now, answer, steady>>

\* A lookup that fails finds nothing.
LookupFails ==
    /\ answer' = Nothing
    /\ SetsAside \/ UNCHANGED <<map, shelf>>
    /\ UNCHANGED <<now, steady>>

\* The map is cleared; or lost with what it was kept on, and with what was set aside.
Wipe ==
    /\ Become(Empty, shelf) \/ Become(Empty, Empty)
    /\ UNCHANGED <<now, answer, steady>>

Tick ==
    /\ now' = now + 1
    /\ UNCHANGED <<map, shelf, answer, steady>>

Next ==
    \/ \E k \in Keys : Lookup(k) \/ \E v \in Values : Put(k, v)
    \/ Forget \/ SetAside \/ ComesBack \/ LookupFails \/ Wipe \/ Tick

Spec == Init /\ [][Next]_vars
=============================================================================
