------------------------------ MODULE RunCache ------------------------------
(***************************************************************************)
(* cache.RunCache (internal/cache/run_cache.go): the ids of agent runs,    *)
(* bounded, first in first out, with a time to live.  Get reads under the  *)
(* read lock and, when the entry has expired, deletes under the write      *)
(* lock: between the two any other call may run.                           *)
(***************************************************************************)
EXTENDS Naturals, Sequences, FiniteSets

CONSTANTS Keys, MaxEntries, Getters

ASSUME RunCacheAssumption == MaxEntries \in Nat \ {0}

VARIABLES entries,   \* c.entries: "fresh", "expired" or "none" for each key
          order,     \* c.order
          purging    \* the key a caller of Get is about to delete, or "none"

runVars == <<entries, order, purging>>

Entry == {"fresh", "expired", "none"}

RunTyped ==
    /\ entries \in [Keys -> Entry]
    /\ order \in Seq(Keys)
    /\ purging \in [Getters -> Keys \union {"none"}]

RunInit ==
    /\ entries = [k \in Keys |-> "none"]
    /\ order = << >>
    /\ purging = [g \in Getters |-> "none"]

Has(k) == entries[k] # "none"
Stored == {k \in Keys : Has(k)}
At(s, k) == {i \in 1..Len(s) : s[i] = k}
FirstAt(s, k) == CHOOSE i \in At(s, k) : \A j \in At(s, k) : i <= j

\* Mutant: the key keeps its place in order.
KeepOrder(s, k) == s

\* removeOrderLocked: without the first occurrence of the key.
RemoveOrder(s, k) ==
    IF At(s, k) = {} THEN s
    ELSE SubSeq(s, 1, FirstAt(s, k) - 1) \o SubSeq(s, FirstAt(s, k) + 1, Len(s))

Drop(k) ==
    /\ entries' = [entries EXCEPT ![k] = "none"]
    /\ order' = RemoveOrder(order, k)

\* Get under the read lock.  A miss and a hit change nothing.
GetExpired(g, k) ==
    /\ purging[g] = "none"
    /\ entries[k] = "expired"
    /\ purging' = [purging EXCEPT ![g] = k]
    /\ UNCHANGED <<entries, order>>

\* Get under the write lock: whatever is stored by now is deleted.
GetPurges(g) ==
    /\ purging[g] # "none"
    /\ Drop(purging[g])
    /\ purging' = [purging EXCEPT ![g] = "none"]

Replace(k) ==
    /\ Has(k)
    /\ entries' = [entries EXCEPT ![k] = "fresh"]
    /\ UNCHANGED <<order, purging>>

\* The first key of order that has an entry, if there is one.
Victims == {k \in Stored : \E i \in 1..Len(order) :
                order[i] = k /\ \A j \in 1..i - 1 : ~Has(order[j])}

Insert(k) ==
    /\ ~Has(k)
    /\ IF Cardinality(Stored) >= MaxEntries /\ Victims # {}
         THEN \E v \in Victims :
                 /\ entries' = [entries EXCEPT ![v] = "none", ![k] = "fresh"]
                 /\ order' = Append(RemoveOrder(order, v), k)
         ELSE /\ entries' = [entries EXCEPT ![k] = "fresh"]
              /\ order' = Append(order, k)
    /\ UNCHANGED purging

Delete(k) == Has(k) /\ Drop(k) /\ UNCHANGED purging

Expire(k) ==
    /\ entries[k] = "fresh"
    /\ entries' = [entries EXCEPT ![k] = "expired"]
    /\ UNCHANGED <<order, purging>>

RunNext ==
    \/ \E g \in Getters, k \in Keys : GetExpired(g, k)
    \/ \E g \in Getters : GetPurges(g)
    \/ \E k \in Keys : Replace(k) \/ Insert(k) \/ Delete(k) \/ Expire(k)

RunSpec == RunInit /\ [][RunNext]_runVars

\* The cache never outgrows MaxEntries: order names every entry exactly once, so
\* that Set finds one to evict, however late a Get deletes what it saw expired
\* (run_cache.go:60-111).
EntriesCanBeEvicted ==
    /\ \A k \in Keys : Has(k) <=> \E i \in 1..Len(order) : order[i] = k
    /\ \A i, j \in 1..Len(order) : order[i] = order[j] => i = j
    /\ Cardinality(Stored) <= MaxEntries
=============================================================================
