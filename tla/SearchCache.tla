---------------------------- MODULE SearchCache ----------------------------
(***************************************************************************)
(* websearch.Cache (internal/websearch/cache.go) for one key: an entry in  *)
(* memory under a lock, and a file that is read and written without one,   *)
(* by every worker of a research and across restarts.  A response is named *)
(* by the time at which it was stored, which is all the properties need.   *)
(* WriteFile first truncates, and two writers may leave a mixture.         *)
(***************************************************************************)
EXTENDS Integers

CONSTANTS Workers,
          Ttl,            \* 15 minutes, for memory and file alike
          MaxNow          \* bound: the clock

ASSUME SearchAssumption == Ttl \in Nat /\ MaxNow \in Nat

VARIABLES now,
          item,           \* c.items[key]: an entry, or NoEntry
          disk,           \* the file: an entry, NoEntry, or Corrupt
          worker,         \* what each worker is doing
          answered        \* the last answer of each worker, and when

searchVars == <<now, item, disk, worker, answered>>

NoEntry == [stored |-> -1, expires |-> -1]
Corrupt == [stored |-> -2, expires |-> -2]
CacheEntry == [stored : 0..MaxNow, expires : 0..MaxNow + Ttl]
Free == [pc |-> "free"]
Doing(p, e) == [pc |-> p, entry |-> e]
NoAnswer == [entry |-> NoEntry, at |-> 0]

SearchTyped ==
    /\ now \in 0..MaxNow
    /\ item \in CacheEntry \union {NoEntry}
    /\ disk \in CacheEntry \union {NoEntry, Corrupt}
    /\ \A w \in Workers :
          /\ worker[w] = Free \/ worker[w].pc \in {"truncate", "write", "loaded"}
          /\ answered[w].at \in 0..MaxNow

SearchInit ==
    /\ now = 0
    /\ item = NoEntry /\ disk = NoEntry
    /\ worker = [w \in Workers |-> Free]
    /\ answered = [w \in Workers |-> NoAnswer]

Expired(e) == now > e.expires
Answers(w, e) == answered' = [answered EXCEPT ![w] = [entry |-> e, at |-> now]]

\* Set: memory under the lock, then saveToFile: the file is truncated ...
SetMemory(w) ==
    /\ worker[w] = Free
    /\ LET e == [stored |-> now, expires |-> now + Ttl]
       IN  item' = e /\ worker' = [worker EXCEPT ![w] = Doing("truncate", e)]
    /\ UNCHANGED <<now, disk, answered>>

Truncate(w) ==
    /\ worker[w].pc = "truncate"
    /\ disk' = Corrupt
    /\ worker' = [worker EXCEPT ![w].pc = "write"]
    /\ UNCHANGED <<now, item, answered>>

\* ... and written.  The file may have been removed meanwhile, then the write is
\* lost; it may hold the longer text of another writer, whose tail stays.
WriteFile(w) ==
    /\ worker[w].pc = "write"
    /\ disk' \in IF disk = NoEntry THEN {NoEntry}
                 ELSE IF disk = Corrupt THEN {worker[w].entry}
                 ELSE {worker[w].entry, Corrupt}
    /\ worker' = [worker EXCEPT ![w] = Free]
    /\ UNCHANGED <<now, item, answered>>

\* A write that fails (a full disk) or is cut off leaves what it has written.
WriteFails(w) ==
    /\ worker[w].pc \in {"truncate", "write"}
    /\ worker' = [worker EXCEPT ![w] = Free]
    /\ UNCHANGED <<now, item, disk, answered>>

GetHit(w) ==
    /\ worker[w] = Free
    /\ item # NoEntry /\ ~Expired(item)
    /\ Answers(w, item)
    /\ UNCHANGED <<now, item, disk, worker>>

\* loadFromFile: a file that is not there is a miss.
ReadFile(w) ==
    /\ worker[w] = Free
    /\ item = NoEntry \/ Expired(item)
    /\ disk # NoEntry
    /\ worker' = [worker EXCEPT ![w] = Doing("loaded", disk)]
    /\ UNCHANGED <<now, item, disk, answered>>

\* Mutant: the time of expiry is only looked at in memory.
UnusableIfCorrupt(e) == e = Corrupt

Unusable(e) == e = Corrupt \/ Expired(e)

\* Whatever file is there by now is removed.
DiscardFile(w) ==
    /\ worker[w].pc = "loaded" /\ Unusable(worker[w].entry)
    /\ disk' = NoEntry
    /\ worker' = [worker EXCEPT ![w] = Free]
    /\ UNCHANGED <<now, item, answered>>

\* The entry goes into memory, over one that may be newer, and is the answer.
Populate(w) ==
    /\ worker[w].pc = "loaded" /\ ~Unusable(worker[w].entry)
    /\ item' = worker[w].entry
    /\ Answers(w, worker[w].entry)
    /\ worker' = [worker EXCEPT ![w] = Free]
    /\ UNCHANGED <<now, disk>>

\* evictLoop
Evict ==
    /\ item # NoEntry /\ Expired(item)
    /\ item' = NoEntry
    /\ UNCHANGED <<now, disk, worker, answered>>

Restart ==
    /\ item' = NoEntry
    /\ worker' = [w \in Workers |-> Free]
    /\ answered' = [w \in Workers |-> NoAnswer]
    /\ UNCHANGED <<now, disk>>

TimePasses ==
    /\ now < MaxNow
    /\ now' = now + 1
    /\ UNCHANGED <<item, disk, worker, answered>>

SearchNext ==
    \/ \E w \in Workers : \/ SetMemory(w) \/ Truncate(w) \/ WriteFile(w) \/ WriteFails(w)
                          \/ GetHit(w) \/ ReadFile(w) \/ DiscardFile(w) \/ Populate(w)
    \/ Evict \/ Restart \/ TimePasses

SearchSpec == SearchInit /\ [][SearchNext]_searchVars

\* Every cached answer is a whole response that was stored at most Ttl ago, counted
\* from the search itself: copying it between file and memory, writers that overlap,
\* failed writes and restarts neither mix nor rejuvenate it (cache.go:42-139).
ServedWithinTtl ==
    \A w \in Workers : answered[w] # NoAnswer =>
        /\ answered[w].entry \in CacheEntry
        /\ answered[w].at - answered[w].entry.stored \in 0..Ttl
=============================================================================
