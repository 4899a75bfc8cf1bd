----------------------------- MODULE InferenceCache -----------------------------
(***************************************************************************)
(* InferenceCache (inference/caching.py): an ordered dictionary, evicted   *)
(* from its front, with hits moved to its end, and entries that expire.    *)
(***************************************************************************)
EXTENDS Integers, Sequences, SequencesExt

CONSTANTS
  Queries,    \* stands for their keys: hashes do not collide
  Results,
  MaxSize,    \* max_size
  Lifetimes   \* what `ttl or self.ttl_seconds` may be, in ticks

ASSUME CacheAssumption == MaxSize \in Nat \ {0} /\ Lifetimes \subseteq Nat \ {0}

VARIABLES
  cache,     \* entries, the next to be evicted first; left stops below 0
  lastSet,   \* history: the entry that the last set of each query made, as it ages
  touched    \* history: queries by their last insertion or hit, the latest last

cacheVars == <<cache, lastSet, touched>>

CacheInit ==
  /\ cache = << >>
  /\ lastSet = [q \in Queries |-> << >>]
  /\ touched = << >>

\* A query is touched once.
Without(s, q) ==
  IF q \in Range(s) THEN RemoveAt(s, CHOOSE i \in DOMAIN s : s[i] = q) ELSE s
Evict(s) == IF Len(s) >= MaxSize THEN Tail(s) ELSE s
Place(q) == {i \in DOMAIN cache : cache[i].query = q}
Expired(entry) == entry.left < 0
Older(entry) == [entry EXCEPT !.left = IF @ < 0 THEN @ ELSE @ - 1]

\* Mutant: a hit leaves the entry where it is.
GetInPlace(q) ==
  \E i \in Place(q) :
    /\ ~Expired(cache[i])
    /\ touched' = Append(Without(touched, q), q)
    /\ UNCHANGED <<cache, lastSet>>

\* A hit moves the entry to the end.
Get(q) ==
  \E i \in Place(q) :
    /\ ~Expired(cache[i])
    /\ cache' = Append(RemoveAt(cache, i), cache[i])
    /\ touched' = Append(Without(touched, q), q)
    /\ UNCHANGED lastSet

\* A miss by age deletes the entry (a miss by absence changes nothing).
GetExpired(q) ==
  \E i \in Place(q) :
    /\ Expired(cache[i])
    /\ cache' = RemoveAt(cache, i)
    /\ UNCHANGED <<lastSet, touched>>

\* At capacity the first entry goes, before it is known whether the query is
\* cached; a query that still is keeps its place.
Set(q, r, ttl) ==
  LET kept == Evict(cache)
      entry == [query |-> q, result |-> r, left |-> ttl]
      places == {i \in DOMAIN kept : kept[i].query = q}
  IN /\ lastSet' = [lastSet EXCEPT ![q] = <<entry>>]
     /\ IF places = {}
        THEN cache' = Append(kept, entry) /\ touched' = Append(Without(touched, q), q)
        ELSE cache' = [i \in DOMAIN kept |-> IF i \in places THEN entry ELSE kept[i]]
             /\ UNCHANGED touched

Clear ==
  /\ cache' = << >> /\ touched' = << >>
  /\ UNCHANGED lastSet

CacheTick ==
  /\ cache' = [i \in DOMAIN cache |-> Older(cache[i])]
  /\ lastSet' = [q \in Queries |-> IF lastSet[q] = << >> THEN << >> ELSE <<Older(lastSet[q][1])>>]
  /\ UNCHANGED touched

CacheNext ==
  \/ \E q \in Queries : Get(q) \/ GetExpired(q)
  \/ \E q \in Queries, r \in Results, ttl \in Lifetimes : Set(q, r, ttl)
  \/ Clear
  \/ CacheTick

--------------------------------------------------------------------------------
(* Properties *)

\* Whatever entries eviction, expiry and overwriting leave, the cache holds
\* what was set last, and before they expire it loses none of the
\* MaxSize - 1 queries inserted or hit last: overwriting an entry may evict
\* another, which costs one of the max_size places.  Overwriting is no use of an
\* entry here, as in the code, where it keeps its place, so it may be evicted next;
\* "LRU cache", as the docstring has it, would count it.
RecentAreCached ==
  /\ \A i \in DOMAIN cache : <<cache[i]>> = lastSet[cache[i].query]
  /\ \A i \in DOMAIN touched :
       i > Len(touched) - (MaxSize - 1)
         => Place(touched[i]) # {} \/ Expired(lastSet[touched[i]][1])
================================================================================
