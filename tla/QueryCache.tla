----------------------------- MODULE QueryCache -----------------------------
(***************************************************************************)
(* TanStack Query 5 as the dashboard pages use it: useQuery, and           *)
(* invalidateQueries after a mutation.  What a page reads is modelled as   *)
(* the set of committed writes that the answer reflects, its snapshot.  A  *)
(* fetch takes its snapshot when it is sent, the earliest moment at which  *)
(* the server can read.                                                    *)
(***************************************************************************)
EXTENDS Integers, FiniteSets

CONSTANT MaxUnseen   \* bound: queries that are held off the screen when one is asked

ASSUME QueryCacheAssumption == MaxUnseen \in Nat

\* What the cache holds for a query key: the answer of the last fetch and the
\* one in flight (at most one of each), whether the page takes the data for
\* fresh, and whether the fetch is one that an invalidation came too late for.
Entries(Writes) ==
  [data : SUBSET SUBSET Writes, fetch : SUBSET SUBSET Writes, fresh : BOOLEAN, late : BOOLEAN]

NoEntry == [data |-> {}, fetch |-> {}, fresh |-> FALSE, late |-> FALSE]

\* A query on the screen that is not fresh is fetched: on mount and on focus.
Asked(cache, k, snapshot) == [cache EXCEPT ![k].fetch = {snapshot}, ![k].late = FALSE]

\* The answer arrives.  It clears the mark of any invalidation before it.
Filled(cache, k) ==
  [cache EXCEPT ![k].data = cache[k].fetch, ![k].fetch = {}, ![k].fresh = TRUE]

\* The fetch and its retry have failed: the old data stays.
Failed(cache, k) == [cache EXCEPT ![k].fetch = {}, ![k].fresh = FALSE, ![k].late = FALSE]

\* staleTime is over.
Aged(cache, k) == [cache EXCEPT ![k].fresh = FALSE, ![k].late = FALSE]

\* gcTime is over for a query that nothing on the screen observes.
Collected(cache, k) == [cache EXCEPT ![k] = NoEntry]

\* What the library does by itself: a page shows the queries in shown, the
\* server would answer now[k].
QuerySteps(cache, shown, now) ==
  LET inFlight == {k \in DOMAIN cache : cache[k].fetch # {}}
      held == {k \in DOMAIN cache : cache[k] # NoEntry}
      room == IF Cardinality(held \ shown) <= MaxUnseen THEN shown ELSE shown \cap held
      old == {k \in DOMAIN cache : cache[k].data # {}} \ inFlight
  IN  {Asked(cache, k, now[k]) : k \in {i \in room \ inFlight : ~cache[i].fresh}}
        \cup {Filled(cache, k) : k \in inFlight}
        \cup {Failed(cache, k) : k \in inFlight}
        \cup {Aged(cache, k) : k \in {i \in old : cache[i].fresh}}
        \cup {Collected(cache, k) : k \in old \ shown}

\* invalidateQueries.  A query on the screen is fetched again, and a fetch under
\* way is given up for it; but not the first fetch of a query, and not the one
\* of a query that has left the screen: these end with what they have read.
Invalidated(cache, keys, shown, now) ==
  [k \in DOMAIN cache |->
     IF k \notin keys THEN cache[k]
     ELSE IF k \in shown /\ (cache[k].data # {} \/ cache[k].fetch = {})
       THEN [cache[k] EXCEPT !.fetch = {now[k]}, !.fresh = FALSE, !.late = FALSE]
     ELSE [cache[k] EXCEPT !.fresh = FALSE, !.late = (cache[k].fetch # {})]]

\* What a page shows as fresh reflects the writes in known, and so will the
\* answer to a fetch, unless the invalidation came too late for it.
Recent(entry, known) ==
  ~entry.late =>
    /\ \A snapshot \in entry.fetch : known \subseteq snapshot
    /\ entry.fresh => \A snapshot \in entry.data : known \subseteq snapshot
=============================================================================
