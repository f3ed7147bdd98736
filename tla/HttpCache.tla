----------------------------- MODULE HttpCache -----------------------------
(***************************************************************************)
(* The GET cache of the web front end (src/web/react/src/api/request.ts).  *)
(* Time is counted in ticks; every setTimeout that deletes an entry is a   *)
(* pair <<url, ticks left>> of timers, and timers are never cancelled.     *)
(***************************************************************************)
EXTENDS RequestUrl

CONSTANTS
  Ttl,      \* ticks an entry is kept (DEDUP_TTL)
  Flight    \* ticks a request may be in flight (axios timeout)

ASSUME TtlAssumption == Ttl \in Nat \ {0}
ASSUME FlightAssumption == Flight \in Nat

VARIABLES
  cache,    \* pendingRequests: url -> the body kept and the ticks since the server wrote it
  timers    \* the deletions scheduled, each with the ticks left

----------------------------------------------------------------------------
CacheInit == cache = <<>> /\ timers = {}

Without(keys) == [k \in DOMAIN cache \ keys |-> cache[k]]

\* The answer of a GET is kept, replacing what was there, and its deletion scheduled.
Store(k, body, age) ==
  /\ cache' = [j \in DOMAIN cache \cup {k} |->
                 IF j = k THEN [body |-> body, age |-> age] ELSE cache[j]]
  /\ timers' = timers \cup {<<k, Ttl>>}

\* Mutant: a hit cancels the deletion scheduled when the entry was stored.
Reuse_Renews(gone, hits) ==
  /\ cache' = Without(gone)
  /\ timers' = {t \in timers : t[1] \notin hits} \cup {<<k, Ttl>> : k \in hits}

\* Entries are deleted (a mutation succeeded or a GET failed) and GETs of others
\* are answered from the cache at once: the body is put back with one more timer.
Reuse(gone, hits) ==
  /\ cache' = Without(gone)
  /\ timers' = timers \cup {<<k, Ttl>> : k \in hits}

\* A timer that is due deletes its entry, also one stored later.
Fire(t) ==
  /\ t[2] = 0
  /\ cache' = Without({t[1]})
  /\ timers' = timers \ {t}

\* Time passes while no timer is due.
CacheTick ==
  /\ \A t \in timers : t[2] > 0
  /\ cache' = [k \in DOMAIN cache |-> [body |-> cache[k].body, age |-> cache[k].age + 1]]
  /\ timers' = {<<t[1], t[2] - 1>> : t \in timers}

----------------------------------------------------------------------------
\* Every entry has a timer that deletes it before it is too old.
TimerCovers ==
  \A k \in DOMAIN cache : \E t \in timers :
    /\ t[1] = k
    /\ t[2] \in Nat
    /\ cache[k].age \in Nat
    /\ cache[k].age + t[2] <= Ttl + Flight

\* No entry is older than a request's flight and the time to live together
\* (request.ts: hits put an entry back but leave its first timer running).
AgeBounded == \A k \in DOMAIN cache : cache[k].age <= Ttl + Flight
=============================================================================
