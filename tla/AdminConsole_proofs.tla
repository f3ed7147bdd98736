------------------------ MODULE AdminConsole_proofs ------------------------
(***************************************************************************)
(* The invariants of the GET cache and of the console's screens, for every *)
(* value of the constants.                                                 *)
(***************************************************************************)
EXTENDS AdminConsole, HttpCache_proofs

\* What is kept in the cache or under way is older than the last change of the list when
\* it is not what the server holds now.
Kept ==
  /\ TimerCovers
  /\ \A k \in DOMAIN cache : cache[k].body # made => since <= cache[k].age
  /\ \A g \in gets : g.served /\ g.body # made => since <= g.old

\* The changes this admin was told of are in every later answer and in what is cached.
OwnKept ==
  ~clouded => \A n \in 1..made : <<n, TRUE>> \in own =>
    /\ \A g \in gets : g.served => n <= g.body
    /\ \A k \in DOMAIN cache : n <= cache[k].body
    /\ gets = {} => n \in shown

\* Before a save has outlasted its guard, at most one runs, and it holds the lock.
Locked ==
  ~slow => \A c \in calls : c.does.once =>
    /\ lock > 0
    /\ \A d \in calls : d.does.once => c = d

IInv == TypeOK /\ Kept /\ OwnKept /\ Locked

LEMMA Bounds == Ttl \in Nat /\ Flight \in Nat /\ Guard \in Nat /\ Late = Ttl + Flight + 1 /\ Late \in Nat
BY TtlAssumption, FlightAssumption, GuardAssumption DEF Late

\* What is shown is older than the bound only if it is what the server holds.
LEMMA KeptIsFresh == Kept /\ TypeOK => QuietIsFresh
<1> SUFFICES ASSUME Kept, TypeOK, NEW k \in DOMAIN cache, since > Ttl + Flight
             PROVE  cache[k].body = made
    BY DEF QuietIsFresh
<1>1. cache[k].age <= Ttl + Flight /\ cache[k].age \in Nat
    BY CoveredIsBounded DEF Kept, AgeBounded, TimerCovers
<1> QED
    BY <1>1, Bounds DEF Kept, TypeOK

LEMMA InvImplies == IInv => OwnChangeShown /\ SavesOverlapOnlyWhenSlow
<1> SUFFICES ASSUME IInv PROVE OwnChangeShown /\ SavesOverlapOnlyWhenSlow
    OBVIOUS
<1>1. OwnChangeShown
    BY DEF IInv, OwnChangeShown, OwnKept, TypeOK, Changes
<1>2. SavesOverlapOnlyWhenSlow
    BY DEF IInv, SavesOverlapOnlyWhenSlow, Locked
<1> QED
    BY <1>1, <1>2

LEMMA InitOK == Init => IInv
<1> SUFFICES ASSUME Init PROVE IInv
    OBVIOUS
<1>1. DOMAIN cache = {} /\ timers = {}
    BY DEF Init, CacheInit
<1>2. TypeOK
  <2>1. gets = {} /\ calls = {} /\ own = {} /\ shown = {} /\ made = 0 /\ lock = 0 /\ since = Late
        /\ faults = 0 /\ clouded = FALSE /\ slow = FALSE /\ screen \in Screens
      BY DEF Init
  <2>2. since \in 0..Late /\ lock \in 0..Guard /\ faults \in 0..MaxFaults /\ made \in 0..MaxChanges
      BY <2>1, Bounds, BoundsAssumption
  <2> QED
      BY <1>1, <2>1, <2>2 DEF TypeOK
<1> QED
    BY <1>1, <1>2 DEF Init, IInv, Kept, TimerCovers, OwnKept, Locked

----------------------------------------------------------------------------
NewGet == [served |-> FALSE, body |-> 0, old |-> 0, left |-> Flight]
Gets == [served : BOOLEAN, body : 0..made, old : 0..Flight, left : 0..Flight]

\* What loading or not loading the list leaves behind, base being the display before it.
Loaded(base) ==
  /\ TimerCovers'
  /\ \A k \in DOMAIN cache' : k \in DOMAIN cache /\ cache'[k] = cache[k]
  /\ timers' \subseteq {List} \X (0..Ttl)
  /\ \A g \in gets' : g \in gets \/ g = NewGet
  /\ \/ gets' = gets /\ shown' = base
     \/ gets' # {} /\ shown' = base
     \/ gets' = gets /\ List \in DOMAIN cache /\ shown' = 1..cache[List].body

LEMMA ReuseLoaded ==
  ASSUME TypeOK, TimerCovers, NEW gone, NEW hits \in SUBSET DOMAIN cache, Reuse(gone, hits)
  PROVE  /\ TimerCovers'
         /\ \A k \in DOMAIN cache' : k \in DOMAIN cache /\ cache'[k] = cache[k]
         /\ timers' \subseteq {List} \X (0..Ttl)
<1>1. TimerCovers'
    BY ReuseCovers
<1>2. \A k \in DOMAIN cache' : k \in DOMAIN cache /\ cache'[k] = cache[k]
    BY DEF Reuse, Without
<1>3. {<<k, Ttl>> : k \in hits} \subseteq {List} \X (0..Ttl)
    BY Bounds DEF TypeOK
<1>4. timers' \subseteq {List} \X (0..Ttl)
    BY <1>3 DEF Reuse, TypeOK
<1> QED
    BY <1>1, <1>2, <1>4

LEMMA LoadLoaded ==
  ASSUME TypeOK, TimerCovers, NEW gone, NEW base, Load(gone, base)
  PROVE  Loaded(base)
<1> DEFINE hits == DOMAIN cache \ gone
<1>1. Reuse(gone, hits)
    BY DEF Load
<1>2. /\ TimerCovers'
      /\ \A k \in DOMAIN cache' : k \in DOMAIN cache /\ cache'[k] = cache[k]
      /\ timers' \subseteq {List} \X (0..Ttl)
    BY <1>1, ReuseLoaded
<1>3. CASE hits # {}
  <2>1. List \in DOMAIN cache /\ shown' = 1..cache[List].body /\ gets' = gets
      BY <1>3 DEF Load, TypeOK
  <2> QED
      BY <1>2, <2>1 DEF Loaded
<1>4. CASE hits = {}
  <2>1. shown' = base /\ gets' = gets \cup {NewGet}
      BY <1>4 DEF Load, NewGet
  <2> QED
      BY <1>2, <2>1 DEF Loaded
<1> QED
    BY <1>3, <1>4

LEMMA MaybeLoadLoaded ==
  ASSUME TypeOK, TimerCovers, NEW loads, NEW gone, NEW base, MaybeLoad(loads, gone, base)
  PROVE  Loaded(base)
<1>1. CASE loads
    BY <1>1, LoadLoaded DEF MaybeLoad
<1>2. CASE ~loads
  <2>1. Reuse(gone, {}) /\ shown' = base /\ gets' = gets
      BY <1>2 DEF MaybeLoad
  <2> QED
      BY <2>1, ReuseLoaded DEF Loaded
<1> QED
    BY <1>1, <1>2

\* Loading keeps the types, what is known of the entries, and the changes of this admin.
LEMMA LoadedKeeps ==
  ASSUME IInv, NEW base \in SUBSET (1..made), shown \subseteq base, Loaded(base),
         made' = made, since' = since
  PROVE  /\ shown' \subseteq 1..made'
         /\ gets' \subseteq Gets' /\ \A g \in gets' : g.old + g.left <= Flight
         /\ DOMAIN cache' \subseteq {List} /\ \A k \in DOMAIN cache' : cache'[k].body \in 0..made'
         /\ timers' \subseteq {List} \X (0..Ttl)
         /\ Kept'
         /\ ~clouded => \A n \in 1..made : <<n, TRUE>> \in own =>
              /\ \A g \in gets' : g.served => n <= g.body
              /\ \A k \in DOMAIN cache' : n <= cache'[k].body
              /\ gets' = {} => n \in shown'
<1> USE Bounds
<1>1. NewGet \in Gets /\ NewGet.old + NewGet.left <= Flight /\ ~NewGet.served
    BY DEF NewGet, Gets, IInv, TypeOK
<1>2. gets' \subseteq Gets' /\ \A g \in gets' : g.old + g.left <= Flight
    BY <1>1 DEF Loaded, Gets, IInv, TypeOK
<1>3. DOMAIN cache' \subseteq {List} /\ \A k \in DOMAIN cache' : cache'[k].body \in 0..made'
    BY DEF Loaded, IInv, TypeOK
<1>4. shown' \subseteq 1..made'
  <2>1. ASSUME List \in DOMAIN cache PROVE 1..cache[List].body \subseteq 1..made
      BY <2>1 DEF IInv, TypeOK
  <2>2. base \subseteq 1..made
      OBVIOUS
  <2> QED
      BY <2>1, <2>2 DEF Loaded
<1>5. Kept'
    BY <1>1 DEF Loaded, IInv, Kept
<1>6. ASSUME ~clouded, NEW n \in 1..made, <<n, TRUE>> \in own
      PROVE  /\ \A g \in gets' : g.served => n <= g.body
             /\ \A k \in DOMAIN cache' : n <= cache'[k].body
             /\ gets' = {} => n \in shown'
  <2>1. /\ \A g \in gets : g.served => n <= g.body
        /\ \A k \in DOMAIN cache : n <= cache[k].body
        /\ gets = {} => n \in shown
      BY <1>6 DEF IInv, OwnKept
  <2>2. \A g \in gets' : g.served => n <= g.body
      BY <2>1, <1>1 DEF Loaded
  <2>3. \A k \in DOMAIN cache' : n <= cache'[k].body
      BY <2>1 DEF Loaded
  <2>4. gets' = {} => n \in shown'
    <3>1. List \in DOMAIN cache => cache[List].body \in Nat /\ n <= cache[List].body
        BY <2>1 DEF IInv, TypeOK
    <3> QED
        BY <2>1, <3>1 DEF Loaded
  <2> QED
      BY <2>2, <2>3, <2>4
<1> QED
    BY <1>2, <1>3, <1>4, <1>5, <1>6 DEF Loaded

----------------------------------------------------------------------------
\* The rest of the state unchanged, loading keeps the invariant.
LEMMA LoadingKeeps ==
  ASSUME IInv, Loaded(shown),
         UNCHANGED <<screen, serverVars, calls, own, clouded, lockVars>>, faults' \in 0..MaxFaults
  PROVE  IInv'
<1>1. shown \in SUBSET (1..made) /\ made' = made /\ since' = since
    BY DEF IInv, TypeOK, serverVars
<1>2. /\ shown' \subseteq 1..made'
      /\ gets' \subseteq Gets' /\ \A g \in gets' : g.old + g.left <= Flight
      /\ DOMAIN cache' \subseteq {List} /\ \A k \in DOMAIN cache' : cache'[k].body \in 0..made'
      /\ timers' \subseteq {List} \X (0..Ttl)
      /\ Kept'
      /\ ~clouded => \A n \in 1..made : <<n, TRUE>> \in own =>
           /\ \A g \in gets' : g.served => n <= g.body
           /\ \A k \in DOMAIN cache' : n <= cache'[k].body
           /\ gets' = {} => n \in shown'
    BY <1>1, LoadedKeeps
<1>3. TypeOK'
    BY <1>2 DEF IInv, TypeOK, Gets, serverVars, lockVars
<1>4. OwnKept' /\ Locked'
    BY <1>1, <1>2 DEF IInv, OwnKept, Locked, lockVars
<1> QED
    BY <1>2, <1>3, <1>4 DEF IInv

LEMMA OpenPollOK ==
  ASSUME IInv, Open \/ Poll
  PROVE  IInv'
<1>1. Load({}, shown) /\ UNCHANGED <<screen, serverVars, calls, own, clouded, lockVars, faults>>
    BY DEF Open, Poll
<1>2. Loaded(shown)
    BY <1>1, LoadLoaded DEF IInv, Kept
<1> QED
    BY <1>1, <1>2, LoadingKeeps DEF IInv, TypeOK

LEMMA ServeOK ==
  ASSUME IInv, NEW g \in gets, Serve(g)
  PROVE  IInv'
<1> DEFINE f == [g EXCEPT !.served = TRUE, !.body = made]
<1>1. g \in Gets /\ g.old + g.left <= Flight
    BY DEF IInv, TypeOK, Gets
<1>2. f \in Gets /\ f.old = g.old /\ f.left = g.left /\ f.served /\ f.body = made
  <2>1. made \in 0..made
      BY DEF IInv, TypeOK
  <2>2. DOMAIN g = {"served", "body", "old", "left"}
      BY <1>1 DEF Gets
  <2>3. f.old = g.old /\ f.left = g.left /\ f.served /\ f.body = made
      BY <2>2
  <2> QED
      BY <1>1, <2>1, <2>2, <2>3 DEF Gets
<1>3. gets' = (gets \ {g}) \cup {f}
    BY DEF Serve
<1>4. made' = made /\ since' = since /\ cache' = cache /\ timers' = timers
    BY DEF Serve, serverVars, cacheVars
<1>5. TypeOK'
  <2>1. gets' \subseteq Gets' /\ \A x \in gets' : x.old + x.left <= Flight
      BY <1>1, <1>2, <1>3, <1>4 DEF Gets, IInv, TypeOK
  <2> QED
      BY <2>1, <1>4 DEF Gets, IInv, TypeOK, Serve, lockVars
<1>6. Kept'
    BY <1>2, <1>3, <1>4 DEF IInv, Kept, TimerCovers
<1>7. OwnKept'
  <2>1. \A n \in 1..made : n <= f.body
      BY <1>2 DEF IInv, TypeOK
  <2>2. gets # {} /\ gets' # {}
      BY <1>3
  <2> QED
      BY <2>1, <2>2, <1>2, <1>3, <1>4 DEF IInv, OwnKept, Serve
<1>8. Locked'
    BY DEF IInv, Locked, Serve, lockVars
<1> QED
    BY <1>5, <1>6, <1>7, <1>8 DEF IInv

LEMMA ArriveOK ==
  ASSUME IInv, NEW g \in gets, Arrive(g)
  PROVE  IInv'
<1>1. g \in Gets /\ g.old + g.left <= Flight /\ g.served
    BY DEF IInv, TypeOK, Gets, Arrive
<1>2. g.old \in Nat /\ g.old <= Flight /\ g.body \in 0..made
    BY <1>1, Bounds DEF Gets
<1>3. made' = made /\ since' = since /\ gets' = gets \ {g} /\ shown' = 1..g.body
    BY DEF Arrive, serverVars
<1>4. /\ DOMAIN cache' = DOMAIN cache \cup {List}
      /\ cache'[List] = [body |-> g.body, age |-> g.old]
      /\ timers' = timers \cup {<<List, Ttl>>}
    BY DEF Arrive, Store
<1>5. TypeOK'
  <2>1. shown' \subseteq 1..made'
      BY <1>2, <1>3 DEF IInv, TypeOK
  <2>2. DOMAIN cache' \subseteq {List} /\ \A k \in DOMAIN cache' : cache'[k].body \in 0..made'
      BY <1>2, <1>3, <1>4 DEF IInv, TypeOK
  <2>3. timers' \subseteq {List} \X (0..Ttl)
      BY <1>4, Bounds DEF IInv, TypeOK
  <2> QED
      BY <2>1, <2>2, <2>3, <1>3 DEF IInv, TypeOK, Arrive, lockVars
<1>6. Kept'
  <2>1. TimerCovers'
      BY <1>2, StoreCovers DEF Arrive, IInv, Kept
  <2>2. \A k \in DOMAIN cache' : cache'[k].body # made' => since' <= cache'[k].age
      BY <1>1, <1>3, <1>4 DEF IInv, Kept, TypeOK
  <2> QED
      BY <2>1, <2>2, <1>3 DEF IInv, Kept
<1>7. OwnKept'
  <2> SUFFICES ASSUME ~clouded, NEW n \in 1..made, <<n, TRUE>> \in own
               PROVE  /\ \A x \in gets' : x.served => n <= x.body
                      /\ \A k \in DOMAIN cache' : n <= cache'[k].body
                      /\ gets' = {} => n \in shown'
      BY <1>3 DEF OwnKept, Arrive
  <2>1. \A x \in gets : x.served => n <= x.body
      BY DEF IInv, OwnKept
  <2>2. n <= g.body
      BY <2>1, <1>1
  <2>3. \A k \in DOMAIN cache' : n <= cache'[k].body
      BY <2>2, <1>4 DEF IInv, TypeOK
  <2> QED
      BY <2>1, <2>2, <2>3, <1>2, <1>3
<1>8. Locked'
    BY DEF IInv, Locked, Arrive, lockVars
<1> QED
    BY <1>5, <1>6, <1>7, <1>8 DEF IInv

LEMMA GetFailsOK ==
  ASSUME IInv, NEW g \in gets, GetFails(g)
  PROVE  IInv'
<1>1. Reuse(DOMAIN cache, {}) /\ made' = made /\ since' = since /\ gets' = gets \ {g} /\ clouded'
    BY DEF GetFails, serverVars
<1>2. /\ TimerCovers'
      /\ \A k \in DOMAIN cache' : k \in DOMAIN cache /\ cache'[k] = cache[k]
      /\ timers' \subseteq {List} \X (0..Ttl)
    BY <1>1, ReuseLoaded DEF IInv, Kept
<1>3. faults' \in 0..MaxFaults
    BY BoundsAssumption DEF GetFails, IInv, TypeOK
<1>4. shown' \subseteq 1..made' /\ clouded' \in BOOLEAN
    BY <1>1 DEF GetFails, IInv, TypeOK
<1>5. TypeOK'
    BY <1>1, <1>2, <1>3, <1>4 DEF GetFails, IInv, TypeOK, lockVars
<1>6. Kept'
    BY <1>1, <1>2 DEF IInv, Kept
<1>7. OwnKept' /\ Locked'
    BY <1>1 DEF IInv, OwnKept, Locked, GetFails, lockVars
<1> QED
    BY <1>5, <1>6, <1>7 DEF IInv

----------------------------------------------------------------------------
\* The handlers running, with their types.
Calls == [does : screen.does, step : Nat, ran : 0..made]

LEMMA StartOK ==
  ASSUME IInv, NEW h \in screen.does, Start(h)
  PROVE  IInv'
<1> DEFINE c == [does |-> h, step |-> 1, ran |-> 0]
<1>1. /\ calls' = calls \cup {c} /\ made' = made /\ since' = since /\ screen' = screen
      /\ cache' = cache /\ timers' = timers
    BY DEF Start, serverVars, cacheVars
<1>2. c \in Calls
    BY DEF Calls, IInv, TypeOK
<1>3. lock' \in 0..Guard /\ calls' \subseteq Calls'
    BY <1>1, <1>2, Bounds DEF Start, IInv, TypeOK, Calls
<1>4. TypeOK'
    BY <1>1, <1>3 DEF IInv, TypeOK, Calls, Start
<1>5. Kept' /\ OwnKept'
    BY <1>1 DEF IInv, Kept, TimerCovers, OwnKept, Start
<1>6. Locked'
  <2> SUFFICES ASSUME ~slow, NEW x \in calls', x.does.once
               PROVE  lock' > 0 /\ \A d \in calls' : d.does.once => x = d
      BY DEF Locked, Start
  <2>1. lock \in 0..Guard
      BY DEF IInv, TypeOK
  <2>2. CASE h.once
    <3>1. \A d \in calls : ~d.does.once
        BY <2>2, <2>1 DEF Start, IInv, Locked
    <3>2. lock' = Guard
        BY <2>2 DEF Start
    <3> QED
        BY <3>1, <3>2, <1>1, GuardAssumption
  <2>3. CASE ~h.once
      BY <2>3, <1>1 DEF Start, IInv, Locked
  <2> QED
      BY <2>2, <2>3
<1> QED
    BY <1>4, <1>5, <1>6 DEF IInv

\* The server changes the list, by a handler's mutation or another's.
LEMMA ChangeKeeps ==
  ASSUME IInv, ChangeList, UNCHANGED <<shown, gets, own, clouded, cache, timers>>
  PROVE  /\ made \in 0..MaxChanges /\ made' \in 0..MaxChanges /\ made' = made + 1 /\ since' \in 0..Late
         /\ shown' \subseteq 1..made' /\ own' \subseteq (1..made') \X BOOLEAN
         /\ gets' \subseteq Gets' /\ \A k \in DOMAIN cache' : cache'[k].body \in 0..made'
         /\ Kept' /\ OwnKept'
<1> USE Bounds
<1>1. made \in 0..MaxChanges /\ made' = made + 1 /\ since' = 0
    BY DEF ChangeList, IInv, TypeOK
<1>2. made' \in 0..MaxChanges /\ since' \in 0..Late
    BY <1>1, BoundsAssumption DEF ChangeList
<1>3. 1..made \subseteq 1..made' /\ 0..made \subseteq 0..made'
    BY <1>1, BoundsAssumption
<1>4. gets' \subseteq Gets'
    BY <1>3 DEF IInv, TypeOK, Gets
<1>5. /\ shown' \subseteq 1..made' /\ own' \subseteq (1..made') \X BOOLEAN
      /\ \A k \in DOMAIN cache' : cache'[k].body \in 0..made'
    BY <1>3 DEF IInv, TypeOK
<1>6. Kept'
  <2>1. TimerCovers'
      BY DEF IInv, Kept, TimerCovers
  <2>2. \A k \in DOMAIN cache' : since' <= cache'[k].age
      BY <1>1 DEF IInv, Kept, TimerCovers
  <2>3. \A g \in gets' : since' <= g.old
      BY <1>1, <1>4 DEF Gets
  <2> QED
      BY <2>1, <2>2, <2>3 DEF Kept
<1>7. OwnKept'
    BY DEF IInv, OwnKept, TypeOK
<1> QED
    BY <1>1, <1>2, <1>4, <1>5, <1>6, <1>7

LEMMA OthersChangeOK ==
  ASSUME IInv, OthersChange
  PROVE  IInv'
<1>1. ChangeList /\ UNCHANGED <<screen, shown, gets, calls, own, clouded, cache, timers, lock, slow, faults>>
    BY DEF OthersChange, pageVars, cacheVars, lockVars
<1>2. /\ made \in 0..MaxChanges /\ made' \in 0..MaxChanges /\ made' = made + 1 /\ since' \in 0..Late
      /\ shown' \subseteq 1..made' /\ own' \subseteq (1..made') \X BOOLEAN
      /\ gets' \subseteq Gets' /\ \A k \in DOMAIN cache' : cache'[k].body \in 0..made'
      /\ Kept' /\ OwnKept'
    BY <1>1, ChangeKeeps
<1>3. calls' \subseteq Calls'
    BY <1>1, <1>2 DEF IInv, TypeOK, Calls
<1>4. TypeOK'
    BY <1>1, <1>2, <1>3 DEF IInv, TypeOK, Gets, Calls
<1>5. Locked'
    BY <1>1 DEF IInv, Locked
<1> QED
    BY <1>2, <1>4, <1>5 DEF IInv

LEMMA ExecuteOK ==
  ASSUME IInv, NEW c \in calls, Execute(c)
  PROVE  IInv'
<1> DEFINE e == [c EXCEPT !.ran = made + 1]
<1>1. ChangeList /\ UNCHANGED <<screen, shown, gets, own, clouded, cache, timers, lock, slow, faults>>
    BY DEF Execute, cacheVars, lockVars
<1>2. /\ made \in 0..MaxChanges /\ made' \in 0..MaxChanges /\ made' = made + 1 /\ since' \in 0..Late
      /\ shown' \subseteq 1..made' /\ own' \subseteq (1..made') \X BOOLEAN
      /\ gets' \subseteq Gets' /\ \A k \in DOMAIN cache' : cache'[k].body \in 0..made'
      /\ Kept' /\ OwnKept'
    BY <1>1, ChangeKeeps
<1>3. calls' = (calls \ {c}) \cup {e}
    BY DEF Execute
<1>4. c \in Calls
    BY DEF IInv, TypeOK, Calls
<1>5. e.does = c.does /\ e.step = c.step /\ e \in [does : screen.does, step : Nat, ran : 0..made']
  <2>1. made + 1 \in 0..made'
      BY <1>2, BoundsAssumption
  <2> QED
      BY <2>1, <1>4 DEF Calls
<1>6. calls' \subseteq Calls'
    BY <1>1, <1>2, <1>3, <1>5 DEF IInv, TypeOK, Calls
<1>7. TypeOK'
    BY <1>1, <1>2, <1>6 DEF IInv, TypeOK, Gets, Calls
<1>8. Locked'
    BY <1>1, <1>3, <1>5 DEF IInv, Locked
<1> QED
    BY <1>2, <1>7, <1>8 DEF IInv

LEMMA NextCallOK ==
  ASSUME IInv, NEW c \in calls, NextCall(c)
  PROVE  IInv'
<1> DEFINE e == [c EXCEPT !.step = @ + 1, !.ran = 0]
<1>1. UNCHANGED <<screen, made, since, shown, gets, own, clouded, lock, slow, faults>>
    BY DEF NextCall, serverVars, lockVars
<1>2. /\ TimerCovers'
      /\ \A k \in DOMAIN cache' : k \in DOMAIN cache /\ cache'[k] = cache[k]
      /\ timers' \subseteq {List} \X (0..Ttl)
    BY ReuseLoaded DEF IInv, Kept, NextCall
<1>3. calls' = (calls \ {c}) \cup {e}
    BY DEF NextCall
<1>4. c \in Calls
    BY DEF IInv, TypeOK, Calls
<1>5. e.does = c.does /\ e \in Calls
  <2>1. 0 \in 0..made /\ c.step + 1 \in Nat
      BY <1>4 DEF IInv, TypeOK, Calls
  <2> QED
      BY <2>1, <1>4 DEF Calls
<1>6. TypeOK'
    BY <1>1, <1>2, <1>3, <1>5 DEF IInv, TypeOK, Calls
<1>7. Kept' /\ OwnKept'
    BY <1>1, <1>2 DEF IInv, Kept, OwnKept
<1>8. Locked'
    BY <1>1, <1>3, <1>5 DEF IInv, Locked
<1> QED
    BY <1>6, <1>7, <1>8 DEF IInv

----------------------------------------------------------------------------
\* A handler that ends frees the lock only when it is the save that holds it.
LEMMA UnlockKeeps ==
  ASSUME IInv, NEW c \in calls, calls' = calls \ {c}, Unlock(c.does), slow' = slow
  PROVE  Locked' /\ lock' \in 0..Guard
<1>1. lock' \in 0..Guard
    BY Bounds DEF Unlock, IInv, TypeOK
<1>2. Locked'
  <2> SUFFICES ASSUME ~slow, NEW x \in calls', x.does.once
               PROVE  lock' > 0 /\ \A d \in calls' : d.does.once => x = d
      BY DEF Locked
  <2>1. ~c.does.once
      BY DEF IInv, Locked
  <2> QED
      BY <2>1 DEF Unlock, IInv, Locked
<1> QED
    BY <1>1, <1>2

LEMMA CallFailsOK ==
  ASSUME IInv, NEW c \in calls, CallFails(c)
  PROVE  IInv'
<1>1. UNCHANGED <<screen, made, since, own, clouded, slow>>
    BY DEF CallFails, serverVars
<1>2. Loaded(shown)
    BY MaybeLoadLoaded DEF CallFails, IInv, Kept
<1>3. shown \in SUBSET (1..made)
    BY DEF IInv, TypeOK
<1>4. /\ shown' \subseteq 1..made'
      /\ gets' \subseteq Gets' /\ \A g \in gets' : g.old + g.left <= Flight
      /\ DOMAIN cache' \subseteq {List} /\ \A k \in DOMAIN cache' : cache'[k].body \in 0..made'
      /\ timers' \subseteq {List} \X (0..Ttl)
      /\ Kept'
      /\ ~clouded => \A n \in 1..made : <<n, TRUE>> \in own =>
           /\ \A g \in gets' : g.served => n <= g.body
           /\ \A k \in DOMAIN cache' : n <= cache'[k].body
           /\ gets' = {} => n \in shown'
    BY <1>1, <1>2, <1>3, LoadedKeeps
<1>5. Locked' /\ lock' \in 0..Guard
    BY <1>1, UnlockKeeps DEF CallFails
<1>6. faults' \in 0..MaxFaults
    BY BoundsAssumption DEF CallFails, IInv, TypeOK
<1>7. calls' \subseteq Calls'
    BY <1>1 DEF CallFails, IInv, TypeOK, Calls
<1>8. TypeOK'
    BY <1>1, <1>4, <1>5, <1>6, <1>7 DEF IInv, TypeOK, Gets, Calls
<1>9. OwnKept'
    BY <1>1, <1>4 DEF OwnKept
<1> QED
    BY <1>4, <1>5, <1>8, <1>9 DEF IInv

LEMMA CallOkOK ==
  ASSUME IInv, NEW c \in calls, CallOk(c)
  PROVE  IInv'
<1> DEFINE h == c.does
           base == IF h.local THEN shown \cup {c.ran} ELSE shown
           told == <<c.ran, c.step \in h.drops>>
<1>1. UNCHANGED <<screen, made, since, slow, faults>>
    BY DEF CallOk, serverVars
<1>2. c.ran \in 1..made
    BY DEF CallOk, IInv, TypeOK
<1>3. base \in SUBSET (1..made) /\ shown \subseteq base
    BY <1>2 DEF IInv, TypeOK
<1>4. Loaded(base)
    BY MaybeLoadLoaded DEF CallOk, IInv, Kept
<1>5. /\ shown' \subseteq 1..made'
      /\ gets' \subseteq Gets' /\ \A g \in gets' : g.old + g.left <= Flight
      /\ DOMAIN cache' \subseteq {List} /\ \A k \in DOMAIN cache' : cache'[k].body \in 0..made'
      /\ timers' \subseteq {List} \X (0..Ttl)
      /\ Kept'
      /\ ~clouded => \A n \in 1..made : <<n, TRUE>> \in own =>
           /\ \A g \in gets' : g.served => n <= g.body
           /\ \A k \in DOMAIN cache' : n <= cache'[k].body
           /\ gets' = {} => n \in shown'
    BY <1>1, <1>3, <1>4, LoadedKeeps
<1>6. Locked' /\ lock' \in 0..Guard
    BY <1>1, UnlockKeeps DEF CallOk
<1>7. calls' \subseteq Calls'
    BY <1>1 DEF CallOk, IInv, TypeOK, Calls
<1>8. own' = own \cup (IF h.onOk \/ h.local THEN {told} ELSE {})
    BY DEF CallOk
<1>9. own' \subseteq (1..made') \X BOOLEAN /\ clouded' \in BOOLEAN
  <2>1. told \in (1..made) \X BOOLEAN
    <3>1. (c.step \in h.drops) \in BOOLEAN
        OBVIOUS
    <3> HIDE DEF h
    <3> QED
        BY <3>1, <1>2
  <2>2. clouded' = (clouded \/ gets # {})
      BY DEF CallOk
  <2> QED
      BY <2>1, <2>2, <1>1, <1>8 DEF IInv, TypeOK
<1>10. TypeOK'
    BY <1>1, <1>5, <1>6, <1>7, <1>9 DEF IInv, TypeOK, Gets, Calls
<1>11. OwnKept'
  <2> SUFFICES ASSUME ~clouded', NEW n \in 1..made, <<n, TRUE>> \in own'
               PROVE  /\ \A g \in gets' : g.served => n <= g.body
                      /\ \A k \in DOMAIN cache' : n <= cache'[k].body
                      /\ gets' = {} => n \in shown'
      BY <1>1 DEF OwnKept
  <2>1. ~clouded /\ gets = {}
      BY DEF CallOk
  <2>2. CASE <<n, TRUE>> \in own
      BY <2>1, <2>2, <1>5
  <2>3. CASE <<n, TRUE>> \notin own
    <3>1. <<n, TRUE>> = told /\ (h.onOk \/ h.local)
        BY <2>3, <1>8
    <3>2. n = c.ran /\ c.step \in h.drops
        BY <3>1
    <3>3. Dropped(c) = DOMAIN cache
        BY <3>2 DEF Dropped
    <3>4. MaybeLoad(h.onOk, DOMAIN cache, base)
        BY <3>3 DEF CallOk
    <3>5. DOMAIN cache' = {}
        BY <3>4 DEF MaybeLoad, Load, Reuse, Without
    <3>6. CASE h.onOk
      <4>1. gets' = gets \cup {NewGet}
          BY <3>4, <3>6 DEF MaybeLoad, Load, NewGet
      <4>2. \A g \in gets' : ~g.served
          BY <4>1, <2>1 DEF NewGet
      <4>3. gets' # {}
          BY <4>1
      <4> QED
          BY <4>2, <4>3, <3>5
    <3>7. CASE ~h.onOk
      <4>1. gets' = gets /\ shown' = base /\ h.local
          BY <3>1, <3>4, <3>7 DEF MaybeLoad
      <4> QED
          BY <4>1, <2>1, <3>2, <3>5
    <3> QED
        BY <3>6, <3>7
  <2> QED
      BY <2>2, <2>3
<1> QED
    BY <1>5, <1>6, <1>10, <1>11 DEF IInv

LEMMA ExpireOK ==
  ASSUME IInv, NEW t \in timers, Expire(t)
  PROVE  IInv'
<1>1. UNCHANGED <<screen, made, since, shown, gets, calls, own, clouded, lock, slow, faults>>
    BY DEF Expire, serverVars, pageVars, lockVars
<1>2. /\ TimerCovers'
      /\ \A k \in DOMAIN cache' : k \in DOMAIN cache /\ cache'[k] = cache[k]
      /\ timers' \subseteq timers
    BY FireCovers DEF IInv, Kept, Expire, Fire, Without
<1>3. TypeOK'
    BY <1>1, <1>2 DEF IInv, TypeOK
<1>4. Kept' /\ OwnKept' /\ Locked'
    BY <1>1, <1>2 DEF IInv, Kept, OwnKept, Locked
<1> QED
    BY <1>3, <1>4 DEF IInv

LEMMA TickOK ==
  ASSUME IInv, Tick
  PROVE  IInv'
<1> DEFINE After(g) == [g EXCEPT !.left = @ - 1, !.old = IF g.served THEN @ + 1 ELSE 0]
<1> USE Bounds
<1>1. UNCHANGED <<screen, made, shown, calls, own, clouded, faults>> /\ CacheTick
    BY DEF Tick
<1>2. gets' = {After(g) : g \in gets}
    BY DEF Tick
<1>3. since \in 0..Late /\ since' \in 0..Late /\ since' <= since + 1
  <2>1. since \in 0..Late
      BY DEF IInv, TypeOK
  <2>2. since' = IF since = Late THEN Late ELSE since + 1
      BY DEF Tick
  <2> QED
      BY <2>1, <2>2
<1>4. \A k \in DOMAIN cache' : k \in DOMAIN cache /\ cache'[k].body = cache[k].body
                                /\ cache'[k].age = cache[k].age + 1
    BY <1>1 DEF CacheTick, IInv, Kept, TimerCovers
<1>5. ASSUME NEW g \in gets
      PROVE  /\ After(g) \in Gets /\ After(g).old + After(g).left <= Flight
             /\ After(g).served = g.served /\ After(g).body = g.body
             /\ g.served => After(g).old = g.old + 1
  <2>1. g \in Gets /\ g.old + g.left <= Flight /\ g.left > 0
      BY DEF Tick, IInv, TypeOK, Gets
  <2>2. g.old \in 0..Flight /\ g.left \in 0..Flight /\ DOMAIN g = {"served", "body", "old", "left"}
      BY <2>1 DEF Gets
  <2>3. /\ After(g).left = g.left - 1 /\ After(g).old = (IF g.served THEN g.old + 1 ELSE 0)
        /\ After(g).served = g.served /\ After(g).body = g.body
      BY <2>2
  <2>4. g.left - 1 \in 0..Flight /\ (IF g.served THEN g.old + 1 ELSE 0) \in 0..Flight
      BY <2>1, <2>2
  <2>5. After(g) \in Gets
      BY <2>1, <2>4 DEF Gets
  <2> QED
      BY <2>1, <2>2, <2>3, <2>5
<1> HIDE DEF After
<1>6. \A g \in gets' : g \in Gets /\ g.old + g.left <= Flight
    BY <1>2, <1>5
<1>7. timers' \subseteq {List} \X (0..Ttl)
  <2>1. \A t \in timers : t = <<t[1], t[2]>> /\ t[1] = List /\ t[2] \in 0..Ttl /\ t[2] > 0
      BY <1>1 DEF CacheTick, IInv, TypeOK
  <2>2. \A t \in timers : <<t[1], t[2] - 1>> \in {List} \X (0..Ttl)
      BY <2>1
  <2> QED
      BY <2>2, <1>1 DEF CacheTick
<1>8. lock \in 0..Guard /\ lock' \in 0..Guard /\ slow' \in BOOLEAN
  <2>1. lock \in 0..Guard
      BY DEF IInv, TypeOK
  <2>2. lock' = IF lock = 0 THEN 0 ELSE lock - 1
      BY DEF Tick
  <2>3. slow' = (slow \/ lock = 1)
      BY DEF Tick
  <2> QED
      BY <2>1, <2>2, <2>3
<1>9. TypeOK'
  <2>1. gets' \subseteq Gets'
      BY <1>1, <1>6 DEF Gets
  <2>2. DOMAIN cache' \subseteq {List} /\ \A k \in DOMAIN cache' : cache'[k].body \in 0..made'
      BY <1>1, <1>4 DEF IInv, TypeOK
  <2> QED
      BY <2>1, <2>2, <1>1, <1>3, <1>6, <1>7, <1>8 DEF IInv, TypeOK, Gets
<1>10. Kept'
  <2>1. TimerCovers'
      BY <1>1, TickCovers DEF IInv, Kept
  <2>2. \A k \in DOMAIN cache : cache[k].age \in Nat
      BY DEF IInv, Kept, TimerCovers
  <2>3. \A k \in DOMAIN cache' : cache'[k].body # made' => since' <= cache'[k].age
      BY <2>2, <1>1, <1>3, <1>4 DEF IInv, Kept
  <2>4. ASSUME NEW g \in gets, g.served, g.body # made PROVE since' <= After(g).old
    <3>1. since <= g.old /\ g.old \in Nat
        BY <2>4 DEF IInv, Kept, TypeOK
    <3> QED
        BY <2>4, <3>1, <1>3, <1>5
  <2>5. \A g \in gets' : g.served /\ g.body # made' => since' <= g.old
      BY <2>4, <1>1, <1>2, <1>5
  <2> QED
      BY <2>1, <2>3, <2>5 DEF Kept
<1>11. OwnKept'
  <2> SUFFICES ASSUME ~clouded, NEW n \in 1..made, <<n, TRUE>> \in own
               PROVE  /\ \A g \in gets' : g.served => n <= g.body
                      /\ \A k \in DOMAIN cache' : n <= cache'[k].body
                      /\ gets' = {} => n \in shown'
      BY <1>1 DEF OwnKept
  <2>1. /\ \A g \in gets : g.served => n <= g.body
        /\ \A k \in DOMAIN cache : n <= cache[k].body
        /\ gets = {} => n \in shown
      BY DEF IInv, OwnKept
  <2>2. \A g \in gets' : g.served => n <= g.body
      BY <2>1, <1>2, <1>5
  <2>3. gets' = {} => gets = {}
      BY <1>2
  <2> QED
      BY <2>1, <2>2, <2>3, <1>1, <1>4
<1>12. Locked'
  <2>1. slow' = (slow \/ lock = 1) /\ lock' = (IF lock = 0 THEN 0 ELSE lock - 1)
      BY DEF Tick
  <2>2. ASSUME ~slow, lock # 1, lock > 0 PROVE lock' > 0
      BY <2>1, <2>2, <1>8
  <2> QED
      BY <2>1, <2>2, <1>1 DEF IInv, Locked
<1> QED
    BY <1>9, <1>10, <1>11, <1>12 DEF IInv

----------------------------------------------------------------------------
LEMMA NextOK == IInv /\ [Next]_vars => IInv'
<1> SUFFICES ASSUME IInv, [Next]_vars PROVE IInv'
    OBVIOUS
<1>1. CASE Open \/ Poll
    BY <1>1, OpenPollOK
<1>2. CASE OthersChange
    BY <1>2, OthersChangeOK
<1>3. CASE Tick
    BY <1>3, TickOK
<1>4. CASE \E g \in gets : Serve(g) \/ Arrive(g) \/ GetFails(g)
    BY <1>4, ServeOK, ArriveOK, GetFailsOK
<1>5. CASE \E h \in screen.does : Start(h)
    BY <1>5, StartOK
<1>6. CASE \E c \in calls : Execute(c) \/ NextCall(c) \/ CallOk(c) \/ CallFails(c)
    BY <1>6, ExecuteOK, NextCallOK, CallOkOK, CallFailsOK
<1>7. CASE \E t \in timers : Expire(t)
    BY <1>7, ExpireOK
<1>8. CASE UNCHANGED vars
  <2>1. UNCHANGED <<screen, made, shown, gets, calls, own, clouded, since, lock, slow, faults, cache, timers>>
      BY <1>8 DEF vars
  <2>2. TypeOK'
      BY <2>1 DEF IInv, TypeOK
  <2>3. Kept' /\ OwnKept' /\ Locked'
      BY <2>1 DEF IInv, Kept, TimerCovers, OwnKept, Locked
  <2> QED
      BY <2>2, <2>3 DEF IInv
<1> QED
    BY <1>1, <1>2, <1>3, <1>4, <1>5, <1>6, <1>7, <1>8 DEF Next

LEMMA Invariance == Spec => []IInv
<1>1. Init => IInv
    BY InitOK
<1>2. IInv /\ [Next]_vars => IInv'
    BY NextOK
<1> QED
    BY <1>1, <1>2, PTL DEF Spec

\* The screens' state keeps its types, for every time to live, flight and bound.
THEOREM ConsoleTypes == Spec => []TypeOK
<1>1. IInv => TypeOK
    BY DEF IInv
<1> QED
    BY <1>1, Invariance, PTL

\* The cache never holds a list that changed longer ago than the time to live and a
\* request's flight together (request.ts), for every length of both.
THEOREM ConsoleQuietIsFresh == Spec => []QuietIsFresh
<1>1. IInv => QuietIsFresh
    BY KeptIsFresh DEF IInv
<1> QED
    BY <1>1, Invariance, PTL

\* An admin's own change to a list its mutation covers is shown once nothing is loading,
\* in every screen and for every number of changes, requests and failures.
THEOREM ConsoleOwnChangeShown == Spec => []OwnChangeShown
<1>1. IInv => OwnChangeShown
    BY InvImplies
<1> QED
    BY <1>1, Invariance, PTL

\* Two saves of a form overlap only after one outlasted the guard of useDebounceSubmit,
\* however many screens, saves and ticks of the guard there are.
THEOREM ConsoleSavesOverlap == Spec => []SavesOverlapOnlyWhenSlow
<1>1. IInv => SavesOverlapOnlyWhenSlow
    BY InvImplies
<1> QED
    BY <1>1, Invariance, PTL
=============================================================================
