-------------------------- MODULE HttpCache_proofs --------------------------
(***************************************************************************)
(* Every step of the GET cache keeps each entry under a timer that deletes *)
(* it in time, whoever takes the step.                                     *)
(***************************************************************************)
EXTENDS HttpCache, SequenceTheorems, TLAPS

\* An entry under such a timer is not too old.
LEMMA CoveredIsBounded == TimerCovers => AgeBounded
<1> SUFFICES ASSUME TimerCovers, NEW k \in DOMAIN cache
             PROVE  cache[k].age <= Ttl + Flight
    BY DEF AgeBounded
<1>1. PICK t \in timers : /\ t[1] = k /\ t[2] \in Nat
                          /\ cache[k].age \in Nat /\ cache[k].age + t[2] <= Ttl + Flight
    BY DEF TimerCovers
<1> QED
    BY <1>1, TtlAssumption, FlightAssumption

\* Deleting entries and answering others from the cache.
LEMMA ReuseCovers ==
  ASSUME TimerCovers, NEW gone, NEW hits, Reuse(gone, hits)
  PROVE  TimerCovers'
BY DEF TimerCovers, Reuse, Without

\* An answer that was at most a flight under way.
LEMMA StoreCovers ==
  ASSUME TimerCovers, NEW k, NEW body, NEW age \in Nat, age <= Flight, Store(k, body, age)
  PROVE  TimerCovers'
<1> SUFFICES ASSUME NEW j \in DOMAIN cache'
             PROVE  \E t \in timers' : /\ t[1] = j /\ t[2] \in Nat /\ cache'[j].age \in Nat
                                       /\ cache'[j].age + t[2] <= Ttl + Flight
    BY DEF TimerCovers
<1>1. CASE j = k
  <2>1. cache'[j].age = age
      BY <1>1 DEF Store
  <2>2. <<k, Ttl>> \in timers'
      BY DEF Store
  <2> QED
      BY <1>1, <2>1, <2>2, TtlAssumption, FlightAssumption
<1>2. CASE j # k
  <2>1. j \in DOMAIN cache /\ cache'[j] = cache[j] /\ timers \subseteq timers'
      BY <1>2 DEF Store
  <2> QED
      BY <2>1 DEF TimerCovers
<1> QED
    BY <1>1, <1>2

\* A timer that is due.
LEMMA FireCovers ==
  ASSUME TimerCovers, NEW t \in timers, Fire(t)
  PROVE  TimerCovers'
BY DEF TimerCovers, Fire, Without

\* The passing of time.
LEMMA TickCovers ==
  ASSUME TimerCovers, CacheTick
  PROVE  TimerCovers'
<1> SUFFICES ASSUME NEW j \in DOMAIN cache'
             PROVE  \E t \in timers' : /\ t[1] = j /\ t[2] \in Nat /\ cache'[j].age \in Nat
                                       /\ cache'[j].age + t[2] <= Ttl + Flight
    BY DEF TimerCovers
<1>1. j \in DOMAIN cache /\ cache'[j] = [body |-> cache[j].body, age |-> cache[j].age + 1]
    BY DEF CacheTick
<1>2. PICK t \in timers : /\ t[1] = j /\ t[2] \in Nat
                          /\ cache[j].age \in Nat /\ cache[j].age + t[2] <= Ttl + Flight
    BY <1>1 DEF TimerCovers
<1>3. <<j, t[2] - 1>> \in timers' /\ t[2] > 0
    BY <1>2 DEF CacheTick
<1>4. cache'[j].age = cache[j].age + 1
    BY <1>1
<1> QED
    BY <1>2, <1>3, <1>4, TtlAssumption, FlightAssumption

----------------------------------------------------------------------------
(* What a mutation invalidates, for paths of any length. *)

\* The path ends in a slash.
Slashed(url) == url # <<>> /\ url[Len(url)] = ""

\* A path that ends in a slash is its own resource: neither regular expression matches.
LEMMA SlashIsKept ==
  ASSUME NEW url, Slashed(url)
  PROVE  ResourceBase(url) = url
<1>1. "" \notin Verbs /\ "" \notin Numerals
    BY DEF Verbs, Numerals
<1>2. DropLast(url, Verbs) = url
    BY <1>1 DEF DropLast, Slashed
<1> QED
    BY <1>1, <1>2 DEF ResourceBase, DropLast, Slashed

\* A mutation whose path ends in a slash leaves every shorter path in the cache: PUT /address/1/
\* does not make the list /address/ be loaded again, nor does POST /cart/items/ the cart /cart/.
THEOREM ShorterStays ==
  ASSUME NEW S, NEW url \in Seq(S), NEW list \in Seq(S), Slashed(url), Len(list) < Len(url)
  PROVE  ~Covers(ResourceBase(url), list)
<1>1. Len(url) \in Nat /\ Len(list) \in Nat
    OBVIOUS
<1>2. ResourceBase(url) = url
    BY SlashIsKept
<1>3. Covers(url, list) => Len(url) <= Len(list)
    BY Zenon DEF Covers
<1> QED
    BY <1>1, <1>2, <1>3

\* A sequence is its beginning and what follows.
LEMMA Parts ==
  ASSUME NEW S, NEW u \in Seq(S), NEW w \in 1..Len(u),
         NEW upper \in Seq(S), Len(upper) = w, \A i \in 1..w : upper[i] = u[i],
         NEW below \in Seq(S), Len(below) = Len(u) - w,
         \A i \in 1..Len(below) : below[i] = u[w + i]
  PROVE  u = upper \o below
<1> DEFINE r == upper \o below
<1>1. Len(u) \in Nat /\ w \in Nat /\ Len(below) \in Nat
    OBVIOUS
<1>2. /\ r \in Seq(S) /\ Len(r) = Len(upper) + Len(below)
      /\ \A i \in 1..Len(upper) + Len(below) :
           r[i] = IF i <= Len(upper) THEN upper[i] ELSE below[i - Len(upper)]
    BY ConcatProperties
<1> HIDE DEF r
<1>3. Len(r) = Len(u)
    BY <1>1, <1>2
<1>4. ASSUME NEW i \in 1..Len(u) PROVE r[i] = u[i]
  <2>1. CASE i <= w
      BY <1>1, <1>2, <2>1
  <2>2. CASE ~(i <= w)
    <3>1. i - w \in 1..Len(below) /\ w + (i - w) = i
        BY <1>1, <2>2
    <3>2. r[i] = below[i - w]
        BY <1>1, <1>2, <2>2
    <3> QED
        BY <3>1, <3>2
  <2> QED
      BY <2>1, <2>2
<1>5. r = u
    BY <1>2, <1>3, <1>4, SeqEqual
<1> QED
    BY <1>5 DEF r

\* A mutation of a single item without the slash, PATCH /goods/1/shelf, belongs to the list the
\* item is in, whatever that list is called.  It drops that list and every path below it, and,
\* because strings are compared, also the lists beside it whose names begin with its name, with
\* what is below those (request.ts:113); it drops no other path.
THEOREM ItemCoversList ==
  ASSUME NEW S, NEW front \in Seq(S), NEW name \in S,
         NEW n \in Numerals \cap S, NEW v \in Verbs \cap S
  PROVE  /\ ResourceBase(Append(front, name) \o <<n, v>>) = Append(front, name)
         /\ \A url \in Seq(S) :
              Covers(ResourceBase(Append(front, name) \o <<n, v>>), url) <=>
                \E beside \in S, below \in Seq(S) :
                  Begins(beside, name) /\ url = Append(front, beside) \o below
<1> DEFINE list == Append(front, name)
           url  == list \o <<n, v>>
           item == Append(list, n)
<1>1. /\ list \in Seq(S) /\ Len(list) \in Nat /\ DOMAIN list = 1..Len(list)
      /\ <<n, v>> \in Seq(S) /\ Len(front) \in Nat /\ Len(list) = Len(front) + 1
      /\ list[Len(list)] = name /\ \A i \in 1..Len(front) : list[i] = front[i]
    OBVIOUS
<1>9. ResourceBase(url) = list
  <2> HIDE DEF list
  <2>2. url \in Seq(S) /\ Len(url) = Len(list) + 2 /\ url[Len(list) + 2] = v
      BY <1>1
  <2>3. item \in Seq(S) /\ Len(item) = Len(list) + 1 /\ item[Len(list) + 1] = n
      BY <1>1
  <2>4. SubSeq(url, 1, Len(list) + 1) = item
      BY <1>1
  <2>5. SubSeq(item, 1, Len(list)) = list
      BY <1>1
  <2>6. url # <<>> /\ item # <<>>
      BY <1>1, <2>2, <2>3
  <2> HIDE DEF url, item
  <2>7. DropLast(url, Verbs) = item
      BY <1>1, <2>2, <2>4, <2>6 DEF DropLast
  <2>8. DropLast(item, Numerals) = list
      BY <1>1, <2>3, <2>5, <2>6 DEF DropLast
  <2> QED
      BY <2>7, <2>8 DEF ResourceBase
<1>10. ASSUME NEW u \in Seq(S)
       PROVE  Covers(list, u) <=> \E beside \in S, below \in Seq(S) :
                                    Begins(beside, name) /\ u = Append(front, beside) \o below
  <2> DEFINE w == Len(front) + 1
  <2>1. Covers(list, u) <=> /\ w <= Len(u) /\ Begins(u[w], name)
                            /\ \A i \in 1..Len(front) : u[i] = front[i]
    <3>1. /\ w \in 1..w /\ \A i \in 1..w : i = w \/ i \in 1..Len(front)
          /\ \A i \in 1..Len(front) : i \in 1..w /\ i # w
        BY <1>1
    <3>2. Len(list) = w /\ list[w] = name /\ \A i \in 1..Len(front) : list[i] = front[i]
        BY <1>1
    <3> HIDE DEF list, w
    <3> QED
        BY <3>1, <3>2, Zenon DEF Covers
  <2>2. ASSUME w <= Len(u), Begins(u[w], name), \A i \in 1..Len(front) : u[i] = front[i]
        PROVE  \E beside \in S, below \in Seq(S) :
                 Begins(beside, name) /\ u = Append(front, beside) \o below
    <3> DEFINE upper == Append(front, u[w])
               below == SubSeq(u, w + 1, Len(u))
    <3>1. w \in 1..Len(u) /\ Len(u) \in Nat /\ u[w] \in S /\ w \in Nat /\ w = Len(front) + 1
        BY <1>1, <2>2
    <3>2. /\ below \in Seq(S) /\ Len(below) = Len(u) - w
          /\ \A i \in 1..Len(below) : below[i] = u[w + i]
        BY <3>1
    <3>3. /\ upper \in Seq(S) /\ Len(upper) = w /\ upper[w] = u[w]
          /\ \A i \in 1..Len(front) : upper[i] = u[i]
        BY <2>2, <3>1
    <3> HIDE DEF upper, below, w
    <3>4. \A i \in 1..w : upper[i] = u[i]
        BY <3>1, <3>3
    <3>6. u = upper \o below
        BY ZenonT(60), <3>1, <3>2, <3>3, <3>4, Parts
    <3> QED
        BY <2>2, <3>1, <3>2, <3>6 DEF upper, w
  <2>3. ASSUME NEW beside \in S, NEW below \in Seq(S), Begins(beside, name),
               u = Append(front, beside) \o below
        PROVE  w <= Len(u) /\ Begins(u[w], name) /\ \A i \in 1..Len(front) : u[i] = front[i]
    <3>1. /\ Len(u) = w + Len(below) /\ Len(below) \in Nat
          /\ u[w] = beside /\ \A i \in 1..Len(front) : u[i] = front[i]
        BY <2>3
    <3> QED
        BY <2>3, <3>1
  <2> QED
      BY <2>1, <2>2, <2>3
<1> QED
    BY <1>9, <1>10 DEF url
=============================================================================
