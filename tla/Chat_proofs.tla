---------------------------- MODULE Chat_proofs ----------------------------
(***************************************************************************)
(* What a tab of customer service shows and marks as read, for every       *)
(* number of conversations, messages, connections and faults, and however  *)
(* many mutations the tab has under way.                                   *)
(***************************************************************************)
EXTENDS Chat, FiniteSetTheorems, SequenceTheorems, TLAPS

\* What the variables hold.
Stored == 1..Len(messages)
Bodies == [ids : Seq(Nat), unread : SUBSET Nat]
Channels == [conv : Convs, client : {"opening", "open", "closing", "closed"},
             server : {"none", "greeted", "up", "hears", "down"},
             kicked : BOOLEAN, ours : BOOLEAN, queue : Seq(Nat)]
Pages == [at : Convs \cup {NoConv}, loaded : BOOLEAN, shown : Seq(Int), ws : Nat,
          tries : 0..MaxTries, timers : Seq(Convs), acked : SUBSET Nat]
Sendings == [conv : Convs, kind : Kinds \cup {"text"}, temps : Seq(Int),
             ran : {"no", "yes", "refused"}, id : Nat]
Gets == [conv : Convs, served : BOOLEAN, body : Bodies]

Kept ==
  /\ messages \in Seq([from : Sides, read : BOOLEAN]) /\ Len(messages) <= MaxMessages
  /\ side \in Sides \cup {"staff"}
  /\ thread \in [Convs -> Seq(Nat)]
  /\ closed \subseteq Convs
  /\ channels \in Seq(Channels) /\ Len(channels) <= MaxChannels
  /\ registered \in 0..Len(channels) \cup {Far}
  /\ page \in Pages /\ page.ws <= Len(channels)
  /\ sends \subseteq Sendings
  /\ loads \subseteq Gets
  /\ DOMAIN cached \subseteq Convs /\ \A c \in DOMAIN cached : cached[c] \in Bodies
  /\ faults \in 0..MaxFaults
  /\ page.at = NoConv => loads = {} /\ sends = {} /\ ~page.loaded

\* Wherever an id is kept, it is that of a message, and the lists of a conversation's messages
\* name each once.
Exist(ids) == \A k \in DOMAIN ids : ids[k] \in Stored
Listed(ids) == Exist(ids) /\ IsInjective(ids)
Real ==
  /\ \A c \in Convs : Listed(thread[c])
  /\ \A h \in DOMAIN channels : Exist(channels[h].queue)
  /\ \A k \in DOMAIN page.shown : page.shown[k] <= Len(messages) /\ page.shown[k] # 0
  /\ page.acked \subseteq Stored
  /\ \A s \in sends : s.id <= Len(messages)
  /\ \A l \in loads : Listed(l.body.ids) /\ l.body.unread \subseteq Stored
  /\ \A c \in DOMAIN cached : Listed(cached[c].ids) /\ cached[c].unread \subseteq Stored

Sane == Kept /\ Real

\* The stored messages of the user's own role.
Mine == {i \in DOMAIN messages : messages[i].from = Role}

\* What is not among certain messages is listed once.
Once(q, own) == \A j, k \in DOMAIN q : q[j] = q[k] /\ q[j] \notin own => j = k

----------------------------------------------------------------------------
(* The operators on what is shown. *)

LEMMA Appends1 ==
  ASSUME NEW q \in Seq(Int), NEW i \in Nat, \A k \in DOMAIN q : q[k] # i
  PROVE  /\ Append(q, i) \in Seq(Int)
         /\ Range(Append(q, i)) \subseteq Range(q) \cup {i}
         /\ IsInjective(q) => IsInjective(Append(q, i))
         /\ \A own : Once(q, own) => Once(Append(q, i), own)
<1> DEFINE r == Append(q, i)
<1>1. /\ r \in Seq(Int) /\ Len(r) = Len(q) + 1 /\ Len(q) \in Nat
      /\ DOMAIN q = 1..Len(q) /\ DOMAIN r = 1..Len(q) + 1
      /\ \A k \in 1..Len(q) : r[k] = q[k] /\ q[k] \in Int
      /\ r[Len(q) + 1] = i
    OBVIOUS
<1> HIDE DEF r
<1>2. \A k \in DOMAIN r : k = Len(q) + 1 \/ k \in DOMAIN q
    BY <1>1
<1>3. Range(r) \subseteq Range(q) \cup {i}
    BY <1>1, <1>2 DEF Range
<1>4. IsInjective(q) => IsInjective(r)
    BY <1>1, <1>2 DEF IsInjective
<1>5. \A own : Once(q, own) => Once(r, own)
    BY <1>1, <1>2 DEF Once
<1> QED
    BY <1>1, <1>3, <1>4, <1>5 DEF r

LEMMA Merges ==
  ASSUME NEW q \in Seq(Int), NEW i \in Nat, i # 0
  PROVE  /\ Merge(q, i) \in Seq(Int)
         /\ Range(Merge(q, i)) \subseteq Range(q) \cup {i}
         /\ \A own : Once(q, own) => Once(Merge(q, i), own)
<1> DEFINE temps == {k \in DOMAIN q : q[k] < 0}
           first == CHOOSE k \in temps : \A j \in temps : k <= j
<1>1. CASE i \in Range(q)
    BY <1>1 DEF Merge
<1>2. CASE i \notin Range(q) /\ ~Foreign(i) /\ temps # {}
  <2>1. Merge(q, i) = [q EXCEPT ![first] = i]
      BY <1>2 DEF Merge
  <2> DEFINE r == [q EXCEPT ![first] = i]
  <2> HIDE DEF first, temps
  <2>2. \A k \in DOMAIN q : q[k] # i
      BY <1>2 DEF Range
  <2>3. /\ DOMAIN q = 1..Len(q) /\ Len(q) \in Nat /\ \A k \in 1..Len(q) : q[k] \in Int
        /\ DOMAIN r = 1..Len(q) /\ \A k \in 1..Len(q) : (r[k] = i /\ k = first) \/ r[k] = q[k]
      OBVIOUS
  <2>7. r \in Seq(Int)
    <3>1. r = [k \in 1..Len(q) |-> r[k]]
        BY <2>3
    <3> HIDE DEF r
    <3> QED
        BY <2>3, <3>1
  <2> HIDE DEF r
  <2>4. Range(r) \subseteq Range(q) \cup {i}
      BY <2>3 DEF Range
  <2>5. \A own : Once(q, own) => Once(r, own)
      BY <2>2, <2>3 DEF Once
  <2> QED
      BY <2>1, <2>4, <2>5, <2>7 DEF r
<1>3. CASE i \notin Range(q) /\ ~(~Foreign(i) /\ temps # {})
  <2>1. Merge(q, i) = Append(q, i)
      BY <1>3 DEF Merge
  <2>2. \A k \in DOMAIN q : q[k] # i
      BY <1>3 DEF Range
  <2> HIDE DEF temps, first
  <2> QED
      BY <2>1, <2>2, Appends1
<1> QED
    BY <1>1, <1>2, <1>3

LEMMA Settles ==
  ASSUME NEW q \in Seq(Int), NEW temp \in Int, NEW i \in Nat, i # 0, temp # i
  PROVE  /\ Settled(q, temp, i) \in Seq(Int)
         /\ Range(Settled(q, temp, i)) \subseteq (Range(q) \ {temp}) \cup {i}
         /\ \A own : Once(q, own) /\ i \in own => Once(Settled(q, temp, i), own)
<1>1. CASE temp \in Range(q)
  <2> DEFINE r == [k \in DOMAIN q |-> IF q[k] = temp THEN i ELSE q[k]]
  <2>1. Settled(q, temp, i) = r
      BY <1>1 DEF Settled
  <2>3. DOMAIN q = 1..Len(q) /\ Len(q) \in Nat /\ \A k \in DOMAIN q : q[k] \in Int
      OBVIOUS
  <2>4. r \in Seq(Int)
    <3>1. \A k \in 1..Len(q) : r[k] \in Int
        BY <2>3
    <3>2. r = [k \in 1..Len(q) |-> IF q[k] = temp THEN i ELSE q[k]]
        BY <2>3
    <3> HIDE DEF r
    <3> QED
        BY <2>3, <3>1, <3>2
  <2>5. DOMAIN r = DOMAIN q /\ \A k \in DOMAIN q : r[k] = IF q[k] = temp THEN i ELSE q[k]
      OBVIOUS
  <2> HIDE DEF r
  <2>6. Range(r) \subseteq (Range(q) \ {temp}) \cup {i}
      BY <2>5 DEF Range
  <2>7. \A own : Once(q, own) /\ i \in own => Once(r, own)
      BY <2>5 DEF Once
  <2> QED
      BY <1>1, <2>1, <2>4, <2>6, <2>7
<1>2. CASE temp \notin Range(q) /\ i \in Range(q)
    BY <1>2 DEF Settled
<1>3. CASE temp \notin Range(q) /\ i \notin Range(q)
  <2>1. Settled(q, temp, i) = Append(q, i)
      BY <1>3 DEF Settled
  <2>2. \A k \in DOMAIN q : q[k] # i
      BY <1>3 DEF Range
  <2> QED
      BY <1>3, <2>1, <2>2, Appends1
<1> QED
    BY <1>1, <1>2, <1>3

LEMMA Removes ==
  ASSUME NEW S, NEW q \in Seq(S), NEW k \in DOMAIN q
  PROVE  /\ RemoveAt(q, k) \in Seq(S)
         /\ Len(RemoveAt(q, k)) = Len(q) - 1
         /\ \A j \in DOMAIN RemoveAt(q, k) : RemoveAt(q, k)[j] = IF j < k THEN q[j] ELSE q[j + 1]
<1> DEFINE a == SubSeq(q, 1, k - 1)
           b == SubSeq(q, k + 1, Len(q))
<1>1. k \in 1..Len(q) /\ Len(q) \in Nat
    OBVIOUS
<1>2. a \in Seq(S) /\ Len(a) = k - 1 /\ \A j \in 1..k - 1 : a[j] = q[j]
    BY <1>1
<1>3. b \in Seq(S) /\ Len(b) = Len(q) - k /\ \A j \in 1..Len(q) - k : b[j] = q[k + j]
    BY <1>1
<1>4. RemoveAt(q, k) = a \o b
    BY DEF RemoveAt
<1> HIDE DEF a, b
<1>5. /\ a \o b \in Seq(S) /\ Len(a \o b) = Len(q) - 1
      /\ \A j \in 1..Len(q) - 1 : (a \o b)[j] = IF j <= k - 1 THEN a[j] ELSE b[j - (k - 1)]
    BY SMTT(20), <1>1, <1>2, <1>3, ConcatProperties
<1>6. \A j \in 1..Len(q) - 1 : (a \o b)[j] = IF j < k THEN q[j] ELSE q[j + 1]
  <2> TAKE j \in 1..Len(q) - 1
  <2>1. CASE j < k
      BY <1>1, <1>2, <1>5, <2>1
  <2>2. CASE ~(j < k)
    <3>1. (a \o b)[j] = b[j - (k - 1)] /\ j - (k - 1) \in 1..Len(q) - k
        BY <1>1, <1>5, <2>2
    <3> QED
        BY SMTT(20), <1>1, <1>3, <2>2, <3>1
  <2> QED
      BY <2>1, <2>2
<1> QED
    BY <1>1, <1>4, <1>5, <1>6, LenProperties

LEMMA TakesBack ==
  ASSUME NEW q \in Seq(Int), NEW temp \in Int
  PROVE  /\ TakenBack(q, temp) \in Seq(Int)
         /\ Range(TakenBack(q, temp)) \subseteq Range(q)
         /\ \A own : Once(q, own) =>
              /\ temp \notin own => temp \notin Range(TakenBack(q, temp))
              /\ Once(TakenBack(q, temp), own)
<1>1. CASE temp \in Range(q)
  <2> DEFINE at == CHOOSE k \in DOMAIN q : q[k] = temp
             r == TakenBack(q, temp)
  <2>1. at \in DOMAIN q /\ q[at] = temp
      BY <1>1 DEF Range
  <2> HIDE DEF at
  <2>2. r = RemoveAt(q, at)
      BY <1>1 DEF TakenBack, at
  <2>3. /\ r \in Seq(Int) /\ Len(r) = Len(q) - 1
        /\ \A j \in DOMAIN r : r[j] = IF j < at THEN q[j] ELSE q[j + 1]
      BY <2>1, <2>2, Removes
  <2> HIDE DEF r
  <2>4. /\ Len(q) \in Nat /\ at \in 1..Len(q) /\ DOMAIN q = 1..Len(q) /\ DOMAIN r = 1..Len(q) - 1
        /\ \A j \in 1..Len(q) : q[j] \in Int
      BY <2>1, <2>3
  <2> DEFINE old(j) == IF j < at THEN j ELSE j + 1
  <2>5. \A j \in DOMAIN r : old(j) \in DOMAIN q /\ old(j) # at /\ r[j] = q[old(j)]
      BY SMTT(20), <2>3, <2>4
  <2>6. \A j, k \in DOMAIN r : (old(j) = old(k) => j = k) /\ (j < k => old(j) < old(k))
      BY <2>4
  <2> HIDE DEF old
  <2>7. Range(r) \subseteq Range(q)
      BY <2>5 DEF Range
  <2>8. \A own : Once(q, own) /\ temp \notin own => temp \notin Range(r)
      BY <2>1, <2>5 DEF Range, Once
  <2>9. \A own : Once(q, own) => Once(r, own)
      BY <2>5, <2>6 DEF Once
  <2> QED
      BY <2>3, <2>7, <2>8, <2>9 DEF r
<1>2. CASE temp \notin Range(q)
    BY <1>2 DEF TakenBack
<1> QED
    BY <1>1, <1>2

\* A sequence of the same length, given by a function.
LEMMA SameLength ==
  ASSUME NEW S, NEW T, NEW q \in Seq(S), NEW f, f = [k \in DOMAIN q |-> f[k]],
         \A k \in DOMAIN q : f[k] \in T
  PROVE  f \in Seq(T) /\ Len(f) = Len(q) /\ DOMAIN f = DOMAIN q
<1>1. DOMAIN q = 1..Len(q) /\ Len(q) \in Nat
    OBVIOUS
<1>2. f = [k \in 1..Len(q) |-> f[k]] /\ \A k \in 1..Len(q) : f[k] \in T
    BY <1>1
<1> QED
    BY <1>1, <1>2

LEMMA Elements ==
  ASSUME NEW S, NEW q \in Seq(S)
  PROVE  DOMAIN q = 1..Len(q) /\ Len(q) \in Nat /\ \A k \in DOMAIN q : q[k] \in S
OBVIOUS

\* Two positions counted from the same place.
LEMMA SamePosition ==
  ASSUME NEW a \in Int, NEW b \in Int, NEW c \in Int, NEW d \in Int
  PROVE  /\ -(a + (b - d)) = -(a + (c - d)) => b = c
         /\ b < c => -(a + (c - d)) < -(a + (b - d))
OBVIOUS

\* A bounded set of integers has its maximum.
LEMMA HasMax ==
  ASSUME NEW T \in SUBSET Int, NEW b \in Int, NEW t \in T, \A x \in T : x <= b
  PROVE  Max(T) \in T /\ \A y \in T : y <= Max(T)
<1> DEFINE D == {b - x : x \in T}
           R == OpToRel(<, Nat)
<1>1. IsWellFoundedOn(R, Nat)
    BY NatLessThanWellFounded, Zenon
<1>2. D \subseteq Nat /\ D # {}
  <2>1. \A x \in T : b - x \in Nat
      OBVIOUS
  <2> QED
      BY <2>1
<1>3. PICK d \in D : \A y \in D : ~(<<y, d>> \in R)
  <2> HIDE DEF D, R
  <2> QED
      BY <1>1, <1>2, WFMin
<1>4. \A y \in D : ~(y < d)
  <2> TAKE y \in D
  <2>1. y \in Nat /\ d \in Nat /\ ~(<<y, d>> \in R)
      BY <1>2, <1>3
  <2> QED
      BY <2>1 DEF OpToRel
<1>5. PICK m \in T : d = b - m
    BY <1>3
<1>6. \A y \in T : y <= m
  <2> TAKE y \in T
  <2>1. b - y \in D
      OBVIOUS
  <2>2. ~(b - y < b - m)
      BY <1>4, <1>5, <2>1
  <2> QED
      BY <2>2
<1> QED
    BY <1>5, <1>6 DEF Max

----------------------------------------------------------------------------
(* Types. *)

LEMMA Limits ==
  /\ NoConv \notin Convs
  /\ MaxMessages \in Nat /\ MaxChannels \in Nat /\ MaxTries \in Nat /\ MaxFaults \in Nat
  /\ MaxBatch \in Nat /\ MaxLoads \in Nat /\ Far = MaxChannels + 1 /\ Far \in Nat
BY ChatAssumption DEF ChatAssumption, Far

LEMMA MarksKeep ==
  ASSUME Kept, NEW ids, NEW convs, Marks(ids, convs)
  PROVE  /\ messages' \in Seq([from : Sides, read : BOOLEAN]) /\ Len(messages') = Len(messages)
         /\ DOMAIN messages' = DOMAIN messages
         /\ \A i \in DOMAIN messages : messages'[i].from = messages[i].from
         /\ \A i \in DOMAIN messages : messages'[i].read =>
              messages[i].read \/ i \in ids \/ convs # {}
         /\ faults' \in 0..MaxFaults
<1> USE Limits
<1>1. PICK heard \in {ids, {}}, posted \in {convs, {}} :
        LET lost == (IF heard = ids THEN 0 ELSE 1) + (IF posted = convs THEN 0 ELSE 1)
        IN /\ faults + lost <= MaxFaults /\ faults' = faults + lost
           /\ messages' = [i \in DOMAIN messages |->
                IF i \in heard \/ (messages[i].from = "user" /\ \E c \in posted : In(i, c))
                THEN [messages[i] EXCEPT !.read = TRUE] ELSE messages[i]]
    BY DEF Marks
<1>2. \A i \in DOMAIN messages : messages[i] \in [from : Sides, read : BOOLEAN]
  <2>1. messages \in Seq([from : Sides, read : BOOLEAN])
      BY DEF Kept
  <2> QED
      BY <2>1, Elements
<1>3. /\ messages' = [i \in DOMAIN messages |-> messages'[i]]
      /\ \A i \in DOMAIN messages : messages'[i] \in [from : Sides, read : BOOLEAN]
    BY <1>1, <1>2
<1>4. /\ messages' \in Seq([from : Sides, read : BOOLEAN]) /\ Len(messages') = Len(messages)
      /\ DOMAIN messages' = DOMAIN messages
    BY <1>3, SameLength DEF Kept
<1>5. \A i \in DOMAIN messages : messages'[i].from = messages[i].from
    BY <1>1, <1>2
<1>6. \A i \in DOMAIN messages : messages'[i].read =>
        messages[i].read \/ i \in ids \/ convs # {}
    BY <1>1, <1>2
<1>7. faults' \in 0..MaxFaults
    BY <1>1 DEF Kept
<1> QED
    BY <1>4, <1>5, <1>6, <1>7

\* The list that a page shows when a list arrives or a message is merged into the one shown.
LEMMA DisplaysKeep ==
  ASSUME Kept, NEW p \in Pages, NEW q \in Seq(Int), NEW unread, NEW also, Displays(p, q, unread, also)
  PROVE  /\ page' \in Pages
         /\ page'.shown = q /\ page'.loaded
         /\ page'.at = p.at /\ page'.ws = p.ws /\ page'.tries = p.tries
         /\ page'.acked \subseteq p.acked \cup {x \in Range(q) : x > 0}
         /\ messages' \in Seq([from : Sides, read : BOOLEAN]) /\ Len(messages') = Len(messages)
         /\ DOMAIN messages' = DOMAIN messages
         /\ \A i \in DOMAIN messages : messages'[i].from = messages[i].from
         /\ \A i \in DOMAIN messages : messages'[i].read =>
              messages[i].read \/ i \in also \/ Agent \/ (i \in Range(q) /\ i > 0)
         /\ faults' \in 0..MaxFaults
<1> DEFINE fresh == Fresh(q, unread)
           heard == also \cup (IF p.ws = page.ws /\ Connected THEN fresh ELSE {})
           posted == IF Agent /\ fresh # {} THEN {p.at} ELSE {}
<1>1. /\ page' = [p EXCEPT !.shown = q, !.loaded = TRUE, !.acked = @ \cup fresh]
      /\ Marks(heard, posted)
    BY DEF Displays
<1>2. fresh \subseteq Range(q) /\ \A i \in fresh : i > 0
    BY DEF Fresh
<1>3. fresh \subseteq Nat
  <2>1. \A k \in DOMAIN q : q[k] \in Int
      BY Elements
  <2> QED
      BY <1>2, <2>1 DEF Range
<1>4. heard \subseteq also \cup fresh /\ (posted # {} => Agent)
    OBVIOUS
<1> HIDE DEF fresh, heard, posted
<1>5. /\ messages' \in Seq([from : Sides, read : BOOLEAN]) /\ Len(messages') = Len(messages)
      /\ DOMAIN messages' = DOMAIN messages
      /\ \A i \in DOMAIN messages : messages'[i].from = messages[i].from
      /\ \A i \in DOMAIN messages : messages'[i].read =>
           messages[i].read \/ i \in heard \/ posted # {}
      /\ faults' \in 0..MaxFaults
    BY <1>1, MarksKeep
<1>6. /\ page' \in Pages
      /\ page'.shown = q /\ page'.loaded
      /\ page'.at = p.at /\ page'.ws = p.ws /\ page'.tries = p.tries
      /\ page'.acked = p.acked \cup fresh
    BY <1>1, <1>3 DEF Pages
<1> QED
    BY <1>2, <1>4, <1>5, <1>6

\* Nothing, or the answer kept for the conversation, is shown.
LEMMA LoadKeeps ==
  ASSUME Kept, NEW p \in Pages, NEW c \in Convs, NEW kept, Load(p, c, kept),
         DOMAIN kept \subseteq DOMAIN cached, \A d \in DOMAIN kept : kept[d] = cached[d]
  PROVE  /\ cached' = kept
         /\ \/ /\ c \in DOMAIN cached /\ cached[c] \in Bodies
               /\ Displays(p, cached[c].ids, cached[c].unread, {})
               /\ UNCHANGED loads
            \/ /\ loads' = loads \cup {Get(c)} /\ Get(c) \in Gets
               /\ page' = p
               /\ UNCHANGED <<messages, faults>>
         /\ DOMAIN cached' \subseteq Convs /\ \A d \in DOMAIN cached' : cached'[d] \in Bodies
         /\ loads' \subseteq Gets
<1>1. \A d \in DOMAIN cached : d \in Convs /\ cached[d] \in Bodies
    BY DEF Kept
<1>2. Get(c) \in Gets
    BY DEF Get, Gets, Body, Bodies
<1>3. loads \subseteq Gets
    BY DEF Kept
<1> QED
    BY <1>1, <1>2, <1>3 DEF Load

LEMMA AfterKeeps ==
  ASSUME NEW s
  PROVE  DOMAIN After(s) \subseteq DOMAIN cached /\ \A d \in DOMAIN After(s) : After(s)[d] = cached[d]
BY DEF After, Without

\* A message is published: it is added to the queues of those that hear it.
LEMMA PublishKeeps ==
  ASSUME channels \in Seq(Channels), faults \in 0..MaxFaults,
         NEW i \in Nat, NEW c, NEW from, Publish(i, c, from)
  PROVE  /\ channels' \in Seq(Channels) /\ Len(channels') = Len(channels)
         /\ DOMAIN channels' = DOMAIN channels
         /\ faults' \in 0..MaxFaults
         /\ \A h \in DOMAIN channels :
              /\ channels'[h].conv = channels[h].conv
              /\ \A k \in DOMAIN channels'[h].queue :
                   \/ \E j \in DOMAIN channels[h].queue : channels'[h].queue[k] = channels[h].queue[j]
                   \/ channels'[h].queue[k] = i /\ Copies(h, c, from) # 0
<1> USE Limits
<1>1. CASE UNCHANGED channels /\ Fault
  <2>1. faults' \in 0..MaxFaults
      BY <1>1 DEF Fault
  <2> QED
      BY <1>1, <2>1
<1>2. CASE /\ channels' = [h \in DOMAIN channels |->
                [channels[h] EXCEPT !.queue = @ \o [k \in 1..Copies(h, c, from) |-> i]]]
           /\ UNCHANGED faults
  <2>1. ASSUME NEW h \in DOMAIN channels
        PROVE  /\ channels'[h] \in Channels
               /\ channels'[h].conv = channels[h].conv
               /\ \A k \in DOMAIN channels'[h].queue :
                    \/ \E j \in DOMAIN channels[h].queue : channels'[h].queue[k] = channels[h].queue[j]
                    \/ channels'[h].queue[k] = i /\ Copies(h, c, from) # 0
    <3> DEFINE n == Copies(h, c, from)
               tail == [k \in 1..n |-> i]
               q == channels[h].queue
    <3>1. channels[h] \in Channels
        BY Elements
    <3>2. n \in Nat
        BY DEF Copies
    <3>3. q \in Seq(Nat)
        BY <3>1 DEF Channels
    <3> HIDE DEF n
    <3>4. tail \in Seq(Nat) /\ Len(tail) = n /\ \A k \in 1..n : tail[k] = i
        BY <3>2
    <3>5. channels'[h] = [channels[h] EXCEPT !.queue = q \o tail]
        BY <1>2 DEF n
    <3> HIDE DEF tail, q
    <3>6. /\ q \o tail \in Seq(Nat) /\ Len(q \o tail) = Len(q) + n
          /\ \A k \in 1..Len(q) + n : (q \o tail)[k] = IF k <= Len(q) THEN q[k] ELSE tail[k - Len(q)]
        BY <3>3, <3>4, ConcatProperties
    <3>7. channels'[h] \in Channels /\ channels'[h].conv = channels[h].conv /\ channels'[h].queue = q \o tail
        BY <3>1, <3>5, <3>6 DEF Channels
    <3>8. ASSUME NEW k \in DOMAIN (q \o tail)
          PROVE  \/ \E j \in DOMAIN q : (q \o tail)[k] = q[j]
                 \/ (q \o tail)[k] = i /\ n # 0
      <4>1. k \in 1..Len(q) + n /\ Len(q) \in Nat /\ DOMAIN q = 1..Len(q)
          BY <3>2, <3>3, <3>6, Elements
      <4>2. CASE k <= Len(q)
          BY <3>6, <4>1, <4>2
      <4>3. CASE ~(k <= Len(q))
        <5>1. k - Len(q) \in 1..n
            BY <3>2, <4>1, <4>3
        <5> QED
            BY <3>2, <3>4, <3>6, <4>1, <4>3, <5>1
      <4> QED
          BY <4>2, <4>3
    <3> QED
        BY <3>7, <3>8 DEF q, n
  <2>2. channels' = [h \in DOMAIN channels |-> channels'[h]]
      BY <1>2
  <2>3. channels' \in Seq(Channels) /\ Len(channels') = Len(channels) /\ DOMAIN channels' = DOMAIN channels
      BY <2>1, <2>2, SameLength
  <2> QED
      BY <1>2, <2>1, <2>3
<1> QED
    BY <1>1, <1>2 DEF Publish

LEMMA AppendsKeep ==
  ASSUME Kept, NEW c \in Convs, NEW from \in Sides, Len(messages) < MaxMessages, Appends(c, from)
  PROVE  /\ messages' \in Seq([from : Sides, read : BOOLEAN])
         /\ Len(messages') = Len(messages) + 1 /\ Len(messages') <= MaxMessages
         /\ Len(messages) \in Nat
         /\ DOMAIN messages' = 1..Len(messages) + 1 /\ DOMAIN messages = 1..Len(messages)
         /\ \A i \in DOMAIN messages : messages'[i] = messages[i]
         /\ messages'[Len(messages) + 1] = [from |-> from, read |-> FALSE]
         /\ thread' \in [Convs -> Seq(Nat)]
         /\ \A d \in Convs : d # c => thread'[d] = thread[d]
         /\ thread'[c] = Append(thread[c], Len(messages) + 1)
<1> USE Limits
<1>1. /\ messages \in Seq([from : Sides, read : BOOLEAN]) /\ thread \in [Convs -> Seq(Nat)]
      /\ Len(messages) \in Nat
    BY DEF Kept
<1>2. /\ messages' = Append(messages, [from |-> from, read |-> FALSE])
      /\ thread' = [thread EXCEPT ![c] = Append(@, Len(messages) + 1)]
    BY DEF Appends
<1>3. [from |-> from, read |-> FALSE] \in [from : Sides, read : BOOLEAN]
    OBVIOUS
<1>4. /\ messages' \in Seq([from : Sides, read : BOOLEAN]) /\ Len(messages') = Len(messages) + 1
      /\ \A i \in 1..Len(messages) : messages'[i] = messages[i]
      /\ messages'[Len(messages) + 1] = [from |-> from, read |-> FALSE]
    BY <1>1, <1>2, <1>3, AppendProperties
<1>5. DOMAIN messages' = 1..Len(messages) + 1 /\ DOMAIN messages = 1..Len(messages)
    BY <1>1, <1>4, Elements
<1>6. Append(thread[c], Len(messages) + 1) \in Seq(Nat)
    BY <1>1
<1>7. /\ thread' \in [Convs -> Seq(Nat)]
      /\ \A d \in Convs : d # c => thread'[d] = thread[d]
      /\ thread'[c] = Append(thread[c], Len(messages) + 1)
    BY <1>1, <1>2, <1>6
<1> QED
    BY <1>1, <1>4, <1>5, <1>7

\* One channel changes.
LEMMA OneChanges ==
  ASSUME channels \in Seq(Channels), NEW h \in DOMAIN channels, NEW r \in Channels,
         channels' = [channels EXCEPT ![h] = r]
  PROVE  /\ channels' \in Seq(Channels) /\ Len(channels') = Len(channels)
         /\ DOMAIN channels' = DOMAIN channels
         /\ \A g \in DOMAIN channels : channels'[g] = IF g = h THEN r ELSE channels[g]
BY Elements, ExceptSeq

\* Those of the channels whose state changes still belong to their conversations, and hear no
\* more than they did.
Same(old, new) ==
  /\ new \in Seq(Channels) /\ Len(new) = Len(old) /\ DOMAIN new = DOMAIN old
  /\ \A g \in DOMAIN old : new[g].conv = old[g].conv /\ new[g].queue \in {old[g].queue, <<>>}

LEMMA OneSame ==
  ASSUME channels \in Seq(Channels), NEW h \in DOMAIN channels, NEW r \in Channels,
         channels' = [channels EXCEPT ![h] = r],
         r.conv = channels[h].conv, r.queue \in {channels[h].queue, <<>>}
  PROVE  Same(channels, channels')
BY OneChanges DEF Same

LEMMA KickSame ==
  ASSUME channels \in Seq(Channels), NEW old
  PROVE  Same(channels, Kick(old))
<1> DEFINE k == Kick(old)
<1>1. \A g \in DOMAIN channels :
        k[g] \in Channels /\ k[g].conv = channels[g].conv /\ k[g].queue = channels[g].queue
  <2> TAKE g \in DOMAIN channels
  <2>1. channels[g] \in Channels
      BY Elements
  <2> DEFINE r == [channels[g] EXCEPT !.kicked = TRUE]
  <2>3. r \in Channels /\ r.conv = channels[g].conv /\ r.queue = channels[g].queue
      BY <2>1 DEF Channels
  <2>4. k[g] = r \/ k[g] = channels[g]
      BY DEF Kick
  <2> HIDE DEF k, r
  <2> QED
      BY <2>1, <2>3, <2>4
<1>2. k = [g \in DOMAIN channels |-> k[g]]
    BY DEF Kick
<1> HIDE DEF k
<1>3. k \in Seq(Channels) /\ Len(k) = Len(channels) /\ DOMAIN k = DOMAIN channels
    BY <1>1, <1>2, SameLength
<1> QED
    BY <1>1, <1>3 DEF Same, k

\* What the steps of a WebSocket other than the delivery of a message may do.
LEMMA Sockets ==
  ASSUME Kept, NEW h \in DOMAIN channels,
         \/ Greet(h) \/ Accept(h) \/ Subscribe(h) \/ ServerCloses(h) \/ Closes(h) \/ Cut(h)
  PROVE  /\ Same(channels, channels')
         /\ page' \in Pages /\ page'.shown = page.shown /\ page'.acked = page.acked
         /\ page'.at = page.at /\ page'.loaded = page.loaded /\ page'.ws \in {page.ws, 0}
         /\ messages' \in Seq([from : Sides, read : BOOLEAN]) /\ Len(messages') = Len(messages)
         /\ \A i \in DOMAIN messages :
              /\ messages'[i].from = messages[i].from
              /\ messages'[i].read => messages[i].read \/ In(i, channels[h].conv)
         /\ registered' \in 0..Len(channels) \cup {Far} /\ faults' \in 0..MaxFaults
         /\ UNCHANGED <<side, thread, closed, sends, loads, cached>>
<1> USE Limits
<1>1. /\ channels \in Seq(Channels) /\ channels[h] \in Channels /\ h \in 1..Len(channels)
      /\ Len(channels) \in Nat
    BY Elements DEF Kept
<1>a. /\ messages \in Seq([from : Sides, read : BOOLEAN]) /\ page \in Pages
      /\ registered \in 0..Len(channels) \cup {Far} /\ faults \in 0..MaxFaults
    BY DEF Kept
<1>2. CASE Greet(h)
  <2> DEFINE k == Kick(registered)
             r == [k[h] EXCEPT !.server = "greeted"]
  <2>1. Same(channels, k)
      BY <1>1, KickSame
  <2>2. channels' = [k EXCEPT ![h].server = "greeted"]
      BY <1>2 DEF Greet
  <2> HIDE DEF k
  <2>3. k \in Seq(Channels) /\ k[h] \in Channels /\ h \in 1..Len(k)
      BY <1>1, <2>1, Elements DEF Same
  <2>4. r \in Channels /\ r.conv = k[h].conv /\ r.queue = k[h].queue
      BY <2>3 DEF Channels
  <2>5. channels' = [k EXCEPT ![h] = r]
      BY <2>2
  <2> HIDE DEF r
  <2>6. /\ channels' \in Seq(Channels) /\ Len(channels') = Len(k) /\ DOMAIN channels' = DOMAIN k
        /\ \A g \in DOMAIN k : channels'[g] = IF g = h THEN r ELSE k[g]
      BY <2>3, <2>4, <2>5, Elements, ExceptSeq
  <2>7. Same(channels, channels')
      BY <1>1, <2>1, <2>4, <2>6 DEF Same
  <2> QED
      BY <1>2, <1>a, <2>7 DEF Greet
<1>3. CASE Accept(h)
  <2> DEFINE r == [channels[h] EXCEPT !.server = "up",
                     !.client = IF channels[h].client = "opening" THEN "open" ELSE channels[h].client]
  <2>4. r \in Channels /\ channels' = [channels EXCEPT ![h] = r]
      BY <1>1, <1>3 DEF Accept, Channels
  <2>5. r.conv = channels[h].conv /\ r.queue = channels[h].queue
      BY <1>1 DEF Channels
  <2> HIDE DEF r
  <2>1. Same(channels, channels')
      BY <1>1, <2>4, <2>5, OneSame
  <2>2. /\ messages' \in Seq([from : Sides, read : BOOLEAN]) /\ Len(messages') = Len(messages)
        /\ \A i \in DOMAIN messages :
             /\ messages'[i].from = messages[i].from
             /\ messages'[i].read => messages[i].read \/ In(i, channels[h].conv)
    <3>1. \A i \in DOMAIN messages : messages[i] \in [from : Sides, read : BOOLEAN]
        BY <1>a, Elements
    <3>2. \A i \in DOMAIN messages :
            /\ messages'[i] \in [from : Sides, read : BOOLEAN]
            /\ messages'[i].from = messages[i].from
            /\ messages'[i].read => messages[i].read \/ In(i, channels[h].conv)
        BY <1>3, <3>1 DEF Accept
    <3>3. messages' = [i \in DOMAIN messages |-> messages'[i]]
        BY <1>3 DEF Accept
    <3> QED
        BY <1>a, <3>2, <3>3, SameLength
  <2>3. /\ page' \in Pages /\ page'.shown = page.shown /\ page'.acked = page.acked
        /\ page'.at = page.at /\ page'.loaded = page.loaded /\ page'.ws = page.ws
    <3>1. page.tries \in 0..MaxTries /\ 0 \in 0..MaxTries
        BY <1>a DEF Pages
    <3>2. page' = [page EXCEPT !.tries = 0] \/ page' = [page EXCEPT !.tries = page.tries]
        BY <1>3 DEF Accept
    <3> QED
        BY <1>a, <3>1, <3>2 DEF Pages
  <2> QED
      BY <1>1, <1>3, <1>a, <2>1, <2>2, <2>3 DEF Accept
<1>4. CASE Subscribe(h)
  <2> DEFINE r == [channels[h] EXCEPT !.server = "hears"]
  <2>2. r \in Channels /\ r.conv = channels[h].conv /\ r.queue = channels[h].queue
      BY <1>1 DEF Channels
  <2>3. channels' = [channels EXCEPT ![h] = r]
      BY <1>4 DEF Subscribe
  <2> HIDE DEF r
  <2>1. Same(channels, channels')
      BY <1>1, <2>2, <2>3, OneSame
  <2> QED
      BY <1>4, <1>a, <2>1 DEF Subscribe
<1>5. CASE ServerCloses(h)
  <2> DEFINE r == [channels[h] EXCEPT !.server = "down"]
  <2>2. r \in Channels /\ r.conv = channels[h].conv /\ r.queue = channels[h].queue
      BY <1>1 DEF Channels
  <2>3. channels' = [channels EXCEPT ![h] = r]
      BY <1>5 DEF ServerCloses
  <2> HIDE DEF r
  <2>1. Same(channels, channels')
      BY <1>1, <2>2, <2>3, OneSame
  <2> QED
      BY <1>1, <1>5, <1>a, <2>1 DEF ServerCloses, Unregistered
<1>6. CASE Closes(h) \/ Cut(h)
  <2>1. OnClose(h) /\ faults' \in 0..MaxFaults
      BY <1>6, <1>a DEF Closes, Cut, Fault
  <2> DEFINE r == [channels[h] EXCEPT !.client = "closed", !.queue = <<>>]
  <2>a. <<>> \in Seq(Nat)
      OBVIOUS
  <2>b. r \in Channels /\ r.conv = channels[h].conv /\ r.queue = <<>>
      BY <1>1, <2>a DEF Channels
  <2>c. channels' = [channels EXCEPT ![h] = r]
      BY <2>1 DEF OnClose
  <2> HIDE DEF r
  <2>2. Same(channels, channels')
      BY <1>1, <2>b, <2>c, OneSame
  <2>3. channels[h].conv \in Convs
      BY <1>1 DEF Channels
  <2>4. /\ page' \in Pages /\ page'.shown = page.shown /\ page'.acked = page.acked
        /\ page'.at = page.at /\ page'.loaded = page.loaded /\ page'.ws = 0
    <3>1. page.tries \in 0..MaxTries /\ page.timers \in Seq(Convs)
        BY <1>a DEF Pages
    <3>2. Append(page.timers, channels[h].conv) \in Seq(Convs)
        BY <2>3, <3>1
    <3> DEFINE again == page.tries < MaxTries /\ (Agent => ~channels[h].ours)
               t == IF again THEN page.tries + 1 ELSE page.tries
               u == IF again THEN Append(page.timers, channels[h].conv) ELSE page.timers
    <3>3. t \in 0..MaxTries
        BY <3>1
    <3>4. u \in Seq(Convs)
        BY <3>1, <3>2
    <3>5. page' = [page EXCEPT !.ws = 0, !.tries = t, !.timers = u]
        BY <2>1 DEF OnClose
    <3> HIDE DEF t, u
    <3> QED
        BY <1>a, <3>3, <3>4, <3>5 DEF Pages
  <2> QED
      BY <1>1, <1>a, <2>1, <2>2, <2>4 DEF OnClose
<1> QED
    BY <1>2, <1>3, <1>4, <1>5, <1>6

LEMMA SaneSockets ==
  ASSUME Sane, NEW h \in DOMAIN channels,
         \/ Greet(h) \/ Accept(h) \/ Subscribe(h) \/ ServerCloses(h) \/ Closes(h) \/ Cut(h)
  PROVE  Sane'
<1>1. page.ws \in Nat /\ page.ws <= Len(channels) /\ Len(channels) \in Nat
    BY Elements DEF Sane, Kept, Pages
<1>2. /\ Same(channels, channels')
      /\ page' \in Pages /\ page'.shown = page.shown /\ page'.acked = page.acked
      /\ page'.at = page.at /\ page'.loaded = page.loaded /\ page'.ws \in {page.ws, 0}
      /\ messages' \in Seq([from : Sides, read : BOOLEAN]) /\ Len(messages') = Len(messages)
      /\ registered' \in 0..Len(channels) \cup {Far} /\ faults' \in 0..MaxFaults
      /\ UNCHANGED <<side, thread, closed, sends, loads, cached>>
    BY Sockets DEF Sane
<1>3. Kept'
    BY <1>1, <1>2 DEF Sane, Kept, Same
<1>4. \A g \in DOMAIN channels' : Exist(channels'[g].queue)
    BY <1>2 DEF Same, Exist, Sane, Real
<1>5. Real'
    BY <1>2, <1>4 DEF Sane, Real, Listed, Exist, Stored
<1> QED
    BY <1>3, <1>5 DEF Sane

\* A list that the server sent is one the page can show.
LEMMA Wider ==
  ASSUME NEW ids \in Seq(Nat), Listed(ids)
  PROVE  /\ ids \in Seq(Int) /\ IsInjective(ids)
         /\ \A k \in DOMAIN ids : ids[k] > 0 /\ ids[k] <= Len(messages)
         /\ Range(ids) \subseteq Stored
<1>1. ids \in Seq(Int)
    BY Elements
<1> QED
    BY <1>1, Elements DEF Listed, Exist, Stored, Range

\* What loading a conversation may do.
LEMMA Loads ==
  ASSUME Sane, NEW p \in Pages, NEW c \in Convs, NEW kept, Load(p, c, kept),
         DOMAIN kept \subseteq DOMAIN cached, \A d \in DOMAIN kept : kept[d] = cached[d],
         p.shown = page.shown, p.acked = page.acked
  PROVE  /\ cached' = kept /\ \A d \in DOMAIN cached' : d \in DOMAIN cached /\ cached'[d] = cached[d]
         /\ page' \in Pages /\ page'.at = p.at /\ page'.ws = p.ws
         /\ page'.acked \subseteq Stored
         /\ messages' \in Seq([from : Sides, read : BOOLEAN]) /\ Len(messages') = Len(messages)
         /\ \A i \in DOMAIN messages : messages'[i].from = messages[i].from
         /\ faults' \in 0..MaxFaults
         /\ \/ /\ c \in DOMAIN cached /\ page'.shown = cached[c].ids
               /\ \A i \in DOMAIN messages : messages'[i].read =>
                    messages[i].read \/ Agent \/ i \in Range(cached[c].ids)
               /\ UNCHANGED loads
            \/ /\ page'.shown = page.shown /\ page'.loaded = p.loaded
               /\ loads' = loads \cup {Get(c)} /\ Get(c) \in Gets
               /\ UNCHANGED messages
<1>1. /\ messages \in Seq([from : Sides, read : BOOLEAN]) /\ faults \in 0..MaxFaults
      /\ p.acked \subseteq Stored
    BY DEF Sane, Kept, Real
<1>2. /\ cached' = kept
      /\ \/ /\ c \in DOMAIN cached /\ cached[c] \in Bodies
            /\ Displays(p, cached[c].ids, cached[c].unread, {})
            /\ UNCHANGED loads
         \/ /\ loads' = loads \cup {Get(c)} /\ Get(c) \in Gets
            /\ page' = p
            /\ UNCHANGED <<messages, faults>>
    BY LoadKeeps DEF Sane
<1>3. CASE /\ c \in DOMAIN cached /\ cached[c] \in Bodies
           /\ Displays(p, cached[c].ids, cached[c].unread, {})
           /\ UNCHANGED loads
  <2> DEFINE q == cached[c].ids
             u == cached[c].unread
             none == {}
  <2>1. q \in Seq(Nat) /\ Listed(q)
      BY <1>3 DEF Bodies, Sane, Real
  <2>2. q \in Seq(Int) /\ Range(q) \subseteq Stored
      BY <2>1, Wider
  <2>3. Displays(p, q, u, none) /\ Kept
      BY <1>3 DEF Sane
  <2> HIDE DEF q, u, none
  <2>4. /\ page' \in Pages
        /\ page'.shown = q /\ page'.at = p.at /\ page'.ws = p.ws
        /\ page'.acked \subseteq p.acked \cup Range(q)
        /\ messages' \in Seq([from : Sides, read : BOOLEAN]) /\ Len(messages') = Len(messages)
        /\ \A i \in DOMAIN messages : messages'[i].from = messages[i].from
        /\ \A i \in DOMAIN messages : messages'[i].read =>
             messages[i].read \/ i \in none \/ Agent \/ (i \in Range(q) /\ i > 0)
        /\ faults' \in 0..MaxFaults
      BY <2>2, <2>3, DisplaysKeep
  <2> QED
      BY <1>1, <1>2, <1>3, <2>2, <2>4 DEF q, none
<1>4. CASE /\ loads' = loads \cup {Get(c)} /\ Get(c) \in Gets
           /\ page' = p
           /\ UNCHANGED <<messages, faults>>
    BY <1>1, <1>2, <1>4
<1> QED
    BY <1>2, <1>3, <1>4

\* The caches and GETs after a conversation is loaded.
LEMMA LoadSane ==
  ASSUME Sane, NEW p \in Pages, NEW c \in Convs, NEW kept, Load(p, c, kept),
         DOMAIN kept \subseteq DOMAIN cached, \A d \in DOMAIN kept : kept[d] = cached[d],
         p.shown = page.shown, p.acked = page.acked, p.at # NoConv,
         channels' \in Seq(Channels), Len(channels') <= MaxChannels, p.ws <= Len(channels'),
         \A h \in DOMAIN channels' : Exist(channels'[h].queue),
         registered \in 0..Len(channels') \cup {Far},
         sends' \subseteq sends, UNCHANGED <<side, thread, closed, registered>>
  PROVE  Sane'
<1>1. /\ cached' = kept /\ \A d \in DOMAIN cached' : d \in DOMAIN cached /\ cached'[d] = cached[d]
      /\ page' \in Pages /\ page'.at = p.at /\ page'.ws = p.ws
      /\ page'.acked \subseteq Stored
      /\ messages' \in Seq([from : Sides, read : BOOLEAN]) /\ Len(messages') = Len(messages)
      /\ faults' \in 0..MaxFaults
      /\ \/ /\ c \in DOMAIN cached /\ page'.shown = cached[c].ids
            /\ UNCHANGED loads
         \/ /\ page'.shown = page.shown
            /\ loads' = loads \cup {Get(c)} /\ Get(c) \in Gets
    BY ZenonT(40), Loads
<1>2. Kept'
    BY <1>1 DEF Sane, Kept
<1>3. \A k \in DOMAIN page'.shown : page'.shown[k] <= Len(messages) /\ page'.shown[k] # 0
  <2>1. CASE c \in DOMAIN cached /\ page'.shown = cached[c].ids
    <3>1. cached[c].ids \in Seq(Nat) /\ Listed(cached[c].ids)
        BY <2>1 DEF Sane, Kept, Real, Bodies
    <3> QED
        BY <2>1, <3>1, Wider
  <2>2. CASE page'.shown = page.shown
      BY <2>2 DEF Sane, Real
  <2> QED
      BY <1>1, <2>1, <2>2
<1>4. \A l \in loads' : Listed(l.body.ids) /\ l.body.unread \subseteq Stored
  <2>1. Listed(Get(c).body.ids) /\ Get(c).body.unread \subseteq Stored
      BY DEF Get, Body, Listed, Exist, IsInjective
  <2> QED
      BY <1>1, <2>1 DEF Sane, Real
<1>5. \A d \in DOMAIN cached' : Listed(cached'[d].ids) /\ cached'[d].unread \subseteq Stored
    BY <1>1 DEF Sane, Real
<1>6. Real'
    BY <1>1, <1>3, <1>4, <1>5 DEF Sane, Real, Listed, Exist, Stored
<1> QED
    BY <1>2, <1>6 DEF Sane

\* The sockets after the page has closed its own.
LEMMA HangsUp ==
  ASSUME channels \in Seq(Channels)
  PROVE  Same(channels, HangUp)
<1> DEFINE k == HangUp
<1>1. \A g \in DOMAIN channels :
        k[g] \in Channels /\ k[g].conv = channels[g].conv /\ k[g].queue = channels[g].queue
  <2> TAKE g \in DOMAIN channels
  <2>1. channels[g] \in Channels
      BY Elements
  <2> DEFINE e == IF channels[g].client = "closed" THEN channels[g].client ELSE "closing"
             r == [channels[g] EXCEPT !.ours = Agent, !.client = e]
  <2>2. e \in {"opening", "open", "closing", "closed"} /\ Agent \in BOOLEAN
      BY <2>1 DEF Channels, Agent
  <2>4. k[g] = r \/ k[g] = channels[g]
      BY DEF HangUp
  <2> HIDE DEF e
  <2>3. r \in Channels /\ r.conv = channels[g].conv /\ r.queue = channels[g].queue
      BY <2>1, <2>2 DEF Channels
  <2> HIDE DEF k, r
  <2> QED
      BY <2>1, <2>3, <2>4
<1>2. k = [g \in DOMAIN channels |-> k[g]]
    BY DEF HangUp
<1> HIDE DEF k
<1>3. k \in Seq(Channels) /\ Len(k) = Len(channels) /\ DOMAIN k = DOMAIN channels
    BY <1>1, <1>2, SameLength
<1> QED
    BY <1>1, <1>3 DEF Same, k

\* A WebSocket more.
LEMMA Dials ==
  ASSUME channels \in Seq(Channels), NEW k, Same(channels, k), NEW c \in Convs,
         \A h \in DOMAIN channels : Exist(channels[h].queue),
         channels' = Append(k, Channel(c))
  PROVE  /\ channels' \in Seq(Channels) /\ Len(channels') = Len(channels) + 1
         /\ DOMAIN channels' = DOMAIN channels \cup {Len(channels) + 1}
         /\ \A h \in DOMAIN channels :
              channels'[h].conv = channels[h].conv /\ channels'[h].queue \in {channels[h].queue, <<>>}
         /\ channels'[Len(channels) + 1] = Channel(c)
         /\ \A h \in DOMAIN channels' : Exist(channels'[h].queue)
<1>1. <<>> \in Seq(Nat) /\ Exist(<<>>)
    BY DEF Exist
<1>2. Channel(c) \in Channels /\ Channel(c).conv = c /\ Channel(c).queue = <<>>
    BY <1>1 DEF Channel, Channels
<1>3. k \in Seq(Channels) /\ Len(k) = Len(channels) /\ DOMAIN k = DOMAIN channels
    BY DEF Same
<1>4. /\ channels' \in Seq(Channels) /\ Len(channels') = Len(k) + 1
      /\ \A h \in 1..Len(k) : channels'[h] = k[h]
      /\ channels'[Len(k) + 1] = Channel(c)
    BY <1>2, <1>3, AppendProperties
<1>5. /\ DOMAIN channels = 1..Len(channels) /\ DOMAIN channels' = 1..Len(channels')
      /\ Len(channels) \in Nat
    BY <1>4, Elements
<1>6. \A h \in DOMAIN channels :
        channels'[h].conv = channels[h].conv /\ channels'[h].queue \in {channels[h].queue, <<>>}
    BY <1>3, <1>4, <1>5 DEF Same
<1>7. DOMAIN channels' = DOMAIN channels \cup {Len(channels) + 1}
    BY <1>3, <1>4, <1>5
<1>8. \A h \in DOMAIN channels' : Exist(channels'[h].queue)
    BY <1>1, <1>2, <1>3, <1>4, <1>6, <1>7 DEF Exist
<1> QED
    BY <1>3, <1>4, <1>6, <1>7, <1>8

\* What is left of the page when another conversation is entered.
LEMMA EntersPage ==
  ASSUME Sane, NEW c \in Convs
  PROVE  LET t == IF Agent THEN 0 ELSE MaxTries
             u == IF page.timers = <<>> THEN page.timers ELSE Front(page.timers)
             w == Len(channels) + 1
             p == [page EXCEPT !.at = c, !.ws = w, !.tries = t, !.timers = u]
         IN  /\ p \in Pages /\ p.shown = page.shown /\ p.acked = page.acked
             /\ p.at = c /\ p.ws = w
<1> USE Limits
<1> DEFINE t == IF Agent THEN 0 ELSE MaxTries
           u == IF page.timers = <<>> THEN page.timers ELSE Front(page.timers)
           w == Len(channels) + 1
           p == [page EXCEPT !.at = c, !.ws = w, !.tries = t, !.timers = u]
<1>1. page \in Pages /\ Len(channels) \in Nat
    BY Elements DEF Sane, Kept
<1>2. t \in 0..MaxTries /\ w \in Nat
    BY <1>1
<1>3. u \in Seq(Convs)
  <2>1. page.timers \in Seq(Convs)
      BY <1>1 DEF Pages
  <2>2. CASE page.timers # <<>>
    <3>1. Len(page.timers) \in Nat \ {0}
        BY <2>1, <2>2, EmptySeq
    <3>2. SubSeq(page.timers, 1, Len(page.timers) - 1) \in Seq(Convs)
        BY <2>1, <3>1
    <3> QED
        BY <2>2, <3>2 DEF Front
  <2> QED
      BY <2>1, <2>2
<1> HIDE DEF t, u, w
<1>4. /\ p \in Pages /\ p.shown = page.shown /\ p.acked = page.acked
      /\ p.at = c /\ p.ws = w
    BY <1>1, <1>2, <1>3 DEF Pages
<1> HIDE DEF p
<1> QED
    BY <1>4 DEF p, t, u, w

LEMMA SaneVisits ==
  ASSUME Sane,
         \/ \E c \in Convs : Enter(c) \/ Expire(c)
         \/ \E k \in DOMAIN page.timers : Redial(k)
         \/ Poll \/ Usurp
  PROVE  Sane'
<1> USE Limits
<1>1. /\ channels \in Seq(Channels) /\ Len(channels) \in Nat /\ Len(channels) <= MaxChannels
      /\ page \in Pages /\ page.ws \in Nat /\ page.ws <= Len(channels)
      /\ registered \in 0..Len(channels) \cup {Far}
      /\ \A h \in DOMAIN channels : Exist(channels[h].queue)
    BY Elements DEF Sane, Kept, Real, Pages
<1>2. ASSUME NEW c \in Convs, Enter(c) PROVE Sane'
  <2> DEFINE t == IF Agent THEN 0 ELSE MaxTries
             u == IF page.timers = <<>> THEN page.timers ELSE Front(page.timers)
             w == Len(channels) + 1
             p == [page EXCEPT !.at = c, !.ws = w, !.tries = t, !.timers = u]
  <2>3. Load(p, c, cached)
      BY <1>2 DEF Enter
  <2>4. /\ p \in Pages /\ p.shown = page.shown /\ p.acked = page.acked /\ p.at = c
        /\ p.ws = w
      BY EntersPage
  <2> HIDE DEF t, u, w
  <2> HIDE DEF p
  <2>5. channels' = Append(HangUp, Channel(c)) /\ Len(channels) < MaxChannels
      BY <1>2 DEF Enter
  <2>6. /\ channels' \in Seq(Channels) /\ Len(channels') = Len(channels) + 1
        /\ \A h \in DOMAIN channels' : Exist(channels'[h].queue)
      BY <1>1, <2>5, HangsUp, Dials
  <2>9. p.ws <= Len(channels') /\ p.at # NoConv
      BY <2>4, <2>6 DEF w
  <2>7. UNCHANGED <<side, thread, closed, registered, sends>>
      BY <1>2 DEF Enter
  <2>8. registered \in 0..Len(channels') \cup {Far} /\ Len(channels') <= MaxChannels
      BY <1>1, <2>5, <2>6
  <2> QED
      BY <2>3, <2>4, <2>6, <2>7, <2>8, <2>9, LoadSane
<1>3. ASSUME NEW c \in Convs, Expire(c) PROVE Sane'
    BY <1>3 DEF Expire, Without, Sane, Kept, Real, Listed, Exist, Stored
<1>4. ASSUME NEW k \in DOMAIN page.timers, Redial(k) PROVE Sane'
  <2>1. /\ page.timers[k] \in Convs /\ RemoveAt(page.timers, k) \in Seq(Convs)
      BY <1>1, Elements, Removes DEF Pages
  <2>2. channels' = Append(channels, Channel(page.timers[k])) /\ Len(channels) < MaxChannels
      BY <1>4 DEF Redial
  <2>3. Same(channels, channels)
      BY <1>1 DEF Same
  <2>4. /\ channels' \in Seq(Channels) /\ Len(channels') = Len(channels) + 1
        /\ \A h \in DOMAIN channels' : Exist(channels'[h].queue)
      BY <1>1, <2>1, <2>2, <2>3, Dials
  <2> DEFINE u == RemoveAt(page.timers, k)
             w == Len(channels) + 1
  <2>b. w \in Nat
      BY <1>1
  <2>5. page' = [page EXCEPT !.timers = u, !.ws = w]
      BY <1>4 DEF Redial
  <2>a. u \in Seq(Convs)
      BY <2>1
  <2> HIDE DEF u, w
  <2>6. /\ page' \in Pages /\ page'.shown = page.shown /\ page'.acked = page.acked
        /\ page'.at = page.at /\ page'.loaded = page.loaded /\ page'.ws = w
      BY <1>1, <2>5, <2>a, <2>b DEF Pages
  <2>7. UNCHANGED <<side, messages, thread, closed, registered, sends, loads, cached, faults>>
      BY <1>4 DEF Redial
  <2>8. Kept'
      BY <1>1, <2>2, <2>4, <2>6, <2>7 DEF Sane, Kept, w
  <2>9. Real'
      BY <2>4, <2>6, <2>7 DEF Sane, Real, Listed, Exist, Stored
  <2> QED
      BY <2>8, <2>9 DEF Sane
<1>5. CASE Poll
  <2>1. page.at \in Convs /\ page.at # NoConv
      BY <1>1, <1>5 DEF Poll, Pages
  <2>2. Load(page, page.at, cached) /\ UNCHANGED <<side, thread, closed, registered, channels, sends>>
      BY <1>5 DEF Poll
  <2> QED
      BY <1>1, <2>1, <2>2, LoadSane
<1>6. CASE Usurp
  <2>1. Same(channels, channels')
      BY <1>1, <1>6, KickSame DEF Usurp
  <2>2. /\ faults' \in 0..MaxFaults /\ registered' = Far
        /\ UNCHANGED <<side, messages, thread, closed, page, sends, loads, cached>>
      BY <1>6 DEF Usurp, Fault, Sane, Kept
  <2>3. Kept'
      BY <1>1, <2>1, <2>2 DEF Sane, Kept, Same
  <2>4. \A g \in DOMAIN channels' : Exist(channels'[g].queue)
      BY <2>1 DEF Same, Exist, Sane, Real
  <2>5. Real'
      BY <2>2, <2>4 DEF Sane, Real, Listed, Exist, Stored
  <2> QED
      BY <2>3, <2>5 DEF Sane
<1> QED
    BY <1>2, <1>3, <1>4, <1>5, <1>6

\* A list that arrives.
LEMMA SaneGets ==
  ASSUME Sane, NEW l \in loads, Serve(l) \/ Arrive(l) \/ LoadFails(l)
  PROVE  Sane'
<1> USE Limits
<1>1. /\ l \in Gets /\ l.conv \in Convs /\ l.body.ids \in Seq(Nat) /\ Listed(l.body.ids)
      /\ l.body.unread \subseteq Stored
      /\ page \in Pages /\ page.at # NoConv
    BY DEF Sane, Kept, Real, Gets, Bodies
<1>2. CASE Serve(l)
  <2> DEFINE d == Detail(l.conv)
             r == [l EXCEPT !.served = TRUE, !.body = d]
  <2>1. thread[l.conv] \in Seq(Nat) /\ Listed(thread[l.conv])
      BY <1>1 DEF Sane, Kept, Real
  <2>2. d.ids = thread[l.conv] /\ d.unread \subseteq Range(thread[l.conv])
      BY DEF Detail, Body
  <2>3. d.unread \subseteq Stored /\ Stored \subseteq Nat
      BY <2>1, <2>2, Wider DEF Stored
  <2>4. d \in Bodies
      BY <2>1, <2>2, <2>3 DEF Detail, Body, Bodies
  <2> HIDE DEF d
  <2>5. r \in Gets /\ r.body = d
      BY <1>1, <2>4 DEF Gets
  <2> HIDE DEF r
  <2>6. /\ loads' = (loads \ {l}) \cup {r}
        /\ UNCHANGED <<side, messages, thread, closed, registered, channels, page, sends, cached, faults>>
      BY <1>2 DEF Serve, d, r
  <2>7. Kept'
      BY <1>1, <2>5, <2>6 DEF Sane, Kept
  <2>8. \A x \in loads' : Listed(x.body.ids) /\ x.body.unread \subseteq Stored
      BY <2>1, <2>2, <2>3, <2>5, <2>6 DEF Sane, Real
  <2>9. Real'
      BY <2>6, <2>8 DEF Sane, Real, Listed, Exist, Stored
  <2> QED
      BY <2>7, <2>9 DEF Sane
<1>3. CASE Arrive(l)
  <2> DEFINE q == l.body.ids
             u == l.body.unread
             none == {}
  <2>1. /\ q \in Seq(Int) /\ Range(q) \subseteq Stored
        /\ \A k \in DOMAIN q : q[k] > 0 /\ q[k] <= Len(messages)
      BY <1>1, Wider
  <2>2. Displays(page, q, u, none) /\ Kept
      BY <1>3 DEF Arrive, Sane
  <2> HIDE DEF q, u, none
  <2>3. /\ page' \in Pages
        /\ page'.shown = q /\ page'.at = page.at /\ page'.ws = page.ws
        /\ page'.acked \subseteq page.acked \cup Range(q)
        /\ messages' \in Seq([from : Sides, read : BOOLEAN]) /\ Len(messages') = Len(messages)
        /\ faults' \in 0..MaxFaults
      BY <1>1, <2>1, <2>2, DisplaysKeep
  <2>4. /\ loads' = loads \ {l}
        /\ \A d \in DOMAIN cached' :
             (d = l.conv /\ cached'[d] = l.body) \/ (d \in DOMAIN cached /\ cached'[d] = cached[d])
        /\ UNCHANGED <<side, thread, closed, registered, channels, sends>>
    <3>1. cached' = [d \in DOMAIN cached \cup {l.conv} |-> IF d = l.conv THEN l.body ELSE cached[d]]
        BY <1>3 DEF Arrive
    <3>2. \A d \in DOMAIN cached' :
            (d = l.conv /\ cached'[d] = l.body) \/ (d \in DOMAIN cached /\ cached'[d] = cached[d])
        BY <3>1
    <3> QED
        BY <1>3, <3>2 DEF Arrive
  <2>5. l.body \in Bodies
      BY <1>1 DEF Gets
  <2>6. Kept'
      BY <1>1, <2>3, <2>4, <2>5 DEF Sane, Kept
  <2>7. /\ \A k \in DOMAIN page'.shown : page'.shown[k] <= Len(messages) /\ page'.shown[k] # 0
        /\ page'.acked \subseteq Stored
      BY <2>1, <2>3 DEF Sane, Real
  <2>8. \A d \in DOMAIN cached' : Listed(cached'[d].ids) /\ cached'[d].unread \subseteq Stored
      BY <1>1, <2>4 DEF Sane, Real
  <2>9. Real'
      BY <2>3, <2>4, <2>7, <2>8 DEF Sane, Real, Listed, Exist, Stored
  <2> QED
      BY <2>6, <2>9 DEF Sane
<1>4. CASE LoadFails(l)
  <2>1. faults' \in 0..MaxFaults
      BY <1>4 DEF LoadFails, Fault, Sane, Kept
  <2>2. /\ loads' \subseteq loads
        /\ \A d \in DOMAIN cached' : d \in DOMAIN cached /\ cached'[d] = cached[d]
        /\ UNCHANGED <<side, messages, thread, closed, registered, channels, page, sends>>
      BY <1>4 DEF LoadFails, Without
  <2>3. Kept'
      BY <1>1, <2>1, <2>2 DEF Sane, Kept
  <2>4. Real'
      BY <2>2 DEF Sane, Real, Listed, Exist, Stored
  <2> QED
      BY <2>3, <2>4 DEF Sane
<1> QED
    BY <1>2, <1>3, <1>4

\* What the delivery of a pushed message may do.
LEMMA Delivers ==
  ASSUME Sane, NEW h \in DOMAIN channels, Deliver(h), NEW i, i = Head(channels[h].queue)
  PROVE  /\ i \in Stored /\ i \in Range(channels[h].queue)
         /\ channels' \in Seq(Channels) /\ Len(channels') = Len(channels)
         /\ DOMAIN channels' = DOMAIN channels
         /\ \A g \in DOMAIN channels :
              /\ channels'[g].conv = channels[g].conv
              /\ \A k \in DOMAIN channels'[g].queue :
                   \E j \in DOMAIN channels[g].queue : channels'[g].queue[k] = channels[g].queue[j]
         /\ page' \in Pages /\ page'.at = page.at /\ page'.ws = page.ws
         /\ page'.loaded = page.loaded /\ page'.acked \subseteq Stored
         /\ page'.shown \in {page.shown, Merge(page.shown, i)}
         /\ messages' \in Seq([from : Sides, read : BOOLEAN]) /\ Len(messages') = Len(messages)
         /\ \A j \in DOMAIN messages : messages'[j].from = messages[j].from
         /\ \A j \in DOMAIN messages : messages'[j].read =>
              messages[j].read \/ Agent \/ j = i \/ (j \in Range(page.shown) /\ j > 0)
         /\ faults' \in 0..MaxFaults
         /\ UNCHANGED <<side, thread, closed, registered, sends, loads, cached>>
<1>1. /\ channels \in Seq(Channels) /\ channels[h] \in Channels /\ page \in Pages
      /\ page.shown \in Seq(Int) /\ page.acked \subseteq Stored /\ Kept
    BY Elements DEF Sane, Kept, Real, Pages
<1> DEFINE q == channels[h].queue
<1>2. q \in Seq(Nat) /\ q # <<>> /\ Exist(q)
    BY <1>1 DEF Deliver, Channels, Sane, Real
<1>3. channels' = [channels EXCEPT ![h].queue = Tail(q)]
    BY DEF Deliver
<1> HIDE DEF q
<1>4. /\ Len(q) \in Nat \ {0} /\ DOMAIN q = 1..Len(q) /\ q[1] = Head(q) /\ 1 \in DOMAIN q
      /\ Tail(q) \in Seq(Nat) /\ DOMAIN Tail(q) = 1..Len(q) - 1
      /\ \A k \in 1..Len(q) - 1 : Tail(q)[k] = q[k + 1]
    BY <1>2, HeadTailProperties, EmptySeq
<1>5. i = q[1] /\ i \in Stored /\ i \in Range(q)
    BY <1>2, <1>4 DEF q, Exist, Range
<1> DEFINE r == [channels[h] EXCEPT !.queue = Tail(q)]
<1>6. r \in Channels /\ r.conv = channels[h].conv /\ r.queue = Tail(q)
    BY <1>1, <1>4 DEF Channels
<1>7. channels' = [channels EXCEPT ![h] = r]
    BY <1>3
<1> HIDE DEF r
<1>8. /\ channels' \in Seq(Channels) /\ Len(channels') = Len(channels)
      /\ DOMAIN channels' = DOMAIN channels
      /\ \A g \in DOMAIN channels : channels'[g] = IF g = h THEN r ELSE channels[g]
    BY <1>1, <1>6, <1>7, OneChanges
<1>9. ASSUME NEW g \in DOMAIN channels
      PROVE  /\ channels'[g].conv = channels[g].conv
             /\ \A k \in DOMAIN channels'[g].queue :
                  \E j \in DOMAIN channels[g].queue : channels'[g].queue[k] = channels[g].queue[j]
  <2>1. CASE g = h
    <3>1. channels'[g].queue = Tail(q) /\ channels[g].queue = q /\ channels'[g].conv = channels[g].conv
        BY <1>6, <1>8, <2>1 DEF q
    <3>2. \A k \in 1..Len(q) - 1 : k + 1 \in 1..Len(q)
        BY <1>4
    <3> QED
        BY <1>4, <3>1, <3>2
  <2>2. CASE g # h
      BY <1>8, <2>2
  <2> QED
      BY <2>1, <2>2
<1> DEFINE handled == IF Foreign(i) /\ (Agent \/ Connected) THEN {i} ELSE {}
           unread == {i}
           none == {}
           m == Merge(page.shown, i)
<1>10. /\ IF page.loaded THEN Displays(page, m, unread, handled) ELSE Marks(handled, none) /\ UNCHANGED page
       /\ UNCHANGED <<side, thread, closed, registered, sends, loads, cached>>
    BY DEF Deliver
<1>11. i \in Nat /\ i # 0 /\ (\A x \in handled : x = i) /\ none = {}
    BY <1>5 DEF Stored
<1>12. m \in Seq(Int) /\ Range(m) \subseteq Range(page.shown) \cup {i}
    BY <1>1, <1>11, Merges
<1> HIDE DEF handled, unread, none, m
<1>13. CASE page.loaded
  <2>1. Displays(page, m, unread, handled)
      BY <1>10, <1>13
  <2>2. /\ page' \in Pages
        /\ page'.shown = m /\ page'.loaded
        /\ page'.at = page.at /\ page'.ws = page.ws
        /\ page'.acked \subseteq page.acked \cup Range(m)
        /\ messages' \in Seq([from : Sides, read : BOOLEAN]) /\ Len(messages') = Len(messages)
        /\ \A j \in DOMAIN messages : messages'[j].from = messages[j].from
        /\ \A j \in DOMAIN messages : messages'[j].read =>
             messages[j].read \/ j \in handled \/ Agent \/ (j \in Range(m) /\ j > 0)
        /\ faults' \in 0..MaxFaults
      BY <1>1, <1>12, <2>1, DisplaysKeep
  <2>3. page'.acked \subseteq Stored
    <3>1. page'.acked = page.acked \cup Fresh(m, unread)
        BY <1>1, <2>1 DEF Displays, Pages
    <3>2. Fresh(m, unread) \subseteq unread
        BY DEF Fresh
    <3> QED
        BY <1>1, <1>5, <3>1, <3>2 DEF unread
  <2> QED
      BY <1>5, <1>8, <1>9, <1>10, <1>11, <1>12, <1>13, <2>2, <2>3 DEF q, m
<1>14. CASE ~page.loaded
  <2>1. Marks(handled, none) /\ UNCHANGED page
      BY <1>10, <1>14
  <2>2. /\ messages' \in Seq([from : Sides, read : BOOLEAN]) /\ Len(messages') = Len(messages)
        /\ \A j \in DOMAIN messages : messages'[j].from = messages[j].from
        /\ \A j \in DOMAIN messages : messages'[j].read =>
             messages[j].read \/ j \in handled \/ none # {}
        /\ faults' \in 0..MaxFaults
      BY <1>1, <2>1, MarksKeep
  <2> QED
      BY <1>1, <1>5, <1>8, <1>9, <1>10, <1>11, <2>1, <2>2 DEF q
<1> QED
    BY <1>13, <1>14

LEMMA SaneDeliver ==
  ASSUME Sane, NEW h \in DOMAIN channels, Deliver(h)
  PROVE  Sane'
<1> DEFINE i == Head(channels[h].queue)
<1>0. i = Head(channels[h].queue)
    OBVIOUS
<1> HIDE DEF i
<1>1. /\ i \in Stored
      /\ channels' \in Seq(Channels) /\ Len(channels') = Len(channels)
      /\ DOMAIN channels' = DOMAIN channels
      /\ \A g \in DOMAIN channels : \A k \in DOMAIN channels'[g].queue :
           \E j \in DOMAIN channels[g].queue : channels'[g].queue[k] = channels[g].queue[j]
      /\ page' \in Pages /\ page'.at = page.at /\ page'.ws = page.ws
      /\ page'.loaded = page.loaded /\ page'.acked \subseteq Stored
      /\ page'.shown \in {page.shown, Merge(page.shown, i)}
      /\ messages' \in Seq([from : Sides, read : BOOLEAN]) /\ Len(messages') = Len(messages)
      /\ faults' \in 0..MaxFaults
      /\ UNCHANGED <<side, thread, closed, registered, sends, loads, cached>>
    BY <1>0, Delivers
<1>2. Kept'
    BY <1>1 DEF Sane, Kept
<1>3. \A k \in DOMAIN page'.shown : page'.shown[k] <= Len(messages) /\ page'.shown[k] # 0
  <2>1. page.shown \in Seq(Int) /\ i \in Nat /\ i # 0 /\ i <= Len(messages)
      BY <1>1 DEF Sane, Kept, Pages, Stored
  <2>2. Range(Merge(page.shown, i)) \subseteq Range(page.shown) \cup {i}
      BY <2>1, Merges
  <2>3. \A x \in Range(page.shown) : x <= Len(messages) /\ x # 0
      BY DEF Range, Sane, Real
  <2>4. Range(page'.shown) \subseteq Range(page.shown) \cup {i}
      BY <1>1, <2>2
  <2>5. \A k \in DOMAIN page'.shown : page'.shown[k] \in Range(page'.shown)
      BY DEF Range
  <2> QED
      BY <2>1, <2>3, <2>4, <2>5
<1>4. \A g \in DOMAIN channels' : Exist(channels'[g].queue)
    BY <1>1 DEF Exist, Sane, Real
<1>5. Real'
    BY <1>1, <1>3, <1>4 DEF Sane, Real, Listed, Exist, Stored
<1> QED
    BY <1>2, <1>5 DEF Sane

\* What a message more changes in the tables, and in the lists that were made from them.
LEMMA SaneAppends ==
  ASSUME Sane, NEW c \in Convs, NEW from \in Sides, Len(messages) < MaxMessages, Appends(c, from),
         channels' \in Seq(Channels), Len(channels') = Len(channels),
         \A h \in DOMAIN channels' : \A k \in DOMAIN channels'[h].queue :
           channels'[h].queue[k] \in Stored \cup {Len(messages) + 1},
         sends' \subseteq Sendings, \A s \in sends' : s.id <= Len(messages) + 1,
         sends = {} => sends' = {},
         closed' \subseteq Convs, faults' \in 0..MaxFaults,
         UNCHANGED <<side, registered, page, loads, cached>>
  PROVE  Sane'
<1>1. /\ Kept
      /\ messages' \in Seq([from : Sides, read : BOOLEAN])
      /\ Len(messages') = Len(messages) + 1 /\ Len(messages') <= MaxMessages
      /\ Len(messages) \in Nat
      /\ thread' \in [Convs -> Seq(Nat)]
      /\ \A d \in Convs : d # c => thread'[d] = thread[d]
      /\ thread'[c] = Append(thread[c], Len(messages) + 1)
    BY AppendsKeep DEF Sane
<1>2. Stored' = Stored \cup {Len(messages) + 1}
    BY <1>1 DEF Stored
<1>3. Kept'
    BY <1>1 DEF Sane, Kept
<1>4. \A d \in Convs : Listed(thread[d])'
  <2> TAKE d \in Convs
  <2>1. thread[d] \in Seq(Nat) /\ Listed(thread[d])
      BY DEF Sane, Kept, Real
  <2>2. CASE d # c
      BY <1>1, <1>2, <2>1, <2>2 DEF Listed, Exist
  <2>3. CASE d = c
    <3> DEFINE q == thread[d]
               n == Len(messages) + 1
    <3>1. q \in Seq(Int) /\ n \in Nat /\ \A k \in DOMAIN q : q[k] # n
        BY <1>1, <2>1, Wider
    <3>2. IsInjective(q) => IsInjective(Append(q, n))
        BY <3>1, Appends1
    <3>3. Range(Append(q, n)) \subseteq Range(q) \cup {n}
        BY <3>1, Appends1
    <3>4. Range(q) \subseteq Stored
        BY <2>1, Wider
    <3>5. \A k \in DOMAIN Append(q, n) : Append(q, n)[k] \in Stored'
      <4>1. \A k \in DOMAIN Append(q, n) : Append(q, n)[k] \in Range(Append(q, n))
          BY DEF Range
      <4> QED
          BY <1>2, <3>3, <3>4, <4>1
    <3>6. thread'[d] = Append(q, n)
        BY <1>1, <2>3
    <3> QED
        BY <2>1, <3>2, <3>5, <3>6 DEF Listed, Exist
  <2> QED
      BY <2>2, <2>3
<1>5. \A h \in DOMAIN channels' : Exist(channels[h].queue)'
    BY <1>2 DEF Exist
<1>6. /\ \A l \in loads' : (Listed(l.body.ids) /\ l.body.unread \subseteq Stored)'
      /\ \A d \in DOMAIN cached' : (Listed(cached[d].ids) /\ cached[d].unread \subseteq Stored)'
    BY <1>2 DEF Sane, Real, Listed, Exist
<1>7. /\ \A k \in DOMAIN page'.shown : page'.shown[k] <= Len(messages') /\ page'.shown[k] # 0
      /\ page'.acked \subseteq Stored'
  <2>1. page.shown \in Seq(Int)
      BY DEF Sane, Kept, Pages
  <2> QED
      BY <1>1, <1>2, <2>1, Elements DEF Sane, Real
<1>8. Real'
    BY <1>1, <1>4, <1>5, <1>6, <1>7 DEF Real
<1> QED
    BY <1>3, <1>8 DEF Sane

LEMMA SanePosts ==
  ASSUME Sane,
         \/ \E c \in Convs, from \in Sides : Elsewhere(c, from)
         \/ \E s \in sends : Post(s) \/ CloseConversation(s)
  PROVE  Sane'
<1> USE Limits
<1>1. /\ Kept /\ channels \in Seq(Channels) /\ faults \in 0..MaxFaults
      /\ Len(messages) \in Nat /\ Len(messages) + 1 \in Nat
      /\ \A s \in sends : s \in Sendings /\ s.conv \in Convs /\ s.id <= Len(messages)
      /\ Role \in Sides /\ "admin" \in Sides /\ closed \subseteq Convs
      /\ \A h \in DOMAIN channels : Exist(channels[h].queue)
    BY DEF Sane, Kept, Real, Sendings, Sides, Role
<1>2. ASSUME NEW c \in Convs, NEW from \in Sides, Stores(c, from)
      PROVE  /\ channels' \in Seq(Channels) /\ Len(channels') = Len(channels)
             /\ \A h \in DOMAIN channels' : \A k \in DOMAIN channels'[h].queue :
                  channels'[h].queue[k] \in Stored \cup {Len(messages) + 1}
             /\ faults' \in 0..MaxFaults
             /\ Len(messages) < MaxMessages /\ Appends(c, from)
  <2> DEFINE n == Len(messages) + 1
  <2>1. Publish(n, c, from) /\ n \in Nat /\ Len(messages) < MaxMessages /\ Appends(c, from)
      BY <1>1, <1>2 DEF Stores
  <2> HIDE DEF n
  <2>2. /\ channels' \in Seq(Channels) /\ Len(channels') = Len(channels)
        /\ DOMAIN channels' = DOMAIN channels
        /\ faults' \in 0..MaxFaults
        /\ \A h \in DOMAIN channels :
             \A k \in DOMAIN channels'[h].queue :
               \/ \E j \in DOMAIN channels[h].queue : channels'[h].queue[k] = channels[h].queue[j]
               \/ channels'[h].queue[k] = n
      BY <1>1, <2>1, PublishKeeps
  <2>3. \A h \in DOMAIN channels' : \A k \in DOMAIN channels'[h].queue :
          channels'[h].queue[k] \in Stored \cup {n}
      BY <1>1, <2>2 DEF Exist
  <2> QED
      BY <2>1, <2>2, <2>3 DEF n
<1>3. ASSUME NEW c \in Convs, NEW from \in Sides, Elsewhere(c, from) PROVE Sane'
  <2>1. Stores(c, from) /\ UNCHANGED <<side, closed, registered, page, sends, loads, cached>>
      BY <1>3 DEF Elsewhere
  <2>2. sends' \subseteq Sendings /\ closed' \subseteq Convs /\ \A s \in sends' : s.id <= Len(messages) + 1
    <3>1. \A s \in sends : s.id \in Nat
        BY <1>1 DEF Sendings
    <3> QED
        BY <1>1, <2>1, <3>1
  <2> QED
      BY <1>2, <2>1, <2>2, SaneAppends
<1>4. ASSUME NEW s \in sends, Post(s) PROVE Sane'
  <2> DEFINE n == Len(messages) + 1
             r == [s EXCEPT !.ran = "yes", !.id = n]
  <2>1. Stores(s.conv, Role) /\ UNCHANGED <<side, closed, registered, page, loads, cached>>
      BY <1>4 DEF Post
  <2>2. sends' = (sends \ {s}) \cup {r}
      BY <1>4 DEF Post, Becomes
  <2>3. n \in Nat
      BY <1>1
  <2> HIDE DEF n
  <2>4. r \in Sendings /\ r.id = n
      BY <1>1, <2>3 DEF Sendings
  <2> HIDE DEF r
  <2>5. sends' \subseteq Sendings /\ closed' \subseteq Convs /\ \A x \in sends' : x.id <= Len(messages) + 1
    <3>1. \A x \in sends : x.id \in Nat /\ x \in Sendings /\ x.id <= Len(messages)
        BY <1>1 DEF Sendings
    <3>2. \A x \in sends' : x \in sends \/ x = r
        BY <2>2
    <3> QED
        BY <1>1, <2>1, <2>4, <3>1, <3>2 DEF n
  <2> QED
      BY <1>1, <1>2, <2>1, <2>5, SaneAppends
<1>5. ASSUME NEW s \in sends, CloseConversation(s) PROVE Sane'
  <2> DEFINE r == [s EXCEPT !.ran = "yes"]
  <2>1. /\ Len(messages) < MaxMessages /\ Appends(s.conv, "admin") /\ closed' = closed \cup {s.conv}
        /\ UNCHANGED <<side, registered, channels, page, loads, cached, faults>>
      BY <1>5 DEF CloseConversation
  <2>2. sends' = (sends \ {s}) \cup {r}
      BY <1>5 DEF CloseConversation, Becomes
  <2>4. r \in Sendings /\ r.id = s.id
      BY <1>1 DEF Sendings
  <2> HIDE DEF r
  <2>5. sends' \subseteq Sendings /\ closed' \subseteq Convs /\ \A x \in sends' : x.id <= Len(messages) + 1
    <3>1. \A x \in sends : x.id \in Nat /\ x \in Sendings /\ x.id <= Len(messages)
        BY <1>1 DEF Sendings
    <3>2. \A x \in sends' : x \in sends \/ x = r
        BY <2>2
    <3> QED
        BY <1>1, <2>1, <2>4, <3>1, <3>2
  <2>6. \A h \in DOMAIN channels' : \A k \in DOMAIN channels'[h].queue :
          channels'[h].queue[k] \in Stored \cup {Len(messages) + 1}
      BY <1>1, <2>1 DEF Exist
  <2>7. channels' \in Seq(Channels) /\ Len(channels') = Len(channels) /\ faults' \in 0..MaxFaults
      BY <1>1, <2>1
  <2> QED
      BY <1>1, <2>1, <2>5, <2>6, <2>7, SaneAppends
<1> QED
    BY <1>3, <1>4, <1>5

----------------------------------------------------------------------------
(* Temporary messages, with any number of mutations under way. *)

\* A mutation in progress: the temporary ids it still owns, and the message of the user's role
\* that it has stored.
Owned(s) ==
  /\ \A k \in DOMAIN s.temps : s.temps[k] < 0
  /\ s.kind # "text" => s.temps = <<>>
  /\ s.ran = "yes" /\ s.kind \in {"text", "card"} => s.id \in Mine

Temporary ==
  /\ \E b \in Nat : \A s \in sends : \A k \in DOMAIN s.temps : s.temps[k] >= -b
  /\ \A s \in sends : Owned(s)
  /\ Once(page.shown, Mine) /\ TempIsSending

\* The temporary ids of a new send are below all that are shown.
LEMMA FreshTemps ==
  ASSUME Sane, Temporary, NEW n \in Nat
  PROVE  /\ Temps(n) \in Seq(Int) /\ Len(Temps(n)) = n
         /\ \E last \in Nat : /\ \A k \in 1..n : Temps(n)[k] = -(last + k)
                              /\ \A x \in Range(page.shown) : x >= -last
<1> DEFINE used == (UNION {Range(s.temps) : s \in sends}) \cup Range(page.shown)
           T == {-k : k \in used} \cup {0}
<1>1. PICK b \in Nat : \A s \in sends : \A k \in DOMAIN s.temps : s.temps[k] >= -b
    BY DEF Temporary
<1>2. \A k \in used : k \in Int /\ k >= -b
  <2> SUFFICES ASSUME NEW k \in used PROVE k \in Int /\ k >= -b
      OBVIOUS
  <2>1. ASSUME NEW s \in sends, k \in Range(s.temps) PROVE k \in Int /\ k >= -b
    <3>1. s.temps \in Seq(Int)
        BY DEF Sane, Kept, Sendings
    <3>2. PICK j \in DOMAIN s.temps : k = s.temps[j]
        BY <2>1 DEF Range
    <3> QED
        BY <1>1, <3>1, <3>2, Elements
  <2>2. ASSUME k \in Range(page.shown) PROVE k \in Int /\ k >= -b
    <3>1. page.shown \in Seq(Int)
        BY DEF Sane, Kept, Pages
    <3>2. k \in Int
        BY <2>2, <3>1, Elements DEF Range
    <3>3. k < 0 => \E s \in sends : k \in Range(s.temps)
        BY <2>2 DEF Temporary, TempIsSending
    <3> QED
        BY <2>1, <3>2, <3>3
  <2>3. (\E s \in sends : k \in Range(s.temps)) \/ k \in Range(page.shown)
      OBVIOUS
  <2> QED
      BY <2>1, <2>2, <2>3
<1>3. Range(page.shown) \subseteq used
    OBVIOUS
<1> HIDE DEF used
<1>4. T \subseteq Int /\ 0 \in T /\ \A x \in T : x <= b
  <2>1. \A k \in used : -k \in Int /\ -k <= b
      BY <1>2
  <2> QED
      BY <2>1
<1>5. \A k \in used : -k \in T
    OBVIOUS
<1>6. Temps(n) = [k \in 1..n |-> -(Max(T) + k)]
    BY DEF Temps, used
<1> HIDE DEF T
<1>7. Max(T) \in T /\ \A y \in T : y <= Max(T)
  <2>1. T \in SUBSET Int /\ b \in Int /\ 0 \in T
      BY <1>1, <1>4
  <2>2. \A x \in T : x <= b
      BY <1>4
  <2> QED
      BY <2>1, <2>2, HasMax, Zenon
<1>8. Max(T) \in Nat
  <2>1. Max(T) \in Int /\ 0 <= Max(T)
      BY <1>4, <1>7
  <2> HIDE DEF T
  <2> QED
      BY <2>1
<1>9. \A x \in Range(page.shown) : x >= -Max(T)
    BY <1>2, <1>3, <1>5, <1>7, <1>8
<1> QED
    BY <1>6, <1>8, <1>9

\* A step that starts no mutation, ends none that owns temporary ids, and shows no temporary
\* id that was not shown.
LEMMA TempLists ==
  ASSUME Sane, Temporary, sends' = sends \/ (\E s \in sends : s.temps = <<>> /\ sends' = sends \ {s}),
         Once(page'.shown, Mine), \A k \in Range(page'.shown) : k < 0 => k \in Range(page.shown),
         Mine \subseteq Mine'
  PROVE  Temporary'
<1>1. Once(page.shown, Mine)'
    BY DEF Once
<1>4. \A s \in sends' : Owned(s)'
    BY DEF Temporary, Owned
<1>5. TempIsSending'
  <2> SUFFICES ASSUME NEW k \in Range(page'.shown), k < 0
               PROVE  \E s \in sends' : k \in Range(s.temps)
      BY DEF TempIsSending
  <2>1. PICK s \in sends : k \in Range(s.temps)
      BY DEF Temporary, TempIsSending
  <2>2. s.temps # <<>>
      BY <2>1 DEF Range
  <2> QED
      BY <2>1, <2>2
<1>6. \A s \in sends' : s \in sends
    OBVIOUS
<1> QED
    BY <1>1, <1>4, <1>5, <1>6 DEF Temporary

\* What is stored is not changed, at most new messages are.
LEMMA MineStays ==
  ASSUME side' = side, DOMAIN messages \subseteq DOMAIN messages',
         \A i \in DOMAIN messages : messages'[i].from = messages[i].from
  PROVE  Mine \subseteq Mine'
BY DEF Mine, Role

\* A list of stored messages has no temporary ids.
LEMMA NoTemps ==
  ASSUME Temporary,
         \/ page'.shown = page.shown
         \/ IsInjective(page'.shown) /\ \A k \in DOMAIN page'.shown : page'.shown[k] \in Stored
  PROVE  Once(page'.shown, Mine) /\ \A k \in Range(page'.shown) : k < 0 => k \in Range(page.shown)
<1>1. \A x \in Stored : ~(x < 0)
    BY DEF Stored
<1> QED
    BY <1>1 DEF Once, IsInjective, Range, Temporary

LEMMA TempDeliver ==
  ASSUME Sane, Temporary, NEW h \in DOMAIN channels, Deliver(h)
  PROVE  Temporary'
<1> DEFINE i == Head(channels[h].queue)
           m == Merge(page.shown, i)
<1>0. i = Head(channels[h].queue)
    OBVIOUS
<1> HIDE DEF i
<1>1. /\ i \in Stored
      /\ page'.shown \in {page.shown, m}
      /\ messages' \in Seq([from : Sides, read : BOOLEAN]) /\ Len(messages') = Len(messages)
      /\ \A j \in DOMAIN messages : messages'[j].from = messages[j].from
      /\ UNCHANGED <<side, sends>>
    BY <1>0, Delivers
<1>a. Mine \subseteq Mine'
  <2>1. DOMAIN messages' = DOMAIN messages
      BY <1>1, Elements DEF Sane, Kept
  <2> QED
      BY <1>1, <2>1, MineStays
<1>2. page.shown \in Seq(Int) /\ Once(page.shown, Mine) /\ i \in Nat /\ i # 0
    BY <1>1 DEF Sane, Kept, Pages, Temporary, Stored
<1>3. Range(m) \subseteq Range(page.shown) \cup {i} /\ Once(m, Mine)
    BY <1>2, Merges
<1> HIDE DEF m
<1>4. Once(page'.shown, Mine) /\ \A k \in Range(page'.shown) : k < 0 => k \in Range(page.shown)
    BY <1>1, <1>2, <1>3
<1> QED
    BY <1>1, <1>4, <1>a, TempLists

\* What a send of n messages adds to the list and to the mutations under way.
Adds(n, t, last) ==
  /\ Len(t) = n /\ n \in Nat /\ \A k \in 1..n : t[k] = -(last + k)
  /\ sends' = sends \cup {Sending("text", t)}
  /\ Sending("text", t) \in Sendings
  /\ page' \in Pages /\ DOMAIN page'.shown = 1..Len(page.shown) + n
  /\ \A k \in DOMAIN page'.shown :
       \/ /\ k \in DOMAIN page.shown /\ page'.shown[k] = page.shown[k]
          /\ page.shown[k] \in Int /\ page.shown[k] >= -last
       \/ k - Len(page.shown) \in 1..n /\ page'.shown[k] = t[k - Len(page.shown)]

LEMMA SendAdds ==
  ASSUME Sane, Temporary, NEW n \in 1..MaxBatch, Send(n)
  PROVE  /\ page.at \in Convs
         /\ \E t \in Seq(Int), last \in Nat : Adds(n, t, last)
         /\ page'.at = page.at /\ page'.ws = page.ws
         /\ page'.loaded = page.loaded /\ page'.acked = page.acked
         /\ page.shown \in Seq(Int) /\ DOMAIN page.shown = 1..Len(page.shown) /\ Len(page.shown) \in Nat
         /\ UNCHANGED <<side, messages, thread, closed, registered, channels, loads, cached, faults>>
<1> USE Limits
<1> DEFINE t == Temps(n)
           q == page.shown
           m == q \o t
           r == Sending("text", t)
<1>1. /\ page \in Pages /\ q \in Seq(Int) /\ (page.loaded => page.at \in Convs)
    BY DEF Sane, Kept, Pages
<1>2. n \in Nat
    OBVIOUS
<1>3. /\ t \in Seq(Int) /\ Len(t) = n
      /\ \E last \in Nat : /\ \A k \in 1..n : t[k] = -(last + k)
                           /\ \A x \in Range(q) : x >= -last
    BY <1>2, FreshTemps
<1>4. /\ page.loaded /\ sends' = sends \cup {r} /\ page' = [page EXCEPT !.shown = m]
      /\ UNCHANGED <<side, messages, thread, closed, registered, channels, loads, cached, faults>>
    BY DEF Send
<1> HIDE DEF t
<1>5. /\ DOMAIN t = 1..n /\ DOMAIN q = 1..Len(q) /\ Len(q) \in Nat
      /\ \A k \in DOMAIN q : q[k] \in Int
    BY <1>1, <1>3, Elements
<1>6. /\ m \in Seq(Int) /\ DOMAIN m = 1..Len(q) + n
      /\ \A k \in 1..Len(q) + n : m[k] = IF k <= Len(q) THEN q[k] ELSE t[k - Len(q)]
  <2>1. q \in Seq(Int) /\ t \in Seq(Int) /\ Len(t) = n
      BY <1>1, <1>3
  <2> HIDE DEF q
  <2>2. /\ m \in Seq(Int) /\ Len(m) = Len(q) + Len(t)
        /\ \A k \in 1..Len(q) + Len(t) : m[k] = IF k <= Len(q) THEN q[k] ELSE t[k - Len(q)]
      BY <2>1, ConcatProperties
  <2> HIDE DEF m
  <2>3. DOMAIN m = 1..Len(m)
      BY <2>2, Elements
  <2> QED
      BY <2>1, <2>2, <2>3
<1>7. r \in Sendings
    BY <1>1, <1>3, <1>4 DEF Sending, Sendings
<1>8. /\ page' \in Pages /\ page'.shown = m /\ page'.at = page.at /\ page'.ws = page.ws
      /\ page'.loaded = page.loaded /\ page'.acked = page.acked
    BY <1>1, <1>4, <1>6 DEF Pages
<1> HIDE DEF m, r
<1>9. \A k \in DOMAIN m : \/ k \in DOMAIN q /\ m[k] = q[k] /\ q[k] \in Int
                          \/ k - Len(q) \in 1..n /\ m[k] = t[k - Len(q)]
  <2> HIDE DEF q
  <2> TAKE k \in DOMAIN m
  <2>0. k \in 1..Len(q) + n /\ Len(q) \in Nat /\ n \in Nat /\ k \in Int
      BY <1>2, <1>5, <1>6
  <2>1. CASE k <= Len(q)
      BY <1>5, <1>6, <2>0, <2>1
  <2>2. CASE ~(k <= Len(q))
    <3>1. m[k] = t[k - Len(q)] /\ k - Len(q) \in 1..n
        BY <1>6, <2>0, <2>2
    <3> QED
        BY <3>1
  <2> QED
      BY <2>1, <2>2
<1>10. \A k \in DOMAIN q : q[k] \in Range(q)
    BY DEF Range
<1>11. PICK last \in Nat : /\ \A k \in 1..n : t[k] = -(last + k)
                          /\ \A x \in Range(q) : x >= -last
    BY <1>3
<1>12. \A k \in DOMAIN m :
         \/ k \in DOMAIN q /\ m[k] = q[k] /\ q[k] \in Int /\ q[k] >= -last
         \/ k - Len(q) \in 1..n /\ m[k] = t[k - Len(q)]
    BY <1>9, <1>10, <1>11
<1>13. sends' = sends \cup {Sending("text", t)} /\ Sending("text", t) \in Sendings
    BY <1>4, <1>7 DEF r
<1>14. page'.shown = m /\ DOMAIN m = 1..Len(q) + n
    BY <1>6, <1>8
<1> HIDE DEF q
<1>15. /\ t \in Seq(Int) /\ Len(t) = n /\ n \in Nat /\ \A k \in 1..n : t[k] = -(last + k)
       /\ page' \in Pages
    BY <1>2, <1>3, <1>8, <1>11
<1>16. /\ page.at \in Convs /\ page'.at = page.at /\ page'.ws = page.ws
       /\ page'.loaded = page.loaded /\ page'.acked = page.acked
       /\ UNCHANGED <<side, messages, thread, closed, registered, channels, loads, cached, faults>>
    BY <1>1, <1>4, <1>8
<1>17. Adds(n, t, last)
    BY <1>12, <1>13, <1>14, <1>15 DEF Adds, q
<1> QED
    BY <1>1, <1>5, <1>15, <1>16, <1>17 DEF q

\* A new mutation, which the server has not handled.
LEMMA Starts ==
  ASSUME Sane, Temporary,
         \/ \E n \in 1..MaxBatch : Send(n)
         \/ \E kind \in Kinds \ {"text"} : Ask(kind)
  PROVE  Sane' /\ Temporary'
<1> USE Limits
<1>1. /\ page \in Pages /\ Len(messages) \in Nat /\ page.shown \in Seq(Int)
      /\ page.loaded => page.at \in Convs
      /\ \A k \in DOMAIN page.shown : page.shown[k] <= Len(messages) /\ page.shown[k] # 0
    BY DEF Sane, Kept, Real, Pages
<1>2. ASSUME NEW r, sends' = sends \cup {r}, r \in Sendings, r.id = 0, page.at \in Convs,
             page' \in Pages, page'.at = page.at, page'.ws = page.ws,
             page'.loaded = page.loaded, page'.acked = page.acked,
             \A k \in DOMAIN page'.shown : page'.shown[k] <= Len(messages) /\ page'.shown[k] # 0,
             UNCHANGED <<side, messages, thread, closed, registered, channels, loads, cached, faults>>
      PROVE  Sane'
  <2>1. Kept'
      BY <1>2 DEF Sane, Kept
  <2>2. Real'
      BY <1>1, <1>2 DEF Sane, Real, Listed, Exist, Stored
  <2> QED
      BY <2>1, <2>2 DEF Sane
<1>3. ASSUME NEW r, sends' = sends \cup {r}, UNCHANGED <<side, messages>>,
             r.temps \in Seq(Int), \A k \in DOMAIN r.temps : r.temps[k] < 0,
             r.kind # "text" => r.temps = <<>>, r.ran = "no",
             \E b \in Nat : \A k \in DOMAIN r.temps : r.temps[k] >= -b,
             Once(page'.shown, Mine),
             \A k \in Range(page'.shown) : k < 0 => k \in Range(page.shown) \/ k \in Range(r.temps)
      PROVE  Temporary'
  <2>0. Mine' = Mine
      BY <1>3 DEF Mine, Role
  <2>1. Owned(r)' /\ \A x \in sends : Owned(x)'
      BY <1>3, <2>0 DEF Temporary, Owned
  <2>2. TempIsSending'
      BY <1>3 DEF Temporary, TempIsSending
  <2>3. PICK a \in Nat : \A x \in sends : \A k \in DOMAIN x.temps : x.temps[k] >= -a
      BY DEF Temporary
  <2>4. PICK b \in Nat : \A k \in DOMAIN r.temps : r.temps[k] >= -b
      BY <1>3
  <2>5. \A x \in sends : x.temps \in Seq(Int)
      BY DEF Sane, Kept, Sendings
  <2>6. \A x \in sends : \A k \in DOMAIN x.temps : x.temps[k] >= -(a + b)
    <3> TAKE x \in sends
    <3> TAKE k \in DOMAIN x.temps
    <3>1. x.temps[k] \in Int
        BY <2>5, Elements
    <3> QED
        BY <2>3, <3>1
  <2>7. \A k \in DOMAIN r.temps : r.temps[k] >= -(a + b)
    <3> TAKE k \in DOMAIN r.temps
    <3>1. r.temps[k] \in Int /\ r.temps[k] >= -b
        BY <1>3, <2>4, Elements
    <3> QED
        BY <3>1
  <2>8. \E c \in Nat : \A x \in sends' : \A k \in DOMAIN x.temps : x.temps[k] >= -c
    <3> DEFINE c == a + b
    <3>1. c \in Nat
        OBVIOUS
    <3>2. \A x \in sends' : \A k \in DOMAIN x.temps : x.temps[k] >= -c
        BY <1>3, <2>6, <2>7
    <3> HIDE DEF c
    <3> QED
        BY <3>1, <3>2
  <2> QED
      BY <1>3, <2>0, <2>1, <2>2, <2>8 DEF Temporary, Once
<1>4. ASSUME NEW n \in 1..MaxBatch, Send(n)
      PROVE  Sane' /\ Temporary'
  <2> DEFINE q == page.shown
             m == page'.shown
  <2>0. PICK t \in Seq(Int), last \in Nat : Adds(n, t, last)
      BY <1>4, SendAdds
  <2>1. /\ Len(t) = n /\ n \in Nat /\ \A k \in 1..n : t[k] = -(last + k)
        /\ sends' = sends \cup {Sending("text", t)}
        /\ Sending("text", t) \in Sendings
        /\ page' \in Pages /\ DOMAIN m = 1..Len(q) + n
        /\ \A k \in DOMAIN m :
             \/ k \in DOMAIN q /\ m[k] = q[k] /\ q[k] \in Int /\ q[k] >= -last
             \/ k - Len(q) \in 1..n /\ m[k] = t[k - Len(q)]
      BY <2>0 DEF Adds
  <2>2. /\ page.at \in Convs /\ page'.at = page.at /\ page'.ws = page.ws
        /\ page'.loaded = page.loaded /\ page'.acked = page.acked
        /\ DOMAIN q = 1..Len(q) /\ Len(q) \in Nat
        /\ UNCHANGED <<side, messages, thread, closed, registered, channels, loads, cached, faults>>
      BY <1>4, SendAdds
  <2> DEFINE r == Sending("text", t)
  <2>3. r \in Sendings /\ r.temps = t /\ r.id = 0 /\ r.ran = "no" /\ r.kind = "text"
      BY <2>1 DEF Sending
  <2>4. sends' = sends \cup {r}
      BY <2>1
  <2> HIDE DEF r, q, m
  <2>5. DOMAIN t = 1..n /\ \A k \in DOMAIN t : t[k] < 0 /\ t[k] >= -(last + n) /\ last + n \in Nat
    <3>1. DOMAIN t = 1..n
        BY <2>1, Elements
    <3>2. \A k \in 1..n : t[k] = -(last + k)
        BY <2>1
    <3> QED
        BY <3>1, <3>2
  <2>6. \A k \in DOMAIN m :
          \/ k \in DOMAIN q /\ m[k] = q[k] /\ q[k] \in Int /\ q[k] >= -last
          \/ k - Len(q) \in 1..n /\ m[k] = -(last + (k - Len(q)))
      BY <2>1
  <2>7. Sane'
    <3>1. ASSUME NEW k \in DOMAIN m PROVE m[k] <= Len(messages) /\ m[k] # 0
      <4>1. CASE k \in DOMAIN q /\ m[k] = q[k]
          BY <1>1, <4>1 DEF q
      <4>2. CASE k - Len(q) \in 1..n /\ m[k] = -(last + (k - Len(q)))
          BY <1>1, <4>2
      <4> QED
          BY <2>6, <4>1, <4>2
    <3> QED
        BY <1>2, <2>1, <2>2, <2>3, <2>4, <3>1 DEF m
  <2>8. Once(m, Mine)
    <3> SUFFICES ASSUME NEW j \in DOMAIN m, NEW k \in DOMAIN m, m[j] = m[k], m[j] \notin Mine
                 PROVE  j = k
        BY DEF Once
    <3>1. /\ j \in 1..Len(q) + n /\ k \in 1..Len(q) + n /\ Once(q, Mine)
          /\ Len(q) \in Nat /\ n \in Nat /\ last \in Nat /\ DOMAIN q = 1..Len(q)
        BY <2>1, <2>2 DEF Temporary, q, m
    <3>2. CASE j \in DOMAIN q /\ k \in DOMAIN q /\ m[j] = q[j] /\ m[k] = q[k]
        BY <3>1, <3>2 DEF Once
    <3>3. CASE /\ j - Len(q) \in 1..n /\ m[j] = -(last + (j - Len(q)))
               /\ k - Len(q) \in 1..n /\ m[k] = -(last + (k - Len(q)))
      <4>1. j \in Int /\ k \in Int /\ last \in Int /\ Len(q) \in Int
          BY <3>1
      <4>2. -(last + (j - Len(q))) = -(last + (k - Len(q)))
          BY <3>3
      <4> QED
          BY <4>1, <4>2, SamePosition
    <3>4. ASSUME NEW x \in DOMAIN m, NEW y \in DOMAIN m, m[x] = m[y],
                 x \in DOMAIN q /\ m[x] = q[x] /\ q[x] \in Int /\ q[x] >= -last,
                 y - Len(q) \in 1..n /\ m[y] = -(last + (y - Len(q)))
          PROVE  FALSE
      <4> DEFINE a == y - Len(q)
      <4>1. a \in 1..n /\ m[y] = -(last + a)
          BY <3>4
      <4> HIDE DEF a
      <4>2. q[x] = -(last + a) /\ q[x] >= -last
          BY <3>4, <4>1
      <4> QED
          BY <3>1, <4>1, <4>2
    <3> QED
        BY <2>6, <3>2, <3>3, <3>4
  <2>9. \A x \in Range(m) : x < 0 => x \in Range(q) \/ x \in Range(r.temps)
    <3> SUFFICES ASSUME NEW k \in DOMAIN m PROVE m[k] \in Range(q) \/ m[k] \in Range(t)
        BY <2>3 DEF Range
    <3>1. (k \in DOMAIN q /\ m[k] = q[k]) \/ (k - Len(q) \in DOMAIN t /\ m[k] = t[k - Len(q)])
        BY <2>1, <2>5 DEF q, m
    <3> QED
        BY <3>1 DEF Range
  <2>10. \E b \in Nat : \A k \in DOMAIN r.temps : r.temps[k] >= -b
    <3> DEFINE b == last + n
    <3>1. b \in Nat /\ \A k \in DOMAIN t : t[k] >= -b
        BY <2>1, <2>5
    <3> HIDE DEF b
    <3> QED
        BY <2>3, <3>1
  <2>11. Temporary'
      BY <1>3, <2>2, <2>3, <2>4, <2>5, <2>8, <2>9, <2>10 DEF q, m
  <2> QED
      BY <2>7, <2>11
<1>5. ASSUME NEW kind \in Kinds \ {"text"}, Ask(kind)
      PROVE  Sane' /\ Temporary'
  <2> DEFINE r == Sending(kind, <<>>)
  <2>1. /\ page.loaded /\ sends' = sends \cup {r}
        /\ UNCHANGED <<side, messages, thread, closed, registered, channels, page, loads, cached, faults>>
      BY <1>5 DEF Ask
  <2>2. <<>> \in Seq(Int) /\ DOMAIN <<>> = {} /\ 0 \in Nat
      OBVIOUS
  <2>3. r \in Sendings /\ r.temps = <<>> /\ r.id = 0 /\ r.ran = "no"
      BY <1>1, <2>1, <2>2 DEF Sending, Sendings
  <2> HIDE DEF r
  <2>4. Sane'
      BY <1>1, <1>2, <2>1, <2>3
  <2>5. Once(page'.shown, Mine)
      BY <2>1 DEF Temporary
  <2>6. Temporary'
      BY <1>3, <2>1, <2>2, <2>3, <2>5
  <2> QED
      BY <2>4, <2>6
<1> QED
    BY <1>4, <1>5

\* The server handles a mutation, or others post: the list is left alone.
LEMMA TempPosts ==
  ASSUME Sane, Temporary,
         \/ \E c \in Convs, from \in Sides : Elsewhere(c, from)
         \/ \E s \in sends : Post(s) \/ CloseConversation(s) \/ Patch(s) \/ Refuse(s)
  PROVE  Temporary'
<1>1. /\ Kept /\ Len(messages) \in Nat
      /\ \A s \in sends : s \in Sendings /\ s.conv \in Convs /\ s.id \in Nat /\ s.id <= Len(messages)
      /\ Role \in Sides /\ "admin" \in Sides
      /\ DOMAIN messages = 1..Len(messages)
    BY Elements DEF Sane, Kept, Real, Sendings, Sides, Role
<1>2. UNCHANGED <<side, page>> /\ Once(page.shown, Mine)
    BY DEF Elsewhere, Post, CloseConversation, Patch, Refuse, Temporary
<1>3. ASSUME NEW c \in Convs, NEW from \in Sides, Len(messages) < MaxMessages, Appends(c, from)
      PROVE  /\ Mine \subseteq Mine'
             /\ Len(messages) + 1 \in DOMAIN messages' /\ messages'[Len(messages) + 1].from = from
  <2>1. /\ \A i \in DOMAIN messages : messages'[i] = messages[i]
        /\ messages'[Len(messages) + 1] = [from |-> from, read |-> FALSE]
        /\ DOMAIN messages' = 1..Len(messages) + 1
      BY <1>1, <1>3, AppendsKeep
  <2>2. Mine \subseteq Mine'
      BY <1>1, <1>2, <2>1, MineStays
  <2> QED
      BY <1>1, <2>1, <2>2
<1>4. ASSUME NEW c \in Convs, NEW from \in Sides, Elsewhere(c, from) PROVE Temporary'
  <2>1. Len(messages) < MaxMessages /\ Appends(c, from) /\ sends' = sends
      BY <1>4 DEF Elsewhere, Stores
  <2>2. Mine \subseteq Mine'
      BY <1>3, <2>1
  <2> QED
      BY <1>2, <2>1, <2>2, TempLists
<1>5. ASSUME NEW s \in sends, NEW r,
             sends' = (sends \ {s}) \cup {r}, r.temps = s.temps, r.kind = s.kind,
             Mine \subseteq Mine',
             r.ran = "yes" /\ r.kind \in {"text", "card"} => r.id \in Mine'
      PROVE  Temporary'
  <2>1. Owned(r)'
      BY <1>5 DEF Temporary, Owned
  <2>2. ASSUME NEW x \in sends PROVE Owned(x)'
      BY <1>5 DEF Temporary, Owned
  <2>3. TempIsSending'
      BY <1>2, <1>5 DEF Temporary, TempIsSending
  <2>4. \E b \in Nat : \A x \in sends' : \A k \in DOMAIN x.temps : x.temps[k] >= -b
      BY <1>5 DEF Temporary
  <2>5. Once(page.shown, Mine)'
      BY <1>2, <1>5 DEF Once
  <2> QED
      BY <1>5, <2>1, <2>2, <2>3, <2>4, <2>5 DEF Temporary
<1>6. ASSUME NEW s \in sends, Post(s) PROVE Temporary'
  <2> DEFINE n == Len(messages) + 1
             r == [s EXCEPT !.ran = "yes", !.id = n]
  <2>1. Len(messages) < MaxMessages /\ Appends(s.conv, Role) /\ sends' = (sends \ {s}) \cup {r}
      BY <1>6 DEF Post, Stores, Becomes
  <2>2. n \in Mine' /\ Mine \subseteq Mine'
    <3>1. /\ n \in DOMAIN messages' /\ messages'[n].from = Role /\ Mine \subseteq Mine'
        BY <1>1, <1>3, <2>1
    <3>2. Role' = Role
        BY <1>2 DEF Role
    <3> QED
        BY <3>1, <3>2 DEF Mine
  <2> HIDE DEF n
  <2>3. r.temps = s.temps /\ r.kind = s.kind /\ r.id = n
      BY <1>1 DEF Sendings
  <2> HIDE DEF r
  <2> QED
      BY <1>5, <2>1, <2>2, <2>3
<1>7. ASSUME NEW s \in sends, CloseConversation(s) PROVE Temporary'
  <2> DEFINE r == [s EXCEPT !.ran = "yes"]
  <2>1. /\ sends' = (sends \ {s}) \cup {r} /\ s.kind = "close"
        /\ Len(messages) < MaxMessages /\ Appends(s.conv, "admin")
      BY <1>7 DEF CloseConversation, Becomes
  <2>2. Mine \subseteq Mine'
      BY <1>1, <1>3, <2>1
  <2>3. r.temps = s.temps /\ r.kind = s.kind
      BY <1>1 DEF Sendings
  <2> HIDE DEF r
  <2> QED
      BY <1>5, <2>1, <2>2, <2>3
<1>8. ASSUME NEW s \in sends, Patch(s) PROVE Temporary'
  <2> DEFINE r == [s EXCEPT !.ran = "yes"]
  <2>1. sends' = (sends \ {s}) \cup {r} /\ s.kind = "patch" /\ messages' = messages
      BY <1>8 DEF Patch, Becomes
  <2>2. r.temps = s.temps /\ r.kind = s.kind
      BY <1>1 DEF Sendings
  <2>3. Mine \subseteq Mine'
      BY <1>2, <2>1 DEF Mine, Role
  <2> HIDE DEF r
  <2> QED
      BY <1>5, <2>1, <2>2, <2>3
<1>9. ASSUME NEW s \in sends, Refuse(s) PROVE Temporary'
  <2> DEFINE r == [s EXCEPT !.ran = "refused"]
  <2>1. sends' = (sends \ {s}) \cup {r} /\ messages' = messages
      BY <1>9 DEF Refuse, Becomes
  <2>2. r.temps = s.temps /\ r.kind = s.kind /\ r.ran = "refused"
      BY <1>1 DEF Sendings
  <2>3. Mine \subseteq Mine'
      BY <1>2, <2>1 DEF Mine, Role
  <2> HIDE DEF r
  <2> QED
      BY <1>5, <2>1, <2>2, <2>3
<1> QED
    BY <1>4, <1>6, <1>7, <1>8, <1>9

\* Once its first message is settled a send goes on with the others, or is over.
LEMMA Rests ==
  ASSUME Sane, Temporary, NEW s \in sends, Rest(s), Mine \subseteq Mine', Once(page'.shown, Mine),
         \A k \in Range(page'.shown) : k < 0 =>
           k \in Range(page.shown) /\ (s.temps # <<>> => k # Head(s.temps))
  PROVE  Temporary' /\ sends' \subseteq Sendings /\ \A x \in sends' : x.id <= Len(messages)
<1> DEFINE t == s.temps
           u == Tail(t)
           r == [s EXCEPT !.temps = u, !.ran = "no", !.id = 0]
<1>1. /\ s \in Sendings /\ t \in Seq(Int) /\ Len(messages) \in Nat /\ sends \subseteq Sendings
      /\ \A x \in sends : x.id <= Len(messages)
      /\ \A k \in DOMAIN t : t[k] < 0
      /\ (s.kind # "text" => t = <<>>)
    BY DEF Sane, Kept, Real, Sendings, Temporary, Owned
<1>2. DOMAIN t = 1..Len(t) /\ Len(t) \in Nat /\ (t # <<>> => Len(t) # 0 /\ Head(t) = t[1])
    BY <1>1, Elements, EmptySeq
<1>3. (\A x \in sends : Owned(x)') /\ Once(page.shown, Mine)'
    BY DEF Temporary, Owned, Once
<1>4. PICK b \in Nat : \A x \in sends : \A k \in DOMAIN x.temps : x.temps[k] >= -b
    BY DEF Temporary
<1>5. ASSUME NEW k \in Range(page'.shown), k < 0
      PROVE  \E x \in sends : k \in Range(x.temps) /\ (x = s => k \in Range(t) /\ t # <<>> /\ k # t[1])
  <2>1. k \in Range(page.shown) /\ (t # <<>> => k # t[1])
      BY <1>2, <1>5
  <2>2. PICK x \in sends : k \in Range(x.temps)
      BY <1>5, <2>1 DEF Temporary, TempIsSending
  <2>3. x = s => t # <<>>
      BY <2>2 DEF Range
  <2> QED
      BY <2>1, <2>2, <2>3
<1>6. CASE Len(t) <= 1
  <2>1. sends' = sends \ {s}
      BY <1>6 DEF Rest
  <2>2. TempIsSending'
    <3> SUFFICES ASSUME NEW k \in Range(page'.shown), k < 0
                 PROVE  \E x \in sends' : k \in Range(x.temps)
        BY DEF TempIsSending
    <3>1. PICK x \in sends : k \in Range(x.temps) /\ (x = s => k \in Range(t) /\ t # <<>> /\ k # t[1])
        BY <1>5
    <3>2. k \in Range(t) => k = t[1]
        BY <1>2, <1>6 DEF Range
    <3> QED
        BY <2>1, <3>1, <3>2
  <2> QED
      BY <1>1, <1>3, <1>4, <2>1, <2>2 DEF Temporary
<1>7. CASE ~(Len(t) <= 1)
  <2>1. sends' = (sends \ {s}) \cup {r}
      BY <1>7 DEF Rest, Becomes
  <2>2. u \in Seq(Int) /\ DOMAIN u = 1..Len(t) - 1 /\ \A k \in 1..Len(t) - 1 : u[k] = t[k + 1]
      BY <1>1, <1>2, <1>7, HeadTailProperties, Elements, EmptySeq
  <2>3. t # <<>>
      BY <1>7, EmptySeq
  <2> HIDE DEF u
  <2>4. r \in Sendings /\ r.temps = u /\ r.ran = "no" /\ r.id = 0 /\ r.kind = s.kind
      BY <1>1, <2>2 DEF Sendings
  <2> HIDE DEF r
  <2>5. \A k \in DOMAIN u : k + 1 \in DOMAIN t /\ u[k] = t[k + 1]
      BY <1>2, <2>2
  <2>6. Owned(r)'
      BY <1>1, <2>3, <2>4, <2>5 DEF Owned
  <2>7. \A x \in sends' : \A k \in DOMAIN x.temps : x.temps[k] >= -b
      BY <1>4, <2>1, <2>4, <2>5
  <2>8. TempIsSending'
    <3> SUFFICES ASSUME NEW k \in Range(page'.shown), k < 0
                 PROVE  \E x \in sends' : k \in Range(x.temps)
        BY DEF TempIsSending
    <3>1. PICK x \in sends : k \in Range(x.temps) /\ (x = s => k \in Range(t) /\ t # <<>> /\ k # t[1])
        BY <1>5
    <3>2. CASE x # s
        BY <2>1, <3>1, <3>2
    <3>3. CASE x = s
      <4>1. PICK j \in DOMAIN t : k = t[j] /\ j # 1
          BY <3>1, <3>3 DEF Range
      <4>2. j - 1 \in DOMAIN u /\ u[j - 1] = t[j]
          BY <1>2, <2>2, <4>1
      <4> QED
          BY <2>1, <2>4, <4>1, <4>2 DEF Range
    <3> QED
        BY <3>2, <3>3
  <2>9. Temporary'
      BY <1>3, <2>1, <2>6, <2>7, <2>8 DEF Temporary
  <2> QED
      BY <1>1, <2>1, <2>4, <2>9
<1> QED
    BY <1>6, <1>7

\* The end of a mutation: its answer takes the place of the temporary message, the temporary
\* message is taken back, or the conversation is loaded again.
LEMMA Ends ==
  ASSUME Sane, Temporary, NEW s \in sends, Answered(s) \/ Failed(s) \/ Reloads(s)
  PROVE  Sane' /\ Temporary'
<1> USE Limits
<1> DEFINE q == page.shown
<1>1. /\ s \in Sendings /\ s.temps \in Seq(Int) /\ s.id \in Nat /\ s.id <= Len(messages)
      /\ s.conv \in Convs /\ Owned(s)
      /\ page \in Pages /\ q \in Seq(Int) /\ Once(q, Mine)
      /\ \A k \in DOMAIN q : q[k] <= Len(messages) /\ q[k] # 0
      /\ Len(messages) \in Nat
    BY DEF Sane, Kept, Real, Pages, Sendings, Temporary
<1>2. ASSUME s.temps # <<>>
      PROVE  /\ Head(s.temps) = s.temps[1] /\ s.temps[1] \in Int /\ s.temps[1] < 0
  <2>1. Head(s.temps) = s.temps[1] /\ 1 \in DOMAIN s.temps
      BY <1>1, <1>2, Elements, EmptySeq
  <2> QED
      BY <1>1, <2>1, Elements DEF Owned
<1>a. \A x \in Range(q) : x \in Int /\ x <= Len(messages) /\ x # 0
    BY <1>1, Elements DEF Range
<1>b. DOMAIN messages = 1..Len(messages)
    BY Elements DEF Sane, Kept
<1>3. ASSUME NEW new \in Seq(Int), Once(new, Mine), page' \in Pages, page'.shown = new,
             page'.at = page.at, page'.ws = page.ws,
             page'.acked \subseteq Stored,
             messages' \in Seq([from : Sides, read : BOOLEAN]), Len(messages') = Len(messages),
             \A i \in DOMAIN messages : messages'[i].from = messages[i].from,
             \A x \in Range(new) : x \in Range(q) \/ (x = s.id /\ s.id # 0),
             s.temps # <<>> => Head(s.temps) \notin Range(new),
             Rest(s), faults' \in 0..MaxFaults,
             DOMAIN cached' \subseteq DOMAIN cached, \A d \in DOMAIN cached' : cached'[d] = cached[d],
             UNCHANGED <<side, thread, closed, registered, channels, loads>>
      PROVE  Sane' /\ Temporary'
  <2>1. page.at # NoConv
      BY DEF Sane, Kept
  <2>a. Mine \subseteq Mine' /\ Stored' = Stored
    <3>1. DOMAIN messages' = DOMAIN messages
        BY <1>3, <1>b, Elements
    <3> QED
        BY <1>3, <3>1, MineStays DEF Stored
  <2>2. \A k \in Range(new) : k < 0 => k \in Range(q) /\ (s.temps # <<>> => k # Head(s.temps))
    <3> HIDE DEF q
    <3> SUFFICES ASSUME NEW k \in Range(new), k < 0
                 PROVE  k \in Range(q) /\ (s.temps # <<>> => k # Head(s.temps))
        OBVIOUS
    <3>1. k # s.id
        BY <1>1
    <3>2. k \in Range(q)
        BY <1>3, <3>1
    <3> QED
        BY <1>3, <3>2
  <2>3. Temporary' /\ sends' \subseteq Sendings /\ \A x \in sends' : x.id <= Len(messages)
      BY <1>3, <2>2, <2>a, Rests
  <2>4. Kept'
      BY <1>3, <2>1, <2>3 DEF Sane, Kept
  <2>5. \A k \in DOMAIN page'.shown : page'.shown[k] <= Len(messages) /\ page'.shown[k] # 0
    <3>1. \A x \in Range(new) : x <= Len(messages) /\ x # 0
        BY <1>1, <1>3, <1>a
    <3> QED
        BY <1>3, <3>1 DEF Range
  <2>6. Real'
      BY <1>3, <2>3, <2>5, <2>a DEF Sane, Real, Listed, Exist
  <2> QED
      BY <2>3, <2>4, <2>6 DEF Sane
<1>4. CASE Answered(s)
  <2> DEFINE temp == IF s.temps = <<>> THEN 0 ELSE Head(s.temps)
             new == Settled(q, temp, s.id)
             unread == {s.id}
             none == {}
  <2>1. /\ Displays(page, new, unread, none) /\ cached' = After(s) /\ Rest(s)
        /\ s.ran = "yes" /\ s.kind \in {"text", "card"}
        /\ UNCHANGED <<side, thread, closed, registered, channels, loads>>
      BY <1>4 DEF Answered
  <2>2. /\ temp \in Int /\ s.id \in Mine /\ s.id # 0 /\ temp # s.id /\ temp \notin Mine
    <3>1. s.id \in Mine
        BY <1>1, <2>1 DEF Owned
    <3> QED
        BY <1>1, <1>2, <1>b, <3>1 DEF Mine
  <2>3. /\ new \in Seq(Int) /\ Once(new, Mine) /\ Range(new) \subseteq (Range(q) \ {temp}) \cup {s.id}
    <3> HIDE DEF temp
    <3> QED
        BY <1>1, <2>2, Settles
  <2>4. s.temps # <<>> => Head(s.temps) \notin Range(new)
      BY <2>2, <2>3
  <2>5. DOMAIN cached' \subseteq DOMAIN cached /\ \A d \in DOMAIN cached' : cached'[d] = cached[d]
      BY <2>1, AfterKeeps
  <2>7. \A x \in Range(new) : x \in Range(q) \/ (x = s.id /\ s.id # 0)
      BY <2>2, <2>3
  <2> HIDE DEF temp, new, unread, none
  <2>8. /\ page' \in Pages /\ page'.shown = new /\ page'.at = page.at /\ page'.ws = page.ws
        /\ page'.acked \subseteq page.acked \cup {x \in Range(new) : x > 0}
        /\ messages' \in Seq([from : Sides, read : BOOLEAN]) /\ Len(messages') = Len(messages)
        /\ \A i \in DOMAIN messages : messages'[i].from = messages[i].from
        /\ faults' \in 0..MaxFaults
      BY <1>1, <2>1, <2>3, DisplaysKeep DEF Sane
  <2>9. page'.acked \subseteq Stored
    <3>1. \A x \in Range(new) : x > 0 => x \in Stored
        BY <1>1, <1>a, <2>7 DEF Stored
    <3> QED
        BY <2>8, <3>1 DEF Sane, Real
  <2> QED
      BY <1>3, <2>1, <2>3, <2>4, <2>5, <2>7, <2>8, <2>9
<1>5. CASE Failed(s)
  <2> DEFINE new == IF s.temps = <<>> THEN q ELSE TakenBack(q, Head(s.temps))
  <2>1. /\ page' = [page EXCEPT !.shown = new] /\ Rest(s)
        /\ UNCHANGED <<side, messages, thread, closed, registered, channels, loads, cached>>
    <3>1. page = [page EXCEPT !.shown = q]
        BY <1>1 DEF Pages
    <3> QED
        BY <1>5, <3>1 DEF Failed
  <2>2. /\ new \in Seq(Int) /\ Once(new, Mine) /\ Range(new) \subseteq Range(q)
        /\ s.temps # <<>> => Head(s.temps) \notin Range(new)
    <3>1. CASE s.temps = <<>>
        BY <1>1, <3>1
    <3>2. CASE s.temps # <<>>
      <4> DEFINE h == Head(s.temps)
      <4>1. h \in Int /\ h < 0 /\ h \notin Mine
          BY <1>2, <1>b, <3>2 DEF Mine
      <4> HIDE DEF h
      <4>2. /\ TakenBack(q, h) \in Seq(Int) /\ Once(TakenBack(q, h), Mine)
            /\ Range(TakenBack(q, h)) \subseteq Range(q) /\ h \notin Range(TakenBack(q, h))
          BY <1>1, <4>1, TakesBack
      <4>3. new = TakenBack(q, h)
          BY <3>2 DEF h
      <4> HIDE DEF new
      <4> QED
          BY <4>2, <4>3 DEF h
    <3> QED
        BY <3>1, <3>2
  <2>3. faults' \in 0..MaxFaults
      BY <1>5 DEF Failed, Fault, Sane, Kept
  <2> HIDE DEF new
  <2>4. /\ page' \in Pages /\ page'.shown = new /\ page'.at = page.at /\ page'.ws = page.ws
        /\ page'.acked \subseteq Stored
      BY <1>1, <2>1, <2>2 DEF Pages, Sane, Real
  <2>5. /\ messages' \in Seq([from : Sides, read : BOOLEAN]) /\ Len(messages') = Len(messages)
        /\ \A i \in DOMAIN messages : messages'[i].from = messages[i].from
      BY <2>1 DEF Sane, Kept
  <2>6. \A x \in Range(new) : x \in Range(q) \/ (x = s.id /\ s.id # 0)
      BY <2>2
  <2>7. DOMAIN cached' \subseteq DOMAIN cached /\ \A d \in DOMAIN cached' : cached'[d] = cached[d]
      BY <2>1
  <2> QED
      BY <1>3, <2>1, <2>2, <2>3, <2>4, <2>5, <2>6, <2>7
<1>6. CASE Reloads(s)
  <2>1. /\ Load(page, s.conv, After(s)) /\ sends' = sends \ {s} /\ s.kind # "text"
        /\ UNCHANGED <<side, thread, closed, registered, channels>>
      BY <1>6 DEF Reloads
  <2>2. /\ DOMAIN After(s) \subseteq DOMAIN cached
        /\ \A d \in DOMAIN After(s) : After(s)[d] = cached[d]
      BY AfterKeeps
  <2>3. s.temps = <<>>
      BY <1>1, <2>1 DEF Owned
  <2>4. \A h \in DOMAIN channels' : Exist(channels'[h].queue)
      BY <2>1 DEF Sane, Real
  <2>5. /\ page.at # NoConv /\ channels' \in Seq(Channels) /\ Len(channels') <= MaxChannels
        /\ page.ws <= Len(channels') /\ registered \in 0..Len(channels') \cup {Far}
        /\ sends' \subseteq sends /\ UNCHANGED <<side, thread, closed, registered>>
      BY <1>1, <2>1 DEF Sane, Kept
  <2>6. Sane'
      BY <1>1, <2>1, <2>2, <2>4, <2>5, LoadSane
  <2>7. \/ page'.shown = page.shown
        \/ IsInjective(page'.shown) /\ \A k \in DOMAIN page'.shown : page'.shown[k] \in Stored
      BY <1>1, <2>1, <2>2, Loads DEF Sane, Real, Listed, Exist
  <2>8. Mine \subseteq Mine'
    <3>1. /\ messages' \in Seq([from : Sides, read : BOOLEAN]) /\ Len(messages') = Len(messages)
          /\ \A i \in DOMAIN messages : messages'[i].from = messages[i].from
        BY <1>1, <2>1, <2>2, Loads
    <3>2. DOMAIN messages' = DOMAIN messages
        BY <1>b, <3>1, Elements
    <3> QED
        BY <2>1, <3>1, <3>2, MineStays
  <2>9. Temporary'
      BY <2>1, <2>3, <2>7, <2>8, NoTemps, TempLists
  <2> QED
      BY <2>6, <2>9
<1> QED
    BY <1>4, <1>5, <1>6

\* What is shown after a step that is no send's: the lists that arrive or are kept have no
\* temporary ids.
LEMMA Lists ==
  ASSUME Sane,
         \/ \E h \in DOMAIN channels :
              Greet(h) \/ Accept(h) \/ Subscribe(h) \/ ServerCloses(h) \/ Closes(h) \/ Cut(h)
         \/ \E l \in loads : Serve(l) \/ Arrive(l) \/ LoadFails(l)
         \/ \E c \in Convs : Enter(c) \/ Expire(c)
         \/ \E k \in DOMAIN page.timers : Redial(k)
         \/ Poll \/ Usurp
  PROVE  /\ UNCHANGED <<side, sends>>
         /\ Mine \subseteq Mine'
         /\ \/ page'.shown = page.shown
            \/ IsInjective(page'.shown) /\ \A k \in DOMAIN page'.shown : page'.shown[k] \in Stored
<1> DEFINE Goal ==
      /\ UNCHANGED <<side, sends>>
      /\ Mine \subseteq Mine'
      /\ \/ page'.shown = page.shown
         \/ IsInjective(page'.shown) /\ \A k \in DOMAIN page'.shown : page'.shown[k] \in Stored
<1>1. page \in Pages /\ page.shown \in Seq(Int) /\ Kept
    BY DEF Sane, Kept, Pages
<1>a. ASSUME side' = side, messages' \in Seq([from : Sides, read : BOOLEAN]),
             Len(messages') = Len(messages),
             \A i \in DOMAIN messages : messages'[i].from = messages[i].from
      PROVE  Mine \subseteq Mine'
  <2>1. DOMAIN messages' = DOMAIN messages
      BY <1>1, <1>a, Elements DEF Kept
  <2> QED
      BY <1>a, <2>1, MineStays
<1>2. ASSUME NEW h \in DOMAIN channels,
             Greet(h) \/ Accept(h) \/ Subscribe(h) \/ ServerCloses(h) \/ Closes(h) \/ Cut(h)
      PROVE  Goal
  <2>1. /\ page'.shown = page.shown /\ UNCHANGED <<side, sends>>
        /\ messages' \in Seq([from : Sides, read : BOOLEAN]) /\ Len(messages') = Len(messages)
        /\ \A i \in DOMAIN messages : messages'[i].from = messages[i].from
      BY <1>1, <1>2, Sockets
  <2> QED
      BY <1>a, <2>1
<1>3. ASSUME NEW p \in Pages, NEW c \in Convs, Load(p, c, cached),
             p.shown = page.shown, p.acked = page.acked, UNCHANGED <<side, sends>>
      PROVE  Goal
  <2>1. /\ messages' \in Seq([from : Sides, read : BOOLEAN]) /\ Len(messages') = Len(messages)
        /\ \A i \in DOMAIN messages : messages'[i].from = messages[i].from
        /\ \/ c \in DOMAIN cached /\ page'.shown = cached[c].ids
           \/ page'.shown = page.shown
      BY <1>3, Loads
  <2>2. \/ page'.shown = page.shown
        \/ IsInjective(page'.shown) /\ \A k \in DOMAIN page'.shown : page'.shown[k] \in Stored
      BY <2>1 DEF Sane, Real, Listed, Exist
  <2> QED
      BY <1>3, <1>a, <2>1, <2>2
<1>4. ASSUME NEW l \in loads, Arrive(l) PROVE Goal
  <2> DEFINE q == l.body.ids
             u == l.body.unread
             none == {}
  <2>1. q \in Seq(Nat) /\ Listed(q)
      BY DEF Sane, Kept, Real, Gets, Bodies
  <2>2. q \in Seq(Int)
      BY <2>1, Wider
  <2>3. Displays(page, q, u, none) /\ UNCHANGED <<side, sends>>
      BY <1>4 DEF Arrive
  <2> HIDE DEF q, u, none
  <2>4. /\ page'.shown = q
        /\ messages' \in Seq([from : Sides, read : BOOLEAN]) /\ Len(messages') = Len(messages)
        /\ \A i \in DOMAIN messages : messages'[i].from = messages[i].from
      BY <1>1, <2>2, <2>3, DisplaysKeep
  <2>5. IsInjective(page'.shown) /\ \A k \in DOMAIN page'.shown : page'.shown[k] \in Stored
      BY <2>1, <2>4 DEF Listed, Exist
  <2> QED
      BY <1>a, <2>3, <2>4, <2>5
<1>5. ASSUME NEW l \in loads, Serve(l) \/ LoadFails(l) PROVE Goal
  <2>1. UNCHANGED <<side, messages, page, sends>>
      BY <1>5 DEF Serve, LoadFails
  <2> QED
      BY <2>1 DEF Mine, Role
<1>6. ASSUME NEW c \in Convs, Enter(c) PROVE Goal
  <2> DEFINE t == IF Agent THEN 0 ELSE MaxTries
             u == IF page.timers = <<>> THEN page.timers ELSE Front(page.timers)
             w == Len(channels) + 1
             p == [page EXCEPT !.at = c, !.ws = w, !.tries = t, !.timers = u]
  <2>1. Load(p, c, cached) /\ UNCHANGED <<side, sends>>
      BY <1>6 DEF Enter
  <2>2. p \in Pages /\ p.shown = page.shown /\ p.acked = page.acked
      BY EntersPage
  <2> HIDE DEF p
  <2> QED
      BY <1>3, <2>1, <2>2
<1>7. CASE Poll
  <2>1. page.at \in Convs /\ Load(page, page.at, cached) /\ UNCHANGED <<side, sends>>
      BY <1>1, <1>7 DEF Poll, Pages
  <2> QED
      BY <1>1, <1>3, <2>1
<1>8. ASSUME Usurp \/ (\E c \in Convs : Expire(c)) \/ (\E k \in DOMAIN page.timers : Redial(k))
      PROVE  Goal
  <2>1. UNCHANGED <<side, messages, sends>>
      BY <1>8 DEF Usurp, Expire, Redial
  <2>2. page'.shown = page.shown
      BY <1>1, <1>8 DEF Usurp, Expire, Redial, Pages
  <2> QED
      BY <2>1, <2>2 DEF Mine, Role
<1> QED
    BY <1>2, <1>4, <1>5, <1>6, <1>7, <1>8

LEMMA SaneHandled ==
  ASSUME Sane, NEW s \in sends, Patch(s) \/ Refuse(s)
  PROVE  Sane'
<1>1. s \in Sendings /\ s.id <= Len(messages)
    BY DEF Sane, Kept, Real
<1>2. PICK r : /\ sends' = (sends \ {s}) \cup {r} /\ r \in Sendings /\ r.id = s.id
    <2>1. CASE Patch(s)
      <3> DEFINE r == [s EXCEPT !.ran = "yes"]
      <3>1. sends' = (sends \ {s}) \cup {r}
          BY <2>1 DEF Patch, Becomes
      <3>2. r \in Sendings /\ r.id = s.id
          BY <1>1 DEF Sendings
      <3> QED
          BY <3>1, <3>2
    <2>2. CASE Refuse(s)
      <3> DEFINE r == [s EXCEPT !.ran = "refused"]
      <3>1. sends' = (sends \ {s}) \cup {r}
          BY <2>2 DEF Refuse, Becomes
      <3>2. r \in Sendings /\ r.id = s.id
          BY <1>1 DEF Sendings
      <3> QED
          BY <3>1, <3>2
    <2> QED
        BY <2>1, <2>2
<1>3. UNCHANGED <<side, messages, thread, closed, registered, channels, page, loads, cached, faults>>
    BY DEF Patch, Refuse
<1>4. Kept'
    BY <1>2, <1>3 DEF Sane, Kept
<1>5. Real'
    BY <1>1, <1>2, <1>3 DEF Sane, Real, Listed, Exist, Stored
<1> QED
    BY <1>4, <1>5 DEF Sane

----------------------------------------------------------------------------
(* The invariant. *)

Inv == Sane /\ Temporary

LEMMA InitInv == Init => Inv
<1> SUFFICES ASSUME Init PROVE Inv
    OBVIOUS
<1> USE Limits
<1>1. /\ <<>> \in Seq([from : Sides, read : BOOLEAN]) /\ Len(<<>>) = 0
      /\ <<>> \in Seq(Channels) /\ <<>> \in Seq(Convs) /\ <<>> \in Seq(Nat) /\ <<>> \in Seq(Int)
      /\ DOMAIN <<>> = {}
    OBVIOUS
<1>2. page \in Pages /\ page.shown = <<>> /\ page.ws = 0 /\ page.acked = {} /\ ~page.loaded
    BY <1>1 DEF Init, Blank, Pages
<1>3. thread \in [Convs -> Seq(Nat)] /\ \A c \in Convs : thread[c] = <<>>
    BY <1>1 DEF Init
<1>4. Kept
    BY <1>1, <1>2, <1>3 DEF Init, Kept
<1>5. Real
    BY <1>1, <1>2, <1>3 DEF Init, Real, Listed, Exist, IsInjective
<1>7. Temporary
  <2>1. 0 \in Nat /\ sends = {} /\ Range(page.shown) = {} /\ DOMAIN page.shown = {}
      BY <1>1, <1>2 DEF Init, Range
  <2> QED
      BY <2>1 DEF Temporary, TempIsSending, Once
<1> QED
    BY <1>4, <1>5, <1>7 DEF Inv, Sane

LEMMA TempRest ==
  ASSUME Sane, Temporary,
         \/ \E h \in DOMAIN channels :
              Greet(h) \/ Accept(h) \/ Subscribe(h) \/ ServerCloses(h) \/ Closes(h) \/ Cut(h)
         \/ \E l \in loads : Serve(l) \/ Arrive(l) \/ LoadFails(l)
         \/ \E c \in Convs : Enter(c) \/ Expire(c)
         \/ \E k \in DOMAIN page.timers : Redial(k)
         \/ Poll \/ Usurp
  PROVE  Temporary'
<1>1. /\ UNCHANGED <<side, sends>> /\ Mine \subseteq Mine'
      /\ \/ page'.shown = page.shown
         \/ IsInjective(page'.shown) /\ \A k \in DOMAIN page'.shown : page'.shown[k] \in Stored
    BY Lists
<1>2. Once(page'.shown, Mine) /\ \A k \in Range(page'.shown) : k < 0 => k \in Range(page.shown)
    BY <1>1, NoTemps
<1> QED
    BY <1>1, <1>2, TempLists

LEMMA StepInv ==
  ASSUME Inv, [Next]_vars
  PROVE  Inv'
<1> USE DEF Inv
<1>1. CASE \E h \in DOMAIN channels :
             Greet(h) \/ Accept(h) \/ Subscribe(h) \/ ServerCloses(h) \/ Closes(h) \/ Cut(h)
    BY <1>1, SaneSockets, TempRest
<1>2. CASE \E h \in DOMAIN channels : Deliver(h)
    BY <1>2, SaneDeliver, TempDeliver
<1>3. CASE \E s \in sends : Post(s) \/ CloseConversation(s)
    BY <1>3, SanePosts, TempPosts
<1>4. CASE \E s \in sends : Patch(s) \/ Refuse(s)
    BY <1>4, SaneHandled, TempPosts
<1>5. CASE \E s \in sends : Answered(s) \/ Reloads(s) \/ Failed(s)
    BY <1>5, Ends
<1>6. CASE LoadSteps
    BY <1>6, SaneGets, TempRest DEF LoadSteps
<1>7. CASE \/ \E c \in Convs : Enter(c) \/ Expire(c)
           \/ \E k \in DOMAIN page.timers : Redial(k)
           \/ Poll \/ Usurp
    BY <1>7, SaneVisits, TempRest
<1>8. CASE \/ \E n \in 1..MaxBatch : Send(n)
           \/ \E kind \in Kinds \ {"text"} : Ask(kind)
    BY <1>8, Starts
<1>9. CASE \E c \in Convs, from \in Sides : Elsewhere(c, from)
    BY <1>9, SanePosts, TempPosts
<1>10. CASE UNCHANGED vars
  <2>1. Kept' /\ Real'
      BY <1>10 DEF vars, Sane, Kept, Real, Listed, Exist, Stored
  <2>2. Mine' = Mine
      BY <1>10 DEF vars, Mine, Role
  <2>3. Temporary'
      BY <1>10, <2>2 DEF vars, Temporary, Owned, TempIsSending, Once
  <2> QED
      BY <2>1, <2>3 DEF Sane
<1>11. CASE SocketSteps
    BY <1>1, <1>2, <1>11 DEF SocketSteps
<1>12. CASE SendSteps
    BY <1>3, <1>4, <1>5, <1>12 DEF SendSteps
<1>13. CASE PageSteps
    BY <1>7, <1>8, <1>13 DEF PageSteps
<1>14. CASE Others
    BY <1>7, <1>9, <1>14 DEF Others
<1> QED
    BY <1>6, <1>10, <1>11, <1>12, <1>13, <1>14 DEF Next

LEMMA InvTypes ==
  ASSUME Inv
  PROVE  TypeOK
<1> USE Limits
<1>1. Kept /\ Real
    BY DEF Inv, Sane
<1>2. \A s \in sends : s \in Sendings
    BY <1>1 DEF Kept
<1>3. thread \in [Convs -> Seq(1..Len(messages))]
  <2>1. ASSUME NEW c \in Convs PROVE thread[c] \in Seq(1..Len(messages))
      BY <1>1, Elements DEF Kept, Real, Listed, Exist, Stored
  <2> QED
      BY <1>1, <2>1 DEF Kept
<1>4. \A h \in DOMAIN channels :
        /\ channels[h].conv \in Convs
        /\ channels[h].client \in {"opening", "open", "closing", "closed"}
        /\ channels[h].server \in {"none", "greeted", "up", "hears", "down"}
        /\ Range(channels[h].queue) \subseteq 1..Len(messages)
  <2> TAKE h \in DOMAIN channels
  <2>1. channels[h] \in Channels /\ Exist(channels[h].queue)
      BY <1>1, Elements DEF Kept, Real
  <2> QED
      BY <2>1 DEF Channels, Exist, Stored, Range
<1>5. /\ page.at \in Convs \cup {NoConv} /\ page.ws \in 0..Len(channels)
      /\ page.tries \in 0..MaxTries /\ page.timers \in Seq(Convs)
      /\ page.acked \subseteq 1..Len(messages)
    BY <1>1, Elements DEF Kept, Real, Pages, Stored
<1>6. \A i \in Range(page.shown) : i \in Int /\ i <= Len(messages)
    BY <1>1, Elements DEF Kept, Real, Pages, Range
<1>7. \A s \in sends : s.conv \in Convs /\ s.id \in 0..Len(messages) /\ s.ran \in {"no", "yes", "refused"}
    BY <1>1, <1>2 DEF Kept, Real, Sendings
<1>8. \A l \in loads : l.conv \in Convs /\ Range(l.body.ids) \subseteq 1..Len(messages)
    BY <1>1 DEF Kept, Real, Gets, Listed, Exist, Stored, Range
<1> QED
    BY <1>1, <1>3, <1>4, <1>5, <1>6, <1>7, <1>8 DEF TypeOK, Kept

\* However many mutations are under way, every variable keeps its type: no push, load or
\* answer, in whatever order, makes the tab show or acknowledge what is not stored.
THEOREM TypeCorrect == Spec => []TypeOK
<1>1. Init => Inv
    BY InitInv
<1>2. Inv /\ [Next]_vars => Inv'
    BY StepInv
<1>3. Inv => TypeOK
    BY InvTypes
<1> QED
    BY <1>1, <1>2, <1>3, PTL DEF Spec

\* However many mutations are under way, what the other side writes is shown once, although it
\* may come pushed once or twice and with lists that were loaded at any time, in any order.
THEOREM OthersOnce == Spec => []OthersShownOnce
<1>1. Init => Inv
    BY InitInv
<1>2. Inv /\ [Next]_vars => Inv'
    BY StepInv
<1>3. Inv => OthersShownOnce
    BY DEF Inv, Temporary, Once, Mine, OthersShownOnce
<1> QED
    BY <1>1, <1>2, <1>3, PTL DEF Spec

\* However many mutations are under way, no temporary message outlives its send, however pushes
\* and loads replaced the list meanwhile.
THEOREM NoneStaysSending == Spec => []TempIsSending
<1>1. Init => Inv
    BY InitInv
<1>2. Inv /\ [Next]_vars => Inv'
    BY StepInv
<1>3. Inv => TempIsSending
    BY DEF Inv, Temporary
<1> QED
    BY <1>1, <1>2, <1>3, PTL DEF Spec

----------------------------------------------------------------------------
(* What a shopper's tab acknowledges. *)

Opened(c) == \E h \in DOMAIN channels : channels[h].conv = c
Near(i) == \E c \in Convs : Opened(c) /\ In(i, c)

\* A socket hears, of what the page takes for the other side's, only its own conversation.
Heard(i, c) == Foreign(i) => In(i, c)
\* What the tab sends, it sends to a conversation it has opened.
Placed(s) == Opened(s.conv) /\ (s.id # 0 => In(s.id, s.conv))

\* What the other side sent is read, shown, pushed and loaded only in conversations that this
\* tab has opened, and so is what it is sending.
Reading ==
  /\ \A i \in DOMAIN messages : messages[i].read /\ Foreign(i) => Near(i)
  /\ \A x \in Range(page.shown) : x > 0 /\ Foreign(x) => Near(x)
  /\ \A h \in DOMAIN channels : \A k \in DOMAIN channels[h].queue :
       Heard(channels[h].queue[k], channels[h].conv)
  /\ \A l \in loads : Opened(l.conv) /\ Range(l.body.ids) \subseteq Range(thread[l.conv])
  /\ \A c \in DOMAIN cached : Opened(c) /\ Range(cached[c].ids) \subseteq Range(thread[c])
  /\ \A s \in sends : Placed(s)
  /\ page.at # NoConv => Opened(page.at)

\* No socket hears anything new.
NoNews ==
  \A h \in DOMAIN channels' : \A k \in DOMAIN channels'[h].queue :
    h \in DOMAIN channels /\ \E j \in DOMAIN channels[h].queue : channels'[h].queue[k] = channels[h].queue[j]

\* No step closes what was opened.
Grown ==
  /\ side' = side
  /\ \A i \in DOMAIN messages : messages'[i].from = messages[i].from
  /\ \A h \in DOMAIN channels : h \in DOMAIN channels' /\ channels'[h].conv = channels[h].conv
  /\ \A c \in Convs : Range(thread[c]) \subseteq Range(thread'[c])

LEMMA Grows ==
  ASSUME Sane, Grown
  PROVE  /\ \A c : Opened(c) => Opened(c)'
         /\ \A i : Near(i) => Near(i)'
         /\ \A i \in DOMAIN messages : Foreign(i)' = Foreign(i)
         /\ \A x \in Range(page.shown) : x > 0 => x \in DOMAIN messages
<1>1. \A c : Opened(c) => Opened(c)'
    BY DEF Grown, Opened
<1>2. \A i : Near(i) => Near(i)'
    BY <1>1 DEF Grown, Near, In
<1>3. \A i \in DOMAIN messages : Foreign(i)' = Foreign(i)
    BY DEF Grown, Foreign, MySide, Agent
<1>4. \A x \in Range(page.shown) : x > 0 => x \in DOMAIN messages
  <2>1. /\ page.shown \in Seq(Int) /\ messages \in Seq([from : Sides, read : BOOLEAN])
        /\ \A k \in DOMAIN page.shown : page.shown[k] <= Len(messages)
      BY DEF Sane, Kept, Real, Pages
  <2> QED
      BY <2>1, Elements DEF Range
<1> QED
    BY <1>1, <1>2, <1>3, <1>4

\* What remains of the lists loaded and kept, and of what is being sent.
LEMMA StillOpened ==
  ASSUME Sane, Reading, Grown
  PROVE  /\ \A l \in loads : (Opened(l.conv) /\ Range(l.body.ids) \subseteq Range(thread[l.conv]))'
         /\ \A c \in DOMAIN cached : Opened(c)' /\ Range(cached[c].ids) \subseteq Range(thread'[c])
         /\ \A s \in sends : Placed(s)'
         /\ page.at # NoConv => \E c : c = page.at /\ Opened(c)'
         /\ NoNews => \A h \in DOMAIN channels' : \A k \in DOMAIN channels'[h].queue :
                        Heard(channels[h].queue[k], channels[h].conv)'
<1>1. \A c : Opened(c) => Opened(c)'
    BY Grows
<1>2. /\ \A l \in loads : l.conv \in Convs
      /\ \A c \in DOMAIN cached : c \in Convs
      /\ \A s \in sends : s.conv \in Convs
    BY DEF Sane, Kept, Gets, Sendings
<1>3. \A c \in Convs : Range(thread[c]) \subseteq Range(thread'[c])
    BY DEF Grown
<1>4. \A l \in loads : (Opened(l.conv) /\ Range(l.body.ids) \subseteq Range(thread[l.conv]))'
  <2> TAKE l \in loads
  <2>1. Opened(l.conv) /\ Range(l.body.ids) \subseteq Range(thread[l.conv])
      BY DEF Reading
  <2> QED
      BY <1>1, <1>2, <1>3, <2>1
<1>5. \A c \in DOMAIN cached : Opened(c)' /\ Range(cached[c].ids) \subseteq Range(thread'[c])
    BY <1>1, <1>2, <1>3 DEF Reading
<1>6. \A s \in sends : Placed(s)'
  <2> TAKE s \in sends
  <2>1. Opened(s.conv) /\ (s.id # 0 => s.id \in Range(thread[s.conv]))
      BY DEF Reading, Placed, In
  <2>2. Opened(s.conv)' /\ (s.id # 0 => s.id \in Range(thread'[s.conv]))
      BY <1>1, <1>2, <1>3, <2>1
  <2> QED
      BY <2>2 DEF Placed, In
<1>7. ASSUME NoNews, NEW h \in DOMAIN channels', NEW k \in DOMAIN channels'[h].queue
      PROVE  Heard(channels[h].queue[k], channels[h].conv)'
  <2>1. PICK j \in DOMAIN channels[h].queue : channels'[h].queue[k] = channels[h].queue[j]
      BY <1>7 DEF NoNews
  <2>2. h \in DOMAIN channels /\ channels'[h].conv = channels[h].conv
      BY <1>7 DEF NoNews, Grown
  <2> DEFINE x == channels[h].queue[j]
             c == channels[h].conv
  <2>3. x \in DOMAIN messages /\ c \in Convs
    <3>1. x \in 1..Len(messages) /\ channels[h] \in Channels
        BY <2>1, <2>2, Elements DEF Sane, Kept, Real, Exist, Stored
    <3> QED
        BY <3>1, Elements DEF Sane, Kept, Channels
  <2>4. Foreign(x) => x \in Range(thread[c])
      BY <2>1, <2>2 DEF Reading, Heard, In
  <2> HIDE DEF x, c
  <2>5. \A y : y = x /\ Foreign(y)' => y \in Range(thread'[c])
      BY <1>3, <2>3, <2>4, Grows
  <2>6. \A y, d : y = x /\ d = c => Heard(y, d)'
      BY <2>5 DEF Heard, In, Foreign
  <2> QED
      BY <2>1, <2>2, <2>6 DEF Heard, In, Foreign, x, c
<1> QED
    BY <1>1, <1>4, <1>5, <1>6, <1>7 DEF Reading

LEMMA Reads ==
  ASSUME Sane, Reading, Grown,
         \A i \in DOMAIN messages' : messages'[i].read =>
           /\ i \in DOMAIN messages
           /\ \/ messages[i].read \/ Near(i)' \/ (i \in Range(page.shown) /\ i > 0)
              \/ ~Foreign(i)',
         \A x \in Range(page'.shown) : x > 0 => x \in Range(page.shown) \/ Near(x)' \/ ~Foreign(x)',
         NoNews \/ \A h \in DOMAIN channels' : \A k \in DOMAIN channels'[h].queue :
                     Heard(channels[h].queue[k], channels[h].conv)',
         \A l \in loads' : (Opened(l.conv) /\ Range(l.body.ids) \subseteq Range(thread[l.conv]))',
         \A c \in DOMAIN cached' : Opened(c)' /\ Range(cached'[c].ids) \subseteq Range(thread'[c]),
         \A s \in sends' : Placed(s)',
         page'.at # NoConv => Opened(page.at)'
  PROVE  Reading'
<1>1. /\ \A i : Near(i) => Near(i)'
      /\ \A i \in DOMAIN messages : Foreign(i)' = Foreign(i)
      /\ \A x \in Range(page.shown) : x > 0 => x \in DOMAIN messages
    BY Grows
<1>2. \A x \in Range(page.shown) : x > 0 /\ Foreign(x)' => Near(x)'
    BY <1>1 DEF Reading
<1>3. \A i \in DOMAIN messages' : messages'[i].read /\ Foreign(i)' => Near(i)'
    BY <1>1, <1>2 DEF Reading
<1>4. \A x \in Range(page'.shown) : x > 0 /\ Foreign(x)' => Near(x)'
    BY <1>2
<1>5. \A h \in DOMAIN channels' : \A k \in DOMAIN channels'[h].queue :
        Heard(channels[h].queue[k], channels[h].conv)'
    BY StillOpened
<1> QED
    BY <1>3, <1>4, <1>5 DEF Reading

\* The steps that change no table leave the conversations as they are.
LEMMA SameGrown ==
  ASSUME UNCHANGED <<side, thread>>,
         \A i \in DOMAIN messages : messages'[i].from = messages[i].from,
         \A h \in DOMAIN channels : h \in DOMAIN channels' /\ channels'[h].conv = channels[h].conv
  PROVE  Grown
BY DEF Grown

LEMMA ReadSockets ==
  ASSUME Sane, Reading, NEW h \in DOMAIN channels,
         \/ Greet(h) \/ Accept(h) \/ Subscribe(h) \/ ServerCloses(h) \/ Closes(h) \/ Cut(h)
  PROVE  Reading'
<1>1. /\ Same(channels, channels')
      /\ page'.shown = page.shown /\ page'.at = page.at
      /\ messages' \in Seq([from : Sides, read : BOOLEAN]) /\ Len(messages') = Len(messages)
      /\ \A i \in DOMAIN messages :
           /\ messages'[i].from = messages[i].from
           /\ messages'[i].read => messages[i].read \/ In(i, channels[h].conv)
      /\ UNCHANGED <<side, thread, sends, loads, cached>>
    BY Sockets DEF Sane
<1>2. Grown
    BY <1>1, SameGrown DEF Same
<1>3. DOMAIN messages' = DOMAIN messages
    BY <1>1, Elements DEF Sane, Kept
<1>4. channels[h].conv \in Convs /\ Opened(channels[h].conv)
  <2>1. channels[h] \in Channels
      BY Elements DEF Sane, Kept
  <2> QED
      BY <2>1 DEF Channels, Opened
<1>5. \A i : In(i, channels[h].conv) => Near(i)'
    BY <1>2, <1>4, Grows DEF Near
<1>6. NoNews
    BY <1>1 DEF Same, NoNews
<1> QED
    BY <1>1, <1>2, <1>3, <1>5, <1>6, Reads, StillOpened

LEMMA ReadDeliver ==
  ASSUME Sane, Reading, ~Agent, NEW h \in DOMAIN channels, Deliver(h)
  PROVE  Reading'
<1> DEFINE i == Head(channels[h].queue)
           m == Merge(page.shown, i)
<1>0. i = Head(channels[h].queue)
    OBVIOUS
<1> HIDE DEF i
<1>1. /\ i \in Stored /\ i \in Range(channels[h].queue)
      /\ DOMAIN channels' = DOMAIN channels
      /\ \A g \in DOMAIN channels :
           /\ channels'[g].conv = channels[g].conv
           /\ \A k \in DOMAIN channels'[g].queue :
                \E j \in DOMAIN channels[g].queue : channels'[g].queue[k] = channels[g].queue[j]
      /\ page'.at = page.at /\ page'.shown \in {page.shown, m}
      /\ messages' \in Seq([from : Sides, read : BOOLEAN]) /\ Len(messages') = Len(messages)
      /\ \A j \in DOMAIN messages : messages'[j].from = messages[j].from
      /\ \A j \in DOMAIN messages : messages'[j].read =>
           messages[j].read \/ Agent \/ j = i \/ (j \in Range(page.shown) /\ j > 0)
      /\ UNCHANGED <<side, thread, sends, loads, cached>>
    BY <1>0, Delivers
<1>2. Grown
    BY <1>1, SameGrown
<1>3. DOMAIN messages' = DOMAIN messages
    BY <1>1, Elements DEF Sane, Kept
<1>4. channels[h].conv \in Convs /\ Opened(channels[h].conv)
  <2>1. channels[h] \in Channels
      BY Elements DEF Sane, Kept
  <2> QED
      BY <2>1 DEF Channels, Opened
<1>5. Heard(i, channels[h].conv)
    BY <1>1 DEF Reading, Range
<1>6. \A x : x = i => Near(x)' \/ ~Foreign(x)'
  <2>1. i \in DOMAIN messages
      BY <1>1, Elements DEF Sane, Kept, Stored
  <2>2. Foreign(i) => Near(i)
      BY <1>4, <1>5 DEF Near, Heard
  <2> QED
      BY <1>2, <2>1, <2>2, Grows
<1>7. \A x \in Range(page'.shown) : x \in Range(page.shown) \/ x = i
  <2>1. page.shown \in Seq(Int) /\ i \in Nat /\ i # 0
      BY <1>1 DEF Sane, Kept, Pages, Stored
  <2>2. Range(m) \subseteq Range(page.shown) \cup {i}
      BY <2>1, Merges
  <2> HIDE DEF m
  <2> QED
      BY <1>1, <2>2
<1>8. NoNews
    BY <1>1 DEF NoNews
<1> QED
    BY <1>1, <1>2, <1>3, <1>6, <1>7, <1>8, Reads, StillOpened

\* A conversation is loaded that the tab has opened, or opens with this step.
LEMMA ReadLoad ==
  ASSUME Sane, Reading, ~Agent, NEW p \in Pages, NEW c \in Convs, NEW kept, Load(p, c, kept),
         DOMAIN kept \subseteq DOMAIN cached, \A d \in DOMAIN kept : kept[d] = cached[d],
         p.shown = page.shown, p.acked = page.acked, p.at # NoConv => Opened(p.at)', Opened(c)',
         \A h \in DOMAIN channels : h \in DOMAIN channels' /\ channels'[h].conv = channels[h].conv,
         NoNews, sends' \subseteq sends, UNCHANGED <<side, thread>>
  PROVE  Reading'
<1>1. /\ cached' = kept /\ \A d \in DOMAIN cached' : d \in DOMAIN cached /\ cached'[d] = cached[d]
      /\ page'.at = p.at
      /\ messages' \in Seq([from : Sides, read : BOOLEAN]) /\ Len(messages') = Len(messages)
      /\ \A i \in DOMAIN messages : messages'[i].from = messages[i].from
      /\ \/ /\ c \in DOMAIN cached /\ page'.shown = cached[c].ids
            /\ \A i \in DOMAIN messages : messages'[i].read =>
                 messages[i].read \/ Agent \/ i \in Range(cached[c].ids)
            /\ UNCHANGED loads
         \/ /\ page'.shown = page.shown
            /\ loads' = loads \cup {Get(c)}
            /\ UNCHANGED messages
    BY Loads
<1>2. Grown
    BY <1>1, SameGrown
<1>3. DOMAIN messages' = DOMAIN messages
    BY <1>1, Elements DEF Sane, Kept
<1>4. ASSUME c \in DOMAIN cached, NEW i \in Range(cached[c].ids) PROVE Near(i)'
    BY <1>4 DEF Reading, Near, In
<1>5. \A l \in loads' : (Opened(l.conv) /\ Range(l.body.ids) \subseteq Range(thread[l.conv]))'
  <2>1. Get(c).conv = c /\ Range(Get(c).body.ids) = {}
      BY DEF Get, Body, Range
  <2>2. \A l \in loads' : l \in loads \/ l = Get(c)
      BY <1>1
  <2>3. \A l : l = Get(c) => (Opened(l.conv) /\ Range(l.body.ids) \subseteq Range(thread[l.conv]))'
      BY <2>1
  <2> QED
      BY <1>2, <2>2, <2>3, StillOpened
<1>6. \A d \in DOMAIN cached' : Opened(d)' /\ Range(cached'[d].ids) \subseteq Range(thread'[d])
    BY <1>1, <1>2, StillOpened
<1>7. \A s \in sends' : Placed(s)'
    BY <1>2, StillOpened
<1>8. page'.at # NoConv => Opened(page.at)'
    BY <1>1
<1>9. \A x \in Range(page'.shown) : x > 0 => x \in Range(page.shown) \/ Near(x)' \/ ~Foreign(x)'
    BY <1>1, <1>4
<1>10. \A i \in DOMAIN messages' : messages'[i].read =>
         /\ i \in DOMAIN messages
         /\ messages[i].read \/ Near(i)' \/ (i \in Range(page.shown) /\ i > 0)
    BY <1>1, <1>3, <1>4
<1> QED
    BY <1>2, <1>5, <1>6, <1>7, <1>8, <1>9, <1>10, Reads

LEMMA ReadVisits ==
  ASSUME Sane, Reading, ~Agent,
         \/ \E c \in Convs : Enter(c) \/ Expire(c)
         \/ \E k \in DOMAIN page.timers : Redial(k)
         \/ Poll \/ Usurp
         \/ \E s \in sends : Reloads(s)
  PROVE  Reading'
<1>1. /\ channels \in Seq(Channels) /\ page \in Pages /\ Len(channels) \in Nat
      /\ \A h \in DOMAIN channels : Exist(channels[h].queue)
      /\ \A s \in sends : s.conv \in Convs
    BY Elements DEF Sane, Kept, Real, Sendings
<1>2. ASSUME NEW c \in Convs, NEW k, Same(channels, k), channels' = Append(k, Channel(c))
      PROVE  /\ \A h \in DOMAIN channels : h \in DOMAIN channels' /\ channels'[h].conv = channels[h].conv
             /\ Opened(c)'
             /\ NoNews
  <2>1. /\ DOMAIN channels' = DOMAIN channels \cup {Len(channels) + 1}
        /\ \A h \in DOMAIN channels :
             channels'[h].conv = channels[h].conv /\ channels'[h].queue \in {channels[h].queue, <<>>}
        /\ channels'[Len(channels) + 1] = Channel(c)
      BY <1>1, <1>2, Dials
  <2>2. Channel(c).conv = c /\ Channel(c).queue = <<>>
      BY DEF Channel
  <2>3. Opened(c)'
      BY <2>1, <2>2 DEF Opened
  <2>4. NoNews
      BY <2>1, <2>2 DEF NoNews
  <2> QED
      BY <2>1, <2>3, <2>4
<1>3. ASSUME NEW c \in Convs, Enter(c) PROVE Reading'
  <2> DEFINE t == IF Agent THEN 0 ELSE MaxTries
             u == IF page.timers = <<>> THEN page.timers ELSE Front(page.timers)
             w == Len(channels) + 1
             p == [page EXCEPT !.at = c, !.ws = w, !.tries = t, !.timers = u]
  <2>1. Load(p, c, cached) /\ channels' = Append(HangUp, Channel(c)) /\ UNCHANGED <<side, thread, sends>>
      BY <1>3 DEF Enter
  <2>2. p \in Pages /\ p.shown = page.shown /\ p.acked = page.acked /\ p.at = c
      BY EntersPage
  <2> HIDE DEF p
  <2>3. /\ \A h \in DOMAIN channels : h \in DOMAIN channels' /\ channels'[h].conv = channels[h].conv
        /\ Opened(c)' /\ NoNews
      BY <1>1, <1>2, <2>1, HangsUp
  <2>4. \A d : d = p.at => Opened(d)'
      BY <2>2, <2>3
  <2> QED
      BY <2>1, <2>2, <2>3, <2>4, ReadLoad
<1>4. ASSUME NEW k \in DOMAIN page.timers, Redial(k) PROVE Reading'
  <2>1. page.timers[k] \in Convs
      BY <1>1, Elements DEF Pages
  <2>2. /\ channels' = Append(channels, Channel(page.timers[k]))
        /\ UNCHANGED <<side, messages, thread, sends, loads, cached>>
      BY <1>4 DEF Redial
  <2>3. Same(channels, channels)
      BY <1>1 DEF Same
  <2>4. /\ \A h \in DOMAIN channels : h \in DOMAIN channels' /\ channels'[h].conv = channels[h].conv
        /\ NoNews
      BY <1>2, <2>1, <2>2, <2>3
  <2>5. page'.shown = page.shown /\ page'.at = page.at
      BY <1>1, <1>4 DEF Redial, Pages
  <2>6. Grown
      BY <2>2, <2>4, SameGrown
  <2> QED
      BY <2>2, <2>4, <2>5, <2>6, Reads, StillOpened
<1>5. CASE Usurp
  <2>1. Same(channels, channels') /\ UNCHANGED <<side, messages, thread, page, sends, loads, cached>>
      BY <1>1, <1>5, KickSame DEF Usurp
  <2>2. Grown
      BY <2>1, SameGrown DEF Same
  <2>3. NoNews
      BY <2>1 DEF Same, NoNews
  <2> QED
      BY <2>1, <2>2, <2>3, Reads, StillOpened
<1>6. ASSUME NEW c \in Convs, Expire(c) PROVE Reading'
  <2>1. /\ UNCHANGED <<side, messages, thread, channels, page, sends, loads>>
        /\ \A d \in DOMAIN cached' : d \in DOMAIN cached /\ cached'[d] = cached[d]
      BY <1>6 DEF Expire, Without
  <2> QED
    <3>1. Grown
        BY <2>1, SameGrown
    <3>2. NoNews
        BY <2>1 DEF NoNews
    <3>3. \A d \in DOMAIN cached' : Opened(d)' /\ Range(cached'[d].ids) \subseteq Range(thread'[d])
        BY <2>1, <3>1, StillOpened
    <3> QED
        BY <2>1, <3>1, <3>2, <3>3, Reads, StillOpened
<1>7. ASSUME NEW s \in sends, Reloads(s) PROVE Reading'
  <2>1. /\ Load(page, s.conv, After(s)) /\ sends' \subseteq sends
        /\ UNCHANGED <<side, thread, channels>>
      BY <1>7 DEF Reloads
  <2>2. /\ DOMAIN After(s) \subseteq DOMAIN cached
        /\ \A d \in DOMAIN After(s) : After(s)[d] = cached[d]
      BY AfterKeeps
  <2>3. (page.at # NoConv => Opened(page.at)) /\ Opened(s.conv)
      BY DEF Reading, Placed
  <2>4. \A c : Opened(c)' = Opened(c)
      BY <2>1 DEF Opened
  <2>5. NoNews
      BY <2>1 DEF NoNews
  <2>6. \A c : c = page.at /\ page.at # NoConv => Opened(c)'
      BY <2>3, <2>4
  <2>7. \A c : c = s.conv => Opened(c)'
      BY <2>3, <2>4
  <2> DEFINE p == page
  <2>8. p \in Pages /\ p.shown = page.shown /\ p.acked = page.acked /\ Load(p, s.conv, After(s))
      BY <1>1, <2>1
  <2> QED
      BY <1>1, <2>1, <2>2, <2>5, <2>6, <2>7, <2>8, ReadLoad
<1> QED
    BY <1>3, <1>4, <1>5, <1>6, <1>7 DEF Poll

LEMMA ReadGets ==
  ASSUME Sane, Reading, ~Agent, NEW l \in loads, Serve(l) \/ Arrive(l) \/ LoadFails(l)
  PROVE  Reading'
<1>1. l \in Gets /\ l.conv \in Convs /\ page \in Pages /\ Kept
    BY DEF Sane, Kept, Gets
<1>2. UNCHANGED <<side, thread, channels, sends>>
    BY DEF Serve, Arrive, LoadFails
<1>3. NoNews
    BY <1>2 DEF NoNews
<1>4. Opened(l.conv) /\ Range(l.body.ids) \subseteq Range(thread[l.conv])
    BY DEF Reading
<1>5. CASE Serve(l)
  <2> DEFINE r == [l EXCEPT !.served = TRUE, !.body = Detail(l.conv)]
  <2>1. loads' = (loads \ {l}) \cup {r} /\ UNCHANGED <<messages, page, cached>>
      BY <1>5 DEF Serve
  <2>2. r.conv = l.conv /\ r.body.ids = thread[l.conv]
      BY <1>1 DEF Gets, Detail, Body
  <2> HIDE DEF r
  <2>3. Grown
      BY <1>2, <2>1, SameGrown
  <2>4. \A x \in loads' : (Opened(x.conv) /\ Range(x.body.ids) \subseteq Range(thread[x.conv]))'
    <3>1. \A x : x = r => (Opened(x.conv) /\ Range(x.body.ids) \subseteq Range(thread[x.conv]))'
        BY <1>2, <1>4, <2>2 DEF Opened
    <3> QED
        BY <2>1, <2>3, <3>1, StillOpened
  <2> QED
      BY <1>2, <1>3, <2>1, <2>3, <2>4, Reads, StillOpened
<1>6. CASE Arrive(l)
  <2> DEFINE q == l.body.ids
             u == l.body.unread
             none == {}
  <2>1. q \in Seq(Nat) /\ Listed(q)
      BY <1>1 DEF Sane, Real, Gets, Bodies
  <2>2. q \in Seq(Int)
      BY <2>1, Wider
  <2>3. Displays(page, q, u, none) /\ loads' = loads \ {l}
      BY <1>6 DEF Arrive
  <2>4. \A d \in DOMAIN cached' :
          (d = l.conv /\ cached'[d] = l.body) \/ (d \in DOMAIN cached /\ cached'[d] = cached[d])
    <3>1. cached' = [d \in DOMAIN cached \cup {l.conv} |-> IF d = l.conv THEN l.body ELSE cached[d]]
        BY <1>6 DEF Arrive
    <3> QED
        BY <3>1
  <2> HIDE DEF q, u, none
  <2>5. /\ page'.shown = q /\ page'.at = page.at
        /\ messages' \in Seq([from : Sides, read : BOOLEAN]) /\ Len(messages') = Len(messages)
        /\ \A i \in DOMAIN messages : messages'[i].from = messages[i].from
        /\ \A i \in DOMAIN messages : messages'[i].read =>
             messages[i].read \/ i \in none \/ Agent \/ (i \in Range(q) /\ i > 0)
      BY <1>1, <2>2, <2>3, DisplaysKeep
  <2>6. Grown
      BY <1>2, <2>5, SameGrown
  <2>7. \A x \in Range(q) : Near(x)'
      BY <1>1, <1>4, <2>6, Grows DEF Near, In, q
  <2>8. DOMAIN messages' = DOMAIN messages
      BY <1>1, <2>5, Elements DEF Kept
  <2>9. \A d \in DOMAIN cached' : Opened(d)' /\ Range(cached'[d].ids) \subseteq Range(thread'[d])
    <3>1. \A c : c = l.conv => Opened(c)'
        BY <1>4, <2>6, Grows
    <3> QED
        BY <1>2, <1>4, <2>4, <2>6, <3>1, StillOpened
  <2>10. \A i \in DOMAIN messages' : messages'[i].read =>
           /\ i \in DOMAIN messages
           /\ messages[i].read \/ Near(i)' \/ (i \in Range(page.shown) /\ i > 0)
      BY <2>5, <2>7, <2>8 DEF none
  <2>11. \A x \in Range(page'.shown) : Near(x)'
      BY <2>5, <2>7
  <2>12. /\ \A x \in loads' : (Opened(x.conv) /\ Range(x.body.ids) \subseteq Range(thread[x.conv]))'
         /\ \A s \in sends' : Placed(s)'
         /\ page'.at # NoConv => Opened(page.at)'
      BY <1>2, <2>3, <2>5, <2>6, StillOpened
  <2> QED
      BY <1>3, <2>6, <2>9, <2>10, <2>11, <2>12, Reads
<1>7. CASE LoadFails(l)
  <2>1. /\ UNCHANGED <<messages, page>> /\ loads' \subseteq loads
        /\ \A d \in DOMAIN cached' : d \in DOMAIN cached /\ cached'[d] = cached[d]
      BY <1>7 DEF LoadFails, Without
  <2>2. Grown
      BY <1>2, <2>1, SameGrown
  <2>3. \A d \in DOMAIN cached' : Opened(d)' /\ Range(cached'[d].ids) \subseteq Range(thread'[d])
      BY <2>1, <2>2, StillOpened
  <2> QED
      BY <1>2, <1>3, <2>1, <2>2, <2>3, Reads, StillOpened
<1> QED
    BY <1>5, <1>6, <1>7

\* A message is heard by the sockets of its own conversation only, but for what a shopper writes
\* and staff hear, and is not read when stored.
LEMMA ReadAppends ==
  ASSUME Sane, Reading, ~Agent, NEW c \in Convs, NEW from \in Sides,
         Len(messages) < MaxMessages, Appends(c, from), faults \in 0..MaxFaults,
         Publish(Len(messages) + 1, c, from) \/ UNCHANGED channels,
         \A s \in sends' : \E r \in sends :
           s.conv = r.conv /\ (s.id = r.id \/ (s.id = Len(messages) + 1 /\ s.conv = c)),
         UNCHANGED <<side, page, loads, cached>>
  PROVE  Reading'
<1> DEFINE n == Len(messages) + 1
<1>1. /\ messages' \in Seq([from : Sides, read : BOOLEAN])
      /\ Len(messages) \in Nat
      /\ DOMAIN messages' = 1..n /\ DOMAIN messages = 1..Len(messages)
      /\ \A i \in DOMAIN messages : messages'[i] = messages[i]
      /\ messages'[n] = [from |-> from, read |-> FALSE]
      /\ thread' \in [Convs -> Seq(Nat)]
      /\ \A d \in Convs : d # c => thread'[d] = thread[d]
      /\ thread'[c] = Append(thread[c], n)
    BY AppendsKeep DEF Sane
<1>2. n \in Nat
    BY <1>1
<1>3. /\ Range(thread[c]) \subseteq Range(thread'[c]) /\ n \in Range(thread'[c])
  <2>1. thread[c] \in Seq(Nat)
      BY DEF Sane, Kept
  <2> HIDE DEF n
  <2>2. /\ Len(thread'[c]) = Len(thread[c]) + 1 /\ thread'[c] \in Seq(Nat)
        /\ \A k \in 1..Len(thread[c]) : thread'[c][k] = thread[c][k]
        /\ thread'[c][Len(thread[c]) + 1] = n
      BY <1>1, <1>2, <2>1, AppendProperties
  <2>3. /\ DOMAIN thread[c] = 1..Len(thread[c]) /\ Len(thread[c]) \in Nat
        /\ DOMAIN thread'[c] = 1..Len(thread[c]) + 1
      BY <2>1, <2>2, Elements
  <2>4. \A k \in DOMAIN thread[c] : k \in DOMAIN thread'[c] /\ thread'[c][k] = thread[c][k]
      BY SMTT(20), <2>2, <2>3
  <2>5. Len(thread[c]) + 1 \in DOMAIN thread'[c]
      BY <2>3
  <2> QED
      BY <2>2, <2>4, <2>5 DEF Range
<1>4. /\ DOMAIN channels' = DOMAIN channels
      /\ \A h \in DOMAIN channels :
           /\ channels'[h].conv = channels[h].conv
           /\ \A k \in DOMAIN channels'[h].queue :
                \/ \E j \in DOMAIN channels[h].queue : channels'[h].queue[k] = channels[h].queue[j]
                \/ channels'[h].queue[k] = n /\ Copies(h, c, from) # 0
  <2>1. channels \in Seq(Channels) /\ faults \in 0..MaxFaults
      BY DEF Sane, Kept
  <2>2. CASE UNCHANGED channels
      BY <2>2
  <2>3. CASE Publish(n, c, from)
    <3> HIDE DEF n
    <3>1. channels \in Seq(Channels) /\ faults \in 0..MaxFaults /\ n \in Nat /\ Publish(n, c, from)
        BY <1>2, <2>1, <2>3
    <3> QED
        BY ONLY <3>1, PublishKeeps
  <2> QED
      BY <2>2, <2>3
<1>5. \A h : Copies(h, c, from) # 0 => channels[h].conv = c \/ (Role = "admin" /\ from = "user")
    BY DEF Copies
<1> HIDE DEF n
<1>6. Grown
    BY <1>1, <1>3, <1>4 DEF Grown
<1>7. \A h \in DOMAIN channels : channels[h].conv \in Convs
  <2>1. \A h \in DOMAIN channels : channels[h] \in Channels
      BY Elements DEF Sane, Kept
  <2> QED
      BY <2>1 DEF Channels
<1>8. ASSUME NEW h \in DOMAIN channels', NEW k \in DOMAIN channels'[h].queue,
             NEW x, x = channels'[h].queue[k]
      PROVE  Heard(x, channels[h].conv)'
  <2>1. CASE \E j \in DOMAIN channels[h].queue : x = channels[h].queue[j]
    <3>1. PICK j \in DOMAIN channels[h].queue : x = channels[h].queue[j]
        BY <2>1
    <3>2. Foreign(x) => x \in Range(thread[channels[h].conv])
        BY <1>4, <3>1 DEF Reading, Heard, In
    <3>3. x \in DOMAIN messages
      <4>1. x \in 1..Len(messages)
          BY <1>4, <3>1 DEF Sane, Real, Exist, Stored
      <4> QED
          BY <1>1, <4>1
    <3>4. Foreign(x)' => x \in Range(thread'[channels[h].conv])
        BY <1>4, <1>6, <1>7, <3>2, <3>3, Grows DEF Grown
    <3> QED
        BY <1>4, <3>4 DEF Heard, In
  <2>2. CASE x = n /\ channels[h].conv = c
      BY <1>3, <1>4, <2>2 DEF Heard, In
  <2>3. CASE x = n /\ from = "user"
    <3>1. messages'[x].from = "user"
        BY <1>1, <2>3
    <3>2. MySide' = "user"
        BY DEF MySide, Agent
    <3> QED
        BY <3>1, <3>2 DEF Heard, Foreign
  <2> QED
      BY <1>4, <1>5, <1>8, <2>1, <2>2, <2>3
<1>9. \A i \in DOMAIN messages' : messages'[i].read => i \in DOMAIN messages /\ messages[i].read
  <2>1. \A i \in 1..n : i = n \/ i \in 1..Len(messages)
      BY <1>1 DEF n
  <2> QED
      BY <1>1, <2>1
<1>10. ASSUME NEW s \in sends' PROVE Placed(s)'
  <2>1. PICK r \in sends : s.conv = r.conv /\ (s.id = r.id \/ (s.id = n /\ s.conv = c))
      BY <1>10 DEF n
  <2>2. Opened(r.conv)' /\ (r.id # 0 => r.id \in Range(thread'[r.conv]))
      BY <1>6, StillOpened DEF Placed, In
  <2>3. Opened(s.conv)' /\ (s.id # 0 => s.id \in Range(thread'[s.conv]))
    <3>1. \A d : d = r.conv => Opened(d)'
        BY <2>2
    <3> QED
        BY <1>3, <2>1, <2>2, <3>1
  <2> QED
      BY <2>3 DEF Placed, In
<1> QED
    BY <1>6, <1>8, <1>9, <1>10, Reads, StillOpened

LEMMA ReadPosts ==
  ASSUME Sane, Reading, ~Agent,
         \/ \E c \in Convs, from \in Sides : Elsewhere(c, from)
         \/ \E s \in sends : Post(s) \/ CloseConversation(s)
  PROVE  Reading'
<1>1. /\ faults \in 0..MaxFaults /\ Role \in Sides /\ "admin" \in Sides
      /\ \A s \in sends : s \in Sendings /\ s.conv \in Convs
    BY DEF Sane, Kept, Sendings, Sides, Role
<1>2. ASSUME NEW c \in Convs, NEW from \in Sides, Elsewhere(c, from) PROVE Reading'
    BY <1>1, <1>2, ReadAppends DEF Elsewhere, Stores
<1>3. ASSUME NEW s \in sends, Post(s) PROVE Reading'
  <2> DEFINE r == [s EXCEPT !.ran = "yes", !.id = Len(messages) + 1]
  <2>1. /\ Stores(s.conv, Role) /\ sends' = (sends \ {s}) \cup {r}
        /\ UNCHANGED <<side, page, loads, cached>>
      BY <1>3 DEF Post, Becomes
  <2>2. r.conv = s.conv /\ r.id = Len(messages) + 1
      BY <1>1 DEF Sendings
  <2> HIDE DEF r
  <2>3. \A x \in sends' : \E y \in sends :
          x.conv = y.conv /\ (x.id = y.id \/ (x.id = Len(messages) + 1 /\ x.conv = s.conv))
      BY <2>1, <2>2
  <2> QED
      BY <1>1, <2>1, <2>3, ReadAppends DEF Stores
<1>4. ASSUME NEW s \in sends, CloseConversation(s) PROVE Reading'
  <2> DEFINE r == [s EXCEPT !.ran = "yes"]
  <2>1. /\ Len(messages) < MaxMessages /\ Appends(s.conv, "admin") /\ sends' = (sends \ {s}) \cup {r}
        /\ UNCHANGED <<side, channels, page, loads, cached>>
      BY <1>4 DEF CloseConversation, Becomes
  <2>2. r.conv = s.conv /\ r.id = s.id
      BY <1>1 DEF Sendings
  <2> HIDE DEF r
  <2>3. \A x \in sends' : \E y \in sends : x.conv = y.conv /\ x.id = y.id
      BY <2>1, <2>2
  <2> QED
      BY <1>1, <2>1, <2>3, ReadAppends
<1> QED
    BY <1>2, <1>3, <1>4

\* A mutation that goes on, or begins, where another one was.
LEMMA GivesPlace ==
  ASSUME NEW s, NEW r, Placed(r)', s.conv = r.conv, s.id \in {r.id, 0}
  PROVE  Placed(s)'
BY DEF Placed, Opened, In

\* The steps of a mutation that store nothing.
LEMMA ReadSends ==
  ASSUME Sane, Temporary, Reading, ~Agent,
         \/ \E s \in sends : Patch(s) \/ Refuse(s) \/ Answered(s) \/ Failed(s)
         \/ \E n \in 1..MaxBatch : Send(n)
         \/ \E kind \in Kinds \ {"text"} : Ask(kind)
  PROVE  Reading'
<1>1. /\ page \in Pages /\ page.shown \in Seq(Int)
      /\ \A s \in sends : s \in Sendings /\ s.temps \in Seq(Int) /\ s.id \in Nat /\ s.id <= Len(messages)
      /\ (page.loaded => page.at \in Convs) /\ NoConv \notin Convs
      /\ Len(messages) \in Nat
  <2>1. /\ page \in Pages /\ (page.loaded => page.at \in Convs) /\ Len(messages) \in Nat
        /\ \A s \in sends : s \in Sendings /\ s.id <= Len(messages)
      BY DEF Sane, Kept, Real, Pages
  <2> QED
      BY <2>1, Limits DEF Sendings, Pages
<1>2. ASSUME UNCHANGED <<side, messages, thread, channels, loads>>,
             \A d \in DOMAIN cached' : d \in DOMAIN cached /\ cached'[d] = cached[d],
             page'.at = page.at,
             \A s \in sends' : \/ \E r \in sends : s.conv = r.conv /\ s.id \in {r.id, 0}
                               \/ s.conv = page.at /\ page.at # NoConv /\ s.id = 0,
             \A x \in Range(page'.shown) : x > 0 => x \in Range(page.shown) \/ ~Foreign(x)
      PROVE  Reading'
  <2>1. Grown
      BY <1>2, SameGrown
  <2>2. NoNews
      BY <1>2 DEF NoNews
  <2>3. \A d \in DOMAIN cached' : Opened(d)' /\ Range(cached'[d].ids) \subseteq Range(thread'[d])
      BY <1>2, <2>1, StillOpened
  <2>4. ASSUME NEW s \in sends' PROVE Placed(s)'
    <3>1. CASE \E r \in sends : s.conv = r.conv /\ s.id \in {r.id, 0}
        BY <2>1, <3>1, StillOpened, GivesPlace
    <3>2. CASE s.conv = page.at /\ page.at # NoConv /\ s.id = 0
        BY <2>1, <3>2, StillOpened DEF Placed
    <3> QED
        BY <1>2, <2>4, <3>1, <3>2
  <2>5. \A x \in Range(page'.shown) : x > 0 => x \in Range(page.shown) \/ ~Foreign(x)'
      BY <1>2 DEF Foreign, MySide, Agent
  <2> QED
      BY <1>2, <2>1, <2>2, <2>3, <2>4, <2>5, Reads, StillOpened
<1>3. ASSUME NEW s \in sends, Patch(s) \/ Refuse(s) PROVE Reading'
  <2>1. UNCHANGED <<side, messages, thread, channels, page, loads, cached>>
      BY <1>3 DEF Patch, Refuse
  <2>2. \A x \in sends' : \E r \in sends : x.conv = r.conv /\ x.id = r.id
    <3>1. \/ sends' = (sends \ {s}) \cup {[s EXCEPT !.ran = "yes"]}
          \/ sends' = (sends \ {s}) \cup {[s EXCEPT !.ran = "refused"]}
        BY <1>3 DEF Patch, Refuse, Becomes
    <3>2. /\ [s EXCEPT !.ran = "yes"].conv = s.conv /\ [s EXCEPT !.ran = "refused"].conv = s.conv
          /\ [s EXCEPT !.ran = "yes"].id = s.id /\ [s EXCEPT !.ran = "refused"].id = s.id
        BY <1>1 DEF Sendings
    <3> QED
        BY <3>1, <3>2
  <2> QED
      BY <1>2, <2>1, <2>2
<1>4. ASSUME NEW s \in sends, Rest(s)
      PROVE  \A x \in sends' : \E r \in sends : x.conv = r.conv /\ x.id \in {r.id, 0}
  <2> DEFINE r == [s EXCEPT !.temps = Tail(s.temps), !.ran = "no", !.id = 0]
  <2>1. sends' \subseteq sends \/ sends' = (sends \ {s}) \cup {r}
      BY <1>4 DEF Rest, Becomes
  <2>2. r.conv = s.conv /\ r.id = 0
      BY <1>1 DEF Sendings
  <2> HIDE DEF r
  <2> QED
      BY <2>1, <2>2
<1>5. ASSUME NEW s \in sends, Answered(s) PROVE Reading'
  <2> DEFINE temp == IF s.temps = <<>> THEN 0 ELSE Head(s.temps)
             new == Settled(page.shown, temp, s.id)
  <2> DEFINE also == {s.id}
             none == {}
  <2>1. /\ Displays(page, new, also, none) /\ cached' = After(s) /\ Rest(s)
        /\ s.ran = "yes" /\ s.kind \in {"text", "card"}
        /\ UNCHANGED <<side, thread, channels, loads>>
      BY <1>5 DEF Answered
  <2>2. s.id # 0 /\ temp \in Int /\ temp # s.id
    <3>1. s.id \in DOMAIN messages
        BY <2>1 DEF Temporary, Owned, Mine
    <3>2. DOMAIN messages = 1..Len(messages) /\ Len(messages) \in Nat
        BY Elements DEF Sane, Kept
    <3>3. CASE s.temps = <<>>
        BY <3>1, <3>2, <3>3
    <3>4. CASE s.temps # <<>>
      <4>1. Head(s.temps) = s.temps[1] /\ 1 \in DOMAIN s.temps
          BY <1>1, <3>4, Elements, EmptySeq
      <4>2. s.temps[1] \in Int /\ s.temps[1] < 0
          BY <1>1, <4>1, Elements DEF Temporary, Owned
      <4> QED
          BY <3>1, <3>2, <3>4, <4>1, <4>2
    <3> QED
        BY <3>3, <3>4
  <2>3. Range(new) \subseteq Range(page.shown) \cup {s.id}
    <3>1. CASE new = page.shown
        BY <3>1
    <3>2. CASE new = [k \in DOMAIN page.shown |-> IF page.shown[k] = temp THEN s.id ELSE page.shown[k]]
      <4> HIDE DEF temp, new
      <4> QED
          BY <3>2 DEF Range
    <3>3. CASE new = Append(page.shown, s.id) /\ s.id \notin Range(page.shown)
      <4> DEFINE q == page.shown
                 i == s.id
      <4>1. q \in Seq(Int) /\ i \in Nat /\ \A k \in DOMAIN q : q[k] # i
          BY <1>1, <3>3 DEF Range
      <4> HIDE DEF q, i
      <4>2. Range(Append(q, i)) \subseteq Range(q) \cup {i}
          BY <4>1, Appends1
      <4> QED
          BY <3>3, <4>2 DEF q, i
    <3> QED
        BY <3>1, <3>2, <3>3 DEF Settled
  <2>4. new \in Seq(Int)
    <3> HIDE DEF temp
    <3> QED
        BY <1>1, <2>2, Settles
  <2> HIDE DEF temp, new, also, none
  <2>5. /\ page'.shown = new /\ page'.at = page.at
        /\ DOMAIN messages' = DOMAIN messages
        /\ \A i \in DOMAIN messages : messages'[i].from = messages[i].from
        /\ \A i \in DOMAIN messages : messages'[i].read =>
             messages[i].read \/ i \in none \/ Agent \/ (i \in Range(new) /\ i > 0)
      BY <1>1, <2>1, <2>4, DisplaysKeep DEF Sane
  <2>6. Grown /\ NoNews
      BY <2>1, <2>5, SameGrown DEF NoNews
  <2>7. \A x : x = s.id => Near(x)'
    <3>1. Near(s.id)
        BY <1>1, <2>2 DEF Reading, Placed, Near, Sendings
    <3> QED
        BY <2>6, <3>1, Grows
  <2>8. \A d \in DOMAIN cached' : Opened(d)' /\ Range(cached'[d].ids) \subseteq Range(thread'[d])
    <3>1. \A d \in DOMAIN cached' : d \in DOMAIN cached /\ cached'[d] = cached[d]
        BY <2>1, AfterKeeps
    <3> QED
        BY <2>6, <3>1, StillOpened
  <2>9. \A x \in sends' : Placed(x)'
      BY <1>4, <2>1, <2>6, StillOpened, GivesPlace
  <2>10. \A i \in DOMAIN messages' : messages'[i].read =>
           /\ i \in DOMAIN messages
           /\ messages[i].read \/ Near(i)' \/ (i \in Range(page.shown) /\ i > 0)
      BY <2>3, <2>5, <2>7 DEF none
  <2>11. \A x \in Range(page'.shown) : x \in Range(page.shown) \/ Near(x)'
      BY <2>3, <2>5, <2>7
  <2>12. /\ \A l \in loads' : (Opened(l.conv) /\ Range(l.body.ids) \subseteq Range(thread[l.conv]))'
         /\ page'.at # NoConv => Opened(page.at)'
      BY <2>1, <2>5, <2>6, StillOpened
  <2> QED
      BY <2>6, <2>8, <2>9, <2>10, <2>11, <2>12, Reads
<1>6. ASSUME NEW s \in sends, Failed(s) PROVE Reading'
  <2>1. /\ Rest(s) /\ UNCHANGED <<side, messages, thread, channels, loads, cached>>
      BY <1>6 DEF Failed
  <2>2. page'.at = page.at /\ Range(page'.shown) \subseteq Range(page.shown)
    <3>1. CASE s.temps = <<>>
        BY <1>6, <3>1 DEF Failed
    <3>2. CASE s.temps # <<>>
      <4> DEFINE h == Head(s.temps)
                 new == TakenBack(page.shown, h)
      <4>1. h \in Int
          BY <1>1, <3>2
      <4>2. page' = [page EXCEPT !.shown = new]
          BY <1>6, <3>2 DEF Failed
      <4> HIDE DEF h
      <4>3. Range(new) \subseteq Range(page.shown)
          BY <1>1, <4>1, TakesBack
      <4> HIDE DEF new
      <4> QED
          BY <1>1, <4>2, <4>3 DEF Pages
    <3> QED
        BY <3>1, <3>2
  <2> QED
      BY <1>2, <1>4, <2>1, <2>2
<1>7. ASSUME NEW n \in 1..MaxBatch, Send(n) PROVE Reading'
  <2> DEFINE q == page.shown
             m == page'.shown
  <2>0. PICK t \in Seq(Int), last \in Nat : Adds(n, t, last)
      BY <1>7, SendAdds
  <2>1. /\ n \in Nat /\ \A k \in 1..n : t[k] = -(last + k)
        /\ sends' = sends \cup {Sending("text", t)}
        /\ \A k \in DOMAIN m :
             \/ k \in DOMAIN q /\ m[k] = q[k]
             \/ k - Len(q) \in 1..n /\ m[k] = t[k - Len(q)]
      BY <2>0 DEF Adds
  <2>2. /\ page.at \in Convs /\ page'.at = page.at
        /\ UNCHANGED <<side, messages, thread, channels, loads, cached>>
      BY <1>7, SendAdds
  <2>3. Sending("text", t).conv = page.at /\ Sending("text", t).id = 0
      BY DEF Sending
  <2>4. \A x \in Range(m) : x > 0 => x \in Range(q)
    <3> HIDE DEF q, m
    <3> SUFFICES ASSUME NEW k \in DOMAIN m, m[k] > 0 PROVE m[k] \in Range(q)
        BY DEF Range
    <3>1. ~(k - Len(q) \in 1..n)
        BY <2>1
    <3> QED
        BY <2>1, <3>1 DEF Range
  <2> QED
      BY <1>1, <1>2, <2>1, <2>2, <2>3, <2>4
<1>8. ASSUME NEW kind \in Kinds \ {"text"}, Ask(kind) PROVE Reading'
  <2> DEFINE r == Sending(kind, <<>>)
  <2>1. /\ sends' = sends \cup {r} /\ page.loaded
        /\ UNCHANGED <<side, messages, thread, channels, page, loads, cached>>
      BY <1>8 DEF Ask
  <2>2. r.conv = page.at /\ r.id = 0
      BY DEF Sending
  <2> HIDE DEF r
  <2> QED
      BY <1>1, <1>2, <2>1, <2>2
<1> QED
    BY <1>3, <1>5, <1>6, <1>7, <1>8

LEMMA StepReading ==
  ASSUME Inv, ~Agent, Reading, [Next]_vars
  PROVE  Reading'
<1>0. Sane /\ Temporary
    BY DEF Inv
<1>1. CASE \E h \in DOMAIN channels :
             Greet(h) \/ Accept(h) \/ Subscribe(h) \/ ServerCloses(h) \/ Closes(h) \/ Cut(h)
    BY <1>0, <1>1, ReadSockets
<1>2. CASE \E h \in DOMAIN channels : Deliver(h)
    BY <1>0, <1>2, ReadDeliver
<1>3. CASE \/ \E s \in sends : Post(s) \/ CloseConversation(s)
           \/ \E c \in Convs, from \in Sides : Elsewhere(c, from)
    BY <1>0, <1>3, ReadPosts
<1>4. CASE \/ \E s \in sends : Patch(s) \/ Refuse(s) \/ Answered(s) \/ Failed(s)
           \/ \E n \in 1..MaxBatch : Send(n)
           \/ \E kind \in Kinds \ {"text"} : Ask(kind)
    BY <1>0, <1>4, ReadSends
<1>5. CASE LoadSteps
    BY <1>0, <1>5, ReadGets DEF LoadSteps
<1>6. CASE \/ \E c \in Convs : Enter(c) \/ Expire(c)
           \/ \E k \in DOMAIN page.timers : Redial(k)
           \/ Poll \/ Usurp
           \/ \E s \in sends : Reloads(s)
    BY <1>0, <1>6, ReadVisits
<1>7. CASE UNCHANGED vars
  <2>1. UNCHANGED <<side, messages, thread, channels, page, sends, loads, cached>>
      BY <1>7 DEF vars
  <2>2. Grown
      BY <2>1, SameGrown
  <2>3. NoNews
      BY <2>1 DEF NoNews
  <2> QED
      BY <1>0, <2>1, <2>2, <2>3, Reads, StillOpened
<1>8. CASE SocketSteps
    BY <1>1, <1>2, <1>8 DEF SocketSteps
<1>9. CASE SendSteps
    BY <1>3, <1>4, <1>6, <1>9 DEF SendSteps
<1>10. CASE PageSteps
    BY <1>4, <1>6, <1>10 DEF PageSteps
<1>11. CASE Others
    BY <1>3, <1>6, <1>11 DEF Others
<1> QED
    BY <1>5, <1>7, <1>8, <1>9, <1>10, <1>11 DEF Next

\* However many mutations are under way, a shopper's tab never makes an answer count as read in a
\* conversation it has not opened: whatever it loads, keeps, shows or hears belongs to one it has
\* dialled.
THEOREM ReadIsOpened == Spec => []ReadMeansOpened
<1> DEFINE RInv == Inv /\ (~Agent => Reading)
<1>1. Init => RInv
  <2> SUFFICES ASSUME Init PROVE RInv
      OBVIOUS
  <2>1. Inv
      BY InitInv
  <2>2. /\ DOMAIN messages = {} /\ Range(page.shown) = {} /\ DOMAIN channels = {}
        /\ loads = {} /\ DOMAIN cached = {} /\ sends = {} /\ page.at = NoConv
      BY DEF Init, Blank, Range
  <2>3. Reading
      BY <2>2 DEF Reading
  <2> QED
      BY <2>1, <2>3
<1>2. RInv /\ [Next]_vars => RInv'
  <2> SUFFICES ASSUME RInv, [Next]_vars PROVE RInv'
      OBVIOUS
  <2>1. Inv'
      BY StepInv
  <2>2. Agent' = Agent
    <3>1. side' = side
        BY DEF Next, vars, SocketSteps, SendSteps, LoadSteps, PageSteps, Others, Greet, Accept,
               Subscribe, ServerCloses, Closes, Cut, OnClose, Deliver, Post, CloseConversation, Patch,
               Refuse, Answered, Reloads, Failed, Serve, Arrive, LoadFails, Enter, Expire, Redial,
               Send, Ask, Poll, Usurp, Elsewhere
    <3> QED
        BY <3>1 DEF Agent
  <2>3. ~Agent => Reading'
      BY StepReading
  <2> QED
      BY <2>1, <2>2, <2>3
<1>3. RInv => ReadMeansOpened
  <2> SUFFICES ASSUME RInv, NEW i \in 1..Len(messages), ~Agent, messages[i].read, Foreign(i)
               PROVE  \E h \in DOMAIN channels : In(i, channels[h].conv)
      BY DEF ReadMeansOpened
  <2>1. i \in DOMAIN messages
      BY Elements DEF Inv, Sane, Kept
  <2> QED
      BY <2>1 DEF Reading, Near, Opened
<1> QED
    BY <1>1, <1>2, <1>3, PTL DEF Spec
=============================================================================
