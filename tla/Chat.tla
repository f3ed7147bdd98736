-------------------------------- MODULE Chat --------------------------------
(***************************************************************************)
(* Customer service as one browser tab sees it: the shopper's (Chat.tsx)   *)
(* or the agent's (AdminChatDetail.tsx).  The tab has one of a shopper's   *)
(* conversations open, keeps a WebSocket that pushes new messages to it    *)
(* (consumers.py), loads the conversation through the GET cache and posts  *)
(* messages over REST (views.py).  Everybody else, on the other side or in *)
(* other tabs of the same user, posts messages at any moment.              *)
(*                                                                         *)
(* A message is its id: the position in the table.  The tab shows stored   *)
(* messages by their ids and a message it is still sending by a negative   *)
(* temporary id.  An acknowledgement arrives at once or is lost: a later   *)
(* arrival would change nothing for the tab, which acknowledges only once. *)
(* Left out: contents, receipts, typing, the paging of histories (all are  *)
(* shorter than a page), who of several agents holds a conversation (a     *)
(* refused post stands for it), and time: timers may fire and cached       *)
(* answers expire at any moment.                                           *)
(***************************************************************************)
EXTENDS RequestUrl, FiniteSets, SequencesExt

CONSTANTS
  Convs,        \* the shopper's conversations
  NoConv,
  Kinds,        \* what the user of the tab asks for: "text", "card", "close", "patch"
  MaxMessages,  \* bounds the messages
  MaxChannels,  \* bounds the WebSockets of the tab
  MaxTries,     \* WS_MAX_RECONNECT_ATTEMPTS
  MaxBatch,     \* messages of one send: the text and its attachments
  MaxSends,     \* mutations of the tab in progress
  MaxTemps,     \* bounds the temporary ids
  MaxLoads,     \* GETs of the tab in flight
  MaxFaults     \* requests and pushes lost, connections cut or taken over by another tab

ASSUME ChatAssumption ==
  /\ NoConv \notin Convs /\ Kinds \subseteq {"text", "card", "close", "patch"}
  /\ {MaxMessages, MaxChannels, MaxTries, MaxBatch, MaxSends, MaxTemps, MaxLoads,
      MaxFaults} \subseteq Nat

VARIABLES
  side,        \* whose tab it is: "user", the shopper's, "admin", the agent's, or "staff", that
               \* of a member of staff who uses the shopper's page
  messages,    \* the table: the side it comes from and is_read of each
  thread,      \* the messages of each conversation, in order
  closed,      \* the conversations that are closed
  registered,  \* _user_connections[user]: the channel, 0 if none, Far if in another tab
  channels,    \* every WebSocket of the tab so far
  page,        \* what the components keep
  sends,       \* POSTs and PATCHes in progress
  loads,       \* GETs of a conversation in flight
  cached,      \* pendingRequests: conversation -> the answer kept
  faults

vars == <<side, messages, thread, closed, registered, channels, page, sends, loads, cached, faults>>

Ids == 1..MaxMessages
Sides == {"user", "admin"}
Agent == side = "admin"
Far == MaxChannels + 1

\* The sender_type of what the user of the tab posts: the server goes by the user's role
\* (_is_cs_staff), the page by which page it is (mySenderType).
Role == IF side = "user" THEN "user" ELSE "admin"
MySide == IF Agent THEN "admin" ELSE "user"
Foreign(i) == messages[i].from # MySide

In(i, c) == i \in Range(thread[c])

\* The detail of a conversation as GET answers it: its messages and which of the other side's
\* are unread.
Body(ids, unread) == [ids |-> ids, unread |-> unread]
Detail(c) == Body(thread[c], {i \in Range(thread[c]) : Foreign(i) /\ ~messages[i].read})

\* No conversation is open.
Blank == [at |-> NoConv, loaded |-> FALSE, shown |-> <<>>, ws |-> 0, tries |-> 0,
          timers |-> <<>>, acked |-> {}]
\* A WebSocket the client has asked for; ours: the page itself closed it (closedByUs);
\* server: its consumer is connected, and then also hears what is published.
Channel(c) == [conv |-> c, client |-> "opening", server |-> "none",
               kicked |-> FALSE, ours |-> FALSE, queue |-> <<>>]
\* A mutation in progress: what the server made of it and the message it stored for it.
Sending(kind, temps) == [conv |-> page.at, kind |-> kind, temps |-> temps,
                         ran |-> "no", id |-> 0]
Get(c) == [conv |-> c, served |-> FALSE, body |-> Body(<<>>, {})]

TypeOK ==
  /\ side \in Sides \cup {"staff"}
  /\ messages \in Seq([from : Sides, read : BOOLEAN]) /\ Len(messages) <= MaxMessages
  /\ thread \in [Convs -> Seq(1..Len(messages))]
  /\ closed \subseteq Convs
  /\ Len(channels) <= MaxChannels /\ registered \in 0..Len(channels) \cup {Far}
  /\ \A h \in DOMAIN channels :
       /\ channels[h].conv \in Convs
       /\ channels[h].client \in {"opening", "open", "closing", "closed"}
       /\ channels[h].server \in {"none", "greeted", "up", "hears", "down"}
       /\ Range(channels[h].queue) \subseteq 1..Len(messages)
  /\ page.at \in Convs \cup {NoConv}
  /\ \A i \in Range(page.shown) : i \in Int /\ i <= Len(messages)
  /\ page.ws \in 0..Len(channels) /\ page.tries \in 0..MaxTries
  /\ page.timers \in Seq(Convs) /\ page.acked \subseteq 1..Len(messages)
  /\ \A s \in sends : /\ s.conv \in Convs /\ s.id \in 0..Len(messages)
                      /\ s.ran \in {"no", "yes", "refused"}
  /\ \A l \in loads : l.conv \in Convs /\ Range(l.body.ids) \subseteq 1..Len(messages)
  /\ DOMAIN cached \subseteq Convs
  /\ faults \in 0..MaxFaults

Init ==
  /\ side \in Sides \cup {"staff"}
  /\ messages = <<>> /\ thread = [c \in Convs |-> <<>>] /\ closed = {} /\ registered = 0
  /\ channels = <<>> /\ page = Blank
  /\ sends = {} /\ loads = {} /\ cached = <<>> /\ faults = 0

----------------------------------------------------------------------------
Fault == faults < MaxFaults /\ faults' = faults + 1

\* The paths of the mutations and of the GET they should make stale (api/chat.ts).
DetailPath == <<"chat", "conversations", "1", "">>
Path(kind) ==
  CASE kind \in {"text", "card"} -> <<"chat", "conversations", "1", "messages", "">>
    [] kind = "close"            -> <<"chat", "conversations", "1", "close", "">>
    [] kind = "patch"            -> <<"chat", "conversations", "1", "">>
Without(kept, c) == [d \in DOMAIN kept \ {c} |-> kept[d]]
\* The cache once a mutation has succeeded.
After(s) == IF Covers(ResourceBase(Path(s.kind)), DetailPath) THEN Without(cached, s.conv) ELSE cached

\* readyState of the socket that wsRef holds.
Connected == page.ws # 0 /\ channels[page.ws].client = "open"

\* Messages become read: those acknowledged over a socket, whichever conversation they belong
\* to (_mark_message_read), and those the shopper sent to a conversation the agent's page posts
\* .../read/ for (ConversationMarkReadView.post).  Either may be lost, and is not repeated.
Marks(ids, convs) ==
  \E heard \in {ids, {}}, posted \in {convs, {}} :
    LET lost == (IF heard = ids THEN 0 ELSE 1) + (IF posted = convs THEN 0 ELSE 1)
    IN /\ faults + lost <= MaxFaults /\ faults' = faults + lost
       /\ messages' = [i \in DOMAIN messages |->
            IF i \in heard \/ (messages[i].from = "user" /\ \E c \in posted : In(i, c))
            THEN [messages[i] EXCEPT !.read = TRUE] ELSE messages[i]]

\* The messages that an effect of the page acknowledges when a list is shown: those of the
\* other side, unread, that it has not acknowledged before.
Fresh(shown, unread) == {i \in Range(shown) : i > 0 /\ Foreign(i) /\ i \in unread \ page.acked}

\* The tab shows a list: the effect acknowledges over the socket if that is open; the agent's
\* page also posts .../read/ for the conversation it is at.
Displays(p, shown, unread, also) ==
  LET fresh == Fresh(shown, unread)
  IN /\ page' = [p EXCEPT !.shown = shown, !.loaded = TRUE, !.acked = @ \cup fresh]
     /\ Marks(also \cup (IF p.ws = page.ws /\ Connected THEN fresh ELSE {}),
              IF Agent /\ fresh # {} THEN {p.at} ELSE {})

\* loadConversation and loadDetail: the cached answer is shown at once, or a GET is sent.
Load(p, c, kept) ==
  /\ cached' = kept
  /\ \/ /\ c \in DOMAIN kept
        /\ Displays(p, kept[c].ids, kept[c].unread, {})
        /\ UNCHANGED loads
     \/ /\ c \notin DOMAIN kept
        /\ Get(c) \notin loads /\ Cardinality(loads) < MaxLoads
        /\ loads' = loads \cup {Get(c)}
        /\ page' = p
        /\ UNCHANGED <<messages, faults>>

\* The page closes its own sockets: the shopper's that in wsRef, the agent's those of the visit.
HangUp ==
  [h \in DOMAIN channels |->
     IF Agent \/ h = page.ws
     THEN [channels[h] EXCEPT !.ours = Agent, !.client = IF @ = "closed" THEN @ ELSE "closing"]
     ELSE channels[h]]

\* The shopper selects, or the agent's route names, another conversation: the effects close
\* the old socket and clear its timer, dial a new one and load the conversation.  The
\* shopper's disconnect() also uses up the reconnection attempts.
Enter(c) ==
  /\ page.at # c
  /\ Len(channels) < MaxChannels
  /\ channels' = Append(HangUp, Channel(c))
  /\ Load([page EXCEPT !.at = c, !.ws = Len(channels) + 1,
                       !.tries = IF Agent THEN 0 ELSE MaxTries,
                       !.timers = IF @ = <<>> THEN @ ELSE Front(@)], c, cached)
  /\ UNCHANGED <<side, thread, closed, registered, sends>>

\* A reconnection timer fires.
Redial(k) ==
  /\ Len(channels) < MaxChannels
  /\ channels' = Append(channels, Channel(page.timers[k]))
  /\ page' = [page EXCEPT !.timers = RemoveAt(@, k), !.ws = Len(channels) + 1]
  /\ UNCHANGED <<side, messages, thread, closed, registered, sends, loads, cached, faults>>

----------------------------------------------------------------------------
\* Who is registered is told to go when the user connects again.
Kick(old) == [g \in DOMAIN channels |->
  IF g = old THEN [channels[g] EXCEPT !.kicked = TRUE] ELSE channels[g]]

\* CustomerServiceConsumer.connect: the connection registered so far is told to go.
Greet(h) ==
  /\ channels[h].client = "opening" /\ channels[h].server = "none"
  /\ registered # 0
  /\ channels' = [Kick(registered) EXCEPT ![h].server = "greeted"]
  /\ UNCHANGED <<side, messages, thread, closed, registered, page, sends, loads, cached, faults>>

\* After an await, if there was one to tell, the new connection is registered and accepted,
\* even if its client has gone; what the other side has sent so far is marked read.
Accept(h) ==
  /\ \/ channels[h].server = "greeted"
     \/ channels[h].server = "none" /\ registered = 0 /\ channels[h].client = "opening"
  /\ registered' = h
  /\ channels' = [channels EXCEPT ![h].server = "up",
                    ![h].client = IF @ = "opening" THEN "open" ELSE @]
  /\ messages' = [i \in DOMAIN messages |->
       IF In(i, channels[h].conv) /\ messages[i].from # Role
       THEN [messages[i] EXCEPT !.read = TRUE] ELSE messages[i]]
  /\ page' = [page EXCEPT !.tries = IF channels[h].client = "opening" THEN 0 ELSE @]
  /\ UNCHANGED <<side, thread, closed, sends, loads, cached, faults>>

\* The same user connects in another tab.
Usurp ==
  /\ Fault
  /\ registered' = Far
  /\ channels' = Kick(registered)
  /\ UNCHANGED <<side, messages, thread, closed, page, sends, loads, cached>>

\* The listener thread has subscribed; what was published before is lost to this channel.
Subscribe(h) ==
  /\ channels[h].server = "up"
  /\ channels' = [channels EXCEPT ![h].server = "hears"]
  /\ UNCHANGED <<side, messages, thread, closed, registered, page, sends, loads, cached, faults>>

\* CustomerServiceConsumer.disconnect: a registration is removed only by its own channel.
Unregistered(h) == IF registered = h THEN 0 ELSE registered

\* force_disconnect, or the pings of a client that has gone stay unanswered.
ServerCloses(h) ==
  /\ channels[h].server \in {"up", "hears"}
  /\ channels[h].kicked \/ channels[h].client \in {"closing", "closed"}
  /\ registered' = Unregistered(h)
  /\ channels' = [channels EXCEPT ![h].server = "down"]
  /\ UNCHANGED <<side, messages, thread, closed, page, sends, loads, cached, faults>>

\* Mutant: reconnection attempts are not limited.
OnClose_Forever(h) ==
  LET again == Agent => ~channels[h].ours
  IN /\ channels' = [channels EXCEPT ![h].client = "closed", ![h].queue = <<>>]
     /\ page' = [page EXCEPT !.ws = 0,
                   !.tries = IF again THEN @ + 1 ELSE @,
                   !.timers = IF again THEN Append(@, channels[h].conv) ELSE @]
     /\ UNCHANGED <<side, messages, thread, closed, registered, sends, loads, cached>>

\* onclose: wsRef is forgotten, even if it holds a newer socket, and the next attempt is
\* timed; an agent's page does not try again after it closed the socket itself.
OnClose(h) ==
  LET again == page.tries < MaxTries /\ (Agent => ~channels[h].ours)
  IN /\ channels' = [channels EXCEPT ![h].client = "closed", ![h].queue = <<>>]
     /\ page' = [page EXCEPT !.ws = 0,
                   !.tries = IF again THEN @ + 1 ELSE @,
                   !.timers = IF again THEN Append(@, channels[h].conv) ELSE @]
     /\ UNCHANGED <<side, messages, thread, closed, registered, sends, loads, cached>>

\* The close handshake ends, or the server has closed.
Closes(h) ==
  /\ \/ channels[h].client = "closing"
     \/ channels[h].client = "open" /\ channels[h].server = "down"
  /\ OnClose(h)
  /\ UNCHANGED faults

\* A handshake fails or a connection is cut; the server may notice later.
Cut(h) ==
  /\ channels[h].client \in {"opening", "open"}
  /\ Fault
  /\ OnClose(h)

\* Mutant: a message that is there already is merged again.
Merge_Twice(shown, i) ==
  LET temps == {k \in DOMAIN shown : shown[k] < 0}
      first == CHOOSE k \in temps : \A j \in temps : k <= j
  IN IF ~Foreign(i) /\ temps # {} THEN [shown EXCEPT ![first] = i]
     ELSE Append(shown, i)

\* mergeWsMessage: a message of the tab's own side takes the place of the oldest temporary
\* one, unless it is there.
Merge(shown, i) ==
  LET temps == {k \in DOMAIN shown : shown[k] < 0}
      first == CHOOSE k \in temps : \A j \in temps : k <= j
  IN IF i \in Range(shown) THEN shown
     ELSE IF ~Foreign(i) /\ temps # {} THEN [shown EXCEPT ![first] = i]
     ELSE Append(shown, i)

\* onmessage: the message is merged into whatever conversation is shown and, if it comes
\* from the other side, acknowledged: by the shopper over wsRef, by the agent over this socket.
Deliver(h) ==
  LET i == Head(channels[h].queue)
      handled == IF Foreign(i) /\ (Agent \/ Connected) THEN {i} ELSE {}
  IN /\ channels[h].client = "open" /\ channels[h].queue # <<>>
     /\ channels' = [channels EXCEPT ![h].queue = Tail(@)]
     /\ IF page.loaded THEN Displays(page, Merge(page.shown, i), {i}, handled)
        ELSE Marks(handled, {}) /\ UNCHANGED page
     /\ UNCHANGED <<side, thread, closed, registered, sends, loads, cached>>

----------------------------------------------------------------------------
\* Mutant: the broadcast of what shoppers write goes to every listener, for every message.
Copies_ToEveryone(h, c, from) ==
  IF channels[h].server # "hears" \/ channels[h].client # "open" THEN 0 ELSE 1

\* What the listener of a channel hears of a message: that of staff also hears every message
\* of a shopper, those of its own conversation twice.
Copies(h, c, from) ==
  IF channels[h].server # "hears" \/ channels[h].client # "open" THEN 0
  ELSE (IF channels[h].conv = c THEN 1 ELSE 0) + (IF Role = "admin" /\ from = "user" THEN 1 ELSE 0)

\* _broadcast_new_message: the message reaches every listener, or a failure is only logged.
Publish(i, c, from) ==
  \/ /\ channels' = [h \in DOMAIN channels |->
          [channels[h] EXCEPT !.queue = @ \o [k \in 1..Copies(h, c, from) |-> i]]]
     /\ UNCHANGED faults
  \/ UNCHANGED channels /\ Fault

Appends(c, from) ==
  /\ messages' = Append(messages, [from |-> from, read |-> FALSE])
  /\ thread' = [thread EXCEPT ![c] = Append(@, Len(messages) + 1)]

\* MessageView.post: the message is stored, then published.
Stores(c, from) ==
  /\ c \notin closed /\ Len(messages) < MaxMessages
  /\ Appends(c, from)
  /\ Publish(Len(messages) + 1, c, from)

\* Somebody else posts: the other side, or the same user in another tab.
Elsewhere(c, from) ==
  /\ Stores(c, from)
  /\ UNCHANGED <<side, closed, registered, page, sends, loads, cached>>

\* n temporary ids below all others (-Date.now()).
Temps(n) ==
  LET used == (UNION {Range(s.temps) : s \in sends}) \cup Range(page.shown)
      last == Max({-k : k \in used} \cup {0})
  IN [k \in 1..n |-> -(last + k)]

\* handleSend: temporary messages are shown and posted one after the other.
Send(n) ==
  /\ "text" \in Kinds /\ page.loaded
  /\ Cardinality(sends) < MaxSends /\ \A k \in Range(Temps(n)) : -k <= MaxTemps
  /\ sends' = sends \cup {Sending("text", Temps(n))}
  /\ page' = [page EXCEPT !.shown = @ \o Temps(n)]
  /\ UNCHANGED <<side, messages, thread, closed, registered, channels, loads, cached, faults>>

\* A product card is posted without a temporary message; handleClose; handleForceTakeover
\* and handleMarkReplied.
Ask(kind) ==
  /\ page.loaded
  /\ kind = "patch" => Agent
  /\ Cardinality(sends) < MaxSends
  /\ sends' = sends \cup {Sending(kind, <<>>)}
  /\ UNCHANGED <<side, messages, thread, closed, registered, channels, page, loads, cached, faults>>

Becomes(s, r) == sends' = (sends \ {s}) \cup {r}

Post(s) ==
  /\ s.kind \in {"text", "card"} /\ s.ran = "no"
  /\ Stores(s.conv, Role)
  /\ Becomes(s, [s EXCEPT !.ran = "yes", !.id = Len(messages) + 1])
  /\ UNCHANGED <<side, closed, registered, page, loads, cached>>

\* ConversationCloseView.post adds a message of the agent's side and tells nobody.
CloseConversation(s) ==
  /\ s.kind = "close" /\ s.ran = "no"
  /\ s.conv \notin closed /\ Len(messages) < MaxMessages
  /\ closed' = closed \cup {s.conv}
  /\ Appends(s.conv, "admin")
  /\ Becomes(s, [s EXCEPT !.ran = "yes"])
  /\ UNCHANGED <<side, registered, channels, page, loads, cached, faults>>

\* ConversationDetailView.patch only changes who holds the conversation.
Patch(s) ==
  /\ s.kind = "patch" /\ s.ran = "no"
  /\ Becomes(s, [s EXCEPT !.ran = "yes"])
  /\ UNCHANGED <<side, messages, thread, closed, registered, channels, page, loads, cached, faults>>

\* The conversation is closed or held by another agent, or a limit is reached.
Refuse(s) ==
  /\ s.ran = "no"
  /\ Becomes(s, [s EXCEPT !.ran = "refused"])
  /\ UNCHANGED <<side, messages, thread, closed, registered, channels, page, loads, cached, faults>>

\* The rest of a send, if any, after its first message is settled.
Rest(s) ==
  IF Len(s.temps) <= 1 THEN sends' = sends \ {s}
  ELSE Becomes(s, [s EXCEPT !.temps = Tail(@), !.ran = "no", !.id = 0])

\* The answer takes the place of the temporary message, or is appended unless it is there.
Settled(shown, temp, i) ==
  IF temp \in Range(shown) THEN [k \in DOMAIN shown |-> IF shown[k] = temp THEN i ELSE shown[k]]
  ELSE IF i \in Range(shown) THEN shown ELSE Append(shown, i)

\* A message is answered and shown as stored: a page that takes it for one of the other side,
\* because staff posted it from the shopper's page, acknowledges it.  The agent's page reloads
\* after a card.
Answered(s) ==
  LET temp == IF s.temps = <<>> THEN 0 ELSE Head(s.temps)
  IN /\ s.ran = "yes"
     /\ s.kind = "text" \/ (s.kind = "card" /\ ~Agent)
     /\ Displays(page, Settled(page.shown, temp, s.id), {s.id}, {})
     /\ cached' = After(s)
     /\ Rest(s)
     /\ UNCHANGED <<side, thread, closed, registered, channels, loads>>

\* The page loads the conversation again after a card, a closing or a PATCH.
Reloads(s) ==
  /\ s.ran = "yes"
  /\ s.kind \in {"close", "patch"} \/ (s.kind = "card" /\ Agent)
  /\ Load(page, s.conv, After(s))
  /\ sends' = sends \ {s}
  /\ UNCHANGED <<side, thread, closed, registered, channels>>

\* Mutant: the temporary message stays when its send fails.
TakenBack_Never(shown, temp) == shown

\* What is shown once a send has failed: the temporary message is taken back.
TakenBack(shown, temp) ==
  IF temp \in Range(shown) THEN RemoveAt(shown, CHOOSE k \in DOMAIN shown : shown[k] = temp)
  ELSE shown

\* The call is refused, or it or its answer is lost; the rest of a send goes on.
Failed(s) ==
  /\ IF s.ran = "refused" THEN UNCHANGED faults ELSE Fault
  /\ page' = IF s.temps = <<>> THEN page
             ELSE [page EXCEPT !.shown = TakenBack(@, Head(s.temps))]
  /\ Rest(s)
  /\ UNCHANGED <<side, messages, thread, closed, registered, channels, loads, cached>>

----------------------------------------------------------------------------
\* ConversationDetailView.get.
Serve(l) ==
  /\ ~l.served
  /\ loads' = (loads \ {l}) \cup {[l EXCEPT !.served = TRUE, !.body = Detail(l.conv)]}
  /\ UNCHANGED <<side, messages, thread, closed, registered, channels, page, sends, cached, faults>>

\* setActiveConv(detail), whichever conversation the page is at by now.
Arrive(l) ==
  /\ l.served
  /\ loads' = loads \ {l}
  /\ cached' = [d \in DOMAIN cached \cup {l.conv} |-> IF d = l.conv THEN l.body ELSE cached[d]]
  /\ Displays(page, l.body.ids, l.body.unread, {})
  /\ UNCHANGED <<side, thread, closed, registered, channels, sends>>

LoadFails(l) ==
  /\ Fault
  /\ loads' = loads \ {l}
  /\ cached' = Without(cached, l.conv)
  /\ UNCHANGED <<side, messages, thread, closed, registered, channels, page, sends>>

Expire(c) ==
  /\ c \in DOMAIN cached
  /\ cached' = Without(cached, c)
  /\ UNCHANGED <<side, messages, thread, closed, registered, channels, page, sends, loads, faults>>

\* Mutant: the page polls only while its socket is not open.
Poll_OnlyOffline ==
  /\ Agent /\ page.at # NoConv /\ ~Connected
  /\ Load(page, page.at, cached)
  /\ UNCHANGED <<side, thread, closed, registered, channels, sends>>

\* The agent's page loads the conversation every ADMIN_CHAT_POLL_INTERVAL.
Poll ==
  /\ Agent /\ page.at # NoConv
  /\ Load(page, page.at, cached)
  /\ UNCHANGED <<side, thread, closed, registered, channels, sends>>

----------------------------------------------------------------------------
SocketSteps ==
  \E h \in DOMAIN channels :
    Greet(h) \/ Accept(h) \/ Subscribe(h) \/ ServerCloses(h) \/ Closes(h) \/ Cut(h) \/ Deliver(h)

SendSteps ==
  \E s \in sends :
    \/ Post(s) \/ CloseConversation(s) \/ Patch(s) \/ Refuse(s)
    \/ Answered(s) \/ Reloads(s) \/ Failed(s)

LoadSteps == \E l \in loads : Serve(l) \/ Arrive(l) \/ LoadFails(l)

PageSteps ==
  \/ \E c \in Convs : Enter(c) \/ Expire(c)
  \/ \E k \in DOMAIN page.timers : Redial(k)
  \/ \E n \in 1..MaxBatch : Send(n)
  \/ \E kind \in Kinds \ {"text"} : Ask(kind)
  \/ Poll

Others == Usurp \/ \E c \in Convs, from \in Sides : Elsewhere(c, from)

Next == SocketSteps \/ SendSteps \/ LoadSteps \/ PageSteps \/ Others

Spec == Init /\ [][Next]_vars

\* Polls go on (setInterval), cached answers expire (setTimeout), and requests are answered.
Fairness ==
  /\ WF_vars(Poll)
  /\ WF_vars(\E c \in Convs : Expire(c))
  /\ WF_vars(\E l \in loads : Serve(l))
  /\ WF_vars(\E l \in loads : Arrive(l))

FairSpec == Spec /\ Fairness

----------------------------------------------------------------------------
\* What the other side writes is shown once, although it may come pushed once or twice and with
\* loaded conversations, fresh or stale, in any order (mergeWsMessage, setActiveConv), and
\* however many sends overlap meanwhile.  The tab's own messages have no such promise: the Enter
\* key does not wait for the previous send (Chat.tsx:1018), and two echoes may take the place of
\* each other's temporary message; and what staff post from the shopper's page is appended
\* when its echo comes, for the page takes it for the other side's (Chat.tsx:1033-1034).
OthersShownOnce ==
  \A j, k \in DOMAIN page.shown :
    LET i == page.shown[j]
    IN i = page.shown[k] /\ i > 0 /\ messages[i].from # Role => j = k

\* A message shown as being sent is being sent: whatever pushes and loads did to the list
\* in between, no temporary message outlives its POST (Chat.tsx:918-933).
TempIsSending ==
  \A k \in Range(page.shown) : k < 0 => \E s \in sends : k \in Range(s.temps)

\* "3s at most as the compensation while the socket is down" (constants.ts:29-31), in time:
\* an agent's tab that stays at a conversation shows each of its messages in the end, whatever
\* pushes were lost.
AgentSeesAll ==
  \A c \in Convs, i \in Ids :
    (Agent /\ In(i, c) /\ page.at = c)
      ~> (i \in Range(page.shown) \/ page.at # c)

\* A shopper's tab never makes an answer count as read in a conversation it has not opened
\* (Chat.tsx:819): a socket hears only its own conversation, which was opened to dial it.  An
\* agent's tab gives no such promise: its socket hears every shopper's message, and neither
\* onmessage (AdminChatDetail.tsx:1028-1035) nor mergeWsMessage compares the conversation.
ReadMeansOpened ==
  \A i \in 1..Len(messages) : (~Agent /\ messages[i].read /\ Foreign(i)) =>
    \E h \in DOMAIN channels : In(i, channels[h].conv)
=============================================================================
