-------------------------------- MODULE Chat --------------------------------
(***************************************************************************)
(* The chat (chat.rs) and the channel hub (channel.rs) of a network.       *)
(*                                                                         *)
(* A message is a row of chat_messages.  It is stored, then handed to the  *)
(* plugin of the channel (an AI behind a WebSocket, that answers through   *)
(* POST /message) and to the browsers (server-sent events), and pushed to  *)
(* the peers once.  What the plugin brings in from other channels stays on *)
(* its node.  All of the hub is in memory; every step of a handler is      *)
(* behind an await, where the handler ends if its client goes away.        *)
(*                                                                         *)
(* Callers are authorised, texts are valid, and there is one channel.      *)
(***************************************************************************)
EXTENDS Integers, Sequences, FiniteSets

CONSTANTS
    Hub,                \* the nodes
    Entry, Leads, Self, \* the entries of the registries, the node an entry leads to, and the
                        \* entry of a node's own id: an old id of a node may lead to it too
    Client, Plugin,     \* connections for events, and sockets of plugins
    HubOf,              \* HubOf[x]: the node that connection x is made to
    DedupId, noId,      \* what a request of a plugin may be recognised by
    BROADCAST_CAPACITY, MAX_DEDUP_ENTRIES,
    Limit,              \* of a page of messages
    ChatScene           \* of a behaviour: the requests, the authors that each node knows and
                        \* those it learns of, the connections, and the nodes with a
                        \* reader and those that may restart

\* A request stands for the row it makes: id is drawn by the handler, at is created_at
\* by the clock of its node.  Messages of the TUI come from another channel or from a
\* citizen of that name.
ChatRequest ==
    [op : {"send", "admin", "reply", "inbound", "outbound"}, node : Hub, id : Nat \ {0},
     at : Nat, tui : BOOLEAN, dedup : DedupId \cup {noId}]

Author == {"citizen", "bot", "guest"}

SceneRecord ==
    [asked : SUBSET ChatRequest, known : [Hub -> SUBSET Author], comes : [Hub -> SUBSET Author],
     conns : SUBSET (Client \cup Plugin), readers : SUBSET Hub, restarts : SUBSET Hub]

ASSUME ChatAssumption ==
    /\ Leads \in [Entry -> Hub] /\ Self \in [Hub -> Entry]
    /\ HubOf \in [Client \cup Plugin -> Hub]
    /\ Client \cap Plugin = {}
    /\ noId \notin DedupId
    /\ BROADCAST_CAPACITY \in Nat \ {0} /\ MAX_DEDUP_ENTRIES \in Nat \ {0} /\ Limit \in Nat \ {0}
    /\ ChatScene \subseteq SceneRecord
    /\ \A s \in ChatScene :
        /\ \A r, q \in s.asked : r.id = q.id => r = q
        /\ \A r \in s.asked : r.dedup # noId => r.op \in {"inbound", "outbound"}
        /\ IsFiniteSet(s.conns)

VARIABLES
    cscene,     \* the scene of the behaviour
    stored,     \* stored[n]: the messages in chat_messages of n
    citizens,   \* citizens[n]: the authors that have a row in citizens of n
    steps,      \* the handlers: the node, the message, and what is to be done next
    wire,       \* the pushes that are on their way: a message, and an entry of a peer
    conn,       \* conn[x]: how far the connection is, what waits in its queue, what it got
    counted,    \* counted[n]: plugin_connections
    cache,      \* cache[n]: dedup_cache, the message that answered
    waiting,    \* the requests that have not been made
    answered,   \* history: per node the dedup ids that have been answered, without those
                \* of which the node has forgotten the answer, full or started again
    walk        \* walk[n]: a reader of n who goes back page by page

hvars == <<cscene, stored, citizens, steps, wire, conn, counted, cache, waiting, answered, walk>>

Cross(m) == m.op \in {"inbound", "outbound"}
WriterOf(m) == CASE m.op = "send" -> "citizen" [] m.op = "outbound" -> "guest" [] OTHER -> "bot"
Step(n, m, next) == [node |-> n, msg |-> m, next |-> next]
NoWalk == [begun |-> FALSE, over |-> FALSE, due |-> {}, seen |-> <<>>]
Unopened == [phase |-> "new", queue |-> <<>>, got |-> <<>>]

-----------------------------------------------------------------------------
(* The hub.                                                                 *)

\* A message for everybody who has subscribed: a queue that is full loses its oldest.
Pushed(n, who, m) ==
    [x \in Client \cup Plugin |->
        IF x \in who /\ HubOf[x] = n /\ conn[x].phase = "open"
        THEN LET q == Append(conn[x].queue, m)
             IN  [conn[x] EXCEPT !.queue = IF Len(q) > BROADCAST_CAPACITY THEN Tail(q) ELSE q]
        ELSE conn[x]]

\* Faulty variant: whoever wrote it.
heard_whoever(m) == ~Cross(m)

\* Only what citizens write here is for the plugin: not its own answers.
ForPlugin(m) == WriterOf(m) # "bot" /\ ~Cross(m)

\* A message came here from a peer without the mark that it is from another channel.
ForClients(m) == ~m.tui

\* push_chat_message_to_peers: to every entry but its own.
Gossip(n, m) == {<<m, e>> : e \in Entry \ {Self[n]}}

Keep(j) == steps \ {j}
Then(j, next) == Keep(j) \cup {Step(j.node, j.msg, next)}

PushPlugin(j) ==
    /\ j.next = "plugin"
    /\ conn' = IF ForPlugin(j.msg) THEN Pushed(j.node, Plugin, j.msg) ELSE conn
    /\ steps' = Then(j, "clients")
    /\ UNCHANGED <<cscene, stored, citizens, wire, counted, cache, waiting, answered, walk>>

\* Then a citizen's message is gossiped, from the node where it was written.
PushClients(j) ==
    /\ j.next = "clients"
    /\ conn' = IF ForClients(j.msg) THEN Pushed(j.node, Client, j.msg) ELSE conn
    /\ steps' = IF Cross(j.msg) /\ j.msg.dedup # noId THEN Then(j, "remember") ELSE Keep(j)
    /\ wire' = IF j.msg.op = "send" /\ j.msg.node = j.node
               THEN wire \cup Gossip(j.node, j.msg) ELSE wire
    /\ UNCHANGED <<cscene, stored, citizens, counted, cache, waiting, answered, walk>>

\* Faulty variant: a full cache makes room, and the answer waits for the next time.
remember_later(j) ==
    LET n == j.node
        d == j.msg.dedup
        full == Cardinality({e \in DedupId : cache[n][e] # 0}) >= MAX_DEDUP_ENTRIES
        Lost(e) == cache' = [cache EXCEPT ![n] =
                        IF full THEN [@ EXCEPT ![e] = 0] ELSE [@ EXCEPT ![d] = j.msg.id]]
    IN  /\ j.next = "remember"
        /\ \E e \in DedupId :
            /\ full => cache[n][e] # 0
            /\ Lost(e)
            /\ answered' = [answered EXCEPT ![n] = (IF full THEN @ \ {e} ELSE @) \cup {d}]
        /\ steps' = Keep(j)
        /\ UNCHANGED <<cscene, stored, citizens, wire, conn, counted, waiting, walk>>

\* remember_dedup: any entry gives way if the cache is full, even when d is in it.
Remember(j) ==
    LET n == j.node
        d == j.msg.dedup
        full == Cardinality({e \in DedupId : cache[n][e] # 0}) >= MAX_DEDUP_ENTRIES
    IN  /\ j.next = "remember"
        /\ \E e \in DedupId :
            /\ full => cache[n][e] # 0
            /\ cache' = [cache EXCEPT ![n] =
                            [(IF full THEN [@ EXCEPT ![e] = 0] ELSE @) EXCEPT ![d] = j.msg.id]]
            /\ answered' = [answered EXCEPT ![n] = (IF full THEN @ \ {e} ELSE @) \cup {d}]
        /\ steps' = Keep(j)
        /\ UNCHANGED <<cscene, stored, citizens, wire, conn, counted, waiting, walk>>

-----------------------------------------------------------------------------
(* Writing.                                                                 *)

Made(r, op) == r \in waiting /\ r.op = op /\ waiting' = waiting \ {r}
Inserted(n, m) == stored' = [stored EXCEPT ![n] = @ \cup {m}]

\* send_message, of a citizen that the node knows.
SendMessage(r) ==
    /\ Made(r, "send")
    /\ IF "citizen" \in citizens[r.node]
       THEN Inserted(r.node, r) /\ steps' = steps \cup {Step(r.node, r, "plugin")}
       ELSE UNCHANGED <<stored, steps>>
    /\ UNCHANGED <<cscene, citizens, wire, conn, counted, cache, answered, walk>>

\* send_message_as_bot gossips at once; only POST /message notifies here.
SendAsBot(r) ==
    /\ Made(r, "admin") \/ Made(r, "reply")
    /\ citizens' = [citizens EXCEPT ![r.node] = @ \cup {"bot"}]
    /\ Inserted(r.node, r)
    /\ wire' = wire \cup Gossip(r.node, r)
    /\ steps' = IF r.op = "reply" THEN steps \cup {Step(r.node, r, "plugin")} ELSE steps
    /\ UNCHANGED <<cscene, conn, counted, cache, answered, walk>>

\* cross_channel_handler: what comes from the TUI is not stored, and what has been
\* answered before gets that answer.
CrossChannel(r) ==
    /\ Made(r, "inbound") \/ Made(r, "outbound")
    /\ steps' = IF r.tui \/ (r.dedup # noId /\ cache[r.node][r.dedup] # 0) THEN steps
                ELSE steps \cup {Step(r.node, r, "insert")}
    /\ UNCHANGED <<cscene, stored, citizens, wire, conn, counted, cache, answered, walk>>

\* insert_cross_channel_message, after a row for its author.
InsertCross(j) ==
    /\ j.next = "insert"
    /\ citizens' = [citizens EXCEPT ![j.node] = @ \cup {WriterOf(j.msg)}]
    /\ Inserted(j.node, j.msg)
    /\ steps' = Then(j, "plugin")
    /\ UNCHANGED <<cscene, wire, conn, counted, cache, waiting, answered, walk>>

\* Faulty variant: a message that is there already is announced again.
receive_any(p) ==
    LET n == Leads[p[2]]
        m == p[1]
    IN  /\ wire' = wire \ {p}
        /\ IF WriterOf(m) \in citizens[n]
           THEN Inserted(n, m) /\ steps' = steps \cup {Step(n, m, "plugin")}
           ELSE UNCHANGED <<stored, steps>>
        /\ UNCHANGED <<cscene, citizens, conn, counted, cache, waiting, answered, walk>>

\* receive_gossip_chat_message; a row of an author that is not known here fails.
ReceiveChat(p) ==
    LET n == Leads[p[2]]
        m == p[1]
    IN  /\ wire' = wire \ {p}
        /\ IF m \notin stored[n] /\ WriterOf(m) \in citizens[n]
           THEN Inserted(n, m) /\ steps' = steps \cup {Step(n, m, "plugin")}
           ELSE UNCHANGED <<stored, steps>>
        /\ UNCHANGED <<cscene, citizens, conn, counted, cache, waiting, answered, walk>>

LosePush(p) ==
    /\ wire' = wire \ {p}
    /\ UNCHANGED <<cscene, stored, citizens, steps, conn, counted, cache, waiting, answered, walk>>

\* The client, or the peer after its timeout, is gone where the handler waits.
DropHandler(j) ==
    /\ steps' = Keep(j)
    /\ UNCHANGED <<cscene, stored, citizens, wire, conn, counted, cache, waiting, answered, walk>>

-----------------------------------------------------------------------------
(* Connections.                                                             *)

\* handle_plugin_socket counts the socket, and then subscribes.
Register(x) ==
    /\ x \in Plugin \cap cscene.conns
    /\ conn[x].phase = "new"
    /\ conn' = [conn EXCEPT ![x].phase = "counted"]
    /\ counted' = [counted EXCEPT ![HubOf[x]] = @ + 1]
    /\ UNCHANGED <<cscene, stored, citizens, steps, wire, cache, waiting, answered, walk>>

\* frontend_subscribe, plugin_subscribe: what is pushed from now on.
Subscribe(x) ==
    /\ x \in cscene.conns
    /\ conn[x].phase = IF x \in Plugin THEN "counted" ELSE "new"
    /\ conn' = [conn EXCEPT ![x].phase = "open"]
    /\ UNCHANGED <<cscene, stored, citizens, steps, wire, counted, cache, waiting, answered, walk>>

Deliver(x) ==
    /\ conn[x].phase = "open" /\ conn[x].queue # <<>>
    /\ conn' = [conn EXCEPT ![x].queue = Tail(@), ![x].got = Append(@, Head(conn[x].queue))]
    /\ UNCHANGED <<cscene, stored, citizens, steps, wire, counted, cache, waiting, answered, walk>>

Closed(x) == [Unopened EXCEPT !.phase = "closed"]

\* Faulty variant: a socket that ends before its welcome is not taken off.
close_early(x) ==
    /\ conn[x].phase = "open"
    /\ conn' = [conn EXCEPT ![x] = Closed(x)]
    /\ \E early \in BOOLEAN :
         counted' = IF x \in Client \/ early THEN counted
                    ELSE [counted EXCEPT ![HubOf[x]] = IF @ = 0 THEN 0 ELSE @ - 1]
    /\ UNCHANGED <<cscene, stored, citizens, steps, wire, cache, waiting, answered, walk>>

\* The socket is closed, or a send to it fails: unregister_plugin.
Close(x) ==
    /\ conn[x].phase = "open"
    /\ conn' = [conn EXCEPT ![x] = Closed(x)]
    /\ counted' = IF x \in Client THEN counted
                  ELSE [counted EXCEPT ![HubOf[x]] = IF @ = 0 THEN 0 ELSE @ - 1]
    /\ UNCHANGED <<cscene, stored, citizens, steps, wire, cache, waiting, answered, walk>>

-----------------------------------------------------------------------------
(* Reading.                                                                 *)

\* The order of a page, by (created_at, id).
Older(m, k) == m.at < k.at \/ (m.at = k.at /\ m.id < k.id)

\* Faulty variant: the cursor is a time.
page_before_time(n, seen) ==
    LET before == {m \in stored[n] : \A i \in DOMAIN seen : m.at < seen[i].at}
    IN  {m \in before : Cardinality({k \in before : Older(m, k)}) < Limit}

\* The rows of a page, before the oldest message the reader has, or the latest; those
\* of the TUI are left out when the page has been cut.
PageRows(n, seen) ==
    LET before == {m \in stored[n] : \A i \in DOMAIN seen : Older(m, seen[i])}
    IN  {m \in before : Cardinality({k \in before : Older(m, k)}) < Limit}

\* list_messages, for a reader who asks for what is older until a page is empty.
ReadPage(n) ==
    LET w == walk[n]
        page == {m \in PageRows(n, w.seen) : ~m.tui}
        latest == CHOOSE s \in [1..Cardinality(page) -> page] :
                     \A i, j \in DOMAIN s : i < j => Older(s[j], s[i])
    IN  /\ n \in cscene.readers /\ ~w.over
        /\ walk' = [walk EXCEPT ![n] =
                      [begun |-> TRUE, over |-> page = {},
                       due |-> IF w.begun THEN w.due ELSE stored[n],
                       seen |-> w.seen \o latest]]
        /\ UNCHANGED <<cscene, stored, citizens, steps, wire, conn, counted, cache, waiting,
                       answered>>

-----------------------------------------------------------------------------

\* Another author arrives with a block.
LearnAuthor(n, a) ==
    /\ a \in cscene.comes[n] \ citizens[n]
    /\ citizens' = [citizens EXCEPT ![n] = @ \cup {a}]
    /\ UNCHANGED <<cscene, stored, steps, wire, conn, counted, cache, waiting, answered, walk>>

\* The hub of a node that starts is empty.
RestartHub(n) ==
    /\ n \in cscene.restarts
    /\ cscene' = [cscene EXCEPT !.restarts = @ \ {n}]
    /\ steps' = {j \in steps : j.node # n}
    /\ conn' = [x \in DOMAIN conn |-> IF HubOf[x] = n /\ conn[x].phase # "new"
                                      THEN Closed(x) ELSE conn[x]]
    /\ counted' = [counted EXCEPT ![n] = 0]
    /\ cache' = [cache EXCEPT ![n] = [d \in DedupId |-> 0]]
    /\ answered' = [answered EXCEPT ![n] = {}]
    /\ UNCHANGED <<stored, citizens, wire, waiting, walk>>

ChatInit ==
    /\ cscene \in ChatScene
    /\ stored = [n \in Hub |-> {}]
    /\ citizens = cscene.known
    /\ steps = {} /\ wire = {}
    /\ conn = [x \in Client \cup Plugin |-> Unopened]
    /\ counted = [n \in Hub |-> 0]
    /\ cache = [n \in Hub |-> [d \in DedupId |-> 0]]
    /\ waiting = cscene.asked
    /\ answered = [n \in Hub |-> {}]
    /\ walk = [n \in Hub |-> NoWalk]

ChatNext ==
    \/ \E r \in waiting : SendMessage(r) \/ SendAsBot(r) \/ CrossChannel(r)
    \/ \E j \in steps : \/ InsertCross(j) \/ PushPlugin(j) \/ PushClients(j)
                        \/ Remember(j) \/ DropHandler(j)
    \/ \E p \in wire : ReceiveChat(p) \/ LosePush(p)
    \/ \E x \in Client \cup Plugin : Register(x) \/ Subscribe(x) \/ Deliver(x) \/ Close(x)
    \/ \E n \in Hub : ReadPage(n) \/ RestartHub(n)
    \/ \E n \in Hub, a \in Author : LearnAuthor(n, a)

ChatSpec == ChatInit /\ [][ChatNext]_hvars

-----------------------------------------------------------------------------
(* Properties.                                                              *)

\* The types; what a handler still announces is stored, and what the cache answers with too.
ChatTypeOK ==
    /\ \A n \in Hub : stored[n] \subseteq cscene.asked /\ citizens[n] \subseteq Author
    /\ \A j \in steps :
        /\ j.node \in Hub /\ j.next \in {"insert", "plugin", "clients", "remember"}
        /\ j.msg \in stored[j.node] \/ j.next = "insert"
    /\ wire \subseteq (cscene.asked \X Entry)
    /\ \A n \in Hub :     \* the status of the channel is true
        counted[n] = Cardinality({x \in Plugin : HubOf[x] = n /\ conn[x].phase \in {"counted", "open"}})
    /\ \A x \in DOMAIN conn : Len(conn[x].queue) <= BROADCAST_CAPACITY
    /\ \A n \in Hub, d \in DedupId :
        cache[n][d] = 0 \/ \E m \in stored[n] : m.dedup = d /\ m.id = cache[n][d]

Seen(x) == conn[x].got \o conn[x].queue

\* A connection gets a message once, and only one that can be read back on its node,
\* although pushes go to a node under two ids, handlers stop half way and queues drop
\* what they cannot hold.
ShownOnce ==
    \A x \in DOMAIN conn :
        /\ \A i, j \in DOMAIN Seen(x) : Seen(x)[i] = Seen(x)[j] => i = j
        /\ \A i \in DOMAIN Seen(x) : Seen(x)[i] \in stored[HubOf[x]]

\* The plugin of a node is never asked to answer a plugin: not the answers of its own,
\* not those that another node gossips, and not what another channel brought in.
NoEcho ==
    \A x \in Plugin : \A i \in DOMAIN Seen(x) : Seen(x)[i].op = "send"

\* A request with a dedup id that has been answered stores nothing, on a node that has
\* neither started again since nor had to forget: whatever requests with the same id
\* are under way.
RetryStoresNothing ==
    [][\A r \in waiting \ waiting' : r.dedup \in answered[r.node] => steps' \subseteq steps]_hvars

\* A reader who goes back until a page is empty has every message that was there when
\* he began and is not of the TUI, each once, although others are written and arrive
\* with older times meanwhile - unless messages of the TUI fill a page.
WalkComplete ==
    \A n \in Hub :
        LET w == walk[n]
        IN  /\ \A i, j \in DOMAIN w.seen : w.seen[i] = w.seen[j] => i = j
            /\ w.over /\ Cardinality({m \in stored[n] : m.tui}) < Limit
               => \A m \in w.due : m.tui \/ \E i \in DOMAIN w.seen : w.seen[i] = m
=============================================================================
