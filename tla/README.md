# quazar-node: verification

Models, model-checking runs and proofs for the Rust node in `src/src/`. A node
is an axum server over PostgreSQL; nodes talk to each other over HTTP.

To check: `tlc -config <run>.cfg <module>` for each run of `PROJECT.json`,
`tlapm <module>.tla` for each `*Proofs.tla`.

## 1. The system

| Component | State | Operations | Talks to |
|---|---|---|---|
| Block layer (`blockchain.rs`, `models.rs`) | `blocks`, `events` tables | hash, classify, insert, truncate, adopt, replay | production, synchronisation |
| Pending pool (`pending.rs`) | `pending_events` table | insert, list, delete | submission, gossip, production, synchronisation |
| Event submission (`handlers.rs::add_event`, `validator.rs`) | the request at hand | validate, insert, spawn | pending pool, gossip, production |
| Gossip (`gossip.rs`) | pushes on the wire | push once, receive | other nodes' pools |
| Block production (`block_producer.rs`) | a task per submitted event, one of the background loop | producer check, collect, gate, transaction | pools of all peers, block layer |
| Synchronisation and self-healing (`block_producer.rs`) | the round's registry, the peer's blocks, `local_blocks` | fetch, scan, insert, truncate, adopt | `GET /blocks` of peers, block layer, registry |
| Node registry (`nodes.rs`) | `nodes` table | upsert, list alive | producer rotation |
| Start-up (`main.rs`) | environment | register itself, bootstrap, spawn the loop | all |
| Projections (`projection.rs`) | citizens, passports, candidacies, initiatives, referendums | apply an event, rebuild all | block layer |
| Exchange (`exchange.rs`) | `offers`, `orders`, `balances` | create/cancel offer, order, grant, read | catalogue |
| Candidacies, initiatives, referendums (`candidacy.rs`, `initiative.rs`, `referendum.rs`) | a row per motion, a row per vote, on every node | propose, vote, refresh the tally, approve, appoint | submission, projections |
| Citizens and passports (`citizen.rs`) | `citizens`, `passports`, passwords | register, change status or role, issue and revoke passports: each only checks, and submits an event | submission, projections |
| Votes (`votes.rs`) | `votes`, `vote_choices` | create, cast, finalize | - |
| API keys (`keys.rs`, `auth.rs`, `auth_login.rs`, `http.rs`) | `api_keys`, key store, the environment | create, revoke, log in, push, periodic pull, align roles | citizens, other nodes |
| Registration (`register_verify.rs`) | codes with cooldowns, counts per IP | send, check, use up | SMTP |
| Chat, channel hub (`chat.rs`, `channel.rs`) | messages, connections, queues, dedup cache | store, announce, answer, gossip, page back | other nodes, plugins, browsers |
| Service catalogue (`svod.rs`) | `service_catalog` | list, add, change, disable | exchange |

What makes it hard:

- **Two writers of one chain.** `create_block_from_events` holds an advisory
  lock and runs under READ COMMITTED; `insert_synced_block` and
  `truncate_chain_from` write the same tables without that lock.
- **Decisions on snapshots.** The producer check, the confirmed events, the
  registry of a round and `local_blocks` are read long before they are used, with
  network calls in between.
- **Steps that commit apart.** Truncation, replay, every inserted block and the
  clean-up of the pending rows are separate commits: failures and crashes fall
  between them.
- **Transactions under READ COMMITTED.** Each statement of a truncation, of a replay or of
  a task's block sees what others have committed since the one before it.
- **A second entrance.** `POST /event` takes an event of any kind from anyone with an API
  key. The validator checks its fields; what the handlers of citizens and candidacies check
  before they build an event, nobody checks.
- **Gossip is best effort**: one push, a 3 s timeout, no retry.
- **Errors become defaults** (`unwrap_or`): a failed read looks like an empty table.
- **Governance writes twice.** A vote or nomination is written to the node's own
  row at once and comes back through a block, in its own order, to nodes whose rows
  say something else.
- **A replay rebuilds by deleting.** A node that gives up a fork deletes its citizens
  and applies the chain again, beside tasks that add blocks, under foreign keys of
  tables that are not rebuilt.
- **Handlers end at any await** when their client goes away: what comes after
  (a second write, an announcement, an entry of a cache) does not happen.
- **Row locks** in the exchange are taken in the order buyer, seller.

What makes each part correct: a chain is numbered without gaps and linked by
hashes, hashes describe contents; an event is confirmed exactly when the chain
holds it, and leaves the pool only then; blocks vanish only by self-healing, from
the fork on, at the designated producer; nodes with one registry hold prefixes of
one log; every pending event is confirmed in the end; nobody is approved or gets a
role without the votes, on any node, unless a client has posted the event itself, and what blocks
confirm is what counts; the tables of citizens and passports are what the chain says; money and stock add up whatever order the
requests run in; a key has no role its citizen never had and spreads to all nodes, a
code opens once, a closed vote stays closed, a message is shown once and never answered in
circles. `PROJECT.json` lists the hazards by line and the
property that covers each.

## 2. The modules

```
Blockchain        operators on blocks and tables (no state)
  QuazarNode      the network of nodes
    LoopNetwork   its chains as a log; INSTANCE ReplicatedLog
      MCQuazarNode       constants of the runs
  BlockchainProofs
    QuazarNodeProofs     (EXTENDS QuazarNode) types, hashes, confirmation
      LinkProofs         linked chains, prefix agreement, events once, healing, the log
ReplicatedLog     what production and synchronisation promise together
Exchange          offers, orders, balances
  MCExchange      constants of its run
  ExchangeProofs  types, locks, the books
Motions           candidacies, initiatives, referendums over the log
  MCMotions       constants of its runs
  MotionsProofs   types, states that never go back, where approvals and roles
                  come from, confirmed votes stand
Citizens          citizens and passports over chains that fork
  MCCitizens      constants of its runs
  CitizensProofs  types, folds, passports, revocations
ApiKeys, RegisterVerify, Chat, Votes, Catalogue    the services beside the chain
  ChatProofs      (EXTENDS Chat) messages shown once, circles, repetitions, pages
  Services        the five side by side
    MCServices    constants of its runs
    ServicesProofs   (EXTENDS Services, ChatProofs) the other four, and all five together
```

A lower-case definition marked "Faulty variant" is not part of a model: it is the
form of a definition with a plausible bug, and the property it is written for has
to fail with it.

**Blockchain.** A `blocks` table is a set of `Block` records. A hash is a
commitment: it is the record of everything `compute_block_hash` feeds to
SHA-256 (number, timestamp, previous hash, event hashes, count), so two hashes are
equal exactly when the contents are. The concatenation is injective because
timestamps have a fixed width, and SHA-256 is taken as free of collisions. An event
is its `event_id` (two contents under one id are not modelled), the events of a
block are a set because the code sorts them. Signatures are not part of the hash
and are left out. `classify_block`, `chains_share_prefix`,
`producer_id_for_block` and `resolve_block_producer` are translated one to one.

**QuazarNode.** Per node: the tables `blocks`, `events`, `pending`, the alive rows of
`nodes`; requests on their way (`adding`, `wire`, `receiving`); `creator[n][t]`, the
`try_create_block` task spawned for event `t` or the loop's own `bg`, with its locals;
`syncer[n]`, the loop's place in `sync_blocks_from_peers`, with its locals.

| Actions | Code |
|---|---|
| `AddEventValidate`, `AddEventInsert` | `add_event`, `validate_event` |
| `GossipLost`, `GossipCheck`, `GossipInsert` | `push_pending_to_peers`, `receive_gossip_event` |
| `CheckProducer`, `CollectPending` | `try_create_block`, `collect_network_pending`, `block_creation_gate` |
| `BeginTx`, `ReadTip`, `ReadNumber`, `CommitBlock`, `BlockNumberTaken`, `CreateFails`, `ApplyCreated` | `create_block_from_events`, a step per statement that reads committed data |
| `BeginRound`, `FetchBlocks`, `FetchFails`, `LoadLocal`, `ScanBlock`, `ScanDone`, `EndRound` | `sync_blocks_from_peers`, `background_sync` |
| `InsertSynced`, `SyncNumberTaken`, `CleanupPending`, `SyncFails` | `insert_synced_block` and its deletions |
| `DeleteEvents`, `DeleteBlocks`, `CommitTruncate` | `truncate_chain_from`: the blocks it reads and their rows of `events`, the blocks it deletes, the commit |
| `ReplayProjections`, `AdoptBlock`, `AdoptDone` | `replay_projections`, `adopt_peer_suffix` |
| `AddPeer`, `Crash` | `POST /peers`, a crash and `main`'s start-up |

Atomicity: a transaction whose effects are all its own is one step, at its commit.
`truncate_chain_from` is three steps: a block that a task commits after the SELECT of the
blocks loses its row to the later DELETE and keeps its rows in `events`. The
reads of one `classify_block` call are one step, so is the collection of the peers' pools.
`RowsFree` is PostgreSQL's wait of an `ON CONFLICT` insert for another open
transaction's row. A projection is a step that may fail (`Faults`). The age test of the
block gate is a free choice: any batch may be old enough. `Faults` lets queries and
requests fail, `Garbling` damages a block list, `BlindReads` replaces a read by the
default in the code's `unwrap_or`. A push that the receiver's validator refuses is a
lost push. Peers whose URL is on localhost are left out of the rotation by
`producer_id_for_block`: `Public` are the others.

**ReplicatedLog / LoopNetwork.** The abstract log: only a node that nobody is ahead of
appends, and only events that are not in its log; the others copy. `LoopNetwork` maps
`blocks[n]` to the sequence of its (timestamp, events) pairs.

**Exchange.** `create_order` is a transaction of three waits: the offer's row
(`OrderOffer`), the buyer's balance (`OrderBuyer`), the seller's (`OrderPay`, with the
updates and the commit, which wait for nothing). `cancel_offer` is a read and an
unconditional update, `add_balance` and `get_balance` are EXISTS, INSERT, UPDATE, each
its own commit. Request fields are unsigned words cast to signed ones; casts and
`i64` products wrap (release build), a column refuses what is out of range.
PostgreSQL's deadlock detector (`Deadlocked`, external) ends a transaction that waits
in a circle. `granted` and `posted` are histories for the sums. Requests are taken as
authorised and from active citizens.

**Motions.** What citizens ask of several nodes, and what the blocks make of it. The
chain is taken as `ReplicatedLog` promises it: one `log`, of which node `n` has
projected the first `height[n]` blocks; a block is a set of events, because its producer
sorts them. Per node: a row per motion (`motion`: status, tally, threshold), a row per vote
(`ballot`), the roles of citizens, the pending pool. `at[r]` is the statement that the
handler of request `r` has reached, with what it has read. The three kinds of motion share
their handlers' shape and name their states alike here: "open" is Active and Proposed,
"approved" is Approved and Passed.

| Actions | Code |
|---|---|
| `nominate_candidate`, `propose_initiative`, `announce_referendum` | the duplicate check, the row, `submit_pending_event` (`Validate`, `Enqueue`) |
| `vote_for_candidate`, `vote_on_initiative`, `vote_on_referendum` | the check of the state, the vote, `refresh_vote_counts` as the snapshot it counts in and the write that waits for the row, the event, then the threshold and the approval with its event |
| `appoint_candidate` | the check, the unconditional update, two events |
| `add_event` (`PostValidate`, `PostInsert`) | `POST /event`: an event that a client has made up |
| `Abandon` | a handler that is dropped between two awaits, or whose statement fails |
| `Gossip`, `ProduceBlock`, `SyncBlock` | the transport of events and blocks |
| `Project` and `apply_*` | `projection.rs`, an event at a time in the order of `Before` (second, then event id) |
| `Tick` | the seconds that timestamps are made of |

A projection is one transaction, so nothing runs between its steps (`Quiet`).
`CanProject` is the foreign key of `candidacy_votes`: a vote on a candidacy that the node
does not know fails the block. Citizens are registered on every node and active, callers
of the handlers are authorised. A posted event may be of any kind, about any motion whose id
has been drawn, under any `event_id`: the validator looks at its fields, and at the candidacies only
for a CitizenUpdated with a governance role (`validate_governance_role_via_candidacy`). `posted` is
a history: it says which motions a client has decided himself (`Overridden`). Posted data
that a projection refuses is left to Citizens. `LawVoteStarted` is left out: no initiative is in a state it would change.
What a failing projection does to synchronisation is not in the module: a node that cannot
project the next block stays where it is; that is the matter of Citizens.

**Citizens.** The handlers of `citizen.rs`, which look at the tables, submit an event
and write nothing themselves; `POST /event`, which submits the event of a client as it is; and
the tables as a fold of the chain. Here every node has a chain of its own, and how blocks are
agreed on is left to QuazarNode: any producer may add a block, `Designated` says only whose
turn a block is. A block is the sequence `collect_network_pending` makes of its events
(`Before`), because the projections of one block depend on each other; it takes one event per id
(`OnePerId`), and the order of a block is any that `Before` allows (`InOrder`). The id of a
status change is made of the citizen and the second, so two changes on two nodes in one second
share it, and one is lost.

Three kinds of transactions write the tables. The loop adds a block with its projections in one
step (`Produce`, `Sync`, `Adopt`), since it is one process. A task that an accepted event
spawned goes event by event (`OpenTask`, `ProjectEvent`, `CommitTask`), beside the loop: `own` and
`locks` are what it has written, over what is committed (`Overlay`, `Seen`). And
`replay_projections` is three steps: the deletions (`ReplayDelete`), the SELECT of the blocks
(`ReplayRead`), the projections with the commit. Who needs a row that the other has written waits:
the loop for the task (`Unlocked`), the deletions for the task, the task for the rows the replay has
deleted (`held`). When the replay has committed, what the task was waiting to do comes to nothing or
fails (`Missed`): an UPDATE of a deleted row matches none, although the replay has inserted the row
again. `writer` stands for the rows of the chat, of initiatives and of referendums that refer
to citizens.

| Actions | Code |
|---|---|
| `Check`, `Insert` | the handlers with `submit_pending_event`, and `add_event`: the checks with `validate_event`, the row, the task |
| `Receive` | gossip, which validates again |
| `SetPassword`, `WriteChat` | rows that refer to a citizen: passwords go with their citizen, other rows keep it from being deleted; only an active citizen writes in the chat, its gossip asks for the row alone |
| `Produce`, `Sync` | a block of the loop and its projection, in one transaction |
| `OpenTask`, `ProjectEvent`, `CommitTask`, `AbortTask` | `create_block_from_events` by a spawned task |
| `Truncate`, `ReplayDelete`, `ReplayRead`, `replay_projections`, `Adopt` | `truncate_chain_from`, whose replay is a transaction of its own that may fail, and `adopt_peer_suffix` |
| `Apply` and `apply_*` | `projection.rs` |

A posted event is what the validator lets through: a CitizenAdded may lack the `citizen_id`, a
PassportIssued may have an `expires_at` that is no number ("malformed"), a citizen that is not
there, a passport that was revoked; a PassportRevoked may name the passport of another
citizen. Other data that a projection refuses (an unknown role in a CitizenAdded, a status that
is no string beside a role in a CitizenUpdated) has the same effect as the first two and is left
out; so is a status that is none of the four.

**ApiKeys.** A row of `api_keys` per node and key. Creation, login, alignment and the
receipt of a pushed key read a role in one statement and write it in another (`jobs`), and
meanwhile the node projects the ledger of role changes (`Project`). The round of
`sync_keys_from_peers` is asking a peer (`Fetch`, `FetchFails`) and storing what it said
record by record (`StoreRecord`). `Restart` drops handlers and rounds and stores the
keys of the environment.

**RegisterVerify.** `send_code_handler` is the steps between its locks: limit per origin
(`CheckIp`), cooldown (`CheckCooldown`), the mail (`Mail`, `MailFails`), the code
(`StoreCode`), the count (`record_ip_send`). `verify_code_handler` is one step, behind one
lock. A request stands for the code it draws.

**Chat.** Storage, gossip and the hub: `SendMessage`, `SendAsBot`, `CrossChannel` are the
three entrances, `PushPlugin`, `PushClients`, `Remember` what a handler still does, each
behind an await where it may end (`DropHandler`); `ReceiveChat` and `LosePush` the
gossip, to every entry of a registry that may list a node twice; `Register`, `Subscribe`,
`Deliver`, `Close` a connection with its bounded queue; `ReadPage` a reader who goes back
page by page. One channel.

**Votes.** `create_vote`, `finalize_vote`, and `cast_vote_handler` as the check of the
state and the write of the choice (`cast_vote`, `Count`). The result of the write is
dropped by the code (`let _ =`), so it may fail unnoticed (`CountLost`).

**Catalogue.** `update_service` is the reading with the checks of the row as it would become
(`BeginUpdate`), and the statement that writes all fields of it (`EndUpdate`);
`create_service` and the disabling are single statements.

## 3. The runs

| Run | Question | Bounds |
|---|---|---|
| Gateway | a node with a spawned task and its loop, beside one forced to produce; registries that POST /peers and blocks change | 2 nodes, 3 events, tasks started on chains of at most 1 block |
| Faults | two loop-driven nodes, failing and blind reads, damaged lists, lost pushes, a crash | 2 nodes, 3 events, 3 blocks, 1 crash |
| LoopLive | one registry, loops only: do the chains implement `ReplicatedLog`, and does the rotation confirm every pending event everywhere? | 3 nodes, 2 events, 2 blocks |
| Exchange | do money and stock add up, is every request answered? | 2 citizens, 2 offers, 6 requests, 4-value half words |
| Motions | are approvals, roles and votes right on every node, whatever order requests and blocks come in? | 2 nodes, 3 citizens, 2 votes needed, 11 scenarios of 2 or 3 requests (6 with posted events), seconds 0 and 1 |
| Citizens | are the tables what the chain says, do passports have their citizens, is what was accepted confirmed? | 2 nodes, 3 citizens, 2 names, 2 passports, 12 scenarios of 2 to 4 requests (5 with posted events, 4 with a fork), chains of 4 blocks |
| Services | are keys, codes, messages, votes and the catalogue right, whatever overlaps? | 2 nodes; 2 keys, 3 scenes; 2 requests for a code, 4 instants; 3 scenes of 3 messages, queues and caches of 1; 1 vote, 2 citizens, 2 casts each; 2 services, 8 requests |
| Unlinked, UnearnedRole, OneVoteLaw, ReplayLost, KeyRevived | statements of the repository that the code does not keep | 2 nodes |

What they show:

- *HashCommitted, PendingLeavesConfirmed* hold through failures, crashes, self-healing and
  races (Faults; proved for every node, those with spawned tasks included, section 5).
- *ObserverLinked, PrefixAgreement, ConfirmedInChain* hold for nodes that run no spawned task
  (`Observer`): there one process writes the chain. On a node that takes
  submissions all three fail: run Unlinked for the links, and section 4 for the rows of
  `events` that a truncation leaves when a task commits a block between its statements.
- *HealReplacesFork*: what is removed starts at a real fork, above an agreed prefix, at
  the designated producer of that block, although all of this was decided on a snapshot. On a
  node without tasks everything above the fork goes; beside a task a block may be
  committed after the DELETE has looked, and stay.
- *NoEventTwice* holds on loop-driven nodes (Faults). It is not asked of nodes with
  spawned tasks: the filter against confirmed events is read once, and a block that is
  synchronised between it and the commit (the missing lock of Unlinked) brings an event again.
- *ImplementsLog*: under one registry, the loops implement the abstract log (LoopLive without
  failures; the theorem LoopsImplementLog with failures, crashes and damaged lists). Spawned tasks
  leave it: their producer check is older than the block (section 4).
- *EventuallyConfirmed*: an event that only one node knows reaches every chain.
- *Exchange*: balances and stock are exact, buyers are covered, cancelled offers sell
  nothing, circular waits end.
- *ApprovalBacked, RoleEarned*: an approval is decided from a count that may be old and
  from a tally that blocks rewrite; the votes are there all the same, on every node, and so
  for every role given. Posted votes change nothing in that: they count as votes. What does is a
  nomination (with a threshold of its own), an approval or an appointment that a client posts as an
  event: then the candidacy needs no votes, and for an appointment no candidacy. A posted
  CitizenUpdated gives no role that has not been earned so.
  *UnearnedRole* is the case the validator's message excludes.
  *ConfirmedVotesStand*: of two votes of one citizen on two nodes the
  one in the block is counted everywhere, until a block has a later one, which a client has posted
  under an id of its own. *StatusAdvances*: requests, posted events and blocks that write
  one row never take its state back. *OneVoteLaw*: an initiative passes with one vote on
  every node but its proposer's, and then everywhere.
- *ProjectionIsFold*: tables and chain agree on a node whose blocks only its loop adds, although
  truncation, replay and adoption are transactions of their own and handlers, gossip and the chat
  go on between them - as long as the replay succeeds (*ReplayLost*: with a chat row it fails, and
  nobody repeats it). It is not asked of nodes with spawned tasks, where it fails: a task
  whose block is committed after the replay has read the blocks has it in the chain, and of its
  projections at most a part in the tables (section 4).
  *PassportBacked*, also beside tasks: two nodes issue a passport to one citizen, one is revoked: the
  flag of the citizen and the passports go together - unless a client posts a PassportRevoked
  with the passport of another citizen, whose flag then stays. *RevokedForGood*: where blocks do not
  fork a revocation is not undone - unless a client posts the passport as issued, under a new id.
  *AcceptedConfirmed*: a name taken twice, a passport for a citizen that lost its name: no
  event of a handler stops production, where blocks do not fork, and no posted one but
  CitizenAdded without an id and PassportIssued. Those do stop it: the validator accepts
  them, and every block with one rolls back, on every node that collects it, as long as the
  projection fails. Confirmed means that the
  chain has an event of its id.
- *KeyRoleHeld, DeadStaysDead, KeyReachesAll*: a key carries only roles its citizen had,
  one that is active nowhere stays so, and one that stays active reaches every node.
  A revocation has no such luck (*KeyRevived*): the pull makes the key active again.
- *CodeOnce, IpLimit*: codes are used once, in time, for their address, with overlapping
  requests; the count of an origin overruns the limit by what overlaps and no more. It is the count
  that is bounded, not the mails: a handler dropped after its mail, or whose mail was sent and then
  reported as failed, is not counted.
- *ShownOnce, NoEcho, RetryStoresNothing, WalkComplete*: a browser gets a message once,
  plugins do not answer plugins, a request repeated after it
  has been remembered stores nothing (two that overlap before that both store), paging misses nothing.
- *ClosedForGood*: a vote that is closed changes only by the casts under way.
- *CatalogueSound*: updates lose each other's changes, but a row is always one that some
  administrator's request was checked to give; create_offer casts these numbers unchecked.

Bounds. `MaxBlock` bounds only when the loop's task may start, so chains get longer than
it by the tasks in flight and by adopted blocks. A fork needs two nodes and two events; a
third event gives a block above it, which is what self-healing, gaps and truncation are
about. Two nodes suffice for a race between two writers of one chain and for one peer's
stale copy; the rotation's waiting needs three. One timestamp is enough
where blocks differ by their events. One crash at any step is
enough for a partial commit, because a crash loses all that is not in the tables.
`POST /event` for one event is made once per node. In Exchange `Half = 4` stands for
2^63: 7 is a price and a quantity that turn to -1, balances overflow at 4, both on a
credit and in an order. In Motions a behaviour has the requests of one scenario: an
approval at one node with an opposite vote at the other, an appointment, a double
nomination (one handler of which may be dropped), a law, a referendum; and posted votes, a posted
approval, role, nomination (under an id in use, of somebody else) and appointment (without a
candidacy). Each is the smallest in which two requests meet each other and a block. Two seconds give events of the same
and of different seconds; the threshold of 2 of 3 citizens is neither one vote nor all. In
Citizens the scenarios are those in which two requests compete: for a name, a passport,
a status, a role; posted events that rename a citizen, issue a revoked passport again, lack an
id, or come before their citizen; and a fork, of which one node gives up its side, once an observer, and
twice a node whose tasks suspend a citizen, issue the passport, or revoke it meanwhile. Four
blocks are one for each event. In Services every part has two of what can meet: requests for a code from one
origin under a limit of 1, logins on two nodes, messages of one dedup id, citizens of a vote;
and a queue and a cache that one more overflows. The five parts share no state, so a
behaviour runs one of them.

Each property of a passing run has a mutant in `PROJECT.json` that it refutes.

Deadlock checking is on in the block runs (the loop always has a next step). It is off
in Exchange, Motions, Citizens and Services, which end when all requests are answered.

### Fairness

`QuazarNode!Fairness`: weak fairness of each node's background loop (a task that is always
ready, tokio polls it) and of the spawned tasks and requests at hand. Nothing is assumed of
clients, of deliveries being in order, or of which task goes first.
`Exchange!FairSpec`: each request goes on when the lock it waits for is free; nothing
is assumed of arrivals. Failures are never fair, except that a deadlock or an
out-of-range update ends its transaction.
`Citizens!Fairness`: the loop of a producer collects, in the end from all nodes, every
node fetches blocks from every peer, and the transaction of a task goes on to its end
(`ProjectEvent`, `CommitTask`), since tokio polls it; it may be aborted at any time. Gossip, clients,
the beginning of a task and a node that gives up a fork get none.
`MCServices!FairSpec` (`KeysFairness` where the keys are the part): the background loop of
every node goes round, and a peer that is asked again and again answers in the end
(strong fairness of `Fetch`; without it, no pull can bring anything). Codes, chat,
votes and the catalogue have safety properties only.

## 4. Disagreements found

| Run | What the repository says | What the code does |
|---|---|---|
| Unlinked | `classify_block` demands previous_hash = hash of the block below | last hash and number are two reads; a block synchronised in between makes the node commit a block its peers reject |
| UnearnedRole | "Governance roles can only be assigned through candidacy appointment" (validator.rs:446) | a client posts a CandidateAppointed event; the validator checks three fields of it, and the projection gives the role (projection.rs:368) |
| OneVoteLaw | an initiative passes at 5 % of votes For (src/README.md:212) | LawProposed events carry no threshold and the projection takes 1 |
| ReplayLost | truncation "rebuilds SQL projections from the surviving chain" (blockchain.rs:1030) | the replay deletes all citizens; one row of the chat or of an initiative makes it fail after the truncation is committed |
| KeyRevived | "API key revoked" (keys.rs:99) | the pull of the next round stores what a peer exports as active, whatever the row here says |

Others that were met while modelling, without a run of their own:

- `truncate_chain_from` "Removes blocks/events from `from_block` upward" (blockchain.rs:1030): its
  SELECT of the blocks whose events it deletes and its DELETE of the blocks are two statements
  without the advisory lock (1038, 1057). A block that a task commits between them is
  deleted, and its rows in `events` stay: those events count as confirmed, are refused when they
  are submitted again, and are in no block.
- `replay_projections` "Rebuilds citizens/passports from all blocks still in the chain"
  (blockchain.rs:1070): a task whose UPDATE waits for a row that the replay has deleted matches no
  row when it goes on, and commits; the chain then has a suspension, a passport or a
  revocation that the tables lack.
- The validator takes a CandidateApproved without votes, a PassportRevoked with the passport of
  another citizen, a PassportIssued that makes a revoked passport valid again, and
  a CitizenAdded or PassportIssued whose projection fails in every block (validator.rs:66, 89, 226, 321,
  projection.rs:50, 119, 162): no statement of the repository about it was found but that of UnearnedRole.
- `try_create_block` "avoids competing forks" (block_producer.rs): the producer check
  uses a block number (549) that is not checked again when the block is committed.
- `POST /peers` answers "Peer will be added to network via blockchain"
  (handlers.rs:408): plain synchronisation does not apply PeerListUpdate events
  (block_producer.rs:241), only their producer and an adoption do.
- `cancel_offer` refuses a filled offer, but the check (exchange.rs:407) and the update are
  two statements.
- `cast_vote_handler` answers "Vote cast" when its INSERT has failed (handlers.rs:340).
- A service that is disabled while an update of it is under way is enabled again by its
  UPDATE, which writes the old `is_active` (svod.rs:284).
- A citizen is active only with a passport (src/README.md:95); `update_status` sets
  active without one.
- src/README.md:308 calls the synchronisation of the chat not implemented; gossip pushes
  messages.
- A key of a pending citizen is accepted by a node that has not projected the citizen
  (http.rs:305).
- A message that is gossiped is answered by the plugin of every node that has one; one that
  an administrator sends is announced on the other nodes and not on his own.
- When a node gives up a fork, citizens and passwords that no event made (those
  of the migrations, the channels' bots) are deleted with the others. If a task adds a
  block between truncation and replay, later blocks of the peer may not fit.

## 5. The proofs

All for every value of the constants, under the modules' named assumptions only
(`NodeAssumption` of Blockchain, `NetworkAssumption` of QuazarNode:
domains of the constants; `ExchangeAssumption`: words, domains, positive quantities within
the catalogue's bounds; `MotionsAssumption`: domains, finitely many citizens, and a fresh id for
each proposal; `CitizensAssumption`: domains, and ids of citizens and passports that are drawn
once; `ChatAssumption`: domains, messages told apart by their ids, dedup ids on cross-channel requests
only, finitely many connections; `KeysAssumption`, `CodesAssumption`, `VotesAssumption`,
`CatalogueAssumption`: domains, at least one role, finitely many requests for codes, a limit of at
least 1, a listed catalogue that is acceptable). TLC evaluates these in the runs. Where a
theorem asks for more, it says so in its statement.

| Theorem | Module | Says |
|---|---|---|
| TypeCorrect | QuazarNodeProofs | TypeOK. Carried by: every table has a highest number (`Bounded`) |
| HashesCommitted, PendingNotLost | QuazarNodeProofs | HashCommitted, PendingLeavesConfirmed, on every node |
| ConfirmedEventsInChain | QuazarNodeProofs | ConfirmedInChain: on nodes without spawned tasks, whatever the others do |
| ObserversLinked, PrefixesAgree | LinkProofs | ObserverLinked, PrefixAgreement, given `ReadsOrPeers` |
| EventsConfirmedOnce, HealsReplaceForks | LinkProofs | NoEventTwice, HealReplacesFork, given that no node spawns production tasks (`Requests = {}`) |
| LoopsImplementLog | LinkProofs | ImplementsLog, given `LoopsAgree(R)` |
| Types, BuyersAreCovered, CancelledIsFinal | ExchangeProofs | TypeOK, BuyersCovered, CancelledFinal |
| BalancesAreExact, StockIsExact | ExchangeProofs | BalancesExact, StockExact |
| Types, Advances | MotionsProofs | TypeOK, StatusAdvances |
| Approval, RolesAreEarned | MotionsProofs | ApprovalBacked, RoleEarned |
| VotesStand | MotionsProofs | ConfirmedVotesStand |
| Types, TablesAreFolds, PassportsBacked | CitizensProofs | TypeOK, ProjectionIsFold, PassportBacked |
| RevokedStays | CitizensProofs | RevokedForGood |
| VotesClose | ServicesProofs | ClosedForGood |
| KeysTypes, DeadStays, RolesHeld | ServicesProofs | KeysTypeOK (part of ServicesTypeOK), DeadStaysDead, KeyRoleHeld |
| ServicesApart, ServicesTypes | ServicesProofs | each service behaves as it does alone; ServicesTypeOK |
| CodesOpenOnce, LimitHolds | ServicesProofs | CodeOnce, IpLimit |
| CatalogueStaysSound | ServicesProofs | CatalogueSound |
| ChatTypes, ShownAtMostOnce, PluginsHearCitizens | ChatProofs | ChatTypeOK (part of ServicesTypeOK), ShownOnce, NoEcho |
| RetriesStoreNothing, WalksAreComplete | ChatProofs | RetryStoresNothing, WalkComplete |

### The block layer

*QuazarNodeProofs.* The invariant `ConfirmInv` says of each table that no number occurs
twice and every hash is right; and of the
synchronisation what it knows of the block at hand: its hash is right when it is about to be
inserted (classify_block's check survives until the insertion), and the block is in the
table while its pending rows are deleted. Without the latter the clean-up could
drop unconfirmed events.

*QuazarNodeProofs, confirmed events.* On a node without spawned tasks the loop either
synchronises or produces (`LoopInv`), so nothing is committed between the statements of a
truncation: the events it deletes are those of the blocks it deletes (`Deletes`, part of
`RecordInv`). What the peers serve does not matter. With a spawned task the theorem fails (section 4).

*LinkProofs, links.* The invariant `NodeLinked` says of a node without spawned tasks that its
loop either synchronises or produces (`LoopOnly`), so what a task has read of the tip
(`TipKnown`) and what the synchronisation has classified (`SyncFits`) still holds at the
insertion. `LinkedAppend` and `LinkedPrefix` of BlockchainProofs then keep the chain linked
when a block is added or the chain is truncated. PrefixesAgree follows by the least height
at which two linked chains would differ. The assumption `ReadsOrPeers` is needed: a failed
read that the code replaces by a default admits a block with previous hash "0" at the next
number, and a peer with spawned tasks can hold such a block at any height.

*LinkProofs, events.* A hash is the record of all that is below it (`HashOfLinked`), so "no
event twice" is a statement about one hash (`Unrepeated`), which holds of a peer's
reply as well as of a table, even of a block whose list is damaged or whose chain has
gone since. `OnceInv` adds that what a task has filtered stays new until its commit.

*LinkProofs, the log.* `LoopsAgree(R)`: no requests, nobody forced to produce, no blind reads,
every registry lists the same public nodes `R` and nothing changes that. Then a block is of the
node whose turn its number is, which has it first (`Settled`). If a node produces,
its turn is that of the number above its own tip (`TurnInv`), and as all blocks of that number
would be its own, nobody is ahead of it; and as there is one producer for each number, no
classification ends in a fork (`NoFork`) and nothing is ever truncated. Every step of the
network is then one of `ReplicatedLog` (`LogStep`): a commit appends at a node that nobody is
ahead of, with events that are in no log (from `OnceInv` and the order of the chains), an
insertion copies, and everything else stutters. The run LoopLive checks it on three nodes without failures; the theorem allows failing
queries, crashes and damaged lists.

*LinkProofs, healing.* A truncation is decided on `local_blocks`, a copy made at the beginning
of the visit. `HealInv`: until the visit has truncated, the copy is contained in the table; once
it has, the copy differs from the peer's chain below every block that is left of it, so
`chains_share_prefix` fails for the rest of the visit and no second truncation is decided
with a copy that is out of date. A copy may lack what the table has (a blind read), never
below a fork that passes the check, since the peer's chain has no gaps (`Whole`).

These hold only where the loops alone produce. With spawned tasks an event can come
twice (section 3), a peer may have a gap, and the copy would not be what the table is.

### Money

*ExchangeProofs.* The invariant `IInv` is the discipline of the locks: one holder per
offer and per buyer's balance, the offer is as it was read, the balance still covers the
total. BuyersCovered and CancelledFinal are then one look at the step that pays or cancels.
The books (`BooksInv`) compare balances and stock with sums over the set of orders. The library
adds up a set by a recursive function on its subsets, that takes out a chosen element each time;
such a function exists (`IterExists`, in layers by size), is the only one (`IterUnique`), and the
sum does not depend on the choice (`SumWithout`: a set without one of its elements, by the
smallest counterexample). One more order then adds its total (`OneMoreOrder`), in the
wrapped arithmetic of signed words (`SignedSum`).

### Governance

*MotionsProofs, states.* `appoint_candidate` and its projection write "appointed" without a look
at the row, and `ProposeInsert` writes a new one. `StatusInv` says why neither takes a state back:
a motion whose proposal has not inserted its row is known nowhere, in no row, vote or event
(`Nowhere`: a client cannot name an id that has not been drawn), only candidacies are ever
appointed, so that approvals of laws, which are unconditional too, meet none
(`AppointedCandidacies`), and a handler that appoints has found a row (`Appointing`). Posted events
need no argument of their own: they are projected as the others are.

*MotionsProofs, approvals.* An approval is decided from one row's tally and then travels: as the
place of a handler, a status, a pending event, an event of a block, a role. `ApprovalInv` says of
each of these that the votes are there, or that a client has posted what does without them
(`EventsCarry`, `RequestsEntitled`, `RowsTruthful`),
of each tally and each count not yet written that no more was counted than citizens voted,
and of each vote in a row that it was cast (`BallotsVoted`). A posted event is its own warrant, but
for a CitizenUpdated with a governance role: that one passes the validator only because of an approved
row, which is truthful. Votes and posted events are never taken back, so
every part survives the steps that do not touch it.

*MotionsProofs, votes.* A confirmed vote is written by the block that has it, and replaced by
later votes of the same citizen in the chain only. Requests do not: they insert where there is none.
`TodoInOrder` says that what is left of a block under projection does not come before what has been
projected, so a vote that is written is never older than the one it replaces. Of the
handlers' votes there is one for a motion and citizen, as their ids agree; the theorem does not need
it, and holds of posted votes with ids of their own.

### Citizens

*CitizensProofs.* The tables are two folds, of the events of a block and the blocks of a chain.
`FoldExists` and `FoldUnique` say that the recursive function behind a fold is there and the only
one; from them `ChainAppended` (a chain with one more block) and the closure lemmas
`BlockWithin` and `ChainWithin`: a set of tables that no event leaves is not left by a block or a
chain. The invariant `IInv` has the types (`Kinds`) and, of each node, three parts.
`Watched`: a node where nobody submits has no task, so what its replay has deleted are its tables, what
it has read is its chain, and outside of a replay the tables are the fold: TablesAreFolds.
`Refers`: rows that refer to a citizen have one, for a task as for the others.
`Stocked` is about passports. `Backed` is the set of tables in which every passport is that
of its one citizen and every mark of a citizen has a valid passport; no event that is `Genuine` leads
out of it. The tables are in it, what a task sees (`Seen`) is, and so is what a replay has deleted;
that they stay so when one of them commits rests on what the locks keep apart: who has locked a
passport has locked its citizen (`Closed`), what a replay has deleted is as it was (`Stands`), and
no passport that came since is of a deleted citizen (`Apart`), since the task waits for that
citizen's row. Without `Paired` this fails, for a posted PassportRevoked locks one citizen and
another one's passport.
RevokedStays is about one producer (otherwise a fork may lose the revocation). Chains are beginnings
of the leader's, which has no event twice (`Led`); a passport in a table was issued by an event of the
chain (`IssuedInChain`), or of the open task's block, which is new (`Spawned`). Only one
event issues a passport that no client posts, so it is behind the one that revoked it for good.

### Services

*ServicesProofs.* For keys, `HeldInv` says of everything that carries a role - rows, jobs,
messages, records fetched and not yet stored - that the owner had it (`Had`); what a
node has projected only grows (`HadGrows`), so what was true of a role stays true while it is
on its way. DeadStays is one look at each step that stores a key: `Export` gives out
active keys only, so a dead key is in no record, and is not in the environment of a
node that starts again. For codes, `CodesInv` says that a code is in the table or
accepted only after its request stored it (`Far`), that a request stores once, and
that the time of a code in the table is that of its request. For the limit, `LimitInv` bounds
the sum of what is counted and what is about to be counted: to pass the limit adds one to
the sum, to be counted moves one from one side to the other. For the catalogue, `EditsSound` says that
what an update on its way will write is acceptable, whatever is in the table by then. ServicesApart says that a behaviour of `Services` is one of each of the
five, so these theorems hold of them together; ServicesTypes follows from it and the
types of each.

*ChatProofs.* A node has one handler for a message at most, and only that which stores it
announces it (`WorkInv`); what it has still to announce is shown to nobody (`Unseen`), so it is
shown once when it is. That a plugin hears citizens only follows the places an answer can be in:
no push on the wire is a plugin's answer to a plugin. A page is the beginning of what is older than the last
message the reader has (`PageHasOrder`, by the rank of a message among those not older), so
all that the reader lacks is behind all that he has (`WalkInv`), save for what arrives later.

### Only model-checked

Liveness (EventuallyConfirmed, RequestsAnswered, AcceptedConfirmed, KeyReachesAll), which is
beyond this prover: it has no rules for fairness and ENABLED. Every invariant and every
safety property of a step that a passing run checks is stated by a theorem,
those of LinkProofs under the conditions of the table: HealReplacesFork with spawned tasks (run
Gateway) is model-checked only. The five runs that end in a
violation are counterexamples on small instances; nothing is to be proved of them.

## 6. Not modelled, and the plan

Not modelled: `citizenship_application.rs` (a form passed on by mail, no state), `response.rs`
and `db.rs` (formatting, connections), the limits of requests in `http.rs` (a crate),
payloads and signatures (data), the online status of citizens (a timestamp), the search in
the chat (reads only), the SMTP dialogue, the web site and the monitoring agent (clients).

Partly modelled: the registry without URLs, so without the clash of two ids of one URL;
`validator.rs` without the shapes of payloads, but for those that a projection
refuses (Citizens); authentication without hashes and headers.

What follows, in order:

1. **Healing as liveness**: a fork between nodes with one registry ends; the designated
   producer adopting its peers' copies in turn is what could prevent it. Needs three nodes
   with spawned tasks, more than TLC finishes here.
2. **Proofs**: NoEventTwice, HealReplacesFork and the log are proved where the loops alone
   produce. With spawned tasks an observer's chain is proved linked and its confirmed events in blocks;
   which part of the rest holds of an observer of such nodes is open.
3. **Composition**: Motions and Citizens share the validator's role check and one pool; a
   common log under both would show how a citizen who loses his status ends his candidacies.
