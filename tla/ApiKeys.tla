------------------------------ MODULE ApiKeys -------------------------------
(***************************************************************************)
(* API keys (keys.rs, KeyStore in auth.rs, the role of a request in        *)
(* http.rs, the login of auth_login.rs) on a network of nodes.             *)
(*                                                                         *)
(* A key is a row of api_keys on every node.  Creations and revocations    *)
(* are pushed to the peers once; besides, the background loop of every     *)
(* node fetches the active keys of its peers and stores them.  The role of *)
(* a key follows the citizens table, that each node derives from the       *)
(* blocks it has: here a ledger, of which every node has projected a       *)
(* prefix.                                                                 *)
(*                                                                         *)
(* Callers are authorised (Aiya, or a peer with the node secret), roles    *)
(* parse and every node is in the registry of the others.  The test keys   *)
(* of a development node are keys of its environment.                      *)
(***************************************************************************)
EXTENDS Integers, Sequences, FiniteSets

CONSTANTS
    Node,
    Key,
    Owner,          \* the names of citizens
    Role,
    nobody,         \* the owner in a row that does not exist
    Ledger,         \* the events of the chain: a citizen is added, or gets a role
    KeyRequest,     \* what clients may ask of a node
    KeyScenes       \* of a behaviour: its requests, the keys in the environments
                    \* of nodes, and the nodes that may restart

ASSUME KeysAssumption ==
    /\ nobody \notin Owner /\ Role # {}
    /\ Ledger \in Seq([owner : Owner, role : Role])
    /\ KeyRequest \subseteq [op : {"create", "revoke", "login", "use", "sync"}, node : Node,
                             key : Key, owner : Owner, role : Role]
    /\ KeyScenes \subseteq [asked : SUBSET KeyRequest, restarts : SUBSET Node,
                            env : SUBSET [node : Node, key : Key, owner : Owner, role : Role]]

VARIABLES
    kscene,     \* the scene of the behaviour
    rows,       \* rows[n][k]: the row of k in api_keys of n
    height,     \* height[n]: how much of the ledger n has projected
    jobs,       \* the handlers that have read and not yet written, and the requests
                \* of nodes to nodes that are on their way
    pull,       \* pull[n]: the round of sync_keys_from_peers: peers to ask, records to store
    open,       \* the requests that clients have not made yet
    revoked     \* history: the keys whose last request, a revocation, n has confirmed

kvars == <<kscene, rows, height, jobs, pull, open, revoked>>

NoRow == [owner |-> nobody, role |-> CHOOSE r \in Role : TRUE, active |-> FALSE]
Active(n, k) == rows[n][k].active
Env(n) == {e \in kscene.env : e.node = n}

-----------------------------------------------------------------------------
(* KeyStore.                                                                *)

\* The events on c among those n has projected: none before it is added.
Known(n, c) == {i \in 1..height[n] : Ledger[i].owner = c}

\* The role in the citizens table, or default if n does not know c.
RoleOf(n, c, default) ==
    IF Known(n, c) = {} THEN default
    ELSE Ledger[CHOOSE i \in Known(n, c) : \A j \in Known(n, c) : j <= i].role

\* The insertion or update of upsert_key: the key is active again.
upsert_key(n, k, c, role) ==
    [rows EXCEPT ![n][k] = [owner |-> c, role |-> role, active |-> TRUE]]

revoke_key(n, k) == [rows EXCEPT ![n][k].active = FALSE]

\* The rows of citizens that n knows get their role; sync_roles_from_citizens.
Aligned(n, table) ==
    [k \in Key |-> IF table[k].owner = nobody THEN table[k]
                   ELSE [table[k] EXCEPT !.role = RoleOf(n, table[k].owner, @)]]

\* Faulty variant: revoked keys are exported like the others.
export_all(n) ==
    {[key |-> k, owner |-> rows[n][k].owner, role |-> rows[n][k].role] :
        k \in {j \in Key : rows[n][j].owner # nobody}}

\* internal_export_keys.
Export(n) ==
    {[key |-> k, owner |-> rows[n][k].owner, role |-> rows[n][k].role] :
        k \in {j \in Key : Active(n, j)}}

-----------------------------------------------------------------------------
(* Requests of clients.                                                     *)

Job(kind, n, k, c, role) ==
    [kind |-> kind, node |-> n, key |-> k, owner |-> c, role |-> role]

\* The POST of node n to each of its peers.
Push(kind, n, k, c, role) == {Job(kind, m, k, c, role) : m \in Node \ {n}}

Ask(r, op) == r \in open /\ r.op = op /\ open' = open \ {r}

\* Faulty variant: the role of the request is taken for that of the citizen.
create_as_asked(r) ==
    /\ Ask(r, "create")
    /\ jobs' = IF Known(r.node, r.owner) = {} THEN jobs
               ELSE jobs \cup {Job("create", r.node, r.key, r.owner, r.role)}
    /\ revoked' = [n \in Node |-> revoked[n] \ {r.key}]
    /\ UNCHANGED <<kscene, rows, height, pull>>

\* create_api_key looks the citizen up; a key for an unknown one is refused.
Create(r) ==
    /\ Ask(r, "create")
    /\ jobs' = IF Known(r.node, r.owner) = {} THEN jobs
               ELSE jobs \cup {Job("create", r.node, r.key, r.owner,
                                   RoleOf(r.node, r.owner, r.role))}
    /\ revoked' = [n \in Node |-> revoked[n] \ {r.key}]
    /\ UNCHANGED <<kscene, rows, height, pull>>

\* Then it stores the key, and pushes it.
CreateStore(j) ==
    /\ j.kind = "create"
    /\ rows' = upsert_key(j.node, j.key, j.owner, j.role)
    /\ jobs' = (jobs \ {j}) \cup Push("upsert", j.node, j.key, j.owner, j.role)
    /\ UNCHANGED <<kscene, height, pull, open, revoked>>

\* revoke_api_key pushes only what it has changed.
Revoke(r) ==
    /\ Ask(r, "revoke")
    /\ rows' = revoke_key(r.node, r.key)
    /\ IF Active(r.node, r.key)
       THEN /\ jobs' = jobs \cup Push("revoke", r.node, r.key, nobody, r.role)
            /\ revoked' = [revoked EXCEPT ![r.node] = @ \cup {r.key}]
       ELSE UNCHANGED <<jobs, revoked>>
    /\ UNCHANGED <<kscene, height, pull>>

\* login_handler, for a known citizen with a password: it answers with an active
\* key, or makes one, that is not pushed.
Login(r) ==
    /\ Ask(r, "login")
    /\ jobs' = IF \/ Known(r.node, r.owner) = {}
                  \/ \E k \in Key : Active(r.node, k) /\ rows[r.node][k].owner = r.owner
               THEN jobs
               ELSE jobs \cup {Job("login", r.node, r.key, r.owner,
                                   RoleOf(r.node, r.owner, r.role))}
    /\ UNCHANGED <<kscene, rows, height, pull, revoked>>

\* A request with key k: if the citizen's role is not the key's, the keys of the
\* citizen get the role that was read.
Use(r) ==
    LET row == rows[r.node][r.key]
        role == RoleOf(r.node, row.owner, row.role)
    IN  /\ Ask(r, "use")
        /\ jobs' = IF row.active /\ role # row.role
                   THEN jobs \cup {Job("align", r.node, r.key, row.owner, role)}
                   ELSE jobs
        /\ UNCHANGED <<kscene, rows, height, pull, revoked>>

\* sync_citizen_key_roles.
Align(j) ==
    /\ j.kind = "align"
    /\ rows' = [rows EXCEPT ![j.node] =
                  [k \in Key |-> IF @[k].owner = j.owner /\ @[k].active
                                 THEN [@[k] EXCEPT !.role = j.role] ELSE @[k]]]
    /\ jobs' = jobs \ {j}
    /\ UNCHANGED <<kscene, height, pull, open, revoked>>

\* POST /keys/sync.
SyncRoles(r) ==
    /\ Ask(r, "sync")
    /\ rows' = [rows EXCEPT ![r.node] = Aligned(r.node, @)]
    /\ UNCHANGED <<kscene, height, jobs, pull, revoked>>

-----------------------------------------------------------------------------
(* Requests of peers.                                                       *)

\* internal_upsert_key prefers the role it knows to that of the message.
ReceiveUpsert(j) ==
    /\ j.kind = "upsert"
    /\ jobs' = (jobs \ {j}) \cup
               {Job("store", j.node, j.key, j.owner, RoleOf(j.node, j.owner, j.role))}
    /\ UNCHANGED <<kscene, rows, height, pull, open, revoked>>

Store(j) ==
    /\ j.kind \in {"store", "login"}
    /\ rows' = upsert_key(j.node, j.key, j.owner, j.role)
    /\ jobs' = jobs \ {j}
    /\ UNCHANGED <<kscene, height, pull, open, revoked>>

ReceiveRevoke(j) ==
    /\ j.kind = "revoke"
    /\ rows' = revoke_key(j.node, j.key)
    /\ jobs' = jobs \ {j}
    /\ UNCHANGED <<kscene, height, pull, open, revoked>>

\* A push that fails is not repeated.
Lose(j) ==
    /\ j.kind \in {"upsert", "revoke"}
    /\ jobs' = jobs \ {j}
    /\ UNCHANGED <<kscene, rows, height, pull, open, revoked>>

-----------------------------------------------------------------------------
(* sync_keys_from_peers.                                                    *)

Idle == [peers |-> {}, records |-> {}]

BeginPull(n) ==
    /\ pull[n] = Idle
    /\ pull' = [pull EXCEPT ![n].peers = Node \ {n}]
    /\ UNCHANGED <<kscene, rows, height, jobs, open, revoked>>

Fetch(n, m) ==
    /\ pull[n].records = {}
    /\ m \in pull[n].peers
    /\ pull' = [pull EXCEPT ![n] = [peers |-> @.peers \ {m}, records |-> Export(m)]]
    /\ UNCHANGED <<kscene, rows, height, jobs, open, revoked>>

FetchFails(n, m) ==
    /\ pull[n].records = {}
    /\ m \in pull[n].peers
    /\ pull' = [pull EXCEPT ![n].peers = @ \ {m}]
    /\ UNCHANGED <<kscene, rows, height, jobs, open, revoked>>

\* Faulty variant: a record of a citizen that is not known here is skipped.
store_known(n, r) ==
    /\ r \in pull[n].records
    /\ rows' = IF Known(n, r.owner) = {} THEN rows ELSE upsert_key(n, r.key, r.owner, r.role)
    /\ pull' = [pull EXCEPT ![n].records = @ \ {r}]
    /\ UNCHANGED <<kscene, height, jobs, open, revoked>>

\* A record is stored as it is, whatever the row here says.
StoreRecord(n, r) ==
    /\ r \in pull[n].records
    /\ rows' = upsert_key(n, r.key, r.owner, r.role)
    /\ pull' = [pull EXCEPT ![n].records = @ \ {r}]
    /\ UNCHANGED <<kscene, height, jobs, open, revoked>>

-----------------------------------------------------------------------------
(* The node.                                                                *)

\* The next event of the ledger: a role goes to all keys of the citizen.
Project(n) ==
    LET e == Ledger[height[n] + 1]
    IN  /\ height[n] < Len(Ledger)
        /\ height' = [height EXCEPT ![n] = @ + 1]
        /\ rows' = IF Known(n, e.owner) = {} THEN rows      \* CitizenAdded
                   ELSE [rows EXCEPT ![n] =
                           [k \in Key |-> IF @[k].owner = e.owner
                                          THEN [@[k] EXCEPT !.role = e.role] ELSE @[k]]]
        /\ UNCHANGED <<kscene, jobs, pull, open, revoked>>

\* A crash drops the handlers of n and its round; sync_from_env stores the keys of
\* the environment and aligns all roles.
Restart(n) ==
    LET stored == [k \in Key |->
                     IF \E e \in Env(n) : e.key = k
                     THEN LET e == CHOOSE f \in Env(n) : f.key = k
                          IN  [owner |-> e.owner, active |-> TRUE,
                               role |-> RoleOf(n, e.owner, e.role)]
                     ELSE rows[n][k]]
    IN  /\ n \in kscene.restarts
        /\ kscene' = [kscene EXCEPT !.restarts = @ \ {n}]
        /\ jobs' = {j \in jobs : j.node # n \/ j.kind \in {"upsert", "revoke"}}
        /\ pull' = [pull EXCEPT ![n] = Idle]
        /\ rows' = [rows EXCEPT ![n] = Aligned(n, stored)]
        /\ UNCHANGED <<height, open, revoked>>

KeysInit ==
    /\ kscene \in KeyScenes
    /\ rows = [n \in Node |-> [k \in Key |->
                  IF \E e \in Env(n) : e.key = k
                  THEN LET e == CHOOSE f \in Env(n) : f.key = k
                       IN  [owner |-> e.owner, role |-> e.role, active |-> TRUE]
                  ELSE NoRow]]
    /\ height = [n \in Node |-> 0]
    /\ jobs = {}
    /\ pull = [n \in Node |-> Idle]
    /\ open = kscene.asked
    /\ revoked = [n \in Node |-> {}]

KeysNext ==
    \/ \E r \in open : Create(r) \/ Revoke(r) \/ Login(r) \/ Use(r) \/ SyncRoles(r)
    \/ \E j \in jobs : \/ CreateStore(j) \/ Align(j) \/ Store(j)
                       \/ ReceiveUpsert(j) \/ ReceiveRevoke(j) \/ Lose(j)
    \/ \E n, m \in Node : Fetch(n, m) \/ FetchFails(n, m)
    \/ \E n \in Node : \E r \in pull[n].records : StoreRecord(n, r)
    \/ \E n \in Node : BeginPull(n) \/ Project(n) \/ Restart(n)

KeysSpec == KeysInit /\ [][KeysNext]_kvars

\* The loop of every node goes round, and a peer is reached again and again.
KeysFairness ==
    /\ \A n \in Node : /\ WF_kvars(BeginPull(n))
                       /\ WF_kvars(\E r \in pull[n].records : StoreRecord(n, r))
    /\ \A n, m \in Node : SF_kvars(Fetch(n, m))

-----------------------------------------------------------------------------
(* Properties.                                                              *)

Record == [key : Key, owner : Owner, role : Role]

\* The types, and a row that no node has written is not active.
KeysTypeOK ==
    /\ rows \in [Node -> [Key -> [owner : Owner \cup {nobody}, role : Role, active : BOOLEAN]]]
    /\ \A n \in Node, k \in Key : rows[n][k].owner = nobody => ~Active(n, k)
    /\ height \in [Node -> 0..Len(Ledger)]
    /\ \A j \in jobs :
        /\ j.kind \in {"create", "upsert", "store", "login", "align", "revoke"}
        /\ j.node \in Node
        /\ [key |-> j.key, role |-> j.role] \in [key : Key, role : Role]
        /\ j.owner \in Owner \/ j.kind = "revoke"
    /\ pull \in [Node -> [peers : SUBSET Node, records : SUBSET Record]]
    /\ open \subseteq kscene.asked
    /\ revoked \in [Node -> SUBSET Key]

\* Nothing brings back a key that no node has as active and that nobody is about to
\* store: neither a round, nor a late push, nor an alignment of roles - only a client
\* who asks for it, or the environment of a node that starts again.
Dead(k) ==
    /\ \A n \in Node : ~Active(n, k)
    /\ \A j \in jobs : j.key # k \/ j.kind \in {"revoke", "align"}
    /\ \A n \in Node : \A r \in pull[n].records : r.key # k

DeadStaysDead ==
    [][\A k \in Key :
         /\ Dead(k)
         /\ \A r \in open \ open' : r.key = k => r.op \notin {"create", "login"}
         /\ \A e \in kscene.env : e.key # k
         => Dead(k)']_kvars

\* Whatever pushes, rounds and alignments carry stale roles about, a key has no role
\* that its citizen never had: one of the ledger, as far as a node has projected it,
\* or of an environment.
Held(c) ==
    {Ledger[i].role : i \in UNION {Known(n, c) : n \in Node}}
        \cup {e.role : e \in {f \in kscene.env : f.owner = c}}

KeyRoleHeld ==
    \A n \in Node, k \in Key :
        rows[n][k].owner # nobody => rows[n][k].role \in Held(rows[n][k].owner)

\* A key that stays active on one node becomes active on every other, although the
\* pushes may be lost and the login makes keys that are not pushed.
KeyReachesAll ==
    \A n \in Node : \A m \in Node \ {n}, k \in Key :
        Active(n, k) ~> (Active(m, k) \/ ~Active(n, k))

\* A key whose revocation a node has confirmed ("API key revoked") is not active
\* there, until somebody asks to create it again.
RevokedStays == \A n \in Node : \A k \in revoked[n] : ~Active(n, k)
=============================================================================
