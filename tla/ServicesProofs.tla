--------------------------- MODULE ServicesProofs ---------------------------
(***************************************************************************)
(* Proofs about the services of a node: votes, API keys, registration by   *)
(* e-mail, catalogue; for any nodes, keys, citizens, ledgers, scenes,      *)
(* requests, durations and limits.  Those about the chat are in ChatProofs.*)
(* In the end the five are put together.                                   *)
(***************************************************************************)
EXTENDS Services, ChatProofs, FiniteSetTheorems, WellFoundedInduction, TLAPS

-----------------------------------------------------------------------------
(* Votes.                                                                   *)

CastRecord == [vote : Vote, voter : Voter, choice : Choice, number : Nat]
VoteRow == [status : {"none", "active", "finalized"}, end_time : Nat]

VotesInv ==
    /\ VotesTypeOK
    /\ votes \in [Vote -> VoteRow]
    /\ casts \subseteq CastRecord

\* No vote has been created yet.
LEMMA VotesInitially == VotesInit => VotesInv
BY VotesAssumption
DEF VotesInit, VotesInv, VotesTypeOK, NoVote, VoteRow, CastRecord

\* The actions of the handlers and of the clock keep the rows well typed.
LEMMA VotesStep == VotesInv /\ [VotesNext]_vvars => VotesInv'
<1> SUFFICES ASSUME VotesInv, [VotesNext]_vvars PROVE VotesInv'
    OBVIOUS
<1> USE VotesAssumption DEF VotesInv, VotesTypeOK
<1>1. ASSUME NEW v \in Vote, NEW d \in 1..LastInstant, create_vote(v, d) PROVE VotesInv'
  <2>1. instant + d \in Nat \ {0}  OBVIOUS
  <2> QED  BY <1>1, <2>1 DEF create_vote, NoVote, VoteRow
<1>2. ASSUME NEW v \in Vote, finalize_vote(v) PROVE VotesInv'
  <2>1. votes[v] \in [status : {"active", "finalized"}, end_time : Nat \ {0}]
        BY <1>2 DEF finalize_vote, NoVote
  <2> QED  BY <1>2, <2>1 DEF finalize_vote, NoVote, VoteRow
<1>3. ASSUME NEW v \in Vote, NEW c \in Voter, NEW x \in Choice, cast_vote(v, c, x)
      PROVE  VotesInv'
  <2>1. made[c] + 1 \in 0..MaxCasts /\ made' = [made EXCEPT ![c] = made[c] + 1]
        BY <1>3 DEF cast_vote
  <2>2. casts' \subseteq casts \cup {Cast(v, c, x)}  BY <1>3 DEF cast_vote
  <2>3. Cast(v, c, x) \in CastRecord  BY <2>1 DEF Cast, CastRecord
  <2>4. \A j \in casts' : j.number <= made'[j.voter]
    <3> TAKE j \in casts'
    <3>1. CASE j \in casts
          BY <3>1, <2>1 DEF CastRecord
    <3>2. CASE j = Cast(v, c, x)  BY <3>2, <2>1 DEF Cast
    <3> QED  BY <3>1, <3>2, <2>2
  <2>5. \A j \in casts' : votes[j.vote] # NoVote  BY <1>3, <2>2 DEF cast_vote, Cast
  <2> QED  BY <1>3, <2>1, <2>2, <2>3, <2>4, <2>5 DEF cast_vote
<1>4. ASSUME NEW j \in casts, Count(j) \/ CountLost(j) PROVE VotesInv'
  BY <1>4 DEF Count, CountLost, CastRecord
<1>5. CASE TimePasses  BY <1>5 DEF TimePasses
<1>6. CASE UNCHANGED vvars  BY <1>6 DEF vvars
<1> QED  BY <1>1, <1>2, <1>3, <1>4, <1>5, <1>6 DEF VotesNext

\* The rows of votes, and the requests under way, keep their types.
THEOREM VotesTypes == VotesSpec => []VotesInv
BY VotesInitially, VotesStep, PTL DEF VotesSpec

\* What has ended stays as it is, but for the requests under way (cast_vote_handler,
\* finalize_vote).
THEOREM VotesClose == VotesSpec => ClosedForGood
<1> DEFINE StaysClosed(v) ==
      Over(v) =>
         /\ Over(v)'
         /\ Under(v)' \subseteq Under(v)
         /\ \A c \in Voter : choices'[v][c] # choices[v][c] =>
              \E j \in Under(v) \ Under(v)' : j.voter = c /\ j.choice = choices'[v][c]
<1>1. VotesInv /\ [VotesNext]_vvars => [\A v \in Vote : StaysClosed(v)]_vvars
  <2> SUFFICES ASSUME VotesInv, VotesNext, NEW v \in Vote, Over(v) PROVE StaysClosed(v)
      BY DEF vvars
  <2> USE VotesAssumption DEF VotesInv, VotesTypeOK, Over, Under, VoteRow
  <2>1. ASSUME NEW w \in Vote, NEW d \in 1..LastInstant, create_vote(w, d) PROVE StaysClosed(v)
    BY <2>1 DEF create_vote, NoVote
  <2>2. ASSUME NEW w \in Vote, finalize_vote(w) PROVE StaysClosed(v)
    BY <2>2 DEF finalize_vote, NoVote
  <2>3. ASSUME NEW w \in Vote, NEW c \in Voter, NEW x \in Choice, cast_vote(w, c, x)
        PROVE  StaysClosed(v)
    <3>1. ~vote_is_active(v)  BY DEF vote_is_active
    <3>2. Under(v)' \subseteq Under(v)
          BY <2>3, <3>1 DEF cast_vote, Cast
    <3> QED  BY <2>3, <3>2 DEF cast_vote
  <2>4. ASSUME NEW j \in casts, Count(j) \/ CountLost(j) PROVE StaysClosed(v)
    <3>1. j \in CastRecord  OBVIOUS
    <3>2. CASE Count(j)
      <4>1. \A c \in Voter : choices'[v][c] # choices[v][c] =>
                v = j.vote /\ c = j.voter /\ choices'[v][c] = j.choice
            BY <3>1, <3>2 DEF Count, CastRecord
      <4> QED  BY <3>2, <4>1 DEF Count
    <3>3. CASE CountLost(j)  BY <3>3 DEF CountLost
    <3> QED  BY <2>4, <3>2, <3>3
  <2>5. CASE TimePasses  BY <2>5 DEF TimePasses
  <2> QED  BY <2>1, <2>2, <2>3, <2>4, <2>5 DEF VotesNext
<1> QED  BY <1>1, VotesTypes, PTL DEF VotesSpec, ClosedForGood

-----------------------------------------------------------------------------
(* API keys.                                                                *)

\* A set of numbers up to h that is not empty has a greatest one.
LEMMA GreatestExists ==
    ASSUME NEW h \in Nat, NEW S, S \subseteq 1..h, S # {}
    PROVE  \E i \in S : \A j \in S : j <= i
<1> DEFINE U == {k \in Nat : \A x \in S : x <= k}
<1>1. U # {} /\ U \subseteq Nat  OBVIOUS
<1>2. PICK k \in U : \A y \in U : ~(<<y, k>> \in OpToRel(<, Nat))
      BY <1>1, WFMin, NatLessThanWellFounded
<1>3. \A y \in U : ~(y < k)  BY <1>2 DEF OpToRel
<1>4. k \in S
  <2> SUFFICES ASSUME k \notin S PROVE FALSE
      OBVIOUS
  <2>1. PICK s \in S : s <= k  OBVIOUS
  <2>2. k # 0 /\ \A x \in S : x <= k - 1  BY <2>1
  <2>3. k - 1 \in U  BY <2>2
  <2> QED  BY <1>3, <2>2, <2>3
<1> QED  BY <1>4

KeyRow == [owner : Owner \cup {nobody}, role : Role, active : BOOLEAN]
KeyJob ==
    [kind : {"create", "upsert", "store", "login", "align", "revoke"}, node : Node, key : Key,
     owner : Owner \cup {nobody}, role : Role]
EnvRecord == [node : Node, key : Key, owner : Owner, role : Role]

\* A table of keys: what is not there is not active.
Sound(table) ==
    /\ table \in [Node -> [Key -> KeyRow]]
    /\ \A n \in Node, k \in Key : table[n][k].owner = nobody => ~table[n][k].active

KeysInv ==
    /\ kscene \in [asked : SUBSET KeyRequest, restarts : SUBSET Node, env : SUBSET EnvRecord]
    /\ Sound(rows)
    /\ height \in [Node -> 0..Len(Ledger)]
    /\ jobs \subseteq KeyJob
    /\ \A j \in jobs : j.owner \in Owner \/ j.kind = "revoke"
    /\ pull \in [Node -> [peers : SUBSET Node, records : SUBSET Record]]
    /\ open \subseteq kscene.asked
    /\ revoked \in [Node -> SUBSET Key]

\* lookup_citizen_role finds the role of one of the events that the node has projected,
\* or none.
LEMMA RoleIsKnown ==
    ASSUME KeysInv, NEW n \in Node, NEW c, NEW default
    PROVE  /\ Known(n, c) = {} => RoleOf(n, c, default) = default
           /\ Known(n, c) # {} => \E i \in Known(n, c) : RoleOf(n, c, default) = Ledger[i].role
<1>1. height[n] \in Nat /\ Known(n, c) \subseteq 1..height[n]
      BY KeysAssumption DEF KeysInv, Known
<1>2. Known(n, c) # {} =>
        \E i \in Known(n, c) : \A j \in Known(n, c) : j <= i
      BY <1>1, GreatestExists
<1> QED  BY <1>2 DEF RoleOf

LEMMA RoleType ==
    ASSUME KeysInv, NEW n \in Node, NEW c, NEW default \in Role
    PROVE  RoleOf(n, c, default) \in Role
<1> DEFINE E == [owner : Owner, role : Role]
<1>1. Ledger \in Seq(E)  BY KeysAssumption
<1>2. \A i \in 1..Len(Ledger) : Ledger[i] \in E
  <2> HIDE DEF E
  <2> QED  BY <1>1
<1>3. height[n] \in 0..Len(Ledger) /\ Len(Ledger) \in Nat  BY <1>1 DEF KeysInv
<1>4. Known(n, c) \subseteq 1..Len(Ledger)  BY <1>3 DEF Known
<1>5. \A i \in Known(n, c) : Ledger[i].role \in Role  BY <1>2, <1>4
<1> QED  BY <1>5, RoleIsKnown

\* What KeyStore does to a sound table.
LEMMA UpsertSound ==
    ASSUME Sound(rows), NEW n \in Node, NEW k \in Key, NEW c \in Owner, NEW role \in Role
    PROVE  Sound(upsert_key(n, k, c, role))
BY KeysAssumption DEF Sound, upsert_key, KeyRow

LEMMA RevokeSound ==
    ASSUME Sound(rows), NEW n \in Node, NEW k \in Key
    PROVE  Sound(revoke_key(n, k))
<1>1. rows[n][k] \in KeyRow  BY DEF Sound
<1>2. [rows[n][k] EXCEPT !.active = FALSE] \in KeyRow  BY <1>1 DEF KeyRow
<1>3. revoke_key(n, k)
        = [rows EXCEPT ![n] = [rows[n] EXCEPT ![k] = [rows[n][k] EXCEPT !.active = FALSE]]]
      BY DEF revoke_key, Sound
<1>4. revoke_key(n, k) \in [Node -> [Key -> KeyRow]]  BY <1>2, <1>3 DEF Sound
<1>5. ASSUME NEW m \in Node, NEW j \in Key, revoke_key(n, k)[m][j].owner = nobody
      PROVE  ~revoke_key(n, k)[m][j].active
  <2>1. CASE m = n /\ j = k  BY <1>1, <1>3, <2>1 DEF Sound, KeyRow
  <2>2. CASE ~(m = n /\ j = k)  BY <1>3, <1>5, <2>2 DEF Sound
  <2> QED  BY <2>1, <2>2
<1> QED  BY <1>4, <1>5 DEF Sound

\* sync_roles_from_citizens changes roles only.
LEMMA AlignedKeeps ==
    ASSUME KeysInv, NEW n \in Node, NEW table \in [Key -> KeyRow], NEW k \in Key
    PROVE  /\ Aligned(n, table) \in [Key -> KeyRow]
           /\ Aligned(n, table)[k].owner = table[k].owner
           /\ Aligned(n, table)[k].active = table[k].active
           /\ table[k].owner # nobody =>
                Aligned(n, table)[k].role = RoleOf(n, table[k].owner, table[k].role)
<1>1. \A j \in Key : RoleOf(n, table[j].owner, table[j].role) \in Role
      BY RoleType DEF KeyRow
<1> QED  BY <1>1 DEF Aligned, KeyRow

\* The keys of the environment are sound rows.
Stored(n) ==
    [k \in Key |->
        IF \E e \in Env(n) : e.key = k
        THEN LET e == CHOOSE f \in Env(n) : f.key = k
             IN  [owner |-> e.owner, active |-> TRUE, role |-> RoleOf(n, e.owner, e.role)]
        ELSE rows[n][k]]

LEMMA StoredSound ==
    ASSUME KeysInv, NEW n \in Node, NEW k \in Key
    PROVE  /\ Stored(n)[k] \in KeyRow
           /\ Stored(n)[k].owner = nobody => ~Stored(n)[k].active
<1>1. CASE \E e \in Env(n) : e.key = k
  <2> DEFINE e == CHOOSE f \in Env(n) : f.key = k
  <2>1. e \in Env(n)  BY <1>1
  <2>2. e \in EnvRecord  BY <2>1 DEF Env, KeysInv
  <2>3. RoleOf(n, e.owner, e.role) \in Role  BY <2>2, RoleType DEF EnvRecord
  <2>4. Stored(n)[k] = [owner |-> e.owner, active |-> TRUE, role |-> RoleOf(n, e.owner, e.role)]
        BY <1>1 DEF Stored
  <2> HIDE DEF e
  <2> QED  BY <2>2, <2>3, <2>4, KeysAssumption DEF KeyRow, EnvRecord
<1>2. CASE ~\E e \in Env(n) : e.key = k
  BY <1>2 DEF Stored, KeysInv, Sound
<1> QED  BY <1>1, <1>2

\* What the restart of n leaves of the table.
LEMMA RestartSound ==
    ASSUME KeysInv, NEW n \in Node
    PROVE  Sound([rows EXCEPT ![n] = Aligned(n, Stored(n))])
<1>1. Stored(n) \in [Key -> KeyRow]
  <2>1. \A k \in Key : Stored(n)[k] \in KeyRow  BY StoredSound
  <2> QED  BY <2>1 DEF Stored
<1>2. Aligned(n, Stored(n)) \in [Key -> KeyRow]
      BY <1>1, AlignedKeeps DEF Aligned
<1>3. \A k \in Key : Aligned(n, Stored(n))[k].owner = nobody =>
                        ~Aligned(n, Stored(n))[k].active
      BY <1>1, AlignedKeeps, StoredSound
<1> QED  BY <1>2, <1>3 DEF Sound, KeysInv

\* The rows of one citizen on one node get a role.
GiveRole(n, c, role, which) ==
    [rows EXCEPT ![n] = [k \in Key |-> IF rows[n][k].owner = c /\ which[k]
                                       THEN [rows[n][k] EXCEPT !.role = role] ELSE rows[n][k]]]

LEMMA GiveRoleSound ==
    ASSUME Sound(rows), NEW n \in Node, NEW c, NEW role \in Role, NEW which
    PROVE  Sound(GiveRole(n, c, role, which))
<1>1. \A k \in Key : rows[n][k] \in KeyRow  BY DEF Sound
<1>2. \A k \in Key : /\ GiveRole(n, c, role, which)[n][k] \in KeyRow
                     /\ GiveRole(n, c, role, which)[n][k].owner = rows[n][k].owner
                     /\ GiveRole(n, c, role, which)[n][k].active = rows[n][k].active
      BY <1>1 DEF GiveRole, Sound, KeyRow
<1>3. GiveRole(n, c, role, which)[n] \in [Key -> KeyRow]
      BY <1>2 DEF GiveRole, Sound
<1>4. \A m \in Node : m # n => GiveRole(n, c, role, which)[m] = rows[m]
      BY DEF GiveRole, Sound
<1>5. GiveRole(n, c, role, which) \in [Node -> [Key -> KeyRow]]
      BY <1>3, <1>4 DEF GiveRole, Sound
<1> QED  BY <1>2, <1>4, <1>5 DEF Sound

LEMMA KeysInitially == ASSUME KeysInit PROVE KeysInv
<1>1. kscene \in [asked : SUBSET KeyRequest, restarts : SUBSET Node, env : SUBSET EnvRecord]
      BY KeysAssumption DEF KeysInit, EnvRecord
<1>2. ASSUME NEW n \in Node, NEW k \in Key
      PROVE  rows[n][k] \in KeyRow /\ (rows[n][k].owner = nobody => ~rows[n][k].active)
  <2>1. CASE \E e \in Env(n) : e.key = k
    <3> DEFINE e == CHOOSE f \in Env(n) : f.key = k
    <3>1. e \in EnvRecord  BY <1>1, <2>1 DEF Env
    <3>2. rows[n][k] = [owner |-> e.owner, role |-> e.role, active |-> TRUE]
          BY <2>1 DEF KeysInit
    <3> HIDE DEF e
    <3> QED  BY <3>1, <3>2, KeysAssumption DEF KeyRow, EnvRecord
  <2>2. CASE ~\E e \in Env(n) : e.key = k
    <3>1. rows[n][k] = NoRow  BY <2>2 DEF KeysInit
    <3>2. Role # {}  BY KeysAssumption
    <3> QED  BY <3>1, <3>2 DEF KeyRow, NoRow
  <2> QED  BY <2>1, <2>2
<1>3. rows \in [Node -> [Key -> KeyRow]]
  <2>1. \A n \in Node : rows[n] \in [Key -> KeyRow]  BY <1>2 DEF KeysInit
  <2> QED  BY <2>1 DEF KeysInit
<1>4. height \in [Node -> 0..Len(Ledger)]
  <2>1. Len(Ledger) \in Nat  BY KeysAssumption
  <2> QED  BY <2>1 DEF KeysInit
<1>5. pull \in [Node -> [peers : SUBSET Node, records : SUBSET Record]]
      BY DEF KeysInit, Idle
<1>6. jobs = {} /\ open \subseteq kscene.asked /\ revoked \in [Node -> SUBSET Key]
      BY DEF KeysInit
<1> QED  BY <1>1, <1>2, <1>3, <1>4, <1>5, <1>6 DEF KeysInv, Sound

\* A request is one of KeyRequest; a new job is a record of the right type.
LEMMA RequestType ==
    ASSUME KeysInv, NEW r \in open
    PROVE  /\ r.node \in Node /\ r.key \in Key /\ r.owner \in Owner /\ r.role \in Role
<1>1. r \in KeyRequest  BY DEF KeysInv
<1> QED  BY <1>1, KeysAssumption

JobsOK(js) == js \subseteq KeyJob /\ \A j \in js : j.owner \in Owner \/ j.kind = "revoke"

LEMMA JobType ==
    ASSUME NEW n \in Node, NEW k \in Key, NEW c \in Owner \cup {nobody}, NEW role \in Role,
           NEW kind \in {"create", "upsert", "store", "login", "align", "revoke"},
           c \in Owner \/ kind = "revoke"
    PROVE  JobsOK({Job(kind, n, k, c, role)}) /\ JobsOK(Push(kind, n, k, c, role))
BY DEF Job, Push, KeyJob, JobsOK

LEMMA KeysStep == ASSUME KeysInv, [KeysNext]_kvars PROVE KeysInv'
<1>0. Sound(rows) /\ JobsOK(jobs)  BY DEF KeysInv, JobsOK
<1>1. ASSUME NEW r \in open, Create(r) PROVE KeysInv'
  <2>1. RoleOf(r.node, r.owner, r.role) \in Role  BY RequestType, RoleType
  <2>2. JobsOK({Job("create", r.node, r.key, r.owner, RoleOf(r.node, r.owner, r.role))})
        BY <2>1, RequestType, JobType
  <2>3. JobsOK(jobs')  BY <1>0, <1>1, <2>2 DEF Create, JobsOK
  <2>4. revoked' \in [Node -> SUBSET Key]  BY <1>1 DEF Create, KeysInv
  <2> QED  BY <1>1, <2>3, <2>4 DEF Create, Ask, KeysInv, Sound, JobsOK
<1>2. ASSUME NEW j \in jobs, CreateStore(j) PROVE KeysInv'
  <2>1. j \in KeyJob /\ j.owner \in Owner  BY <1>0, <1>2 DEF JobsOK, CreateStore
  <2>2. Sound(rows')  BY <1>0, <1>2, <2>1, UpsertSound DEF CreateStore, KeyJob
  <2>3. JobsOK(Push("upsert", j.node, j.key, j.owner, j.role))
        BY <2>1, JobType DEF KeyJob
  <2>4. JobsOK(jobs')  BY <1>0, <1>2, <2>3 DEF CreateStore, JobsOK
  <2> QED  BY <1>2, <2>2, <2>4 DEF CreateStore, KeysInv, Sound, JobsOK
<1>3. ASSUME NEW r \in open, Revoke(r) PROVE KeysInv'
  <2>1. Sound(rows')  BY <1>0, <1>3, RequestType, RevokeSound DEF Revoke
  <2>2. JobsOK(Push("revoke", r.node, r.key, nobody, r.role))
        BY RequestType, JobType
  <2>3. JobsOK(jobs')  BY <1>0, <1>3, <2>2 DEF Revoke, JobsOK
  <2>4. revoked' \in [Node -> SUBSET Key]
    <3>1. [revoked EXCEPT ![r.node] = @ \cup {r.key}] \in [Node -> SUBSET Key]
          BY RequestType DEF KeysInv
    <3> QED  BY <1>3, <3>1 DEF Revoke, KeysInv
  <2> QED  BY <1>3, <2>1, <2>3, <2>4 DEF Revoke, Ask, KeysInv, Sound, JobsOK
<1>4. ASSUME NEW r \in open, Login(r) PROVE KeysInv'
  <2>1. RoleOf(r.node, r.owner, r.role) \in Role  BY RequestType, RoleType
  <2>2. JobsOK({Job("login", r.node, r.key, r.owner, RoleOf(r.node, r.owner, r.role))})
        BY <2>1, RequestType, JobType
  <2>3. JobsOK(jobs')  BY <1>0, <1>4, <2>2 DEF Login, JobsOK
  <2> QED  BY <1>4, <2>3 DEF Login, Ask, KeysInv, Sound, JobsOK
<1>5. ASSUME NEW r \in open, Use(r) PROVE KeysInv'
  <2> DEFINE row == rows[r.node][r.key]
  <2>1. row \in KeyRow /\ (row.owner = nobody => ~row.active)
        BY <1>0, RequestType DEF Sound
  <2>2. RoleOf(r.node, row.owner, row.role) \in Role
        BY <2>1, RequestType, RoleType DEF KeyRow
  <2>3. row.active =>
          JobsOK({Job("align", r.node, r.key, row.owner, RoleOf(r.node, row.owner, row.role))})
        BY <2>1, <2>2, RequestType, JobType DEF KeyRow
  <2>4. JobsOK(jobs')  BY <1>0, <1>5, <2>3 DEF Use, JobsOK
  <2> QED  BY <1>5, <2>4 DEF Use, Ask, KeysInv, Sound, JobsOK
<1>6. ASSUME NEW j \in jobs, Align(j) PROVE KeysInv'
  <2>1. j \in KeyJob  BY <1>0 DEF JobsOK
  <2>2. rows' = GiveRole(j.node, j.owner, j.role, [k \in Key |-> rows[j.node][k].active])
        BY <1>6, <2>1 DEF Align, GiveRole, KeysInv, Sound, KeyJob
  <2>3. Sound(rows')  BY <1>0, <2>1, <2>2, GiveRoleSound DEF KeyJob
  <2>4. JobsOK(jobs')  BY <1>0, <1>6 DEF Align, JobsOK
  <2> QED  BY <1>6, <2>3, <2>4 DEF Align, KeysInv, Sound, JobsOK
<1>7. ASSUME NEW r \in open, SyncRoles(r) PROVE KeysInv'
  <2>1. r.node \in Node /\ rows[r.node] \in [Key -> KeyRow]
        BY <1>0, RequestType DEF Sound
  <2>2. /\ Aligned(r.node, rows[r.node]) \in [Key -> KeyRow]
        /\ \A k \in Key : Aligned(r.node, rows[r.node])[k].owner = nobody =>
                            ~Aligned(r.node, rows[r.node])[k].active
        BY <1>0, <2>1, AlignedKeeps DEF Sound, Aligned
  <2>3. Sound(rows')  BY <1>0, <1>7, <2>1, <2>2 DEF SyncRoles, Sound
  <2> QED  BY <1>7, <2>3 DEF SyncRoles, Ask, KeysInv, Sound
<1>8. ASSUME NEW j \in jobs, ReceiveUpsert(j) PROVE KeysInv'
  <2>1. j \in KeyJob /\ j.owner \in Owner  BY <1>0, <1>8 DEF JobsOK, ReceiveUpsert
  <2>2. RoleOf(j.node, j.owner, j.role) \in Role  BY <2>1, RoleType DEF KeyJob
  <2>3. JobsOK({Job("store", j.node, j.key, j.owner, RoleOf(j.node, j.owner, j.role))})
        BY <2>1, <2>2, JobType DEF KeyJob
  <2>4. JobsOK(jobs')  BY <1>0, <1>8, <2>3 DEF ReceiveUpsert, JobsOK
  <2> QED  BY <1>8, <2>4 DEF ReceiveUpsert, KeysInv, Sound, JobsOK
<1>9. ASSUME NEW j \in jobs, Store(j) PROVE KeysInv'
  <2>1. j \in KeyJob /\ j.owner \in Owner  BY <1>0, <1>9 DEF JobsOK, Store
  <2>2. Sound(rows')  BY <1>0, <1>9, <2>1, UpsertSound DEF Store, KeyJob
  <2>3. JobsOK(jobs')  BY <1>0, <1>9 DEF Store, JobsOK
  <2> QED  BY <1>9, <2>2, <2>3 DEF Store, KeysInv, Sound, JobsOK
<1>10. ASSUME NEW j \in jobs, ReceiveRevoke(j) PROVE KeysInv'
  <2>1. j \in KeyJob  BY <1>0 DEF JobsOK
  <2>2. Sound(rows')  BY <1>0, <1>10, <2>1, RevokeSound DEF ReceiveRevoke, KeyJob
  <2>3. JobsOK(jobs')  BY <1>0, <1>10 DEF ReceiveRevoke, JobsOK
  <2> QED  BY <1>10, <2>2, <2>3 DEF ReceiveRevoke, KeysInv, Sound, JobsOK
<1>11. ASSUME NEW j \in jobs, Lose(j) PROVE KeysInv'
  <2>1. JobsOK(jobs')  BY <1>0, <1>11 DEF Lose, JobsOK
  <2> QED  BY <1>11, <2>1 DEF Lose, KeysInv, Sound, JobsOK
<1>12. ASSUME NEW n \in Node, NEW m \in Node,
              Fetch(n, m) \/ FetchFails(n, m) \/ BeginPull(n) PROVE KeysInv'
  <2>1. Export(m) \subseteq Record
    <3>1. ASSUME NEW k \in Key, Active(m, k)
          PROVE  [key |-> k, owner |-> rows[m][k].owner, role |-> rows[m][k].role] \in Record
          BY <1>0, <3>1 DEF Sound, KeyRow, Record, Active
    <3> QED  BY <3>1 DEF Export
  <2>2. pull[n] \in [peers : SUBSET Node, records : SUBSET Record]  BY DEF KeysInv
  <2>3. /\ [peers |-> pull[n].peers \ {m}, records |-> Export(m)]
             \in [peers : SUBSET Node, records : SUBSET Record]
        /\ [pull[n] EXCEPT !.peers = @ \ {m}]
             \in [peers : SUBSET Node, records : SUBSET Record]
        /\ [pull[n] EXCEPT !.peers = Node \ {n}]
             \in [peers : SUBSET Node, records : SUBSET Record]
        BY <2>1, <2>2
  <2>4. pull' \in [Node -> [peers : SUBSET Node, records : SUBSET Record]]
    <3>1. CASE Fetch(n, m)  BY <3>1, <2>3 DEF Fetch, KeysInv
    <3>2. CASE FetchFails(n, m)  BY <3>2, <2>3 DEF FetchFails, KeysInv
    <3>3. CASE BeginPull(n)  BY <3>3, <2>3 DEF BeginPull, KeysInv
    <3> QED  BY <1>12, <3>1, <3>2, <3>3
  <2>5. UNCHANGED <<kscene, rows, height, jobs, open, revoked>>
        BY <1>12 DEF Fetch, FetchFails, BeginPull
  <2> QED  BY <2>4, <2>5 DEF KeysInv, Sound
<1>13. ASSUME NEW n \in Node, NEW r \in pull[n].records, StoreRecord(n, r) PROVE KeysInv'
  <2>1. pull[n] \in [peers : SUBSET Node, records : SUBSET Record]  BY DEF KeysInv
  <2>2. r \in Record  BY <2>1
  <2>3. Sound(rows')  BY <1>0, <1>13, <2>2, UpsertSound DEF StoreRecord, Record
  <2>4. [pull[n] EXCEPT !.records = @ \ {r}] \in [peers : SUBSET Node, records : SUBSET Record]
        BY <2>1
  <2>5. pull' \in [Node -> [peers : SUBSET Node, records : SUBSET Record]]
        BY <1>13, <2>4 DEF StoreRecord, KeysInv
  <2> QED  BY <1>13, <2>3, <2>5 DEF StoreRecord, KeysInv, Sound
<1>14. ASSUME NEW n \in Node, Project(n) PROVE KeysInv'
  <2> DEFINE e == Ledger[height[n] + 1]
  <2>1. Len(Ledger) \in Nat /\ height[n] \in 0..Len(Ledger) /\ height[n] < Len(Ledger)
        BY <1>14, KeysAssumption DEF Project, KeysInv
  <2>2. height' \in [Node -> 0..Len(Ledger)]
        BY <1>14, <2>1 DEF Project, KeysInv
  <2>3. e.role \in Role
    <3> DEFINE E == [owner : Owner, role : Role]
    <3>1. Ledger \in Seq(E)  BY KeysAssumption
    <3>2. Ledger[height[n] + 1] \in E
      <4> HIDE DEF E
      <4> QED  BY <2>1, <3>1
    <3> QED  BY <3>2
  <2>4. \/ rows' = rows
        \/ rows' = GiveRole(n, e.owner, e.role, [k \in Key |-> TRUE])
    <3> HIDE DEF e
    <3>1. rows' = IF Known(n, e.owner) = {} THEN rows
                  ELSE [rows EXCEPT ![n] =
                           [k \in Key |-> IF @[k].owner = e.owner
                                          THEN [@[k] EXCEPT !.role = e.role] ELSE @[k]]]
          BY <1>14 DEF Project, e
    <3> QED  BY <3>1 DEF GiveRole, KeysInv, Sound
  <2>5. Sound(rows')
    <3> HIDE DEF e
    <3> QED  BY <1>0, <2>3, <2>4, GiveRoleSound
  <2> QED  BY <1>14, <2>2, <2>5 DEF Project, KeysInv, Sound
<1>15. ASSUME NEW n \in Node, Restart(n) PROVE KeysInv'
  <2>1. rows' = [rows EXCEPT ![n] = Aligned(n, Stored(n))]
        BY <1>15 DEF Restart, Stored
  <2>2. Sound(rows')  BY <2>1, RestartSound
  <2>3. JobsOK(jobs')  BY <1>0, <1>15 DEF Restart, JobsOK
  <2>4. pull' \in [Node -> [peers : SUBSET Node, records : SUBSET Record]]
        BY <1>15 DEF Restart, Idle, KeysInv
  <2>5. /\ kscene' \in [asked : SUBSET KeyRequest, restarts : SUBSET Node, env : SUBSET EnvRecord]
        /\ kscene'.asked = kscene.asked
        BY <1>15 DEF Restart, KeysInv
  <2>6. UNCHANGED <<height, open, revoked>>  BY <1>15 DEF Restart
  <2> QED  BY <2>2, <2>3, <2>4, <2>5, <2>6 DEF KeysInv, Sound, JobsOK
<1>16. CASE UNCHANGED kvars
  BY <1>16 DEF kvars, KeysInv, Sound
<1> QED
  BY <1>1, <1>2, <1>3, <1>4, <1>5, <1>6, <1>7, <1>8, <1>9, <1>10, <1>11, <1>12, <1>13, <1>14,
     <1>15, <1>16 DEF KeysNext

\* The tables, the messages and the rounds of keys hold what they may hold, and a row
\* that no node has written is never active: for any nodes, keys and roles.
THEOREM KeysTypes == KeysSpec => []KeysTypeOK
<1>1. KeysInit => KeysInv  BY KeysInitially
<1>2. KeysInv /\ [KeysNext]_kvars => KeysInv'  BY KeysStep
<1>3. KeysInv => KeysTypeOK
  <2> SUFFICES ASSUME KeysInv PROVE KeysTypeOK
      OBVIOUS
  <2>1. \A j \in jobs :
          /\ j.kind \in {"create", "upsert", "store", "login", "align", "revoke"}
          /\ j.node \in Node
          /\ [key |-> j.key, role |-> j.role] \in [key : Key, role : Role]
        BY DEF KeysInv, KeyJob
  <2> QED  BY <2>1 DEF KeysInv, KeysTypeOK, Sound, KeyRow, Active
<1> QED  BY <1>1, <1>2, <1>3, PTL DEF KeysSpec

\* What the table of a node has for a key after a step that only gives roles.
LEMMA GiveRoleActive ==
    ASSUME Sound(rows), NEW n \in Node, NEW c, NEW role, NEW which, NEW m \in Node, NEW k \in Key
    PROVE  GiveRole(n, c, role, which)[m][k].active = rows[m][k].active
<1>1. rows[n][k] \in KeyRow  BY DEF Sound
<1> QED  BY <1>1 DEF GiveRole, Sound, KeyRow

LEMMA UpsertOther ==
    ASSUME Sound(rows), NEW n \in Node, NEW j, NEW c, NEW role, NEW m \in Node, NEW k \in Key, j # k
    PROVE  upsert_key(n, j, c, role)[m][k].active = rows[m][k].active
BY DEF upsert_key, Sound

LEMMA RevokeOther ==
    ASSUME Sound(rows), NEW n \in Node, NEW j \in Key, NEW m \in Node, NEW k \in Key,
           ~rows[m][k].active
    PROVE  ~revoke_key(n, j)[m][k].active
<1>1. rows[n][k] \in KeyRow  BY DEF Sound
<1>2. revoke_key(n, j)
        = [rows EXCEPT ![n] = [rows[n] EXCEPT ![j] = [rows[n][j] EXCEPT !.active = FALSE]]]
      BY DEF revoke_key, Sound
<1>3. CASE m = n /\ k = j  BY <1>1, <1>2, <1>3 DEF Sound, KeyRow
<1>4. CASE ~(m = n /\ k = j)  BY <1>2, <1>4 DEF Sound
<1> QED  BY <1>3, <1>4

\* A step of the network leaves a dead key dead, if no client and no environment
\* brings it back.
LEMMA DeadStep ==
    ASSUME KeysInv, [KeysNext]_kvars, NEW k \in Key, Dead(k),
           \A r \in open \ open' : r.key = k => r.op \notin {"create", "login"},
           \A e \in kscene.env : e.key # k
    PROVE  Dead(k)'
<1> DEFINE Quiet(js) == \A j \in js : j.key # k \/ j.kind \in {"revoke", "align"}
           Empty(p) == \A n \in Node : \A r \in p[n].records : r.key # k
           Off(t) == \A n \in Node : ~t[n][k].active
<1>0. Sound(rows) /\ JobsOK(jobs) /\ Off(rows) /\ Quiet(jobs) /\ Empty(pull)
      BY DEF KeysInv, JobsOK, Dead, Active
<1>q. SUFFICES Off(rows') /\ Quiet(jobs') /\ Empty(pull')
      BY DEF Dead, Active
<1>a. ASSUME NEW r \in open, NEW op, Ask(r, op), op \in {"create", "login"}
      PROVE  r.key # k
      BY <1>a DEF Ask
<1>1. ASSUME NEW r \in open, Create(r) \/ Login(r) PROVE Off(rows') /\ Quiet(jobs') /\ Empty(pull')
  <2>1. r.key # k  BY <1>1, <1>a DEF Create, Login
  <2>2. rows' = rows /\ pull' = pull  BY <1>1 DEF Create, Login
  <2>3. Quiet(jobs')  BY <1>0, <1>1, <2>1 DEF Create, Login, Job
  <2> QED  BY <1>0, <2>2, <2>3
<1>2. ASSUME NEW j \in jobs, CreateStore(j) \/ Store(j)
      PROVE  Off(rows') /\ Quiet(jobs') /\ Empty(pull')
  <2>1. j.key # k  BY <1>0, <1>2 DEF CreateStore, Store
  <2>2. j \in KeyJob  BY <1>0 DEF JobsOK
  <2>3. rows' = upsert_key(j.node, j.key, j.owner, j.role)  BY <1>2 DEF CreateStore, Store
  <2>4. Off(rows')  BY <1>0, <2>1, <2>2, <2>3, UpsertOther DEF KeyJob
  <2>5. Quiet(jobs')  BY <1>0, <1>2, <2>1 DEF CreateStore, Store, Push, Job
  <2> QED  BY <1>0, <1>2, <2>4, <2>5 DEF CreateStore, Store
<1>3. ASSUME NEW r \in open, Revoke(r) PROVE Off(rows') /\ Quiet(jobs') /\ Empty(pull')
  <2>1. Off(rows')  BY <1>0, <1>3, RequestType, RevokeOther DEF Revoke
  <2>2. Quiet(jobs')  BY <1>0, <1>3 DEF Revoke, Push, Job
  <2> QED  BY <1>0, <1>3, <2>1, <2>2 DEF Revoke
<1>4. ASSUME NEW r \in open, Use(r) PROVE Off(rows') /\ Quiet(jobs') /\ Empty(pull')
  <2>1. Quiet(jobs')  BY <1>0, <1>4 DEF Use, Job
  <2> QED  BY <1>0, <1>4, <2>1 DEF Use
<1>5. ASSUME NEW j \in jobs, Align(j) PROVE Off(rows') /\ Quiet(jobs') /\ Empty(pull')
  <2>1. j \in KeyJob  BY <1>0 DEF JobsOK
  <2>2. rows' = GiveRole(j.node, j.owner, j.role, [i \in Key |-> rows[j.node][i].active])
        BY <1>5, <2>1 DEF Align, GiveRole, KeysInv, Sound, KeyJob
  <2>3. Off(rows')  BY <1>0, <2>1, <2>2, GiveRoleActive DEF KeyJob
  <2> QED  BY <1>0, <1>5, <2>3 DEF Align
<1>6. ASSUME NEW r \in open, SyncRoles(r) PROVE Off(rows') /\ Quiet(jobs') /\ Empty(pull')
  <2>1. r.node \in Node /\ rows[r.node] \in [Key -> KeyRow]
        BY <1>0, RequestType DEF Sound
  <2>2. Aligned(r.node, rows[r.node])[k].active = rows[r.node][k].active
        BY <2>1, AlignedKeeps
  <2>3. Off(rows')  BY <1>0, <1>6, <2>1, <2>2 DEF SyncRoles, Sound
  <2> QED  BY <1>0, <1>6, <2>3 DEF SyncRoles
<1>7. ASSUME NEW j \in jobs, ReceiveUpsert(j) PROVE Off(rows') /\ Quiet(jobs') /\ Empty(pull')
  <2>1. j.key # k  BY <1>0, <1>7 DEF ReceiveUpsert
  <2>2. Quiet(jobs')  BY <1>0, <1>7, <2>1 DEF ReceiveUpsert, Job
  <2> QED  BY <1>0, <1>7, <2>2 DEF ReceiveUpsert
<1>8. ASSUME NEW j \in jobs, ReceiveRevoke(j) PROVE Off(rows') /\ Quiet(jobs') /\ Empty(pull')
  <2>1. j \in KeyJob  BY <1>0 DEF JobsOK
  <2>2. Off(rows')  BY <1>0, <1>8, <2>1, RevokeOther DEF ReceiveRevoke, KeyJob
  <2> QED  BY <1>0, <1>8, <2>2 DEF ReceiveRevoke
<1>9. ASSUME NEW j \in jobs, Lose(j) PROVE Off(rows') /\ Quiet(jobs') /\ Empty(pull')
  BY <1>0, <1>9 DEF Lose
<1>10. ASSUME NEW n \in Node, NEW m \in Node, Fetch(n, m)
       PROVE  Off(rows') /\ Quiet(jobs') /\ Empty(pull')
  <2>1. \A r \in Export(m) : r.key # k  BY <1>0 DEF Export, Active
  <2>2. pull' = [pull EXCEPT ![n] = [peers |-> pull[n].peers \ {m}, records |-> Export(m)]]
        BY <1>10 DEF Fetch
  <2>3. Empty(pull')  BY <1>0, <2>1, <2>2 DEF KeysInv
  <2> QED  BY <1>0, <1>10, <2>3 DEF Fetch
<1>11. ASSUME NEW n \in Node, NEW m \in Node, FetchFails(n, m) \/ BeginPull(n)
       PROVE  Off(rows') /\ Quiet(jobs') /\ Empty(pull')
  <2>1. PICK ps : pull' = [pull EXCEPT ![n] = [pull[n] EXCEPT !.peers = ps]]
        BY <1>11 DEF FetchFails, BeginPull
  <2>2. pull[n] \in [peers : SUBSET Node, records : SUBSET Record]  BY DEF KeysInv
  <2>3. [pull[n] EXCEPT !.peers = ps].records = pull[n].records  BY <2>2
  <2>4. Empty(pull')  BY <1>0, <2>1, <2>3 DEF KeysInv
  <2> QED  BY <1>0, <1>11, <2>4 DEF FetchFails, BeginPull
<1>12. ASSUME NEW n \in Node, NEW r \in pull[n].records, StoreRecord(n, r)
       PROVE  Off(rows') /\ Quiet(jobs') /\ Empty(pull')
  <2>1. r.key # k  BY <1>0
  <2>2. Off(rows')  BY <1>0, <1>12, <2>1, UpsertOther DEF StoreRecord
  <2>3. pull[n] \in [peers : SUBSET Node, records : SUBSET Record]  BY DEF KeysInv
  <2>4. [pull[n] EXCEPT !.records = @ \ {r}].records \subseteq pull[n].records  BY <2>3
  <2>5. Empty(pull')  BY <1>0, <1>12, <2>4 DEF StoreRecord, KeysInv
  <2> QED  BY <1>0, <1>12, <2>2, <2>5 DEF StoreRecord
<1>13. ASSUME NEW n \in Node, Project(n) PROVE Off(rows') /\ Quiet(jobs') /\ Empty(pull')
  <2> DEFINE e == Ledger[height[n] + 1]
  <2> HIDE DEF e
  <2>1. \/ rows' = rows
        \/ rows' = GiveRole(n, e.owner, e.role, [i \in Key |-> TRUE])
    <3>1. rows' = IF Known(n, e.owner) = {} THEN rows
                  ELSE [rows EXCEPT ![n] =
                           [i \in Key |-> IF @[i].owner = e.owner
                                          THEN [@[i] EXCEPT !.role = e.role] ELSE @[i]]]
          BY <1>13 DEF Project, e
    <3> QED  BY <3>1 DEF GiveRole, KeysInv, Sound
  <2>2. Off(rows')  BY <1>0, <2>1, GiveRoleActive
  <2> QED  BY <1>0, <1>13, <2>2 DEF Project
<1>14. ASSUME NEW n \in Node, Restart(n) PROVE Off(rows') /\ Quiet(jobs') /\ Empty(pull')
  <2>1. rows' = [rows EXCEPT ![n] = Aligned(n, Stored(n))]
        BY <1>14 DEF Restart, Stored
  <2>2. Stored(n)[k] = rows[n][k]  BY DEF Stored, Env
  <2>3. Stored(n) \in [Key -> KeyRow]
    <3>1. \A i \in Key : Stored(n)[i] \in KeyRow  BY StoredSound
    <3> QED  BY <3>1 DEF Stored
  <2>4. Aligned(n, Stored(n))[k].active = rows[n][k].active
        BY <2>2, <2>3, AlignedKeeps
  <2>5. Off(rows')  BY <1>0, <2>1, <2>4 DEF Sound
  <2>6. Quiet(jobs')  BY <1>0, <1>14 DEF Restart
  <2>7. Empty(pull')  BY <1>0, <1>14 DEF Restart, Idle, KeysInv
  <2> QED  BY <2>5, <2>6, <2>7
<1>15. CASE UNCHANGED kvars
  BY <1>0, <1>15 DEF kvars
<1> QED
  BY <1>1, <1>2, <1>3, <1>4, <1>5, <1>6, <1>7, <1>8, <1>9, <1>10, <1>11, <1>12, <1>13, <1>14,
     <1>15 DEF KeysNext

\* A key that is active nowhere and that nobody is about to store stays so: neither the
\* rounds of sync_keys_from_peers, nor late pushes, nor alignments of roles bring it back.
THEOREM DeadStays == KeysSpec => DeadStaysDead
<1>1. KeysInit => KeysInv  BY KeysInitially
<1>2. KeysInv /\ [KeysNext]_kvars => KeysInv'  BY KeysStep
<1>3. KeysInv /\ [KeysNext]_kvars =>
        [\A k \in Key :
           /\ Dead(k)
           /\ \A r \in open \ open' : r.key = k => r.op \notin {"create", "login"}
           /\ \A e \in kscene.env : e.key # k
           => Dead(k)']_kvars
      BY DeadStep
<1> QED  BY <1>1, <1>2, <1>3, PTL DEF KeysSpec, DeadStaysDead

\* Role r was c's: in a projected event of the ledger, or in an environment.
Had(h, env, c, r) ==
    \/ \E n \in Node : \E i \in 1..h[n] : Ledger[i].owner = c /\ Ledger[i].role = r
    \/ \E e \in env : e.owner = c /\ e.role = r

\* The strengthening: what is on its way carries no other roles either.
RowsHeld(h, env, t) ==
    \A n \in Node, k \in Key : t[n][k].owner # nobody => Had(h, env, t[n][k].owner, t[n][k].role)
JobsHeld(h, env, js) == \A j \in js : j.kind # "revoke" => Had(h, env, j.owner, j.role)
PullHeld(h, env, p) == \A n \in Node : \A r \in p[n].records : Had(h, env, r.owner, r.role)

HeldInv == /\ RowsHeld(height, kscene.env, rows)
           /\ JobsHeld(height, kscene.env, jobs)
           /\ PullHeld(height, kscene.env, pull)

LEMMA HeldInitially == ASSUME KeysInit PROVE HeldInv
<1>1. RowsHeld(height, kscene.env, rows)
  <2> SUFFICES ASSUME NEW n \in Node, NEW k \in Key, rows[n][k].owner # nobody
               PROVE  Had(height, kscene.env, rows[n][k].owner, rows[n][k].role)
      BY DEF RowsHeld
  <2>1. CASE \E e \in Env(n) : e.key = k
    <3> DEFINE e == CHOOSE f \in Env(n) : f.key = k
    <3>1. e \in kscene.env  BY <2>1 DEF Env
    <3>2. rows[n][k] = [owner |-> e.owner, role |-> e.role, active |-> TRUE]
          BY <2>1 DEF KeysInit
    <3> HIDE DEF e
    <3> QED  BY <3>1, <3>2 DEF Had
  <2>2. CASE ~\E e \in Env(n) : e.key = k
        BY <2>2 DEF KeysInit, NoRow
  <2> QED  BY <2>1, <2>2
<1> QED  BY <1>1 DEF KeysInit, HeldInv, JobsHeld, PullHeld, Idle

\* A node projects more and more of the ledger, and the environments stay.
LEMMA HadGrows ==
    ASSUME KeysInv, [KeysNext]_kvars, NEW c, NEW r, Had(height, kscene.env, c, r)
    PROVE  Had(height', kscene'.env, c, r)
<1>1. kscene'.env = kscene.env
      BY DEF KeysNext, kvars, Create, CreateStore, Revoke, Login, Use, Align, SyncRoles,
             ReceiveUpsert, Store, ReceiveRevoke, Lose, BeginPull, Fetch, FetchFails,
             StoreRecord, Project, Restart, KeysInv
<1>2. \A n \in Node : height[n] \in Nat
  <2>1. Len(Ledger) \in Nat  BY KeysAssumption
  <2> QED  BY <2>1 DEF KeysInv
<1>3. height' = height \/ \E n \in Node : height' = [height EXCEPT ![n] = @ + 1]
      BY DEF KeysNext, kvars, Create, CreateStore, Revoke, Login, Use, Align, SyncRoles,
             ReceiveUpsert, Store, ReceiveRevoke, Lose, BeginPull, Fetch, FetchFails,
             StoreRecord, Project, Restart
<1>4. \A n \in Node : height'[n] \in Nat /\ height[n] <= height'[n]
      BY <1>2, <1>3 DEF KeysInv
<1>5. \A n \in Node : 1..height[n] \subseteq 1..height'[n]  BY <1>2, <1>4
<1> QED  BY <1>1, <1>5 DEF Had

LEMMA RoleHeld ==
    ASSUME KeysInv, NEW n \in Node, NEW c, NEW default,
           Known(n, c) # {} \/ Had(height, kscene.env, c, default)
    PROVE  Had(height, kscene.env, c, RoleOf(n, c, default))
<1>1. CASE Known(n, c) = {}  BY <1>1, RoleIsKnown
<1>2. CASE Known(n, c) # {}
  <2>1. PICK i \in Known(n, c) : RoleOf(n, c, default) = Ledger[i].role  BY <1>2, RoleIsKnown
  <2> QED  BY <2>1 DEF Known, Had
<1> QED  BY <1>1, <1>2

LEMMA UpsertHeld ==
    ASSUME Sound(rows), NEW h, NEW env, RowsHeld(h, env, rows), NEW n \in Node, NEW k, NEW c,
           NEW role, Had(h, env, c, role)
    PROVE  RowsHeld(h, env, upsert_key(n, k, c, role))
BY DEF upsert_key, Sound, RowsHeld

LEMMA RevokeHeld ==
    ASSUME Sound(rows), NEW h, NEW env, RowsHeld(h, env, rows), NEW n \in Node, NEW k \in Key
    PROVE  RowsHeld(h, env, revoke_key(n, k))
<1>1. rows[n][k] \in KeyRow  BY DEF Sound
<1>2. revoke_key(n, k)
        = [rows EXCEPT ![n] = [rows[n] EXCEPT ![k] = [rows[n][k] EXCEPT !.active = FALSE]]]
      BY DEF revoke_key, Sound
<1>3. \A m \in Node, j \in Key : /\ revoke_key(n, k)[m][j].owner = rows[m][j].owner
                                 /\ revoke_key(n, k)[m][j].role = rows[m][j].role
      BY <1>1, <1>2 DEF Sound, KeyRow
<1> QED  BY <1>3 DEF RowsHeld

LEMMA GiveRoleHeld ==
    ASSUME Sound(rows), NEW h, NEW env, RowsHeld(h, env, rows), NEW n \in Node, NEW c, NEW role,
           NEW which, c # nobody => Had(h, env, c, role)
    PROVE  RowsHeld(h, env, GiveRole(n, c, role, which))
<1>1. \A k \in Key : rows[n][k] \in KeyRow  BY DEF Sound
<1>2. \A k \in Key : /\ GiveRole(n, c, role, which)[n][k].owner = rows[n][k].owner
                     /\ \/ GiveRole(n, c, role, which)[n][k].role = rows[n][k].role
                        \/ rows[n][k].owner = c
                           /\ GiveRole(n, c, role, which)[n][k].role = role
      BY <1>1 DEF GiveRole, Sound, KeyRow
<1>3. \A m \in Node : m # n => GiveRole(n, c, role, which)[m] = rows[m]
      BY DEF GiveRole, Sound
<1> QED  BY <1>2, <1>3 DEF RowsHeld

LEMMA AlignedHeld ==
    ASSUME KeysInv, NEW n \in Node, NEW table \in [Key -> KeyRow], NEW k \in Key,
           table[k].owner # nobody => Had(height, kscene.env, table[k].owner, table[k].role)
    PROVE  Aligned(n, table)[k].owner # nobody =>
             Had(height, kscene.env, Aligned(n, table)[k].owner, Aligned(n, table)[k].role)
BY AlignedKeeps, RoleHeld

\* One step, in terms of the ledger as it is projected before the step, or after it.
LEMMA HeldStep == ASSUME KeysInv, HeldInv, [KeysNext]_kvars PROVE HeldInv'
<1> DEFINE R(t) == RowsHeld(height, kscene.env, t)
           J(js) == JobsHeld(height, kscene.env, js)
           P(p) == PullHeld(height, kscene.env, p)
<1>0. Sound(rows) /\ JobsOK(jobs) /\ R(rows) /\ J(jobs) /\ P(pull)
      BY DEF KeysInv, JobsOK, HeldInv
<1>g. ASSUME R(rows'), J(jobs'), P(pull') PROVE HeldInv'
      BY <1>g, HadGrows DEF HeldInv, RowsHeld, JobsHeld, PullHeld
<1>1. ASSUME NEW r \in open, Create(r) \/ Login(r) PROVE R(rows') /\ J(jobs') /\ P(pull')
  <2>1. Known(r.node, r.owner) # {} =>
          Had(height, kscene.env, r.owner, RoleOf(r.node, r.owner, r.role))
        BY RequestType, RoleHeld
  <2>2. J(jobs')  BY <1>0, <1>1, <2>1 DEF Create, Login, Job, JobsHeld
  <2> QED  BY <1>0, <1>1, <2>2 DEF Create, Login
<1>2. ASSUME NEW j \in jobs, CreateStore(j) \/ Store(j) PROVE R(rows') /\ J(jobs') /\ P(pull')
  <2>1. j \in KeyJob /\ Had(height, kscene.env, j.owner, j.role)
        BY <1>0, <1>2 DEF JobsOK, JobsHeld, CreateStore, Store
  <2>2. rows' = upsert_key(j.node, j.key, j.owner, j.role)  BY <1>2 DEF CreateStore, Store
  <2>3. R(rows')  BY <1>0, <2>1, <2>2, UpsertHeld DEF KeyJob
  <2>4. J(jobs')  BY <1>0, <1>2, <2>1 DEF CreateStore, Store, Push, Job, JobsHeld
  <2> QED  BY <1>0, <1>2, <2>3, <2>4 DEF CreateStore, Store
<1>3. ASSUME NEW r \in open, Revoke(r) PROVE R(rows') /\ J(jobs') /\ P(pull')
  <2>1. R(rows')  BY <1>0, <1>3, RequestType, RevokeHeld DEF Revoke
  <2>2. J(jobs')  BY <1>0, <1>3 DEF Revoke, Push, Job, JobsHeld
  <2> QED  BY <1>0, <1>3, <2>1, <2>2 DEF Revoke
<1>4. ASSUME NEW r \in open, Use(r) PROVE R(rows') /\ J(jobs') /\ P(pull')
  <2> DEFINE row == rows[r.node][r.key]
  <2>1. row.active => row.owner # nobody  BY <1>0, RequestType DEF Sound
  <2>2. row.active => Had(height, kscene.env, row.owner, row.role)
        BY <1>0, <2>1, RequestType DEF RowsHeld
  <2>3. row.active => Had(height, kscene.env, row.owner, RoleOf(r.node, row.owner, row.role))
        BY <2>2, RequestType, RoleHeld
  <2>4. J(jobs')  BY <1>0, <1>4, <2>3 DEF Use, Job, JobsHeld
  <2> QED  BY <1>0, <1>4, <2>4 DEF Use
<1>5. ASSUME NEW j \in jobs, Align(j) PROVE R(rows') /\ J(jobs') /\ P(pull')
  <2>1. j \in KeyJob /\ Had(height, kscene.env, j.owner, j.role)
        BY <1>0, <1>5 DEF JobsOK, JobsHeld, Align
  <2>2. rows' = GiveRole(j.node, j.owner, j.role, [k \in Key |-> rows[j.node][k].active])
        BY <1>5, <2>1 DEF Align, GiveRole, KeysInv, Sound, KeyJob
  <2>3. R(rows')  BY <1>0, <2>1, <2>2, GiveRoleHeld DEF KeyJob
  <2> QED  BY <1>0, <1>5, <2>3 DEF Align, JobsHeld
<1>6. ASSUME NEW r \in open, SyncRoles(r) PROVE R(rows') /\ J(jobs') /\ P(pull')
  <2>1. r.node \in Node /\ rows[r.node] \in [Key -> KeyRow]
        BY <1>0, RequestType DEF Sound
  <2>2. \A k \in Key : Aligned(r.node, rows[r.node])[k].owner # nobody =>
             Had(height, kscene.env, Aligned(r.node, rows[r.node])[k].owner,
                 Aligned(r.node, rows[r.node])[k].role)
        BY <1>0, <2>1, AlignedHeld DEF RowsHeld
  <2>3. R(rows')  BY <1>0, <1>6, <2>1, <2>2 DEF SyncRoles, Sound, RowsHeld
  <2> QED  BY <1>0, <1>6, <2>3 DEF SyncRoles
<1>7. ASSUME NEW j \in jobs, ReceiveUpsert(j) PROVE R(rows') /\ J(jobs') /\ P(pull')
  <2>1. j \in KeyJob /\ Had(height, kscene.env, j.owner, j.role)
        BY <1>0, <1>7 DEF JobsOK, JobsHeld, ReceiveUpsert
  <2>2. Had(height, kscene.env, j.owner, RoleOf(j.node, j.owner, j.role))
        BY <2>1, RoleHeld DEF KeyJob
  <2>3. J(jobs')  BY <1>0, <1>7, <2>2 DEF ReceiveUpsert, Job, JobsHeld
  <2> QED  BY <1>0, <1>7, <2>3 DEF ReceiveUpsert
<1>8. ASSUME NEW j \in jobs, ReceiveRevoke(j) PROVE R(rows') /\ J(jobs') /\ P(pull')
  <2>1. j \in KeyJob  BY <1>0 DEF JobsOK
  <2>2. R(rows')  BY <1>0, <1>8, <2>1, RevokeHeld DEF ReceiveRevoke, KeyJob
  <2> QED  BY <1>0, <1>8, <2>2 DEF ReceiveRevoke, JobsHeld
<1>9. ASSUME NEW j \in jobs, Lose(j) PROVE R(rows') /\ J(jobs') /\ P(pull')
  BY <1>0, <1>9 DEF Lose, JobsHeld
<1>10. ASSUME NEW n \in Node, NEW m \in Node, Fetch(n, m)
       PROVE  R(rows') /\ J(jobs') /\ P(pull')
  <2>1. \A r \in Export(m) : Had(height, kscene.env, r.owner, r.role)
        BY <1>0 DEF Export, Active, RowsHeld, Sound
  <2>2. pull' = [pull EXCEPT ![n] = [peers |-> pull[n].peers \ {m}, records |-> Export(m)]]
        BY <1>10 DEF Fetch
  <2>3. P(pull')  BY <1>0, <2>1, <2>2 DEF KeysInv, PullHeld
  <2> QED  BY <1>0, <1>10, <2>3 DEF Fetch
<1>11. ASSUME NEW n \in Node, NEW m \in Node, FetchFails(n, m) \/ BeginPull(n)
       PROVE  R(rows') /\ J(jobs') /\ P(pull')
  <2>1. PICK ps : pull' = [pull EXCEPT ![n] = [pull[n] EXCEPT !.peers = ps]]
        BY <1>11 DEF FetchFails, BeginPull
  <2>2. pull[n] \in [peers : SUBSET Node, records : SUBSET Record]  BY DEF KeysInv
  <2>3. [pull[n] EXCEPT !.peers = ps].records = pull[n].records  BY <2>2
  <2>4. P(pull')  BY <1>0, <2>1, <2>3 DEF KeysInv, PullHeld
  <2> QED  BY <1>0, <1>11, <2>4 DEF FetchFails, BeginPull
<1>12. ASSUME NEW n \in Node, NEW r \in pull[n].records, StoreRecord(n, r)
       PROVE  R(rows') /\ J(jobs') /\ P(pull')
  <2>1. Had(height, kscene.env, r.owner, r.role)  BY <1>0 DEF PullHeld
  <2>2. R(rows')  BY <1>0, <1>12, <2>1, UpsertHeld DEF StoreRecord
  <2>3. pull[n] \in [peers : SUBSET Node, records : SUBSET Record]  BY DEF KeysInv
  <2>4. [pull[n] EXCEPT !.records = @ \ {r}].records \subseteq pull[n].records  BY <2>3
  <2>5. P(pull')  BY <1>0, <1>12, <2>4 DEF StoreRecord, KeysInv, PullHeld
  <2> QED  BY <1>0, <1>12, <2>2, <2>5 DEF StoreRecord
<1>13. ASSUME NEW n \in Node, Project(n) PROVE HeldInv'
  <2> DEFINE e == Ledger[height[n] + 1]
  <2>0. /\ RowsHeld(height', kscene'.env, rows)
        /\ JobsHeld(height', kscene'.env, jobs)
        /\ PullHeld(height', kscene'.env, pull)
        BY <1>0, HadGrows DEF RowsHeld, JobsHeld, PullHeld
  <2>1. Had(height', kscene'.env, e.owner, e.role)
    <3>1. Len(Ledger) \in Nat  BY KeysAssumption
    <3>2. height[n] \in Nat /\ height'[n] = height[n] + 1
          BY <1>13, <3>1 DEF Project, KeysInv
    <3>3. height[n] + 1 \in 1..height'[n]  BY <3>2
    <3> QED  BY <3>3 DEF Had
  <2> HIDE DEF e
  <2>2. \/ rows' = rows
        \/ rows' = GiveRole(n, e.owner, e.role, [i \in Key |-> TRUE])
    <3>1. rows' = IF Known(n, e.owner) = {} THEN rows
                  ELSE [rows EXCEPT ![n] =
                           [i \in Key |-> IF @[i].owner = e.owner
                                          THEN [@[i] EXCEPT !.role = e.role] ELSE @[i]]]
          BY <1>13 DEF Project, e
    <3> QED  BY <3>1 DEF GiveRole, KeysInv, Sound
  <2>3. RowsHeld(height', kscene'.env, rows')
        BY <1>0, <2>0, <2>1, <2>2, GiveRoleHeld
  <2> QED  BY <1>13, <2>0, <2>3 DEF Project, HeldInv
<1>14. ASSUME NEW n \in Node, Restart(n) PROVE R(rows') /\ J(jobs') /\ P(pull')
  <2>1. rows' = [rows EXCEPT ![n] = Aligned(n, Stored(n))]
        BY <1>14 DEF Restart, Stored
  <2>2. Stored(n) \in [Key -> KeyRow]
    <3>1. \A i \in Key : Stored(n)[i] \in KeyRow  BY StoredSound
    <3> QED  BY <3>1 DEF Stored
  <2>3. ASSUME NEW k \in Key, Stored(n)[k].owner # nobody
        PROVE  Had(height, kscene.env, Stored(n)[k].owner, Stored(n)[k].role)
    <3>1. CASE \E e \in Env(n) : e.key = k
      <4> DEFINE e == CHOOSE f \in Env(n) : f.key = k
      <4>1. e \in kscene.env  BY <3>1 DEF Env
      <4>2. Stored(n)[k] = [owner |-> e.owner, active |-> TRUE,
                            role |-> RoleOf(n, e.owner, e.role)]
            BY <3>1 DEF Stored
      <4> HIDE DEF e
      <4>3. Had(height, kscene.env, e.owner, e.role)  BY <4>1 DEF Had
      <4>4. Had(height, kscene.env, e.owner, RoleOf(n, e.owner, e.role))  BY <4>3, RoleHeld
      <4> QED  BY <4>2, <4>4
    <3>2. CASE ~\E e \in Env(n) : e.key = k
          BY <1>0, <2>3, <3>2 DEF Stored, RowsHeld
    <3> QED  BY <3>1, <3>2
  <2>4. \A k \in Key : Aligned(n, Stored(n))[k].owner # nobody =>
             Had(height, kscene.env, Aligned(n, Stored(n))[k].owner,
                 Aligned(n, Stored(n))[k].role)
        BY <2>2, <2>3, AlignedHeld
  <2>5. R(rows')  BY <1>0, <2>1, <2>4 DEF Sound, RowsHeld
  <2>6. J(jobs')  BY <1>0, <1>14 DEF Restart, JobsHeld
  <2>7. P(pull')  BY <1>0, <1>14 DEF Restart, Idle, KeysInv, PullHeld
  <2> QED  BY <2>5, <2>6, <2>7
<1>15. CASE UNCHANGED kvars
  BY <1>15 DEF kvars, HeldInv
<1> QED
  BY <1>g, <1>1, <1>2, <1>3, <1>4, <1>5, <1>6, <1>7, <1>8, <1>9, <1>10, <1>11, <1>12, <1>13,
     <1>14, <1>15 DEF KeysNext

\* Whatever pushes, rounds and alignments carry stale roles about, no key ever has a
\* role that its citizen never had.
THEOREM RolesHeld == KeysSpec => []KeyRoleHeld
<1>1. KeysInit => KeysInv /\ HeldInv  BY KeysInitially, HeldInitially
<1>2. KeysInv /\ HeldInv /\ [KeysNext]_kvars => (KeysInv /\ HeldInv)'  BY KeysStep, HeldStep
<1>3. KeysInv /\ HeldInv => KeyRoleHeld
  <2> SUFFICES ASSUME KeysInv, HeldInv, NEW n \in Node, NEW k \in Key, rows[n][k].owner # nobody
               PROVE  rows[n][k].role \in Held(rows[n][k].owner)
      BY DEF KeyRoleHeld
  <2>1. Had(height, kscene.env, rows[n][k].owner, rows[n][k].role)
        BY DEF HeldInv, RowsHeld
  <2> QED  BY <2>1 DEF Had, Held, Known
<1> QED  BY <1>1, <1>2, <1>3, PTL DEF KeysSpec

-----------------------------------------------------------------------------
(* Registration by e-mail.                                                  *)

CodeRow == [code : Send \cup {none}, expires_at : Nat, last_sent_at : Nat]
Far == {"stored", "answered"}

\* A code is in the table, or accepted, only after its request has stored it, and no
\* request stores twice.
CodesInv ==
    /\ clock \in 0..LastTick
    /\ codes \in [Email -> CodeRow]
    /\ sending \in [Send -> {"idle", "checked", "mailing", "mailed", "stored",
                             "answered", "refused"}]
    /\ started \in [Send -> 0..LastTick]
    /\ mailed \subseteq Send
    /\ \A s \in Send : sending[s] \in {"mailed", "stored", "answered"} => s \in mailed
    /\ \A e \in Email : codes[e].code # none =>
          /\ AddressOf[codes[e].code] = e
          /\ sending[codes[e].code] \in Far
          /\ codes[e].expires_at = started[codes[e].code] + CODE_TTL
          /\ \A p \in opened : p[1] # codes[e].code
    /\ opened \subseteq Send \X (0..LastTick)
    /\ \A p \in opened : sending[p[1]] \in Far /\ p[2] < started[p[1]] + CODE_TTL
    /\ \A p, q \in opened : p[1] = q[1] => p = q

LEMMA CodesInitially == CodesInit => CodesInv
BY CodesAssumption DEF CodesInit, CodesInv, NoCode, CodeRow

\* purge_expired_codes leaves rows as they are, or drops them.
LEMMA PurgedType ==
    ASSUME CodesInv
    PROVE  /\ Purged \in [Email -> CodeRow]
           /\ \A e \in Email : Purged[e].code # none =>
                 Purged[e] = codes[e] /\ codes[e].expires_at > clock
<1>1. NoCode \in CodeRow /\ NoCode.code = none  BY DEF NoCode, CodeRow
<1> QED  BY <1>1 DEF Purged, CodesInv

LEMMA CodesStep == ASSUME CodesInv, [CodesNext]_cvars PROVE CodesInv'
<1> USE CodesAssumption
<1>1. ASSUME NEW s \in Send, CheckIp(s) PROVE CodesInv'
  <2>1. /\ sending[s] = "idle"
        /\ \E x \in {"refused", "checked"} : sending' = [sending EXCEPT ![s] = x]
        /\ UNCHANGED <<clock, codes, started, mailed, opened>>
        BY <1>1 DEF CheckIp
  <2> QED  BY <2>1 DEF CodesInv, Far
<1>2. ASSUME NEW s \in Send, CheckCooldown(s) PROVE CodesInv'
  <2>1. /\ sending[s] = "checked"
        /\ \E x \in {"refused", "mailing"} : sending' = [sending EXCEPT ![s] = x]
        /\ started' = [started EXCEPT ![s] = clock]
        /\ codes' = Purged
        /\ UNCHANGED <<clock, mailed, opened>>
        BY <1>2 DEF CheckCooldown
  <2>2. \A t \in Send : sending[t] \in Far => sending'[t] = sending[t] /\ started'[t] = started[t]
        BY <2>1 DEF CodesInv, Far
  <2>3. sending' \in [Send -> {"idle", "checked", "mailing", "mailed", "stored",
                               "answered", "refused"}]
        BY <2>1 DEF CodesInv
  <2>4. started' \in [Send -> 0..LastTick]  BY <2>1 DEF CodesInv
  <2>5. \A t \in Send : sending'[t] \in {"mailed", "stored", "answered"} => t \in mailed'
        BY <2>1 DEF CodesInv
  <2>6. ASSUME NEW e \in Email, codes'[e].code # none
        PROVE  /\ AddressOf[codes'[e].code] = e
               /\ sending'[codes'[e].code] \in Far
               /\ codes'[e].expires_at = started'[codes'[e].code] + CODE_TTL
               /\ \A p \in opened' : p[1] # codes'[e].code
    <3>1. codes'[e] = codes[e] /\ codes[e].code \in Send
          BY <2>1, <2>6, PurgedType DEF CodesInv, CodeRow
    <3> QED  BY <2>1, <2>2, <2>6, <3>1 DEF CodesInv
  <2>7. \A p \in opened' : sending'[p[1]] \in Far /\ p[2] < started'[p[1]] + CODE_TTL
        BY <2>1, <2>2 DEF CodesInv
  <2> QED  BY <2>1, <2>3, <2>4, <2>5, <2>6, <2>7, PurgedType DEF CodesInv
<1>3. ASSUME NEW s \in Send, Mail(s) \/ MailFails(s) PROVE CodesInv'
  <2>1. /\ sending[s] = "mailing"
        /\ \/ sending' = [sending EXCEPT ![s] = "mailed"] /\ mailed' = mailed \cup {s}
           \/ sending' = [sending EXCEPT ![s] = "refused"] /\ mailed' \in {mailed, mailed \cup {s}}
        /\ UNCHANGED <<clock, codes, started, opened>>
        BY <1>3 DEF Mail, MailFails
  <2>2. \A t \in Send : sending[t] \in Far => sending'[t] = sending[t]
        BY <2>1 DEF CodesInv, Far
  <2>3. sending' \in [Send -> {"idle", "checked", "mailing", "mailed", "stored",
                               "answered", "refused"}]
        BY <2>1 DEF CodesInv
  <2>4. mailed' \subseteq Send /\ mailed \subseteq mailed'  BY <2>1 DEF CodesInv
  <2>5. \A t \in Send : sending'[t] \in {"mailed", "stored", "answered"} => t \in mailed'
        BY <2>1 DEF CodesInv
  <2>6. \A e \in Email : codes[e].code # none => codes[e].code \in Send
        BY DEF CodesInv, CodeRow
  <2>7. \A p \in opened : p[1] \in Send  BY DEF CodesInv
  <2> QED  BY <2>1, <2>2, <2>3, <2>4, <2>5, <2>6, <2>7 DEF CodesInv
<1>4. ASSUME NEW s \in Send, StoreCode(s) PROVE CodesInv'
  <2> DEFINE row == [code |-> s, expires_at |-> started[s] + CODE_TTL,
                     last_sent_at |-> started[s]]
  <2>1. /\ sending[s] = "mailed"
        /\ sending' = [sending EXCEPT ![s] = "stored"]
        /\ codes' = [codes EXCEPT ![AddressOf[s]] = row]
        /\ UNCHANGED <<clock, started, mailed, opened>>
        BY <1>4 DEF StoreCode
  <2>2. row \in CodeRow /\ row.code = s /\ row.expires_at = started[s] + CODE_TTL
        BY DEF CodesInv, CodeRow
  <2>3. \A t \in Send : sending[t] \in Far => sending'[t] = sending[t]
        BY <2>1 DEF CodesInv, Far
  <2>4. AddressOf[s] \in Email /\ codes' \in [Email -> CodeRow]
    <3> HIDE DEF row
    <3> QED  BY <2>1, <2>2 DEF CodesInv
  <2>5. ASSUME NEW e \in Email, codes'[e].code # none
        PROVE  /\ AddressOf[codes'[e].code] = e
               /\ sending'[codes'[e].code] \in Far
               /\ codes'[e].expires_at = started'[codes'[e].code] + CODE_TTL
               /\ \A p \in opened' : p[1] # codes'[e].code
    <3> HIDE DEF row
    <3>1. CASE e = AddressOf[s]
      <4>1. codes'[e] = row  BY <2>1, <2>4, <3>1 DEF CodesInv
      <4>2. sending'[s] \in Far  BY <2>1 DEF CodesInv, Far
      <4>3. \A p \in opened : p[1] # s  BY <2>1 DEF CodesInv, Far
      <4> QED  BY <2>1, <2>2, <3>1, <4>1, <4>2, <4>3
    <3>2. CASE e # AddressOf[s]
      <4>1. codes'[e] = codes[e] /\ codes[e].code \in Send
            BY <2>1, <2>5, <3>2 DEF CodesInv, CodeRow
      <4> QED  BY <2>1, <2>3, <2>5, <4>1 DEF CodesInv
    <3> QED  BY <3>1, <3>2
  <2>6. \A p \in opened' : sending'[p[1]] \in Far /\ p[2] < started'[p[1]] + CODE_TTL
        BY <2>1, <2>3 DEF CodesInv
  <2>7. sending' \in [Send -> {"idle", "checked", "mailing", "mailed", "stored",
                               "answered", "refused"}]
        BY <2>1 DEF CodesInv
  <2>8. \A t \in Send : sending'[t] \in {"mailed", "stored", "answered"} => t \in mailed'
        BY <2>1 DEF CodesInv
  <2> QED  BY <2>1, <2>4, <2>5, <2>6, <2>7, <2>8 DEF CodesInv
<1>5. ASSUME NEW s \in Send, record_ip_send(s) PROVE CodesInv'
  <2>1. /\ sending[s] = "stored"
        /\ sending' = [sending EXCEPT ![s] = "answered"]
        /\ UNCHANGED <<clock, codes, started, mailed, opened>>
        BY <1>5 DEF record_ip_send
  <2>2. \A t \in Send : sending[t] \in Far => sending'[t] \in Far
        BY <2>1 DEF CodesInv, Far
  <2>3. \A e \in Email : codes[e].code # none => codes[e].code \in Send
        BY DEF CodesInv, CodeRow
  <2>4. \A p \in opened : p[1] \in Send  BY DEF CodesInv
  <2>5. sending' \in [Send -> {"idle", "checked", "mailing", "mailed", "stored",
                               "answered", "refused"}]
        BY <2>1 DEF CodesInv
  <2>6. \A t \in Send : sending'[t] \in {"mailed", "stored", "answered"} => t \in mailed'
        BY <2>1 DEF CodesInv
  <2> QED  BY <2>1, <2>2, <2>3, <2>4, <2>5, <2>6 DEF CodesInv
<1>6. ASSUME NEW e \in Email, NEW c \in Send, Verify(e, c) PROVE CodesInv'
  <2>1. UNCHANGED <<clock, sending, started, mailed>>  BY <1>6 DEF Verify
  <2>2. CASE Purged[e].code # c
    <3>1. codes' = Purged /\ opened' = opened  BY <1>6, <2>2 DEF Verify
    <3> QED  BY <2>1, <3>1, PurgedType DEF CodesInv, CodeRow
  <2>3. CASE Purged[e].code = c
    <3>1. codes' = [Purged EXCEPT ![e] = NoCode] /\ opened' = opened \cup {<<c, clock>>}
          BY <1>6, <2>3 DEF Verify
    <3>2. NoCode \in CodeRow /\ NoCode.code = none  BY DEF NoCode, CodeRow
    <3>3. codes[e].code = c /\ codes[e].expires_at > clock
          BY <2>3, PurgedType
    <3>4. /\ AddressOf[c] = e /\ sending[c] \in Far /\ clock < started[c] + CODE_TTL
          /\ \A p \in opened : p[1] # c
          BY <3>3 DEF CodesInv
    <3>5. codes' \in [Email -> CodeRow]  BY <3>1, <3>2, PurgedType
    <3>6. ASSUME NEW f \in Email, codes'[f].code # none
          PROVE  codes'[f] = codes[f] /\ f # e /\ codes[f].code \in Send
          BY <3>1, <3>2, <3>6, PurgedType DEF CodesInv, CodeRow
    <3>7. \A f \in Email : codes'[f].code # none => codes'[f].code # c
          BY <3>4, <3>6 DEF CodesInv
    <3>8. \A f \in Email : codes'[f].code # none =>
            /\ AddressOf[codes'[f].code] = f
            /\ sending'[codes'[f].code] \in Far
            /\ codes'[f].expires_at = started'[codes'[f].code] + CODE_TTL
            /\ \A p \in opened' : p[1] # codes'[f].code
          BY <2>1, <3>1, <3>6, <3>7 DEF CodesInv
    <3>9. /\ opened' \subseteq Send \X (0..LastTick)
          /\ \A p \in opened' : sending'[p[1]] \in Far /\ p[2] < started'[p[1]] + CODE_TTL
          /\ \A p, q \in opened' : p[1] = q[1] => p = q
          BY <2>1, <3>1, <3>4 DEF CodesInv
    <3> QED  BY <2>1, <3>5, <3>8, <3>9 DEF CodesInv
  <2> QED  BY <2>2, <2>3
<1>7. CASE PassTime  BY <1>7 DEF PassTime, CodesInv
<1>8. CASE UNCHANGED cvars  BY <1>8 DEF cvars, CodesInv
<1> QED  BY <1>1, <1>2, <1>3, <1>4, <1>5, <1>6, <1>7, <1>8 DEF CodesNext

\* A code opens once, for the address it was mailed to, and in time: for any number of
\* requests, however they overlap.
THEOREM CodesOpenOnce == CodesSpec => []CodeOnce
<1>1. CodesInv => CodeOnce  BY DEF CodesInv, CodeOnce, Far, CodeRow
<1> QED  BY <1>1, CodesInitially, CodesStep, PTL DEF CodesSpec

\* What holds of counts: the sum of what is counted and what is about to be counted.
LimitInv ==
    /\ counts \in [Ip -> [count : Nat, since : Nat]]
    /\ peak \in [Ip -> Nat]
    /\ IpLimit

LEMMA UncountedFinite ==
    ASSUME NEW i PROVE IsFiniteSet(Uncounted(i)) /\ Cardinality(Uncounted(i)) \in Nat
<1>1. Uncounted(i) \subseteq Send  BY DEF Uncounted
<1> QED  BY <1>1, CodesAssumption, FS_Subset, FS_CardinalityType

LEMMA RetainedType ==
    ASSUME CodesInv, LimitInv
    PROVE  /\ Retained \in [Ip -> [count : Nat, since : Nat]]
           /\ \A i \in Ip : Retained[i].count <= counts[i].count
<1>1. \A i \in Ip : /\ Retained[i] \in [count : Nat, since : Nat]
                    /\ Retained[i].count <= counts[i].count
      BY DEF Retained, LimitInv, NoCount
<1> QED  BY <1>1 DEF Retained

\* A request that changes from one stage to the next without passing the limit or
\* being counted does not add to what is about to be counted.
LEMMA NotAdded ==
    ASSUME CodesInv, LimitInv, UNCHANGED <<counts, peak>>, \A i \in Ip : Uncounted(i)' \subseteq Uncounted(i)
    PROVE  LimitInv'
<1>1. \A i \in Ip : Cardinality(Uncounted(i)') <= Cardinality(Uncounted(i))
      BY UncountedFinite, FS_Subset
<1>2. \A i \in Ip : Cardinality(Uncounted(i)') \in Nat
      BY UncountedFinite, FS_Subset, FS_CardinalityType
<1>3. ASSUME NEW i \in Ip
      PROVE  counts'[i].count + Cardinality(Uncounted(i)') <= MaxSends - 1 + peak'[i]
  <2>1. counts[i].count \in Nat /\ peak[i] \in Nat /\ MaxSends \in Nat
        BY CodesAssumption DEF LimitInv
  <2>2. Cardinality(Uncounted(i)) \in Nat  BY UncountedFinite
  <2>3. counts[i].count + Cardinality(Uncounted(i)) <= MaxSends - 1 + peak[i]
        BY DEF LimitInv, IpLimit
  <2> QED  BY <1>1, <1>2, <2>1, <2>2, <2>3
<1> QED  BY <1>3 DEF LimitInv, IpLimit

LEMMA LimitStep == ASSUME CodesInv, LimitInv, [CodesNext]_cvars PROVE LimitInv'
<1> USE CodesAssumption
<1>1. ASSUME NEW s \in Send, CheckIp(s) PROVE LimitInv'
  <2> DEFINE i == IpOf[s]
             U == Cardinality(Uncounted(i))
  <2>1. i \in Ip /\ U \in Nat /\ peak[i] \in Nat  BY UncountedFinite DEF LimitInv
  <2>2. sending[s] = "idle" /\ counts' = Retained  BY <1>1 DEF CheckIp
  <2>3. CASE Limited(s)
    <3>1. sending' = [sending EXCEPT ![s] = "refused"] /\ peak' = peak
          BY <1>1, <2>3 DEF CheckIp
    <3>2. \A j \in Ip : Uncounted(j)' = Uncounted(j)
          BY <2>2, <3>1 DEF Uncounted, CodesInv
    <3>3. ASSUME NEW j \in Ip
          PROVE  counts'[j].count + Cardinality(Uncounted(j)') <= MaxSends - 1 + peak'[j]
      <4>1. /\ counts[j].count \in Nat /\ Retained[j].count \in Nat
            /\ Retained[j].count <= counts[j].count
            BY RetainedType DEF LimitInv
      <4>2. counts[j].count + Cardinality(Uncounted(j)) <= MaxSends - 1 + peak[j]
            BY DEF LimitInv, IpLimit
      <4>3. Cardinality(Uncounted(j)) \in Nat /\ peak[j] \in Nat  BY UncountedFinite DEF LimitInv
      <4> QED  BY <2>2, <3>1, <3>2, <4>1, <4>2, <4>3
    <3> QED  BY <2>2, <3>1, <3>3, RetainedType DEF LimitInv, IpLimit
  <2>4. CASE ~Limited(s)
    <3>1. /\ sending' = [sending EXCEPT ![s] = "checked"]
          /\ peak' = IF U + 1 <= peak[i] THEN peak ELSE [peak EXCEPT ![i] = U + 1]
          BY <1>1, <2>4 DEF CheckIp
    <3> HIDE DEF U
    <3>2. /\ peak' \in [Ip -> Nat] /\ U + 1 <= peak'[i]
          /\ \A j \in Ip : peak[j] <= peak'[j]
          BY <2>1, <3>1 DEF LimitInv
    <3>3. /\ Uncounted(i)' = Uncounted(i) \cup {s} /\ s \notin Uncounted(i)
          /\ \A j \in Ip : j # i => Uncounted(j)' = Uncounted(j)
          BY <2>2, <3>1 DEF Uncounted, CodesInv
    <3>4. Cardinality(Uncounted(i)') = U + 1
          BY <3>3, UncountedFinite, FS_AddElement DEF U
    <3>5. ASSUME NEW j \in Ip
          PROVE  counts'[j].count + Cardinality(Uncounted(j)') <= MaxSends - 1 + peak'[j]
      <4>1. /\ counts[j].count \in Nat /\ Retained[j].count \in Nat
            /\ Retained[j].count <= counts[j].count
            BY RetainedType DEF LimitInv
      <4>2. CASE j = i
        <5>1. Retained[i].count <= MaxSends - 1  BY <2>4, <4>1, <4>2 DEF Limited
        <5> QED  BY <2>1, <2>2, <3>2, <3>4, <4>1, <4>2, <5>1
      <4>3. CASE j # i
        <5>1. counts[j].count + Cardinality(Uncounted(j)) <= MaxSends - 1 + peak[j]
              BY DEF LimitInv, IpLimit
        <5>2. Cardinality(Uncounted(j)) \in Nat /\ peak[j] \in Nat /\ peak'[j] \in Nat
              BY <3>2, UncountedFinite DEF LimitInv
        <5> QED  BY <2>2, <3>2, <3>3, <4>1, <4>3, <5>1, <5>2
      <4> QED  BY <4>2, <4>3
    <3> QED  BY <2>2, <3>2, <3>5, RetainedType DEF LimitInv, IpLimit
  <2> QED  BY <2>3, <2>4
<1>2. ASSUME NEW s \in Send,
             CheckCooldown(s) \/ Mail(s) \/ MailFails(s) \/ StoreCode(s)
      PROVE  LimitInv'
  <2>1. /\ UNCHANGED <<counts, peak>>
        /\ sending[s] \in {"checked", "mailing", "mailed"}
        /\ \E x \in {"refused", "mailing", "mailed", "stored"} : sending' = [sending EXCEPT ![s] = x]
        BY <1>2 DEF CheckCooldown, Mail, MailFails, StoreCode
  <2>2. \A i \in Ip : Uncounted(i)' \subseteq Uncounted(i)
        BY <2>1 DEF Uncounted, CodesInv
  <2> QED  BY <2>1, <2>2, NotAdded
<1>3. ASSUME NEW s \in Send, record_ip_send(s) PROVE LimitInv'
  <2> DEFINE i == IpOf[s]
             row == [count |-> Retained[i].count + 1,
                     since |-> IF Retained[i].count = 0 THEN clock ELSE Retained[i].since]
  <2>1. /\ i \in Ip /\ sending[s] = "stored" /\ peak' = peak
        /\ counts' = [Retained EXCEPT ![i] = row]
        /\ sending' = [sending EXCEPT ![s] = "answered"]
        BY <1>3 DEF record_ip_send
  <2>2. Retained[i] \in [count : Nat, since : Nat] /\ Retained[i].count <= counts[i].count
        BY <2>1, RetainedType
  <2>3. row \in [count : Nat, since : Nat] /\ row.count = Retained[i].count + 1
        BY <2>2 DEF CodesInv
  <2> HIDE DEF row
  <2>r. Retained \in [Ip -> [count : Nat, since : Nat]]  BY RetainedType
  <2>4. /\ counts' \in [Ip -> [count : Nat, since : Nat]]
        /\ counts'[i] = row
        /\ \A j \in Ip : j # i => counts'[j] = Retained[j]
    <3> DEFINE C == [count : Nat, since : Nat]
    <3> HIDE DEF C, i
    <3>1. Retained \in [Ip -> C] /\ row \in C  BY <2>3, <2>r DEF C
    <3>2. counts' \in [Ip -> C]  BY <2>1, <3>1
    <3> QED  BY <2>1, <2>r, <3>2 DEF C
  <2>8. counts'[i].count = Retained[i].count + 1  BY <2>3, <2>4
  <2>5. /\ Uncounted(i)' = Uncounted(i) \ {s} /\ s \in Uncounted(i)
        /\ \A j \in Ip : j # i => Uncounted(j)' = Uncounted(j)
        BY <2>1 DEF Uncounted, CodesInv
  <2>6. Cardinality(Uncounted(i)') = Cardinality(Uncounted(i)) - 1
    <3>1. IsFiniteSet(Uncounted(i))  BY UncountedFinite
    <3>2. Cardinality(Uncounted(i) \ {s}) = Cardinality(Uncounted(i)) - 1
          BY <2>5, <3>1, FS_RemoveElement
    <3> QED  BY <2>5, <3>2
  <2>7. ASSUME NEW j \in Ip
        PROVE  counts'[j].count + Cardinality(Uncounted(j)') <= MaxSends - 1 + peak'[j]
    <3>1. /\ counts[j].count \in Nat /\ Retained[j].count \in Nat
          /\ Retained[j].count <= counts[j].count
          BY RetainedType DEF LimitInv
    <3>2. counts[j].count + Cardinality(Uncounted(j)) <= MaxSends - 1 + peak[j]
          BY DEF LimitInv, IpLimit
    <3>3. Cardinality(Uncounted(j)) \in Nat /\ peak[j] \in Nat  BY UncountedFinite DEF LimitInv
    <3>4. CASE j = i  BY <2>1, <2>6, <2>8, <3>1, <3>2, <3>3, <3>4
    <3>5. CASE j # i  BY <2>1, <2>4, <2>5, <3>1, <3>2, <3>3, <3>5
    <3> QED  BY <3>4, <3>5
  <2> QED  BY <2>1, <2>4, <2>7 DEF LimitInv, IpLimit
<1>4. CASE (\E e \in Email, c \in Send : Verify(e, c)) \/ PassTime \/ UNCHANGED cvars
  <2>1. UNCHANGED <<counts, peak, sending>>
    <3>1. CASE \E e \in Email, c \in Send : Verify(e, c)  BY <3>1 DEF Verify
    <3>2. CASE PassTime  BY <3>2 DEF PassTime
    <3>3. CASE UNCHANGED cvars  BY <3>3 DEF cvars
    <3> QED  BY <1>4, <3>1, <3>2, <3>3
  <2>2. \A i \in Ip : Uncounted(i)' \subseteq Uncounted(i)  BY <2>1 DEF Uncounted
  <2> QED  BY <2>1, <2>2, NotAdded
<1> QED  BY <1>1, <1>2, <1>3, <1>4 DEF CodesNext

LEMMA LimitInitially == CodesInit => LimitInv
<1> SUFFICES ASSUME CodesInit PROVE LimitInv
    OBVIOUS
<1>1. \A i \in Ip : Uncounted(i) = {}  BY DEF CodesInit, Uncounted
<1>2. Cardinality({}) = 0  BY FS_EmptySet
<1>3. \A i \in Ip : counts[i].count = 0 /\ peak[i] = 0  BY DEF CodesInit, NoCount
<1>4. 0 + 0 <= MaxSends - 1 + 0 /\ MaxSends \in Nat  BY CodesAssumption
<1>5. IpLimit  BY <1>1, <1>2, <1>3, <1>4 DEF IpLimit
<1> QED  BY <1>5 DEF CodesInit, LimitInv, NoCount

LEMMA LimitInvariant == CodesSpec => [](CodesInv /\ LimitInv)
<1>1. CodesInv /\ LimitInv /\ [CodesNext]_cvars => (CodesInv /\ LimitInv)'
      BY CodesStep, LimitStep
<1> QED  BY <1>1, CodesInitially, LimitInitially, PTL DEF CodesSpec

\* The limit of an hour is overrun by at most the requests that were under way at the
\* same time: for any limit and any number of requests.
THEOREM LimitHolds == CodesSpec => []IpLimit
<1>1. LimitInv => IpLimit  BY DEF LimitInv
<1> QED  BY <1>1, LimitInvariant, PTL

-----------------------------------------------------------------------------
(* The catalogue.                                                           *)

\* An update on its way would write an acceptable row over whatever is there then.
EditsSound ==
    \A e \in edits : e.code \in Code /\ With(e.seen, e.given) \in Service
                     /\ Acceptable(With(e.seen, e.given))

LEMMA GivenTyped ==
    ASSUME NEW r \in CatalogueRequest, NEW s \in Service
    PROVE  r.code \in Code /\ With(s, r.given) \in Service
<1>1. \A f \in DOMAIN r.given : r.given[f] \in (IF f = "active" THEN BOOLEAN ELSE Int)
      BY CatalogueAssumption
<1>2. r.code \in Code  BY CatalogueAssumption
<1>3. /\ "price" \in DOMAIN r.given => r.given["price"] \in Int
      /\ "min" \in DOMAIN r.given => r.given["min"] \in Int
      /\ "max" \in DOMAIN r.given => r.given["max"] \in Int
      /\ "active" \in DOMAIN r.given => r.given["active"] \in BOOLEAN
      BY <1>1
<1>4. /\ With(s, r.given).price \in Int /\ With(s, r.given).min \in Int
      /\ With(s, r.given).max \in Int /\ With(s, r.given).active \in BOOLEAN
      BY <1>3 DEF With, Service
<1> QED  BY <1>2, <1>4 DEF With, Service

LEMMA CatalogueStep ==
    ASSUME CatalogueSound, EditsSound, asks \subseteq CatalogueRequest,
           catalogue \in [Code -> Service], [CatalogueNext]_svars
    PROVE  /\ CatalogueSound' /\ EditsSound'
           /\ asks' \subseteq CatalogueRequest /\ catalogue' \in [Code -> Service]
<1>1. ASSUME NEW r \in asks, create_service(r)
      PROVE  /\ CatalogueSound' /\ EditsSound'
             /\ asks' \subseteq CatalogueRequest /\ catalogue' \in [Code -> Service]
  <2> DEFINE blank0 == [price |-> 0, min |-> 1, max |-> 100, active |-> TRUE]
             s == With(blank0, r.given)
  <2>1. blank0 \in Service  BY DEF Service
  <2>2. r.code \in Code /\ s \in Service
    <3> HIDE DEF blank0
    <3> QED  BY <2>1, GivenTyped
  <2>3. /\ catalogue' = IF catalogue[r.code] = NoService /\ Acceptable(s)
                        THEN [catalogue EXCEPT ![r.code] = s] ELSE catalogue
        /\ edits' = edits /\ asks' \subseteq asks
        BY <1>1 DEF create_service, Asked
  <2> HIDE DEF s
  <2>4. catalogue' \in [Code -> Service]  BY <2>2, <2>3
  <2>5. CatalogueSound'  BY <2>2, <2>3, <2>4 DEF CatalogueSound
  <2> QED  BY <2>3, <2>4, <2>5 DEF EditsSound
<1>2. ASSUME NEW r \in asks, BeginUpdate(r)
      PROVE  /\ CatalogueSound' /\ EditsSound'
             /\ asks' \subseteq CatalogueRequest /\ catalogue' \in [Code -> Service]
  <2> DEFINE e == [code |-> r.code, seen |-> catalogue[r.code], given |-> r.given]
  <2>1. r.code \in Code  BY CatalogueAssumption
  <2>2. With(catalogue[r.code], r.given) \in Service  BY <2>1, GivenTyped
  <2>a. /\ catalogue' = catalogue /\ asks' \subseteq asks
        /\ edits' = IF /\ catalogue[r.code] # NoService
                       /\ Acceptable(With(catalogue[r.code], r.given))
                    THEN edits \cup {e} ELSE edits
        BY <1>2 DEF BeginUpdate, Asked
  <2>3. /\ catalogue' = catalogue /\ asks' \subseteq asks
        /\ \/ edits' = edits
           \/ edits' = edits \cup {e} /\ Acceptable(With(catalogue[r.code], r.given))
        BY <2>a
  <2>4. EditsSound'  BY <2>1, <2>2, <2>3 DEF EditsSound
  <2> QED  BY <2>3, <2>4 DEF CatalogueSound
<1>3. ASSUME NEW e \in edits, EndUpdate(e) \/ DropUpdate(e)
      PROVE  /\ CatalogueSound' /\ EditsSound'
             /\ asks' \subseteq CatalogueRequest /\ catalogue' \in [Code -> Service]
  <2> DEFINE s == With(e.seen, e.given)
  <2>1. e.code \in Code /\ s \in Service /\ Acceptable(s)  BY DEF EditsSound
  <2>2. /\ catalogue' = catalogue \/ catalogue' = [catalogue EXCEPT ![e.code] = s]
        /\ edits' \subseteq edits /\ asks' = asks
        BY <1>3 DEF EndUpdate, DropUpdate
  <2> HIDE DEF s
  <2>3. catalogue' \in [Code -> Service]  BY <2>1, <2>2
  <2>4. CatalogueSound'  BY <2>1, <2>2, <2>3 DEF CatalogueSound
  <2> QED  BY <2>2, <2>3, <2>4 DEF EditsSound
<1>4. ASSUME NEW r \in asks, disable_service(r)
      PROVE  /\ CatalogueSound' /\ EditsSound'
             /\ asks' \subseteq CatalogueRequest /\ catalogue' \in [Code -> Service]
  <2> DEFINE old == catalogue[r.code]
             s == [old EXCEPT !.active = FALSE]
  <2>1. r.code \in Code  BY CatalogueAssumption
  <2>2. /\ catalogue' = [catalogue EXCEPT ![r.code] = s]
        /\ edits' = edits /\ asks' \subseteq asks
        BY <1>4 DEF disable_service, Asked
  <2>o. old \in Service /\ (old # NoService => Acceptable(old))
        BY <2>1 DEF CatalogueSound
  <2>p. /\ old \in [price : Int, min : Int, max : Int, active : BOOLEAN]
        BY <2>o DEF Service
  <2> HIDE DEF old
  <2>a. s \in Service  BY <2>p DEF Service
  <2>3. s \in Service /\ (s # NoService => Acceptable(s))
    <3>1. CASE old = NoService
      <4>1. old = [price |-> 0, min |-> 0, max |-> 0, active |-> FALSE]
            BY <3>1 DEF NoService
      <4>3. s = [price |-> s.price, min |-> s.min, max |-> s.max, active |-> s.active]
        <5> HIDE DEF s
        <5> QED  BY <2>a DEF Service
      <4>4. s.price = 0 /\ s.min = 0 /\ s.max = 0 /\ s.active = FALSE
            BY <4>1
      <4>2. s = [price |-> 0, min |-> 0, max |-> 0, active |-> FALSE]
        <5> HIDE DEF s
        <5> QED  BY <4>3, <4>4
      <4> QED  BY <2>a, <4>2 DEF NoService
    <3>2. CASE old # NoService
      <4>1. s.price = old.price /\ s.min = old.min /\ s.max = old.max
            BY <2>p
      <4> QED  BY <2>a, <2>o, <3>2, <4>1 DEF Acceptable
    <3> QED  BY <3>1, <3>2
  <2> HIDE DEF s
  <2>4. catalogue' \in [Code -> Service]  BY <2>1, <2>2, <2>3
  <2>5. CatalogueSound'  BY <2>1, <2>2, <2>3, <2>4 DEF CatalogueSound
  <2> QED  BY <2>2, <2>4, <2>5 DEF EditsSound
<1>5. CASE UNCHANGED svars
  BY <1>5 DEF svars, CatalogueSound, EditsSound
<1> QED  BY <1>1, <1>2, <1>3, <1>4, <1>5 DEF CatalogueNext

\* Every service of the catalogue has a positive price and a range of quantities that is
\* not empty, whatever updates write back what they have read over those of others.
THEOREM CatalogueStaysSound == CatalogueSpec => []CatalogueSound
<1> DEFINE Inv == /\ CatalogueSound /\ EditsSound
                  /\ asks \subseteq CatalogueRequest /\ catalogue \in [Code -> Service]
<1>1. CatalogueInit => Inv
      BY CatalogueAssumption DEF CatalogueInit, CatalogueSound, EditsSound
<1>2. Inv /\ [CatalogueNext]_svars => Inv'  BY CatalogueStep
<1>3. Inv => CatalogueSound  OBVIOUS
<1> QED  BY <1>1, <1>2, <1>3, PTL DEF CatalogueSpec

-----------------------------------------------------------------------------
(* The services side by side.                                               *)

\* The most requests of an origin under way at once are not more than there are.
PeakInv == peak \in [Ip -> 0..Cardinality(Send)]

LEMMA PeakInitially == CodesInit => PeakInv
<1>1. 0 \in 0..Cardinality(Send)  BY CodesAssumption, FS_CardinalityType
<1> QED  BY <1>1 DEF CodesInit, PeakInv

LEMMA PeakStep == PeakInv /\ [CodesNext]_cvars => PeakInv'
<1> SUFFICES ASSUME PeakInv, [CodesNext]_cvars PROVE PeakInv'  OBVIOUS
<1>1. ASSUME NEW s \in Send, CheckIp(s) PROVE PeakInv'
  <2> DEFINE i == IpOf[s]
             U == Uncounted(i)
             n == Cardinality(U) + 1
  <2>1. peak' = peak \/ peak' = [peak EXCEPT ![i] = n]  BY <1>1 DEF CheckIp
  <2>2. s \notin U /\ U \cup {s} \subseteq Send  BY <1>1 DEF CheckIp, Uncounted
  <2>3. IsFiniteSet(U) /\ IsFiniteSet(Send)  BY UncountedFinite, CodesAssumption
  <2>4. Cardinality(U \cup {s}) = n  BY <2>2, <2>3, FS_AddElement
  <2>5. /\ Cardinality(U \cup {s}) <= Cardinality(Send)
        /\ Cardinality(U \cup {s}) \in Nat /\ Cardinality(Send) \in Nat
    <3>1. Cardinality(U \cup {s}) <= Cardinality(Send)  BY <2>2, <2>3, FS_Subset
    <3>2. IsFiniteSet(U \cup {s})  BY <2>2, <2>3, FS_Subset
    <3> QED  BY <2>3, <3>1, <3>2, FS_CardinalityType
  <2> HIDE DEF n, i, U
  <2>6. n \in 0..Cardinality(Send)  BY <2>4, <2>5
  <2> QED  BY <2>1, <2>6 DEF PeakInv
<1>2. ASSUME \/ \E s \in Send : \/ CheckCooldown(s) \/ Mail(s) \/ MailFails(s)
                                \/ StoreCode(s) \/ record_ip_send(s)
             \/ \E e \in Email, c \in Send : Verify(e, c)
             \/ PassTime
             \/ UNCHANGED cvars
      PROVE  PeakInv'
  <2>1. peak' = peak
        BY <1>2 DEF CheckCooldown, Mail, MailFails, StoreCode, record_ip_send, Verify, PassTime, cvars
  <2> QED  BY <2>1 DEF PeakInv
<1> QED  BY <1>1, <1>2 DEF CodesNext

(* Codes, counts and requests for codes keep their types.                   *)
THEOREM CodesTypes == CodesSpec => []CodesTypeOK
<1>1. CodesInv /\ LimitInv /\ PeakInv => CodesTypeOK
      BY DEF CodesInv, LimitInv, PeakInv, CodesTypeOK, CodeRow
<1> QED
  BY <1>1, LimitInvariant, PeakInitially, PeakStep, PTL DEF CodesSpec

(* Side by side, every service behaves as it does alone: what is proved of  *)
(* one holds of all of them together.                                       *)
THEOREM ServicesApart ==
    ServicesSpec => KeysSpec /\ CodesSpec /\ ChatSpec /\ VotesSpec /\ CatalogueSpec
<1>1. ServicesInit => KeysInit /\ CodesInit /\ ChatInit /\ VotesInit /\ CatalogueInit
      BY DEF ServicesInit
<1>2. [ServicesNext]_services => [KeysNext]_kvars
      BY DEF ServicesNext, services, StepOfKeys, StepOfCodes, StepOfChat, StepOfVotes, StepOfCatalogue
<1>3. [ServicesNext]_services => [CodesNext]_cvars
      BY DEF ServicesNext, services, StepOfKeys, StepOfCodes, StepOfChat, StepOfVotes, StepOfCatalogue
<1>4. [ServicesNext]_services => [ChatNext]_hvars
      BY DEF ServicesNext, services, StepOfKeys, StepOfCodes, StepOfChat, StepOfVotes, StepOfCatalogue
<1>5. [ServicesNext]_services => [VotesNext]_vvars
      BY DEF ServicesNext, services, StepOfKeys, StepOfCodes, StepOfChat, StepOfVotes, StepOfCatalogue
<1>6. [ServicesNext]_services => [CatalogueNext]_svars
      BY DEF ServicesNext, services, StepOfKeys, StepOfCodes, StepOfChat, StepOfVotes, StepOfCatalogue
<1> QED
  BY <1>1, <1>2, <1>3, <1>4, <1>5, <1>6, PTL
  DEF ServicesSpec, KeysSpec, CodesSpec, ChatSpec, VotesSpec, CatalogueSpec

(* All tables, caches, queues and requests of the services keep their types.*)
THEOREM ServicesTypes == ServicesSpec => []ServicesTypeOK
<1>1. VotesInv => VotesTypeOK  BY DEF VotesInv
<1>2. KeysTypeOK /\ CodesTypeOK /\ ChatTypeOK /\ VotesTypeOK => ServicesTypeOK
      BY DEF ServicesTypeOK
<1> QED  BY <1>1, <1>2, ServicesApart, KeysTypes, CodesTypes, ChatTypes, VotesTypes, PTL
=============================================================================
