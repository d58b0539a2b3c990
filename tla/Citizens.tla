------------------------------ MODULE Citizens ------------------------------
(***************************************************************************)
(* Citizens and passports: the handlers of citizen.rs, that check and      *)
(* submit events, POST /event, through which clients submit events of      *)
(* their own (handlers.rs add_event), and the tables that projection.rs    *)
(* derives from the blocks.                                                *)
(*                                                                         *)
(* Three kinds of transactions write these tables, and overlap: the task   *)
(* that an accepted event spawns, which projects and adds a block event by *)
(* event; a block that the background loop adds; and replay_projections,   *)
(* with which the loop rebuilds the tables when it has given up a fork.    *)
(* They run READ COMMITTED, so a statement sees what was committed before  *)
(* it and waits for a row that another transaction has written.            *)
(*                                                                         *)
(* Every node has a chain here, and a block is the sequence of its events. *)
(* How blocks are agreed on is the matter of QuazarNode: any producer may  *)
(* add a block to what it has, and the designated producer of a forked     *)
(* block may give up its own.  Keys and the citizens that the migrations   *)
(* insert are left out.                                                    *)
(***************************************************************************)
EXTENDS Integers, Sequences, FiniteSets, SequencesExt

CONSTANTS
    Node,
    Citizen,        \* the ids drawn for new citizens, numbered
    Name,           \* the names they ask for
    Passport,       \* the ids drawn for new passports, numbered from 1
    Request,        \* what clients may ask of a node
    Scenarios,      \* of a behaviour: requests, producers, writers of the chat
                    \* and its last second
    Designated,     \* Designated[k]: the node whose turn block k is
    MaxTime,        \* bound: the last second of any behaviour
    MaxBlocks       \* bound: the length of a chain

Op == {"register", "status", "appoint", "role", "issue", "revoke", "password"}
Status == {"pending", "active", "suspended", "revoked"}
Role == {"Citizen", "Judge"}

Kind == {"CitizenAdded", "CitizenUpdated", "CitizenStatus", "PassportIssued",
         "PassportRevoked"}

\* An event_id is ordered as its parts are.
EventId == Nat \X Nat \X Nat

\* What validate_event_data lets through: a CitizenAdded may lack the citizen_id,
\* and the expires_at of a PassportIssued may be anything, so "malformed".  Other
\* data that a projection refuses, as an unknown role, would have the same effect.
\* CitizenStatus stands for CitizenRestored (active), CitizenSuspended, and
\* CitizenUpdated with a status.
Event == {e \in [id : EventId, kind : Kind, citizen : Citizen \cup {0},
                 value : Name \cup Status \cup Role \cup {"none", "malformed"},
                 passport : Passport \cup {0}, time : 0..MaxTime] :
             /\ e.kind = "CitizenAdded" => e.value \in Name
             /\ e.kind # "CitizenAdded" => e.citizen \in Citizen
             /\ e.kind = "CitizenStatus" => e.value \in Status
             /\ e.kind = "CitizenUpdated" => e.value \in Role
             /\ e.kind \in {"PassportIssued", "PassportRevoked"} => e.passport \in Passport}

Asking == [op : Op, node : Node, citizen : Citizen,
           value : Name \cup Status \cup {"none"}, passport : Passport \cup {0}]
Posting == [op : {"post"}, node : Node, event : Event]

ASSUME CitizensAssumption ==
    /\ IsFiniteSet(Node)
    /\ Citizen \subseteq Nat \ {0}
    /\ Passport \subseteq Nat \ {0}
    /\ MaxTime \in Nat
    /\ MaxBlocks \in Nat
    /\ Designated \in [1..MaxBlocks -> Node]
    /\ Request \subseteq Asking \cup Posting
    /\ Scenarios \subseteq [asked : SUBSET Request, producers : SUBSET Node,
                            writers : SUBSET Citizen, last : 0..MaxTime]
    /\ \A r \in Request : /\ r.op = "status" => r.value \in Status
                          /\ r.op = "register" => r.value \in Name
                          /\ r.op = "issue" => r.passport \in Passport
    \* A governance role needs a candidacy, see Motions.
    /\ \A r \in Request : r.op = "post" /\ r.event.kind = "CitizenUpdated" =>
          r.event.value = "Citizen"
    \* The ids of citizens and passports are drawn at random.
    /\ \A s \in Scenarios : \A r, q \in s.asked :
          /\ r.op = "register" /\ q.op = "register" /\ r.citizen = q.citizen => r = q
          /\ r.op = "issue" /\ q.op = "issue" /\ r.passport = q.passport => r = q

VARIABLES
    scene,      \* the scenario of the behaviour
    chain,      \* chain[n]: the blocks of n
    tables,     \* tables[n]: the citizens and passports tables of n
    password,   \* password[n]: who has a row in citizen_credentials of n
    writer,     \* writer[n]: who is referred to by chat_messages, initiatives ... of n
    pending,    \* pending[n]: the pending_events table of n
    wire,       \* the gossiped events that have not arrived: <<node, event>>
    due,        \* due[n]: the spawned tasks of n that have not begun
    task,       \* task[n]: the transaction of a task of n, if one is open
    heal,       \* heal[n]: how far the loop of n is with giving up a fork
    rebuilt,    \* history: FALSE from a truncation of n until a replay succeeds
    at,         \* at[r]: where the handler of r is, and the event it will submit
    now         \* the clock, in seconds

desk == <<at, wire, password, writer, now>>
vars == <<scene, chain, tables, pending, due, task, heal, rebuilt, desk>>

-----------------------------------------------------------------------------
(* Events, as the handlers build them.                                      *)

\* citizen_add_<id>, citizen_role_<id>_<second>, citizen_status_<id>_<second>,
\* passport_issue_<id>, passport_revoke_<id>: their alphabetical order too.
IdOf(kind, c, p) ==
    CASE kind = "CitizenAdded" -> <<1, c, 0>>
      [] kind = "CitizenUpdated" -> <<2, c, now>>
      [] kind = "CitizenStatus" -> <<3, c, now>>
      [] kind = "PassportIssued" -> <<4, p, 0>>
      [] OTHER -> <<5, p, 0>>

EventOf(kind, c, value, p) ==
    [id |-> IdOf(kind, c, p), kind |-> kind, citizen |-> c, value |-> value,
     passport |-> p, time |-> now]

NoEvent == [id |-> <<0, 0, 0>>, kind |-> "none", citizen |-> 0, value |-> "none",
            passport |-> 0, time |-> 0]

\* collect_network_pending sorts by timestamp, then by event_id.
Before(e, f) ==
    LET differ == {i \in 1..3 : e.id[i] # f.id[i]}
    IN  \/ e.time < f.time
        \/ e.time = f.time /\ \E i \in differ : /\ \A j \in differ : i <= j
                                                /\ e.id[i] < f.id[i]

EventsIn(c) == UNION {ToSet(c[k]) : k \in DOMAIN c}
Ids(events) == {e.id : e \in events}

-----------------------------------------------------------------------------
(* Projections.  A table is a function on the ids; ok says that no          *)
(* statement of the transaction has failed.                                 *)

NoCitizen == [name |-> "none", status |-> "none", role |-> "none", passport_issued |-> FALSE]
NoPassport == [citizen |-> 0, is_valid |-> FALSE, issued_at |-> 0]

Empty == [citizens |-> [c \in Citizen |-> NoCitizen],
          passports |-> [p \in Passport |-> NoPassport], ok |-> TRUE]

Known(t, c) == t.citizens[c] # NoCitizen
Issued(t, p) == t.passports[p] # NoPassport
Failed(t) == [t EXCEPT !.ok = FALSE]

NameTaken(t, name) == \E c \in Citizen : t.citizens[c].name = name

\* A governance role is refused by the validation.
Upserted(t, e) ==
    [t EXCEPT !.citizens[e.citizen] =
        IF @ = NoCitizen
        THEN [name |-> e.value, status |-> "pending", role |-> "Citizen",
              passport_issued |-> FALSE]
        ELSE [@ EXCEPT !.name = e.value, !.role = "Citizen"]]

\* Faulty variant: the name is not looked up, and UNIQUE(name) fails the block.
added_unchecked(t, e) ==
    IF e.citizen = 0 \/ NameTaken(t, e.value) THEN Failed(t) ELSE Upserted(t, e)

\* A second citizen of the same name is skipped, with a warning.
apply_citizen_added(t, e) ==
    IF e.citizen = 0 THEN Failed(t)
    ELSE IF NameTaken(t, e.value) THEN t
    ELSE Upserted(t, e)

\* A new row of a passport refers to the citizen's: without it the insertion, and
\* with it the transaction of the block, fails.
apply_passport_issued(t, e) ==
    LET p == e.passport
        c == e.citizen
    IN  IF e.value = "malformed" \/ (~Issued(t, p) /\ ~Known(t, c)) THEN Failed(t)
        ELSE [t EXCEPT
                !.passports[p] =
                    IF @ = NoPassport THEN [citizen |-> c, is_valid |-> TRUE, issued_at |-> e.time]
                    ELSE [@ EXCEPT !.is_valid = TRUE],
                !.citizens[c] =
                    IF @ = NoCitizen THEN @
                    ELSE [@ EXCEPT !.passport_issued = TRUE, !.status = "active"]]

\* Faulty variant: the citizen keeps the mark.
revoked_in_passports(t, e) == [t EXCEPT !.passports[e.passport].is_valid = FALSE]

Unmarked(t, c) == [t EXCEPT !.citizens[c].passport_issued = FALSE]

apply_passport_revoked(t, e) ==
    Unmarked([t EXCEPT !.passports[e.passport].is_valid = FALSE], e.citizen)

apply_citizen_updated(t, e) ==
    IF ~Known(t, e.citizen) THEN t
    ELSE IF e.kind = "CitizenStatus" THEN [t EXCEPT !.citizens[e.citizen].status = e.value]
    ELSE [t EXCEPT !.citizens[e.citizen].role = e.value]

\* Once a statement has failed, the transaction is aborted.
Apply(t, e) ==
    IF ~t.ok THEN t
    ELSE CASE e.kind = "CitizenAdded"    -> apply_citizen_added(t, e)
           [] e.kind = "PassportIssued"  -> apply_passport_issued(t, e)
           [] e.kind = "PassportRevoked" -> apply_passport_revoked(t, e)
           [] OTHER                      -> apply_citizen_updated(t, e)

apply_event_projections(t, block) == FoldLeft(Apply, t, block)

\* What the blocks of a chain say, from empty tables.
Fold(c) == FoldLeft(apply_event_projections, Empty, c)

-----------------------------------------------------------------------------
(* Rows and locks.  A statement waits for the rows that another transaction *)
(* has written, and an insertion for one of the same name.                  *)

Rows(e) ==
    CASE e.kind = "CitizenAdded" -> {<<"citizen", e.citizen>>, <<"name", e.value>>}
      [] e.kind \in {"PassportIssued", "PassportRevoked"} ->
            {<<"passport", e.passport>>, <<"citizen", e.citizen>>}
      [] OTHER -> {<<"citizen", e.citizen>>}

\* A citizen that is skipped writes nothing.
Locks(t, e) ==
    IF e.kind = "CitizenAdded" /\ NameTaken(t, e.value) THEN {} ELSE Rows(e)

RowsIn(t) == {<<"citizen", c>> : c \in {d \in Citizen : Known(t, d)}}
                \cup {<<"passport", p>> : p \in {q \in Passport : Issued(t, q)}}

\* The tables with some rows as a transaction has written them.
Overlay(t, own, locks) ==
    [t EXCEPT
        !.citizens = [c \in Citizen |-> IF <<"citizen", c>> \in locks THEN own.citizens[c] ELSE @[c]],
        !.passports = [p \in Passport |-> IF <<"passport", p>> \in locks THEN own.passports[p] ELSE @[p]]]

NoTask == [open |-> FALSE, block |-> <<>>, rest |-> <<>>, own |-> Empty, locks |-> {}, held |-> {}]
NoHeal == [step |-> "none", copy |-> <<>>, gone |-> Empty, read |-> <<>>]

\* What the statements of the task of n see.
Seen(n) == Overlay(tables[n], task[n].own, task[n].locks)

\* The loop of n is in the transaction of the replay, after its deletions.
Replaying(n) == heal[n].step \in {"cleared", "read"}

\* The rows that this transaction has deleted.
Deleted(n) == IF Replaying(n) THEN RowsIn(heal[n].gone) ELSE {}

-----------------------------------------------------------------------------
(* Handlers.  Each reads, builds one event and validates it; later it       *)
(* inserts the event, sends it to the peers and starts a task that produces *)
(* blocks.  A handler that refuses is done.                                 *)

Row(n, c) == tables[n].citizens[c]
Pending(n, kind, c) == \E e \in pending[n] : e.kind = kind /\ e.citizen = c
Names(n) ==
    {Row(n, c).name : c \in {d \in Citizen : Known(tables[n], d)}}
        \cup {e.value : e \in {f \in EventsIn(chain[n]) \cup pending[n] : f.kind = "CitizenAdded"}}

event_id_exists(n, e) == e.id \in Ids(EventsIn(chain[n]) \cup pending[n])

validate_event(n, e) ==
    /\ ~event_id_exists(n, e)
    /\ e.kind = "CitizenAdded" => e.value \notin Names(n)

\* Of several valid passports the one issued last.
ValidPassports(n, c) ==
    LET valid == {p \in Passport : /\ tables[n].passports[p].is_valid
                                   /\ tables[n].passports[p].citizen = c}
    IN  {p \in valid : \A q \in valid : tables[n].passports[q].issued_at
                                            <= tables[n].passports[p].issued_at}

\* The events that the handler of r may build, none if it refuses.  Registering
\* a governance role is refused, and update_role leaves only "Citizen".
Built(r) ==
    LET n == r.node
        c == r.citizen
        row == Row(n, c)
    IN  CASE r.op = "register" ->
                {EventOf("CitizenAdded", c, r.value, 0)}
          [] r.op = "status" ->
                IF row.status \in {"none", r.value} THEN {}
                ELSE {EventOf("CitizenStatus", c, r.value, 0)}
          [] r.op = "appoint" ->     \* candidacy.rs, see Motions
                IF row.status = "none" THEN {} ELSE {EventOf("CitizenUpdated", c, "Judge", 0)}
          [] r.op = "role" ->
                IF row.role \in {"none", "Citizen"} THEN {}
                ELSE {EventOf("CitizenUpdated", c, "Citizen", 0)}
          [] r.op = "issue" ->
                IF row.status = "none" \/ row.passport_issued \/ Pending(n, "PassportIssued", c)
                THEN {}
                ELSE {EventOf("PassportIssued", c, "none", r.passport)}
          [] OTHER ->
                IF ~row.passport_issued \/ Pending(n, "PassportRevoked", c) THEN {}
                ELSE {EventOf("PassportRevoked", c, "none", p) : p \in ValidPassports(n, c)}

\* add_event takes the event that a client posts as it is.
Drafts(r) == IF r.op = "post" THEN {r.event} ELSE Built(r)

\* The reads of the handler and of submit_pending_event.
Check(r) ==
    /\ r \in scene.asked
    /\ r.op # "password"
    /\ at[r].step = "idle"
    /\ \/ \E e \in Drafts(r) :
             /\ validate_event(r.node, e)
             /\ at' = [at EXCEPT ![r] = [step |-> "insert", event |-> e]]
       \/ /\ Drafts(r) = {} \/ \E e \in Drafts(r) : ~validate_event(r.node, e)
          /\ at' = [at EXCEPT ![r].step = "done"]
    /\ UNCHANGED <<scene, chain, tables, pending, due, task, heal, rebuilt, wire, password,
                   writer, now>>

\* ON CONFLICT (event_id) DO NOTHING: the event may have arrived meanwhile.  The
\* task that is spawned does nothing where it is not the node's turn.
Insert(r) ==
    LET n == r.node
        e == at[r].event
    IN  /\ at[r].step = "insert"
        /\ at' = [at EXCEPT ![r] = [step |-> "done", event |-> NoEvent]]
        /\ IF e.id \in Ids(pending[n])
           THEN UNCHANGED <<pending, wire, due>>
           ELSE /\ pending' = [pending EXCEPT ![n] = @ \cup {e}]
                /\ wire' = wire \cup {<<m, e>> : m \in Node \ {n}}
                /\ due' = IF n \in scene.producers THEN [due EXCEPT ![n] = @ + 1] ELSE due
        /\ UNCHANGED <<scene, chain, tables, task, heal, rebuilt, password, writer, now>>

\* receive_gossip_event validates what arrives.
Receive(n, e) ==
    /\ <<n, e>> \in wire
    /\ wire' = wire \ {<<n, e>>}
    /\ pending' = IF validate_event(n, e) THEN [pending EXCEPT ![n] = @ \cup {e}] ELSE pending
    /\ UNCHANGED <<scene, chain, tables, due, task, heal, rebuilt, at, password, writer, now>>

\* set_password_handler: an upsert that refers to the citizen's row, and waits
\* while the replay has deleted it.
SetPassword(r) ==
    /\ r \in scene.asked
    /\ r.op = "password"
    /\ at[r].step = "idle"
    /\ ~Replaying(r.node)
    /\ at' = [at EXCEPT ![r].step = "done"]
    /\ password' = IF Known(tables[r.node], r.citizen)
                   THEN [password EXCEPT ![r.node] = @ \cup {r.citizen}]
                   ELSE password
    /\ UNCHANGED <<scene, chain, tables, pending, due, task, heal, rebuilt, wire, writer, now>>

\* An active citizen writes in the chat of n, or what one wrote elsewhere arrives:
\* a row that refers to the citizen's, and waits as the password does.
WriteChat(n, c) ==
    /\ c \in scene.writers \ writer[n]
    /\ Known(tables[n], c)
    /\ Row(n, c).status = "active" \/ \E m \in Node \ {n} : c \in writer[m]
    /\ ~Replaying(n)
    /\ writer' = [writer EXCEPT ![n] = @ \cup {c}]
    /\ UNCHANGED <<scene, chain, tables, pending, due, task, heal, rebuilt, at, wire, password,
                   now>>

-----------------------------------------------------------------------------
(* What a block holds, and the loop that adds blocks.                       *)

\* Of several events of one id a producer keeps its own, or the first it gets.
OnePerId(n, events) ==
    {kept \in SUBSET events :
        /\ Ids(kept) = Ids(events)
        /\ \A e \in kept, f \in kept \cup (events \cap pending[n]) : e.id = f.id => e = f}

InOrder(events) ==
    {block \in SetToSeqs(events) :
        \A i, j \in DOMAIN block : i < j => Before(block[i], block[j])}

\* Faulty variant: confirmed events are not filtered out.
collected_unfiltered(n, peers) ==
    UNION {InOrder(kept) : kept \in OnePerId(n, UNION {pending[m] : m \in peers \cup {n}})}

\* What a producer may collect: the events it has not confirmed, from its pool
\* and those of the peers it reaches.
Collected(n, peers) ==
    LET events == {e \in UNION {pending[m] : m \in peers \cup {n}} :
                      e.id \notin Ids(EventsIn(chain[n]))}
    IN  UNION {InOrder(kept) : kept \in OnePerId(n, events)}

\* The block and the rows of its transaction, committed.
Commit(n, block, t) ==
    /\ chain' = [chain EXCEPT ![n] = Append(@, block)]
    /\ tables' = [tables EXCEPT ![n] = t]
    /\ pending' = [pending EXCEPT ![n] = {e \in @ : e.id \notin Ids(ToSet(block))}]

\* Nothing that the loop is to write has been written by the open task.
Unlocked(n, block) ==
    /\ \A e \in ToSet(block) : Rows(e) \cap task[n].locks = {}
    /\ Ids(ToSet(block)) \cap Ids(ToSet(task[n].block)) = {}

\* Faulty variant: an error of the projections is only logged.
add_block_anyway(n, block) ==
    Commit(n, block, apply_event_projections(tables[n], block))

\* The loop adds a block with its projections, in one transaction.
AddBlock(n, block) ==
    LET t == apply_event_projections(tables[n], block)
    IN  /\ t.ok
        /\ Unlocked(n, block)
        /\ Commit(n, block, t)

\* The loop collects, and produces under the lock that the tasks take too.
Produce(n, peers) ==
    /\ n \in scene.producers
    /\ heal[n].step = "none"
    /\ ~task[n].open
    /\ Len(chain[n]) < MaxBlocks
    /\ \E block \in Collected(n, peers) : block # <<>> /\ AddBlock(n, block)
    /\ UNCHANGED <<scene, due, task, heal, rebuilt, desk>>

Sync(n, m) ==
    /\ heal[n].step = "none"
    /\ Len(chain[n]) < Len(chain[m])
    /\ IsPrefix(chain[n], chain[m])
    /\ AddBlock(n, chain[m][Len(chain[n]) + 1])
    /\ UNCHANGED <<scene, due, task, heal, rebuilt, desk>>

-----------------------------------------------------------------------------
(* The tasks.  One at a time has the lock of create_block_from_events.      *)

\* It has the lock, and a block of what it collected; or it does nothing, as
\* there are too few events.
OpenTask(n, peers) ==
    /\ due[n] > 0
    /\ ~task[n].open
    /\ due' = [due EXCEPT ![n] = @ - 1]
    /\ \/ UNCHANGED task
       \/ \E block \in Collected(n, peers) :
             /\ block # <<>>
             /\ task' = [task EXCEPT ![n] = [NoTask EXCEPT !.open = TRUE, !.block = block,
                                                           !.rest = block]]
    /\ UNCHANGED <<scene, chain, tables, pending, heal, rebuilt, desk>>

\* A statement has waited for rows that the replay had deleted: an UPDATE finds
\* none; an INSERT ... ON CONFLICT looks again, but has looked for the name
\* before; and the reference to a citizen fails.
Missed(t, e, held) ==
    CASE e.kind = "CitizenAdded" ->
            IF \E c \in Citizen \ {e.citizen} : t.citizens[c].name = e.value
            THEN Failed(t) ELSE Upserted(t, e)
      [] e.kind = "PassportIssued" ->
            IF <<"passport", e.passport>> \in held THEN apply_passport_issued(t, e) ELSE Failed(t)
      [] e.kind = "PassportRevoked" ->
            IF <<"passport", e.passport>> \in held THEN Unmarked(t, e.citizen) ELSE t
      [] OTHER -> t

\* The next event of the task's block waits for rows that the replay has deleted,
\* or is projected.
ProjectEvent(n) ==
    LET x == task[n]
        e == Head(x.rest)
        locks == IF x.held = {} THEN Locks(Seen(n), e) ELSE Rows(e)
        blocked == locks \cap Deleted(n)
        t == IF x.held = {} THEN Apply(Seen(n), e) ELSE Missed(Seen(n), e, x.held)
    IN  /\ x.rest # <<>>
        /\ \/ /\ blocked # {}
              /\ x.held = {}
              /\ task' = [task EXCEPT ![n].held = blocked]
           \/ /\ blocked = {}
              /\ task' = IF t.ok
                         THEN [task EXCEPT ![n] = [x EXCEPT !.rest = Tail(@), !.own = t, !.held = {},
                                                            !.locks = @ \cup locks]]
                         ELSE [task EXCEPT ![n] = NoTask]
        /\ UNCHANGED <<scene, chain, tables, pending, due, heal, rebuilt, desk>>

CommitTask(n) ==
    /\ task[n].open
    /\ task[n].rest = <<>>
    /\ Len(chain[n]) < MaxBlocks
    /\ Commit(n, task[n].block, Seen(n))
    /\ task' = [task EXCEPT ![n] = NoTask]
    /\ UNCHANGED <<scene, due, heal, rebuilt, desk>>

\* The database gives up the transaction, of a deadlock for example.
AbortTask(n) ==
    /\ task[n].open
    /\ task' = [task EXCEPT ![n] = NoTask]
    /\ UNCHANGED <<scene, chain, tables, pending, due, heal, rebuilt, desk>>

-----------------------------------------------------------------------------
(* Giving up a fork.                                                        *)

\* The first block of n that differs from m's, if n is to give it up.
Fork(n, m) ==
    {k \in 1..MaxBlocks :
        /\ k <= Len(chain[n]) /\ k <= Len(chain[m])
        /\ chain[n][k] # chain[m][k]
        /\ \A i \in 1..(k - 1) : chain[n][i] = chain[m][i]
        /\ Designated[k] = n}

\* truncate_chain_from commits before it rebuilds anything.
Truncate(n, m) ==
    /\ heal[n].step = "none"
    /\ \E k \in Fork(n, m) : chain' = [chain EXCEPT ![n] = SubSeq(@, 1, k - 1)]
    /\ heal' = [heal EXCEPT ![n] = [NoHeal EXCEPT !.step = "truncated", !.copy = chain[m]]]
    /\ rebuilt' = [rebuilt EXCEPT ![n] = FALSE]
    /\ UNCHANGED <<scene, tables, pending, due, task, desk>>

\* The deletions wait for the rows of an open task.  Rows of the chat, of
\* initiatives and of referendums that refer to citizens make them fail.
ReplayDelete(n) ==
    /\ heal[n].step = "truncated"
    /\ task[n].locks \cap RowsIn(tables[n]) = {}
    /\ task[n].held = {}
    /\ heal' = [heal EXCEPT ![n] = IF writer[n] # {} THEN NoHeal
                                   ELSE [@ EXCEPT !.step = "cleared", !.gone = tables[n]]]
    /\ UNCHANGED <<scene, chain, tables, pending, due, task, rebuilt, desk>>

\* The SELECT of the blocks.
ReplayRead(n) ==
    /\ heal[n].step = "cleared"
    /\ heal' = [heal EXCEPT ![n].step = "read", ![n].read = chain[n]]
    /\ UNCHANGED <<scene, chain, tables, pending, due, task, rebuilt, desk>>

\* Faulty variant: the citizens are not deleted before the replay.
passports_cleared(n) == [Empty EXCEPT !.citizens = tables[n].citizens]

\* The rows that were deleted are gone, those that a task has added since are not.
Cleared(n) == Overlay(tables[n], Empty, RowsIn(heal[n].gone))

\* The blocks are projected again, and the transaction is committed, unless one
\* fails; the passwords go with the citizens.
replay_projections(n) ==
    LET t == FoldLeft(apply_event_projections, Cleared(n), heal[n].read)
    IN  /\ heal[n].step = "read"
        /\ \A e \in EventsIn(heal[n].read) : Rows(e) \cap task[n].locks = {}
        /\ \/ /\ t.ok
              /\ tables' = [tables EXCEPT ![n] = t]
              /\ password' = [password EXCEPT ![n] = {}]
              /\ heal' = [heal EXCEPT ![n] = [NoHeal EXCEPT !.step = "adopt",
                                                       !.copy = heal[n].copy]]
              /\ rebuilt' = [rebuilt EXCEPT ![n] = TRUE]
              /\ UNCHANGED task
           \/ /\ ~t.ok
              /\ heal' = [heal EXCEPT ![n] = NoHeal]
              /\ task' = [task EXCEPT ![n].held = {}]     \* it need not wait any more
              /\ UNCHANGED <<tables, password, rebuilt>>
        /\ UNCHANGED <<scene, chain, pending, due, at, wire, writer, now>>

\* The next block of the peer's copy, as long as it fits what n has.
Adopt(n) ==
    LET copy == heal[n].copy
    IN  /\ heal[n].step = "adopt"
        /\ \/ /\ IsPrefix(chain[n], copy) /\ Len(chain[n]) < Len(copy)
              /\ AddBlock(n, copy[Len(chain[n]) + 1])
              /\ UNCHANGED heal
           \/ /\ ~IsPrefix(chain[n], copy) \/ Len(chain[n]) = Len(copy)
              /\ heal' = [heal EXCEPT ![n] = NoHeal]
              /\ UNCHANGED <<chain, tables, pending>>
        /\ UNCHANGED <<scene, due, task, rebuilt, desk>>

Tick ==
    /\ now < scene.last
    /\ now' = now + 1
    /\ UNCHANGED <<scene, chain, tables, pending, due, task, heal, rebuilt, at, wire, password,
                   writer>>

-----------------------------------------------------------------------------

Init ==
    /\ scene \in Scenarios
    /\ chain = [n \in Node |-> <<>>]
    /\ tables = [n \in Node |-> Empty]
    /\ password = [n \in Node |-> {}]
    /\ writer = [n \in Node |-> {}]
    /\ pending = [n \in Node |-> {}]
    /\ wire = {}
    /\ due = [n \in Node |-> 0]
    /\ task = [n \in Node |-> NoTask]
    /\ heal = [n \in Node |-> NoHeal]
    /\ rebuilt = [n \in Node |-> TRUE]
    /\ at = [r \in Request |-> [step |-> "idle", event |-> NoEvent]]
    /\ now = 0

Next ==
    \/ \E r \in Request : Check(r) \/ Insert(r) \/ SetPassword(r)
    \/ \E n \in Node : \E e \in {w[2] : w \in wire} : Receive(n, e)
    \/ \E n \in Node, c \in Citizen : WriteChat(n, c)
    \/ \E n \in Node : \E peers \in SUBSET (Node \ {n}) : Produce(n, peers) \/ OpenTask(n, peers)
    \/ \E n \in Node : ProjectEvent(n) \/ CommitTask(n) \/ AbortTask(n)
    \/ \E n, m \in Node : Sync(n, m) \/ Truncate(n, m)
    \/ \E n \in Node : ReplayDelete(n) \/ ReplayRead(n) \/ replay_projections(n) \/ Adopt(n)
    \/ Tick

\* The background loop of a producer keeps collecting, in the end from everyone,
\* every node keeps fetching blocks from every peer, and the transaction of a task
\* goes on to its end.
Fairness ==
    /\ \A n \in Node : WF_vars(Produce(n, Node \ {n}))
    /\ \A n, m \in Node : WF_vars(Sync(n, m))
    /\ \A n \in Node : WF_vars(ProjectEvent(n)) /\ WF_vars(CommitTask(n))

Spec == Init /\ [][Next]_vars /\ Fairness

-----------------------------------------------------------------------------
(* Properties.                                                              *)

Table == [citizens : [Citizen -> [name : Name \cup {"none"}, status : Status \cup {"none"},
                                  role : Role \cup {"none"}, passport_issued : BOOLEAN]],
          passports : [Passport -> [citizen : Citizen \cup {0}, is_valid : BOOLEAN,
                                    issued_at : 0..MaxTime]],
          ok : {TRUE}]

Steps == {"none", "truncated", "cleared", "read", "adopt"}

\* The types; no statement of a committed transaction has failed; and rows that
\* refer to a citizen have one to refer to.
TypeOK ==
    /\ scene \in Scenarios
    /\ chain \in [Node -> Seq(Seq(Event))]
    /\ tables \in [Node -> Table]
    /\ \A n \in Node : \A c \in password[n] \cup writer[n] : Known(tables[n], c)
    /\ pending \in [Node -> SUBSET Event]
    /\ wire \subseteq Node \X Event
    /\ due \in [Node -> Nat]
    /\ \A n \in Node :
        /\ task[n].block \in Seq(Event) /\ task[n].rest \in Seq(Event)
        /\ task[n].own \in Table
        /\ heal[n].step \in Steps
        /\ heal[n].gone \in Table
        /\ heal[n].copy \in Seq(Seq(Event)) /\ heal[n].read \in Seq(Seq(Event))
    /\ rebuilt \in [Node -> BOOLEAN]
    /\ at \in [Request -> [step : {"idle", "insert", "done"}, event : Event \cup {NoEvent}]]
    /\ now \in 0..MaxTime

\* No client submits anything at n: all its blocks are added by its loop.
Observer(n) == \A r \in scene.asked : r.node = n => r.op = "password"

\* The tables of a node whose blocks only its loop adds say what its chain says: a
\* block is applied in the transaction that adds it, and a node that gives up a
\* fork ends with the tables of the chain it has - once its replay has succeeded.
\* A task whose block is committed during a replay is not in the tables.
ProjectionIsFold ==
    \A n \in Node : Observer(n) /\ rebuilt[n] => tables[n] = Fold(chain[n])

\* truncate_chain_from "removes blocks/events ... and rebuilds SQL projections from
\* the surviving chain": when it is over, the tables are those of the chain.
TruncateRebuilds ==
    \A n \in Node : heal[n].step \in {"none", "adopt"} => tables[n] = Fold(chain[n])

Posts == {r.event : r \in {q \in scene.asked : q.op = "post"}}

\* The passports and citizens that events may name together.
Pairs ==
    {<<r.passport, r.citizen>> : r \in {q \in scene.asked : q.op = "issue"}}
        \cup {<<e.passport, e.citizen>> :
                e \in {f \in Posts : f.kind \in {"PassportIssued", "PassportRevoked"}}}

\* Every passport is issued to one citizen, and no client posts another one.
Paired == \A x, y \in Pairs : x[1] = y[1] => x[2] = y[2]

\* A citizen marked as having a passport has a valid one, whatever is issued and
\* revoked on several nodes, by handlers and by posted events, and although tasks
\* overlap replays, unless a posted event names the passport of another citizen:
\* revoke_passport would find none otherwise, and issue_passport refuse a new one.
PassportBacked ==
    Paired => \A n \in Node, c \in Citizen :
        Row(n, c).passport_issued =>
            \E p \in Passport : /\ tables[n].passports[p].is_valid
                                /\ tables[n].passports[p].citizen = c

OneProducer == Cardinality(scene.producers) = 1

\* The passports that clients post as issued.
Reissued == {e.passport : e \in {f \in Posts : f.kind = "PassportIssued"}}

\* As long as blocks do not fork, a revoked passport stays revoked, although the
\* event that issued it may still be pending elsewhere or on the wire, unless a
\* client posts that it is issued, under an id of its own.
RevokedForGood ==
    [][OneProducer =>
         \A n \in Node : \A p \in Passport \ Reissued :
            /\ Issued(tables[n], p)
            /\ ~tables[n].passports[p].is_valid
            => ~tables'[n].passports[p].is_valid]_vars

\* What a projection does not refuse, whatever the tables are.
Sound(e) == e.kind # "PassportIssued" /\ (e.kind = "CitizenAdded" => e.citizen # 0)

\* As long as blocks do not fork, and clients post no passports and no citizen
\* without an id, what the nodes have accepted is confirmed in the end, and on all
\* of them: no event of a handler makes the projection of a block, and with it of
\* all further blocks, fail.  Confirmed by its id: of two changes of a citizen's
\* status in one second, that share their id, one is lost, and may stay in the
\* pool of its node.
AcceptedConfirmed ==
    OneProducer /\ (\A e \in Posts : Sound(e)) =>
        <>[](\A n, m \in Node : /\ Ids(pending[n]) \subseteq Ids(EventsIn(chain[n]))
                                /\ chain[n] = chain[m])
=============================================================================
