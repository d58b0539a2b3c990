------------------------------ MODULE MCServices ------------------------------
(***************************************************************************)
(* Small instances of Services.  They share no state, so a behaviour       *)
(* exercises one of them, its part; the others stay as they begin.         *)
(***************************************************************************)
EXTENDS Services, TLC

VARIABLE part

Request(op, n, k, c, role) == [op |-> op, node |-> n, key |-> k, owner |-> c, role |-> role]

\* Ann is added, and becomes a judge.
MCLedger == <<[owner |-> "ann", role |-> "Citizen"], [owner |-> "ann", role |-> "Judge"]>>
MCKeyRequest ==
    [op : {"create", "revoke", "login", "use", "sync"}, node : Node, key : Key, owner : Owner,
     role : Role]

Quiet == [asked |-> {}, restarts |-> {}, env |-> {}]

\* A key is made and revoked; a key of the environment of a node, that starts again, is
\* revoked; the logins of a citizen on two nodes.
MCKeyScenes ==
    {[asked |-> {Request("create", 1, "k1", "ann", "Aiya"),
                 Request("revoke", 1, "k1", "ann", "Citizen")},
      restarts |-> {}, env |-> {}],
     [asked |-> {Request("revoke", 2, "k2", "bob", "Citizen"),
                 Request("sync", 2, "k2", "bob", "Citizen")},
      restarts |-> {1},
      env |-> {[node |-> 1, key |-> "k2", owner |-> "bob", role |-> "Guardian"]}],
     [asked |-> {Request("login", 1, "k1", "ann", "Citizen"),
                 Request("login", 2, "k2", "ann", "Citizen"),
                 Request("use", 1, "k1", "ann", "Citizen")},
      restarts |-> {}, env |-> {}],
     Quiet}

MCAddressOf == [s \in Send |-> "mail"]
MCIpOf == [s \in Send |-> "ip"]

Message(op, n, id, at, tui, d) ==
    [op |-> op, node |-> n, id |-> id, at |-> at, tui |-> tui, dedup |-> d]

\* Node 2 is in the registries under an old id as well.
MCLeads == "id1" :> 1 @@ "id2" :> 2 @@ "old2" :> 2
MCSelf == <<"id1", "id2">>
MCHubOf == "client2" :> 2 @@ "plugin1" :> 1 @@ "plugin2" :> 2

Silent ==
    [asked |-> {}, known |-> <<{}, {}>>, comes |-> <<{}, {}>>, conns |-> {}, readers |-> {},
     restarts |-> {}]

\* A question and an answer that cross; a plugin that repeats itself; a reader.
MCChatScene ==
    {[Silent EXCEPT !.asked = {Message("send", 1, 1, 1, FALSE, "no"),
                               Message("reply", 2, 2, 1, FALSE, "no")},
                    !.known = <<{"citizen", "bot"}, {}>>, !.comes = <<{}, {"citizen"}>>,
                    !.conns = {"client2", "plugin1"}],
     [Silent EXCEPT !.asked = {Message("inbound", 2, 1, 1, FALSE, "d1"),
                               Message("outbound", 2, 2, 1, FALSE, "d1"),
                               Message("outbound", 2, 3, 1, FALSE, "d2")},
                    !.conns = {"plugin2"}, !.restarts = {2}],
     [Silent EXCEPT !.asked = {Message("send", 1, 1, 1, FALSE, "no"),
                               Message("send", 2, 2, 1, TRUE, "no"),
                               Message("admin", 2, 3, 1, FALSE, "no")},
                    !.known = <<{"citizen"}, Author>>, !.readers = {2}],
     Silent}

\* The service of the migration, narrowed from both sides, disabled and enabled; one
\* that two administrators add; and what is refused.
MCListed == "web" :> [price |-> 100, min |-> 1, max |-> 50, active |-> TRUE] @@ "new" :> NoService
Edit(op, c, given) == [op |-> op, code |-> c, given |-> given]
MCCatalogueRequest ==
    {Edit("update", "web", [min |-> 40]), Edit("update", "web", [max |-> 5]),
     Edit("update", "web", [price |-> 0]), Edit("update", "web", [active |-> TRUE]),
     Edit("disable", "web", <<>>), Edit("create", "new", [price |-> 7, min |-> 2]),
     Edit("create", "new", [price |-> 9, max |-> 0]), Edit("update", "new", [max |-> 1])}

Init ==
    /\ part \in {"keys", "codes", "chat", "votes", "catalogue"}
    /\ ServicesInit
    /\ (kscene = Quiet) = (part # "keys")
    /\ (cscene = Silent) = (part # "chat")

Next ==
    /\ UNCHANGED part
    /\ \/ part = "keys" /\ StepOfKeys
       \/ part = "codes" /\ StepOfCodes
       \/ part = "chat" /\ StepOfChat
       \/ part = "votes" /\ StepOfVotes
       \/ part = "catalogue" /\ StepOfCatalogue

Spec == Init /\ [][Next]_<<part, services>>

\* The fairness of the keys, where the keys are the part.
FairSpec ==
    /\ Spec
    /\ \A n \in Node :
        /\ WF_kvars(part = "keys" /\ BeginPull(n))
        /\ WF_kvars(part = "keys" /\ \E r \in pull[n].records : StoreRecord(n, r))
    /\ \A n, m \in Node : SF_kvars(part = "keys" /\ Fetch(n, m))
===============================================================================
