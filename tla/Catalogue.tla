------------------------------ MODULE Catalogue ------------------------------
(***************************************************************************)
(* The service catalogue (svod.rs) on one node.  An update reads the row,  *)
(* checks the row as it would become, and writes all of it in a later      *)
(* statement: several administrators do so at once.  Callers are           *)
(* authorised; names, descriptions and categories are left out.            *)
(***************************************************************************)
EXTENDS Integers

CONSTANTS
    Code,               \* the codes of services
    Listed,             \* Listed[c]: the row of c that a migration inserts, or NoService
    CatalogueRequest    \* what is asked: an operation, a code and the fields given

Field == {"price", "min", "max", "active"}
Service == [price : Int, min : Int, max : Int, active : BOOLEAN]
NoService == [price |-> 0, min |-> 0, max |-> 0, active |-> FALSE]

\* base_price and the range of quantities as both handlers demand them.
Acceptable(s) == s.price > 0 /\ s.min > 0 /\ s.max > 0 /\ s.min <= s.max

\* A row with the fields that a request gives.
With(s, given) ==
    [price |-> IF "price" \in DOMAIN given THEN given.price ELSE s.price,
     min |-> IF "min" \in DOMAIN given THEN given.min ELSE s.min,
     max |-> IF "max" \in DOMAIN given THEN given.max ELSE s.max,
     active |-> IF "active" \in DOMAIN given THEN given.active ELSE s.active]

ASSUME CatalogueAssumption ==
    /\ Listed \in [Code -> Service]
    /\ \A c \in Code : Listed[c] = NoService \/ Acceptable(Listed[c])
    /\ \A r \in CatalogueRequest :
        /\ r.op \in {"create", "update", "disable"} /\ r.code \in Code
        /\ \A f \in DOMAIN r.given :
              f \in Field /\ r.given[f] \in (IF f = "active" THEN BOOLEAN ELSE Int)

VARIABLES
    catalogue,  \* catalogue[c]: the row of c in service_catalog
    edits,      \* the updates between their reading and their writing
    asks        \* the requests that have not been made

svars == <<catalogue, edits, asks>>

Asked(r, op) == r \in asks /\ r.op = op /\ asks' = asks \ {r}

\* The insertion fails when the code is there.
create_service(r) ==
    LET s == With([price |-> 0, min |-> 1, max |-> 100, active |-> TRUE], r.given)
    IN  /\ Asked(r, "create")
        /\ catalogue' = IF catalogue[r.code] = NoService /\ Acceptable(s)
                        THEN [catalogue EXCEPT ![r.code] = s] ELSE catalogue
        /\ UNCHANGED edits

\* update_service up to its statement: what is not given is taken from the row.
BeginUpdate(r) ==
    LET seen == catalogue[r.code]
    IN  /\ Asked(r, "update")
        /\ edits' = IF seen # NoService /\ Acceptable(With(seen, r.given))
                    THEN edits \cup {[code |-> r.code, seen |-> seen, given |-> r.given]}
                    ELSE edits
        /\ UNCHANGED catalogue

\* Faulty variant: the statement sets only what is given.
update_given(e) ==
    /\ catalogue' = [catalogue EXCEPT ![e.code] = With(@, e.given)]
    /\ edits' = edits \ {e}
    /\ UNCHANGED asks

\* Its statement sets every field.
EndUpdate(e) ==
    /\ catalogue' = [catalogue EXCEPT ![e.code] = With(e.seen, e.given)]
    /\ edits' = edits \ {e}
    /\ UNCHANGED asks

\* The statement fails, or the client has gone.
DropUpdate(e) ==
    /\ edits' = edits \ {e}
    /\ UNCHANGED <<catalogue, asks>>

\* toggle_service, as disable_service_handler calls it.
disable_service(r) ==
    /\ Asked(r, "disable")
    /\ catalogue' = [catalogue EXCEPT ![r.code].active = FALSE]
    /\ UNCHANGED edits

CatalogueInit ==
    /\ catalogue = Listed
    /\ edits = {}
    /\ asks = CatalogueRequest

CatalogueNext ==
    \/ \E r \in asks : create_service(r) \/ BeginUpdate(r) \/ disable_service(r)
    \/ \E e \in edits : EndUpdate(e) \/ DropUpdate(e)

CatalogueSpec == CatalogueInit /\ [][CatalogueNext]_svars

-----------------------------------------------------------------------------

\* Every service of the catalogue has a positive price and a range of quantities that
\* is not empty, as create_offer takes for granted when it casts them: although updates
\* check what they have read and write it back over those of others.
CatalogueSound ==
    \A c \in Code : catalogue[c] \in Service
                    /\ (catalogue[c] # NoService => Acceptable(catalogue[c]))
=============================================================================
