------------------------------ MODULE Services -------------------------------
(***************************************************************************)
(* The services of the network that keep their state outside the block     *)
(* layer, side by side: API keys, registration by e-mail, chat, votes and  *)
(* the catalogue.  Their handlers and loops run at the same time and write *)
(* tables and caches of their own, so a step is one of one of them.        *)
(***************************************************************************)
EXTENDS ApiKeys, RegisterVerify, Chat, Votes, Catalogue

services == <<kvars, cvars, hvars, vvars, svars>>

StepOfKeys == KeysNext /\ UNCHANGED <<cvars, hvars, vvars, svars>>
StepOfCodes == CodesNext /\ UNCHANGED <<kvars, hvars, vvars, svars>>
StepOfChat == ChatNext /\ UNCHANGED <<kvars, cvars, vvars, svars>>
StepOfVotes == VotesNext /\ UNCHANGED <<kvars, cvars, hvars, svars>>
StepOfCatalogue == CatalogueNext /\ UNCHANGED <<kvars, cvars, hvars, vvars>>

ServicesInit == KeysInit /\ CodesInit /\ ChatInit /\ VotesInit /\ CatalogueInit

ServicesNext == StepOfKeys \/ StepOfCodes \/ StepOfChat \/ StepOfVotes \/ StepOfCatalogue

ServicesSpec == ServicesInit /\ [][ServicesNext]_services

(* The tables, caches, queues and requests of all services keep their       *)
(* types; that of the catalogue is in CatalogueSound.                       *)
ServicesTypeOK == KeysTypeOK /\ CodesTypeOK /\ ChatTypeOK /\ VotesTypeOK
=============================================================================
