------------------------------ MODULE MCDatabase ------------------------------
(* What the database holds and what stands in front of it: the virtual key    *)
(* and its policy, the start of the database, the caches of its tables and    *)
(* the configuration the dashboard edits.  They share no state; a behaviour   *)
(* is one of a single part, the others stay as they begin.                    *)
EXTENDS KeyPolicy, DatabaseStart, HotCaches, Catalog, TLC

MCFirstRow == [active |-> TRUE, allowed |-> TRUE, expires |-> 9]
MCRecords == {MCFirstRow, [MCFirstRow EXCEPT !.active = FALSE], [MCFirstRow EXCEPT !.expires = 2]}

MCSymmetry == Permutations(Req)

VARIABLE part

KeyIsIdle    == row = FirstRow
StartIsIdle  == release = 1 /\ main = None /\ legacy = "none"
CachesAreIdle == readable = CHOOSE S \in SUBSET Cache : Cardinality(S) = MaxRead

DatabaseInit ==
  /\ part \in {"key", "start", "caches", "catalog"}
  /\ Init /\ StartInit /\ CachesInit /\ CatalogInit
  /\ part # "key" => KeyIsIdle
  /\ part # "start" => StartIsIdle
  /\ part # "caches" => CachesAreIdle

DatabaseNext ==
  \/ part = "key" /\ Next /\ UNCHANGED <<part, startVars, cacheVars, catalogVars>>
  \/ part = "start" /\ StartNext /\ UNCHANGED <<part, keyVars, cacheVars, catalogVars>>
  \/ part = "caches" /\ CachesNext /\ UNCHANGED <<part, keyVars, startVars, catalogVars>>
  \/ part = "catalog" /\ CatalogNext /\ UNCHANGED <<part, keyVars, startVars, cacheVars>>

DatabaseSpec == DatabaseInit /\ [][DatabaseNext]_<<part, keyVars, startVars, cacheVars, catalogVars>>
===============================================================================
