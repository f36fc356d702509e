------------------------------ MODULE HotCaches ------------------------------
(***************************************************************************)
(* The caches in front of the configuration tables.  Lists are filled in   *)
(* the step that reads the table, settings, aliases and prices in a later  *)
(* one; a write drops the caches of what it changed, most of them in the   *)
(* step of its commit.  All but the settings also expire.                  *)
(*                                                                         *)
(* A table is the number of writes it has seen, while its cache is one of  *)
(* those that are read.  Between the steps of an operation run those of    *)
(* any other that is ready in the same turn of the event loop: at the      *)
(* start, all that waited for the database.                                *)
(***************************************************************************)
EXTENDS Naturals, FiniteSets

CONSTANTS
  Loader,    \* reads of a table that fill their cache later
  Writer,    \* writes that drop a cache later
  MaxRead,   \* bound: caches that are read in a behaviour
  MaxWrites  \* bound

ASSUME CachesAssumption ==
  IsFiniteSet(Loader) /\ IsFiniteSet(Writer) /\ {MaxRead, MaxWrites} \subseteq Nat

Table == {"settings", "connections", "nodes", "pools", "combos", "aliases", "pricing"}
Cache == Table \cup {"pool"}           \* pools, by id
TableOf(c) == IF c = "pool" THEN "pools" ELSE c
Late == {"settings", "aliases", "pricing"}
Shared == {"settings", "aliases"}      \* readers join a load under way

(* What the repositories write: the tables, the caches dropped with the commit*)
(* and later, and those the write fills itself.                               *)
W(touches, drops, later, fills) ==
  [touches |-> touches, drops |-> drops, later |-> later, fills |-> fills]

Edit(t) == W({t}, {c \in Cache : TableOf(c) = t}, {}, {})

Configuration == Table \ {"pools"}

\* Mutant: the connections rewritten by the deletion stay cached.
PoolsOnly == W({"pools", "connections"}, {"pools", "pool"}, {}, {})

PoolDeletion == W({"pools", "connections"}, {"pools", "pool"}, {"connections"}, {})
NodeDeletion == W(Configuration, Configuration \ {"pricing"}, {}, {})
DatabaseImport == W(Table, Cache \ {"pricing"}, {}, {})

Writes ==
  {Edit(t) : t \in {"connections", "nodes", "pools", "combos", "pricing"}}
  \cup {W({"settings"}, {}, {}, {"settings"}), W({"aliases"}, {}, {"aliases"}, {}),
        W({"pricing"}, {}, {"pricing"}, {}),   \* resetAllPricing
        PoolDeletion, NodeDeletion, DatabaseImport}

VARIABLES
  readable,  \* the caches that are read
  table,     \* writes each table has seen
  cache,     \* [version: of the table that is cached, seen: history, the table when it was]
  inflight,  \* the load readers of a shared cache join
  loading,   \* loads under way
  writing,   \* writes that have not dropped all
  returned   \* history: the writes of a table whose callers have gone on

cacheVars == <<readable, table, cache, inflight, loading, writing, returned>>

Uncached == [version |-> 0, seen |-> 0, on |-> FALSE]
NoLoad == [of |-> "", version |-> 0, read |-> FALSE]
NoWrite == [later |-> {}, versions |-> [t \in Table |-> 0]]
Nobody == "nobody"

CachesInit ==
  /\ readable \in {S \in SUBSET Cache : Cardinality(S) = MaxRead}
  /\ table = [t \in Table |-> 0] /\ returned = table
  /\ cache = [c \in Cache |-> Uncached]
  /\ inflight = [c \in Shared |-> Nobody]
  /\ loading = [l \in Loader |-> NoLoad]
  /\ writing = [w \in Writer |-> NoWrite]

Holding(v, s) == [version |-> v, seen |-> s, on |-> TRUE]

-----------------------------------------------------------------------------
(* A list is read and cached in one step.                                     *)
ReadList(c) ==
  /\ c \in readable \ Late /\ ~cache[c].on
  /\ cache' = [cache EXCEPT ![c] = Holding(table[TableOf(c)], table[TableOf(c)])]
  /\ UNCHANGED <<readable, table, inflight, loading, writing, returned>>

(* getSettings, getModelAliases, getPricing: a load unless there is a value,  *)
(* or a load to join.                                                         *)
StartLoad(l, c) ==
  /\ c \in readable \cap Late /\ ~cache[c].on
  /\ loading[l] = NoLoad
  /\ c \in Shared => inflight[c] = Nobody
  /\ loading' = [loading EXCEPT ![l] = [NoLoad EXCEPT !.of = c]]
  /\ inflight' = [d \in Shared |-> IF d = c THEN l ELSE inflight[d]]
  /\ UNCHANGED <<readable, table, cache, writing, returned>>

LoadReads(l) ==
  /\ loading[l] # NoLoad /\ ~loading[l].read
  /\ loading' = [loading EXCEPT ![l].read = TRUE, ![l].version = table[loading[l].of]]
  /\ UNCHANGED <<readable, table, cache, inflight, writing, returned>>

\* inflight is cleared whosever load it is.
Unshared(c) == [d \in Shared |-> IF d = c THEN Nobody ELSE inflight[d]]

LoadFills(l) ==
  LET c == loading[l].of
  IN  /\ loading[l].read
      /\ cache' = [cache EXCEPT ![c] = Holding(loading[l].version, table[c])]
      /\ inflight' = Unshared(c)
      /\ loading' = [loading EXCEPT ![l] = NoLoad]
      /\ UNCHANGED <<readable, table, writing, returned>>

LoadFails(l) ==
  /\ loading[l] # NoLoad /\ ~loading[l].read
  /\ inflight' = Unshared(loading[l].of)
  /\ loading' = [loading EXCEPT ![l] = NoLoad]
  /\ UNCHANGED <<readable, table, cache, writing, returned>>

(* The lifetime of a value is over.                                           *)
Expire(c) ==
  /\ c # "settings" /\ cache[c].on
  /\ cache' = [cache EXCEPT ![c] = Uncached]
  /\ UNCHANGED <<readable, table, inflight, loading, writing, returned>>

-----------------------------------------------------------------------------
Watched == {TableOf(c) : c \in readable}

Written(w) == [t \in Table |-> table[t] + IF t \in w.touches \cap Watched THEN 1 ELSE 0]

\* Mutant: readers still join the load that was under way.
KeepInflight(drops) == inflight

\* What is dropped is not joined either.
Unjoined(drops) == [c \in Shared |-> IF c \in drops THEN Nobody ELSE inflight[c]]

\* A write has returned; pricing learns of bulk writes when it expires.
Promised(versions) ==
  [t \in Table |-> IF versions[t] > returned[t] THEN versions[t] ELSE returned[t]]

Promises(w) == [t \in Table |-> IF t \in w.touches \cap Watched /\ (t = "pricing" => w.touches = {t})
                                THEN table[t] + 1 ELSE 0]

(* The commit, with what follows it at once.                                  *)
CommitWrite(w) ==
  /\ table' = Written(w)
  /\ cache' = [c \in Cache |-> IF c \in w.drops THEN Uncached
                               ELSE IF c \in w.fills THEN Holding(table'[c], table'[c])
                               ELSE cache[c]]
  /\ inflight' = Unjoined(w.drops \cup w.fills)

Write(w) ==
  /\ w.touches \cap Watched # {}
  /\ \A t \in w.touches : table[t] < MaxWrites
  /\ CommitWrite(w)
  /\ \/ /\ w.later = {}
        /\ returned' = Promised(Promises(w)) /\ UNCHANGED writing
     \/ /\ w.later # {}
        /\ \E p \in Writer :
             /\ writing[p] = NoWrite
             /\ writing' = [writing EXCEPT ![p] = [later |-> w.later, versions |-> Promises(w)]]
        /\ UNCHANGED returned
  /\ UNCHANGED <<readable, loading>>

(* After an await the rest is dropped, and the caller goes on.                *)
FinishWrite(p) ==
  /\ writing[p] # NoWrite
  /\ cache' = [c \in Cache |-> IF c \in writing[p].later THEN Uncached ELSE cache[c]]
  /\ inflight' = Unjoined(writing[p].later)
  /\ returned' = Promised(writing[p].versions)
  /\ writing' = [writing EXCEPT ![p] = NoWrite]
  /\ UNCHANGED <<readable, table, loading>>

CachesNext ==
  \/ \E c \in Cache : ReadList(c) \/ Expire(c)
  \/ \E l \in Loader : LoadReads(l) \/ LoadFills(l) \/ LoadFails(l)
  \/ \E l \in Loader, c \in Late : StartLoad(l, c)
  \/ \E w \in Writes : Write(w)
  \/ \E p \in Writer : FinishWrite(p)

CachesSpec == CachesInit /\ [][CachesNext]_cacheVars

CachesTypeOK ==
  /\ readable \subseteq Cache
  /\ {table, returned} \subseteq [Table -> 0..MaxWrites]
  /\ cache \in [Cache -> [version : 0..MaxWrites, seen : 0..MaxWrites, on : BOOLEAN]]
  /\ inflight \in [Shared -> Loader \cup {Nobody}]
  /\ loading \in [Loader -> [of : Late \cup {""}, version : 0..MaxWrites, read : BOOLEAN]]
  /\ writing \in [Writer -> [later : SUBSET Cache, versions : [Table -> 0..MaxWrites]]]

-----------------------------------------------------------------------------
(* Who reads after a write has returned sees it, from the cache and from the  *)
(* load it joins.  A value filled late may lack it only if its load and the   *)
(* write overlapped: with no lifetime, the settings then stay as they were    *)
(* until the next write.                                                      *)
Overlapped(e) == e.version < e.seen

ReadersSeeWrites ==
  /\ \A c \in Cache : cache[c].on /\ cache[c].version < returned[TableOf(c)] =>
       c \in Late /\ Overlapped(cache[c]) /\ cache[c].seen >= returned[TableOf(c)]
  /\ \A c \in Shared : inflight[c] # Nobody /\ loading[inflight[c]].read =>
       loading[inflight[c]].version >= returned[c]
===============================================================================
