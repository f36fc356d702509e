----------------------------- MODULE DatabaseProofs -----------------------------
(***************************************************************************)
(* Proofs about what the database holds and what stands in front of it,    *)
(* for any number of readers, writers, requests and releases: the caches   *)
(* show what a write promised its caller, a start finds what it needs and  *)
(* leaves the first backup alone, the configuration hangs together, and    *)
(* a key is granted what it is allowed and no more.                        *)
(***************************************************************************)
EXTENDS KeyPolicy, HotCaches, DatabaseStart, Catalog, FiniteSetTheorems, SequenceTheorems, TLAPS

-----------------------------------------------------------------------------
(* HotCaches: the writes, as the argument sees them.  A cache of a table that *)
(* a write promises to its caller is dropped, filled by it, or dropped before *)
(* the caller goes on.                                                        *)

Effects == [touches : SUBSET Table, drops : SUBSET Cache, later : SUBSET Cache,
            fills : SUBSET {"settings"}]

LEMMA WritesAreEffects == Writes \subseteq Effects
<1>1. \A t \in Table : {c \in Cache : TableOf(c) = t} \in SUBSET Cache
  OBVIOUS
<1>2. \A t \in Table : Edit(t) \in Effects
  BY DEF Edit, W, Effects
<1>3. {"connections", "nodes", "pools", "combos", "pricing"} \subseteq Table
  BY DEF Table
<1>4. /\ W({"settings"}, {}, {}, {"settings"}) \in Effects
      /\ W({"aliases"}, {}, {"aliases"}, {}) \in Effects
      /\ W({"pricing"}, {}, {"pricing"}, {}) \in Effects
  BY DEF W, Effects, Table, Cache
<1>5. PoolDeletion \in Effects /\ NodeDeletion \in Effects /\ DatabaseImport \in Effects
  BY DEF PoolDeletion, NodeDeletion, DatabaseImport, Configuration, W, Effects, Table, Cache
<1> QED BY <1>2, <1>3, <1>4, <1>5 DEF Writes

LEMMA PromisedIsDropped ==
  ASSUME NEW w \in Writes, NEW c \in Cache, TableOf(c) \in w.touches,
         TableOf(c) = "pricing" => w.touches = {"pricing"}
  PROVE  c \in w.drops \cup w.fills \cup w.later
<1>1. CASE \E t \in Table : w = Edit(t)
  BY <1>1 DEF Edit, W
<1>2. CASE \/ w = W({"settings"}, {}, {}, {"settings"})
           \/ w = W({"aliases"}, {}, {"aliases"}, {})
           \/ w = W({"pricing"}, {}, {"pricing"}, {})
  BY <1>2 DEF W, TableOf, Cache, Table
<1>3. CASE w = PoolDeletion
  BY <1>3 DEF PoolDeletion, W, TableOf, Cache, Table
<1>4. CASE w = NodeDeletion
  BY <1>4 DEF NodeDeletion, Configuration, W, TableOf, Cache, Table
<1>5. CASE w = DatabaseImport
  BY <1>5 DEF DatabaseImport, W, TableOf, Cache, Table
<1> QED BY <1>1, <1>2, <1>3, <1>4, <1>5 DEF Writes, Table

-----------------------------------------------------------------------------
(* What a reader gets now, from cache c or a load it joins, is as new as v:   *)
(* all that callers of writes were promised, and those of writes under way    *)
(* will be unless c is dropped before.                                        *)
Fresh(c, v) ==
  /\ returned[TableOf(c)] <= v
  /\ \A p \in Writer : c \in writing[p].later \/ writing[p].versions[TableOf(c)] <= v

CacheIsFresh(c) ==
  cache[c].on => /\ cache[c].version <= cache[c].seen
                 /\ c \notin Late => cache[c].version = cache[c].seen
                 /\ Fresh(c, cache[c].seen)

LoadIsFresh(c) ==
  inflight[c] # Nobody =>
    /\ loading[inflight[c]].of = c
    /\ loading[inflight[c]].read => Fresh(c, loading[inflight[c]].version)

\* Nothing is promised that has not been committed.
CommitsComeFirst ==
  \A t \in Table : returned[t] <= table[t] /\ \A p \in Writer : writing[p].versions[t] <= table[t]

CachesInv ==
  /\ CachesTypeOK
  /\ \A l \in Loader : loading[l] # NoLoad =>
       /\ loading[l].of \in Late
       /\ loading[l].read => loading[l].version <= table[loading[l].of]
  /\ CommitsComeFirst
  /\ \A c \in Cache : CacheIsFresh(c)
  /\ \A c \in Shared : LoadIsFresh(c)

LEMMA CachesTypes ==
  /\ MaxWrites \in Nat /\ 0 \in 0..MaxWrites /\ 0..MaxWrites \subseteq Nat
  /\ CachesTypeOK =>
       /\ table \in [Table -> 0..MaxWrites] /\ returned \in [Table -> 0..MaxWrites]
       /\ \A c \in Cache : table[TableOf(c)] \in 0..MaxWrites
<1>1. MaxWrites \in Nat
  BY CachesAssumption
<1>2. \A c \in Cache : TableOf(c) \in Table
  BY DEF TableOf, Cache, Table
<1>3. CachesTypeOK => table \in [Table -> 0..MaxWrites] /\ returned \in [Table -> 0..MaxWrites]
  BY DEF CachesTypeOK
<1> QED BY <1>1, <1>2, <1>3

LEMMA CachesNumbers ==
  ASSUME CachesTypeOK
  PROVE  /\ \A c \in Cache : cache[c].version \in Nat /\ cache[c].seen \in Nat
         /\ \A l \in Loader : loading[l].version \in Nat
         /\ \A t \in Table : table[t] \in Nat /\ returned[t] \in Nat
         /\ \A p \in Writer, t \in Table : writing[p].versions[t] \in Nat
<1>1. \A c \in Cache : cache[c].version \in Nat /\ cache[c].seen \in Nat
  BY CachesTypes DEF CachesTypeOK
<1>2. \A l \in Loader : loading[l].version \in Nat
  BY CachesTypes DEF CachesTypeOK
<1>3. \A t \in Table : table[t] \in Nat /\ returned[t] \in Nat
  BY CachesTypes
<1>4. \A p \in Writer, t \in Table : writing[p].versions[t] \in Nat
  BY CachesTypes DEF CachesTypeOK
<1> QED BY <1>1, <1>2, <1>3, <1>4

LEMMA NoLoadType ==
  /\ NoLoad \in [of : Late \cup {""}, version : 0..MaxWrites, read : BOOLEAN]
  /\ NoLoad.of = "" /\ NoLoad.read = FALSE
BY CachesTypes DEF NoLoad

LEMMA CachesInitInv == CachesInit => CachesInv
<1> SUFFICES ASSUME CachesInit PROVE CachesInv
  OBVIOUS
<1>1. MaxWrites \in Nat /\ 0 \in 0..MaxWrites
  BY CachesAssumption
<1>2. CachesTypeOK
  BY <1>1 DEF CachesInit, CachesTypeOK, Uncached, NoLoad, NoWrite
<1>3. CommitsComeFirst
  BY DEF CachesInit, CommitsComeFirst, NoWrite
<1>4. \A c \in Cache : ~cache[c].on
  BY DEF CachesInit, Uncached
<1>5. \A c \in Shared : inflight[c] = Nobody
  BY DEF CachesInit
<1>6. \A l \in Loader : loading[l] = NoLoad
  BY DEF CachesInit
<1> QED BY <1>2, <1>3, <1>4, <1>5, <1>6 DEF CachesInv, CacheIsFresh, LoadIsFresh

LEMMA CachesBasics ==
  /\ \A c \in Cache : TableOf(c) \in Table
  /\ Late \subseteq Cache /\ Shared \subseteq Late
  /\ \A c \in Late : TableOf(c) = c
  /\ "" \notin Late
BY DEF TableOf, Cache, Table, Late, Shared

\* What is read from the table now is fresh.
LEMMA TableIsFresh ==
  ASSUME CachesInv, NEW c \in Cache
  PROVE  Fresh(c, table[TableOf(c)])
BY CachesBasics DEF CachesInv, CommitsComeFirst, Fresh

(* Steps that promise nothing keep what is fresh. *)
LEMMA ReadersInv ==
  ASSUME CachesInv, CachesTypeOK', UNCHANGED <<table, returned, writing>>,
         \A l \in Loader : loading'[l] # NoLoad =>
           /\ loading'[l].of \in Late
           /\ loading'[l].read => loading'[l].version <= table[loading'[l].of],
         \A c \in Cache : \/ cache'[c] = cache[c] \/ ~cache'[c].on
                          \/ /\ cache'[c].version <= cache'[c].seen
                             /\ c \notin Late => cache'[c].version = cache'[c].seen
                             /\ cache'[c].seen = table[TableOf(c)],
         \A c \in Shared :
           \/ inflight'[c] = Nobody
           \/ /\ loading'[inflight'[c]].of = c
              /\ \/ ~loading'[inflight'[c]].read
                 \/ loading'[inflight'[c]].version = table[TableOf(c)]
                 \/ inflight'[c] = inflight[c] /\ loading'[inflight[c]] = loading[inflight[c]]
  PROVE  CachesInv'
<1>1. CommitsComeFirst'
  BY DEF CachesInv, CommitsComeFirst
<1>2. ASSUME NEW c \in Cache PROVE CacheIsFresh(c)'
  <2>1. Fresh(c, table[TableOf(c)])
    BY TableIsFresh
  <2>2. CacheIsFresh(c)
    BY DEF CachesInv
  <2> QED BY <2>1, <2>2 DEF CacheIsFresh, Fresh
<1>3. ASSUME NEW c \in Shared PROVE LoadIsFresh(c)'
  <2>1. Fresh(c, table[TableOf(c)])
    BY TableIsFresh, CachesBasics
  <2>2. LoadIsFresh(c)
    BY DEF CachesInv
  <2> QED BY <2>1, <2>2 DEF LoadIsFresh, Fresh
<1> QED BY <1>1, <1>2, <1>3 DEF CachesInv

LEMMA ReadListInv ==
  ASSUME CachesInv, NEW c \in Cache, ReadList(c) \/ Expire(c) PROVE CachesInv'
<1>0. PICK e \in [version : 0..MaxWrites, seen : 0..MaxWrites, on : BOOLEAN] :
        /\ cache' = [cache EXCEPT ![c] = e]
        /\ e.on => e.version = table[TableOf(c)] /\ e.seen = table[TableOf(c)]
  <2>1. table[TableOf(c)] \in 0..MaxWrites
    BY CachesTypes DEF CachesInv
  <2>2. CASE ReadList(c)
    <3> DEFINE v == table[TableOf(c)]
               e == [version |-> v, seen |-> v, on |-> TRUE]
    <3>1. e \in [version : 0..MaxWrites, seen : 0..MaxWrites, on : BOOLEAN]
          /\ e.version = v /\ e.seen = v
      BY <2>1
    <3>2. cache' = [cache EXCEPT ![c] = e]
      BY <2>2 DEF ReadList, Holding
    <3> QED BY <3>1, <3>2
  <2>3. CASE Expire(c)
    <3>1. Uncached \in [version : 0..MaxWrites, seen : 0..MaxWrites, on : BOOLEAN] /\ ~Uncached.on
      BY CachesTypes DEF Uncached
    <3>2. cache' = [cache EXCEPT ![c] = Uncached]
      BY <2>3 DEF Expire
    <3> QED BY <3>1, <3>2
  <2> QED BY <2>2, <2>3
<1>1. CachesTypeOK'
  BY <1>0 DEF CachesInv, CachesTypeOK, ReadList, Expire
<1>2. \A d \in Cache : \/ cache'[d] = cache[d] \/ ~cache'[d].on
                       \/ /\ cache'[d].version <= cache'[d].seen
                          /\ cache'[d].version = cache'[d].seen
                          /\ cache'[d].seen = table[TableOf(d)]
  <2> SUFFICES ASSUME NEW d \in Cache, cache'[d] # cache[d], cache'[d].on
               PROVE  /\ cache'[d].version <= cache'[d].seen
                      /\ cache'[d].version = cache'[d].seen
                      /\ cache'[d].seen = table[TableOf(d)]
    OBVIOUS
  <2>1. d = c /\ cache'[d] = e
    BY <1>0 DEF CachesInv, CachesTypeOK
  <2> QED BY <1>0, <2>1
<1>3. UNCHANGED <<table, returned, writing, inflight, loading>>
  BY DEF ReadList, Expire
<1>4. \A d \in Shared : LoadIsFresh(d)
  BY DEF CachesInv
<1>5. \A l \in Loader : loading'[l] # NoLoad =>
           /\ loading'[l].of \in Late
           /\ loading'[l].read => loading'[l].version <= table[loading'[l].of]
  BY <1>3 DEF CachesInv
<1> QED BY <1>1, <1>2, <1>3, <1>4, <1>5, ReadersInv DEF LoadIsFresh

LEMMA StartLoadInv ==
  ASSUME CachesInv, NEW l \in Loader, NEW c \in Late, StartLoad(l, c) PROVE CachesInv'
<1>0. /\ UNCHANGED <<table, returned, writing, cache, readable>> /\ loading[l] = NoLoad
      /\ loading' = [loading EXCEPT ![l] = [NoLoad EXCEPT !.of = c]]
      /\ inflight' = [d \in Shared |-> IF d = c THEN l ELSE inflight[d]]
  BY DEF StartLoad
<1>1. /\ [NoLoad EXCEPT !.of = c] \in [of : Late \cup {""}, version : 0..MaxWrites, read : BOOLEAN]
      /\ [NoLoad EXCEPT !.of = c].of = c /\ ~[NoLoad EXCEPT !.of = c].read
  BY CachesTypes DEF NoLoad
<1>2. \A m \in Loader : loading'[m] = IF m = l THEN [NoLoad EXCEPT !.of = c] ELSE loading[m]
  BY <1>0 DEF CachesInv, CachesTypeOK
<1>3. CachesTypeOK'
  <2>1. loading' \in [Loader -> [of : Late \cup {""}, version : 0..MaxWrites, read : BOOLEAN]]
    BY <1>0, <1>1 DEF CachesInv, CachesTypeOK
  <2>2. inflight' \in [Shared -> Loader \cup {Nobody}]
    BY <1>0 DEF CachesInv, CachesTypeOK
  <2> QED BY <1>0, <2>1, <2>2 DEF CachesInv, CachesTypeOK
<1>4. \A m \in Loader : loading'[m] # NoLoad =>
        loading'[m].of \in Late /\ (loading'[m].read => loading'[m].version <= table[loading'[m].of])
  BY <1>1, <1>2 DEF CachesInv
<1>5. ASSUME NEW d \in Shared, inflight'[d] # Nobody
      PROVE  /\ loading'[inflight'[d]].of = d
             /\ \/ ~loading'[inflight'[d]].read
                \/ inflight'[d] = inflight[d] /\ loading'[inflight[d]] = loading[inflight[d]]
  <2>1. CASE d = c
    BY <1>0, <1>1, <1>2, <2>1
  <2>2. CASE d # c
    <3>1. inflight'[d] = inflight[d] /\ inflight[d] \in Loader
      BY <1>0, <1>5, <2>2 DEF CachesInv, CachesTypeOK
    <3>2. loading[inflight[d]].of = d /\ d # ""
      BY <1>5, <3>1, CachesBasics DEF CachesInv, LoadIsFresh
    <3>3. inflight[d] # l
      BY <1>0, <3>2, NoLoadType
    <3> QED BY <1>2, <3>1, <3>2, <3>3
  <2> QED BY <2>1, <2>2
<1> QED BY <1>0, <1>3, <1>4, <1>5, ReadersInv

LEMMA LoadReadsInv ==
  ASSUME CachesInv, NEW l \in Loader, LoadReads(l) PROVE CachesInv'
<1> DEFINE q == [loading[l] EXCEPT !.read = TRUE, !.version = table[loading[l].of]]
<1>0. /\ UNCHANGED <<table, returned, writing, cache, readable, inflight>>
      /\ loading[l].of \in Late /\ ~loading[l].read
      /\ loading[l] \in [of : Late \cup {""}, version : 0..MaxWrites, read : BOOLEAN]
  BY DEF LoadReads, CachesInv, CachesTypeOK
<1>1. loading' = [loading EXCEPT ![l] = q]
  BY DEF LoadReads, CachesInv, CachesTypeOK
<1>2. table[loading[l].of] \in 0..MaxWrites
  BY <1>0, CachesTypes, CachesBasics DEF CachesInv
<1>3. /\ q \in [of : Late \cup {""}, version : 0..MaxWrites, read : BOOLEAN]
      /\ q.of = loading[l].of /\ q.version = table[loading[l].of]
  BY <1>0, <1>2
<1> HIDE DEF q
<1>4. \A m \in Loader : loading'[m] = IF m = l THEN q ELSE loading[m]
  BY <1>1 DEF CachesInv, CachesTypeOK
<1>5. CachesTypeOK'
  BY <1>0, <1>1, <1>3 DEF CachesInv, CachesTypeOK
<1>6. \A m \in Loader : loading'[m] # NoLoad =>
        loading'[m].of \in Late /\ (loading'[m].read => loading'[m].version <= table[loading'[m].of])
  <2>0. table[loading[l].of] \in Nat
    BY <1>2, CachesTypes
  <2>1. q.of \in Late /\ q.version = table[q.of] /\ table[q.of] = table[loading[l].of]
    BY <1>0, <1>3
  <2>2. q.version <= table[q.of]
    BY <2>0, <2>1
  <2> QED BY <1>4, <2>1, <2>2 DEF CachesInv
<1>7. ASSUME NEW d \in Shared, inflight'[d] # Nobody
      PROVE  /\ loading'[inflight'[d]].of = d
             /\ \/ loading'[inflight'[d]].version = table[TableOf(d)]
                \/ inflight'[d] = inflight[d] /\ loading'[inflight[d]] = loading[inflight[d]]
  <2>1. inflight'[d] = inflight[d] /\ inflight[d] \in Loader /\ loading[inflight[d]].of = d /\ TableOf(d) = d
    BY <1>0, <1>7, CachesBasics DEF CachesInv, CachesTypeOK, LoadIsFresh
  <2> QED BY <1>3, <1>4, <2>1
<1> QED BY <1>0, <1>5, <1>6, <1>7, ReadersInv

LEMMA LoadEndsInv ==
  ASSUME CachesInv, NEW l \in Loader, LoadFills(l) \/ LoadFails(l) PROVE CachesInv'
<1> DEFINE c == loading[l].of
<1>0. /\ UNCHANGED <<table, returned, writing, readable>>
      /\ inflight' = Unshared(c) /\ loading' = [loading EXCEPT ![l] = NoLoad]
  BY DEF LoadFills, LoadFails
<1>1. loading[l] # NoLoad
  BY NoLoadType DEF LoadFills, LoadFails
<1>2. c \in Late /\ c \in Cache /\ TableOf(c) = c
  BY <1>1, CachesBasics DEF CachesInv
<1>3. PICK e \in [version : 0..MaxWrites, seen : 0..MaxWrites, on : BOOLEAN] :
        \/ cache' = [cache EXCEPT ![c] = e] /\ e.seen = table[c] /\ e.version <= e.seen
        \/ UNCHANGED cache
  <2>1. CASE LoadFills(l)
    <3> DEFINE e == Holding(loading[l].version, table[c])
    <3>1. loading[l].version \in 0..MaxWrites /\ table[c] \in 0..MaxWrites
      BY <1>2, CachesTypes DEF CachesInv, CachesTypeOK
    <3>2. e \in [version : 0..MaxWrites, seen : 0..MaxWrites, on : BOOLEAN]
          /\ e.seen = table[c] /\ e.version = loading[l].version
      BY <3>1 DEF Holding
    <3>3. cache' = [cache EXCEPT ![c] = e] /\ loading[l].read
      BY <2>1 DEF LoadFills
    <3>4. loading[l].version <= table[c]
      BY <1>1, <3>3 DEF CachesInv
    <3> QED BY <3>2, <3>3, <3>4
  <2>2. CASE LoadFails(l)
    <3>1. cache[c] \in [version : 0..MaxWrites, seen : 0..MaxWrites, on : BOOLEAN]
      BY <1>2 DEF CachesInv, CachesTypeOK
    <3> QED BY <2>2, <3>1 DEF LoadFails
  <2> QED BY <2>1, <2>2
<1>4. \A m \in Loader : loading'[m] = IF m = l THEN NoLoad ELSE loading[m]
  BY <1>0 DEF CachesInv, CachesTypeOK
<1>5. CachesTypeOK'
  <2>1. loading' \in [Loader -> [of : Late \cup {""}, version : 0..MaxWrites, read : BOOLEAN]]
    BY <1>0, NoLoadType DEF CachesInv, CachesTypeOK
  <2>2. inflight' \in [Shared -> Loader \cup {Nobody}]
    BY <1>0 DEF Unshared, CachesInv, CachesTypeOK
  <2>3. cache' \in [Cache -> [version : 0..MaxWrites, seen : 0..MaxWrites, on : BOOLEAN]]
    BY <1>3 DEF CachesInv, CachesTypeOK
  <2> QED BY <1>0, <2>1, <2>2, <2>3 DEF CachesInv, CachesTypeOK
<1>6. \A m \in Loader : loading'[m] # NoLoad =>
        loading'[m].of \in Late /\ (loading'[m].read => loading'[m].version <= table[loading'[m].of])
  BY <1>4 DEF CachesInv
<1>7. ASSUME NEW d \in Cache, cache'[d] # cache[d]
      PROVE  /\ cache'[d].version <= cache'[d].seen /\ d \in Late
             /\ cache'[d].seen = table[TableOf(d)]
  <2>1. d = c /\ cache'[d] = e /\ e.seen = table[c] /\ e.version <= e.seen
    BY <1>3, <1>7 DEF CachesInv, CachesTypeOK
  <2> QED BY <1>2, <2>1
<1>8. ASSUME NEW d \in Shared, inflight'[d] # Nobody
      PROVE  /\ loading'[inflight'[d]].of = d
             /\ inflight'[d] = inflight[d] /\ loading'[inflight[d]] = loading[inflight[d]]
  <2>1. d # c /\ inflight'[d] = inflight[d]
    BY <1>0, <1>8 DEF Unshared
  <2>2. inflight[d] \in Loader /\ loading[inflight[d]].of = d
    BY <1>8, <2>1 DEF CachesInv, CachesTypeOK, LoadIsFresh
  <2> QED BY <1>4, <2>1, <2>2
<1> QED BY <1>0, <1>5, <1>6, <1>7, <1>8, ReadersInv

LEMMA NoWriteType ==
  /\ NoWrite \in [later : SUBSET Cache, versions : [Table -> 0..MaxWrites]]
  /\ NoWrite.later = {} /\ \A t \in Table : NoWrite.versions[t] = 0
BY CachesTypes DEF NoWrite

LEMMA FinishWriteInv ==
  ASSUME CachesInv, NEW p \in Writer, FinishWrite(p) PROVE CachesInv'
<1> DEFINE later == writing[p].later
           versions == writing[p].versions
<1>0. /\ UNCHANGED <<readable, table, loading>>
      /\ cache' = [c \in Cache |-> IF c \in later THEN Uncached ELSE cache[c]]
      /\ inflight' = Unjoined(later) /\ returned' = Promised(versions)
      /\ writing' = [writing EXCEPT ![p] = NoWrite]
      /\ writing[p] \in [later : SUBSET Cache, versions : [Table -> 0..MaxWrites]]
  BY DEF FinishWrite, CachesInv, CachesTypeOK
<1>1. /\ \A t \in Table : returned'[t] = versions[t] \/ returned'[t] = returned[t]
      /\ returned' \in [Table -> 0..MaxWrites]
  BY <1>0, CachesTypes DEF Promised, CachesInv
<1>2. \A m \in Writer : writing'[m] = IF m = p THEN NoWrite ELSE writing[m]
  BY <1>0 DEF CachesInv, CachesTypeOK
<1>3. CachesTypeOK'
  <2>1. Uncached \in [version : 0..MaxWrites, seen : 0..MaxWrites, on : BOOLEAN]
    BY CachesTypes DEF Uncached
  <2>2. cache' \in [Cache -> [version : 0..MaxWrites, seen : 0..MaxWrites, on : BOOLEAN]]
    BY <1>0, <2>1 DEF CachesInv, CachesTypeOK
  <2>3. inflight' \in [Shared -> Loader \cup {Nobody}]
    BY <1>0 DEF Unjoined, CachesInv, CachesTypeOK
  <2>4. writing' \in [Writer -> [later : SUBSET Cache, versions : [Table -> 0..MaxWrites]]]
    BY <1>0, NoWriteType DEF CachesInv, CachesTypeOK
  <2> QED BY <1>0, <1>1, <2>2, <2>3, <2>4 DEF CachesInv, CachesTypeOK
<1>4. CommitsComeFirst'
  <2> SUFFICES ASSUME NEW t \in Table
               PROVE  /\ returned'[t] <= table'[t]
                      /\ \A m \in Writer : writing'[m].versions[t] <= table'[t]
    BY DEF CommitsComeFirst
  <2>1. table'[t] = table[t] /\ table[t] \in Nat
    BY <1>0, CachesTypes DEF CachesInv
  <2> QED BY <1>1, <1>2, <2>1, NoWriteType DEF CachesInv, CommitsComeFirst
\* Whatever outlives the step was not waiting to be dropped.
<1>5. ASSUME NEW c \in Cache, c \notin later, NEW v \in Nat, Fresh(c, v)
      PROVE  /\ returned'[TableOf(c)] <= v
             /\ \A m \in Writer : c \in writing'[m].later \/ writing'[m].versions[TableOf(c)] <= v
  <2>1. TableOf(c) \in Table
    BY CachesBasics
  <2>2. ASSUME NEW m \in Writer
        PROVE  c \in writing'[m].later \/ writing'[m].versions[TableOf(c)] <= v
    BY <1>2, <1>5, <2>1, NoWriteType DEF Fresh
  <2>3. returned'[TableOf(c)] <= v
    BY <1>1, <1>5, <2>1 DEF Fresh
  <2> QED BY <2>2, <2>3
<1>6. ASSUME NEW c \in Cache PROVE CacheIsFresh(c)'
  <2> SUFFICES ASSUME cache'[c].on
               PROVE  /\ cache'[c].version <= cache'[c].seen
                      /\ c \notin Late => cache'[c].version = cache'[c].seen
                      /\ Fresh(c, cache[c].seen)'
    BY DEF CacheIsFresh
  <2>1. c \notin later /\ cache'[c] = cache[c] /\ cache[c].seen \in Nat
    BY <1>0, CachesNumbers DEF Uncached, CachesInv
  <2>2. CacheIsFresh(c)
    BY DEF CachesInv
  <2> QED BY <1>5, <2>1, <2>2 DEF CacheIsFresh, Fresh
<1>7. ASSUME NEW c \in Shared PROVE LoadIsFresh(c)'
  <2> SUFFICES ASSUME inflight'[c] # Nobody
               PROVE  /\ loading'[inflight'[c]].of = c
                      /\ loading'[inflight'[c]].read => Fresh(c, loading[inflight[c]].version)'
    BY DEF LoadIsFresh
  <2>1. c \notin later /\ inflight'[c] = inflight[c] /\ inflight[c] \in Loader /\ c \in Cache
    BY <1>0, CachesBasics DEF Unjoined, CachesInv, CachesTypeOK
  <2>2. LoadIsFresh(c) /\ loading[inflight[c]].version \in Nat
    BY <2>1, CachesNumbers DEF CachesInv
  <2> QED BY <1>0, <1>5, <2>1, <2>2 DEF LoadIsFresh, Fresh
<1>8. \A l \in Loader : loading'[l] # NoLoad =>
        loading'[l].of \in Late /\ (loading'[l].read => loading'[l].version <= table'[loading'[l].of])
  BY <1>0 DEF CachesInv
<1> QED BY <1>3, <1>4, <1>6, <1>7, <1>8 DEF CachesInv

LEMMA PromisesType ==
  ASSUME CachesInv, NEW w \in Writes, Write(w)
  PROVE  /\ w \in Effects
         /\ table' \in [Table -> 0..MaxWrites] /\ Promises(w) \in [Table -> 0..MaxWrites]
         /\ \A t \in Table : table[t] <= table'[t] /\ Promises(w)[t] <= table'[t]
         /\ \A c \in Cache : c \notin w.drops \cup w.fills \cup w.later =>
                               Promises(w)[TableOf(c)] = 0
<1>1. w \in Effects
  BY WritesAreEffects
<1>2. \A t \in w.touches : t \in Table /\ table[t] < MaxWrites
  BY <1>1 DEF Effects, Write
<1>3. ASSUME NEW t \in Table
      PROVE  /\ table'[t] \in 0..MaxWrites /\ Promises(w)[t] \in 0..MaxWrites
             /\ table[t] <= table'[t] /\ Promises(w)[t] <= table'[t]
  <2>1. table[t] \in 0..MaxWrites /\ MaxWrites \in Nat
    BY CachesTypes DEF CachesInv
  <2>2. /\ table'[t] = table[t] + (IF t \in w.touches \cap Watched THEN 1 ELSE 0)
        /\ Promises(w)[t] # 0 => Promises(w)[t] = table[t] + 1 /\ t \in w.touches \cap Watched
    BY DEF Write, CommitWrite, Written, Promises
  <2> QED BY <1>2, <2>1, <2>2
<1>4. table' = [t \in Table |-> table'[t]] /\ Promises(w) = [t \in Table |-> Promises(w)[t]]
  BY DEF Write, CommitWrite, Written, Promises
<1>5. ASSUME NEW c \in Cache, c \notin w.drops \cup w.fills \cup w.later
      PROVE  Promises(w)[TableOf(c)] = 0
  BY <1>5, PromisedIsDropped, CachesBasics DEF Promises
<1> QED BY <1>1, <1>3, <1>4, <1>5

LEMMA WriteInv ==
  ASSUME CachesInv, NEW w \in Writes, Write(w) PROVE CachesInv'
<1> DEFINE gone == w.drops \cup w.fills
           V == Promises(w)
<1>0. /\ UNCHANGED <<readable, loading>>
      /\ w \in Effects /\ V \in [Table -> 0..MaxWrites]
      /\ \A t \in Table : table[t] <= table'[t] /\ V[t] <= table'[t]
                          /\ table'[t] \in Nat /\ table[t] \in Nat
  BY PromisesType, CachesTypes DEF Write, CachesInv
<1>1. PICK p \in Writer \cup {Nobody} :
        \/ w.later = {} /\ returned' = Promised(V) /\ UNCHANGED writing
        \/ /\ p \in Writer /\ UNCHANGED returned
           /\ writing' = [writing EXCEPT ![p] = [later |-> w.later, versions |-> V]]
  BY DEF Write
<1>2. ASSUME NEW t \in Table
      PROVE  returned'[t] # returned[t] => w.later = {} /\ returned'[t] = V[t]
  BY <1>1, <1>2 DEF Promised
<1>3. ASSUME NEW m \in Writer
      PROVE  writing'[m] = writing[m] \/ writing'[m] = [later |-> w.later, versions |-> V]
  BY <1>1, <1>3 DEF CachesInv, CachesTypeOK
<1>4. cache' = [c \in Cache |-> IF c \in w.drops THEN Uncached
                                ELSE IF c \in w.fills THEN Holding(table'[c], table'[c])
                                ELSE cache[c]]
      /\ inflight' = Unjoined(gone)
  BY DEF Write, CommitWrite
<1>5. CachesTypeOK'
  <2>1. returned' \in [Table -> 0..MaxWrites]
    BY <1>0, <1>1, CachesTypes DEF Promised, CachesInv
  <2>2. writing' \in [Writer -> [later : SUBSET Cache, versions : [Table -> 0..MaxWrites]]]
    <3>1. [later |-> w.later, versions |-> V]
            \in [later : SUBSET Cache, versions : [Table -> 0..MaxWrites]]
      BY <1>0 DEF Effects
    <3> QED BY <1>1, <3>1 DEF CachesInv, CachesTypeOK
  <2>3. inflight' \in [Shared -> Loader \cup {Nobody}]
    BY <1>4 DEF Unjoined, CachesInv, CachesTypeOK
  <2>4. cache' \in [Cache -> [version : 0..MaxWrites, seen : 0..MaxWrites, on : BOOLEAN]]
    <3>1. Uncached \in [version : 0..MaxWrites, seen : 0..MaxWrites, on : BOOLEAN]
      BY CachesTypes DEF Uncached
    <3>2. ASSUME NEW c \in w.fills
          PROVE  Holding(table'[c], table'[c])
                   \in [version : 0..MaxWrites, seen : 0..MaxWrites, on : BOOLEAN]
      <4>1. table'[c] \in 0..MaxWrites
        BY <1>0, PromisesType DEF Effects, Table
      <4> QED BY <4>1 DEF Holding
    <3> QED BY <1>4, <3>1, <3>2 DEF CachesInv, CachesTypeOK
  <2>5. table' \in [Table -> 0..MaxWrites]
    BY PromisesType
  <2> QED BY <1>0, <2>1, <2>2, <2>3, <2>4, <2>5 DEF CachesInv, CachesTypeOK
<1>6. CommitsComeFirst'
  <2> SUFFICES ASSUME NEW t \in Table
               PROVE  /\ returned'[t] <= table'[t]
                      /\ \A m \in Writer : writing'[m].versions[t] <= table'[t]
    BY DEF CommitsComeFirst
  <2>1. /\ returned[t] <= table[t] /\ returned[t] \in Nat
        /\ \A m \in Writer : writing[m].versions[t] <= table[t] /\ writing[m].versions[t] \in Nat
    BY CachesNumbers DEF CachesInv, CommitsComeFirst
  <2> QED BY <1>0, <1>2, <1>3, <2>1
\* What is neither dropped nor filled is promised nothing before it is dropped.
<1>7. ASSUME NEW c \in Cache, c \notin gone, NEW v \in Nat, Fresh(c, v)
      PROVE  /\ returned'[TableOf(c)] <= v
             /\ \A m \in Writer : c \in writing'[m].later \/ writing'[m].versions[TableOf(c)] <= v
  <2>1. TableOf(c) \in Table /\ (c \in w.later \/ V[TableOf(c)] = 0)
    BY <1>7, PromisesType, CachesBasics
  <2>2. returned'[TableOf(c)] <= v
    BY <1>2, <1>7, <2>1 DEF Fresh
  <2>3. ASSUME NEW m \in Writer
        PROVE  c \in writing'[m].later \/ writing'[m].versions[TableOf(c)] <= v
    BY <1>3, <1>7, <2>1 DEF Fresh
  <2> QED BY <2>2, <2>3
<1>8. ASSUME NEW c \in Cache PROVE CacheIsFresh(c)'
  <2> SUFFICES ASSUME cache'[c].on
               PROVE  /\ cache'[c].version <= cache'[c].seen
                      /\ c \notin Late => cache'[c].version = cache'[c].seen
                      /\ Fresh(c, cache[c].seen)'
    BY DEF CacheIsFresh
  <2>1. CASE c \in w.fills
    <3>1. cache'[c].version = table'[c] /\ cache'[c].seen = table'[c]
      BY <1>4, <2>1 DEF Uncached, Holding
    <3>2. c = "settings" /\ TableOf(c) = c /\ c \in Table
      BY <1>0, <2>1 DEF Effects, TableOf, Table
    <3> QED BY <1>0, <1>6, <3>1, <3>2 DEF CommitsComeFirst, Fresh
  <2>2. CASE c \notin w.fills
    <3>1. c \notin gone /\ cache'[c] = cache[c] /\ cache[c].seen \in Nat
      BY <1>4, <2>2, CachesNumbers DEF Uncached, CachesInv
    <3>2. CacheIsFresh(c)
      BY DEF CachesInv
    <3> QED BY <1>7, <3>1, <3>2 DEF CacheIsFresh, Fresh
  <2> QED BY <2>1, <2>2
<1>9. ASSUME NEW c \in Shared PROVE LoadIsFresh(c)'
  <2> SUFFICES ASSUME inflight'[c] # Nobody
               PROVE  /\ loading'[inflight'[c]].of = c
                      /\ loading'[inflight'[c]].read => Fresh(c, loading[inflight[c]].version)'
    BY DEF LoadIsFresh
  <2>1. c \notin gone /\ inflight'[c] = inflight[c] /\ inflight[c] \in Loader /\ c \in Cache
    BY <1>4, CachesBasics DEF Unjoined, CachesInv, CachesTypeOK
  <2>2. LoadIsFresh(c) /\ loading[inflight[c]].version \in Nat
    BY <2>1, CachesNumbers DEF CachesInv
  <2> QED BY <1>0, <1>7, <2>1, <2>2 DEF LoadIsFresh, Fresh
<1>10. ASSUME NEW l \in Loader, loading'[l] # NoLoad
       PROVE  /\ loading'[l].of \in Late
              /\ loading'[l].read => loading'[l].version <= table'[loading'[l].of]
  <2>1. /\ loading'[l] = loading[l] /\ loading[l].of \in Late /\ loading[l].of \in Table
        /\ loading[l].read => loading[l].version <= table[loading[l].of]
    BY <1>0, <1>10, CachesBasics DEF CachesInv
  <2>2. loading[l].version \in Nat
    BY CachesNumbers DEF CachesInv
  <2> QED BY <1>0, <2>1, <2>2
<1> QED BY <1>5, <1>6, <1>8, <1>9, <1>10 DEF CachesInv

LEMMA CachesStepInv == CachesInv /\ [CachesNext]_cacheVars => CachesInv'
<1> SUFFICES ASSUME CachesInv, [CachesNext]_cacheVars PROVE CachesInv'
  OBVIOUS
<1>1. CASE CachesNext
  BY <1>1, ReadListInv, LoadReadsInv, LoadEndsInv, StartLoadInv, WriteInv, FinishWriteInv
     DEF CachesNext
<1>2. CASE UNCHANGED cacheVars
  BY <1>2 DEF cacheVars, CachesInv, CachesTypeOK, CommitsComeFirst, CacheIsFresh, LoadIsFresh, Fresh
<1> QED BY <1>1, <1>2

\* localDb's caches: who reads after a write returned sees it, from a cache or
\* from a load it joins, but for late fills of a load the write overlapped.
THEOREM ReadersAlwaysSeeWrites == CachesSpec => []ReadersSeeWrites
<1>1. CachesInv => ReadersSeeWrites
  <2> SUFFICES ASSUME CachesInv PROVE ReadersSeeWrites
    OBVIOUS
  <2>1. ASSUME NEW c \in Cache, cache[c].on, cache[c].version < returned[TableOf(c)]
        PROVE  c \in Late /\ Overlapped(cache[c]) /\ cache[c].seen >= returned[TableOf(c)]
    <3>1. CacheIsFresh(c) /\ TableOf(c) \in Table
      BY CachesBasics DEF CachesInv
    <3>2. cache[c].version \in Nat /\ cache[c].seen \in Nat /\ returned[TableOf(c)] \in Nat
      BY <3>1, CachesNumbers DEF CachesInv
    <3> QED BY <2>1, <3>1, <3>2 DEF CacheIsFresh, Fresh, Overlapped
  <2>2. ASSUME NEW c \in Shared, inflight[c] # Nobody, loading[inflight[c]].read
        PROVE  loading[inflight[c]].version >= returned[c]
    <3>1. LoadIsFresh(c) /\ inflight[c] \in Loader
      BY <2>2 DEF CachesInv, CachesTypeOK
    <3>2. TableOf(c) = c /\ c \in Table
      BY CachesBasics
    <3>3. loading[inflight[c]].version \in Nat /\ returned[c] \in Nat
      BY <3>1, <3>2, CachesNumbers DEF CachesInv
    <3> QED BY <2>2, <3>1, <3>2, <3>3 DEF LoadIsFresh, Fresh
  <2> QED BY <2>1, <2>2 DEF ReadersSeeWrites
<1> QED BY <1>1, CachesInitInv, CachesStepInv, PTL DEF CachesSpec

-----------------------------------------------------------------------------
(* DatabaseStart: what is true of a database wherever it is, and what each    *)
(* place of the start knows.                                                  *)

Sound(d) ==
  /\ d \in Database
  /\ \A m \in 1..Latest : d.applied[m] = IF m <= d.version THEN 1 ELSE 0
  /\ d.stamp <= d.version
  /\ d.imports <= 1
  /\ ~d.meta => d.imports = 0

Directory == [kind : {"partial", "database", "json"}, of : Database]

StartTypes ==
  /\ release \in 1..Latest
  /\ native \in BOOLEAN /\ fresh \in BOOLEAN /\ marker \in BOOLEAN /\ saved \in BOOLEAN
  /\ cut \in Nat /\ upset \in Database
  /\ backups \in Seq(Directory)

DatabasesAreSound == Sound(main) /\ Sound(log) /\ Sound(db) /\ Sound(opened)

\* Past a place, the schema is there and is stamped.
SchemaIsThere ==
  /\ at \in {"stamp", "import", "importing", "mark", "ready"} => db.version >= release
  /\ at \in {"import", "importing", "mark", "ready"} => db.stamp = release /\ db.meta

\* Before the import of a new database there has been none.
ImportIsOnce ==
  /\ fresh /\ at \in {"migrate", "stamp", "import", "importing"} => db.imports = 0
  /\ at \in {"importing", "mark"} => fresh
  /\ at = "mark" => db.imports = 1
  /\ at = "ready" /\ fresh /\ legacy = "good" /\ ~marker => db.imports = 1

HoldsAt(j, d) == j \in DOMAIN backups /\ backups[j] = [kind |-> "database", of |-> d]

\* A database in use that the release upgrades is in the backups before anything
\* is written.
FoundIsBacked ==
  /\ fresh => ~opened.meta /\ ~saved
  /\ at \in {"backup", "copy"} => db = opened /\ opened.meta /\ ~fresh
  /\ at = "copy" => Len(backups) > 0 /\ backups[1].kind = "partial"
  /\ at \notin {"off", "backup", "copy"} /\ opened.meta =>
       \/ "unsaved" \in seen
       \/ \E j \in Nat : HoldsAt(j, opened)
       \/ opened.stamp >= release /\ db.version = opened.version

\* The starts that made a directory: those cut short, and the present one.
Makers == IF at \in {"off", "backup"} THEN cut ELSE cut + 1

\* Every start of an upgrade puts one directory in front of its first backup.
FirstBackupStays ==
  /\ saved => upset # None
  /\ saved /\ cut < Keep => \E j \in 1..Makers : HoldsAt(j, upset)

StartInv ==
  /\ StartTypes /\ DatabasesAreSound /\ SchemaIsThere /\ ImportIsOnce
  /\ FoundIsBacked /\ FirstBackupStays

LEMMA StartParameters == Latest \in Nat \ {0} /\ Keep \in Nat \ {0} /\ 1..Latest \subseteq Nat
BY StartAssumption

LEMMA DatabaseFields ==
  ASSUME NEW d \in Database
  PROVE  /\ d.meta \in BOOLEAN /\ d.version \in 0..Latest /\ d.stamp \in 0..Latest
         /\ d.columns \in 0..Latest /\ d.imports \in Nat
         /\ d.applied \in [1..Latest -> Nat] /\ d.version \in Nat /\ d.stamp \in Nat
BY StartParameters DEF Database, Version

LEMMA NoneIsSound == Sound(None) /\ ~None.meta /\ None.imports = 0
BY StartParameters DEF Sound, None, Database, Version

LEMMA LeftIsSound ==
  ASSUME NEW v \in 0..Latest, NEW s \in 0..Latest, s <= v
  PROVE  Sound(Left(v, s))
<1> DEFINE a == [m \in 1..Latest |-> IF m <= v THEN 1 ELSE 0]
           z == [m \in 1..Latest |-> 0]
           d == [meta |-> TRUE, version |-> v, stamp |-> s, columns |-> v, applied |-> a, imports |-> 0]
<1>1. a \in [1..Latest -> Nat] /\ \A m \in 1..Latest : a[m] = IF m <= v THEN 1 ELSE 0
  OBVIOUS
<1>2. Left(v, s) = [[meta |-> FALSE, version |-> 0, stamp |-> 0, columns |-> 0, applied |-> z, imports |-> 0]
                    EXCEPT !.meta = TRUE, !.version = v, !.stamp = s, !.columns = v, !.applied = a]
  BY Zenon DEF Left, None
<1>3. Left(v, s) = d
  <2> HIDE DEF a, z
  <2> QED BY <1>2
<1>4. d \in Database
  <2> HIDE DEF a
  <2> QED BY <1>1 DEF Database, Version
<1>5. d.version = v /\ d.stamp = s /\ d.applied = a /\ d.imports = 0
  OBVIOUS
<1> HIDE DEF d, a, z
<1> QED BY <1>1, <1>3, <1>4, <1>5 DEF Sound

\* One migration and its stamp.
LEMMA MigratedIsSound ==
  ASSUME NEW d, Sound(d), release \in 1..Latest, d.version < release
  PROVE  LET e == Stamped(Applied(d))
         IN  Sound(e) /\ e.imports = d.imports
<1> DEFINE v == d.version + 1
           a == [d.applied EXCEPT ![v] = @ + 1]
           c == IF v = 1 /\ d.columns = 0 THEN release ELSE d.columns
           e == [meta |-> TRUE, version |-> v, stamp |-> d.stamp, columns |-> c,
                 applied |-> a, imports |-> d.imports]
<1>1. d \in Database /\ v \in 1..Latest /\ v \in 0..Latest
  BY DatabaseFields, StartParameters DEF Sound
<1>2. Stamped(Applied(d)) = e
  <2>1. Applied(d) = [d EXCEPT !.applied = a, !.columns = c]
    BY DEF Applied
  <2> HIDE DEF a, c
  <2>2. /\ Applied(d) = [meta |-> d.meta, version |-> d.version, stamp |-> d.stamp, columns |-> c,
                         applied |-> a, imports |-> d.imports]
        /\ Applied(d).version = d.version
    BY <1>1, <2>1 DEF Database
  <2>3. Stamped(Applied(d)) =
          [[meta |-> d.meta, version |-> d.version, stamp |-> d.stamp, columns |-> c,
            applied |-> a, imports |-> d.imports] EXCEPT !.version = d.version + 1, !.meta = TRUE]
    <3>1. Stamped(Applied(d)) = [Applied(d) EXCEPT !.version = Applied(d).version + 1, !.meta = TRUE]
      BY DEF Stamped
    <3> HIDE DEF v, e
    <3> QED BY <2>2, <3>1, Zenon
  <2> QED BY <2>3
<1>3. c \in 0..Latest /\ a \in [1..Latest -> Nat]
  <2>1. /\ d.columns \in 0..Latest /\ release \in 0..Latest /\ d.applied \in [1..Latest -> Nat]
        /\ d.applied[v] \in Nat
    BY <1>1, DatabaseFields, StartParameters
  <2>2. a \in [1..Latest -> Nat]
    <3>1. ASSUME NEW S, NEW f \in [S -> Nat], NEW k, NEW n \in Nat
          PROVE  [f EXCEPT ![k] = n] \in [S -> Nat]
      OBVIOUS
    <3>2. d.applied[v] + 1 \in Nat
      BY <2>1
    <3> HIDE DEF v
    <3> QED BY <2>1, <3>1, <3>2
  <2> QED BY <2>1, <2>2
<1>4. e \in Database
  <2>1. d.stamp \in 0..Latest /\ d.imports \in Nat
    BY <1>1, DatabaseFields
  <2> HIDE DEF v, a, c
  <2> QED BY <1>1, <1>3, <2>1 DEF Database, Version
<1>5. \A m \in 1..Latest : a[m] = IF m <= v THEN 1 ELSE 0
  BY <1>1, DatabaseFields, StartParameters DEF Sound
<1>6. /\ e.version = v /\ e.stamp = d.stamp /\ e.applied = a /\ e.imports = d.imports /\ e.meta
      /\ d.stamp <= v
  BY <1>1, DatabaseFields DEF Sound
<1> HIDE DEF e, a, v, c
<1> QED BY <1>2, <1>4, <1>5, <1>6 DEF Sound

LEMMA PrunedDirectories ==
  ASSUME NEW dirs \in Seq(Directory)
  PROVE  /\ Pruned(dirs) \in Seq(Directory)
         /\ \A j \in DOMAIN dirs : j <= Keep => j \in DOMAIN Pruned(dirs) /\ Pruned(dirs)[j] = dirs[j]
BY StartParameters DEF Pruned

LEMMA NewDirectories ==
  ASSUME NEW dirs \in Seq(Directory), NEW k \in {"partial", "json"},
         dirs = backups
  PROVE  /\ NewBackup(k, None) \in Seq(Directory)
         /\ Len(NewBackup(k, None)) > 0 /\ NewBackup(k, None)[1].kind = k
         /\ \A j \in DOMAIN dirs : /\ j + 1 \in DOMAIN NewBackup(k, None)
                                   /\ NewBackup(k, None)[j + 1] = dirs[j]
<1>1. [kind |-> k, of |-> None] \in Directory
  BY NoneIsSound DEF Directory, Sound
<1> DEFINE new == [kind |-> k, of |-> None]
<1> HIDE DEF new
<1>2. new.kind = k
  BY DEF new
<1> QED BY <1>1, <1>2 DEF NewBackup, new

LEMMA StartInitInv == StartInit => StartInv
<1> SUFFICES ASSUME StartInit PROVE StartInv
  OBVIOUS
<1>1. release \in 1..Latest /\ None \in Database /\ Sound(None)
  BY NoneIsSound DEF StartInit, Sound
<1>2. Sound(main)
  <2>1. CASE main = None
    BY <1>1, <2>1
  <2>2. CASE main # None
    <3>1. PICK v \in 0..release, s \in {0, release} : main = Left(v, s)
      BY <2>2 DEF StartInit
    <3>2. v \in 0..Latest /\ s \in 0..Latest
      BY <1>1, StartParameters
    <3>3. main.stamp = s /\ main.version = v
      BY <3>1 DEF Left, None
    <3>4. s <= v
      BY <3>3 DEF StartInit
    <3> QED BY <3>1, <3>2, <3>4, LeftIsSound
  <2> QED BY <2>1, <2>2
<1>3. StartTypes
  <2>1. backups = <<>> /\ <<>> \in Seq(Directory)
    BY DEF StartInit
  <2> QED BY <1>1, <2>1 DEF StartInit, StartTypes
<1>4. DatabasesAreSound
  BY <1>1, <1>2 DEF StartInit, DatabasesAreSound
<1>5. SchemaIsThere /\ ImportIsOnce
  BY DEF StartInit, SchemaIsThere, ImportIsOnce
<1>6. FoundIsBacked /\ FirstBackupStays
  BY NoneIsSound DEF StartInit, FoundIsBacked, FirstBackupStays
<1> QED BY <1>3, <1>4, <1>5, <1>6 DEF StartInv

-----------------------------------------------------------------------------
(* The steps of a start.                                                      *)

LEMMA CommitIsSound ==
  ASSUME StartInv, NEW d, Sound(d), Commit(d), UNCHANGED opened
  PROVE  DatabasesAreSound' /\ db' = d
<1>1. db' = d /\ log' \in {d, log} /\ main' = main /\ opened' = opened
  BY DEF Commit
<1>2. \A e \in {db', log', main', opened'} : Sound(e)
  BY <1>1 DEF StartInv, DatabasesAreSound
<1> QED BY <1>1, <1>2 DEF DatabasesAreSound, Sound

\* Between the backup and the end of the process.
LEMMA BackupsAreKept ==
  ASSUME StartInv, UNCHANGED <<release, fresh, opened, backups>>, seen \subseteq seen',
         UNCHANGED <<upset, cut, saved>> \/ NoUpgrade,
         at \notin {"off", "backup", "copy"}, at' \notin {"off", "backup", "copy"},
         db'.version = db.version \/ db.version < release
  PROVE  FoundIsBacked' /\ FirstBackupStays'
<1>1. opened.stamp >= release => opened.version >= release
  <2>1. opened \in Database /\ opened.stamp <= opened.version
    BY DEF StartInv, DatabasesAreSound, Sound
  <2>2. opened.stamp \in Nat /\ opened.version \in Nat /\ release \in Nat
    BY <2>1, DatabaseFields, StartParameters DEF StartInv, StartTypes
  <2> QED BY <2>1, <2>2
<1>2. opened.stamp >= release /\ db.version = opened.version => db'.version = db.version
  <2>1. release \in Nat /\ opened.version \in Nat
    BY DatabaseFields, StartParameters DEF StartInv, StartTypes, DatabasesAreSound, Sound
  <2> QED BY <1>1, <2>1
<1>3. \A j, d : HoldsAt(j, d) => HoldsAt(j, d)'
  BY DEF HoldsAt
<1>4. FoundIsBacked'
  <2>1. (fresh => ~opened.meta /\ ~saved)'
    BY DEF StartInv, FoundIsBacked, NoUpgrade
  <2>2. opened'.meta =>
          \/ "unsaved" \in seen'
          \/ \E j \in Nat : HoldsAt(j, opened)'
          \/ opened'.stamp >= release' /\ db'.version = opened'.version
    BY <1>2 DEF StartInv, FoundIsBacked, HoldsAt
  <2> QED BY <2>1, <2>2 DEF FoundIsBacked
<1>5. FirstBackupStays'
  BY DEF StartInv, FirstBackupStays, HoldsAt, NoUpgrade, Makers
<1> QED BY <1>4, <1>5

LEMMA MigrateInv == ASSUME StartInv, Migrate PROVE StartInv'
<1> DEFINE e == Stamped(Applied(db))
<1>1. Sound(e) /\ e.imports = db.imports
  BY MigratedIsSound DEF StartInv, StartTypes, DatabasesAreSound, Migrate
<1>2. Commit(e) /\ UNCHANGED <<release, native, at, fresh, backups, legacy, marker, historyVars>>
  BY DEF Migrate
<1> HIDE DEF e
<1>3. DatabasesAreSound' /\ db' = e
  BY <1>1, <1>2, CommitIsSound DEF historyVars
<1>4. at = "migrate" /\ at' = "migrate" /\ db.version < release
  BY <1>2 DEF Migrate
<1>5. FoundIsBacked' /\ FirstBackupStays'
  BY <1>2, <1>4, BackupsAreKept DEF historyVars
<1>6. SchemaIsThere' /\ ImportIsOnce'
  BY <1>1, <1>2, <1>3, <1>4 DEF SchemaIsThere, ImportIsOnce, StartInv
<1> QED BY <1>2, <1>3, <1>5, <1>6 DEF StartInv, StartTypes, historyVars, Directory, Database, Version

LEMMA SyncSchemaInv == ASSUME StartInv, SyncSchema PROVE StartInv'
<1> DEFINE e == [db EXCEPT !.columns = release]
<1>0. db \in Database /\ release \in 0..Latest /\ Sound(db)
  BY StartParameters DEF StartInv, StartTypes, DatabasesAreSound, Sound
<1>1. /\ e.version = db.version /\ e.stamp = db.stamp /\ e.imports = db.imports
      /\ e.meta = db.meta /\ e.applied = db.applied /\ e \in Database
  BY <1>0 DEF Database, Version
<1>2. Sound(e)
  <2> HIDE DEF e
  <2> QED BY <1>0, <1>1 DEF Sound
<1>3. UNCHANGED <<release, native, fresh, backups, legacy, marker, historyVars>>
  BY DEF SyncSchema
<1>4. at = "migrate" /\ at' = "stamp" /\ db.version >= release
  BY DEF SyncSchema, Reach
<1>5. Commit(e) \/ Commit(db) \/ UNCHANGED <<main, log, db>>
  BY DEF SyncSchema
<1> HIDE DEF e
<1>6. DatabasesAreSound' /\ db'.version = db.version /\ db'.imports = db.imports
  <2>1. CASE Commit(e) \/ Commit(db)
    BY <1>0, <1>1, <1>2, <1>3, <2>1, CommitIsSound DEF historyVars
  <2>2. CASE UNCHANGED <<main, log, db>>
    BY <1>3, <2>2 DEF StartInv, DatabasesAreSound, Sound, historyVars, Database, Version
  <2> QED BY <1>5, <2>1, <2>2
<1>7. FoundIsBacked' /\ FirstBackupStays'
  BY <1>3, <1>4, <1>6, BackupsAreKept DEF historyVars
<1>8. SchemaIsThere' /\ ImportIsOnce'
  BY <1>3, <1>4, <1>6 DEF SchemaIsThere, ImportIsOnce, StartInv
<1> QED BY <1>3, <1>6, <1>7, <1>8 DEF StartInv, StartTypes, historyVars, Directory, Database, Version

LEMMA StampInv == ASSUME StartInv, StampBackupVersion PROVE StartInv'
<1> DEFINE e == [db EXCEPT !.stamp = release, !.meta = TRUE]
<1>0. db \in Database /\ release \in 0..Latest /\ Sound(db) /\ db.version >= release
  BY StartParameters DEF StartInv, StartTypes, DatabasesAreSound, Sound, SchemaIsThere, StampBackupVersion
<1>1. /\ e.version = db.version /\ e.stamp = release /\ e.imports = db.imports
      /\ e.meta = TRUE /\ e.applied = db.applied /\ e \in Database
  BY <1>0 DEF Database, Version
<1>2. Sound(e)
  <2>1. release <= db.version
    BY <1>0, DatabaseFields, StartParameters
  <2> HIDE DEF e
  <2> QED BY <1>0, <1>1, <2>1 DEF Sound
<1>3. UNCHANGED <<release, native, fresh, backups, legacy, marker, historyVars>>
  BY DEF StampBackupVersion
<1>4. at = "stamp" /\ at' = "import" /\ Commit(e)
  BY DEF StampBackupVersion, Reach
<1> HIDE DEF e
<1>5. DatabasesAreSound' /\ db' = e
  BY <1>2, <1>3, <1>4, CommitIsSound DEF historyVars
<1>6. FoundIsBacked' /\ FirstBackupStays'
  BY <1>1, <1>3, <1>4, <1>5, BackupsAreKept DEF historyVars
<1>7. SchemaIsThere' /\ ImportIsOnce'
  BY <1>0, <1>1, <1>3, <1>4, <1>5 DEF SchemaIsThere, ImportIsOnce, StartInv
<1> QED BY <1>3, <1>5, <1>6, <1>7 DEF StartInv, StartTypes, historyVars, Directory, Database, Version

LEMMA ImportInv == ASSUME StartInv, Import PROVE StartInv'
<1> DEFINE e == [db EXCEPT !.imports = @ + 1]
<1>0. /\ db \in Database /\ Sound(db) /\ db.imports = 0 /\ db.meta
      /\ fresh /\ at = "importing" /\ db.version >= release /\ db.stamp = release
  BY DEF StartInv, DatabasesAreSound, Sound, ImportIsOnce, SchemaIsThere, Import
<1>1. /\ UNCHANGED <<release, native, fresh, backups, legacy, marker, boots, opened>>
      /\ seen \subseteq seen'
      /\ UNCHANGED <<upset, cut, saved>> \/ NoUpgrade
  BY DEF Import, Over
<1>2. /\ e.version = db.version /\ e.stamp = release /\ e.imports = 1
      /\ e.meta = TRUE /\ e.applied = db.applied /\ e \in Database
  BY <1>0 DEF Database
<1>3. Sound(e)
  <2> HIDE DEF e
  <2> QED BY <1>0, <1>2 DEF Sound
<1>4. \/ at' = "mark" /\ Commit(e)
      \/ at' \in {"ready", "failed"} /\ legacy # "good" /\ UNCHANGED <<main, log, db>>
  BY DEF Import, Over, Reach
<1> HIDE DEF e
<1>5. DatabasesAreSound' /\ db'.version = db.version /\ db'.stamp = release /\ db'.meta
  <2>1. CASE Commit(e)
    BY <1>1, <1>2, <1>3, <2>1, CommitIsSound
  <2>2. CASE UNCHANGED <<main, log, db>>
    BY <1>0, <1>1, <2>2 DEF StartInv, DatabasesAreSound, Sound, Database, Version
  <2> QED BY <1>4, <2>1, <2>2
<1>6. FoundIsBacked' /\ FirstBackupStays'
  BY <1>0, <1>1, <1>4, <1>5, BackupsAreKept
<1>7. SchemaIsThere' /\ ImportIsOnce'
  BY <1>0, <1>1, <1>2, <1>4, <1>5 DEF SchemaIsThere, ImportIsOnce, StartInv, Commit
<1>8. StartTypes'
  BY <1>1, NoneIsSound DEF StartInv, StartTypes, Directory, Database, Version, NoUpgrade, None, Sound
<1> QED BY <1>5, <1>6, <1>7, <1>8 DEF StartInv

\* The databases are not touched.
LEMMA SoundStays ==
  ASSUME StartInv, UNCHANGED <<main, log>>, db' \in {db, None}, opened' \in {opened, None}
  PROVE  DatabasesAreSound'
<1>1. \A d \in {main', log', db', opened'} : Sound(d)
  BY NoneIsSound DEF StartInv, DatabasesAreSound
<1> QED BY <1>1 DEF DatabasesAreSound, Sound, Database, Version

LEMMA NoUpgradeType == ASSUME NoUpgrade PROVE upset' \in Database /\ cut' \in Nat /\ saved' = FALSE
BY NoneIsSound DEF NoUpgrade, Sound

LEMMA QuietStepsInv ==
  ASSUME StartInv, \/ MigrationThrows \/ NothingToImport
  PROVE  StartInv'
<1>1. /\ UNCHANGED <<release, main, log, db, native, fresh, backups, legacy, marker, opened, seen>>
      /\ UNCHANGED <<upset, cut, saved>> \/ NoUpgrade
      /\ \/ at = "migrate" /\ at' = "failed"
         \/ at = "import" /\ at' = "ready" /\ ~ImportDue
  BY DEF MigrationThrows, NothingToImport, Over, Reach, historyVars
<1>2. DatabasesAreSound'
  BY <1>1, SoundStays
<1>3. FoundIsBacked' /\ FirstBackupStays'
  BY <1>1, BackupsAreKept
<1>4. SchemaIsThere' /\ ImportIsOnce'
  BY <1>1 DEF SchemaIsThere, ImportIsOnce, StartInv, ImportDue
<1>5. StartTypes'
  BY <1>1, NoUpgradeType DEF StartInv, StartTypes, Directory, Database, Version
<1> QED BY <1>2, <1>3, <1>4, <1>5 DEF StartInv

LEMMA DiskInv ==
  ASSUME StartInv, \/ Checkpoint \/ SaveFile
  PROVE  StartInv'
<1>1. /\ UNCHANGED <<release, db, native, at, fresh, backups, legacy, marker, historyVars>>
      /\ {main', log'} \subseteq {main, log, db}
  BY DEF Checkpoint, SaveFile
<1>2. DatabasesAreSound'
  <2>1. \A d \in {main', log', db', opened'} : Sound(d)
    BY <1>1 DEF StartInv, DatabasesAreSound, historyVars
  <2> QED BY <2>1 DEF DatabasesAreSound, Sound, Database, Version
<1>3. FoundIsBacked' /\ FirstBackupStays'
  BY <1>1 DEF StartInv, FoundIsBacked, FirstBackupStays, HoldsAt, Makers, historyVars, None
<1>4. SchemaIsThere' /\ ImportIsOnce'
  BY <1>1 DEF SchemaIsThere, ImportIsOnce, StartInv
<1>5. StartTypes'
  BY <1>1 DEF StartInv, StartTypes, Directory, Database, Version, historyVars
<1> QED BY <1>2, <1>3, <1>4, <1>5 DEF StartInv

LEMMA MakeBackupDirInv == ASSUME StartInv, MakeBackupDir PROVE StartInv'
<1>1. /\ UNCHANGED <<release, main, log, db, native, fresh, legacy, marker, historyVars>>
      /\ at = "backup" /\ at' = "copy" /\ backups' = NewBackup("partial", None)
  BY DEF MakeBackupDir, Reach
<1>2. DatabasesAreSound'
  BY <1>1, SoundStays DEF historyVars
<1>3. /\ backups \in Seq(Directory) /\ backups' \in Seq(Directory)
      /\ Len(backups') > 0 /\ backups'[1].kind = "partial"
      /\ \A j \in DOMAIN backups : j + 1 \in DOMAIN backups' /\ backups'[j + 1] = backups[j]
  BY <1>1, NewDirectories DEF StartInv, StartTypes
<1>4. FoundIsBacked'
  BY <1>1, <1>3 DEF StartInv, FoundIsBacked, historyVars
<1>5. FirstBackupStays'
  <2>1. (saved => upset # None)'
    BY <1>1 DEF StartInv, FirstBackupStays, historyVars, None
  <2>2. ASSUME saved, cut < Keep PROVE \E j \in 1..cut + 1 : HoldsAt(j, upset)'
    <3>1. PICK j \in 1..cut : HoldsAt(j, upset)
      BY <1>1, <2>2 DEF StartInv, FirstBackupStays, Makers
    <3>2. j + 1 \in 1..cut + 1
      BY DEF StartInv, StartTypes
    <3>3. HoldsAt(j + 1, upset)'
      BY <1>1, <1>3, <3>1 DEF HoldsAt, historyVars
    <3> QED BY <3>2, <3>3
  <2> QED BY <1>1, <2>1, <2>2 DEF FirstBackupStays, Makers, historyVars
<1>6. SchemaIsThere' /\ ImportIsOnce'
  BY <1>1 DEF SchemaIsThere, ImportIsOnce, StartInv
<1>7. StartTypes'
  BY <1>1, <1>3 DEF StartInv, StartTypes, Directory, Database, Version, historyVars
<1> QED BY <1>2, <1>4, <1>5, <1>6, <1>7 DEF StartInv

LEMMA BackupDbLiteInv == ASSUME StartInv, BackupDbLite PROVE StartInv'
<1> DEFINE dir == [kind |-> "database", of |-> db]
           dirs == [backups EXCEPT ![1] = dir]
<1>1. /\ UNCHANGED <<release, main, log, db, native, fresh, legacy, marker, opened, seen, upset, cut>>
      /\ at = "copy" /\ at' = "migrate" /\ backups' = Pruned(dirs)
      /\ saved' = (saved \/ db = upset)
  BY DEF BackupDbLite, Reach
<1>2. DatabasesAreSound'
  BY <1>1, SoundStays
<1>3. db = opened /\ opened.meta /\ ~fresh /\ Len(backups) > 0 /\ backups[1].kind = "partial"
  BY <1>1 DEF StartInv, FoundIsBacked
<1>4. dir \in Directory
  BY DEF StartInv, DatabasesAreSound, Sound, Directory
<1>5. dirs \in Seq(Directory) /\ DOMAIN dirs = DOMAIN backups /\ dirs[1] = dir /\ 1 \in DOMAIN backups
      /\ \A j \in DOMAIN backups : j # 1 => dirs[j] = backups[j]
  <2> HIDE DEF dir
  <2> QED BY <1>3, <1>4 DEF StartInv, StartTypes
<1> HIDE DEF dirs
<1>6. /\ backups' \in Seq(Directory)
      /\ \A j \in DOMAIN dirs : j <= Keep => j \in DOMAIN backups' /\ backups'[j] = dirs[j]
  BY <1>1, <1>5, PrunedDirectories
<1>7. HoldsAt(1, db)'
  BY <1>1, <1>5, <1>6, StartParameters DEF HoldsAt
<1>8. FoundIsBacked'
  BY <1>1, <1>3, <1>7 DEF FoundIsBacked, HoldsAt
<1>9. FirstBackupStays'
  <2>1. (saved => upset # None)'
    BY <1>1, <1>3, NoneIsSound DEF StartInv, FirstBackupStays, None
  <2>2. ASSUME saved', cut < Keep PROVE \E j \in 1..cut + 1 : HoldsAt(j, upset)'
    <3>1. CASE db = upset
      <4>1. 1 \in 1..cut + 1
        BY DEF StartInv, StartTypes
      <4> QED BY <1>1, <1>7, <3>1, <4>1 DEF HoldsAt
    <3>2. CASE db # upset
      <4>1. PICK j \in 1..cut + 1 : HoldsAt(j, upset)
        BY <1>1, <2>2, <3>2 DEF StartInv, FirstBackupStays, Makers
      <4>2. j # 1 /\ j <= Keep
        BY <1>3, <2>2, <4>1, StartParameters DEF HoldsAt, StartInv, StartTypes
      <4>3. HoldsAt(j, upset)'
        BY <1>1, <1>5, <1>6, <4>1, <4>2 DEF HoldsAt
      <4> QED BY <4>3
    <3> QED BY <3>1, <3>2
  <2> QED BY <1>1, <2>1, <2>2 DEF FirstBackupStays, Makers
<1>10. SchemaIsThere' /\ ImportIsOnce'
  BY <1>1, <1>3 DEF SchemaIsThere, ImportIsOnce
<1>11. StartTypes'
  BY <1>1, <1>6 DEF StartInv, StartTypes, Directory, Database, Version
<1> QED BY <1>2, <1>8, <1>9, <1>10, <1>11 DEF StartInv

LEMMA BackupFailsInv == ASSUME StartInv, BackupFails PROVE StartInv'
<1>1. /\ UNCHANGED <<release, main, log, db, native, fresh, backups, legacy, marker,
                     opened, upset, cut, saved>>
      /\ at \in {"backup", "copy"} /\ at' = "migrate" /\ "unsaved" \in seen'
  BY DEF BackupFails, Reach
<1>2. DatabasesAreSound'
  BY <1>1, SoundStays
<1>3. FoundIsBacked'
  BY <1>1 DEF StartInv, FoundIsBacked
<1>4. FirstBackupStays'
  BY <1>1 DEF StartInv, StartTypes, FirstBackupStays, HoldsAt, Makers, None
<1>5. SchemaIsThere' /\ ImportIsOnce'
  BY <1>1 DEF SchemaIsThere, ImportIsOnce, StartInv, FoundIsBacked
<1>6. StartTypes'
  BY <1>1 DEF StartInv, StartTypes, Directory, Database, Version
<1> QED BY <1>2, <1>3, <1>4, <1>5, <1>6 DEF StartInv

\* Only a new database is imported into, and it has nothing to back up.
LEMMA JsonInv == ASSUME StartInv, BackupJson \/ Mark PROVE StartInv'
<1>1. /\ UNCHANGED <<release, main, log, db, native, fresh, legacy, opened, seen>>
      /\ UNCHANGED <<upset, cut, saved>> \/ NoUpgrade
      /\ \/ at = "import" /\ at' \in {"importing", "failed"} /\ ImportDue /\ marker' = marker
         \/ at = "mark" /\ at' = "ready" /\ (marker' = TRUE \/ marker' = marker)
      /\ \/ backups' = NewBackup("json", None) \/ backups' = NewBackup("partial", None)
         \/ backups' = Pruned(backups)
  <2>1. CASE BackupJson
    BY <2>1 DEF BackupJson, Reach, historyVars
  <2>2. CASE Mark
    <3>1. /\ UNCHANGED <<release, main, log, db, native, fresh, legacy, opened, seen>>
          /\ at = "mark" /\ at' = "ready" /\ NoUpgrade /\ backups' = Pruned(backups)
      BY <2>2, Zenon DEF Mark, Over, Reach
    <3>2. marker' = TRUE \/ marker' = marker
      BY <2>2, Zenon DEF Mark
    <3> QED BY <3>1, <3>2
  <2> QED BY <2>1, <2>2, Zenon
<1>2. /\ UNCHANGED <<release, main, log, db, native, fresh, legacy, opened, seen>>
      /\ \/ at = "import" /\ at' \in {"importing", "failed"} /\ ImportDue /\ marker' = marker
         \/ at = "mark" /\ at' = "ready" /\ (marker' = TRUE \/ marker' = marker)
  BY <1>1
<1>3. fresh /\ ~opened.meta /\ ~saved
  BY <1>2 DEF StartInv, FoundIsBacked, ImportIsOnce, ImportDue
<1>4. backups' \in Seq(Directory)
  BY <1>1, NewDirectories, PrunedDirectories DEF StartInv, StartTypes
<1>5. ~saved' /\ upset' \in Database /\ cut' \in Nat /\ saved' \in BOOLEAN
  <2>1. CASE UNCHANGED <<upset, cut, saved>>
    BY <1>3, <2>1, Zenon DEF StartInv, StartTypes
  <2>2. CASE NoUpgrade
    <3>1. upset' \in Database /\ cut' \in Nat /\ saved' = FALSE
      BY <2>2, NoUpgradeType, Zenon
    <3> QED BY <3>1
  <2> QED BY <1>1, <2>1, <2>2, Zenon
<1>6. DatabasesAreSound'
  BY <1>1, SoundStays
<1>7. FoundIsBacked' /\ FirstBackupStays'
  <2>1. fresh' /\ ~opened'.meta /\ at' \notin {"backup", "copy"}
    BY <1>1, <1>2, <1>3
  <2> QED BY <1>5, <2>1 DEF FoundIsBacked, FirstBackupStays
<1>8. SchemaIsThere' /\ ImportIsOnce'
  BY <1>1, <1>2, <1>3 DEF SchemaIsThere, ImportIsOnce, StartInv
<1>9. StartTypes'
  BY <1>1, <1>2, <1>4, <1>5 DEF StartInv, StartTypes, Directory, Database, Version
<1> QED BY <1>6, <1>7, <1>8, <1>9 DEF StartInv

-----------------------------------------------------------------------------
(* Starts begin and end.                                                      *)

LEMMA OpenInv == ASSUME StartInv, NEW n \in BOOLEAN, Open(n) PROVE StartInv'
<1>1. /\ UNCHANGED <<release, legacy, marker>> /\ native' = n /\ at = "off"
      /\ main' = main /\ db' \in {main, log} /\ log' = db' /\ opened' = db' /\ seen' = {}
      /\ (fresh' <=> ~db'.meta) /\ fresh' \in BOOLEAN /\ backups' = Pruned(backups)
  BY DEF Open, Drive
<1>2. \/ fresh' /\ at' = "migrate" /\ NoUpgrade
      \/ /\ ~fresh' /\ SchemaChanging(db') /\ at' = "backup"
         /\ upset' = (IF upset = None THEN db' ELSE upset) /\ UNCHANGED <<cut, saved>>
      \/ ~fresh' /\ ~SchemaChanging(db') /\ at' = "migrate" /\ UNCHANGED <<upset, cut, saved>>
  <2>1. CASE fresh'
    BY <2>1 DEF Open, Reach
  <2>2. CASE ~fresh' /\ SchemaChanging(db')
    BY <2>2 DEF Open, Reach
  <2>3. CASE ~fresh' /\ ~SchemaChanging(db')
    BY <2>3 DEF Open, Reach
  <2> QED BY <2>1, <2>2, <2>3
<1>3. /\ Sound(db') /\ db' \in Database /\ (fresh' => db'.imports = 0)
      /\ db'.stamp \in Nat /\ db'.version \in Nat /\ release \in Nat
  <2>1. Sound(db') /\ db' \in Database
    BY <1>1 DEF StartInv, DatabasesAreSound, Sound
  <2>2. db'.stamp \in Nat /\ db'.version \in Nat
    BY <2>1, DatabaseFields
  <2> QED BY <1>1, <2>1, <2>2, StartParameters DEF Sound, StartInv, StartTypes
<1>4. DatabasesAreSound'
  <2>1. \A d \in {main', log', db', opened'} : Sound(d)
    BY <1>1, <1>3 DEF StartInv, DatabasesAreSound
  <2> QED BY <2>1 DEF DatabasesAreSound, Sound, Database, Version
<1>5. /\ backups' \in Seq(Directory)
      /\ \A j \in DOMAIN backups : j <= Keep => j \in DOMAIN backups' /\ backups'[j] = backups[j]
  BY <1>1, PrunedDirectories DEF StartInv, StartTypes
<1>6. (saved' => saved /\ upset' = upset /\ cut' = cut) /\ saved' \in BOOLEAN
      /\ upset' \in Database /\ cut' \in Nat
  <2>1. CASE NoUpgrade
    <3>1. upset' \in Database /\ cut' \in Nat /\ saved' = FALSE
      BY <2>1, NoUpgradeType, Zenon
    <3> QED BY <3>1
  <2>2. CASE /\ upset' = (IF upset = None THEN db' ELSE upset) /\ UNCHANGED <<cut, saved>>
    BY <1>3, <2>2 DEF StartInv, StartTypes, FirstBackupStays
  <2>3. CASE UNCHANGED <<upset, cut, saved>>
    BY <2>3 DEF StartInv, StartTypes
  <2> QED BY <1>2, <2>1, <2>2, <2>3, Zenon
<1>7. FoundIsBacked'
  <2>1. fresh' => ~opened'.meta /\ ~saved'
    BY <1>1, <1>2 DEF NoUpgrade
  <2>2. at' \in {"backup", "migrate"} /\ (at' = "backup" => ~fresh')
    BY <1>2
  <2>3. at' = "migrate" /\ opened'.meta => opened'.stamp >= release
    BY <1>1, <1>2, <1>3 DEF SchemaChanging
  <2> QED BY <1>1, <2>1, <2>2, <2>3 DEF FoundIsBacked
<1>8. FirstBackupStays'
  <2>1. (saved => upset # None)'
    BY <1>6 DEF StartInv, FirstBackupStays, None
  <2>2. ASSUME saved', cut' < Keep PROVE \E j \in 1..Makers' : HoldsAt(j, upset)'
    <3>1. PICK j \in 1..cut : HoldsAt(j, upset)
      BY <1>1, <1>6, <2>2 DEF StartInv, FirstBackupStays, Makers
    <3>2. j <= Keep
      BY <1>6, <2>2, StartParameters DEF StartInv, StartTypes
    <3>3. HoldsAt(j, upset)'
      BY <1>5, <1>6, <2>2, <3>1, <3>2 DEF HoldsAt
    <3>4. Makers' = cut \/ Makers' = cut + 1
      BY <1>6, <2>2 DEF Makers
    <3>5. j \in 1..cut /\ j \in 1..cut + 1
      BY DEF StartInv, StartTypes
    <3> QED BY <3>3, <3>4, <3>5
  <2> QED BY <2>1, <2>2 DEF FirstBackupStays
<1>9. SchemaIsThere' /\ ImportIsOnce'
  BY <1>2, <1>3 DEF SchemaIsThere, ImportIsOnce
<1>10. StartTypes'
  BY <1>1, <1>5, <1>6 DEF StartInv, StartTypes, Directory, Database, Version
<1> QED BY <1>4, <1>7, <1>8, <1>9, <1>10 DEF StartInv

LEMMA NoDriverInv == ASSUME StartInv, NoDriver PROVE StartInv'
<1>1. /\ UNCHANGED <<release, main, log, db, backups, legacy, marker, upset, cut, saved>>
      /\ at = "off" /\ at' = "failed" /\ opened' = None /\ native' = TRUE /\ fresh' = FALSE
  BY DEF NoDriver, Reach
<1>2. DatabasesAreSound'
  BY <1>1, SoundStays
<1>3. FoundIsBacked'
  BY <1>1, NoneIsSound DEF FoundIsBacked
<1>4. FirstBackupStays'
  <2>1. \A j \in 1..cut : j \in 1..cut + 1
    BY DEF StartInv, StartTypes
  <2> QED BY <1>1, <2>1 DEF StartInv, FirstBackupStays, HoldsAt, Makers, None
<1>5. SchemaIsThere' /\ ImportIsOnce'
  BY <1>1 DEF SchemaIsThere, ImportIsOnce
<1>6. StartTypes'
  BY <1>1 DEF StartInv, StartTypes, Directory, Database, Version
<1> QED BY <1>2, <1>3, <1>4, <1>5, <1>6 DEF StartInv

LEMMA StopInv == ASSUME StartInv, Stop PROVE StartInv'
<1>1. /\ UNCHANGED <<release, main, log, native, backups, legacy, marker, upset, saved>>
      /\ at # "off" /\ at' = "off" /\ opened' = None /\ db' = None /\ fresh' = FALSE
      /\ cut' = IF upset # None THEN cut + 1 ELSE cut
  BY DEF Stop, Reach
<1>2. DatabasesAreSound'
  BY <1>1, SoundStays
<1>3. FoundIsBacked'
  BY <1>1, NoneIsSound DEF FoundIsBacked
<1>4. FirstBackupStays'
  <2>1. cut \in Nat /\ Keep \in Nat /\ \A j \in 1..Makers : j \in 1..cut + 1
    BY StartParameters DEF StartInv, StartTypes, Makers
  <2>2. saved => upset # None /\ cut' = cut + 1
    BY <1>1 DEF StartInv, FirstBackupStays
  <2>3. (saved => upset # None)'
    BY <1>1, <2>2 DEF None
  <2>4. ASSUME saved, cut + 1 < Keep PROVE \E j \in 1..cut + 1 : HoldsAt(j, upset)
    BY <2>1, <2>4 DEF StartInv, FirstBackupStays
  <2> QED BY <1>1, <2>2, <2>3, <2>4 DEF FirstBackupStays, HoldsAt, Makers
<1>5. SchemaIsThere' /\ ImportIsOnce'
  BY <1>1 DEF SchemaIsThere, ImportIsOnce
<1>6. StartTypes'
  <2>1. cut' \in Nat
    BY <1>1 DEF StartInv, StartTypes
  <2> QED BY <1>1, <2>1 DEF StartInv, StartTypes, Directory, Database, Version
<1> QED BY <1>2, <1>3, <1>4, <1>5, <1>6 DEF StartInv

LEMMA UserInv ==
  ASSUME StartInv, \/ \E r \in 1..Latest : Install(r)
                   \/ Wipe \/ MendLegacy \/ UNCHANGED startVars
  PROVE  StartInv'
<1>1. CASE UNCHANGED startVars
  <2>1. /\ UNCHANGED <<release, main, log, db, native, at, fresh, backups, legacy, marker>>
        /\ UNCHANGED historyVars
    BY <1>1 DEF startVars, historyVars
  <2>2. DatabasesAreSound'
    BY <2>1, SoundStays DEF historyVars
  <2>3. FoundIsBacked' /\ FirstBackupStays'
    BY <2>1 DEF StartInv, FoundIsBacked, FirstBackupStays, HoldsAt, Makers, None, historyVars
  <2>4. SchemaIsThere' /\ ImportIsOnce'
    BY <2>1 DEF StartInv, SchemaIsThere, ImportIsOnce
  <2>5. StartTypes'
    BY <2>1 DEF StartInv, StartTypes, Directory, Database, Version, historyVars
  <2> QED BY <2>2, <2>3, <2>4, <2>5 DEF StartInv
<1>2. CASE (\E r \in 1..Latest : Install(r)) \/ MendLegacy
  <2>1. /\ UNCHANGED <<main, log, db, native, at, fresh, backups, marker, historyVars>>
        /\ at = "off" /\ release' \in 1..Latest
    BY <1>2 DEF Install, MendLegacy, StartInv, StartTypes
  <2>2. DatabasesAreSound'
    BY <2>1, SoundStays DEF historyVars
  <2>3. FoundIsBacked' /\ FirstBackupStays'
    BY <2>1 DEF StartInv, FoundIsBacked, FirstBackupStays, HoldsAt, Makers, None, historyVars
  <2>4. SchemaIsThere' /\ ImportIsOnce'
    BY <2>1 DEF SchemaIsThere, ImportIsOnce
  <2>5. StartTypes'
    BY <2>1 DEF StartInv, StartTypes, Directory, Database, Version, historyVars
  <2> QED BY <2>2, <2>3, <2>4, <2>5 DEF StartInv
<1>3. CASE Wipe
  <2>1. /\ UNCHANGED <<release, db, native, at, fresh, backups, legacy, marker, opened, seen>>
        /\ at = "off" /\ main' = None /\ log' = None /\ NoUpgrade
    BY <1>3 DEF Wipe
  <2>2. DatabasesAreSound'
    <3>1. \A d \in {main', log', db', opened'} : Sound(d)
      BY <2>1, NoneIsSound DEF StartInv, DatabasesAreSound
    <3> QED BY <3>1 DEF DatabasesAreSound, Sound, Database, Version
  <2>3. FoundIsBacked' /\ FirstBackupStays'
    <3>1. saved' = FALSE
      BY <2>1 DEF NoUpgrade
    <3> QED BY <2>1, <3>1 DEF StartInv, FoundIsBacked, FirstBackupStays
  <2>4. SchemaIsThere' /\ ImportIsOnce'
    BY <2>1 DEF SchemaIsThere, ImportIsOnce
  <2>5. StartTypes'
    <3>1. upset' \in Database /\ cut' \in Nat /\ saved' = FALSE
      BY <2>1, NoUpgradeType, Zenon
    <3> QED BY <2>1, <3>1 DEF StartInv, StartTypes, Directory, Database, Version
  <2> QED BY <2>2, <2>3, <2>4, <2>5 DEF StartInv
<1> QED BY <1>1, <1>2, <1>3

LEMMA StartStepInv == StartInv /\ [StartNext]_startVars => StartInv'
<1> SUFFICES ASSUME StartInv, [StartNext]_startVars PROVE StartInv'
  OBVIOUS
<1>1. CASE \E n \in BOOLEAN : Open(n)
  BY <1>1, OpenInv
<1>2. CASE NoDriver \/ MakeBackupDir \/ BackupDbLite \/ BackupFails
  BY <1>2, NoDriverInv, MakeBackupDirInv, BackupDbLiteInv, BackupFailsInv
<1>3. CASE Migrate \/ MigrationThrows \/ SyncSchema \/ StampBackupVersion
  BY <1>3, MigrateInv, QuietStepsInv, SyncSchemaInv, StampInv
<1>4. CASE NothingToImport \/ BackupJson \/ Import \/ Mark
  BY <1>4, QuietStepsInv, JsonInv, ImportInv
<1>5. CASE Checkpoint \/ SaveFile \/ Stop
  BY <1>5, DiskInv, StopInv
<1>6. CASE \/ \E r \in 1..Latest : Install(r)
           \/ Wipe \/ MendLegacy \/ UNCHANGED startVars
  BY <1>6, UserInv
<1> QED BY <1>1, <1>2, <1>3, <1>4, <1>5, <1>6 DEF StartNext

\* runMigrationOnce: wherever starts are cut short, under either driver and any
\* sequence of releases, a migration is applied once, an upgrade can be undone,
\* the JSON files arrive once and a start that is over leaves its schema.
THEOREM StartsAreSafe == StartSpec => []StartIsSafe
<1>1. StartInv => StartIsSafe
  <2> SUFFICES ASSUME StartInv PROVE StartIsSafe
    OBVIOUS
  <2>1. EachMigrationOnce
    BY DEF StartInv, DatabasesAreSound, Sound, EachMigrationOnce
  <2>2. UpgradesAreBackedUp
    <3>1. ASSUME at # "off", opened.meta, Changed, "unsaved" \notin seen PROVE Backed(opened)
      <4>1. at \notin {"backup", "copy"}
        <5>1. release \in Nat /\ opened.stamp \in Nat /\ opened.version \in Nat
          BY DatabaseFields, StartParameters DEF StartInv, StartTypes, DatabasesAreSound, Sound
        <5> QED BY <3>1, <5>1 DEF StartInv, FoundIsBacked, Changed
      <4>2. ~(opened.stamp >= release /\ db.version = opened.version)
        <5>1. release \in Nat /\ opened.stamp \in Nat
          BY DatabaseFields, StartParameters DEF StartInv, StartTypes, DatabasesAreSound, Sound
        <5> QED BY <3>1, <5>1 DEF Changed
      <4> QED BY <3>1, <4>1, <4>2 DEF StartInv, FoundIsBacked, Backed, HoldsAt
    <3>2. saved /\ cut < Keep => Backed(upset)
      BY DEF StartInv, FirstBackupStays, Backed, HoldsAt
    <3> QED BY <3>1, <3>2 DEF UpgradesAreBackedUp
  <2>3. LegacyArrivesOnce
    BY DEF StartInv, DatabasesAreSound, Sound, ImportIsOnce, LegacyArrivesOnce
  <2>4. SchemaIsReached
    BY DEF StartInv, SchemaIsThere, SchemaIsReached
  <2> QED BY <2>1, <2>2, <2>3, <2>4 DEF StartIsSafe
<1> QED BY <1>1, StartInitInv, StartStepInv, PTL DEF StartSpec

-----------------------------------------------------------------------------
(* Catalog: the invariants are stated for the tables as they are and for the  *)
(* exported ones, which an import puts in their place.                        *)

Providers == Node \cup {BuiltIn}
Connection == [on : BOOLEAN, provider : Providers, name : Nat, priority : Nat, url : Nat,
               pool : Pool \cup {Direct}]
Request == [op : {"idle", "postPool", "postNode", "postWrite", "putPool", "putWrite",
                  "edit", "editList", "editCopy", "unpool"},
            conn : Nat, node : Node, name : Nat, pool : Pool \cup {Direct}, priority : Nat,
            url : Nat, todo : SUBSET [conn : Conn, pool : Pool \cup {Direct}]]

\* What each request knows of what it read.
Knows(r, un) ==
  /\ r.op \in {"putPool", "putWrite"} => r.conn \in Conn
  /\ r.op \in {"edit", "editList", "editCopy"} => r.url # 0
  /\ r.op = "postWrite" => r.node \notin un

\* An id that was not given out names nothing.
Issued(ns, cs) ==
  /\ \A n \in Node \cap unused : ns[n] = 0
  /\ \A c \in Conn : cs[c].on => c \notin unused /\ cs[c].provider \notin Node \cap unused

Ranked(cs, p) == {cs[c].priority : c \in Of(cs, p)} = 1..Cardinality(Of(cs, p))
AllRanked(cs, ms) == \A p \in Providers \ ms : Ranked(cs, p)

Pooled(ps, cs, st) == \A c \in Conn : cs[c].on /\ cs[c].pool \notin ps \cup {Direct} => c \in st

Served(ns, bs, st) == \A b \in Combo \ st : \A n \in Node \cap bs[b] : ns[n] # 0

CopyDiffers(ns, r) == r.on /\ r.provider \in Node /\ ns[r.provider] # r.url

\* A request that will copy the URL of node n to connection c.
Follows(r, n, c) ==
  /\ r.node = n
  /\ \/ r.op = "editList"
     \/ r.op = "editCopy" /\ \E t \in r.todo : t.conn = c

CopiesFollow ==
  \A c \in Conn : CopyDiffers(nodes, conns[c]) /\ c \notin stale =>
    /\ nodes[conns[c].provider] # 0
    /\ \E e \in Editor : Follows(editing[e], conns[c].provider, c)

EditingInv == editing \in [Editor -> Request] /\ \A e \in Editor : Knows(editing[e], unused)

TablesInv ==
  /\ nodes \in [Node -> Nat] /\ pools \subseteq Pool /\ conns \in [Conn -> Connection]
  /\ combos \in [Combo -> SUBSET (Node \cup {Other})]
  /\ Issued(nodes, conns) /\ AllRanked(conns, merged)
  /\ Pooled(pools, conns, stale) /\ Served(nodes, combos, stale)
  /\ CopiesFollow

ExportedInv ==
  /\ exported.nodes \in [Node -> Nat] /\ exported.pools \subseteq Pool
  /\ exported.conns \in [Conn -> Connection]
  /\ exported.combos \in [Combo -> SUBSET (Node \cup {Other})]
  /\ Issued(exported.nodes, exported.conns)
  /\ AllRanked(exported.conns, exported.merged)
  /\ Pooled(exported.pools, exported.conns, exported.stale)
  /\ Served(exported.nodes, exported.combos, exported.stale)
  /\ \A c \in Conn : CopyDiffers(exported.nodes, exported.conns[c]) => c \in exported.stale

CatalogInv == EditingInv /\ TablesInv /\ ExportedInv

LEMMA CatalogParameters ==
  /\ FirstNode \in Node /\ MaxUrl \in Nat /\ MaxConn \in Nat /\ MaxConn >= 2
  /\ BuiltIn \notin Node /\ Other \notin Node /\ (Node \cup Combo) \cap Conn = {}
  /\ 1 \in Conn /\ Conn \subseteq Nat /\ IsFiniteSet(Conn)
<1>1. /\ FirstNode \in Node /\ MaxUrl \in Nat /\ MaxConn \in Nat /\ MaxConn >= 2
      /\ BuiltIn \notin Node /\ Other \notin Node /\ (Node \cup Combo) \cap Conn = {}
  BY CatalogAssumption
<1>2. IsFiniteSet(1..MaxConn)
  BY <1>1, FS_Interval
<1> QED BY <1>1, <1>2 DEF Conn

LEMMA OfIsFinite ==
  ASSUME NEW cs, NEW p
  PROVE  /\ Of(cs, p) \subseteq Conn /\ IsFiniteSet(Of(cs, p)) /\ Cardinality(Of(cs, p)) \in Nat
<1>1. Of(cs, p) \subseteq Conn
  BY DEF Of
<1> QED BY <1>1, CatalogParameters, FS_Subset, FS_CardinalityType

LEMMA IdleFacts == Idle \in Request /\ Idle.op = "idle" /\ \A un : Knows(Idle, un)
BY CatalogParameters DEF Idle, Request, Knows

\* The rows of a provider decide its order.
LEMMA SameRank ==
  ASSUME NEW cs, NEW ds, NEW p, Ranked(cs, p),
         \A c \in Conn : (cs[c].on /\ cs[c].provider = p) <=> (ds[c].on /\ ds[c].provider = p),
         \A c \in Of(cs, p) : ds[c].priority = cs[c].priority
  PROVE  Ranked(ds, p)
<1>1. Of(cs, p) = Of(ds, p)
  BY DEF Of
<1>2. {cs[c].priority : c \in Of(cs, p)} = {ds[c].priority : c \in Of(ds, p)}
  BY <1>1
<1> QED BY <1>1, <1>2 DEF Ranked

SameReferences(r, s) == r.on = s.on /\ r.provider = s.provider /\ r.url = s.url /\ r.pool = s.pool

AnyPriority(P) == [on : BOOLEAN, provider : Providers, name : Nat, priority : P, url : Nat,
                   pool : Pool \cup {Direct}]

LEMMA Reprioritised ==
  ASSUME NEW P, NEW r \in AnyPriority(P), NEW k \in Nat, NEW s, s = [r EXCEPT !.priority = k]
  PROVE  s \in Connection /\ s.priority = k /\ SameReferences(s, r)
<1>1. s = [on |-> r.on, provider |-> r.provider, name |-> r.name, priority |-> k, url |-> r.url,
           pool |-> r.pool]
  BY DEF AnyPriority
<1>2. /\ r.on \in BOOLEAN /\ r.provider \in Providers /\ r.name \in Nat /\ r.url \in Nat
      /\ r.pool \in Pool \cup {Direct}
  BY DEF AnyPriority
<1>3. s \in Connection
  BY <1>1, <1>2 DEF Connection
<1> QED BY <1>1, <1>3 DEF SameReferences

LEMMA PlacesCount ==
  ASSUME NEW n \in Nat
  PROVE  IsFiniteSet(1..n) /\ Cardinality(1..n) = n
BY FS_Interval

\* An order of a provider's connections uses every number up to theirs.
LEMMA OrderRanks ==
  ASSUME NEW P, NEW cs \in [Conn -> AnyPriority(P)], NEW p, NEW f \in Orders(cs, p), NEW ds,
         ds = [c \in Conn |-> IF c \in Of(cs, p) THEN [cs[c] EXCEPT !.priority = f[c]] ELSE cs[c]],
         \A c \in Conn \ Of(cs, p) : cs[c].priority \in Nat
  PROVE  /\ ds \in [Conn -> Connection] /\ Ranked(ds, p)
         /\ \A c \in Conn : SameReferences(ds[c], cs[c])
         /\ \A c \in Conn \ Of(cs, p) : ds[c] = cs[c]
<1> DEFINE S == Of(cs, p)
           n == Cardinality(S)
<1>1. S \subseteq Conn /\ IsFiniteSet(S) /\ n \in Nat
  BY OfIsFinite
<1>2. f \in [S -> 1..n] /\ \A c, d \in S : c # d => f[c] # f[d]
  BY DEF Orders
<1> HIDE DEF S, n
<1>3. \A c \in S : /\ ds[c].priority = f[c] /\ SameReferences(ds[c], cs[c])
                   /\ ds[c] \in Connection
  <2> SUFFICES ASSUME NEW c \in S
               PROVE  /\ ds[c].priority = f[c] /\ SameReferences(ds[c], cs[c])
                      /\ ds[c] \in Connection
    OBVIOUS
  <2>1. ds[c] = [cs[c] EXCEPT !.priority = f[c]] /\ cs[c] \in AnyPriority(P)
    BY <1>1 DEF S
  <2>2. f[c] \in Nat
    BY <1>1, <1>2
  <2> QED BY <2>1, <2>2, Reprioritised
<1>4. \A c \in Conn \ S : ds[c] = cs[c]
  BY DEF S
<1>5. \A c \in Conn \ S : ds[c] \in Connection
  BY <1>4 DEF AnyPriority, Connection, S
<1>6. \A c \in Conn : SameReferences(ds[c], cs[c])
  BY <1>3, <1>4 DEF SameReferences
<1>7. ds \in [Conn -> Connection]
  <2>1. \A c \in Conn : ds[c] \in Connection
    BY <1>3, <1>5
  <2>2. ds = [c \in Conn |-> ds[c]]
    BY DEF S
  <2> QED BY <2>1, <2>2
<1>8. Of(ds, p) = S
  BY <1>6 DEF Of, S, SameReferences
<1>9. {ds[c].priority : c \in S} = 1..n
  <2>1. f \in Injection(S, 1..n)
    BY <1>2 DEF Injection, IsInjective
  <2>2. IsFiniteSet(1..n) /\ Cardinality(1..n) = n
    BY <1>1, PlacesCount
  <2>3. f \in Surjection(S, 1..n)
    BY <2>1, <2>2, FS_Injection DEF n
  <2>4. \A k \in 1..n : \E c \in S : f[c] = k
    BY <2>3 DEF Surjection
  <2>5. {ds[c].priority : c \in S} = {f[c] : c \in S}
    BY <1>3
  <2>6. \A c \in S : f[c] \in 1..n
    BY <1>2
  <2>7. {f[c] : c \in S} = 1..n
    BY <2>4, <2>6
  <2> QED BY <2>5, <2>7
<1> QED BY <1>4, <1>6, <1>7, <1>8, <1>9 DEF Ranked, S, n

LEMMA EditingStep ==
  ASSUME EditingInv, NEW e \in Editor, NEW r \in Request, Knows(r, unused'), Goto(e, r),
         unused' \subseteq unused
  PROVE  EditingInv'
<1>1. \A x \in Editor : editing'[x] = IF x = e THEN r ELSE editing[x]
  BY DEF EditingInv, Goto
<1>2. editing' \in [Editor -> Request]
  BY DEF EditingInv, Goto
<1>3. \A x \in Editor : Knows(editing'[x], unused')
  <2>1. \A q : Knows(q, unused) => Knows(q, unused')
    BY DEF Knows
  <2> QED BY <1>1, <2>1 DEF EditingInv
<1> QED BY <1>2, <1>3 DEF EditingInv

LEMMA FollowsKept ==
  ASSUME EditingInv, NEW e \in Editor, NEW r, Goto(e, r), NEW n, NEW c,
         Follows(editing[e], n, c) => Follows(r, n, c)
  PROVE  \A x \in Editor : Follows(editing[x], n, c) => Follows(editing'[x], n, c)
BY DEF EditingInv, Goto

LEMMA IdleFollowsNothing == \A n, c : ~Follows(Idle, n, c)
BY IdleFacts DEF Follows

LEMMA RanksKept ==
  ASSUME TablesInv, UNCHANGED <<conns, merged>>
  PROVE  AllRanked(conns, merged)'
<1>1. AllRanked(conns, merged)
  BY DEF TablesInv
<1> QED BY <1>1 DEF AllRanked, Ranked, Of

LEMMA PoolsKept ==
  ASSUME TablesInv, UNCHANGED <<pools, conns, stale>>
  PROVE  Pooled(pools, conns, stale)'
BY DEF TablesInv, Pooled

\* Neither the tables nor what was written too late change.
LEMMA Untouched ==
  ASSUME TablesInv, UNCHANGED <<tables, merged, stale>>, unused' \subseteq unused,
         \A c \in Conn : conns[c].on =>
           \A x \in Editor : Follows(editing[x], conns[c].provider, c) =>
                             Follows(editing'[x], conns[c].provider, c)
  PROVE  TablesInv'
<1>1. CopiesFollow'
  BY DEF TablesInv, CopiesFollow, CopyDiffers, tables
<1>2. Issued(nodes, conns)'
  BY DEF TablesInv, Issued, tables
<1>3. AllRanked(conns, merged)'
  BY RanksKept DEF tables
<1>4. Pooled(pools, conns, stale)' /\ Served(nodes, combos, stale)'
  BY DEF TablesInv, Pooled, Served, tables
<1> QED BY <1>1, <1>2, <1>3, <1>4 DEF TablesInv, tables

LEMMA StillExported ==
  ASSUME ExportedInv, UNCHANGED exported, unused' \subseteq unused
  PROVE  ExportedInv'
<1>1. Issued(exported.nodes, exported.conns)'
  BY DEF ExportedInv, Issued
<1>2. AllRanked(exported.conns, exported.merged)'
  <2>1. AllRanked(exported.conns, exported.merged)
    BY DEF ExportedInv
  <2> QED BY <2>1 DEF AllRanked, Ranked, Of
<1>3. /\ Pooled(exported.pools, exported.conns, exported.stale)'
      /\ Served(exported.nodes, exported.combos, exported.stale)'
      /\ (\A c \in Conn : CopyDiffers(exported.nodes, exported.conns[c]) => c \in exported.stale)'
  BY DEF ExportedInv, Pooled, Served, CopyDiffers
<1> QED BY <1>1, <1>2, <1>3 DEF ExportedInv

\* One connection is written anew.
LEMMA OneWritten ==
  ASSUME TablesInv, UNCHANGED <<nodes, pools, combos>>, NEW w \in Conn,
         conns' \in [Conn -> Connection], Restale(conns', w),
         \A c \in Conn \ {w} : SameReferences(conns'[c], conns[c]),
         \A c \in Conn \ {w} : \A x \in Editor :
           Follows(editing[x], conns[c].provider, c) => Follows(editing'[x], conns[c].provider, c)
  PROVE  /\ Pooled(pools', conns', stale') /\ Served(nodes', combos', stale')
         /\ CopiesFollow'
<1>1. /\ \A c \in Conn \ {w} : c \in stale' <=> c \in stale
      /\ stale \ {w} \subseteq stale'
      /\ w \notin stale' => ~CopyDiffers(nodes, conns'[w])
                            /\ (conns'[w].on => conns'[w].pool \in pools \cup {Direct})
  <2>1. stale' \in {stale \cup {w}, stale \ {w}}
    BY DEF Restale
  <2>2. w \notin stale' => w \notin Apart(conns') \cup Unpooled(conns')
    BY DEF Restale
  <2> QED BY <2>1, <2>2 DEF Apart, Unpooled, CopyDiffers
<1>2. Pooled(pools', conns', stale')
  <2> SUFFICES ASSUME NEW c \in Conn, conns'[c].on, conns'[c].pool \notin pools \cup {Direct}
               PROVE  c \in stale'
    BY DEF Pooled
  <2>1. CASE c = w
    BY <2>1, <1>1
  <2>2. CASE c # w
    BY <2>2, <1>1 DEF TablesInv, Pooled, SameReferences
  <2> QED BY <2>1, <2>2
<1>3. Served(nodes', combos', stale')
  BY <1>1, CatalogParameters DEF TablesInv, Served
<1>4. CopiesFollow'
  <2> SUFFICES ASSUME NEW c \in Conn, CopyDiffers(nodes', conns'[c]), c \notin stale'
               PROVE  /\ nodes'[conns'[c].provider] # 0
                      /\ \E x \in Editor : Follows(editing'[x], conns'[c].provider, c)
    BY DEF CopiesFollow
  <2>1. c # w
    BY <1>1
  <2>2. CopyDiffers(nodes, conns[c]) /\ c \notin stale /\ conns'[c].provider = conns[c].provider
    BY <2>1, <1>1 DEF CopyDiffers, SameReferences
  <2>3. /\ nodes[conns[c].provider] # 0
        /\ \E x \in Editor : Follows(editing[x], conns[c].provider, c)
    BY <2>2 DEF TablesInv, CopiesFollow
  <2> QED BY <2>1, <2>2, <2>3
<1> QED BY <1>2, <1>3, <1>4

\* A request goes on to r, and nothing else changes.
LEMMA OnlyEditing ==
  ASSUME CatalogInv, UNCHANGED <<tables, unused, exported, merged, stale>>,
         NEW e \in Editor, NEW r \in Request, Knows(r, unused), Goto(e, r),
         \A c \in Conn : conns[c].on /\ Follows(editing[e], conns[c].provider, c) =>
           Follows(r, conns[c].provider, c)
  PROVE  CatalogInv'
<1>1. EditingInv'
  BY EditingStep DEF CatalogInv
<1>2. \A c \in Conn : conns[c].on =>
        \A x \in Editor : Follows(editing[x], conns[c].provider, c) =>
                          Follows(editing'[x], conns[c].provider, c)
  <2> SUFFICES ASSUME NEW c \in Conn, conns[c].on
               PROVE  \A x \in Editor : Follows(editing[x], conns[c].provider, c) =>
                                        Follows(editing'[x], conns[c].provider, c)
    OBVIOUS
  <2>1. Follows(editing[e], conns[c].provider, c) => Follows(r, conns[c].provider, c)
    OBVIOUS
  <2> QED BY <2>1, FollowsKept DEF CatalogInv
<1>3. TablesInv'
  BY <1>2, Untouched DEF CatalogInv
<1>4. ExportedInv'
  BY StillExported DEF CatalogInv
<1> QED BY <1>1, <1>3, <1>4 DEF CatalogInv

RequestOf(o, c, n, nm, q, k, u) ==
  [op |-> o, conn |-> c, node |-> n, name |-> nm, pool |-> q, priority |-> k, url |-> u, todo |-> {}]

LEMMA IdleRequest == Idle = RequestOf("idle", 0, FirstNode, 0, Direct, 0, 0)
BY DEF Idle, RequestOf

PostOf(o, n, nm, k, q) ==
  [Idle EXCEPT !.op = o, !.node = n, !.name = nm, !.priority = k, !.pool = q]
PutOf(o, c, k, u, q) ==
  [Idle EXCEPT !.op = o, !.conn = c, !.priority = k, !.url = u, !.pool = q]

EditOf(n, u) == [Idle EXCEPT !.op = "edit", !.node = n, !.url = u]
UnpoolOf(q) == [Idle EXCEPT !.op = "unpool", !.pool = q]

LEMMA PostRequest ==
  ASSUME NEW o, NEW n, NEW nm, NEW k, NEW q
  PROVE  PostOf(o, n, nm, k, q) = RequestOf(o, 0, n, nm, q, k, 0)
<1> DEFINE m1 == [Idle EXCEPT !.op = o]
           m2 == [m1 EXCEPT !.node = n]
           m3 == [m2 EXCEPT !.name = nm]
           m4 == [m3 EXCEPT !.priority = k]
           m5 == [m4 EXCEPT !.pool = q]
<1>1. m1 = RequestOf(o, 0, FirstNode, 0, Direct, 0, 0)
  BY IdleRequest DEF RequestOf
<1> HIDE DEF m1
<1>2. m2 = RequestOf(o, 0, n, 0, Direct, 0, 0)
  BY <1>1 DEF RequestOf
<1> HIDE DEF m2
<1>3. m3 = RequestOf(o, 0, n, nm, Direct, 0, 0)
  BY <1>2 DEF RequestOf
<1> HIDE DEF m3
<1>4. m4 = RequestOf(o, 0, n, nm, Direct, k, 0)
  BY <1>3 DEF RequestOf
<1> HIDE DEF m4
<1>5. m5 = RequestOf(o, 0, n, nm, q, k, 0)
  BY <1>4 DEF RequestOf
<1> HIDE DEF m5
<1> QED BY <1>5 DEF m1, m2, m3, m4, m5, PostOf

LEMMA PutRequest ==
  ASSUME NEW o, NEW c, NEW k, NEW u, NEW q
  PROVE  PutOf(o, c, k, u, q) = RequestOf(o, c, FirstNode, 0, q, k, u)
<1> DEFINE m1 == [Idle EXCEPT !.op = o]
           m2 == [m1 EXCEPT !.conn = c]
           m3 == [m2 EXCEPT !.priority = k]
           m4 == [m3 EXCEPT !.url = u]
           m5 == [m4 EXCEPT !.pool = q]
<1>1. m1 = RequestOf(o, 0, FirstNode, 0, Direct, 0, 0)
  BY IdleRequest DEF RequestOf
<1> HIDE DEF m1
<1>2. m2 = RequestOf(o, c, FirstNode, 0, Direct, 0, 0)
  BY <1>1 DEF RequestOf
<1> HIDE DEF m2
<1>3. m3 = RequestOf(o, c, FirstNode, 0, Direct, k, 0)
  BY <1>2 DEF RequestOf
<1> HIDE DEF m3
<1>4. m4 = RequestOf(o, c, FirstNode, 0, Direct, k, u)
  BY <1>3 DEF RequestOf
<1> HIDE DEF m4
<1>5. m5 = RequestOf(o, c, FirstNode, 0, q, k, u)
  BY <1>4 DEF RequestOf
<1> HIDE DEF m5
<1> QED BY <1>5 DEF m1, m2, m3, m4, m5, PutOf

LEMMA EditRequest ==
  ASSUME NEW n, NEW u
  PROVE  EditOf(n, u) = RequestOf("edit", 0, n, 0, Direct, 0, u)
<1> DEFINE m1 == [Idle EXCEPT !.op = "edit"]
           m2 == [m1 EXCEPT !.node = n]
           m3 == [m2 EXCEPT !.url = u]
<1>1. m1 = RequestOf("edit", 0, FirstNode, 0, Direct, 0, 0)
  BY IdleRequest DEF RequestOf
<1> HIDE DEF m1
<1>2. m2 = RequestOf("edit", 0, n, 0, Direct, 0, 0)
  BY <1>1 DEF RequestOf
<1> HIDE DEF m2
<1>3. m3 = RequestOf("edit", 0, n, 0, Direct, 0, u)
  BY <1>2 DEF RequestOf
<1> HIDE DEF m3
<1> QED BY <1>3 DEF m1, m2, m3, EditOf

LEMMA UnpoolRequest ==
  ASSUME NEW q
  PROVE  UnpoolOf(q) = RequestOf("unpool", 0, FirstNode, 0, q, 0, 0)
<1> DEFINE m1 == [Idle EXCEPT !.op = "unpool"]
           m2 == [m1 EXCEPT !.pool = q]
<1>1. m1 = RequestOf("unpool", 0, FirstNode, 0, Direct, 0, 0)
  BY IdleRequest DEF RequestOf
<1> HIDE DEF m1
<1>2. m2 = RequestOf("unpool", 0, FirstNode, 0, q, 0, 0)
  BY <1>1 DEF RequestOf
<1> HIDE DEF m2
<1> QED BY <1>2 DEF m1, m2, UnpoolOf

LEMMA SuchRequest ==
  ASSUME NEW o \in {"postPool", "postNode", "putPool", "putWrite", "edit", "unpool"},
         NEW c \in Nat, NEW n \in Node, NEW nm \in Nat, NEW q \in Pool \cup {Direct}, NEW k \in Nat,
         NEW u \in Nat, o \in {"putPool", "putWrite"} => c \in Conn, o = "edit" => u # 0,
         NEW r, r = RequestOf(o, c, n, nm, q, k, u)
  PROVE  r \in Request /\ Knows(r, unused)
<1>1. r \in Request
  BY DEF Request, RequestOf
<1>2. r.op = o /\ r.conn = c /\ r.url = u
  BY DEF RequestOf
<1> QED BY <1>1, <1>2 DEF Knows

LEMMA BeginPostStep ==
  ASSUME CatalogInv, NEW e \in Editor, NEW n \in Node, NEW nm \in 1..2, NEW k \in 1..2,
         NEW q \in Wanted, BeginPost(e, n, nm, k, q)
  PROVE  CatalogInv'
<1>1. PICK o : o = IF q \in Pool THEN "postPool" ELSE "postNode"
  OBVIOUS
<1>2. PICK r : r = RequestOf(o, 0, n, nm, q, k, 0)
  OBVIOUS
<1>3. r \in Request /\ Knows(r, unused)
  <2>1. q \in Pool \cup {Direct}
    BY DEF Wanted, CatalogInv, TablesInv
  <2>2. /\ o \in {"postPool", "postNode", "putPool", "putWrite", "edit", "unpool"}
        /\ ~(o \in {"putPool", "putWrite"}) /\ o # "edit"
    BY <1>1
  <2> QED BY <1>2, <2>1, <2>2, SuchRequest
<1>4. Goto(e, r)
  <2>1. Goto(e, PostOf(o, n, nm, k, q))
    BY <1>1, Zenon DEF BeginPost, PostOf
  <2>2. PostOf(o, n, nm, k, q) = r
    BY <1>2, PostRequest
  <2> QED BY <2>1, <2>2
<1>5. Goto(e, r) /\ UNCHANGED <<tables, unused, exported, merged, stale>> /\ editing[e] = Idle
  BY <1>4 DEF BeginPost
<1> QED BY <1>3, <1>5, OnlyEditing, IdleFollowsNothing

LEMMA BeginPutStep ==
  ASSUME CatalogInv, NEW e \in Editor, NEW c \in Conn, NEW k \in Priorities \cup {NoPriority},
         NEW q \in Wanted \cup {Kept}, BeginPut(e, c, k, q)
  PROVE  CatalogInv'
<1>1. PICK o, p, u : /\ o = (IF q \in Pool THEN "putPool" ELSE "putWrite")
                     /\ p = (IF q = Kept THEN conns[c].pool ELSE q)
                     /\ u = conns[c].url
  OBVIOUS
<1>2. PICK r : r = RequestOf(o, c, FirstNode, 0, p, k, u)
  OBVIOUS
<1>3. r \in Request /\ Knows(r, unused)
  <2>1. /\ q # Kept => q \in Pool \cup {Direct}
        /\ conns[c].url \in Nat /\ conns[c].pool \in Pool \cup {Direct}
    BY DEF Wanted, CatalogInv, TablesInv, Connection
  <2>2. c \in Nat /\ k \in Nat /\ FirstNode \in Node
    BY CatalogParameters DEF Priorities, NoPriority
  <2>3. o \in {"postPool", "postNode", "putPool", "putWrite", "edit", "unpool"} /\ o # "edit"
    BY <1>1
  <2>4. p \in Pool \cup {Direct} /\ u \in Nat
    BY <1>1, <2>1
  <2> QED BY <1>2, <2>2, <2>3, <2>4, SuchRequest
<1>4. Goto(e, r)
  <2>1. Goto(e, PutOf(o, c, k, u, p))
    BY <1>1, Zenon DEF BeginPut, PutOf
  <2>2. PutOf(o, c, k, u, p) = r
    BY <1>2, PutRequest
  <2> QED BY <2>1, <2>2
<1>5. Goto(e, r) /\ UNCHANGED <<tables, unused, exported, merged, stale>> /\ editing[e] = Idle
  BY <1>4 DEF BeginPut
<1> QED BY <1>3, <1>5, OnlyEditing, IdleFollowsNothing

LEMMA BeginEditStep ==
  ASSUME CatalogInv, NEW e \in Editor, NEW n \in Node, NEW u \in Urls, BeginEdit(e, n, u)
  PROVE  CatalogInv'
<1>1. PICK r : r = RequestOf("edit", 0, n, 0, Direct, 0, u)
  OBVIOUS
<1>2. r \in Request /\ Knows(r, unused)
  <2>1. u \in Nat /\ u # 0
    BY CatalogParameters DEF Urls
  <2> QED BY <1>1, <2>1, SuchRequest
<1>3. Goto(e, r)
  <2>1. Goto(e, EditOf(n, u))
    BY Zenon DEF BeginEdit, EditOf
  <2> QED BY <2>1, <1>1, EditRequest
<1>4. Goto(e, r) /\ UNCHANGED <<tables, unused, exported, merged, stale>> /\ editing[e] = Idle
  BY <1>3 DEF BeginEdit
<1> QED BY <1>2, <1>4, OnlyEditing, IdleFollowsNothing

LEMMA BeginUnpoolStep ==
  ASSUME CatalogInv, NEW e \in Editor, NEW q \in Pool, BeginUnpool(e, q)
  PROVE  CatalogInv'
<1>1. PICK r : r = RequestOf("unpool", 0, FirstNode, 0, q, 0, 0)
  OBVIOUS
<1>2. r \in Request /\ Knows(r, unused)
  BY <1>1, CatalogParameters, SuchRequest
<1>3. Goto(e, r)
  <2>1. Goto(e, UnpoolOf(q))
    BY Zenon DEF BeginUnpool, UnpoolOf
  <2> QED BY <2>1, <1>1, UnpoolRequest
<1>4. Goto(e, r) /\ UNCHANGED <<tables, unused, exported, merged, stale>> /\ editing[e] = Idle
  BY <1>3 DEF BeginUnpool
<1> QED BY <1>2, <1>4, OnlyEditing, IdleFollowsNothing

LEMMA FindPoolStep ==
  ASSUME CatalogInv, NEW e \in Editor, FindPool(e)
  PROVE  CatalogInv'
<1>1. /\ editing[e] \in Request /\ Knows(editing[e], unused) /\ editing[e].op \in {"postPool", "putPool"}
      /\ UNCHANGED <<tables, unused, exported, merged, stale>>
  BY DEF CatalogInv, EditingInv, FindPool
<1>2. CASE editing[e].pool \notin pools
  <2>1. Goto(e, Idle)
    BY <1>2 DEF FindPool
  <2>2. \A n, c : ~Follows(editing[e], n, c)
    BY <1>1 DEF Follows
  <2> QED BY <1>1, <2>1, <2>2, IdleFacts, OnlyEditing
<1>3. CASE editing[e].pool \in pools
  <2>1. PICK q : q = editing[e]
    OBVIOUS
  <2>2. PICK o : o = IF q.op = "postPool" THEN "postNode" ELSE "putWrite"
    OBVIOUS
  <2>3. PICK r : r = [q EXCEPT !.op = o]
    OBVIOUS
  <2>4. Goto(e, r)
    BY <1>3, <2>1, <2>2, <2>3 DEF FindPool
  <2>5. q \in Request /\ o \in {"postNode", "putWrite"}
    BY <1>1, <2>1, <2>2
  <2>6. r \in Request /\ r.op = o /\ r.conn = q.conn
    BY <2>3, <2>5 DEF Request
  <2>7. Knows(r, unused)
    BY <2>6, <2>2, <2>1, <1>1 DEF Knows
  <2>8. \A n, c : ~Follows(editing[e], n, c)
    BY <1>1 DEF Follows
  <2> QED BY <1>1, <2>4, <2>6, <2>7, <2>8, OnlyEditing
<1> QED BY <1>2, <1>3

LEMMA FindNodeStep ==
  ASSUME CatalogInv, NEW e \in Editor, FindNode(e)
  PROVE  CatalogInv'
<1>1. /\ editing[e] \in Request /\ Knows(editing[e], unused) /\ editing[e].op = "postNode"
      /\ UNCHANGED <<tables, unused, exported, merged, stale>>
  BY DEF CatalogInv, EditingInv, FindNode
<1>2. \A n, c : ~Follows(editing[e], n, c)
  BY <1>1 DEF Follows
<1>3. CASE nodes[editing[e].node] = 0
  <2>1. Goto(e, Idle)
    BY <1>3 DEF FindNode
  <2> QED BY <1>1, <1>2, <2>1, IdleFacts, OnlyEditing
<1>4. CASE nodes[editing[e].node] # 0
  <2>1. PICK q : q = editing[e]
    OBVIOUS
  <2>2. PICK r : r = [q EXCEPT !.op = "postWrite", !.url = nodes[q.node]]
    OBVIOUS
  <2>3. Goto(e, r)
    BY <1>4, <2>1, <2>2 DEF FindNode
  <2>4. q.node \in Node /\ nodes[q.node] \in Nat /\ nodes[q.node] # 0
    BY <2>1, <1>1, <1>4 DEF Request, CatalogInv, TablesInv
  <2>5. r \in Request /\ r.op = "postWrite" /\ r.node = q.node
    BY <1>1, <2>1, <2>2, <2>4 DEF Request
  <2>6. Knows(r, unused)
    BY <2>5, <2>4 DEF Knows, CatalogInv, TablesInv, Issued
  <2> QED BY <1>1, <1>2, <2>3, <2>5, <2>6, OnlyEditing
<1> QED BY <1>3, <1>4

LEMMA ListConnectionsStep ==
  ASSUME CatalogInv, NEW e \in Editor, ListConnections(e)
  PROVE  CatalogInv'
<1>1. PICK q : q = editing[e]
  OBVIOUS
<1>2. PICK todo : todo = {[conn |-> c, pool |-> conns[c].pool] : c \in Of(conns, q.node)}
  OBVIOUS
<1>3. /\ q \in Request /\ Knows(q, unused) /\ q.op = "editList"
      /\ UNCHANGED <<tables, unused, exported, merged, stale>>
  BY <1>1 DEF CatalogInv, EditingInv, ListConnections
<1>4. \A c \in Of(conns, q.node) : \E t \in todo : t.conn = c
  <2> TAKE c \in Of(conns, q.node)
  <2>1. [conn |-> c, pool |-> conns[c].pool] \in todo
    BY <1>2
  <2>2. [conn |-> c, pool |-> conns[c].pool].conn = c
    OBVIOUS
  <2> QED BY <2>1, <2>2
<1>5. todo \subseteq [conn : Conn, pool : Pool \cup {Direct}]
  <2>1. \A c \in Of(conns, q.node) : c \in Conn /\ conns[c].pool \in Pool \cup {Direct}
    BY DEF Of, CatalogInv, TablesInv, Connection
  <2> QED BY <1>2, <2>1
<1>6. CASE todo = {}
  <2>1. Goto(e, Idle)
    BY <1>1, <1>2, <1>6 DEF ListConnections
  <2>2. \A c \in Conn : ~(conns[c].on /\ conns[c].provider = q.node)
    BY <1>4, <1>6 DEF Of
  <2>3. \A c \in Conn : conns[c].on => ~Follows(editing[e], conns[c].provider, c)
    BY <1>1, <2>2 DEF Follows
  <2> QED BY <1>3, <2>1, <2>3, IdleFacts, OnlyEditing
<1>7. CASE todo # {}
  <2>1. PICK r : r = [q EXCEPT !.op = "editCopy", !.todo = todo]
    OBVIOUS
  <2>2. Goto(e, r)
    BY <1>1, <1>2, <1>7, <2>1 DEF ListConnections
  <2>3. r \in Request /\ r.op = "editCopy" /\ r.todo = todo /\ r.node = q.node /\ r.url = q.url
    BY <2>1, <1>3, <1>5 DEF Request
  <2>4. Knows(r, unused)
    BY <2>3, <1>3 DEF Knows
  <2>5. \A c \in Conn : conns[c].on /\ Follows(editing[e], conns[c].provider, c) =>
                          Follows(r, conns[c].provider, c)
    BY <1>1, <1>4, <2>3 DEF Follows, Of
  <2> QED BY <1>3, <2>2, <2>3, <2>4, <2>5, OnlyEditing
<1> QED BY <1>6, <1>7

-----------------------------------------------------------------------------
\* Rows are given new priorities in their order.
LEMMA ReorderFacts ==
  ASSUME NEW P, NEW cs, cs \in [Conn -> AnyPriority(P)], NEW p, Reorder(cs, p),
         \A c \in Conn \ Of(cs, p) : cs[c].priority \in Nat
  PROVE  /\ conns' \in [Conn -> Connection] /\ Ranked(conns', p)
         /\ \A c \in Conn : SameReferences(conns'[c], cs[c])
         /\ \A c \in Conn \ Of(cs, p) : conns'[c] = cs[c]
         /\ merged' = merged \ {p}
<1>1. PICK f \in Orders(cs, p) :
        conns' = [c \in Conn |-> IF c \in Of(cs, p) THEN [cs[c] EXCEPT !.priority = f[c]] ELSE cs[c]]
  BY DEF Reorder
<1>2. merged' = merged \ {p}
  BY DEF Reorder
<1> QED BY <1>1, <1>2, OrderRanks

\* Then every provider's are in order that were so before: only rows of p
\* became or ceased to be its rows.
LEMMA ReorderRanks ==
  ASSUME NEW P, NEW cs, cs \in [Conn -> AnyPriority(P)], NEW p, Reorder(cs, p),
         NEW cs0, AllRanked(cs0, merged),
         \A c \in Conn \ Of(cs, p) : cs[c].priority \in Nat,
         \A c \in Conn : \/ cs[c] = cs0[c]
                         \/ /\ cs0[c].on => cs0[c].provider = p
                            /\ cs[c].on => cs[c].provider = p
  PROVE  AllRanked(conns', merged')
<1> SUFFICES ASSUME NEW x \in Providers \ merged'
             PROVE  Ranked(conns', x)
  BY DEF AllRanked
<1>1. /\ Ranked(conns', p) /\ merged' = merged \ {p}
      /\ \A c \in Conn : SameReferences(conns'[c], cs[c])
      /\ \A c \in Conn \ Of(cs, p) : conns'[c] = cs[c]
  BY ReorderFacts
<1>2. CASE x = p
  BY <1>1, <1>2
<1>3. CASE x # p
  <2>1. Ranked(cs0, x)
    BY <1>1, <1>3 DEF AllRanked
  <2>2. \A c \in Conn : (cs0[c].on /\ cs0[c].provider = x) <=> (conns'[c].on /\ conns'[c].provider = x)
    BY <1>1, <1>3 DEF SameReferences
  <2>3. \A c \in Of(cs0, x) : conns'[c].priority = cs0[c].priority
    <3> SUFFICES ASSUME NEW c \in Of(cs0, x)
                 PROVE  conns'[c].priority = cs0[c].priority
      OBVIOUS
    <3>1. c \in Conn /\ cs0[c].on /\ cs0[c].provider = x
      BY DEF Of
    <3>2. cs[c] = cs0[c]
      BY <3>1, <1>3
    <3>3. c \in Conn \ Of(cs, p)
      BY <3>1, <3>2, <1>3 DEF Of
    <3> QED BY <3>2, <3>3, <1>1
  <2> QED BY <2>1, <2>2, <2>3, SameRank
<1> QED BY <1>2, <1>3

\* What a step that writes connection w leaves in order.
RowWritten(w) ==
  /\ Restale(conns', w) /\ conns' \in [Conn -> Connection]
  /\ \A c \in Conn \ {w} : SameReferences(conns'[c], conns[c])
  /\ AllRanked(conns', merged')
  /\ \A c \in Conn : conns'[c].on => c \notin unused' /\ conns'[c].provider \notin Node \cap unused'
  /\ unused' \subseteq unused

LEMMA CreateWrites ==
  ASSUME TablesInv, NEW p \in Providers, p \notin Node \cap unused, NEW nm \in Nat, NEW k \in Nat,
         NEW u \in Nat, NEW q \in Pool \cup {Direct}, Create(p, nm, k, u, q)
  PROVE  \E w \in Conn : RowWritten(w)
<1>1. /\ conns \in [Conn -> Connection] /\ AllRanked(conns, merged)
      /\ \A c \in Conn : conns[c].on => c \notin unused /\ conns[c].provider \notin Node \cap unused
  BY DEF TablesInv, Issued
<1>2. CASE \E c \in Of(conns, p) :
             /\ conns[c].name = nm
             /\ conns' = [conns EXCEPT ![c] = Row(p, nm, IF k = 0 THEN @.priority ELSE k, u, q)]
             /\ merged' = IF k = 0 THEN merged ELSE merged \cup {p}
             /\ Restale(conns', c) /\ UNCHANGED unused
  <2>1. PICK w \in Of(conns, p) :
             /\ conns' = [conns EXCEPT ![w] = Row(p, nm, IF k = 0 THEN @.priority ELSE k, u, q)]
             /\ merged' = IF k = 0 THEN merged ELSE merged \cup {p}
             /\ Restale(conns', w) /\ UNCHANGED unused
    BY <1>2
  <2>2. w \in Conn /\ conns[w].on /\ conns[w].provider = p /\ conns[w].priority \in Nat
    BY <1>1 DEF Of, Connection
  <2>3. PICK j : j = IF k = 0 THEN conns[w].priority ELSE k
    OBVIOUS
  <2>4. conns' = [conns EXCEPT ![w] = Row(p, nm, j, u, q)]
    BY <2>1, <2>2, <2>3, <1>1
  <2>5. PICK r : r = Row(p, nm, j, u, q)
    OBVIOUS
  <2>6. r.on = TRUE /\ r.provider = p /\ r.priority = j /\ r \in AnyPriority(Nat)
    <3>1. j \in Nat
      BY <2>2, <2>3
    <3> QED BY <2>5, <3>1 DEF Row, AnyPriority
  <2>7. \A c \in Conn : conns'[c] = IF c = w THEN r ELSE conns[c]
    BY <1>1, <2>4, <2>5
  <2>8. conns' \in [Conn -> Connection]
    BY <1>1, <2>4, <2>5, <2>6 DEF AnyPriority, Connection
  <2>9. AllRanked(conns', merged')
    <3> SUFFICES ASSUME NEW x \in Providers \ merged'
                 PROVE  Ranked(conns', x)
      BY DEF AllRanked
    <3>1. x \notin merged /\ (k = 0 \/ x # p)
      BY <2>1
    <3>2. Ranked(conns, x)
      BY <3>1, <1>1 DEF AllRanked
    <3>3. \A c \in Conn : (conns[c].on /\ conns[c].provider = x) <=> (conns'[c].on /\ conns'[c].provider = x)
      BY <2>2, <2>6, <2>7
    <3>4. \A c \in Of(conns, x) : conns'[c].priority = conns[c].priority
      BY <2>2, <2>3, <2>6, <2>7, <3>1 DEF Of
    <3> QED BY <3>2, <3>3, <3>4, SameRank
  <2>10. \A c \in Conn \ {w} : SameReferences(conns'[c], conns[c])
    BY <2>7 DEF SameReferences
  <2>11. \A c \in Conn : conns'[c].on => c \notin unused' /\ conns'[c].provider \notin Node \cap unused'
    BY <1>1, <2>1, <2>2, <2>6, <2>7
  <2>12. Restale(conns', w) /\ unused' \subseteq unused
    BY <2>1
  <2> QED BY <2>2, <2>8, <2>9, <2>10, <2>11, <2>12 DEF RowWritten
<1>3. CASE \E c \in unused \cap Conn :
             /\ unused' = unused \ {c}
             /\ Reorder([conns EXCEPT ![c] = Row(p, nm, IF k = 0 THEN HighestOf(p) + 1 ELSE k, u, q)], p)
             /\ Restale(conns', c)
  <2>1. PICK w \in unused \cap Conn :
             /\ unused' = unused \ {w}
             /\ Reorder([conns EXCEPT ![w] = Row(p, nm, IF k = 0 THEN HighestOf(p) + 1 ELSE k, u, q)], p)
             /\ Restale(conns', w)
    BY <1>3
  <2>2. PICK j : j = IF k = 0 THEN HighestOf(p) + 1 ELSE k
    OBVIOUS
  <2>3. PICK r : r = Row(p, nm, j, u, q)
    OBVIOUS
  <2>4. PICK cs : cs = [conns EXCEPT ![w] = r]
    OBVIOUS
  <2>5. Reorder(cs, p)
    BY <2>1, <2>2, <2>3, <2>4
  <2>6. r.on = TRUE /\ r.provider = p /\ r \in AnyPriority(Nat \cup {j})
    <3>1. j \in Nat \cup {j}
      OBVIOUS
    <3> QED BY <2>3, <3>1 DEF Row, AnyPriority
  <2>7. \A c \in Conn : cs[c] = IF c = w THEN r ELSE conns[c]
    BY <1>1, <2>4
  <2>8. cs \in [Conn -> AnyPriority(Nat \cup {j})]
    <3>1. Connection \subseteq AnyPriority(Nat \cup {j})
      BY DEF Connection, AnyPriority
    <3> QED BY <1>1, <2>4, <2>6, <3>1
  <2>9. w \in Conn /\ ~conns[w].on
    BY <1>1, <2>1
  <2>10. \A c \in Conn \ Of(cs, p) : cs[c].priority \in Nat
    <3>1. \A c \in Conn \ {w} : cs[c].priority \in Nat
      BY <1>1, <2>7 DEF Connection
    <3>2. w \in Of(cs, p)
      BY <2>6, <2>7, <2>9 DEF Of
    <3> QED BY <3>1, <3>2
  <2>11. /\ conns' \in [Conn -> Connection]
         /\ \A c \in Conn : SameReferences(conns'[c], cs[c])
    BY <2>5, <2>8, <2>10, ReorderFacts
  <2>12. AllRanked(conns', merged')
    <3>1. \A c \in Conn : \/ cs[c] = conns[c]
                          \/ /\ conns[c].on => conns[c].provider = p
                             /\ cs[c].on => cs[c].provider = p
      BY <2>6, <2>7, <2>9
    <3>2. PICK cs0 : cs0 = conns
      OBVIOUS
    <3>3. /\ \A c \in Conn : \/ cs[c] = cs0[c]
                             \/ /\ cs0[c].on => cs0[c].provider = p
                                /\ cs[c].on => cs[c].provider = p
          /\ AllRanked(cs0, merged)
      BY <1>1, <3>1, <3>2
    <3> QED BY <2>5, <2>8, <2>10, <3>3, ReorderRanks
  <2>13. \A c \in Conn \ {w} : SameReferences(conns'[c], conns[c])
    BY <2>7, <2>11
  <2>14. \A c \in Conn : conns'[c].on => c \notin unused' /\ conns'[c].provider \notin Node \cap unused'
    BY <1>1, <2>1, <2>6, <2>7, <2>11 DEF SameReferences
  <2> QED BY <2>1, <2>9, <2>11, <2>12, <2>13, <2>14 DEF RowWritten
<1> QED BY <1>2, <1>3 DEF Create

\* A written connection keeps the tables in order when the requests that follow
\* the others still do.
LEMMA WrittenStep ==
  ASSUME TablesInv, ExportedInv, NEW w \in Conn, RowWritten(w), UNCHANGED <<nodes, pools, combos, exported>>,
         \A c \in Conn \ {w} : \A x \in Editor :
           Follows(editing[x], conns[c].provider, c) => Follows(editing'[x], conns[c].provider, c)
  PROVE  TablesInv' /\ ExportedInv'
<1>1. /\ Pooled(pools', conns', stale') /\ Served(nodes', combos', stale')
      /\ CopiesFollow'
  BY OneWritten DEF RowWritten
<1>2. Issued(nodes, conns)'
  BY DEF RowWritten, Issued, TablesInv
<1>3. AllRanked(conns, merged)'
  BY DEF RowWritten, AllRanked, Ranked, Of
<1>4. /\ nodes' \in [Node -> Nat] /\ pools' \subseteq Pool /\ conns' \in [Conn -> Connection]
  BY DEF RowWritten, TablesInv
<1>5. ExportedInv'
  BY StillExported DEF RowWritten
<1>6. Pooled(pools, conns, stale)' /\ Served(nodes, combos, stale)'
  BY <1>1 DEF Pooled, Served
<1>7. /\ (nodes \in [Node -> Nat])' /\ (pools \subseteq Pool)' /\ (conns \in [Conn -> Connection])'
      /\ (combos \in [Combo -> SUBSET (Node \cup {Other})])'
  BY <1>4 DEF TablesInv, Connection, Providers
<1> QED BY <1>1, <1>2, <1>3, <1>5, <1>6, <1>7 DEF TablesInv

LEMMA EditingKept ==
  ASSUME EditingInv, UNCHANGED editing, unused' \subseteq unused
  PROVE  EditingInv'
<1>1. \A q : Knows(q, unused) => Knows(q, unused')
  BY DEF Knows
<1>2. editing' \in [Editor -> Request]
  BY DEF EditingInv
<1> QED BY <1>1, <1>2 DEF EditingInv

\* A request that follows nothing ends with its write.
LEMMA LastWrite ==
  ASSUME CatalogInv, NEW e \in Editor, Goto(e, Idle), \A n, c : ~Follows(editing[e], n, c),
         NEW w \in Conn, RowWritten(w), UNCHANGED <<nodes, pools, combos, exported>>
  PROVE  CatalogInv'
<1>1. EditingInv'
  BY EditingStep, IdleFacts DEF CatalogInv, RowWritten
<1>2. \A n, c : \A x \in Editor : Follows(editing[x], n, c) => Follows(editing'[x], n, c)
  BY FollowsKept DEF CatalogInv
<1>3. TablesInv' /\ ExportedInv'
  BY <1>2, WrittenStep DEF CatalogInv
<1> QED BY <1>1, <1>3 DEF CatalogInv

LEMMA WritePostStep ==
  ASSUME CatalogInv, NEW e \in Editor, WritePost(e)
  PROVE  CatalogInv'
<1>1. PICK r : r = editing[e]
  OBVIOUS
<1>2. r \in Request /\ Knows(r, unused) /\ r.op = "postWrite"
  BY <1>1 DEF CatalogInv, EditingInv, WritePost
<1>3. /\ r.node \in Node /\ r.node \notin unused /\ r.name \in Nat /\ r.priority \in Nat
      /\ r.url \in Nat /\ r.pool \in Pool \cup {Direct}
  BY <1>2 DEF Request, Knows
<1>4. Create(r.node, r.name, r.priority, r.url, r.pool)
  BY <1>1 DEF WritePost
<1>5. PICK w \in Conn : RowWritten(w)
  <2>1. r.node \in Providers /\ r.node \notin Node \cap unused
    BY <1>3 DEF Providers
  <2> QED BY <1>3, <1>4, <2>1, CreateWrites DEF CatalogInv
<1>6. Goto(e, Idle) /\ UNCHANGED <<nodes, pools, combos, exported>>
  BY DEF WritePost
<1>7. \A n, c : ~Follows(editing[e], n, c)
  BY <1>1, <1>2 DEF Follows
<1> QED BY <1>5, <1>6, <1>7, LastWrite

LEMMA LoginStep ==
  ASSUME CatalogInv, NEW nm \in 1..2, Login(nm)
  PROVE  CatalogInv'
<1>1. Create(BuiltIn, nm, 0, 0, Direct) /\ UNCHANGED <<nodes, pools, combos, editing, exported>>
  BY DEF Login
<1>2. BuiltIn \in Providers /\ BuiltIn \notin Node \cap unused
  BY CatalogParameters DEF Providers
<1>3. PICK w \in Conn : RowWritten(w)
  BY <1>1, <1>2, CreateWrites DEF CatalogInv
<1>4. EditingInv'
  BY <1>1, <1>3, EditingKept DEF CatalogInv, RowWritten
<1>5. TablesInv' /\ ExportedInv'
  BY <1>1, <1>3, WrittenStep DEF CatalogInv
<1> QED BY <1>4, <1>5 DEF CatalogInv

SamePlace(r, s) == r.on = s.on /\ r.provider = s.provider /\ r.priority = s.priority

LEMMA SameRanks ==
  ASSUME NEW cs, NEW ds, NEW ms, AllRanked(cs, ms), \A c \in Conn : SamePlace(cs[c], ds[c])
  PROVE  AllRanked(ds, ms)
<1> SUFFICES ASSUME NEW x \in Providers \ ms
             PROVE  Ranked(ds, x)
  BY DEF AllRanked
<1>1. Ranked(cs, x)
  BY DEF AllRanked
<1>2. \A c \in Conn : (cs[c].on /\ cs[c].provider = x) <=> (ds[c].on /\ ds[c].provider = x)
  BY DEF SamePlace
<1>3. \A c \in Of(cs, x) : ds[c].priority = cs[c].priority
  BY DEF SamePlace, Of
<1> QED BY <1>1, <1>2, <1>3, SameRank

\* Connection w goes on with another URL and pool; its provider's priorities
\* may then be put in order.
LEMMA UpdateWrites ==
  ASSUME TablesInv, NEW w \in Conn, conns[w].on, NEW r \in Connection, r.on,
         r.provider = conns[w].provider, r.priority = conns[w].priority,
         conns' = [conns EXCEPT ![w] = r], UNCHANGED <<merged, unused>>, Restale(conns', w)
  PROVE  RowWritten(w)
<1>1. /\ conns \in [Conn -> Connection] /\ AllRanked(conns, merged)
      /\ \A c \in Conn : conns[c].on => c \notin unused /\ conns[c].provider \notin Node \cap unused
  BY DEF TablesInv, Issued
<1>2. \A c \in Conn : conns'[c] = IF c = w THEN r ELSE conns[c]
  BY <1>1
<1>3. conns' \in [Conn -> Connection]
  BY <1>1
<1>4. AllRanked(conns', merged')
  <2>1. \A c \in Conn : SamePlace(conns[c], conns'[c])
    <3>1. conns[w].on = r.on
      BY <1>1 DEF Connection
    <3> QED BY <1>2, <3>1 DEF SamePlace
  <2>2. PICK ds : ds = conns'
    OBVIOUS
  <2>3. AllRanked(ds, merged)
    BY <1>1, <2>1, <2>2, SameRanks
  <2> QED BY <2>2, <2>3
<1>5. \A c \in Conn \ {w} : SameReferences(conns'[c], conns[c])
  BY <1>2 DEF SameReferences
<1>6. \A c \in Conn : conns'[c].on => c \notin unused' /\ conns'[c].provider \notin Node \cap unused'
  BY <1>1, <1>2
<1> QED BY <1>3, <1>4, <1>5, <1>6 DEF RowWritten

\* The same for a write that asks for a priority, or that leaves no connection.
LEMMA ReorderWrites ==
  ASSUME TablesInv, NEW w \in Conn, conns[w].on, NEW r \in AnyPriority(Nat),
         r.on => r.provider = conns[w].provider,
         Reorder([conns EXCEPT ![w] = r], conns[w].provider), UNCHANGED unused, Restale(conns', w)
  PROVE  RowWritten(w)
<1>1. /\ conns \in [Conn -> Connection] /\ AllRanked(conns, merged)
      /\ \A c \in Conn : conns[c].on => c \notin unused /\ conns[c].provider \notin Node \cap unused
  BY DEF TablesInv, Issued
<1>2. PICK cs, p, cs0 : cs = [conns EXCEPT ![w] = r] /\ p = conns[w].provider /\ cs0 = conns
  OBVIOUS
<1>3. Reorder(cs, p)
  BY <1>2
<1>4. \A c \in Conn : cs[c] = IF c = w THEN r ELSE conns[c]
  BY <1>1, <1>2
<1>5. cs \in [Conn -> AnyPriority(Nat)] /\ \A c \in Conn : cs[c].priority \in Nat
  <2>1. Connection = AnyPriority(Nat)
    BY DEF Connection, AnyPriority
  <2>2. cs \in [Conn -> AnyPriority(Nat)]
    BY <1>1, <1>2, <2>1
  <2> QED BY <2>2 DEF AnyPriority
<1>6. /\ conns' \in [Conn -> Connection]
      /\ \A c \in Conn : SameReferences(conns'[c], cs[c])
  BY <1>3, <1>5, ReorderFacts
<1>7. AllRanked(conns', merged')
  <2>1. /\ \A c \in Conn : \/ cs[c] = cs0[c]
                           \/ /\ cs0[c].on => cs0[c].provider = p
                              /\ cs[c].on => cs[c].provider = p
        /\ AllRanked(cs0, merged)
    BY <1>1, <1>2, <1>4
  <2> QED BY <1>3, <1>5, <2>1, ReorderRanks
<1>8. \A c \in Conn \ {w} : SameReferences(conns'[c], conns[c])
  BY <1>4, <1>6
<1>9. \A c \in Conn : conns'[c].on => c \notin unused' /\ conns'[c].provider \notin Node \cap unused'
  <2>1. \A c \in Conn : conns'[c].on = cs[c].on /\ conns'[c].provider = cs[c].provider
    BY <1>6 DEF SameReferences
  <2> QED BY <1>1, <1>4, <2>1
<1> QED BY <1>6, <1>7, <1>8, <1>9 DEF RowWritten

LEMMA WritePutStep ==
  ASSUME CatalogInv, NEW e \in Editor, WritePut(e)
  PROVE  CatalogInv'
<1>1. PICK r : r = editing[e]
  OBVIOUS
<1>2. r \in Request /\ Knows(r, unused) /\ r.op = "putWrite"
  BY <1>1 DEF CatalogInv, EditingInv, WritePut
<1>3. r.conn \in Conn /\ r.url \in Nat /\ r.pool \in Pool \cup {Direct} /\ r.priority \in Nat
  BY <1>2 DEF Request, Knows
<1>4. Goto(e, Idle) /\ UNCHANGED <<nodes, pools, combos, exported, unused>>
  BY DEF WritePut
<1>5. \A n, c : ~Follows(editing[e], n, c)
  BY <1>1, <1>2 DEF Follows
<1>6. CASE ~conns[r.conn].on
  <2>1. UNCHANGED <<tables, unused, exported, merged, stale>>
    BY <1>1, <1>6 DEF WritePut, tables
  <2> QED BY <1>4, <1>5, <2>1, IdleFacts, OnlyEditing
<1>7. CASE conns[r.conn].on /\ r.priority = NoPriority
  <2>1. /\ conns' = [conns EXCEPT ![r.conn] = [@ EXCEPT !.url = r.url, !.pool = r.pool]]
        /\ Restale(conns', r.conn) /\ UNCHANGED merged
    BY <1>1, <1>7 DEF WritePut
  <2>2. PICK kept : kept = [conns[r.conn] EXCEPT !.url = r.url, !.pool = r.pool]
    OBVIOUS
  <2>3. conns \in [Conn -> Connection] /\ conns[r.conn] \in Connection
    BY <1>3 DEF CatalogInv, TablesInv
  <2>4. /\ kept \in Connection /\ kept.on = conns[r.conn].on /\ kept.provider = conns[r.conn].provider
        /\ kept.priority = conns[r.conn].priority
    BY <1>3, <2>2, <2>3 DEF Connection
  <2>5. conns' = [conns EXCEPT ![r.conn] = kept]
    BY <1>3, <2>1, <2>2, <2>3
  <2>6. RowWritten(r.conn)
    BY <1>3, <1>4, <1>7, <2>1, <2>4, <2>5, UpdateWrites DEF CatalogInv
  <2> QED BY <1>3, <1>4, <1>5, <2>6, LastWrite
<1>8. CASE conns[r.conn].on /\ r.priority # NoPriority
  <2>1. PICK upd : upd = [conns EXCEPT ![r.conn] = [@ EXCEPT !.url = r.url, !.pool = r.pool]]
    OBVIOUS
  <2>2. /\ Reorder([upd EXCEPT ![r.conn].priority = r.priority], conns[r.conn].provider)
        /\ Restale(conns', r.conn)
    BY <1>1, <1>8, <2>1 DEF WritePut
  <2>3. PICK m : m = [conns[r.conn] EXCEPT !.url = r.url, !.pool = r.pool]
    OBVIOUS
  <2>4. PICK kept : kept = [m EXCEPT !.priority = r.priority]
    OBVIOUS
  <2>5. conns \in [Conn -> Connection] /\ conns[r.conn] \in Connection
    BY <1>3 DEF CatalogInv, TablesInv
  <2>6. m \in Connection /\ m.provider = conns[r.conn].provider
    BY <1>3, <2>3, <2>5 DEF Connection
  <2>7. kept \in AnyPriority(Nat) /\ kept.provider = conns[r.conn].provider
    BY <1>3, <2>4, <2>6 DEF Connection, AnyPriority
  <2>8. [upd EXCEPT ![r.conn].priority = r.priority] = [conns EXCEPT ![r.conn] = kept]
    <3>1. upd = [conns EXCEPT ![r.conn] = m]
      BY <1>3, <2>1, <2>3, <2>5
    <3>2. [upd EXCEPT ![r.conn].priority = r.priority] = [upd EXCEPT ![r.conn] = kept]
      BY <1>3, <2>4, <2>5, <3>1
    <3>3. [upd EXCEPT ![r.conn] = kept] = [conns EXCEPT ![r.conn] = kept]
      BY <2>5, <3>1
    <3> QED BY <3>2, <3>3
  <2>9. RowWritten(r.conn)
    BY <1>3, <1>4, <1>8, <2>2, <2>7, <2>8, ReorderWrites DEF CatalogInv
  <2> QED BY <1>3, <1>4, <1>5, <2>9, LastWrite
<1> QED BY <1>6, <1>7, <1>8

LEMMA DeleteConnectionStep ==
  ASSUME CatalogInv, NEW c \in Conn, DeleteConnection(c)
  PROVE  CatalogInv'
<1>1. /\ conns[c].on /\ Reorder([conns EXCEPT ![c] = NoConn], conns[c].provider)
      /\ stale' = stale \ {c} /\ UNCHANGED <<nodes, pools, combos, unused, editing, exported>>
  BY DEF DeleteConnection
<1>2. NoConn \in AnyPriority(Nat) /\ NoConn.on = FALSE
  BY DEF NoConn, AnyPriority, Providers
<1>3. Restale(conns', c)
  <2>1. PICK cs : cs = [conns EXCEPT ![c] = NoConn]
    OBVIOUS
  <2>2. conns \in [Conn -> Connection] /\ Connection = AnyPriority(Nat)
    BY DEF CatalogInv, TablesInv, Connection, AnyPriority
  <2>3. cs \in [Conn -> AnyPriority(Nat)] /\ \A d \in Conn : cs[d].priority \in Nat
    <3>1. cs \in [Conn -> AnyPriority(Nat)]
      BY <1>2, <2>1, <2>2
    <3> QED BY <3>1 DEF AnyPriority
  <2>4. \A d \in Conn : SameReferences(conns'[d], cs[d])
    <3>1. PICK p : p = conns[c].provider
      OBVIOUS
    <3> QED BY <1>1, <2>1, <2>3, <3>1, ReorderFacts
  <2>5. conns'[c].on = FALSE
    BY <1>2, <2>1, <2>2, <2>4 DEF SameReferences
  <2> QED BY <1>1, <2>5 DEF Restale, Apart, Unpooled
<1>4. RowWritten(c)
  BY <1>1, <1>2, <1>3, ReorderWrites DEF CatalogInv
<1>5. EditingInv'
  BY <1>1, EditingKept DEF CatalogInv
<1>6. TablesInv' /\ ExportedInv'
  BY <1>1, <1>4, WrittenStep DEF CatalogInv
<1> QED BY <1>5, <1>6 DEF CatalogInv

\* A node's new URL reaches its connections through the request that wrote it.
LEMMA EditNodeStep ==
  ASSUME CatalogInv, NEW e \in Editor, EditNode(e)
  PROVE  CatalogInv'
<1>1. PICK q : q = editing[e]
  OBVIOUS
<1>2. PICK r : r = [q EXCEPT !.op = "editList"]
  OBVIOUS
<1>3. /\ q \in Request /\ Knows(q, unused) /\ q.op = "edit" /\ Goto(e, r)
      /\ nodes' = IF nodes[q.node] = 0 THEN nodes ELSE [nodes EXCEPT ![q.node] = q.url]
      /\ UNCHANGED <<pools, conns, combos, unused, exported, merged, stale>>
  BY <1>1, <1>2 DEF CatalogInv, EditingInv, EditNode
<1>4. /\ r \in Request /\ r.op = "editList" /\ r.node = q.node /\ r.url = q.url
      /\ q.url # 0 /\ q.url \in Nat /\ q.node \in Node
  BY <1>2, <1>3 DEF Request, Knows
<1>5. EditingInv'
  <2>1. Knows(r, unused')
    BY <1>4 DEF Knows
  <2> QED BY <1>3, <1>4, <2>1, EditingStep DEF CatalogInv
<1>6. /\ nodes \in [Node -> Nat] /\ nodes' \in [Node -> Nat]
      /\ \A n \in Node : /\ n # q.node => nodes'[n] = nodes[n]
                         /\ nodes'[n] = 0 <=> nodes[n] = 0
  BY <1>3, <1>4 DEF CatalogInv, TablesInv
<1>7. CopiesFollow'
  <2> SUFFICES ASSUME NEW c \in Conn, CopyDiffers(nodes', conns[c]), c \notin stale
               PROVE  /\ nodes'[conns[c].provider] # 0
                      /\ \E x \in Editor : Follows(editing'[x], conns[c].provider, c)
    BY <1>3 DEF CopiesFollow
  <2>1. conns[c].on /\ conns[c].provider \in Node /\ nodes'[conns[c].provider] # conns[c].url
    BY DEF CopyDiffers
  <2>2. CASE conns[c].provider = q.node /\ nodes[q.node] # 0
    <3>1. editing'[e] = r
      BY <1>3 DEF Goto, CatalogInv, EditingInv
    <3>2. Follows(editing'[e], conns[c].provider, c)
      BY <2>2, <1>4, <3>1 DEF Follows
    <3> QED BY <2>1, <2>2, <3>2, <1>6
  <2>3. CASE conns[c].provider # q.node \/ nodes[q.node] = 0
    <3>1. nodes'[conns[c].provider] = nodes[conns[c].provider]
      BY <2>1, <2>3, <1>3, <1>6
    <3>2. CopyDiffers(nodes, conns[c])
      BY <2>1, <3>1 DEF CopyDiffers
    <3>3. PICK x \in Editor : Follows(editing[x], conns[c].provider, c)
      BY <3>2 DEF CatalogInv, TablesInv, CopiesFollow
    <3>4. nodes[conns[c].provider] # 0
      BY <3>2 DEF CatalogInv, TablesInv, CopiesFollow
    <3>5. \A n : ~Follows(editing[e], n, c)
      BY <1>1, <1>3 DEF Follows
    <3>6. Follows(editing'[x], conns[c].provider, c)
      BY <1>3, <3>3, <3>5, FollowsKept DEF CatalogInv
    <3> QED BY <3>1, <3>4, <3>6
  <2> QED BY <2>2, <2>3
<1>8. Issued(nodes, conns)' /\ Served(nodes, combos, stale)'
  BY <1>3, <1>6 DEF CatalogInv, TablesInv, Issued, Served
<1>9. AllRanked(conns, merged)' /\ Pooled(pools, conns, stale)'
  BY <1>3, RanksKept, PoolsKept DEF CatalogInv
<1>10. ExportedInv'
  BY <1>3, StillExported DEF CatalogInv
<1>11. TablesInv'
  BY <1>3, <1>6, <1>7, <1>8, <1>9 DEF CatalogInv, TablesInv
<1> QED BY <1>5, <1>10, <1>11 DEF CatalogInv

LEMMA CopyToStep ==
  ASSUME CatalogInv, NEW e \in Editor, NEW t \in editing[e].todo, CopyTo(e, t)
  PROVE  CatalogInv'
<1>1. PICK q : q = editing[e]
  OBVIOUS
<1>2. /\ q \in Request /\ Knows(q, unused) /\ q.op = "editCopy" /\ t \in q.todo
      /\ UNCHANGED <<nodes, pools, combos, unused, exported, merged>>
  BY <1>1 DEF CatalogInv, EditingInv, CopyTo
<1>3. t.conn \in Conn /\ t.pool \in Pool \cup {Direct} /\ q.url \in Nat
  BY <1>2 DEF Request
<1>4. PICK r \in Request : /\ Goto(e, r) /\ Knows(r, unused)
                           /\ \A n, c : c # t.conn /\ Follows(q, n, c) => Follows(r, n, c)
  <2>1. CASE q.todo = {t}
    <3>1. Goto(e, Idle)
      BY <1>1, <2>1 DEF CopyTo
    <3>2. \A n, c : c # t.conn => ~Follows(q, n, c)
      BY <1>2, <2>1 DEF Follows
    <3> QED BY <3>1, <3>2, IdleFacts
  <2>2. CASE q.todo # {t}
    <3>1. PICK s : s = [q EXCEPT !.todo = q.todo \ {t}]
      OBVIOUS
    <3>2. Goto(e, s)
      BY <1>1, <1>2, <2>2, <3>1 DEF CopyTo
    <3>3. s \in Request /\ s.op = q.op /\ s.url = q.url /\ s.node = q.node /\ s.todo = q.todo \ {t}
      BY <1>2, <3>1 DEF Request
    <3>4. Knows(s, unused)
      BY <1>2, <3>3 DEF Knows
    <3>5. \A n, c : c # t.conn /\ Follows(q, n, c) => Follows(s, n, c)
      BY <1>2, <3>3 DEF Follows
    <3> QED BY <3>2, <3>3, <3>4, <3>5
  <2> QED BY <2>1, <2>2
<1>5. CASE ~conns[t.conn].on
  <2>1. UNCHANGED <<tables, unused, exported, merged, stale>>
    BY <1>2, <1>5 DEF CopyTo, tables
  <2>2. \A c \in Conn : conns[c].on /\ Follows(editing[e], conns[c].provider, c) =>
                          Follows(r, conns[c].provider, c)
    BY <1>1, <1>4, <1>5
  <2> QED BY <1>4, <2>1, <2>2, OnlyEditing
<1>6. CASE conns[t.conn].on
  <2>1. /\ conns' = [conns EXCEPT ![t.conn] = [@ EXCEPT !.url = q.url, !.pool = t.pool]]
        /\ Restale(conns', t.conn)
    BY <1>1, <1>6 DEF CopyTo
  <2>2. PICK kept : kept = [conns[t.conn] EXCEPT !.url = q.url, !.pool = t.pool]
    OBVIOUS
  <2>3. conns \in [Conn -> Connection] /\ conns[t.conn] \in Connection
    BY <1>3 DEF CatalogInv, TablesInv
  <2>4. /\ kept \in Connection /\ kept.on = conns[t.conn].on /\ kept.provider = conns[t.conn].provider
        /\ kept.priority = conns[t.conn].priority
    BY <1>3, <2>2, <2>3 DEF Connection
  <2>5. conns' = [conns EXCEPT ![t.conn] = kept]
    BY <1>3, <2>1, <2>2, <2>3
  <2>6. RowWritten(t.conn)
    BY <1>2, <1>3, <1>6, <2>1, <2>4, <2>5, UpdateWrites DEF CatalogInv
  <2>7. \A c \in Conn \ {t.conn} : \A x \in Editor :
          Follows(editing[x], conns[c].provider, c) => Follows(editing'[x], conns[c].provider, c)
    <3> TAKE c \in Conn \ {t.conn}
    <3>1. Follows(editing[e], conns[c].provider, c) => Follows(r, conns[c].provider, c)
      BY <1>1, <1>4
    <3> QED BY <1>4, <3>1, FollowsKept DEF CatalogInv
  <2>8. TablesInv' /\ ExportedInv'
    BY <1>2, <1>3, <2>6, <2>7, WrittenStep DEF CatalogInv
  <2>9. EditingInv'
    BY <1>2, <1>4, EditingStep DEF CatalogInv
  <2> QED BY <2>8, <2>9 DEF CatalogInv
<1> QED BY <1>5, <1>6

LEMMA CreateNodeStep ==
  ASSUME CatalogInv, NEW n \in Node, NEW u \in Urls, CreateNode(n, u)
  PROVE  CatalogInv'
<1>1. /\ n \in unused /\ nodes' = [nodes EXCEPT ![n] = u] /\ unused' = unused \ {n}
      /\ UNCHANGED <<pools, conns, combos, editing, exported, merged, stale>>
  BY DEF CreateNode
<1>2. u \in Nat /\ u # 0
  BY CatalogParameters DEF Urls
<1>3. /\ nodes \in [Node -> Nat] /\ nodes' \in [Node -> Nat] /\ nodes'[n] = u
      /\ \A m \in Node : m # n => nodes'[m] = nodes[m]
  BY <1>1, <1>2 DEF CatalogInv, TablesInv
<1>4. \A c \in Conn : conns[c].on => conns[c].provider # n
  BY <1>1 DEF CatalogInv, TablesInv, Issued
<1>5. CopiesFollow'
  <2>1. \A c \in Conn : CopyDiffers(nodes', conns[c]) =>
                          /\ CopyDiffers(nodes, conns[c])
                          /\ nodes'[conns[c].provider] = nodes[conns[c].provider]
    BY <1>3, <1>4 DEF CopyDiffers
  <2> QED BY <1>1, <2>1 DEF CatalogInv, TablesInv, CopiesFollow
<1>6. Issued(nodes, conns)' /\ Served(nodes, combos, stale)'
  BY <1>1, <1>2, <1>3 DEF CatalogInv, TablesInv, Issued, Served
<1>7. AllRanked(conns, merged)' /\ Pooled(pools, conns, stale)'
  BY <1>1, RanksKept, PoolsKept DEF CatalogInv
<1>8. ExportedInv' /\ EditingInv'
  BY <1>1, StillExported, EditingKept DEF CatalogInv
<1>9. TablesInv'
  BY <1>1, <1>3, <1>5, <1>6, <1>7 DEF CatalogInv, TablesInv
<1> QED BY <1>8, <1>9 DEF CatalogInv

\* A node takes its connections and what names it along.
LEMMA DeleteNodeStep ==
  ASSUME CatalogInv, NEW n \in Node, DeleteNode(n)
  PROVE  CatalogInv'
<1>1. /\ nodes' = [nodes EXCEPT ![n] = 0] /\ conns' = Remaining(conns, n)
      /\ combos' = [b \in Combo |-> combos[b] \ {n}] /\ stale' = stale \ Of(conns, n)
      /\ UNCHANGED <<pools, unused, editing, exported, merged>>
  BY DEF DeleteNode
<1>2. NoConn \in Connection /\ NoConn.on = FALSE
  BY DEF NoConn, Connection, Providers
<1>3. /\ \A c \in Of(conns, n) : conns'[c] = NoConn
      /\ \A c \in Conn \ Of(conns, n) : conns'[c] = conns[c]
      /\ Of(conns, n) \subseteq Conn
  BY <1>1 DEF Remaining, Of
<1>4. conns \in [Conn -> Connection] /\ conns' \in [Conn -> Connection]
  BY <1>1, <1>2 DEF Remaining, CatalogInv, TablesInv
<1>5. /\ nodes \in [Node -> Nat] /\ nodes' \in [Node -> Nat] /\ nodes'[n] = 0
      /\ \A m \in Node : m # n => nodes'[m] = nodes[m]
  BY <1>1 DEF CatalogInv, TablesInv
<1>6. \A c \in Conn : conns'[c].on => /\ conns'[c] = conns[c] /\ conns[c].provider # n
                                      /\ c \in stale' <=> c \in stale
  <2> SUFFICES ASSUME NEW c \in Conn, conns'[c].on
               PROVE  /\ conns'[c] = conns[c] /\ conns[c].provider # n
                      /\ c \in stale' <=> c \in stale
    OBVIOUS
  <2>1. c \notin Of(conns, n)
    BY <1>2, <1>3
  <2>2. conns'[c] = conns[c]
    BY <1>3, <2>1
  <2> QED BY <1>1, <2>1, <2>2 DEF Of
<1>7. CopiesFollow'
  <2> SUFFICES ASSUME NEW c \in Conn, CopyDiffers(nodes', conns'[c]), c \notin stale'
               PROVE  /\ nodes'[conns'[c].provider] # 0
                      /\ \E x \in Editor : Follows(editing'[x], conns'[c].provider, c)
    BY DEF CopiesFollow
  <2>1. /\ conns'[c] = conns[c] /\ conns[c].provider # n /\ c \notin stale /\ conns[c].provider \in Node
        /\ CopyDiffers(nodes', conns[c])
    BY <1>6 DEF CopyDiffers
  <2>2. nodes'[conns[c].provider] = nodes[conns[c].provider] /\ CopyDiffers(nodes, conns[c])
    BY <2>1, <1>5 DEF CopyDiffers
  <2> QED BY <1>1, <2>1, <2>2 DEF CatalogInv, TablesInv, CopiesFollow
<1>8. Issued(nodes, conns)' /\ Pooled(pools, conns, stale)'
  BY <1>1, <1>5, <1>6 DEF CatalogInv, TablesInv, Issued, Pooled
<1>9. Served(nodes, combos, stale)'
  <2> SUFFICES ASSUME NEW b \in Combo, b \notin stale', NEW m \in Node, m \in combos'[b]
               PROVE  nodes'[m] # 0
    BY DEF Served
  <2>1. b \notin stale
    BY <1>1, <1>3, CatalogParameters
  <2>2. m \in combos[b] /\ m # n
    BY <1>1
  <2> QED BY <1>5, <2>1, <2>2 DEF CatalogInv, TablesInv, Served
<1>10. AllRanked(conns, merged)'
  <2>1. PICK cs, ds : cs = conns /\ ds = conns'
    OBVIOUS
  <2>2. AllRanked(cs, merged)
    BY <2>1 DEF CatalogInv, TablesInv
  <2>3. AllRanked(ds, merged)
    <3> SUFFICES ASSUME NEW x \in Providers \ merged
                 PROVE  Ranked(ds, x)
      BY DEF AllRanked
    <3>1. CASE x = n
      <4>1. Of(ds, x) = {}
        BY <1>6, <2>1, <3>1 DEF Of
      <4>2. Cardinality(Of(ds, x)) = 0
        BY <4>1, FS_EmptySet
      <4>3. {ds[c].priority : c \in Of(ds, x)} = {}
        BY <4>1
      <4>4. 1..0 = {}
        OBVIOUS
      <4> QED BY <4>2, <4>3, <4>4 DEF Ranked
    <3>2. CASE x # n
      <4>1. \A c \in Conn : (cs[c].on /\ cs[c].provider = x) <=> (ds[c].on /\ ds[c].provider = x)
        <5> TAKE c \in Conn
        <5>1. c \in Of(conns, n) => ~conns'[c].on /\ conns[c].provider = n
          BY <1>2, <1>3 DEF Of
        <5>2. c \notin Of(conns, n) => conns'[c] = conns[c]
          BY <1>3
        <5> QED BY <2>1, <3>2, <5>1, <5>2
      <4>2. \A c \in Of(cs, x) : ds[c].priority = cs[c].priority
        <5> TAKE c \in Of(cs, x)
        <5>1. c \in Conn \ Of(conns, n)
          BY <2>1, <3>2 DEF Of
        <5> QED BY <1>3, <2>1, <5>1
      <4>3. Ranked(cs, x)
        BY <2>2 DEF AllRanked
      <4> QED BY <4>1, <4>2, <4>3, SameRank
    <3> QED BY <3>1, <3>2
  <2> QED BY <1>1, <2>1, <2>3
<1>11. ExportedInv' /\ EditingInv'
  BY <1>1, StillExported, EditingKept DEF CatalogInv
<1>12. combos' \in [Combo -> SUBSET (Node \cup {Other})]
  BY <1>1 DEF CatalogInv, TablesInv
<1>13. TablesInv'
  BY <1>1, <1>4, <1>5, <1>7, <1>8, <1>9, <1>10, <1>12 DEF CatalogInv, TablesInv
<1> QED BY <1>11, <1>13 DEF CatalogInv

\* A pool takes the references along that were made since it was found unused.
LEMMA DeletePoolStep ==
  ASSUME CatalogInv, NEW e \in Editor, DeletePool(e)
  PROVE  CatalogInv'
<1>1. PICK q, p : q = editing[e] /\ p = editing[e].pool
  OBVIOUS
<1>2. /\ q.op = "unpool" /\ Goto(e, Idle) /\ pools' = pools \ {p}
      /\ conns' = IF p \notin pools THEN conns
                  ELSE [c \in Conn |-> IF conns[c].pool = p THEN [conns[c] EXCEPT !.pool = Direct]
                                       ELSE conns[c]]
      /\ UNCHANGED <<nodes, combos, unused, exported, merged, stale>>
  BY <1>1 DEF DeletePool
<1>3. conns \in [Conn -> Connection]
  BY DEF CatalogInv, TablesInv
<1>4. \A c \in Conn : /\ conns'[c] \in Connection /\ SamePlace(conns[c], conns'[c])
                      /\ conns'[c].on = conns[c].on /\ conns'[c].provider = conns[c].provider
                      /\ conns'[c].url = conns[c].url
                      /\ conns'[c].pool \in {conns[c].pool, Direct}
                      /\ p \in pools => conns'[c].pool # p \/ conns'[c].pool = Direct
  <2> TAKE c \in Conn
  <2>1. conns[c] \in Connection
    BY <1>3
  <2>2. CASE p \notin pools \/ conns[c].pool # p
    <3>1. conns'[c] = conns[c]
      BY <1>2, <2>2
    <3> QED BY <2>1, <2>2, <3>1 DEF SamePlace
  <2>3. CASE p \in pools /\ conns[c].pool = p
    <3>1. PICK r : r = [conns[c] EXCEPT !.pool = Direct]
      OBVIOUS
    <3>2. conns'[c] = r
      BY <1>2, <2>3, <3>1
    <3>3. /\ r \in Connection /\ r.on = conns[c].on /\ r.provider = conns[c].provider
          /\ r.priority = conns[c].priority /\ r.url = conns[c].url /\ r.pool = Direct
      BY <2>1, <3>1 DEF Connection
    <3> QED BY <3>2, <3>3 DEF SamePlace
  <2> QED BY <2>2, <2>3
<1>5. conns' \in [Conn -> Connection]
  BY <1>2, <1>3, <1>4
<1>6. \A n, c : ~Follows(editing[e], n, c)
  BY <1>1, <1>2 DEF Follows
<1>7. EditingInv'
  BY <1>2, EditingStep, IdleFacts DEF CatalogInv
<1>8. CopiesFollow'
  <2>1. \A n, c : \A x \in Editor : Follows(editing[x], n, c) => Follows(editing'[x], n, c)
    BY <1>2, <1>6, FollowsKept DEF CatalogInv
  <2>2. \A c \in Conn : CopyDiffers(nodes', conns'[c]) => CopyDiffers(nodes, conns[c])
    BY <1>2, <1>4 DEF CopyDiffers
  <2> QED BY <1>2, <1>4, <2>1, <2>2 DEF CatalogInv, TablesInv, CopiesFollow
<1>9. Issued(nodes, conns)' /\ Served(nodes, combos, stale)'
  BY <1>2, <1>4 DEF CatalogInv, TablesInv, Issued, Served
<1>10. Pooled(pools, conns, stale)'
  BY <1>2, <1>4 DEF CatalogInv, TablesInv, Pooled
<1>11. AllRanked(conns, merged)'
  <2>1. PICK ds : ds = conns'
    OBVIOUS
  <2>2. AllRanked(ds, merged)
    BY <1>4, <2>1, SameRanks DEF CatalogInv, TablesInv
  <2> QED BY <1>2, <2>1, <2>2
<1>12. ExportedInv'
  BY <1>2, StillExported DEF CatalogInv
<1>13. TablesInv'
  BY <1>2, <1>5, <1>8, <1>9, <1>10, <1>11 DEF CatalogInv, TablesInv
<1> QED BY <1>7, <1>12, <1>13 DEF CatalogInv

LEMMA WriteComboStep ==
  ASSUME CatalogInv, NEW b \in Combo, NEW members \in SUBSET (Node \cup {Other}),
         WriteCombo(b, members)
  PROVE  CatalogInv'
<1>1. /\ combos' = [combos EXCEPT ![b] = members]
      /\ stale' = IF \E n \in Node \cap members : nodes[n] = 0 THEN stale \cup {b} ELSE stale \ {b}
      /\ UNCHANGED <<nodes, pools, conns, unused, editing, exported, merged>>
  BY DEF WriteCombo
<1>2. \A c \in Conn : c \in stale' <=> c \in stale
  BY <1>1, CatalogParameters
<1>3. Served(nodes, combos, stale)'
  <2> SUFFICES ASSUME NEW d \in Combo, d \notin stale', NEW n \in Node, n \in combos'[d]
               PROVE  nodes[n] # 0
    BY <1>1 DEF Served
  <2>1. CASE d = b
    <3>1. combos'[b] = members
      BY <1>1 DEF CatalogInv, TablesInv
    <3> QED BY <1>1, <2>1, <3>1
  <2>2. CASE d # b
    BY <1>1, <2>2 DEF CatalogInv, TablesInv, Served
  <2> QED BY <2>1, <2>2
<1>4. CopiesFollow' /\ Pooled(pools, conns, stale)' /\ Issued(nodes, conns)'
  BY <1>1, <1>2 DEF CatalogInv, TablesInv, CopiesFollow, Pooled, Issued
<1>5. AllRanked(conns, merged)'
  BY <1>1, RanksKept DEF CatalogInv
<1>6. ExportedInv' /\ EditingInv'
  BY <1>1, StillExported, EditingKept DEF CatalogInv
<1>7. TablesInv'
  BY <1>1, <1>3, <1>4, <1>5 DEF CatalogInv, TablesInv
<1> QED BY <1>6, <1>7 DEF CatalogInv

LEMMA ExportDbStep ==
  ASSUME CatalogInv, ExportDb
  PROVE  CatalogInv'
<1>1. /\ exported' = [Snapshot EXCEPT !.stale = @ \cup Apart(conns)]
      /\ UNCHANGED <<tables, unused, editing, merged, stale>>
  BY DEF ExportDb
<1>2. /\ exported'.nodes = nodes /\ exported'.pools = pools /\ exported'.conns = conns
      /\ exported'.combos = combos /\ exported'.merged = merged
      /\ exported'.stale = stale \cup Apart(conns)
  BY <1>1 DEF Snapshot
<1>3. EditingInv'
  BY <1>1, EditingKept DEF CatalogInv
<1>4. TablesInv'
  BY <1>1, Untouched DEF CatalogInv
<1>5. ExportedInv'
  <2>1. \A c \in Conn : CopyDiffers(nodes, conns[c]) => c \in Apart(conns)
    BY DEF CopyDiffers, Apart
  <2>2. Pooled(pools, conns, stale \cup Apart(conns)) /\ Served(nodes, combos, stale \cup Apart(conns))
    BY DEF CatalogInv, TablesInv, Pooled, Served
  <2>3. Issued(exported.nodes, exported.conns)'
    BY <1>1, <1>2 DEF CatalogInv, TablesInv, Issued
  <2>4. AllRanked(exported.conns, exported.merged)'
    <3>1. AllRanked(conns, merged)
      BY DEF CatalogInv, TablesInv
    <3> QED BY <1>2, <3>1 DEF AllRanked, Ranked, Of
  <2>5. /\ Pooled(exported.pools, exported.conns, exported.stale)'
        /\ Served(exported.nodes, exported.combos, exported.stale)'
    BY <1>2, <2>2 DEF Pooled, Served
  <2>6. (\A c \in Conn : CopyDiffers(exported.nodes, exported.conns[c]) => c \in exported.stale)'
    BY <1>2, <2>1 DEF CopyDiffers
  <2>7. /\ (exported.nodes \in [Node -> Nat])' /\ (exported.pools \subseteq Pool)'
        /\ (exported.conns \in [Conn -> Connection])'
        /\ (exported.combos \in [Combo -> SUBSET (Node \cup {Other})])'
    BY <1>2 DEF CatalogInv, TablesInv, Connection, Providers
  <2> QED BY <2>3, <2>4, <2>5, <2>6, <2>7 DEF ExportedInv
<1> QED BY <1>3, <1>4, <1>5 DEF CatalogInv

LEMMA ImportDbStep ==
  ASSUME CatalogInv, ImportDb
  PROVE  CatalogInv'
<1>1. /\ nodes' = exported.nodes /\ pools' = exported.pools
      /\ conns' = exported.conns /\ combos' = exported.combos
      /\ merged' = exported.merged /\ stale' = exported.stale
      /\ UNCHANGED <<unused, editing, exported>>
  BY DEF ImportDb
<1>2. EditingInv' /\ ExportedInv'
  BY <1>1, EditingKept, StillExported DEF CatalogInv
<1>3. CopiesFollow'
  BY <1>1 DEF CatalogInv, ExportedInv, CopiesFollow, CopyDiffers
<1>4. Issued(nodes, conns)'
  BY <1>1 DEF CatalogInv, ExportedInv, Issued
<1>5. AllRanked(conns, merged)'
  <2>1. AllRanked(exported.conns, exported.merged)
    BY DEF CatalogInv, ExportedInv
  <2> QED BY <1>1, <2>1 DEF AllRanked, Ranked, Of
<1>6. Pooled(pools, conns, stale)' /\ Served(nodes, combos, stale)'
  BY <1>1 DEF CatalogInv, ExportedInv, Pooled, Served
<1>7. /\ (nodes \in [Node -> Nat])' /\ (pools \subseteq Pool)' /\ (conns \in [Conn -> Connection])'
      /\ (combos \in [Combo -> SUBSET (Node \cup {Other})])'
  BY <1>1 DEF CatalogInv, ExportedInv, Connection, Providers
<1>8. TablesInv'
  BY <1>3, <1>4, <1>5, <1>6, <1>7 DEF TablesInv
<1> QED BY <1>2, <1>8 DEF CatalogInv

LEMMA EndProcessStep ==
  ASSUME CatalogInv, EndProcess
  PROVE  CatalogInv'
<1>1. /\ editing' = [e \in Editor |-> Idle] /\ stale' = stale \cup Apart(conns)
      /\ UNCHANGED <<tables, unused, exported, merged>>
  BY DEF EndProcess
<1>2. EditingInv'
  BY <1>1, IdleFacts DEF EditingInv
<1>3. CopiesFollow'
  <2>1. \A c \in Conn : CopyDiffers(nodes, conns[c]) => c \in Apart(conns)
    BY DEF CopyDiffers, Apart
  <2> QED BY <1>1, <2>1 DEF CopiesFollow, tables, CopyDiffers
<1>4. Issued(nodes, conns)'
  BY <1>1 DEF CatalogInv, TablesInv, Issued, tables
<1>5. AllRanked(conns, merged)'
  BY <1>1, RanksKept DEF CatalogInv, tables
<1>6. Pooled(pools, conns, stale)' /\ Served(nodes, combos, stale)'
  BY <1>1 DEF CatalogInv, TablesInv, Pooled, Served, tables
<1>7. TablesInv'
  BY <1>1, <1>3, <1>4, <1>5, <1>6 DEF CatalogInv, TablesInv, tables
<1>8. ExportedInv'
  BY <1>1, StillExported DEF CatalogInv
<1> QED BY <1>2, <1>7, <1>8 DEF CatalogInv

LEMMA CatalogInitInv == CatalogInit => CatalogInv
<1> SUFFICES ASSUME CatalogInit
             PROVE  CatalogInv
  OBVIOUS
<1>1. /\ nodes = [n \in Node |-> IF n = FirstNode THEN 1 ELSE 0]
      /\ pools = Pool
      /\ conns = [c \in Conn |-> IF c <= 2 THEN Row(FirstNode, c, c, 1, Direct) ELSE NoConn]
      /\ combos = [b \in Combo |-> {FirstNode, Other}]
      /\ unused = (Node \ {FirstNode}) \cup (3..MaxConn)
      /\ editing = [e \in Editor |-> Idle]
      /\ merged = {} /\ stale = {}
      /\ exported = Snapshot
  BY DEF CatalogInit
<1>2. EditingInv
  BY <1>1, IdleFacts DEF EditingInv
<1>3. \A c \in Conn : /\ c \in 1..2 => /\ conns[c].on = TRUE /\ conns[c].provider = FirstNode
                                       /\ conns[c].priority = c /\ conns[c].url = 1
                                       /\ conns[c].pool = Direct /\ conns[c] \in Connection
                      /\ c \notin 1..2 => conns[c].on = FALSE /\ conns[c] \in Connection
  <2> TAKE c \in Conn
  <2>1. c \in Nat /\ c >= 1 /\ FirstNode \in Providers
    BY CatalogParameters DEF Conn, Providers
  <2>2. CASE c \in 1..2
    <3>1. conns[c] = Row(FirstNode, c, c, 1, Direct)
      BY <1>1, <2>1, <2>2
    <3> QED BY <2>1, <2>2, <3>1 DEF Row, Connection
  <2>3. CASE c \notin 1..2
    <3>1. conns[c] = NoConn
      BY <1>1, <2>1, <2>3
    <3> QED BY <2>3, <3>1 DEF NoConn, Connection, Providers
  <2> QED BY <2>2, <2>3
<1>4. conns \in [Conn -> Connection]
  BY <1>1, <1>3
<1>5. nodes \in [Node -> Nat] /\ combos \in [Combo -> SUBSET (Node \cup {Other})]
  BY <1>1, CatalogParameters
<1>6. Issued(nodes, conns)
  <2>1. FirstNode \notin unused /\ 3..MaxConn \subseteq Conn /\ \A c \in 1..2 : c \notin unused
    <3>1. 3..MaxConn \subseteq Conn /\ 1..2 \subseteq Conn
      BY CatalogParameters DEF Conn
    <3>2. \A c \in 1..2 : c \notin Node /\ c \notin 3..MaxConn
      BY <3>1, CatalogParameters
    <3> QED BY <1>1, <3>1, <3>2, CatalogParameters
  <2>2. \A n \in Node \cap unused : nodes[n] = 0
    BY <1>1, <2>1
  <2> QED BY <1>3, <2>1, <2>2 DEF Issued
<1>7. AllRanked(conns, merged)
  <2> SUFFICES ASSUME NEW x \in Providers
               PROVE  Ranked(conns, x)
    BY DEF AllRanked
  <2>1. 1..2 \subseteq Conn
    BY CatalogParameters DEF Conn
  <2>2. CASE x = FirstNode
    <3>1. Of(conns, x) = 1..2
      BY <1>3, <2>1, <2>2 DEF Of
    <3>2. Cardinality(1..2) = 2
      BY PlacesCount
    <3>3. {conns[c].priority : c \in 1..2} = 1..2
      BY <1>3, <2>1
    <3> QED BY <3>1, <3>2, <3>3 DEF Ranked
  <2>3. CASE x # FirstNode
    <3>1. Of(conns, x) = {}
      BY <1>3, <2>3 DEF Of
    <3>2. Cardinality(Of(conns, x)) = 0
      BY <3>1, FS_EmptySet
    <3>3. {conns[c].priority : c \in Of(conns, x)} = {}
      BY <3>1
    <3>4. 1..0 = {}
      OBVIOUS
    <3> QED BY <3>2, <3>3, <3>4 DEF Ranked
  <2> QED BY <2>2, <2>3
<1>8. \A c \in Conn : ~CopyDiffers(nodes, conns[c]) /\ (conns[c].on => conns[c].pool = Direct)
  <2> TAKE c \in Conn
  <2>1. nodes[FirstNode] = 1
    BY <1>1, CatalogParameters
  <2> QED BY <1>3, <2>1 DEF CopyDiffers
<1>9. Pooled(pools, conns, stale) /\ CopiesFollow
  BY <1>8 DEF Pooled, CopiesFollow
<1>10. Served(nodes, combos, stale)
  BY <1>1, CatalogParameters DEF Served
<1>11. TablesInv
  BY <1>1, <1>4, <1>5, <1>6, <1>7, <1>9, <1>10 DEF TablesInv
<1>12. /\ exported.nodes = nodes /\ exported.pools = pools /\ exported.conns = conns
       /\ exported.combos = combos /\ exported.merged = merged /\ exported.stale = stale
  BY <1>1 DEF Snapshot
<1>13. ExportedInv
  BY <1>8, <1>11, <1>12 DEF TablesInv, ExportedInv
<1> QED BY <1>2, <1>11, <1>13 DEF CatalogInv

LEMMA CatalogStepInv == CatalogInv /\ [CatalogNext]_catalogVars => CatalogInv'
<1> SUFFICES ASSUME CatalogInv, [CatalogNext]_catalogVars
             PROVE  CatalogInv'
  OBVIOUS
<1>1. ASSUME NEW e \in Editor, NEW n \in Node, NEW nm \in 1..2, NEW k \in 1..2, NEW q \in Wanted,
             BeginPost(e, n, nm, k, q)
      PROVE  CatalogInv'
  BY <1>1, BeginPostStep
<1>2. ASSUME NEW e \in Editor, NEW c \in Conn, NEW k \in Priorities \cup {NoPriority},
             NEW q \in Wanted \cup {Kept}, BeginPut(e, c, k, q)
      PROVE  CatalogInv'
  BY <1>2, BeginPutStep
<1>3. ASSUME NEW e \in Editor, NEW n \in Node, NEW u \in Urls, BeginEdit(e, n, u)
      PROVE  CatalogInv'
  BY <1>3, BeginEditStep
<1>4. ASSUME NEW e \in Editor, NEW q \in Pool, BeginUnpool(e, q)
      PROVE  CatalogInv'
  BY <1>4, BeginUnpoolStep
<1>5. ASSUME NEW e \in Editor, FindPool(e) \/ FindNode(e) \/ WritePost(e) \/ WritePut(e)
      PROVE  CatalogInv'
  BY <1>5, FindPoolStep, FindNodeStep, WritePostStep, WritePutStep
<1>6. ASSUME NEW e \in Editor, EditNode(e) \/ ListConnections(e) \/ DeletePool(e)
      PROVE  CatalogInv'
  BY <1>6, EditNodeStep, ListConnectionsStep, DeletePoolStep
<1>7. ASSUME NEW e \in Editor, NEW t \in editing[e].todo, CopyTo(e, t)
      PROVE  CatalogInv'
  BY <1>7, CopyToStep
<1>8. ASSUME NEW nm \in 1..2, Login(nm)
      PROVE  CatalogInv'
  BY <1>8, LoginStep
<1>9. ASSUME NEW c \in Conn, DeleteConnection(c)
      PROVE  CatalogInv'
  BY <1>9, DeleteConnectionStep
<1>10. ASSUME NEW n \in Node, DeleteNode(n)
       PROVE  CatalogInv'
  BY <1>10, DeleteNodeStep
<1>11. ASSUME NEW n \in Node, NEW u \in Urls, CreateNode(n, u)
       PROVE  CatalogInv'
  BY <1>11, CreateNodeStep
<1>12. ASSUME NEW b \in Combo, NEW members \in SUBSET (Node \cup {Other}), WriteCombo(b, members)
       PROVE  CatalogInv'
  BY <1>12, WriteComboStep
<1>13. CASE ExportDb \/ ImportDb \/ EndProcess
  BY <1>13, ExportDbStep, ImportDbStep, EndProcessStep
<1>14. CASE UNCHANGED catalogVars
  <2>1. UNCHANGED <<tables, unused, editing, exported, merged, stale>>
    BY <1>14 DEF catalogVars, tables
  <2>2. EditingInv' /\ TablesInv' /\ ExportedInv'
    BY <2>1, EditingKept, Untouched, StillExported DEF CatalogInv
  <2> QED BY <2>2 DEF CatalogInv
<1> QED
  BY <1>1, <1>2, <1>3, <1>4, <1>5, <1>6, <1>7, <1>8, <1>9, <1>10, <1>11, <1>12, <1>13, <1>14
  DEF CatalogNext

LEMMA CatalogInvHolds == CatalogInv => ConfigurationHangsTogether
<1> SUFFICES ASSUME CatalogInv
             PROVE  ConfigurationHangsTogether
  OBVIOUS
<1>1. PrioritiesRank
  <2>1. AllRanked(conns, merged)
    BY DEF CatalogInv, TablesInv
  <2> QED BY <2>1 DEF AllRanked, Ranked, PrioritiesRank, Providers
<1>2. Unpooled(conns) \subseteq stale
  BY DEF CatalogInv, TablesInv, Pooled, Unpooled
<1>3. ASSUME NEW c \in Apart(conns) \ stale
      PROVE  nodes[conns[c].provider] # 0 /\ BeingEdited(conns[c].provider)
  <2>1. c \in Conn /\ CopyDiffers(nodes, conns[c])
    BY <1>3 DEF Apart, CopyDiffers
  <2>2. nodes[conns[c].provider] # 0 /\ \E e \in Editor : Follows(editing[e], conns[c].provider, c)
    BY <1>3, <2>1 DEF CatalogInv, TablesInv, CopiesFollow
  <2> QED BY <2>2 DEF Follows, BeingEdited
<1>4. \A b \in Combo \ stale : \A n \in Node \cap combos[b] : nodes[n] # 0
  BY DEF CatalogInv, TablesInv, Served
<1>5. ReferencesHold
  BY <1>2, <1>3, <1>4 DEF ReferencesHold
<1> QED BY <1>1, <1>5 DEF ConfigurationHangsTogether

(* However requests overlap, and whatever is imported or ends halfway: the    *)
(* priorities of a provider's connections are 1..n unless a merge gave one of *)
(* them its own, and nothing names a node, a pool or a URL that has gone      *)
(* unless it was written with what its request had read before.               *)
THEOREM ConfigurationAlwaysHangsTogether == CatalogSpec => []ConfigurationHangsTogether
<1> QED BY CatalogInitInv, CatalogStepInv, CatalogInvHolds, PTL DEF CatalogSpec

-----------------------------------------------------------------------------
(* KeyPolicy: what the dashboard and the usage queue write about a key binds  *)
(* every request that begins a time to live later, although both caches may   *)
(* store what was read before they were cleared; and no window of time sees   *)
(* more admissions than the rate allows.                                      *)
Where == {"new", "validating", "valid", "loading", "loaded", "budget", "admitted", "refused"}
KeyRequest == [at : Where, rec : Records, start : Nat, askedAt : Nat, admittedAt : Nat]

KeyTyped ==
  /\ now \in 0..MaxNow
  /\ row \in Records
  /\ spent \in Nat
  /\ keyCache \in [rec : Records, exp : Nat]
  /\ spendCache \in [sum : Nat, at : Nat]
  /\ req \in [Req -> KeyRequest]
  /\ changedAt \in Nat /\ changedAt <= now
  /\ reachedAt \in Nat

\* A record that is not the row's was read before the row's last change, and so
\* leaves the cache within KeyTtl of that change.
KeyCacheIsRecent == keyCache.rec = row \/ keyCache.exp <= changedAt + KeyTtl

\* A sum below the budget was asked for before the spend reached it.
SpendCacheIsRecent ==
  /\ spent < Budget => reachedAt = Never
  /\ spendCache.at <= now \/ spendCache.at = Never
  /\ spendCache.at = Never \/ spendCache.sum >= Budget \/ spendCache.at <= reachedAt

\* The same of what a request q holds.
Waits(q) ==
  q.at \in {"validating", "loading"} =>
    q.start <= q.askedAt /\ (q.rec = row \/ q.askedAt <= changedAt)
Judged(q) ==
  q.at \in {"valid", "loaded", "budget", "admitted"} =>
    q.rec = row \/ q.start < changedAt + KeyTtl
Admitted(q) == q.at = "admitted" /\ q.rec.active => q.start < reachedAt + SpendTtl
Recent(q) ==
  /\ q \in KeyRequest /\ q.start <= now /\ q.askedAt <= now
  /\ Waits(q) /\ Judged(q) /\ Admitted(q)

RequestsAreRecent == \A r \in Req : Recent(req[r])

KeyInv == KeyTyped /\ KeyCacheIsRecent /\ SpendCacheIsRecent /\ RequestsAreRecent

-----------------------------------------------------------------------------
LEMMA Parameters ==
  /\ Budget \in Nat \ {0} /\ KeyTtl \in Nat \ {0} /\ SpendTtl \in Nat \ {0}
  /\ MaxNow \in Nat /\ Never \in Nat /\ MaxNow < Never /\ FirstRow \in Records
BY KeyAssumption DEF Never

LEMMA FreshRequests ==
  ASSUME KeyTyped
  PROVE  Recent(NewRequest) /\ Recent(Refused)
<1>1. NewRequest \in KeyRequest /\ Refused \in KeyRequest
  BY Parameters DEF NewRequest, Refused, KeyRequest, Where
<1> QED BY <1>1, Parameters DEF Recent, Waits, Judged, Admitted, NewRequest, Refused, KeyTyped

(* One request takes a step that leaves clock, row and histories alone. *)
LEMMA BecomesInv ==
  ASSUME KeyInv, NEW r \in Req, NEW q, Recent(q), Becomes(r, q),
         UNCHANGED <<now, row, changedAt, reachedAt>>
  PROVE  RequestsAreRecent' /\ req' \in [Req -> KeyRequest]
<1>1. \A s \in Req : req'[s] = IF s = r THEN q ELSE req[s]
  BY DEF KeyInv, KeyTyped, Becomes
<1>2. \A s \in Req : Recent(req'[s])
  BY <1>1 DEF KeyInv, RequestsAreRecent
<1>3. req' \in [Req -> KeyRequest]
  BY <1>1 DEF KeyInv, KeyTyped, Becomes, Recent
<1>4. ASSUME NEW s \in Req PROVE Recent(req[s])'
  <2>1. Recent(req'[s])
    BY <1>2
  <2> QED BY <2>1 DEF Recent, Waits, Judged, Admitted
<1> QED BY <1>3, <1>4 DEF RequestsAreRecent

LEMMA KeyInitInv == Init => KeyInv
<1> SUFFICES ASSUME Init PROVE KeyInv
  OBVIOUS
<1>1. KeyTyped
  <2>1. NewRequest \in KeyRequest
    BY Parameters DEF NewRequest, KeyRequest, Where
  <2> QED BY <2>1, Parameters DEF Init, KeyTyped, Nothing, NoSpend
<1>2. RequestsAreRecent
  BY <1>1, FreshRequests DEF Init, RequestsAreRecent
<1> QED BY <1>1, <1>2, Parameters
     DEF Init, KeyInv, KeyCacheIsRecent, SpendCacheIsRecent, Nothing, NoSpend

-----------------------------------------------------------------------------
(* The requests' steps. *)

LEMMA JudgeRecent ==
  ASSUME KeyInv, NEW r \in Req, NEW rec \in Records, NEW start \in Nat, start <= now,
         rec = row \/ start < changedAt + KeyTtl, Judge(r, rec, start),
         UNCHANGED <<now, row, changedAt, reachedAt>>
  PROVE  RequestsAreRecent' /\ req' \in [Req -> KeyRequest]
<1> DEFINE valid == [NewRequest EXCEPT !.at = "valid", !.rec = rec, !.start = start]
<1>1. /\ valid.at = "valid" /\ valid.rec = rec /\ valid.start = start
      /\ valid.askedAt = 0 /\ valid.admittedAt = Never
  BY DEF NewRequest
<1>2. valid \in KeyRequest
  BY Parameters DEF NewRequest, KeyRequest, Where
<1>3. Recent(valid)
  BY <1>1, <1>2 DEF Recent, Waits, Judged, Admitted, KeyInv, KeyTyped
<1>4. Recent(Refused)
  BY FreshRequests DEF KeyInv
<1> HIDE DEF valid
<1>5. Becomes(r, valid) \/ Becomes(r, Refused)
  BY DEF Judge, valid
<1> QED BY <1>3, <1>4, <1>5, BecomesInv

LEMMA CachedRecent ==
  ASSUME KeyInv, NEW r \in Req, req[r].at \in {"validating", "loading"}, keyCache' = Cached(r),
         UNCHANGED <<row, changedAt>>
  PROVE  KeyCacheIsRecent' /\ keyCache' \in [rec : Records, exp : Nat]
<1>1. req[r] \in KeyRequest /\ Waits(req[r])
  BY DEF KeyInv, RequestsAreRecent, Recent
<1>2. req[r].rec \in Records /\ req[r].askedAt \in Nat /\ changedAt \in Nat
  BY <1>1 DEF KeyRequest, KeyInv, KeyTyped
<1> QED BY <1>1, <1>2, Parameters DEF Cached, Waits, KeyCacheIsRecent

LEMMA ValidateInv ==
  ASSUME KeyInv, NEW r \in Req, Validate(r) \/ Validated(r) PROVE KeyInv'
<1>0. Recent(req[r]) /\ req[r] \in KeyRequest /\ now \in Nat
  BY DEF KeyInv, RequestsAreRecent, Recent, KeyTyped
<1>1. CASE Validate(r)
  <2>1. CASE keyCache.exp > now
    <3>1. Judge(r, keyCache.rec, now) /\ UNCHANGED <<now, row, changedAt, reachedAt>>
      BY <1>1, <2>1 DEF Validate
    <3>2. keyCache.rec \in Records /\ (keyCache.rec = row \/ now < changedAt + KeyTtl)
      BY <1>0, <2>1, Parameters DEF KeyInv, KeyTyped, KeyCacheIsRecent
    <3>3. RequestsAreRecent' /\ req' \in [Req -> KeyRequest]
      BY <1>0, <3>1, <3>2, JudgeRecent
    <3> QED BY <1>1, <3>3 DEF KeyInv, Validate, KeyTyped, KeyCacheIsRecent, SpendCacheIsRecent
  <2>2. CASE ~(keyCache.exp > now)
    <3> DEFINE q == [req[r] EXCEPT !.at = "validating", !.rec = row, !.askedAt = now, !.start = now]
    <3>1. /\ q.at = "validating" /\ q.rec = row /\ q.start = now
          /\ q.askedAt = now /\ q.admittedAt = req[r].admittedAt
      BY <1>0 DEF KeyRequest
    <3>2. q \in KeyRequest
      BY <1>0, <3>1 DEF KeyRequest, Where, KeyInv, KeyTyped
    <3>3. Recent(q)
      BY <1>0, <3>1, <3>2 DEF Recent, Waits, Judged, Admitted
    <3>4. Becomes(r, q) /\ UNCHANGED <<now, row, changedAt, reachedAt>>
      BY <1>1, <2>2 DEF Validate
    <3> HIDE DEF q
    <3>5. RequestsAreRecent' /\ req' \in [Req -> KeyRequest]
      BY <3>3, <3>4, BecomesInv
    <3> QED BY <1>1, <3>5 DEF KeyInv, Validate, KeyTyped, KeyCacheIsRecent, SpendCacheIsRecent
  <2> QED BY <2>1, <2>2
<1>2. CASE Validated(r)
  <2>1. req[r].rec \in Records /\ req[r].start \in Nat /\ req[r].askedAt \in Nat /\ changedAt \in Nat
    BY <1>0 DEF KeyRequest, KeyInv, KeyTyped
  <2>2. req[r].start <= now /\ (req[r].rec = row \/ req[r].start < changedAt + KeyTtl)
    BY <1>0, <1>2, <2>1, Parameters DEF Recent, Waits, Validated
  <2>3. Judge(r, req[r].rec, req[r].start) /\ UNCHANGED <<now, row, changedAt, reachedAt>>
    BY <1>2 DEF Validated
  <2>4. RequestsAreRecent' /\ req' \in [Req -> KeyRequest]
    BY <2>1, <2>2, <2>3, JudgeRecent
  <2>5. KeyCacheIsRecent' /\ keyCache' \in [rec : Records, exp : Nat]
    BY <1>2, CachedRecent DEF Validated
  <2> QED BY <1>2, <2>4, <2>5 DEF KeyInv, Validated, KeyTyped, SpendCacheIsRecent
<1> QED BY <1>1, <1>2

LEMMA LoadInv ==
  ASSUME KeyInv, NEW r \in Req, GetApiKeyByKey(r) \/ GotApiKey(r) PROVE KeyInv'
<1>0. Recent(req[r]) /\ req[r] \in KeyRequest /\ now \in Nat /\ row \in Records
  BY DEF KeyInv, RequestsAreRecent, Recent, KeyTyped
<1>1. CASE GetApiKeyByKey(r)
  <2>1. CASE keyCache.exp > now
    <3> DEFINE q == [req[r] EXCEPT !.at = "loaded", !.rec = keyCache.rec]
    <3>1. /\ q.at = "loaded" /\ q.rec = keyCache.rec /\ q.start = req[r].start
          /\ q.askedAt = req[r].askedAt /\ q.admittedAt = req[r].admittedAt
      BY <1>0 DEF KeyRequest
    <3>2. q \in KeyRequest /\ req[r].start \in Nat
      BY <1>0, <3>1 DEF KeyRequest, Where, KeyInv, KeyTyped
    <3>3. keyCache.rec = row \/ req[r].start < changedAt + KeyTtl
      BY <1>0, <2>1, <3>2, Parameters DEF KeyInv, KeyTyped, KeyCacheIsRecent, Recent
    <3>4. Recent(q)
      BY <1>0, <3>1, <3>2, <3>3 DEF Recent, Waits, Judged, Admitted
    <3>5. Becomes(r, q) /\ UNCHANGED <<now, row, changedAt, reachedAt>>
      BY <1>1, <2>1 DEF GetApiKeyByKey
    <3> HIDE DEF q
    <3>6. RequestsAreRecent' /\ req' \in [Req -> KeyRequest]
      BY <3>4, <3>5, BecomesInv
    <3> QED BY <1>1, <3>6 DEF KeyInv, GetApiKeyByKey, KeyTyped, KeyCacheIsRecent, SpendCacheIsRecent
  <2>2. CASE ~(keyCache.exp > now)
    <3> DEFINE q == [req[r] EXCEPT !.at = "loading", !.rec = row, !.askedAt = now]
    <3>1. /\ q.at = "loading" /\ q.rec = row /\ q.start = req[r].start
          /\ q.askedAt = now /\ q.admittedAt = req[r].admittedAt
      BY <1>0 DEF KeyRequest
    <3>2. q \in KeyRequest
      BY <1>0, <3>1 DEF KeyRequest, Where
    <3>3. Recent(q)
      BY <1>0, <3>1, <3>2 DEF Recent, Waits, Judged, Admitted
    <3>4. Becomes(r, q) /\ UNCHANGED <<now, row, changedAt, reachedAt>>
      BY <1>1, <2>2 DEF GetApiKeyByKey
    <3> HIDE DEF q
    <3>5. RequestsAreRecent' /\ req' \in [Req -> KeyRequest]
      BY <3>3, <3>4, BecomesInv
    <3> QED BY <1>1, <3>5 DEF KeyInv, GetApiKeyByKey, KeyTyped, KeyCacheIsRecent, SpendCacheIsRecent
  <2> QED BY <2>1, <2>2
<1>2. CASE GotApiKey(r)
  <2> DEFINE q == [req[r] EXCEPT !.at = "loaded", !.askedAt = 0]
  <2>1. /\ q.at = "loaded" /\ q.rec = req[r].rec /\ q.start = req[r].start
        /\ q.askedAt = 0 /\ q.admittedAt = req[r].admittedAt
    BY <1>0 DEF KeyRequest
  <2>2. q \in KeyRequest /\ req[r].start \in Nat /\ req[r].askedAt \in Nat /\ changedAt \in Nat
    BY <1>0, <2>1 DEF KeyRequest, Where, KeyInv, KeyTyped
  <2>3. req[r].rec = row \/ req[r].start < changedAt + KeyTtl
    BY <1>0, <1>2, <2>2, Parameters DEF Recent, Waits, GotApiKey
  <2>4. Recent(q)
    BY <1>0, <2>1, <2>2, <2>3 DEF Recent, Waits, Judged, Admitted
  <2>5. Becomes(r, q) /\ UNCHANGED <<now, row, changedAt, reachedAt>>
    BY <1>2 DEF GotApiKey
  <2> HIDE DEF q
  <2>6. RequestsAreRecent' /\ req' \in [Req -> KeyRequest]
    BY <2>4, <2>5, BecomesInv
  <2>7. KeyCacheIsRecent' /\ keyCache' \in [rec : Records, exp : Nat]
    BY <1>2, CachedRecent DEF GotApiKey
  <2> QED BY <1>2, <2>6, <2>7 DEF KeyInv, GotApiKey, KeyTyped, SpendCacheIsRecent
<1> QED BY <1>1, <1>2

\* Whoever passes does so within SpendTtl of the time the budget was reached.
LEMMA ConsumeRecent ==
  ASSUME KeyInv, NEW r \in Req, req[r].at \in {"loaded", "budget"}, Consume(r),
         req[r].start < reachedAt + SpendTtl, UNCHANGED <<now, row, changedAt, reachedAt>>
  PROVE  RequestsAreRecent' /\ req' \in [Req -> KeyRequest]
<1>0. Recent(req[r]) /\ req[r] \in KeyRequest /\ now \in Nat
  BY DEF KeyInv, RequestsAreRecent, Recent, KeyTyped
<1> DEFINE q == [req[r] EXCEPT !.at = "admitted", !.admittedAt = now, !.askedAt = 0]
<1>1. /\ q.at = "admitted" /\ q.rec = req[r].rec /\ q.start = req[r].start
      /\ q.askedAt = 0 /\ q.admittedAt = now
  BY <1>0 DEF KeyRequest
<1>2. q \in KeyRequest
  BY <1>0, <1>1 DEF KeyRequest, Where
<1>3. Recent(q)
  BY <1>0, <1>1, <1>2 DEF Recent, Waits, Judged, Admitted
<1>4. Recent(Refused)
  BY FreshRequests DEF KeyInv
<1>5. Becomes(r, q) \/ Becomes(r, Refused)
  BY DEF Consume
<1> HIDE DEF q
<1> QED BY <1>3, <1>4, <1>5, BecomesInv

LEMMA CheckPolicyInv ==
  ASSUME KeyInv, NEW r \in Req, CheckPolicy(r) PROVE KeyInv'
<1>0. /\ Recent(req[r]) /\ req[r] \in KeyRequest /\ now \in Nat
      /\ req[r].at = "loaded" /\ UNCHANGED <<now, row, changedAt, reachedAt>>
      /\ UNCHANGED <<spent, keyCache, spendCache>>
  BY DEF KeyInv, RequestsAreRecent, Recent, KeyTyped, CheckPolicy
<1>1. ASSUME RequestsAreRecent' /\ req' \in [Req -> KeyRequest] PROVE KeyInv'
  BY <1>0, <1>1 DEF KeyInv, KeyTyped, KeyCacheIsRecent, SpendCacheIsRecent
<1>2. CASE ~req[r].rec.active /\ Becomes(r, [req[r] EXCEPT !.at = "admitted"])
  <2> DEFINE q == [req[r] EXCEPT !.at = "admitted"]
  <2>1. /\ q.at = "admitted" /\ q.rec = req[r].rec /\ q.start = req[r].start
        /\ q.askedAt = req[r].askedAt /\ q.admittedAt = req[r].admittedAt
    BY <1>0 DEF KeyRequest
  <2>2. q \in KeyRequest
    BY <1>0 DEF KeyRequest, Where
  <2>3. Recent(q)
    BY <1>0, <1>2, <2>1, <2>2 DEF Recent, Waits, Judged, Admitted
  <2> HIDE DEF q
  <2>4. Becomes(r, q)
    BY <1>2 DEF q
  <2> QED BY <1>0, <1>1, <2>3, <2>4, BecomesInv
<1>3. CASE Becomes(r, Refused)
  <2>1. Recent(Refused)
    BY FreshRequests DEF KeyInv
  <2> QED BY <1>0, <1>1, <1>3, <2>1, BecomesInv
<1>4. CASE SpendHit /\ spendCache.sum < Budget /\ Consume(r)
  <2>1. /\ spendCache.at \in Nat /\ spendCache.sum \in Nat /\ req[r].start \in Nat
        /\ reachedAt \in Nat
    BY <1>0 DEF KeyInv, KeyTyped, KeyRequest
  <2>2. spendCache.at <= reachedAt /\ now < spendCache.at + SpendTtl
    BY <1>4, <2>1, Parameters DEF KeyInv, SpendCacheIsRecent, SpendHit
  <2>3. req[r].start < reachedAt + SpendTtl
    BY <1>0, <2>1, <2>2, Parameters DEF Recent
  <2> QED BY <1>0, <1>1, <1>4, <2>3, ConsumeRecent
<1>5. CASE Becomes(r, [req[r] EXCEPT !.at = "budget", !.askedAt = now])
  <2> DEFINE q == [req[r] EXCEPT !.at = "budget", !.askedAt = now]
  <2>1. /\ q.at = "budget" /\ q.rec = req[r].rec /\ q.start = req[r].start
        /\ q.askedAt = now /\ q.admittedAt = req[r].admittedAt
    BY <1>0 DEF KeyRequest
  <2>2. q \in KeyRequest
    BY <1>0 DEF KeyRequest, Where
  <2>3. Recent(q)
    BY <1>0, <2>1, <2>2 DEF Recent, Waits, Judged, Admitted
  <2> HIDE DEF q
  <2>4. Becomes(r, q)
    BY <1>5 DEF q
  <2> QED BY <1>0, <1>1, <2>3, <2>4, BecomesInv
<1> QED BY <1>2, <1>3, <1>4, <1>5 DEF CheckPolicy

LEMMA CheckBudgetInv ==
  ASSUME KeyInv, NEW r \in Req, CheckBudget(r) PROVE KeyInv'
<1>0. /\ Recent(req[r]) /\ req[r] \in KeyRequest /\ now \in 0..MaxNow /\ spent \in Nat
      /\ req[r].at = "budget" /\ UNCHANGED <<now, row, changedAt, reachedAt>>
      /\ UNCHANGED <<spent, keyCache>> /\ spendCache' = [sum |-> spent, at |-> req[r].askedAt]
  BY DEF KeyInv, RequestsAreRecent, Recent, KeyTyped, CheckBudget
<1>1. req[r].start \in Nat /\ req[r].start <= now /\ req[r].askedAt \in Nat /\ req[r].askedAt <= now
  BY <1>0 DEF KeyRequest, Recent
<1>2. RequestsAreRecent' /\ req' \in [Req -> KeyRequest]
  <2>1. CASE spent >= Budget
    <3>1. Recent(Refused) /\ Becomes(r, Refused)
      BY <2>1, FreshRequests DEF KeyInv, CheckBudget
    <3> QED BY <1>0, <3>1, BecomesInv
  <2>2. CASE ~(spent >= Budget)
    <3>1. reachedAt = Never
      BY <1>0, <2>2, Parameters DEF KeyInv, SpendCacheIsRecent
    <3>2. req[r].start < reachedAt + SpendTtl
      BY <1>0, <1>1, <3>1, Parameters
    <3>3. Consume(r)
      BY <2>2 DEF CheckBudget
    <3> QED BY <1>0, <3>2, <3>3, ConsumeRecent
  <2> QED BY <2>1, <2>2
<1>3. spendCache' \in [sum : Nat, at : Nat]
  BY <1>0, <1>1
<1>4. SpendCacheIsRecent'
  BY <1>0, <1>1, Parameters DEF KeyInv, SpendCacheIsRecent
<1> QED BY <1>0, <1>2, <1>3, <1>4 DEF KeyInv, KeyTyped, KeyCacheIsRecent

-----------------------------------------------------------------------------
(* The clock and the writers move the times that requests are measured by. *)

LEMMA WritersKeepRequests ==
  ASSUME KeyInv, UNCHANGED req,
         now' \in Nat, now <= now',
         \/ UNCHANGED <<row, changedAt>>
         \/ changedAt' = now,
         reachedAt' = reachedAt \/ reachedAt' = now
  PROVE  RequestsAreRecent'
<1> SUFFICES ASSUME NEW r \in Req PROVE Recent(req[r])'
  BY DEF RequestsAreRecent
<1>0. /\ Recent(req[r]) /\ req[r] \in KeyRequest /\ req'[r] = req[r]
      /\ now \in Nat /\ changedAt \in Nat /\ reachedAt \in Nat
  BY DEF KeyInv, RequestsAreRecent, Recent, KeyTyped
<1>1. req[r].start \in Nat /\ req[r].askedAt \in Nat /\ req[r].start <= now /\ req[r].askedAt <= now
  BY <1>0 DEF KeyRequest, Recent
<1>2. Waits(req[r])'
  BY <1>0, <1>1 DEF Recent, Waits
<1>3. Judged(req[r])'
  BY <1>0, <1>1, Parameters DEF Recent, Judged
<1>4. Admitted(req[r])'
  BY <1>0, <1>1, Parameters DEF Recent, Admitted
<1> QED BY <1>0, <1>1, <1>2, <1>3, <1>4 DEF Recent

LEMMA InvalidatedInv ==
  ASSUME Invalidated, changedAt' \in Nat, now' \in Nat
  PROVE  /\ KeyCacheIsRecent'
         /\ keyCache' \in [rec : Records, exp : Nat] /\ spendCache' \in [sum : Nat, at : Nat]
         /\ spendCache'.at = Never
<1>1. keyCache' = [rec |-> FirstRow, exp |-> 0] /\ spendCache' = [sum |-> 0, at |-> Never]
  BY DEF Invalidated, Nothing, NoSpend
<1>2. \A t \in Nat : 0 <= t + KeyTtl
  BY Parameters
<1>3. keyCache'.exp = 0
  BY <1>1
<1>4. KeyCacheIsRecent'
  BY <1>2, <1>3 DEF KeyCacheIsRecent
<1> QED BY <1>1, <1>4, Parameters

LEMMA KeyStepInv == KeyInv /\ [Next]_keyVars => KeyInv'
<1> SUFFICES ASSUME KeyInv, [Next]_keyVars PROVE KeyInv'
  OBVIOUS
<1>0. /\ KeyTyped /\ KeyCacheIsRecent /\ SpendCacheIsRecent /\ RequestsAreRecent
      /\ now \in Nat /\ changedAt \in Nat /\ reachedAt \in Nat
  BY DEF KeyInv, KeyTyped
<1>1. CASE \E r \in Req : Validate(r) \/ Validated(r)
  BY <1>1, ValidateInv
<1>2. CASE \E r \in Req : GetApiKeyByKey(r) \/ GotApiKey(r)
  BY <1>2, LoadInv
<1>3. CASE \E r \in Req : CheckPolicy(r)
  BY <1>3, CheckPolicyInv
<1>4. CASE \E r \in Req : CheckBudget(r)
  BY <1>4, CheckBudgetInv
<1>5. CASE \E r \in Req : PolicyFails(r)
  <2>1. PICK r \in Req : PolicyFails(r)
    BY <1>5
  <2>2. Recent(Refused)
    BY <1>0, FreshRequests
  <2>3. RequestsAreRecent' /\ req' \in [Req -> KeyRequest]
    BY <2>1, <2>2, BecomesInv DEF PolicyFails
  <2> QED BY <1>0, <2>1, <2>3 DEF KeyInv, PolicyFails, KeyTyped, KeyCacheIsRecent, SpendCacheIsRecent
<1>6. CASE \E rec \in Records : UpdateApiKey(rec)
  <2>1. PICK rec \in Records : UpdateApiKey(rec)
    BY <1>6
  <2>2. RequestsAreRecent'
    BY <1>0, <2>1, WritersKeepRequests DEF UpdateApiKey
  <2>3. /\ KeyCacheIsRecent' /\ spendCache'.at = Never
        /\ keyCache' \in [rec : Records, exp : Nat] /\ spendCache' \in [sum : Nat, at : Nat]
    BY <1>0, <2>1, InvalidatedInv DEF UpdateApiKey
  <2>4. SpendCacheIsRecent' /\ KeyTyped'
    BY <1>0, <2>1, <2>3 DEF UpdateApiKey, SpendCacheIsRecent, KeyTyped, Never
  <2> QED BY <2>2, <2>3, <2>4 DEF KeyInv
<1>7. CASE Touch
  <2>1. RequestsAreRecent'
    BY <1>0, <1>7, WritersKeepRequests DEF Touch
  <2>2. /\ KeyCacheIsRecent' /\ spendCache'.at = Never
        /\ keyCache' \in [rec : Records, exp : Nat] /\ spendCache' \in [sum : Nat, at : Nat]
    BY <1>0, <1>7, InvalidatedInv DEF Touch
  <2>3. SpendCacheIsRecent' /\ KeyTyped'
    BY <1>0, <1>7, <2>2 DEF Touch, SpendCacheIsRecent, KeyTyped, Never
  <2> QED BY <2>1, <2>2, <2>3 DEF KeyInv
<1>8. CASE Tick
  <2>1. now' = now + 1 /\ now' \in 0..MaxNow
    BY <1>0, <1>8, Parameters DEF Tick, KeyTyped
  <2>2. RequestsAreRecent'
    BY <1>0, <1>8, <2>1, WritersKeepRequests DEF Tick
  <2>3. KeyTyped'
    BY <1>0, <1>8, <2>1 DEF Tick, KeyTyped
  <2>4. spendCache.at \in Nat
    BY <1>0 DEF KeyTyped
  <2>5. SpendCacheIsRecent'
    BY <1>0, <1>8, <2>1, <2>4, Parameters DEF Tick, SpendCacheIsRecent, Never
  <2> QED BY <1>0, <1>8, <2>2, <2>3, <2>5 DEF KeyInv, Tick, KeyCacheIsRecent
<1>9. CASE UsageIsRecorded
  <2>1. spent \in Nat /\ spent' = spent + 1 /\ spendCache.at \in Nat
    BY <1>0, <1>9 DEF UsageIsRecorded, KeyTyped
  <2>2. reachedAt' = reachedAt \/ reachedAt' = now
    BY <1>9 DEF UsageIsRecorded
  <2>3. RequestsAreRecent'
    BY <1>0, <1>9, <2>2, WritersKeepRequests DEF UsageIsRecorded
  <2>4. SpendCacheIsRecent'
    BY <1>0, <1>9, <2>1, Parameters DEF UsageIsRecorded, SpendCacheIsRecent, Never
  <2>5. KeyTyped'
    BY <1>0, <1>9, <2>1, <2>2 DEF UsageIsRecorded, KeyTyped
  <2> QED BY <1>0, <1>9, <2>3, <2>4, <2>5 DEF KeyInv, UsageIsRecorded, KeyCacheIsRecent
<1>10. CASE ProcessEnds
  <2>1. Recent(Refused) /\ Refused \in KeyRequest
    BY <1>0, FreshRequests DEF Recent
  <2>2. \A r \in Req : req'[r] = req[r] \/ req'[r] = Refused
    BY <1>10 DEF ProcessEnds
  <2>3. req' \in [Req -> KeyRequest]
    BY <1>0, <1>10, <2>1 DEF ProcessEnds, KeyTyped
  <2>4. \A r \in Req : Recent(req'[r])
    BY <1>0, <2>1, <2>2 DEF RequestsAreRecent
  <2>5. RequestsAreRecent'
    <3> SUFFICES ASSUME NEW r \in Req PROVE Recent(req[r])'
      BY DEF RequestsAreRecent
    <3>1. Recent(req'[r])
      BY <2>4
    <3> QED BY <1>10, <3>1 DEF ProcessEnds, Recent, Waits, Judged, Admitted
  <2>6. /\ KeyCacheIsRecent' /\ spendCache'.at = Never
        /\ keyCache' \in [rec : Records, exp : Nat] /\ spendCache' \in [sum : Nat, at : Nat]
    BY <1>0, <1>10, InvalidatedInv DEF ProcessEnds
  <2>7. SpendCacheIsRecent' /\ KeyTyped'
    BY <1>0, <1>10, <2>3, <2>6 DEF ProcessEnds, SpendCacheIsRecent, KeyTyped, Never
  <2> QED BY <2>5, <2>6, <2>7 DEF KeyInv
<1>11. CASE UNCHANGED keyVars
  <2>1. RequestsAreRecent'
    BY <1>0, <1>11, WritersKeepRequests DEF keyVars
  <2> QED BY <1>0, <1>11, <2>1 DEF KeyInv, KeyTyped, KeyCacheIsRecent, SpendCacheIsRecent, keyVars, Never
<1> QED BY <1>1, <1>2, <1>3, <1>4, <1>5, <1>6, <1>7, <1>8, <1>9, <1>10, <1>11 DEF Next

\* handleChat's policy: whatever requests, dashboard edits, usage writes and
\* restarts interleave, a changed key and a spent budget are old news to no
\* request that begins a time to live later.
THEOREM PolicyAlwaysBites == Spec => []PolicyBites
<1>1. KeyInv => PolicyBites
  <2> SUFFICES ASSUME KeyInv, NEW r \in Req
               PROVE  /\ /\ req[r].at \in {"valid", "loaded", "budget", "admitted"}
                         /\ req[r].start >= changedAt + KeyTtl
                         => req[r].rec = row
                      /\ req[r].at = "admitted" /\ req[r].rec.active
                           => req[r].start < reachedAt + SpendTtl
    BY DEF PolicyBites, KeyChangesBite, BudgetBites
  <2>1. Recent(req[r]) /\ req[r].start \in Nat /\ changedAt \in Nat
    BY DEF KeyInv, RequestsAreRecent, Recent, KeyRequest, KeyTyped
  <2> QED BY <2>1, Parameters DEF Recent, Judged, Admitted
<1> QED BY <1>1, KeyInitInv, KeyStepInv, PTL DEF Spec
-----------------------------------------------------------------------------
(* The rate.  Who still counts against the window is somewhere in stamps,   *)
(* everyone at a place of his own; so a full window is Rpm requests.        *)

Counts(r) == req[r].admittedAt # Never /\ req[r].admittedAt + Window > now
Counted == {r \in Req : Counts(r)}

AdmittedFrom(t) == {r \in Req : req[r].admittedAt \in t..(t + Window - 1) \ {Never}}

StampedAt(f) ==
  /\ \A r \in Counted : f[r] \in 1..Len(stamps) /\ stamps[f[r]] = req[r].admittedAt
  /\ \A r, s \in Counted : f[r] = f[s] => r = s

RateInv ==
  /\ stamps \in Seq(Nat) /\ Len(stamps) <= Rpm
  /\ \A r \in Req :
       /\ req[r].admittedAt = Never \/ req[r].admittedAt <= now
       /\ req[r].at = "new" => req[r].admittedAt = Never
  /\ \E f \in [Req -> Nat] : StampedAt(f)
  /\ RateIsCapped

LEMMA RateParameters == Window \in Nat \ {0} /\ Rpm \in Nat \ {0} /\ IsFiniteSet(Req)
BY KeyAssumption

LEMMA RateTypes ==
  ASSUME KeyInv
  PROVE  /\ now \in Nat /\ now <= MaxNow
         /\ \A r \in Req : req[r] \in KeyRequest /\ req[r].admittedAt \in Nat
BY Parameters DEF KeyInv, KeyTyped, KeyRequest

\* A sequence of times has a longest prefix that has left the window.
LEMMA Shifted ==
  ASSUME stamps \in Seq(Nat), now \in Nat
  PROVE  /\ Expired \in 0..Len(stamps)
         /\ \A i \in 1..Expired : stamps[i] + Window <= now
<1> DEFINE stays == {k \in 0..Len(stamps) : k < Len(stamps) => stamps[k + 1] + Window > now}
<1>1. Len(stamps) \in stays /\ stays \subseteq Nat
  OBVIOUS
<1>2. \E k \in stays : \A j \in stays : ~(<<j, k>> \in OpToRel(<, Nat))
  <2> HIDE DEF stays
  <2> QED BY <1>1, NatLessThanWellFounded, WFMin
<1>3. PICK k \in stays : \A j \in stays : ~(<<j, k>> \in OpToRel(<, Nat))
  BY <1>2
<1>6. k \in 0..Len(stamps) /\ Len(stamps) \in Nat
  <2> HIDE DEF stays
  <2>1. k \in stays
    BY <1>3
  <2> QED BY <2>1 DEF stays
<1>4. \A j \in stays : ~(j < k)
  BY <1>1, <1>3 DEF OpToRel
<1>5. \A i \in 1..k : stamps[i] + Window <= now
  <2> SUFFICES ASSUME NEW i \in 1..k PROVE stamps[i] + Window <= now
    OBVIOUS
  <2>0. k \in Nat /\ k <= Len(stamps) /\ Len(stamps) \in Nat
    BY <1>6
  <2>1. i - 1 \in 0..Len(stamps) /\ i - 1 < Len(stamps) /\ i - 1 < k
    BY <2>0
  <2>3. i - 1 \notin stays
    <3> HIDE DEF stays
    <3> QED BY <1>4, <2>1
  <2>2. stamps[(i - 1) + 1] \in Nat /\ (i - 1) + 1 = i
    BY <2>1
  <2> QED BY <2>1, <2>2, <2>3, RateParameters
<1> QED BY <1>3, <1>5 DEF Expired

\* Those with places of their own are at most as many as the places.
LEMMA PlacesBound ==
  ASSUME NEW S, NEW n \in Nat, NEW f, \A r \in S : f[r] \in 1..n,
         \A r, s \in S : f[r] = f[s] => r = s
  PROVE  IsFiniteSet(S) /\ Cardinality(S) <= n
<1> DEFINE g == [r \in S |-> f[r]]
<1>1. g \in [S -> 1..n] /\ \A r, s \in S : g[r] = g[s] => r = s
  OBVIOUS
<1>2. g \in Injection(S, 1..n)
  <2> HIDE DEF g
  <2> QED BY <1>1 DEF Injection, IsInjective
<1>3. IsFiniteSet(1..n) /\ Cardinality(1..n) = n
  BY FS_Interval
<1> HIDE DEF g
<1> QED BY <1>2, <1>3, FS_Injection

LEMMA Fewer ==
  ASSUME NEW S, NEW T, T \in SUBSET Req, S \subseteq T, Cardinality(T) <= Rpm
  PROVE  Cardinality(S) <= Rpm
BY RateParameters, FS_Subset, FS_CardinalityType

\* A step that admits nobody and keeps the window.
LEMMA NobodyIsAdmitted ==
  ASSUME KeyInv, KeyInv', RateInv, UNCHANGED stamps, now <= now',
         \A r \in Req : /\ req'[r].admittedAt \in {req[r].admittedAt, Never}
                        /\ req'[r].at = "new" => req'[r].admittedAt = Never
  PROVE  RateInv'
<1>0. /\ now \in Nat /\ now' \in Nat
      /\ \A r \in Req : req[r].admittedAt \in Nat /\ req'[r].admittedAt \in Nat
  BY Parameters DEF KeyInv, KeyTyped, KeyRequest
<1>1. Counted' \subseteq Counted /\ \A r \in Counted' : req'[r].admittedAt = req[r].admittedAt
  BY <1>0, RateParameters DEF Counted, Counts, Never
<1>2. PICK f \in [Req -> Nat] : StampedAt(f)
  BY DEF RateInv
<1>3. StampedAt(f)'
  BY <1>1, <1>2 DEF StampedAt
<1>4. \A t \in 0..MaxNow : AdmittedFrom(t)' \subseteq AdmittedFrom(t)
  BY DEF AdmittedFrom, Never
<1>5. \A t \in 0..MaxNow : Cardinality(AdmittedFrom(t)') <= Rpm
  BY <1>4, Fewer DEF RateInv, RateIsCapped, AdmittedFrom
<1>6. RateIsCapped'
  BY <1>5 DEF RateIsCapped, AdmittedFrom, Never
<1>7. ASSUME NEW r \in Req PROVE req'[r].admittedAt = Never \/ req'[r].admittedAt <= now'
  <2>1. req[r].admittedAt = Never \/ req[r].admittedAt <= now
    BY DEF RateInv
  <2>2. req'[r].admittedAt = req[r].admittedAt \/ req'[r].admittedAt = Never
    OBVIOUS
  <2> QED BY <1>0, <2>1, <2>2
<1> QED BY <1>3, <1>6, <1>7 DEF RateInv, Never

\* Whoever consumes the limit leaves his stamp behind what has not expired.
LEMMA ConsumeRate ==
  ASSUME KeyInv, KeyInv', RateInv, NEW r \in Req, Consume(r), UNCHANGED now
  PROVE  RateInv'
<1>0. /\ now \in Nat /\ now <= MaxNow /\ Never \in Nat /\ MaxNow < Never
      /\ \A s \in Req : req[s] \in KeyRequest /\ req[s].admittedAt \in Nat /\ req'[s].admittedAt \in Nat
      /\ req \in [Req -> KeyRequest]
  BY Parameters DEF KeyInv, KeyTyped, KeyRequest
<1>1. PICK f \in [Req -> Nat] : StampedAt(f)
  BY DEF RateInv
<1>2. stamps \in Seq(Nat) /\ Len(stamps) <= Rpm
  BY DEF RateInv
<1> DEFINE k == Expired
<1>3. k \in 0..Len(stamps) /\ \A i \in 1..k : stamps[i] + Window <= now
  BY <1>0, <1>2, Shifted
<1> HIDE DEF k
<1>4. /\ InWindow \in Seq(Nat) /\ Len(InWindow) = Len(stamps) - k
      /\ \A i \in 1..(Len(stamps) - k) : InWindow[i] = stamps[i + k]
  BY <1>2, <1>3 DEF InWindow, k
<1>5. \A s \in Counted : f[s] - k \in 1..Len(InWindow) /\ InWindow[f[s] - k] = req[s].admittedAt
  <2> SUFFICES ASSUME NEW s \in Counted
               PROVE  f[s] - k \in 1..Len(InWindow) /\ InWindow[f[s] - k] = req[s].admittedAt
    OBVIOUS
  <2>1. f[s] \in 1..Len(stamps) /\ stamps[f[s]] = req[s].admittedAt
    BY <1>1 DEF StampedAt
  <2>2. ~(stamps[f[s]] + Window <= now)
    BY <1>0, <2>1, RateParameters DEF Counted, Counts
  <2>3. f[s] - k \in 1..(Len(stamps) - k) /\ (f[s] - k) + k = f[s]
    BY <1>3, <2>1, <2>2
  <2> QED BY <1>4, <2>1, <2>3
<1>6. \A s \in Req \ {r} : req'[s] = req[s]
  BY <1>0 DEF Consume, Becomes
<1>7. CASE ~MayPass
  <2>1. stamps' = InWindow /\ req'[r] = Refused
    BY <1>0, <1>7 DEF Consume, Becomes
  <2>2. req'[r].admittedAt = Never /\ req'[r].at = "refused"
    BY <2>1 DEF Refused, NewRequest
  <2>3. PICK g \in [Req -> Nat] : \A s \in Counted : g[s] = f[s] - k
    <3>1. [s \in Req |-> IF s \in Counted THEN f[s] - k ELSE 0] \in [Req -> Nat]
      BY <1>5
    <3> QED BY <3>1 DEF Counted
  <2>4. Counted' \subseteq Counted /\ \A s \in Counted' : req'[s].admittedAt = req[s].admittedAt
    BY <1>6, <2>2 DEF Counted, Counts, Never
  <2>5. StampedAt(g)'
    BY <1>1, <1>3, <1>5, <2>1, <2>3, <2>4 DEF StampedAt
  <2>6. \A t \in 0..MaxNow : AdmittedFrom(t)' \subseteq AdmittedFrom(t)
    BY <1>6, <2>2 DEF AdmittedFrom, Never
  <2>7. \A t \in 0..MaxNow : Cardinality(AdmittedFrom(t)') <= Rpm
    BY <2>6, Fewer DEF RateInv, RateIsCapped, AdmittedFrom
  <2>8. RateIsCapped'
    BY <2>7 DEF RateIsCapped, AdmittedFrom, Never
  <2>9. \A s \in Req : /\ req'[s].admittedAt = Never \/ req'[s].admittedAt <= now'
                       /\ req'[s].at = "new" => req'[s].admittedAt = Never
    BY <1>6, <2>2 DEF RateInv
  <2>10. stamps' \in Seq(Nat) /\ Len(stamps') <= Rpm
    BY <1>2, <1>3, <1>4, <2>1, RateParameters
  <2> QED BY <2>3, <2>5, <2>8, <2>9, <2>10 DEF RateInv, Never
<1>8. CASE MayPass
  <2>1. stamps' = Append(InWindow, now) /\ Len(InWindow) < Rpm
    BY <1>8 DEF Consume, MayPass
  <2>2. req'[r].admittedAt = now /\ req'[r].at = "admitted"
    <3> DEFINE q == [req[r] EXCEPT !.at = "admitted", !.admittedAt = now, !.askedAt = 0]
    <3>1. q.admittedAt = now /\ q.at = "admitted"
      BY <1>0 DEF KeyRequest
    <3>2. req' = [req EXCEPT ![r] = q]
      BY <1>8 DEF Consume, Becomes
    <3> HIDE DEF q
    <3> QED BY <1>0, <3>1, <3>2
  <2>3. /\ stamps' \in Seq(Nat) /\ Len(stamps') = Len(InWindow) + 1 /\ Len(stamps') <= Rpm
        /\ \A i \in 1..Len(InWindow) : stamps'[i] = InWindow[i]
        /\ stamps'[Len(InWindow) + 1] = now
    BY <1>0, <1>4, <2>1, RateParameters
  <2>4. PICK g \in [Req -> Nat] : /\ g[r] = Len(InWindow) + 1
                                  /\ \A s \in Counted \ {r} : g[s] = f[s] - k
    <3>1. [s \in Req |-> IF s = r THEN Len(InWindow) + 1
                         ELSE IF s \in Counted THEN f[s] - k ELSE 0] \in [Req -> Nat]
      BY <1>4, <1>5
    <3> QED BY <3>1 DEF Counted
  <2>5. \A s \in Counted' : s # r => s \in Counted /\ req'[s].admittedAt = req[s].admittedAt
    BY <1>6 DEF Counted, Counts, Never
  <2>6. StampedAt(g)'
    <3>1. \A s \in Counted' : g[s] \in 1..Len(stamps') /\ stamps'[g[s]] = req'[s].admittedAt
      BY <1>4, <1>5, <2>2, <2>3, <2>4, <2>5 DEF Counted
    <3>2. \A s, t \in Counted' : g[s] = g[t] => s = t
      <4> SUFFICES ASSUME NEW s \in Counted', NEW t \in Counted', g[s] = g[t] PROVE s = t
        OBVIOUS
      <4>1. \A u \in Counted' : u # r => /\ u \in Counted /\ g[u] = f[u] - k
                                         /\ g[u] \in 1..Len(InWindow) /\ f[u] \in Nat
        BY <1>5, <2>4, <2>5 DEF Counted
      <4>2. (s = r) <=> (t = r)
        BY <1>4, <2>4, <4>1
      <4>3. CASE s # r /\ t # r
        <5>1. f[s] = f[t]
          BY <1>3, <4>1, <4>3
        <5> QED BY <1>1, <4>1, <4>3, <5>1 DEF StampedAt
      <4> QED BY <4>2, <4>3
    <3> QED BY <3>1, <3>2 DEF StampedAt
  <2>7. RateIsCapped'
    <3>1. IsFiniteSet(Counted') /\ Cardinality(Counted') <= Len(stamps')
      <4>1. /\ \A s \in Counted' : g[s] \in 1..Len(stamps')
            /\ \A s, t \in Counted' : g[s] = g[t] => s = t
        BY <2>6 DEF StampedAt
      <4>2. PICK C : C = Counted'
        OBVIOUS
      <4>3. PICK n \in Nat : n = Len(stamps')
        BY <2>3
      <4>4. (\A s \in C : g[s] \in 1..n) /\ \A s, t \in C : g[s] = g[t] => s = t
        BY <4>1, <4>2, <4>3
      <4>5. IsFiniteSet(C) /\ Cardinality(C) <= n
        BY <4>4, PlacesBound
      <4> QED BY <4>2, <4>3, <4>5
    <3> SUFFICES ASSUME NEW t \in 0..MaxNow PROVE Cardinality(AdmittedFrom(t)') <= Rpm
      BY DEF RateIsCapped, AdmittedFrom, Never
    <3>2. CASE now \in t..(t + Window - 1)
      <4>1. AdmittedFrom(t)' \subseteq Counted'
        BY <1>0, <3>2, RateParameters DEF AdmittedFrom, Counted, Counts, Never
      <4>2. Cardinality(Counted') \in Nat /\ Cardinality(Counted') <= Rpm
        BY <2>3, <3>1, RateParameters, FS_CardinalityType
      <4> QED BY <4>1, <4>2, Fewer DEF Counted
    <3>3. CASE now \notin t..(t + Window - 1)
      <4>1. AdmittedFrom(t)' \subseteq AdmittedFrom(t)
        BY <1>6, <2>2, <3>3 DEF AdmittedFrom, Never
      <4>2. Cardinality(AdmittedFrom(t)) <= Rpm
        BY DEF RateInv, RateIsCapped, AdmittedFrom
      <4> QED BY <4>1, <4>2, Fewer DEF AdmittedFrom
    <3> QED BY <3>2, <3>3
  <2>8. \A s \in Req : /\ req'[s].admittedAt = Never \/ req'[s].admittedAt <= now'
                       /\ req'[s].at = "new" => req'[s].admittedAt = Never
    <3> SUFFICES ASSUME NEW s \in Req
                 PROVE  /\ req'[s].admittedAt = Never \/ req'[s].admittedAt <= now'
                        /\ req'[s].at = "new" => req'[s].admittedAt = Never
      OBVIOUS
    <3>1. CASE s = r
      BY <1>0, <2>2, <3>1
    <3>2. CASE s # r
      BY <1>6, <3>2 DEF RateInv
    <3> QED BY <3>1, <3>2
  <2> QED BY <2>3, <2>4, <2>6, <2>7, <2>8 DEF RateInv, Never
<1> QED BY <1>7, <1>8

LEMMA RateInitInv == Init => RateInv
<1> SUFFICES ASSUME Init PROVE RateInv
  OBVIOUS
<1>1. stamps = <<>> /\ \A r \in Req : req[r].admittedAt = Never
  BY DEF Init, NewRequest
<1>2. \A t \in 0..MaxNow : AdmittedFrom(t) = {}
  BY <1>1 DEF AdmittedFrom
<1>3. Cardinality({}) <= Rpm
  BY RateParameters, FS_EmptySet
<1>4. RateIsCapped
  BY <1>2, <1>3 DEF RateIsCapped, AdmittedFrom
<1>5. Counted = {}
  BY <1>1 DEF Counted, Counts
<1>6. [r \in Req |-> 0] \in [Req -> Nat] /\ StampedAt([r \in Req |-> 0])
  BY <1>5 DEF StampedAt
<1>7. stamps \in Seq(Nat) /\ Len(stamps) <= Rpm
  BY <1>1, RateParameters
<1>8. \E f \in [Req -> Nat] : StampedAt(f)
  BY <1>6
<1> QED BY <1>1, <1>4, <1>7, <1>8 DEF RateInv

LEMMA ProcessEndsRate ==
  ASSUME KeyInv, RateInv, ProcessEnds PROVE RateInv'
<1>1. \A r \in Req : req'[r].admittedAt = Never
  BY DEF ProcessEnds, RateInv, Refused, NewRequest
<1>2. stamps' = <<>>
  BY DEF ProcessEnds
<1>3. \A t \in 0..MaxNow : AdmittedFrom(t)' = {}
  BY <1>1 DEF AdmittedFrom, Never
<1>4. Cardinality({}) <= Rpm
  BY RateParameters, FS_EmptySet
<1>5. RateIsCapped'
  BY <1>3, <1>4 DEF RateIsCapped, AdmittedFrom, Never
<1>6. Counted' = {}
  BY <1>1 DEF Counted, Counts, Never
<1>7. PICK f \in [Req -> Nat] : f = [r \in Req |-> 0]
  OBVIOUS
<1>8. StampedAt(f)'
  BY <1>6 DEF StampedAt
<1> QED BY <1>1, <1>2, <1>5, <1>8, RateParameters DEF RateInv, Never

LEMMA ConsumeOrNot ==
  ASSUME KeyInv, KeyInv', RateInv, NEW r \in Req, UNCHANGED now,
         \/ Consume(r)
         \/ /\ UNCHANGED stamps
            /\ \E q : Becomes(r, q) /\ q.admittedAt \in {req[r].admittedAt, Never} /\ q.at # "new"
  PROVE  RateInv'
<1>1. CASE Consume(r)
  BY <1>1, ConsumeRate
<1>2. CASE /\ UNCHANGED stamps
           /\ \E q : Becomes(r, q) /\ q.admittedAt \in {req[r].admittedAt, Never} /\ q.at # "new"
  <2>1. PICK q : Becomes(r, q) /\ q.admittedAt \in {req[r].admittedAt, Never} /\ q.at # "new"
    BY <1>2
  <2>2. req \in [Req -> KeyRequest] /\ now \in Nat
    BY DEF KeyInv, KeyTyped
  <2>3. \A s \in Req : req'[s] = IF s = r THEN q ELSE req[s]
    BY <2>1, <2>2 DEF Becomes
  <2>4. \A s \in Req : /\ req'[s].admittedAt \in {req[s].admittedAt, Never}
                       /\ req'[s].at = "new" => req'[s].admittedAt = Never
    BY <2>1, <2>3 DEF RateInv
  <2> QED BY <1>2, <2>2, <2>4, NobodyIsAdmitted
<1> QED BY <1>1, <1>2

LEMMA RateStepInv == KeyInv /\ KeyInv' /\ RateInv /\ [Next]_keyVars => RateInv'
<1> SUFFICES ASSUME KeyInv, KeyInv', RateInv, [Next]_keyVars PROVE RateInv'
  OBVIOUS
<1>0. now \in Nat /\ \A r \in Req : req[r] \in KeyRequest
  BY RateTypes
<1>1. Refused.admittedAt = Never /\ Refused.at = "refused"
  BY DEF Refused, NewRequest
<1>2. ASSUME NEW r \in Req, NEW rec, NEW start, Judge(r, rec, start), UNCHANGED <<now, stamps>>
      PROVE  RateInv'
  <2>1. /\ [NewRequest EXCEPT !.at = "valid", !.rec = rec, !.start = start].admittedAt = Never
        /\ [NewRequest EXCEPT !.at = "valid", !.rec = rec, !.start = start].at = "valid"
    BY DEF NewRequest
  <2> QED BY <1>1, <1>2, <2>1, ConsumeOrNot DEF Judge
<1>3. ASSUME NEW r \in Req,
             Validate(r) \/ Validated(r) \/ GetApiKeyByKey(r) \/ GotApiKey(r) \/ PolicyFails(r)
      PROVE  RateInv'
  <2>1. UNCHANGED <<now, stamps>>
    BY <1>3 DEF Validate, Validated, GetApiKeyByKey, GotApiKey, PolicyFails
  <2>2. CASE \E rec, start : Judge(r, rec, start)
    BY <1>2, <2>1, <2>2
  <2>3. CASE Becomes(r, Refused)
    BY <1>1, <2>1, <2>3, ConsumeOrNot
  <2>4. CASE \/ Becomes(r, [req[r] EXCEPT !.at = "validating", !.rec = row, !.askedAt = now, !.start = now])
             \/ Becomes(r, [req[r] EXCEPT !.at = "loaded", !.rec = keyCache.rec])
             \/ Becomes(r, [req[r] EXCEPT !.at = "loading", !.rec = row, !.askedAt = now])
             \/ Becomes(r, [req[r] EXCEPT !.at = "loaded", !.askedAt = 0])
    <3>1. ASSUME NEW q, Becomes(r, q), q.admittedAt = req[r].admittedAt, q.at # "new" PROVE RateInv'
      BY <2>1, <3>1, ConsumeOrNot
    <3> DEFINE a == [req[r] EXCEPT !.at = "validating", !.rec = row, !.askedAt = now, !.start = now]
               b == [req[r] EXCEPT !.at = "loaded", !.rec = keyCache.rec]
               c == [req[r] EXCEPT !.at = "loading", !.rec = row, !.askedAt = now]
               d == [req[r] EXCEPT !.at = "loaded", !.askedAt = 0]
    <3>2. \A q \in {a, b, c, d} : q.admittedAt = req[r].admittedAt /\ q.at # "new"
      BY <1>0 DEF KeyRequest
    <3>3. \E q \in {a, b, c, d} : Becomes(r, q)
      BY <2>4
    <3> HIDE DEF a, b, c, d
    <3> QED BY <3>1, <3>2, <3>3
  <2> QED BY <1>3, <2>2, <2>3, <2>4 DEF Validate, Validated, GetApiKeyByKey, GotApiKey, PolicyFails
<1>4. ASSUME NEW r \in Req, CheckPolicy(r) \/ CheckBudget(r) PROVE RateInv'
  <2>1. UNCHANGED now /\ (Consume(r) \/ UNCHANGED stamps)
    BY <1>4 DEF CheckPolicy, CheckBudget
  <2>2. CASE Consume(r)
    BY <2>1, <2>2, ConsumeOrNot
  <2>3. CASE UNCHANGED stamps /\ Becomes(r, Refused)
    BY <1>1, <2>1, <2>3, ConsumeOrNot
  <2>4. CASE /\ UNCHANGED stamps
             /\ \/ Becomes(r, [req[r] EXCEPT !.at = "admitted"])
                \/ Becomes(r, [req[r] EXCEPT !.at = "budget", !.askedAt = now])
    <3> DEFINE a == [req[r] EXCEPT !.at = "admitted"]
               b == [req[r] EXCEPT !.at = "budget", !.askedAt = now]
    <3>1. \A q \in {a, b} : q.admittedAt = req[r].admittedAt /\ q.at # "new"
      BY <1>0 DEF KeyRequest
    <3>2. \E q \in {a, b} : Becomes(r, q)
      BY <2>4
    <3> HIDE DEF a, b
    <3> QED BY <2>1, <2>4, <3>1, <3>2, ConsumeOrNot
  <2> QED BY <1>4, <2>2, <2>3, <2>4 DEF CheckPolicy, CheckBudget
<1>5. CASE \/ \E rec \in Records : UpdateApiKey(rec)
           \/ Touch \/ Tick \/ UsageIsRecorded \/ UNCHANGED keyVars
  <2>1. UNCHANGED <<stamps, req>> /\ now <= now'
    BY <1>0, <1>5 DEF UpdateApiKey, Touch, Tick, UsageIsRecorded, keyVars
  <2>2. \A r \in Req : /\ req'[r].admittedAt \in {req[r].admittedAt, Never}
                       /\ req'[r].at = "new" => req'[r].admittedAt = Never
    BY <2>1 DEF RateInv
  <2> QED BY <2>1, <2>2, NobodyIsAdmitted
<1>6. CASE ProcessEnds
  BY <1>6, ProcessEndsRate
<1> QED BY <1>3, <1>4, <1>5, <1>6 DEF Next

\* consumeRateLimit: however the requests of a key interleave, no Window of time
\* sees more than Rpm of them admitted, a restart, which forgets the stamps,
\* taken as the end of those it had admitted.
THEOREM RateStaysCapped == Spec => []RateIsCapped
<1>1. RateInv => RateIsCapped
  BY DEF RateInv
<1> QED BY <1>1, KeyInitInv, KeyStepInv, RateInitInv, RateStepInv, PTL DEF Spec
================================================================================
