------------------------------ MODULE ServerProofs ------------------------------
(***************************************************************************)
(* Proofs about the server process, for any number of calls, requests,     *)
(* accounts and restarts: what its write-behind queues take in is written,  *)
(* callers share the work of one of them, and the newer value stays.        *)
(***************************************************************************)
EXTENDS ServerProcess, FiniteSetTheorems, SequenceTheorems, WellFoundedInduction, TLAPS

-----------------------------------------------------------------------------
(* Numbers and sequences *)

LEMMA LeastOf ==
  ASSUME NEW S \in SUBSET Nat, S # {}
  PROVE  \E m \in S : \A k \in S : m <= k
<1> DEFINE less == {ss \in Nat \X Nat : ss[1] < ss[2]}
<1>1. IsWellFoundedOn(less, Nat)
  BY NatLessThanWellFounded DEF OpToRel
<1> HIDE DEF less
<1>2. PICK m \in S : \A k \in S : ~(<<k, m>> \in less)
  BY <1>1, WFMin
<1>3. ASSUME NEW k \in S, k < m PROVE FALSE
  <2>1. k \in Nat /\ m \in Nat
    OBVIOUS
  <2>2. <<k, m>> \in less
    BY <2>1, <1>3 DEF less
  <2> QED BY <2>2, <1>2
<1>4. \A k \in S : m <= k
  <2> SUFFICES ASSUME NEW k \in S PROVE m <= k
    OBVIOUS
  <2>1. k \in Nat /\ m \in Nat /\ ~(k < m)
    BY <1>3
  <2> QED BY <2>1
<1> QED BY <1>4

LEMMA GreatestOf ==
  ASSUME NEW S \in SUBSET Nat, S # {}, NEW bound \in Nat, \A k \in S : k <= bound
  PROVE  \E m \in S : \A k \in S : k <= m
<1> DEFINE T == {bound - k : k \in S}
<1>1. T \in SUBSET Nat /\ T # {}
  <2>1. \A k \in S : bound - k \in Nat
    OBVIOUS
  <2> QED BY <2>1
<1>2. \E t \in T : \A u \in T : t <= u
  <2> HIDE DEF T
  <2> QED BY <1>1, LeastOf
<1>3. PICK t \in T : \A u \in T : t <= u
  BY <1>2
<1>4. PICK m \in S : t = bound - m
  OBVIOUS
<1>5. ASSUME NEW k \in S PROVE k <= m
  <2>1. bound - k \in T /\ k \in Nat /\ m \in Nat
    OBVIOUS
  <2> QED BY <2>1, <1>3, <1>4
<1> QED BY <1>5

-----------------------------------------------------------------------------
(* The database: what a step does to it, and to the parts of the process that *)
(* do not take the step.                                                      *)

Tables == {"details", "usage", "latency"}

StoreInv ==
  /\ DOMAIN mem = Tables /\ DOMAIN disk = Tables
  /\ restarts \in Nat
  /\ UnsavedIsScheduled

LEMMA Committed ==
  ASSUME DOMAIN mem = Tables, NEW q \in Tables, NEW rows, Commit(q, rows)
  PROVE  /\ DOMAIN mem' = Tables /\ mem'[q] = rows
         /\ \A p \in Tables \ {q} : mem'[p] = mem[p]
         /\ disk' \in {disk, mem'} /\ (mem' # disk' => saveTimer')
         /\ UNCHANGED <<stage, restarts>>
BY DEF Commit

LEMMA RolledBack ==
  ASSUME Rollback
  PROVE  /\ UNCHANGED <<mem, disk, stage, restarts>>
         /\ saveTimer' \/ UNCHANGED <<saveTimer, saveFailed>>
BY DEF Rollback, storeVars

LEMMA Saved1 ==
  ASSUME Save \/ SaveFails
  PROVE  /\ UNCHANGED <<mem, stage, restarts>> /\ disk' \in {disk, mem}
         /\ disk' = mem' \/ saveFailed'
BY DEF Save, SaveFails

LEMMA Lost ==
  ASSUME NEW file \in {disk, mem}, Lose(file)
  PROVE  /\ mem' = disk' /\ disk' \in {disk, mem} /\ mem' \in {disk, mem}
         /\ stage' = "running" /\ (restarts \in Nat => restarts' \in Nat /\ restarts' # restarts)
BY DEF Lose

(* Who writes.  Each component has its own table.                             *)
LEMMA StepsOfTheStore ==
  ASSUME DOMAIN mem = Tables, [Next]_vars
  PROVE  \/ UNCHANGED storeVars
         \/ \E rows : Commit("usage", rows) /\ (PersistEntry /\ UsageStep)
         \/ \E rows : Commit("details", rows) /\ (CommitBatch /\ DetailStep)
         \/ \E rows : Commit("latency", rows) /\ (WriteLatency /\ LatencyStep)
         \/ Rollback \/ Save \/ SaveFails
         \/ UNCHANGED <<mem, disk, saveTimer, saveFailed, restarts>>
         \/ ProcessEnds
<1>1. CASE DetailStep
  BY <1>1 DEF DetailStep, DetailNext, SaveDetail, FlushTimer, CommitBatch, BatchFails
<1>2. CASE UsageStep
  BY <1>2 DEF UsageStep, UsageNext, SaveUsage, NotifyWaiter, UsageTimer, UsageKick, PersistEntry,
              PersistFails
<1>3. CASE LatencyStep
  BY <1>3 DEF LatencyStep, LatencyNext, RecordLatency, LatencyTimer, WriteLatency, WriteFails,
              Hydrate, HydrateRead, HydrateApply, HydrateFails
<1>4. CASE QuotaStep \/ ProjectStep \/ McpStep \/ PingStep \/ CheckinStep
  BY <1>4 DEF QuotaStep, ProjectStep, McpStep, PingStep, CheckinStep, Others
<1>5. CASE SaveStep
  BY <1>5 DEF SaveStep
<1>6. CASE Shutdown \/ Drained
  BY <1>6 DEF Shutdown, Drained
<1>7. CASE UNCHANGED vars
  BY <1>7 DEF vars
<1> QED BY <1>1, <1>2, <1>3, <1>4, <1>5, <1>6, <1>7 DEF Next

LEMMA StoreInvKept ==
  ASSUME StoreInv, [Next]_vars
  PROVE  StoreInv' /\ disk' \in {disk, mem, mem'}
<1> USE DEF StoreInv, UnsavedIsScheduled
<1>1. CASE UNCHANGED storeVars \/ UNCHANGED <<mem, disk, saveTimer, saveFailed, restarts>>
  BY <1>1 DEF storeVars
<1>2. ASSUME NEW q \in Tables, NEW rows, Commit(q, rows)
      PROVE  StoreInv' /\ disk' \in {disk, mem, mem'}
  BY <1>2, Committed
<1>3. CASE Rollback
  BY <1>3, RolledBack
<1>4. CASE Save \/ SaveFails
  BY <1>4, Saved1
<1>5. CASE ProcessEnds
  <2>1. PICK file \in {disk, mem} : Lose(file)
    BY <1>5 DEF ProcessEnds
  <2> QED BY <2>1, Lost
<1> QED BY <1>1, <1>2, <1>3, <1>4, <1>5, StepsOfTheStore DEF Tables

LEMMA StoreStarts == Init => StoreInv
BY DEF Init, StoreInit, EmptyTables, StoreInv, Tables, UnsavedIsScheduled

LEMMA StoreStays == Spec => []StoreInv
BY StoreStarts, StoreInvKept, PTL DEF Spec

-----------------------------------------------------------------------------
(* The usage queue *)

UsageInv ==
  /\ queue \in Seq(Call) /\ items \in Seq(Call) /\ settled \subseteq Call
  /\ flushing => items # <<>>
  /\ NoEntryStranded /\ SettledIsRecorded

LEMMA StepsOfUsage ==
  ASSUME StoreInv, [Next]_vars
  PROVE  \/ UsageNext
         \/ UsageDrains /\ mem' = mem
         \/ UsageLost
         \/ UNCHANGED usageVars /\ mem'.usage = mem.usage
<1>1. CASE DetailStep \/ LatencyStep
  <2>1. UNCHANGED usageVars
    BY <1>1 DEF DetailStep, LatencyStep
  <2>2. \/ UNCHANGED mem
        \/ \E q \in {"details", "latency"} : \E rows : Commit(q, rows)
    BY <1>1, RolledBack
       DEF DetailStep, DetailNext, SaveDetail, FlushTimer, CommitBatch, BatchFails,
           LatencyStep, LatencyNext, RecordLatency, LatencyTimer, WriteLatency, WriteFails,
           Hydrate, HydrateRead, HydrateApply, HydrateFails, storeVars
  <2>3. ASSUME NEW q \in {"details", "latency"}, NEW rows, Commit(q, rows)
        PROVE  mem'.usage = mem.usage
    <3>1. q \in Tables /\ "usage" \in Tables \ {q}
      BY DEF Tables
    <3> QED BY <3>1, <2>3, Committed DEF StoreInv
  <2> QED BY <2>1, <2>2, <2>3
<1>2. CASE QuotaStep \/ ProjectStep \/ McpStep \/ PingStep \/ CheckinStep
  BY <1>2 DEF QuotaStep, ProjectStep, McpStep, PingStep, CheckinStep, Others, storeVars
<1>3. CASE SaveStep
  BY <1>3, Saved1 DEF SaveStep
<1>4. CASE UsageStep \/ Shutdown \/ Drained \/ ProcessEnds \/ UNCHANGED vars
  BY <1>4 DEF UsageStep, Shutdown, Drained, ProcessEnds, vars, storeVars
<1> QED BY <1>1, <1>2, <1>3, <1>4 DEF Next

LEMMA EntryIsDone ==
  ASSUME UsageInv, flushing, EntryDone
  PROVE  /\ queue' \in Seq(Call) /\ items' \in Seq(Call) /\ settled' \subseteq Call
         /\ flushing' => items' # <<>>
         /\ NoEntryStranded'
         /\ Head(items) \in Call /\ settled' = settled \cup {Head(items)}
<1>1. Head(items) \in Call /\ Tail(items) \in Seq(Call)
  BY HeadTailProperties DEF UsageInv
<1>2. settled' = settled \cup {Head(items)} /\ items' = Tail(items) /\ queue' = queue /\ kick' = kick
  BY DEF EntryDone
<1>3. flushing' => items' # <<>>
  BY DEF EntryDone, UsageInv
<1>4. NoEntryStranded'
  <2>1. CASE items' = <<>>
    BY <2>1, <1>2 DEF EntryDone, NoEntryStranded
  <2>2. CASE items' # <<>>
    BY <2>2, <1>2 DEF EntryDone, NoEntryStranded
  <2> QED BY <2>1, <2>2
<1> QED BY <1>1, <1>2, <1>3, <1>4 DEF UsageInv

LEMMA QueueIsTaken ==
  ASSUME UsageInv, TakeQueue
  PROVE  /\ queue' \in Seq(Call) /\ items' \in Seq(Call)
         /\ flushing' => items' # <<>>
         /\ queue' # <<>> => flushing'
<1>1. CASE flushing \/ queue = <<>>
  <2>1. UNCHANGED <<queue, items, flushing>>
    BY <1>1 DEF TakeQueue
  <2> QED BY <2>1, <1>1 DEF UsageInv
<1>2. CASE ~(flushing \/ queue = <<>>)
  <2>1. items' = queue /\ queue' = <<>> /\ flushing' = TRUE
    BY <1>2 DEF TakeQueue
  <2> QED BY <2>1, <1>2 DEF UsageInv
<1> QED BY <1>1, <1>2

LEMMA UsageInvKept ==
  ASSUME StoreInv, UsageInv, [Next]_vars
  PROVE  UsageInv'
<1>1. CASE UNCHANGED usageVars /\ mem'.usage = mem.usage
  BY <1>1 DEF usageVars, UsageInv, NoEntryStranded, SettledIsRecorded
<1>2. CASE UsageDrains /\ mem' = mem
  <2>1. TakeQueue /\ UNCHANGED <<kick, settled, dropped>>
    BY <1>2 DEF UsageDrains
  <2> QED BY <2>1, <1>2, QueueIsTaken DEF UsageInv, NoEntryStranded, SettledIsRecorded
<1>3. CASE UsageLost
  <2>1. queue' = <<>> /\ items' = <<>> /\ ~flushing'
        /\ settled' = settled \cup In(queue) \cup In(items)
    BY <1>3 DEF UsageLost
  <2>2. In(queue) \subseteq Call /\ In(items) \subseteq Call
    BY ElementOfSeq, LenProperties DEF In, UsageInv
  <2>3. SettledIsRecorded'
    BY <1>3 DEF UsageLost, SettledIsRecorded
  <2> QED BY <2>1, <2>2, <2>3 DEF UsageInv, NoEntryStranded
<1>4. ASSUME NEW c \in Call, SaveUsage(c) PROVE UsageInv'
  <2>1. Append(queue, c) \in Seq(Call)
    BY AppendProperties DEF UsageInv
  <2> QED BY <2>1, <1>4 DEF SaveUsage, UsageInv, NoEntryStranded, SettledIsRecorded, storeVars
<1>5. ASSUME NEW c \in Call, NotifyWaiter(c) PROVE UsageInv'
  BY <1>5 DEF NotifyWaiter, UsageInv, NoEntryStranded, SettledIsRecorded, storeVars
<1>6. CASE UsageTimer \/ UsageKick
  <2>1. TakeQueue /\ UNCHANGED <<mem, settled, dropped>>
    BY <1>6 DEF UsageTimer, UsageKick, storeVars
  <2> QED BY <2>1, QueueIsTaken DEF UsageInv, NoEntryStranded, SettledIsRecorded
<1>7. CASE PersistEntry
  <2>1. flushing /\ EntryDone /\ dropped' = dropped
        /\ Commit("usage", mem.usage \cup {Event[Head(items)]})
    BY <1>7 DEF PersistEntry
  <2>2. mem'.usage = mem.usage \cup {Event[Head(items)]}
    BY <2>1, Committed DEF StoreInv, Tables
  <2> QED BY <2>1, <2>2, EntryIsDone DEF UsageInv, SettledIsRecorded
<1>8. CASE PersistFails
  <2>1. flushing /\ EntryDone /\ dropped' = dropped \cup {Head(items)} /\ mem' = mem
    BY <1>8, RolledBack DEF PersistFails
  <2> QED BY <2>1, EntryIsDone DEF UsageInv, SettledIsRecorded
<1> QED BY <1>1, <1>2, <1>3, <1>4, <1>5, <1>6, <1>7, <1>8, StepsOfUsage DEF UsageNext

LEMMA UsageStays == Spec => []UsageInv
<1>1. Init => UsageInv
  BY DEF Init, UsageInit, UsageInv, NoEntryStranded, SettledIsRecorded
<1> QED BY <1>1, StoreStays, UsageInvKept, PTL DEF Spec

-----------------------------------------------------------------------------
(* The request details.  The rows on their way are in the order of their      *)
(* times, and none of them is older than what is stored of its request.       *)

DRow == [ver : 0..2, at : Nat]
DRecord == [id : Detail, row : DRow]

KnownIn(known, i, row) ==
  /\ row.at <= known[i].at /\ row.ver <= known[i].ver
  /\ row.at = known[i].at => row = known[i]

Follows(known, table) == \A i \in Detail : table[i] \in DRow /\ KnownIn(known, i, table[i])

Before(r, s) == r.row.at < s.row.at /\ (r.id = s.id => r.row.ver <= s.row.ver)
InOrder(s) == \A k, l \in 1..Len(s) : k < l => Before(s[k], s[l])
Precedes(s, t) == \A k \in 1..Len(s), l \in 1..Len(t) : Before(s[k], t[l])

OnTheWay(known, table, r) ==
  /\ KnownIn(known, r.id, r.row)
  /\ table[r.id].at <= r.row.at /\ table[r.id].ver <= r.row.ver

AllOnTheWay(known, table, s) == \A k \in 1..Len(s) : OnTheWay(known, table, s[k])

DetailTyped ==
  /\ issued \in [Detail -> DRow]
  /\ writeBuffer \in Seq(DRecord) /\ batch \in Seq(DRecord)
  /\ isFlushing \in BOOLEAN /\ (isFlushing <=> batch # <<>>)

SavesAreTimed ==
  /\ \A i \in Detail : issued[i].at = 0 => issued[i] = NoRow
  /\ \A i \in Detail : \E n \in Detail : \A m \in Detail : issued[m].at <= issued[n].at

RowsOnTheWay ==
  /\ InOrder(batch) /\ InOrder(writeBuffer) /\ Precedes(batch, writeBuffer)
  /\ AllOnTheWay(issued, mem.details, batch) /\ AllOnTheWay(issued, mem.details, writeBuffer)

DetailInv ==
  /\ DetailTyped /\ SavesAreTimed /\ RowsOnTheWay
  /\ Follows(issued, mem.details) /\ Follows(issued, disk.details)
  /\ NothingStranded /\ NoDetailLost

LEMMA StepsOfDetails ==
  ASSUME StoreInv, [Next]_vars
  PROVE  \/ DetailNext /\ UNCHANGED <<owed, stage>>
         \/ Shutdown \/ Drained \/ ProcessEnds
         \/ UNCHANGED <<detailVars, owed, stage>> /\ mem'.details = mem.details
<1>1. CASE UsageStep \/ LatencyStep
  <2>1. UNCHANGED <<detailVars, owed>>
    BY <1>1 DEF UsageStep, LatencyStep
  <2>2. \/ UNCHANGED <<mem, stage>>
        \/ \E q \in {"usage", "latency"} : \E rows : Commit(q, rows)
    BY <1>1, RolledBack
       DEF UsageStep, UsageNext, SaveUsage, NotifyWaiter, UsageTimer, UsageKick, PersistEntry, PersistFails,
           LatencyStep, LatencyNext, RecordLatency, LatencyTimer, WriteLatency, WriteFails,
           Hydrate, HydrateRead, HydrateApply, HydrateFails, storeVars
  <2>3. ASSUME NEW q \in {"usage", "latency"}, NEW rows, Commit(q, rows)
        PROVE  mem'.details = mem.details /\ stage' = stage
    <3>1. q \in Tables /\ "details" \in Tables \ {q}
      BY DEF Tables
    <3> QED BY <3>1, <2>3, Committed DEF StoreInv
  <2> QED BY <2>1, <2>2, <2>3
<1>2. CASE QuotaStep \/ ProjectStep \/ McpStep \/ PingStep \/ CheckinStep
  BY <1>2 DEF QuotaStep, ProjectStep, McpStep, PingStep, CheckinStep, Others, storeVars
<1>3. CASE SaveStep
  BY <1>3, Saved1 DEF SaveStep
<1>4. CASE DetailStep
  BY <1>4, RolledBack
     DEF DetailStep, DetailNext, SaveDetail, FlushTimer, CommitBatch, BatchFails, Commit, storeVars
<1>5. CASE Shutdown \/ Drained \/ ProcessEnds \/ UNCHANGED vars
  BY <1>5 DEF vars, storeVars
<1> QED BY <1>1, <1>2, <1>3, <1>4, <1>5 DEF Next

LEMMA SavesIsLatest ==
  ASSUME DetailTyped, SavesAreTimed, Detail # {}
  PROVE  Saves \in Nat /\ \A j \in Detail : issued[j].at <= Saves
<1> DEFINE ats == {issued[i].at : i \in Detail}
<1>1. \E n \in ats : \A m \in ats : m <= n
  BY DEF SavesAreTimed
<1>2. Saves \in ats /\ \A m \in ats : m <= Saves
  BY <1>1 DEF Saves
<1>3. ats \subseteq Nat
  BY DEF DetailTyped, DRow
<1> QED BY <1>2, <1>3

\* Taking a batch.
LEMMA BatchIsTaken ==
  ASSUME DetailTyped, NEW buffer, TakeBatch(buffer)
  PROVE  /\ isFlushing => batch' = batch /\ writeBuffer' = buffer /\ isFlushing' = isFlushing
         /\ ~isFlushing => /\ batch' = buffer /\ writeBuffer' = <<>>
                           /\ isFlushing' \in BOOLEAN /\ (isFlushing' <=> buffer # <<>>)
<1>1. CASE isFlushing
  BY <1>1 DEF TakeBatch
<1>2. CASE ~isFlushing
  <2>1. batch = <<>>
    BY <1>2 DEF DetailTyped
  <2> QED BY <1>2, <2>1 DEF TakeBatch, DetailTyped
<1> QED BY <1>1, <1>2

\* What a set of rows on the way amounts to.
LEMMA WaitingIs ==
  ASSUME DetailTyped
  PROVE  /\ Waiting = {writeBuffer[k] : k \in 1..Len(writeBuffer)} \cup {batch[k] : k \in 1..Len(batch)}
         /\ Waiting = In(writeBuffer) \cup In(batch)
BY LenProperties DEF Waiting, In, DetailTyped

\* The row upserted for a request is the last one of the batch.
LEMMA LastOfBatch ==
  ASSUME DetailTyped, NEW table, NEW i \in Detail
  PROVE  \/ (\A k \in 1..Len(batch) : batch[k].id # i) /\ Upserted(table)[i] = table[i]
         \/ \E k \in 1..Len(batch) :
              /\ batch[k].id = i /\ Upserted(table)[i] = batch[k].row
              /\ \A l \in 1..Len(batch) : batch[l].id = i => l <= k
<1> DEFINE mine == {k \in 1..Len(batch) : batch[k].id = i}
<1>1. DOMAIN batch = 1..Len(batch) /\ Len(batch) \in Nat
  BY LenProperties DEF DetailTyped
<1>2. CASE mine = {}
  BY <1>1, <1>2 DEF Upserted
<1>3. CASE mine # {}
  <2>1. mine \subseteq Nat /\ \A k \in mine : k <= Len(batch)
    BY <1>1
  <2>2. \E m \in mine : \A k \in mine : k <= m
    <3> HIDE DEF mine
    <3> QED BY <2>1, <1>1, <1>3, GreatestOf
  <2>3. PICK m \in mine : m = CHOOSE k \in mine : \A l \in mine : l <= k
    BY <2>2
  <2>4. \A k \in mine : k <= m
    BY <2>2, <2>3
  <2>5. Upserted(table)[i] = batch[m].row
    BY <1>1, <1>3, <2>3 DEF Upserted
  <2> QED BY <2>4, <2>5
<1> QED BY <1>2, <1>3

LEMMA RowAt ==
  ASSUME NEW s \in Seq(DRecord), NEW k \in 1..Len(s)
  PROVE  /\ s[k] \in DRecord /\ s[k].id \in Detail
         /\ s[k].row \in DRow /\ s[k].row.at \in Nat /\ s[k].row.ver \in 0..2
<1>1. s[k] \in DRecord
  BY ElementOfSeq
<1>2. s[k].id \in Detail /\ s[k].row \in DRow
  BY <1>1 DEF DRecord
<1>3. s[k].row.at \in Nat /\ s[k].row.ver \in 0..2
  BY <1>2 DEF DRow
<1> QED BY <1>1, <1>2, <1>3

LEMMA StoredRow ==
  ASSUME DetailInv, NEW i \in Detail, NEW t, t = Upserted(mem.details)
  PROVE  /\ t[i] \in DRow /\ KnownIn(issued, i, t[i])
         /\ mem.details[i].at <= t[i].at /\ mem.details[i].ver <= t[i].ver
         /\ \A k \in 1..Len(writeBuffer) : writeBuffer[k].id = i =>
              t[i].at <= writeBuffer[k].row.at /\ t[i].ver <= writeBuffer[k].row.ver
         /\ (\E k \in 1..Len(batch) : batch[k].id = i /\ batch[k].row = issued[i]) => t[i] = issued[i]
         /\ mem.details[i] = issued[i] => t[i] = issued[i]
<1> USE DEF DetailInv
<1>0. /\ mem.details[i] \in DRow /\ KnownIn(issued, i, mem.details[i])
      /\ mem.details[i].at \in Nat /\ mem.details[i].ver \in 0..2
      /\ issued[i] \in DRow /\ issued[i].at \in Nat
  BY DEF Follows, DRow, DetailTyped
<1>1. CASE (\A k \in 1..Len(batch) : batch[k].id # i) /\ t[i] = mem.details[i]
  <2>1. ASSUME NEW k \in 1..Len(writeBuffer), writeBuffer[k].id = i
        PROVE  t[i].at <= writeBuffer[k].row.at /\ t[i].ver <= writeBuffer[k].row.ver
    BY <1>1, <2>1 DEF RowsOnTheWay, AllOnTheWay, OnTheWay
  <2> QED BY <1>0, <1>1, <2>1
<1>2. CASE \E k \in 1..Len(batch) :
             /\ batch[k].id = i /\ t[i] = batch[k].row
             /\ \A l \in 1..Len(batch) : batch[l].id = i => l <= k
  <2>1. PICK k \in 1..Len(batch) :
             /\ batch[k].id = i /\ t[i] = batch[k].row
             /\ \A l \in 1..Len(batch) : batch[l].id = i => l <= k
    BY <1>2
  <2>2. t[i] \in DRow /\ t[i].at \in Nat /\ t[i].ver \in 0..2 /\ OnTheWay(issued, mem.details, batch[k])
    BY <2>1, RowAt DEF DetailTyped, RowsOnTheWay, AllOnTheWay
  <2>3. KnownIn(issued, i, t[i]) /\ mem.details[i].at <= t[i].at /\ mem.details[i].ver <= t[i].ver
    BY <2>1, <2>2 DEF OnTheWay
  <2>4. ASSUME NEW l \in 1..Len(writeBuffer), writeBuffer[l].id = i
        PROVE  t[i].at <= writeBuffer[l].row.at /\ t[i].ver <= writeBuffer[l].row.ver
    <3>1. Before(batch[k], writeBuffer[l])
      BY DEF RowsOnTheWay, Precedes
    <3>2. writeBuffer[l].row.at \in Nat
      BY RowAt DEF DetailTyped
    <3> QED BY <2>1, <2>2, <2>4, <3>1, <3>2 DEF Before
  <2>5. ASSUME NEW l \in 1..Len(batch), batch[l].id = i, batch[l].row = issued[i]
        PROVE  t[i] = issued[i]
    <3>1. CASE l = k
      BY <3>1, <2>1, <2>5
    <3>2. CASE l # k
      <4>1. l < k /\ Before(batch[l], batch[k])
        BY <2>1, <2>5, <3>2, LenProperties DEF RowsOnTheWay, InOrder, DetailTyped
      <4> QED BY <4>1, <2>1, <2>2, <2>3, <2>5, <1>0 DEF Before, KnownIn
    <3> QED BY <3>1, <3>2
  <2>6. mem.details[i] = issued[i] => t[i] = issued[i]
    BY <2>2, <2>3, <1>0 DEF KnownIn
  <2> QED BY <2>2, <2>3, <2>4, <2>5, <2>6
<1> QED BY <1>1, <1>2, LastOfBatch

LEMMA TrimmedRow ==
  ASSUME NEW table, NEW i \in Detail
  PROVE  \/ Trimmed(table)[i] = table[i]
         \/ /\ Trimmed(table)[i] = NoRow
            /\ Cardinality({j \in Detail : table[j].ver > 0 /\ table[j].at > table[i].at}) >= MaxRows
BY DEF Trimmed

\* More of the requests are newer, and the bound is still reached.
LEMMA StillFull ==
  ASSUME NEW S \in SUBSET Detail, NEW T \in SUBSET Detail, S \subseteq T,
         Cardinality(S) >= MaxRows
  PROVE  Cardinality(T) >= MaxRows
<1>1. IsFiniteSet(T) /\ IsFiniteSet(S)
  BY DetailAssumption, FS_Subset
<1>2. Cardinality(S) <= Cardinality(T)
  BY <1>1, FS_Subset
<1>3. Cardinality(S) \in Nat /\ Cardinality(T) \in Nat /\ MaxRows \in Nat
  BY <1>1, FS_CardinalityType, DetailAssumption
<1> QED BY <1>2, <1>3

\* The promise for one request.
Lasts(i) ==
  \/ mem.details[i] = issued[i]
  \/ [id |-> i, row |-> issued[i]] \in Waiting
  \/ Cardinality({j \in Detail : issued[j].at > issued[i].at}) >= MaxRows

LEMMA NoneLost == NoDetailLost <=> \A i \in Detail \ gone : issued[i].ver > 0 => Lasts(i)
BY DEF NoDetailLost, Lasts

LEMMA CommitKeepsDetails ==
  ASSUME StoreInv, DetailInv, CommitBatch
  PROVE  /\ DetailTyped' /\ RowsOnTheWay' /\ Follows(issued, mem'.details)
         /\ NothingStranded' /\ NoDetailLost'
         /\ \A i \in Detail : mem.details[i].ver <= mem'.details[i].ver \/ mem'.details[i].ver = 0
<1> DEFINE t == Upserted(mem.details)
<1> USE DEF DetailInv
<1>1. /\ mem'.details = Trimmed(t) /\ UNCHANGED <<issued, gone, flushTimer>>
      /\ batch' = writeBuffer /\ writeBuffer' = <<>>
      /\ isFlushing' = (writeBuffer # <<>>)
  BY Committed DEF CommitBatch, StoreInv, Tables
<1>2. DetailTyped'
  BY <1>1, EmptySeq DEF DetailTyped
<1>3. \A i \in Detail : /\ t[i] \in DRow /\ t[i].at \in Nat /\ t[i].ver \in 0..2
                        /\ KnownIn(issued, i, t[i])
                        /\ issued[i] \in DRow /\ issued[i].at \in Nat /\ issued[i].ver \in 0..2
  BY StoredRow DEF DRow, DetailTyped
<1>4. \A i \in Detail : Trimmed(t)[i] = t[i] \/ Trimmed(t)[i] = NoRow
  BY TrimmedRow
<1>5. \A i \in Detail : NoRow \in DRow /\ KnownIn(issued, i, NoRow)
  BY <1>3 DEF NoRow, DRow, KnownIn, SavesAreTimed
<1>6. Follows(issued, mem'.details)
  BY <1>1, <1>3, <1>4, <1>5 DEF Follows
<1>7. RowsOnTheWay'
  <2>1. InOrder(batch') /\ InOrder(writeBuffer') /\ Precedes(batch', writeBuffer')
    BY <1>1, EmptySeq DEF RowsOnTheWay, InOrder, Precedes
  <2>2. ASSUME NEW k \in 1..Len(writeBuffer)
        PROVE  OnTheWay(issued, Trimmed(t), writeBuffer[k])
    <3>1. OnTheWay(issued, mem.details, writeBuffer[k]) /\ writeBuffer[k].id \in Detail
          /\ writeBuffer[k].row.at \in Nat /\ writeBuffer[k].row.ver \in 0..2
      BY RowAt DEF RowsOnTheWay, AllOnTheWay, DetailTyped
    <3>2. t[writeBuffer[k].id].at <= writeBuffer[k].row.at /\ t[writeBuffer[k].id].ver <= writeBuffer[k].row.ver
      BY <3>1, StoredRow
    <3>3. CASE Trimmed(t)[writeBuffer[k].id] = t[writeBuffer[k].id]
      BY <3>1, <3>2, <3>3 DEF OnTheWay
    <3>4. CASE Trimmed(t)[writeBuffer[k].id] = NoRow
      BY <3>1, <3>4 DEF OnTheWay, NoRow
    <3> QED BY <3>1, <3>3, <3>4, <1>4
  <2>3. AllOnTheWay(issued', mem'.details, batch')
    BY <1>1, <2>2 DEF AllOnTheWay
  <2>4. AllOnTheWay(issued', mem'.details, writeBuffer')
    BY <1>1, EmptySeq DEF AllOnTheWay
  <2> QED BY <2>1, <2>3, <2>4 DEF RowsOnTheWay
<1>8. NothingStranded'
  BY <1>1 DEF NothingStranded
<1>9. NoDetailLost'
  <2>1. ASSUME NEW i \in Detail \ gone, issued[i].ver > 0 PROVE Lasts(i)'
    <3> DEFINE newer == {j \in Detail : issued[j].at > issued[i].at}
    <3>1. CASE t[i] = issued[i]
      <4>1. CASE Trimmed(t)[i] = t[i]
        BY <4>1, <3>1, <1>1 DEF Lasts
      <4>2. CASE Cardinality({j \in Detail : t[j].ver > 0 /\ t[j].at > t[i].at}) >= MaxRows
        <5>1. {j \in Detail : t[j].ver > 0 /\ t[j].at > t[i].at} \subseteq newer
          BY <3>1, <1>3 DEF KnownIn
        <5>2. Cardinality(newer) >= MaxRows
          <6> DEFINE S == {j \in Detail : t[j].ver > 0 /\ t[j].at > t[i].at}
          <6>1. S \in SUBSET Detail /\ newer \in SUBSET Detail
            OBVIOUS
          <6> HIDE DEF S, newer
          <6> QED BY <6>1, <5>1, <4>2, StillFull DEF S
        <5> QED BY <5>2, <1>1 DEF Lasts
      <4> QED BY <4>1, <4>2, TrimmedRow
    <3>2. CASE Cardinality(newer) >= MaxRows
      BY <3>2, <1>1 DEF Lasts
    <3>3. CASE [id |-> i, row |-> issued[i]] \in Waiting /\ t[i] # issued[i]
      <4>1. \A k \in 1..Len(batch) : batch[k] # [id |-> i, row |-> issued[i]]
        BY <3>3, StoredRow
      <4>2. PICK k \in 1..Len(writeBuffer) : writeBuffer[k] = [id |-> i, row |-> issued[i]]
        BY <3>3, <4>1, WaitingIs
      <4>3. [id |-> i, row |-> issued[i]] \in Waiting'
        BY <4>2, <1>1, LenProperties DEF Waiting, DetailTyped
      <4> QED BY <4>3, <1>1 DEF Lasts
    <3>4. Lasts(i)
      BY <2>1, NoneLost
    <3> QED BY <3>1, <3>2, <3>3, <3>4, StoredRow DEF Lasts
  <2> QED BY <2>1, <1>1 DEF NoDetailLost, Lasts
<1>10. \A i \in Detail : mem.details[i].ver <= mem'.details[i].ver \/ mem'.details[i].ver = 0
  BY <1>1, <1>4, StoredRow DEF NoRow
<1> QED BY <1>2, <1>6, <1>7, <1>8, <1>9, <1>10

LEMMA RowsTaken ==
  ASSUME DetailTyped, issued' \in [Detail -> DRow], NEW buf \in Seq(DRecord),
         InOrder(batch), InOrder(buf), Precedes(batch, buf),
         AllOnTheWay(issued', mem'.details, batch), AllOnTheWay(issued', mem'.details, buf),
         \/ batch' = batch /\ writeBuffer' = buf /\ isFlushing' = isFlushing
         \/ /\ batch = <<>> /\ batch' = buf /\ writeBuffer' = <<>>
            /\ isFlushing' \in BOOLEAN /\ (isFlushing' <=> buf # <<>>)
  PROVE  DetailTyped' /\ RowsOnTheWay' /\ Waiting' = In(buf) \cup In(batch)
<1>1. CASE batch' = batch /\ writeBuffer' = buf /\ isFlushing' = isFlushing
  <2>1. DetailTyped' /\ RowsOnTheWay'
    BY <1>1 DEF DetailTyped, RowsOnTheWay
  <2> QED BY <1>1, <2>1 DEF Waiting, In
<1>2. CASE /\ batch = <<>> /\ batch' = buf /\ writeBuffer' = <<>>
           /\ isFlushing' \in BOOLEAN /\ (isFlushing' <=> buf # <<>>)
  <2>1. DetailTyped'
    BY <1>2, EmptySeq DEF DetailTyped
  <2>2. RowsOnTheWay'
    BY <1>2, EmptySeq DEF RowsOnTheWay, InOrder, Precedes, AllOnTheWay
  <2>3. Waiting' = In(buf) \cup In(batch)
    BY <1>2 DEF Waiting, In
  <2> QED BY <2>1, <2>2, <2>3
<1> QED BY <1>1, <1>2

LEMMA SaveKeepsDetails ==
  ASSUME DetailInv, NEW i \in Detail, SaveDetail(i)
  PROVE  /\ DetailInv' /\ UNCHANGED storeVars
         /\ \E r \in DRecord, buf \in Seq(DRecord) :
              /\ In(buf) = In(writeBuffer) \cup {r} /\ \A j \in Detail : r.row.at > issued[j].at
              /\ \/ batch' = batch /\ writeBuffer' = buf /\ isFlushing' = isFlushing
                 \/ batch = <<>> /\ batch' = buf /\ writeBuffer' = <<>>
         /\ \A j \in Detail : issued[j].at <= issued'[j].at
<1> DEFINE row == [ver |-> issued[i].ver + 1, at |-> Saves + 1]
           r == [id |-> i, row |-> row]
           buf == Append(writeBuffer, r)
<1> USE DEF DetailInv
<1>1. /\ i \notin gone /\ issued[i].ver < 2 /\ issued' = [issued EXCEPT ![i] = row]
      /\ \/ flushTimer' = FALSE /\ TakeBatch(buf)
         \/ flushTimer' = TRUE /\ writeBuffer' = buf /\ UNCHANGED <<batch, isFlushing>>
      /\ UNCHANGED <<storeVars, gone, detailFailed, detailDrain>>
  BY DEF SaveDetail
<1>2. Saves \in Nat /\ \A j \in Detail : issued[j].at <= Saves
  BY SavesIsLatest
<1>3. \A j \in Detail : issued[j] \in DRow /\ issued[j].at \in Nat /\ issued[j].ver \in 0..2
  BY DEF DetailTyped, DRow
<1>4. /\ row \in DRow /\ r \in DRecord /\ row.at = Saves + 1 /\ row.ver = issued[i].ver + 1
      /\ r.row = row /\ r.id = i
  BY <1>1, <1>2, <1>3 DEF DRow, DRecord
<1> HIDE DEF row
<1>5. issued' \in [Detail -> DRow] /\ issued'[i] = row /\ \A j \in Detail \ {i} : issued'[j] = issued[j]
  BY <1>1, <1>4 DEF DetailTyped
<1>6. \A j \in Detail : issued[j].at <= issued'[j].at
  BY <1>2, <1>3, <1>4, <1>5
<1>7. SavesAreTimed'
  <2>1. \A m \in Detail : issued'[m].at <= issued'[i].at
    BY <1>2, <1>3, <1>4, <1>5
  <2>2. \A j \in Detail : issued'[j].at = 0 => issued'[j] = NoRow
    BY <1>2, <1>4, <1>5 DEF SavesAreTimed
  <2> QED BY <2>1, <2>2 DEF SavesAreTimed
<1>8. ASSUME NEW j \in Detail, NEW x \in DRow, KnownIn(issued, j, x) PROVE KnownIn(issued', j, x)
  <2>1. x.at \in Nat /\ x.ver \in 0..2
    BY DEF DRow
  <2>2. CASE j = i
    BY <2>1, <2>2, <1>2, <1>3, <1>4, <1>5, <1>8 DEF KnownIn
  <2>3. CASE j # i
    BY <2>3, <1>5, <1>8 DEF KnownIn
  <2> QED BY <2>2, <2>3
<1>9. Follows(issued', mem.details) /\ Follows(issued', disk.details)
  BY <1>8 DEF Follows
<1>10. ASSUME NEW s \in Seq(DRecord), AllOnTheWay(issued, mem.details, s)
       PROVE  /\ AllOnTheWay(issued', mem.details, s)
              /\ \A k \in 1..Len(s) : Before(s[k], r)
  <2>1. ASSUME NEW k \in 1..Len(s) PROVE OnTheWay(issued', mem.details, s[k]) /\ Before(s[k], r)
    <3>1. OnTheWay(issued, mem.details, s[k])
      BY <1>10 DEF AllOnTheWay
    <3>2. /\ s[k].id \in Detail /\ s[k].row \in DRow /\ s[k].row.at \in Nat /\ s[k].row.ver \in 0..2
      BY RowAt
    <3>3. OnTheWay(issued', mem.details, s[k])
      BY <3>1, <3>2, <1>8 DEF OnTheWay
    <3>4. Before(s[k], r)
      BY <3>1, <3>2, <1>2, <1>3, <1>4 DEF OnTheWay, KnownIn, Before
    <3> QED BY <3>3, <3>4
  <2> QED BY <2>1 DEF AllOnTheWay
<1>11. /\ buf \in Seq(DRecord) /\ Len(buf) = Len(writeBuffer) + 1 /\ Len(writeBuffer) \in Nat
       /\ buf # <<>> /\ \A k \in 1..Len(writeBuffer) : buf[k] = writeBuffer[k]
       /\ buf[Len(buf)] = r
  BY <1>4, AppendProperties, LenProperties DEF DetailTyped
<1>12. OnTheWay(issued', mem.details, r)
  <2>1. mem.details[i] \in DRow /\ KnownIn(issued, i, mem.details[i])
    BY DEF Follows
  <2>2. mem.details[i].at \in Nat /\ mem.details[i].ver \in 0..2
    BY <2>1 DEF DRow
  <2> QED BY <2>1, <2>2, <1>2, <1>3, <1>4, <1>5 DEF OnTheWay, KnownIn
<1> HIDE DEF buf, r
<1>13. AllOnTheWay(issued', mem.details, batch) /\ AllOnTheWay(issued', mem.details, writeBuffer)
       /\ (\A k \in 1..Len(batch) : Before(batch[k], r))
       /\ (\A k \in 1..Len(writeBuffer) : Before(writeBuffer[k], r))
  BY <1>10 DEF RowsOnTheWay, DetailTyped
<1>14. AllOnTheWay(issued', mem.details, buf)
  BY <1>11, <1>12, <1>13 DEF AllOnTheWay
<1>15. InOrder(batch) /\ InOrder(buf) /\ Precedes(batch, buf)
  BY <1>11, <1>13 DEF RowsOnTheWay, InOrder, Precedes
<1>16. mem' = mem /\ disk' = disk
  BY <1>1 DEF storeVars
<1>17. \/ batch' = batch /\ writeBuffer' = buf /\ isFlushing' = isFlushing
       \/ /\ batch = <<>> /\ batch' = buf /\ writeBuffer' = <<>>
          /\ isFlushing' \in BOOLEAN /\ (isFlushing' <=> buf # <<>>)
  <2>1. CASE TakeBatch(buf)
    BY <2>1, BatchIsTaken DEF DetailTyped
  <2> QED BY <1>1, <2>1
<1>18. DetailTyped' /\ RowsOnTheWay' /\ Waiting' = In(buf) \cup In(batch)
  BY <1>5, <1>11, <1>13, <1>14, <1>15, <1>16, <1>17, RowsTaken
<1>19. In(buf) = In(writeBuffer) \cup {r}
  <2>1. DOMAIN buf = 1..(Len(writeBuffer) + 1) /\ DOMAIN writeBuffer = 1..Len(writeBuffer)
    BY <1>11, LenProperties DEF DetailTyped
  <2>2. \A k \in DOMAIN buf : buf[k] \in In(writeBuffer) \cup {r}
    BY <2>1, <1>11 DEF In
  <2>3. r \in In(buf)
    BY <2>1, <1>11 DEF In
  <2>4. \A k \in DOMAIN writeBuffer : writeBuffer[k] \in In(buf)
    BY <2>1, <1>11 DEF In
  <2> QED BY <2>2, <2>3, <2>4 DEF In
<1>20. Waiting' = Waiting \cup {r}
  <2> QED BY <1>18, <1>19, WaitingIs
<1>21. NothingStranded'
  <2>1. CASE TakeBatch(buf)
    BY <2>1, BatchIsTaken DEF NothingStranded, DetailTyped
  <2> QED BY <1>1, <2>1 DEF NothingStranded
<1>22. NoDetailLost'
  <2>1. ASSUME NEW j \in Detail \ gone, issued'[j].ver > 0 PROVE Lasts(j)'
    <3>1. CASE j = i
      <4>1. [id |-> j, row |-> issued'[j]] = r
        BY <3>1, <1>5 DEF r
      <4> QED BY <4>1, <1>20 DEF Lasts
    <3>2. CASE j # i
      <4>1. issued'[j] = issued[j] /\ Lasts(j)
        BY <3>2, <2>1, <1>5, NoneLost
      <4>2. CASE Cardinality({k \in Detail : issued[k].at > issued[j].at}) >= MaxRows
        <5> DEFINE S == {k \in Detail : issued[k].at > issued[j].at}
                   T == {k \in Detail : issued'[k].at > issued[j].at}
        <5>1. S \in SUBSET Detail /\ T \in SUBSET Detail
          OBVIOUS
        <5>2. S \subseteq T
          <6>1. \A k \in Detail : issued'[k].at \in Nat
            BY <1>5 DEF DRow
          <6> QED BY <6>1, <1>3, <1>6
        <5>3. Cardinality(T) >= MaxRows
          <6>1. Cardinality(S) >= MaxRows
            BY <4>2
          <6> HIDE DEF S, T
          <6> QED BY <5>1, <5>2, <6>1, StillFull
        <5> QED BY <5>3, <4>1 DEF Lasts
      <4> QED BY <4>1, <4>2, <1>16, <1>20 DEF Lasts
    <3> QED BY <3>1, <3>2
  <2> QED BY <2>1, <1>1 DEF NoDetailLost, Lasts
<1>23. Follows(issued, mem.details)' /\ Follows(issued, disk.details)'
  BY <1>9, <1>16
<1>24. (\A j \in Detail : r.row.at > issued[j].at) /\ r \in DRecord
  BY <1>2, <1>3, <1>4 DEF r
<1> QED BY <1>1, <1>6, <1>7, <1>11, <1>17, <1>18, <1>21, <1>22, <1>23, <1>24, <1>19

LEMMA FlushKeepsDetails ==
  ASSUME DetailInv, TakeBatch(writeBuffer), UNCHANGED <<mem, issued, gone>>
  PROVE  /\ DetailTyped' /\ SavesAreTimed' /\ RowsOnTheWay' /\ Waiting' = Waiting
         /\ (writeBuffer' # <<>> => isFlushing') /\ NoDetailLost'
<1> USE DEF DetailInv
<1>1. DetailTyped' /\ RowsOnTheWay' /\ Waiting' = In(writeBuffer) \cup In(batch)
  <2>1. \/ batch' = batch /\ writeBuffer' = writeBuffer /\ isFlushing' = isFlushing
        \/ /\ batch = <<>> /\ batch' = writeBuffer /\ writeBuffer' = <<>>
           /\ isFlushing' \in BOOLEAN /\ (isFlushing' <=> writeBuffer # <<>>)
    BY BatchIsTaken DEF DetailTyped
  <2> QED BY <2>1, RowsTaken DEF DetailTyped, RowsOnTheWay
<1>2. writeBuffer' # <<>> => isFlushing'
  BY BatchIsTaken
<1>3. Waiting' = Waiting
  BY <1>1, WaitingIs
<1>4. NoDetailLost' /\ SavesAreTimed'
  BY <1>3 DEF NoDetailLost, SavesAreTimed
<1> QED BY <1>1, <1>2, <1>3, <1>4

\* Rows in front of rows.
LEMMA InFront ==
  ASSUME NEW s \in Seq(DRecord), NEW t \in Seq(DRecord)
  PROVE  /\ s \o t \in Seq(DRecord) /\ In(s \o t) = In(s) \cup In(t)
         /\ InOrder(s) /\ InOrder(t) /\ Precedes(s, t) => InOrder(s \o t)
         /\ \A known, table : AllOnTheWay(known, table, s) /\ AllOnTheWay(known, table, t)
                                => AllOnTheWay(known, table, s \o t)
<1> DEFINE u == s \o t
<1>1. /\ u \in Seq(DRecord) /\ Len(u) = Len(s) + Len(t) /\ Len(s) \in Nat /\ Len(t) \in Nat
      /\ DOMAIN u = 1..Len(u) /\ DOMAIN s = 1..Len(s) /\ DOMAIN t = 1..Len(t)
  BY ConcatProperties, LenProperties
<1>2. /\ \A k \in 1..Len(s) : k \in 1..Len(u) /\ u[k] = s[k]
      /\ \A k \in 1..Len(t) : Len(s) + k \in 1..Len(u) /\ u[Len(s) + k] = t[k]
      /\ \A k \in 1..Len(u) : k \in 1..Len(s) \/ (k - Len(s) \in 1..Len(t) /\ u[k] = t[k - Len(s)])
  BY <1>1, ConcatProperties
<1> HIDE DEF u
<1>3. In(u) = In(s) \cup In(t)
  <2>1. \A k \in 1..Len(u) : u[k] \in In(s) \cup In(t)
    BY <1>1, <1>2 DEF In
  <2>2. \A k \in 1..Len(s) : s[k] \in In(u)
    <3> SUFFICES ASSUME NEW k \in 1..Len(s) PROVE s[k] \in In(u)
      OBVIOUS
    <3> QED BY <1>1, <1>2 DEF In
  <2>3. \A k \in 1..Len(t) : t[k] \in In(u)
    <3> SUFFICES ASSUME NEW k \in 1..Len(t) PROVE t[k] \in In(u)
      OBVIOUS
    <3>1. Len(s) + k \in DOMAIN u /\ u[Len(s) + k] = t[k]
      BY <1>1, <1>2
    <3> QED BY <3>1 DEF In
  <2> QED BY <2>1, <2>2, <2>3, <1>1 DEF In
<1>4. ASSUME InOrder(s), InOrder(t), Precedes(s, t) PROVE InOrder(u)
  <2> SUFFICES ASSUME NEW k \in 1..Len(u), NEW l \in 1..Len(u), k < l PROVE Before(u[k], u[l])
    BY DEF InOrder
  <2>1. CASE k \in 1..Len(s) /\ l \in 1..Len(s)
    BY <2>1, <1>2, <1>4 DEF InOrder
  <2>2. CASE k \in 1..Len(s) /\ l \notin 1..Len(s)
    BY <2>2, <1>2, <1>4 DEF Precedes
  <2>3. CASE k \notin 1..Len(s)
    <3>1. l \notin 1..Len(s) /\ k - Len(s) < l - Len(s)
      BY <2>3, <1>1
    <3> QED BY <2>3, <3>1, <1>2, <1>4 DEF InOrder
  <2> QED BY <2>1, <2>2, <2>3
<1>5. ASSUME NEW known, NEW table, AllOnTheWay(known, table, s), AllOnTheWay(known, table, t)
      PROVE  AllOnTheWay(known, table, u)
  <2> SUFFICES ASSUME NEW k \in 1..Len(u) PROVE OnTheWay(known, table, u[k])
    BY DEF AllOnTheWay
  <2> QED BY <1>2, <1>5 DEF AllOnTheWay
<1> QED BY <1>1, <1>3, <1>4, <1>5 DEF u

LEMMA FailureKeepsDetails ==
  ASSUME DetailInv, BatchFails
  PROVE  /\ DetailTyped' /\ SavesAreTimed' /\ RowsOnTheWay' /\ Waiting' = Waiting
         /\ NothingStranded' /\ NoDetailLost' /\ mem' = mem /\ disk' = disk /\ issued' = issued
<1> USE DEF DetailInv
<1>1. /\ writeBuffer' = batch \o writeBuffer /\ batch' = <<>> /\ isFlushing' = FALSE
      /\ flushTimer' = TRUE /\ UNCHANGED <<issued, gone, mem, disk>>
  BY RolledBack DEF BatchFails
<1>2. DetailTyped'
  BY <1>1, InFront, EmptySeq DEF DetailTyped
<1>3. InOrder(writeBuffer') /\ AllOnTheWay(issued, mem.details, writeBuffer')
  BY <1>1, InFront DEF RowsOnTheWay, DetailTyped
<1>4. RowsOnTheWay'
  <2>1. InOrder(<<>>) /\ Precedes(<<>>, writeBuffer') /\ AllOnTheWay(issued, mem.details, <<>>)
    BY EmptySeq DEF InOrder, Precedes, AllOnTheWay
  <2> QED BY <1>1, <1>3, <2>1 DEF RowsOnTheWay
<1>5. Waiting' = Waiting
  <2>1. In(<<>>) = {}
    BY DEF In
  <2>2. Waiting' = In(writeBuffer') \cup In(batch')
    BY DEF Waiting, In
  <2> QED BY <1>1, <2>1, <2>2, InFront, WaitingIs DEF DetailTyped
<1>6. NoDetailLost' /\ SavesAreTimed'
  BY <1>1, <1>5 DEF NoDetailLost, SavesAreTimed
<1> QED BY <1>1, <1>2, <1>4, <1>5, <1>6 DEF NothingStranded

LEMMA LossKeepsDetails ==
  ASSUME DetailInv, DetailsLost, mem' \in {disk, mem}, disk' \in {disk, mem}
  PROVE  DetailInv' /\ issued' = issued
<1> USE DEF DetailInv
<1>1. /\ gone' = {i \in Detail : issued[i].ver > 0} /\ writeBuffer' = <<>> /\ batch' = <<>>
      /\ isFlushing' = FALSE /\ issued' = issued
  BY DEF DetailsLost
<1>2. DetailTyped' /\ RowsOnTheWay'
  <2>1. 1..Len(<<>>) = {} /\ <<>> \in Seq(DRecord)
    BY EmptySeq
  <2>2. DetailTyped'
    BY <1>1, <2>1 DEF DetailTyped
  <2>3. InOrder(<<>>) /\ Precedes(<<>>, <<>>) /\ AllOnTheWay(issued', mem'.details, <<>>)
    BY <2>1 DEF InOrder, Precedes, AllOnTheWay
  <2> QED BY <1>1, <2>2, <2>3 DEF RowsOnTheWay
<1>3. Follows(issued, mem.details)' /\ Follows(issued, disk.details)' /\ SavesAreTimed'
  BY <1>1 DEF Follows, SavesAreTimed
<1>4. NoDetailLost' /\ NothingStranded'
  BY <1>1 DEF NoDetailLost, NothingStranded
<1> QED BY <1>1, <1>2, <1>3, <1>4

LEMMA DetailInvKept ==
  ASSUME StoreInv, DetailInv, [Next]_vars
  PROVE  DetailInv'
<1>0. disk' \in {disk, mem, mem'}
  BY StoreInvKept
<1>1. CASE UNCHANGED <<detailVars, owed, stage>> /\ mem'.details = mem.details
  <2>1. DetailTyped' /\ SavesAreTimed' /\ RowsOnTheWay'
    BY <1>1 DEF detailVars, DetailInv, DetailTyped, SavesAreTimed, RowsOnTheWay
  <2>2. Follows(issued, mem.details)' /\ Follows(issued, disk.details)'
    BY <1>0, <1>1 DEF detailVars, DetailInv, Follows
  <2>3. NothingStranded' /\ NoDetailLost'
    BY <1>1 DEF detailVars, DetailInv, NothingStranded, NoDetailLost, Waiting
  <2> QED BY <2>1, <2>2, <2>3 DEF DetailInv
<1>2. ASSUME NEW i \in Detail, SaveDetail(i) PROVE DetailInv'
  BY <1>2, SaveKeepsDetails
<1>3. CASE CommitBatch
  <2>1. UNCHANGED <<issued, gone>>
    BY <1>3 DEF CommitBatch
  <2>2. SavesAreTimed'
    BY <2>1 DEF DetailInv, SavesAreTimed
  <2>3. Follows(issued, mem'.details) /\ Follows(issued, disk'.details)
    BY <1>0, <1>3, CommitKeepsDetails DEF DetailInv
  <2> QED BY <1>3, <2>1, <2>2, <2>3, CommitKeepsDetails DEF DetailInv
<1>4. CASE FlushTimer \/ Shutdown
  <2>1. TakeBatch(writeBuffer) /\ UNCHANGED <<mem, disk, issued, gone>>
    BY <1>4 DEF FlushTimer, Shutdown, DetailDrains, storeVars
  <2>2. NothingStranded'
    BY <2>1, FlushKeepsDetails DEF NothingStranded
  <2>3. Follows(issued, mem.details)' /\ Follows(issued, disk.details)'
    BY <2>1 DEF DetailInv
  <2> QED BY <2>1, <2>2, <2>3, FlushKeepsDetails DEF DetailInv
<1>5. CASE BatchFails
  BY <1>5, FailureKeepsDetails DEF DetailInv
<1>6. CASE Drained
  BY <1>6 DEF Drained, detailVars, DetailInv, DetailTyped, SavesAreTimed, RowsOnTheWay,
              NothingStranded, NoDetailLost, Waiting
<1>7. CASE ProcessEnds
  <2>1. PICK file \in {disk, mem} : Lose(file)
    BY <1>7 DEF ProcessEnds
  <2> QED BY <1>7, <2>1, Lost, LossKeepsDetails DEF ProcessEnds
<1> QED BY <1>1, <1>2, <1>3, <1>4, <1>5, <1>6, <1>7, StepsOfDetails DEF DetailNext

LEMMA DetailsStay == Spec => []DetailInv
<1>1. Init => DetailInv
  <2> SUFFICES ASSUME Init PROVE DetailInv
    OBVIOUS
  <2>1. /\ issued = NoDetails /\ gone = {} /\ writeBuffer = <<>> /\ batch = <<>> /\ isFlushing = FALSE
        /\ mem.details = NoDetails /\ disk.details = NoDetails
    BY DEF Init, DetailInit, StoreInit, EmptyTables
  <2>2. \A i \in Detail : NoDetails[i] = NoRow /\ NoRow \in DRow /\ NoRow.at = 0 /\ NoRow.ver = 0
    BY DEF NoDetails, NoRow, DRow
  <2>3. DetailTyped
    BY <2>1, <2>2, EmptySeq DEF DetailTyped, NoDetails
  <2>4. SavesAreTimed
    BY <2>1, <2>2 DEF SavesAreTimed
  <2>5. RowsOnTheWay
    BY <2>1, EmptySeq DEF RowsOnTheWay, InOrder, Precedes, AllOnTheWay
  <2>6. Follows(issued, mem.details) /\ Follows(issued, disk.details)
    BY <2>1, <2>2 DEF Follows, KnownIn
  <2>7. NothingStranded /\ NoDetailLost
    BY <2>1, <2>2 DEF NothingStranded, NoDetailLost
  <2> QED BY <2>3, <2>4, <2>5, <2>6, <2>7 DEF DetailInv
<1> QED BY <1>1, StoreStays, DetailInvKept, PTL DEF Spec

LEMMA FinalRowKept ==
  ASSUME StoreInv, DetailInv, [Next]_vars, NEW i \in Detail,
         mem.details[i].ver = 2, mem'.details[i].ver = 1
  PROVE  restarts' # restarts
<1>1. CASE ProcessEnds
  BY <1>1, Lost DEF ProcessEnds, StoreInv
<1>2. CASE CommitBatch
  BY <1>2, CommitKeepsDetails
<1>3. CASE mem'.details = mem.details
  BY <1>3
<1>4. CASE DetailNext
  <2>1. ASSUME NEW j \in Detail, SaveDetail(j) PROVE mem' = mem
    BY <2>1 DEF SaveDetail, storeVars
  <2>2. CASE FlushTimer \/ BatchFails
    BY <2>2, FailureKeepsDetails, <1>3 DEF FlushTimer, storeVars
  <2> QED BY <1>2, <1>3, <1>4, <2>1, <2>2 DEF DetailNext
<1>5. CASE Shutdown \/ Drained
  BY <1>5 DEF Shutdown, Drained
<1> QED BY <1>1, <1>3, <1>4, <1>5, StepsOfDetails

(* What the shutdown route owes.  Of the rows that were buffered when it was  *)
(* called none is behind the batch it waits for, unless that batch failed.    *)
OwedIsWritten ==
  /\ owed \subseteq DRecord /\ \A r \in owed : r.row.at <= issued[r.id].at
  /\ detailDrain = "own" /\ owed \cap In(writeBuffer) # {} => detailFailed /\ ~isFlushing
  /\ stage = "exiting" /\ detailDrain = "own" /\ owed \cap In(batch) # {} => detailFailed

LEMMA OwedIsKept ==
  ASSUME StoreInv, DetailInv, OwedIsWritten, [Next]_vars
  PROVE  OwedIsWritten'
<1>0. /\ In(<<>>) = {}
      /\ isFlushing <=> batch # <<>>
      /\ \A r \in DRecord : r.id \in Detail /\ r.row.at \in Nat
      /\ \A i \in Detail : issued[i].at \in Nat
  BY DEF In, DetailInv, DetailTyped, DRecord, DRow
<1>1. CASE UNCHANGED <<detailVars, owed, stage>> /\ mem'.details = mem.details
  BY <1>1 DEF detailVars, OwedIsWritten, In
<1>2. ASSUME NEW i \in Detail, SaveDetail(i), UNCHANGED <<owed, stage>> PROVE OwedIsWritten'
  <2>1. PICK r \in DRecord, buf \in Seq(DRecord) :
              /\ In(buf) = In(writeBuffer) \cup {r} /\ \A j \in Detail : r.row.at > issued[j].at
              /\ \/ batch' = batch /\ writeBuffer' = buf /\ isFlushing' = isFlushing
                 \/ batch = <<>> /\ batch' = buf /\ writeBuffer' = <<>>
    BY <1>2, SaveKeepsDetails
  <2>2. UNCHANGED <<owed, stage, detailFailed, detailDrain>>
    BY <1>2 DEF SaveDetail
  <2>3. \A j \in Detail : issued[j].at <= issued'[j].at /\ issued'[j].at \in Nat
    BY <1>2, SaveKeepsDetails DEF DetailInv, DetailTyped, DRow
  <2>4. \A x \in owed : x \in DRecord /\ x.row.at <= issued'[x.id].at
    BY <1>0, <2>3 DEF OwedIsWritten
  <2>5. r \notin owed
    BY <2>1, <1>0 DEF OwedIsWritten
  <2>6. CASE batch' = batch /\ writeBuffer' = buf /\ isFlushing' = isFlushing
    BY <2>1, <2>2, <2>4, <2>5, <2>6 DEF OwedIsWritten, In
  <2>7. CASE batch = <<>> /\ batch' = buf /\ writeBuffer' = <<>>
    <3>1. In(writeBuffer') = {} /\ In(batch') = In(buf)
      BY <1>0, <2>7
    <3> QED BY <2>1, <2>2, <2>4, <2>5, <3>1 DEF OwedIsWritten
  <2> QED BY <2>1, <2>6, <2>7
<1>3. CASE FlushTimer /\ UNCHANGED <<owed, stage>>
  <2>1. TakeBatch(writeBuffer) /\ UNCHANGED <<owed, stage, issued, detailFailed, detailDrain>>
    BY <1>3 DEF FlushTimer
  <2>2. CASE isFlushing
    BY <2>1, <2>2, BatchIsTaken DEF OwedIsWritten, In, DetailInv
  <2>3. CASE ~isFlushing
    <3>1. In(batch') = In(writeBuffer) /\ In(writeBuffer') = {}
      BY <2>1, <2>3, <1>0, BatchIsTaken DEF DetailInv
    <3> QED BY <2>1, <3>1 DEF OwedIsWritten
  <2> QED BY <2>2, <2>3
<1>4. CASE CommitBatch /\ UNCHANGED <<owed, stage>>
  <2>1. /\ isFlushing /\ batch' = writeBuffer /\ writeBuffer' = <<>>
        /\ UNCHANGED <<owed, stage, issued, detailDrain>>
    BY <1>4 DEF CommitBatch
  <2>2. In(batch') = In(writeBuffer) /\ In(writeBuffer') = {}
    BY <2>1, <1>0
  <2> QED BY <2>1, <2>2 DEF OwedIsWritten
<1>5. CASE BatchFails /\ UNCHANGED <<owed, stage>>
  <2>1. isFlushing' = FALSE /\ detailFailed' = TRUE /\ UNCHANGED <<owed, stage, issued, detailDrain>>
    BY <1>5 DEF BatchFails
  <2> QED BY <2>1 DEF OwedIsWritten
<1>6. CASE Shutdown
  <2>1. /\ stage' = "draining" /\ owed' = Waiting /\ TakeBatch(writeBuffer) /\ issued' = issued
        /\ detailDrain' = IF isFlushing THEN "other" ELSE "own"
    BY <1>6 DEF Shutdown, DetailDrains
  <2>2. ASSUME NEW r \in Waiting PROVE r \in DRecord /\ r.row.at <= issued[r.id].at
    <3>1. CASE \E k \in 1..Len(batch) : r = batch[k]
      BY <3>1, RowAt DEF DetailInv, DetailTyped, RowsOnTheWay, AllOnTheWay, OnTheWay, KnownIn
    <3>2. CASE \E k \in 1..Len(writeBuffer) : r = writeBuffer[k]
      BY <3>2, RowAt DEF DetailInv, DetailTyped, RowsOnTheWay, AllOnTheWay, OnTheWay, KnownIn
    <3> QED BY <3>1, <3>2, WaitingIs DEF DetailInv
  <2>3. CASE isFlushing
    BY <2>1, <2>2, <2>3 DEF OwedIsWritten
  <2>4. CASE ~isFlushing
    <3>1. In(writeBuffer') = {}
      BY <2>1, <2>4, <1>0, BatchIsTaken DEF DetailInv
    <3> QED BY <2>1, <2>2, <3>1 DEF OwedIsWritten
  <2> QED BY <2>3, <2>4
<1>7. CASE Drained
  <2>1. /\ UNCHANGED <<owed, issued, detailDrain, detailFailed, writeBuffer, batch, isFlushing>>
        /\ detailDrain = "own" => ~isFlushing
    BY <1>7 DEF Drained, DetailDrained, detailVars
  <2>2. detailDrain = "own" => In(batch) = {}
    BY <2>1, <1>0
  <2> QED BY <2>1, <2>2 DEF OwedIsWritten, In
<1>8. CASE ProcessEnds
  BY <1>8 DEF ProcessEnds, OwedIsWritten
<1> QED BY <1>1, <1>2, <1>3, <1>4, <1>5, <1>6, <1>7, <1>8, StepsOfDetails DEF DetailNext

LEMMA OwedStays == Spec => [](OwedIsWritten /\ DrainWrites)
<1>1. Init => OwedIsWritten
  BY DEF Init, OwedIsWritten, DetailInit, StoreInit
<1>2. DetailInv /\ OwedIsWritten => DrainWrites
  BY WaitingIs DEF DetailInv, OwedIsWritten, DrainWrites
<1> QED BY <1>1, <1>2, StoreStays, DetailsStay, OwedIsKept, PTL DEF Spec

-----------------------------------------------------------------------------
(* The latency averages.  A value that was stored is not lost from the map in *)
(* memory, unless MaxEntries newer ones have pushed it out; and pruning a map *)
(* keeps as many of its newest entries.                                       *)

Maps(n) == [Conn -> 0..n]

Newer(map, v) == {d \in Conn : map[d] > v}
Full(map, v) == Cardinality(Newer(map, v)) >= MaxEntries
Holds(map, c, v) == map[c] >= v \/ Full(map, v)

LEMMA FullGrows ==
  ASSUME NEW f, NEW v, NEW g, NEW w, Full(f, v), Newer(f, v) \subseteq Newer(g, w)
  PROVE  Full(g, w)
<1>1. Newer(f, v) \in SUBSET Conn /\ Newer(g, w) \in SUBSET Conn
  BY DEF Newer
<1>2. IsFiniteSet(Newer(f, v)) /\ IsFiniteSet(Newer(g, w))
  BY <1>1, LatencyAssumption, FS_Subset
<1>3. Cardinality(Newer(f, v)) <= Cardinality(Newer(g, w))
  BY <1>2, FS_Subset
<1>4. Cardinality(Newer(f, v)) \in Nat /\ Cardinality(Newer(g, w)) \in Nat /\ MaxEntries \in Nat
  BY <1>2, FS_CardinalityType, LatencyAssumption
<1> QED BY <1>3, <1>4 DEF Full

LEMMA PrunedEntry ==
  ASSUME NEW f, NEW c \in Conn
  PROVE  Pruned(f)[c] = IF Full(f, f[c]) THEN 0 ELSE f[c]
BY DEF Pruned, Full, Newer

LEMMA PrunedTyped ==
  ASSUME NEW n \in Nat, NEW f \in Maps(n)
  PROVE  Pruned(f) \in Maps(n)
BY DEF Pruned, Maps

LEMMA PrunedStaysFull ==
  ASSUME NEW n \in Nat, NEW f \in Maps(n), NEW v \in Nat, Full(f, v)
  PROVE  Full(Pruned(f), v)
<1> DEFINE cuts == {d \in Newer(f, v) : Full(f, f[d])}
           ranks == {f[d] : d \in cuts}
<1>0. \A d \in Conn : f[d] \in Nat /\ f[d] <= n
  BY DEF Maps
<1>1. CASE cuts = {}
  <2>1. \A d \in Newer(f, v) : Pruned(f)[d] = f[d]
    BY <1>1, PrunedEntry DEF Newer
  <2>2. Newer(f, v) \subseteq Newer(Pruned(f), v)
    BY <2>1 DEF Newer
  <2> QED BY <2>2, FullGrows
<1>2. CASE cuts # {}
  <2>1. ranks \in SUBSET Nat /\ ranks # {} /\ \A r \in ranks : r <= n
    BY <1>0, <1>2 DEF Newer
  <2>2. \E m \in ranks : \A r \in ranks : r <= m
    <3> HIDE DEF ranks
    <3> QED BY <2>1, GreatestOf
  <2>3. PICK d \in cuts : \A e \in cuts : f[e] <= f[d]
    BY <2>2
  <2>4. d \in Conn /\ f[d] > v /\ Full(f, f[d])
    BY <2>3 DEF Newer
  <2>5. Newer(f, f[d]) \subseteq Newer(Pruned(f), v)
    <3> SUFFICES ASSUME NEW e \in Conn, f[e] > f[d] PROVE Pruned(f)[e] > v
      BY DEF Newer
    <3>1. f[e] > v /\ e \notin cuts
      BY <1>0, <2>3, <2>4
    <3>2. ~Full(f, f[e])
      BY <3>1 DEF Newer
    <3> QED BY <3>1, <3>2, PrunedEntry
  <2> QED BY <2>4, <2>5, FullGrows
<1> QED BY <1>1, <1>2

LEMMA PrunedHolds ==
  ASSUME NEW n \in Nat, NEW f \in Maps(n), NEW c \in Conn, NEW v \in Nat, Holds(f, c, v)
  PROVE  Holds(Pruned(f), c, v)
<1>0. \A d \in Conn : f[d] \in Nat
  BY DEF Maps
<1>1. CASE Full(f, v)
  BY <1>1, PrunedStaysFull DEF Holds
<1>2. CASE f[c] >= v /\ Full(f, f[c])
  <2>1. Newer(f, f[c]) \subseteq Newer(f, v)
    BY <1>0, <1>2 DEF Newer
  <2> QED BY <1>1, <1>2, <2>1, FullGrows
<1>3. CASE f[c] >= v /\ ~Full(f, f[c])
  BY <1>3, PrunedEntry DEF Holds
<1> QED BY <1>1, <1>2, <1>3 DEF Holds

\* A map whose entries only go forward holds what it held.
LEMMA ForwardHolds ==
  ASSUME NEW n \in Nat, NEW f \in Maps(n), NEW m \in Nat, NEW g \in Maps(m),
         \A d \in Conn : f[d] <= g[d],
         NEW c \in Conn, NEW v \in Nat, Holds(f, c, v)
  PROVE  Holds(g, c, v)
<1>0. \A d \in Conn : f[d] \in Nat /\ g[d] \in Nat
  BY DEF Maps
<1>1. CASE f[c] >= v
  BY <1>0, <1>1 DEF Holds
<1>2. CASE Full(f, v)
  <2>1. Newer(f, v) \subseteq Newer(g, v)
    BY <1>0 DEF Newer
  <2> QED BY <1>2, <2>1, FullGrows DEF Holds
<1> QED BY <1>1, <1>2 DEF Holds

LEMMA MapsGrow ==
  ASSUME NEW n \in Nat
  PROVE  Maps(n) \subseteq Maps(n + 1)
BY DEF Maps

-----------------------------------------------------------------------------
Flush(n) == [map : Maps(n), whole : BOOLEAN]
Hydration(n) == [at : {"no", "reading", "read"}, saved : Maps(n)]

LatencyTyped ==
  /\ clock \in Nat /\ born \in 0..clock
  /\ ewma \in Maps(clock) /\ mem.latency \in Maps(clock) /\ disk.latency \in Maps(clock)
  /\ writes \in Seq(Flush(clock)) /\ hydrating \in Hydration(clock)
  /\ hydrated \in BOOLEAN /\ latencyDirty \in BOOLEAN
  /\ hydrated => hydrating.at = "no"

\* What is stored, or about to be.
MustHold(v) == v # 0 /\ (v > born \/ hydrated)

StoredIsHeld ==
  /\ \A c \in Conn : MustHold(mem.latency[c]) => Holds(ewma, c, mem.latency[c])
  /\ \A k \in 1..Len(writes), c \in Conn :
       MustHold(writes[k].map[c]) => Holds(ewma, c, writes[k].map[c])
  /\ \A c \in Conn : hydrating.saved[c] > born => Holds(ewma, c, hydrating.saved[c])

\* A flush of a map that is whole takes nothing back.
FlushesHold ==
  \A k \in 1..Len(writes) : writes[k].whole =>
    /\ \A c \in Conn : mem.latency[c] # 0 => Holds(writes[k].map, c, mem.latency[c])
    /\ \A j \in 1..(k - 1), c \in Conn :
         writes[j].map[c] # 0 => Holds(writes[k].map, c, writes[j].map[c])

\* Before hydration the process knows its own samples only, and what it has read
\* of the others still is what is stored.
OwnSamples ==
  /\ ~hydrated =>
       /\ \A c \in Conn : ewma[c] = 0 \/ ewma[c] > born
       /\ \A k \in 1..Len(writes), c \in Conn : writes[k].map[c] = 0 \/ writes[k].map[c] > born
  /\ hydrating.at = "read" =>
       \A c \in Conn : mem.latency[c] # 0 /\ mem.latency[c] <= born
                         => hydrating.saved[c] = mem.latency[c]

LastMap == IF writes = <<>> THEN mem.latency ELSE writes[Len(writes)].map

SamplesAreDue ==
  \A c \in Conn : ewma[c] > born /\ ewma[c] > LastMap[c] =>
    latencyDirty /\ (latencyTimer \/ (writes = <<>> /\ flushFailed))

LatencyInv == LatencyTyped /\ StoredIsHeld /\ FlushesHold /\ OwnSamples /\ SamplesAreDue

LEMMA StepsOfLatency ==
  ASSUME StoreInv, [Next]_vars
  PROVE  \/ LatencyNext
         \/ LatencyDrains /\ UNCHANGED <<mem, disk>>
         \/ LatencyLost /\ mem' \in {disk, mem} /\ ProcessEnds
         \/ UNCHANGED latencyVars /\ mem'.latency = mem.latency
<1>1. CASE UsageStep \/ DetailStep
  <2>1. UNCHANGED latencyVars
    BY <1>1 DEF UsageStep, DetailStep
  <2>2. \/ UNCHANGED mem
        \/ \E q \in {"usage", "details"} : \E rows : Commit(q, rows)
    BY <1>1, RolledBack
       DEF UsageStep, UsageNext, SaveUsage, NotifyWaiter, UsageTimer, UsageKick, PersistEntry, PersistFails,
           DetailStep, DetailNext, SaveDetail, FlushTimer, CommitBatch, BatchFails, storeVars
  <2>3. ASSUME NEW q \in {"usage", "details"}, NEW rows, Commit(q, rows)
        PROVE  mem'.latency = mem.latency
    <3>1. q \in Tables /\ "latency" \in Tables \ {q}
      BY DEF Tables
    <3> QED BY <3>1, <2>3, Committed DEF StoreInv
  <2> QED BY <2>1, <2>2, <2>3
<1>2. CASE QuotaStep \/ ProjectStep \/ McpStep \/ PingStep \/ CheckinStep
  BY <1>2 DEF QuotaStep, ProjectStep, McpStep, PingStep, CheckinStep, Others, storeVars
<1>3. CASE SaveStep
  BY <1>3, Saved1 DEF SaveStep
<1>4. CASE ProcessEnds
  BY <1>4, Lost DEF ProcessEnds
<1>5. CASE LatencyStep \/ Shutdown \/ Drained \/ UNCHANGED vars
  BY <1>5 DEF LatencyStep, Shutdown, Drained, vars, storeVars
<1> QED BY <1>1, <1>2, <1>3, <1>4, <1>5 DEF Next

LEMMA LatencyNumbers ==
  ASSUME LatencyTyped
  PROVE  /\ clock \in Nat /\ born \in Nat /\ born <= clock
         /\ \A c \in Conn : /\ ewma[c] \in 0..clock /\ mem.latency[c] \in 0..clock
                            /\ disk.latency[c] \in 0..clock /\ hydrating.saved[c] \in 0..clock
         /\ Len(writes) \in Nat /\ (writes = <<>> <=> Len(writes) = 0)
         /\ \A k \in 1..Len(writes) :
              /\ writes[k] \in Flush(clock) /\ writes[k].map \in Maps(clock) /\ writes[k].whole \in BOOLEAN
              /\ \A c \in Conn : writes[k].map[c] \in 0..clock
<1>1. clock \in Nat /\ born \in Nat /\ born <= clock
  BY DEF LatencyTyped
<1>2. \A c \in Conn : /\ ewma[c] \in 0..clock /\ mem.latency[c] \in 0..clock
                      /\ disk.latency[c] \in 0..clock /\ hydrating.saved[c] \in 0..clock
  BY DEF LatencyTyped, Maps, Hydration
<1>3. Len(writes) \in Nat /\ (writes = <<>> <=> Len(writes) = 0)
  BY EmptySeq, LenProperties DEF LatencyTyped
<1>4. \A k \in 1..Len(writes) : writes[k] \in Flush(clock)
  BY ElementOfSeq DEF LatencyTyped
<1>5. \A k \in 1..Len(writes) :
              /\ writes[k].map \in Maps(clock) /\ writes[k].whole \in BOOLEAN
              /\ \A c \in Conn : writes[k].map[c] \in 0..clock
  BY <1>4 DEF Flush, Maps
<1> QED BY <1>1, <1>2, <1>3, <1>4, <1>5

LEMMA NothingRead ==
  ASSUME NEW n \in Nat
  PROVE  /\ NoAverages \in Maps(n) /\ \A c \in Conn : NoAverages[c] = 0
         /\ NotHydrating \in Hydration(n)
         /\ NotHydrating.at = "no" /\ NotHydrating.saved = NoAverages
<1>1. NoAverages \in Maps(n) /\ \A c \in Conn : NoAverages[c] = 0
  BY DEF NoAverages, Maps
<1> QED BY <1>1 DEF NotHydrating, Hydration

LEMMA RecordKeepsLatency ==
  ASSUME LatencyInv, NEW c \in Conn, RecordLatency(c)
  PROVE  LatencyInv'
<1> USE DEF LatencyInv
<1>1. /\ clock' = clock + 1 /\ ewma' = [ewma EXCEPT ![c] = clock + 1]
      /\ latencyDirty' = TRUE /\ latencyTimer' = TRUE
      /\ UNCHANGED <<mem, disk, writes, hydrated, hydrating, born>>
  BY DEF RecordLatency, storeVars
<1>2. /\ clock \in Nat /\ ewma' \in Maps(clock + 1) /\ Maps(clock) \subseteq Maps(clock + 1)
      /\ \A d \in Conn : ewma[d] <= ewma'[d]
      /\ \A d \in Conn : ewma'[d] = ewma[d] \/ ewma'[d] = clock + 1
  BY <1>1, LatencyNumbers DEF LatencyTyped, Maps
<1>3. Flush(clock) \subseteq Flush(clock + 1) /\ Hydration(clock) \subseteq Hydration(clock + 1)
  BY <1>2 DEF Flush, Hydration
<1>4. Seq(Flush(clock)) \subseteq Seq(Flush(clock + 1))
  BY <1>3, SeqMonotonic
<1>5. LatencyTyped'
  BY <1>1, <1>2, <1>3, <1>4 DEF LatencyTyped
<1>6. ASSUME NEW d \in Conn, NEW v \in Nat, Holds(ewma, d, v) PROVE Holds(ewma', d, v)
  BY <1>2, <1>6, ForwardHolds DEF LatencyTyped
<1>7. StoredIsHeld'
  <2>1. ASSUME NEW d \in Conn, MustHold(mem.latency[d])'
        PROVE  Holds(ewma', d, mem.latency[d])
    <3>1. mem.latency[d] \in Nat /\ MustHold(mem.latency[d])
      BY <1>1, <2>1, LatencyNumbers DEF MustHold
    <3> QED BY <3>1, <1>6 DEF StoredIsHeld
  <2>2. ASSUME NEW k \in 1..Len(writes), NEW d \in Conn, MustHold(writes[k].map[d])'
        PROVE  Holds(ewma', d, writes[k].map[d])
    <3>1. writes[k].map[d] \in Nat /\ MustHold(writes[k].map[d])
      BY <1>1, <2>2, LatencyNumbers DEF MustHold
    <3> QED BY <3>1, <1>6 DEF StoredIsHeld
  <2>3. \A d \in Conn : hydrating.saved[d] > born => Holds(ewma', d, hydrating.saved[d])
    BY <1>6, LatencyNumbers DEF StoredIsHeld
  <2> QED BY <1>1, <2>1, <2>2, <2>3 DEF StoredIsHeld
<1>8. FlushesHold'
  BY <1>1 DEF FlushesHold
<1>9. OwnSamples'
  BY <1>1, <1>2, LatencyNumbers DEF OwnSamples
<1> QED BY <1>1, <1>5, <1>7, <1>8, <1>9 DEF SamplesAreDue

LEMMA FlushKeepsLatency ==
  ASSUME LatencyInv, StartFlush, UNCHANGED <<mem, disk, clock, born, hydrated, hydrating>>
  PROVE  LatencyInv'
<1> USE DEF LatencyInv
<1>1. CASE ~latencyDirty
  <2>1. UNCHANGED <<latencyDirty, ewma, writes>>
    BY <1>1 DEF StartFlush
  <2>2. LatencyTyped' /\ StoredIsHeld' /\ FlushesHold' /\ OwnSamples'
    BY <2>1 DEF LatencyTyped, StoredIsHeld, MustHold, FlushesHold, OwnSamples
  <2>3. SamplesAreDue'
    BY <1>1, <2>1 DEF SamplesAreDue, LastMap
  <2> QED BY <2>2, <2>3
<1>2. CASE latencyDirty
  <2> DEFINE flush == [map |-> ewma', whole |-> hydrated]
             n == Len(writes)
  <2>1. latencyDirty' = FALSE /\ ewma' = Pruned(ewma) /\ writes' = Append(writes, flush)
    BY <1>2 DEF StartFlush
  <2>2. ewma' \in Maps(clock) /\ flush \in Flush(clock) /\ n \in Nat
    BY <2>1, PrunedTyped, LatencyNumbers DEF LatencyTyped, Flush
  <2>3. /\ writes' \in Seq(Flush(clock)) /\ Len(writes') = n + 1 /\ writes' # <<>>
        /\ writes'[n + 1].map = ewma' /\ writes'[n + 1].whole = hydrated
        /\ \A k \in 1..n : writes'[k] = writes[k]
    BY <2>1, <2>2, AppendProperties DEF LatencyTyped
  <2>4. \A c \in Conn : /\ ewma'[c] \in Nat /\ Holds(ewma', c, ewma'[c])
                        /\ ewma'[c] = ewma[c] \/ ewma'[c] = 0
    BY <2>1, <2>2, PrunedEntry DEF Maps, Holds
  <2>5. ASSUME NEW c \in Conn, NEW v \in Nat, Holds(ewma, c, v) PROVE Holds(ewma', c, v)
    BY <2>1, <2>5, PrunedHolds DEF LatencyTyped
  <2> HIDE DEF flush, n
  <2>6. \A k \in 1..Len(writes') : k \in 1..n \/ k = n + 1
    BY <2>2, <2>3
  <2>7. LatencyTyped'
    BY <2>1, <2>2, <2>3 DEF LatencyTyped
  <2>8. StoredIsHeld'
    <3>1. \A c \in Conn : MustHold(mem.latency[c])' => Holds(ewma', c, mem.latency[c])
      BY <2>5, LatencyNumbers DEF StoredIsHeld, MustHold
    <3>2. \A c \in Conn : hydrating.saved[c] > born => Holds(ewma', c, hydrating.saved[c])
      BY <2>5, LatencyNumbers DEF StoredIsHeld
    <3>3. ASSUME NEW k \in 1..Len(writes'), NEW c \in Conn, MustHold(writes[k].map[c])'
          PROVE  Holds(ewma', c, writes'[k].map[c])
      <4>1. CASE k \in 1..n
        BY <4>1, <3>3, <2>3, <2>5, LatencyNumbers DEF StoredIsHeld, MustHold, n
      <4>2. CASE k = n + 1
        BY <4>2, <2>3, <2>4
      <4> QED BY <4>1, <4>2, <2>6
    <3> QED BY <3>1, <3>2, <3>3 DEF StoredIsHeld
  <2>9. FlushesHold'
    <3> SUFFICES ASSUME NEW k \in 1..Len(writes'), writes'[k].whole
                 PROVE  /\ \A c \in Conn : mem.latency[c] # 0 => Holds(writes'[k].map, c, mem.latency[c])
                        /\ \A j \in 1..(k - 1), c \in Conn :
                             writes'[j].map[c] # 0 => Holds(writes'[k].map, c, writes'[j].map[c])
      BY DEF FlushesHold
    <3>1. CASE k \in 1..n
      <4>1. \A j \in 1..(k - 1) : j \in 1..n
        BY <3>1, <2>2
      <4> QED BY <4>1, <3>1, <2>3 DEF FlushesHold, n
    <3>2. CASE k = n + 1
      <4>1. hydrated /\ \A j \in 1..(k - 1) : j \in 1..n
        BY <3>2, <2>2, <2>3
      <4>2. \A c \in Conn : mem.latency[c] # 0 => Holds(ewma', c, mem.latency[c])
        BY <4>1, <2>5, LatencyNumbers DEF StoredIsHeld, MustHold
      <4>3. ASSUME NEW j \in 1..n, NEW c \in Conn, writes[j].map[c] # 0
            PROVE  Holds(ewma', c, writes[j].map[c])
        BY <4>1, <4>3, <2>5, LatencyNumbers DEF StoredIsHeld, MustHold, n
      <4> QED BY <4>1, <4>2, <4>3, <3>2, <2>3
    <3> QED BY <3>1, <3>2, <2>6
  <2>10. OwnSamples'
    <3>1. ASSUME ~hydrated, NEW k \in 1..Len(writes'), NEW c \in Conn
          PROVE  writes'[k].map[c] = 0 \/ writes'[k].map[c] > born
      BY <3>1, <2>3, <2>4, <2>6 DEF OwnSamples, n
    <3>2. ~hydrated => \A c \in Conn : ewma'[c] = 0 \/ ewma'[c] > born
      BY <2>4 DEF OwnSamples
    <3> QED BY <3>1, <3>2 DEF OwnSamples
  <2>11. SamplesAreDue'
    <3>1. LastMap' = ewma'
      BY <2>3 DEF LastMap
    <3> QED BY <3>1, <2>4 DEF SamplesAreDue
  <2> QED BY <2>7, <2>8, <2>9, <2>10, <2>11
<1> QED BY <1>1, <1>2 DEF StartFlush

LEMMA WriteIsTaken ==
  ASSUME LatencyTyped, writes # <<>>, writes' = Tail(writes)
  PROVE  /\ writes' \in Seq(Flush(clock)) /\ Len(writes') = Len(writes) - 1
         /\ Head(writes) = writes[1] /\ 1 \in 1..Len(writes)
         /\ \A k \in 1..Len(writes') : writes'[k] = writes[k + 1] /\ k + 1 \in 1..Len(writes)
         /\ writes' = <<>> => Len(writes) = 1
         /\ writes' # <<>> => writes'[Len(writes')] = writes[Len(writes)]
<1>1. Len(writes) \in Nat \ {0}
  BY EmptySeq DEF LatencyTyped
<1>2. /\ writes' \in Seq(Flush(clock)) /\ Len(writes') = Len(writes) - 1
      /\ \A k \in 1..Len(writes') : writes'[k] = writes[k + 1]
  BY HeadTailProperties DEF LatencyTyped
<1>3. Head(writes) = writes[1]
  BY DEF LatencyTyped
<1>4. (writes' = <<>>) <=> Len(writes') = 0
  BY <1>2, EmptySeq
<1> QED BY <1>1, <1>2, <1>3, <1>4

LEMMA WriteKeepsLatency ==
  ASSUME StoreInv, LatencyInv, WriteLatency
  PROVE  LatencyInv'
<1> USE DEF LatencyInv
<1>1. /\ writes # <<>> /\ writes' = Tail(writes) /\ flushFailed' = FALSE
      /\ UNCHANGED <<ewma, clock, latencyDirty, latencyTimer, hydrated, hydrating, born>>
      /\ Commit("latency", Head(writes).map)
  BY DEF WriteLatency
<1>2. mem'.latency = writes[1].map /\ disk' \in {disk, mem'}
  BY <1>1, WriteIsTaken, Committed DEF StoreInv, Tables
<1>3. /\ writes' \in Seq(Flush(clock)) /\ Len(writes') = Len(writes) - 1 /\ 1 \in 1..Len(writes)
      /\ \A k \in 1..Len(writes') : writes'[k] = writes[k + 1] /\ k + 1 \in 1..Len(writes)
      /\ writes' = <<>> => Len(writes) = 1
      /\ writes' # <<>> => writes'[Len(writes')] = writes[Len(writes)]
  BY <1>1, WriteIsTaken
<1>4. LatencyTyped'
  BY <1>1, <1>2, <1>3, LatencyNumbers DEF LatencyTyped
<1>5. StoredIsHeld'
  BY <1>1, <1>2, <1>3 DEF StoredIsHeld, MustHold
<1>6. FlushesHold'
  <2> SUFFICES ASSUME NEW k \in 1..Len(writes'), writes'[k].whole
               PROVE  /\ \A c \in Conn : mem'.latency[c] # 0 => Holds(writes'[k].map, c, mem'.latency[c])
                      /\ \A j \in 1..(k - 1), c \in Conn :
                           writes'[j].map[c] # 0 => Holds(writes'[k].map, c, writes'[j].map[c])
    BY DEF FlushesHold
  <2>1. writes'[k] = writes[k + 1] /\ k + 1 \in 1..Len(writes) /\ 1 \in 1..((k + 1) - 1)
    BY <1>3, LatencyNumbers
  <2>2. \A j \in 1..(k - 1) : j \in 1..Len(writes') /\ j + 1 \in 1..((k + 1) - 1)
    BY <1>3, LatencyNumbers
  <2>3. writes[k + 1].whole
    BY <2>1
  <2>4. \A c \in Conn : writes[1].map[c] # 0 => Holds(writes[k + 1].map, c, writes[1].map[c])
    BY <2>1, <2>3 DEF FlushesHold
  <2>5. ASSUME NEW j \in 1..(k - 1), NEW c \in Conn, writes'[j].map[c] # 0
        PROVE  Holds(writes'[k].map, c, writes'[j].map[c])
    <3>1. writes'[j] = writes[j + 1] /\ j + 1 \in 1..((k + 1) - 1)
      BY <1>3, <2>2
    <3> QED BY <2>1, <2>3, <2>5, <3>1 DEF FlushesHold
  <2> QED BY <1>2, <2>1, <2>4, <2>5
<1>7. OwnSamples'
  BY <1>1, <1>2, <1>3, LatencyNumbers DEF OwnSamples, LatencyTyped
<1>8. SamplesAreDue'
  <2>1. LastMap' = LastMap
    BY <1>1, <1>2, <1>3 DEF LastMap
  <2> QED BY <2>1, <1>1 DEF SamplesAreDue
<1> QED BY <1>4, <1>5, <1>6, <1>7, <1>8

LEMMA FailedWriteKeepsLatency ==
  ASSUME LatencyInv, WriteFails
  PROVE  LatencyInv'
<1> USE DEF LatencyInv
<1>1. /\ writes # <<>> /\ writes' = Tail(writes) /\ flushFailed' = TRUE /\ latencyDirty' = TRUE
      /\ UNCHANGED <<mem, disk, ewma, clock, latencyTimer, hydrated, hydrating, born>>
  BY DEF WriteFails, storeVars
<1>2. /\ writes' \in Seq(Flush(clock)) /\ Len(writes') = Len(writes) - 1 /\ 1 \in 1..Len(writes)
      /\ \A k \in 1..Len(writes') : writes'[k] = writes[k + 1] /\ k + 1 \in 1..Len(writes)
      /\ writes' # <<>> => writes'[Len(writes')] = writes[Len(writes)]
  BY <1>1, WriteIsTaken
<1>3. LatencyTyped'
  BY <1>1, <1>2 DEF LatencyTyped
<1>4. StoredIsHeld'
  BY <1>1, <1>2 DEF StoredIsHeld, MustHold
<1>5. FlushesHold'
  <2> SUFFICES ASSUME NEW k \in 1..Len(writes'), writes'[k].whole
               PROVE  /\ \A c \in Conn : mem.latency[c] # 0 => Holds(writes'[k].map, c, mem.latency[c])
                      /\ \A j \in 1..(k - 1), c \in Conn :
                           writes'[j].map[c] # 0 => Holds(writes'[k].map, c, writes'[j].map[c])
    BY <1>1 DEF FlushesHold
  <2>1. writes'[k] = writes[k + 1] /\ k + 1 \in 1..Len(writes) /\ writes[k + 1].whole
    BY <1>2
  <2>2. \A j \in 1..(k - 1) : j \in 1..Len(writes') /\ j + 1 \in 1..((k + 1) - 1)
    BY <1>2, LatencyNumbers
  <2>3. ASSUME NEW j \in 1..(k - 1), NEW c \in Conn, writes'[j].map[c] # 0
        PROVE  Holds(writes'[k].map, c, writes'[j].map[c])
    <3>1. writes'[j] = writes[j + 1] /\ j + 1 \in 1..((k + 1) - 1)
      BY <1>2, <2>2
    <3> QED BY <2>1, <2>3, <3>1 DEF FlushesHold
  <2> QED BY <2>1, <2>3 DEF FlushesHold
<1>6. OwnSamples'
  BY <1>1, <1>2 DEF OwnSamples
<1>7. SamplesAreDue'
  <2>1. CASE writes' = <<>>
    BY <2>1, <1>1 DEF SamplesAreDue
  <2>2. CASE writes' # <<>>
    <3>1. LastMap' = LastMap
      BY <1>1, <1>2, <2>2 DEF LastMap
    <3> QED BY <3>1, <1>1 DEF SamplesAreDue
  <2> QED BY <2>1, <2>2
<1> QED BY <1>3, <1>4, <1>5, <1>6, <1>7

LEMMA HydrationKeepsLatency ==
  ASSUME LatencyInv, Hydrate \/ HydrateRead \/ HydrateFails
  PROVE  LatencyInv'
<1> USE DEF LatencyInv
<1>1. /\ UNCHANGED <<mem, disk, ewma, clock, writes, hydrated, latencyDirty, latencyTimer, flushFailed, born>>
      /\ ~hydrated
  BY DEF Hydrate, HydrateRead, HydrateFails, storeVars, LatencyTyped
<1>2. hydrating' \in Hydration(clock)
  <2>1. CASE Hydrate
    BY <2>1 DEF Hydrate, LatencyTyped, Hydration
  <2>2. CASE HydrateRead
    BY <2>2 DEF HydrateRead, LatencyTyped, Hydration
  <2>3. CASE HydrateFails
    BY <2>3, NothingRead, LatencyNumbers DEF HydrateFails
  <2> QED BY <2>1, <2>2, <2>3
<1>3. LatencyTyped' /\ FlushesHold' /\ SamplesAreDue'
  BY <1>1, <1>2 DEF LatencyTyped, FlushesHold, SamplesAreDue, LastMap
<1>4. /\ \/ hydrating'.saved = hydrating.saved
         \/ hydrating'.saved = mem.latency
         \/ \A c \in Conn : hydrating'.saved[c] = 0
      /\ hydrating'.at = "read" => hydrating'.saved = mem.latency
  <2>1. CASE Hydrate
    BY <2>1 DEF Hydrate, LatencyTyped, Hydration
  <2>2. CASE HydrateRead
    BY <2>2 DEF HydrateRead, LatencyTyped, Hydration
  <2>3. CASE HydrateFails
    BY <2>3, NothingRead DEF HydrateFails
  <2> QED BY <2>1, <2>2, <2>3
<1>5. OwnSamples'
  BY <1>1, <1>4 DEF OwnSamples
<1>6. \A c \in Conn : hydrating'.saved[c] > born => Holds(ewma, c, hydrating'.saved[c])
  BY <1>4, LatencyNumbers DEF StoredIsHeld, MustHold
<1>7. StoredIsHeld'
  BY <1>1, <1>6 DEF StoredIsHeld, MustHold
<1> QED BY <1>3, <1>5, <1>7

LEMMA AppliedKeepsLatency ==
  ASSUME LatencyInv, HydrateApply
  PROVE  /\ LatencyInv'
         /\ \A c \in Conn : ewma'[c] < ewma[c] => ewma'[c] = 0
<1> USE DEF LatencyInv
<1>1. /\ hydrating.at = "read" /\ ewma' = Pruned(Restored) /\ hydrated' = TRUE
      /\ hydrating' = NotHydrating /\ ~hydrated
      /\ UNCHANGED <<mem, disk, clock, writes, latencyDirty, latencyTimer, flushFailed, born>>
  BY DEF HydrateApply, storeVars, LatencyTyped
<1>2. /\ Restored \in Maps(clock)
      /\ \A c \in Conn : Restored[c] = IF ewma[c] # 0 THEN ewma[c] ELSE hydrating.saved[c]
      /\ \A c \in Conn : ewma[c] <= Restored[c]
  BY LatencyNumbers DEF Restored, Maps
<1>3. /\ ewma' \in Maps(clock)
      /\ \A c \in Conn : ewma'[c] = Restored[c] \/ ewma'[c] = 0
  BY <1>1, <1>2, PrunedTyped, PrunedEntry, LatencyNumbers
<1>4. LatencyTyped'
  <2>1. hydrating'.at = "no" /\ hydrating' \in Hydration(clock)
    BY <1>1, NothingRead, LatencyNumbers
  <2> QED BY <1>1, <1>3, <2>1 DEF LatencyTyped
<1>5. ASSUME NEW c \in Conn, NEW v \in Nat, Holds(Restored, c, v) PROVE Holds(ewma', c, v)
  BY <1>1, <1>2, <1>5, PrunedHolds, LatencyNumbers
<1>6. ASSUME NEW c \in Conn, NEW v \in Nat, Holds(ewma, c, v) PROVE Holds(ewma', c, v)
  BY <1>2, <1>5, <1>6, ForwardHolds, LatencyNumbers DEF LatencyTyped
<1>7. StoredIsHeld'
  <2>1. ASSUME NEW c \in Conn, mem.latency[c] # 0 PROVE Holds(ewma', c, mem.latency[c])
    <3>1. CASE mem.latency[c] > born
      BY <2>1, <3>1, <1>6, LatencyNumbers DEF StoredIsHeld, MustHold
    <3>2. CASE mem.latency[c] <= born
      <4>1. hydrating.saved[c] = mem.latency[c]
        BY <2>1, <3>2, <1>1 DEF OwnSamples
      <4>2. ewma[c] = 0 \/ ewma[c] > born
        BY <1>1 DEF OwnSamples
      <4>3. Restored[c] >= mem.latency[c]
        BY <1>2, <3>2, <4>1, <4>2, LatencyNumbers
      <4> QED BY <4>3, <1>5, LatencyNumbers DEF Holds
    <3> QED BY <3>1, <3>2, LatencyNumbers
  <2>2. ASSUME NEW k \in 1..Len(writes), NEW c \in Conn, writes[k].map[c] # 0
        PROVE  Holds(ewma', c, writes[k].map[c])
    <3>1. writes[k].map[c] > born
      BY <2>2, <1>1 DEF OwnSamples
    <3>2. writes[k].map[c] \in Nat /\ MustHold(writes[k].map[c])
      BY <2>2, <3>1, LatencyNumbers DEF MustHold
    <3> QED BY <3>2, <1>6 DEF StoredIsHeld
  <2>3. \A c \in Conn : ~(hydrating'.saved[c] > born)
    BY <1>1, LatencyNumbers DEF NotHydrating, NoAverages
  <2> QED BY <1>1, <2>1, <2>2, <2>3 DEF StoredIsHeld, MustHold
<1>8. FlushesHold'
  BY <1>1 DEF FlushesHold
<1>9. OwnSamples'
  BY <1>1 DEF OwnSamples, NotHydrating
<1>10. SamplesAreDue'
  <2>1. LastMap' = LastMap
    BY <1>1 DEF LastMap
  <2>2. ASSUME NEW c \in Conn, ewma'[c] > born PROVE ewma'[c] = ewma[c]
    <3>1. CASE ewma[c] = 0
      <4>1. ewma'[c] = hydrating.saved[c] /\ hydrating.saved[c] > born /\ Restored[c] = hydrating.saved[c]
        BY <2>2, <3>1, <1>2, <1>3, LatencyNumbers
      <4>2. Full(ewma, hydrating.saved[c])
        BY <4>1, <3>1, LatencyNumbers DEF StoredIsHeld, Holds
      <4>3. Newer(ewma, hydrating.saved[c]) \subseteq Newer(Restored, hydrating.saved[c])
        <5>1. \A d \in Conn : ewma[d] \in Nat /\ Restored[d] \in Nat /\ ewma[d] <= Restored[d]
          BY <1>2, LatencyNumbers DEF Maps
        <5> QED BY <5>1, LatencyNumbers DEF Newer
      <4>4. Full(Restored, Restored[c])
        BY <4>1, <4>2, <4>3, FullGrows
      <4>5. ewma'[c] = 0
        BY <4>4, <1>1, PrunedEntry
      <4> QED BY <4>5, <2>2, LatencyNumbers
    <3>2. CASE ewma[c] # 0
      BY <3>2, <2>2, <1>2, <1>3, LatencyNumbers
    <3> QED BY <3>1, <3>2
  <2> QED BY <2>1, <2>2, <1>1 DEF SamplesAreDue
<1>11. \A c \in Conn : ewma'[c] < ewma[c] => ewma'[c] = 0
  BY <1>2, <1>3, LatencyNumbers
<1> QED BY <1>4, <1>7, <1>8, <1>9, <1>10, <1>11

LEMMA LossKeepsLatency ==
  ASSUME LatencyInv, LatencyLost, mem' \in {disk, mem}, disk' \in {disk, mem}
  PROVE  LatencyInv'
<1> USE DEF LatencyInv
<1>1. /\ ewma' = NoAverages /\ latencyDirty' = FALSE /\ writes' = <<>> /\ hydrated' = FALSE
      /\ hydrating' = NotHydrating /\ born' = clock /\ clock' = clock
  BY DEF LatencyLost
<1>2. \A c \in Conn : mem'.latency[c] <= clock /\ ewma'[c] = 0 /\ hydrating'.saved[c] = 0
  BY <1>1, LatencyNumbers DEF NoAverages, NotHydrating
<1>3. Len(writes') = 0
  BY <1>1, EmptySeq
<1>4. LatencyTyped'
  <2>1. writes' \in Seq(Flush(clock)) /\ clock \in Nat
    BY <1>1, LatencyNumbers, EmptySeq
  <2>2. mem'.latency \in Maps(clock) /\ disk'.latency \in Maps(clock)
    BY DEF LatencyTyped
  <2>3. ewma' \in Maps(clock) /\ hydrating' \in Hydration(clock)
        /\ hydrating'.at = "no"
    BY <1>1, <2>1, NothingRead
  <2>4. clock' \in Nat /\ born' \in 0..clock'
    BY <1>1, <2>1
  <2>5. hydrated' \in BOOLEAN /\ latencyDirty' \in BOOLEAN /\ ~hydrated'
    BY <1>1, Zenon
  <2> QED BY <1>1, <2>1, <2>2, <2>3, <2>4, <2>5 DEF LatencyTyped
<1>5. StoredIsHeld' /\ FlushesHold'
  BY <1>1, <1>2, <1>3, LatencyNumbers DEF StoredIsHeld, FlushesHold, MustHold
<1>6. OwnSamples' /\ SamplesAreDue'
  BY <1>1, <1>2, <1>3, LatencyNumbers DEF OwnSamples, SamplesAreDue, NotHydrating
<1> QED BY <1>4, <1>5, <1>6

LEMMA LatencyInvKept ==
  ASSUME StoreInv, LatencyInv, [Next]_vars
  PROVE  LatencyInv'
<1>0. disk' \in {disk, mem, mem'}
  BY StoreInvKept
<1>1. CASE UNCHANGED latencyVars /\ mem'.latency = mem.latency
  <2>1. LatencyTyped'
    BY <1>0, <1>1 DEF latencyVars, LatencyInv, LatencyTyped
  <2>2. StoredIsHeld' /\ FlushesHold' /\ OwnSamples' /\ SamplesAreDue'
    BY <1>1 DEF latencyVars, LatencyInv, StoredIsHeld, MustHold, FlushesHold, OwnSamples,
                SamplesAreDue, LastMap
  <2> QED BY <2>1, <2>2 DEF LatencyInv
<1>2. ASSUME NEW c \in Conn, RecordLatency(c) PROVE LatencyInv'
  BY <1>2, RecordKeepsLatency
<1>3. CASE LatencyTimer \/ (LatencyDrains /\ UNCHANGED <<mem, disk>>)
  <2>1. StartFlush /\ UNCHANGED <<mem, disk, clock, born, hydrated, hydrating>>
    BY <1>3 DEF LatencyTimer, LatencyDrains, storeVars
  <2> QED BY <2>1, FlushKeepsLatency
<1>4. CASE LatencyLost /\ mem' \in {disk, mem} /\ ProcessEnds
  <2>1. disk' \in {disk, mem}
    BY <1>4, Lost DEF ProcessEnds
  <2> QED BY <1>4, <2>1, LossKeepsLatency
<1> QED BY <1>1, <1>2, <1>3, <1>4, StepsOfLatency, WriteKeepsLatency, FailedWriteKeepsLatency,
           HydrationKeepsLatency, AppliedKeepsLatency DEF LatencyNext

LEMMA LatencyStays == Spec => [](LatencyInv /\ SamplesAreScheduled)
<1>1. Init => LatencyInv
  <2> SUFFICES ASSUME Init PROVE LatencyInv
    OBVIOUS
  <2>1. /\ ewma = NoAverages /\ clock = 0 /\ writes = <<>> /\ latencyDirty = FALSE /\ hydrated = FALSE
        /\ hydrating = NotHydrating /\ born = 0 /\ mem.latency = NoAverages /\ disk.latency = NoAverages
    BY DEF Init, LatencyInit, StoreInit, EmptyTables
  <2>2. /\ NoAverages \in Maps(0) /\ \A c \in Conn : NoAverages[c] = 0
        /\ NotHydrating \in Hydration(0) /\ NotHydrating.at = "no"
    BY NothingRead
  <2>3. Len(writes) = 0 /\ writes \in Seq(Flush(0))
    BY <2>1, EmptySeq
  <2>4. LatencyTyped
    <3>1. clock \in Nat /\ born \in 0..clock
      BY <2>1
    <3>4. hydrated \in BOOLEAN /\ latencyDirty \in BOOLEAN /\ ~hydrated
      BY <2>1, Zenon
    <3>2. ewma \in Maps(clock) /\ mem.latency \in Maps(clock) /\ disk.latency \in Maps(clock)
      BY <2>1, <2>2
    <3>3. writes \in Seq(Flush(clock)) /\ hydrating \in Hydration(clock) /\ hydrating.at = "no"
      BY <2>1, <2>2, <2>3
    <3> QED BY <3>1, <3>2, <3>3, <3>4 DEF LatencyTyped
  <2>5. StoredIsHeld /\ FlushesHold
    BY <2>1, <2>2, <2>3 DEF StoredIsHeld, FlushesHold, MustHold, NotHydrating
  <2>6. OwnSamples /\ SamplesAreDue
    BY <2>1, <2>2, <2>3 DEF OwnSamples, SamplesAreDue, NotHydrating
  <2> QED BY <2>4, <2>5, <2>6 DEF LatencyInv
<1>2. LatencyInv => SamplesAreScheduled
  BY DEF LatencyInv, SamplesAreDue, LastMap, SamplesAreScheduled
<1> QED BY <1>1, <1>2, StoreStays, LatencyInvKept, PTL DEF Spec

\* Entries go forward or out.
LEMMA EntriesGoForward ==
  ASSUME StoreInv, LatencyInv, [Next]_vars, NEW c \in Conn, ewma'[c] < ewma[c]
  PROVE  ewma'[c] = 0
<1>0. LatencyTyped /\ \A d \in Conn : ewma[d] \in Nat
  BY LatencyNumbers DEF LatencyInv
<1>1. CASE UNCHANGED ewma
  BY <1>0, <1>1
<1>2. ASSUME NEW d \in Conn, RecordLatency(d) PROVE ewma'[c] >= ewma[c]
  BY <1>0, <1>2, LatencyNumbers DEF RecordLatency, LatencyTyped, Maps
<1>3. CASE StartFlush
  BY <1>0, <1>3, PrunedEntry DEF StartFlush
<1>4. CASE HydrateApply
  BY <1>4, AppliedKeepsLatency
<1>5. CASE LatencyLost
  BY <1>5 DEF LatencyLost, NoAverages
<1>6. CASE LatencyNext
  <2>1. CASE \E d \in Conn : RecordLatency(d)
    <3>1. PICK d \in Conn : RecordLatency(d)
      BY <2>1
    <3>2. ewma'[c] >= ewma[c]
      BY <1>2, <3>1
    <3>3. ewma'[c] \in Nat
      BY <1>0, <3>1, LatencyNumbers DEF RecordLatency, LatencyTyped, Maps
    <3> QED BY <1>0, <3>2, <3>3
  <2>2. CASE LatencyTimer
    BY <2>2, <1>3 DEF LatencyTimer
  <2>3. CASE WriteLatency \/ WriteFails \/ Hydrate \/ HydrateRead \/ HydrateFails
    BY <2>3, <1>1 DEF WriteLatency, WriteFails, Hydrate, HydrateRead, HydrateFails
  <2> QED BY <1>4, <1>6, <2>1, <2>2, <2>3 DEF LatencyNext
<1>7. CASE LatencyDrains
  BY <1>7, <1>3 DEF LatencyDrains
<1>8. CASE UNCHANGED latencyVars
  BY <1>8, <1>1 DEF latencyVars
<1> QED BY <1>5, <1>6, <1>7, <1>8, StepsOfLatency

LEMMA StoredGoesForNewer ==
  ASSUME StoreInv, LatencyInv, [Next]_vars, NEW c \in Conn,
         mem.latency[c] # 0, mem'.latency[c] = 0
  PROVE  \/ restarts' # restarts
         \/ ~Head(writes).whole
         \/ Cardinality({d \in Conn : mem'.latency[d] > mem.latency[c]}) >= MaxEntries
<1>0. LatencyTyped
  BY DEF LatencyInv
<1>1. CASE mem'.latency = mem.latency
  BY <1>1
<1>2. CASE ProcessEnds
  BY <1>2, Lost DEF ProcessEnds, StoreInv
<1>3. CASE WriteLatency
  <2>1. writes # <<>> /\ Commit("latency", Head(writes).map) /\ writes' = Tail(writes)
    BY <1>3 DEF WriteLatency
  <2>2. mem'.latency = writes[1].map /\ Head(writes) = writes[1] /\ 1 \in 1..Len(writes)
    BY <1>0, <2>1, WriteIsTaken, Committed DEF StoreInv, Tables
  <2>3. ASSUME writes[1].whole PROVE Full(writes[1].map, mem.latency[c])
    <3>1. Holds(writes[1].map, c, mem.latency[c])
      BY <2>2, <2>3 DEF LatencyInv, FlushesHold
    <3>2. mem.latency[c] \in Nat
      BY <1>0, LatencyNumbers
    <3> QED BY <2>2, <3>1, <3>2 DEF Holds
  <2> QED BY <2>2, <2>3 DEF Full, Newer
<1>4. ASSUME NEW d \in Conn, RecordLatency(d) PROVE mem' = mem
  BY <1>4 DEF RecordLatency, storeVars
<1>5. CASE LatencyTimer \/ WriteFails \/ Hydrate \/ HydrateRead \/ HydrateApply \/ HydrateFails
  BY <1>1, <1>5 DEF LatencyTimer, WriteFails, Hydrate, HydrateRead, HydrateApply, HydrateFails, storeVars
<1> QED BY <1>1, <1>2, <1>3, <1>4, <1>5, StepsOfLatency DEF LatencyNext

-----------------------------------------------------------------------------
(* Whatever the order of saves, flushes, failures, drains and restarts, what   *)
(* the write-behind queues have taken in is scheduled to be written, kept      *)
(* until it is, and not reported written before.                               *)
THEOREM TakenStaysWritten == Spec => []TakenIsWritten
<1>1. StoreInv /\ UsageInv /\ DetailInv /\ DrainWrites /\ SamplesAreScheduled => TakenIsWritten
  BY DEF StoreInv, UsageInv, DetailInv, TakenIsWritten, WritesAreScheduled, TakenIsKept
<1> QED BY <1>1, StoreStays, UsageStays, DetailsStay, OwedStays, LatencyStays, PTL

-----------------------------------------------------------------------------
(* The quota cache.  Within one life of an entry the versions of its loads    *)
(* rise with the loads; an entry's promise and value are loads of its key.    *)

Load == [key : QuotaKey, version : Nat \ {0}, epoch : Nat, force : BOOLEAN,
         status : {"running", "loaded", "failed"}]

QuotaTyped ==
  /\ loads \in Seq(Load)
  /\ entries \in [QuotaKey -> [value : Nat, promise : Nat, version : Nat, fresh : BOOLEAN]]
  /\ epoch \in [QuotaKey -> Nat]

LoadsAreOrdered ==
  /\ \A i \in 1..Len(loads) : loads[i].epoch <= epoch[loads[i].key]
  /\ \A i \in 1..Len(loads) :
       loads[i].epoch = epoch[loads[i].key] => loads[i].version <= entries[loads[i].key].version
  /\ \A i, j \in 1..Len(loads) : i < j /\ loads[i].key = loads[j].key =>
       /\ loads[i].epoch <= loads[j].epoch
       /\ loads[i].epoch = loads[j].epoch => loads[i].version < loads[j].version

PromisesAreLoads ==
  \A k \in QuotaKey :
    /\ entries[k].promise # 0 =>
         /\ entries[k].promise \in 1..Len(loads)
         /\ loads[entries[k].promise].key = k
         /\ loads[entries[k].promise].epoch = epoch[k]
         /\ loads[entries[k].promise].version = entries[k].version
    /\ entries[k].value # 0 =>
         entries[k].value \in 1..Len(loads) /\ loads[entries[k].value].key = k

\* A load that is running for a later call than i, or from before a deletion.
Mixed(i) ==
  \E f \in 1..Len(loads) :
    /\ loads[f].key = loads[i].key
    /\ (i < f /\ loads[f].force) \/ loads[f].epoch < loads[i].epoch

RunningIsPromised ==
  \A i \in 1..Len(loads) :
    loads[i].status = "running" /\ loads[i].epoch = epoch[loads[i].key]
      => entries[loads[i].key].promise = i \/ Mixed(i)

QuotaInv ==
  /\ QuotaTyped /\ LoadsAreOrdered /\ PromisesAreLoads /\ RunningIsPromised
  /\ LoadsAreShared /\ FailureIsNotCached


LEMMA LoadIsTyped ==
  ASSUME QuotaTyped, NEW i \in 1..Len(loads)
  PROVE  /\ loads[i].key \in QuotaKey /\ loads[i].version \in Nat /\ loads[i].epoch \in Nat
         /\ loads[i].status \in {"running", "loaded", "failed"} /\ i \in Nat /\ i # 0
         /\ epoch[loads[i].key] \in Nat /\ entries[loads[i].key].version \in Nat
<1>1. loads[i] \in Load /\ i \in Nat /\ i # 0
  BY DEF QuotaTyped
<1> QED BY <1>1 DEF QuotaTyped, Load

LEMMA RunningBeside ==
  ASSUME QuotaTyped, LoadsAreShared, NEW i \in 1..Len(loads), NEW j \in 1..Len(loads),
         i < j, loads[i].key = loads[j].key, loads[i].epoch = loads[j].epoch,
         loads[i].status = "running", loads[j].status = "running"
  PROVE  \E f \in 1..j : /\ loads[f].key = loads[i].key
                         /\ (i < f /\ loads[f].force) \/ loads[f].epoch < loads[i].epoch
<1>1. DOMAIN loads = 1..Len(loads)
  BY DEF QuotaTyped
<1>2. i \in Running(loads[i].key) /\ j \in Running(loads[i].key) /\ loads[i].key \in QuotaKey
  BY <1>1, LoadIsTyped DEF Running
<1> QED BY <1>2 DEF LoadsAreShared

\* Loads settle, entries are filled, and the entries of these keys are deleted.
Settles(keys) ==
  /\ Len(loads') = Len(loads)
  /\ \A i \in 1..Len(loads) :
       /\ loads'[i].key = loads[i].key /\ loads'[i].version = loads[i].version
       /\ loads'[i].epoch = loads[i].epoch /\ loads'[i].force = loads[i].force
       /\ loads'[i].status = "running" => loads[i].status = "running"
  /\ \A k \in QuotaKey :
       k \in keys => entries'[k] = NoEntry /\ epoch'[k] = epoch[k] + 1
  /\ \A k \in QuotaKey : k \notin keys =>
       /\ epoch'[k] = epoch[k] /\ entries'[k].version = entries[k].version
       /\ \/ entries'[k].promise = entries[k].promise
          \/ /\ entries'[k].promise = 0
             /\ \A i \in 1..Len(loads) :
                  loads'[i].status = "running" /\ entries[k].promise = i => Mixed(i)
       /\ entries'[k].value # 0 =>
            entries'[k].value \in 1..Len(loads) /\ loads[entries'[k].value].key = k
       /\ entries'[k].promise # 0 /\ loads'[entries'[k].promise].status = "failed"
            => entries'[k].value # 0

LEMMA SettlingKeepsQuota ==
  ASSUME QuotaInv, QuotaTyped', NEW keys, Settles(keys)
  PROVE  QuotaInv'
<1> USE DEF QuotaInv, Settles
<1>1. NoEntry.promise = 0 /\ NoEntry.value = 0 /\ NoEntry.version = 0
  BY DEF NoEntry
<1>2. \A i \in 1..Len(loads) : loads'[i].key \in QuotaKey
  BY LoadIsTyped
<1>3. \A i \in 1..Len(loads) :
        /\ epoch[loads[i].key] \in Nat /\ loads[i].epoch \in Nat
        /\ epoch'[loads'[i].key] >= epoch[loads[i].key]
        /\ loads'[i].epoch = epoch'[loads'[i].key] => loads[i].key \notin keys
  BY <1>2, LoadIsTyped DEF LoadsAreOrdered
<1>4. LoadsAreOrdered'
  <2>1. ASSUME NEW i \in 1..Len(loads) PROVE loads'[i].epoch <= epoch'[loads'[i].key]
    <3>1. loads[i].epoch <= epoch[loads[i].key]
      BY DEF LoadsAreOrdered
    <3>2. epoch'[loads'[i].key] \in Nat
      BY <1>2 DEF QuotaTyped
    <3> QED BY <3>1, <3>2, <1>3
  <2>2. ASSUME NEW i \in 1..Len(loads), loads'[i].epoch = epoch'[loads'[i].key]
        PROVE  loads'[i].version <= entries'[loads'[i].key].version
    <3>1. loads[i].key \in QuotaKey /\ loads[i].key \notin keys /\ loads'[i].key = loads[i].key
      BY <2>2, <1>2, <1>3
    <3>2. loads[i].epoch = epoch[loads[i].key]
      BY <2>2, <3>1
    <3>3. loads[i].version <= entries[loads[i].key].version
      BY <3>2 DEF LoadsAreOrdered
    <3> QED BY <3>1, <3>3
  <2>3. ASSUME NEW i \in 1..Len(loads), NEW j \in 1..Len(loads), i < j,
               loads'[i].key = loads'[j].key
        PROVE  /\ loads'[i].epoch <= loads'[j].epoch
               /\ loads'[i].epoch = loads'[j].epoch => loads'[i].version < loads'[j].version
    BY <2>3 DEF LoadsAreOrdered
  <2> QED BY <2>1, <2>2, <2>3 DEF LoadsAreOrdered
<1>5. PromisesAreLoads'
  BY <1>1 DEF PromisesAreLoads
<1>6. ASSUME NEW i \in 1..Len(loads), Mixed(i) PROVE Mixed(i)'
  BY <1>6 DEF Mixed
<1>7. RunningIsPromised'
  <2> SUFFICES ASSUME NEW i \in 1..Len(loads), loads'[i].status = "running",
                      loads'[i].epoch = epoch'[loads'[i].key]
               PROVE  entries'[loads'[i].key].promise = i \/ Mixed(i)'
    BY DEF RunningIsPromised
  <2>1. loads[i].key \notin keys /\ loads[i].key \in QuotaKey
    BY <1>2, <1>3
  <2>2. entries[loads[i].key].promise = i \/ Mixed(i)
    BY <2>1 DEF RunningIsPromised
  <2> QED BY <2>1, <2>2, <1>6
<1>8. LoadsAreShared'
  <2> SUFFICES ASSUME NEW k \in QuotaKey, NEW i \in Running(k)', NEW j \in Running(k)',
                      i < j, loads'[i].epoch = loads'[j].epoch
               PROVE  \E f \in 1..j : /\ loads'[f].key = k
                                      /\ (i < f /\ loads'[f].force) \/ loads'[f].epoch < loads'[i].epoch
    BY DEF LoadsAreShared
  <2>1. DOMAIN loads' = 1..Len(loads)
    BY DEF QuotaTyped
  <2>2. /\ i \in 1..Len(loads) /\ loads[i].key = k /\ loads[i].status = "running"
        /\ j \in 1..Len(loads) /\ loads[j].key = k /\ loads[j].status = "running"
        /\ loads[i].epoch = loads[j].epoch
    BY <2>1 DEF Running
  <2>3. PICK f \in 1..j : /\ loads[f].key = loads[i].key
                          /\ (i < f /\ loads[f].force) \/ loads[f].epoch < loads[i].epoch
    BY <2>2, RunningBeside
  <2>4. f \in 1..Len(loads)
    BY <2>2
  <2> QED BY <2>2, <2>3, <2>4
<1>9. FailureIsNotCached'
  BY <1>1 DEF FailureIsNotCached
<1> QED BY <1>4, <1>5, <1>7, <1>8, <1>9

LEMMA DeletedEntries ==
  ASSUME NEW map, NEW keys
  PROVE  /\ \A k \in QuotaKey : Delete(map, keys)[k] = IF k \in keys THEN NoEntry ELSE map[k]
         /\ Deleted(keys) =>
              \A k \in QuotaKey : epoch'[k] = epoch[k] + (IF k \in keys THEN 1 ELSE 0)
BY DEF Delete, Deleted

LEMMA DeletionIsTyped ==
  ASSUME QuotaTyped, NEW keys, Deleted(keys),
         NEW map \in [QuotaKey -> [value : Nat, promise : Nat, version : Nat, fresh : BOOLEAN]]
  PROVE  /\ Delete(map, keys) \in [QuotaKey -> [value : Nat, promise : Nat, version : Nat, fresh : BOOLEAN]]
         /\ epoch' \in [QuotaKey -> Nat]
<1>1. NoEntry \in [value : Nat, promise : Nat, version : Nat, fresh : BOOLEAN]
  BY DEF NoEntry
<1>2. \A k \in QuotaKey : epoch[k] + (IF k \in keys THEN 1 ELSE 0) \in Nat
  BY DEF QuotaTyped
<1> QED BY <1>1, <1>2 DEF Delete, Deleted

\* A load changes its status.
LEMMA LoadSettles ==
  ASSUME QuotaTyped, NEW id \in DOMAIN loads, NEW status \in {"loaded", "failed"},
         loads' = [loads EXCEPT ![id].status = status]
  PROVE  /\ loads' \in Seq(Load) /\ Len(loads') = Len(loads) /\ id \in 1..Len(loads)
         /\ loads'[id].status = status
         /\ \A i \in 1..Len(loads) :
              /\ loads'[i].key = loads[i].key /\ loads'[i].version = loads[i].version
              /\ loads'[i].epoch = loads[i].epoch /\ loads'[i].force = loads[i].force
              /\ i # id => loads'[i].status = loads[i].status
<1>1. loads \in Seq(Load) /\ DOMAIN loads = 1..Len(loads)
  BY DEF QuotaTyped
<1>2. loads[id] \in Load
  BY <1>1
<1>3. [loads[id] EXCEPT !.status = status] \in Load
  BY <1>2 DEF Load
<1>4. loads' = [loads EXCEPT ![id] = [loads[id] EXCEPT !.status = status]]
  BY <1>1
<1>5. loads' \in Seq(Load) /\ Len(loads') = Len(loads)
  BY <1>1, <1>3, <1>4, ExceptSeq
<1>6. \A i \in 1..Len(loads) : loads[i] \in Load
  BY <1>1
<1>7. loads'[id] = [loads[id] EXCEPT !.status = status]
  BY <1>1, <1>4
<1>8. \A i \in 1..Len(loads) : i # id => loads'[i] = loads[i]
  BY <1>1, <1>4
<1>9. /\ loads'[id].key = loads[id].key /\ loads'[id].version = loads[id].version
      /\ loads'[id].epoch = loads[id].epoch /\ loads'[id].force = loads[id].force
      /\ loads'[id].status = status
  BY <1>2, <1>7 DEF Load
<1> QED BY <1>1, <1>5, <1>8, <1>9

LEMMA AgingKeepsQuota ==
  ASSUME QuotaInv, NEW k \in QuotaKey, QuotaAges(k)
  PROVE  QuotaInv' /\ \A q \in QuotaKey : entries'[q].value = entries[q].value
<1> USE DEF QuotaInv
<1>1. loads' = loads /\ epoch' = epoch /\ entries' = [entries EXCEPT ![k].fresh = FALSE]
  BY DEF QuotaAges
<1>2. \A q \in QuotaKey :
        /\ entries'[q].value = entries[q].value /\ entries'[q].promise = entries[q].promise
        /\ entries'[q].version = entries[q].version
  BY <1>1 DEF QuotaTyped
<1>3. QuotaTyped'
  BY <1>1 DEF QuotaTyped
<1>4. QuotaInv'
  <2> DEFINE none == {}
  <2>1. \A q \in QuotaKey : q \in none => entries'[q] = NoEntry /\ epoch'[q] = epoch[q] + 1
    OBVIOUS
  <2>2. \A q \in QuotaKey : q \notin none =>
          /\ epoch'[q] = epoch[q] /\ entries'[q].version = entries[q].version
          /\ entries'[q].promise = entries[q].promise
          /\ entries'[q].value # 0 =>
               entries'[q].value \in 1..Len(loads) /\ loads[entries'[q].value].key = q
          /\ entries'[q].promise # 0 /\ loads'[entries'[q].promise].status = "failed"
               => entries'[q].value # 0
    BY <1>1, <1>2 DEF PromisesAreLoads, FailureIsNotCached
  <2> HIDE DEF none
  <2>3. Settles(none)
    BY <1>1, <2>1, <2>2 DEF Settles
  <2> QED BY <1>3, <2>3, SettlingKeepsQuota
<1> QED BY <1>2, <1>4

\* What GetQuota adds.
LEMMA LoadBegins ==
  ASSUME QuotaTyped, NEW k \in QuotaKey, NEW force \in BOOLEAN, GetQuota(k, force)
  PROVE  /\ Len(loads') = Len(loads) + 1 /\ Len(loads) \in Nat
         /\ \A i \in 1..Len(loads) : loads'[i] = loads[i] /\ i \in 1..Len(loads')
         /\ loads'[Len(loads')].key = k /\ loads'[Len(loads')].force = force
         /\ loads'[Len(loads')].version = entries[k].version + 1
         /\ loads'[Len(loads')].epoch = epoch[k]
         /\ loads'[Len(loads')].status = "running"
         /\ entries'[k].promise = Len(loads') /\ entries'[k].version = entries[k].version + 1
         /\ entries'[k].value = entries[k].value
         /\ \A q \in QuotaKey \ {k} : entries'[q] = entries[q]
         /\ epoch' = epoch
         /\ QuotaTyped'
<1> DEFINE new == [key |-> k, version |-> entries[k].version + 1, epoch |-> epoch[k],
                   force |-> force, status |-> "running"]
           filled == [[entries[k] EXCEPT !.promise = Len(loads) + 1]
                       EXCEPT !.version = entries[k].version + 1]
<1>1. loads \in Seq(Load) /\ Len(loads) \in Nat
  BY DEF QuotaTyped
<1>2. entries[k].version \in Nat /\ epoch[k] \in Nat
  BY DEF QuotaTyped
<1>3. new \in Load
  BY <1>2 DEF Load
<1>4. /\ loads' = Append(loads, new) /\ epoch' = epoch
      /\ entries' = [entries EXCEPT ![k] = filled]
  BY DEF GetQuota, QuotaTyped
<1>5. filled \in [value : Nat, promise : Nat, version : Nat, fresh : BOOLEAN]
      /\ filled.promise = Len(loads) + 1 /\ filled.version = entries[k].version + 1
      /\ filled.value = entries[k].value
  <2>1. entries[k] \in [value : Nat, promise : Nat, version : Nat, fresh : BOOLEAN]
    BY DEF QuotaTyped
  <2>2. Len(loads) + 1 \in Nat /\ entries[k].version + 1 \in Nat
    BY <1>1, <1>2
  <2> QED BY <2>1, <2>2
<1> HIDE DEF new, filled
<1>6. loads' \in Seq(Load) /\ Len(loads') = Len(loads) + 1
      /\ loads'[Len(loads) + 1] = new /\ \A i \in 1..Len(loads) : loads'[i] = loads[i]
  BY <1>1, <1>3, <1>4, AppendProperties
<1>7. entries' \in [QuotaKey -> [value : Nat, promise : Nat, version : Nat, fresh : BOOLEAN]]
      /\ entries'[k] = filled /\ \A q \in QuotaKey \ {k} : entries'[q] = entries[q]
  BY <1>4, <1>5 DEF QuotaTyped
<1>8. QuotaTyped'
  BY <1>4, <1>6, <1>7 DEF QuotaTyped
<1> QED BY <1>1, <1>4, <1>5, <1>6, <1>7, <1>8 DEF new

LEMMA GetKeepsQuota ==
  ASSUME QuotaInv, NEW k \in QuotaKey, NEW force \in BOOLEAN, GetQuota(k, force)
  PROVE  QuotaInv' /\ \A q \in QuotaKey : entries'[q].value = entries[q].value
<1> USE DEF QuotaInv
<1> DEFINE id == Len(loads')
<1>1. /\ id = Len(loads) + 1 /\ Len(loads) \in Nat
      /\ \A i \in 1..Len(loads) : loads'[i] = loads[i] /\ i \in 1..id
      /\ loads'[id].key = k /\ loads'[id].force = force
      /\ loads'[id].version = entries[k].version + 1
      /\ loads'[id].epoch = epoch[k] /\ loads'[id].status = "running"
      /\ entries'[k].promise = id /\ entries'[k].version = entries[k].version + 1
      /\ entries'[k].value = entries[k].value
      /\ \A q \in QuotaKey \ {k} : entries'[q] = entries[q]
      /\ epoch' = epoch
      /\ QuotaTyped'
  BY LoadBegins
<1>2. entries[k].promise # 0 => force
  BY DEF GetQuota, Answered
<1> HIDE DEF id
<1>3. \A i \in 1..id : i = id \/ i \in 1..Len(loads)
  BY <1>1
<1>4. /\ \A q \in QuotaKey : entries[q].version \in Nat /\ epoch[q] \in Nat
      /\ \A i \in 1..Len(loads) : loads[i].version \in Nat /\ loads[i].key \in QuotaKey /\ i < id
  BY <1>1, LoadIsTyped DEF QuotaTyped
<1>5. LoadsAreOrdered'
  <2>1. ASSUME NEW i \in 1..id PROVE loads'[i].epoch <= epoch'[loads'[i].key]
    BY <1>1, <1>3, <1>4 DEF LoadsAreOrdered
  <2>2. ASSUME NEW i \in 1..id, loads'[i].epoch = epoch'[loads'[i].key]
        PROVE  loads'[i].version <= entries'[loads'[i].key].version
    <3>1. CASE i = id
      BY <3>1, <1>1, <1>4
    <3>2. CASE i \in 1..Len(loads)
      <4>1. loads[i].version <= entries[loads[i].key].version
        BY <3>2, <2>2, <1>1 DEF LoadsAreOrdered
      <4>2. /\ loads'[i].version = loads[i].version /\ loads'[i].key = loads[i].key
            /\ loads[i].version \in Nat /\ loads[i].key \in QuotaKey
        BY <3>2, <1>1, <1>4
      <4>3. entries[loads[i].key].version <= entries'[loads[i].key].version
        BY <4>2, <1>1, <1>4
      <4>4. entries[loads[i].key].version \in Nat /\ entries'[loads[i].key].version \in Nat
        BY <4>2, <1>1, <1>4
      <4> QED BY <4>1, <4>2, <4>3, <4>4
    <3> QED BY <3>1, <3>2, <1>3
  <2>3. ASSUME NEW i \in 1..id, NEW j \in 1..id, i < j, loads'[i].key = loads'[j].key
        PROVE  /\ loads'[i].epoch <= loads'[j].epoch
               /\ loads'[i].epoch = loads'[j].epoch => loads'[i].version < loads'[j].version
    <3>0. i \in 1..Len(loads)
      BY <2>3, <1>1
    <3>1. CASE j = id
      <4>1. loads[i].key = k /\ loads[i].epoch <= epoch[k]
            /\ (loads[i].epoch = epoch[k] => loads[i].version <= entries[k].version)
        BY <2>3, <3>0, <3>1, <1>1 DEF LoadsAreOrdered
      <4> QED BY <4>1, <3>0, <3>1, <1>1, <1>4
    <3>2. CASE j \in 1..Len(loads)
      BY <2>3, <3>0, <3>2, <1>1 DEF LoadsAreOrdered
    <3> QED BY <3>1, <3>2, <1>3
  <2> QED BY <2>1, <2>2, <2>3 DEF LoadsAreOrdered, id
<1>6. PromisesAreLoads'
  <2>1. id \in 1..id
    BY <1>1
  <2>2. ASSUME NEW q \in QuotaKey
        PROVE  /\ entries'[q].promise # 0 =>
                    /\ entries'[q].promise \in 1..id
                    /\ loads'[entries'[q].promise].key = q
                    /\ loads'[entries'[q].promise].epoch = epoch'[q]
                    /\ loads'[entries'[q].promise].version = entries'[q].version
               /\ entries'[q].value # 0 =>
                    entries'[q].value \in 1..id /\ loads'[entries'[q].value].key = q
    BY <1>1, <2>1 DEF PromisesAreLoads
  <2> QED BY <2>2 DEF PromisesAreLoads, id
<1>7. ASSUME NEW i \in 1..Len(loads), Mixed(i)
      PROVE  \E f \in 1..Len(loads) : /\ loads'[f].key = loads'[i].key
                                      /\ (i < f /\ loads'[f].force) \/ loads'[f].epoch < loads'[i].epoch
  BY <1>1, <1>7 DEF Mixed
<1>8. ASSUME NEW i \in 1..Len(loads), loads[i].key = k, loads[i].status = "running",
             loads[i].epoch = epoch[k]
      PROVE  \E f \in 1..id : /\ loads'[f].key = loads'[i].key
                              /\ (i < f /\ loads'[f].force) \/ loads'[f].epoch < loads'[i].epoch
  <2>1. entries[k].promise = i \/ Mixed(i)
    BY <1>8 DEF RunningIsPromised
  <2>2. CASE Mixed(i)
    BY <2>2, <1>1, <1>7
  <2>3. CASE entries[k].promise = i
    <3>1. force /\ i < id /\ id \in 1..id /\ loads'[i] = loads[i]
      BY <2>3, <1>1, <1>2
    <3> QED BY <3>1, <1>1, <1>8
  <2> QED BY <2>1, <2>2, <2>3
<1>9. RunningIsPromised'
  <2> SUFFICES ASSUME NEW i \in 1..id, loads'[i].status = "running",
                      loads'[i].epoch = epoch'[loads'[i].key]
               PROVE  entries'[loads'[i].key].promise = i \/ Mixed(i)'
    BY DEF RunningIsPromised, id
  <2>1. CASE i = id
    BY <2>1, <1>1
  <2>2. CASE i \in 1..Len(loads) /\ loads[i].key = k
    <3>1. \E f \in 1..id : /\ loads'[f].key = loads'[i].key
                           /\ (i < f /\ loads'[f].force) \/ loads'[f].epoch < loads'[i].epoch
      BY <2>2, <1>1, <1>8
    <3> QED BY <3>1 DEF Mixed, id
  <2>3. CASE i \in 1..Len(loads) /\ loads[i].key # k
    <3>1. entries[loads[i].key].promise = i \/ Mixed(i)
      BY <2>3, <1>1 DEF RunningIsPromised
    <3>2. CASE Mixed(i)
      <4>1. \E f \in 1..id : /\ loads'[f].key = loads'[i].key
                             /\ (i < f /\ loads'[f].force) \/ loads'[f].epoch < loads'[i].epoch
        BY <3>2, <2>3, <1>1, <1>7
      <4> QED BY <4>1 DEF Mixed, id
    <3>3. CASE entries[loads[i].key].promise = i
      BY <3>3, <2>3, <1>1, <1>4
    <3> QED BY <3>1, <3>2, <3>3
  <2> QED BY <2>1, <2>2, <2>3, <1>3
<1>10. LoadsAreShared'
  <2> SUFFICES ASSUME NEW q \in QuotaKey, NEW i \in Running(q)', NEW j \in Running(q)',
                      i < j, loads'[i].epoch = loads'[j].epoch
               PROVE  \E f \in 1..j : /\ loads'[f].key = q
                                      /\ (i < f /\ loads'[f].force) \/ loads'[f].epoch < loads'[i].epoch
    BY DEF LoadsAreShared
  <2>1. DOMAIN loads' = 1..id
    BY <1>1 DEF QuotaTyped, id
  <2>2. /\ i \in 1..id /\ loads'[i].key = q /\ loads'[i].status = "running"
        /\ j \in 1..id /\ loads'[j].key = q /\ loads'[j].status = "running"
    BY <2>1 DEF Running
  <2>3. i \in 1..Len(loads) /\ loads'[i] = loads[i]
    BY <2>2, <1>1
  <2>4. CASE j = id
    BY <2>2, <2>3, <2>4, <1>1, <1>8
  <2>5. CASE j \in 1..Len(loads)
    <3>1. PICK f \in 1..j : /\ loads[f].key = loads[i].key
                            /\ (i < f /\ loads[f].force) \/ loads[f].epoch < loads[i].epoch
      BY <2>2, <2>3, <2>5, <1>1, RunningBeside
    <3>2. f \in 1..Len(loads) /\ loads'[f] = loads[f]
      BY <2>5, <1>1
    <3> QED BY <2>2, <2>3, <3>1, <3>2
  <2> QED BY <2>2, <2>4, <2>5, <1>3
<1>11. FailureIsNotCached'
  BY <1>1 DEF FailureIsNotCached, PromisesAreLoads
<1>12. \A q \in QuotaKey : entries'[q].value = entries[q].value
  BY <1>1
<1> QED BY <1>1, <1>5, <1>6, <1>9, <1>10, <1>11, <1>12

LEMMA LoadedKeepsQuota ==
  ASSUME QuotaInv, NEW id \in DOMAIN loads, QuotaLoaded(id)
  PROVE  /\ QuotaInv'
         /\ \A k \in QuotaKey :
              entries'[k].value # 0 /\ entries'[k].value < entries[k].value
                => loads[entries'[k].value].epoch < epoch[k]
<1> USE DEF QuotaInv
<1> DEFINE key == loads[id].key
           old == {order[i] : i \in 1..(Len(order) - MaxQuotaEntries)}
           filled == [value |-> id, promise |-> 0, version |-> loads[id].version, fresh |-> TRUE]
           keys == IF IsCurrent(id) THEN old ELSE {}
<1>1. /\ loads' \in Seq(Load) /\ Len(loads') = Len(loads) /\ id \in 1..Len(loads)
      /\ loads'[id].status = "loaded"
      /\ \A i \in 1..Len(loads) :
           /\ loads'[i].key = loads[i].key /\ loads'[i].version = loads[i].version
           /\ loads'[i].epoch = loads[i].epoch /\ loads'[i].force = loads[i].force
           /\ i # id => loads'[i].status = loads[i].status
  <2>1. loads' = [loads EXCEPT ![id].status = "loaded"]
    BY DEF QuotaLoaded
  <2> QED BY <2>1, LoadSettles
<1>2. /\ loads[id].key \in QuotaKey /\ loads[id].version \in Nat /\ loads[id].epoch \in Nat
      /\ id \in Nat /\ id # 0 /\ loads[id].status = "running"
  BY <1>1, LoadIsTyped DEF QuotaLoaded
<1>3. \A i \in 1..Len(loads) :
        loads'[i].status = "running" => loads[i].status = "running" /\ i # id
  BY <1>1
<1>4. CASE ~IsCurrent(id)
  <2>1. entries' = entries /\ epoch' = epoch
    BY <1>4 DEF QuotaLoaded
  <2>2. QuotaTyped'
    BY <1>1, <2>1 DEF QuotaTyped
  <2>3. \A k \in QuotaKey : k \notin keys =>
          /\ epoch'[k] = epoch[k] /\ entries'[k].version = entries[k].version
          /\ entries'[k].promise = entries[k].promise
          /\ entries'[k].value # 0 =>
               entries'[k].value \in 1..Len(loads) /\ loads[entries'[k].value].key = k
          /\ entries'[k].promise # 0 /\ loads'[entries'[k].promise].status = "failed"
               => entries'[k].value # 0
    BY <1>1, <2>1 DEF PromisesAreLoads, FailureIsNotCached
  <2>4. \A k \in QuotaKey : k \in keys => entries'[k] = NoEntry /\ epoch'[k] = epoch[k] + 1
    BY <1>4
  <2>5. QuotaInv'
    <3> HIDE DEF keys
    <3>1. Settles(keys)
      BY <1>1, <1>3, <2>3, <2>4 DEF Settles
    <3> QED BY <2>2, <3>1, SettlingKeepsQuota
  <2>6. \A k \in QuotaKey : ~(entries'[k].value < entries[k].value)
    BY <2>1 DEF QuotaTyped
  <2> QED BY <2>5, <2>6
<1>5. CASE IsCurrent(id)
  <2> DEFINE map == [entries EXCEPT ![key] = filled]
  <2>1. entries' = Delete(map, old) /\ Deleted(old)
    BY <1>5 DEF QuotaLoaded
  <2>2. entries[key].version = loads[id].version
    BY <1>5 DEF IsCurrent
  <2>3. filled \in [value : Nat, promise : Nat, version : Nat, fresh : BOOLEAN]
    BY <1>2
  <2>4. /\ map \in [QuotaKey -> [value : Nat, promise : Nat, version : Nat, fresh : BOOLEAN]]
        /\ map[key] = filled /\ \A k \in QuotaKey \ {key} : map[k] = entries[k]
    <3> HIDE DEF filled
    <3> QED BY <1>2, <2>3 DEF QuotaTyped
  <2>5. filled.value = id /\ filled.promise = 0 /\ filled.version = loads[id].version
    OBVIOUS
  <2>6. keys = old
    BY <1>5
  <2> HIDE DEF map, filled, old, keys
  <2>7. QuotaTyped'
    BY <1>1, <2>1, <2>4, DeletionIsTyped DEF QuotaTyped
  <2>8. \A k \in QuotaKey :
          /\ k \in keys => entries'[k] = NoEntry /\ epoch'[k] = epoch[k] + 1
          /\ k \notin keys => entries'[k] = map[k] /\ epoch'[k] = epoch[k]
    BY <2>1, <2>6, DeletedEntries DEF QuotaTyped
  <2>9. ASSUME NEW i \in 1..Len(loads), loads'[i].status = "running", entries[key].promise = i
        PROVE  Mixed(i)
    <3>1. /\ loads[i].key = key /\ loads[i].epoch = epoch[key]
          /\ loads[i].version = loads[id].version /\ i # id /\ i \in Nat
      BY <2>9, <1>2, <1>3, <2>2 DEF PromisesAreLoads
    <3>2. loads[id].epoch <= epoch[key]
      BY <1>1 DEF LoadsAreOrdered
    <3>3. loads[id].epoch # epoch[key]
      <4>1. i < id => ~(loads[i].epoch = loads[id].epoch)
        BY <1>1, <1>2, <3>1 DEF LoadsAreOrdered
      <4>2. id < i => ~(loads[i].epoch = loads[id].epoch)
        BY <1>1, <1>2, <3>1 DEF LoadsAreOrdered
      <4> QED BY <4>1, <4>2, <3>1, <1>2
    <3>4. epoch[key] \in Nat
      BY <1>2 DEF QuotaTyped
    <3> QED BY <1>1, <1>2, <3>1, <3>2, <3>3, <3>4 DEF Mixed
  <2>10. \A k \in QuotaKey : k \notin keys =>
          /\ epoch'[k] = epoch[k] /\ entries'[k].version = entries[k].version
          /\ \/ entries'[k].promise = entries[k].promise
             \/ /\ entries'[k].promise = 0
                /\ \A i \in 1..Len(loads) :
                     loads'[i].status = "running" /\ entries[k].promise = i => Mixed(i)
          /\ entries'[k].value # 0 =>
               entries'[k].value \in 1..Len(loads) /\ loads[entries'[k].value].key = k
          /\ entries'[k].promise # 0 /\ loads'[entries'[k].promise].status = "failed"
               => entries'[k].value # 0
    <3> SUFFICES ASSUME NEW k \in QuotaKey, k \notin keys
                 PROVE  /\ epoch'[k] = epoch[k] /\ entries'[k].version = entries[k].version
                        /\ \/ entries'[k].promise = entries[k].promise
                           \/ /\ entries'[k].promise = 0
                              /\ \A i \in 1..Len(loads) :
                                   loads'[i].status = "running" /\ entries[k].promise = i => Mixed(i)
                        /\ entries'[k].value # 0 =>
                             entries'[k].value \in 1..Len(loads) /\ loads[entries'[k].value].key = k
                        /\ entries'[k].promise # 0 /\ loads'[entries'[k].promise].status = "failed"
                             => entries'[k].value # 0
      OBVIOUS
    <3>1. CASE k = key
      BY <3>1, <2>2, <2>4, <2>5, <2>8, <2>9, <1>1
    <3>2. CASE k # key
      BY <3>2, <2>4, <2>8, <1>1 DEF PromisesAreLoads, FailureIsNotCached
    <3> QED BY <3>1, <3>2
  <2>11. QuotaInv'
    <3>1. Settles(keys)
      BY <1>1, <1>3, <2>8, <2>10 DEF Settles
    <3> QED BY <2>7, <3>1, SettlingKeepsQuota
  <2>12. ASSUME NEW k \in QuotaKey, entries'[k].value # 0, entries'[k].value < entries[k].value
         PROVE  loads[entries'[k].value].epoch < epoch[k]
    <3>1. k = key /\ entries'[k].value = id
      <4>1. k \notin keys
        BY <2>12, <2>8 DEF NoEntry
      <4>2. entries[k].value \in Nat
        BY DEF QuotaTyped
      <4> QED BY <4>1, <4>2, <2>12, <2>4, <2>5, <2>8
    <3>2. PICK v : v = entries[k].value
      OBVIOUS
    <3>3. v \in 1..Len(loads) /\ loads[v].key = key /\ id < v
      BY <3>1, <3>2, <2>12, <1>2 DEF PromisesAreLoads, QuotaTyped
    <3>4. /\ loads[id].epoch <= loads[v].epoch
          /\ loads[id].epoch = loads[v].epoch => loads[id].version < loads[v].version
          /\ loads[v].epoch <= epoch[key]
          /\ loads[v].epoch = epoch[key] => loads[v].version <= entries[key].version
      BY <3>3, <1>1 DEF LoadsAreOrdered
    <3>5. epoch[key] \in Nat /\ loads[v].epoch \in Nat /\ loads[v].version \in Nat
      BY <3>3, <1>2, LoadIsTyped DEF QuotaTyped
    <3> QED BY <3>1, <3>4, <3>5, <2>2, <1>2
  <2> QED BY <2>11, <2>12
<1> QED BY <1>4, <1>5

\* Some entries are deleted while loads settle; the others stay as they are.
LEMMA DeletionKeepsQuota ==
  ASSUME QuotaInv, NEW keys, entries' = Delete(entries, keys), Deleted(keys),
         loads' \in Seq(Load), Len(loads') = Len(loads),
         \A i \in 1..Len(loads) :
           /\ loads'[i].key = loads[i].key /\ loads'[i].version = loads[i].version
           /\ loads'[i].epoch = loads[i].epoch /\ loads'[i].force = loads[i].force
           /\ loads'[i].status = "running" => loads[i].status = "running",
         \A k \in QuotaKey :
           k \notin keys /\ entries[k].promise # 0 /\ loads'[entries[k].promise].status = "failed"
             => entries[k].value # 0
  PROVE  /\ QuotaInv'
         /\ \A k \in QuotaKey : entries'[k].value \in {0, entries[k].value}
<1> USE DEF QuotaInv
<1>1. QuotaTyped'
  BY DeletionIsTyped DEF QuotaTyped
<1>2. \A k \in QuotaKey :
        /\ k \in keys => entries'[k] = NoEntry /\ epoch'[k] = epoch[k] + 1
        /\ k \notin keys => entries'[k] = entries[k] /\ epoch'[k] = epoch[k]
  BY DeletedEntries DEF QuotaTyped
<1>3. Settles(keys)
  BY <1>2 DEF Settles, PromisesAreLoads
<1>4. \A k \in QuotaKey : entries'[k].value \in {0, entries[k].value}
  BY <1>2 DEF NoEntry
<1> QED BY <1>1, <1>3, <1>4, SettlingKeepsQuota

LEMMA FailureKeepsQuota ==
  ASSUME QuotaInv, NEW id \in DOMAIN loads, QuotaFails(id)
  PROVE  QuotaInv' /\ \A k \in QuotaKey : entries'[k].value \in {0, entries[k].value}
<1> DEFINE key == loads[id].key
           mine == IF entries[key].promise = id /\ entries[key].value = 0 THEN {key} ELSE {}
<1>1. loads' = [loads EXCEPT ![id].status = "failed"] /\ loads[id].status = "running"
      /\ entries' = Delete(entries, mine) /\ Deleted(mine)
  BY DEF QuotaFails
<1>2. /\ loads' \in Seq(Load) /\ Len(loads') = Len(loads) /\ id \in 1..Len(loads)
      /\ loads'[id].status = "failed"
      /\ \A i \in 1..Len(loads) :
           /\ loads'[i].key = loads[i].key /\ loads'[i].version = loads[i].version
           /\ loads'[i].epoch = loads[i].epoch /\ loads'[i].force = loads[i].force
           /\ i # id => loads'[i].status = loads[i].status
  BY <1>1, LoadSettles DEF QuotaInv
<1>3. \A i \in 1..Len(loads) : loads'[i].status = "running" => loads[i].status = "running"
  BY <1>1, <1>2
<1>4. ASSUME NEW k \in QuotaKey, k \notin mine, entries[k].promise # 0,
             loads'[entries[k].promise].status = "failed"
      PROVE  entries[k].value # 0
  <2>1. entries[k].promise \in 1..Len(loads) /\ loads[entries[k].promise].key = k
    BY <1>4 DEF QuotaInv, PromisesAreLoads
  <2>2. CASE entries[k].promise = id
    BY <2>1, <2>2, <1>4
  <2>3. CASE entries[k].promise # id
    BY <2>1, <2>3, <1>2, <1>4 DEF QuotaInv, FailureIsNotCached
  <2> QED BY <2>2, <2>3
<1> HIDE DEF mine
<1> QED BY <1>1, <1>2, <1>3, <1>4, DeletionKeepsQuota

LEMMA InvalidationKeepsQuota ==
  ASSUME QuotaInv, NEW keys, InvalidateQuota(keys)
  PROVE  QuotaInv' /\ \A k \in QuotaKey : entries'[k].value \in {0, entries[k].value}
<1> DEFINE there == {k \in keys : entries[k].version > 0}
<1>1. entries' = Delete(entries, there) /\ Deleted(there) /\ loads' = loads
  BY DEF InvalidateQuota
<1> HIDE DEF there
<1>2. loads' \in Seq(Load) /\ Len(loads') = Len(loads)
  BY <1>1 DEF QuotaInv, QuotaTyped
<1>3. \A k \in QuotaKey :
        entries[k].promise # 0 /\ loads'[entries[k].promise].status = "failed" => entries[k].value # 0
  BY <1>1 DEF QuotaInv, FailureIsNotCached
<1> QED BY <1>1, <1>2, <1>3, DeletionKeepsQuota

LEMMA LossKeepsQuota ==
  ASSUME QuotaInv, QuotaLost
  PROVE  QuotaInv' /\ \A k \in QuotaKey : entries'[k].value \in {0, entries[k].value}
<1>1. entries' = Delete(entries, QuotaKey) /\ Deleted(QuotaKey)
  BY DEF QuotaLost
<1>2. loads \in Seq(Load) /\ DOMAIN loads = 1..Len(loads) /\ Len(loads) \in Nat
  BY DEF QuotaInv, QuotaTyped
<1>3. \A i \in 1..Len(loads) : loads[i] \in Load
  BY <1>2
<1>4. \A i \in 1..Len(loads) :
        [loads[i] EXCEPT !.status = "failed"] \in Load
        /\ [loads[i] EXCEPT !.status = "failed"].status = "failed"
        /\ [loads[i] EXCEPT !.status = "failed"].key = loads[i].key
        /\ [loads[i] EXCEPT !.status = "failed"].version = loads[i].version
        /\ [loads[i] EXCEPT !.status = "failed"].epoch = loads[i].epoch
        /\ [loads[i] EXCEPT !.status = "failed"].force = loads[i].force
  BY <1>3 DEF Load
<1>5. loads' = [i \in 1..Len(loads) |->
                  IF loads[i].status = "running" THEN [loads[i] EXCEPT !.status = "failed"]
                                                 ELSE loads[i]]
  BY <1>2 DEF QuotaLost
<1>6. loads' \in [1..Len(loads) -> Load]
  BY <1>3, <1>4, <1>5
<1>7. loads' \in Seq(Load) /\ Len(loads') = Len(loads)
  BY <1>2, <1>5, <1>6
<1>8. \A i \in 1..Len(loads) :
        /\ loads'[i].key = loads[i].key /\ loads'[i].version = loads[i].version
        /\ loads'[i].epoch = loads[i].epoch /\ loads'[i].force = loads[i].force
        /\ loads'[i].status = "running" => loads[i].status = "running"
  BY <1>4, <1>5
<1> QED BY <1>1, <1>7, <1>8, DeletionKeepsQuota

LEMMA StepsOfQuota ==
  ASSUME [Next]_vars
  PROVE  QuotaNext \/ QuotaLost \/ UNCHANGED quotaVars
<1>1. CASE DetailStep \/ UsageStep \/ LatencyStep \/ SaveStep
  BY <1>1 DEF DetailStep, UsageStep, LatencyStep, SaveStep, cacheVars
<1>2. CASE QuotaStep \/ ProjectStep \/ McpStep \/ PingStep \/ CheckinStep
  BY <1>2 DEF QuotaStep, ProjectStep, McpStep, PingStep, CheckinStep
<1>3. CASE Shutdown \/ Drained \/ ProcessEnds
  BY <1>3 DEF Shutdown, Drained, ProcessEnds, cacheVars
<1>4. CASE UNCHANGED vars
  BY <1>4 DEF vars, cacheVars
<1> QED BY <1>1, <1>2, <1>3, <1>4 DEF Next

LEMMA QuotaInvKept ==
  ASSUME QuotaInv, [Next]_vars
  PROVE  /\ QuotaInv'
         /\ \A k \in QuotaKey :
              entries'[k].value # 0 /\ entries'[k].value < entries[k].value
                => loads[entries'[k].value].epoch < epoch[k]
<1>1. CASE QuotaInv' /\ \A k \in QuotaKey : entries'[k].value \in {0, entries[k].value}
  <2>1. \A k \in QuotaKey : entries[k].value \in Nat
    BY DEF QuotaInv, QuotaTyped
  <2> QED BY <1>1, <2>1
<1>2. CASE \E id \in DOMAIN loads : QuotaLoaded(id)
  BY <1>2, LoadedKeepsQuota
<1>3. CASE UNCHANGED quotaVars
  <2>1. QuotaInv'
    BY <1>3 DEF quotaVars, QuotaInv, QuotaTyped, LoadsAreOrdered, PromisesAreLoads, RunningIsPromised,
                Mixed, LoadsAreShared, Running, FailureIsNotCached
  <2>2. entries' = entries
    BY <1>3 DEF quotaVars
  <2> QED BY <2>1, <2>2, <1>1
<1>4. ASSUME NEW k \in QuotaKey, QuotaAges(k) \/ \E force \in BOOLEAN : GetQuota(k, force)
      PROVE  QuotaInv' /\ \A q \in QuotaKey : entries'[q].value \in {0, entries[q].value}
  BY <1>4, AgingKeepsQuota, GetKeepsQuota
<1> QED BY <1>1, <1>2, <1>3, <1>4, StepsOfQuota, FailureKeepsQuota, InvalidationKeepsQuota, LossKeepsQuota
       DEF QuotaNext

LEMMA QuotaStays == Spec => []QuotaInv
<1>1. Init => QuotaInv
  <2> SUFFICES ASSUME Init PROVE QuotaInv
    OBVIOUS
  <2>1. /\ loads = <<>> /\ entries = [k \in QuotaKey |-> NoEntry] /\ epoch = [k \in QuotaKey |-> 0]
    BY DEF Init, QuotaInit
  <2>2. loads \in Seq(Load) /\ Len(loads) = 0 /\ DOMAIN loads = {}
    BY <2>1, EmptySeq
  <2>3. QuotaTyped
    BY <2>1, <2>2 DEF QuotaTyped, NoEntry
  <2>4. LoadsAreOrdered /\ RunningIsPromised /\ LoadsAreShared
    BY <2>2 DEF LoadsAreOrdered, RunningIsPromised, LoadsAreShared, Running
  <2>5. PromisesAreLoads /\ FailureIsNotCached
    BY <2>1 DEF PromisesAreLoads, FailureIsNotCached, NoEntry
  <2> QED BY <2>3, <2>4, <2>5 DEF QuotaInv
<1> QED BY <1>1, QuotaInvKept, PTL DEF Spec

-----------------------------------------------------------------------------
(* The project ids.  A fetch that has not settled is the pending one of its   *)
(* account, as long as none of the account's fetches was aborted.             *)

Fetch == [account : Account, attempt : Nat, aborted : BOOLEAN,
          stage : {"asking", "onboarding", "found", "none", "done"}]

LiveIsPending ==
  \A f \in 1..Len(fetches) :
    fetches[f].stage # "done" /\ fetches[f].account \notin cut => pending[fetches[f].account] = f

ProjectInv ==
  /\ fetches \in Seq(Fetch) /\ pending \in [Account -> Nat]
  /\ LiveIsPending

LEMMA StepsOfProjects ==
  ASSUME [Next]_vars
  PROVE  ProjectNext \/ ProjectsLost \/ UNCHANGED projectVars
<1>1. CASE DetailStep \/ UsageStep \/ LatencyStep \/ SaveStep
  BY <1>1 DEF DetailStep, UsageStep, LatencyStep, SaveStep, cacheVars
<1>2. CASE QuotaStep \/ ProjectStep \/ McpStep \/ PingStep \/ CheckinStep
  BY <1>2 DEF QuotaStep, ProjectStep, McpStep, PingStep, CheckinStep
<1>3. CASE Shutdown \/ Drained \/ ProcessEnds
  BY <1>3 DEF Shutdown, Drained, ProcessEnds, cacheVars
<1>4. CASE UNCHANGED vars
  BY <1>4 DEF vars, cacheVars
<1> QED BY <1>1, <1>2, <1>3, <1>4 DEF Next

LEMMA FetchIsTyped ==
  ASSUME ProjectInv, NEW f \in 1..Len(fetches)
  PROVE  fetches[f] \in Fetch /\ fetches[f].account \in Account
<1>1. fetches[f] \in Fetch
  BY DEF ProjectInv
<1> QED BY <1>1 DEF Fetch

LEMMA FetchEnds ==
  ASSUME NEW r \in Fetch
  PROVE  /\ [r EXCEPT !.aborted = TRUE] \in Fetch /\ [r EXCEPT !.stage = "done"] \in Fetch
         /\ [r EXCEPT !.aborted = TRUE].account = r.account
         /\ [r EXCEPT !.aborted = TRUE].stage = r.stage
         /\ [r EXCEPT !.stage = "done"].stage = "done"
BY DEF Fetch

\* One fetch goes on, or ends.
LEMMA FetchMoves ==
  ASSUME ProjectInv, NEW f \in DOMAIN fetches, NEW r \in Fetch,
         r.account = fetches[f].account, fetches' = [fetches EXCEPT ![f] = r]
  PROVE  /\ fetches' \in Seq(Fetch) /\ Len(fetches') = Len(fetches) /\ f \in 1..Len(fetches)
         /\ fetches'[f] = r
         /\ \A g \in 1..Len(fetches) : /\ fetches'[g].account = fetches[g].account
                                       /\ g # f => fetches'[g] = fetches[g]
<1>1. fetches \in Seq(Fetch) /\ DOMAIN fetches = 1..Len(fetches)
  BY DEF ProjectInv
<1>2. fetches' \in Seq(Fetch) /\ Len(fetches') = Len(fetches)
  BY <1>1, ExceptSeq
<1>3. fetches'[f] = r /\ \A g \in 1..Len(fetches) : g # f => fetches'[g] = fetches[g]
  BY <1>1
<1> QED BY <1>1, <1>2, <1>3

LEMMA FetchGoes ==
  ASSUME ProjectInv, NEW f \in DOMAIN fetches,
         NEW stage2 \in {"onboarding", "found", "none", "done"},
         Goes(f, stage2)
  PROVE  \E r \in Fetch : /\ r.account = fetches[f].account /\ r.stage = stage2
                          /\ fetches' = [fetches EXCEPT ![f] = r]
<1>1. fetches[f] \in Fetch /\ fetches' = [fetches EXCEPT ![f] = [fetches[f] EXCEPT !.stage = stage2]]
  BY DEF ProjectInv, Goes
<1>2. /\ [fetches[f] EXCEPT !.stage = stage2] \in Fetch
      /\ [fetches[f] EXCEPT !.stage = stage2].account = fetches[f].account
      /\ [fetches[f] EXCEPT !.stage = stage2].stage = stage2
  BY <1>1 DEF Fetch
<1> QED BY <1>1, <1>2

\* A fetch that has not settled goes on.
LEMMA FetchGoesOn ==
  ASSUME ProjectInv, NEW f \in DOMAIN fetches, Asked(f) \/ Onboard(f)
  PROVE  \E r \in Fetch : /\ r.account = fetches[f].account /\ fetches[f].stage # "done"
                          /\ fetches' = [fetches EXCEPT ![f] = r]
<1>0. fetches[f] \in Fetch
  BY DEF ProjectInv
<1>1. fetches[f].stage # "done"
  BY DEF Asked, Onboard
<1>2. CASE Goes(f, "none") \/ Goes(f, "found")
  BY <1>1, <1>2, FetchGoes
<1>3. CASE fetches' = [fetches EXCEPT ![f].stage = "onboarding", ![f].attempt = 1]
  <2> DEFINE r1 == [fetches[f] EXCEPT !.stage = "onboarding"]
             r2 == [r1 EXCEPT !.attempt = 1]
  <2>1. r1 \in Fetch /\ r1.account = fetches[f].account
    BY <1>0 DEF Fetch
  <2> HIDE DEF r1
  <2>2. r2 \in Fetch /\ r2.account = fetches[f].account
    BY <2>1 DEF Fetch
  <2>3. fetches' = [fetches EXCEPT ![f] = r2]
    BY <1>3 DEF r1, ProjectInv
  <2> QED BY <1>1, <2>2, <2>3
<1>4. CASE fetches' = [fetches EXCEPT ![f].attempt = @ + 1]
  <2> DEFINE r3 == [fetches[f] EXCEPT !.attempt = @ + 1]
  <2>1. r3 \in Fetch /\ r3.account = fetches[f].account
    BY <1>0 DEF Fetch
  <2>2. fetches' = [fetches EXCEPT ![f] = r3]
    BY <1>4 DEF ProjectInv
  <2> QED BY <1>1, <2>1, <2>2
<1> QED BY <1>2, <1>3, <1>4 DEF Asked, Onboard

LEMMA FetchKeepsProjects ==
  ASSUME ProjectInv, NEW a \in Account, GetProjectId(a)
  PROVE  ProjectInv'
<1> DEFINE new == [account |-> a, attempt |-> 0, aborted |-> FALSE, stage |-> "asking"]
<1>1. fetches \in Seq(Fetch) /\ Len(fetches) \in Nat /\ new \in Fetch
  BY DEF ProjectInv, Fetch
<1>2. fetches' = Append(fetches, new) /\ pending' = [pending EXCEPT ![a] = Len(fetches')]
      /\ pending[a] = 0 /\ cut' = cut
  BY DEF GetProjectId
<1> HIDE DEF new
<1>3. fetches' \in Seq(Fetch) /\ Len(fetches') = Len(fetches) + 1
      /\ fetches'[Len(fetches) + 1] = new /\ \A f \in 1..Len(fetches) : fetches'[f] = fetches[f]
  BY <1>1, <1>2, AppendProperties
<1>4. pending' \in [Account -> Nat] /\ pending'[a] = Len(fetches) + 1
      /\ \A b \in Account \ {a} : pending'[b] = pending[b]
  BY <1>1, <1>2, <1>3 DEF ProjectInv
<1>5. LiveIsPending'
  <2> SUFFICES ASSUME NEW f \in 1..(Len(fetches) + 1), fetches'[f].stage # "done",
                      fetches'[f].account \notin cut
               PROVE  pending'[fetches'[f].account] = f
    BY <1>2, <1>3 DEF LiveIsPending
  <2>1. CASE f = Len(fetches) + 1
    BY <2>1, <1>3, <1>4 DEF new
  <2>2. CASE f # Len(fetches) + 1
    <3>1. f \in 1..Len(fetches) /\ fetches[f] \in Fetch /\ f # 0
      BY <2>2, <1>1
    <3>2. pending[fetches[f].account] = f
      BY <3>1, <1>3 DEF ProjectInv, LiveIsPending
    <3>3. fetches[f].account \in Account \ {a}
      BY <3>1, <3>2, <1>2 DEF Fetch
    <3> QED BY <3>1, <3>2, <3>3, <1>3, <1>4
  <2> QED BY <2>1, <2>2
<1> QED BY <1>3, <1>4, <1>5 DEF ProjectInv

LEMMA AbortKeepsProjects ==
  ASSUME ProjectInv, NEW long \in SUBSET Account, cut' = cut \cup long,
         fetches' \in Seq(Fetch), Len(fetches') = Len(fetches),
         \A f \in 1..Len(fetches) : fetches'[f].account = fetches[f].account
                                    /\ fetches'[f].stage = fetches[f].stage,
         pending' \in [Account -> Nat], \A a \in Account \ long : pending'[a] = pending[a]
  PROVE  ProjectInv'
<1>1. \A f \in 1..Len(fetches) : fetches[f].account \in Account
  BY FetchIsTyped
<1>2. ASSUME NEW f \in 1..Len(fetches), fetches'[f].stage # "done", fetches'[f].account \notin cut'
      PROVE  pending'[fetches'[f].account] = f
  <2>1. pending[fetches[f].account] = f
    BY <1>2 DEF ProjectInv, LiveIsPending
  <2> QED BY <2>1, <1>1, <1>2
<1> QED BY <1>2 DEF ProjectInv, LiveIsPending

LEMMA SweepKeepsProjects ==
  ASSUME ProjectInv, NEW long \in SUBSET Account, Sweep(long)
  PROVE  ProjectInv'
<1> DEFINE Next2(f) == IF \E a \in long : pending[a] = f
                         THEN [fetches[f] EXCEPT !.aborted = TRUE] ELSE fetches[f]
<1>1. fetches \in Seq(Fetch) /\ DOMAIN fetches = 1..Len(fetches) /\ Len(fetches) \in Nat
  BY DEF ProjectInv
<1>2. \A f \in 1..Len(fetches) :
        /\ [fetches[f] EXCEPT !.aborted = TRUE] \in Fetch
        /\ [fetches[f] EXCEPT !.aborted = TRUE].account = fetches[f].account
        /\ [fetches[f] EXCEPT !.aborted = TRUE].stage = fetches[f].stage
  BY FetchIsTyped, FetchEnds
<1>3. fetches' = [f \in 1..Len(fetches) |-> Next2(f)]
  BY <1>1 DEF Sweep
<1>4. \A f \in 1..Len(fetches) : Next2(f) \in Fetch /\ Next2(f).account = fetches[f].account
                                 /\ Next2(f).stage = fetches[f].stage
  BY <1>1, <1>2
<1> HIDE DEF Next2
<1>5. fetches' \in [1..Len(fetches) -> Fetch]
  BY <1>3, <1>4
<1>6. fetches' \in Seq(Fetch) /\ Len(fetches') = Len(fetches)
  BY <1>1, <1>3, <1>5
<1>7. pending' \in [Account -> Nat] /\ \A a \in Account \ long : pending'[a] = pending[a]
  BY DEF Sweep, ProjectInv
<1>8. cut' = cut \cup long
  BY DEF Sweep
<1> QED BY <1>3, <1>4, <1>6, <1>7, <1>8, AbortKeepsProjects

LEMMA RemovalKeepsProjects ==
  ASSUME ProjectInv, NEW a \in Account, RemoveConnection(a)
  PROVE  ProjectInv'
<1>1. CASE UNCHANGED <<pending, fetches, cut>>
  BY <1>1 DEF ProjectInv, LiveIsPending
<1>2. CASE /\ fetches' = [fetches EXCEPT ![pending[a]].aborted = TRUE]
           /\ pending' = [pending EXCEPT ![a] = 0]
           /\ cut' = cut \cup {a}
  <2> DEFINE Next2(f) == IF f = pending[a] THEN [fetches[f] EXCEPT !.aborted = TRUE] ELSE fetches[f]
  <2>1. fetches \in Seq(Fetch) /\ DOMAIN fetches = 1..Len(fetches) /\ Len(fetches) \in Nat
    BY DEF ProjectInv
  <2>2. \A f \in 1..Len(fetches) :
          /\ [fetches[f] EXCEPT !.aborted = TRUE] \in Fetch
          /\ [fetches[f] EXCEPT !.aborted = TRUE].account = fetches[f].account
          /\ [fetches[f] EXCEPT !.aborted = TRUE].stage = fetches[f].stage
    BY FetchIsTyped, FetchEnds
  <2>3. fetches' = [f \in 1..Len(fetches) |-> Next2(f)]
    BY <1>2, <2>1
  <2>4. \A f \in 1..Len(fetches) : Next2(f) \in Fetch /\ Next2(f).account = fetches[f].account
                                   /\ Next2(f).stage = fetches[f].stage
    BY <2>1, <2>2
  <2> HIDE DEF Next2
  <2>5. fetches' \in [1..Len(fetches) -> Fetch]
    BY <2>3, <2>4
  <2>6. fetches' \in Seq(Fetch) /\ Len(fetches') = Len(fetches)
    BY <2>1, <2>3, <2>5
  <2>7. pending' \in [Account -> Nat] /\ \A b \in Account \ {a} : pending'[b] = pending[b]
    BY <1>2 DEF ProjectInv
  <2> DEFINE gone2 == {a}
  <2>8. gone2 \in SUBSET Account /\ cut' = cut \cup gone2
        /\ \A b \in Account \ gone2 : pending'[b] = pending[b]
    BY <1>2, <2>7
  <2> HIDE DEF gone2
  <2> QED BY <2>3, <2>4, <2>6, <2>7, <2>8, AbortKeepsProjects
<1> QED BY <1>1, <1>2 DEF RemoveConnection, Cut

LEMMA LossKeepsProjects ==
  ASSUME ProjectInv, ProjectsLost
  PROVE  ProjectInv'
<1>1. fetches \in Seq(Fetch) /\ DOMAIN fetches = 1..Len(fetches) /\ Len(fetches) \in Nat
  BY DEF ProjectInv
<1>2. \A f \in 1..Len(fetches) :
        /\ [fetches[f] EXCEPT !.stage = "done"] \in Fetch
        /\ [fetches[f] EXCEPT !.stage = "done"].stage = "done"
  BY FetchIsTyped, FetchEnds
<1>3. fetches' = [f \in 1..Len(fetches) |-> [fetches[f] EXCEPT !.stage = "done"]]
  BY <1>1 DEF ProjectsLost
<1>4. fetches' \in [1..Len(fetches) -> Fetch]
  BY <1>2, <1>3
<1>5. fetches' \in Seq(Fetch) /\ Len(fetches') = Len(fetches)
  BY <1>1, <1>3, <1>4
<1>6. pending' \in [Account -> Nat]
  BY DEF ProjectsLost
<1>7. \A f \in 1..Len(fetches) : fetches'[f].stage = "done"
  BY <1>2, <1>3
<1> QED BY <1>5, <1>6, <1>7 DEF ProjectInv, LiveIsPending

LEMMA ProjectInvKept ==
  ASSUME ProjectInv, [Next]_vars
  PROVE  ProjectInv'
<1>1. CASE UNCHANGED <<pending, fetches, cut>>
  BY <1>1 DEF ProjectInv, LiveIsPending
<1>2. ASSUME NEW a \in Account,
             GetProjectId(a) \/ ProjectAges(a) \/ InvalidateProjectId(a) \/ RemoveConnection(a)
      PROVE  ProjectInv'
  BY <1>1, <1>2, FetchKeepsProjects, RemovalKeepsProjects DEF ProjectAges, InvalidateProjectId
<1>3. ASSUME NEW f \in DOMAIN fetches, Asked(f) \/ Onboard(f) PROVE ProjectInv'
  <2>1. PICK r \in Fetch : /\ r.account = fetches[f].account /\ fetches[f].stage # "done"
                           /\ fetches' = [fetches EXCEPT ![f] = r]
    BY <1>3, FetchGoesOn
  <2>2. /\ fetches' \in Seq(Fetch) /\ Len(fetches') = Len(fetches) /\ f \in 1..Len(fetches)
        /\ \A g \in 1..Len(fetches) : /\ fetches'[g].account = fetches[g].account
                                      /\ g # f => fetches'[g] = fetches[g]
    BY <2>1, FetchMoves
  <2>3. pending' = pending /\ cut' = cut
    BY <1>3 DEF Asked, Onboard
  <2> QED BY <2>1, <2>2, <2>3 DEF ProjectInv, LiveIsPending
<1>4. ASSUME NEW f \in DOMAIN fetches, FetchSettles(f) PROVE ProjectInv'
  <2>1. Goes(f, "done") /\ pending' = [pending EXCEPT ![fetches[f].account] = 0] /\ cut' = cut
        /\ fetches[f].stage # "done"
    BY <1>4 DEF FetchSettles
  <2>2. PICK r \in Fetch : /\ r.account = fetches[f].account /\ r.stage = "done"
                           /\ fetches' = [fetches EXCEPT ![f] = r]
    BY <2>1, FetchGoes
  <2>3. /\ fetches' \in Seq(Fetch) /\ Len(fetches') = Len(fetches) /\ f \in 1..Len(fetches)
        /\ fetches'[f] = r
        /\ \A g \in 1..Len(fetches) : /\ fetches'[g].account = fetches[g].account
                                      /\ g # f => fetches'[g] = fetches[g]
    BY <2>2, FetchMoves
  <2>4. pending' \in [Account -> Nat]
        /\ \A b \in Account : b # fetches[f].account => pending'[b] = pending[b]
    BY <2>1 DEF ProjectInv
  <2>5. \A g \in 1..Len(fetches) : fetches[g].account \in Account
    BY FetchIsTyped
  <2>6. ASSUME NEW g \in 1..Len(fetches), fetches'[g].stage # "done", fetches'[g].account \notin cut
        PROVE  pending'[fetches'[g].account] = g
    <3>1. g # f /\ fetches'[g] = fetches[g]
      BY <2>6, <2>2, <2>3
    <3>2. pending[fetches[g].account] = g
      BY <2>6, <3>1 DEF ProjectInv, LiveIsPending
    <3>3. fetches[g].account # fetches[f].account
      BY <2>1, <2>3, <2>6, <3>1, <3>2 DEF ProjectInv, LiveIsPending
    <3> QED BY <3>1, <3>2, <3>3, <2>4, <2>5
  <2> QED BY <2>1, <2>3, <2>4, <2>6 DEF ProjectInv, LiveIsPending
<1>5. CASE UNCHANGED projectVars
  BY <1>1, <1>5 DEF projectVars
<1> QED BY <1>2, <1>3, <1>4, <1>5, StepsOfProjects, SweepKeepsProjects, LossKeepsProjects DEF ProjectNext

LEMMA FetchesStayShared == Spec => []FetchesAreShared
<1>1. Init => ProjectInv
  <2> SUFFICES ASSUME Init PROVE ProjectInv
    OBVIOUS
  <2>1. fetches = <<>> /\ pending = [a \in Account |-> 0]
    BY DEF Init, ProjectInit
  <2>2. fetches \in Seq(Fetch) /\ Len(fetches) = 0
    BY <2>1, EmptySeq
  <2> QED BY <2>1, <2>2 DEF ProjectInv, LiveIsPending
<1>2. ProjectInv => FetchesAreShared
  <2> SUFFICES ASSUME ProjectInv, NEW a \in Account \ cut PROVE Cardinality(Live(a)) <= 1
    BY DEF FetchesAreShared
  <2>1. DOMAIN fetches = 1..Len(fetches)
    BY DEF ProjectInv
  <2>2. Live(a) \subseteq {pending[a]}
    BY <2>1 DEF Live, ProjectInv, LiveIsPending
  <2>3. IsFiniteSet({pending[a]}) /\ Cardinality({pending[a]}) = 1
    BY FS_Singleton
  <2> QED BY <2>2, <2>3, FS_Subset, FS_CardinalityType
<1> QED BY <1>1, <1>2, ProjectInvKept, PTL DEF Spec

-----------------------------------------------------------------------------
(* The MCP bridge.  A running child is the entry's, or it lost its entry to   *)
(* another's exit; the entry's sessions are the open ones of its child.       *)

ReadsFrom(s, c) == session[s].state = "open" /\ session[s].from = c

BridgeInv ==
  /\ entry \in [child : {0} \cup Child, sessions : SUBSET Session]
  /\ child \in [Child -> {"unborn", "running", "killed", "exited"}]
  /\ session \in [Session -> [state : {"new", "open", "closed"}, from : {0} \cup Child]]
  /\ entry.child # 0 =>
       /\ child[entry.child] = "running"
       /\ entry.sessions # {}
       /\ entry.sessions = {s \in Session : ReadsFrom(s, entry.child)}
  /\ entry.child = 0 => entry.sessions = {}
  /\ \A c \in Child : child[c] = "running" => c = entry.child \/ c \in displaced
  /\ \A s \in Session : session[s].state = "open" =>
       session[s].from \in Child /\ child[session[s].from] \in {"running", "exited"}

LEMMA StepsOfTheBridge ==
  ASSUME [Next]_vars
  PROVE  McpNext \/ BridgesKilled \/ UNCHANGED mcpVars
<1>1. CASE DetailStep \/ UsageStep \/ LatencyStep \/ SaveStep
  BY <1>1 DEF DetailStep, UsageStep, LatencyStep, SaveStep, cacheVars
<1>2. CASE QuotaStep \/ ProjectStep \/ McpStep \/ PingStep \/ CheckinStep
  BY <1>2 DEF QuotaStep, ProjectStep, McpStep, PingStep, CheckinStep
<1>3. CASE Shutdown \/ Drained \/ ProcessEnds
  BY <1>3 DEF Shutdown, Drained, ProcessEnds, cacheVars
<1>4. CASE UNCHANGED vars
  BY <1>4 DEF vars, cacheVars
<1> QED BY <1>1, <1>2, <1>3, <1>4 DEF Next

LEMMA NextIsUnborn ==
  ASSUME Unborn # {}
  PROVE  NextChild \in Child /\ child[NextChild] = "unborn" /\ NextChild # 0
<1>1. Unborn \in SUBSET Nat
  BY McpAssumption DEF Unborn, Child
<1>2. \E c \in Unborn : \A d \in Unborn : c <= d
  BY <1>1, LeastOf
<1>3. NextChild \in Unborn
  BY <1>2 DEF NextChild
<1> QED BY <1>3, McpAssumption DEF Unborn, Child

LEMMA ChildrenAreNumbers == \A c \in Child : c \in Nat /\ c # 0
BY McpAssumption DEF Child

LEMMA RegisterKeepsBridge ==
  ASSUME BridgeInv, NEW s \in Session, RegisterSession(s)
  PROVE  BridgeInv'
<1> USE DEF BridgeInv, ReadsFrom
<1> DEFINE c == entry'.child
           opened == [state |-> "open", from |-> c]
<1>1. /\ session[s].state = "new" /\ displaced' = displaced
      /\ session' = [session EXCEPT ![s] = opened]
  BY DEF RegisterSession
<1>2. /\ c \in Child /\ c # 0 /\ child'[c] = "running"
      /\ entry' \in [child : {0} \cup Child, sessions : SUBSET Session]
      /\ child' \in [Child -> {"unborn", "running", "killed", "exited"}]
      /\ \A d \in Child : d # c => child'[d] = child[d]
      /\ child[c] # "unborn" => child'[c] = child[c]
      /\ \/ /\ entry.child = c /\ entry'.sessions = entry.sessions \cup {s}
         \/ /\ ~IsRunning /\ child[c] = "unborn" /\ entry'.sessions = {s}
  <2>1. CASE IsRunning
    <3>1. /\ child' = child /\ entry' = [entry EXCEPT !.sessions = @ \cup {s}]
          /\ entry.child # 0 /\ child[entry.child] = "running"
      BY <2>1 DEF RegisterSession, IsRunning
    <3>2. entry'.child = entry.child /\ entry'.sessions = entry.sessions \cup {s}
          /\ entry' \in [child : {0} \cup Child, sessions : SUBSET Session]
      BY <3>1
    <3> QED BY <3>1, <3>2
  <2>2. CASE ~IsRunning
    <3>1. /\ Unborn # {} /\ child' = [child EXCEPT ![NextChild] = "running"]
          /\ entry' = [child |-> NextChild, sessions |-> {s}]
      BY <2>2 DEF RegisterSession
    <3>2. NextChild \in Child /\ child[NextChild] = "unborn" /\ NextChild # 0
      BY <3>1, NextIsUnborn
    <3> QED BY <2>2, <3>1, <3>2
  <2> QED BY <2>1, <2>2
<1>3. opened \in [state : {"new", "open", "closed"}, from : {0} \cup Child]
      /\ opened.state = "open" /\ opened.from = c
  BY <1>2
<1> HIDE DEF c, opened
<1>4. /\ session' \in [Session -> [state : {"new", "open", "closed"}, from : {0} \cup Child]]
      /\ session'[s].state = "open" /\ session'[s].from = c
      /\ \A t \in Session : t # s => session'[t] = session[t]
  BY <1>1, <1>3
<1>5. \A t \in Session : (session'[t].state = "open" /\ session'[t].from = c)
                           <=> (t = s \/ (session[t].state = "open" /\ session[t].from = c))
  BY <1>1, <1>4
<1>6. entry'.sessions = {t \in Session : session'[t].state = "open" /\ session'[t].from = c}
  <2>1. CASE entry.child = c /\ entry'.sessions = entry.sessions \cup {s}
    <3>1. entry.sessions = {t \in Session : session[t].state = "open" /\ session[t].from = c}
      BY <2>1, <1>2
    <3> QED BY <2>1, <3>1, <1>5
  <2>2. CASE child[c] = "unborn" /\ entry'.sessions = {s}
    <3>1. \A t \in Session : ~(session[t].state = "open" /\ session[t].from = c)
      BY <2>2
    <3> QED BY <2>2, <3>1, <1>5
  <2> QED BY <1>2, <2>1, <2>2
<1>7. \A d \in Child : child'[d] = "running" => d = c \/ d \in displaced
  <2> SUFFICES ASSUME NEW d \in Child, child'[d] = "running", d # c PROVE d \in displaced
    OBVIOUS
  <2>1. d = entry.child \/ d \in displaced
    BY <1>2
  <2>2. d = entry.child => IsRunning /\ entry.child # c
    BY <1>2, ChildrenAreNumbers DEF IsRunning
  <2> QED BY <2>1, <2>2, <1>2
<1>8. \A t \in Session : session'[t].state = "open" =>
        session'[t].from \in Child /\ child'[session'[t].from] \in {"running", "exited"}
  BY <1>2, <1>4
<1> QED BY <1>1, <1>2, <1>4, <1>6, <1>7, <1>8 DEF c

LEMMA UnregisterKeepsBridge ==
  ASSUME BridgeInv, NEW s \in Session, UnregisterSession(s)
  PROVE  BridgeInv'
<1> USE DEF BridgeInv, ReadsFrom
<1> DEFINE left == entry.sessions \ {s}
<1>1. /\ session[s].state = "open" /\ session' = [session EXCEPT ![s].state = "closed"]
      /\ displaced' = displaced
  BY DEF UnregisterSession
<1>2. /\ session' \in [Session -> [state : {"new", "open", "closed"}, from : {0} \cup Child]]
      /\ session'[s].state = "closed"
      /\ \A t \in Session : t # s => session'[t] = session[t]
  <2>1. [session[s] EXCEPT !.state = "closed"]
          \in [state : {"new", "open", "closed"}, from : {0} \cup Child]
        /\ [session[s] EXCEPT !.state = "closed"].state = "closed"
    OBVIOUS
  <2>2. session' = [session EXCEPT ![s] = [session[s] EXCEPT !.state = "closed"]]
    BY <1>1
  <2> QED BY <2>1, <2>2
<1>3. CASE entry.child # 0 /\ left = {}
  <2>1. /\ child' = [child EXCEPT ![entry.child] = "killed"] /\ entry' = NoBridge
        /\ entry.child \in Child
    BY <1>3 DEF UnregisterSession
  <2>2. /\ child' \in [Child -> {"unborn", "running", "killed", "exited"}]
        /\ \A d \in Child : d # entry.child => child'[d] = child[d]
        /\ child'[entry.child] = "killed"
    BY <2>1
  <2>3. entry'.child = 0 /\ entry'.sessions = {}
        /\ entry' \in [child : {0} \cup Child, sessions : SUBSET Session]
    BY <2>1 DEF NoBridge
  <2>4. \A d \in Child : child'[d] = "running" => d \in displaced
    BY <2>2
  <2>5. ASSUME NEW t \in Session, session'[t].state = "open"
        PROVE  session'[t].from \in Child /\ child'[session'[t].from] \in {"running", "exited"}
    <3>1. t # s /\ session'[t] = session[t]
      BY <2>5, <1>2
    <3>2. session[t].from # entry.child
      BY <2>5, <3>1, <1>3
    <3> QED BY <2>5, <3>1, <3>2, <2>2
  <2> QED BY <1>1, <1>2, <2>2, <2>3, <2>4, <2>5
<1>4. CASE ~(entry.child # 0 /\ left = {})
  <2>1. entry' = [entry EXCEPT !.sessions = left] /\ child' = child
    BY <1>4 DEF UnregisterSession
  <2>2. entry'.child = entry.child /\ entry'.sessions = left
        /\ entry' \in [child : {0} \cup Child, sessions : SUBSET Session]
    BY <2>1
  <2>3. entry.child # 0 =>
          left = {t \in Session : session'[t].state = "open" /\ session'[t].from = entry.child}
    BY <1>2
  <2>4. \A t \in Session : session'[t].state = "open" =>
          session'[t].from \in Child /\ child'[session'[t].from] \in {"running", "exited"}
    BY <1>2, <2>1
  <2> QED BY <1>1, <1>2, <1>4, <2>1, <2>2, <2>3, <2>4
<1> QED BY <1>3, <1>4

LEMMA ExitKeepsBridge ==
  ASSUME BridgeInv, NEW c \in Child, ChildExits(c)
  PROVE  BridgeInv'
<1> USE DEF BridgeInv
<1>1. /\ child' = [child EXCEPT ![c] = "exited"] /\ entry' = NoBridge /\ session' = session
      /\ displaced' = displaced \cup ({entry.child} \ {0, c})
  BY DEF ChildExits
<1>2. entry'.child = 0 /\ entry'.sessions = {}
      /\ entry' \in [child : {0} \cup Child, sessions : SUBSET Session]
  BY <1>1 DEF NoBridge
<1>3. /\ child' \in [Child -> {"unborn", "running", "killed", "exited"}]
      /\ child'[c] = "exited" /\ \A d \in Child : d # c => child'[d] = child[d]
  BY <1>1
<1>4. ASSUME NEW d \in Child, child'[d] = "running" PROVE d \in displaced'
  BY <1>1, <1>3, <1>4, ChildrenAreNumbers
<1>5. \A t \in Session : session'[t].state = "open" =>
        session'[t].from \in Child /\ child'[session'[t].from] \in {"running", "exited"}
  BY <1>1, <1>3
<1> QED BY <1>1, <1>2, <1>3, <1>4, <1>5

LEMMA KillKeepsBridge ==
  ASSUME BridgeInv, BridgesKilled
  PROVE  BridgeInv'
<1> USE DEF BridgeInv
<1>1. /\ entry' = NoBridge /\ displaced' = displaced
      /\ child' = [c \in Child |->
                     IF c = entry.child /\ child[c] = "running" THEN "killed" ELSE child[c]]
  BY DEF BridgesKilled
<1>2. entry'.child = 0 /\ entry'.sessions = {}
      /\ entry' \in [child : {0} \cup Child, sessions : SUBSET Session]
  BY <1>1 DEF NoBridge
<1>3. /\ child' \in [Child -> {"unborn", "running", "killed", "exited"}]
      /\ \A c \in Child : child'[c] = "running" => child[c] = "running" /\ c # entry.child
  BY <1>1
<1>4. \A t \in Session :
        /\ [session[t] EXCEPT !.state = "closed"]
             \in [state : {"new", "open", "closed"}, from : {0} \cup Child]
        /\ [session[t] EXCEPT !.state = "closed"].state = "closed"
  OBVIOUS
<1>5. /\ session' \in [Session -> [state : {"new", "open", "closed"}, from : {0} \cup Child]]
      /\ \A t \in Session : session'[t].state # "open"
  BY <1>4 DEF BridgesKilled
<1> QED BY <1>1, <1>2, <1>3, <1>5

LEMMA BridgeInvKept ==
  ASSUME BridgeInv, [Next]_vars
  PROVE  BridgeInv'
<1>1. CASE UNCHANGED mcpVars
  BY <1>1 DEF mcpVars, BridgeInv, ReadsFrom
<1> QED BY <1>1, StepsOfTheBridge, RegisterKeepsBridge, UnregisterKeepsBridge, ExitKeepsBridge,
           KillKeepsBridge DEF McpNext

LEMMA SessionsStayWithTheirChild == Spec => []SessionsKeepTheirChild
<1>1. Init => BridgeInv
  <2> SUFFICES ASSUME Init PROVE BridgeInv
    OBVIOUS
  <2>1. /\ entry = NoBridge /\ child = [c \in Child |-> "unborn"]
        /\ session = [s \in Session |-> [state |-> "new", from |-> 0]] /\ displaced = {}
    BY DEF Init, McpInit
  <2> QED BY <2>1 DEF BridgeInv, NoBridge
<1>2. BridgeInv => SessionsKeepTheirChild
  <2> SUFFICES ASSUME BridgeInv PROVE OrphansWereDisplaced /\ MessagesReachOwnChild
    BY DEF SessionsKeepTheirChild
  <2> USE DEF BridgeInv, ReadsFrom
  <2>1. ASSUME NEW c \in Orphans PROVE c \in displaced
    BY <2>1, ChildrenAreNumbers DEF Orphans
  <2>2. MessagesReachOwnChild
    BY DEF MessagesReachOwnChild
  <2> QED BY <2>1, <2>2 DEF OrphansWereDisplaced
<1> QED BY <1>1, <1>2, BridgeInvKept, PTL DEF Spec

-----------------------------------------------------------------------------
(* The daily check-in.  As long as there is no trouble, a season's unclaimed  *)
(* credits are as far from their claim as the state of the visit says: what   *)
(* is idle was read that many ticks ago, and a refused claim is owed with a   *)
(* session that has been refreshed.                                           *)

CheckinTyped ==
  /\ calm \in Nat /\ season \in BOOLEAN /\ claimed \in BOOLEAN
  /\ snapshot \in [age : 0..IdleStatus, needClaim : BOOLEAN, lastError : BOOLEAN]
  /\ call \in {"none", "status", "refresh", "again", "claim"}
  /\ loginState \in {"good", "expired", "none"} /\ token \in {"good", "expired", "none"}

ClaimIsNear ==
  IF call # "none" THEN calm <= IdleStatus + (IF token = "good" THEN 1 ELSE 0)
  ELSE IF snapshot.needClaim THEN calm <= IdleStatus
  ELSE calm <= snapshot.age /\ snapshot.age < IdleStatus

CheckinInv ==
  /\ CheckinTyped
  /\ call = "none" <=> token = "none"
  /\ call \in {"refresh", "again"} => token = "expired"
  /\ calm > 0 =>
       /\ loginState # "none"
       /\ call = "none" => ~snapshot.lastError /\ (snapshot.needClaim => loginState = "good")
       /\ call \in {"again", "claim"} \/ token = "good" => loginState = "good"
       /\ season /\ ~claimed => ClaimIsNear

LEMMA StepsOfTheCheckin ==
  ASSUME [Next]_vars
  PROVE  CheckinNext \/ CheckinStopped \/ CheckinLost \/ UNCHANGED checkinVars
<1>1. CASE DetailStep \/ UsageStep \/ LatencyStep \/ SaveStep
  BY <1>1 DEF DetailStep, UsageStep, LatencyStep, SaveStep, cacheVars, jobVars
<1>2. CASE QuotaStep \/ ProjectStep \/ McpStep \/ PingStep \/ CheckinStep
  BY <1>2 DEF QuotaStep, ProjectStep, McpStep, PingStep, CheckinStep, jobVars
<1>3. CASE Shutdown \/ Drained \/ ProcessEnds
  BY <1>3 DEF Shutdown, Drained, ProcessEnds, cacheVars, jobVars
<1>4. CASE UNCHANGED vars
  BY <1>4 DEF vars, cacheVars, jobVars
<1> QED BY <1>1, <1>2, <1>3, <1>4 DEF Next

LEMMA SnapshotIsTyped ==
  ASSUME CheckinTyped
  PROVE  /\ snapshot.age \in 0..IdleStatus /\ snapshot.needClaim \in BOOLEAN
         /\ snapshot.lastError \in BOOLEAN /\ IdleStatus \in Nat /\ IdleStatus > 0
BY JobsAssumption DEF CheckinTyped

LEMMA VisitEndsTyped ==
  ASSUME CheckinTyped, NEW need \in BOOLEAN, NEW error \in BOOLEAN, VisitEnds(need, error)
  PROVE  /\ snapshot' \in [age : 0..IdleStatus, needClaim : BOOLEAN, lastError : BOOLEAN]
         /\ snapshot'.age = 0 /\ snapshot'.needClaim = need /\ snapshot'.lastError = error
         /\ call' = "none" /\ token' = "none"
<1>1. 0 \in 0..IdleStatus
  BY SnapshotIsTyped
<1> QED BY <1>1 DEF VisitEnds

\* Any trouble starts the count anew.
LEMMA TroubleKeepsCheckin ==
  ASSUME CheckinTyped', calm' = 0,
         call' = "none" <=> token' = "none",
         call' \in {"refresh", "again"} => token' = "expired"
  PROVE  CheckinInv'
BY DEF CheckinInv

LEMMA TurnsKeepCheckin ==
  ASSUME CheckinInv,
         SeasonTurns \/ Midnight \/ Arm \/ \E s \in {"good", "expired", "none"} : SessionTurns(s)
  PROVE  CheckinInv'
<1> USE DEF CheckinInv
<1>1. CASE SeasonTurns \/ Midnight
  <2>1. calm' = 0 /\ UNCHANGED <<loginState, call, token, snapshot>>
    BY <1>1 DEF SeasonTurns, Midnight, Trouble
  <2>2. season' \in BOOLEAN
    BY <1>1, Zenon DEF SeasonTurns, Midnight, CheckinTyped
  <2>3. claimed' \in BOOLEAN
    BY <1>1, Zenon DEF SeasonTurns, Midnight, CheckinTyped
  <2>4. CheckinTyped'
    BY <2>1, <2>2, <2>3 DEF CheckinTyped
  <2> QED BY <2>1, <2>4, TroubleKeepsCheckin
<1>2. CASE Arm
  <2>1. calm' = 0 /\ UNCHANGED <<season, claimed, loginState>>
    BY <1>2 DEF Arm, Trouble, upstream
  <2>2. CASE loginState = "none"
    <3>1. snapshot' = [snapshot EXCEPT !.needClaim = FALSE] /\ UNCHANGED <<call, token>>
      BY <1>2, <2>2 DEF Arm
    <3>2. snapshot' \in [age : 0..IdleStatus, needClaim : BOOLEAN, lastError : BOOLEAN]
      BY <3>1 DEF CheckinTyped
    <3>4. UNCHANGED <<season, claimed, loginState, call, token>> /\ calm' \in Nat
      BY <2>1, <3>1
    <3>3. CheckinTyped'
      BY <3>2, <3>4 DEF CheckinTyped
    <3> QED BY <2>1, <3>1, <3>3, TroubleKeepsCheckin
  <2>3. CASE loginState # "none"
    <3>1. call' = "status" /\ token' = loginState /\ snapshot' = snapshot
      BY <1>2, <2>3 DEF Arm, Visits
    <3>2. CheckinTyped'
      BY <2>1, <3>1 DEF CheckinTyped
    <3> QED BY <2>1, <2>3, <3>1, <3>2, TroubleKeepsCheckin
  <2> QED BY <2>2, <2>3
<1>3. ASSUME NEW s \in {"good", "expired", "none"}, SessionTurns(s) PROVE CheckinInv'
  <2>1. /\ calm' = 0 /\ loginState' = s /\ UNCHANGED <<season, claimed, call, snapshot>>
        /\ token' = token \/ (s = "expired" /\ token = "good" /\ token' = "expired")
    BY <1>3 DEF SessionTurns, Trouble
  <2>2. CheckinTyped'
    BY <2>1 DEF CheckinTyped
  <2> QED BY <2>1, <2>2, TroubleKeepsCheckin
<1> QED BY <1>1, <1>2, <1>3

LEMMA TickKeepsCheckin ==
  ASSUME CheckinInv, CheckinTick
  PROVE  CheckinInv'
<1> USE DEF CheckinInv
<1> DEFINE older == [snapshot EXCEPT !.age = IF @ = IdleStatus THEN @ ELSE @ + 1]
<1>1. /\ older \in [age : 0..IdleStatus, needClaim : BOOLEAN, lastError : BOOLEAN]
      /\ older.age = (IF snapshot.age = IdleStatus THEN IdleStatus ELSE snapshot.age + 1)
      /\ older.needClaim = snapshot.needClaim /\ older.lastError = snapshot.lastError
  <2>1. snapshot.age \in 0..IdleStatus /\ IdleStatus \in Nat
    BY SnapshotIsTyped
  <2> QED BY <2>1 DEF CheckinTyped
<1>2. /\ call = "none" /\ UNCHANGED <<season, claimed, loginState>>
      /\ calm' = (IF armed /\ loginState # "none" THEN calm + 1 ELSE 0)
      /\ IF ~armed THEN snapshot' = older /\ UNCHANGED <<call, token>>
         ELSE IF loginState = "none"
         THEN snapshot' = [older EXCEPT !.needClaim = FALSE] /\ UNCHANGED <<call, token>>
         ELSE /\ snapshot' = older
              /\ IF Idles(older) THEN UNCHANGED <<call, token>> ELSE Visits
  BY DEF CheckinTick
<1> HIDE DEF older
<1>3. CASE ~armed \/ loginState = "none"
  <2>1. calm' = 0 /\ UNCHANGED <<call, token, season, claimed, loginState>>
    BY <1>2, <1>3
  <2>2. snapshot' \in [age : 0..IdleStatus, needClaim : BOOLEAN, lastError : BOOLEAN]
    BY <1>1, <1>2, <1>3
  <2>3. CheckinTyped'
    BY <2>1, <2>2 DEF CheckinTyped
  <2> QED BY <1>2, <2>1, <2>3, TroubleKeepsCheckin
<1>4. CASE armed /\ loginState # "none"
  <2>1. /\ calm' = calm + 1 /\ snapshot' = older
        /\ IF Idles(older) THEN UNCHANGED <<call, token>> ELSE call' = "status" /\ token' = loginState
    BY <1>2, <1>4 DEF Visits
  <2>2. CheckinTyped'
    BY <1>1, <1>2, <2>1 DEF CheckinTyped
  <2>3. snapshot.age \in 0..IdleStatus /\ IdleStatus \in Nat /\ IdleStatus > 0 /\ calm \in Nat
        /\ snapshot.needClaim \in BOOLEAN /\ snapshot.lastError \in BOOLEAN
    BY SnapshotIsTyped DEF CheckinTyped
  <2>4. CASE Idles(older)
    <3>1. ~snapshot.needClaim /\ ~snapshot.lastError /\ older.age < IdleStatus
          /\ older.age = snapshot.age + 1
      BY <2>4, <1>1, <2>3 DEF Idles
    <3>2. season /\ ~claimed => calm <= snapshot.age
      BY <1>2, <2>3, <3>1 DEF ClaimIsNear
    <3>3. season' /\ ~claimed' => ClaimIsNear'
      BY <1>1, <1>2, <2>1, <2>3, <2>4, <3>1, <3>2 DEF ClaimIsNear
    <3>4. call' = "none" /\ ~snapshot'.lastError /\ ~snapshot'.needClaim /\ loginState' # "none"
      BY <1>1, <1>2, <1>4, <2>1, <2>4, <3>1
    <3>5. token' = "none"
      BY <1>2, <2>1, <2>4
    <3> QED BY <2>2, <3>3, <3>4, <3>5
  <2>5. CASE ~Idles(older)
    <3>1. call' = "status" /\ token' = loginState /\ loginState' = loginState
      BY <1>2, <2>1, <2>5
    <3>2. ASSUME season, ~claimed PROVE ClaimIsNear'
      <4>1. calm' <= IdleStatus + (IF loginState = "good" THEN 1 ELSE 0)
        <5>1. CASE calm = 0
          BY <2>1, <2>3, <5>1
        <5>2. CASE calm > 0 /\ snapshot.needClaim
          BY <1>2, <2>1, <2>3, <3>2, <5>2 DEF ClaimIsNear
        <5>3. CASE calm > 0 /\ ~snapshot.needClaim
          <6>1. calm <= snapshot.age /\ snapshot.age < IdleStatus
            BY <1>2, <3>2, <5>3 DEF ClaimIsNear
          <6> QED BY <6>1, <2>1, <2>3
        <5> QED BY <5>1, <5>2, <5>3, <2>3
      <4> QED BY <3>1, <4>1 DEF ClaimIsNear
    <3> QED BY <1>2, <1>4, <2>2, <3>1, <3>2
  <2> QED BY <2>4, <2>5
<1> QED BY <1>3, <1>4

LEMMA CallsKeepCheckin ==
  ASSUME CheckinInv,
         CallThrows \/ StatusAnswers \/ StatusRefused \/ SessionRefreshed \/ RefreshFails \/ StatusAgain
  PROVE  CheckinInv'
<1> USE DEF CheckinInv
<1>0. snapshot.needClaim \in BOOLEAN /\ TRUE \in BOOLEAN /\ FALSE \in BOOLEAN
  BY SnapshotIsTyped
<1>1. CASE CallThrows \/ StatusRefused \/ RefreshFails
  <2>1. /\ calm' = 0 /\ UNCHANGED <<season, claimed, loginState>>
        /\ VisitEnds(snapshot.needClaim, TRUE) \/ VisitEnds(FALSE, TRUE)
    BY <1>1 DEF CallThrows, StatusRefused, RefreshFails, Trouble, upstream
  <2>2. /\ snapshot' \in [age : 0..IdleStatus, needClaim : BOOLEAN, lastError : BOOLEAN]
        /\ call' = "none" /\ token' = "none"
    BY <1>0, <2>1, VisitEndsTyped
  <2>3. CheckinTyped'
    BY <2>1, <2>2 DEF CheckinTyped
  <2> QED BY <2>1, <2>2, <2>3, TroubleKeepsCheckin
<1>2. CASE SessionRefreshed
  <2>1. /\ call = "refresh" /\ call' = "again" /\ token' = token /\ snapshot' = snapshot
        /\ loginState' = (IF loginState = "expired" THEN "good" ELSE loginState)
        /\ UNCHANGED <<season, claimed, calm>>
    BY <1>2 DEF SessionRefreshed
  <2>2. CheckinTyped'
    BY <2>1 DEF CheckinTyped
  <2>3. calm > 0 => loginState' = "good"
    BY <2>1 DEF CheckinTyped
  <2>4. ClaimIsNear => ClaimIsNear'
    BY <2>1 DEF ClaimIsNear
  <2> QED BY <2>1, <2>2, <2>3, <2>4
<1>3. ASSUME call \in {"status", "again"}, StatusRead, token = "good" \/ call = "again"
      PROVE  CheckinInv'
  <2>1. UNCHANGED <<season, claimed, loginState, calm>>
    BY <1>3 DEF StatusRead, upstream
  <2>2. CASE season /\ ~claimed
    <3>1. call' = "claim" /\ token' = token /\ snapshot' = snapshot
      BY <1>3, <2>2 DEF StatusRead
    <3>2. CheckinTyped'
      BY <2>1, <3>1 DEF CheckinTyped
    <3>3. ClaimIsNear => ClaimIsNear'
      BY <1>3, <2>1, <3>1 DEF ClaimIsNear
    <3> QED BY <1>3, <2>1, <3>1, <3>2, <3>3
  <2>3. CASE ~(season /\ ~claimed)
    <3>1. VisitEnds(FALSE, FALSE)
      BY <1>3, <2>3 DEF StatusRead
    <3>2. /\ snapshot' \in [age : 0..IdleStatus, needClaim : BOOLEAN, lastError : BOOLEAN]
          /\ ~snapshot'.needClaim /\ ~snapshot'.lastError
          /\ call' = "none" /\ token' = "none"
      BY <1>0, <3>1, VisitEndsTyped
    <3>3. CheckinTyped'
      BY <2>1, <3>2 DEF CheckinTyped
    <3> QED BY <2>1, <2>3, <3>2, <3>3
  <2> QED BY <2>2, <2>3
<1>4. CASE StatusAnswers
  <2>1. CASE token = "good"
    BY <1>3, <1>4, <2>1 DEF StatusAnswers
  <2>2. CASE token # "good"
    <3>1. call' = "refresh" /\ call = "status"
          /\ UNCHANGED <<season, claimed, loginState, token, snapshot, calm>>
      BY <1>4, <2>2 DEF StatusAnswers, upstream
    <3>2. token = "expired"
      BY <2>2, <3>1 DEF CheckinTyped
    <3>3. CheckinTyped'
      BY <3>1 DEF CheckinTyped
    <3>4. ClaimIsNear => ClaimIsNear'
      BY <3>1 DEF ClaimIsNear
    <3> QED BY <3>1, <3>2, <3>3, <3>4
  <2> QED BY <2>1, <2>2
<1>5. CASE StatusAgain
  BY <1>3, <1>5 DEF StatusAgain
<1> QED BY <1>1, <1>2, <1>4, <1>5

LEMMA ClaimsKeepCheckin ==
  ASSUME CheckinInv, UserClaims \/ ClaimRefused \/ ClaimAccepted \/ ClaimLost
  PROVE  CheckinInv'
<1> USE DEF CheckinInv
<1>0. snapshot.needClaim \in BOOLEAN /\ TRUE \in BOOLEAN /\ FALSE \in BOOLEAN
      /\ IdleStatus \in Nat /\ calm \in Nat
  BY SnapshotIsTyped DEF CheckinTyped
<1>1. CASE UserClaims
  <2>1. claimed' = TRUE /\ UNCHANGED <<season, loginState, call, token, snapshot, calm>>
    BY <1>1 DEF UserClaims
  <2>2. claimed' \in BOOLEAN
    BY <2>1, Zenon
  <2>3. CheckinTyped'
    BY <2>1, <2>2 DEF CheckinTyped
  <2> QED BY <2>1, <2>3
<1>2. CASE ClaimLost
  <2>1. calm' = 0 /\ claimed' = TRUE /\ VisitEnds(snapshot.needClaim, TRUE)
        /\ UNCHANGED <<season, loginState>>
    BY <1>2 DEF ClaimLost, Trouble
  <2>2. /\ snapshot' \in [age : 0..IdleStatus, needClaim : BOOLEAN, lastError : BOOLEAN]
        /\ call' = "none" /\ token' = "none"
    BY <1>0, <2>1, VisitEndsTyped
  <2>4. claimed' \in BOOLEAN
    BY <2>1, Zenon
  <2>3. CheckinTyped'
    BY <2>1, <2>2, <2>4 DEF CheckinTyped
  <2> QED BY <2>1, <2>2, <2>3, TroubleKeepsCheckin
<1>3. CASE ClaimAccepted
  <2>1. claimed' = TRUE /\ VisitEnds(FALSE, FALSE) /\ UNCHANGED <<season, loginState, calm>>
    BY <1>3 DEF ClaimAccepted
  <2>2. /\ snapshot' \in [age : 0..IdleStatus, needClaim : BOOLEAN, lastError : BOOLEAN]
        /\ ~snapshot'.needClaim /\ ~snapshot'.lastError
        /\ call' = "none" /\ token' = "none"
    BY <1>0, <2>1, VisitEndsTyped
  <2>4. claimed' \in BOOLEAN
    BY <2>1, Zenon
  <2>3. CheckinTyped'
    BY <2>1, <2>2, <2>4 DEF CheckinTyped
  <2> QED BY <2>1, <2>2, <2>3
<1>4. CASE ClaimRefused
  <2>1. /\ call = "claim" /\ VisitEnds(TRUE, FALSE) /\ UNCHANGED <<season, claimed, loginState>>
        /\ calm' = (IF token = "expired" \/ claimed THEN calm ELSE 0)
    BY <1>4 DEF ClaimRefused, upstream
  <2>2. /\ snapshot' \in [age : 0..IdleStatus, needClaim : BOOLEAN, lastError : BOOLEAN]
        /\ snapshot'.needClaim /\ ~snapshot'.lastError
        /\ call' = "none" /\ token' = "none"
    BY <1>0, <2>1, VisitEndsTyped
  <2>3. CheckinTyped'
    BY <2>1, <2>2, <1>0 DEF CheckinTyped
  <2>4. CASE calm' = 0
    BY <2>2, <2>3, <2>4, TroubleKeepsCheckin
  <2>5. CASE calm' # 0 /\ token = "expired"
    <3>1. calm' = calm /\ calm > 0 /\ loginState = "good"
      BY <2>1, <2>5, <1>0
    <3>2. season /\ ~claimed => calm <= IdleStatus
      BY <2>1, <2>5, <3>1, <1>0 DEF ClaimIsNear
    <3>3. season' /\ ~claimed' => ClaimIsNear'
      BY <2>1, <2>2, <3>1, <3>2 DEF ClaimIsNear
    <3> QED BY <2>1, <2>2, <2>3, <3>1, <3>3
  <2>6. CASE calm' # 0 /\ token # "expired"
    <3>1. calm' = calm /\ calm > 0 /\ claimed /\ loginState = "good"
      BY <2>1, <2>6, <1>0
    <3> QED BY <2>1, <2>2, <2>3, <3>1
  <2> QED BY <2>4, <2>5, <2>6
<1> QED BY <1>1, <1>2, <1>3, <1>4

LEMMA CheckinInvKept ==
  ASSUME CheckinInv, [Next]_vars
  PROVE  CheckinInv'
<1>1. CASE UNCHANGED checkinVars \/ CheckinStopped
  <2>1. UNCHANGED <<season, claimed, loginState, call, token, snapshot, calm>>
    BY <1>1 DEF checkinVars, CheckinStopped
  <2> QED BY <2>1 DEF CheckinInv, CheckinTyped, ClaimIsNear
<1>2. CASE CheckinLost
  <2>1. /\ calm' = 0 /\ call' = "none" /\ token' = "none" /\ snapshot' = NoSnapshot
        /\ UNCHANGED <<season, claimed, loginState>>
    BY <1>2 DEF CheckinLost, Trouble, upstream
  <2>2. snapshot' \in [age : 0..IdleStatus, needClaim : BOOLEAN, lastError : BOOLEAN]
    BY <2>1, JobsAssumption DEF NoSnapshot
  <2>3. CheckinTyped'
    BY <2>1, <2>2 DEF CheckinTyped, CheckinInv
  <2> QED BY <2>1, <2>3, TroubleKeepsCheckin
<1> QED BY <1>1, <1>2, StepsOfTheCheckin, TurnsKeepCheckin, TickKeepsCheckin, CallsKeepCheckin,
           ClaimsKeepCheckin DEF CheckinNext

(* While a season runs, and unless there was trouble, the day's credits are   *)
(* claimed two ticks after the idle interval at the latest, for any interval  *)
(* and however sessions expire.                                               *)
THEOREM DaysStayClaimed == Spec => []EachDayIsClaimed
<1>1. Init => CheckinInv
  <2> SUFFICES ASSUME Init PROVE CheckinInv
    OBVIOUS
  <2>1. /\ calm = 0 /\ call = "none" /\ token = "none" /\ snapshot = NoSnapshot
        /\ season \in BOOLEAN /\ loginState \in {"good", "none"} /\ claimed = FALSE
    BY DEF Init, CheckinInit
  <2>2. snapshot \in [age : 0..IdleStatus, needClaim : BOOLEAN, lastError : BOOLEAN]
    BY <2>1, JobsAssumption DEF NoSnapshot
  <2>4. claimed \in BOOLEAN
    BY <2>1, Zenon
  <2>3. CheckinTyped
    BY <2>1, <2>2, <2>4 DEF CheckinTyped
  <2> QED BY <2>1, <2>3 DEF CheckinInv
<1>2. CheckinInv => EachDayIsClaimed
  <2> SUFFICES ASSUME CheckinInv, season, calm > IdleStatus + 1, ~claimed PROVE FALSE
    BY DEF EachDayIsClaimed
  <2>1. snapshot.age \in 0..IdleStatus /\ IdleStatus \in Nat /\ calm \in Nat
    BY SnapshotIsTyped DEF CheckinInv, CheckinTyped
  <2> QED BY <2>1 DEF CheckinInv, ClaimIsNear
<1> QED BY <1>1, <1>2, CheckinInvKept, PTL DEF Spec

-----------------------------------------------------------------------------
(* The auto-ping.  Under its limits, k ticks after a sliding window ended or  *)
(* there was trouble, the job has either read the reset already, and then     *)
(* its next reading, at most a far poll away, shows that it slides, or it     *)
(* rests for at most Cooldown - k ticks.                                      *)

Visiting == pingStage \notin {"idle", "between"}
Called(t) == pingStage \in {"ping", "record", "hung"} /\ visit.of = t
Due(t) == t \in todo \/ (Visiting /\ visit.of = t)

MemoryOf == [reset : When, check : 0..FarPoll, rest : 0..Cooldown]
SeenOf == [reset : When, spent : BOOLEAN, age : 0..2]
PingedOf == [key : When, quiet : 0..MinPing]
VisitOf == [of : Target \cup {NoVisit.of}, reset : When, since : 0..1]

PingTyped ==
  /\ slides \in [Target -> BOOLEAN] /\ window \in [Target -> 0..Window]
  /\ todo \subseteq Target /\ optedIn \subseteq Target
  /\ pingStage \in {"idle", "between", "refresh", "usage", "ping", "record", "hung"}
  /\ visit \in VisitOf
  /\ Visiting => visit.of \in Target
  /\ jobMemory \in [Target -> MemoryOf] /\ quotaSeen \in [Target -> SeenOf]
  /\ pinged \in [Target -> PingedOf] /\ cold \in [Target -> Nat]
  /\ startedBy \in [Target -> {"nobody", "user", "ping", "recorded"}]

\* What the cache answers for a sliding window is the present reset or that of
\* a tick ago; what the job knows better is the truth.
AnswersAreNew(t) ==
  quotaSeen[t].age < 2 =>
    /\ quotaSeen[t].reset # None
    /\ slides[t] => quotaSeen[t].reset <= Reported(t)
    /\ slides[t] /\ quotaSeen[t].age = 0 => quotaSeen[t].reset = Reported(t)
    /\ slides[t] /\ cold[t] > 0 => quotaSeen[t].reset >= Window - 1
    /\ window[t] > 0 /\ startedBy[t] \notin {"user", "ping"} => quotaSeen[t].reset = window[t]

\* The reset that is remembered is as old as the poll interval has run.
MemoryAges(t) ==
  /\ jobMemory[t].reset # None => jobMemory[t].reset <= Window - FarPoll + jobMemory[t].check
  /\ jobMemory[t].reset = None => jobMemory[t].check <= 1
  /\ slides[t] /\ window[t] > 0 /\ startedBy[t] = "nobody" => jobMemory[t].reset \in {None, window[t]}

PingedBefore(t) ==
  /\ slides[t] => pinged[t].key <= window[t]
  /\ pinged[t].quiet = 0 \/ pinged[t].quiet + cold[t] <= MinPing

ColdIsCounted(t) ==
  /\ window[t] > 0 \/ ~slides[t] => cold[t] = 0
  /\ jobMemory[t].rest = 0 \/ jobMemory[t].rest + cold[t] <= Cooldown
  /\ IF jobMemory[t].reset = None
     THEN cold[t] <= Cooldown /\ (jobMemory[t].check > 0 \/ ~Due(t) => cold[t] < Cooldown)
     ELSE /\ cold[t] <= WarmUp
          /\ ~Called(t) => cold[t] + jobMemory[t].check <= WarmUp
          /\ ~Due(t) => cold[t] < WarmUp

VisitInv ==
  /\ pingStage = "idle" => todo = {}
  /\ pingStage \in {"refresh", "usage"} => jobMemory[visit.of].check = 0
  /\ pingStage = "ping" /\ slides[visit.of] => visit.reset <= Reported(visit.of)
  /\ pingStage = "record" =>
       cold[visit.of] = 0 /\ (slides[visit.of] => visit.reset <= window[visit.of])

TargetInv(t) == AnswersAreNew(t) /\ MemoryAges(t) /\ PingedBefore(t) /\ ColdIsCounted(t)

PingInv == PingTyped /\ VisitInv /\ \A t \in Target : TargetInv(t)

LEMMA StepsOfPings ==
  ASSUME [Next]_vars
  PROVE  PingNext \/ PingsStopped \/ PingsLost \/ UNCHANGED pingVars
<1>1. CASE DetailStep \/ UsageStep \/ LatencyStep \/ SaveStep
  BY <1>1 DEF DetailStep, UsageStep, LatencyStep, SaveStep, cacheVars, jobVars
<1>2. CASE QuotaStep \/ ProjectStep \/ McpStep \/ PingStep \/ CheckinStep
  BY <1>2 DEF QuotaStep, ProjectStep, McpStep, PingStep, CheckinStep, jobVars
<1>3. CASE Shutdown \/ Drained \/ ProcessEnds
  BY <1>3 DEF Shutdown, Drained, ProcessEnds, cacheVars, jobVars
<1>4. CASE UNCHANGED vars
  BY <1>4 DEF vars, cacheVars, jobVars
<1> QED BY <1>1, <1>2, <1>3, <1>4 DEF Next

LEMMA JobNumbers ==
  /\ Window \in Nat /\ FarPoll \in Nat /\ Cooldown \in Nat /\ MinPing \in Nat
  /\ 0 < Cooldown /\ 0 < MinPing /\ MinPing <= Cooldown /\ 1 < FarPoll /\ FarPoll < Window
  /\ WarmUp = Cooldown + FarPoll /\ None = 0 - 2 /\ Past = 0 - 1
  /\ When = {0 - 2} \cup (0 - 1)..Window
<1>1. WarmUp = Cooldown + FarPoll /\ None = 0 - 2 /\ Past = 0 - 1
  BY DEF WarmUp, None, Past
<1>2. When = {0 - 2} \cup (0 - 1)..Window
  BY <1>1 DEF When
<1>3. /\ {Window, Ahead, FarPoll, Cooldown, MinPing, Day, IdleStatus} \subseteq Nat \ {0}
      /\ {Ahead, FarPoll, MinPing} \subseteq 1..Window - 1 /\ FarPoll > 1 /\ MinPing <= Cooldown
  BY JobsAssumption
<1> QED BY <1>1, <1>2, <1>3

LEMMA TargetTyped ==
  ASSUME PingTyped, NEW t \in Target
  PROVE  /\ window[t] \in 0..Window /\ cold[t] \in Nat
         /\ jobMemory[t] \in MemoryOf /\ quotaSeen[t] \in SeenOf /\ pinged[t] \in PingedOf
         /\ jobMemory[t].reset \in When /\ jobMemory[t].check \in 0..FarPoll
         /\ jobMemory[t].rest \in 0..Cooldown
         /\ quotaSeen[t].reset \in When /\ quotaSeen[t].age \in 0..2
         /\ pinged[t].key \in When /\ pinged[t].quiet \in 0..MinPing
<1>1. jobMemory[t] \in MemoryOf /\ quotaSeen[t] \in SeenOf /\ pinged[t] \in PingedOf
  BY DEF PingTyped
<1>2. window[t] \in 0..Window /\ cold[t] \in Nat
  BY DEF PingTyped
<1> QED BY <1>1, <1>2 DEF MemoryOf, SeenOf, PingedOf

\* What the invariant says of a target as a whole.
SameTarget(t) ==
  /\ slides'[t] = slides[t] /\ window'[t] = window[t] /\ jobMemory'[t] = jobMemory[t]
  /\ quotaSeen'[t] = quotaSeen[t] /\ pinged'[t] = pinged[t] /\ startedBy'[t] = startedBy[t]
  /\ cold'[t] = cold[t]

LEMMA AsBefore ==
  ASSUME NEW t \in Target, TargetInv(t), SameTarget(t),
         Called(t) => Called(t)', Due(t) => Due(t)'
  PROVE  TargetInv(t)'
<1>1. AnswersAreNew(t)'
  BY DEF TargetInv, SameTarget, AnswersAreNew, Reported
<1>2. MemoryAges(t)' /\ PingedBefore(t)'
  BY DEF TargetInv, SameTarget, MemoryAges, PingedBefore
<1>3. ColdIsCounted(t)'
  BY DEF TargetInv, SameTarget, ColdIsCounted
<1> QED BY <1>1, <1>2, <1>3 DEF TargetInv

\* Nothing has to be shown of a window that is not cold.
LEMMA ExcusedIsCounted ==
  ASSUME PingTyped', NEW t \in Target, cold'[t] = 0
  PROVE  ColdIsCounted(t)'
<1>1. jobMemory'[t] \in MemoryOf
  BY DEF PingTyped
<1>2. jobMemory'[t].check \in 0..FarPoll /\ jobMemory'[t].rest \in 0..Cooldown
  BY <1>1 DEF MemoryOf
<1> QED BY <1>2, JobNumbers DEF ColdIsCounted

LEMMA NothingOwed ==
  ASSUME PingTyped, PingTyped', NEW t \in Target, TargetInv(t), cold'[t] = 0,
         slides'[t] = slides[t], window'[t] = window[t], quotaSeen'[t] = quotaSeen[t],
         pinged'[t] = pinged[t], startedBy'[t] = startedBy[t],
         jobMemory'[t].reset = jobMemory[t].reset,
         jobMemory'[t].check = jobMemory[t].check \/ (jobMemory[t].check = 0 /\ jobMemory'[t].check \in 0..1)
  PROVE  TargetInv(t)'
<1>1. /\ quotaSeen[t].reset \in When /\ pinged[t].quiet \in 0..MinPing /\ cold[t] \in Nat
      /\ jobMemory[t].reset \in When /\ jobMemory[t].check \in 0..FarPoll
  BY TargetTyped
<1>2. AnswersAreNew(t)'
  BY <1>1, JobNumbers DEF TargetInv, AnswersAreNew, Reported
<1>3. MemoryAges(t)'
  BY <1>1, JobNumbers DEF TargetInv, MemoryAges
<1>4. PingedBefore(t)'
  BY <1>1, JobNumbers DEF TargetInv, PingedBefore
<1> QED BY <1>2, <1>3, <1>4, ExcusedIsCounted DEF TargetInv

LEMMA NoVisitIsTyped == NoVisit \in VisitOf
BY JobNumbers DEF VisitOf, NoVisit

\* One field of what the job remembers of a target.
Rests(t, n) == jobMemory' = [jobMemory EXCEPT ![t].rest = n]
Checks(t, n) == jobMemory' = [jobMemory EXCEPT ![t].check = n]

LEMMA RestIsRemembered ==
  ASSUME PingTyped, NEW t \in Target, NEW n \in 0..Cooldown, Rests(t, n)
  PROVE  /\ jobMemory' \in [Target -> MemoryOf]
         /\ jobMemory'[t].reset = jobMemory[t].reset /\ jobMemory'[t].check = jobMemory[t].check
         /\ jobMemory'[t].rest = n
         /\ \A o \in Target \ {t} : jobMemory'[o] = jobMemory[o]
<1>1. jobMemory \in [Target -> MemoryOf] /\ jobMemory[t] \in MemoryOf
  BY DEF PingTyped
<1>2. jobMemory' = [jobMemory EXCEPT ![t] = [jobMemory[t] EXCEPT !.rest = n]]
  BY <1>1 DEF Rests
<1>3. [jobMemory[t] EXCEPT !.rest = n] \in MemoryOf
  BY <1>1 DEF MemoryOf
<1>4. jobMemory'[t] = [jobMemory[t] EXCEPT !.rest = n]
  BY <1>1, <1>2
<1>5. /\ jobMemory'[t].reset = jobMemory[t].reset /\ jobMemory'[t].check = jobMemory[t].check
      /\ jobMemory'[t].rest = n
  BY <1>1, <1>4 DEF MemoryOf
<1> QED BY <1>1, <1>2, <1>3, <1>5

LEMMA CheckIsRemembered ==
  ASSUME PingTyped, NEW t \in Target, NEW n \in 0..FarPoll, Checks(t, n)
  PROVE  /\ jobMemory' \in [Target -> MemoryOf]
         /\ jobMemory'[t].reset = jobMemory[t].reset /\ jobMemory'[t].check = n
         /\ jobMemory'[t].rest = jobMemory[t].rest
         /\ \A o \in Target \ {t} : jobMemory'[o] = jobMemory[o]
<1>1. jobMemory \in [Target -> MemoryOf] /\ jobMemory[t] \in MemoryOf
  BY DEF PingTyped
<1>2. jobMemory' = [jobMemory EXCEPT ![t] = [jobMemory[t] EXCEPT !.check = n]]
  BY <1>1 DEF Checks
<1>3. [jobMemory[t] EXCEPT !.check = n] \in MemoryOf
  BY <1>1 DEF MemoryOf
<1>4. jobMemory'[t] = [jobMemory[t] EXCEPT !.check = n]
  BY <1>1, <1>2
<1>5. /\ jobMemory'[t].reset = jobMemory[t].reset /\ jobMemory'[t].rest = jobMemory[t].rest
      /\ jobMemory'[t].check = n
  BY <1>1, <1>4 DEF MemoryOf
<1> QED BY <1>1, <1>2, <1>3, <1>5

\* A window starts, or goes on: nothing is owed to its target.
LEMMA StartIsTyped ==
  ASSUME PingTyped, NEW t \in Target, NEW who \in {"user", "ping"}, StartWindow(t, who)
  PROVE  /\ window' \in [Target -> 0..Window] /\ cold' \in [Target -> Nat]
         /\ startedBy' \in [Target -> {"nobody", "user", "ping", "recorded"}]
         /\ window'[t] = (IF window[t] = 0 THEN Window ELSE window[t])
         /\ startedBy'[t] = (IF window[t] = 0 THEN who ELSE startedBy[t])
         /\ cold'[t] = 0
         /\ \A o \in Target \ {t} : /\ window'[o] = window[o] /\ startedBy'[o] = startedBy[o]
                                    /\ cold'[o] = cold[o]
<1>1. window \in [Target -> 0..Window] /\ Window \in 0..Window
  BY JobNumbers DEF PingTyped
<1>2. cold \in [Target -> Nat]
  BY DEF PingTyped
<1>3. startedBy \in [Target -> {"nobody", "user", "ping", "recorded"}]
  BY DEF PingTyped
<1>4. /\ window' \in [Target -> 0..Window]
      /\ window'[t] = (IF window[t] = 0 THEN Window ELSE window[t])
      /\ \A o \in Target \ {t} : window'[o] = window[o]
  BY <1>1 DEF StartWindow
<1>5. cold' \in [Target -> Nat] /\ cold'[t] = 0 /\ \A o \in Target \ {t} : cold'[o] = cold[o]
  BY <1>2 DEF StartWindow
<1>6. /\ startedBy' \in [Target -> {"nobody", "user", "ping", "recorded"}]
      /\ startedBy'[t] = (IF window[t] = 0 THEN who ELSE startedBy[t])
      /\ \A o \in Target \ {t} : startedBy'[o] = startedBy[o]
  BY <1>3 DEF StartWindow
<1> QED BY <1>4, <1>5, <1>6

LEMMA StartKeepsTarget ==
  ASSUME PingTyped, PingTyped', NEW t \in Target, NEW who \in {"user", "ping"}, StartWindow(t, who),
         TargetInv(t), slides' = slides, quotaSeen' = quotaSeen, pinged' = pinged,
         jobMemory'[t].reset = jobMemory[t].reset, jobMemory'[t].check = jobMemory[t].check
  PROVE  TargetInv(t)'
<1>1. /\ window[t] \in 0..Window /\ quotaSeen[t].reset \in When /\ pinged[t].key \in When
      /\ pinged[t].quiet \in 0..MinPing /\ cold[t] \in Nat
  BY TargetTyped
<1>2. /\ window'[t] = (IF window[t] = 0 THEN Window ELSE window[t])
      /\ startedBy'[t] = (IF window[t] = 0 THEN who ELSE startedBy[t])
      /\ cold'[t] = 0
  BY StartIsTyped
<1>3. AnswersAreNew(t)'
  BY <1>1, <1>2, JobNumbers DEF TargetInv, AnswersAreNew, Reported
<1>4. MemoryAges(t)'
  BY <1>1, <1>2, JobNumbers DEF TargetInv, MemoryAges
<1>5. PingedBefore(t)'
  BY <1>1, <1>2, JobNumbers DEF TargetInv, PingedBefore
<1>6. ColdIsCounted(t)'
  BY <1>2, ExcusedIsCounted
<1> QED BY <1>3, <1>4, <1>5, <1>6 DEF TargetInv

LEMMA UserKeepsPings ==
  ASSUME PingInv, NEW t \in Target, UserStartsWindow(t)
  PROVE  PingInv'
<1> USE DEF PingInv
<1>1. /\ window[t] = 0 /\ StartWindow(t, "user")
      /\ UNCHANGED <<slides, optedIn, pingStage, todo, visit, jobMemory, quotaSeen, pinged>>
  BY DEF UserStartsWindow
<1>2. PingTyped'
  BY <1>1, StartIsTyped DEF PingTyped, Visiting
<1>3. TargetInv(t)'
  BY <1>1, <1>2, StartKeepsTarget
<1>4. ASSUME NEW o \in Target \ {t} PROVE TargetInv(o)'
  <2>1. SameTarget(o)
    BY <1>1, StartIsTyped DEF SameTarget
  <2> QED BY <1>1, <2>1, AsBefore DEF Called, Due, Visiting
<1>5. VisitInv'
  <2>1. ASSUME pingStage \in {"ping", "record"} PROVE visit.of \in Target
    BY <2>1 DEF PingTyped, Visiting
  <2>2. /\ window'[t] = Window /\ cold'[t] = 0
        /\ \A o \in Target \ {t} : window'[o] = window[o] /\ cold'[o] = cold[o]
    BY <1>1, StartIsTyped
  <2>3. visit.reset <= Window
    BY JobNumbers DEF PingTyped, VisitOf
  <2> QED BY <1>1, <2>1, <2>2, <2>3 DEF VisitInv, Reported
<1> QED BY <1>2, <1>3, <1>4, <1>5

LEMMA ViewKeepsPings ==
  ASSUME PingInv, NEW t \in Target, DashboardLoads(t)
  PROVE  PingInv'
<1> USE DEF PingInv
<1> DEFINE seen == [reset |-> Reported(t), spent |-> FALSE, age |-> 0]
<1>1. window[t] \in 0..Window /\ Reported(t) \in 0..Window /\ Reported(t) # None
  BY TargetTyped, JobNumbers DEF Reported
<1>2. seen \in SeenOf /\ seen.reset = Reported(t) /\ seen.age = 0
  BY <1>1, JobNumbers DEF SeenOf
<1>3. /\ quotaSeen' = [quotaSeen EXCEPT ![t] = seen]
      /\ UNCHANGED <<slides, window, optedIn, pingStage, todo, visit, jobMemory, pinged, startedBy, cold>>
  BY DEF DashboardLoads
<1> HIDE DEF seen
<1>4. /\ quotaSeen' \in [Target -> SeenOf] /\ quotaSeen'[t] = seen
      /\ \A o \in Target \ {t} : quotaSeen'[o] = quotaSeen[o]
  BY <1>2, <1>3 DEF PingTyped
<1>5. PingTyped'
  BY <1>3, <1>4 DEF PingTyped, Visiting
<1>6. TargetInv(t)'
  <2>1. AnswersAreNew(t)'
    BY <1>1, <1>2, <1>3, <1>4, JobNumbers DEF TargetInv, AnswersAreNew, Reported, ColdIsCounted
  <2>2. MemoryAges(t)' /\ PingedBefore(t)'
    BY <1>3 DEF TargetInv, MemoryAges, PingedBefore
  <2>3. ColdIsCounted(t)'
    BY <1>3 DEF TargetInv, ColdIsCounted, Called, Due, Visiting
  <2> QED BY <2>1, <2>2, <2>3 DEF TargetInv
<1>7. ASSUME NEW o \in Target \ {t} PROVE TargetInv(o)'
  <2>1. SameTarget(o)
    BY <1>3, <1>4 DEF SameTarget
  <2> QED BY <1>3, <2>1, AsBefore DEF Called, Due, Visiting
<1>8. VisitInv'
  BY <1>3 DEF VisitInv, Reported
<1> QED BY <1>5, <1>6, <1>7, <1>8

LEMMA ConfigureKeepsPings ==
  ASSUME PingInv, NEW targets \in SUBSET Target, Configure(targets)
  PROVE  PingInv'
<1> USE DEF PingInv
<1>1. /\ optedIn' = targets /\ UNCHANGED <<slides, window, visit, jobMemory, quotaSeen, pinged, startedBy>>
      /\ cold' = [t \in Target |-> IF t \in targets \cap optedIn THEN cold[t] ELSE 0]
      /\ \/ UNCHANGED <<pingStage, todo>>
         \/ pingStage = "idle" /\ pingStage' = "between" /\ todo' = targets
  BY DEF Configure, Busy
<1>2. PingTyped'
  <2>1. cold' \in [Target -> Nat]
    BY <1>1 DEF PingTyped
  <2>2. todo' \subseteq Target /\ optedIn' \subseteq Target
    BY <1>1 DEF PingTyped
  <2> QED BY <1>1, <2>1, <2>2 DEF PingTyped, Visiting
<1>3. ASSUME NEW t \in Target PROVE TargetInv(t)'
  <2>1. CASE cold'[t] = 0
    BY <1>1, <1>2, <2>1, NothingOwed
  <2>2. CASE cold'[t] = cold[t]
    <3>1. SameTarget(t)
      BY <1>1, <2>2 DEF SameTarget
    <3>2. Called(t) => Called(t)'
      BY <1>1 DEF Called
    <3>3. Due(t) => Due(t)'
      BY <1>1 DEF Due, Visiting, VisitInv
    <3> QED BY <3>1, <3>2, <3>3, AsBefore
  <2> QED BY <1>1, <2>1, <2>2
<1>4. VisitInv'
  <2>1. CASE pingStage' = "between"
    BY <2>1 DEF VisitInv
  <2>2. CASE UNCHANGED <<pingStage, todo>>
    <3>1. ASSUME pingStage = "record" PROVE cold'[visit.of] = 0
      BY <3>1, <1>1 DEF VisitInv, PingTyped, Visiting
    <3> QED BY <1>1, <2>2, <3>1 DEF VisitInv, Reported
  <2> QED BY <1>1, <2>1, <2>2
<1> QED BY <1>2, <1>3, <1>4

LEMMA VisitKeepsPings ==
  ASSUME PingInv, NEW t \in Target, VisitTarget(t)
  PROVE  PingInv'
<1> USE DEF PingInv
<1>1. /\ pingStage = "between" /\ t \in todo /\ todo' = todo \ {t}
      /\ UNCHANGED <<slides, window, optedIn, jobMemory, quotaSeen, pinged, startedBy, cold>>
      /\ \/ Spared(t) /\ UNCHANGED <<pingStage, visit>>
         \/ ~Spared(t) /\ pingStage' = "refresh" /\ visit' = [of |-> t, reset |-> None, since |-> 0]
  BY DEF VisitTarget
<1>2. \A o \in Target : SameTarget(o) /\ ~Called(o)
  BY <1>1 DEF SameTarget, Called
<1>3. ASSUME NEW o \in Target \ {t} PROVE TargetInv(o)'
  <2>1. Due(o) => Due(o)'
    BY <1>1 DEF Due, Visiting
  <2> QED BY <1>2, <2>1, AsBefore
<1>4. CASE Spared(t)
  <2>1. pingStage' = "between" /\ UNCHANGED visit
    BY <1>1, <1>4
  <2>2. PingTyped' /\ VisitInv'
    BY <1>1, <2>1 DEF PingTyped, Visiting, VisitInv
  <2>3. AnswersAreNew(t)' /\ MemoryAges(t)' /\ PingedBefore(t)'
    BY <1>2 DEF SameTarget, TargetInv, AnswersAreNew, Reported, MemoryAges, PingedBefore
  <2>4. /\ jobMemory[t].check \in 0..FarPoll /\ jobMemory[t].rest \in 0..Cooldown /\ cold[t] \in Nat
        /\ jobMemory[t].check > 0 \/ jobMemory[t].rest > 0 \/ ~slides[t]
    BY <1>4, TargetTyped DEF Spared
  <2>5. /\ ~Called(t)
        /\ jobMemory'[t] = jobMemory[t] /\ cold'[t] = cold[t]
        /\ slides'[t] = slides[t] /\ window'[t] = window[t]
    BY <1>2 DEF SameTarget
  <2>6. IF jobMemory[t].reset = None THEN cold[t] < Cooldown
        ELSE cold[t] < WarmUp /\ cold[t] + jobMemory[t].check <= WarmUp
    BY <2>4, <2>5, JobNumbers DEF TargetInv, ColdIsCounted
  <2>7. ColdIsCounted(t)'
    BY <2>4, <2>5, <2>6, JobNumbers DEF TargetInv, ColdIsCounted
  <2> QED BY <1>3, <2>2, <2>3, <2>7 DEF TargetInv
<1>5. CASE ~Spared(t)
  <2>1. pingStage' = "refresh" /\ visit' = [of |-> t, reset |-> None, since |-> 0]
    BY <1>1, <1>5
  <2>2. PingTyped'
    <3>1. visit' \in VisitOf /\ visit'.of \in Target
      BY <2>1, JobNumbers DEF VisitOf
    <3> QED BY <1>1, <2>1, <3>1 DEF PingTyped
  <2>3. Due(t)'
    BY <2>1 DEF Due, Visiting
  <2>4. TargetInv(t)'
    BY <1>2, <2>3, AsBefore
  <2>5. jobMemory[t].check = 0
    <3>1. jobMemory[t].check \in 0..FarPoll
      BY TargetTyped
    <3> QED BY <1>5, <3>1, JobNumbers DEF Spared
  <2>6. VisitInv'
    BY <1>1, <2>1, <2>5 DEF VisitInv
  <2> QED BY <1>3, <2>2, <2>4, <2>6
<1> QED BY <1>1, <1>4, <1>5

LEMMA EndKeepsPings ==
  ASSUME PingInv, TickEnds
  PROVE  PingInv'
<1> USE DEF PingInv
<1>1. /\ pingStage = "between" /\ todo = {} /\ pingStage' = "idle" /\ visit' = NoVisit
      /\ UNCHANGED <<slides, window, optedIn, todo, jobMemory, quotaSeen, pinged, startedBy, cold>>
  BY DEF TickEnds
<1>2. PingTyped'
  BY <1>1, NoVisitIsTyped DEF PingTyped, Visiting
<1>3. VisitInv'
  BY <1>1 DEF VisitInv
<1>4. ASSUME NEW t \in Target PROVE TargetInv(t)'
  <2>1. SameTarget(t) /\ ~Called(t) /\ ~Due(t)
    BY <1>1 DEF SameTarget, Called, Due, Visiting
  <2> QED BY <2>1, AsBefore
<1> QED BY <1>2, <1>3, <1>4

LEMMA FailureKeepsPings ==
  ASSUME PingInv, VisitFails
  PROVE  PingInv'
<1> USE DEF PingInv
<1>0. PICK v \in Target : v = visit.of
  BY DEF VisitFails, PingTyped, Visiting
<1>1. /\ pingStage \in {"refresh", "usage", "ping", "record"}
      /\ pingStage' = "between" /\ visit' = NoVisit /\ cold' = [cold EXCEPT ![v] = 0]
      /\ Rests(v, Cooldown)
      /\ UNCHANGED <<slides, window, optedIn, todo, quotaSeen, pinged, startedBy>>
  BY <1>0 DEF VisitFails, NextTarget, Excused, Rests
<1>2. Cooldown \in 0..Cooldown
  BY JobNumbers
<1>3. /\ jobMemory' \in [Target -> MemoryOf]
      /\ jobMemory'[v].reset = jobMemory[v].reset /\ jobMemory'[v].check = jobMemory[v].check
      /\ \A o \in Target \ {v} : jobMemory'[o] = jobMemory[o]
  BY <1>1, <1>2, RestIsRemembered
<1>4. cold' \in [Target -> Nat] /\ cold'[v] = 0 /\ \A o \in Target \ {v} : cold'[o] = cold[o]
  BY <1>1 DEF PingTyped
<1>5. PingTyped'
  BY <1>1, <1>3, <1>4, NoVisitIsTyped DEF PingTyped, Visiting
<1>6. VisitInv'
  BY <1>1 DEF VisitInv
<1>7. TargetInv(v)'
  BY <1>1, <1>3, <1>4, <1>5, NothingOwed
<1>8. ASSUME NEW o \in Target \ {v} PROVE TargetInv(o)'
  <2>1. SameTarget(o)
    BY <1>1, <1>3, <1>4 DEF SameTarget
  <2>2. ~Called(o) /\ (Due(o) => Due(o)')
    BY <1>0, <1>1 DEF Called, Due, Visiting
  <2> QED BY <2>1, <2>2, AsBefore
<1> QED BY <1>5, <1>6, <1>7, <1>8

LEMMA EmptyKeepsPings ==
  ASSUME PingInv, UsageEmpty
  PROVE  PingInv'
<1> USE DEF PingInv
<1> DEFINE n == 1 - visit.since
<1>0. PICK v \in Target : v = visit.of
  BY DEF UsageEmpty, PingTyped, Visiting
<1>1. /\ pingStage = "usage"
      /\ pingStage' = "between" /\ visit' = NoVisit /\ cold' = [cold EXCEPT ![v] = 0]
      /\ Checks(v, n)
      /\ UNCHANGED <<slides, window, optedIn, todo, quotaSeen, pinged, startedBy>>
  BY <1>0 DEF UsageEmpty, NextTarget, Excused, Checks
<1>2. n \in 0..1 /\ n \in 0..FarPoll
  <2>1. visit.since \in 0..1
    BY DEF PingTyped, VisitOf
  <2> QED BY <2>1, JobNumbers
<1>9. jobMemory[v].check = 0
  BY <1>0, <1>1 DEF VisitInv
<1> HIDE DEF n
<1>3. /\ jobMemory' \in [Target -> MemoryOf]
      /\ jobMemory'[v].reset = jobMemory[v].reset /\ jobMemory'[v].check = n
      /\ \A o \in Target \ {v} : jobMemory'[o] = jobMemory[o]
  BY <1>1, <1>2, CheckIsRemembered
<1>4. cold' \in [Target -> Nat] /\ cold'[v] = 0 /\ \A o \in Target \ {v} : cold'[o] = cold[o]
  BY <1>1 DEF PingTyped
<1>5. PingTyped'
  BY <1>1, <1>3, <1>4, NoVisitIsTyped DEF PingTyped, Visiting
<1>6. VisitInv'
  BY <1>1 DEF VisitInv
<1>7. TargetInv(v)'
  BY <1>1, <1>2, <1>3, <1>4, <1>5, <1>9, NothingOwed
<1>8. ASSUME NEW o \in Target \ {v} PROVE TargetInv(o)'
  <2>1. SameTarget(o)
    BY <1>1, <1>3, <1>4 DEF SameTarget
  <2>2. ~Called(o) /\ (Due(o) => Due(o)')
    BY <1>0, <1>1 DEF Called, Due, Visiting
  <2> QED BY <2>1, <2>2, AsBefore
<1> QED BY <1>5, <1>6, <1>7, <1>8

LEMMA RefreshKeepsPings ==
  ASSUME PingInv, NEW rotated \in BOOLEAN, Refreshed(rotated)
  PROVE  PingInv'
<1> USE DEF PingInv
<1>0. PICK v \in Target : v = visit.of
  BY DEF Refreshed, PingTyped, Visiting
<1>1. /\ pingStage = "refresh" /\ pingStage' = "usage"
      /\ quotaSeen' = IF rotated THEN [quotaSeen EXCEPT ![v] = NothingSeen] ELSE quotaSeen
      /\ UNCHANGED <<slides, window, optedIn, todo, visit, jobMemory, pinged, startedBy, cold>>
  BY <1>0 DEF Refreshed
<1>2. NothingSeen \in SeenOf /\ NothingSeen.age = 2
  BY JobNumbers DEF NothingSeen, SeenOf
<1>3. /\ quotaSeen' \in [Target -> SeenOf]
      /\ quotaSeen'[v] = quotaSeen[v] \/ quotaSeen'[v].age = 2
      /\ \A o \in Target \ {v} : quotaSeen'[o] = quotaSeen[o]
  BY <1>1, <1>2 DEF PingTyped
<1>4. PingTyped'
  BY <1>0, <1>1, <1>3 DEF PingTyped
<1>5. VisitInv'
  BY <1>1 DEF VisitInv
<1>6. \A t \in Target : (Called(t) => Called(t)') /\ (Due(t) => Due(t)')
  BY <1>1 DEF Called, Due, Visiting
<1>7. TargetInv(v)'
  <2>1. CASE quotaSeen'[v] = quotaSeen[v]
    <3>1. SameTarget(v)
      BY <1>1, <2>1 DEF SameTarget
    <3> QED BY <1>6, <3>1, AsBefore
  <2>2. CASE quotaSeen'[v].age = 2
    <3>1. AnswersAreNew(v)'
      BY <2>2 DEF AnswersAreNew
    <3>2. MemoryAges(v)' /\ PingedBefore(v)'
      BY <1>1 DEF TargetInv, MemoryAges, PingedBefore
    <3>3. ColdIsCounted(v)'
      BY <1>1, <1>6 DEF TargetInv, ColdIsCounted
    <3> QED BY <3>1, <3>2, <3>3 DEF TargetInv
  <2> QED BY <1>3, <2>1, <2>2
<1>8. ASSUME NEW o \in Target \ {v} PROVE TargetInv(o)'
  <2>1. SameTarget(o)
    BY <1>1, <1>3 DEF SameTarget
  <2> QED BY <1>6, <2>1, AsBefore
<1> QED BY <1>4, <1>5, <1>7, <1>8

LEMMA AcceptanceKeepsPings ==
  ASSUME PingInv, PingAccepted
  PROVE  PingInv'
<1> USE DEF PingInv
<1>0. PICK v \in Target : v = visit.of
  BY DEF PingAccepted, PingTyped, Visiting
<1>1. /\ pingStage = "ping" /\ pingStage' = "record" /\ StartWindow(v, "ping") /\ Rests(v, 0)
      /\ UNCHANGED <<slides, optedIn, todo, visit, quotaSeen, pinged>>
  BY <1>0 DEF PingAccepted, Rests
<1>2. /\ jobMemory' \in [Target -> MemoryOf]
      /\ jobMemory'[v].reset = jobMemory[v].reset /\ jobMemory'[v].check = jobMemory[v].check
      /\ \A o \in Target \ {v} : jobMemory'[o] = jobMemory[o]
  <2>1. 0 \in 0..Cooldown
    BY JobNumbers
  <2> QED BY <1>1, <2>1, RestIsRemembered
<1>3. /\ window' \in [Target -> 0..Window] /\ cold' \in [Target -> Nat]
      /\ startedBy' \in [Target -> {"nobody", "user", "ping", "recorded"}]
      /\ window'[v] = (IF window[v] = 0 THEN Window ELSE window[v])
      /\ cold'[v] = 0
      /\ \A o \in Target \ {v} : /\ window'[o] = window[o] /\ startedBy'[o] = startedBy[o]
                                 /\ cold'[o] = cold[o]
  BY <1>1, StartIsTyped
<1>4. PingTyped'
  BY <1>0, <1>1, <1>2, <1>3 DEF PingTyped
<1>5. VisitInv'
  <2>1. slides[v] => visit.reset <= Reported(v)
    BY <1>0, <1>1 DEF VisitInv
  <2>2. slides[v] => visit.reset <= window'[v]
    BY <2>1, <1>3 DEF Reported, PingTyped
  <2> QED BY <1>0, <1>1, <1>3, <2>2 DEF VisitInv
<1>6. TargetInv(v)'
  BY <1>1, <1>2, <1>4, StartKeepsTarget
<1>7. ASSUME NEW o \in Target \ {v} PROVE TargetInv(o)'
  <2>1. SameTarget(o)
    BY <1>1, <1>2, <1>3 DEF SameTarget
  <2>2. ~Called(o) /\ (Due(o) => Due(o)')
    BY <1>0, <1>1 DEF Called, Due, Visiting
  <2> QED BY <2>1, <2>2, AsBefore
<1> QED BY <1>4, <1>5, <1>6, <1>7

LEMMA BreakKeepsPings ==
  ASSUME PingInv, PingBreaksOff
  PROVE  PingInv'
<1> USE DEF PingInv
<1>0. PICK v \in Target : v = visit.of
  BY DEF PingBreaksOff, PingTyped, Visiting
<1>1. /\ pingStage = "ping" /\ pingStage' = "between" /\ visit' = NoVisit
      /\ StartWindow(v, "ping") /\ Rests(v, Cooldown)
      /\ UNCHANGED <<slides, optedIn, todo, quotaSeen, pinged>>
  BY <1>0 DEF PingBreaksOff, NextTarget, Rests
<1>2. /\ jobMemory' \in [Target -> MemoryOf]
      /\ jobMemory'[v].reset = jobMemory[v].reset /\ jobMemory'[v].check = jobMemory[v].check
      /\ \A o \in Target \ {v} : jobMemory'[o] = jobMemory[o]
  <2>1. Cooldown \in 0..Cooldown
    BY JobNumbers
  <2> QED BY <1>1, <2>1, RestIsRemembered
<1>3. /\ window' \in [Target -> 0..Window] /\ cold' \in [Target -> Nat]
      /\ startedBy' \in [Target -> {"nobody", "user", "ping", "recorded"}]
      /\ \A o \in Target \ {v} : /\ window'[o] = window[o] /\ startedBy'[o] = startedBy[o]
                                 /\ cold'[o] = cold[o]
  BY <1>1, StartIsTyped
<1>4. PingTyped'
  BY <1>1, <1>2, <1>3, NoVisitIsTyped DEF PingTyped, Visiting
<1>5. VisitInv'
  BY <1>1 DEF VisitInv
<1>6. TargetInv(v)'
  BY <1>1, <1>2, <1>4, StartKeepsTarget
<1>7. ASSUME NEW o \in Target \ {v} PROVE TargetInv(o)'
  <2>1. SameTarget(o)
    BY <1>1, <1>2, <1>3 DEF SameTarget
  <2>2. ~Called(o) /\ (Due(o) => Due(o)')
    BY <1>0, <1>1 DEF Called, Due, Visiting
  <2> QED BY <2>1, <2>2, AsBefore
<1> QED BY <1>4, <1>5, <1>6, <1>7

LEMMA RecordKeepsPings ==
  ASSUME PingInv, PingRecorded
  PROVE  PingInv'
<1> USE DEF PingInv
<1>0. PICK v \in Target : v = visit.of
  BY DEF PingRecorded, PingTyped, Visiting
<1> DEFINE note == [key |-> visit.reset, quiet |-> IF slides[v] THEN MinPing ELSE 0]
<1>1. /\ pingStage = "record" /\ pingStage' = "between" /\ visit' = NoVisit
      /\ pinged' = [pinged EXCEPT ![v] = note]
      /\ quotaSeen' = [quotaSeen EXCEPT ![v] = NothingSeen]
      /\ startedBy' = [startedBy EXCEPT ![v] = IF @ = "ping" THEN "recorded" ELSE @]
      /\ UNCHANGED <<slides, window, optedIn, todo, jobMemory, cold>>
  BY <1>0 DEF PingRecorded, NextTarget
<1>2. note \in PingedOf /\ note.key = visit.reset /\ note.quiet \in 0..MinPing
  <2>1. visit.reset \in When
    BY DEF PingTyped, VisitOf
  <2> QED BY <2>1, JobNumbers DEF PingedOf
<1> HIDE DEF note
<1>3. NothingSeen \in SeenOf /\ NothingSeen.age = 2
  BY JobNumbers DEF NothingSeen, SeenOf
<1>4. /\ quotaSeen' \in [Target -> SeenOf] /\ quotaSeen'[v].age = 2
      /\ pinged' \in [Target -> PingedOf] /\ pinged'[v] = note
      /\ \A o \in Target \ {v} : quotaSeen'[o] = quotaSeen[o] /\ pinged'[o] = pinged[o]
  BY <1>1, <1>2, <1>3 DEF PingTyped
<1>5. /\ startedBy' \in [Target -> {"nobody", "user", "ping", "recorded"}]
      /\ startedBy'[v] = "nobody" => startedBy[v] = "nobody"
      /\ \A o \in Target \ {v} : startedBy'[o] = startedBy[o]
  <2>1. startedBy \in [Target -> {"nobody", "user", "ping", "recorded"}]
    BY DEF PingTyped
  <2> QED BY <1>1, <2>1
<1>6. PingTyped'
  BY <1>1, <1>4, <1>5, NoVisitIsTyped DEF PingTyped, Visiting
<1>7. VisitInv'
  BY <1>1 DEF VisitInv
<1>8. TargetInv(v)'
  <2>1. cold[v] = 0 /\ (slides[v] => visit.reset <= window[v])
    BY <1>0, <1>1 DEF VisitInv
  <2>2. AnswersAreNew(v)'
    BY <1>4 DEF AnswersAreNew
  <2>3. MemoryAges(v)'
    BY <1>1, <1>5 DEF TargetInv, MemoryAges
  <2>4. PingedBefore(v)'
    BY <1>1, <1>2, <1>4, <2>1, JobNumbers DEF PingedBefore
  <2>5. ColdIsCounted(v)'
    BY <1>1, <1>6, <2>1, ExcusedIsCounted
  <2> QED BY <2>2, <2>3, <2>4, <2>5 DEF TargetInv
<1>9. ASSUME NEW o \in Target \ {v} PROVE TargetInv(o)'
  <2>1. SameTarget(o)
    BY <1>1, <1>4, <1>5 DEF SameTarget
  <2>2. ~Called(o) /\ (Due(o) => Due(o)')
    BY <1>0, <1>1 DEF Called, Due, Visiting
  <2> QED BY <2>1, <2>2, AsBefore
<1> QED BY <1>6, <1>7, <1>8, <1>9

\* The answer hangs, the scheduler stops, or nothing happens.
LEMMA IdlenessKeepsPings ==
  ASSUME PingInv, PingHangs \/ PingsStopped \/ UNCHANGED pingVars
  PROVE  PingInv'
<1> USE DEF PingInv
<1>1. /\ UNCHANGED <<slides, window, optedIn, todo, visit, jobMemory, quotaSeen, pinged, startedBy, cold>>
      /\ pingStage' = pingStage \/ (pingStage = "ping" /\ pingStage' = "hung")
  BY DEF PingHangs, PingsStopped, pingVars
<1>2. PingTyped' /\ VisitInv'
  BY <1>1 DEF PingTyped, Visiting, VisitInv, Reported
<1>3. ASSUME NEW t \in Target PROVE TargetInv(t)'
  <2>1. SameTarget(t)
    BY <1>1 DEF SameTarget
  <2>2. (Called(t) => Called(t)') /\ (Due(t) => Due(t)')
    BY <1>1 DEF Called, Due, Visiting
  <2> QED BY <2>1, <2>2, AsBefore
<1> QED BY <1>2, <1>3

\* What a new process begins with, and the first one.
Fresh ==
  /\ slides \in [Target -> BOOLEAN] /\ window \in [Target -> 0..Window]
  /\ startedBy \in [Target -> {"nobody", "user", "ping", "recorded"}]
  /\ todo \subseteq Target /\ optedIn \subseteq Target
  /\ (pingStage = "idle" /\ todo = {}) \/ pingStage = "between"
  /\ visit = NoVisit
  /\ jobMemory = [t \in Target |-> NothingKnown]
  /\ quotaSeen = [t \in Target |-> NothingSeen]
  /\ pinged \in [Target -> PingedOf]
  /\ \A t \in Target : slides[t] => pinged[t].key <= window[t]
  /\ cold = [t \in Target |-> 0]

LEMMA FreshIsWarm == Fresh => PingInv
<1> SUFFICES ASSUME Fresh PROVE PingInv
  OBVIOUS
<1>1. NothingKnown \in MemoryOf /\ NothingKnown.reset = None /\ NothingKnown.check = 0 /\ NothingKnown.rest = 0
  BY JobNumbers DEF NothingKnown, MemoryOf
<1>2. NothingSeen \in SeenOf /\ NothingSeen.age = 2
  BY JobNumbers DEF NothingSeen, SeenOf
<1>3. jobMemory \in [Target -> MemoryOf] /\ quotaSeen \in [Target -> SeenOf] /\ cold \in [Target -> Nat]
  BY <1>1, <1>2 DEF Fresh
<1>4. PingTyped
  BY <1>3, NoVisitIsTyped DEF Fresh, PingTyped, Visiting
<1>5. VisitInv
  BY DEF Fresh, VisitInv
<1>6. ASSUME NEW t \in Target PROVE TargetInv(t)
  <2>1. jobMemory[t] = NothingKnown /\ quotaSeen[t] = NothingSeen /\ cold[t] = 0
    BY DEF Fresh
  <2>2. AnswersAreNew(t)
    BY <1>2, <2>1 DEF AnswersAreNew
  <2>3. MemoryAges(t)
    BY <1>1, <2>1, JobNumbers DEF MemoryAges
  <2>4. PingedBefore(t)
    <3>1. pinged[t].quiet \in 0..MinPing
      BY <1>4, TargetTyped
    <3> QED BY <2>1, <3>1, JobNumbers DEF PingedBefore, Fresh
  <2>5. ColdIsCounted(t)
    BY <1>1, <2>1, JobNumbers DEF ColdIsCounted
  <2> QED BY <2>2, <2>3, <2>4, <2>5 DEF TargetInv
<1> QED BY <1>4, <1>5, <1>6 DEF PingInv

LEMMA PingsBeginWarm == PingInit => PingInv
<1> SUFFICES ASSUME PingInit PROVE PingInv
  OBVIOUS
<1>1. NeverPinged \in PingedOf /\ NeverPinged.key = 0 - 2
  BY JobNumbers DEF NeverPinged, PingedOf
<1>2. pinged \in [Target -> PingedOf] /\ \A t \in Target : pinged[t].key = 0 - 2
  BY <1>1 DEF PingInit
<1>3. window \in [Target -> 0..Window]
  <2>1. {0, Window} \subseteq 0..Window
    BY JobNumbers
  <2> QED BY <2>1 DEF PingInit
<1>4. Fresh
  BY <1>2, <1>3 DEF PingInit, Fresh
<1> QED BY <1>4, FreshIsWarm

LEMMA LossKeepsPings ==
  ASSUME PingInv, PingsLost
  PROVE  PingInv'
<1>1. \A t \in Target : slides[t] => pinged[t].key <= window[t]
  BY DEF PingInv, TargetInv, PingedBefore
<1>2. Fresh'
  BY <1>1 DEF PingsLost, PingInv, PingTyped, Fresh
<1> QED BY <1>2, FreshIsWarm, PTL

\* What the cache may answer is as good as what it holds: see AnswersAreNew.
GoodAnswer(t, u) ==
  /\ u \in SeenOf /\ u.reset \in When /\ u.reset # None
  /\ slides[t] => u.reset <= Reported(t)
  /\ slides[t] /\ u.age = 0 => u.reset = Reported(t)
  /\ slides[t] /\ cold[t] > 0 => u.reset >= Window - 1
  /\ window[t] > 0 => u.reset = window[t] \/ (startedBy[t] \in {"user", "ping"} /\ u.reset # Reported(t))

LEMMA AnswersAreGood ==
  ASSUME PingInv, NEW t \in Target, NEW spent \in BOOLEAN,
         NEW u \in Answers(t, [reset |-> Reported(t), spent |-> spent, age |-> 0])
  PROVE  GoodAnswer(t, u)
<1> DEFINE fresh == [reset |-> Reported(t), spent |-> spent, age |-> 0]
<1>1. /\ window[t] \in 0..Window /\ cold[t] \in Nat /\ quotaSeen[t] \in SeenOf /\ quotaSeen[t].reset \in When
  BY TargetTyped DEF PingInv
<1>2. Reported(t) \in 0..Window /\ AnswersAreNew(t) /\ ColdIsCounted(t)
  BY <1>1, JobNumbers DEF PingInv, TargetInv, Reported
<1>3. fresh \in SeenOf /\ fresh.reset = Reported(t) /\ fresh.age = 0
  BY <1>2, JobNumbers DEF SeenOf
<1> HIDE DEF fresh
<1>4. (u = quotaSeen[t] /\ quotaSeen[t].age < 2) \/ u = fresh
  BY DEF Answers, fresh
<1>5. CASE u = quotaSeen[t] /\ quotaSeen[t].age < 2
  BY <1>1, <1>2, <1>5 DEF GoodAnswer, AnswersAreNew, Reported, PingInv, PingTyped
<1>6. CASE u = fresh
  BY <1>1, <1>2, <1>3, <1>6, JobNumbers DEF GoodAnswer, Reported, ColdIsCounted
<1> QED BY <1>4, <1>5, <1>6

LEMMA ReadingIsRemembered ==
  ASSUME PingTyped, NEW t \in Target, NEW x \in When, jobMemory' = Remembered(t, x)
  PROVE  /\ jobMemory' \in [Target -> MemoryOf]
         /\ jobMemory'[t].reset = x /\ jobMemory'[t].check = Poll(x)
         /\ jobMemory'[t].rest = jobMemory[t].rest
         /\ \A o \in Target \ {t} : jobMemory'[o] = jobMemory[o]
         /\ Poll(x) \in 0..FarPoll
<1>1. jobMemory \in [Target -> MemoryOf] /\ jobMemory[t] \in MemoryOf
  BY DEF PingTyped
<1>2. Poll(x) \in 0..FarPoll
  BY JobNumbers DEF Poll
<1> DEFINE known == [[jobMemory[t] EXCEPT !.check = Poll(x)] EXCEPT !.reset = x]
<1>3. known \in MemoryOf /\ known.reset = x /\ known.check = Poll(x) /\ known.rest = jobMemory[t].rest
  BY <1>1, <1>2 DEF MemoryOf
<1>4. jobMemory' = [jobMemory EXCEPT ![t] = known]
  BY <1>1 DEF Remembered
<1> HIDE DEF known
<1> QED BY <1>1, <1>2, <1>3, <1>4

\* A second reading of a window that slides calls for a ping, unless there was
\* one a short while ago.
LEMMA ColdIsCalled ==
  ASSUME PingInv, NEW t \in Target, NEW u, GoodAnswer(t, u), pingStage = "usage", visit.of = t,
         cold[t] > 0, jobMemory[t].reset # None,
         NEW calls \in Calls(t, u.reset), ~(calls /\ Unpinged(t, u.reset))
  PROVE  cold[t] + FarPoll <= WarmUp /\ cold[t] < WarmUp
<1>1. /\ window[t] \in 0..Window /\ cold[t] \in Nat /\ jobMemory[t].reset \in When
      /\ pinged[t].key \in When /\ pinged[t].quiet \in 0..MinPing
  BY TargetTyped DEF PingInv
<1>2. ColdIsCounted(t) /\ PingedBefore(t) /\ MemoryAges(t) /\ jobMemory[t].check = 0
  BY DEF PingInv, TargetInv, VisitInv
<1>3. slides[t] /\ window[t] = 0
  BY <1>1, <1>2 DEF ColdIsCounted
<1>4. u.reset \in {Window - 1, Window}
  BY <1>1, <1>3, JobNumbers DEF GoodAnswer, Reported
<1>5. jobMemory[t].reset <= Window - FarPoll
  BY <1>1, <1>2, JobNumbers DEF MemoryAges
<1>6. calls = TRUE
  <2>1. u.reset - jobMemory[t].reset >= 1
    BY <1>1, <1>4, <1>5, JobNumbers
  <2>2. Calls(t, u.reset) = {TRUE}
    BY <1>3, <2>1 DEF Calls
  <2> QED BY <2>2
<1>7. pinged[t].key <= 0
  BY <1>2, <1>3 DEF PingedBefore
<1>8. pinged[t].key # u.reset
  BY <1>1, <1>4, <1>7, JobNumbers
<1>9. pinged[t].quiet > 0
  BY <1>1, <1>6, <1>8 DEF Unpinged
<1>10. cold[t] < MinPing
  BY <1>1, <1>2, <1>9, JobNumbers DEF PingedBefore
<1> QED BY <1>1, <1>10, JobNumbers

LEMMA ReadingKeepsPings ==
  ASSUME PingInv, NEW spent \in BOOLEAN, UsageRead(spent)
  PROVE  PingInv'
<1>0. PICK v \in Target : v = visit.of
  BY DEF UsageRead, PingInv, PingTyped, Visiting
<1>1. PICK u \in Answers(v, [reset |-> Reported(v), spent |-> spent, age |-> 0]) :
        /\ quotaSeen' = [quotaSeen EXCEPT ![v] = u]
        /\ jobMemory' = Remembered(v, u.reset)
        /\ \E calls \in Calls(v, u.reset) :
            IF calls /\ ~u.spent /\ Unpinged(v, u.reset)
            THEN pingStage' = "ping" /\ visit' = [visit EXCEPT !.reset = u.reset] /\ UNCHANGED startedBy
            ELSE NextTarget /\ startedBy' =
                   [startedBy EXCEPT ![v] = IF u.reset = Reported(v) THEN "nobody" ELSE @]
        /\ IF u.spent THEN Excused ELSE UNCHANGED cold
  BY <1>0 DEF UsageRead
<1>2. PICK calls \in Calls(v, u.reset) :
        IF calls /\ ~u.spent /\ Unpinged(v, u.reset)
        THEN pingStage' = "ping" /\ visit' = [visit EXCEPT !.reset = u.reset] /\ UNCHANGED startedBy
        ELSE NextTarget /\ startedBy' =
               [startedBy EXCEPT ![v] = IF u.reset = Reported(v) THEN "nobody" ELSE @]
  BY <1>1
<1>3. pingStage = "usage" /\ UNCHANGED <<slides, window, optedIn, todo, pinged>>
  BY DEF UsageRead
<1>4. GoodAnswer(v, u)
  BY <1>1, AnswersAreGood
<1> DEFINE x == u.reset
<1>5. u \in SeenOf /\ x \in When /\ x # None
  BY <1>4 DEF GoodAnswer
<1>6. /\ jobMemory' \in [Target -> MemoryOf]
      /\ jobMemory'[v].reset = x /\ jobMemory'[v].check = Poll(x)
      /\ jobMemory'[v].rest = jobMemory[v].rest
      /\ \A o \in Target \ {v} : jobMemory'[o] = jobMemory[o]
      /\ Poll(x) \in 0..FarPoll
  BY <1>1, <1>5, ReadingIsRemembered DEF PingInv
<1>7. /\ quotaSeen' \in [Target -> SeenOf] /\ quotaSeen'[v] = u
      /\ \A o \in Target \ {v} : quotaSeen'[o] = quotaSeen[o]
  BY <1>1, <1>5 DEF PingInv, PingTyped
<1>8. /\ cold' \in [Target -> Nat] /\ cold'[v] = (IF u.spent THEN 0 ELSE cold[v])
      /\ \A o \in Target \ {v} : cold'[o] = cold[o]
  BY <1>0, <1>1 DEF PingInv, PingTyped, Excused
<1>9. /\ startedBy' \in [Target -> {"nobody", "user", "ping", "recorded"}]
      /\ startedBy'[v] = startedBy[v] \/ (startedBy'[v] = "nobody" /\ x = Reported(v))
      /\ \A o \in Target \ {v} : startedBy'[o] = startedBy[o]
  <2>1. startedBy \in [Target -> {"nobody", "user", "ping", "recorded"}]
    BY DEF PingInv, PingTyped
  <2> QED BY <1>2, <2>1
<1>10. \/ pingStage' = "ping" /\ visit' = [visit EXCEPT !.reset = x]
       \/ /\ pingStage' = "between" /\ visit' = NoVisit
          /\ ~(calls /\ ~u.spent /\ Unpinged(v, x))
  BY <1>2 DEF NextTarget
<1>11. visit' \in VisitOf /\ (pingStage' = "ping" => visit'.of = v /\ visit'.reset = x)
  <2>1. visit \in VisitOf
    BY DEF PingInv, PingTyped
  <2> QED BY <1>0, <1>5, <1>10, <2>1, NoVisitIsTyped DEF VisitOf
<1> HIDE DEF x
<1>12. PingTyped'
  BY <1>3, <1>6, <1>7, <1>8, <1>9, <1>10, <1>11 DEF PingInv, PingTyped, Visiting
<1>13. /\ window[v] \in 0..Window /\ cold[v] \in Nat
       /\ pinged[v].quiet \in 0..MinPing /\ jobMemory[v].rest \in 0..Cooldown
  BY TargetTyped DEF PingInv
<1>14. /\ u.reset = x
       /\ slides[v] => x <= Reported(v)
       /\ slides[v] /\ u.age = 0 => x = Reported(v)
       /\ slides[v] /\ cold[v] > 0 => x >= Window - 1
       /\ window[v] > 0 => x = window[v] \/ (startedBy[v] \in {"user", "ping"} /\ x # Reported(v))
  BY <1>4 DEF GoodAnswer, x
<1>15. VisitInv'
  BY <1>3, <1>10, <1>11, <1>14 DEF VisitInv, Reported
<1>16. AnswersAreNew(v)'
  BY <1>3, <1>5, <1>7, <1>8, <1>9, <1>13, <1>14 DEF AnswersAreNew, Reported
<1>17. MemoryAges(v)'
  <2>1. x <= Window - FarPoll + Poll(x)
    BY <1>5, JobNumbers DEF Poll
  <2>2. window[v] > 0 => Reported(v) = window[v]
    BY DEF Reported
  <2>3. startedBy'[v] = "nobody" /\ window[v] > 0 => x = window[v]
    BY <1>9, <1>14, <2>2
  <2> QED BY <1>3, <1>5, <1>6, <2>1, <2>3 DEF MemoryAges
<1>18. PingedBefore(v)'
  BY <1>3, <1>8, <1>13, JobNumbers DEF PingInv, TargetInv, PingedBefore
<1>19. ColdIsCounted(v)'
  <2>1. CASE cold'[v] = 0
    BY <1>12, <2>1, ExcusedIsCounted
  <2>2. CASE cold'[v] # 0
    <3>1. ~u.spent /\ cold'[v] = cold[v] /\ cold[v] > 0
      BY <1>8, <1>13, <2>2
    <3>2. ColdIsCounted(v) /\ Due(v) /\ ~Called(v)
      BY <1>0, <1>3 DEF PingInv, TargetInv, Due, Visiting, Called
    <3>3. cold[v] <= WarmUp
      BY <1>13, <3>2, JobNumbers DEF ColdIsCounted
    <3>4. \/ Called(v)' /\ Due(v)'
          \/ cold[v] + FarPoll <= WarmUp /\ cold[v] < WarmUp
      <4>1. CASE pingStage' = "ping"
        BY <4>1, <1>11 DEF Called, Due, Visiting
      <4>2. CASE ~(calls /\ Unpinged(v, x))
        <5>1. CASE jobMemory[v].reset = None
          BY <5>1, <1>13, <3>2, JobNumbers DEF ColdIsCounted
        <5>2. CASE jobMemory[v].reset # None
          BY <5>2, <4>2, <1>0, <1>3, <1>4, <1>14, <3>1, ColdIsCalled
        <5> QED BY <5>1, <5>2
      <4> QED BY <4>1, <4>2, <1>10, <3>1
    <3>5. cold[v] + FarPoll <= WarmUp => cold[v] + Poll(x) <= WarmUp
      BY <1>6, <1>13, JobNumbers
    <3>6. /\ window'[v] > 0 \/ ~slides'[v] => cold'[v] = 0
          /\ jobMemory'[v].rest = 0 \/ jobMemory'[v].rest + cold'[v] <= Cooldown
      BY <1>3, <1>6, <3>1, <3>2 DEF ColdIsCounted
    <3>7. jobMemory'[v].reset # None
      BY <1>5, <1>6
    <3> QED BY <1>6, <3>1, <3>3, <3>4, <3>5, <3>6, <3>7 DEF ColdIsCounted
  <2> QED BY <2>1, <2>2
<1>20. ASSUME NEW o \in Target \ {v} PROVE TargetInv(o)'
  <2>1. SameTarget(o)
    BY <1>3, <1>6, <1>7, <1>8, <1>9 DEF SameTarget
  <2>2. ~Called(o) /\ (Due(o) => Due(o)')
    BY <1>0, <1>3 DEF Called, Due, Visiting
  <2> QED BY <2>1, <2>2, AsBefore DEF PingInv
<1> QED BY <1>12, <1>15, <1>16, <1>17, <1>18, <1>19, <1>20 DEF PingInv, TargetInv

\* Points of time, one tick later.
LEMMA LaterIsTyped ==
  ASSUME NEW t, NEW x \in When
  PROVE  /\ Later(t, x) \in When /\ (Later(t, x) = None <=> x = None)
         /\ x > 0 => Later(t, x) = x - 1
         /\ x <= 0 => Later(t, x) <= 0
         /\ x <= 0 /\ slides[t] => Later(t, x) < 0
BY JobNumbers DEF Later

LEMMA TickOfTarget ==
  ASSUME PingTyped, NEW t \in Target, PingTick
  PROVE  /\ window'[t] = Less(window[t]) /\ slides'[t] = slides[t] /\ startedBy'[t] = startedBy[t]
         /\ jobMemory'[t].reset = Later(t, jobMemory[t].reset)
         /\ jobMemory'[t].check = Less(jobMemory[t].check)
         /\ jobMemory'[t].rest = Less(jobMemory[t].rest)
         /\ quotaSeen'[t].reset = Later(t, quotaSeen[t].reset)
         /\ quotaSeen'[t].age = (IF quotaSeen[t].age = 2 THEN 2 ELSE quotaSeen[t].age + 1)
         /\ pinged'[t].key = Later(t, pinged[t].key) /\ pinged'[t].quiet = Less(pinged[t].quiet)
         /\ cold'[t] = (IF window[t] > 0 \/ ~slides[t] THEN 0
                        ELSE IF scheduled /\ ~Busy /\ t \in optedIn /\ cold[t] <= WarmUp THEN cold[t] + 1
                        ELSE cold[t])
<1>1. window'[t] = Less(window[t]) /\ slides'[t] = slides[t] /\ startedBy'[t] = startedBy[t]
  BY DEF PingTick, TicksOn
<1>2. jobMemory'[t] = [reset |-> Later(t, jobMemory[t].reset), check |-> Less(jobMemory[t].check),
                       rest |-> Less(jobMemory[t].rest)]
  BY DEF PingTick, TicksOn
<1>3. quotaSeen'[t] = [reset |-> Later(t, quotaSeen[t].reset), spent |-> quotaSeen[t].spent,
                       age |-> IF quotaSeen[t].age = 2 THEN 2 ELSE quotaSeen[t].age + 1]
  BY DEF PingTick, TicksOn
<1>4. pinged'[t] = [key |-> Later(t, pinged[t].key), quiet |-> Less(pinged[t].quiet)]
  BY DEF PingTick, TicksOn
<1>5. cold'[t] = (IF window[t] > 0 \/ ~slides[t] THEN 0
                  ELSE IF scheduled /\ ~Busy /\ t \in optedIn /\ cold[t] <= WarmUp THEN cold[t] + 1
                  ELSE cold[t])
  BY DEF PingTick
<1> QED BY <1>1, <1>2, <1>3, <1>4, <1>5

LEMMA TickOfStage ==
  ASSUME PingTyped, PingTick
  PROVE  /\ UNCHANGED <<slides, optedIn, scheduled, startedBy>>
         /\ \/ scheduled /\ pingStage = "idle" /\ pingStage' = "between" /\ todo' = optedIn
            \/ ~(scheduled /\ ~Busy) /\ UNCHANGED <<pingStage, todo>>
         /\ visit' \in VisitOf /\ visit'.of = visit.of /\ visit'.reset = Later(visit.of, visit.reset)
<1>1. visit \in VisitOf /\ visit.reset \in When
  BY DEF PingTyped, VisitOf
<1>2. Later(visit.of, visit.reset) \in When
  BY <1>1, LaterIsTyped
<1>3. \E n \in 0..1 : visit' = [[visit EXCEPT !.reset = Later(visit.of, visit.reset)] EXCEPT !.since = n]
  <2>1. CASE Busy
    BY <1>1, <2>1 DEF PingTick, VisitOf
  <2>2. CASE ~Busy
    BY <1>1, <2>2 DEF PingTick, VisitOf
  <2> QED BY <2>1, <2>2
<1>4. visit' \in VisitOf /\ visit'.of = visit.of /\ visit'.reset = Later(visit.of, visit.reset)
  BY <1>1, <1>2, <1>3 DEF VisitOf
<1> QED BY <1>4 DEF PingTick, Busy

LEMMA TickIsTyped ==
  ASSUME PingTyped, PingTick
  PROVE  PingTyped'
<1>1. ASSUME NEW t \in Target
      PROVE  /\ Less(window[t]) \in 0..Window
             /\ Later(t, jobMemory[t].reset) \in When /\ Less(jobMemory[t].check) \in 0..FarPoll
             /\ Less(jobMemory[t].rest) \in 0..Cooldown
             /\ Later(t, quotaSeen[t].reset) \in When /\ quotaSeen[t].spent \in BOOLEAN
             /\ (IF quotaSeen[t].age = 2 THEN 2 ELSE quotaSeen[t].age + 1) \in 0..2
             /\ Later(t, pinged[t].key) \in When /\ Less(pinged[t].quiet) \in 0..MinPing
             /\ cold[t] \in Nat /\ cold[t] + 1 \in Nat
  <2>1. /\ window[t] \in 0..Window /\ cold[t] \in Nat /\ quotaSeen[t] \in SeenOf
        /\ jobMemory[t].reset \in When /\ jobMemory[t].check \in 0..FarPoll
        /\ jobMemory[t].rest \in 0..Cooldown
        /\ quotaSeen[t].reset \in When /\ quotaSeen[t].age \in 0..2
        /\ pinged[t].key \in When /\ pinged[t].quiet \in 0..MinPing
    BY TargetTyped
  <2>2. quotaSeen[t].spent \in BOOLEAN
    BY <2>1 DEF SeenOf
  <2>3. /\ Later(t, jobMemory[t].reset) \in When /\ Later(t, quotaSeen[t].reset) \in When
        /\ Later(t, pinged[t].key) \in When
    BY <2>1, LaterIsTyped
  <2> QED BY <2>1, <2>2, <2>3, JobNumbers DEF Less
<1>2. window' \in [Target -> 0..Window]
  BY <1>1 DEF PingTick, TicksOn
<1>3. jobMemory' \in [Target -> MemoryOf]
  <2>1. \A t \in Target : [reset |-> Later(t, jobMemory[t].reset), check |-> Less(jobMemory[t].check),
                           rest |-> Less(jobMemory[t].rest)] \in MemoryOf
    BY <1>1 DEF MemoryOf
  <2> QED BY <2>1 DEF PingTick, TicksOn
<1>4. quotaSeen' \in [Target -> SeenOf]
  <2>1. \A t \in Target : [reset |-> Later(t, quotaSeen[t].reset), spent |-> quotaSeen[t].spent,
                           age |-> IF quotaSeen[t].age = 2 THEN 2 ELSE quotaSeen[t].age + 1] \in SeenOf
    BY <1>1 DEF SeenOf
  <2> QED BY <2>1 DEF PingTick, TicksOn
<1>5. pinged' \in [Target -> PingedOf]
  <2>1. \A t \in Target : [key |-> Later(t, pinged[t].key), quiet |-> Less(pinged[t].quiet)] \in PingedOf
    BY <1>1 DEF PingedOf
  <2> QED BY <2>1 DEF PingTick, TicksOn
<1>6. cold' \in [Target -> Nat]
  <2>1. \A t \in Target : (IF window[t] > 0 \/ ~slides[t] THEN 0
                           ELSE IF scheduled /\ ~Busy /\ t \in optedIn /\ cold[t] <= WarmUp THEN cold[t] + 1
                           ELSE cold[t]) \in Nat
    BY <1>1
  <2> QED BY <2>1 DEF PingTick
<1>7. /\ UNCHANGED <<slides, optedIn, startedBy>> /\ visit' \in VisitOf /\ visit'.of = visit.of
      /\ \/ pingStage' = "between" /\ todo' = optedIn
         \/ UNCHANGED <<pingStage, todo>>
  BY TickOfStage
<1> QED BY <1>2, <1>3, <1>4, <1>5, <1>6, <1>7 DEF PingTyped, Visiting

LEMMA TickKeepsPings ==
  ASSUME PingInv, PingTick
  PROVE  PingInv'
<1>0. PingTyped /\ VisitInv
  BY DEF PingInv
<1>1. PingTyped'
  BY <1>0, TickIsTyped
<1>2. /\ UNCHANGED <<slides, optedIn, scheduled, startedBy>>
      /\ \/ scheduled /\ pingStage = "idle" /\ pingStage' = "between" /\ todo' = optedIn
         \/ ~(scheduled /\ ~Busy) /\ UNCHANGED <<pingStage, todo>>
      /\ visit'.of = visit.of /\ visit'.reset = Later(visit.of, visit.reset)
  BY <1>0, TickOfStage
<1>3. ASSUME NEW t \in Target PROVE TargetInv(t)'
  <2>1. /\ window'[t] = Less(window[t]) /\ slides'[t] = slides[t] /\ startedBy'[t] = startedBy[t]
        /\ jobMemory'[t].reset = Later(t, jobMemory[t].reset)
        /\ jobMemory'[t].check = Less(jobMemory[t].check)
        /\ jobMemory'[t].rest = Less(jobMemory[t].rest)
        /\ quotaSeen'[t].reset = Later(t, quotaSeen[t].reset)
        /\ quotaSeen'[t].age = (IF quotaSeen[t].age = 2 THEN 2 ELSE quotaSeen[t].age + 1)
        /\ pinged'[t].key = Later(t, pinged[t].key) /\ pinged'[t].quiet = Less(pinged[t].quiet)
        /\ cold'[t] = (IF window[t] > 0 \/ ~slides[t] THEN 0
                       ELSE IF scheduled /\ ~Busy /\ t \in optedIn /\ cold[t] <= WarmUp THEN cold[t] + 1
                       ELSE cold[t])
    BY <1>0, TickOfTarget
  <2>2. /\ window[t] \in 0..Window /\ cold[t] \in Nat
        /\ jobMemory[t].reset \in When /\ jobMemory[t].check \in 0..FarPoll
        /\ jobMemory[t].rest \in 0..Cooldown
        /\ quotaSeen[t].reset \in When /\ quotaSeen[t].age \in 0..2
        /\ pinged[t].key \in When /\ pinged[t].quiet \in 0..MinPing
    BY <1>0, TargetTyped
  <2>3. AnswersAreNew(t) /\ MemoryAges(t) /\ PingedBefore(t) /\ ColdIsCounted(t)
    BY DEF PingInv, TargetInv
  <2>4. AnswersAreNew(t)'
    <3>1. CASE quotaSeen'[t].age < 2
      <4>1. quotaSeen[t].age = 0 /\ quotaSeen[t].reset # None /\ quotaSeen'[t].age = 1
        BY <2>1, <2>2, <2>3, <3>1 DEF AnswersAreNew
      <4>2. quotaSeen'[t].reset # None
        BY <2>1, <2>2, <4>1, LaterIsTyped
      <4>3. slides[t] => quotaSeen[t].reset = Reported(t)
        BY <2>3, <4>1 DEF AnswersAreNew
      <4>4. slides[t] => quotaSeen'[t].reset = Reported(t) - 1
        BY <2>1, <2>2, <4>3, LaterIsTyped, JobNumbers DEF Reported
      <4>5. window'[t] > 0 /\ startedBy[t] \notin {"user", "ping"} => quotaSeen'[t].reset = window'[t]
        BY <2>1, <2>2, <2>3, <4>1, LaterIsTyped DEF AnswersAreNew, Less
      <4>6. slides[t] => Reported(t) - 1 <= Reported(t)' /\ (cold'[t] > 0 => Reported(t) = Window)
        BY <2>1, <2>2, JobNumbers DEF Reported, Less
      <4> QED BY <2>1, <2>2, <4>1, <4>2, <4>4, <4>5, <4>6, JobNumbers DEF AnswersAreNew
    <3> QED BY <3>1 DEF AnswersAreNew
  <2>5. MemoryAges(t)'
    <3>1. jobMemory'[t].reset = None <=> jobMemory[t].reset = None
      BY <2>1, <2>2, LaterIsTyped
    <3>2. jobMemory[t].reset = None => jobMemory'[t].check <= 1
      BY <2>1, <2>2, <2>3 DEF MemoryAges, Less
    <3>3. jobMemory[t].reset # None => jobMemory'[t].reset <= Window - FarPoll + jobMemory'[t].check
      <4>1. /\ jobMemory[t].reset > 0 => jobMemory'[t].reset = jobMemory[t].reset - 1
            /\ jobMemory[t].reset <= 0 => jobMemory'[t].reset <= 0
            /\ jobMemory'[t].reset \in When
        BY <2>1, <2>2, LaterIsTyped
      <4> QED BY <2>1, <2>2, <2>3, <4>1, JobNumbers DEF MemoryAges, Less
    <3>4. slides[t] /\ window'[t] > 0 /\ startedBy[t] = "nobody" => jobMemory'[t].reset \in {None, window'[t]}
      <4>1. window'[t] > 0 => window[t] > 0 /\ window'[t] = window[t] - 1
        BY <2>1, <2>2 DEF Less
      <4>2. jobMemory[t].reset = window[t] /\ window[t] > 0 => jobMemory'[t].reset = window[t] - 1
        BY <2>1, <2>2, LaterIsTyped
      <4> QED BY <2>3, <3>1, <4>1, <4>2 DEF MemoryAges
    <3> QED BY <2>1, <3>1, <3>2, <3>3, <3>4 DEF MemoryAges
  <2>6. PingedBefore(t)'
    <3>1. slides[t] => pinged'[t].key <= window'[t]
      <4>1. /\ pinged[t].key > 0 => pinged'[t].key = pinged[t].key - 1
            /\ pinged[t].key <= 0 => pinged'[t].key <= 0
        BY <2>1, <2>2, LaterIsTyped
      <4>2. /\ window[t] > 0 => window'[t] = window[t] - 1 /\ window'[t] >= 0
            /\ window[t] = 0 => window'[t] = 0
        BY <2>1, <2>2 DEF Less
      <4>3. pinged[t].key \in Int /\ pinged'[t].key \in Int
        BY <2>1, <2>2, LaterIsTyped, JobNumbers
      <4> QED BY <2>2, <2>3, <4>1, <4>2, <4>3 DEF PingedBefore
    <3>2. pinged'[t].quiet = 0 \/ pinged'[t].quiet + cold'[t] <= MinPing
      BY <2>1, <2>2, <2>3, JobNumbers DEF PingedBefore, Less
    <3> QED BY <2>1, <3>1, <3>2 DEF PingedBefore
  <2>7. ColdIsCounted(t)'
    <3>1. CASE cold'[t] = 0
      BY <1>1, <3>1, ExcusedIsCounted
    <3>2. CASE cold'[t] # 0 /\ cold'[t] = cold[t]
      <4>1. window[t] = 0 /\ slides[t] /\ window'[t] = 0
        BY <2>1, <2>2, <3>2 DEF Less
      <4>2. (Called(t) => Called(t)') /\ (Due(t) => Due(t)')
        BY <1>0, <1>2 DEF Called, Due, Visiting, VisitInv, Busy
      <4>3. jobMemory'[t].reset = None <=> jobMemory[t].reset = None
        BY <2>1, <2>2, LaterIsTyped
      <4> QED BY <2>1, <2>2, <2>3, <3>2, <4>1, <4>2, <4>3, JobNumbers DEF ColdIsCounted, Less
    <3>3. CASE cold'[t] = cold[t] + 1
      <4>1. window[t] = 0 /\ slides[t] /\ window'[t] = 0 /\ scheduled /\ ~Busy /\ t \in optedIn
        BY <2>1, <2>2, <3>3 DEF Less
      <4>2. ~Called(t) /\ ~Due(t) /\ Due(t)' /\ ~Called(t)'
        BY <1>0, <1>2, <4>1 DEF Called, Due, Visiting, VisitInv, Busy
      <4>3. jobMemory'[t].reset = None <=> jobMemory[t].reset = None
        BY <2>1, <2>2, LaterIsTyped
      <4>4. jobMemory[t].reset = None => jobMemory'[t].check = 0
        BY <2>1, <2>2, <2>3 DEF MemoryAges, Less
      <4>5. jobMemory'[t].rest = 0 \/ jobMemory'[t].rest + cold'[t] <= Cooldown
        BY <2>1, <2>2, <2>3, <3>3 DEF ColdIsCounted, Less
      <4>6. CASE jobMemory[t].reset = None
        BY <2>1, <2>2, <2>3, <3>3, <4>1, <4>2, <4>3, <4>4, <4>5, <4>6, JobNumbers DEF ColdIsCounted
      <4>7. CASE jobMemory[t].reset # None
        <5>1. cold[t] < WarmUp /\ cold[t] + jobMemory[t].check <= WarmUp
          BY <2>3, <4>2, <4>7 DEF ColdIsCounted
        <5>2. cold'[t] <= WarmUp /\ cold'[t] + jobMemory'[t].check <= WarmUp
          BY <2>1, <2>2, <3>3, <5>1, JobNumbers DEF Less
        <5> QED BY <2>1, <4>1, <4>2, <4>3, <4>5, <4>7, <5>2 DEF ColdIsCounted
      <4> QED BY <4>6, <4>7
    <3> QED BY <2>1, <3>1, <3>2, <3>3
  <2> QED BY <2>4, <2>5, <2>6, <2>7 DEF TargetInv
<1>4. VisitInv'
  <2>1. CASE pingStage' = "between"
    BY <2>1 DEF VisitInv
  <2>2. CASE pingStage' = "idle"
    BY <1>0, <1>2, <2>2 DEF VisitInv
  <2>3. CASE pingStage' \notin {"idle", "between"}
    <3>1. PICK v \in Target : v = visit.of
      BY <1>0, <1>2, <2>3 DEF PingTyped, Visiting
    <3>2. UNCHANGED <<pingStage, todo>> /\ Busy
      BY <1>2, <2>3 DEF Busy
    <3>3. /\ window'[v] = Less(window[v]) /\ slides'[v] = slides[v]
          /\ jobMemory'[v].check = Less(jobMemory[v].check)
          /\ cold'[v] = (IF window[v] > 0 \/ ~slides[v] THEN 0 ELSE cold[v])
      BY <1>0, <3>2, TickOfTarget
    <3>4. visit'.reset = Later(v, visit.reset) /\ visit.reset \in When /\ visit'.of = v
      BY <1>0, <1>2, <3>1 DEF PingTyped, VisitOf
    <3>5. window[v] \in 0..Window /\ jobMemory[v].check \in 0..FarPoll
      BY <1>0, TargetTyped
    <3>6. /\ visit.reset > 0 => visit'.reset = visit.reset - 1
          /\ visit.reset <= 0 => visit'.reset <= 0
          /\ visit'.reset \in When /\ visit'.reset \in Int /\ visit.reset \in Int
      BY <3>4, LaterIsTyped, JobNumbers
    <3>7. pingStage \in {"refresh", "usage"} => jobMemory'[v].check = 0
      BY <1>0, <3>1, <3>3 DEF VisitInv, Less
    <3>8. pingStage = "ping" /\ slides[v] => visit'.reset <= Reported(v)'
      <4>1. pingStage = "ping" /\ slides[v] => visit.reset <= Reported(v)
        BY <1>0, <3>1 DEF VisitInv
      <4> QED BY <3>3, <3>5, <3>6, <4>1, JobNumbers DEF Reported, Less
    <3>9. pingStage = "record" => cold'[v] = 0 /\ (slides[v] => visit'.reset <= window'[v])
      <4>1. pingStage = "record" => cold[v] = 0 /\ (slides[v] => visit.reset <= window[v])
        BY <1>0, <3>1 DEF VisitInv
      <4> QED BY <3>3, <3>5, <3>6, <4>1, JobNumbers DEF Less
    <3> QED BY <2>3, <3>1, <3>2, <3>3, <3>4, <3>7, <3>8, <3>9 DEF VisitInv, Reported
  <2> QED BY <2>1, <2>2, <2>3
<1> QED BY <1>1, <1>3, <1>4 DEF PingInv

LEMMA PingsAreKept ==
  ASSUME PingInv, [Next]_vars
  PROVE  PingInv'
<1>1. CASE PingNext
  BY <1>1, TickKeepsPings, EndKeepsPings, FailureKeepsPings, EmptyKeepsPings,
     AcceptanceKeepsPings, BreakKeepsPings, IdlenessKeepsPings, RecordKeepsPings,
     UserKeepsPings, VisitKeepsPings, ViewKeepsPings, ConfigureKeepsPings,
     RefreshKeepsPings, ReadingKeepsPings DEF PingNext
<1>2. CASE PingsStopped \/ PingsLost \/ UNCHANGED pingVars
  BY <1>2, IdlenessKeepsPings, LossKeepsPings
<1> QED BY <1>1, <1>2, StepsOfPings

LEMMA PingsStayWarm == Spec => []PingInv
<1>1. Init => PingInv
  BY PingsBeginWarm DEF Init
<1> QED BY <1>1, PingsAreKept, PTL DEF Spec

LEMMA NothingStaysCold == PingInv => WindowsAreWarmed
<1> SUFFICES ASSUME PingInv, NEW t \in Target PROVE cold[t] <= WarmUp
  BY DEF WindowsAreWarmed
<1>1. ColdIsCounted(t) /\ cold[t] \in Nat /\ jobMemory[t].check \in 0..FarPoll
  BY TargetTyped DEF PingInv, TargetInv
<1> QED BY <1>1, JobNumbers DEF ColdIsCounted

(* No sliding window stays idle for longer than the ticks that the rest after *)
(* a failure and the two readings take, whatever the cache answers; and the   *)
(* day's credits are claimed two ticks after the idle interval at the latest, *)
(* for any lengths of the intervals and any number of targets.                *)
THEOREM JobsAlwaysDoTheirWork == Spec => []JobsDoTheirWork
<1>1. PingInv /\ EachDayIsClaimed => JobsDoTheirWork
  BY NothingStaysCold DEF JobsDoTheirWork
<1> QED BY <1>1, PingsStayWarm, DaysStayClaimed, PTL

\* Only a reading sends a ping.
LEMMA PingsFollowReadings ==
  ASSUME [Next]_vars, pingStage # "ping", pingStage' = "ping"
  PROVE  \E spent \in BOOLEAN : UsageRead(spent)
BY StepsOfPings
   DEF PingNext, PingTick, Configure, DashboardLoads, UserStartsWindow, VisitTarget, TickEnds, NextTarget,
       VisitFails, Refreshed, UsageEmpty, PingAccepted, PingBreaksOff, PingHangs, PingRecorded,
       PingsStopped, PingsLost, pingVars

LEMMA NeededPings ==
  ASSUME PingInv, [Next]_vars, pingStage # "ping", pingStage' = "ping", window[visit.of] > 0
  PROVE  \/ startedBy[visit.of] \in {"user", "ping"}
         \/ startedBy[visit.of] = "recorded" /\ pinged[visit.of].quiet = 0
         \/ ~slides[visit.of] /\ window[visit.of] = 1
<1>1. PICK spent \in BOOLEAN : UsageRead(spent)
  BY PingsFollowReadings
<1>2. PICK v \in Target : v = visit.of
  BY <1>1 DEF UsageRead, PingInv, PingTyped, Visiting
<1>3. PICK u \in Answers(v, [reset |-> Reported(v), spent |-> spent, age |-> 0]) :
        \E calls \in Calls(v, u.reset) : calls /\ Unpinged(v, u.reset)
  BY <1>1, <1>2 DEF UsageRead, NextTarget
<1>4. PICK calls \in Calls(v, u.reset) : calls /\ Unpinged(v, u.reset)
  BY <1>3
<1>5. GoodAnswer(v, u)
  BY <1>3, AnswersAreGood
<1>6. CASE startedBy[v] \in {"user", "ping"}
  BY <1>2, <1>6
<1>7. CASE startedBy[v] \notin {"user", "ping"}
  <2>1. u.reset = window[v] /\ window[v] > 0 /\ window[v] \in Int
    BY <1>2, <1>5, <1>7 DEF GoodAnswer, PingInv, PingTyped
  <2>2. CASE slides[v]
    <3>1. pinged[v].quiet = 0
      BY <1>4, <2>2 DEF Unpinged
    <3>2. jobMemory[v].reset # None /\ u.reset - jobMemory[v].reset >= 1
      BY <1>4, <2>2 DEF Calls
    <3>3. startedBy[v] # "nobody"
      BY <2>1, <2>2, <3>2, <1>2 DEF PingInv, TargetInv, MemoryAges
    <3>4. startedBy[v] = "recorded"
      BY <1>7, <3>3 DEF PingInv, PingTyped
    <3> QED BY <1>2, <3>1, <3>4
  <2>3. CASE ~slides[v]
    <3>1. window[v] = 1
      <4>1. SUFFICES ASSUME window[v] # 1 PROVE FALSE
        OBVIOUS
      <4>2. ~(u.reset <= 0) /\ u.reset # 1
        BY <2>1, <4>1
      <4>3. Calls(v, u.reset) = {FALSE}
        BY <2>3, <4>2, Zenon DEF Calls
      <4>4. ~calls
        BY <4>3, Zenon
      <4> QED BY <1>4, <4>4
    <3> QED BY <1>2, <2>3, <3>1
  <2> QED BY <2>2, <2>3
<1> QED BY <1>6, <1>7

(* A ping into an active window is sent only where the job cannot know better:*)
(* what it reads is true of a window nobody has started since, and then the   *)
(* reset it remembers is the same.                                            *)
THEOREM PingsStayNeeded == Spec => PingsAreNeeded
<1>1. ASSUME PingInv, [Next]_vars
      PROVE  [pingStage' = "ping" /\ pingStage # "ping" /\ window[visit.of] > 0
                => \/ startedBy[visit.of] \in {"user", "ping"}
                   \/ startedBy[visit.of] = "recorded" /\ pinged[visit.of].quiet = 0
                   \/ ~slides[visit.of] /\ window[visit.of] = 1]_pingVars
  BY <1>1, NeededPings
<1> QED BY <1>1, PingsStayWarm, PTL DEF Spec, PingsAreNeeded

-----------------------------------------------------------------------------
(* Callers of the quota cache and of the project ids share the work of one of *)
(* them, none is left with its failure, and the sessions of a plugin stay     *)
(* with their child, for any number of calls, fetches, children and restarts. *)
THEOREM WorkStaysShared == Spec => []WorkIsShared
<1>1. QuotaInv /\ FetchesAreShared /\ SessionsKeepTheirChild => WorkIsShared
  BY DEF QuotaInv, WorkIsShared
<1> QED BY <1>1, QuotaStays, FetchesStayShared, SessionsStayWithTheirChild, PTL

(* The newer of two values stays: a final row over its placeholder, a live    *)
(* sample over a stored one, a stored account over a flush that has not seen  *)
(* the store, a later load of a quota over an earlier one.                    *)
THEOREM NewerAlwaysStays == Spec => NewerStays
<1>1. ASSUME StoreInv, DetailInv, [Next]_vars
      PROVE  [\A i \in Detail :
                mem.details[i].ver = 2 /\ mem'.details[i].ver = 1
                  => restarts' # restarts]_<<storeVars, detailVars>>
  BY <1>1, FinalRowKept
<1>2. ASSUME StoreInv, LatencyInv, [Next]_vars
      PROVE  [\A c \in Conn : ewma'[c] < ewma[c] => ewma'[c] = 0]_<<storeVars, latencyVars>>
  BY <1>2, EntriesGoForward
<1>3. ASSUME StoreInv, LatencyInv, [Next]_vars
      PROVE  [\A c \in Conn : mem.latency[c] # 0 /\ mem'.latency[c] = 0 =>
                 \/ restarts' # restarts
                 \/ ~Head(writes).whole
                 \/ Cardinality({d \in Conn : mem'.latency[d] > mem.latency[c]}) >= MaxEntries
             ]_<<storeVars, latencyVars>>
  BY <1>3, StoredGoesForNewer
<1>4. ASSUME QuotaInv, [Next]_vars
      PROVE  [\A k \in QuotaKey :
                entries'[k].value # 0 /\ entries'[k].value < entries[k].value
                  => loads[entries'[k].value].epoch < epoch[k]]_quotaVars
  BY <1>4, QuotaInvKept
<1>5. Spec => FinalRowStays
  BY <1>1, StoreStays, DetailsStay, PTL DEF Spec, FinalRowStays
<1>6. Spec => LiveSampleWins
  BY <1>2, StoreStays, LatencyStays, PTL DEF Spec, LiveSampleWins
<1>7. Spec => NothingForgottenOnceHydrated
  BY <1>3, StoreStays, LatencyStays, PTL DEF Spec, NothingForgottenOnceHydrated
<1>8. Spec => NewestLoadWins
  BY <1>4, QuotaStays, PTL DEF Spec, NewestLoadWins
<1> QED BY <1>5, <1>6, <1>7, <1>8 DEF NewerStays
===============================================================================
