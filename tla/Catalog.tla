------------------------------- MODULE Catalog -------------------------------
(***************************************************************************)
(* The configuration the dashboard edits: provider nodes, the connections  *)
(* that belong to them, proxy pools connections may use, and combos.  A    *)
(* connection carries a copy of its node's base URL.  The API routes read, *)
(* wait, and write; the repositories write in transactions.                *)
(*                                                                         *)
(* An id is given out once.  Aliases, custom and disabled models, prices   *)
(* and settings name nodes as combos do and go with them alike; fields of  *)
(* a connection that name nothing are left out.                            *)
(***************************************************************************)
EXTENDS Naturals, FiniteSets

CONSTANTS
  Node, FirstNode, MaxUrl,
  Pool, Combo,
  MaxConn,   \* bound; the first two exist at the start
  Editor,    \* dashboard requests that read before they write
  MaxOps     \* bound

Conn == 1..MaxConn
BuiltIn == "built-in"                 \* a provider that is no node
Other == "other"                      \* a model of such a provider
Direct == "direct"                    \* no pool
Kept == "kept"                        \* a field the request does not name

ASSUME CatalogAssumption ==
  /\ FirstNode \in Node /\ {MaxUrl, MaxConn, MaxOps} \subseteq Nat /\ MaxConn >= 2
  /\ IsFiniteSet(Node) /\ IsFiniteSet(Pool) /\ IsFiniteSet(Combo)
  /\ Node \cap {BuiltIn, Other} = {} /\ (Node \cup Combo) \cap Conn = {}

VARIABLES
  nodes,      \* base URL (0: the node does not exist)
  pools,
  conns,
  combos,     \* providers of the models ({}: the combo does not exist)
  unused,     \* ids not given out yet
  editing,    \* requests under way
  exported,   \* a backup of all these tables
  ops,        \* operations so far
  merged,     \* history: providers with a priority given by a merge
  stale       \* history: what was written with something that had gone or changed

catalogVars == <<nodes, pools, conns, combos, unused, editing, exported, ops, merged, stale>>
tables == <<nodes, pools, conns, combos>>

NoConn == [on |-> FALSE, provider |-> BuiltIn, name |-> 0, priority |-> 0, url |-> 0, pool |-> Direct]
Row(p, nm, k, u, q) ==
  [on |-> TRUE, provider |-> p, name |-> nm, priority |-> k, url |-> u, pool |-> q]

Idle == [op |-> "idle", conn |-> 0, node |-> FirstNode, name |-> 0, pool |-> Direct,
         priority |-> 0, url |-> 0, todo |-> {}]

Snapshot == [nodes |-> nodes, pools |-> pools, conns |-> conns, combos |-> combos,
             merged |-> merged, stale |-> stale]

CatalogInit ==
  /\ nodes = [n \in Node |-> IF n = FirstNode THEN 1 ELSE 0]
  /\ pools = Pool
  /\ conns = [c \in Conn |-> IF c <= 2 THEN Row(FirstNode, c, c, 1, Direct) ELSE NoConn]
  /\ combos = [b \in Combo |-> {FirstNode, Other}]
  /\ unused = (Node \ {FirstNode}) \cup (3..MaxConn)
  /\ editing = [e \in Editor |-> Idle]
  /\ merged = {} /\ stale = {} /\ ops = 0
  /\ exported = Snapshot

Of(cs, p) == {c \in Conn : cs[c].on /\ cs[c].provider = p}

\* Copies of a URL that is not the node's, and of a pool that is not there.
Apart(cs) == {c \in Conn : cs[c].on /\ cs[c].provider \in Node /\ nodes[cs[c].provider] # cs[c].url}
Unpooled(cs) == {c \in Conn : cs[c].on /\ cs[c].pool \notin pools \cup {Direct}}

\* A write leaves c in order, or with what its request read too early.
Restale(cs, c) == stale' = IF c \in Apart(cs) \cup Unpooled(cs) THEN stale \cup {c} ELSE stale \ {c}

Begin == ops < MaxOps /\ ops' = ops + 1
Goto(e, r) == editing' = [editing EXCEPT ![e] = r]

-----------------------------------------------------------------------------
(* Priorities of a provider's connections are renumbered in their order;      *)
(* equals in that of their last writes.                                       *)
\* Mutant: numbered from 0.
ZeroBased(cs, p) ==
  {f \in [Of(cs, p) -> 0..Cardinality(Of(cs, p)) - 1] :
     \A c, d \in Of(cs, p) : /\ c # d => f[c] # f[d]
                             /\ cs[c].priority < cs[d].priority => f[c] < f[d]}

\* reorderInTx
Orders(cs, p) ==
  {f \in [Of(cs, p) -> 1..Cardinality(Of(cs, p))] :
     \A c, d \in Of(cs, p) : /\ c # d => f[c] # f[d]
                             /\ cs[c].priority < cs[d].priority => f[c] < f[d]}

Reorder(cs, p) ==
  /\ \E f \in Orders(cs, p) :
       conns' = [c \in Conn |-> IF c \in Of(cs, p) THEN [cs[c] EXCEPT !.priority = f[c]] ELSE cs[c]]
  /\ merged' = merged \ {p}

HighestOf(p) == LET S == {conns[c].priority : c \in Of(conns, p)} \cup {0}
                IN  CHOOSE k \in S : \A j \in S : j <= k

(* createProviderConnection: one of the same name is overwritten, with the    *)
(* priority that was asked for.                                               *)
Create(p, nm, k, u, q) ==
  \/ \E c \in Of(conns, p) :
       /\ conns[c].name = nm
       /\ conns' = [conns EXCEPT ![c] = Row(p, nm, IF k = 0 THEN @.priority ELSE k, u, q)]
       /\ merged' = IF k = 0 THEN merged ELSE merged \cup {p}
       /\ Restale(conns', c) /\ UNCHANGED unused
  \/ \E c \in unused \cap Conn :
       /\ \A d \in Of(conns, p) : conns[d].name # nm
       /\ \A d \in unused \cap Conn : c <= d
       /\ unused' = unused \ {c}
       /\ Reorder([conns EXCEPT ![c] = Row(p, nm, IF k = 0 THEN HighestOf(p) + 1 ELSE k, u, q)], p)
       /\ Restale(conns', c)

-----------------------------------------------------------------------------
(* POST /api/providers: the pool is looked up, then the node.                 *)
BeginPost(e, n, nm, k, q) ==
  /\ editing[e] = Idle /\ Begin
  /\ Goto(e, [Idle EXCEPT !.op = IF q \in Pool THEN "postPool" ELSE "postNode",
                          !.node = n, !.name = nm, !.priority = k, !.pool = q])
  /\ UNCHANGED <<tables, unused, exported, merged, stale>>

\* The pool of a POST or PUT.
FindPool(e) ==
  /\ editing[e].op \in {"postPool", "putPool"}
  /\ Goto(e, IF editing[e].pool \notin pools THEN Idle
             ELSE [editing[e] EXCEPT !.op = IF @ = "postPool" THEN "postNode" ELSE "putWrite"])
  /\ UNCHANGED <<tables, unused, exported, ops, merged, stale>>

FindNode(e) ==
  /\ editing[e].op = "postNode"
  /\ Goto(e, IF nodes[editing[e].node] = 0 THEN Idle
             ELSE [editing[e] EXCEPT !.op = "postWrite", !.url = nodes[editing[e].node]])
  /\ UNCHANGED <<tables, unused, exported, ops, merged, stale>>

WritePost(e) ==
  LET r == editing[e]
  IN  /\ r.op = "postWrite"
      /\ Create(r.node, r.name, r.priority, r.url, r.pool)
      /\ Goto(e, Idle)
      /\ UNCHANGED <<nodes, pools, combos, exported, ops>>

(* A login: a connection of a built-in provider, without a priority.          *)
Login(nm) ==
  /\ Begin
  /\ Create(BuiltIn, nm, 0, 0, Direct)
  /\ UNCHANGED <<nodes, pools, combos, editing, exported>>

(* PUT /api/providers/[id]: the fields that are not named are written as they *)
(* were read.                                                                 *)
BeginPut(e, c, k, q) ==
  /\ editing[e] = Idle /\ conns[c].on /\ Begin
  /\ Goto(e, [Idle EXCEPT !.op = IF q \in Pool THEN "putPool" ELSE "putWrite",
                          !.conn = c, !.priority = k, !.url = conns[c].url,
                          !.pool = IF q = Kept THEN conns[c].pool ELSE q])
  /\ UNCHANGED <<tables, unused, exported, merged, stale>>

NoPriority == MaxConn + 1

\* updateProviderConnection
WritePut(e) ==
  LET r == editing[e]
      Updated == [conns EXCEPT ![r.conn] = [@ EXCEPT !.url = r.url, !.pool = r.pool]]
  IN  /\ r.op = "putWrite"
      /\ Goto(e, Idle)
      /\ \/ ~conns[r.conn].on /\ UNCHANGED <<conns, merged, stale>>
         \/ /\ conns[r.conn].on
            /\ IF r.priority = NoPriority THEN conns' = Updated /\ UNCHANGED merged
               ELSE Reorder([Updated EXCEPT ![r.conn].priority = r.priority], conns[r.conn].provider)
            /\ Restale(conns', r.conn)
      /\ UNCHANGED <<nodes, pools, combos, unused, exported, ops>>

\* deleteProviderConnection
DeleteConnection(c) ==
  /\ conns[c].on /\ Begin
  /\ Reorder([conns EXCEPT ![c] = NoConn], conns[c].provider)
  /\ stale' = stale \ {c}
  /\ UNCHANGED <<nodes, pools, combos, unused, editing, exported>>

-----------------------------------------------------------------------------
CreateNode(n, u) ==
  /\ n \in unused /\ Begin
  /\ nodes' = [nodes EXCEPT ![n] = u] /\ unused' = unused \ {n}
  /\ UNCHANGED <<pools, conns, combos, editing, exported, merged, stale>>

(* PUT /api/provider-nodes/[id]: the node, then a list of its connections,    *)
(* then each of them.                                                         *)
BeginEdit(e, n, u) ==
  /\ editing[e] = Idle /\ nodes[n] # 0 /\ Begin
  /\ Goto(e, [Idle EXCEPT !.op = "edit", !.node = n, !.url = u])
  /\ UNCHANGED <<tables, unused, exported, merged, stale>>

EditNode(e) ==
  LET r == editing[e]
  IN  /\ r.op = "edit"
      /\ nodes' = IF nodes[r.node] = 0 THEN nodes ELSE [nodes EXCEPT ![r.node] = r.url]
      /\ Goto(e, [r EXCEPT !.op = "editList"])
      /\ UNCHANGED <<pools, conns, combos, unused, exported, ops, merged, stale>>

\* Mutant: only the node is updated.
EditEndsThere(e) ==
  /\ editing[e].op = "editList" /\ Goto(e, Idle)
  /\ UNCHANGED <<tables, unused, exported, ops, merged, stale>>

ListConnections(e) ==
  LET r == editing[e]
      todo == {[conn |-> c, pool |-> conns[c].pool] : c \in Of(conns, r.node)}
  IN  /\ r.op = "editList"
      /\ Goto(e, IF todo = {} THEN Idle ELSE [r EXCEPT !.op = "editCopy", !.todo = todo])
      /\ UNCHANGED <<tables, unused, exported, ops, merged, stale>>

CopyTo(e, t) ==
  LET r == editing[e]
  IN  /\ r.op = "editCopy" /\ t \in r.todo
      /\ Goto(e, IF r.todo = {t} THEN Idle ELSE [r EXCEPT !.todo = @ \ {t}])
      /\ \/ ~conns[t.conn].on /\ UNCHANGED <<conns, stale>>
         \/ /\ conns[t.conn].on
            /\ conns' = [conns EXCEPT ![t.conn] = [@ EXCEPT !.url = r.url, !.pool = t.pool]]
            /\ Restale(conns', t.conn)
      /\ UNCHANGED <<nodes, pools, combos, unused, exported, ops, merged>>

Remaining(cs, p) == [c \in Conn |-> IF c \in Of(cs, p) THEN NoConn ELSE cs[c]]

(* deleteProviderNode, with all that names the node.                          *)
DeleteNode(n) ==
  /\ nodes[n] # 0 /\ Begin
  /\ nodes' = [nodes EXCEPT ![n] = 0]
  /\ conns' = Remaining(conns, n)
  /\ combos' = [b \in Combo |-> combos[b] \ {n}]
  /\ stale' = stale \ Of(conns, n)
  /\ UNCHANGED <<pools, unused, editing, exported, merged>>

-----------------------------------------------------------------------------
(* DELETE /api/proxy-pools/[id]: refused while a connection uses the pool.    *)
BeginUnpool(e, q) ==
  /\ editing[e] = Idle /\ q \in pools /\ Begin
  /\ \A c \in Conn : conns[c].pool # q
  /\ Goto(e, [Idle EXCEPT !.op = "unpool", !.pool = q])
  /\ UNCHANGED <<tables, unused, exported, merged, stale>>

\* Mutant: after the check of the route nothing can refer to the pool.
LeaveReferences(e) ==
  /\ editing[e].op = "unpool" /\ Goto(e, Idle)
  /\ pools' = pools \ {editing[e].pool}
  /\ UNCHANGED <<nodes, conns, combos, unused, exported, ops, merged, stale>>

\* deleteProxyPool: references made since then are cleared.
DeletePool(e) ==
  LET q == editing[e].pool
  IN  /\ editing[e].op = "unpool" /\ Goto(e, Idle)
      /\ pools' = pools \ {q}
      /\ conns' = IF q \notin pools THEN conns
                  ELSE [c \in Conn |-> IF conns[c].pool = q THEN [conns[c] EXCEPT !.pool = Direct]
                                       ELSE conns[c]]
      /\ UNCHANGED <<nodes, combos, unused, exported, ops, merged, stale>>

(* POST and PUT of a combo take the models from the request.                  *)
WriteCombo(b, members) ==
  /\ combos[b] # members /\ Begin
  /\ combos' = [combos EXCEPT ![b] = members]
  /\ stale' = IF \E n \in Node \cap members : nodes[n] = 0 THEN stale \cup {b} ELSE stale \ {b}
  /\ UNCHANGED <<nodes, pools, conns, unused, editing, exported, merged>>

-----------------------------------------------------------------------------
(* exportDb and importDb take all tables at once.                             *)
ExportDb ==
  /\ exported # Snapshot /\ Begin
  /\ exported' = [Snapshot EXCEPT !.stale = @ \cup Apart(conns)]
  /\ UNCHANGED <<tables, unused, editing, merged, stale>>

ImportDb ==
  /\ Begin
  /\ nodes' = exported.nodes /\ pools' = exported.pools
  /\ conns' = exported.conns /\ combos' = exported.combos
  /\ merged' = exported.merged /\ stale' = exported.stale
  /\ UNCHANGED <<unused, editing, exported>>

(* The process ends, and the requests with it.                                *)
EndProcess ==
  /\ \E e \in Editor : editing[e] # Idle
  /\ editing' = [e \in Editor |-> Idle]
  /\ stale' = stale \cup Apart(conns)
  /\ UNCHANGED <<tables, unused, exported, ops, merged>>

Urls == 1..MaxUrl
Wanted == pools \cup {Direct}
Priorities == 0..MaxConn

CatalogNext ==
  \/ \E e \in Editor :
       \/ \E n \in Node, nm, k \in 1..2, q \in Wanted : BeginPost(e, n, nm, k, q)
       \/ \E c \in Conn, k \in Priorities \cup {NoPriority}, q \in Wanted \cup {Kept} : BeginPut(e, c, k, q)
       \/ \E n \in Node, u \in Urls : BeginEdit(e, n, u)
       \/ \E q \in Pool : BeginUnpool(e, q)
       \/ FindPool(e) \/ FindNode(e) \/ WritePost(e) \/ WritePut(e)
       \/ EditNode(e) \/ ListConnections(e) \/ DeletePool(e)
       \/ \E t \in editing[e].todo : CopyTo(e, t)
  \/ \E nm \in 1..2 : Login(nm)
  \/ \E c \in Conn : DeleteConnection(c)
  \/ \E n \in Node : DeleteNode(n) \/ \E u \in Urls : CreateNode(n, u)
  \/ \E b \in Combo, members \in SUBSET (Node \cup {Other}) : WriteCombo(b, members)
  \/ ExportDb \/ ImportDb \/ EndProcess

CatalogSpec == CatalogInit /\ [][CatalogNext]_catalogVars

CatalogTypeOK ==
  /\ nodes \in [Node -> 0..MaxUrl] /\ pools \subseteq Pool
  /\ conns \in [Conn -> [on : BOOLEAN, provider : Node \cup {BuiltIn}, name : 0..2,
                         priority : 0..MaxConn + 1, url : 0..MaxUrl, pool : Pool \cup {Direct}]]
  /\ combos \in [Combo -> SUBSET (Node \cup {Other})]
  /\ unused \subseteq Node \cup Conn
  /\ ops \in 0..MaxOps
  /\ merged \subseteq Node \cup {BuiltIn} /\ stale \subseteq Conn \cup Combo

-----------------------------------------------------------------------------
(* Whatever requests overlap, the priorities of a provider's connections are  *)
(* 1..n unless the last write was a merge.                                    *)
PrioritiesRank ==
  \A p \in (Node \cup {BuiltIn}) \ merged :
    {conns[c].priority : c \in Of(conns, p)} = 1..Cardinality(Of(conns, p))

(* A node or pool that goes leaves no reference behind, and a node's new URL  *)
(* reaches its connections: one names what is not there, or copies what has   *)
(* changed, only if it was written with what its request had read before, or  *)
(* if the process ended halfway.                                              *)
BeingEdited(n) == \E e \in Editor : editing[e].op \in {"editList", "editCopy"} /\ editing[e].node = n

ReferencesHold ==
  /\ Unpooled(conns) \subseteq stale
  /\ \A c \in Apart(conns) \ stale : nodes[conns[c].provider] # 0 /\ BeingEdited(conns[c].provider)
  /\ \A b \in Combo \ stale : \A n \in Node \cap combos[b] : nodes[n] # 0

ConfigurationHangsTogether == PrioritiesRank /\ ReferencesHold
===============================================================================
