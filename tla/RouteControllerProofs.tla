------------------------ MODULE RouteControllerProofs -----------------------
(***************************************************************************)
(* Safety of the route controller, for any nodes, CIDRs and instances, any *)
(* number of changes, faults, crashes and foreign changes.                 *)
(***************************************************************************)
EXTENDS RouteController, NodeSpecProofs

-----------------------------------------------------------------------------
(***************************************************************************)
(* routeLock.  Where the processes are and who holds the lock needs no     *)
(* other variable: the two facts are inductive by themselves.              *)
(***************************************************************************)
ControlOK ==
  /\ pc \in [Procs -> Labels]
  /\ lock \in Procs \cup {"free"}

(* The controller starts with nobody inside and routeLock free. *)
LEMMA LockInit ==
  ASSUME Init
  PROVE  ControlOK /\ LockHeldInside
BY DEF Init, ControlOK, LockHeldInside, Procs, Labels, Critical

(* No step, panics and crashes included, parts the lock from who is inside. *)
LEMMA LockStep ==
  ASSUME ControlOK, LockHeldInside, [Next]_vars
  PROVE  ControlOK' /\ LockHeldInside'
<1> USE DEF ControlOK, LockHeldInside, Procs, Labels, Critical,
            Goto, Continue, Finish, Rest, AddFailed, local, world
<1>1. CASE Cluster
  <2>1. ASSUME NEW n \in Nodes, NodeAdded(n) \/ NodeUpdated(n) \/ NodeReplaced(n) \/ NodeRemoved(n)
        PROVE  UNCHANGED <<pc, lock>>
    BY <2>1 DEF NodeAdded, NodeUpdated, NodeReplaced, NodeRemoved, NodeEvent
  <2>2. ASSUME NEW c \in Cidrs, ForeignChange(c)
        PROVE  UNCHANGED <<pc, lock>>
    BY <2>2 DEF ForeignChange
  <2>3. CASE Crash
    BY <2>3 DEF Crash, ProcessEnds
  <2> QED
    BY <1>1, <2>1, <2>2, <2>3 DEF Cluster
<1>2. CASE Start
  BY <1>2 DEF Start
<1>3. CASE Reconcile
  <2>1. ASSUME NEW n \in Nodes, ReconcileRemoved(n) \/ ReconcileSkipped(n) \/ ReconcileNode(n)
        PROVE  ControlOK' /\ LockHeldInside'
    BY <2>1 DEF ReconcileRemoved, ReconcileSkipped, ReconcileNode, Take
  <2>2. CASE CachedRoute
    BY <2>2 DEF CachedRoute
  <2>3. CASE Forget
    BY <2>3 DEF Forget
  <2> QED
    BY <1>3, <2>1, <2>2, <2>3 DEF Reconcile
<1>4. CASE ReconcileForCluster
  <2>1. CASE NodeList
    BY <2>1 DEF NodeList
  <2>2. CASE ListRoutes
    BY <2>2 DEF ListRoutes
  <2>3. CASE SyncDone
    BY <2>3 DEF SyncDone
  <2>4. ASSUME NEW c \in Cidrs, SyncDelete(c)
        PROVE  ControlOK' /\ LockHeldInside'
    BY <2>4 DEF SyncDelete
  <2>5. ASSUME NEW n \in Nodes, SyncNode(n)
        PROVE  ControlOK' /\ LockHeldInside'
    BY <2>5 DEF SyncNode
  <2> QED
    BY <1>4, <2>1, <2>2, <2>3, <2>4, <2>5 DEF ReconcileForCluster
<1>5. ASSUME NEW n \in Nodes, RetryDue(n)
      PROVE  ControlOK' /\ LockHeldInside'
  BY <1>5 DEF RetryDue
<1>6. ASSUME NEW p \in Procs, Lock(p)
      PROVE  ControlOK' /\ LockHeldInside'
  BY <1>6 DEF Lock, CanLock
<1>7. ASSUME NEW p \in Procs, Call(p)
      PROVE  ControlOK' /\ LockHeldInside'
  <2>1. CASE FindRoute(p)
    BY <2>1 DEF FindRoute
  <2>2. CASE Store(p)
    BY <2>2 DEF Store
  <2>3. CASE CreateRoute(p)
    BY <2>3 DEF CreateRoute
  <2>4. CASE CreatePanics(p)
    BY <2>4 DEF CreatePanics, ProcessEnds
  <2>5. CASE FindSame(p)
    BY <2>5 DEF FindSame
  <2>6. CASE FindCreated(p)
    BY <2>6 DEF FindCreated
  <2>7. CASE RouteCondition(p)
    BY <2>7 DEF RouteCondition, SetCondition
  <2>8. CASE DeleteFind(p)
    BY <2>8 DEF DeleteFind, Deleted, DeleteFailed
  <2>9. CASE DeleteRoute(p)
    BY <2>9 DEF DeleteRoute, Deleted, DeleteFailed
  <2> QED
    BY <1>7, <2>1, <2>2, <2>3, <2>4, <2>5, <2>6, <2>7, <2>8, <2>9 DEF Call
<1>8. CASE UNCHANGED vars
  BY <1>8 DEF vars
<1> QED
  BY <1>1, <1>2, <1>3, <1>4, <1>5, <1>6, <1>7, <1>8 DEF Next

(***************************************************************************)
(* routeLock is held exactly inside its critical sections.                 *)
(***************************************************************************)
THEOREM LockIsHeldInside == Spec => []LockHeldInside
<1>1. Init => ControlOK /\ LockHeldInside
  BY LockInit
<1>2. ControlOK /\ LockHeldInside /\ [Next]_vars => (ControlOK /\ LockHeldInside)'
  BY LockStep
<1> QED
  BY <1>1, <1>2, PTL DEF Spec, Safety

-----------------------------------------------------------------------------
(* Node objects, node tables and jobs: how the actions build them. *)
LEMMA NewNodeIsNode ==
  ASSUME NEW s, IsSpec(s), NEW u \in {0, 1}, NEW w \in NetStates
  PROVE  IsNode([spec |-> s, uid |-> u, net |-> w])
BY DEF IsNode

(* A node object is the record of its three parts. *)
LEMMA NodeFields ==
  ASSUME NEW o, IsNode(o)
  PROVE  o = [spec |-> o.spec, uid |-> o.uid, net |-> o.net]
BY DEF IsNode

(* A patch of the condition changes the condition alone. *)
LEMMA NodeWithNet ==
  ASSUME NEW o, IsNode(o), NEW w \in NetStates
  PROVE  /\ IsNode([o EXCEPT !.net = w])
         /\ [o EXCEPT !.net = w] = [spec |-> o.spec, uid |-> o.uid, net |-> w]
<1> DEFINE r == [spec |-> o.spec, uid |-> o.uid, net |-> o.net]
<1>1. o = r
  BY NodeFields
<1>2. [r EXCEPT !.net = w] = [spec |-> o.spec, uid |-> o.uid, net |-> w]
  OBVIOUS
<1>3. [o EXCEPT !.net = w] = [r EXCEPT !.net = w]
  <2> HIDE DEF r
  <2> QED
    BY <1>1
<1> QED
  BY <1>2, <1>3, NewNodeIsNode DEF IsNode

(* An update of the spec changes the spec alone. *)
LEMMA NodeWithSpec ==
  ASSUME NEW o, IsNode(o), NEW s, IsSpec(s)
  PROVE  /\ IsNode([o EXCEPT !.spec = s])
         /\ [o EXCEPT !.spec = s] = [spec |-> s, uid |-> o.uid, net |-> o.net]
<1> DEFINE r == [spec |-> o.spec, uid |-> o.uid, net |-> o.net]
<1>1. o = r
  BY NodeFields
<1>2. [r EXCEPT !.spec = s] = [spec |-> s, uid |-> o.uid, net |-> o.net]
  OBVIOUS
<1>3. [o EXCEPT !.spec = s] = [r EXCEPT !.spec = s]
  <2> HIDE DEF r
  <2> QED
    BY <1>1
<1> QED
  BY <1>2, <1>3, NewNodeIsNode DEF IsNode

(* A table stays one when one entry becomes absent or a node. *)
LEMMA NodeTableWith ==
  ASSUME NEW t, IsNodeTable(t), NEW n, NEW o, o = Absent \/ IsNode(o)
  PROVE  IsNodeTable([t EXCEPT ![n] = o])
<1> HIDE DEF IsNode
<1> QED
  BY DEF IsNodeTable

(* The empty node table is a node table. *)
LEMMA NoNodesIsTable == IsNodeTable(NoNodes)
BY DEF IsNodeTable, NoNodes

(* A record with parts of the right kind is a job. *)
LEMMA NewJobIsJob ==
  ASSUME NEW n \in Nodes \cup {NoNode}, NEW c \in PodCidrs, NEW i \in Hops,
         NEW w \in NetStates, NEW k \in 0 .. MaxTries - 1
  PROVE  IsJob([node |-> n, cidr |-> c, inst |-> i, net |-> w, tries |-> k])
BY DEF IsJob

(* A process at rest has a job of the right type. *)
LEMMA NoJobIsJob == IsJob(NoJob)
BY ControllerAssumption DEF IsJob, NoJob, PodCidrs, Hops, NetStates

(* What addRouteForNode is called with is a job. *)
LEMMA AddJobIsJob ==
  ASSUME NEW n \in Nodes, NEW o, IsNode(o)
  PROVE  IsJob(AddJob(n, o))
<1>1. Cidr(o) \in PodCidrs
  BY CidrOfSpec DEF IsNode, Cidr
<1>2. Inst(o) \in Hops
  BY InstanceOfSpec DEF IsNode, Inst, Hops
<1>3. 0 \in 0 .. MaxTries - 1
  BY ControllerAssumption
<1> QED
  BY <1>1, <1>2, <1>3, NewJobIsJob DEF AddJob, IsNode

(* What deleteRouteForInstance is called with is a job. *)
LEMMA DeleteJobIsJob ==
  ASSUME NEW n \in Nodes \cup {NoNode}, NEW c \in Cidrs \cup {NoCidr}
  PROVE  IsJob(DeleteJob(n, c))
<1>1. /\ NoInst \in Hops /\ c \in PodCidrs
      /\ "unset" \in NetStates /\ 0 \in 0 .. MaxTries - 1
  BY ControllerAssumption DEF Hops, PodCidrs, NetStates
<1> QED
  BY <1>1, NewJobIsJob DEF DeleteJob

(* An attempt that is counted, or a route that is found, leaves the rest of a job. *)
LEMMA JobWith ==
  ASSUME NEW j, IsJob(j), NEW i \in Hops, NEW k \in 0 .. MaxTries - 1
  PROVE  /\ IsJob([j EXCEPT !.inst = i]) /\ IsJob([j EXCEPT !.tries = k])
         /\ [j EXCEPT !.inst = i]  = [node |-> j.node, cidr |-> j.cidr, inst |-> i,
                                      net |-> j.net, tries |-> j.tries]
         /\ [j EXCEPT !.tries = k] = [node |-> j.node, cidr |-> j.cidr, inst |-> j.inst,
                                      net |-> j.net, tries |-> k]
<1> DEFINE r == [node |-> j.node, cidr |-> j.cidr, inst |-> j.inst,
                 net |-> j.net, tries |-> j.tries]
<1>1. j = r
  BY DEF IsJob
<1>2. [r EXCEPT !.inst = i] = [node |-> j.node, cidr |-> j.cidr, inst |-> i,
                               net |-> j.net, tries |-> j.tries]
  OBVIOUS
<1>3. [r EXCEPT !.tries = k] = [node |-> j.node, cidr |-> j.cidr, inst |-> j.inst,
                                net |-> j.net, tries |-> k]
  OBVIOUS
<1>4. [j EXCEPT !.inst = i] = [r EXCEPT !.inst = i] /\ [j EXCEPT !.tries = k] = [r EXCEPT !.tries = k]
  <2> HIDE DEF r
  <2> QED
    BY <1>1
<1> QED
  BY <1>2, <1>3, <1>4, NewJobIsJob DEF IsJob

-----------------------------------------------------------------------------
(***************************************************************************)
(* Types and claims.  The types alone are not inductive: Store keeps a     *)
(* job's CIDR in nodeCache, and only a claim makes it one of Cidrs.        *)
(***************************************************************************)
KnowsClaims == TypeOK /\ ActsOnClaims /\ ShownNodes

(* The claims of a table after one node of it changed. *)
LEMMA ClaimsFromTable ==
  ASSUME NEW t, NEW n \in Nodes, t[n] # Absent, Cidr(t[n]) \in Cidrs, Inst(t[n]) \in Hops
  PROVE  <<n, Cidr(t[n]), Inst(t[n])>> \in Claims(t)
BY DEF Claims

(* A table that shows no more of CIDRs and instances has no more claims. *)
LEMMA ClaimsOfSame ==
  ASSUME NEW t, NEW u,
         \A n \in Nodes : u[n] # Absent =>
                          t[n] # Absent /\ Cidr(u[n]) = Cidr(t[n]) /\ Inst(u[n]) = Inst(t[n])
  PROVE  Claims(u) \subseteq Claims(t)
<1> SUFFICES ASSUME NEW x \in Claims(u)
             PROVE  x \in Claims(t)
  OBVIOUS
<1>1. /\ x \in Nodes \X Cidrs \X Hops
      /\ u[x[1]] # Absent /\ x[2] = Cidr(u[x[1]]) /\ x[3] = Inst(u[x[1]])
  BY DEF Claims
<1>2. x[1] \in Nodes
  BY <1>1
<1> QED
  BY <1>1, <1>2 DEF Claims

(* At the start the claims are those of the nodes that are there. *)
LEMMA KnowsInit ==
  ASSUME Init
  PROVE  KnowsClaims
<1>1. nodes \in InitNodes /\ IsNodeTable(nodes) /\ IsRouteTable(cloud)
  BY ControllerAssumption DEF Init
<1>2. Claims(NoNodes) = {}
  BY DEF Claims, NoNodes
<1>3. Claims(nodes) \subseteq Nodes \X Cidrs \X Hops
  BY DEF Claims
<1>4. TypeOK
  <2>1. IsNodeTable(nodeSnap)
    BY NoNodesIsTable DEF Init
  <2>2. \A p \in Procs : IsJob(job[p])
    BY NoJobIsJob DEF Init
  <2>3. IsRouteTable(routeSnap)
    BY DEF Init, IsRouteTable, NoRoutes
  <2>4. budget \in [BudgetKeys -> Nat]
    BY ControllerAssumption DEF Init
  <2>5. queue \subseteq Nodes
    BY DEF Init, Present
  <2> QED
    BY <1>1, <1>3, <2>1, <2>2, <2>3, <2>4, <2>5
    DEF Init, TypeOK, Procs, Labels, NoCache
<1>5. ActsOnClaims
  BY DEF Init, ActsOnClaims, Adding, Removing, NoCache
<1>6. ShownNodes
  BY <1>2 DEF Init, ShownNodes
<1> QED
  BY <1>4, <1>5, <1>6 DEF KnowsClaims

(* The parts of an action that recur. *)
LEMMA SpendType ==
  ASSUME NEW k \in BudgetKeys, budget \in [BudgetKeys -> Nat], Spend(k)
  PROVE  budget' \in [BudgetKeys -> Nat]
BY DEF Spend

(* What is shown stays claimed while nodes, list and claims stay. *)
LEMMA ShownSame ==
  ASSUME ShownNodes, UNCHANGED <<nodes, nodeSnap, claims>>
  PROVE  ShownNodes'
<1>1. Claims(nodes)' = Claims(nodes) /\ Claims(nodeSnap)' = Claims(nodeSnap)
  BY DEF Claims
<1> QED
  BY <1>1 DEF ShownNodes

(* A step of one process leaves the job of the other. *)
LEMMA JobsWith ==
  ASSUME job = [q \in Procs |-> job[q]], \A q \in Procs : IsJob(job[q]),
         NEW p \in Procs, NEW j, IsJob(j), job' = [job EXCEPT ![p] = j]
  PROVE  /\ job' = [q \in Procs |-> job'[q]] /\ \A q \in Procs : IsJob(job'[q])
         /\ job'[p] = j /\ \A q \in Procs \ {p} : job'[q] = job[q]
<1> HIDE DEF IsJob
<1> QED
  OBVIOUS

(***************************************************************************)
(* A node that appears, changes or goes.                                   *)
(***************************************************************************)
LEMMA NodeEventKnows ==
  ASSUME KnowsClaims, NEW n \in Nodes, NEW o, o = Absent \/ IsNode(o), NEW w,
         NodeEvent(n, o, w)
  PROVE  KnowsClaims'
<1> USE DEF NodeEvent, SetNode, local
<1>1. claims \subseteq claims' /\ Claims(nodes)' \subseteq claims'
  BY DEF Claims
<1>2. TypeOK'
  <2>1. IsNodeTable(nodes')
    BY NodeTableWith DEF KnowsClaims, TypeOK
  <2>2. claims' \subseteq Nodes \X Cidrs \X Hops
    BY DEF Claims, KnowsClaims, TypeOK
  <2>3. budget' \in [BudgetKeys -> Nat]
    BY SpendType DEF KnowsClaims, TypeOK, BudgetKeys
  <2> QED
    BY <2>1, <2>2, <2>3 DEF KnowsClaims, TypeOK, IsRouteTable
<1>3. ActsOnClaims'
  BY <1>1 DEF KnowsClaims, ActsOnClaims, Covered
<1>4. ShownNodes'
  <2>1. Claims(nodeSnap)' = Claims(nodeSnap)
    BY DEF Claims
  <2> QED
    BY <1>1, <2>1 DEF KnowsClaims, ShownNodes
<1> QED
  BY <1>2, <1>3, <1>4 DEF KnowsClaims

(* What is left when the process ends. *)
LEMMA EndKnows ==
  ASSUME KnowsClaims, ProcessEnds, IsRouteTable(cloud)', budget' \in [BudgetKeys -> Nat]
  PROVE  KnowsClaims'
<1>1. IsNodeTable(nodeSnap)' /\ \A p \in Procs : IsJob(job'[p])
  BY NoNodesIsTable, NoJobIsJob DEF ProcessEnds
<1>2. Claims(nodeSnap)' = {} /\ Claims(nodes)' = Claims(nodes)
  BY DEF ProcessEnds, Claims, NoNodes
<1>3. TypeOK'
  BY <1>1 DEF ProcessEnds, KnowsClaims, TypeOK, IsRouteTable, IsNodeTable, NoRoutes,
              NoCache, Procs, Labels
<1>4. ActsOnClaims'
  BY DEF ProcessEnds, ActsOnClaims, Adding, Removing, NoCache
<1>5. ShownNodes'
  BY <1>2 DEF ProcessEnds, KnowsClaims, ShownNodes
<1> QED
  BY <1>3, <1>4, <1>5 DEF KnowsClaims

(* The cluster and the users of the VPC keep the claims right. *)
LEMMA ClusterKnows ==
  ASSUME KnowsClaims, Cluster
  PROVE  KnowsClaims'
<1>1. ASSUME NEW n \in Nodes, NodeAdded(n)
      PROVE  KnowsClaims'
  <2>1. PICK s \in SpecChoices[n] : NodeEvent(n, [spec |-> s, uid |-> 0, net |-> "unset"], TRUE)
    BY <1>1 DEF NodeAdded
  <2>2. IsNode([spec |-> s, uid |-> 0, net |-> "unset"])
    BY ControllerAssumption, NewNodeIsNode DEF NetStates
  <2> QED
    BY <2>1, <2>2, NodeEventKnows
<1>2. ASSUME NEW n \in Nodes, NodeUpdated(n)
      PROVE  KnowsClaims'
  <2>1. PICK s \in SpecChoices[n] :
          NodeEvent(n, [nodes[n] EXCEPT !.spec = s],
                    PredicateUpdate(nodes[n], [nodes[n] EXCEPT !.spec = s]))
    BY <1>2 DEF NodeUpdated
  <2>2. IsSpec(s) /\ IsNode(nodes[n])
    BY <1>2, ControllerAssumption DEF KnowsClaims, TypeOK, IsNodeTable, NodeUpdated
  <2>3. IsNode([nodes[n] EXCEPT !.spec = s])
    BY <2>2, NodeWithSpec
  <2> QED
    BY <2>1, <2>3, NodeEventKnows
<1>3. ASSUME NEW n \in Nodes, NodeReplaced(n)
      PROVE  KnowsClaims'
  <2> DEFINE New(s) == [spec |-> s, uid |-> 1 - nodes[n].uid, net |-> "unset"]
  <2>1. PICK s \in SpecChoices[n] : NodeEvent(n, New(s), PredicateUpdate(nodes[n], New(s)))
    BY <1>3 DEF NodeReplaced
  <2>2. IsNode(nodes[n])
    BY <1>3 DEF KnowsClaims, TypeOK, IsNodeTable, NodeReplaced
  <2>3. 1 - nodes[n].uid \in {0, 1}
    BY <2>2 DEF IsNode
  <2>4. IsNode(New(s))
    BY <2>3, ControllerAssumption, NewNodeIsNode DEF NetStates
  <2> HIDE DEF New
  <2> QED
    BY <2>1, <2>4, NodeEventKnows
<1>4. ASSUME NEW n \in Nodes, NodeRemoved(n)
      PROVE  KnowsClaims'
  BY <1>4, NodeEventKnows DEF NodeRemoved
<1>5. ASSUME NEW c \in Cidrs, ForeignChange(c)
      PROVE  KnowsClaims'
  <2>1. IsRouteTable(cloud)' /\ budget' \in [BudgetKeys -> Nat]
    BY <1>5, SpendType DEF BudgetKeys, ForeignChange, IsRouteTable, KnowsClaims, TypeOK
  <2>2. TypeOK'
    BY <1>5, <2>1 DEF ForeignChange, KnowsClaims, TypeOK, world, local, IsRouteTable, IsNodeTable
  <2>3. ActsOnClaims' /\ ShownNodes'
    BY <1>5, ShownSame DEF ForeignChange, KnowsClaims, ActsOnClaims, Covered, world, local
  <2> QED
    BY <2>2, <2>3 DEF KnowsClaims
<1>6. CASE Crash
  <2>1. budget' \in [BudgetKeys -> Nat]
    BY <1>6, SpendType DEF BudgetKeys, Crash, KnowsClaims, TypeOK
  <2> QED
    BY <1>6, <2>1, EndKnows DEF Crash, IsRouteTable, KnowsClaims, TypeOK
<1> QED
  BY <1>1, <1>2, <1>3, <1>4, <1>5, <1>6 DEF Cluster

(***************************************************************************)
(* A process at work has a node, but for the sync when it deletes a route  *)
(* in the way.                                                             *)
(***************************************************************************)
WorksOnNode ==
  \A p \in Procs : pc[p] \notin {"idle", "list", "pass"} =>
     job[p].node \in Nodes \/ (p = "sync" /\ pc[p] \in Removing)

(***************************************************************************)
(* The worker comes to a key, or to the route of a node that is gone.      *)
(***************************************************************************)
LEMMA WorkerKnows ==
  ASSUME KnowsClaims, UNCHANGED <<nodes, claims, up, cloud, lock, nodeCache, delayed,
                                  nodeSnap, routeSnap, todoRoutes, budget>>,
         queue' \subseteq queue,
         \/ UNCHANGED <<pc, job>>
         \/ \E j : \E l \in Labels :
              /\ IsJob(j) /\ job' = [job EXCEPT !["worker"] = j]
              /\ pc' = [pc EXCEPT !["worker"] = l]
              /\ l \in Adding => <<j.node, j.cidr, j.inst>> \in claims /\ j.inst \in Instances
              /\ l \in Removing => Covered(j.cidr)
  PROVE  KnowsClaims'
<1>1. ShownNodes'
  BY ShownSame DEF KnowsClaims
<1>2. TypeOK /\ ActsOnClaims /\ ShownNodes
  BY DEF KnowsClaims
<1>3. CASE UNCHANGED <<pc, job>>
  <2>1. TypeOK'
    BY <1>2, <1>3 DEF TypeOK, IsNodeTable, IsRouteTable
  <2>2. ActsOnClaims'
    BY <1>2, <1>3 DEF ActsOnClaims, Covered
  <2> QED
    BY <1>1, <2>1, <2>2 DEF KnowsClaims
<1>4. ASSUME NEW j, IsJob(j), job' = [job EXCEPT !["worker"] = j],
             NEW l \in Labels, pc' = [pc EXCEPT !["worker"] = l],
             l \in Adding => <<j.node, j.cidr, j.inst>> \in claims /\ j.inst \in Instances,
             l \in Removing => Covered(j.cidr)
      PROVE  KnowsClaims'
  <2>1. job' = [q \in Procs |-> job'[q]] /\ \A q \in Procs : IsJob(job'[q])
    BY <1>2, <1>4, JobsWith DEF TypeOK, Procs
  <2>2. job'["worker"] = j /\ job'["sync"] = job["sync"]
    BY <1>2, <1>4, JobsWith DEF TypeOK, Procs
  <2>3. pc' \in [Procs -> Labels] /\ pc'["worker"] = l /\ pc'["sync"] = pc["sync"]
    BY <1>2, <1>4 DEF TypeOK, Procs
  <2>4. TypeOK'
    BY <1>2, <2>1, <2>3 DEF TypeOK, IsNodeTable, IsRouteTable
  <2>5. ActsOnClaims'
    <3>1. \A q \in Procs :
            /\ pc'[q] \in Adding => /\ <<job'[q].node, job'[q].cidr, job'[q].inst>> \in claims
                                   /\ job'[q].inst \in Instances
            /\ pc'[q] \in Removing => Covered(job'[q].cidr)
      BY <1>2, <1>4, <2>2, <2>3 DEF ActsOnClaims, Procs
    <3>2. claims' = claims /\ nodeCache' = nodeCache /\ todoRoutes' = todoRoutes
      OBVIOUS
    <3> QED
      BY <1>2, <3>1, <3>2 DEF ActsOnClaims, Covered
  <2> QED
    BY <1>1, <2>4, <2>5 DEF KnowsClaims
<1> QED
  BY <1>3, <1>4

(* The worker takes a key. *)
LEMMA TakeKnows ==
  ASSUME KnowsClaims, NEW n \in Nodes,
         ReconcileRemoved(n) \/ ReconcileSkipped(n) \/ ReconcileNode(n)
  PROVE  KnowsClaims'
<1>1. TypeOK /\ ActsOnClaims /\ ShownNodes
  BY DEF KnowsClaims
<1>2. /\ UNCHANGED <<nodes, claims, up, cloud, lock, nodeCache, delayed,
                     nodeSnap, routeSnap, todoRoutes, budget>>
      /\ queue' \subseteq queue
  BY DEF ReconcileRemoved, ReconcileSkipped, ReconcileNode, Take, world, local
<1>3. CASE ReconcileRemoved(n)
  <2> DEFINE j == DeleteJob(n, NoCidr)
  <2>1. IsJob(j)
    BY DeleteJobIsJob
  <2>2. "gone" \in Labels /\ "gone" \notin Adding /\ "gone" \notin Removing
    BY DEF Labels, Adding, Removing
  <2>3. pc' = [pc EXCEPT !["worker"] = "gone"] /\ job' = [job EXCEPT !["worker"] = j]
    BY <1>3 DEF ReconcileRemoved, Goto
  <2> HIDE DEF j
  <2> QED
    BY <1>2, <2>1, <2>2, <2>3, WorkerKnows
<1>4. CASE ReconcileSkipped(n)
  BY <1>2, <1>4, WorkerKnows DEF ReconcileSkipped
<1>5. CASE ReconcileNode(n)
  <2> DEFINE j == AddJob(n, nodes[n])
             l == IF Cidr(nodes[n]) \in Cidrs /\ Inst(nodes[n]) # NoInst THEN "find" ELSE "condFail"
  <2>1. IsNode(nodes[n]) /\ nodes[n] # Absent
    BY <1>1, <1>5 DEF ReconcileNode, TypeOK, IsNodeTable
  <2>2. IsJob(j) /\ j.node = n /\ j.cidr = Cidr(nodes[n]) /\ j.inst = Inst(nodes[n])
    BY <2>1, AddJobIsJob DEF AddJob
  <2>3. Inst(nodes[n]) \in Instances \cup {NoInst}
    BY <2>1, InstanceOfSpec DEF IsNode, Inst
  <2>4. l = "find" => <<j.node, j.cidr, j.inst>> \in claims /\ j.inst \in Instances
    BY <1>1, <2>1, <2>2, <2>3, ClaimsFromTable DEF ShownNodes, Hops
  <2>5. l \in Labels /\ (l \in Adding => l = "find") /\ l \notin Removing
    BY DEF Labels, Adding, Removing
  <2>6. job' = [job EXCEPT !["worker"] = j] /\ pc' = [pc EXCEPT !["worker"] = l]
    BY <1>5 DEF ReconcileNode, Goto
  <2> HIDE DEF j, l
  <2> QED
    BY <1>2, <2>2, <2>4, <2>5, <2>6, WorkerKnows
<1> QED
  BY <1>3, <1>4, <1>5

(* The worker looks up in nodeCache which route a removed node had. *)
LEMMA CachedRouteKnows ==
  ASSUME KnowsClaims, WorksOnNode, CachedRoute
  PROVE  KnowsClaims'
<1> DEFINE n == job["worker"].node
<1>1. TypeOK /\ ActsOnClaims /\ ShownNodes
  BY DEF KnowsClaims
<1>2. n \in Nodes
  BY DEF WorksOnNode, CachedRoute, Procs
<1>3. UNCHANGED <<nodes, claims, up, cloud, lock, nodeCache, delayed,
                  nodeSnap, routeSnap, todoRoutes, budget>> /\ queue' \subseteq queue
  BY DEF CachedRoute, world, local
<1>4. CASE nodeCache[n] = NoCidr
  <2>1. job' = [job EXCEPT !["worker"] = NoJob] /\ pc' = [pc EXCEPT !["worker"] = "idle"]
    BY <1>4 DEF CachedRoute, Finish, Goto, Rest
  <2>2. "idle" \in Labels /\ "idle" \notin Adding /\ "idle" \notin Removing
    BY DEF Labels, Adding, Removing
  <2> QED
    BY <1>3, <2>1, <2>2, NoJobIsJob, WorkerKnows
<1>5. CASE nodeCache[n] # NoCidr
  <2> DEFINE j == DeleteJob(n, nodeCache[n])
  <2>1. nodeCache[n] \in Cidrs
    BY <1>1, <1>2, <1>5 DEF TypeOK
  <2>2. IsJob(j) /\ j.cidr = nodeCache[n]
    BY <1>2, <2>1, DeleteJobIsJob DEF DeleteJob
  <2>3. Covered(j.cidr)
    BY <1>1, <1>2, <1>5, <2>2 DEF ActsOnClaims, Covered
  <2>4. pc' = [pc EXCEPT !["worker"] = "delete"] /\ job' = [job EXCEPT !["worker"] = j]
    BY <1>1, <1>5 DEF CachedRoute, Goto, TypeOK, Procs
  <2>5. "delete" \in Labels /\ "delete" \notin Adding
    BY DEF Labels, Adding
  <2> HIDE DEF j, n
  <2> QED
    BY <1>3, <2>2, <2>3, <2>4, <2>5, WorkerKnows
<1> QED
  BY <1>4, <1>5

(* The worker takes the entry of a removed node out of nodeCache. *)
LEMMA ForgetKnows ==
  ASSUME KnowsClaims, Forget
  PROVE  KnowsClaims'
<1> USE DEF Forget, world, local
<1>1. TypeOK /\ ActsOnClaims /\ ShownNodes
  BY DEF KnowsClaims
<1>2. ShownNodes'
  BY <1>1, ShownSame
<1>3. /\ nodeCache' \in [Nodes -> Cidrs \cup {NoCidr}]
      /\ \A n \in Nodes : nodeCache'[n] \in {nodeCache[n], NoCidr}
  BY <1>1 DEF TypeOK
<1>4. /\ job' = [q \in Procs |-> job'[q]] /\ \A q \in Procs : IsJob(job'[q])
      /\ job'["sync"] = job["sync"]
  BY <1>1, NoJobIsJob, JobsWith DEF TypeOK, Finish, Procs
<1>5. pc' \in [Procs -> Labels] /\ pc'["worker"] = "idle" /\ pc'["sync"] = pc["sync"]
  BY <1>1 DEF TypeOK, Finish, Goto, Rest, Labels, Procs
<1>6. TypeOK'
  BY <1>1, <1>3, <1>4, <1>5 DEF TypeOK, IsNodeTable, IsRouteTable
<1>7. ActsOnClaims'
  BY <1>1, <1>3, <1>4, <1>5 DEF ActsOnClaims, Covered, Procs, Adding, Removing
<1> QED
  BY <1>2, <1>6, <1>7 DEF KnowsClaims

(* Reconcile outside routeLock. *)
LEMMA ReconcileKnows ==
  ASSUME KnowsClaims, WorksOnNode, Reconcile
  PROVE  KnowsClaims'
BY TakeKnows, CachedRouteKnows, ForgetKnows DEF Reconcile

(***************************************************************************)
(* The sync lists, deletes and goes through its nodes.                     *)
(***************************************************************************)
LEMMA ReconcileForClusterKnows ==
  ASSUME KnowsClaims, SyncedNodesWant, ReconcileForCluster
  PROVE  KnowsClaims'
<1> USE DEF world, Goto
<1>1. TypeOK /\ ActsOnClaims /\ ShownNodes /\ "sync" \in Procs
  BY DEF KnowsClaims, Procs
<1>2. ASSUME NodeList
      PROVE  KnowsClaims'
  <2>1. IsNodeTable(nodeSnap)'
    BY <1>1, <1>2 DEF NodeList, TypeOK, IsNodeTable
  <2>2. Claims(nodeSnap)' \subseteq Claims(nodes) /\ Claims(nodes)' = Claims(nodes)
    BY <1>2 DEF NodeList, Claims
  <2>3. TypeOK'
    BY <1>1, <1>2, <2>1 DEF NodeList, TypeOK, IsRouteTable, IsNodeTable, Labels
  <2>4. ActsOnClaims'
    BY <1>1, <1>2 DEF NodeList, ActsOnClaims, Covered, TypeOK, Adding, Removing
  <2>5. ShownNodes'
    BY <1>1, <1>2, <2>2 DEF NodeList, ShownNodes
  <2> QED
    BY <2>3, <2>4, <2>5 DEF KnowsClaims
<1>3. ASSUME ListRoutes
      PROVE  KnowsClaims'
  <2>1. IsNodeTable(nodeSnap)' /\ IsRouteTable(routeSnap)'
    BY <1>1, <1>3, NoNodesIsTable DEF ListRoutes, TypeOK, IsNodeTable, IsRouteTable
  <2>2. Claims(nodeSnap)' \subseteq Claims(nodeSnap) /\ Claims(nodes)' = Claims(nodes)
    BY <1>3 DEF ListRoutes, Claims, NoNodes
  <2>3. budget' \in [BudgetKeys -> Nat]
    BY <1>1, <1>3, SpendType DEF BudgetKeys, ListRoutes, TypeOK
  <2>4. TypeOK'
    BY <1>1, <1>3, <2>1, <2>3 DEF ListRoutes, TypeOK, IsRouteTable, IsNodeTable, Labels
  <2>5. ASSUME NEW c \in todoRoutes'
        PROVE  Covered(c)
    <3>1. CASE c \in todoRoutes
      BY <1>1, <3>1 DEF ActsOnClaims
    <3>2. CASE c \notin todoRoutes
      <4>1. c \in Cidrs /\ ConflictWithNodes(c, cloud[c], nodeSnap)
        BY <1>3, <2>5, <3>2 DEF ListRoutes
      <4>2. PICK n \in Nodes :
              nodeSnap[n] # Absent /\ (c = Cidr(nodeSnap[n]) \/ <<c, Cidr(nodeSnap[n])>> \in Inside)
        BY <1>1, <4>1, ConflictLiesInNode DEF TypeOK, IsNodeTable, Cidr
      <4>3. Cidr(nodeSnap[n]) \in Cidrs
        BY <4>1, <4>2, CidrsAssumption
      <4>4. Inst(nodeSnap[n]) \in Hops
        BY <1>1, <4>2, InstanceOfSpec DEF TypeOK, IsNodeTable, IsNode, Inst, Hops
      <4>5. <<n, Cidr(nodeSnap[n]), Inst(nodeSnap[n])>> \in claims
        BY <1>1, <4>2, <4>3, <4>4, ClaimsFromTable DEF ShownNodes
      <4> QED
        BY <4>2, <4>5 DEF Covered
    <3> QED
      BY <3>1, <3>2
  <2>6. ActsOnClaims'
    BY <1>1, <1>3, <2>5 DEF ListRoutes, ActsOnClaims, Covered, TypeOK, Adding, Removing
  <2>7. ShownNodes'
    BY <1>1, <1>3, <2>2 DEF ListRoutes, ShownNodes
  <2> QED
    BY <2>4, <2>6, <2>7 DEF KnowsClaims
<1>4. ASSUME NEW c \in Cidrs, SyncDelete(c)
      PROVE  KnowsClaims'
  <2>1. IsJob(DeleteJob(NoNode, c)) /\ DeleteJob(NoNode, c).cidr = c
    BY DeleteJobIsJob DEF DeleteJob
  <2>2. /\ job' = [q \in Procs |-> job'[q]] /\ \A q \in Procs : IsJob(job'[q])
        /\ job'["sync"] = DeleteJob(NoNode, c) /\ \A q \in Procs \ {"sync"} : job'[q] = job[q]
    BY <1>1, <1>4, <2>1, JobsWith DEF SyncDelete, TypeOK
  <2>3. TypeOK'
    BY <1>1, <1>4, <2>2 DEF SyncDelete, TypeOK, IsRouteTable, IsNodeTable, Labels
  <2>4. ActsOnClaims'
    <3>1. /\ pc'["sync"] = "delete" /\ \A q \in Procs \ {"sync"} : pc'[q] = pc[q]
          /\ UNCHANGED <<claims, nodeCache>> /\ todoRoutes' \subseteq todoRoutes
          /\ c \in todoRoutes
      BY <1>1, <1>4 DEF SyncDelete, TypeOK
    <3>2. Covered(job'["sync"].cidr)
      BY <1>1, <2>1, <2>2, <3>1 DEF ActsOnClaims
    <3>3. "delete" \notin Adding
      BY DEF Adding
    <3>4. \A q \in Procs :
            /\ pc'[q] \in Adding => /\ <<job'[q].node, job'[q].cidr, job'[q].inst>> \in claims
                                    /\ job'[q].inst \in Instances
            /\ pc'[q] \in Removing => Covered(job'[q].cidr)
      <4> TAKE q \in Procs
      <4>1. CASE q = "sync"
        BY <3>1, <3>2, <3>3, <4>1
      <4>2. CASE q # "sync"
        BY <1>1, <2>2, <3>1, <4>2 DEF ActsOnClaims
      <4> QED
        BY <4>1, <4>2
    <3> QED
      BY <1>1, <3>1, <3>4 DEF ActsOnClaims, Covered
  <2>5. ShownNodes'
    BY <1>1, <1>4, ShownSame DEF SyncDelete
  <2> QED
    BY <2>3, <2>4, <2>5 DEF KnowsClaims
<1>5. ASSUME NEW n \in Nodes, SyncNode(n)
      PROVE  KnowsClaims'
  <2> DEFINE o == nodeSnap[n]
  <2>1. o # Absent /\ IsNode(o)
    BY <1>1, <1>5 DEF SyncNode, TypeOK, IsNodeTable
  <2>2. Cidr(o) \in Cidrs /\ Inst(o) \in Instances
    BY <1>5, <2>1, InstanceOfSpec DEF SyncNode, SyncedNodesWant, WantsRoute, IsNode, Inst
  <2>3. <<n, Cidr(o), Inst(o)>> \in claims
    BY <1>1, <2>1, <2>2, ClaimsFromTable DEF ShownNodes, Hops
  <2>4. /\ IsJob(AddJob(n, o)) /\ AddJob(n, o).node = n
        /\ AddJob(n, o).cidr = Cidr(o) /\ AddJob(n, o).inst = Inst(o)
    BY <2>1, AddJobIsJob DEF AddJob
  <2>5. /\ job' = [q \in Procs |-> job'[q]] /\ \A q \in Procs : IsJob(job'[q])
        /\ job'["sync"] = AddJob(n, o) /\ \A q \in Procs \ {"sync"} : job'[q] = job[q]
    BY <1>1, <1>5, <2>4, JobsWith DEF SyncNode, TypeOK
  <2>6. IsNodeTable(nodeSnap)'
    BY <1>1, <1>5, NodeTableWith DEF SyncNode, TypeOK
  <2>7. TypeOK'
    BY <1>1, <1>5, <2>5, <2>6 DEF SyncNode, TypeOK, IsRouteTable, IsNodeTable, Labels
  <2>8. ActsOnClaims'
    <3>1. /\ pc'["sync"] = "find" /\ \A q \in Procs \ {"sync"} : pc'[q] = pc[q]
          /\ UNCHANGED <<claims, nodeCache, todoRoutes>>
      BY <1>1, <1>5 DEF SyncNode, TypeOK
    <3>2. /\ <<job'["sync"].node, job'["sync"].cidr, job'["sync"].inst>> \in claims
          /\ job'["sync"].inst \in Instances
      BY <2>2, <2>3, <2>4, <2>5
    <3>3. "find" \notin Removing
      BY DEF Removing
    <3>4. \A q \in Procs :
            /\ pc'[q] \in Adding => /\ <<job'[q].node, job'[q].cidr, job'[q].inst>> \in claims
                                    /\ job'[q].inst \in Instances
            /\ pc'[q] \in Removing => Covered(job'[q].cidr)
      <4> TAKE q \in Procs
      <4>1. CASE q = "sync"
        BY <3>1, <3>2, <3>3, <4>1
      <4>2. CASE q # "sync"
        BY <1>1, <2>5, <3>1, <4>2 DEF ActsOnClaims
      <4> QED
        BY <4>1, <4>2
    <3> QED
      BY <1>1, <3>1, <3>4 DEF ActsOnClaims, Covered
  <2>9. Claims(nodeSnap)' \subseteq Claims(nodeSnap) /\ Claims(nodes)' = Claims(nodes)
    BY <1>1, <1>5 DEF SyncNode, Claims, TypeOK, IsNodeTable
  <2>10. ShownNodes'
    BY <1>1, <1>5, <2>9 DEF SyncNode, ShownNodes
  <2> QED
    BY <2>7, <2>8, <2>10 DEF KnowsClaims
<1>6. ASSUME SyncDone
      PROVE  KnowsClaims'
  <2>1. TypeOK'
    BY <1>1, <1>6 DEF SyncDone, TypeOK, IsRouteTable, IsNodeTable, Labels, NoRoutes
  <2>2. ActsOnClaims'
    BY <1>1, <1>6 DEF SyncDone, ActsOnClaims, Covered, TypeOK, Adding, Removing
  <2>3. ShownNodes'
    BY <1>1, <1>6, ShownSame DEF SyncDone
  <2> QED
    BY <2>1, <2>2, <2>3 DEF KnowsClaims
<1> QED
  BY <1>2, <1>3, <1>4, <1>5, <1>6 DEF ReconcileForCluster

(***************************************************************************)
(* The calls that both processes make.                                     *)
(***************************************************************************)
LEMMA AddCallsKnow ==
  ASSUME KnowsClaims, NEW p \in Procs,
         FindRoute(p) \/ Store(p) \/ FindSame(p) \/ FindCreated(p) \/ Lock(p)
  PROVE  KnowsClaims'
<1> USE DEF world, local, Goto, Continue, Finish, Rest, AddFailed
<1>1. TypeOK /\ ActsOnClaims /\ ShownNodes /\ IsJob(job[p])
  BY DEF KnowsClaims, TypeOK
<1>2. budget' \in [BudgetKeys -> Nat]
  BY <1>1, SpendType DEF BudgetKeys, FindRoute, Store, FindSame, FindCreated, Lock, TypeOK
<1>3. ShownNodes'
  BY <1>1, ShownSame DEF FindRoute, Store, FindSame, FindCreated, Lock
<1>4. ASSUME NEW l \in Labels, pc' = [pc EXCEPT ![p] = l], UNCHANGED <<claims, todoRoutes, nodeCache>>,
             \/ UNCHANGED job /\ \/ l \notin Adding \cup Removing
                                 \/ l \in Adding /\ pc[p] \in Adding
                                 \/ l \in Removing /\ pc[p] \in Removing
             \/ job' = [job EXCEPT ![p] = NoJob] /\ l \notin Adding \cup Removing
      PROVE  ActsOnClaims'
  <2>1. pc'[p] = l /\ \A q \in Procs \ {p} : pc'[q] = pc[q] /\ job'[q] = job[q]
    BY <1>1, <1>4 DEF TypeOK
  <2>2. \A x \in Adding : x \notin Removing
    BY DEF Adding, Removing
  <2>3. CASE l \notin Adding \cup Removing
    BY <1>1, <1>4, <2>1, <2>3 DEF ActsOnClaims, Covered
  <2>4. CASE UNCHANGED job /\ l \in Adding /\ pc[p] \in Adding
    BY <1>1, <1>4, <2>1, <2>2, <2>4 DEF ActsOnClaims, Covered
  <2>5. CASE UNCHANGED job /\ l \in Removing /\ pc[p] \in Removing
    BY <1>1, <1>4, <2>1, <2>2, <2>5 DEF ActsOnClaims, Covered
  <2> QED
    BY <1>4, <2>3, <2>4, <2>5
<1>5. CASE FindRoute(p)
  <2>1. ActsOnClaims'
    BY <1>4, <1>5 DEF FindRoute, Labels, Adding, Removing
  <2>2. TypeOK'
    BY <1>1, <1>2, <1>5 DEF FindRoute, TypeOK, IsNodeTable, IsRouteTable, Labels
  <2> QED
    BY <1>3, <2>1, <2>2 DEF KnowsClaims
<1>6. CASE Store(p)
  <2>1. job[p].cidr \in Cidrs /\ <<job[p].node, job[p].cidr, job[p].inst>> \in claims
    BY <1>1, <1>6 DEF Store, ActsOnClaims, Adding, TypeOK
  <2>2. /\ nodeCache' \in [Nodes -> Cidrs \cup {NoCidr}]
        /\ \A n \in Nodes : nodeCache'[n] # NoCidr =>
             \/ nodeCache'[n] = nodeCache[n]
             \/ n = job[p].node /\ nodeCache'[n] = job[p].cidr
    BY <1>1, <1>6, <2>1 DEF Store, TypeOK
  <2>3. job[p].inst \in Hops
    BY <1>1 DEF IsJob
  <2>4. pc' = [pc EXCEPT ![p] = "condOk"] /\ UNCHANGED <<job, claims, todoRoutes>>
    BY <1>6 DEF Store
  <2>5. ActsOnClaims'
    BY <1>1, <2>1, <2>2, <2>3, <2>4 DEF ActsOnClaims, Covered, TypeOK, Adding, Removing
  <2>6. TypeOK'
    BY <1>1, <1>2, <1>6, <2>2 DEF Store, TypeOK, IsNodeTable, IsRouteTable, Labels
  <2> QED
    BY <1>3, <2>5, <2>6 DEF KnowsClaims
<1>7. CASE FindSame(p)
  <2>1. ActsOnClaims'
    BY <1>4, <1>7 DEF FindSame, Labels, Adding, Removing
  <2>2. /\ job' = [q \in Procs |-> job'[q]] /\ \A q \in Procs : IsJob(job'[q])
    BY <1>1, <1>7, JobsWith, NoJobIsJob DEF FindSame, TypeOK
  <2>3. TypeOK'
    BY <1>1, <1>2, <1>7, <2>2 DEF FindSame, TypeOK, IsNodeTable, IsRouteTable, Labels, Procs
  <2> QED
    BY <1>3, <2>1, <2>3 DEF KnowsClaims
<1>8. CASE FindCreated(p)
  <2>1. ActsOnClaims'
    BY <1>4, <1>8 DEF FindCreated, Labels, Adding, Removing
  <2>2. TypeOK'
    BY <1>1, <1>2, <1>8 DEF FindCreated, TypeOK, IsNodeTable, IsRouteTable, Labels
  <2> QED
    BY <1>3, <2>1, <2>2 DEF KnowsClaims
<1>9. CASE Lock(p)
  <2>1. ActsOnClaims'
    BY <1>4, <1>9 DEF Lock, Labels, Adding, Removing
  <2>2. TypeOK'
    BY <1>1, <1>2, <1>9 DEF Lock, TypeOK, IsNodeTable, IsRouteTable, Labels
  <2> QED
    BY <1>3, <2>1, <2>2 DEF KnowsClaims
<1> QED
  BY <1>5, <1>6, <1>7, <1>8, <1>9

(* An attempt to create a route, and its panic, keep the claims right. *)
LEMMA CreateKnows ==
  ASSUME KnowsClaims, NEW p \in Procs, CreateRoute(p) \/ CreatePanics(p)
  PROVE  KnowsClaims'
<1> USE DEF world, local, Goto, Continue, Finish, Rest, AddFailed
<1>1. TypeOK /\ ActsOnClaims /\ ShownNodes /\ IsJob(job[p])
  BY DEF KnowsClaims, TypeOK
<1>2. budget' \in [BudgetKeys -> Nat]
  BY <1>1, SpendType DEF BudgetKeys, CreateRoute, CreatePanics, TypeOK
<1>3. pc[p] = "creating" /\ <<job[p].node, job[p].cidr, job[p].inst>> \in claims
                         /\ job[p].inst \in Instances
  BY <1>1 DEF CreateRoute, CreatePanics, ActsOnClaims, Adding
<1>4. IsRouteTable(cloud)'
  BY <1>1, <1>3 DEF CreateRoute, CreatePanics, TypeOK, IsRouteTable, Hops
<1>5. CASE CreateRoute(p)
  <2> DEFINE more == [job[p] EXCEPT !.tries = job[p].tries + 1]
  <2>1. UNCHANGED <<nodes, claims, up, queue, delayed, nodeCache, nodeSnap, routeSnap, todoRoutes>>
    BY <1>5 DEF CreateRoute
  <2>2. ShownNodes'
    BY <1>1, <2>1, ShownSame
  <2>3. lock' \in Procs \cup {"free"}
    BY <1>1, <1>5 DEF CreateRoute, TypeOK
  <2>4. PICK l \in Labels : pc' = [pc EXCEPT ![p] = l] /\ l \notin Removing
    BY <1>1, <1>3, <1>5 DEF CreateRoute, Labels, Removing, TypeOK
  <2>5. \/ UNCHANGED job
        \/ job' = [job EXCEPT ![p] = NoJob] /\ pc' # pc /\ pc'[p] \notin Adding
        \/ job' = [job EXCEPT ![p] = more] /\ TriesLeft(job[p])
    BY <1>1, <1>3, <1>5 DEF CreateRoute, Adding, TypeOK
  <2>6. CASE UNCHANGED job
    <3>1. TypeOK'
      BY <1>1, <1>2, <1>4, <2>1, <2>3, <2>4, <2>6 DEF TypeOK, IsNodeTable, IsRouteTable
    <3>2. ActsOnClaims'
      <4>1. pc'[p] = l /\ \A q \in Procs \ {p} : pc'[q] = pc[q]
        BY <1>1, <2>4 DEF TypeOK
      <4> QED
        BY <1>1, <1>3, <2>1, <2>4, <2>6, <4>1 DEF ActsOnClaims, Covered
    <3> QED
      BY <2>2, <3>1, <3>2 DEF KnowsClaims
  <2>7. ASSUME NEW j, IsJob(j), job' = [job EXCEPT ![p] = j],
               pc'[p] \in Adding => j.node = job[p].node /\ j.cidr = job[p].cidr /\ j.inst = job[p].inst
        PROVE  KnowsClaims'
    <3>1. /\ job' = [q \in Procs |-> job'[q]] /\ \A q \in Procs : IsJob(job'[q])
          /\ job'[p] = j /\ \A q \in Procs \ {p} : job'[q] = job[q]
      BY <1>1, <2>7, JobsWith DEF TypeOK
    <3>2. TypeOK'
      BY <1>1, <1>2, <1>4, <2>1, <2>3, <2>4, <3>1 DEF TypeOK, IsNodeTable, IsRouteTable
    <3>3. pc'[p] = l /\ \A q \in Procs \ {p} : pc'[q] = pc[q]
      BY <1>1, <2>4 DEF TypeOK
    <3>4. ActsOnClaims'
      BY <1>1, <1>3, <2>1, <2>4, <2>7, <3>1, <3>3 DEF ActsOnClaims, Covered
    <3> QED
      BY <2>2, <3>2, <3>4 DEF KnowsClaims
  <2>8. CASE job' = [job EXCEPT ![p] = NoJob] /\ pc'[p] \notin Adding
    BY <2>7, <2>8, NoJobIsJob
  <2>9. CASE job' = [job EXCEPT ![p] = more] /\ TriesLeft(job[p])
    <3>1. job[p].tries + 1 \in 0 .. MaxTries - 1
      BY <1>1, <2>9, ControllerAssumption DEF IsJob, TriesLeft
    <3>2. /\ IsJob(more) /\ more.node = job[p].node
          /\ more.cidr = job[p].cidr /\ more.inst = job[p].inst
      BY <1>1, <3>1, JobWith DEF IsJob
    <3> HIDE DEF more
    <3> QED
      BY <2>7, <2>9, <3>2
  <2> QED
    BY <2>5, <2>6, <2>8, <2>9
<1>6. CASE CreatePanics(p) /\ p = "worker"
  <2>1. UNCHANGED <<nodes, claims, up, queue, nodeCache, nodeSnap, routeSnap, todoRoutes>>
    BY <1>6 DEF CreatePanics
  <2>2. /\ lock' = "free" /\ delayed' = delayed \cup {job[p].node}
        /\ pc' = [pc EXCEPT ![p] = "idle"] /\ job' = [job EXCEPT ![p] = NoJob]
    BY <1>6 DEF CreatePanics
  <2>3. /\ job' = [q \in Procs |-> job'[q]] /\ \A q \in Procs : IsJob(job'[q])
        /\ \A q \in Procs \ {p} : job'[q] = job[q]
    BY <1>1, <2>2, NoJobIsJob, JobsWith DEF TypeOK
  <2>4. delayed' \subseteq Nodes
    BY <1>1, <1>3, <2>2 DEF TypeOK
  <2>5. TypeOK'
    BY <1>1, <1>2, <1>4, <2>1, <2>2, <2>3, <2>4 DEF TypeOK, IsNodeTable, IsRouteTable, Labels
  <2>6. ActsOnClaims'
    BY <1>1, <2>1, <2>2, <2>3 DEF ActsOnClaims, Covered, TypeOK, Adding, Removing
  <2>7. ShownNodes'
    BY <1>1, <2>1, ShownSame
  <2> QED
    BY <2>5, <2>6, <2>7 DEF KnowsClaims
<1>7. CASE CreatePanics(p) /\ p # "worker"
  BY <1>2, <1>4, <1>7, EndKnows DEF CreatePanics
<1> QED
  BY <1>5, <1>6, <1>7
(* The condition is patched: what the cluster shows stays the same. *)
LEMMA ConditionKnows ==
  ASSUME KnowsClaims, WorksOnNode, NEW p \in Procs, RouteCondition(p)
  PROVE  KnowsClaims'
<1>1. TypeOK /\ ActsOnClaims /\ ShownNodes
  BY DEF KnowsClaims
<1>2. PICK w \in NetStates :
        /\ \/ UNCHANGED <<nodes, queue>> /\ (UNCHANGED budget \/ Spend("fault"))
           \/ /\ nodes[job[p].node] # Absent /\ UNCHANGED budget
              /\ nodes' = [nodes EXCEPT ![job[p].node] = [nodes[job[p].node] EXCEPT !.net = w]]
              /\ queue' \in {queue, queue \cup {job[p].node}}
              /\ queue' # queue => PredicateUpdate(nodes[job[p].node],
                                                   [nodes[job[p].node] EXCEPT !.net = w])
        /\ Finish(p)
        /\ UNCHANGED <<claims, cloud, up, delayed, nodeCache, lock, nodeSnap, routeSnap, todoRoutes>>
  BY DEF RouteCondition, SetCondition, SetNode, NetStates, local
<1> DEFINE n == job[p].node
<1>3. /\ job' = [q \in Procs |-> job'[q]] /\ \A q \in Procs : IsJob(job'[q])
      /\ \A q \in Procs \ {p} : job'[q] = job[q]
  BY <1>1, <1>2, NoJobIsJob, JobsWith DEF TypeOK, Finish
<1>4. /\ pc' \in [Procs -> Labels] /\ pc'[p] \notin Adding \cup Removing
      /\ \A q \in Procs \ {p} : pc'[q] = pc[q]
  BY <1>1, <1>2 DEF TypeOK, Finish, Goto, Rest, Labels, Adding, Removing
<1>5. ActsOnClaims'
  <2>1. \A q \in Procs :
          /\ pc'[q] \in Adding => pc[q] \in Adding /\ job'[q] = job[q]
          /\ pc'[q] \in Removing => pc[q] \in Removing /\ job'[q] = job[q]
    BY <1>3, <1>4
  <2> QED
    BY <1>1, <1>2, <2>1 DEF ActsOnClaims, Covered
<1>6. n \in Nodes
  BY <1>1 DEF WorksOnNode, RouteCondition, SetCondition, Removing
<1>7. budget' \in [BudgetKeys -> Nat]
  BY <1>1, <1>2, SpendType DEF BudgetKeys, TypeOK
<1>8. CASE UNCHANGED <<nodes, queue>>
  <2>1. TypeOK'
    BY <1>1, <1>2, <1>3, <1>4, <1>7, <1>8 DEF TypeOK, IsNodeTable, IsRouteTable
  <2>2. ShownNodes'
    BY <1>1, <1>2, <1>8, ShownSame
  <2> QED
    BY <1>5, <2>1, <2>2 DEF KnowsClaims
<1>9. CASE /\ nodes[n] # Absent
           /\ nodes' = [nodes EXCEPT ![n] = [nodes[n] EXCEPT !.net = w]]
           /\ queue' = queue
  <2>1. IsNode(nodes[n])
    BY <1>1, <1>9, <1>6 DEF TypeOK, IsNodeTable
  <2>2. PICK o : o = [nodes[n] EXCEPT !.net = w]
    OBVIOUS
  <2>3. IsNode(o) /\ o = [spec |-> nodes[n].spec, uid |-> nodes[n].uid, net |-> w]
    BY <2>1, <2>2, NodeWithNet
  <2>4. o.spec = nodes[n].spec
    BY <2>3
  <2>5. nodes' = [nodes EXCEPT ![n] = o]
    BY <1>9, <2>2
  <2>6. IsNodeTable(nodes')
    BY <1>1, <2>3, <2>5, NodeTableWith DEF TypeOK
  <2>7. \A m \in Nodes : nodes'[m] # Absent =>
           nodes[m] # Absent /\ Cidr(nodes'[m]) = Cidr(nodes[m]) /\ Inst(nodes'[m]) = Inst(nodes[m])
    BY <1>1, <1>9, <2>4, <2>5 DEF TypeOK, IsNodeTable, Cidr, Inst
  <2>8. Claims(nodes') \subseteq Claims(nodes)
    BY <2>7, ClaimsOfSame
  <2>9. Claims(nodes)' = Claims(nodes') /\ Claims(nodeSnap)' = Claims(nodeSnap)
    BY <1>2 DEF Claims
  <2>10. ShownNodes'
    BY <1>1, <1>2, <2>8, <2>9 DEF ShownNodes
  <2>11. TypeOK'
    BY <1>1, <1>2, <1>3, <1>4, <1>7, <1>9, <2>6 DEF TypeOK, IsRouteTable, IsNodeTable
  <2> QED
    BY <1>5, <2>10, <2>11 DEF KnowsClaims
<1>10. CASE nodes[n] # Absent /\ queue' # queue
  <2>1. PredicateUpdate(nodes[n], [nodes[n] EXCEPT !.net = w])
    BY <1>2, <1>10
  <2>2. IsNode(nodes[n])
    BY <1>1, <1>10, <1>6 DEF TypeOK, IsNodeTable
  <2>3. /\ nodes[n] = [spec |-> nodes[n].spec, uid |-> nodes[n].uid, net |-> nodes[n].net]
        /\ [nodes[n] EXCEPT !.net = w] = [spec |-> nodes[n].spec, uid |-> nodes[n].uid, net |-> w]
    BY <2>2, NodeFields, NodeWithNet
  <2> QED
    BY <2>1, <2>3, ConditionPatchIsSilent
<1> QED
  BY <1>2, <1>8, <1>9, <1>10

(***************************************************************************)
(* A route is found and deleted: the worker forgets it next or is retried. *)
(***************************************************************************)
LEMMA DeleteKnows ==
  ASSUME KnowsClaims, WorksOnNode, NEW p \in Procs, DeleteFind(p) \/ DeleteRoute(p)
  PROVE  KnowsClaims'
<1> USE DEF world, local
<1>1. TypeOK /\ ActsOnClaims /\ ShownNodes
  BY DEF KnowsClaims
<1>2. pc[p] \in Removing /\ Covered(job[p].cidr) /\ IsJob(job[p])
  BY <1>1 DEF DeleteFind, DeleteRoute, Removing, ActsOnClaims, TypeOK
<1>3. p = "worker" => job[p].node \in Nodes
  BY DEF WorksOnNode, DeleteFind, DeleteRoute
<1>4. budget' \in [BudgetKeys -> Nat]
  BY <1>1, SpendType DEF BudgetKeys, DeleteFind, DeleteRoute, TypeOK
<1>5. IsRouteTable(cloud)'
  BY <1>1 DEF DeleteFind, DeleteRoute, TypeOK, IsRouteTable
<1>6. ShownNodes'
  BY <1>1, ShownSame DEF DeleteFind, DeleteRoute
<1>7. CASE Deleted(p) \/ DeleteFailed(p)
  <2>1. /\ job' = [q \in Procs |-> job'[q]] /\ \A q \in Procs : IsJob(job'[q])
        /\ \A q \in Procs \ {p} : job'[q] = job[q]
    BY <1>1, <1>7, NoJobIsJob, JobsWith DEF TypeOK, Deleted, DeleteFailed, Finish, Continue
  <2>2. /\ pc' \in [Procs -> Labels] /\ pc'[p] \notin Adding \cup Removing
        /\ \A q \in Procs \ {p} : pc'[q] = pc[q]
    BY <1>1, <1>7 DEF TypeOK, Deleted, DeleteFailed, Finish, Continue, Goto, Rest, Labels,
                      Adding, Removing
  <2>3. /\ nodeCache' \in [Nodes -> Cidrs \cup {NoCidr}]
        /\ \A n \in Nodes : nodeCache'[n] \in {nodeCache[n], NoCidr}
    BY <1>1, <1>7 DEF TypeOK, Deleted, DeleteFailed
  <2>4. delayed' \subseteq Nodes
    BY <1>1, <1>3, <1>7 DEF TypeOK, Deleted, DeleteFailed
  <2>5. lock' = "free" /\ UNCHANGED <<nodes, claims, up, queue, nodeSnap, routeSnap, todoRoutes>>
    BY <1>7 DEF Deleted, DeleteFailed, DeleteFind, DeleteRoute
  <2>6. TypeOK'
    BY <1>1, <1>4, <1>5, <2>1, <2>2, <2>3, <2>4, <2>5 DEF TypeOK, IsNodeTable, IsRouteTable
  <2>7. \A q \in Procs :
          /\ pc'[q] \in Adding => pc[q] \in Adding /\ job'[q] = job[q]
          /\ pc'[q] \in Removing => pc[q] \in Removing /\ job'[q] = job[q]
    BY <2>1, <2>2
  <2>8. ActsOnClaims'
    BY <1>1, <2>3, <2>5, <2>7 DEF ActsOnClaims, Covered
  <2> QED
    BY <1>6, <2>6, <2>8 DEF KnowsClaims
<1>8. CASE ~(Deleted(p) \/ DeleteFailed(p))
  <2> DEFINE found == cloud[job[p].cidr]
  <2>1. /\ pc[p] = "deleteFind" /\ found # NoRoute
        /\ pc' = [pc EXCEPT ![p] = "deleting"]
        /\ job' = [job EXCEPT ![p].inst = found]
        /\ UNCHANGED <<nodes, claims, up, cloud, queue, lock, nodeCache, delayed, budget,
                       nodeSnap, routeSnap, todoRoutes>>
    BY <1>8 DEF DeleteFind, DeleteRoute, Goto
  <2>2. PICK j : j = [job[p] EXCEPT !.inst = found]
    OBVIOUS
  <2>3. job[p].cidr \in Cidrs
    BY <1>1, <1>2, CidrsAssumption DEF Covered, TypeOK
  <2>4. found \in Hops
    BY <1>1, <2>1, <2>3 DEF TypeOK, IsRouteTable
  <2>5. 0 \in 0 .. MaxTries - 1
    BY ControllerAssumption
  <2>6. IsJob(j) /\ j.cidr = job[p].cidr
    <3>1. IsJob(j) /\ j = [node |-> job[p].node, cidr |-> job[p].cidr, inst |-> found,
                           net |-> job[p].net, tries |-> job[p].tries]
      BY <1>2, <2>2, <2>4, <2>5, JobWith
    <3> QED
      BY <3>1
  <2>7. job' = [job EXCEPT ![p] = j]
    BY <2>1, <2>2
  <2>8. /\ job' = [q \in Procs |-> job'[q]] /\ \A q \in Procs : IsJob(job'[q])
        /\ job'[p] = j /\ \A q \in Procs \ {p} : job'[q] = job[q]
    BY <1>1, <2>6, <2>7, JobsWith DEF TypeOK
  <2>9. pc'[p] = "deleting" /\ \A q \in Procs \ {p} : pc'[q] = pc[q]
    BY <1>1, <2>1 DEF TypeOK
  <2>10. TypeOK'
    BY <1>1, <2>1, <2>8 DEF TypeOK, IsNodeTable, IsRouteTable, Labels
  <2>11. ActsOnClaims'
    BY <1>1, <1>2, <2>1, <2>6, <2>8, <2>9 DEF ActsOnClaims, Covered, Adding
  <2> QED
    BY <1>6, <2>10, <2>11 DEF KnowsClaims
<1> QED
  BY <1>7, <1>8

-----------------------------------------------------------------------------
(***************************************************************************)
(* Where the processes are: a process works on a node, and the sync only   *)
(* keeps nodes that want a route.                                          *)
(***************************************************************************)
LEMMA PlacesInit ==
  ASSUME Init
  PROVE  WorksOnNode /\ SyncedNodesWant
BY DEF Init, WorksOnNode, SyncedNodesWant, NoNodes

(* A step that moves one process on with its node, or to rest. *)
LEMMA PlaceAfterMove ==
  ASSUME TypeOK, WorksOnNode, SyncedNodesWant, NEW p \in Procs,
         pc[p] \notin {"idle", "list", "pass"}, UNCHANGED nodeSnap,
         NEW l, pc' = [pc EXCEPT ![p] = l], l # "list",
         p = "sync" /\ pc[p] \in Removing => l \in Removing,
         \A q \in Procs : job'[q].node = job[q].node
  PROVE  WorksOnNode' /\ SyncedNodesWant'
<1>1. pc'[p] = l /\ \A q \in Procs \ {p} : pc'[q] = pc[q]
  BY DEF TypeOK
<1>2. WorksOnNode'
  BY <1>1 DEF WorksOnNode
<1>3. pc'["sync"] # "list" => pc["sync"] # "list"
  BY <1>1 DEF Procs
<1> QED
  BY <1>2, <1>3 DEF SyncedNodesWant

(* A process that comes to rest needs no node. *)
LEMMA PlaceAfterRest ==
  ASSUME TypeOK, WorksOnNode, SyncedNodesWant, NEW p \in Procs,
         pc[p] \notin {"idle", "list", "pass"}, UNCHANGED nodeSnap, Finish(p)
  PROVE  WorksOnNode' /\ SyncedNodesWant'
<1>1. /\ pc'[p] \in {"idle", "pass"}
      /\ \A q \in Procs \ {p} : pc'[q] = pc[q] /\ job'[q] = job[q]
  BY DEF TypeOK, Finish, Goto, Rest
<1>2. WorksOnNode'
  BY <1>1 DEF WorksOnNode
<1>3. pc'["sync"] # "list" => pc["sync"] # "list"
  BY <1>1 DEF Procs
<1> QED
  BY <1>2, <1>3 DEF SyncedNodesWant

(* A process that ended works on nothing. *)
LEMMA PlaceAfterEnd ==
  ASSUME ProcessEnds
  PROVE  WorksOnNode' /\ SyncedNodesWant'
BY DEF ProcessEnds, WorksOnNode, SyncedNodesWant, NoNodes

(* The calls of a process keep it on its node. *)
LEMMA PlacesCall ==
  ASSUME TypeOK, WorksOnNode, SyncedNodesWant, NEW p \in Procs, Lock(p) \/ Call(p)
  PROVE  WorksOnNode' /\ SyncedNodesWant'
<1> USE DEF local
<1>1. ASSUME NEW l, Continue(p, l), UNCHANGED nodeSnap, l # "list",
             pc[p] \notin {"idle", "list", "pass"},
             p = "sync" /\ pc[p] \in Removing => l \in Removing
      PROVE  WorksOnNode' /\ SyncedNodesWant'
  BY <1>1, PlaceAfterMove DEF Continue, Goto
<1>2. ASSUME AddFailed(p), UNCHANGED nodeSnap,
             pc[p] \notin {"idle", "list", "pass"} \cup Removing
      PROVE  WorksOnNode' /\ SyncedNodesWant'
  BY <1>1, <1>2, PlaceAfterRest DEF AddFailed
<1>3. CASE Lock(p)
  BY <1>1, <1>3 DEF Lock, Removing
<1>4. CASE FindRoute(p)
  BY <1>1, <1>4 DEF FindRoute, Removing
<1>5. CASE Store(p)
  BY <1>1, <1>5 DEF Store, Removing
<1>6. CASE FindCreated(p)
  BY <1>1, <1>6 DEF FindCreated, Removing
<1>7. CASE FindSame(p)
  BY <1>1, <1>2, <1>7 DEF FindSame, Removing
<1>8. CASE RouteCondition(p)
  BY <1>8, PlaceAfterRest DEF RouteCondition, SetCondition
<1>9. CASE CreateRoute(p)
  <2>1. pc[p] = "creating" /\ UNCHANGED nodeSnap
    BY <1>9 DEF CreateRoute
  <2>2. CASE AddFailed(p)
    BY <1>2, <2>1, <2>2 DEF Removing
  <2>3. CASE \E l \in {"confirm", "same"} : Continue(p, l)
    BY <1>1, <2>1, <2>3 DEF Removing
  <2>4. CASE job' = [job EXCEPT ![p].tries = job[p].tries + 1] /\ TriesLeft(job[p]) /\ UNCHANGED pc
    <3>1. PICK j : j = [job[p] EXCEPT !.tries = job[p].tries + 1]
      OBVIOUS
    <3>2. IsJob(job[p]) /\ NoInst \in Hops /\ job[p].tries + 1 \in 0 .. MaxTries - 1
      BY <2>4, ControllerAssumption DEF TypeOK, IsJob, TriesLeft, Hops
    <3>3. j = [node |-> job[p].node, cidr |-> job[p].cidr, inst |-> job[p].inst,
               net |-> job[p].net, tries |-> job[p].tries + 1]
      BY <3>1, <3>2, JobWith
    <3>4. job' = [job EXCEPT ![p] = j]
      BY <2>4, <3>1
    <3>5. \A q \in Procs : job'[q].node = job[q].node
      BY <3>3, <3>4 DEF TypeOK
    <3>6. pc' = [pc EXCEPT ![p] = "creating"]
      BY <2>1, <2>4 DEF TypeOK
    <3> QED
      BY <2>1, <3>5, <3>6, PlaceAfterMove DEF Removing
  <2> QED
    BY <1>9, <2>2, <2>3, <2>4 DEF CreateRoute
<1>10. CASE CreatePanics(p)
  BY <1>10, PlaceAfterRest, PlaceAfterEnd DEF CreatePanics
<1>11. CASE DeleteRoute(p)
  BY <1>1, <1>11, PlaceAfterRest DEF DeleteRoute, Deleted, DeleteFailed
<1>12. CASE DeleteFind(p)
  <2> DEFINE found == cloud[job[p].cidr]
  <2>1. pc[p] = "deleteFind" /\ UNCHANGED nodeSnap
    BY <1>12 DEF DeleteFind
  <2>2. CASE Finish(p) \/ (p = "worker" /\ Continue(p, "forget"))
    BY <1>1, <2>1, <2>2, PlaceAfterRest
  <2>3. CASE found # NoRoute /\ Goto(p, "deleting") /\ job' = [job EXCEPT ![p].inst = found]
    <3>1. PICK j : j = [job[p] EXCEPT !.inst = found]
      OBVIOUS
    <3>2. j.node = job[p].node
      BY <3>1 DEF TypeOK, IsJob
    <3>3. job' = [job EXCEPT ![p] = j]
      BY <2>3, <3>1
    <3>4. \A q \in Procs : job'[q].node = job[q].node
      BY <3>2, <3>3 DEF TypeOK
    <3> QED
      BY <2>1, <2>3, <3>4, PlaceAfterMove DEF Removing, Goto
  <2> QED
    BY <1>12, <2>2, <2>3 DEF DeleteFind, Deleted, DeleteFailed
<1> QED
  BY <1>3, <1>4, <1>5, <1>6, <1>7, <1>8, <1>9, <1>10, <1>11, <1>12 DEF Call

(* Every step keeps the processes on nodes and the list to nodes that want routes. *)
LEMMA PlacesStep ==
  ASSUME TypeOK, WorksOnNode, SyncedNodesWant, [Next]_vars
  PROVE  WorksOnNode' /\ SyncedNodesWant'
<1> USE DEF local
<1>1. ASSUME UNCHANGED <<pc, job, nodeSnap>>
      PROVE  WorksOnNode' /\ SyncedNodesWant'
  BY <1>1 DEF WorksOnNode, SyncedNodesWant
<1>2. CASE Cluster
  <2>1. ASSUME NEW n \in Nodes, NodeAdded(n) \/ NodeUpdated(n) \/ NodeReplaced(n) \/ NodeRemoved(n)
        PROVE  UNCHANGED <<pc, job, nodeSnap>>
    BY <2>1 DEF NodeAdded, NodeUpdated, NodeReplaced, NodeRemoved, NodeEvent
  <2>2. ASSUME NEW c \in Cidrs, ForeignChange(c)
        PROVE  UNCHANGED <<pc, job, nodeSnap>>
    BY <2>2 DEF ForeignChange
  <2>3. CASE Crash
    BY <2>3, PlaceAfterEnd DEF Crash
  <2> QED
    BY <1>1, <1>2, <2>1, <2>2, <2>3 DEF Cluster
<1>3. CASE Start
  BY <1>1, <1>3 DEF Start
<1>4. CASE Reconcile
  <2>1. ASSUME NEW n \in Nodes, ReconcileRemoved(n) \/ ReconcileSkipped(n) \/ ReconcileNode(n)
        PROVE  WorksOnNode' /\ SyncedNodesWant'
    <3>1. UNCHANGED nodeSnap /\ pc'["sync"] = pc["sync"] /\ job'["sync"] = job["sync"]
      BY <2>1 DEF TypeOK, ReconcileRemoved, ReconcileSkipped, ReconcileNode, Take, Goto, Procs
    <3>2. \/ UNCHANGED <<pc, job>>
          \/ job'["worker"].node = n
      BY <2>1 DEF TypeOK, ReconcileRemoved, ReconcileSkipped, ReconcileNode, Take, Procs,
             AddJob, DeleteJob
    <3> QED
      BY <1>1, <3>1, <3>2 DEF WorksOnNode, SyncedNodesWant, Procs
  <2>2. CASE CachedRoute
    <3>1. UNCHANGED nodeSnap /\ pc'["sync"] = pc["sync"] /\ job'["sync"] = job["sync"]
      BY <2>2 DEF TypeOK, CachedRoute, Finish, Goto, Procs
    <3>2. job["worker"].node \in Nodes
      BY <2>2 DEF CachedRoute, WorksOnNode, Procs
    <3>3. pc'["worker"] = "idle" \/ job'["worker"].node \in Nodes
      BY <2>2, <3>2 DEF TypeOK, CachedRoute, Finish, Goto, Rest, Procs, DeleteJob
    <3> QED
      BY <3>1, <3>3 DEF WorksOnNode, SyncedNodesWant, Procs
  <2>3. CASE Forget
    BY <2>3, PlaceAfterRest DEF Forget, Procs
  <2> QED
    BY <1>4, <2>1, <2>2, <2>3 DEF Reconcile
<1>5. CASE ReconcileForCluster
  <2>1. CASE NodeList \/ SyncDone
    BY <2>1 DEF NodeList, SyncDone, Goto, TypeOK, WorksOnNode, SyncedNodesWant, Procs
  <2>2. CASE ListRoutes
    <3>1. WorksOnNode'
      BY <2>2 DEF ListRoutes, Goto, TypeOK, WorksOnNode, Procs
    <3>2. SyncedNodesWant'
      BY <2>2 DEF ListRoutes, SyncedNodesWant, NoNodes
    <3> QED
      BY <3>1, <3>2
  <2>3. ASSUME NEW c \in Cidrs, SyncDelete(c)
        PROVE  WorksOnNode' /\ SyncedNodesWant'
    BY <2>3 DEF SyncDelete, Goto, TypeOK, WorksOnNode, SyncedNodesWant, Procs, Removing
  <2>4. ASSUME NEW n \in Nodes, SyncNode(n)
        PROVE  WorksOnNode' /\ SyncedNodesWant'
    <3>1. job'["sync"].node = n /\ job'["worker"] = job["worker"]
      BY <2>4 DEF SyncNode, TypeOK, Procs, AddJob
    <3>2. pc'["sync"] = "find" /\ pc'["worker"] = pc["worker"]
      BY <2>4 DEF SyncNode, TypeOK, Procs, Goto
    <3>3. WorksOnNode'
      BY <3>1, <3>2 DEF WorksOnNode, Procs
    <3>4. pc["sync"] = "pass"
      BY <2>4 DEF SyncNode
    <3>5. \A m \in Nodes : nodeSnap'[m] = nodeSnap[m] \/ nodeSnap'[m] = Absent
      BY <2>4 DEF SyncNode, TypeOK, IsNodeTable
    <3>6. SyncedNodesWant'
      BY <3>4, <3>5 DEF SyncedNodesWant
    <3> QED
      BY <3>3, <3>6
  <2> QED
    BY <1>5, <2>1, <2>2, <2>3, <2>4 DEF ReconcileForCluster
<1>6. ASSUME NEW n \in Nodes, RetryDue(n)
      PROVE  WorksOnNode' /\ SyncedNodesWant'
  BY <1>1, <1>6 DEF RetryDue
<1>7. CASE UNCHANGED vars
  BY <1>1, <1>7 DEF vars
<1> QED
  BY <1>2, <1>3, <1>4, <1>5, <1>6, <1>7, PlacesCall DEF Next

-----------------------------------------------------------------------------
(***************************************************************************)
(* The inductive invariant of the claims.                                  *)
(***************************************************************************)
IInv == KnowsClaims /\ WorksOnNode /\ SyncedNodesWant

(* Every step preserves the inductive invariant. *)
LEMMA IInvStep ==
  ASSUME IInv, [Next]_vars
  PROVE  IInv'
<1>1. KnowsClaims /\ TypeOK /\ WorksOnNode /\ SyncedNodesWant
  BY DEF IInv, KnowsClaims
<1>2. WorksOnNode' /\ SyncedNodesWant'
  BY <1>1, PlacesStep
<1>3. ASSUME UNCHANGED <<nodes, claims, cloud, nodeCache, lock, pc, job, nodeSnap,
                         routeSnap, todoRoutes, budget>>,
             up' \in BOOLEAN, queue' \subseteq Nodes, delayed' \subseteq Nodes
      PROVE  KnowsClaims'
  <2>1. TypeOK'
    BY <1>1, <1>3 DEF TypeOK, IsNodeTable, IsRouteTable
  <2>2. ActsOnClaims' /\ ShownNodes'
    BY <1>1, <1>3, ShownSame DEF KnowsClaims, ActsOnClaims, Covered
  <2> QED
    BY <2>1, <2>2 DEF KnowsClaims
<1>4. ASSUME Start
      PROVE  KnowsClaims'
  BY <1>1, <1>3, <1>4 DEF Start, TypeOK, Present, local
<1>5. ASSUME NEW n \in Nodes, RetryDue(n)
      PROVE  KnowsClaims'
  BY <1>1, <1>3, <1>5 DEF RetryDue, TypeOK, world, local
<1>6. ASSUME NEW p \in Procs, Lock(p) \/ Call(p)
      PROVE  KnowsClaims'
  BY <1>1, <1>6, AddCallsKnow, CreateKnows, ConditionKnows, DeleteKnows DEF Call
<1>7. ASSUME UNCHANGED vars
      PROVE  KnowsClaims'
  BY <1>1, <1>3, <1>7 DEF vars, TypeOK
<1>8. KnowsClaims'
  BY <1>1, <1>4, <1>5, <1>6, <1>7, ClusterKnows, ReconcileKnows, ReconcileForClusterKnows DEF Next
<1> QED
  BY <1>2, <1>8 DEF IInv

(* The inductive invariant holds in every behaviour. *)
LEMMA Inductive == Spec => []IInv
<1>1. Init => IInv
  BY KnowsInit, PlacesInit DEF IInv
<1>2. IInv /\ [Next]_vars => IInv'
  BY IInvStep
<1> QED
  BY <1>1, <1>2, PTL DEF Spec, Safety

(* Every variable keeps its type, for whatever the cluster shows. *)
THEOREM TypesHold == Spec => []TypeOK
<1>1. IInv => TypeOK
  BY DEF IInv, KnowsClaims
<1> QED
  BY <1>1, Inductive, PTL

(***************************************************************************)
(* The controller only ever acts on the CIDRs and instances it was shown:  *)
(* see ActsOnClaims.                                                       *)
(***************************************************************************)
THEOREM ActsOnClaimsAlways == Spec => []ActsOnClaims
<1>1. IInv => ActsOnClaims
  BY DEF IInv, KnowsClaims
<1> QED
  BY <1>1, Inductive, PTL
=============================================================================
