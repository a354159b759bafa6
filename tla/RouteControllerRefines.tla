----------------------- MODULE RouteControllerRefines -----------------------
(***************************************************************************)
(* The route controller keeps the promise of RouteTable, and what one call *)
(* saw under routeLock holds at the next, from the inductive invariant of  *)
(* RouteControllerProofs.                                                  *)
(***************************************************************************)
EXTENDS RouteControllerProofs

-----------------------------------------------------------------------------
(***************************************************************************)
(* What is seen under routeLock.  A step that frees the lock leaves nobody *)
(* inside; any other either moves no route and nobody past a call, or is   *)
(* the holder's.                                                           *)
(***************************************************************************)
ForeignBound == \E b \in InitBudgets : budget["foreign"] <= b["foreign"]

(* Only a change by others spends their budget, and it is never given back. *)
LEMMA ForeignStep ==
  ASSUME TypeOK, ForeignBound, [Next]_vars
  PROVE  /\ ForeignBound'
         /\ \/ budget'["foreign"] = budget["foreign"]
            \/ ~Undisturbed' /\ \E c \in Cidrs : ForeignChange(c)
<1>1. budget \in [BudgetKeys -> Nat] /\ InitBudgets \subseteq [BudgetKeys -> Nat]
  BY ControllerAssumption DEF TypeOK
<1>2. ASSUME NEW k \in BudgetKeys \ {"foreign"}, Spend(k)
      PROVE  budget'["foreign"] = budget["foreign"]
  BY <1>1, <1>2 DEF Spend, BudgetKeys
<1>3. CASE \E c \in Cidrs : ForeignChange(c)
  <2>1. budget["foreign"] > 0 /\ budget'["foreign"] = budget["foreign"] - 1
    BY <1>1, <1>3 DEF ForeignChange, Spend, BudgetKeys
  <2>2. PICK b \in InitBudgets : budget["foreign"] <= b["foreign"]
    BY DEF ForeignBound
  <2>3. budget["foreign"] \in Nat /\ b["foreign"] \in Nat
    BY <1>1 DEF BudgetKeys
  <2>4. budget'["foreign"] <= b["foreign"] /\ ~(b["foreign"] <= budget'["foreign"])
    BY <2>1, <2>2, <2>3
  <2> QED
    BY <1>3, <2>4 DEF ForeignBound, Undisturbed
<1>4. CASE UNCHANGED budget
  BY <1>4 DEF ForeignBound
<1>5. CASE \E k \in BudgetKeys \ {"foreign"} : Spend(k)
  BY <1>2, <1>5 DEF ForeignBound
<1>6. {"churn", "fault", "crash"} \subseteq BudgetKeys \ {"foreign"}
  BY DEF BudgetKeys
<1>7. \/ \E c \in Cidrs : ForeignChange(c)
      \/ UNCHANGED budget
      \/ \E k \in BudgetKeys \ {"foreign"} : Spend(k)
  <2>1. ASSUME NEW n \in Nodes, NodeAdded(n) \/ NodeUpdated(n) \/ NodeReplaced(n) \/ NodeRemoved(n)
        PROVE  Spend("churn")
    BY <2>1 DEF NodeAdded, NodeUpdated, NodeReplaced, NodeRemoved, NodeEvent
  <2>2. CASE Cluster
    BY <1>6, <2>1, <2>2 DEF Cluster, Crash
  <2>3. CASE Start \/ Reconcile \/ \E n \in Nodes : RetryDue(n)
    BY <2>3 DEF Start, Reconcile, RetryDue, ReconcileRemoved, ReconcileSkipped, ReconcileNode,
                Take, CachedRoute, Forget
  <2>4. CASE ReconcileForCluster
    BY <1>6, <2>4 DEF ReconcileForCluster, NodeList, ListRoutes, SyncDone, SyncDelete, SyncNode
  <2>5. ASSUME NEW p \in Procs, Lock(p) \/ FindRoute(p) \/ Store(p) \/ FindSame(p) \/ FindCreated(p)
        PROVE  UNCHANGED budget \/ Spend("fault")
    BY <2>5 DEF Lock, FindRoute, Store, FindSame, FindCreated
  <2>6. ASSUME NEW p \in Procs, CreateRoute(p) \/ CreatePanics(p) \/ RouteCondition(p)
        PROVE  UNCHANGED budget \/ Spend("fault")
    BY <2>6 DEF CreateRoute, CreatePanics, RouteCondition, SetCondition
  <2>7. ASSUME NEW p \in Procs, DeleteFind(p) \/ DeleteRoute(p)
        PROVE  UNCHANGED budget \/ Spend("fault")
    BY <2>7 DEF DeleteFind, DeleteRoute
  <2>8. CASE UNCHANGED vars
    BY <2>8 DEF vars
  <2> QED
    BY <1>6, <2>2, <2>3, <2>4, <2>5, <2>6, <2>7, <2>8 DEF Next, Call
<1> QED
  BY <1>3, <1>4, <1>5, <1>7

(* Between two calls under the lock: a step that leaves the routes alone. *)
LEMMA StableByStanding ==
  ASSUME StableUnderLock, UNCHANGED cloud, budget'["foreign"] = budget["foreign"],
         \A q \in Procs : pc'[q] \in {"confirm", "deleting", "same"} =>
                          pc'[q] = pc[q] /\ job'[q] = job[q]
  PROVE  StableUnderLock'
BY DEF StableUnderLock, Undisturbed

(* When the lock is free nobody is between two calls. *)
LEMMA StableByFree ==
  ASSUME LockHeldInside', lock' = "free"
  PROVE  StableUnderLock'
BY DEF StableUnderLock, LockHeldInside, Critical, Procs

(* Every step keeps what the holder of the lock saw. *)
LEMMA StableStep ==
  ASSUME IInv, ControlOK, LockHeldInside, ForeignBound, StableUnderLock, [Next]_vars
  PROVE  StableUnderLock'
<1> USE DEF Procs
<1>1. TypeOK /\ ActsOnClaims /\ LockHeldInside'
  BY LockStep DEF IInv, KnowsClaims
<1>2. CASE \E c \in Cidrs : ForeignChange(c)
  <2>1. budget'["foreign"] # budget["foreign"]
    BY <1>1, <1>2 DEF ForeignChange, Spend, TypeOK, BudgetKeys
  <2> QED
    BY <1>1, <2>1, ForeignStep DEF StableUnderLock
<1>3. CASE budget'["foreign"] = budget["foreign"]
  <2> USE DEF local
  <2>1. ASSUME NEW n \in Nodes, NodeAdded(n) \/ NodeUpdated(n) \/ NodeReplaced(n) \/ NodeRemoved(n)
        PROVE  UNCHANGED <<cloud, pc, job>>
    BY <2>1 DEF NodeAdded, NodeUpdated, NodeReplaced, NodeRemoved, NodeEvent
  <2>2. CASE Crash
    BY <1>1, <2>2, StableByFree DEF Crash, ProcessEnds
  <2>3. ASSUME UNCHANGED <<cloud, pc, job>>
        PROVE  StableUnderLock'
    BY <1>3, <2>3, StableByStanding
  <2>4. ASSUME Reconcile
        PROVE  StableUnderLock'
    <3>1. ASSUME NEW n \in Nodes, ReconcileRemoved(n) \/ ReconcileSkipped(n) \/ ReconcileNode(n)
          PROVE  /\ UNCHANGED cloud /\ pc'["sync"] = pc["sync"] /\ job'["sync"] = job["sync"]
                 /\ pc'["worker"] \notin {"confirm", "deleting", "same"}
      BY <1>1, <3>1 DEF TypeOK, Take, ReconcileRemoved, ReconcileSkipped, ReconcileNode, Goto
    <3>2. ASSUME CachedRoute \/ Forget
          PROVE  /\ UNCHANGED cloud /\ pc'["sync"] = pc["sync"] /\ job'["sync"] = job["sync"]
                 /\ pc'["worker"] \notin {"confirm", "deleting", "same"}
      BY <1>1, <3>2 DEF TypeOK, CachedRoute, Forget, Finish, Rest, Goto
    <3> QED
      BY <1>3, <2>4, <3>1, <3>2, StableByStanding DEF Reconcile
  <2>5. ASSUME ReconcileForCluster
        PROVE  StableUnderLock'
    <3>1. /\ UNCHANGED cloud /\ pc'["worker"] = pc["worker"] /\ job'["worker"] = job["worker"]
          /\ pc'["sync"] \notin {"confirm", "deleting", "same"}
      BY <1>1, <2>5 DEF TypeOK, ReconcileForCluster, NodeList, ListRoutes, SyncDone,
                        SyncDelete, SyncNode, Goto
    <3> QED
      BY <1>3, <3>1, StableByStanding
  <2>6. ASSUME NEW p \in Procs, NEW l, pc' = [pc EXCEPT ![p] = l], UNCHANGED cloud,
               l \notin {"confirm", "deleting", "same"}, \A q \in Procs \ {p} : job'[q] = job[q]
        PROVE  StableUnderLock'
    <3>1. pc'[p] = l /\ \A q \in Procs \ {p} : pc'[q] = pc[q]
      BY <1>1, <2>6 DEF TypeOK
    <3> QED
      BY <1>3, <2>6, <3>1, StableByStanding
  <2>7. ASSUME NEW p \in Procs, Lock(p) \/ FindRoute(p) \/ Store(p)
        PROVE  StableUnderLock'
    BY <1>1, <2>6, <2>7 DEF Lock, FindRoute, Store, Continue, Goto, TypeOK
  <2>8. ASSUME NEW p \in Procs, RouteCondition(p)
        PROVE  StableUnderLock'
    <3>1. UNCHANGED cloud /\ Finish(p)
      BY <2>8 DEF RouteCondition, SetCondition
    <3> QED
      BY <1>1, <2>6, <3>1 DEF Finish, Goto, Rest, TypeOK
  <2>9. ASSUME NEW p \in Procs, FindSame(p) \/ FindCreated(p) \/ DeleteRoute(p)
        PROVE  StableUnderLock'
    BY <1>1, <2>9, StableByFree DEF FindSame, FindCreated, DeleteRoute, Deleted, DeleteFailed
  <2>10. ASSUME NEW p \in Procs, CreatePanics(p)
        PROVE  StableUnderLock'
    BY <1>1, <2>10, StableByFree DEF CreatePanics, ProcessEnds
  <2>11. ASSUME NEW p \in Procs, CreateRoute(p)
        PROVE  StableUnderLock'
    <3>1. pc[p] = "creating" /\ \A q \in Procs \ {p} : pc[q] \notin Critical
      BY <2>11 DEF CreateRoute, LockHeldInside, Critical
    <3>2. job[p].cidr \in Cidrs /\ cloud \in [Cidrs -> Hops \cup {NoRoute}] /\ job[p].inst \in Hops
      BY <1>1, <3>1 DEF ActsOnClaims, Adding, TypeOK, IsRouteTable, IsJob
    <3>3. CASE lock' = "free"
      BY <1>1, <3>3, StableByFree
    <3>4. CASE UNCHANGED pc
      BY <3>1, <3>4 DEF StableUnderLock, Critical
    <3>5. CASE cloud' = [cloud EXCEPT ![job[p].cidr] = job[p].inst] /\ Continue(p, "confirm")
      BY <1>1, <3>1, <3>2, <3>5 DEF Continue, Goto, TypeOK, StableUnderLock, Critical
    <3>6. CASE cloud[job[p].cidr] # NoRoute /\ UNCHANGED cloud /\ Continue(p, "same")
      BY <1>1, <3>1, <3>2, <3>6 DEF Continue, Goto, TypeOK, StableUnderLock, Critical
    <3>7. CASE cloud' = [cloud EXCEPT ![job[p].cidr] = job[p].inst] /\ Continue(p, "same")
      BY <1>1, <3>1, <3>2, <3>7, ControllerAssumption
      DEF Continue, Goto, TypeOK, StableUnderLock, Critical
    <3> QED
      BY <2>11, <3>3, <3>4, <3>5, <3>6, <3>7 DEF CreateRoute
  <2>12. ASSUME NEW p \in Procs, DeleteFind(p)
        PROVE  StableUnderLock'
    <3>1. pc[p] = "deleteFind" /\ \A q \in Procs \ {p} : pc[q] \notin Critical
      BY <2>12 DEF DeleteFind, LockHeldInside, Critical
    <3>2. CASE lock' = "free"
      BY <1>1, <3>2, StableByFree
    <3>3. CASE /\ Goto(p, "deleting") /\ UNCHANGED cloud
               /\ job' = [job EXCEPT ![p].inst = cloud[job[p].cidr]]
      <4>1. PICK j : j = [job[p] EXCEPT !.inst = cloud[job[p].cidr]]
        OBVIOUS
      <4>2. j.inst = cloud[job[p].cidr] /\ j.cidr = job[p].cidr
        BY <1>1, <4>1 DEF TypeOK, IsJob
      <4>3. job'[p] = j
        BY <1>1, <3>3, <4>1 DEF TypeOK
      <4>4. \A q \in Procs \ {p} : pc'[q] = pc[q]
        BY <1>1, <3>3 DEF TypeOK, Goto
      <4>5. pc'[p] = "deleting"
        BY <1>1, <3>3 DEF TypeOK, Goto
      <4> QED
        BY <3>1, <3>3, <4>2, <4>3, <4>4, <4>5 DEF StableUnderLock, Critical
    <3> QED
      BY <2>12, <3>2, <3>3 DEF DeleteFind, Deleted, DeleteFailed
  <2> QED
    BY <1>2, <2>1, <2>2, <2>3, <2>4, <2>5, <2>7, <2>8, <2>9, <2>10, <2>11, <2>12
    DEF Next, Cluster, Call, Start, RetryDue, vars
<1> QED
  BY <1>1, <1>2, <1>3, ForeignStep

(***************************************************************************)
(* Under the lock, what one call saw of a route is what the next one       *)
(* finds: see StableUnderLock.                                             *)
(***************************************************************************)
THEOREM StableUnderLockAlways == Spec => []StableUnderLock
<1> DEFINE LInv == ControlOK /\ LockHeldInside /\ ForeignBound /\ StableUnderLock
<1>1. Init => IInv /\ LInv
  <2> SUFFICES ASSUME Init
               PROVE  IInv /\ LInv
    OBVIOUS
  <2>1. budget["foreign"] \in Nat
    BY ControllerAssumption DEF Init, BudgetKeys
  <2>2. ForeignBound
    BY <2>1 DEF Init, ForeignBound
  <2>3. StableUnderLock
    BY DEF Init, StableUnderLock
  <2> QED
    BY <2>2, <2>3, LockInit, KnowsInit, PlacesInit DEF IInv
<1>2. IInv /\ LInv /\ [Next]_vars => (IInv /\ LInv)'
  <2> SUFFICES ASSUME IInv, LInv, [Next]_vars
               PROVE  IInv' /\ LInv'
    OBVIOUS
  <2>1. ForeignBound'
    BY ForeignStep DEF IInv, KnowsClaims
  <2> QED
    BY <2>1, IInvStep, LockStep, StableStep
<1> QED
  BY <1>1, <1>2, PTL DEF Spec, Safety

-----------------------------------------------------------------------------
(***************************************************************************)
(* The controller implements RouteTable: each step adds claims, installs   *)
(* the route of one, withdraws a covered route, is a change by others, or  *)
(* leaves all of it alone.                                                 *)
(***************************************************************************)
LEMMA TableStands ==
  ASSUME UNCHANGED <<cloud, claims>>, budget'["foreign"] = budget["foreign"]
  PROVE  [Table!Next]_(Table!vars)
BY DEF Table!vars

(* A route that an attempt creates is that of a claim. *)
LEMMA TableInstall ==
  ASSUME IInv, NEW p \in Procs, pc[p] = "creating", cloud[job[p].cidr] = NoRoute,
         cloud' = [cloud EXCEPT ![job[p].cidr] = job[p].inst],
         UNCHANGED claims, budget'["foreign"] = budget["foreign"]
  PROVE  Table!Next
<1>1. <<job[p].node, job[p].cidr, job[p].inst>> \in claims /\ job[p].inst \in Instances
  BY DEF IInv, KnowsClaims, ActsOnClaims, Adding
<1> QED
  BY <1>1 DEF Table!Next, Table!Install

(* Every step is a step of the table or leaves it alone. *)
LEMMA TableStep ==
  ASSUME IInv, ForeignBound, [Next]_vars
  PROVE  [Table!Next]_(Table!vars)
<1>1. TypeOK /\ ActsOnClaims
  BY DEF IInv, KnowsClaims
<1>2. CASE \E c \in Cidrs : ForeignChange(c)
  <2> PICK c \in Cidrs : ForeignChange(c)
    BY <1>2
  <2>1. budget["foreign"] > 0 /\ budget'["foreign"] = budget["foreign"] - 1
    BY <1>1 DEF ForeignChange, Spend, TypeOK, BudgetKeys
  <2>2. \A d \in Cidrs \ {c} : cloud'[d] = cloud[d]
    BY <1>1 DEF ForeignChange, TypeOK, IsRouteTable
  <2>3. UNCHANGED claims
    BY DEF ForeignChange, world
  <2> QED
    BY <2>1, <2>2, <2>3 DEF Table!Next, Table!Foreign
<1>3. CASE budget'["foreign"] = budget["foreign"]
  <2>1. ASSUME NEW n \in Nodes, NodeAdded(n) \/ NodeUpdated(n) \/ NodeReplaced(n) \/ NodeRemoved(n)
        PROVE  Table!Next
    <3>1. UNCHANGED cloud /\ claims' = claims \cup Claims(nodes')
      BY <2>1 DEF NodeAdded, NodeUpdated, NodeReplaced, NodeRemoved, NodeEvent
    <3>2. Claims(nodes') \in SUBSET (Nodes \X Cidrs \X Table!Hops)
      BY DEF Claims, Hops, Table!Hops
    <3> QED
      BY <1>3, <3>1, <3>2 DEF Table!Next, Table!Claim
  <2>2. CASE Crash \/ Start \/ Reconcile \/ \E n \in Nodes : RetryDue(n)
    BY <1>3, <2>2, TableStands
    DEF Crash, ProcessEnds, Start, Reconcile, RetryDue, world,
        ReconcileRemoved, ReconcileSkipped, ReconcileNode, Take, CachedRoute, Forget
  <2>3. CASE ReconcileForCluster
    BY <1>3, <2>3, TableStands
    DEF ReconcileForCluster, NodeList, ListRoutes, SyncDone, SyncDelete, SyncNode, world
  <2>4. ASSUME NEW p \in Procs,
               Lock(p) \/ FindRoute(p) \/ Store(p) \/ FindSame(p) \/ FindCreated(p)
        PROVE  [Table!Next]_(Table!vars)
    BY <1>3, <2>4, TableStands DEF Lock, FindRoute, Store, FindSame, FindCreated, world
  <2>5. ASSUME NEW p \in Procs, RouteCondition(p) \/ DeleteFind(p)
        PROVE  [Table!Next]_(Table!vars)
    BY <1>3, <2>5, TableStands DEF RouteCondition, SetCondition, DeleteFind, world
  <2>6. ASSUME NEW p \in Procs, CreateRoute(p) \/ CreatePanics(p)
        PROVE  [Table!Next]_(Table!vars)
    <3>1. UNCHANGED claims /\ pc[p] = "creating"
      BY <2>6 DEF CreateRoute, CreatePanics, ProcessEnds, world
    <3>2. \/ UNCHANGED cloud
          \/ /\ cloud[job[p].cidr] = NoRoute
             /\ cloud' = [cloud EXCEPT ![job[p].cidr] = job[p].inst]
      BY <2>6 DEF CreateRoute, CreatePanics
    <3> QED
      BY <1>3, <3>1, <3>2, TableStands, TableInstall
  <2>7. ASSUME NEW p \in Procs, DeleteRoute(p)
        PROVE  [Table!Next]_(Table!vars)
    <3> DEFINE c == job[p].cidr
    <3>1. UNCHANGED claims /\ pc[p] = "deleting"
      BY <2>7 DEF DeleteRoute, world
    <3>2. Covered(c) /\ job[p].inst \in Hops
      BY <1>1, <3>1 DEF ActsOnClaims, Removing, TypeOK, IsJob
    <3>3. c \in Cidrs /\ Table!Covered(c)
      BY <1>1, <3>2, CidrsAssumption DEF Covered, Table!Covered, TypeOK
    <3>4. \/ UNCHANGED cloud
          \/ cloud[c] = job[p].inst /\ cloud' = [cloud EXCEPT ![c] = NoRoute]
      BY <2>7 DEF DeleteRoute
    <3>5. job[p].inst # NoRoute
      BY <3>2, ControllerAssumption
    <3> HIDE DEF c
    <3>6. CASE cloud[c] = job[p].inst /\ cloud' = [cloud EXCEPT ![c] = NoRoute]
      BY <1>3, <3>1, <3>3, <3>5, <3>6 DEF Table!Next, Table!Withdraw
    <3> QED
      BY <1>3, <3>1, <3>4, <3>6, TableStands
  <2> QED
    BY <1>2, <1>3, <2>1, <2>2, <2>3, <2>4, <2>5, <2>6, <2>7, TableStands
    DEF Next, Cluster, Call, vars
<1> QED
  BY <1>1, <1>2, <1>3, ForeignStep

(* The controller is an implementation of RouteTable: see TableSpec. *)
THEOREM ImplementsTable == Spec => TableSpec
<1>1. Init => IInv /\ ForeignBound /\ Table!Init
  <2> SUFFICES ASSUME Init
               PROVE  IInv /\ ForeignBound /\ Table!Init
    OBVIOUS
  <2>1. budget["foreign"] \in Nat
    BY ControllerAssumption DEF Init, BudgetKeys
  <2>2. IInv
    BY KnowsInit, PlacesInit DEF IInv
  <2>3. Table!Init
    BY <2>1, <2>2 DEF Init, IInv, KnowsClaims, TypeOK, IsRouteTable, Table!Init, Table!Hops, Hops
  <2> QED
    BY <2>1, <2>2, <2>3 DEF Init, ForeignBound
<1>2. IInv /\ ForeignBound /\ [Next]_vars => (IInv /\ ForeignBound)' /\ [Table!Next]_(Table!vars)
  BY IInvStep, ForeignStep, TableStep DEF IInv, KnowsClaims
<1> QED
  BY <1>1, <1>2, PTL DEF Spec, Safety, TableSpec, Table!Spec

-----------------------------------------------------------------------------
(***************************************************************************)
(* What the worker forgets.  While it deletes the route of a removed node, *)
(* and until it takes the node's entry out of the nodeCache, the entry is  *)
(* the route it deletes: SetIfAbsent of the sync leaves it as it is.       *)
(***************************************************************************)
Forgotten(n) == nodeCache[n] # NoCidr /\ nodeCache'[n] = NoCidr

Dropping == Removing \cup {"forget"}

KnowsCidr ==
  LET j == job["worker"] IN
  pc["worker"] \in Dropping => nodeCache[j.node] = j.cidr /\ j.cidr # NoCidr

(* What ForgetsOnlyGone asks of a step that leaves the process running. *)
ForgetsGone ==
  /\ \A n \in Nodes :
       Forgotten(n) => Forgetting /\ job["worker"].node = n /\ job["worker"].cidr = nodeCache[n]
  /\ Forgetting' =>
       /\ job'["worker"] = job["worker"]
       /\ ~Forgetting => lock = "worker" /\ cloud'[job["worker"].cidr] = NoRoute

(* A step that leaves the nodeCache alone and the worker's deletion too. *)
LEMMA KnowsByStanding ==
  ASSUME KnowsCidr, UNCHANGED nodeCache,
         pc'["worker"] \in Dropping =>
           /\ pc["worker"] \in Dropping
           /\ job'["worker"].node = job["worker"].node
           /\ job'["worker"].cidr = job["worker"].cidr,
         Forgetting' => Forgetting /\ job'["worker"] = job["worker"]
  PROVE  KnowsCidr' /\ ForgetsGone
BY DEF KnowsCidr, Forgotten, ForgetsGone

(***************************************************************************)
(* A deletion ends and routeLock is free: the route was gone under it and  *)
(* the worker forgets it next, or the key is kept for a retry.             *)
(***************************************************************************)
LEMMA DeletionEnds ==
  ASSUME IInv, LockHeldInside, KnowsCidr, NEW p \in Procs, pc[p] \in {"deleteFind", "deleting"},
         (Deleted(p) /\ cloud'[job[p].cidr] = NoRoute) \/ DeleteFailed(p)
  PROVE  KnowsCidr' /\ ForgetsGone
<1>1. TypeOK /\ UNCHANGED nodeCache
  BY DEF IInv, KnowsClaims, Deleted, DeleteFailed
<1>2. CASE p = "worker" /\ Finish(p)
  <2>1. pc'["worker"] = "idle"
    BY <1>1, <1>2 DEF Finish, Rest, Goto, TypeOK, Procs
  <2> QED
    BY <1>1, <2>1, KnowsByStanding DEF Dropping, Removing, Forgetting
<1>3. CASE p = "worker" /\ Continue(p, "forget") /\ cloud'[job[p].cidr] = NoRoute
  <2>1. pc["worker"] \in Dropping \ {"forget"} /\ job'["worker"] = job["worker"]
    BY <1>3 DEF Continue, Dropping, Removing
  <2>2. lock = "worker"
    BY <1>3 DEF LockHeldInside, Critical
  <2> QED
    BY <1>1, <1>3, <2>1, <2>2 DEF KnowsCidr, ForgetsGone, Forgotten, Forgetting
<1>4. CASE p = "sync"
  <2>1. pc'["worker"] = pc["worker"] /\ job'["worker"] = job["worker"]
    BY <1>1, <1>4 DEF Deleted, DeleteFailed, Finish, Goto, TypeOK, Procs
  <2> QED
    BY <1>1, <2>1, KnowsByStanding DEF Forgetting
<1> QED
  BY <1>2, <1>3, <1>4 DEF Procs, Deleted, DeleteFailed

(* Every step, but for the end of the process. *)
LEMMA ForgetStep ==
  ASSUME IInv, LockHeldInside, KnowsCidr, [Next]_vars
  PROVE  KnowsCidr' /\ (ProcessEnds \/ ForgetsGone)
<1> USE DEF Procs
<1>1. TypeOK /\ ActsOnClaims /\ pc = [p \in Procs |-> pc[p]]
  BY DEF IInv, KnowsClaims, TypeOK
<1>2. CASE ProcessEnds
  BY <1>2 DEF ProcessEnds, KnowsCidr, Dropping, Removing
<1>3. ASSUME NEW n \in Nodes,
             \/ NodeAdded(n) \/ NodeUpdated(n) \/ NodeReplaced(n) \/ NodeRemoved(n)
             \/ RetryDue(n)
      PROVE  KnowsCidr' /\ ForgetsGone
  BY <1>3, KnowsByStanding
  DEF NodeAdded, NodeUpdated, NodeReplaced, NodeRemoved, NodeEvent, RetryDue, Forgetting
<1>4. CASE Start \/ \E c \in Cidrs : ForeignChange(c)
  BY <1>4, KnowsByStanding DEF Start, ForeignChange, Forgetting
<1>5. CASE ReconcileForCluster
  <2>1. UNCHANGED nodeCache /\ pc'["worker"] = pc["worker"] /\ job'["worker"] = job["worker"]
    BY <1>1, <1>5 DEF ReconcileForCluster, NodeList, ListRoutes, SyncDone, SyncDelete,
                      SyncNode, Goto, TypeOK
  <2> QED
    BY <2>1, KnowsByStanding DEF Forgetting
<1>6. ASSUME NEW n \in Nodes, ReconcileRemoved(n) \/ ReconcileSkipped(n) \/ ReconcileNode(n)
      PROVE  KnowsCidr' /\ ForgetsGone
  <2>1. UNCHANGED nodeCache /\ pc["worker"] = "idle"
    BY <1>6 DEF ReconcileRemoved, ReconcileSkipped, ReconcileNode, Take
  <2>2. pc'["worker"] \notin Dropping
    BY <1>1, <1>6, <2>1 DEF ReconcileRemoved, ReconcileSkipped, ReconcileNode, Goto,
                            Dropping, Removing
  <2> QED
    BY <2>1, <2>2, KnowsByStanding DEF Dropping, Forgetting
<1>7. CASE CachedRoute
  <2> DEFINE n == job["worker"].node
  <2>1. UNCHANGED nodeCache /\ pc["worker"] = "gone"
    BY <1>7 DEF CachedRoute
  <2>2. CASE nodeCache[n] = NoCidr
    <3>1. pc'["worker"] = "idle"
      BY <1>1, <1>7, <2>2 DEF CachedRoute, Finish, Rest, Goto
    <3> QED
      BY <2>1, <3>1, KnowsByStanding DEF Dropping, Removing, Forgetting
  <2>3. CASE nodeCache[n] # NoCidr
    <3>1. job'["worker"] = DeleteJob(n, nodeCache[n])
      BY <1>1, <1>7, <2>3 DEF CachedRoute, TypeOK
    <3>2. job'["worker"].node = n /\ job'["worker"].cidr = nodeCache[n]
      BY <3>1 DEF DeleteJob
    <3>3. pc'["worker"] = "delete"
      BY <1>1, <1>7, <2>3 DEF CachedRoute, Goto
    <3> QED
      BY <2>1, <2>3, <3>2, <3>3 DEF KnowsCidr, ForgetsGone, Forgotten, Forgetting
  <2> QED
    BY <2>2, <2>3
<1>8. CASE Forget
  <2>1. pc["worker"] = "forget" /\ pc'["worker"] = "idle"
    BY <1>1, <1>8 DEF Forget, Finish, Rest, Goto
  <2>2. nodeCache[job["worker"].node] = job["worker"].cidr
    BY <2>1 DEF KnowsCidr, Dropping
  <2>3. \A n \in Nodes : Forgotten(n) => job["worker"].node = n
    BY <1>1, <1>8 DEF Forget, Forgotten, TypeOK
  <2> QED
    BY <2>1, <2>2, <2>3 DEF KnowsCidr, ForgetsGone, Forgetting, Dropping, Removing
<1>9. ASSUME NEW p \in Procs,
             \/ Lock(p) \/ FindRoute(p) \/ FindSame(p) \/ FindCreated(p)
             \/ CreateRoute(p) \/ RouteCondition(p) \/ (CreatePanics(p) /\ ~ProcessEnds)
      PROVE  KnowsCidr' /\ ForgetsGone
  <2>1. UNCHANGED nodeCache
    BY <1>9 DEF Lock, FindRoute, FindSame, FindCreated, CreateRoute, RouteCondition,
                SetCondition, CreatePanics
  <2>2. CASE p = "sync"
    <3>1. pc'["worker"] = pc["worker"] /\ job'["worker"] = job["worker"]
      BY <1>1, <1>9, <2>2 DEF Lock, FindRoute, FindSame, FindCreated, CreateRoute,
         RouteCondition, SetCondition, CreatePanics, Continue, Finish, AddFailed, Goto, TypeOK
    <3> QED
      BY <2>1, <3>1, KnowsByStanding DEF Forgetting
  <2>3. CASE p = "worker" /\ Lock(p)
    <3>1. /\ UNCHANGED job
          /\ pc'["worker"] \in Dropping => pc["worker"] \in Dropping
          /\ pc'["worker"] # "forget"
      BY <1>1, <2>3 DEF Lock, Continue, Goto, Dropping, Removing
    <3> QED
      BY <2>1, <3>1, KnowsByStanding DEF Forgetting
  <2>4. CASE p = "worker" /\ ~Lock(p)
    <3>1. pc'["worker"] \notin Dropping
      BY <1>1, <1>9, <2>4 DEF FindRoute, FindSame, FindCreated, CreateRoute, RouteCondition,
         SetCondition, CreatePanics, Continue, Finish, Rest, AddFailed, Goto, Dropping, Removing
    <3> QED
      BY <2>1, <3>1, KnowsByStanding DEF Dropping, Forgetting
  <2> QED
    BY <2>2, <2>3, <2>4
<1>10. ASSUME NEW p \in Procs, Store(p)
       PROVE  KnowsCidr' /\ ForgetsGone
  <2>1. job[p].cidr \in Cidrs /\ job[p].node \in Nodes /\ pc[p] = "store"
    BY <1>1, <1>10 DEF Store, ActsOnClaims, Adding, TypeOK
  <2>2. \A n \in Nodes : nodeCache[n] # NoCidr => nodeCache'[n] = nodeCache[n]
    BY <1>1, <1>10 DEF Store, TypeOK
  <2>3. UNCHANGED job /\ (pc'["worker"] \in Dropping => pc'["worker"] = pc["worker"])
    BY <1>1, <1>10, <2>1 DEF Store, Continue, Goto, Dropping, Removing
  <2>4. pc["worker"] \in Dropping => job["worker"].node \in Nodes
    BY DEF IInv, WorksOnNode, Dropping, Removing
  <2>5. KnowsCidr'
    BY <2>2, <2>3, <2>4 DEF KnowsCidr
  <2> QED
    BY <2>2, <2>3, <2>5 DEF ForgetsGone, Forgotten, Forgetting, Dropping
<1>11. ASSUME NEW p \in Procs, DeleteFind(p)
       PROVE  KnowsCidr' /\ ForgetsGone
  <2>1. pc[p] = "deleteFind" /\ UNCHANGED cloud
    BY <1>11 DEF DeleteFind
  <2>2. CASE (Deleted(p) /\ cloud[job[p].cidr] = NoRoute) \/ DeleteFailed(p)
    BY <2>1, <2>2, DeletionEnds
  <2>3. CASE /\ cloud[job[p].cidr] # NoRoute
             /\ Goto(p, "deleting") /\ UNCHANGED nodeCache
             /\ job' = [job EXCEPT ![p].inst = cloud[job[p].cidr]]
    <3> DEFINE i == cloud[job[p].cidr]
               j == [job[p] EXCEPT !.inst = i]
    <3>1. job[p].cidr \in Cidrs /\ IsJob(job[p])
      BY <1>1, <2>1, CidrsAssumption DEF ActsOnClaims, Removing, Covered, TypeOK
    <3>2. i \in Hops /\ 0 \in 0 .. MaxTries - 1
      BY <1>1, <2>3, <3>1, ControllerAssumption DEF TypeOK, IsRouteTable
    <3>3. j.node = job[p].node /\ j.cidr = job[p].cidr
      BY <3>1, <3>2, JobWith
    <3>4. job'[p] = j /\ \A q \in Procs \ {p} : job'[q] = job[q]
      BY <1>1, <2>3 DEF TypeOK
    <3> HIDE DEF i, j
    <3>5. /\ pc'["worker"] \in Dropping => pc["worker"] \in Dropping
          /\ job'["worker"].node = job["worker"].node
          /\ job'["worker"].cidr = job["worker"].cidr
      BY <1>1, <2>1, <2>3, <3>3, <3>4 DEF Goto, Dropping, Removing
    <3>6. pc'["worker"] = "forget" => pc["worker"] = "forget" /\ p = "sync"
      BY <1>1, <2>1, <2>3 DEF Goto
    <3> QED
      BY <2>3, <3>4, <3>5, <3>6, KnowsByStanding DEF Forgetting
  <2> QED
    BY <1>11, <2>2, <2>3 DEF DeleteFind
<1>12. ASSUME NEW p \in Procs, DeleteRoute(p)
       PROVE  KnowsCidr' /\ ForgetsGone
  <2>1. pc[p] = "deleting" /\ job[p].cidr \in Cidrs
    BY <1>1, <1>12, CidrsAssumption DEF DeleteRoute, ActsOnClaims, Removing, Covered, TypeOK
  <2>2. (Deleted(p) /\ cloud'[job[p].cidr] = NoRoute) \/ DeleteFailed(p)
    BY <1>1, <1>12, <2>1 DEF DeleteRoute, TypeOK, IsRouteTable
  <2> QED
    BY <2>1, <2>2, DeletionEnds
<1>13. CASE UNCHANGED vars
  BY <1>13, KnowsByStanding DEF vars, Forgetting
<1>14. CASE Crash
  BY <1>2, <1>14 DEF Crash
<1> QED
  BY <1>2, <1>3, <1>4, <1>5, <1>6, <1>7, <1>8, <1>9, <1>10, <1>11, <1>12, <1>13, <1>14
  DEF Next, Cluster, Call, Reconcile

(***************************************************************************)
(* The nodeCache loses an entry only when its route was gone under         *)
(* routeLock, or when the process ends: see ForgetsOnlyGone.               *)
(***************************************************************************)
THEOREM ForgetsOnlyWhatIsGone == Spec => ForgetsOnlyGone
<1> DEFINE Known == IInv /\ ControlOK /\ LockHeldInside /\ KnowsCidr
           Gone ==
             /\ \A n \in Nodes :
                  up' /\ nodeCache[n] # NoCidr /\ nodeCache'[n] = NoCidr
                  => Forgetting /\ job["worker"].node = n /\ job["worker"].cidr = nodeCache[n]
             /\ Forgetting' =>
                  /\ job'["worker"] = job["worker"]
                  /\ ~Forgetting => lock = "worker" /\ cloud'[job["worker"].cidr] = NoRoute
<1>1. Init => Known
  BY KnowsInit, PlacesInit, LockInit DEF Init, IInv, KnowsCidr, Dropping, Removing, Procs
<1>2. Known /\ [Next]_vars => Known' /\ [Gone]_vars
  <2> SUFFICES ASSUME Known, [Next]_vars
               PROVE  Known' /\ Gone
    OBVIOUS
  <2>1. Known' /\ (ProcessEnds \/ ForgetsGone)
    BY IInvStep, LockStep, ForgetStep
  <2>2. ProcessEnds => ~up' /\ ~Forgetting'
    BY DEF ProcessEnds, Forgetting, Procs
  <2> QED
    BY <2>1, <2>2 DEF ForgetsGone, Forgotten
<1> QED
  BY <1>1, <1>2, PTL DEF Spec, Safety, ForgetsOnlyGone
=============================================================================
