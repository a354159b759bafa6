-------------------------- MODULE RouteController ---------------------------
(***************************************************************************)
(* The route controller: one worker that reconciles the nodes of a work    *)
(* queue and one goroutine that every five minutes lists the nodes and the *)
(* routes of the VPC, deletes the routes in the way and adds the missing   *)
(* ones.  They share the route table, which they change through an API one *)
(* call at a time, a mutex around those calls, the nodeCache that tells    *)
(* the worker which route a removed node had, and the condition of the     *)
(* nodes.  One action is one call of a shared object, with the Unlock and  *)
(* the rate-limited requeue that may follow it.                            *)
(*                                                                         *)
(* The set queue leaves the order of the work queue open: there is one     *)
(* worker, so a key that is added while it is processed is a key that      *)
(* stays in the set.  The node table is the API server's and the           *)
(* informer's at once: a write is seen by the next read.                   *)
(***************************************************************************)
EXTENDS NodeSpec

CONSTANTS
  Nodes,        \* node names
  NoNode,       \* in place of a node name: there is none
  NoRoute,      \* in place of a route's instance: there is no route
  SpecChoices,  \* [Nodes -> SUBSET specs]: what a node may be at a moment
  InitNodes,    \* the node tables the controller may start with
  InitCloud,    \* the route tables it may start with
  MaxTries,     \* createBackoff.Steps
  InitBudgets   \* bounds: changes of nodes, faults, crashes, foreign changes

Procs      == {"worker", "sync"}
BudgetKeys == {"churn", "fault", "crash", "foreign"}
Hops       == Instances \cup {NoInst}   \* a route may have no next hop

IsNode(o) ==
  /\ o = [spec |-> o.spec, uid |-> o.uid, net |-> o.net]
  /\ IsSpec(o.spec) /\ o.uid \in {0, 1} /\ o.net \in NetStates

IsNodeTable(t) ==
  /\ t = [n \in Nodes |-> t[n]]
  /\ \A n \in Nodes : t[n] # Absent => IsNode(t[n])

IsRouteTable(t) == t \in [Cidrs -> Hops \cup {NoRoute}]

ASSUME ControllerAssumption ==
  /\ NoNode \notin Nodes /\ NoRoute \notin Hops
  /\ \A n \in Nodes : \A s \in SpecChoices[n] : IsSpec(s)
  /\ \A t \in InitNodes : IsNodeTable(t)
  /\ \A t \in InitCloud : IsRouteTable(t)
  /\ MaxTries \in Nat \ {0}
  /\ InitBudgets \subseteq [BudgetKeys -> Nat]

VARIABLES
  nodes,       \* the Node objects, as client.Get and client.List return them
  claims,      \* ghost: the <<node, CIDR, instance>> that ever stood in nodes
  cloud,       \* the VPC's routes: the instance each CIDR leads to
  up,          \* the controller process is running
  queue,       \* keys ready in the work queue
  delayed,     \* keys that wait for a rate-limited retry
  nodeCache,   \* ReconcileRoute.nodeCache: the CIDR of the route kept
  lock,        \* routeLock: its holder, or "free"
  pc,          \* where each process is
  job,         \* the node and route it works on
  nodeSnap,    \* the sync's node list: what is left of it
  routeSnap,   \* the sync's route list
  todoRoutes,  \* the sync's conflicting routes that are left to delete
  budget       \* what is left of the bound it started with

vars == <<nodes, claims, cloud, up, queue, delayed, nodeCache, lock, pc, job,
          nodeSnap, routeSnap, todoRoutes, budget>>

local == <<nodeSnap, routeSnap, todoRoutes>>
world == <<nodes, claims, up>>

NoJob == [node |-> NoNode, cidr |-> NoCidr, inst |-> NoInst,
          net |-> "unset", tries |-> 0]

NoNodes  == [n \in Nodes |-> Absent]
NoRoutes == [c \in Cidrs |-> NoRoute]
NoCache  == [n \in Nodes |-> NoCidr]

Present(t) == {n \in Nodes : t[n] # Absent}

Cidr(o) == GetIPv4RouteForNode(o.spec)
Inst(o) == GetNodeInstanceId(o.spec)

Claims(t) == {x \in Nodes \X Cidrs \X Hops :
                t[x[1]] # Absent /\ x[2] = Cidr(t[x[1]]) /\ x[3] = Inst(t[x[1]])}

Init ==
  /\ nodes \in InitNodes
  /\ claims = Claims(nodes)
  /\ cloud \in InitCloud
  /\ up = TRUE
  /\ queue = Present(nodes)
  /\ delayed = {}
  /\ nodeCache = NoCache
  /\ lock = "free"
  /\ pc = [p \in Procs |-> "idle"]
  /\ job = [p \in Procs |-> NoJob]
  /\ nodeSnap = NoNodes
  /\ routeSnap = NoRoutes
  /\ todoRoutes = {}
  /\ budget \in InitBudgets

Spend(k) == budget[k] > 0 /\ budget' = [budget EXCEPT ![k] = @ - 1]

-----------------------------------------------------------------------------
(***************************************************************************)
(* The cluster and the VPC.  A watch event reaches the queue only while    *)
(* the process runs; Create and Delete always pass the predicate.          *)
(***************************************************************************)
SetNode(n, o, wakes) ==
  /\ nodes' = [nodes EXCEPT ![n] = o]
  /\ queue' = IF up /\ wakes THEN queue \cup {n} ELSE queue

NodeEvent(n, o, wakes) ==
  /\ Spend("churn")
  /\ SetNode(n, o, wakes)
  /\ claims' = claims \cup Claims(nodes')
  /\ UNCHANGED <<cloud, up, delayed, nodeCache, lock, pc, job, local>>

NodeAdded(n) ==
  /\ nodes[n] = Absent
  /\ \E s \in SpecChoices[n] :
       NodeEvent(n, [spec |-> s, uid |-> 0, net |-> "unset"], TRUE)

(* The API server lets the pod CIDRs and the provider id be set once. *)
Admits(old, new) ==
  /\ old.podCIDR = NoCidr \/ (new.podCIDR = old.podCIDR /\ new.podCIDRs = old.podCIDRs)
  /\ old.provider = NoInst \/ new.provider = old.provider
  /\ old.deleting => new.deleting

NodeUpdated(n) ==
  /\ nodes[n] # Absent
  /\ \E s \in SpecChoices[n] \ {nodes[n].spec} :
       LET o == [nodes[n] EXCEPT !.spec = s]
       IN  Admits(nodes[n].spec, s) /\ NodeEvent(n, o, PredicateUpdate(nodes[n], o))

(* A relist shows a node removed and added again as one update. *)
NodeReplaced(n) ==
  /\ nodes[n] # Absent
  /\ \E s \in SpecChoices[n] :
       LET o == [spec |-> s, uid |-> 1 - nodes[n].uid, net |-> "unset"]
       IN  NodeEvent(n, o, PredicateUpdate(nodes[n], o))

NodeRemoved(n) == nodes[n] # Absent /\ NodeEvent(n, Absent, TRUE)

(* Someone else creates a route to an instance of theirs, or deletes one. *)
ForeignChange(c) ==
  /\ Spend("foreign")
  /\ \E i \in Hops \cup {NoRoute} :
       /\ (i = NoRoute) # (cloud[c] = NoRoute)
       /\ cloud' = [cloud EXCEPT ![c] = i]
  /\ UNCHANGED <<world, queue, delayed, nodeCache, lock, pc, job, local>>

-----------------------------------------------------------------------------
(***************************************************************************)
(* The process ends (a crash, or a panic of the sync's goroutine, which    *)
(* nothing recovers): what is in memory is lost.  Its successor gets a     *)
(* Create event for every node.                                            *)
(***************************************************************************)
ProcessEnds ==
  /\ up' = FALSE
  /\ queue' = {} /\ delayed' = {}
  /\ nodeCache' = NoCache
  /\ lock' = "free"
  /\ pc' = [p \in Procs |-> "idle"]
  /\ job' = [p \in Procs |-> NoJob]
  /\ nodeSnap' = NoNodes /\ routeSnap' = NoRoutes /\ todoRoutes' = {}
  /\ UNCHANGED <<nodes, claims>>

Crash == up /\ Spend("crash") /\ ProcessEnds /\ UNCHANGED cloud

Start ==
  /\ ~up
  /\ up' = TRUE
  /\ queue' = Present(nodes)
  /\ UNCHANGED <<nodes, claims, cloud, delayed, nodeCache, lock, pc, job, local, budget>>

RetryDue(n) ==
  /\ n \in delayed
  /\ delayed' = delayed \ {n}
  /\ queue' = queue \cup {n}
  /\ UNCHANGED <<world, cloud, nodeCache, lock, pc, job, local, budget>>

-----------------------------------------------------------------------------
(* Control flow of a process. *)
Goto(p, label) == pc' = [pc EXCEPT ![p] = label]

Rest(p) == IF p = "worker" THEN "idle" ELSE "pass"

Finish(p) ==
  /\ Goto(p, Rest(p))
  /\ job' = [job EXCEPT ![p] = NoJob]

Continue(p, label) == Goto(p, label) /\ UNCHANGED job

(* addRouteForNode returns an error: only the worker tells the node. *)
AddFailed(p) == IF p = "worker" THEN Continue(p, "condFail") ELSE Finish(p)

AddJob(n, o) == [node |-> n, cidr |-> Cidr(o), inst |-> Inst(o),
                 net |-> o.net, tries |-> 0]

DeleteJob(n, c) == [node |-> n, cidr |-> c, inst |-> NoInst,
                    net |-> "unset", tries |-> 0]

(***************************************************************************)
(* Reconcile: the worker takes a key and looks the node up.                *)
(***************************************************************************)
Take(n) ==
  /\ up /\ pc["worker"] = "idle" /\ n \in queue
  /\ queue' = queue \ {n}
  /\ UNCHANGED <<world, cloud, delayed, nodeCache, lock, local, budget>>

ReconcileRemoved(n) ==
  /\ Take(n)
  /\ nodes[n] = Absent
  /\ Goto("worker", "gone")
  /\ job' = [job EXCEPT !["worker"] = DeleteJob(n, NoCidr)]

MutCachedRoute ==
  /\ pc["worker"] = "gone"
  /\ Goto("worker", "delete")
  /\ job' = [job EXCEPT !["worker"] = DeleteJob(@.node, nodeCache[@.node])]
  /\ UNCHANGED <<world, cloud, queue, delayed, nodeCache, lock, local, budget>>

(* nodeCache.Get: of a node that is gone, the route to delete, if one is known. *)
CachedRoute ==
  /\ pc["worker"] = "gone"
  /\ IF nodeCache[job["worker"].node] = NoCidr
     THEN Finish("worker")
     ELSE /\ Goto("worker", "delete")
          /\ job' = [job EXCEPT !["worker"] = DeleteJob(@.node, nodeCache[@.node])]
  /\ UNCHANGED <<world, cloud, queue, delayed, nodeCache, lock, local, budget>>

(* nodeCache.Remove, when the route was deleted and routeLock is free again. *)
Forget ==
  /\ pc["worker"] = "forget"
  /\ nodeCache' = [nodeCache EXCEPT ![job["worker"].node] = NoCidr]
  /\ Finish("worker")
  /\ UNCHANGED <<world, cloud, queue, delayed, lock, local, budget>>

ReconcileSkipped(n) ==
  /\ Take(n)
  /\ nodes[n] # Absent /\ ~NeedSyncRoute(nodes[n].spec)
  /\ UNCHANGED <<pc, job>>

ReconcileNode(n) ==
  /\ Take(n)
  /\ nodes[n] # Absent /\ NeedSyncRoute(nodes[n].spec)
  /\ job' = [job EXCEPT !["worker"] = AddJob(n, nodes[n])]
  /\ Goto("worker", IF Cidr(nodes[n]) \in Cidrs /\ Inst(nodes[n]) # NoInst
                    THEN "find" ELSE "condFail")

-----------------------------------------------------------------------------
MutFindRoute(p) ==
  /\ pc[p] = "find"
  /\ Continue(p, "store")
  /\ UNCHANGED <<world, cloud, queue, delayed, nodeCache, lock, local, budget>>

(***************************************************************************)
(* addRouteForNode, for the worker and for the sync.  The sync looks the   *)
(* route up in its list unless the list is empty; a lookup that fails      *)
(* ends the attempt without an error.                                      *)
(***************************************************************************)
FindRoute(p) ==
  /\ pc[p] = "find"
  /\ LET cached == p = "sync" /\ routeSnap # NoRoutes
         found  == IF cached THEN routeSnap[job[p].cidr] ELSE cloud[job[p].cidr]
     IN  \/ /\ Continue(p, IF found = NoRoute THEN "create" ELSE "store")
            /\ UNCHANGED budget
         \/ ~cached /\ Spend("fault") /\ Continue(p, "condOk")
  /\ UNCHANGED <<world, cloud, queue, delayed, nodeCache, lock, local>>

MutStore(p) ==
  /\ pc[p] = "store"
  /\ Continue(p, "condOk")
  /\ UNCHANGED <<world, cloud, queue, delayed, nodeCache, lock, local, budget>>

(* nodeCache.SetIfAbsent: an entry that is there stays. *)
Store(p) ==
  /\ pc[p] = "store"
  /\ nodeCache' = [nodeCache EXCEPT ![job[p].node] =
                     IF @ = NoCidr THEN job[p].cidr ELSE @]
  /\ Continue(p, "condOk")
  /\ UNCHANGED <<world, cloud, queue, delayed, lock, local, budget>>

MutCanLock == TRUE

CanLock == lock = "free"

MutLock(p) ==
  /\ \/ CanLock /\ pc[p] = "create" /\ Continue(p, "creating") /\ lock' = p
     \/ pc[p] = "delete" /\ Continue(p, "deleteFind") /\ UNCHANGED lock
  /\ UNCHANGED <<world, cloud, queue, delayed, nodeCache, local, budget>>

(* createRouteForInstance and deleteRouteForInstance take routeLock. *)
Lock(p) ==
  /\ CanLock
  /\ \/ pc[p] = "create" /\ Continue(p, "creating")
     \/ pc[p] = "delete" /\ Continue(p, "deleteFind")
  /\ lock' = p
  /\ UNCHANGED <<world, cloud, queue, delayed, nodeCache, local, budget>>

MutTriesLeft(j) == j.tries < MaxTries

TriesLeft(j) == j.tries + 1 < MaxTries

(***************************************************************************)
(* One attempt of the backoff.  The API refuses a CIDR that has a route,   *)
(* also when the HTTP client repeats a creation whose answer was lost; an  *)
(* attempt that fails otherwise may have created the route.                *)
(***************************************************************************)
CreateRoute(p) ==
  LET c == job[p].cidr
      created == [cloud EXCEPT ![c] = job[p].inst]
  IN
  /\ pc[p] = "creating"
  /\ \/ /\ IF cloud[c] = NoRoute
           THEN cloud' = created /\ Continue(p, "confirm")
           ELSE UNCHANGED cloud  /\ Continue(p, "same")
        /\ UNCHANGED <<lock, budget>>
     \/ /\ cloud[c] = NoRoute /\ Spend("fault")
        /\ cloud' = created /\ Continue(p, "same")
        /\ UNCHANGED lock
     \/ /\ Spend("fault")
        /\ cloud' \in {cloud} \cup (IF cloud[c] = NoRoute THEN {created} ELSE {})
        /\ IF TriesLeft(job[p])
           THEN /\ job' = [job EXCEPT ![p].tries = @ + 1]
                /\ UNCHANGED <<lock, pc>>
           ELSE lock' = "free" /\ AddFailed(p)
  /\ UNCHANGED <<world, queue, delayed, nodeCache, local>>

(***************************************************************************)
(* The route was created but the poll for it finds none: GetRoute indexes  *)
(* an empty set and panics.  The worker's panic becomes an error and the   *)
(* key is retried; the sync's ends the process.                            *)
(***************************************************************************)
CreatePanics(p) ==
  LET c == job[p].cidr IN
  /\ pc[p] = "creating" /\ cloud[c] = NoRoute
  /\ Spend("fault")
  /\ cloud' = [cloud EXCEPT ![c] = job[p].inst]
  /\ \/ /\ p = "worker"
        /\ lock' = "free"
        /\ delayed' = delayed \cup {job[p].node}
        /\ Finish(p)
        /\ UNCHANGED <<world, queue, nodeCache, local>>
     \/ p = "sync" /\ ProcessEnds

(* After "same with a route": a route that can be found will do. *)
FindSame(p) ==
  /\ pc[p] = "same"
  /\ lock' = "free"
  /\ \/ /\ IF cloud[job[p].cidr] # NoRoute THEN Continue(p, "store") ELSE AddFailed(p)
        /\ UNCHANGED budget
     \/ Spend("fault") /\ AddFailed(p)
  /\ UNCHANGED <<world, cloud, queue, delayed, nodeCache, local>>

MutFindCreated(p) ==
  /\ pc[p] = "confirm"
  /\ \/ /\ Continue(p, IF cloud[job[p].cidr] # NoRoute THEN "store" ELSE "condOk")
        /\ UNCHANGED budget
     \/ Spend("fault") /\ Continue(p, "condOk")
  /\ UNCHANGED <<world, cloud, queue, delayed, nodeCache, lock, local>>

(* After a creation: the error of this lookup is dropped. *)
FindCreated(p) ==
  /\ pc[p] = "confirm"
  /\ lock' = "free"
  /\ \/ /\ Continue(p, IF cloud[job[p].cidr] # NoRoute THEN "store" ELSE "condOk")
        /\ UNCHANGED budget
     \/ Spend("fault") /\ Continue(p, "condOk")
  /\ UNCHANGED <<world, cloud, queue, delayed, nodeCache, local>>

MutHasCondition(j, net) == j.net # "unset"

HasCondition(j, net) == j.net = net

(***************************************************************************)
(* updateNetworkingCondition: nothing when the node, as it was read, had   *)
(* the condition; else a patch of the node that bears the name now.        *)
(***************************************************************************)
SetCondition(p, label, net) ==
  LET n == job[p].node IN
  /\ pc[p] = label
  /\ \/ /\ HasCondition(job[p], net) \/ nodes[n] = Absent
        /\ UNCHANGED <<nodes, queue, budget>>
     \/ /\ ~HasCondition(job[p], net) /\ nodes[n] # Absent
        /\ LET o == [nodes[n] EXCEPT !.net = net]
           IN  SetNode(n, o, PredicateUpdate(nodes[n], o))
        /\ UNCHANGED budget
     \/ ~HasCondition(job[p], net) /\ Spend("fault") /\ UNCHANGED <<nodes, queue>>
  /\ Finish(p)
  /\ UNCHANGED <<claims, cloud, up, delayed, nodeCache, lock, local>>

RouteCondition(p) ==
  \/ SetCondition(p, "condOk", "ok")
  \/ SetCondition(p, "condFail", "down")

-----------------------------------------------------------------------------
(***************************************************************************)
(* deleteRouteForInstance: DeleteRoute finds the route of a CIDR, whoever  *)
(* it leads to, and deletes it by its id; that fails when the route is no  *)
(* longer the one found.                                                   *)
(***************************************************************************)
Deleted(p) ==
  /\ lock' = "free"
  /\ IF p = "worker" THEN Continue(p, "forget") ELSE Finish(p)
  /\ UNCHANGED <<nodeCache, delayed>>

MutDeleteFailed(p) ==
  /\ lock' = "free"
  /\ Finish(p)
  /\ UNCHANGED <<nodeCache, delayed>>

MutDeleteForgets(p) ==
  /\ lock' = "free"
  /\ IF p = "worker" THEN Continue(p, "forget") ELSE Finish(p)
  /\ UNCHANGED <<nodeCache, delayed>>

DeleteFailed(p) ==
  /\ lock' = "free"
  /\ Finish(p)
  /\ delayed' = IF p = "worker" THEN delayed \cup {job[p].node} ELSE delayed
  /\ UNCHANGED nodeCache

MutDeleteFind(p) ==
  LET found == cloud[job[p].cidr] IN
  /\ pc[p] = "deleteFind"
  /\ \/ found = NoRoute /\ DeleteFailed(p) /\ UNCHANGED budget
     \/ /\ found # NoRoute
        /\ Goto(p, "deleting")
        /\ job' = [job EXCEPT ![p].inst = found]
        /\ UNCHANGED <<lock, nodeCache, delayed, budget>>
  /\ UNCHANGED <<world, cloud, queue, local>>

DeleteFind(p) ==
  LET found == cloud[job[p].cidr] IN
  /\ pc[p] = "deleteFind"
  /\ \/ found = NoRoute /\ Deleted(p) /\ UNCHANGED budget
     \/ /\ found # NoRoute
        /\ Goto(p, "deleting")
        /\ job' = [job EXCEPT ![p].inst = found]
        /\ UNCHANGED <<lock, nodeCache, delayed, budget>>
     \/ Spend("fault") /\ DeleteFailed(p)
  /\ UNCHANGED <<world, cloud, queue, local>>

DeleteRoute(p) ==
  LET c == job[p].cidr
      same    == cloud[c] = job[p].inst
      deleted == [cloud EXCEPT ![c] = NoRoute]
  IN
  /\ pc[p] = "deleting"
  /\ \/ same /\ cloud' = deleted /\ Deleted(p) /\ UNCHANGED budget
     \/ ~same /\ DeleteFailed(p) /\ UNCHANGED <<cloud, budget>>
     \/ /\ same /\ Spend("fault")
        /\ cloud' \in {cloud, deleted}
        /\ DeleteFailed(p)
  /\ UNCHANGED <<world, queue, local>>

-----------------------------------------------------------------------------
(***************************************************************************)
(* reconcileForCluster: NodeList leaves the excluded nodes out; syncRoutes *)
(* lists the routes, deletes those that conflict with the list, then goes  *)
(* through the nodes that want a route, all by what it read at the start.  *)
(***************************************************************************)
NodeList ==
  /\ up /\ pc["sync"] = "idle"
  /\ nodeSnap' = [n \in Nodes |->
       IF nodes[n] # Absent /\ ~nodes[n].spec.excluded THEN nodes[n] ELSE Absent]
  /\ Goto("sync", "list")
  /\ UNCHANGED <<world, cloud, queue, delayed, nodeCache, lock, job, routeSnap,
                 todoRoutes, budget>>

WantsRoute(o) ==
  /\ NeedSyncRoute(o.spec)
  /\ Cidr(o) \in Cidrs
  /\ Inst(o) # NoInst

ListRoutes ==
  /\ pc["sync"] = "list"
  /\ \/ /\ routeSnap' = cloud
        /\ todoRoutes' = {c \in Cidrs : cloud[c] # NoRoute
                                        /\ ConflictWithNodes(c, cloud[c], nodeSnap)}
        /\ nodeSnap' = [n \in Nodes |->
             IF nodeSnap[n] # Absent /\ WantsRoute(nodeSnap[n]) THEN nodeSnap[n] ELSE Absent]
        /\ Goto("sync", "pass")
        /\ UNCHANGED budget
     \/ /\ Spend("fault")
        /\ Goto("sync", "idle")
        /\ nodeSnap' = NoNodes
        /\ UNCHANGED <<routeSnap, todoRoutes>>
  /\ UNCHANGED <<world, cloud, queue, delayed, nodeCache, lock, job>>

SyncDelete(c) ==
  /\ pc["sync"] = "pass" /\ c \in todoRoutes
  /\ todoRoutes' = todoRoutes \ {c}
  /\ Goto("sync", "delete")
  /\ job' = [job EXCEPT !["sync"] = DeleteJob(NoNode, c)]
  /\ UNCHANGED <<world, cloud, queue, delayed, nodeCache, lock, nodeSnap,
                 routeSnap, budget>>

SyncNode(n) ==
  /\ pc["sync"] = "pass" /\ todoRoutes = {} /\ nodeSnap[n] # Absent
  /\ nodeSnap' = [nodeSnap EXCEPT ![n] = Absent]
  /\ Goto("sync", "find")
  /\ job' = [job EXCEPT !["sync"] = AddJob(n, nodeSnap[n])]
  /\ UNCHANGED <<world, cloud, queue, delayed, nodeCache, lock, routeSnap,
                 todoRoutes, budget>>

SyncDone ==
  /\ pc["sync"] = "pass" /\ todoRoutes = {} /\ nodeSnap = NoNodes
  /\ routeSnap' = NoRoutes
  /\ Goto("sync", "idle")
  /\ UNCHANGED <<world, cloud, queue, delayed, nodeCache, lock, job, nodeSnap,
                 todoRoutes, budget>>

-----------------------------------------------------------------------------
Cluster ==
  \/ \E n \in Nodes : \/ NodeAdded(n)    \/ NodeUpdated(n)
                      \/ NodeReplaced(n) \/ NodeRemoved(n)
  \/ \E c \in Cidrs : ForeignChange(c)
  \/ Crash

Call(p) ==
  \/ FindRoute(p)    \/ Store(p)
  \/ CreateRoute(p)  \/ CreatePanics(p) \/ FindSame(p) \/ FindCreated(p)
  \/ RouteCondition(p)
  \/ DeleteFind(p)   \/ DeleteRoute(p)

Reconcile ==
  \/ \E n \in Nodes : ReconcileRemoved(n) \/ ReconcileSkipped(n) \/ ReconcileNode(n)
  \/ CachedRoute \/ Forget

ReconcileForCluster ==
  \/ NodeList \/ ListRoutes \/ SyncDone
  \/ \E c \in Cidrs : SyncDelete(c)
  \/ \E n \in Nodes : SyncNode(n)

Next ==
  \/ Cluster \/ Start \/ Reconcile \/ ReconcileForCluster
  \/ \E n \in Nodes : RetryDue(n)
  \/ \E p \in Procs : Lock(p) \/ Call(p)

Safety == Init /\ [][Next]_vars

(***************************************************************************)
(* The processes take their steps, the delays and the ticker's period end, *)
(* the supervisor restarts the process, and a mutex that is free again and *)
(* again is got (Go hands it to a waiter that has waited long enough).     *)
(* Nothing is asked of the cluster, and the bounds end its changes.        *)
(***************************************************************************)
Fairness ==
  /\ WF_vars(Start) /\ WF_vars(Reconcile) /\ WF_vars(ReconcileForCluster)
  /\ \A n \in Nodes : WF_vars(RetryDue(n))
  /\ \A p \in Procs : SF_vars(Lock(p)) /\ WF_vars(Call(p))

Spec == Safety /\ Fairness

-----------------------------------------------------------------------------
(* Every variable keeps its type. *)
IsJob(j) ==
  /\ j = [node |-> j.node, cidr |-> j.cidr, inst |-> j.inst, net |-> j.net, tries |-> j.tries]
  /\ j.node \in Nodes \cup {NoNode} /\ j.cidr \in PodCidrs
  /\ j.inst \in Hops /\ j.net \in NetStates /\ j.tries \in 0 .. MaxTries - 1

Labels == {"idle", "find", "store", "create", "creating", "same", "confirm",
           "condOk", "condFail", "gone", "delete", "deleteFind", "deleting", "forget",
           "list", "pass"}

TypeOK ==
  /\ IsNodeTable(nodes)
  /\ claims \subseteq Nodes \X Cidrs \X Hops
  /\ IsRouteTable(cloud)
  /\ up \in BOOLEAN
  /\ queue \subseteq Nodes /\ delayed \subseteq Nodes
  /\ nodeCache \in [Nodes -> Cidrs \cup {NoCidr}]
  /\ lock \in Procs \cup {"free"}
  /\ pc \in [Procs -> Labels]
  /\ job = [p \in Procs |-> job[p]] /\ \A p \in Procs : IsJob(job[p])
  /\ IsNodeTable(nodeSnap)
  /\ IsRouteTable(routeSnap)
  /\ todoRoutes \subseteq Cidrs
  /\ budget \in [BudgetKeys -> Nat]

(***************************************************************************)
(* routeLock is held exactly by the process between its Lock and the       *)
(* return of createRouteForInstance or deleteRouteForInstance, panics,     *)
(* failures and restarts included: never by two, never left behind.        *)
(***************************************************************************)
Critical == {"creating", "same", "confirm", "deleteFind", "deleting"}

LockHeldInside == \A p \in Procs : pc[p] \in Critical <=> lock = p

(* Nobody else has changed the VPC's routes: no more changes were ever left. *)
Undisturbed == \A b \in InitBudgets : b["foreign"] <= budget["foreign"]

(***************************************************************************)
(* What one call under routeLock saw of the route it works on still holds  *)
(* at the next one, so long as nobody else changes the VPC's routes: a     *)
(* route that was created is there, the route to delete is the one found,  *)
(* and a CIDR that the API refused is taken.                               *)
(***************************************************************************)
StableUnderLock ==
  Undisturbed =>
    \A p \in Procs :
      LET r == cloud[job[p].cidr] IN
      /\ pc[p] \in {"confirm", "deleting"} => r = job[p].inst
      /\ pc[p] = "same" => r # NoRoute

(***************************************************************************)
(* The controller acts only for nodes it has been shown: a route about to  *)
(* be created is some node's, with the instance the node had together with *)
(* that CIDR, and a route about to be deleted lies in some node's CIDR.    *)
(***************************************************************************)
Covered(c) == \E t \in claims : c = t[2] \/ <<c, t[2]>> \in Inside

Adding   == {"find", "store", "create", "creating", "same", "confirm"}
Removing == {"delete", "deleteFind", "deleting"}

ActsOnClaims ==
  /\ \A p \in Procs :
       /\ pc[p] \in Adding => /\ <<job[p].node, job[p].cidr, job[p].inst>> \in claims
                              /\ job[p].inst \in Instances
       /\ pc[p] \in Removing => Covered(job[p].cidr)
  /\ \A n \in Nodes : nodeCache[n] # NoCidr => \E i \in Hops : <<n, nodeCache[n], i>> \in claims
  /\ \A c \in todoRoutes : Covered(c)

(* What is known of a node, now or by the sync, is a claim. *)
ShownNodes == Claims(nodes) \cup Claims(nodeSnap) \subseteq claims

(* Once the routes are listed only nodes that want a route are left to sync. *)
SyncedNodesWant ==
  pc["sync"] # "list" => \A n \in Nodes : nodeSnap[n] # Absent => WantsRoute(nodeSnap[n])

(***************************************************************************)
(* The controller implements the promise of RouteTable.                    *)
(***************************************************************************)
Table == INSTANCE RouteTable WITH Names <- Nodes, routes <- cloud,
                                  foreign <- budget["foreign"]

TableSpec == Table!Spec

(***************************************************************************)
(* The routes of the nodes that nobody disputes: a present node that wants *)
(* a route, whose CIDR is no other listed node's and inside no other's.    *)
(***************************************************************************)
Undisputed(n) ==
  /\ nodes[n] # Absent /\ WantsRoute(nodes[n])
  /\ \A m \in Nodes \ {n} :
       nodes[m] # Absent /\ ~nodes[m].spec.excluded =>
         /\ Cidr(nodes[m]) # Cidr(nodes[n])
         /\ <<Cidr(nodes[n]), Cidr(nodes[m])>> \notin Inside

(* Once the cluster is quiet, their NodeNetworkUnavailable condition is False for good. *)
EventuallyAvailable ==
  <>[](\A n \in Nodes : Undisputed(n) => nodes[n].net = "ok")

(* ... and the worker knows a route to delete when the node goes away. *)
EventuallyKnown ==
  <>[](\A n \in Nodes : Undisputed(n) => nodeCache[n] # NoCidr)

(***************************************************************************)
(* The worker comes to forget the route of a removed node, failures on the *)
(* way notwithstanding, unless the node comes back or the process ends.    *)
(***************************************************************************)
KnownRouteGoes ==
  \A n \in Nodes :
    nodeCache[n] # NoCidr /\ nodes[n] = Absent /\ n \in queue \cup delayed
      ~> nodeCache[n] = NoCidr \/ nodes[n] # Absent

(***************************************************************************)
(* A running process forgets only what was gone: an entry of the nodeCache *)
(* is taken out by the worker, for the node and the CIDR whose route it    *)
(* has just deleted, and when it let go of routeLock to do so the VPC had  *)
(* no route of that CIDR.  It may have one again when the entry goes: the  *)
(* sync and other users need not wait for that.                            *)
(***************************************************************************)
Forgetting == pc["worker"] = "forget"

ForgetsOnlyGone ==
  [][/\ \A n \in Nodes :
          up' /\ nodeCache[n] # NoCidr /\ nodeCache'[n] = NoCidr
          => Forgetting /\ job["worker"].node = n /\ job["worker"].cidr = nodeCache[n]
     /\ Forgetting' =>
          /\ job'["worker"] = job["worker"]
          /\ ~Forgetting => lock = "worker" /\ cloud'[job["worker"].cidr] = NoRoute]_vars

(* Work ends: the queue empties for good and no retry is pending. *)
EventuallyQuiet == <>[](queue = {} /\ delayed = {} /\ pc["worker"] = "idle")

(* Whoever takes routeLock lets it go, and whoever waits for it gets it. *)
LockIsPassedOn ==
  \A p \in Procs : pc[p] \in {"create", "delete"} ~> pc[p] \notin {"create", "delete"} \cup Critical

-----------------------------------------------------------------------------
(***************************************************************************)
(* What the documentation says and the code does not keep.                 *)
(*                                                                         *)
(* The condition becomes False with the message "RouteController created a *)
(* route" (route_controller.go:270) only when the CIDR has a route.        *)
(***************************************************************************)
ConditionTellsOfRoute ==
  [][\A n \in Nodes :
       /\ nodes[n] # Absent /\ nodes'[n] # Absent
       /\ nodes[n].net # "ok" /\ nodes'[n].net = "ok"
       => cloud[Cidr(nodes[n])] # NoRoute]_vars

(* README.md:9: when a node leaves the cluster its route is deleted. *)
Orphan(c) ==
  /\ \E t \in claims : t[2] = c /\ t[3] = cloud[c]
  /\ \A n \in Present(nodes) : Cidr(nodes[n]) # c


(***************************************************************************)
(* README.md:11: the check of every five minutes creates the routes that   *)
(* are not there: none of an undisputed node is missing when a pass ends.  *)
(***************************************************************************)
PassLeavesRoutes ==
  [][SyncDone => \A n \in Nodes : Undisputed(n) => cloud[Cidr(nodes[n])] # NoRoute]_vars
=============================================================================
