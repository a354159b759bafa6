--------------------------- MODULE TrafficProofs ----------------------------
(***************************************************************************)
(* The controller leaves the traffic of others alone, from the refinement  *)
(* of RouteTable and the meaning of containsRoute, and a settled node in   *)
(* peace, from what each process is about to do.                           *)
(***************************************************************************)
EXTENDS Traffic, RouteControllerRefines, IPNetProofs

(* A change of one route changes no next hop of the addresses outside it. *)
LEMMA NextHopsOutside ==
  ASSUME NEW old, NEW new, NEW c \in Cidrs, NEW x,
         \A d \in Cidrs \ {c} : new[d] = old[d], ~HasIP(c, x)
  PROVE  NextHops(new, x) = NextHops(old, x)
<1>1. Matching(new, x) = Matching(old, x) /\ Matching(old, x) \subseteq Cidrs \ {c}
  BY DEF Matching
<1> QED
  BY <1>1 DEF NextHops

(* The addresses of a CIDR inside a node's are addresses of the node's. *)
LEMMA InsideIsClaimed ==
  ASSUME NEW t \in claims, t[2] \in Cidrs, NEW c \in Cidrs, c = t[2] \/ <<c, t[2]>> \in Inside,
         NEW x \in IPs, HasIP(c, x)
  PROVE  Claimed(x)
<1>1. CASE c = t[2]
  BY <1>1 DEF Claimed
<1>2. CASE <<c, t[2]>> \in Inside
  <2>1. c \in Nets /\ t[2] \in Nets
    BY NetsAssumption
  <2>2. c # t[2] /\ ContainsRoute(t[2], c).contains
    BY <1>2, NetsAssumption DEF ContainsRoute
  <2>3. x \in Nat
    BY <2>1, BitsAssumption DEF IPs
  <2>4. x \in Addresses(t[2])
    BY <2>1, <2>2, <2>3, HasIPIsMembership, ContainsRouteIsInclusion
  <2> QED
    BY <2>1, <2>3, <2>4, HasIPIsMembership DEF Claimed
<1> QED
  BY <1>1, <1>2

(* One step, of the controller or of the cluster. *)
LEMMA OthersStep ==
  ASSUME IInv, ForeignBound, [Next]_vars, cloud' # cloud,
         budget'["foreign"] = budget["foreign"], NEW x \in IPs, ~Claimed(x)
  PROVE  NextHops(cloud', x) = NextHops(cloud, x)
<1>1. TypeOK
  BY DEF IInv, KnowsClaims
<1>2. claims \subseteq Nodes \X Cidrs \X Hops /\ cloud = [c \in Cidrs |-> cloud[c]]
  BY <1>1 DEF TypeOK, IsRouteTable
<1>3. Table!Next
  BY TableStep DEF Table!vars
<1>4. ~Table!Claim
  BY DEF Table!Claim
<1>5. ~Table!Foreign
  BY <1>1 DEF Table!Foreign, TypeOK, BudgetKeys
<1>6. CASE Table!Install
  <2>1. PICK t \in claims : cloud' = [cloud EXCEPT ![t[2]] = t[3]]
    BY <1>6 DEF Table!Install
  <2>2. t[2] \in Cidrs /\ ~HasIP(t[2], x)
    BY <1>2 DEF Claimed
  <2>3. \A d \in Cidrs \ {t[2]} : cloud'[d] = cloud[d]
    BY <1>2, <2>1
  <2> QED
    BY <2>2, <2>3, NextHopsOutside
<1>7. CASE Table!Withdraw
  <2>1. PICK c \in Cidrs : Table!Covered(c) /\ cloud' = [cloud EXCEPT ![c] = NoRoute]
    BY <1>7 DEF Table!Withdraw
  <2>2. PICK t \in claims : c = t[2] \/ <<c, t[2]>> \in Inside
    BY <2>1 DEF Table!Covered
  <2>3. t[2] \in Cidrs
    BY <1>2
  <2>4. ~HasIP(c, x)
    BY <2>2, <2>3, InsideIsClaimed
  <2>5. \A d \in Cidrs \ {c} : cloud'[d] = cloud[d]
    BY <1>2, <2>1
  <2> QED
    BY <2>4, <2>5, NextHopsOutside
<1> QED
  BY <1>3, <1>4, <1>5, <1>6, <1>7 DEF Table!Next

(***************************************************************************)
(* No packet to an address outside the nodes' CIDRs takes another way      *)
(* because of the controller: see OtherTrafficStays.                       *)
(***************************************************************************)
THEOREM LeavesOtherTraffic == Spec => OtherTrafficStays
<1> DEFINE Stays ==
      /\ cloud' # cloud
      /\ budget'["foreign"] = budget["foreign"]
      => \A x \in IPs : Claimed(x) \/ NextHops(cloud', x) = NextHops(cloud, x)
<1>1. Init => IInv /\ ForeignBound
  <2>1. budget \in InitBudgets => budget["foreign"] \in Nat
    BY ControllerAssumption DEF BudgetKeys
  <2> QED
    BY <2>1, KnowsInit, PlacesInit DEF Init, IInv, ForeignBound
<1>2. IInv /\ ForeignBound /\ [Next]_vars => (IInv /\ ForeignBound)' /\ [Stays]_vars
  <2> SUFFICES ASSUME IInv, ForeignBound, [Next]_vars
               PROVE  (IInv /\ ForeignBound)' /\ Stays
    OBVIOUS
  <2> QED
    BY IInvStep, ForeignStep, OthersStep DEF IInv, KnowsClaims
<1> QED
  BY <1>1, <1>2, PTL DEF Spec, Safety, OtherTrafficStays

-----------------------------------------------------------------------------
(***************************************************************************)
(* Which CIDRs share addresses, and where the packets of a settled node go. *)
(***************************************************************************)
LEMMA SharesItself ==
  ASSUME NEW c \in Cidrs
  PROVE  Shares(c, c)
<1>1. c \in Nets
  BY NetsAssumption
<1> QED
  BY <1>1, OwnAddress, OverlapsIsSharing DEF Shares

(* A CIDR inside another one shares addresses with it. *)
LEMMA InsideShares ==
  ASSUME NEW d, NEW c, <<d, c>> \in Inside
  PROVE  d \in Cidrs /\ c \in Cidrs /\ d # c /\ Shares(d, c) /\ Shares(c, d)
<1>1. d \in Cidrs /\ c \in Cidrs /\ d \in Nets /\ c \in Nets
  BY NetsAssumption, CidrsAssumption
<1>2. d # c /\ ContainsRoute(c, d).contains
  BY NetsAssumption DEF ContainsRoute
<1>3. d.ip \in Addresses(d) /\ d.ip \in Addresses(c)
  BY <1>1, <1>2, OwnAddress, ContainsRouteIsInclusion
<1> QED
  BY <1>1, <1>2, <1>3, OverlapsIsSharing DEF Shares

(* A CIDR with a longer prefix that shares an address is inside. *)
LEMMA LongerIsInside ==
  ASSUME NEW d \in Cidrs, NEW c \in Cidrs, d # c, c.len <= d.len,
         NEW x \in Addresses(c), x \in Addresses(d)
  PROVE  <<d, c>> \in Inside
<1>1. d \in Nets /\ c \in Nets
  BY NetsAssumption
<1>2. Addresses(d) \subseteq Addresses(c)
  BY <1>1, NetInNet
<1>3. ContainsRoute(c, d).contains
  BY <1>1, <1>2, ContainsRouteIsInclusion
<1> QED
  BY <1>3, NetsAssumption

(***************************************************************************)
(* Settled is what it is meant for: every packet to an address of the node *)
(* goes to the node's instance.                                            *)
(***************************************************************************)
THEOREM SettledLeadsToNode ==
  ASSUME TypeOK, NEW n \in Nodes, Settled(n), NEW x \in Addresses(Cidr(nodes[n]))
  PROVE  NextHops(cloud, x) = {Inst(nodes[n])}
<1> DEFINE c == Cidr(nodes[n])
           i == Inst(nodes[n])
<1>1. c \in Cidrs /\ c \in Nets
  BY NetsAssumption DEF Settled, WantsRoute
<1>2. i \in Hops /\ i # NoRoute
  BY ControllerAssumption, InstanceOfSpec DEF Settled, TypeOK, IsNodeTable, IsNode, Inst, Hops
<1>3. cloud[c] = i /\ \A d \in Cidrs : <<d, c>> \in Inside => cloud[d] = NoRoute
  BY DEF Settled
<1>4. x \in Nat
  BY <1>1, NetTypes DEF Addresses
<1>5. \A d \in Cidrs : HasIP(d, x) <=> x \in Addresses(d)
  BY <1>4, NetsAssumption, HasIPIsMembership
<1> HIDE DEF c, i
<1>6. c \in Matching(cloud, x)
  BY <1>1, <1>2, <1>3, <1>5 DEF Matching, c
<1>7. \A d \in Matching(cloud, x) \ {c} : ~(c.len <= d.len)
  BY <1>1, <1>3, <1>5, LongerIsInside DEF Matching, c
<1>8. \A d \in Cidrs : d.len \in Nat
  BY NetsAssumption, BitsAssumption DEF Nets
<1>9. {d \in Matching(cloud, x) : \A e \in Matching(cloud, x) : e.len <= d.len} = {c}
  <2>1. \A d \in Matching(cloud, x) : d.len <= c.len
    BY <1>1, <1>7, <1>8 DEF Matching
  <2>2. \A d \in Matching(cloud, x) : (\A e \in Matching(cloud, x) : e.len <= d.len) => d = c
    BY <1>6, <1>7
  <2> QED
    BY <1>6, <2>1, <2>2
<1> QED
  BY <1>3, <1>9 DEF NextHops, c, i
-----------------------------------------------------------------------------
(***************************************************************************)
(* A settled node stays settled.  What Settled asks, part by part, of a    *)
(* node n with the CIDR c and the instance i.                              *)
(***************************************************************************)
Meant(t, n, c, i) == t[1] = n \/ Shares(t[2], c) => t = <<n, c, i>>

NodesAgree(n, c, i) == \A m \in Nodes :
  nodes[m] # Absent => Meant(<<m, Cidr(nodes[m]), Inst(nodes[m])>>, n, c, i)

ListAgrees(n, c, i) == \A m \in Nodes :
  nodeSnap[m] # Absent => Meant(<<m, Cidr(nodeSnap[m]), Inst(nodeSnap[m])>>, n, c, i)

Leads(c, i) == cloud[c] = i /\ \A d \in Cidrs : <<d, c>> \in Inside => cloud[d] = NoRoute

NotRemembered(n, c) == \A m \in Nodes \ {n} : nodeCache[m] # c

Doubtful == {"create", "creating", "same", "confirm", "condFail", "gone"}

JobFits(p, l, j, n, c, i) ==
  /\ l \in Adding => Meant(<<j.node, j.cidr, j.inst>>, n, c, i)
  /\ l \in Removing => j.cidr # c
  /\ l \in Doubtful /\ p = "worker" => j.node # n

Minds(n, c, i) ==
  /\ ListAgrees(n, c, i) /\ NotRemembered(n, c) /\ c \notin todoRoutes
  /\ \A p \in Procs : JobFits(p, pc[p], job[p], n, c, i)

Stands(n, c, i) ==
  /\ nodes[n] # Absent /\ nodes[n].net = "ok" /\ WantsRoute(nodes[n])
  /\ c = Cidr(nodes[n]) /\ i = Inst(nodes[n])
  /\ NodesAgree(n, c, i)

SettledAs(n, c, i) == Stands(n, c, i) /\ Leads(c, i) /\ Minds(n, c, i)

(* The parts are the whole. *)
LEMMA SettledParts ==
  ASSUME NEW n \in Nodes
  PROVE  Settled(n) <=> SettledAs(n, Cidr(nodes[n]), Inst(nodes[n]))
<1> DEFINE c == Cidr(nodes[n])
           i == Inst(nodes[n])
<1>1. (\A t \in Wanted : t[1] = n \/ Shares(t[2], c) => t = <<n, c, i>>)
        <=> /\ NodesAgree(n, c, i) /\ ListAgrees(n, c, i)
            /\ \A p \in Procs : pc[p] \in Adding =>
                 Meant(<<job[p].node, job[p].cidr, job[p].inst>>, n, c, i)
  <2> HIDE DEF c, i
  <2>1. \A t : t \in Wanted <=>
          \/ \E m \in Nodes : nodes[m] # Absent /\ t = <<m, Cidr(nodes[m]), Inst(nodes[m])>>
          \/ \E m \in Nodes : nodeSnap[m] # Absent /\ t = <<m, Cidr(nodeSnap[m]), Inst(nodeSnap[m])>>
          \/ \E p \in Procs : pc[p] \in Adding /\ t = <<job[p].node, job[p].cidr, job[p].inst>>
    BY DEF Wanted, Shown, Present
  <2>2. (\A t \in Wanted : Meant(t, n, c, i))
          <=> /\ NodesAgree(n, c, i) /\ ListAgrees(n, c, i)
              /\ \A p \in Procs : pc[p] \in Adding =>
                   Meant(<<job[p].node, job[p].cidr, job[p].inst>>, n, c, i)
    BY <2>1 DEF NodesAgree, ListAgrees
  <2>3. (\A t \in Wanted : t[1] = n \/ Shares(t[2], c) => t = <<n, c, i>>)
          <=> (\A t \in Wanted : Meant(t, n, c, i))
    BY DEF Meant
  <2> QED
    BY <2>2, <2>3
<1>2. c \notin Unwanted(n)
        <=> /\ c \notin todoRoutes /\ NotRemembered(n, c)
            /\ \A p \in Procs : pc[p] \in Removing => job[p].cidr # c
  <2> HIDE DEF c
  <2> QED
    BY DEF Unwanted, NotRemembered
<1>3. (job["worker"].node = n => pc["worker"] \notin Doubtful)
        <=> \A p \in Procs : pc[p] \in Doubtful /\ p = "worker" => job[p].node # n
  BY DEF Procs
<1> HIDE DEF c, i
<1> QED
  BY <1>1, <1>2, <1>3 DEF Settled, SettledAs, Stands, Leads, Minds, JobFits, Doubtful, c, i

(* What the instance and the CIDR of a settled node are. *)
LEMMA SettledTypes ==
  ASSUME TypeOK, NEW n \in Nodes, NEW c, NEW i, SettledAs(n, c, i)
  PROVE  /\ c \in Cidrs /\ c # NoCidr /\ i \in Hops /\ i # NoRoute
         /\ cloud[c] = i /\ Shares(c, c) /\ IsNode(nodes[n])
<1>1. c \in Cidrs
  BY DEF SettledAs, Stands, WantsRoute
<1>2. IsNode(nodes[n])
  BY DEF SettledAs, Stands, TypeOK, IsNodeTable
<1>3. i \in Hops
  BY <1>2, InstanceOfSpec DEF SettledAs, Stands, IsNode, Inst, Hops
<1> QED
  BY <1>1, <1>2, <1>3, CidrsAssumption, ControllerAssumption, SharesItself DEF SettledAs, Leads

(* A step that leaves everything alone that the node depends on. *)
LEMMA SettledByStanding ==
  ASSUME NEW n, NEW c, NEW i, SettledAs(n, c, i),
         UNCHANGED <<nodes, cloud, nodeCache, pc, job, nodeSnap, todoRoutes>>
  PROVE  SettledAs(n, c, i)'
BY DEF SettledAs, Stands, NodesAgree, Leads, Minds, ListAgrees, NotRemembered, JobFits

(* The cluster shows what it showed of the node, and of no other node a CIDR in its way. *)
LEMMA NodesStand ==
  ASSUME NEW n, NEW c, NEW i, Stands(n, c, i), UNCHANGED nodes
  PROVE  Stands(n, c, i)'
BY DEF Stands, NodesAgree

(* A step of one process. *)
LEMMA SettledByMove ==
  ASSUME TypeOK, NEW n, NEW c, NEW i, SettledAs(n, c, i), NEW p \in Procs,
         NEW l, pc' = [pc EXCEPT ![p] = l], \A q \in Procs \ {p} : job'[q] = job[q],
         Stands(n, c, i)', Leads(c, i)', ListAgrees(n, c, i)', NotRemembered(n, c)',
         c \notin todoRoutes', JobFits(p, l, job'[p], n, c, i)
  PROVE  SettledAs(n, c, i)'
<1>1. pc'[p] = l /\ \A q \in Procs \ {p} : pc'[q] = pc[q]
  BY DEF TypeOK
<1>2. \A q \in Procs : JobFits(q, pc'[q], job'[q], n, c, i)
  BY <1>1 DEF SettledAs, Minds
<1>3. Minds(n, c, i)'
  <2>1. \A q \in Procs : JobFits(q, pc[q], job[q], n, c, i)'
    BY <1>2 DEF JobFits, Meant, Shares
  <2> QED
    BY <2>1 DEF Minds
<1> QED
  BY <1>3 DEF SettledAs
(* A route that a process adds where there is none is not in the way. *)
LEMMA LeadsWithRoute ==
  ASSUME TypeOK, NEW n \in Nodes, NEW c, NEW i, SettledAs(n, c, i),
         NEW p \in Procs, pc[p] \in Adding, cloud[job[p].cidr] = NoRoute,
         NEW v, cloud' = [cloud EXCEPT ![job[p].cidr] = v]
  PROVE  Leads(c, i)'
<1>1. c \in Cidrs /\ cloud[c] = i /\ i # NoRoute
  BY SettledTypes
<1>2. Meant(<<job[p].node, job[p].cidr, job[p].inst>>, n, c, i)
  BY DEF SettledAs, Minds, JobFits
<1>3. \A d \in Cidrs : d # job[p].cidr => cloud'[d] = cloud[d]
  BY DEF TypeOK, IsRouteTable
<1>4. c # job[p].cidr
  BY <1>1
<1>5. <<job[p].cidr, c>> \notin Inside
  BY <1>2, <1>4, InsideShares DEF Meant
<1> QED
  BY <1>1, <1>3, <1>4, <1>5 DEF SettledAs, Leads

(* A route that a process deletes is another one. *)
LEMMA LeadsWithout ==
  ASSUME TypeOK, NEW n \in Nodes, NEW c, NEW i, SettledAs(n, c, i),
         NEW p \in Procs, pc[p] \in Removing,
         cloud' = [cloud EXCEPT ![job[p].cidr] = NoRoute]
  PROVE  Leads(c, i)'
<1>1. c \in Cidrs /\ job[p].cidr # c
  BY SettledTypes DEF SettledAs, Minds, JobFits
<1>2. \A d \in Cidrs : cloud'[d] = cloud[d] \/ cloud'[d] = NoRoute
  BY DEF TypeOK, IsRouteTable
<1>3. cloud'[c] = cloud[c]
  BY <1>1 DEF TypeOK, IsRouteTable
<1> QED
  BY <1>1, <1>2, <1>3 DEF SettledAs, Leads

(* The process ends: nothing is known any more and nothing to be done. *)
LEMMA SettledByEnd ==
  ASSUME TypeOK, NEW n \in Nodes, NEW c, NEW i, SettledAs(n, c, i), ProcessEnds, Leads(c, i)'
  PROVE  SettledAs(n, c, i)'
<1>1. c # NoCidr /\ c \in Cidrs
  BY SettledTypes
<1>2. Stands(n, c, i)'
  BY NodesStand DEF SettledAs, ProcessEnds
<1>3. ListAgrees(n, c, i)' /\ NotRemembered(n, c)' /\ c \notin todoRoutes'
  BY <1>1 DEF ProcessEnds, ListAgrees, NotRemembered, NoNodes, NoCache
<1>4. \A p \in Procs : pc'[p] = "idle"
  BY DEF ProcessEnds
<1>5. Minds(n, c, i)'
  BY <1>3, <1>4 DEF Minds, JobFits, Adding, Removing, Doubtful
<1> QED
  BY <1>2, <1>5 DEF SettledAs

(* Another node changes, to what shares no address with this one. *)
LEMMA SettledByEvent ==
  ASSUME TypeOK, NEW n \in Nodes, NEW c, NEW i, SettledAs(n, c, i),
         NEW m \in Nodes \ {n}, NEW o, NEW w, NodeEvent(m, o, w),
         o # Absent => ~Shares(Cidr(o), c)
  PROVE  SettledAs(n, c, i)'
<1>1. nodes' = [nodes EXCEPT ![m] = o]
      /\ UNCHANGED <<cloud, nodeCache, pc, job, nodeSnap, todoRoutes>>
  BY DEF NodeEvent, SetNode, local
<1>2. nodes'[m] = o /\ \A k \in Nodes \ {m} : nodes'[k] = nodes[k]
  BY <1>1 DEF TypeOK, IsNodeTable
<1>3. NodesAgree(n, c, i)'
  <2>1. \A k \in Nodes \ {m} : nodes'[k] # Absent =>
          Meant(<<k, Cidr(nodes'[k]), Inst(nodes'[k])>>, n, c, i)
    BY <1>2 DEF SettledAs, Stands, NodesAgree
  <2>2. nodes'[m] # Absent => Meant(<<m, Cidr(nodes'[m]), Inst(nodes'[m])>>, n, c, i)
    BY <1>2 DEF Meant
  <2>3. \A k \in Nodes : nodes'[k] # Absent =>
          Meant(<<k, Cidr(nodes'[k]), Inst(nodes'[k])>>, n, c, i)
    BY <2>1, <2>2
  <2> QED
    BY <2>3 DEF NodesAgree, Meant, Shares
<1>4. Stands(n, c, i)'
  BY <1>2, <1>3 DEF SettledAs, Stands
<1> QED
  BY <1>1, <1>4 DEF SettledAs, Leads, Minds, ListAgrees, NotRemembered, JobFits

(* A change of the node itself that leaves its spec and identity is none of the cluster's. *)
LEMMA OwnEventShows ==
  ASSUME TypeOK, NEW n \in Nodes, nodes[n] # Absent, nodes'[n] # Absent,
         nodes'[n].spec = nodes[n].spec, nodes'[n].uid = nodes[n].uid,
         NodeAdded(n) \/ NodeUpdated(n) \/ NodeReplaced(n) \/ NodeRemoved(n)
  PROVE  FALSE
<1>1. IsNode(nodes[n])
  BY DEF TypeOK, IsNodeTable
<1>2. ASSUME NEW o, NEW w, NodeEvent(n, o, w)
      PROVE  nodes'[n] = o
  BY <1>2 DEF NodeEvent, SetNode, TypeOK, IsNodeTable
<1>3. CASE NodeUpdated(n)
  <2>1. PICK s \in SpecChoices[n] \ {nodes[n].spec} : nodes'[n] = [nodes[n] EXCEPT !.spec = s]
    BY <1>2, <1>3 DEF NodeUpdated
  <2>2. IsSpec(s)
    BY ControllerAssumption
  <2>3. nodes'[n] = [spec |-> s, uid |-> nodes[n].uid, net |-> nodes[n].net]
    BY <1>1, <2>1, <2>2, NodeWithSpec
  <2> QED
    BY <2>3
<1>4. CASE NodeReplaced(n)
  <2>1. PICK s : nodes'[n] = [spec |-> s, uid |-> 1 - nodes[n].uid, net |-> "unset"]
    BY <1>2, <1>4 DEF NodeReplaced
  <2>2. nodes[n].uid \in {0, 1}
    BY <1>1 DEF IsNode
  <2> QED
    BY <2>1, <2>2
<1>5. CASE NodeAdded(n)
  BY <1>5 DEF NodeAdded
<1>6. CASE NodeRemoved(n)
  BY <1>2, <1>6 DEF NodeRemoved
<1> QED
  BY <1>3, <1>4, <1>5, <1>6

(* The sync tells no node that it has no route. *)
SyncIsSilent == pc["sync"] # "condFail"

(* No step makes it do so. *)
LEMMA SilentStep ==
  ASSUME TypeOK, SyncIsSilent, [Next]_vars
  PROVE  SyncIsSilent'
<1> USE DEF SyncIsSilent, Procs
<1>1. pc = [p \in Procs |-> pc[p]]
  BY DEF TypeOK
<1>2. CASE Cluster \/ Start \/ \E n \in Nodes : RetryDue(n)
  BY <1>2 DEF Cluster, NodeAdded, NodeUpdated, NodeReplaced, NodeRemoved, NodeEvent,
              ForeignChange, Crash, ProcessEnds, Start, RetryDue
<1>3. CASE Reconcile
  BY <1>1, <1>3 DEF Reconcile, ReconcileRemoved, ReconcileSkipped, ReconcileNode,
                    CachedRoute, Forget, Finish, Goto
<1>4. CASE ReconcileForCluster
  BY <1>1, <1>4 DEF ReconcileForCluster, NodeList, ListRoutes, SyncDone, SyncDelete, SyncNode, Goto
<1>5. ASSUME NEW p \in Procs, Lock(p) \/ FindRoute(p) \/ Store(p) \/ FindSame(p) \/ FindCreated(p)
      PROVE  SyncIsSilent'
  BY <1>1, <1>5 DEF Lock, FindRoute, Store, FindSame, FindCreated, Continue, AddFailed,
                    Finish, Rest, Goto
<1>6. ASSUME NEW p \in Procs, CreateRoute(p) \/ CreatePanics(p)
      PROVE  SyncIsSilent'
  BY <1>1, <1>6 DEF CreateRoute, CreatePanics, ProcessEnds, Continue, AddFailed, Finish, Rest, Goto
<1>7. ASSUME NEW p \in Procs, RouteCondition(p) \/ DeleteFind(p) \/ DeleteRoute(p)
      PROVE  SyncIsSilent'
  BY <1>1, <1>7 DEF RouteCondition, SetCondition, DeleteFind, DeleteRoute, Deleted, DeleteFailed,
                    Continue, Finish, Rest, Goto
<1>8. CASE UNCHANGED vars
  BY <1>8 DEF vars
<1> QED
  BY <1>2, <1>3, <1>4, <1>5, <1>6, <1>7, <1>8 DEF Next, Call
(* A process that comes to rest is about to do nothing. *)
LEMMA RestFits ==
  ASSUME NEW p, NEW j, NEW n, NEW c, NEW i
  PROVE  JobFits(p, Rest(p), j, n, c, i)
BY DEF JobFits, Rest, Adding, Removing, Doubtful

(* The worker takes a key, or goes on with a node that is gone. *)
LEMMA ReconcileSettled ==
  ASSUME TypeOK, WorksOnNode, NEW n \in Nodes, NEW c, NEW i, SettledAs(n, c, i), Reconcile
  PROVE  SettledAs(n, c, i)'
<1>1. UNCHANGED <<nodes, cloud, nodeSnap, todoRoutes>>
  BY DEF Reconcile, ReconcileRemoved, ReconcileSkipped, ReconcileNode, Take, CachedRoute,
         Forget, world, local
<1>2. Stands(n, c, i)' /\ Leads(c, i)' /\ ListAgrees(n, c, i)' /\ c \notin todoRoutes'
  BY <1>1, NodesStand DEF SettledAs, Minds, Leads, ListAgrees
<1>3. ASSUME NEW l, NEW j, pc' = [pc EXCEPT !["worker"] = l], job' = [job EXCEPT !["worker"] = j],
             JobFits("worker", l, j, n, c, i), NotRemembered(n, c)'
      PROVE  SettledAs(n, c, i)'
  <2>1. job'["worker"] = j /\ \A q \in Procs \ {"worker"} : job'[q] = job[q]
    BY <1>3 DEF TypeOK, Procs
  <2> QED
    BY <1>2, <1>3, <2>1, SettledByMove DEF Procs
<1>4. nodeCache' = nodeCache => NotRemembered(n, c)'
  BY DEF SettledAs, Minds, NotRemembered
<1>5. ASSUME NEW m \in Nodes, ReconcileRemoved(m)
      PROVE  SettledAs(n, c, i)'
  <2>1. /\ m # n /\ UNCHANGED nodeCache /\ pc' = [pc EXCEPT !["worker"] = "gone"]
        /\ job' = [job EXCEPT !["worker"] = DeleteJob(m, NoCidr)]
    BY <1>5 DEF ReconcileRemoved, Take, Goto, SettledAs, Stands
  <2>2. JobFits("worker", "gone", DeleteJob(m, NoCidr), n, c, i)
    BY <2>1 DEF JobFits, DeleteJob, Adding, Removing
  <2> QED
    BY <1>3, <1>4, <2>1, <2>2
<1>6. ASSUME NEW m \in Nodes, ReconcileSkipped(m)
      PROVE  SettledAs(n, c, i)'
  BY <1>1, <1>6, SettledByStanding DEF ReconcileSkipped, Take
<1>7. ASSUME NEW m \in Nodes, ReconcileNode(m)
      PROVE  SettledAs(n, c, i)'
  <2> DEFINE l == IF Cidr(nodes[m]) \in Cidrs /\ Inst(nodes[m]) # NoInst THEN "find" ELSE "condFail"
             j == AddJob(m, nodes[m])
  <2>1. pc' = [pc EXCEPT !["worker"] = l] /\ job' = [job EXCEPT !["worker"] = j]
    BY <1>7 DEF ReconcileNode, Goto
  <2>2. j.node = m /\ j.cidr = Cidr(nodes[m]) /\ j.inst = Inst(nodes[m])
    BY DEF AddJob
  <2>3. Meant(<<m, Cidr(nodes[m]), Inst(nodes[m])>>, n, c, i)
    BY <1>7 DEF ReconcileNode, SettledAs, Stands, NodesAgree
  <2>4. l \in {"find", "condFail"} /\ (m = n => l = "find")
    BY DEF SettledAs, Stands, WantsRoute
  <2>5. UNCHANGED nodeCache
    BY <1>7 DEF ReconcileNode, Take
  <2> HIDE DEF l, j
  <2>6. JobFits("worker", l, j, n, c, i)
    BY <2>2, <2>3, <2>4 DEF JobFits, Adding, Removing, Doubtful
  <2> QED
    BY <1>3, <1>4, <2>1, <2>5, <2>6
<1>8. CASE CachedRoute
  <2> DEFINE m == job["worker"].node
  <2>1. m \in Nodes \ {n} /\ UNCHANGED nodeCache
    BY <1>8 DEF CachedRoute, WorksOnNode, SettledAs, Minds, JobFits, Doubtful, Procs
  <2>2. CASE nodeCache[m] = NoCidr
    <3>1. pc' = [pc EXCEPT !["worker"] = Rest("worker")] /\ job' = [job EXCEPT !["worker"] = NoJob]
      BY <1>8, <2>2 DEF CachedRoute, Finish, Goto
    <3> QED
      BY <1>3, <1>4, <2>1, <3>1, RestFits
  <2>3. CASE nodeCache[m] # NoCidr
    <3>1. /\ pc' = [pc EXCEPT !["worker"] = "delete"]
          /\ job' = [job EXCEPT !["worker"] = DeleteJob(m, nodeCache[m])]
      BY <1>8, <2>3 DEF CachedRoute, Goto, TypeOK, Procs
    <3>2. nodeCache[m] # c
      BY <2>1 DEF SettledAs, Minds, NotRemembered
    <3>3. JobFits("worker", "delete", DeleteJob(m, nodeCache[m]), n, c, i)
      BY <3>2 DEF JobFits, DeleteJob, Adding, Doubtful
    <3> QED
      BY <1>3, <1>4, <2>1, <3>1, <3>3
  <2> QED
    BY <2>2, <2>3
<1>9. CASE Forget
  <2>1. pc' = [pc EXCEPT !["worker"] = Rest("worker")] /\ job' = [job EXCEPT !["worker"] = NoJob]
    BY <1>9 DEF Forget, Finish, Goto
  <2>2. \A m \in Nodes : nodeCache'[m] \in {nodeCache[m], NoCidr}
    BY <1>9 DEF Forget, TypeOK
  <2>3. c # NoCidr
    BY SettledTypes
  <2>4. NotRemembered(n, c)'
    BY <2>2, <2>3 DEF SettledAs, Minds, NotRemembered
  <2> QED
    BY <1>3, <2>1, <2>4, RestFits
<1> QED
  BY <1>5, <1>6, <1>7, <1>8, <1>9 DEF Reconcile

(* The route of a settled node does not conflict with the nodes that the sync lists. *)
LEMMA SettledNoConflict ==
  ASSUME TypeOK, NEW n \in Nodes, NEW c, NEW i, SettledAs(n, c, i)
  PROVE  ~ConflictWithNodes(c, cloud[c], nodeSnap)
<1> SUFFICES ASSUME ConflictWithNodes(c, cloud[c], nodeSnap)
             PROVE  FALSE
  OBVIOUS
<1>1. cloud[c] = i /\ Shares(c, c)
  BY SettledTypes
<1>2. PICK m \in Nodes :
        /\ nodeSnap[m] # Absent
        /\ \/ <<c, Cidr(nodeSnap[m])>> \in Inside
           \/ Cidr(nodeSnap[m]) = c /\ cloud[c] # Inst(nodeSnap[m])
  BY DEF ConflictWithNodes, TypeOK, IsNodeTable, Cidr, Inst
<1>3. Meant(<<m, Cidr(nodeSnap[m]), Inst(nodeSnap[m])>>, n, c, i)
  BY <1>2 DEF SettledAs, Minds, ListAgrees
<1>4. CASE <<c, Cidr(nodeSnap[m])>> \in Inside
  <2>1. Shares(Cidr(nodeSnap[m]), c) /\ Cidr(nodeSnap[m]) # c
    BY <1>4, InsideShares
  <2> QED
    BY <1>3, <2>1 DEF Meant
<1>5. CASE Cidr(nodeSnap[m]) = c /\ cloud[c] # Inst(nodeSnap[m])
  BY <1>1, <1>3, <1>5 DEF Meant
<1> QED
  BY <1>2, <1>4, <1>5

(* The sync lists, deletes and goes through its nodes. *)
LEMMA ReconcileForClusterSettled ==
  ASSUME TypeOK, NEW n \in Nodes, NEW c, NEW i, SettledAs(n, c, i), ReconcileForCluster
  PROVE  SettledAs(n, c, i)'
<1>1. UNCHANGED <<nodes, cloud, nodeCache>>
  BY DEF ReconcileForCluster, NodeList, ListRoutes, SyncDone, SyncDelete, SyncNode, world
<1>2. Stands(n, c, i)' /\ Leads(c, i)' /\ NotRemembered(n, c)'
  BY <1>1, NodesStand DEF SettledAs, Minds, Leads, NotRemembered
<1>3. ListAgrees(n, c, i) /\ c \notin todoRoutes /\ NodesAgree(n, c, i)
  BY DEF SettledAs, Minds, Stands
<1>4. ASSUME NEW l, pc' = [pc EXCEPT !["sync"] = l], \A q \in Procs \ {"sync"} : job'[q] = job[q],
             ListAgrees(n, c, i)', c \notin todoRoutes', JobFits("sync", l, job'["sync"], n, c, i)
      PROVE  SettledAs(n, c, i)'
  BY <1>2, <1>4, SettledByMove DEF Procs
<1>5. \A l \in {"idle", "list", "pass"} : \A j : JobFits("sync", l, j, n, c, i)
  BY DEF JobFits, Adding, Removing, Doubtful
<1>6. ASSUME \A m \in Nodes : nodeSnap'[m] \in {nodeSnap[m], Absent}
      PROVE  ListAgrees(n, c, i)'
  BY <1>3, <1>6 DEF ListAgrees
<1>7. CASE NodeList
  <2>1. \A m \in Nodes : nodeSnap'[m] \in {nodes[m], Absent}
    BY <1>7 DEF NodeList
  <2>2. ListAgrees(n, c, i)'
    BY <1>3, <2>1 DEF NodesAgree, ListAgrees
  <2> QED
    BY <1>3, <1>4, <1>5, <1>7, <2>2 DEF NodeList, Goto
<1>8. CASE ListRoutes
  <2>1. \A m \in Nodes : nodeSnap'[m] \in {nodeSnap[m], Absent}
    BY <1>8 DEF ListRoutes, NoNodes
  <2>2. c \notin todoRoutes'
    BY <1>3, <1>8, SettledNoConflict DEF ListRoutes
  <2>3. UNCHANGED job /\ \E l \in {"idle", "pass"} : pc' = [pc EXCEPT !["sync"] = l]
    BY <1>8 DEF ListRoutes, Goto
  <2> QED
    BY <1>4, <1>5, <1>6, <2>1, <2>2, <2>3
<1>9. CASE SyncDone
  BY <1>3, <1>4, <1>5, <1>6, <1>9 DEF SyncDone, Goto
<1>10. ASSUME NEW d \in Cidrs, SyncDelete(d)
       PROVE  SettledAs(n, c, i)'
  <2>1. /\ d # c /\ c \notin todoRoutes' /\ UNCHANGED nodeSnap
        /\ pc' = [pc EXCEPT !["sync"] = "delete"]
        /\ job' = [job EXCEPT !["sync"] = DeleteJob(NoNode, d)]
    BY <1>3, <1>10 DEF SyncDelete, Goto
  <2>2. job'["sync"] = DeleteJob(NoNode, d) /\ \A q \in Procs \ {"sync"} : job'[q] = job[q]
    BY <2>1 DEF TypeOK, Procs
  <2>3. JobFits("sync", "delete", job'["sync"], n, c, i)
    BY <2>1, <2>2 DEF JobFits, DeleteJob, Adding, Doubtful
  <2> QED
    BY <1>4, <1>6, <2>1, <2>2, <2>3
<1>11. ASSUME NEW m \in Nodes, SyncNode(m)
       PROVE  SettledAs(n, c, i)'
  <2>1. /\ nodeSnap[m] # Absent /\ UNCHANGED todoRoutes
        /\ pc' = [pc EXCEPT !["sync"] = "find"]
        /\ job' = [job EXCEPT !["sync"] = AddJob(m, nodeSnap[m])]
    BY <1>11 DEF SyncNode, Goto
  <2>2. job'["sync"] = AddJob(m, nodeSnap[m]) /\ \A q \in Procs \ {"sync"} : job'[q] = job[q]
    BY <2>1 DEF TypeOK, Procs
  <2>3. \A k \in Nodes : nodeSnap'[k] \in {nodeSnap[k], Absent}
    BY <1>11 DEF SyncNode, TypeOK, IsNodeTable
  <2>4. Meant(<<m, Cidr(nodeSnap[m]), Inst(nodeSnap[m])>>, n, c, i)
    BY <1>3, <2>1 DEF ListAgrees
  <2>5. JobFits("sync", "find", job'["sync"], n, c, i)
    BY <2>2, <2>4 DEF JobFits, AddJob, Removing, Doubtful
  <2> QED
    BY <1>3, <1>4, <1>6, <2>1, <2>2, <2>3, <2>5
<1> QED
  BY <1>7, <1>8, <1>9, <1>10, <1>11 DEF ReconcileForCluster
(* A process goes on with its node and its route. *)
LEMMA SettledByContinue ==
  ASSUME TypeOK, NEW n \in Nodes, NEW c, NEW i, SettledAs(n, c, i), NEW p \in Procs,
         NEW l, pc' = [pc EXCEPT ![p] = l], UNCHANGED <<nodes, nodeSnap, todoRoutes>>,
         \A q \in Procs \ {p} : job'[q] = job[q],
         job'[p].node = job[p].node, job'[p].cidr = job[p].cidr,
         l \in Adding => pc[p] \in Adding /\ job'[p].inst = job[p].inst,
         l \in Removing => pc[p] \in Removing,
         l \in Doubtful /\ p = "worker" => job[p].node # n,
         Leads(c, i)', NotRemembered(n, c)'
  PROVE  SettledAs(n, c, i)'
<1>1. Stands(n, c, i)' /\ ListAgrees(n, c, i)' /\ c \notin todoRoutes'
  BY NodesStand DEF SettledAs, Minds, ListAgrees
<1>2. JobFits(p, pc[p], job[p], n, c, i)
  BY DEF SettledAs, Minds
<1>3. JobFits(p, l, job'[p], n, c, i)
  BY <1>2 DEF JobFits
<1> QED
  BY <1>1, <1>3, SettledByMove

(* A process comes to rest. *)
LEMMA SettledByFinish ==
  ASSUME TypeOK, NEW n \in Nodes, NEW c, NEW i, SettledAs(n, c, i), NEW p \in Procs,
         Finish(p), UNCHANGED <<nodeSnap, todoRoutes>>,
         Stands(n, c, i)', Leads(c, i)', NotRemembered(n, c)'
  PROVE  SettledAs(n, c, i)'
<1>1. pc' = [pc EXCEPT ![p] = Rest(p)] /\ \A q \in Procs \ {p} : job'[q] = job[q]
  BY DEF Finish, Goto, TypeOK
<1>2. ListAgrees(n, c, i)' /\ c \notin todoRoutes'
  BY DEF SettledAs, Minds, ListAgrees
<1>3. JobFits(p, Rest(p), job'[p], n, c, i)
  BY RestFits
<1> QED
  BY <1>1, <1>2, <1>3, SettledByMove

(* An attempt to add a route fails: not the worker's, for the settled node. *)
LEMMA SettledByFailure ==
  ASSUME TypeOK, NEW n \in Nodes, NEW c, NEW i, SettledAs(n, c, i), NEW p \in Procs,
         AddFailed(p), pc[p] \in Doubtful, UNCHANGED <<nodes, nodeCache, nodeSnap, todoRoutes>>,
         Leads(c, i)'
  PROVE  SettledAs(n, c, i)'
<1>1. Stands(n, c, i)' /\ NotRemembered(n, c)'
  BY NodesStand DEF SettledAs, Minds, NotRemembered
<1>2. CASE p = "worker"
  <2>1. job[p].node # n
    BY <1>2 DEF SettledAs, Minds, JobFits
  <2>2. pc' = [pc EXCEPT ![p] = "condFail"] /\ UNCHANGED job
    BY <1>2 DEF AddFailed, Continue, Goto
  <2> QED
    BY <1>1, <2>1, <2>2, SettledByContinue DEF Adding, Removing
<1>3. CASE p # "worker"
  BY <1>1, <1>3, SettledByFinish DEF AddFailed
<1> QED
  BY <1>2, <1>3

(* The patch of a condition: the node's own says that it has its route. *)
LEMMA ConditionSettled ==
  ASSUME TypeOK, SyncIsSilent, NEW n \in Nodes, NEW c, NEW i, SettledAs(n, c, i),
         NEW p \in Procs, RouteCondition(p), nodes'[n] # Absent
  PROVE  SettledAs(n, c, i)'
<1> DEFINE m == job[p].node
<1>1. PICK w \in NetStates :
        /\ \/ UNCHANGED nodes
           \/ nodes[m] # Absent /\ nodes' = [nodes EXCEPT ![m] = [nodes[m] EXCEPT !.net = w]]
        /\ \/ pc[p] = "condOk" /\ w = "ok"
           \/ pc[p] = "condFail" /\ w = "down"
        /\ Finish(p) /\ UNCHANGED <<cloud, nodeCache, nodeSnap, todoRoutes>>
  BY DEF RouteCondition, SetCondition, SetNode, NetStates, local
<1>2. m = n => w = "ok"
  BY <1>1 DEF SettledAs, Minds, JobFits, Doubtful, SyncIsSilent, Procs
<1>3. Leads(c, i)' /\ NotRemembered(n, c)'
  BY <1>1 DEF SettledAs, Minds, Leads, NotRemembered
<1>4. Stands(n, c, i)'
  <2>1. CASE UNCHANGED nodes
    BY <2>1, NodesStand DEF SettledAs
  <2>2. CASE m \in Nodes /\ nodes[m] # Absent
             /\ nodes' = [nodes EXCEPT ![m] = [nodes[m] EXCEPT !.net = w]]
    <3>1. IsNode(nodes[m])
      BY <2>2 DEF TypeOK, IsNodeTable
    <3>2. PICK o : o = [nodes[m] EXCEPT !.net = w]
      OBVIOUS
    <3>3. IsNode(o) /\ o = [spec |-> nodes[m].spec, uid |-> nodes[m].uid, net |-> w]
      BY <3>1, <3>2, NodeWithNet
    <3>4. o.spec = nodes[m].spec /\ o.net = w
      BY <3>3
    <3>5. nodes' = [nodes EXCEPT ![m] = o]
      BY <2>2, <3>2
    <3>6. nodes'[m] = o /\ \A k \in Nodes \ {m} : nodes'[k] = nodes[k]
      BY <2>2, <3>5 DEF TypeOK, IsNodeTable
    <3> HIDE DEF m
    <3>7. \A k \in Nodes :
            nodes'[k] # Absent => /\ nodes[k] # Absent
                                  /\ Cidr(nodes'[k]) = Cidr(nodes[k])
                                  /\ Inst(nodes'[k]) = Inst(nodes[k])
      BY <2>2, <3>4, <3>6 DEF Cidr, Inst
    <3>8. \A k \in Nodes : nodes'[k] # Absent =>
            Meant(<<k, Cidr(nodes'[k]), Inst(nodes'[k])>>, n, c, i)
      BY <3>7 DEF SettledAs, Stands, NodesAgree
    <3>9. NodesAgree(n, c, i)'
      BY <3>8 DEF NodesAgree, Meant, Shares
    <3>10. nodes'[n] # Absent /\ nodes'[n].spec = nodes[n].spec /\ nodes'[n].net = "ok"
      <4>1. CASE m = n
        BY <1>2, <3>4, <3>6, <4>1
      <4>2. CASE m # n
        BY <3>6, <4>2 DEF SettledAs, Stands
      <4> QED
        BY <4>1, <4>2
    <3> QED
      BY <3>9, <3>10 DEF SettledAs, Stands, WantsRoute, Cidr, Inst
  <2>3. CASE m \notin Nodes
    BY <1>1, <2>3, NodesStand DEF SettledAs, TypeOK, IsNodeTable
  <2> QED
    BY <1>1, <2>1, <2>2, <2>3
<1> QED
  BY <1>1, <1>3, <1>4, SettledByFinish

(* The calls of a process. *)
LEMMA CallSettled ==
  ASSUME TypeOK, SyncIsSilent, NEW n \in Nodes, NEW c, NEW i, SettledAs(n, c, i),
         NEW p \in Procs, Lock(p) \/ Call(p), nodes'[n] # Absent
  PROVE  SettledAs(n, c, i)'
<1>1. /\ c \in Cidrs /\ c # NoCidr /\ i # NoRoute /\ cloud[c] = i /\ Shares(c, c)
      /\ Leads(c, i) /\ NotRemembered(n, c) /\ Stands(n, c, i)
      /\ JobFits(p, pc[p], job[p], n, c, i)
  BY SettledTypes DEF SettledAs, Minds
<1>2. ASSUME UNCHANGED cloud
      PROVE  Leads(c, i)'
  BY <1>1, <1>2 DEF Leads
<1>3. ASSUME \A m \in Nodes : nodeCache'[m] \in {nodeCache[m], NoCidr}
      PROVE  NotRemembered(n, c)'
  BY <1>1, <1>3 DEF NotRemembered
<1>4. ASSUME NEW l, Continue(p, l), UNCHANGED <<nodes, nodeCache, nodeSnap, todoRoutes>>, Leads(c, i)',
             l \in Adding => pc[p] \in Adding, l \in Removing => pc[p] \in Removing,
             l \in Doubtful /\ p = "worker" => job[p].node # n
      PROVE  SettledAs(n, c, i)'
  BY <1>3, <1>4, SettledByContinue DEF Continue, Goto
<1>5. ASSUME Finish(p), UNCHANGED <<nodes, nodeSnap, todoRoutes>>, Leads(c, i)',
             \A m \in Nodes : nodeCache'[m] \in {nodeCache[m], NoCidr}
      PROVE  SettledAs(n, c, i)'
  BY <1>1, <1>3, <1>5, NodesStand, SettledByFinish
<1>6. pc[p] \in Doubtful /\ p = "worker" => job[p].node # n
  BY <1>1 DEF JobFits
<1>7. CASE Lock(p)
  <2>1. UNCHANGED <<nodes, cloud, nodeCache, nodeSnap, todoRoutes>>
    BY <1>7 DEF Lock, world, local
  <2>2. CASE pc[p] = "create" /\ Continue(p, "creating")
    BY <1>2, <1>4, <1>6, <2>1, <2>2 DEF Adding, Removing, Doubtful
  <2>3. CASE pc[p] = "delete" /\ Continue(p, "deleteFind")
    BY <1>2, <1>4, <2>1, <2>3 DEF Adding, Removing, Doubtful
  <2> QED
    BY <1>7, <2>2, <2>3 DEF Lock
<1>8. CASE FindRoute(p)
  <2>1. pc[p] = "find" /\ UNCHANGED <<nodes, cloud, nodeCache, nodeSnap, todoRoutes>>
    BY <1>8 DEF FindRoute, world, local
  <2>2. CASE Continue(p, "store") \/ Continue(p, "condOk")
    BY <1>2, <1>4, <2>1, <2>2 DEF Adding, Removing, Doubtful
  <2>3. CASE Continue(p, "create") /\ (p = "worker" => cloud[job[p].cidr] = NoRoute)
    <3>1. p = "worker" => job[p].node # n
      <4>1. Meant(<<job[p].node, job[p].cidr, job[p].inst>>, n, c, i)
        BY <1>1, <2>1 DEF JobFits, Adding
      <4> QED
        BY <1>1, <2>3, <4>1 DEF Meant
    <3> QED
      BY <1>2, <1>4, <2>1, <2>3, <3>1 DEF Adding, Removing
  <2>4. \/ Continue(p, "store") \/ Continue(p, "condOk")
        \/ Continue(p, "create") /\ (p = "worker" => cloud[job[p].cidr] = NoRoute)
    BY <1>8 DEF FindRoute
  <2> QED
    BY <2>2, <2>3, <2>4
<1>9. CASE Store(p)
  <2>1. /\ pc[p] = "store" /\ UNCHANGED <<nodes, cloud, job, nodeSnap, todoRoutes>>
        /\ pc' = [pc EXCEPT ![p] = "condOk"]
    BY <1>9 DEF Store, Continue, Goto, world, local
  <2>2. Meant(<<job[p].node, job[p].cidr, job[p].inst>>, n, c, i)
    BY <1>1, <2>1 DEF JobFits, Adding
  <2>3. \A m \in Nodes : nodeCache'[m] = nodeCache[m] \/ (m = job[p].node /\ nodeCache'[m] = job[p].cidr)
    BY <1>9 DEF Store, TypeOK
  <2>4. NotRemembered(n, c)'
    BY <1>1, <2>2, <2>3 DEF NotRemembered, Meant
  <2> QED
    BY <1>2, <2>1, <2>4, SettledByContinue DEF Adding, Removing, Doubtful
<1>10. CASE CreateRoute(p)
  <2>1. pc[p] = "creating" /\ UNCHANGED <<nodes, nodeCache, nodeSnap, todoRoutes>>
    BY <1>10 DEF CreateRoute, world, local
  <2>2. Leads(c, i)'
    <3>1. \/ UNCHANGED cloud
          \/ cloud[job[p].cidr] = NoRoute /\ cloud' = [cloud EXCEPT ![job[p].cidr] = job[p].inst]
      BY <1>10 DEF CreateRoute
    <3> QED
      BY <1>2, <2>1, <3>1, LeadsWithRoute DEF Adding
  <2>3. CASE AddFailed(p)
    BY <2>1, <2>2, <2>3, SettledByFailure DEF Doubtful
  <2>4. CASE \E l \in {"confirm", "same"} : Continue(p, l)
    BY <1>4, <1>6, <2>1, <2>2, <2>4 DEF Adding, Removing, Doubtful
  <2>5. CASE job' = [job EXCEPT ![p].tries = job[p].tries + 1] /\ TriesLeft(job[p]) /\ UNCHANGED pc
    <3>1. PICK j : j = [job[p] EXCEPT !.tries = job[p].tries + 1]
      OBVIOUS
    <3>2. IsJob(job[p]) /\ NoInst \in Hops /\ job[p].tries + 1 \in 0 .. MaxTries - 1
      BY <2>5, ControllerAssumption DEF TypeOK, IsJob, TriesLeft, Hops
    <3>3. j = [node |-> job[p].node, cidr |-> job[p].cidr, inst |-> job[p].inst,
               net |-> job[p].net, tries |-> job[p].tries + 1]
      BY <3>1, <3>2, JobWith
    <3>4. job' = [job EXCEPT ![p] = j]
      BY <2>5, <3>1
    <3>5. /\ job'[p].node = job[p].node /\ job'[p].cidr = job[p].cidr /\ job'[p].inst = job[p].inst
          /\ \A q \in Procs \ {p} : job'[q] = job[q]
      BY <3>3, <3>4 DEF TypeOK
    <3>6. pc' = [pc EXCEPT ![p] = "creating"]
      BY <2>1, <2>5 DEF TypeOK
    <3>7. NotRemembered(n, c)'
      BY <1>3, <2>1
    <3> QED
      BY <1>6, <2>1, <2>2, <3>5, <3>6, <3>7, SettledByContinue DEF Adding, Removing, Doubtful
  <2> QED
    BY <1>10, <2>3, <2>4, <2>5 DEF CreateRoute
<1>11. CASE CreatePanics(p)
  <2>1. Leads(c, i)'
    BY <1>11, LeadsWithRoute DEF CreatePanics, Adding
  <2>2. CASE ProcessEnds
    BY <2>1, <2>2, SettledByEnd
  <2>3. CASE Finish(p) /\ UNCHANGED <<nodes, nodeCache, nodeSnap, todoRoutes>>
    BY <1>5, <2>1, <2>3
  <2> QED
    BY <1>11, <2>2, <2>3 DEF CreatePanics, world, local
<1>12. CASE FindSame(p)
  <2>1. pc[p] = "same" /\ UNCHANGED <<nodes, cloud, nodeCache, nodeSnap, todoRoutes>>
    BY <1>12 DEF FindSame, world, local
  <2>2. CASE AddFailed(p)
    BY <1>2, <2>1, <2>2, SettledByFailure DEF Doubtful
  <2>3. CASE Continue(p, "store")
    BY <1>2, <1>4, <2>1, <2>3 DEF Adding, Removing, Doubtful
  <2> QED
    BY <1>12, <2>2, <2>3 DEF FindSame
<1>13. CASE FindCreated(p)
  <2>1. pc[p] = "confirm" /\ UNCHANGED <<nodes, cloud, nodeCache, nodeSnap, todoRoutes>>
    BY <1>13 DEF FindCreated, world, local
  <2>2. Continue(p, "store") \/ Continue(p, "condOk")
    BY <1>13 DEF FindCreated
  <2> QED
    BY <1>2, <1>4, <2>1, <2>2 DEF Adding, Removing, Doubtful
<1>14. CASE RouteCondition(p)
  BY <1>14, ConditionSettled
<1>15. ASSUME Deleted(p) \/ DeleteFailed(p), UNCHANGED <<nodes, nodeSnap, todoRoutes>>, Leads(c, i)'
       PROVE  SettledAs(n, c, i)'
  <2>1. UNCHANGED nodeCache /\ (Finish(p) \/ Continue(p, "forget"))
    BY <1>15 DEF Deleted, DeleteFailed
  <2>2. CASE Finish(p)
    BY <1>5, <1>15, <2>1, <2>2
  <2>3. CASE Continue(p, "forget")
    BY <1>4, <1>15, <2>1, <2>3 DEF Adding, Removing, Doubtful
  <2> QED
    BY <2>1, <2>2, <2>3
<1>16. CASE DeleteFind(p)
  <2>1. pc[p] = "deleteFind" /\ UNCHANGED <<nodes, cloud, nodeSnap, todoRoutes>>
    BY <1>16 DEF DeleteFind, world, local
  <2>2. CASE Deleted(p) \/ DeleteFailed(p)
    BY <1>2, <1>15, <2>1, <2>2
  <2>3. CASE /\ Goto(p, "deleting") /\ UNCHANGED nodeCache
             /\ job' = [job EXCEPT ![p].inst = cloud[job[p].cidr]]
    <3>1. PICK j : j = [job[p] EXCEPT !.inst = cloud[job[p].cidr]]
      OBVIOUS
    <3>2. j.node = job[p].node /\ j.cidr = job[p].cidr
      BY <3>1 DEF TypeOK, IsJob
    <3>3. job'[p] = j /\ \A q \in Procs \ {p} : job'[q] = job[q]
      BY <2>3, <3>1 DEF TypeOK
    <3>4. NotRemembered(n, c)' /\ Leads(c, i)'
      BY <1>2, <1>3, <2>1, <2>3
    <3> QED
      BY <2>1, <2>3, <3>2, <3>3, <3>4, SettledByContinue DEF Goto, Adding, Removing, Doubtful
  <2> QED
    BY <1>16, <2>2, <2>3 DEF DeleteFind
<1>17. CASE DeleteRoute(p)
  <2>1. pc[p] = "deleting" /\ UNCHANGED <<nodes, nodeSnap, todoRoutes>>
    BY <1>17 DEF DeleteRoute, world, local
  <2>2. UNCHANGED cloud \/ cloud' = [cloud EXCEPT ![job[p].cidr] = NoRoute]
    BY <1>17 DEF DeleteRoute
  <2>3. Leads(c, i)'
    BY <1>2, <2>1, <2>2, LeadsWithout DEF Removing
  <2> QED
    BY <1>15, <1>17, <2>1, <2>3 DEF DeleteRoute
<1> QED
  BY <1>7, <1>8, <1>9, <1>10, <1>11, <1>12, <1>13, <1>14, <1>16, <1>17 DEF Call

(* Every step that leaves the node as it is and nothing in its way. *)
LEMMA SettledStep ==
  ASSUME TypeOK, WorksOnNode, SyncIsSilent, [Next]_vars, NEW n \in Nodes, Settled(n),
         budget'["foreign"] = budget["foreign"], nodes'[n] # Absent,
         nodes'[n].spec = nodes[n].spec, nodes'[n].uid = nodes[n].uid,
         \A m \in Present(nodes') \ {n} : ~Shares(Cidr(nodes'[m]), Cidr(nodes[n]))
  PROVE  Settled(n)'
<1> PICK c, i : c = Cidr(nodes[n]) /\ i = Inst(nodes[n])
  OBVIOUS
<1>1. SettledAs(n, c, i)
  BY SettledParts
<1>2. nodes[n] # Absent /\ \A m \in Nodes \ {n} : nodes'[m] # Absent => ~Shares(Cidr(nodes'[m]), c)
  BY DEF Settled, Present
<1>3. SettledAs(n, c, i)'
  <2>1. ASSUME NEW m \in Nodes, NodeAdded(m) \/ NodeUpdated(m) \/ NodeReplaced(m) \/ NodeRemoved(m)
        PROVE  SettledAs(n, c, i)'
    <3>1. m # n
      BY <1>2, <2>1, OwnEventShows
    <3>2. PICK o, w : NodeEvent(m, o, w)
      BY <2>1 DEF NodeAdded, NodeUpdated, NodeReplaced, NodeRemoved
    <3>3. nodes'[m] = o
      BY <3>2 DEF NodeEvent, SetNode, TypeOK, IsNodeTable
    <3> QED
      BY <1>1, <1>2, <3>1, <3>2, <3>3, SettledByEvent
  <2>2. ASSUME NEW d \in Cidrs, ForeignChange(d)
        PROVE  FALSE
    BY <2>2 DEF ForeignChange, Spend, TypeOK, BudgetKeys
  <2>3. CASE Crash
    <3>1. Leads(c, i)'
      BY <1>1, <2>3 DEF Crash, SettledAs, Leads
    <3> QED
      BY <1>1, <2>3, <3>1, SettledByEnd DEF Crash
  <2>4. CASE Start \/ (\E m \in Nodes : RetryDue(m)) \/ UNCHANGED vars
    BY <1>1, <2>4, SettledByStanding DEF Start, RetryDue, vars, world, local
  <2> QED
    BY <1>1, <2>1, <2>2, <2>3, <2>4, ReconcileSettled, ReconcileForClusterSettled, CallSettled
    DEF Next, Cluster
<1>4. Cidr(nodes'[n]) = c /\ Inst(nodes'[n]) = i
  BY <1>3 DEF SettledAs, Stands
<1>5. Settled(n)' <=> SettledAs(n, Cidr(nodes[n]), Inst(nodes[n]))'
  BY SettledParts, PTL
<1> QED
  BY <1>3, <1>4, <1>5

(***************************************************************************)
(* Whatever fails and whenever the process ends, a settled node stays      *)
(* settled: see SettledStays.                                              *)
(***************************************************************************)
THEOREM SettledStaysSettled == Spec => SettledStays
<1> DEFINE Keeps == \A n \in Nodes :
       /\ Settled(n)
       /\ budget'["foreign"] = budget["foreign"]
       /\ nodes'[n] # Absent
       /\ nodes'[n].spec = nodes[n].spec /\ nodes'[n].uid = nodes[n].uid
       /\ \A m \in Present(nodes') \ {n} : ~Shares(Cidr(nodes'[m]), Cidr(nodes[n]))
       => Settled(n)'
<1>1. Init => IInv /\ SyncIsSilent
  BY KnowsInit, PlacesInit DEF Init, IInv, SyncIsSilent, Procs
<1>2. IInv /\ SyncIsSilent /\ [Next]_vars => (IInv /\ SyncIsSilent)' /\ [Keeps]_vars
  <2> SUFFICES ASSUME IInv, SyncIsSilent, [Next]_vars
               PROVE  (IInv /\ SyncIsSilent)' /\ Keeps
    OBVIOUS
  <2>1. TypeOK /\ WorksOnNode
    BY DEF IInv, KnowsClaims
  <2> QED
    BY <2>1, IInvStep, SilentStep, SettledStep
<1> QED
  BY <1>1, <1>2, PTL DEF Spec, Safety, SettledStays
=============================================================================
