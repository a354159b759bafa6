------------------------------- MODULE Traffic ------------------------------
(***************************************************************************)
(* What the routes are for: the way a packet takes.  The CIDRs of the      *)
(* route controller are nets here, one lies inside another when            *)
(* containsRoute says so, and the VPC sends an address along the route     *)
(* with the longest prefix that contains it.                               *)
(***************************************************************************)
EXTENDS RouteController, IPNet

ASSUME NetsAssumption ==
  /\ Cidrs \subseteq {n \in Nets : Network(n) = n}
  /\ Inside = {x \in Cidrs \X Cidrs : ContainsRoute(x[2], x[1]).contains}

(* The routes that contain an address, and where the longest of them lead. *)
Matching(routes, x) == {c \in Cidrs : routes[c] # NoRoute /\ HasIP(c, x)}

NextHops(routes, x) ==
  {routes[c] : c \in {d \in Matching(routes, x) :
                        \A e \in Matching(routes, x) : e.len <= d.len}}

(***************************************************************************)
(* The controller redirects no packet to an address outside the CIDRs of   *)
(* the nodes: neither a route it adds nor one it takes away as conflicting *)
(* changes where such an address leads.                                    *)
(***************************************************************************)
Claimed(x) == \E t \in claims : HasIP(t[2], x)

OtherTrafficStays ==
  [][/\ cloud' # cloud
     /\ budget'["foreign"] = budget["foreign"]
     => \A x \in IPs : Claimed(x) \/ NextHops(cloud', x) = NextHops(cloud, x)]_vars

(***************************************************************************)
(* Once the cluster is quiet every address of a node that wants a route    *)
(* and shares no address with another listed node leads to that node for   *)
(* good: its route is there and no more specific one diverts a part of it. *)
(***************************************************************************)
Unshared(n) ==
  /\ nodes[n] # Absent /\ WantsRoute(nodes[n])
  /\ \A m \in Nodes \ {n} :
       /\ nodes[m] # Absent /\ ~nodes[m].spec.excluded
       /\ Cidr(nodes[m]) \in Cidrs
       => ~Overlaps(Cidr(nodes[n]), Cidr(nodes[m]))

TrafficReachesNodes ==
  <>[](\A n \in Nodes : Unshared(n) =>
         \A x \in Addresses(Cidr(nodes[n])) : NextHops(cloud, x) = {Inst(nodes[n])})

(***************************************************************************)
(* A node that is settled: its route is there, no route inside it diverts  *)
(* a part of its addresses, its condition is False, and what the processes *)
(* know agrees: whoever is about to add a route for the node or to its     *)
(* addresses goes by what the node is, nobody is about to delete its route *)
(* or to remember it as another node's, and the worker, when it works on   *)
(* the node, has neither missed the route nor missed the node.             *)
(***************************************************************************)
Shown(t) == {<<m, Cidr(t[m]), Inst(t[m])>> : m \in Present(t)}

Wanted ==
  Shown(nodes) \cup Shown(nodeSnap)
    \cup {<<job[p].node, job[p].cidr, job[p].inst>> : p \in {q \in Procs : pc[q] \in Adding}}

Unwanted(n) ==
  todoRoutes \cup {job[p].cidr : p \in {q \in Procs : pc[q] \in Removing}}
             \cup {nodeCache[m] : m \in Nodes \ {n}}

Shares(d, c) == d \in Cidrs /\ Overlaps(d, c)

Settled(n) ==
  LET c == Cidr(nodes[n])
      i == Inst(nodes[n])
  IN
  /\ nodes[n] # Absent /\ nodes[n].net = "ok" /\ WantsRoute(nodes[n])
  /\ cloud[c] = i /\ \A d \in Cidrs : <<d, c>> \in Inside => cloud[d] = NoRoute
  /\ c \notin Unwanted(n)
  /\ \A t \in Wanted : t[1] = n \/ Shares(t[2], c) => t = <<n, c, i>>
  /\ job["worker"].node = n =>
       pc["worker"] \notin {"create", "creating", "same", "confirm", "condFail", "gone"}

(***************************************************************************)
(* Such a node stays so, whatever calls fail and wherever the process      *)
(* ends, until it changes itself, another node comes to share addresses    *)
(* with it, or someone else changes the VPC's routes.                      *)
(***************************************************************************)
SettledStays ==
  [][\A n \in Nodes :
       /\ Settled(n)
       /\ budget'["foreign"] = budget["foreign"]
       /\ nodes'[n] # Absent
       /\ nodes'[n].spec = nodes[n].spec /\ nodes'[n].uid = nodes[n].uid
       /\ \A m \in Present(nodes') \ {n} : ~Shares(Cidr(nodes'[m]), Cidr(nodes[n]))
       => Settled(n)']_vars
=============================================================================
