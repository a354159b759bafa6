----------------------------- MODULE RouteTable -----------------------------
(***************************************************************************)
(* What the route controller promises about the VPC's route table: it adds *)
(* a route only where there is none, from a CIDR that a node had to the    *)
(* instance that node had at the same time, and it takes away only routes  *)
(* of, or inside, the CIDR of some node.  Routes of anyone else stay as    *)
(* they are, whatever fails and however the controller restarts.           *)
(***************************************************************************)
EXTENDS Naturals

CONSTANTS
  Names,      \* node names
  Cidrs,      \* the CIDRs of the VPC
  Inside,     \* <<inner, outer>>: inner is a proper subnet of outer
  Instances,  \* the instances a node can be
  NoInst,     \* in place of an instance: the node has none yet
  NoRoute     \* in place of a route's instance: there is no route

VARIABLES
  routes,  \* the route table: the instance each CIDR leads to
  claims,  \* the <<node, CIDR, instance>> that the cluster has shown
  foreign  \* how many changes by others are left

vars == <<routes, claims, foreign>>

Covered(c) == \E t \in claims : c = t[2] \/ <<c, t[2]>> \in Inside

Hops == Instances \cup {NoInst}

Init ==
  /\ routes \in [Cidrs -> Hops \cup {NoRoute}]
  /\ claims \subseteq Names \X Cidrs \X Hops
  /\ foreign \in Nat

Claim ==
  /\ \E more \in SUBSET (Names \X Cidrs \X Hops) : claims' = claims \cup more
  /\ UNCHANGED <<routes, foreign>>

Install ==
  /\ \E t \in claims :
       /\ routes[t[2]] = NoRoute /\ t[3] \in Instances
       /\ routes' = [routes EXCEPT ![t[2]] = t[3]]
  /\ UNCHANGED <<claims, foreign>>

Withdraw ==
  /\ \E c \in Cidrs :
       /\ routes[c] # NoRoute /\ Covered(c)
       /\ routes' = [routes EXCEPT ![c] = NoRoute]
  /\ UNCHANGED <<claims, foreign>>

Foreign ==
  /\ foreign > 0 /\ foreign' = foreign - 1
  /\ \E c \in Cidrs : \A d \in Cidrs \ {c} : routes'[d] = routes[d]
  /\ UNCHANGED claims

Next == Claim \/ Install \/ Withdraw \/ Foreign

Spec == Init /\ [][Next]_vars
=============================================================================
