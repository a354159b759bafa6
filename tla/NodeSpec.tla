------------------------------ MODULE NodeSpec ------------------------------
(***************************************************************************)
(* What the route controller reads off a Node object: whether it wants a   *)
(* route, which CIDR the route is for, which VPC instance it leads to,     *)
(* whether a change of the object is worth a reconcile, and which routes   *)
(* of the VPC stand in the way of a set of nodes.  Everything here is a    *)
(* function of its arguments; RouteController.tla holds the state.         *)
(***************************************************************************)
EXTENDS Naturals, Sequences, FiniteSetsExt

CONSTANTS
  Cidrs,          \* the CIDRs of the instance, in net.IPNet's normal form
  V4Cidrs,        \* those whose mask is four bytes long
  Inside,         \* <<inner, outer>>: inner is a proper subnet of outer
  NoCidr,         \* the empty string as a pod CIDR
  BadCidr,        \* a pod CIDR that net.ParseCIDR rejects
  Instances,      \* VPC instance ids
  NoInst,         \* the empty string as an instance id
  Unset,          \* an annotation key that the node does not carry
  Absent,         \* in place of a node object: there is none
  FromAnnotation  \* Cfg.InstanceIdFrom == "annotation"

ASSUME CidrsAssumption ==
  /\ V4Cidrs \subseteq Cidrs
  /\ Inside \subseteq Cidrs \X Cidrs
  /\ \A c \in Cidrs : <<c, c>> \notin Inside
  /\ NoCidr \notin Cidrs /\ BadCidr \notin Cidrs /\ NoCidr # BadCidr

ASSUME InstancesAssumption ==
  /\ NoInst \notin Instances /\ Unset \notin Instances /\ Unset # NoInst
  /\ FromAnnotation \in BOOLEAN

(***************************************************************************)
(* The NodeNetworkUnavailable condition: no such condition, False (the     *)
(* network is available) and True.                                         *)
(***************************************************************************)
NetStates == {"unset", "ok", "down"}

PodCidrs    == Cidrs \cup {NoCidr, BadCidr}
Annotations == Instances \cup {NoInst, Unset}

(***************************************************************************)
(* The fields of a Node that the controller reads; a node object adds the  *)
(* identity of its incarnation and the network condition.                  *)
(***************************************************************************)
IsSpec(s) ==
  /\ s.podCIDRs \in Seq(PodCidrs) /\ s.podCIDR \in PodCidrs
  /\ s.kce1 \in Annotations /\ s.kce2 \in Annotations
  /\ s.provider \in Instances \cup {NoInst}
  /\ {s.excluded, s.unknown, s.deleting} \subseteq BOOLEAN

-----------------------------------------------------------------------------
(* needSyncRoute, with helper.HasExcludeLabel. *)
NeedSyncRoute(s) == ~s.excluded /\ ~s.unknown /\ ~s.deleting

(***************************************************************************)
(* getIPv4RouteForNode walks the PodCIDRs and then the PodCIDR: it stops   *)
(* at the first that does not parse (BadCidr stands for the error) and at  *)
(* the first of IPv4, and otherwise returns the last that is not empty.    *)
(***************************************************************************)
GetIPv4RouteForNode(s) ==
  LET cidrs == Append(s.podCIDRs, s.podCIDR)
      stops == {k \in DOMAIN cidrs : cidrs[k] \in V4Cidrs \cup {BadCidr}}
      named == {k \in DOMAIN cidrs : cidrs[k] # NoCidr}
  IN  CASE stops # {} -> cidrs[Min(stops)]
        [] stops = {} /\ named # {} -> cidrs[Max(named)]
        [] OTHER -> NoCidr

(* getNodeInstanceId: a present annotation wins even when it is empty. *)
GetNodeInstanceId(s) ==
  CASE s.kce1 # Unset -> s.kce1
    [] s.kce1 = Unset /\ s.kce2 # Unset -> s.kce2
    [] OTHER -> s.provider

(***************************************************************************)
(* conflictWithNodes, over containsRoute: the route from cidr to inst      *)
(* stands in the way of the listed nodes when it is a proper part of the   *)
(* CIDR of one of them, or is that CIDR and leads to another instance.     *)
(***************************************************************************)
MutConflictSupernet(cidr, inst, list) ==
  \E n \in DOMAIN list :
    /\ list[n] # Absent
    /\ LET own == GetIPv4RouteForNode(list[n].spec)
       IN  \/ <<own, cidr>> \in Inside
           \/ own = cidr /\ inst # GetNodeInstanceId(list[n].spec)

MutConflictNoInstance(cidr, inst, list) ==
  \E n \in DOMAIN list :
    /\ list[n] # Absent
    /\ <<cidr, GetIPv4RouteForNode(list[n].spec)>> \in Inside

MutConflictEqual(cidr, inst, list) ==
  \E n \in DOMAIN list :
    /\ list[n] # Absent
    /\ LET own == GetIPv4RouteForNode(list[n].spec)
       IN  <<cidr, own>> \in Inside \/ own = cidr

ConflictWithNodes(cidr, inst, list) ==
  \E n \in DOMAIN list :
    /\ list[n] # Absent
    /\ LET own == GetIPv4RouteForNode(list[n].spec)
       IN  \/ <<cidr, own>> \in Inside
           \/ own = cidr /\ inst # GetNodeInstanceId(list[n].spec)

(***************************************************************************)
(* predicateForNodeEvent.Update: the changes of a node object that reach   *)
(* the work queue.                                                         *)
(***************************************************************************)
HasAnnotation(s) == s.kce1 # Unset \/ s.kce2 # Unset

PredicateUpdate(old, new) ==
  /\ FromAnnotation => HasAnnotation(new.spec)
  /\ \/ /\ FromAnnotation
        /\ \/ old.spec.kce1 = Unset /\ new.spec.kce1 # Unset
           \/ old.spec.kce2 = Unset /\ new.spec.kce2 # Unset
     \/ old.uid # new.uid
     \/ old.spec.podCIDR # new.spec.podCIDR
     \/ old.spec.provider # new.spec.provider
     \/ old.spec.podCIDRs # new.spec.podCIDRs
=============================================================================
