--------------------------- MODULE NodeSpecProofs ---------------------------
(***************************************************************************)
(* What the functions of NodeSpec return, and what they cannot tell apart. *)
(***************************************************************************)
EXTENDS NodeSpec, WellFoundedInduction, TLAPS

-----------------------------------------------------------------------------
(* A set of positions has its first, and within a bound its last. *)
LEMMA MinIsLeast ==
  ASSUME NEW S \in SUBSET Nat, S # {}
  PROVE  Min(S) \in S /\ \A y \in S : Min(S) <= y
<1> DEFINE R == {ss \in Nat \X Nat : ss[1] < ss[2]}
<1>1. IsWellFoundedOn(R, Nat)
  BY NatLessThanWellFounded DEF OpToRel
<1>2. PICK x \in S : \A y \in S : ~(<<y, x>> \in R)
  <2> HIDE DEF R
  <2> QED
    BY <1>1, WFMin, Zenon
<1>3. \A y \in S : x <= y
  <2> TAKE y \in S
  <2>1. ~(<<y, x>> \in R)
    BY <1>2
  <2>2. x \in Nat /\ y \in Nat
    OBVIOUS
  <2> QED
    BY <2>1, <2>2
<1> QED
  BY <1>3 DEF Min

(* The greatest of a bounded set of positions is one of them. *)
LEMMA MaxIsIn ==
  ASSUME NEW k \in Nat, NEW S \in SUBSET (1 .. k), S # {}
  PROVE  Max(S) \in S
<1> DEFINE T == {k - x : x \in S}
<1>1. T \in SUBSET Nat
  OBVIOUS
<1>2. T # {}
  <2> PICK x \in S : TRUE
    OBVIOUS
  <2>1. k - x \in T
    OBVIOUS
  <2> QED
    BY <2>1
<1>3. Min(T) \in T /\ \A u \in T : Min(T) <= u
  <2> HIDE DEF T
  <2> QED
    BY <1>1, <1>2, MinIsLeast
<1>4. PICK x \in S : Min(T) = k - x
  BY <1>3
<1>5. \A y \in S : x >= y
  <2> TAKE y \in S
  <2>1. k - y \in T
    OBVIOUS
  <2>2. k - x <= k - y
    BY <1>3, <1>4, <2>1
  <2> QED
    BY <2>2
<1> QED
  BY <1>5 DEF Max

(***************************************************************************)
(* getIPv4RouteForNode returns one of the pod CIDRs of the node, nothing,  *)
(* or its error.                                                           *)
(***************************************************************************)
THEOREM CidrOfSpec ==
  ASSUME NEW s, IsSpec(s)
  PROVE  GetIPv4RouteForNode(s) \in PodCidrs
<1> DEFINE cidrs == Append(s.podCIDRs, s.podCIDR)
           stops == {k \in DOMAIN cidrs : cidrs[k] \in V4Cidrs \cup {BadCidr}}
           named == {k \in DOMAIN cidrs : cidrs[k] # NoCidr}
<1>1. cidrs \in Seq(PodCidrs) /\ Len(cidrs) \in Nat /\ DOMAIN cidrs = 1 .. Len(cidrs)
  BY DEF IsSpec
<1>2. \A k \in DOMAIN cidrs : cidrs[k] \in PodCidrs
  BY <1>1
<1>3. stops \in SUBSET Nat /\ named \in SUBSET (1 .. Len(cidrs)) /\ stops \subseteq DOMAIN cidrs
  BY <1>1
<1>4. CASE stops # {}
  <2>1. Min(stops) \in stops
    BY <1>3, <1>4, MinIsLeast
  <2>2. cidrs[Min(stops)] \in PodCidrs
    BY <2>1, <1>2, <1>3
  <2>3. GetIPv4RouteForNode(s) = cidrs[Min(stops)]
    BY <1>4 DEF GetIPv4RouteForNode
  <2> QED
    BY <2>2, <2>3
<1>5. CASE stops = {} /\ named # {}
  <2>1. Max(named) \in named
    BY <1>1, <1>3, <1>5, MaxIsIn
  <2>2. cidrs[Max(named)] \in PodCidrs
    BY <2>1, <1>2
  <2>3. GetIPv4RouteForNode(s) = cidrs[Max(named)]
    BY <1>5 DEF GetIPv4RouteForNode
  <2> QED
    BY <2>2, <2>3
<1>6. CASE stops = {} /\ named = {}
  <2>1. GetIPv4RouteForNode(s) = NoCidr
    BY <1>6 DEF GetIPv4RouteForNode
  <2> QED
    BY <2>1 DEF PodCidrs
<1> QED
  BY <1>4, <1>5, <1>6

(* getNodeInstanceId returns an instance id or the empty string. *)
THEOREM InstanceOfSpec ==
  ASSUME NEW s, IsSpec(s)
  PROVE  GetNodeInstanceId(s) \in Instances \cup {NoInst}
BY InstancesAssumption DEF IsSpec, Annotations, GetNodeInstanceId

(***************************************************************************)
(* A patch of the network condition alone is a change that the predicate   *)
(* keeps from the work queue: the controller never wakes itself up.        *)
(***************************************************************************)
THEOREM ConditionPatchIsSilent ==
  ASSUME NEW s, NEW u, NEW w, NEW x
  PROVE  ~PredicateUpdate([spec |-> s, uid |-> u, net |-> w],
                          [spec |-> s, uid |-> u, net |-> x])
BY DEF PredicateUpdate

(***************************************************************************)
(* A route in conflict with a list of nodes is the route of the CIDR of    *)
(* one of them, or lies inside it.                                         *)
(***************************************************************************)
THEOREM ConflictLiesInNode ==
  ASSUME NEW c, NEW i, NEW list, ConflictWithNodes(c, i, list)
  PROVE  \E n \in DOMAIN list :
           /\ list[n] # Absent
           /\ LET own == GetIPv4RouteForNode(list[n].spec)
              IN  c = own \/ <<c, own>> \in Inside
BY DEF ConflictWithNodes
=============================================================================
