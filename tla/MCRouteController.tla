------------------------- MODULE MCRouteController --------------------------
(***************************************************************************)
(* Two nodes whose CIDRs lie side by side, overlap or coincide, two VPC    *)
(* instances, and the states a node goes through: without a CIDR, ready,   *)
(* unreachable, excluded, replaced.                                        *)
(***************************************************************************)
EXTENDS Traffic

CONSTANTS n1, n2, i1, i2

MCNodes     == {n1, n2}
MCInstances == {i1, i2}

(* Addresses of three bits: a subnet of all, its halves' parts, nested and apart. *)
S  == [ip |-> 0, len |-> 1]
A  == [ip |-> 0, len |-> 2]
A1 == [ip |-> 0, len |-> 3]
B  == [ip |-> 4, len |-> 2]

MCCidrs     == {S, A, A1, B}
MCInside    == {x \in Cidrs \X Cidrs : ContainsRoute(x[2], x[1]).contains}

(* What IP4Net computes, by the addresses of the nets, for every net of three bits. *)
ASSUME OverlapIsShared ==
  \A m, n \in Nets : Overlaps(m, n) <=> Addresses(m) \cap Addresses(n) # {}

ASSUME NextIsAdjacent ==
  \A n \in Nets :
    Addresses(NextNet(n)) = {(x + Size(n)) % 2 ^ Bits : x \in Addresses(n)}

Node(cidr, inst) ==
  [podCIDRs |-> <<cidr>>, podCIDR |-> cidr, kce1 |-> inst, kce2 |-> Unset,
   provider |-> NoInst, excluded |-> FALSE, unknown |-> FALSE, deleting |-> FALSE]

Born(s)     == [spec |-> s, uid |-> 0, net |-> "unset"]
Excluded(s) == [s EXCEPT !.excluded = TRUE]
Unknown(s)  == [s EXCEPT !.unknown = TRUE]

Routes(c1, r1, c2, r2) ==
  [c \in Cidrs |-> CASE c = c1 -> r1 [] c = c2 /\ c # c1 -> r2 [] OTHER -> NoRoute]

Budget(churn, fault, crash, foreign) ==
  [k \in BudgetKeys |-> CASE k = "churn" -> churn [] k = "fault" -> fault
                          [] k = "crash" -> crash [] k = "foreign" -> foreign]

Alone(s) == [n \in MCNodes |-> IF n = n1 THEN Born(s) ELSE Absent]
OneNode  == {Alone(Node(A, i1))}
Late     == {Alone(Node(A, i1)), Alone(Node(A, Unset))}

Either(s1, s2) == [n \in MCNodes |-> IF n = n1 THEN s1 ELSE s2]

(* CIDRs that overlap, move and are used again. *)
SafeChanges == Either({Node(A, i1), Node(B, i1), Excluded(Node(A, i1))},
                      {Node(A1, i2), Node(A, i2), Node(A, NoInst), Node(BadCidr, i2)})
(* Nodes that come, go and are unreachable or without an instance for a while. *)
LiveChanges == Either({Node(A, i1), Unknown(Node(A, i1)), Node(A, NoInst)},
                      {Node(B, i2)})
(* Annotations that come late, and a CIDR that goes from one node to the other. *)
LateChanges == Either({Node(A, i1)}, {Node(A, i2)})
(* A node that leaves, or comes back with another CIDR. *)
SameChanges == Either({Node(A, i1), Node(B, i1)}, {})

NoTable   == {Routes(A, NoRoute, A, NoRoute)}
Misrouted == {[Routes(A, i2, A1, i2) EXCEPT ![S] = i2]}
WrongHop  == {Routes(A, i2, A, i2)}

NoTrouble      == {Budget(0, 0, 0, 0)}
OneFault       == {Budget(0, 1, 0, 0)}
SafeBudgets    == {Budget(1, 2, 1, 0)}
LiveBudgets    == {Budget(1, 1, 1, 0), Budget(2, 0, 0, 0)}
ForeignBudgets == {Budget(1, 0, 0, 1), Budget(2, 1, 0, 0)}
RemovedBudgets == {Budget(1, 0, 0, 0), Budget(1, 0, 1, 0), Budget(2, 0, 0, 0)}
=============================================================================
