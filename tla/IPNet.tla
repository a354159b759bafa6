------------------------------- MODULE IPNet --------------------------------
(***************************************************************************)
(* CIDRs as the code computes with them: IP4Net of pkg/util/ip, an address *)
(* of Bits bits and the length of its prefix, and containsRoute, which     *)
(* tells the sync whether a route lies inside the CIDR of a node.          *)
(*                                                                         *)
(* An address is a number below 2 ^ Bits.  The mask of a prefix keeps the  *)
(* upper bits of an address, which takes away what is above a multiple of  *)
(* the size of the block that the net is.                                  *)
(***************************************************************************)
EXTENDS Naturals

CONSTANT Bits  \* 32 in the code

(* What is used of powers of two. *)
ASSUME BitsAssumption ==
  /\ Bits \in Nat
  /\ \A k \in 0 .. Bits : 2 ^ k \in Nat \ {0}
  /\ \A j, k \in 0 .. Bits : j + k <= Bits => 2 ^ (j + k) = 2 ^ j * 2 ^ k

IPs  == 0 .. 2 ^ Bits - 1
Nets == [ip : IPs, len : 0 .. Bits]

Size(n) == 2 ^ (Bits - n.len)

(* x & n.Mask() *)
Masked(x, n) == x - (x % Size(n))

(* Network, which net.ParseCIDR applies to a CIDR that it is given. *)
Network(n) == [n EXCEPT !.ip = Masked(n.ip, n)]

(* Next: the block after this one; the last is followed by the first. *)
NextNet(n) == [n EXCEPT !.ip = (@ + Size(n)) % 2 ^ Bits]

(* Contains, of IP4Net and of net.IPNet. *)
HasIP(n, x) == Masked(n.ip, n) = Masked(x, n)

(* Overlaps compares under the shorter mask. *)
Overlaps(m, n) == IF m.len < n.len THEN HasIP(m, n.ip) ELSE HasIP(n, m.ip)

-----------------------------------------------------------------------------
(* The last address: cidr.IP[i] | ^cidr.Mask[i], for every byte. *)
LastIP(n) == Masked(n.ip, n) + Size(n) - 1

MutContainsRoute(outside, inside) ==
  LET cidr == Network(inside) IN
  [equal    |-> outside = inside,
   contains |-> outside # inside /\ HasIP(outside, cidr.ip)]

(***************************************************************************)
(* containsRoute: outside is a net, inside is one as it was written, whose *)
(* address may be any of the net.  A CIDR is equal when it is written the  *)
(* same and contained when both its ends are.                              *)
(***************************************************************************)
ContainsRoute(outside, inside) ==
  LET cidr == Network(inside) IN
  [equal    |-> outside = inside,
   contains |-> /\ outside # inside
                /\ HasIP(outside, cidr.ip) /\ HasIP(outside, LastIP(cidr))]

-----------------------------------------------------------------------------
(* What they mean: a net is a block of addresses. *)
Addresses(n) == Masked(n.ip, n) .. Masked(n.ip, n) + Size(n) - 1
=============================================================================
