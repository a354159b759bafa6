---------------------------- MODULE IPNetProofs -----------------------------
(***************************************************************************)
(* Theorems about IPNet, for addresses of any width.                       *)
(***************************************************************************)
EXTENDS IPNet, Integers, TLAPS

(* A number is its block's start, a multiple of the size, and an offset. *)
LEMMA Division ==
  ASSUME NEW s \in Nat \ {0}, NEW x \in Nat
  PROVE  /\ x \div s \in Nat /\ x % s \in 0 .. s - 1
         /\ x = (x \div s) * s + (x % s)
OBVIOUS

(* What an offset says. *)
LEMMA Offset ==
  ASSUME NEW s \in Nat \ {0}, NEW b \in Nat, NEW r \in 0 .. s - 1, NEW y, y = b + r
  PROVE  b <= y /\ y <= b + s - 1 /\ y - r = b
OBVIOUS

(* Every number lies in a block, and masking leads to its start. *)
LEMMA BlockOf ==
  ASSUME NEW s \in Nat \ {0}, NEW y \in Nat
  PROVE  \E p \in Nat : p * s <= y /\ y <= p * s + s - 1 /\ y - (y % s) = p * s
<1> DEFINE p == y \div s
<1>1. p \in Nat /\ y % s \in 0 .. s - 1 /\ y = p * s + (y % s)
  BY Division
<1>2. p * s \in Nat
  BY <1>1
<1>3. p * s <= y /\ y <= p * s + s - 1 /\ y - (y % s) = p * s
  <2> HIDE DEF p
  <2> QED BY <1>1, <1>2, Offset
<1> QED BY <1>1, <1>3

(* Multiples of a number are that number apart. *)
LEMMA NextMultiple ==
  ASSUME NEW s \in Nat \ {0}, NEW a \in Nat, NEW b \in Nat, a < b
  PROVE  a * s + s <= b * s
<1>1. b - a - 1 \in Nat /\ (b - a - 1) * s >= 0
  OBVIOUS
<1>2. b * s = a * s + s + (b - a - 1) * s
  OBVIOUS
<1> QED BY <1>1, <1>2

(* The start of a block is where masking leads from any number of the block. *)
LEMMA BlockStart ==
  ASSUME NEW s \in Nat \ {0}, NEW q \in Nat, NEW y \in Nat,
         q * s <= y, y <= q * s + s - 1
  PROVE  y - (y % s) = q * s
<1>1. PICK p \in Nat : p * s <= y /\ y <= p * s + s - 1 /\ y - (y % s) = p * s
  BY BlockOf
<1>2. ~(p < q) /\ ~(q < p)
  <2>2. p < q => p * s + s <= q * s
    BY <1>1, NextMultiple
  <2>3. q < p => q * s + s <= p * s
    BY <1>1, NextMultiple
  <2>4. p * s \in Nat /\ q * s \in Nat
    BY <1>1
  <2> QED BY <1>1, <2>2, <2>3, <2>4
<1> QED BY <1>1, <1>2

(* What modular addition does: within the modulus nothing, and past it it starts again. *)
LEMMA Wrap ==
  ASSUME NEW N \in Nat \ {0}, NEW x \in Nat
  PROVE  /\ x < N => x % N = x
         /\ N <= x /\ x < N + N => x % N = x - N
<1>1. x % N \in Nat
  OBVIOUS
<1>2. ASSUME x < N PROVE x - (x % N) = 0 * N
  BY <1>2, BlockStart
<1>3. ASSUME N <= x, x < N + N PROVE x - (x % N) = 1 * N
  BY <1>3, BlockStart
<1> QED BY <1>1, <1>2, <1>3

(* Two numbers are masked to the same one exactly if both lie in the block it starts. *)
LEMMA SameBlock ==
  ASSUME NEW s \in Nat \ {0}, NEW x \in Nat, NEW y \in Nat
  PROVE  LET m == x - (x % s) IN
         /\ m \in Nat /\ m - (m % s) = m
         /\ m = y - (y % s) <=> y \in m .. m + s - 1
<1> DEFINE q == x \div s
           m == x - (x % s)
<1>1. q \in Nat /\ m = q * s /\ m \in Nat
  BY Division
<1>2. m - (m % s) = m
  BY <1>1, BlockStart
<1>3. ASSUME y \in m .. m + s - 1 PROVE m = y - (y % s)
  BY <1>1, <1>3, BlockStart
<1>4. ASSUME m = y - (y % s) PROVE y \in m .. m + s - 1
  BY <1>1, <1>4, Division
<1> QED BY <1>1, <1>2, <1>3, <1>4

(* A net has at least one address, and all its numbers are natural. *)
LEMMA NetTypes ==
  ASSUME NEW n \in Nets
  PROVE  n.ip \in Nat /\ Size(n) \in Nat \ {0} /\ Masked(n.ip, n) \in Nat
<1>1. 2 ^ Bits \in Nat
  BY BitsAssumption
<1>2. n.ip \in Nat /\ n.len \in 0 .. Bits
  BY <1>1 DEF Nets, IPs
<1>3. Bits - n.len \in 0 .. Bits
  BY <1>2, BitsAssumption
<1>4. Size(n) \in Nat \ {0}
  BY <1>3, BitsAssumption DEF Size
<1> QED BY <1>2, <1>4, SameBlock DEF Masked

(***************************************************************************)
(* The comparison under the mask, IP4Net.Contains, finds the addresses of  *)
(* the net.                                                                *)
(***************************************************************************)
THEOREM HasIPIsMembership ==
  ASSUME NEW n \in Nets, NEW x \in Nat
  PROVE  HasIP(n, x) <=> x \in Addresses(n)
BY NetTypes, SameBlock DEF HasIP, Masked, Addresses

(***************************************************************************)
(* containsRoute looks at both ends of a CIDR only, and this tells whether *)
(* all its addresses lie in the other; the two differ as written.          *)
(***************************************************************************)
THEOREM ContainsRouteIsInclusion ==
  ASSUME NEW outside \in Nets, NEW inside \in Nets, outside # inside
  PROVE  ContainsRoute(outside, inside).contains
           <=> Addresses(inside) \subseteq Addresses(outside)
<1> DEFINE first == Masked(inside.ip, inside)
           last  == first + Size(inside) - 1
           cidr  == Network(inside)
<1>1. /\ first \in Nat /\ last \in Nat /\ first <= last
      /\ Masked(outside.ip, outside) \in Nat /\ Size(outside) \in Nat \ {0}
  BY NetTypes
<1>2. cidr.ip = first /\ Size(cidr) = Size(inside)
  BY DEF Network, Size, Nets
<1>3. Masked(cidr.ip, cidr) = first
  <2>1. first - (first % Size(inside)) = first
    BY NetTypes, SameBlock DEF Masked
  <2> QED BY <1>2, <2>1 DEF Masked
<1>4. LastIP(cidr) = last
  BY <1>2, <1>3 DEF LastIP
<1>5. ContainsRoute(outside, inside).contains
        <=> first \in Addresses(outside) /\ last \in Addresses(outside)
  BY <1>1, <1>2, <1>4, HasIPIsMembership DEF ContainsRoute
<1>6. Addresses(inside) = first .. last
  BY DEF Addresses
<1> QED BY <1>1, <1>5, <1>6 DEF Addresses

-----------------------------------------------------------------------------
(* A block lies inside the block of a multiple of its size that it touches. *)
LEMMA BlockInBlock ==
  ASSUME NEW s \in Nat \ {0}, NEW k \in Nat \ {0}, NEW y \in Nat, NEW t, t = k * s
  PROVE  y - (y % t) <= y - (y % s) /\ y - (y % s) + s <= y - (y % t) + t
<1>0. t \in Nat \ {0}
  OBVIOUS
<1>1. PICK q \in Nat : q * s <= y /\ y <= q * s + s - 1 /\ y - (y % s) = q * s
  BY BlockOf
<1>2. PICK p \in Nat : p * t <= y /\ y <= p * t + t - 1 /\ y - (y % t) = p * t
  BY <1>0, BlockOf
<1>3. p * k \in Nat /\ p * k + k \in Nat /\ (p * k) * s = p * t /\ (p * k + k) * s = p * t + t
  BY <1>2
<1>4. ~(q < p * k)
  BY <1>1, <1>2, <1>3, NextMultiple
<1>5. p * t <= q * s
  BY <1>1, <1>3, <1>4, NextMultiple
<1>6. q < p * k + k
  <2>1. p * k + k < q => (p * k + k) * s + s <= q * s
    BY <1>1, <1>3, NextMultiple
  <2>2. p * k + k = q => (p * k + k) * s = q * s
    OBVIOUS
  <2> QED BY <1>1, <1>2, <1>3, <2>1, <2>2
<1>7. q * s + s <= p * t + t
  BY <1>1, <1>3, <1>6, NextMultiple
<1> QED BY <1>1, <1>2, <1>5, <1>7

(* The size of a net is a multiple of the size of one with a longer prefix. *)
LEMMA SizesDivide ==
  ASSUME NEW m \in Nets, NEW n \in Nets, m.len <= n.len
  PROVE  \E k \in Nat \ {0} : Size(m) = k * Size(n)
<1>1. m.len \in 0 .. Bits /\ n.len \in 0 .. Bits /\ Bits \in Nat
  BY BitsAssumption DEF Nets
<1> DEFINE j == n.len - m.len
           l == Bits - n.len
<1>2. j \in 0 .. Bits /\ l \in 0 .. Bits /\ j + l <= Bits /\ j + l = Bits - m.len
  BY <1>1
<1>3. 2 ^ (j + l) = 2 ^ j * 2 ^ l /\ 2 ^ j \in Nat \ {0}
  BY <1>2, BitsAssumption
<1> QED BY <1>2, <1>3 DEF Size

(* Nets that share an address are one inside the other: the longer prefix in the shorter. *)
LEMMA NetInNet ==
  ASSUME NEW m \in Nets, NEW n \in Nets, m.len <= n.len,
         NEW y \in Addresses(m), y \in Addresses(n)
  PROVE  Addresses(n) \subseteq Addresses(m)
<1>1. /\ Size(m) \in Nat \ {0} /\ Size(n) \in Nat \ {0}
      /\ Masked(m.ip, m) \in Nat /\ Masked(n.ip, n) \in Nat
  BY NetTypes
<1>2. y \in Nat
  BY <1>1 DEF Addresses
<1>3. Masked(m.ip, m) = y - (y % Size(m)) /\ Masked(n.ip, n) = y - (y % Size(n))
  BY <1>2, HasIPIsMembership DEF HasIP, Masked
<1>4. PICK k \in Nat \ {0} : Size(m) = k * Size(n)
  BY SizesDivide
<1>5. Masked(m.ip, m) <= Masked(n.ip, n) /\ Masked(n.ip, n) + Size(n) <= Masked(m.ip, m) + Size(m)
  BY <1>1, <1>2, <1>3, <1>4, BlockInBlock
<1> QED BY <1>1, <1>5 DEF Addresses

(* A net has the address it is written with. *)
LEMMA OwnAddress ==
  ASSUME NEW n \in Nets
  PROVE  n.ip \in Nat /\ n.ip \in Addresses(n)
BY NetTypes, HasIPIsMembership DEF HasIP

(***************************************************************************)
(* Overlaps looks at one address of each net, under the shorter mask, and  *)
(* this tells whether they share an address.                               *)
(***************************************************************************)
THEOREM OverlapsIsSharing ==
  ASSUME NEW m \in Nets, NEW n \in Nets
  PROVE  Overlaps(m, n) <=> Addresses(m) \cap Addresses(n) # {}
<1>0. m.len \in 0 .. Bits /\ n.len \in 0 .. Bits /\ Bits \in Nat
  BY BitsAssumption DEF Nets
<1>1. CASE m.len < n.len
  <2>1. Overlaps(m, n) <=> n.ip \in Addresses(m)
    BY <1>1, OwnAddress, HasIPIsMembership DEF Overlaps
  <2>2. m.len <= n.len
    BY <1>0, <1>1
  <2> QED BY <2>1, <2>2, OwnAddress, NetInNet
<1>2. CASE ~(m.len < n.len)
  <2>1. Overlaps(m, n) <=> m.ip \in Addresses(n)
    BY <1>2, OwnAddress, HasIPIsMembership DEF Overlaps
  <2>2. n.len <= m.len
    BY <1>0, <1>2
  <2> QED BY <2>1, <2>2, OwnAddress, NetInNet
<1> QED BY <1>1, <1>2

(* A block of size s from b on, one moved up by its size modulo N, and the first  *)
(* number of the block of size s that y, or y + s modulo N, lies in.              *)
Block(b, s) == b .. b + s - 1
Shifted(m, s, N) == {(x + s) % N : x \in m .. m + s - 1}
FirstOf(y, s) == y - (y % s)
FirstOfNext(y, s, N) == FirstOf((y + s) % N, s)

(* Adding s modulo N moves a block of that size up, or the last one down to the first. *)
LEMMA ShiftBlock ==
  ASSUME NEW s \in Nat \ {0}, NEW N \in Nat \ {0}, NEW m \in Nat, NEW b \in Nat,
         (b = m + s /\ m + s + s <= N) \/ (b = 0 /\ m + s = N)
  PROVE  Block(b, s) = Shifted(m, s, N)
<1>1. CASE b = m + s /\ m + s + s <= N
  <2>1. \A x \in m .. m + s - 1 : (x + s) % N = x + s
    <3> TAKE x \in m .. m + s - 1
    <3>1. x + s \in Nat /\ x + s < N
      BY <1>1
    <3> QED BY <3>1, Wrap
  <2>2. \A x \in m .. m + s - 1 : (x + s) % N \in b .. b + s - 1
    <3> TAKE x \in m .. m + s - 1
    <3>1. x + s \in b .. b + s - 1
      BY <1>1
    <3> QED BY <2>1, <3>1, Zenon
  <2>3. \A z \in b .. b + s - 1 : z - s \in m .. m + s - 1 /\ z = ((z - s) + s) % N
    <3> TAKE z \in b .. b + s - 1
    <3>1. z - s \in m .. m + s - 1 /\ (z - s) + s = z
      BY <1>1
    <3> QED BY <2>1, <3>1, Zenon
  <2> QED BY <2>2, <2>3, Zenon DEF Block, Shifted
<1>2. CASE b = 0 /\ m + s = N
  <2>1. \A x \in m .. m + s - 1 : (x + s) % N = x - m
    <3> TAKE x \in m .. m + s - 1
    <3>1. x + s \in Nat /\ N <= x + s /\ x + s < N + N /\ (x + s) - N = x - m
      BY <1>2
    <3> QED BY <3>1, Wrap
  <2>2. \A x \in m .. m + s - 1 : (x + s) % N \in b .. b + s - 1
    <3> TAKE x \in m .. m + s - 1
    <3>1. x - m \in b .. b + s - 1
      BY <1>2
    <3> QED BY <2>1, <3>1, Zenon
  <2>3. \A z \in b .. b + s - 1 : z + m \in m .. m + s - 1 /\ z = ((z + m) + s) % N
    <3> TAKE z \in b .. b + s - 1
    <3>1. z + m \in m .. m + s - 1 /\ (z + m) - m = z
      BY <1>2
    <3> QED BY <2>1, <3>1, Zenon
  <2> QED BY <2>2, <2>3, Zenon DEF Block, Shifted
<1> QED BY <1>1, <1>2

(* Where the block of a number y + s begins, for a y in the block of q. *)
LEMMA NextStart ==
  ASSUME NEW s \in Nat \ {0}, NEW N \in Nat \ {0}, \E k \in Nat \ {0} : N = k * s,
         NEW y \in Nat, y < N
  PROVE  LET m == FirstOf(y, s)
             b == FirstOfNext(y, s, N)
         IN  \/ b = m + s /\ m + s + s <= N
             \/ b = 0 /\ m + s = N
<1> PICK k \in Nat \ {0} : N = k * s
  OBVIOUS
<1> PICK q \in Nat : q * s <= y /\ y <= q * s + s - 1 /\ y - (y % s) = q * s
  BY BlockOf
<1> DEFINE a == (y + s) % N
           b == FirstOfNext(y, s, N)
<1>0. b = a - (a % s) /\ FirstOf(y, s) = q * s
  BY DEF FirstOf, FirstOfNext
<1>1. /\ q * s \in Nat /\ 1 * s = s
      /\ q + 1 \in Nat /\ (q + 1) * s = q * s + s
  OBVIOUS
<1>2. q < k
  <2>1. k < q => k * s + s <= q * s
    BY NextMultiple
  <2>2. k = q => k * s = q * s
    OBVIOUS
  <2> QED BY <1>1, <2>1, <2>2
<1>3. CASE q + 1 < k
  <2>1. q * s + s + s <= N
    BY <1>1, <1>3, NextMultiple
  <2>2. y + s \in Nat /\ y + s < N
    BY <1>1, <2>1
  <2>3. a = y + s
    BY <1>1, <2>2, Wrap
  <2>4. a \in Nat /\ (q + 1) * s <= a /\ a <= (q + 1) * s + s - 1
    BY <1>1, <2>3
  <2>5. b = (q + 1) * s
    <3> HIDE DEF a, b
    <3> QED BY <1>0, <1>1, <2>4, BlockStart
  <2> QED BY <1>0, <1>1, <2>1, <2>5
<1>4. CASE q + 1 = k
  <2>1. q * s + s = N
    BY <1>1, <1>4
  <2>2. y + s \in Nat /\ N <= y + s /\ y + s < N + N
    BY <1>1, <2>1
  <2>3. a = (y + s) - N
    BY <1>1, <2>2, Wrap
  <2>4. a \in Nat /\ 0 * s = 0 /\ 0 * s <= a /\ a <= 0 * s + s - 1
    BY <1>1, <2>1, <2>3
  <2>5. b = 0 * s
    <3> HIDE DEF a, b
    <3> QED BY <1>0, <2>4, BlockStart
  <2> QED BY <1>0, <2>1, <2>4, <2>5
<1>5. q + 1 < k \/ q + 1 = k
  BY <1>2
<1> QED BY <1>3, <1>4, <1>5, Zenon

(***************************************************************************)
(* Next is the block that begins where this one ends, and after the last   *)
(* comes the first: the addresses are those of the net, one size further.  *)
(***************************************************************************)
THEOREM NextIsNextBlock ==
  ASSUME NEW n \in Nets
  PROVE  Addresses(NextNet(n)) = {(x + Size(n)) % 2 ^ Bits : x \in Addresses(n)}
<1>1. /\ Size(n) \in Nat \ {0} /\ Masked(n.ip, n) \in Nat
      /\ 2 ^ Bits \in Nat \ {0} /\ n.ip \in Nat /\ n.ip < 2 ^ Bits
  <2>1. 2 ^ Bits \in Nat \ {0} /\ n.ip \in 0 .. 2 ^ Bits - 1
    BY BitsAssumption DEF Nets, IPs
  <2> QED BY <2>1, NetTypes
<1>2. PICK s \in Nat \ {0}, N \in Nat \ {0}, m \in Nat, y \in Nat :
        s = Size(n) /\ N = 2 ^ Bits /\ m = Masked(n.ip, n) /\ y = n.ip /\ y < N
  BY <1>1
<1>3. PICK k \in Nat \ {0} : N = k * s
  <2>1. n.len \in 0 .. Bits /\ Bits - n.len \in 0 .. Bits /\ n.len + (Bits - n.len) = Bits
    BY BitsAssumption DEF Nets
  <2>2. 2 ^ (n.len + (Bits - n.len)) = 2 ^ n.len * 2 ^ (Bits - n.len) /\ 2 ^ n.len \in Nat \ {0}
    BY <2>1, BitsAssumption
  <2> QED BY <1>2, <2>1, <2>2 DEF Size
<1>4. PICK b : b = FirstOfNext(y, s, N)
  OBVIOUS
<1>5. (b = m + s /\ m + s + s <= N) \/ (b = 0 /\ m + s = N)
  <2>1. m = FirstOf(y, s)
    BY <1>2 DEF FirstOf, Masked
  <2>2. \E j \in Nat \ {0} : N = j * s
    BY <1>3
  <2>3. \/ FirstOfNext(y, s, N) = FirstOf(y, s) + s /\ FirstOf(y, s) + s + s <= N
        \/ FirstOfNext(y, s, N) = 0 /\ FirstOf(y, s) + s = N
    BY <1>2, <2>2, NextStart
  <2> QED BY <1>4, <2>1, <2>3
<1>6. b \in Nat
  BY <1>2, <1>5
<1>7. Block(b, s) = Shifted(m, s, N)
  BY <1>2, <1>5, <1>6, ShiftBlock
<1>8. Addresses(NextNet(n)) = Block(b, s)
  <2>1. NextNet(n).ip = (y + s) % N /\ Size(NextNet(n)) = s
    BY <1>2 DEF NextNet, Size, Nets
  <2> QED BY <1>4, <2>1 DEF Addresses, Masked, FirstOf, FirstOfNext, Block
<1>9. Addresses(n) = m .. m + s - 1
  BY <1>2 DEF Addresses
<1>10. {(x + Size(n)) % 2 ^ Bits : x \in Addresses(n)} = Shifted(m, s, N)
  BY <1>2, <1>9 DEF Shifted
<1> QED BY <1>7, <1>8, <1>10
=============================================================================
