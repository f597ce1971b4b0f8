-------------------------- MODULE FlashHeapProofs --------------------------
(***************************************************************************)
(* Proofs about the heap in flash memory, for every size of the heap, all  *)
(* lengths and vectors of data, whatever lies behind the heap and whenever *)
(* the device refuses an access.  What is said of the heap is said as long *)
(* as it is Intact: no free-looking word behind it was joined, no packet   *)
(* was split with less than a header left, and no third piece was written. *)
(*                                                                         *)
(* The packets are what a walk over the memory comes by.  The argument is  *)
(* about a set of addresses instead: one that tiles the heap (Tiled) is    *)
(* the set of the packets (WalkIsTiling), so that for each write it is     *)
(* enough to say which addresses tile the heap after it.                   *)
(***************************************************************************)
EXTENDS FlashHeap, WellFoundedInduction, TLAPS

(* A set of natural numbers has a least member.                            *)
LEMMA LeastMember ==
  ASSUME NEW T, T \subseteq Nat, T # {}
  PROVE  \E n \in T : \A k \in T : n <= k
  <1> DEFINE R == OpToRel(<, Nat)
  <1>1. IsWellFoundedOn(R, Nat)
    BY NatLessThanWellFounded, Zenon
  <1>2. \A k, n \in Nat : k < n => <<k, n>> \in R
    BY Zenon DEF OpToRel
  <1> HIDE DEF R
  <1>3. \E n \in T : \A k \in T : ~(<<k, n>> \in R)
    BY <1>1, WFMin, Zenon
  <1>4. \E n \in T : \A k \in T : ~(k < n)
    BY <1>2, <1>3, Zenon
  <1> QED BY <1>4

Addr == 0 .. HeapSize - 1

(* A device holds bytes, those of the heap and perhaps more behind it.     *)
IsMemory(m) == \E n \in Nat : n >= HeapSize /\ m \in [0 .. n - 1 -> Byte]

Readable(m, a) == a + HeaderSize - 1 \in DOMAIN m

LEMMA HeapNumbers == HeapSize \in Nat /\ HeapSize >= 5
  BY FlashHeapAssumption

LEMMA MemoryFacts ==
  ASSUME NEW m, IsMemory(m)
  PROVE  /\ Addr \subseteq DOMAIN m /\ DOMAIN m \subseteq Nat
         /\ \A x \in DOMAIN m : \A y \in Nat : y <= x => y \in DOMAIN m
         /\ \A x \in DOMAIN m : m[x] \in Nat /\ m[x] < 256
  <1>1. PICK n \in Nat : n >= HeapSize /\ m \in [0 .. n - 1 -> Byte]
    BY DEF IsMemory
  <1>2. \A x \in DOMAIN m : m[x] \in Byte
    BY <1>1
  <1>3. \A b \in Byte : b \in Nat /\ b < 256
    BY DEF Byte
  <1> QED BY <1>1, <1>2, <1>3, HeapNumbers DEF Addr

(* The four bytes of a header.                                             *)
LEMMA FourBytes ==
  ASSUME NEW m, IsMemory(m), NEW a \in Nat, Readable(m, a)
  PROVE  /\ a \in DOMAIN m /\ a + 1 \in DOMAIN m /\ a + 2 \in DOMAIN m /\ a + 3 \in DOMAIN m
         /\ m[a] \in Nat /\ m[a + 1] \in Nat /\ m[a + 2] \in Nat /\ m[a + 3] \in Nat
  <1>1. a + 3 \in DOMAIN m
    BY DEF Readable, HeaderSize
  <1> QED BY <1>1, MemoryFacts

LEMMA HeaderIsInt ==
  ASSUME NEW m, IsMemory(m), NEW a \in Nat, Readable(m, a)
  PROVE  Header(m, a) \in Int
  BY FourBytes, SMT DEF Header

(* Bytes written to a memory.                                              *)
LEMMA WrittenFacts ==
  ASSUME NEW m, IsMemory(m), NEW x \in Nat, NEW bytes \in Seq(Byte)
  PROVE  LET n == Written(m, x, bytes)
         IN  /\ IsMemory(n) /\ DOMAIN n = DOMAIN m
             /\ \A y \in DOMAIN m : y < x \/ x + Len(bytes) <= y => n[y] = m[y]
             /\ \A k \in 1 .. Len(bytes) : x + k - 1 \in DOMAIN m => n[x + k - 1] = bytes[k]
  <1> DEFINE n == Written(m, x, bytes)
  <1>1. DOMAIN bytes = 1 .. Len(bytes) /\ Len(bytes) \in Nat
        /\ \A k \in 1 .. Len(bytes) : bytes[k] \in Byte
    OBVIOUS
  <1>2. PICK l \in Nat : l >= HeapSize /\ m \in [0 .. l - 1 -> Byte]
    BY DEF IsMemory
  <1>3. n = [y \in 0 .. l - 1 |-> IF y - x + 1 \in 1 .. Len(bytes) THEN bytes[y - x + 1] ELSE m[y]]
    BY <1>1, <1>2 DEF Written
  <1>4. n \in [0 .. l - 1 -> Byte] /\ DOMAIN n = DOMAIN m
    BY <1>1, <1>2, <1>3
  <1>5. ASSUME NEW y \in DOMAIN m, y < x \/ x + Len(bytes) <= y
        PROVE  n[y] = m[y]
    <2>1. y \in 0 .. l - 1 /\ y \in Nat /\ y - x + 1 \notin 1 .. Len(bytes)
      BY <1>1, <1>2, <1>5
    <2> QED BY <1>3, <2>1
  <1>6. ASSUME NEW k \in 1 .. Len(bytes), x + k - 1 \in DOMAIN m
        PROVE  n[x + k - 1] = bytes[k]
    <2> DEFINE y == x + k - 1
    <2>1. y \in 0 .. l - 1 /\ y - x + 1 = k /\ k \in Nat
      BY <1>1, <1>2, <1>6
    <2> HIDE DEF y, n
    <2> QED BY <1>3, <2>1 DEF y
  <1> HIDE DEF n
  <1>7. IsMemory(n)
    BY <1>2, <1>4 DEF IsMemory
  <1> QED BY <1>4, <1>5, <1>6, <1>7 DEF n

(* A number is the header that its bytes make.                             *)
LEMMA NumberOfBytes ==
  ASSUME NEW v \in Int, -INT32_MAX <= v, v <= INT32_MAX
  PROVE  LET r1 == v % 256
             r2 == (v \div 256) % 256
             r3 == (v \div 65536) % 256
             r4 == (v \div 16777216) % 256
         IN  /\ r1 \in Byte /\ r2 \in Byte /\ r3 \in Byte /\ r4 \in Byte
             /\ r1 + 256 * r2 + 65536 * r3 + 16777216 * (IF r4 < 128 THEN r4 ELSE r4 - 256) = v
  <1> DEFINE q1 == v \div 256
             q2 == v \div 65536
             q3 == v \div 16777216
             q4 == q3 \div 256
             r1 == v % 256
             r2 == q1 % 256
             r3 == q2 % 256
             r4 == q3 % 256
  <1>1. \A n \in Int : /\ n = 256 * (n \div 256) + (n % 256) /\ n \div 256 \in Int
                       /\ n % 256 \in Nat /\ n % 256 < 256
    BY SMT
  <1>2. q2 = q1 \div 256 /\ q3 = q2 \div 256
    BY SMT
  <1>3. q1 \in Int /\ q2 \in Int /\ q3 \in Int /\ q4 \in Int
    BY SMT
  <1>4. v = 256 * q1 + r1 /\ r1 \in Nat /\ r1 < 256
    BY <1>1, SMT
  <1> HIDE DEF r1
  <1>5. q1 = 256 * q2 + r2 /\ r2 \in Nat /\ r2 < 256
    BY <1>1, <1>2, <1>3, SMT
  <1>6. q2 = 256 * q3 + r3 /\ r3 \in Nat /\ r3 < 256
    BY <1>1, <1>2, <1>3, SMT
  <1>7. q3 = 256 * q4 + r4 /\ r4 \in Nat /\ r4 < 256
    BY <1>1, <1>2, <1>3, SMT
  <1> HIDE DEF r2, r3, r4, q1, q2, q3, q4
  <1>8. r1 + 256 * r2 + 65536 * r3 + 16777216 * (IF r4 < 128 THEN r4 ELSE r4 - 256) = v
    BY <1>3, <1>4, <1>5, <1>6, <1>7, SMT DEF INT32_MAX
  <1>9. r1 \in Byte /\ r2 \in Byte /\ r3 \in Byte /\ r4 \in Byte
    BY <1>4, <1>5, <1>6, <1>7, SMT DEF Byte
  <1> QED BY <1>8, <1>9, SMT DEF r1, r2, r3, r4, q1, q2, q3

LEMMA HeaderBytesAreBytes ==
  ASSUME NEW v \in Int
  PROVE  HeaderBytes(v) \in Seq(Byte) /\ Len(HeaderBytes(v)) = HeaderSize
  <1>1. \A n \in Int : n % 256 \in Byte
    BY SMT DEF Byte
  <1>2. v \div 256 \in Int /\ v \div 65536 \in Int /\ v \div 16777216 \in Int
    BY SMT
  <1> DEFINE b1 == v % 256
             b2 == (v \div 256) % 256
             b3 == (v \div 65536) % 256
             b4 == (v \div 16777216) % 256
  <1>3. b1 \in Byte /\ b2 \in Byte /\ b3 \in Byte /\ b4 \in Byte
    BY <1>1, <1>2, SMT
  <1>4. HeaderBytes(v) = <<b1, b2, b3, b4>>
    BY SMT DEF HeaderBytes
  <1> HIDE DEF b1, b2, b3, b4
  <1> QED BY <1>3, <1>4, SMT DEF HeaderSize

(* A header written is read again.                                         *)
LEMMA HeaderWritten ==
  ASSUME NEW m, IsMemory(m), NEW x \in Nat, Readable(m, x),
         NEW v \in Int, -INT32_MAX <= v, v <= INT32_MAX
  PROVE  Header(Written(m, x, HeaderBytes(v)), x) = v
  <1> DEFINE b == HeaderBytes(v)
             n == Written(m, x, b)
  <1>1. b \in Seq(Byte) /\ Len(b) = 4
    BY HeaderBytesAreBytes DEF HeaderSize
  <1>2. \A k \in 1 .. 4 : x + k - 1 \in DOMAIN m => n[x + k - 1] = b[k]
    <2> HIDE DEF b
    <2>1. \A k \in 1 .. Len(b) : x + k - 1 \in DOMAIN m => n[x + k - 1] = b[k]
      BY <1>1, WrittenFacts
    <2> QED BY <1>1, <2>1
  <1>3. x \in DOMAIN m /\ x + 1 \in DOMAIN m /\ x + 2 \in DOMAIN m /\ x + 3 \in DOMAIN m
    BY FourBytes
  <1> HIDE DEF n, b
  <1>4. n[x] = b[1] /\ n[x + 1] = b[2] /\ n[x + 2] = b[3] /\ n[x + 3] = b[4]
    <2>1. x + 1 - 1 = x /\ x + 2 - 1 = x + 1 /\ x + 3 - 1 = x + 2 /\ x + 4 - 1 = x + 3
      OBVIOUS
    <2>2. 1 \in 1 .. 4 /\ 2 \in 1 .. 4 /\ 3 \in 1 .. 4 /\ 4 \in 1 .. 4
      OBVIOUS
    <2> QED BY <1>2, <1>3, <2>1, <2>2
  <1>5. /\ b[1] = v % 256 /\ b[2] = (v \div 256) % 256
        /\ b[3] = (v \div 65536) % 256 /\ b[4] = (v \div 16777216) % 256
    BY SMT DEF b, HeaderBytes
  <1>6. Header(n, x) = b[1] + 256 * b[2] + 65536 * b[3]
                         + 16777216 * (IF b[4] < 128 THEN b[4] ELSE b[4] - 256)
    BY <1>4, SMT DEF Header
  <1>7. b[1] + 256 * b[2] + 65536 * b[3] + 16777216 * (IF b[4] < 128 THEN b[4] ELSE b[4] - 256) = v
    BY <1>5, NumberOfBytes, SMT
  <1> QED BY <1>6, <1>7 DEF n, b

(* Elsewhere it changes nothing.                                           *)
LEMMA HeaderElsewhere ==
  ASSUME NEW m, IsMemory(m), NEW x \in Nat, NEW bytes \in Seq(Byte), NEW a \in Nat, Readable(m, a),
         a + HeaderSize <= x \/ x + Len(bytes) <= a
  PROVE  Header(Written(m, x, bytes), a) = Header(m, a)
  <1> DEFINE n == Written(m, x, bytes)
  <1>1. \A y \in DOMAIN m : y < x \/ x + Len(bytes) <= y => n[y] = m[y]
    BY WrittenFacts
  <1>2. Len(bytes) \in Nat
    OBVIOUS
  <1>3. a \in DOMAIN m /\ a + 1 \in DOMAIN m /\ a + 2 \in DOMAIN m /\ a + 3 \in DOMAIN m
    BY FourBytes
  <1> HIDE DEF n
  <1>4. n[a] = m[a] /\ n[a + 1] = m[a + 1] /\ n[a + 2] = m[a + 2] /\ n[a + 3] = m[a + 3]
    BY <1>1, <1>2, <1>3 DEF HeaderSize
  <1>5. Header(n, a) = Header(m, a)
    BY <1>4, SMT DEF Header
  <1> QED BY <1>5 DEF n

-----------------------------------------------------------------------------
(* The headers of a memory, wherever there is room for one.                *)
Heads(m) == [a \in Addr |-> IF Readable(m, a) THEN Header(m, a) ELSE 0]

HeaderMap == [Addr -> Int]

(* The address behind a packet, in a map of headers.                       *)
After(h, a) == a + Abs(h[a]) + HeaderSize

LEMMA HeadsFacts ==
  ASSUME NEW m, IsMemory(m)
  PROVE  /\ Heads(m) \in HeaderMap
         /\ \A a \in Addr : Readable(m, a) => Heads(m)[a] = Header(m, a)
         /\ \A a \in Addr : a + HeaderSize <= HeapSize => Readable(m, a)
  <1>1. \A a \in Addr : Readable(m, a) => Header(m, a) \in Int
    BY HeaderIsInt DEF Addr
  <1>2. Heads(m) \in HeaderMap
    BY <1>1 DEF Heads, HeaderMap
  <1>3. \A a \in Addr : a + HeaderSize <= HeapSize => Readable(m, a)
    BY MemoryFacts, HeapNumbers DEF Addr, Readable, HeaderSize
  <1> QED BY <1>2, <1>3 DEF Heads

(* A packet is followed by a higher address.                               *)
LEMMA AfterIsHigher ==
  ASSUME NEW h \in HeaderMap, NEW a \in Addr
  PROVE  After(h, a) \in Nat /\ After(h, a) >= a + HeaderSize /\ After(h, a) > a
  BY HeapNumbers DEF After, HeaderMap, Abs, Addr, HeaderSize

(* Packets of any memory.                                                  *)
WalkFrom(m, f, a) ==
  IF ~(a + HeaderSize - 1 \in DOMAIN m) THEN {}
  ELSE LET next == a + Abs(Header(m, a)) + HeaderSize
       IN  {a} \cup (IF next < HeapSize THEN f[next] ELSE {})

Walk(m) == CHOOSE f : f = [a \in Addr |-> WalkFrom(m, f, a)]

(* The packets are what the walk over the flash comes by.                  *)
LEMMA PacketsOfFlash ==
  /\ Packets = Walk(flash)[0]
  /\ Packets' = Walk(flash')[0]
  BY DEF Packets, Walk, WalkFrom, FollowedBy, Addr, Within

LEMMA WalkFromHeads ==
  ASSUME NEW m, IsMemory(m), NEW f, NEW a \in Addr
  PROVE  WalkFrom(m, f, a) =
           IF ~Readable(m, a) THEN {}
           ELSE {a} \cup (IF After(Heads(m), a) < HeapSize THEN f[After(Heads(m), a)] ELSE {})
  BY HeadsFacts DEF WalkFrom, Readable, After

(* The walk satisfies its own equation: it goes on from higher and higher  *)
(* addresses, so that one address after the other can be added in front.   *)
LEMMA WalkEquation ==
  ASSUME NEW m, IsMemory(m)
  PROVE  Walk(m) = [a \in Addr |-> WalkFrom(m, Walk(m), a)]
  <1> DEFINE h == Heads(m)
             Correct(f, n) == \A a \in Addr : a >= HeapSize - n => f[a] = WalkFrom(m, f, a)
             T == {n \in Nat : n <= HeapSize /\ ~ \E f \in [Addr -> SUBSET Addr] : Correct(f, n)}
  <1>0. HeapSize \in Nat /\ HeapSize > 1 /\ h \in HeaderMap
    BY HeapNumbers, HeadsFacts
  <1>00. \A f, a : a \in Addr => WalkFrom(m, f, a) =
           IF ~Readable(m, a) THEN {}
           ELSE {a} \cup (IF After(h, a) < HeapSize THEN f[After(h, a)] ELSE {})
    BY WalkFromHeads
  <1> HIDE DEF h
  <1>1. T = {}
    <2> SUFFICES ASSUME T # {} PROVE FALSE
      OBVIOUS
    <2>1. T \subseteq Nat
      OBVIOUS
    <2> HIDE DEF T
    <2>2. PICK n \in T : \A k \in T : n <= k
      BY <2>1, LeastMember
    <2>3. n \in Nat /\ n <= HeapSize /\ ~ \E f \in [Addr -> SUBSET Addr] : Correct(f, n)
      BY <2>2 DEF T
    <2>4. CASE n = 0
      <3>1. [a \in Addr |-> {}] \in [Addr -> SUBSET Addr]
        OBVIOUS
      <3>2. \A f : Correct(f, 0)
        BY <1>0 DEF Addr
      <3> QED BY <2>3, <2>4, <3>1, <3>2
    <2>5. CASE n > 0
      <3>1. n - 1 \in Nat /\ n - 1 <= HeapSize /\ n - 1 \notin T
        BY <1>0, <2>2, <2>3, <2>5
      <3>2. PICK f \in [Addr -> SUBSET Addr] : Correct(f, n - 1)
        BY <3>1 DEF T
      <3> DEFINE x == HeapSize - n
                 g == [f EXCEPT ![x] = WalkFrom(m, f, x)]
      <3>3. x \in Addr
        BY <1>0, <2>3, <2>5 DEF Addr
      <3>4. WalkFrom(m, f, x) \in SUBSET Addr
        <4>1. After(h, x) \in Nat
          BY <1>0, <3>3, AfterIsHigher
        <4>2. After(h, x) < HeapSize => f[After(h, x)] \in SUBSET Addr
          BY <1>0, <4>1 DEF Addr
        <4> QED BY <1>00, <3>3, <4>2
      <3>5. g \in [Addr -> SUBSET Addr]
        BY <3>4
      <3>6. ASSUME NEW a \in Addr, a >= x
            PROVE  g[a] = WalkFrom(m, g, a)
        <4>1. After(h, a) \in Nat /\ After(h, a) > a
          BY <1>0, AfterIsHigher
        <4>2. After(h, a) < HeapSize => g[After(h, a)] = f[After(h, a)]
          BY <1>0, <3>3, <3>6, <4>1 DEF Addr
        <4>3. WalkFrom(m, g, a) = WalkFrom(m, f, a)
          <5> HIDE DEF g
          <5> QED BY <1>00, <4>2
        <4>4. CASE a = x
          BY <3>3, <4>3, <4>4
        <4>5. CASE a # x
          <5>1. f[a] = WalkFrom(m, f, a)
            BY <1>0, <2>3, <3>2, <3>3, <3>6, <4>5 DEF Addr
          <5> QED BY <4>3, <4>5, <5>1
        <4> QED BY <4>4, <4>5
      <3> HIDE DEF g
      <3>7. Correct(g, n)
        BY <3>6
      <3> QED BY <2>3, <3>5, <3>7
    <2> QED BY <2>3, <2>4, <2>5
  <1>2. PICK f \in [Addr -> SUBSET Addr] : Correct(f, HeapSize)
    BY <1>0, <1>1
  <1>3. \A a \in Addr : f[a] = WalkFrom(m, f, a)
    BY <1>0, <1>2 DEF Addr
  <1>4. f = [a \in Addr |-> WalkFrom(m, f, a)]
    BY <1>3
  <1> QED BY <1>4 DEF Walk

(* In any memory, whole or not, the walk comes by headers it can read.     *)
LEMMA WalkIsReadable ==
  ASSUME NEW m, IsMemory(m)
  PROVE  Walk(m)[0] \subseteq {a \in Addr : Readable(m, a)}
  <1> DEFINE w == Walk(m)
             h == Heads(m)
             R == {a \in Addr : Readable(m, a)}
             T == {n \in Nat : \E a \in Addr : n = HeapSize - a /\ ~(w[a] \subseteq R)}
  <1>0. HeapSize \in Nat /\ HeapSize > 1 /\ h \in HeaderMap
    BY HeapNumbers, HeadsFacts
  <1>1. \A a \in Addr : w[a] = WalkFrom(m, w, a)
    <2>1. w = [a \in Addr |-> WalkFrom(m, w, a)]
      BY WalkEquation
    <2> HIDE DEF w
    <2> QED BY <2>1
  <1>2. \A a \in Addr : w[a] =
           IF ~Readable(m, a) THEN {}
           ELSE {a} \cup (IF After(h, a) < HeapSize THEN w[After(h, a)] ELSE {})
    BY <1>1, WalkFromHeads
  <1> HIDE DEF w, h
  <1>3. T = {}
    <2> SUFFICES ASSUME T # {} PROVE FALSE
      OBVIOUS
    <2>1. T \subseteq Nat
      OBVIOUS
    <2> HIDE DEF T, R
    <2>2. PICK n \in T : \A k \in T : n <= k
      BY <2>1, LeastMember
    <2>3. PICK a \in Addr : n = HeapSize - a /\ ~(w[a] \subseteq R)
      BY <2>2 DEF T
    <2> DEFINE c == After(h, a)
    <2>4. a \in Nat /\ c \in Nat /\ c > a
      BY <1>0, <2>3, AfterIsHigher DEF Addr
    <2>5. c < HeapSize => w[c] \subseteq R
      <3> SUFFICES ASSUME c < HeapSize PROVE w[c] \subseteq R
        OBVIOUS
      <3> DEFINE k == HeapSize - c
      <3> HIDE DEF c
      <3>1. k \in Nat /\ k < n /\ n \in Nat /\ c \in Addr
        BY <1>0, <2>3, <2>4 DEF Addr
      <3>2. k \notin T
        BY <2>2, <3>1
      <3> QED BY <3>1, <3>2 DEF T
    <2>6. Readable(m, a) => {a} \subseteq R
      BY <2>3 DEF R
    <2> QED BY <1>2, <2>3, <2>5, <2>6
  <1>4. 0 \in Addr
    BY <1>0 DEF Addr
  <1> HIDE DEF R
  <1>5. w[0] \subseteq R
    <2>1. HeapSize \in Nat /\ HeapSize = HeapSize - 0 /\ HeapSize \notin T
      BY <1>0, <1>3
    <2> QED BY <1>0, <1>4, <2>1 DEF T
  <1> QED BY <1>5 DEF w, R

-----------------------------------------------------------------------------
(* The addresses of P are the beginnings of packets that lie side by side  *)
(* from the start of the heap to its end.                                  *)
Tiled(h, P) ==
  /\ P \subseteq Addr /\ 0 \in P
  /\ \A a \in P : After(h, a) <= HeapSize
  /\ \A a \in P : After(h, a) < HeapSize => After(h, a) \in P
  /\ \A a, b \in P : a < b => After(h, a) <= b

(* A walk over such a memory comes by just these addresses.                *)
LEMMA WalkIsTiling ==
  ASSUME NEW m, IsMemory(m), NEW P, Tiled(Heads(m), P)
  PROVE  Walk(m)[0] = P
  <1> DEFINE w == Walk(m)
             h == Heads(m)
             From(a) == {b \in P : b >= a}
             T == {n \in Nat : \E a \in P : n = HeapSize - a /\ w[a] # From(a)}
  <1>0. /\ HeapSize \in Nat /\ HeapSize > 1 /\ h \in HeaderMap
        /\ P \subseteq Addr /\ 0 \in P /\ Tiled(h, P)
    BY HeapNumbers, HeadsFacts DEF Tiled
  <1>1. \A a \in Addr : w[a] = WalkFrom(m, w, a)
    <2>1. w = [a \in Addr |-> WalkFrom(m, w, a)]
      BY WalkEquation
    <2> HIDE DEF w
    <2> QED BY <2>1
  <1>00. \A a \in Addr : w[a] =
           IF ~Readable(m, a) THEN {}
           ELSE {a} \cup (IF After(h, a) < HeapSize THEN w[After(h, a)] ELSE {})
    BY <1>1, WalkFromHeads
  <1>01. \A a \in Addr : a + HeaderSize <= HeapSize => Readable(m, a)
    BY HeadsFacts
  <1> HIDE DEF w, h
  <1>2. T = {}
    <2> SUFFICES ASSUME T # {} PROVE FALSE
      OBVIOUS
    <2>1. T \subseteq Nat
      OBVIOUS
    <2> HIDE DEF T, From
    <2>2. PICK n \in T : \A k \in T : n <= k
      BY <2>1, LeastMember
    <2>3. PICK a \in P : n = HeapSize - a /\ w[a] # From(a)
      BY <2>2 DEF T
    <2>4. a \in Addr /\ a \in Nat /\ After(h, a) \in Nat /\ After(h, a) > a
          /\ After(h, a) <= HeapSize
      BY <1>0, <2>3, AfterIsHigher DEF Addr, Tiled
    <2>44. Readable(m, a)
      <3>1. After(h, a) >= a + HeaderSize
        BY <1>0, <2>4, AfterIsHigher
      <3>2. a + HeaderSize <= HeapSize
        BY <1>0, <2>4, <3>1 DEF HeaderSize
      <3> QED BY <1>01, <2>4, <3>2
    <2>5. \A b \in P : b \in Nat /\ b < HeapSize /\ (b > a => b >= After(h, a))
      BY <1>0, <2>3, <2>4 DEF Addr, Tiled
    <2>6. w[a] = {a} \cup (IF After(h, a) < HeapSize THEN w[After(h, a)] ELSE {})
      BY <1>00, <2>4, <2>44
    <2>7. CASE After(h, a) < HeapSize
      <3>1. After(h, a) \in P
        BY <1>0, <2>3, <2>7 DEF Tiled
      <3> DEFINE c == After(h, a)
                 k == HeapSize - c
      <3>2. k \in Nat /\ k < n /\ n \in Nat
        BY <1>0, <2>3, <2>4
      <3>3. k \notin T
        BY <2>2, <3>2
      <3>4. w[c] = From(c)
        BY <3>1, <3>2, <3>3 DEF T
      <3>5. w[a] = {a} \cup w[c]
        BY <2>6, <2>7
      <3>6. From(a) = {a} \cup From(c)
        <4> USE DEF From
        <4>1. ASSUME NEW b \in P PROVE b >= a <=> b = a \/ b >= c
          BY <2>3, <2>4, <2>5
        <4>2. From(c) \subseteq P
          OBVIOUS
        <4> HIDE DEF c
        <4> QED BY <2>3, <4>1, <4>2
      <3> QED BY <2>3, <3>4, <3>5, <3>6
    <2>8. CASE After(h, a) = HeapSize
      <3>1. w[a] = {a}
        BY <1>0, <2>6, <2>8
      <3>2. From(a) = {a}
        <4> USE DEF From
        <4>1. ASSUME NEW b \in P PROVE b >= a <=> b = a
          <5>1. b \in Nat /\ b < HeapSize /\ (b > a => b >= After(h, a))
            BY <2>5
          <5> QED BY <1>0, <2>4, <2>8, <5>1
        <4> QED BY <2>3, <4>1
      <3> QED BY <2>3, <3>1, <3>2
    <2> QED BY <1>0, <2>4, <2>7, <2>8
  <1>3. w[0] = From(0)
    <2> HIDE DEF From
    <2>1. HeapSize \in Nat /\ HeapSize = HeapSize - 0 /\ HeapSize \notin T
      BY <1>0, <1>2
    <2> QED BY <1>0, <2>1 DEF T
  <1>4. From(0) = P
    <2>1. \A b \in P : b >= 0
      BY <1>0 DEF Addr
    <2> QED BY <2>1
  <1> QED BY <1>3, <1>4 DEF w

-----------------------------------------------------------------------------
(* No two neighbours are free.                                             *)
NoFreeNeighbours(m, P) ==
  \A a \in P : m[a] < 0 /\ After(m, a) < HeapSize => m[After(m, a)] >= 0

Sound(m, P) == Tiled(m, P) /\ NoFreeNeighbours(m, P)

(* What tiles the heap is the set of the packets, in either state.         *)
LEMMA PacketsAre ==
  ASSUME NEW P
  PROVE  /\ IsMemory(flash) /\ Tiled(Heads(flash), P) => Packets = P
         /\ IsMemory(flash') /\ Tiled(Heads(flash'), P) => Packets' = P
  BY PacketsOfFlash, WalkIsTiling

(* Numbers, for the provers.                                               *)
LEMMA TilingNumbers ==
  ASSUME NEW m \in HeaderMap, NEW P, Tiled(m, P), NEW a \in P
  PROVE  /\ a \in Addr /\ a \in Nat /\ a < HeapSize /\ m[a] \in Int
         /\ After(m, a) \in Nat /\ After(m, a) >= a + 4 /\ After(m, a) > a /\ After(m, a) <= HeapSize
         /\ After(m, a) = a + 4 + (IF m[a] < 0 THEN -m[a] ELSE m[a])
         /\ HeapSize \in Nat /\ HeapSize > 4
  <1>1. a \in Addr /\ HeapSize \in Nat /\ HeapSize > 4
    BY HeapNumbers DEF Tiled
  <1>2. m[a] \in Int /\ After(m, a) \in Nat /\ After(m, a) >= a + 4 /\ After(m, a) > a
    BY <1>1, AfterIsHigher DEF HeaderMap, HeaderSize
  <1>3. After(m, a) = a + 4 + (IF m[a] < 0 THEN -m[a] ELSE m[a])
    BY <1>1, <1>2 DEF After, Abs, Addr, HeaderSize
  <1>4. After(m, a) <= HeapSize
    BY DEF Tiled
  <1> QED BY <1>1, <1>2, <1>3, <1>4 DEF Addr

(* One of two packets ends before the other begins.                        *)
LEMMA PacketsApart ==
  ASSUME NEW m \in HeaderMap, NEW P, Tiled(m, P), NEW a \in P, NEW b \in P, a # b
  PROVE  After(m, a) <= b \/ After(m, b) <= a
  <1>1. a \in Nat /\ b \in Nat
    BY TilingNumbers
  <1>2. a < b \/ b < a
    BY <1>1
  <1> QED BY <1>2 DEF Tiled

(* Writes that leave the headers of the packets alone.                     *)
LEMMA HeadersKept ==
  ASSUME NEW m \in HeaderMap, NEW P, Sound(m, P), NEW n \in HeaderMap, \A a \in P : n[a] = m[a]
  PROVE  Sound(n, P)
  <1>1. \A a \in P : After(n, a) = After(m, a)
    BY DEF After
  <1>2. Tiled(n, P)
    BY <1>1 DEF Sound, Tiled
  <1>3. NoFreeNeighbours(n, P)
    BY <1>1 DEF Sound, Tiled, NoFreeNeighbours
  <1> QED BY <1>2, <1>3 DEF Sound

(* The packets when one of them reaches from x up to e.                    *)
Joined(P, x, e) == {b \in P : b <= x \/ b >= e}

(* One header that makes one packet of all from x up to e.                 *)
LEMMA Merge ==
  ASSUME NEW m \in HeaderMap, NEW P, Tiled(m, P), NEW x \in P, NEW e \in Nat,
         e = HeapSize \/ e \in P, x < e, NEW v \in Int, Abs(v) = e - x - 4,
         NEW n \in HeaderMap, n[x] = v, \A b \in P : b # x => n[b] = m[b]
  PROVE  LET Q == Joined(P, x, e)
         IN  /\ Tiled(n, Q) /\ After(n, x) = e
             /\ \A b \in Q : b # x => n[b] = m[b] /\ After(n, b) = After(m, b)
  <1> DEFINE Q == Joined(P, x, e)
  <1> USE DEF Joined
  <1>1. /\ x \in Addr /\ x \in Nat /\ x < HeapSize /\ HeapSize \in Nat /\ e <= HeapSize
    <2>1. e \in P => e < HeapSize
      BY TilingNumbers
    <2> QED BY <2>1, TilingNumbers
  <1>2. n \in HeaderMap /\ n[x] = v /\ \A b \in P : b # x => n[b] = m[b]
    OBVIOUS
  <1>3. Q \subseteq P /\ x \in Q /\ 0 \in P /\ P \subseteq Addr
    BY <1>1 DEF Tiled
  <1>4. After(n, x) = e
    BY <1>1, <1>2 DEF After, HeaderSize
  <1>5. \A b \in Q : b # x => n[b] = m[b] /\ After(n, b) = After(m, b)
    BY <1>2, <1>3 DEF After
  <1>6. ASSUME NEW b \in Q
        PROVE  /\ b \in Nat /\ b \in P /\ After(m, b) \in Nat /\ After(m, b) > b
               /\ After(m, b) <= HeapSize
               /\ b < x => After(m, b) <= x
               /\ b <= x \/ b >= e
    <2>1. b \in P
      OBVIOUS
    <2>2. b < x => After(m, b) <= x
      BY <2>1 DEF Tiled
    <2> QED BY <2>1, <2>2, TilingNumbers
  <1>7. \A b \in Q : After(n, b) <= HeapSize
    BY <1>1, <1>4, <1>5, <1>6
  <1>8. ASSUME NEW b \in Q, After(n, b) < HeapSize
        PROVE  After(n, b) \in Q
    <2>1. CASE b = x
      <3>1. e \in P
        BY <1>1, <1>4, <1>8, <2>1
      <3> QED BY <1>4, <2>1, <3>1
    <2>2. CASE b # x
      <3>1. After(n, b) = After(m, b)
        BY <1>5, <2>2
      <3>2. After(m, b) \in P
        BY <1>6, <1>8, <3>1 DEF Tiled
      <3>3. After(m, b) <= x \/ After(m, b) >= e
        BY <1>1, <1>6, <2>2
      <3> QED BY <3>1, <3>2, <3>3
    <2> QED BY <2>1, <2>2
  <1>9. ASSUME NEW b \in Q, NEW c \in Q, b < c
        PROVE  After(n, b) <= c
    <2>1. CASE b = x
      <3>1. c >= e
        BY <1>1, <1>6, <1>9, <2>1
      <3> QED BY <1>4, <2>1, <3>1
    <2>2. CASE b # x
      <3>1. After(m, b) <= c
        BY <1>6, <1>9 DEF Tiled
      <3> QED BY <1>5, <2>2, <3>1
    <2> QED BY <2>1, <2>2
  <1>10. 0 \in Q
    BY <1>1, <1>3
  <1> HIDE DEF Q
  <1>11. Tiled(n, Q)
    BY <1>3, <1>7, <1>8, <1>9, <1>10 DEF Tiled
  <1> QED BY <1>2, <1>4, <1>5, <1>11 DEF Q

(* One header that ends a free packet at the remainder's.                  *)
LEMMA Split ==
  ASSUME NEW m \in HeaderMap, NEW P, Sound(m, P), NEW a \in P, m[a] < 0,
         NEW s \in Nat, s > 0, s + 4 <= -m[a],
         NEW n \in HeaderMap, n[a] = s, n[a + 4 + s] = m[a] + s + 4,
         \A b \in P : b # a => n[b] = m[b]
  PROVE  LET r == a + 4 + s
         IN  /\ Sound(n, P \cup {r})
             /\ r \notin P /\ r \in Addr /\ n[r] <= 0 /\ After(n, a) = r
  <1> DEFINE r == a + 4 + s
             Q == P \cup {r}
  <1>1. /\ a \in Addr /\ a \in Nat /\ m[a] \in Int /\ HeapSize \in Nat
        /\ After(m, a) = a + 4 - m[a] /\ After(m, a) <= HeapSize
    BY TilingNumbers DEF Sound
  <1>2. r \in Addr /\ r \in Nat /\ a < r /\ r < After(m, a)
    BY <1>1 DEF Addr
  <1>3. n[a] = s /\ \A b \in P : b # a => n[b] = m[b]
    OBVIOUS
  <1>4. n[r] = m[a] + s + 4
    OBVIOUS
  <1>5. P \subseteq Addr /\ 0 \in P
    BY DEF Sound, Tiled
  <1>6. After(n, a) = r
    BY <1>1, <1>3 DEF After, Abs, HeaderSize
  <1>7. After(n, r) = After(m, a)
    <2>1. n[r] \in Int /\ n[r] <= 0
      BY <1>1, <1>4
    <2>2. After(n, r) = r + 4 - n[r]
      BY <1>2, <2>1 DEF After, Abs, HeaderSize
    <2> QED BY <1>1, <1>4, <2>2
  <1>8. \A b \in P : b # a => n[b] = m[b] /\ After(n, b) = After(m, b)
    BY <1>3, <1>5 DEF After
  <1>9. ASSUME NEW b \in P
        PROVE  /\ b \in Nat /\ After(m, b) \in Nat /\ After(m, b) > b /\ After(m, b) <= HeapSize
               /\ b # a => After(m, b) <= a \/ After(m, a) <= b
    BY TilingNumbers, PacketsApart DEF Sound
  <1>10. r \notin P
    <2> SUFFICES ASSUME r \in P PROVE FALSE
      OBVIOUS
    <2> DEFINE b == r
    <2>1. b \in P /\ a < b /\ b < After(m, a)
      BY <1>2
    <2> HIDE DEF b, r
    <2> QED BY <1>1, <1>9, <2>1
  <1> HIDE DEF r
  <1>11. \A b \in Q : After(n, b) <= HeapSize
    BY <1>1, <1>2, <1>6, <1>7, <1>8, <1>9
  <1>12. \A b \in P : After(m, b) < HeapSize => After(m, b) \in P
    BY DEF Sound, Tiled
  <1>13. \A b \in Q : After(n, b) < HeapSize => After(n, b) \in Q
    BY <1>6, <1>7, <1>8, <1>12
  <1>14. ASSUME NEW b \in Q, NEW c \in Q, b < c
         PROVE  After(n, b) <= c
    <2>1. CASE b = r
      <3>1. c \in P /\ c # a
        BY <1>1, <1>2, <1>14, <2>1
      <3>2. After(m, a) <= c
        BY <1>1, <1>2, <1>9, <1>14, <2>1, <3>1
      <3> QED BY <1>7, <2>1, <3>2
    <2>2. CASE b = a
      <3>1. CASE c = r
        BY <1>2, <1>6, <2>2, <3>1
      <3>2. CASE c # r
        <4>1. After(m, a) <= c
          BY <1>1, <1>9, <1>14, <2>2, <3>2
        <4>2. c \in Nat
          BY <1>9, <3>2
        <4> QED BY <1>1, <1>2, <1>6, <2>2, <4>1, <4>2
      <3> QED BY <3>1, <3>2
    <2>3. CASE b # r /\ b # a /\ c = r
      <3>1. b \in P /\ After(n, b) = After(m, b)
        BY <1>8, <2>3
      <3>2. After(m, b) <= a
        BY <1>1, <1>2, <1>9, <1>14, <2>3, <3>1
      <3> QED BY <1>1, <1>2, <1>9, <2>3, <3>1, <3>2
    <2>4. CASE b # r /\ b # a /\ c # r
      <3>1. b \in P /\ c \in P /\ After(n, b) = After(m, b)
        BY <1>8, <2>4
      <3> QED BY <1>14, <3>1 DEF Sound, Tiled
    <2> QED BY <2>1, <2>2, <2>3, <2>4
  <1>15. Tiled(n, Q)
    <2> HIDE DEF Q
    <2>1. Q \subseteq Addr /\ 0 \in Q
      BY <1>2, <1>5 DEF Q
    <2> QED BY <1>11, <1>13, <1>14, <2>1 DEF Tiled
  <1>16. NoFreeNeighbours(n, Q)
    <2> SUFFICES ASSUME NEW b \in Q, n[b] < 0, After(n, b) < HeapSize
                 PROVE  n[After(n, b)] >= 0
      BY DEF NoFreeNeighbours
    <2>1. CASE b = a
      BY <1>3, <2>1
    <2>2. CASE b = r
      <3>1. After(m, a) \in P /\ m[After(m, a)] >= 0
        BY <1>7, <1>12, <2>2 DEF Sound, NoFreeNeighbours
      <3>2. After(m, a) # a
        BY <1>1, <1>9
      <3> QED BY <1>7, <1>8, <2>2, <3>1, <3>2
    <2>3. CASE b # a /\ b # r
      <3>1. b \in P /\ n[b] = m[b] /\ After(n, b) = After(m, b)
        BY <1>8, <2>3
      <3>2. After(m, b) \in P /\ m[After(m, b)] >= 0
        BY <1>12, <3>1 DEF Sound, NoFreeNeighbours
      <3>3. n[After(m, b)] >= 0
        BY <1>3, <1>8, <3>2
      <3> QED BY <3>1, <3>3
    <2> QED BY <2>1, <2>2, <2>3
  <1>17. n[r] <= 0
    BY <1>1, <1>4
  <1> HIDE DEF Q
  <1> QED BY <1>2, <1>3, <1>6, <1>8, <1>10, <1>15, <1>16, <1>17 DEF r, Q, Sound

(* The packet before the freed one, if any.                                *)
LEMMA Before ==
  ASSUME NEW m \in HeaderMap, NEW P, Tiled(m, P), NEW a \in P, \E b \in P : b < a
  PROVE  LET prev == Max({b \in P : b < a})
         IN  prev \in P /\ prev < a /\ After(m, prev) = a
  <1> DEFINE E == {b \in P : b < a}
             T == {n \in Nat : \E b \in E : n = HeapSize - b}
             prev == Max(E)
  <1>1. \A b \in P : b \in Nat /\ b < HeapSize /\ HeapSize \in Nat
    BY TilingNumbers
  <1>2. T \subseteq Nat /\ T # {}
    <2>1. PICK b \in P : b < a
      OBVIOUS
    <2>2. HeapSize - b \in Nat
      BY <1>1
    <2> QED BY <2>1, <2>2
  <1>3. PICK n \in T : \A k \in T : n <= k
    <2> HIDE DEF T
    <2> QED BY <1>2, LeastMember
  <1>4. PICK b \in E : n = HeapSize - b
    OBVIOUS
  <1>5. \A c \in E : b >= c
    <2> SUFFICES ASSUME NEW c \in E PROVE b >= c
      OBVIOUS
    <2>1. HeapSize - c \in T
      BY <1>1
    <2> HIDE DEF T
    <2>2. n <= HeapSize - c
      BY <1>3, <2>1
    <2> QED BY <1>1, <1>4, <2>2
  <1> HIDE DEF T, E
  <1>6. prev \in E /\ \A c \in E : prev >= c
    BY <1>5 DEF Max
  <1> HIDE DEF prev
  <1> USE DEF E
  <1>7. prev \in P /\ prev < a
    BY <1>6
  <1>8. After(m, prev) <= a /\ After(m, prev) \in Nat /\ After(m, prev) > prev
    BY <1>7, TilingNumbers DEF Tiled
  <1>9. After(m, prev) \in P
    BY <1>1, <1>7, <1>8 DEF Tiled
  <1>10. ~(After(m, prev) < a)
    BY <1>1, <1>6, <1>7, <1>8, <1>9
  <1>11. After(m, prev) = a
    BY <1>1, <1>8, <1>10
  <1> QED BY <1>7, <1>11 DEF prev

(* What flashheap_free writes, where, and how far the packet then reaches; *)
(* y is the header behind the freed packet.                                *)
FreedBefore(h, prev, a) == IF prev < a THEN Joins(h[prev]) ELSE 0

FreedAt(h, prev, a) == IF FreedBefore(h, prev, a) < 0 THEN prev ELSE a

FreedHeader(h, prev, a, y) == FreedBefore(h, prev, a) - h[a] + Joins(y)

FreedEnd(h, a, y) == IF Joins(y) < 0 THEN After(h, After(h, a)) ELSE After(h, a)

(* The packet before, if there is one, and a header behind that is no free *)
(* packet's unless it is in the heap.                                      *)
Neighbours(h, P, prev, a, y) ==
  /\ prev \in P /\ y \in Int
  /\ \/ prev = a /\ \A b \in P : ~(b < a)
     \/ prev < a /\ After(h, prev) = a
  /\ After(h, a) < HeapSize => y = h[After(h, a)]
  /\ After(h, a) >= HeapSize => y >= 0

LEMMA FreedRoom ==
  ASSUME NEW m \in HeaderMap, NEW P, Sound(m, P), NEW a \in P, m[a] >= 0,
         NEW prev, NEW y, Neighbours(m, P, prev, a, y),
         NEW c, c = After(m, a), NEW x, x = FreedAt(m, prev, a),
         NEW v, v = FreedHeader(m, prev, a, y), NEW e, e = FreedEnd(m, a, y)
  PROVE  /\ x \in P /\ x \in Nat /\ x <= a
         /\ \/ x = a /\ (prev < a => m[prev] >= 0)
            \/ x = prev /\ prev < a /\ m[prev] < 0
         /\ v \in Int /\ v <= 0 /\ Abs(v) = e - x - 4
         /\ e \in Nat /\ e >= c /\ e > x /\ e <= HeapSize /\ (e = HeapSize \/ e \in P)
         /\ \/ c < HeapSize /\ c \in P /\ m[c] < 0 /\ e = After(m, c)
            \/ e = c /\ (c < HeapSize => m[c] >= 0)
  <1> DEFINE before == FreedBefore(m, prev, a)
             behind == Joins(y)
  <1>0. /\ Tiled(m, P) /\ NoFreeNeighbours(m, P) /\ HeapSize \in Nat
        /\ prev \in P /\ y \in Int
        /\ c < HeapSize => y = m[c]
        /\ c >= HeapSize => y >= 0
    BY HeapNumbers DEF Sound, Neighbours
  <1>1. /\ a \in Nat /\ m[a] \in Int /\ c = a + 4 + m[a] /\ c <= HeapSize /\ c \in Nat /\ c > a
        /\ prev \in Nat /\ m[prev] \in Int
    BY <1>0, TilingNumbers
  <1>11. prev < a => After(m, prev) = a
    BY <1>1 DEF Neighbours
  <1>2. c < HeapSize => c \in P
    BY <1>0 DEF Tiled
  <1>3. c < HeapSize => /\ m[c] \in Int /\ After(m, c) \in Nat /\ After(m, c) > c
                        /\ After(m, c) <= HeapSize
                        /\ m[c] < 0 => After(m, c) = c + 4 - m[c]
    BY <1>0, <1>2, TilingNumbers
  <1>4. prev < a /\ m[prev] < 0 => a = prev + 4 - m[prev]
    BY <1>0, <1>1, <1>11, TilingNumbers
  <1>5. \/ c < HeapSize /\ m[c] < 0 /\ behind = m[c] - 4 /\ behind < 0
        \/ (c < HeapSize => m[c] >= 0) /\ behind = 0
    BY <1>0, <1>1, <1>3 DEF Joins, HeaderSize
  <1>6. \/ prev < a /\ m[prev] < 0 /\ before = m[prev] - 4 /\ before < 0
        \/ (prev < a => m[prev] >= 0) /\ before = 0
    BY <1>1 DEF Joins, FreedBefore, HeaderSize
  <1>7. x = (IF before < 0 THEN prev ELSE a) /\ v = before - m[a] + behind
        /\ e = (IF behind < 0 THEN After(m, c) ELSE c)
    BY DEF FreedAt, FreedHeader, FreedEnd
  <1> HIDE DEF before, behind
  <1>8. /\ x \in P /\ x \in Nat /\ x <= a
        /\ \/ x = a /\ (prev < a => m[prev] >= 0) /\ before = 0
           \/ x = prev /\ prev < a /\ m[prev] < 0 /\ before = m[prev] - 4
    BY <1>0, <1>1, <1>6, <1>7
  <1>9. \/ c < HeapSize /\ c \in P /\ m[c] < 0 /\ e = After(m, c) /\ behind = m[c] - 4
        \/ e = c /\ (c < HeapSize => m[c] >= 0) /\ behind = 0
    BY <1>2, <1>5, <1>7
  <1>10. e \in Nat /\ e >= c /\ e > x /\ e <= HeapSize /\ (e = HeapSize \/ e \in P)
    <2>1. c < HeapSize /\ After(m, c) < HeapSize => After(m, c) \in P
      BY <1>0, <1>2 DEF Tiled
    <2> QED BY <1>0, <1>1, <1>2, <1>3, <1>8, <1>9, <2>1
  <1>12. v \in Int /\ v <= 0 /\ -v = e - x - 4
    <2>1. \/ x = a /\ before = 0
          \/ x = prev /\ before = m[prev] - 4 /\ m[prev] < 0 /\ a = prev + 4 - m[prev]
      BY <1>4, <1>8
    <2>2. \/ e = c /\ behind = 0
          \/ e = c + 4 - m[c] /\ behind = m[c] - 4 /\ m[c] < 0 /\ m[c] \in Int
      BY <1>3, <1>9
    <2>3. before \in Int /\ before <= 0 /\ behind \in Int /\ behind <= 0
      BY <1>1, <2>1, <2>2
    <2>4. v = before - m[a] + behind
      BY <1>7
    <2>5. v \in Int /\ v <= 0
      BY <1>1, <2>3, <2>4
    <2>6. -v = e - x - 4
      BY <1>1, <2>1, <2>2, <2>4
    <2> QED BY <2>5, <2>6
  <1>13. Abs(v) = e - x - 4
    BY <1>8, <1>10, <1>12 DEF Abs
  <1> QED BY <1>8, <1>9, <1>10, <1>12, <1>13

(* Which packets there are after it.                                       *)
LEMMA FreeTiles ==
  ASSUME NEW m \in HeaderMap, NEW P, Sound(m, P), NEW a \in P, m[a] >= 0,
         NEW prev, NEW y, Neighbours(m, P, prev, a, y),
         NEW x, x = FreedAt(m, prev, a), NEW v, v = FreedHeader(m, prev, a, y),
         NEW n \in HeaderMap, n[x] = v, \A b \in P : b # x => n[b] = m[b]
  PROVE  \E Q \in SUBSET P :
               /\ Sound(n, Q)
               /\ \A b \in P : b # a /\ m[b] >= 0 => b \in Q /\ n[b] = m[b]
               /\ \A b \in Q : n[b] > 0 => b # a /\ n[b] = m[b]
  <1> DEFINE c == After(m, a)
             e == FreedEnd(m, a, y)
             Q == Joined(P, x, e)
  <1> HIDE DEF c, e
  <1>0. /\ Tiled(m, P) /\ NoFreeNeighbours(m, P) /\ HeapSize \in Nat
        /\ prev \in P
        /\ \/ prev = a /\ \A b \in P : ~(b < a)
           \/ prev < a /\ After(m, prev) = a
    <2>1. Tiled(m, P) /\ NoFreeNeighbours(m, P)
      BY DEF Sound
    <2> QED BY <2>1, HeapNumbers DEF Neighbours
  <1>1. /\ a \in Nat /\ m[a] \in Int /\ c = a + 4 + m[a] /\ c <= HeapSize /\ c \in Nat /\ c > a
        /\ prev \in Nat /\ m[prev] \in Int
        /\ prev < a => After(m, prev) = a
    BY <1>0, TilingNumbers DEF c
  <1>2. c < HeapSize => c \in P
    BY <1>0 DEF Tiled, c
  <1>7. /\ x \in P /\ x \in Nat /\ x <= a
        /\ \/ x = a /\ (prev < a => m[prev] >= 0)
           \/ x = prev /\ prev < a /\ m[prev] < 0
        /\ v \in Int /\ v <= 0 /\ Abs(v) = e - x - 4
        /\ e \in Nat /\ e >= c /\ e > x /\ e <= HeapSize /\ (e = HeapSize \/ e \in P)
        /\ \/ c < HeapSize /\ c \in P /\ m[c] < 0 /\ e = After(m, c)
           \/ e = c /\ (c < HeapSize => m[c] >= 0)
    BY FreedRoom DEF c, e
  <1>11. /\ Tiled(n, Q) /\ After(n, x) = e
         /\ \A b \in Q : b # x => n[b] = m[b] /\ After(n, b) = After(m, b)
    <2>1. x \in P /\ e \in Nat /\ (e = HeapSize \/ e \in P) /\ x < e
      BY <1>7
    <2>2. v \in Int /\ Abs(v) = e - x - 4
      BY <1>7
    <2>3. n[x] = v /\ \A b \in P : b # x => n[b] = m[b]
      OBVIOUS
    <2> HIDE DEF Q
    <2> QED BY <1>0, <2>1, <2>2, <2>3, Merge DEF Q
  <1>12. n[x] = v
    OBVIOUS
  <1>13. \A b \in P : /\ b \in Nat /\ m[b] \in Int /\ After(m, b) \in Nat /\ After(m, b) > b
                      /\ b < a => After(m, b) <= a
                      /\ b > a => b >= c
    <2>1. ASSUME NEW b \in P
          PROVE  /\ b < a => After(m, b) <= a
                 /\ b > a => b >= c
      BY <1>0, <1>1 DEF Tiled, c
    <2> QED BY <1>0, <2>1, TilingNumbers
  <1> USE DEF Joined
  <1>14. ASSUME NEW b \in P, b # a, m[b] >= 0
         PROVE  b \in Q /\ n[b] = m[b]
    <2>1. b # x
      BY <1>7, <1>14, <1>13
    <2>2. b <= x \/ b >= e
      <3>1. CASE b < a
        <4>1. CASE x = a
          BY <3>1, <4>1, <1>13, <1>1
        <4>2. CASE x # a
          <5>1. x = prev /\ prev < a /\ After(m, prev) = a
            BY <1>1, <1>7, <4>2
          <5>2. After(m, b) <= prev \/ After(m, prev) <= b
            BY <1>0, <2>1, <5>1, PacketsApart
          <5> QED BY <1>1, <1>13, <3>1, <5>1, <5>2
        <4> QED BY <4>1, <4>2
      <3>2. CASE b > a
        <4>1. b >= c
          BY <1>13, <3>2
        <4>2. CASE c < HeapSize /\ c \in P /\ m[c] < 0 /\ e = After(m, c)
          <5>2. b # c /\ b > c
            BY <1>1, <1>13, <1>14, <4>1, <4>2
          <5> QED BY <1>0, <4>2, <5>2 DEF Tiled
        <4>3. CASE e = c
          BY <4>1, <4>3
        <4> QED BY <1>7, <4>2, <4>3
      <3> QED BY <1>1, <1>13, <1>14, <3>1, <3>2
    <2>3. b \in Q
      BY <2>2
    <2> QED BY <1>11, <2>1, <2>3
  <1>15. ASSUME NEW b \in Q, n[b] > 0
         PROVE  b # a /\ n[b] = m[b]
    <2>1. b # x
      BY <1>7, <1>12, <1>15
    <2>2. b # a
      <3>1. CASE x = a
        BY <2>1, <3>1
      <3>2. CASE x # a
        <4>1. x < a
          BY <1>1, <1>7, <3>2
        <4> QED BY <1>1, <1>7, <4>1
      <3> QED BY <3>1, <3>2
    <2> QED BY <1>11, <2>1, <2>2
  <1>16. NoFreeNeighbours(n, Q)
    <2> SUFFICES ASSUME NEW b \in Q, n[b] < 0, After(n, b) < HeapSize
                 PROVE  n[After(n, b)] >= 0
      BY DEF NoFreeNeighbours
    <2>0. After(n, b) \in Q
      BY <1>11 DEF Tiled
    <2>1. CASE b = x
      <3>1. After(n, b) = e /\ e \in Q /\ e # x
        BY <1>7, <1>11, <2>0, <2>1
      <3>2. m[e] >= 0
        <4>1. CASE c < HeapSize /\ c \in P /\ m[c] < 0 /\ e = After(m, c)
          BY <1>0, <3>1, <4>1 DEF NoFreeNeighbours
        <4>2. CASE e = c /\ (c < HeapSize => m[c] >= 0)
          <5>1. e < HeapSize
            BY <1>0, <3>1 DEF Tiled, Addr
          <5> QED BY <4>2, <5>1
        <4> QED BY <1>7, <4>1, <4>2
      <3> QED BY <1>11, <3>1, <3>2
    <2>2. CASE b # x
      <3> DEFINE d == After(m, b)
      <3>1. n[b] = m[b] /\ After(n, b) = d /\ b \in P /\ d \in Q /\ d < HeapSize /\ m[b] < 0
        BY <1>11, <2>0, <2>2
      <3>2. m[d] >= 0
        BY <1>0, <3>1 DEF NoFreeNeighbours
      <3>3. d # x
        <4> SUFFICES ASSUME d = x PROVE FALSE
          OBVIOUS
        <4>1. CASE x = a
          <5>1. b < a
            BY <1>13, <3>1, <4>1
          <5>2. prev < a /\ After(m, prev) = a
            BY <1>0, <1>1, <1>13, <3>1, <5>1
          <5>3. b = prev
            <6> SUFFICES ASSUME b # prev PROVE FALSE
              OBVIOUS
            <6>1. After(m, b) <= prev \/ After(m, prev) <= b
              BY <1>0, <3>1, PacketsApart
            <6> QED BY <1>1, <1>13, <3>1, <4>1, <5>1, <5>2, <6>1
          <5>4. x = prev
            <6>1. m[prev] < 0
              BY <3>1, <5>3
            <6> QED BY <1>1, <1>7, <5>2, <6>1
          <5> QED BY <1>1, <4>1, <5>2, <5>4
        <4>2. CASE x # a
          <5>1. m[x] < 0 /\ m[x] \in Int
            BY <1>7, <1>13, <4>2
          <5> QED BY <3>2, <5>1
        <4> QED BY <4>1, <4>2
      <3> HIDE DEF d
      <3>4. n[d] = m[d]
        BY <1>11, <3>1, <3>3
      <3> QED BY <3>1, <3>2, <3>4
    <2> QED BY <2>1, <2>2
  <1>17. Sound(n, Q)
    BY <1>11, <1>16 DEF Sound
  <1>18. Q \in SUBSET P
    OBVIOUS
  <1> HIDE DEF Q
  <1> QED BY <1>14, <1>15, <1>17, <1>18

-----------------------------------------------------------------------------
(* Headers that a write does not touch are as before it.                   *)
LEMMA HeadsElsewhere ==
  ASSUME NEW m, IsMemory(m), NEW x \in Nat, NEW bytes \in Seq(Byte),
         NEW n, n = Written(m, x, bytes), NEW a \in Addr, Readable(m, a),
         a + HeaderSize <= x \/ x + Len(bytes) <= a
  PROVE  Heads(n)[a] = Heads(m)[a]
  <1>1. IsMemory(n) /\ DOMAIN n = DOMAIN m
    BY WrittenFacts
  <1>2. Readable(n, a)
    BY <1>1 DEF Readable
  <1>3. Header(n, a) = Header(m, a)
    BY HeaderElsewhere DEF Addr
  <1> QED BY <1>1, <1>2, <1>3, HeadsFacts

(* A header written anywhere is the one read there.                        *)
LEMMA HeaderWrittenInHeads ==
  ASSUME NEW m, IsMemory(m), NEW x \in Addr, Readable(m, x),
         NEW v \in Int, Abs(v) <= HeapSize,
         NEW n, n = Written(m, x, HeaderBytes(v))
  PROVE  Heads(n)[x] = v
  <1>1. -INT32_MAX <= v /\ v <= INT32_MAX
    <2>1. INT32_MAX \in Nat
      BY SMT DEF INT32_MAX
    <2>2. HeapSize <= INT32_MAX /\ HeapSize \in Nat
      BY FlashHeapAssumption
    <2>3. v <= HeapSize /\ -v <= HeapSize
      BY <2>2 DEF Abs
    <2> QED BY <2>1, <2>2, <2>3
  <1>2. x \in Nat
    BY DEF Addr
  <1>3. HeaderBytes(v) \in Seq(Byte)
    BY HeaderBytesAreBytes
  <1>4. IsMemory(n) /\ DOMAIN n = DOMAIN m
    BY <1>2, <1>3, WrittenFacts
  <1>5. Header(n, x) = v
    BY <1>1, <1>2, HeaderWritten
  <1>6. Readable(n, x)
    BY <1>4 DEF Readable
  <1> QED BY <1>4, <1>5, <1>6, HeadsFacts

(* The headers of packets can be read.                                     *)
LEMMA PacketHeaders ==
  ASSUME NEW m, IsMemory(m), NEW P, Tiled(Heads(m), P), NEW a \in P
  PROVE  /\ a \in Addr /\ a \in Nat /\ Readable(m, a) /\ Heads(m)[a] = Header(m, a)
         /\ Header(m, a) \in Int
  <1>1. Heads(m) \in HeaderMap
    BY HeadsFacts
  <1>2. a \in Addr /\ a \in Nat /\ a + 4 <= HeapSize
    <2>1. /\ a \in Addr /\ a \in Nat /\ After(Heads(m), a) \in Nat
          /\ After(Heads(m), a) >= a + 4 /\ After(Heads(m), a) <= HeapSize /\ HeapSize \in Nat
      BY <1>1, TilingNumbers
    <2> QED BY <2>1
  <1>3. Readable(m, a)
    BY <1>2, HeadsFacts DEF HeaderSize
  <1> QED BY <1>2, <1>3, HeadsFacts, HeaderIsInt

(* A write inside of a packet, behind its header.                          *)
LEMMA InsideWritten ==
  ASSUME NEW m, IsMemory(m), NEW P, Tiled(Heads(m), P), NEW a \in P,
         NEW x \in Nat, NEW bytes \in Seq(Byte), a + HeaderSize <= x,
         x + Len(bytes) <= After(Heads(m), a),
         NEW n, n = Written(m, x, bytes)
  PROVE  /\ \A b \in P : Heads(n)[b] = Heads(m)[b]
         /\ \A b \in Addr : n[b] = m[b] \/ (a <= b /\ b < After(Heads(m), a))
  <1>1. Heads(m) \in HeaderMap /\ Len(bytes) \in Nat
    BY HeadsFacts
  <1>2. a \in Nat /\ After(Heads(m), a) \in Nat
    BY <1>1, TilingNumbers
  <1>3. ASSUME NEW b \in P
        PROVE  Heads(n)[b] = Heads(m)[b]
    <2>1. /\ b \in Addr /\ b \in Nat /\ Readable(m, b) /\ After(Heads(m), b) \in Nat
          /\ After(Heads(m), b) >= b + 4
      BY <1>1, TilingNumbers, PacketHeaders
    <2>2. b # a => After(Heads(m), b) <= a \/ After(Heads(m), a) <= b
      BY <1>1, PacketsApart
    <2>3. b + HeaderSize <= x \/ x + Len(bytes) <= b
      BY <1>1, <1>2, <2>1, <2>2 DEF HeaderSize
    <2> QED BY <2>1, <2>3, HeadsElsewhere
  <1>4. ASSUME NEW b \in Addr
        PROVE  n[b] = m[b] \/ (a <= b /\ b < After(Heads(m), a))
    <2>1. b \in DOMAIN m /\ b \in Nat
      BY MemoryFacts DEF Addr
    <2>2. b < x \/ x + Len(bytes) <= b => n[b] = m[b]
      BY <2>1, WrittenFacts
    <2> QED BY <1>1, <1>2, <2>1, <2>2 DEF HeaderSize
  <1> QED BY <1>3, <1>4

(* A write over a packet's header.                                         *)
LEMMA HeaderOverwritten ==
  ASSUME NEW m, IsMemory(m), NEW P, Tiled(Heads(m), P), NEW x \in P,
         NEW bytes \in Seq(Byte), Len(bytes) = HeaderSize,
         NEW n, n = Written(m, x, bytes)
  PROVE  /\ \A b \in P : b # x => Heads(n)[b] = Heads(m)[b]
         /\ \A b \in Addr : n[b] = m[b] \/ (x <= b /\ b < After(Heads(m), x))
         /\ \A b \in Addr : Readable(m, b) /\ x + HeaderSize <= b => Heads(n)[b] = Heads(m)[b]
  <1>1. Heads(m) \in HeaderMap /\ Len(bytes) = 4
    BY HeadsFacts DEF HeaderSize
  <1>2. /\ x \in Addr /\ x \in Nat /\ After(Heads(m), x) \in Nat
        /\ After(Heads(m), x) >= x + 4
    BY <1>1, TilingNumbers
  <1>3. ASSUME NEW b \in P, b # x
        PROVE  Heads(n)[b] = Heads(m)[b]
    <2>1. /\ b \in Addr /\ b \in Nat /\ Readable(m, b) /\ After(Heads(m), b) \in Nat
          /\ After(Heads(m), b) >= b + 4
      BY <1>1, TilingNumbers, PacketHeaders
    <2>2. After(Heads(m), b) <= x \/ After(Heads(m), x) <= b
      BY <1>1, <1>3, PacketsApart
    <2>3. b + HeaderSize <= x \/ x + Len(bytes) <= b
      BY <1>1, <1>2, <2>1, <2>2 DEF HeaderSize
    <2> QED BY <1>2, <2>1, <2>3, HeadsElsewhere
  <1>4. ASSUME NEW b \in Addr
        PROVE  n[b] = m[b] \/ (x <= b /\ b < After(Heads(m), x))
    <2>1. b \in DOMAIN m /\ b \in Nat
      BY MemoryFacts DEF Addr
    <2>2. b < x \/ x + Len(bytes) <= b => n[b] = m[b]
      BY <1>2, <2>1, WrittenFacts
    <2> QED BY <1>1, <1>2, <2>1, <2>2
  <1>5. ASSUME NEW b \in Addr, Readable(m, b), x + HeaderSize <= b
        PROVE  Heads(n)[b] = Heads(m)[b]
    <2>1. x + Len(bytes) <= b
      BY <1>5
    <2> QED BY <1>2, <1>5, <2>1, HeadsElsewhere
  <1> QED BY <1>3, <1>4, <1>5

(* A packet's header rewritten.                                            *)
LEMMA HeaderRewritten ==
  ASSUME NEW m, IsMemory(m), NEW P, Tiled(Heads(m), P), NEW x \in P,
         NEW v \in Int, Abs(v) <= HeapSize,
         NEW n, n = Written(m, x, HeaderBytes(v))
  PROVE  /\ Heads(n)[x] = v
         /\ \A b \in P : b # x => Heads(n)[b] = Heads(m)[b]
         /\ \A b \in Addr : n[b] = m[b] \/ (x <= b /\ b < After(Heads(m), x))
         /\ \A b \in Addr : Readable(m, b) /\ x + HeaderSize <= b => Heads(n)[b] = Heads(m)[b]
  <1>1. HeaderBytes(v) \in Seq(Byte) /\ Len(HeaderBytes(v)) = HeaderSize
    BY HeaderBytesAreBytes
  <1>2. x \in Addr /\ x \in Nat /\ Readable(m, x)
    BY PacketHeaders
  <1>3. Heads(n)[x] = v
    BY <1>2, HeaderWrittenInHeads
  <1> QED BY <1>1, <1>3, HeaderOverwritten

-----------------------------------------------------------------------------
(* A block that a caller holds is a packet in use and has its data.        *)
Holds(m, P, h) ==
  /\ h.ptr \in Nat /\ h.ptr - HeaderSize \in P
  /\ h.len \in Nat \ {0} /\ Heads(m)[h.ptr - HeaderSize] = h.len
  /\ \A k \in DOMAIN h.data : k \in 1 .. h.len /\ m[h.ptr + k - 1] = h.data[k]

(* Writes inside of one packet, its header included, leave the blocks that *)
(* are not there as they are.                                              *)
LEMMA BlockKept ==
  ASSUME NEW m, IsMemory(m), NEW P, Tiled(Heads(m), P), NEW a \in P, NEW n,
         \A b \in Addr : n[b] = m[b] \/ (a <= b /\ b < After(Heads(m), a)),
         NEW h, Holds(m, P, h), h.ptr - HeaderSize # a,
         Heads(n)[h.ptr - HeaderSize] = Heads(m)[h.ptr - HeaderSize],
         NEW Q, h.ptr - HeaderSize \in Q
  PROVE  Holds(n, Q, h)
  <1> DEFINE p == h.ptr - HeaderSize
  <1>0. Heads(m) \in HeaderMap
    BY HeadsFacts
  <1>1. /\ h.ptr \in Nat /\ p \in P /\ h.len \in Nat \ {0} /\ Heads(m)[p] = h.len
        /\ \A k \in DOMAIN h.data : k \in 1 .. h.len /\ m[h.ptr + k - 1] = h.data[k]
    BY DEF Holds
  <1>2. p \in Nat /\ p \in Addr /\ After(Heads(m), p) = p + 4 + h.len /\ After(Heads(m), p) \in Nat
        /\ After(Heads(m), p) <= HeapSize /\ HeapSize \in Nat
    BY <1>0, <1>1, TilingNumbers
  <1>3. a \in Nat /\ After(Heads(m), a) \in Nat /\ After(Heads(m), a) > a
    BY <1>0, TilingNumbers
  <1>4. After(Heads(m), a) <= p \/ After(Heads(m), p) <= a
    BY <1>0, <1>1, PacketsApart
  <1>5. h.ptr = p + 4
    BY <1>1 DEF HeaderSize
  <1>6. Heads(n)[p] = h.len /\ p \in Q
    BY <1>1
  <1> HIDE DEF p
  <1>7. ASSUME NEW k \in DOMAIN h.data
        PROVE  k \in 1 .. h.len /\ n[h.ptr + k - 1] = h.data[k]
    <2> DEFINE b == h.ptr + k - 1
    <2>1. k \in 1 .. h.len /\ m[b] = h.data[k]
      BY <1>1
    <2>2. b \in Addr /\ p <= b /\ b < After(Heads(m), p)
      BY <1>1, <1>2, <1>5, <2>1 DEF Addr
    <2> HIDE DEF b
    <2>3. ~(a <= b /\ b < After(Heads(m), a))
      BY <1>2, <1>3, <1>4, <2>2 DEF Addr
    <2>4. n[b] = m[b]
      BY <2>2, <2>3
    <2> QED BY <2>1, <2>4 DEF b
  <1> QED BY <1>1, <1>6, <1>7 DEF p, Holds

-----------------------------------------------------------------------------
(* What holds of the memory and of a call under way, whole heap or not.    *)
HeapType ==
  /\ IsMemory(flash)
  /\ pc # "idle" =>
       /\ addr \in Addr /\ Readable(flash, addr)
       /\ size \in Nat /\ size > 0
       /\ IsVector(data) /\ Len(data.bytes) <= size
  /\ pc = "others" => Len(data.starts) >= 3

(* The walk comes by headers within the device.                            *)
LEMMA PacketsReadable ==
  ASSUME IsMemory(flash), NEW a \in Packets
  PROVE  a \in Addr /\ a \in Nat /\ Readable(flash, a) /\ Header(flash, a) \in Int
  <1>1. a \in Addr /\ Readable(flash, a)
    BY PacketsOfFlash, WalkIsReadable
  <1>2. a \in Nat
    BY <1>1 DEF Addr
  <1> QED BY <1>1, <1>2, HeaderIsInt

(* The lowest and the highest of some addresses are among them.            *)
LEMMA FirstOf ==
  ASSUME NEW S, S \subseteq Nat, S # {}
  PROVE  Min(S) \in S
  BY LeastMember DEF Min

LEMMA LastOf ==
  ASSUME NEW S, S \subseteq Addr, S # {}
  PROVE  Max(S) \in S /\ \A b \in S : Max(S) >= b
  <1> DEFINE T == {n \in Nat : \E b \in S : n = HeapSize - b}
  <1>1. \A b \in S : b \in Nat /\ b < HeapSize /\ HeapSize \in Nat
    BY HeapNumbers DEF Addr
  <1>2. T \subseteq Nat /\ T # {}
    <2>1. PICK b \in S : TRUE
      OBVIOUS
    <2>2. HeapSize - b \in Nat
      BY <1>1
    <2> QED BY <2>1, <2>2
  <1>3. PICK n \in T : \A k \in T : n <= k
    <2> HIDE DEF T
    <2> QED BY <1>2, LeastMember
  <1>4. PICK b \in S : n = HeapSize - b
    OBVIOUS
  <1>5. \A c \in S : b >= c
    <2> SUFFICES ASSUME NEW c \in S PROVE b >= c
      OBVIOUS
    <2>1. HeapSize - c \in T
      BY <1>1
    <2> HIDE DEF T
    <2>2. n <= HeapSize - c
      BY <1>3, <2>1
    <2> QED BY <1>1, <1>4, <2>2
  <1> QED BY <1>5 DEF Max

(* The packet before a, in the walk, or a itself if there is none.         *)
Previous(P, a) ==
  LET earlier == {p \in P : p < a}
  IN  IF earlier = {} THEN a ELSE Max(earlier)

LEMMA PreviousIsPacket ==
  ASSUME NEW P, P \subseteq Addr, NEW a \in P
  PROVE  Previous(P, a) \in P
  BY LastOf DEF Previous

(* What flashheap_free does with a packet.                                 *)
LEMMA FreeIs ==
  ASSUME NEW a \in Nat, flashheap_free(a + HeaderSize)
  PROVE  /\ pc = "idle" /\ a \in Packets /\ Header(flash, a) >= 0
         /\ Readable(flash, FollowedBy(a))
         /\ flash' = FreePacket(Previous(Packets, a), a)
         /\ faults' = IF FollowedBy(a) >= HeapSize /\ Header(flash, FollowedBy(a)) < 0
                      THEN faults \cup {"end joined"} ELSE faults
         /\ held' = {h \in held : h.ptr # a + HeaderSize}
         /\ UNCHANGED locals
  <1>1. (a + HeaderSize) - HeaderSize = a
    BY DEF HeaderSize
  <1> QED BY <1>1 DEF flashheap_free, Within, Readable, Previous

(* The pieces of a vector of data are parts of it.                         *)
LEMMA PiecesOfData ==
  ASSUME IsVector(data)
  PROVE  /\ FirstPieces \in Seq(Byte) /\ Len(FirstPieces) <= Len(data.bytes)
         /\ \A i \in 1 .. Len(FirstPieces) : FirstPieces[i] = data.bytes[i]
         /\ Len(data.starts) < 3 => FirstPieces = data.bytes
         /\ Len(data.starts) >= 3 =>
              /\ OtherPieces \in Seq(Byte)
              /\ OtherPieces = << >> => FirstPieces = data.bytes
  <1> DEFINE b == data.bytes
             s == data.starts
  <1>1. /\ b \in Seq(Byte) /\ s \in Seq(0 .. Len(b)) /\ Len(b) \in Nat /\ Len(s) \in Nat
        /\ \A i, j \in DOMAIN s : i <= j => s[i] <= s[j]
    BY DEF IsVector
  <1>2. FirstPieces = (IF Len(s) < 4 THEN b ELSE SubSeq(b, 1, s[4]))
    BY DEF FirstPieces
  <1>3. OtherPieces = SubSeq(b, s[3] + 1, Len(b))
    BY DEF OtherPieces
  <1> HIDE DEF b, s
  <1>4. \A k \in 0 .. Len(b) : /\ SubSeq(b, 1, k) \in Seq(Byte) /\ Len(SubSeq(b, 1, k)) = k
                               /\ \A i \in 1 .. k : SubSeq(b, 1, k)[i] = b[i]
                               /\ SubSeq(b, k + 1, Len(b)) \in Seq(Byte)
                               /\ Len(SubSeq(b, k + 1, Len(b))) = Len(b) - k
    BY <1>1
  <1>5. SubSeq(b, 1, Len(b)) = b
    BY <1>1
  <1>6. \A k \in 1 .. Len(s) : s[k] \in 0 .. Len(b)
    BY <1>1
  <1>7. CASE Len(s) < 4
    <2>1. FirstPieces = b
      BY <1>2, <1>7
    <2>2. Len(s) >= 3 => OtherPieces \in Seq(Byte)
      <3> SUFFICES ASSUME Len(s) >= 3 PROVE OtherPieces \in Seq(Byte)
        OBVIOUS
      <3>1. s[3] \in 0 .. Len(b)
        BY <1>1, <1>6
      <3> QED BY <1>3, <1>4, <3>1
    <2> QED BY <1>1, <2>1, <2>2 DEF b, s
  <1>8. CASE ~(Len(s) < 4)
    <2>1. s[4] \in 0 .. Len(b) /\ s[3] \in 0 .. Len(b) /\ s[3] <= s[4]
      <3>1. 3 \in 1 .. Len(s) /\ 4 \in 1 .. Len(s) /\ DOMAIN s = 1 .. Len(s)
        BY <1>1, <1>8
      <3> QED BY <1>1, <1>6, <3>1
    <2>2. FirstPieces = SubSeq(b, 1, s[4])
      BY <1>2, <1>8
    <2>3. /\ FirstPieces \in Seq(Byte) /\ Len(FirstPieces) = s[4] /\ Len(FirstPieces) <= Len(b)
          /\ \A i \in 1 .. Len(FirstPieces) : FirstPieces[i] = b[i]
      BY <1>1, <1>4, <2>1, <2>2
    <2>4. OtherPieces \in Seq(Byte) /\ Len(OtherPieces) = Len(b) - s[3]
      BY <1>3, <1>4, <2>1
    <2>5. OtherPieces = << >> => FirstPieces = b
      <3> SUFFICES ASSUME OtherPieces = << >> PROVE FirstPieces = b
        OBVIOUS
      <3>1. s[3] = Len(b)
        <4>1. Len(b) - s[3] = 0
          BY <2>4
        <4> QED BY <1>1, <2>1, <4>1
      <3>2. s[4] = Len(b)
        BY <1>1, <2>1, <3>1
      <3> QED BY <1>5, <2>2, <3>2
    <2> QED BY <1>1, <1>8, <2>3, <2>4, <2>5 DEF b, s
  <1> QED BY <1>7, <1>8

LEMMA NoDataIsVector == IsVector(NoData) /\ Len(NoData.bytes) = 0
  BY DEF IsVector, NoData

(* Bytes written to the memory leave it a memory.                          *)
LEMMA WriteKeepsType ==
  ASSUME IsMemory(flash), NEW x \in Nat, NEW bytes \in Seq(Byte), flash' = Written(flash, x, bytes)
  PROVE  IsMemory(flash') /\ DOMAIN flash' = DOMAIN flash
  BY WrittenFacts

(* The memory of which flashheap_erase has made a heap.                    *)
LEMMA InitMemory ==
  ASSUME Init
  PROVE  \E m : IsMemory(m) /\ flash = Written(m, 0, EmptyPacket)
  <1>1. PICK b \in Behind :
          flash = Written([a \in 0 .. HeapSize + Len(b) - 1 |->
                            IF a < HeapSize THEN 255 ELSE b[a - HeapSize + 1]], 0, EmptyPacket)
    BY DEF Init
  <1> DEFINE m == [a \in 0 .. HeapSize + Len(b) - 1 |->
                    IF a < HeapSize THEN 255 ELSE b[a - HeapSize + 1]]
             n == HeapSize + Len(b)
  <1>2. b \in Seq(Byte)
    BY FlashHeapAssumption
  <1>3. n \in Nat /\ n >= HeapSize /\ HeapSize \in Nat /\ Len(b) \in Nat
    BY <1>2, HeapNumbers
  <1>4. m \in [0 .. n - 1 -> Byte]
    <2>1. ASSUME NEW a \in 0 .. n - 1
          PROVE  (IF a < HeapSize THEN 255 ELSE b[a - HeapSize + 1]) \in Byte
      <3>1. a >= HeapSize => a - HeapSize + 1 \in 1 .. Len(b)
        BY <1>3
      <3>2. \A k \in 1 .. Len(b) : b[k] \in Byte
        BY <1>2
      <3>3. 255 \in Byte
        BY DEF Byte
      <3> QED BY <1>3, <3>1, <3>2, <3>3
    <2>2. m = [a \in 0 .. n - 1 |-> IF a < HeapSize THEN 255 ELSE b[a - HeapSize + 1]]
      <3>1. n - 1 = HeapSize + Len(b) - 1
        BY <1>3
      <3> HIDE DEF n
      <3> QED BY <3>1
    <2> HIDE DEF m, n
    <2> QED BY <2>1, <2>2
  <1> HIDE DEF m
  <1>5. IsMemory(m)
    BY <1>3, <1>4 DEF IsMemory
  <1>6. flash = Written(m, 0, EmptyPacket)
    BY <1>1 DEF m
  <1> QED BY <1>5, <1>6

LEMMA EmptyPacketIsBytes == EmptyPacket \in Seq(Byte)
  BY HeapNumbers, HeaderBytesAreBytes DEF EmptyPacket, HeaderSize

(* No step makes the memory anything but bytes.                            *)
LEMMA TypeInit == Init => HeapType
  <1> SUFFICES ASSUME Init PROVE HeapType
    OBVIOUS
  <1>1. IsMemory(flash)
    BY InitMemory, EmptyPacketIsBytes, WrittenFacts
  <1>2. pc = "idle"
    BY DEF Init
  <1> QED BY <1>1, <1>2 DEF HeapType

LEMMA TypeOfFree ==
  ASSUME HeapType, NEW a \in Packets, flashheap_free(a + HeaderSize)
  PROVE  HeapType'
  <1>1. IsMemory(flash) /\ a \in Nat /\ a \in Addr /\ Header(flash, a) \in Int
    BY PacketsReadable DEF HeapType
  <1>2. /\ flash' = FreePacket(Previous(Packets, a), a) /\ pc = "idle" /\ UNCHANGED locals
        /\ Readable(flash, FollowedBy(a))
    BY <1>1, FreeIs
  <1> DEFINE p == Previous(Packets, a)
             y == Header(flash, FollowedBy(a))
             before == IF p < a THEN Joins(Header(flash, p)) ELSE 0
             v == before - Header(flash, a) + Joins(y)
             x == IF before < 0 THEN p ELSE a
  <1>3. p \in Nat /\ Header(flash, p) \in Int
    <2>1. Packets \subseteq Addr
      BY <1>1, PacketsReadable
    <2> QED BY <1>1, <2>1, PreviousIsPacket, PacketsReadable
  <1>4. y \in Int
    <2>1. FollowedBy(a) \in Nat
      BY <1>1 DEF FollowedBy, Abs, HeaderSize
    <2> QED BY <1>1, <1>2, <2>1, HeaderIsInt
  <1>5. flash' = Written(flash, x, HeaderBytes(v))
    BY <1>2 DEF FreePacket
  <1> HIDE DEF p, y
  <1>6. x \in Nat /\ v \in Int
    BY <1>1, <1>3, <1>4 DEF Joins, HeaderSize
  <1> HIDE DEF x, v
  <1>7. IsMemory(flash')
    BY <1>1, <1>5, <1>6, HeaderBytesAreBytes, WriteKeepsType
  <1> QED BY <1>2, <1>7 DEF HeapType, locals

LEMMA TypeOfAllocate ==
  ASSUME HeapType, NEW len \in Nat, len > 0, NEW v, IsVector(v), Len(v.bytes) <= len,
         Allocate(len, v)
  PROVE  HeapType'
  <1> DEFINE fits == {a \in Packets : Header(flash, a) < 0 /\ len =< -Header(flash, a)}
  <1>1. /\ fits # {} /\ addr' = Min(fits) /\ size' = len /\ data' = v /\ flash' = flash
        /\ pc' \in {"header", "remainder"}
    BY DEF Allocate
  <1>2. \A a \in fits : a \in Addr /\ a \in Nat /\ Readable(flash, a)
    BY PacketsReadable DEF HeapType
  <1> HIDE DEF fits
  <1>3. addr' \in fits
    <2>1. fits \subseteq Nat
      BY <1>2
    <2> QED BY <1>1, <2>1, FirstOf
  <1>4. addr' \in Addr /\ Readable(flash, addr')
    BY <1>2, <1>3
  <1>5. pc' # "others"
    BY <1>1
  <1> QED BY <1>1, <1>4, <1>5 DEF HeapType

(* A prefix of some bytes.                                                 *)
LEMMA PrefixBytes ==
  ASSUME NEW bytes \in Seq(Byte), NEW n \in 0 .. Len(bytes)
  PROVE  /\ SubSeq(bytes, 1, n) \in Seq(Byte) /\ Len(SubSeq(bytes, 1, n)) = n
         /\ \A i \in 1 .. n : SubSeq(bytes, 1, n)[i] = bytes[i]
  OBVIOUS

LEMMA TypeStep == HeapType /\ [Next]_vars => HeapType'
  <1> SUFFICES ASSUME HeapType, [Next]_vars
               PROVE  HeapType'
    OBVIOUS
  <1>0. /\ IsMemory(flash)
        /\ pc # "idle" => /\ addr \in Addr /\ addr \in Nat /\ Readable(flash, addr)
                          /\ size \in Nat /\ size > 0
                          /\ IsVector(data) /\ Len(data.bytes) <= size
        /\ pc = "others" => Len(data.starts) >= 3
    BY DEF HeapType, Addr
  <1>1. CASE flashheap_erase
    <2>1. EmptyPacket \in Seq(Byte)
      BY EmptyPacketIsBytes
    <2>2. flash' = Written(flash, 0, EmptyPacket) /\ pc' = "idle"
      BY <1>1 DEF flashheap_erase, locals
    <2>3. IsMemory(flash')
      BY <1>0, <2>1, <2>2, WriteKeepsType
    <2> QED BY <2>2, <2>3 DEF HeapType
  <1>2. CASE \E a \in Packets : Held(a + HeaderSize) /\ flashheap_free(a + HeaderSize)
    BY <1>2, TypeOfFree
  <1>3. ASSUME NEW len \in Lens, flashheap_alloc(len)
        PROVE  HeapType'
    <2>1. len \in Nat /\ len > 0 /\ Len(NoData.bytes) <= len /\ IsVector(NoData)
      <3>1. len \in Nat \ {0}
        BY FlashHeapAssumption
      <3> QED BY <3>1, NoDataIsVector
    <2>2. Allocate(len, NoData)
      BY <1>3 DEF flashheap_alloc
    <2> QED BY <2>1, <2>2, TypeOfAllocate
  <1>4. ASSUME NEW v \in Vectors, flashheap_writev(v)
        PROVE  HeapType'
    <2>1. IsVector(v) /\ v.bytes # << >>
      BY FlashHeapAssumption
    <2>2. Len(v.bytes) \in Nat /\ Len(v.bytes) > 0 /\ Len(v.bytes) <= Len(v.bytes)
      BY <2>1 DEF IsVector
    <2>3. Allocate(Len(v.bytes), v)
      BY <1>4 DEF flashheap_writev
    <2> QED BY <2>1, <2>2, <2>3, TypeOfAllocate
  <1>5. ASSUME pc # "idle", NEW x \in Nat, NEW bytes \in Seq(Byte),
               flash' = Written(flash, x, bytes), UNCHANGED <<addr, size, data>>,
               pc' = "others" => Len(data.starts) >= 3
        PROVE  HeapType'
    <2>1. IsMemory(flash') /\ DOMAIN flash' = DOMAIN flash
      BY <1>0, <1>5, WriteKeepsType
    <2>2. Readable(flash', addr)
      BY <1>0, <1>5, <2>1 DEF Readable
    <2> QED BY <1>0, <1>5, <2>1, <2>2 DEF HeapType
  <1>6. ASSUME NEW x \in Nat, NEW bytes \in Seq(Byte), flash' = Written(flash, x, bytes), Done
        PROVE  HeapType'
    <2>1. IsMemory(flash') /\ pc' = "idle"
      BY <1>0, <1>6, WriteKeepsType DEF Done
    <2> QED BY <2>1 DEF HeapType
  <1>7. ASSUME flash' = flash, Done
        PROVE  HeapType'
    BY <1>0, <1>7 DEF HeapType, Done
  <1>8. ASSUME flash' = flash, pc # "idle", UNCHANGED <<addr, size, data>>,
               pc' = "others" => Len(data.starts) >= 3
        PROVE  HeapType'
    BY <1>0, <1>8 DEF HeapType
  <1>9. CASE WriteRemainder
    <2> DEFINE x == addr + HeaderSize + size
               v == -(-Header(flash, addr) - size - HeaderSize)
    <2>1. pc # "idle" /\ flash' = Written(flash, x, HeaderBytes(v))
          /\ UNCHANGED <<addr, size, data>> /\ pc' # "others"
      BY <1>9 DEF WriteRemainder
    <2>2. x \in Nat /\ v \in Int
      <3>1. Header(flash, addr) \in Int
        BY <1>0, <2>1, HeaderIsInt
      <3> QED BY <1>0, <2>1, <3>1 DEF HeaderSize
    <2> HIDE DEF x, v
    <2>3. HeaderBytes(v) \in Seq(Byte)
      BY <2>2, HeaderBytesAreBytes
    <2> QED BY <1>5, <2>1, <2>2, <2>3
  <1>10. ASSUME AfterFirstWrite
         PROVE  \/ Done
                \/ Len(data.starts) >= 3 /\ UNCHANGED <<addr, size, data>>
    BY <1>10 DEF AfterFirstWrite, Continue, Return
  <1>11. CASE WriteHeader
    <2>0. pc # "idle" /\ size \in Int /\ addr \in Nat
      <3>1. pc = "header"
        BY <1>11 DEF WriteHeader
      <3> QED BY <1>0, <3>1
    <2>1. ASSUME flash' = Written(flash, addr, HeaderBytes(size)),
                 IF data = NoData THEN Return ELSE Continue("data")
          PROVE  HeapType'
      <3>1. HeaderBytes(size) \in Seq(Byte)
        BY <2>0, HeaderBytesAreBytes
      <3>2. Done \/ (pc' # "others" /\ UNCHANGED <<addr, size, data>>)
        BY <2>1 DEF Return, Continue
      <3> QED BY <1>5, <1>6, <2>0, <2>1, <3>1, <3>2
    <2>2. ASSUME flash' = flash, AfterFirstWrite
          PROVE  HeapType'
      BY <1>7, <1>8, <1>10, <2>0, <2>2
    <2> QED BY <1>11, <2>1, <2>2 DEF WriteHeader
  <1>12. CASE WriteData
    <2>0. pc # "idle" /\ addr + HeaderSize \in Nat
      <3>1. pc = "data"
        BY <1>12 DEF WriteData
      <3> QED BY <1>0, <3>1 DEF HeaderSize
    <2>1. PICK n \in 0 .. Len(FirstPieces) :
              flash' = Written(flash, addr + HeaderSize, SubSeq(FirstPieces, 1, n))
      BY <1>12 DEF WriteData
    <2>2. SubSeq(FirstPieces, 1, n) \in Seq(Byte)
      BY <1>0, <2>0, PiecesOfData, PrefixBytes
    <2>3. AfterFirstWrite
      BY <1>12 DEF WriteData
    <2> QED BY <1>5, <1>6, <1>10, <2>0, <2>1, <2>2, <2>3
  <1>13. CASE WriteOthers
    <2>0. pc # "idle" /\ addr \in Nat /\ Len(data.starts) >= 3
      BY <1>0, <1>13 DEF WriteOthers
    <2>1. PICK n \in 0 .. Len(OtherPieces) :
              flash' = Written(flash, addr, SubSeq(OtherPieces, 1, n))
      BY <1>13 DEF WriteOthers
    <2>2. SubSeq(OtherPieces, 1, n) \in Seq(Byte)
      BY <1>0, <2>0, PiecesOfData, PrefixBytes
    <2>3. Done
      BY <1>13 DEF WriteOthers, Return
    <2> QED BY <1>6, <2>0, <2>1, <2>2, <2>3
  <1>14. CASE PowerFails
    BY <1>7, <1>14 DEF PowerFails
  <1>15. CASE UNCHANGED vars
    BY <1>15 DEF vars, locals, HeapType
  <1> QED BY <1>1, <1>2, <1>3, <1>4, <1>9, <1>11, <1>12, <1>13, <1>14, <1>15 DEF Next

-----------------------------------------------------------------------------
(* What an allocation has done so far, as long as the heap is intact.      *)
(* Until its header is written, the packet is free and the remainder's     *)
(* header is in its data; once it is written, the block is used but nobody *)
(* holds it yet.                                                           *)
Begun(P) ==
  /\ pc \in {"remainder", "header"} =>
       addr \in P /\ Heads(flash)[addr] < 0 /\ size =< -Heads(flash)[addr]
  /\ pc = "remainder" => size # -Heads(flash)[addr]
  /\ pc = "header" =>
       \/ size = -Heads(flash)[addr]
       \/ /\ size + HeaderSize =< -Heads(flash)[addr]
          /\ Heads(flash)[addr + HeaderSize + size] = Heads(flash)[addr] + size + HeaderSize
  /\ pc = "data" => addr \in P /\ Heads(flash)[addr] = size

(* The blocks of the callers, as long as no write has failed either.       *)
Kept(P) ==
  /\ \A h \in held : Holds(flash, P, h)
  /\ pc = "data" => \A h \in held : h.ptr # addr + HeaderSize
  /\ pc = "others" =>
       /\ addr \in P /\ Heads(flash)[addr] = size
       /\ \A i \in 1 .. Len(FirstPieces) : flash[addr + HeaderSize + i - 1] = FirstPieces[i]

Whole(P) ==
  /\ Sound(Heads(flash), P)
  /\ Begun(P)
  /\ faults = {} => Kept(P)

HeapInv == HeapType /\ (Intact => Whole(Packets))

LEMMA WholeIsPackets ==
  ASSUME NEW P
  PROVE  /\ HeapType /\ Whole(P) => Packets = P
         /\ HeapType' /\ Whole(P)' => Packets' = P
  BY PacketsAre DEF HeapType, Whole, Sound

(* What is known of a whole heap, for the steps.                           *)
LEMMA WholeFacts ==
  ASSUME NEW P, HeapType, Whole(P)
  PROVE  /\ IsMemory(flash) /\ Heads(flash) \in HeaderMap
         /\ Sound(Heads(flash), P) /\ Tiled(Heads(flash), P)
         /\ \A a \in P : Heads(flash)[a] = Header(flash, a)
         /\ faults = {} => \A h \in held : Holds(flash, P, h)
         /\ \A a : FollowedBy(a) = a + Abs(Header(flash, a)) + HeaderSize
  <1>1. IsMemory(flash) /\ Sound(Heads(flash), P) /\ Tiled(Heads(flash), P)
    BY DEF HeapType, Whole, Sound
  <1> QED BY <1>1, HeadsFacts, PacketHeaders DEF Whole, Kept, FollowedBy

(* The erased heap is one free packet.                                     *)
LEMMA ErasedHeap ==
  ASSUME NEW m, IsMemory(m), NEW n, n = Written(m, 0, EmptyPacket)
  PROVE  Sound(Heads(n), {0}) /\ Heads(n)[0] < 0 /\ Heads(n)[0] \in Int
  <1> DEFINE v == -(HeapSize - HeaderSize)
  <1>1. HeapSize \in Nat /\ HeapSize > 4 /\ 0 \in Addr /\ HeaderSize = 4
    BY HeapNumbers DEF Addr, HeaderSize
  <1>2. v \in Int /\ v < 0 /\ Abs(v) = HeapSize - 4
    BY <1>1 DEF Abs
  <1>3. n = Written(m, 0, HeaderBytes(v))
    BY DEF EmptyPacket
  <1> HIDE DEF v
  <1>4. Heads(n)[0] = v
    <2>1. Readable(m, 0)
      BY <1>1, HeadsFacts
    <2>2. Abs(v) <= HeapSize
      BY <1>1, <1>2
    <2> QED BY <1>1, <1>2, <1>3, <2>1, <2>2, HeaderWrittenInHeads
  <1>5. After(Heads(n), 0) = HeapSize
    BY <1>1, <1>2, <1>4 DEF After
  <1> QED BY <1>1, <1>2, <1>4, <1>5 DEF Sound, Tiled, NoFreeNeighbours

LEMMA HeapInit == Init => Whole({0}) /\ Heads(flash)[0] < 0 /\ Heads(flash)[0] \in Int
  <1> SUFFICES ASSUME Init PROVE Whole({0}) /\ Heads(flash)[0] < 0 /\ Heads(flash)[0] \in Int
    OBVIOUS
  <1>1. Sound(Heads(flash), {0}) /\ Heads(flash)[0] < 0 /\ Heads(flash)[0] \in Int
    BY InitMemory, ErasedHeap
  <1>2. pc = "idle" /\ held = {}
    BY DEF Init
  <1> QED BY <1>1, <1>2 DEF Whole, Begun, Kept

(* So is the heap after flashheap_erase, whatever it was before.           *)
LEMMA EraseStep ==
  ASSUME HeapType, flashheap_erase
  PROVE  Whole({0})' /\ Heads(flash')[0] < 0 /\ Heads(flash')[0] \in Int
  <1>1. flash' = Written(flash, 0, EmptyPacket) /\ pc' = "idle" /\ held' = {}
    BY DEF flashheap_erase, locals
  <1>2. Sound(Heads(flash'), {0}) /\ Heads(flash')[0] < 0 /\ Heads(flash')[0] \in Int
    BY <1>1, ErasedHeap DEF HeapType
  <1> QED BY <1>1, <1>2 DEF Whole, Begun, Kept

(* Which packets are in use after a release.                               *)
LEMMA FreeStep ==
  ASSUME NEW P, HeapType, HeapType', Whole(P), Intact', NEW a \in P,
         flashheap_free(a + HeaderSize)
  PROVE  \E Q \in SUBSET P :
           /\ Whole(Q)'
           /\ \A b \in P : b # a /\ Heads(flash)[b] >= 0
                             => b \in Q /\ Heads(flash')[b] = Heads(flash)[b]
           /\ \A b \in Q : Heads(flash')[b] > 0 => b # a /\ Heads(flash')[b] = Heads(flash)[b]
  <1> DEFINE H    == Heads(flash)
             N    == Heads(flash')
             prev == Previous(P, a)
             c    == After(H, a)
             y    == Header(flash, c)
             x    == FreedAt(H, prev, a)
             v    == FreedHeader(H, prev, a, y)
             e    == FreedEnd(H, a, y)
  <1>1. /\ IsMemory(flash) /\ H \in HeaderMap /\ Sound(H, P) /\ Tiled(H, P) /\ NoFreeNeighbours(H, P)
        /\ \A b \in P : H[b] = Header(flash, b)
        /\ faults = {} => \A h \in held : Holds(flash, P, h)
        /\ N \in HeaderMap
    BY WholeFacts, HeadsFacts DEF Sound, HeapType
  <1>2. Packets = P /\ FollowedBy(a) = c
    BY <1>1, WholeIsPackets DEF FollowedBy, After
  <1>3. /\ a \in Nat /\ a \in Addr /\ P \subseteq Addr /\ c \in Nat /\ c <= HeapSize
        /\ HeapSize \in Nat
    BY <1>1, TilingNumbers DEF Tiled
  <1>4. /\ pc = "idle" /\ H[a] >= 0 /\ Readable(flash, c)
        /\ flash' = FreePacket(prev, a)
        /\ faults' = (IF c >= HeapSize /\ y < 0 THEN faults \cup {"end joined"} ELSE faults)
        /\ held' = {h \in held : h.ptr # a + HeaderSize}
        /\ UNCHANGED locals
    BY <1>1, <1>2, <1>3, FreeIs
  <1>5. y \in Int
    BY <1>1, <1>3, <1>4, HeaderIsInt
  <1>6. c >= HeapSize => y >= 0
    <2> HIDE DEF c, y
    <2> SUFFICES ASSUME c >= HeapSize, ~(y >= 0) PROVE FALSE
      OBVIOUS
    <2>1. y < 0
      BY <1>5
    <2>2. "end joined" \in faults'
      BY <1>4, <2>1
    <2> QED BY <2>2 DEF Intact
  <1>7. c < HeapSize => y = H[c]
    BY <1>1 DEF Tiled
  <1>8. /\ prev \in P
        /\ \/ prev = a /\ \A b \in P : ~(b < a)
           \/ prev < a /\ After(H, prev) = a
    <2>1. CASE {p \in P : p < a} = {}
      BY <2>1 DEF Previous
    <2>2. CASE {p \in P : p < a} # {}
      <3>1. \E b \in P : b < a
        BY <2>2
      <3>2. prev = Max({p \in P : p < a})
        BY <2>2 DEF Previous
      <3> HIDE DEF H, prev
      <3> QED BY <1>1, <3>1, <3>2, Before
    <2> QED BY <2>1, <2>2
  <1>9. flash' = Written(flash, x, HeaderBytes(v))
    <2>1. Header(flash, prev) = H[prev] /\ Header(flash, a) = H[a] /\ Header(flash, FollowedBy(a)) = y
      BY <1>1, <1>2, <1>8
    <2> QED BY <1>4, <2>1 DEF FreePacket, FreedAt, FreedHeader, FreedBefore
  <1> HIDE DEF H, N, prev, c, y
  <1>10. Neighbours(H, P, prev, a, y)
    BY <1>5, <1>6, <1>7, <1>8 DEF Neighbours, c
  <1> HIDE DEF x, v, e
  <1>11. /\ x \in P /\ (x = a \/ (x = prev /\ H[prev] < 0))
         /\ v \in Int /\ Abs(v) = e - x - 4 /\ x \in Nat /\ e \in Nat /\ e <= HeapSize
    <2> DEFINE d == After(H, a)
    <2>1. x = FreedAt(H, prev, a) /\ v = FreedHeader(H, prev, a, y) /\ e = FreedEnd(H, a, y)
      BY DEF x, v, e
    <2>2. d = After(H, a)
      OBVIOUS
    <2> HIDE DEF d
    <2>3. H[a] >= 0 /\ H \in HeaderMap /\ Sound(H, P)
      BY <1>1, <1>4
    <2> QED BY <1>10, <2>1, <2>2, <2>3, FreedRoom
  <1>12. Abs(v) <= HeapSize
    BY <1>3, <1>11
  <1>13. /\ N[x] = v /\ \A b \in P : b # x => N[b] = H[b]
         /\ \A b \in Addr : flash'[b] = flash[b] \/ (x <= b /\ b < After(H, x))
    BY <1>1, <1>9, <1>11, <1>12, HeaderRewritten DEF H, N
  <1>14. PICK Q \in SUBSET P :
               /\ Sound(N, Q)
               /\ \A b \in P : b # a /\ H[b] >= 0 => b \in Q /\ N[b] = H[b]
               /\ \A b \in Q : N[b] > 0 => b # a /\ N[b] = H[b]
    <2>1. x = FreedAt(H, prev, a) /\ v = FreedHeader(H, prev, a, y)
      BY DEF x, v
    <2>2. H[a] >= 0 /\ H \in HeaderMap /\ Sound(H, P) /\ N \in HeaderMap
      BY <1>1, <1>4
    <2>3. N[x] = v /\ \A b \in P : b # x => N[b] = H[b]
      BY <1>13
    <2> QED BY <1>10, <2>1, <2>2, <2>3, FreeTiles
  <1>15. ASSUME faults' = {}
         PROVE  Kept(Q)'
    <2>1. faults = {}
      BY <1>4, <1>15
    <2>2. pc' = "idle"
      BY <1>4 DEF locals
    <2>3. ASSUME NEW h \in held'
          PROVE  Holds(flash', Q, h)
      <3> DEFINE p == h.ptr - HeaderSize
      <3>1. h \in held /\ h.ptr # a + HeaderSize /\ Holds(flash, P, h)
        BY <1>1, <1>4, <2>1
      <3>2. p \in P /\ H[p] = h.len /\ h.len \in Nat /\ h.len > 0 /\ h.ptr \in Nat
        BY <3>1 DEF Holds, H
      <3>3. p # a
        BY <3>1, <3>2 DEF HeaderSize
      <3> HIDE DEF p
      <3>4. p # x
        BY <1>11, <3>2, <3>3
      <3>5. p \in Q /\ N[p] = H[p]
        BY <1>14, <3>2, <3>3
      <3>6. /\ Tiled(Heads(flash), P) /\ h.ptr - HeaderSize # x /\ h.ptr - HeaderSize \in Q
            /\ Heads(flash')[h.ptr - HeaderSize] = Heads(flash)[h.ptr - HeaderSize]
            /\ \A b \in Addr : flash'[b] = flash[b] \/ (x <= b /\ b < After(Heads(flash), x))
        BY <1>1, <1>13, <3>4, <3>5 DEF H, N, p
      <3> QED BY <1>1, <1>11, <3>1, <3>6, BlockKept
    <2> QED BY <2>2, <2>3 DEF Kept
  <1>16. Begun(Q)'
    BY <1>4 DEF Begun, locals
  <1>17. Whole(Q)'
    BY <1>14, <1>15, <1>16 DEF Whole, N
  <1> QED BY <1>14, <1>17 DEF H, N

(* An allocation chooses a free packet, and writes nothing yet.            *)
LEMMA AllocateStep ==
  ASSUME NEW P, HeapType, Whole(P), NEW len \in Nat, NEW v, Allocate(len, v)
  PROVE  Whole(P)' /\ flash' = flash
  <1> DEFINE fits == {a \in Packets : Header(flash, a) < 0 /\ len =< -Header(flash, a)}
  <1>1. Packets = P
    BY WholeIsPackets
  <1>2. /\ fits # {} /\ addr' = Min(fits) /\ size' = len
        /\ pc' = (IF len = -Header(flash, addr') THEN "header" ELSE "remainder")
        /\ UNCHANGED <<flash, held, faults>>
    BY DEF Allocate
  <1>3. \A a \in P : a \in Nat /\ Header(flash, a) \in Int /\ Heads(flash)[a] = Header(flash, a)
    BY WholeFacts, PacketHeaders
  <1>4. addr' \in fits
    <2>1. fits \subseteq Nat
      BY <1>1, <1>3
    <2> HIDE DEF fits
    <2> QED BY <1>2, <2>1, FirstOf
  <1>5. /\ addr' \in P /\ Heads(flash)[addr'] < 0 /\ len <= -Heads(flash)[addr']
        /\ Header(flash, addr') = Heads(flash)[addr']
    BY <1>1, <1>3, <1>4
  <1> HIDE DEF fits
  <1>6. Begun(P)'
    BY <1>2, <1>5 DEF Begun
  <1>7. faults' = {} => Kept(P)'
    <2>1. faults = {} => \A h \in held : Holds(flash, P, h)
      BY WholeFacts
    <2>2. pc' # "data" /\ pc' # "others"
      BY <1>2
    <2> QED BY <1>2, <2>1, <2>2 DEF Kept
  <1>8. Sound(Heads(flash'), P)
    BY <1>2, WholeFacts
  <1> QED BY <1>2, <1>6, <1>7, <1>8 DEF Whole

(* The packet of a call under way.                                         *)
LEMMA PacketOfCall ==
  ASSUME NEW P, HeapType, Whole(P), pc \in {"remainder", "header", "data"}
  PROVE  /\ addr \in P /\ addr \in Addr /\ addr \in Nat
         /\ Heads(flash)[addr] \in Int /\ Header(flash, addr) = Heads(flash)[addr]
         /\ size \in Nat /\ size > 0 /\ IsVector(data) /\ Len(data.bytes) <= size
         /\ After(Heads(flash), addr) \in Nat /\ After(Heads(flash), addr) <= HeapSize
         /\ HeapSize \in Nat /\ After(Heads(flash), addr) > addr
         /\ pc # "data" => /\ Heads(flash)[addr] < 0 /\ size <= -Heads(flash)[addr]
                           /\ After(Heads(flash), addr) = addr + 4 - Heads(flash)[addr]
         /\ pc = "data" => /\ Heads(flash)[addr] = size
                           /\ After(Heads(flash), addr) = addr + 4 + size
  <1>1. /\ Heads(flash) \in HeaderMap /\ Tiled(Heads(flash), P)
        /\ \A a \in P : Heads(flash)[a] = Header(flash, a)
    BY WholeFacts
  <1>2. addr \in P /\ Begun(P)
    BY DEF Whole, Begun
  <1>3. size \in Nat /\ size > 0 /\ IsVector(data) /\ Len(data.bytes) <= size
    BY DEF HeapType
  <1>4. /\ pc # "data" => Heads(flash)[addr] < 0 /\ size <= -Heads(flash)[addr]
        /\ pc = "data" => Heads(flash)[addr] = size
    BY <1>2 DEF Begun
  <1>5. /\ addr \in Addr /\ addr \in Nat /\ Heads(flash)[addr] \in Int
        /\ After(Heads(flash), addr) \in Nat /\ After(Heads(flash), addr) <= HeapSize
        /\ HeapSize \in Nat /\ After(Heads(flash), addr) > addr
        /\ After(Heads(flash), addr) =
             addr + 4 + (IF Heads(flash)[addr] < 0 THEN -Heads(flash)[addr] ELSE Heads(flash)[addr])
    BY <1>1, <1>2, TilingNumbers
  <1> QED BY <1>1, <1>2, <1>3, <1>4, <1>5

(* The remainder's header is written inside of a free packet.              *)
LEMMA RemainderStep ==
  ASSUME NEW P, HeapType, HeapType', Whole(P), Intact', WriteRemainder
  PROVE  Whole(P)' /\ \A b \in P : Heads(flash')[b] = Heads(flash)[b]
  <1> DEFINE H == Heads(flash)
             N == Heads(flash')
             r == addr + HeaderSize + size
             left == -Header(flash, addr) - size
             v == -(left - HeaderSize)
             bytes == HeaderBytes(v)
  <1>1. /\ IsMemory(flash) /\ H \in HeaderMap /\ Sound(H, P) /\ Tiled(H, P)
        /\ faults = {} => \A h \in held : Holds(flash, P, h)
        /\ N \in HeaderMap
    BY WholeFacts, HeadsFacts DEF HeapType
  <1>2. /\ pc = "remainder" /\ flash' = Written(flash, r, bytes) /\ pc' = "header"
        /\ UNCHANGED <<addr, size, data, held>> /\ Readable(flash, r)
        /\ faults' = (IF left < HeaderSize THEN faults \cup {"short remainder"} ELSE faults)
    BY DEF WriteRemainder, Within, Readable
  <1>3. /\ addr \in P /\ addr \in Addr /\ addr \in Nat /\ H[addr] \in Int /\ H[addr] < 0
        /\ Header(flash, addr) = H[addr] /\ size \in Nat /\ size > 0 /\ size <= -H[addr]
        /\ After(H, addr) \in Nat /\ After(H, addr) <= HeapSize /\ HeapSize \in Nat
        /\ After(H, addr) = addr + 4 - H[addr]
    BY <1>2, PacketOfCall
  <1>4. left \in Int /\ left >= 4 /\ left = -H[addr] - size
    <2>1. left = -H[addr] - size /\ left \in Int
      BY <1>3
    <2> HIDE DEF left
    <2>2. ~(left < HeaderSize)
      <3> SUFFICES ASSUME left < HeaderSize PROVE FALSE
        OBVIOUS
      <3>1. "short remainder" \in faults'
        BY <1>2
      <3> QED BY <3>1 DEF Intact
    <2> QED BY <2>1, <2>2 DEF HeaderSize
  <1>5. v \in Int /\ Abs(v) <= HeapSize /\ v = H[addr] + size + 4
    <2>1. v \in Int /\ v = H[addr] + size + 4
      BY <1>3, <1>4 DEF HeaderSize
    <2> HIDE DEF v, left
    <2> QED BY <1>3, <1>4, <2>1 DEF Abs
  <1> HIDE DEF H, N, left, v
  <1>6. /\ r \in Addr /\ r \in Nat /\ addr + HeaderSize <= r /\ r + 4 <= After(H, addr)
        /\ r = addr + 4 + size
    BY <1>3, <1>4 DEF Addr, HeaderSize
  <1>7. bytes \in Seq(Byte) /\ Len(bytes) = 4
    BY <1>5, HeaderBytesAreBytes DEF HeaderSize
  <1>8. N[r] = v
    <2> HIDE DEF r
    <2>1. flash' = Written(flash, r, HeaderBytes(v)) /\ Readable(flash, r) /\ r \in Addr
      BY <1>2, <1>6
    <2> QED BY <1>1, <1>5, <2>1, HeaderWrittenInHeads DEF N
  <1> HIDE DEF r, bytes
  <1>9. /\ \A b \in P : N[b] = H[b]
        /\ \A b \in Addr : flash'[b] = flash[b] \/ (addr <= b /\ b < After(H, addr))
    <2>1. r + Len(bytes) <= After(Heads(flash), addr) /\ Tiled(Heads(flash), P)
      BY <1>1, <1>6, <1>7 DEF H
    <2>2. /\ IsMemory(flash) /\ addr \in P /\ r \in Nat /\ bytes \in Seq(Byte)
          /\ addr + HeaderSize <= r /\ flash' = Written(flash, r, bytes)
      BY <1>1, <1>2, <1>3, <1>6, <1>7
    <2>3. /\ \A b \in P : Heads(flash')[b] = Heads(flash)[b]
          /\ \A b \in Addr : flash'[b] = flash[b] \/ (addr <= b /\ b < After(Heads(flash), addr))
      BY <2>1, <2>2, InsideWritten
    <2> QED BY <2>3 DEF H, N
  <1>10. Sound(N, P)
    BY <1>1, <1>9, HeadersKept
  <1>11. ASSUME faults' = {}
         PROVE  Kept(P)'
    <2>1. faults = {}
      BY <1>2, <1>11
    <2>2. ASSUME NEW h \in held
          PROVE  Holds(flash', P, h)
      <3>1. Holds(flash, P, h)
        BY <1>1, <2>1
      <3>2. h.ptr - HeaderSize \in P /\ H[h.ptr - HeaderSize] = h.len /\ h.len \in Nat
        BY <3>1 DEF Holds, H
      <3>3. h.ptr - HeaderSize # addr
        BY <1>3, <3>2
      <3>4. /\ Tiled(Heads(flash), P)
            /\ Heads(flash')[h.ptr - HeaderSize] = Heads(flash)[h.ptr - HeaderSize]
            /\ \A b \in Addr : flash'[b] = flash[b] \/ (addr <= b /\ b < After(Heads(flash), addr))
        BY <1>1, <1>9, <3>2 DEF H, N
      <3> QED BY <1>1, <1>3, <3>1, <3>2, <3>3, <3>4, BlockKept
    <2>3. pc' # "data" /\ pc' # "others"
      BY <1>2
    <2> QED BY <1>2, <2>2, <2>3 DEF Kept
  <1>12. Begun(P)'
    <2>1. N[addr] = H[addr]
      BY <1>3, <1>9
    <2>2. N[addr + HeaderSize + size] = N[addr] + size + HeaderSize
      BY <1>5, <1>8, <2>1 DEF r, HeaderSize
    <2>3. size + HeaderSize <= -N[addr] /\ N[addr] < 0 /\ size <= -N[addr]
      BY <1>3, <1>4, <2>1 DEF HeaderSize
    <2> QED BY <1>2, <1>3, <2>2, <2>3 DEF Begun, N
  <1> QED BY <1>9, <1>10, <1>11, <1>12 DEF Whole, H, N

(* The packet is in use from the write of its header on; the remainder's   *)
(* header, if there is one, begins a packet that has no data or is free.   *)
LEMMA HeaderTiles ==
  ASSUME NEW m \in HeaderMap, NEW P, Sound(m, P), NEW a \in P, m[a] < 0,
         NEW s \in Nat, s > 0, s <= -m[a],
         NEW n \in HeaderMap, n[a] = s, \A b \in P : b # a => n[b] = m[b],
         s # -m[a] => s + 4 <= -m[a] /\ n[a + 4 + s] = m[a] + s + 4
  PROVE  \E Q : /\ Sound(n, Q) /\ P \subseteq Q
                /\ \A b \in Q : b \notin P => n[b] <= 0
  <1>1. Tiled(m, P)
    BY DEF Sound
  <1>2. /\ a \in Nat /\ a \in Addr /\ m[a] \in Int /\ HeapSize \in Nat
        /\ After(m, a) = a + 4 - m[a] /\ After(m, a) <= HeapSize /\ After(m, a) \in Nat
        /\ After(m, a) > a
    BY <1>1, TilingNumbers
  <1>3. CASE s = -m[a]
    <2> DEFINE e == After(m, a)
               Q == Joined(P, a, e)
    <2>1. e = HeapSize \/ e \in P
      BY <1>1, <1>2 DEF Tiled
    <2>2. Abs(s) = e - a - 4 /\ e \in Nat /\ a < e
      BY <1>2, <1>3 DEF Abs
    <2> HIDE DEF e
    <2>3. /\ Tiled(n, Q) /\ After(n, a) = e
          /\ \A b \in Q : b # a => n[b] = m[b] /\ After(n, b) = After(m, b)
      BY <1>1, <2>1, <2>2, Merge
    <2>4. Q = P
      <3>1. ASSUME NEW b \in P PROVE b <= a \/ b >= e
        <4>1. b \in Nat
          BY <1>1, TilingNumbers
        <4>2. a < b => e <= b
          BY <1>1 DEF Tiled, e
        <4> QED BY <1>2, <4>1, <4>2
      <3> QED BY <3>1 DEF Joined
    <2> HIDE DEF Q
    <2>5. NoFreeNeighbours(n, P)
      <3> SUFFICES ASSUME NEW b \in P, n[b] < 0, After(n, b) < HeapSize
                   PROVE  n[After(n, b)] >= 0
        BY DEF NoFreeNeighbours
      <3>1. b # a
        OBVIOUS
      <3>2. m[b] < 0 /\ After(m, b) < HeapSize /\ After(n, b) = After(m, b)
        BY <2>3, <2>4, <3>1
      <3>3. After(m, b) \in P /\ m[After(m, b)] >= 0
        BY <1>1, <3>2 DEF Sound, Tiled, NoFreeNeighbours
      <3>4. After(m, b) # a
        BY <1>2, <3>3
      <3> QED BY <2>3, <2>4, <3>2, <3>3, <3>4
    <2> QED BY <2>3, <2>4, <2>5 DEF Sound
  <1>4. CASE s # -m[a]
    <2> DEFINE r == a + 4 + s
    <2>1. Sound(n, P \cup {r}) /\ n[r] <= 0
      BY <1>4, Split
    <2> HIDE DEF r
    <2> QED BY <2>1
  <1> QED BY <1>3, <1>4

LEMMA HeaderStep ==
  ASSUME NEW P, HeapType, HeapType', Whole(P), WriteHeader
  PROVE  \/ Whole(P)' /\ flash' = flash
         \/ /\ addr \in P /\ Heads(flash)[addr] < 0 /\ Heads(flash')[addr] = size
            /\ size \in Nat /\ size > 0 /\ size <= -Heads(flash)[addr]
            /\ Heads(flash') \in HeaderMap
            /\ \E Q : /\ Whole(Q)' /\ P \subseteq Q
                      /\ \A b \in P : b # addr => Heads(flash')[b] = Heads(flash)[b]
                      /\ \A b \in Q : b \notin P => Heads(flash')[b] <= 0
  <1> DEFINE H == Heads(flash)
             N == Heads(flash')
             r == addr + HeaderSize + size
  <1>1. /\ IsMemory(flash) /\ H \in HeaderMap /\ Sound(H, P) /\ Tiled(H, P)
        /\ faults = {} => \A h \in held : Holds(flash, P, h)
        /\ N \in HeaderMap
    BY WholeFacts, HeadsFacts DEF HeapType
  <1>2. pc = "header"
    BY DEF WriteHeader
  <1>3. /\ addr \in P /\ addr \in Addr /\ addr \in Nat /\ H[addr] \in Int /\ H[addr] < 0
        /\ size \in Nat /\ size > 0 /\ size <= -H[addr]
        /\ After(H, addr) \in Nat /\ After(H, addr) <= HeapSize /\ HeapSize \in Nat
        /\ After(H, addr) = addr + 4 - H[addr]
    BY <1>2, PacketOfCall
  <1>4. ASSUME flash' = flash, AfterFirstWrite, faults' = faults \cup {"failed write"}
        PROVE  Whole(P)'
    <2>1. pc' \notin {"remainder", "header", "data"}
      BY <1>4 DEF AfterFirstWrite, Continue, Return, Done
    <2>2. faults' # {} /\ Sound(Heads(flash'), P)
      BY <1>1, <1>4
    <2> QED BY <2>1, <2>2 DEF Whole, Begun
  <1>5. ASSUME flash' = Written(flash, addr, HeaderBytes(size)), faults' = faults,
               IF data = NoData THEN Return ELSE Continue("data")
        PROVE  /\ N[addr] = size
               /\ \E Q : /\ Whole(Q)' /\ P \subseteq Q
                         /\ \A b \in P : b # addr => N[b] = H[b]
                         /\ \A b \in Q : b \notin P => N[b] <= 0
    <2>1. Abs(size) <= HeapSize
      BY <1>3 DEF Abs
    <2>2. /\ N[addr] = size /\ \A b \in P : b # addr => N[b] = H[b]
          /\ \A b \in Addr : flash'[b] = flash[b] \/ (addr <= b /\ b < After(H, addr))
          /\ \A b \in Addr : Readable(flash, b) /\ addr + HeaderSize <= b => N[b] = H[b]
      BY <1>1, <1>3, <1>5, <2>1, HeaderRewritten
    <2>3. size # -H[addr] => size + 4 <= -H[addr] /\ N[addr + 4 + size] = H[addr] + size + 4
      <3> SUFFICES ASSUME size # -H[addr]
                   PROVE  size + 4 <= -H[addr] /\ N[addr + 4 + size] = H[addr] + size + 4
        OBVIOUS
      <3>1. size + 4 <= -H[addr] /\ H[r] = H[addr] + size + 4
        BY <1>2 DEF Whole, Begun, HeaderSize
      <3> HIDE DEF H, N
      <3>2. r = addr + 4 + size /\ r \in Addr /\ r + HeaderSize <= HeapSize /\ addr + HeaderSize <= r
        BY <1>3, <3>1 DEF Addr, HeaderSize
      <3> HIDE DEF r
      <3>3. Readable(flash, r)
        BY <1>1, <3>2, HeadsFacts
      <3>4. N[r] = H[r]
        BY <2>2, <3>2, <3>3
      <3> QED BY <3>1, <3>2, <3>4
    <2> HIDE DEF H, N
    <2>4. PICK Q : /\ Sound(N, Q) /\ P \subseteq Q
                   /\ \A b \in Q : b \notin P => N[b] <= 0
      <3>1. /\ H \in HeaderMap /\ Sound(H, P) /\ addr \in P /\ H[addr] < 0
            /\ size \in Nat /\ size > 0 /\ size <= -H[addr]
        BY <1>1, <1>3
      <3>2. N \in HeaderMap /\ N[addr] = size /\ \A b \in P : b # addr => N[b] = H[b]
        BY <1>1, <2>2
      <3>3. \E Q : /\ Sound(N, Q) /\ P \subseteq Q
                   /\ \A b \in Q : b \notin P => N[b] <= 0
        BY <2>3, <3>1, <3>2, HeaderTiles
      <3> QED BY <3>3
    <2>5. ASSUME faults = {}, NEW h \in held
          PROVE  Holds(flash', Q, h) /\ h.ptr # addr + HeaderSize
      <3>1. Holds(flash, P, h)
        BY <1>1, <2>5
      <3>2. h.ptr - HeaderSize \in P /\ H[h.ptr - HeaderSize] = h.len /\ h.len \in Nat /\ h.ptr \in Nat
        BY <3>1 DEF Holds, H
      <3>3. h.ptr - HeaderSize # addr
        BY <1>3, <3>2
      <3>4. /\ Tiled(Heads(flash), P) /\ h.ptr - HeaderSize \in Q
            /\ Heads(flash')[h.ptr - HeaderSize] = Heads(flash)[h.ptr - HeaderSize]
            /\ \A b \in Addr : flash'[b] = flash[b] \/ (addr <= b /\ b < After(Heads(flash), addr))
        BY <1>1, <2>2, <2>4, <3>2, <3>3 DEF H, N
      <3>5. Holds(flash', Q, h)
        BY <1>1, <1>3, <3>1, <3>3, <3>4, BlockKept
      <3>6. h.ptr # addr + HeaderSize
        BY <1>3, <3>2, <3>3 DEF HeaderSize
      <3> QED BY <3>5, <3>6
    <2>6. Begun(Q)' /\ (faults' = {} => Kept(Q)')
      <3>1. CASE data = NoData
        <4> DEFINE g == [ptr |-> addr + HeaderSize, len |-> size, data |-> data.bytes]
        <4>1. held' = held \cup {g} /\ pc' = "idle"
          BY <1>5, <3>1 DEF Return, Done
        <4>2. Holds(flash', Q, g)
          <5>1. /\ g.ptr = addr + HeaderSize /\ g.len = size /\ g.data = << >>
                /\ g.ptr \in Nat /\ g.ptr - HeaderSize = addr
            BY <1>3, <3>1 DEF NoData, HeaderSize
          <5>2. DOMAIN << >> = {}
            OBVIOUS
          <5>3. addr \in Q /\ Heads(flash')[addr] = size
            BY <1>3, <2>2, <2>4 DEF N
          <5> HIDE DEF g
          <5> QED BY <1>3, <5>1, <5>2, <5>3 DEF Holds
        <4> HIDE DEF g
        <4>3. Begun(Q)'
          BY <4>1 DEF Begun
        <4>4. faults' = {} => Kept(Q)'
          BY <1>5, <2>5, <4>1, <4>2 DEF Kept
        <4> QED BY <4>3, <4>4
      <3>2. CASE data # NoData
        <4>1. pc' = "data" /\ UNCHANGED <<addr, size, data, held>>
          BY <1>5, <3>2 DEF Continue
        <4>2. Begun(Q)'
          BY <1>3, <2>2, <2>4, <4>1 DEF Begun, N
        <4>3. faults' = {} => Kept(Q)'
          BY <1>5, <2>5, <4>1 DEF Kept
        <4> QED BY <4>2, <4>3
      <3> QED BY <3>1, <3>2
    <2>7. Whole(Q)'
      BY <2>4, <2>6 DEF Whole, N
    <2> QED BY <2>2, <2>4, <2>7
  <1> HIDE DEF r
  <1>6. CASE flash' = flash /\ AfterFirstWrite /\ faults' = faults \cup {"failed write"}
    BY <1>4, <1>6
  <1>7. CASE /\ flash' = Written(flash, addr, HeaderBytes(size)) /\ faults' = faults
             /\ IF data = NoData THEN Return ELSE Continue("data")
    BY <1>1, <1>3, <1>5, <1>7
  <1> QED BY <1>6, <1>7 DEF WriteHeader

(* The data are written inside of a packet that nobody holds yet.          *)
LEMMA DataStep ==
  ASSUME NEW P, HeapType, HeapType', Whole(P), WriteData
  PROVE  Whole(P)' /\ \A b \in P : Heads(flash')[b] = Heads(flash)[b]
  <1> DEFINE H == Heads(flash)
             N == Heads(flash')
             x == addr + HeaderSize
  <1>1. /\ IsMemory(flash) /\ H \in HeaderMap /\ Sound(H, P) /\ Tiled(H, P)
        /\ faults = {} => \A h \in held : Holds(flash, P, h)
        /\ N \in HeaderMap
    BY WholeFacts, HeadsFacts DEF HeapType
  <1>2. pc = "data" /\ AfterFirstWrite
    BY DEF WriteData
  <1>3. /\ addr \in P /\ addr \in Addr /\ addr \in Nat /\ H[addr] = size
        /\ size \in Nat /\ size > 0 /\ IsVector(data) /\ Len(data.bytes) <= size
        /\ After(H, addr) \in Nat /\ After(H, addr) <= HeapSize /\ HeapSize \in Nat
        /\ After(H, addr) = addr + 4 + size
    BY <1>2, PacketOfCall
  <1>4. PICK n \in 0 .. Len(FirstPieces) :
          /\ flash' = Written(flash, x, SubSeq(FirstPieces, 1, n))
          /\ faults' = IF n < Len(FirstPieces) THEN faults \cup {"failed write"} ELSE faults
    BY DEF WriteData
  <1> DEFINE bytes == SubSeq(FirstPieces, 1, n)
  <1>5. /\ FirstPieces \in Seq(Byte) /\ Len(FirstPieces) \in Nat /\ Len(FirstPieces) <= size
        /\ \A i \in 1 .. Len(FirstPieces) : FirstPieces[i] = data.bytes[i]
        /\ Len(data.starts) < 3 => FirstPieces = data.bytes
    <2>1. data.bytes \in Seq(Byte)
      BY <1>3 DEF IsVector
    <2>2. Len(data.bytes) \in Nat
      BY <2>1
    <2>3. /\ FirstPieces \in Seq(Byte) /\ Len(FirstPieces) <= Len(data.bytes)
          /\ \A i \in 1 .. Len(FirstPieces) : FirstPieces[i] = data.bytes[i]
          /\ Len(data.starts) < 3 => FirstPieces = data.bytes
      BY <1>3, PiecesOfData
    <2>4. Len(FirstPieces) \in Nat
      BY <2>3
    <2> QED BY <1>3, <2>2, <2>3, <2>4
  <1>6. bytes \in Seq(Byte) /\ Len(bytes) = n /\ n \in Nat /\ n <= size
        /\ \A i \in 1 .. n : bytes[i] = FirstPieces[i]
    <2>1. bytes \in Seq(Byte) /\ Len(bytes) = n /\ \A i \in 1 .. n : bytes[i] = FirstPieces[i]
      BY <1>5, PrefixBytes
    <2> HIDE DEF bytes
    <2> QED BY <1>3, <1>5, <2>1
  <1>7. flash' = Written(flash, x, bytes)
    BY <1>4
  <1> HIDE DEF bytes, H, N
  <1>8. x \in Nat /\ x = addr + 4 /\ x - HeaderSize = addr
    BY <1>3 DEF HeaderSize
  <1>9. /\ \A b \in P : N[b] = H[b]
        /\ \A b \in Addr : flash'[b] = flash[b] \/ (addr <= b /\ b < After(H, addr))
    <2>1. addr + HeaderSize <= x /\ x + Len(bytes) <= After(Heads(flash), addr)
      BY <1>3, <1>6, <1>8 DEF HeaderSize, H
    <2> DEFINE m == flash'
               z == x
    <2>2. IsMemory(flash) /\ Tiled(Heads(flash), P) /\ m = Written(flash, z, bytes)
      BY <1>1, <1>7 DEF H
    <2>3. z \in Nat /\ bytes \in Seq(Byte) /\ addr \in P
          /\ addr + HeaderSize <= z /\ z + Len(bytes) <= After(Heads(flash), addr)
      BY <1>3, <1>6, <1>8, <2>1
    <2> HIDE DEF m, z
    <2>4. /\ \A b \in P : Heads(m)[b] = Heads(flash)[b]
          /\ \A b \in Addr : m[b] = flash[b] \/ (addr <= b /\ b < After(Heads(flash), addr))
      BY <2>2, <2>3, InsideWritten
    <2> QED BY <2>4 DEF m, H, N
  <1>10. \A i \in 1 .. n : flash'[x + i - 1] = FirstPieces[i]
    <2> SUFFICES ASSUME NEW i \in 1 .. n PROVE flash'[x + i - 1] = FirstPieces[i]
      OBVIOUS
    <2> HIDE DEF x
    <2>1. x + i - 1 \in Addr
      BY <1>3, <1>6, <1>8 DEF Addr
    <2>2. x + i - 1 \in DOMAIN flash
      BY <1>1, <2>1, MemoryFacts
    <2>3. flash'[x + i - 1] = bytes[i]
      <3>1. /\ IsMemory(flash) /\ x \in Nat /\ bytes \in Seq(Byte)
            /\ i \in 1 .. Len(bytes) /\ x + i - 1 \in DOMAIN flash
        BY <1>1, <1>6, <1>8, <2>2
      <3>2. \A k \in 1 .. Len(bytes) :
               x + k - 1 \in DOMAIN flash => Written(flash, x, bytes)[x + k - 1] = bytes[k]
        BY <3>1, WrittenFacts
      <3>3. Written(flash, x, bytes)[x + i - 1] = bytes[i]
        BY <3>1, <3>2
      <3> QED BY <1>7, <3>3
    <2> QED BY <1>6, <2>3
  <1>11. Sound(N, P)
    BY <1>1, <1>9, HeadersKept
  <1> HIDE DEF x
  <1>12. ASSUME faults' = {}
         PROVE  /\ n = Len(FirstPieces) /\ faults = {}
                /\ \A h \in held : Holds(flash', P, h)
    <2>1. n = Len(FirstPieces) /\ faults = {}
      <3>1. ~(n < Len(FirstPieces))
        BY <1>4, <1>12
      <3> QED BY <1>4, <1>5, <1>12, <3>1
    <2>2. ASSUME NEW h \in held
          PROVE  Holds(flash', P, h)
      <3>1. Holds(flash, P, h) /\ h.ptr # addr + HeaderSize
        BY <1>1, <1>2, <2>1 DEF Whole, Kept
      <3>2. h.ptr - HeaderSize \in P /\ h.ptr \in Nat
        BY <3>1 DEF Holds
      <3>3. h.ptr - HeaderSize # addr
        BY <1>3, <3>1, <3>2 DEF HeaderSize
      <3>4. /\ Tiled(Heads(flash), P)
            /\ Heads(flash')[h.ptr - HeaderSize] = Heads(flash)[h.ptr - HeaderSize]
            /\ \A b \in Addr : flash'[b] = flash[b] \/ (addr <= b /\ b < After(Heads(flash), addr))
        BY <1>1, <1>9, <3>2 DEF H, N
      <3> QED BY <1>1, <1>3, <3>1, <3>2, <3>3, <3>4, BlockKept
    <2> QED BY <2>1, <2>2
  <1>13. CASE Len(data.starts) >= 3
    <2>1. pc' = "others" /\ UNCHANGED <<addr, size, data, held>>
      BY <1>2, <1>13 DEF AfterFirstWrite, Continue
    <2>2. FirstPieces' = FirstPieces
      BY <2>1 DEF FirstPieces
    <2>3. faults' = {} => Kept(P)'
      <3> SUFFICES ASSUME faults' = {} PROVE Kept(P)'
        OBVIOUS
      <3>1. \A i \in 1 .. Len(FirstPieces) : flash'[addr + HeaderSize + i - 1] = FirstPieces[i]
        BY <1>10, <1>12 DEF x
      <3>2. Heads(flash')[addr] = size
        BY <1>3, <1>9 DEF N
      <3> QED BY <1>3, <1>12, <2>1, <2>2, <3>1, <3>2 DEF Kept
    <2> QED BY <1>9, <1>11, <2>1, <2>3 DEF Whole, Begun, H, N
  <1>14. CASE ~(Len(data.starts) >= 3)
    <2> DEFINE g == [ptr |-> addr + HeaderSize, len |-> size, data |-> data.bytes]
    <2>1. held' = held \cup {g} /\ pc' = "idle"
      BY <1>2, <1>14 DEF AfterFirstWrite, Return, Done
    <2>2. FirstPieces = data.bytes
      <3>1. Len(data.starts) \in Nat
        BY <1>3 DEF IsVector
      <3> QED BY <1>5, <1>14, <3>1
    <2>3. faults' = {} => Holds(flash', P, g)
      <3> SUFFICES ASSUME faults' = {} PROVE Holds(flash', P, g)
        OBVIOUS
      <3>1. g.ptr = addr + HeaderSize /\ g.len = size /\ g.data = FirstPieces
        BY <2>2
      <3> HIDE DEF g
      <3>2. DOMAIN FirstPieces = 1 .. Len(FirstPieces)
        BY <1>5
      <3>3. \A k \in 1 .. Len(FirstPieces) :
              k \in 1 .. size /\ flash'[addr + HeaderSize + k - 1] = FirstPieces[k]
        BY <1>3, <1>5, <1>10, <1>12 DEF x
      <3>4. Heads(flash')[addr] = size
        BY <1>3, <1>9 DEF N
      <3>5. g.ptr \in Nat /\ g.ptr - HeaderSize = addr
        BY <1>3, <3>1 DEF HeaderSize
      <3>6. \A k \in DOMAIN g.data : k \in 1 .. g.len /\ flash'[g.ptr + k - 1] = g.data[k]
        BY <3>1, <3>2, <3>3
      <3> QED BY <1>3, <3>1, <3>4, <3>5, <3>6 DEF Holds
    <2> HIDE DEF g
    <2>4. faults' = {} => Kept(P)'
      BY <1>12, <2>1, <2>3 DEF Kept
    <2> QED BY <1>9, <1>11, <2>1, <2>4 DEF Whole, Begun, H, N
  <1> QED BY <1>13, <1>14

(* No bytes written, nothing changed.                                      *)
LEMMA NothingWritten ==
  ASSUME NEW m, IsMemory(m), NEW x, NEW bytes, DOMAIN bytes = {}
  PROVE  Written(m, x, bytes) = m
  <1>1. PICK n \in Nat : m \in [0 .. n - 1 -> Byte]
    BY DEF IsMemory
  <1> QED BY <1>1 DEF Written

(* As long as the heap is intact, there is nothing in the other pieces.    *)
LEMMA OthersStep ==
  ASSUME NEW P, HeapType, HeapType', Whole(P), Intact', WriteOthers
  PROVE  Whole(P)' /\ flash' = flash
  <1>1. /\ IsMemory(flash) /\ Heads(flash) \in HeaderMap /\ Sound(Heads(flash), P)
        /\ Tiled(Heads(flash), P)
    BY WholeFacts
  <1>2. pc = "others"
    BY DEF WriteOthers
  <1>3. PICK n \in 0 .. Len(OtherPieces) :
          /\ flash' = Written(flash, addr, SubSeq(OtherPieces, 1, n))
          /\ faults' = faults \cup (IF n > 0 THEN {"third piece"} ELSE {})
                              \cup (IF n < Len(OtherPieces) THEN {"failed write"} ELSE {})
    BY DEF WriteOthers
  <1> DEFINE g == [ptr |-> addr + HeaderSize, len |-> size, data |-> data.bytes]
  <1>4. held' = held \cup {g} /\ pc' = "idle"
    BY DEF WriteOthers, Return, Done
  <1>5. /\ addr \in Nat /\ size \in Nat /\ size > 0 /\ IsVector(data) /\ Len(data.bytes) <= size
        /\ Len(data.starts) >= 3
    BY <1>2 DEF HeapType, Addr
  <1>6. /\ data.bytes \in Seq(Byte) /\ OtherPieces \in Seq(Byte) /\ Len(OtherPieces) \in Nat
        /\ OtherPieces = << >> => FirstPieces = data.bytes
    <2>1. data.bytes \in Seq(Byte)
      BY <1>5 DEF IsVector
    <2>2. OtherPieces \in Seq(Byte) /\ (OtherPieces = << >> => FirstPieces = data.bytes)
      BY <1>5, PiecesOfData
    <2> QED BY <2>1, <2>2
  <1>7. n = 0
    <2> SUFFICES ASSUME n # 0 PROVE FALSE
      OBVIOUS
    <2>1. n > 0
      BY <1>6
    <2>2. "third piece" \in faults'
      BY <1>3, <2>1
    <2> QED BY <2>2 DEF Intact
  <1>8. flash' = flash
    <2>1. DOMAIN SubSeq(OtherPieces, 1, n) = {}
      BY <1>6, <1>7
    <2> QED BY <1>1, <1>3, <2>1, NothingWritten
  <1>9. ASSUME faults' = {}
        PROVE  Kept(P)'
    <2>1. faults = {}
      BY <1>3, <1>9
    <2>2. ~(n < Len(OtherPieces))
      BY <1>3, <1>9
    <2>3. OtherPieces = << >>
      BY <1>6, <1>7, <2>2
    <2>4. /\ addr \in P /\ Heads(flash)[addr] = size
          /\ \A i \in 1 .. Len(FirstPieces) : flash[addr + HeaderSize + i - 1] = FirstPieces[i]
          /\ \A h \in held : Holds(flash, P, h)
      BY <1>2, <2>1 DEF Whole, Kept
    <2>5. Holds(flash, P, g)
      <3>1. g.ptr = addr + HeaderSize /\ g.len = size /\ g.data = data.bytes
        OBVIOUS
      <3> HIDE DEF g
      <3>2. DOMAIN data.bytes = 1 .. Len(data.bytes) /\ Len(data.bytes) \in Nat
        BY <1>6
      <3>3. \A k \in 1 .. Len(data.bytes) :
              k \in 1 .. size /\ flash[addr + HeaderSize + k - 1] = data.bytes[k]
        BY <1>5, <1>6, <2>3, <2>4, <3>2
      <3>4. g.ptr \in Nat /\ g.ptr - HeaderSize = addr
        BY <1>5, <3>1 DEF HeaderSize
      <3> QED BY <1>5, <2>4, <3>1, <3>2, <3>3, <3>4 DEF Holds
    <2> HIDE DEF g
    <2> QED BY <1>4, <1>8, <2>4, <2>5 DEF Kept
  <1>10. Begun(P)'
    BY <1>4 DEF Begun
  <1> HIDE DEF g
  <1> QED BY <1>1, <1>8, <1>9, <1>10 DEF Whole

(* A loss of power leaves the memory as it is.                             *)
LEMMA PowerStep ==
  ASSUME NEW P, Whole(P), PowerFails
  PROVE  Whole(P)' /\ flash' = flash
  <1>1. /\ pc' = "idle" /\ UNCHANGED <<flash, held, faults>>
    BY DEF PowerFails, Done
  <1> QED BY <1>1 DEF Whole, Begun, Kept

LEMMA StutterStep ==
  ASSUME NEW P, Whole(P), UNCHANGED vars
  PROVE  Whole(P)' /\ flash' = flash
  <1>1. UNCHANGED <<flash, pc, addr, size, data, held, faults>>
    BY DEF vars, locals
  <1>2. FirstPieces' = FirstPieces
    BY <1>1 DEF FirstPieces
  <1> QED BY <1>1, <1>2 DEF Whole, Begun, Kept


-----------------------------------------------------------------------------
(* The blocks that a map of headers shows.                                 *)
Block(h, a) == [at |-> a + HeaderSize, len |-> h[a]]

InUse(h, P) == {Block(h, a) : a \in {p \in P : h[p] > 0}}

(* Packets with the same headers show the same blocks.                     *)
LEMMA SameBlocks ==
  ASSUME NEW m, NEW n, NEW P, \A b \in P : n[b] = m[b]
  PROVE  InUse(n, P) = InUse(m, P)
  <1>1. \A b \in P : Block(n, b) = Block(m, b) /\ (n[b] > 0 <=> m[b] > 0)
    BY DEF Block
  <1> QED BY <1>1 DEF InUse

(* A step of HeapBlocks from the blocks u to the blocks v.                 *)
BlockStep(u, v) ==
  \/ v = u
  \/ v = {}
  \/ \E b \in u : v = u \ {b}
  \/ \E b \in v : /\ Blocks!Inside(b)
                  /\ \A c \in u : Blocks!Apart(b, c)
                  /\ v = u \cup {b}

(* A release takes one block out, or none if the packet has no data.       *)
LEMMA FreeRefines ==
  ASSUME NEW m \in HeaderMap, NEW P, Tiled(m, P), NEW a \in P, NEW n, NEW Q \in SUBSET P,
         \A b \in P : b # a /\ m[b] >= 0 => b \in Q /\ n[b] = m[b],
         \A b \in Q : n[b] > 0 => b # a /\ n[b] = m[b]
  PROVE  BlockStep(InUse(m, P), InUse(n, Q))
  <1>1. \A b \in P : b \in Nat /\ m[b] \in Int
    BY TilingNumbers
  <1>2. ASSUME NEW b \in P
        PROVE  b \in Q /\ n[b] > 0 <=> m[b] > 0 /\ b # a
    <2>1. m[b] > 0 /\ b # a => b \in Q /\ n[b] = m[b]
      BY <1>1
    <2>2. b \in Q /\ n[b] > 0 => n[b] = m[b] /\ b # a
      OBVIOUS
    <2> QED BY <2>1, <2>2
  <1>3. \A b \in Q : n[b] > 0 => Block(n, b) = Block(m, b)
    BY DEF Block
  <1>4. InUse(n, Q) = {Block(m, b) : b \in {p \in P : m[p] > 0 /\ p # a}}
    BY <1>2, <1>3 DEF InUse
  <1>5. \A b \in P : Block(m, b) = Block(m, a) => b = a
    <2>1. \A b \in P : Block(m, b).at = b + 4
      BY DEF Block, HeaderSize
    <2> QED BY <1>1, <2>1
  <1>6. InUse(n, Q) = InUse(m, P) \ {Block(m, a)}
    BY <1>4, <1>5 DEF InUse
  <1>7. CASE m[a] > 0
    <2>1. Block(m, a) \in InUse(m, P)
      BY <1>7 DEF InUse
    <2> QED BY <1>6, <2>1 DEF BlockStep
  <1>8. CASE ~(m[a] > 0)
    <2>1. Block(m, a) \notin InUse(m, P)
      BY <1>5, <1>8 DEF InUse
    <2>2. InUse(n, Q) = InUse(m, P)
      BY <1>6, <2>1
    <2> QED BY <2>2 DEF BlockStep
  <1> QED BY <1>7, <1>8

(* A header written in a free packet adds a block apart from the others.   *)
LEMMA AllocateRefines ==
  ASSUME NEW m \in HeaderMap, NEW P, Tiled(m, P), NEW a \in P, m[a] < 0,
         NEW s \in Nat, s > 0, s <= -m[a], NEW n, NEW Q, n[a] = s, P \subseteq Q,
         \A b \in P : b # a => n[b] = m[b],
         \A b \in Q : b \notin P => n[b] <= 0 /\ n[b] \in Int
  PROVE  BlockStep(InUse(m, P), InUse(n, Q))
  <1> DEFINE g == [at |-> a + HeaderSize, len |-> s]
  <1>1. \A b \in P : b \in Nat /\ m[b] \in Int
    BY TilingNumbers
  <1>2. /\ a \in Nat /\ After(m, a) = a + 4 - m[a] /\ After(m, a) <= HeapSize /\ HeapSize \in Nat
    BY TilingNumbers
  <1>3. Block(n, a) = g
    BY DEF Block
  <1>4. ASSUME NEW b \in Q
        PROVE  n[b] > 0 <=> b = a \/ (b \in P /\ m[b] > 0)
    <2>1. CASE b \notin P
      BY <2>1
    <2>2. CASE b = a
      BY <2>2
    <2>3. CASE b \in P /\ b # a
      BY <2>3
    <2> QED BY <2>1, <2>2, <2>3
  <1>5. \A b \in P : m[b] > 0 => b # a /\ Block(n, b) = Block(m, b)
    BY <1>1 DEF Block
  <1>9. g.at = a + 4 /\ g.len = s
    BY DEF HeaderSize
  <1> HIDE DEF g
  <1>6. InUse(n, Q) = InUse(m, P) \cup {g}
    <2>1. InUse(m, P) \subseteq InUse(n, Q)
      BY <1>4, <1>5 DEF InUse
    <2>2. g \in InUse(n, Q)
      BY <1>3, <1>4 DEF InUse
    <2>3. InUse(n, Q) \subseteq InUse(m, P) \cup {g}
      <3> SUFFICES ASSUME NEW b \in Q, n[b] > 0
                   PROVE  Block(n, b) \in InUse(m, P) \cup {g}
        BY DEF InUse
      <3>1. CASE b = a
        BY <1>3, <3>1
      <3>2. CASE b # a
        BY <1>4, <1>5, <3>2 DEF InUse
      <3> QED BY <3>1, <3>2
    <2> QED BY <2>1, <2>2, <2>3
  <1>7. ASSUME NEW c \in InUse(m, P)
        PROVE  Blocks!Apart(g, c)
    <2>1. PICK b \in P : m[b] > 0 /\ c = Block(m, b)
      BY DEF InUse
    <2>2. b # a /\ b \in Nat /\ m[b] \in Int /\ After(m, b) = b + 4 + m[b]
      BY <1>1, <2>1, TilingNumbers
    <2>3. After(m, a) <= b \/ After(m, b) <= a
      BY <2>2, PacketsApart
    <2>4. c.at = b + 4 /\ c.len = m[b]
      BY <2>1 DEF Block, HeaderSize
    <2>5. g.at + g.len <= c.at \/ c.at + c.len <= g.at
      BY <1>1, <1>2, <1>9, <2>2, <2>3, <2>4
    <2> QED BY <2>5 DEF Blocks!Apart
  <1>8. Blocks!Inside(g)
    <2>1. g.at \in 0 .. HeapSize - 1 /\ g.len \in 1 .. HeapSize - g.at
      BY <1>1, <1>2, <1>9
    <2> QED BY <2>1 DEF Blocks!Inside
  <1> QED BY <1>6, <1>7, <1>8 DEF BlockStep

-----------------------------------------------------------------------------
(* Each write is a step of the heap of blocks: the write of a header in    *)
(* flashheap_writev allocates, the one in flashheap_free frees, and every  *)
(* other one, the loss of power too, changes nothing that a block is.      *)
LEMMA WriteRefines ==
  ASSUME NEW P, HeapType, HeapType', Whole(P), Intact', [Next]_vars
  PROVE  \E Q : Whole(Q)' /\ BlockStep(InUse(Heads(flash), P), InUse(Heads(flash'), Q))
  <1>1. /\ Heads(flash) \in HeaderMap /\ Tiled(Heads(flash), P)
        /\ \A a \in P : a \in Nat
    BY WholeFacts, TilingNumbers
  <1>2. ASSUME Whole(P)', \A b \in P : Heads(flash')[b] = Heads(flash)[b]
        PROVE  \E Q : Whole(Q)' /\ BlockStep(InUse(Heads(flash), P), InUse(Heads(flash'), Q))
    BY <1>2, SameBlocks DEF BlockStep
  <1>3. CASE flashheap_erase
    <2>1. Whole({0})' /\ Heads(flash')[0] < 0 /\ Heads(flash')[0] \in Int
      BY <1>3, EraseStep
    <2>2. InUse(Heads(flash'), {0}) = {}
      BY <2>1 DEF InUse
    <2> QED BY <2>1, <2>2 DEF BlockStep
  <1>4. ASSUME NEW a \in Packets, flashheap_free(a + HeaderSize)
        PROVE  \E Q : Whole(Q)' /\ BlockStep(InUse(Heads(flash), P), InUse(Heads(flash'), Q))
    <2>1. a \in P
      BY WholeIsPackets
    <2> DEFINE m == Heads(flash)
               n == Heads(flash')
    <2>2. PICK Q \in SUBSET P :
              /\ Whole(Q)'
              /\ \A b \in P : b # a /\ m[b] >= 0 => b \in Q /\ n[b] = m[b]
              /\ \A b \in Q : n[b] > 0 => b # a /\ n[b] = m[b]
      BY <1>4, <2>1, FreeStep
    <2>3. m \in HeaderMap /\ Tiled(m, P)
      BY <1>1
    <2> HIDE DEF m, n
    <2>4. BlockStep(InUse(m, P), InUse(n, Q))
      BY <2>1, <2>2, <2>3, FreeRefines
    <2> QED BY <2>2, <2>4 DEF m, n
  <1>5. ASSUME NEW len \in Nat, NEW v, Allocate(len, v)
        PROVE  \E Q : Whole(Q)' /\ BlockStep(InUse(Heads(flash), P), InUse(Heads(flash'), Q))
    <2>1. Whole(P)' /\ flash' = flash
      BY <1>5, AllocateStep
    <2> QED BY <1>2, <2>1
  <1>6. CASE \E len \in Lens : flashheap_alloc(len)
    <2>1. Lens \subseteq Nat
      BY FlashHeapAssumption
    <2> QED BY <1>5, <1>6, <2>1 DEF flashheap_alloc
  <1>7. CASE \E v \in Vectors : flashheap_writev(v)
    <2>1. \A v \in Vectors : Len(v.bytes) \in Nat
      BY FlashHeapAssumption DEF IsVector
    <2> QED BY <1>5, <1>7, <2>1 DEF flashheap_writev
  <1>8. CASE WriteRemainder
    BY <1>2, <1>8, RemainderStep
  <1>9. CASE WriteHeader
    <2>1. CASE Whole(P)' /\ flash' = flash
      BY <1>2, <2>1
    <2>2. CASE ~(Whole(P)' /\ flash' = flash)
      <3> DEFINE m == Heads(flash)
                 n == Heads(flash')
      <3>1. /\ addr \in P /\ m[addr] < 0 /\ n[addr] = size
            /\ size \in Nat /\ size > 0 /\ size <= -m[addr] /\ n \in HeaderMap
        BY <1>9, <2>2, HeaderStep
      <3>2. PICK Q : /\ Whole(Q)' /\ P \subseteq Q
                     /\ \A b \in P : b # addr => n[b] = m[b]
                     /\ \A b \in Q : b \notin P => n[b] <= 0
        BY <1>9, <2>2, HeaderStep
      <3>3. \A b \in Q : n[b] \in Int
        <4>1. Q \subseteq Addr
          BY <3>2 DEF Whole, Sound, Tiled
        <4> QED BY <3>1, <4>1 DEF HeaderMap
      <3>4. m \in HeaderMap /\ Tiled(m, P)
        BY <1>1
      <3> HIDE DEF m, n
      <3>5. BlockStep(InUse(m, P), InUse(n, Q))
        BY <3>1, <3>2, <3>3, <3>4, AllocateRefines
      <3> QED BY <3>2, <3>5 DEF m, n
    <2> QED BY <2>1, <2>2
  <1>10. CASE WriteData
    BY <1>2, <1>10, DataStep
  <1>11. CASE WriteOthers
    <2>1. Whole(P)' /\ flash' = flash
      BY <1>11, OthersStep
    <2> QED BY <1>2, <2>1
  <1>12. CASE PowerFails
    <2>1. Whole(P)' /\ flash' = flash
      BY <1>12, PowerStep
    <2> QED BY <1>2, <2>1
  <1>13. CASE UNCHANGED vars
    <2>1. Whole(P)' /\ flash' = flash
      BY <1>13, StutterStep
    <2> QED BY <1>2, <2>1
  <1> QED BY <1>3, <1>4, <1>6, <1>7, <1>8, <1>9, <1>10, <1>11, <1>12, <1>13 DEF Next

(* Only erasing makes a heap intact again.                                 *)
LEMMA OnlyErasingHeals ==
  ASSUME [Next]_vars, Intact', ~Intact
  PROVE  flashheap_erase
  <1>1. ~(faults \subseteq faults')
    BY DEF Intact
  <1>2. SUFFICES ASSUME ~flashheap_erase PROVE faults \subseteq faults'
    BY <1>1
  <1>3. ASSUME NEW a \in Packets, flashheap_free(a + HeaderSize) PROVE faults \subseteq faults'
    BY <1>3 DEF flashheap_free
  <1>4. ASSUME NEW len, NEW v, Allocate(len, v) PROVE faults \subseteq faults'
    BY <1>4 DEF Allocate
  <1>5. WriteRemainder => faults \subseteq faults'
    BY DEF WriteRemainder
  <1>6. WriteHeader => faults \subseteq faults'
    BY DEF WriteHeader
  <1>7. WriteData => faults \subseteq faults'
    BY DEF WriteData
  <1>8. WriteOthers => faults \subseteq faults'
    BY DEF WriteOthers
  <1>9. PowerFails => faults \subseteq faults'
    BY DEF PowerFails
  <1>10. UNCHANGED vars => faults \subseteq faults'
    BY DEF vars
  <1> QED BY <1>2, <1>3, <1>4, <1>5, <1>6, <1>7, <1>8, <1>9, <1>10
          DEF Next, flashheap_alloc, flashheap_writev

(* The invariant: the memory always has its type, and as long as the heap  *)
(* is intact its packets tile it and hold what they should.                *)
LEMMA HeapInvStep == HeapInv /\ [Next]_vars => HeapInv'
  <1> SUFFICES ASSUME HeapInv, [Next]_vars
               PROVE  HeapInv'
    OBVIOUS
  <1>1. HeapType'
    BY TypeStep DEF HeapInv
  <1>2. ASSUME Intact' PROVE \E Q : Whole(Q)'
    <2>1. CASE Intact
      BY <1>1, <1>2, <2>1, WriteRefines DEF HeapInv
    <2>2. CASE ~Intact
      <3>1. flashheap_erase
        BY <1>2, <2>2, OnlyErasingHeals
      <3>2. Whole({0})'
        BY <3>1, EraseStep DEF HeapInv
      <3> QED BY <3>2
    <2> QED BY <2>1, <2>2
  <1>3. ASSUME Intact' PROVE Whole(Packets)'
    <2>1. PICK Q : Whole(Q)'
      BY <1>2, <1>3
    <2>2. Packets' = Q
      BY <1>1, <2>1, WholeIsPackets
    <2> QED BY <2>1, <2>2 DEF Whole, Begun, Kept
  <1> QED BY <1>1, <1>3 DEF HeapInv

LEMMA HeapIsInv == Spec => []HeapInv
  <1>1. Init => HeapInv
    <2> SUFFICES ASSUME Init PROVE HeapInv
      OBVIOUS
    <2>1. HeapType /\ Whole({0})
      BY TypeInit, HeapInit
    <2>2. Packets = {0}
      BY <2>1, WholeIsPackets
    <2> QED BY <2>1, <2>2 DEF HeapInv
  <1> QED BY <1>1, HeapInvStep, PTL DEF Spec

-----------------------------------------------------------------------------
(* The packets of an intact heap, and the headers behind them.             *)
LEMMA IntactPackets ==
  ASSUME HeapInv, Intact
  PROVE  /\ IsMemory(flash) /\ Heads(flash) \in HeaderMap
         /\ Tiled(Heads(flash), Packets) /\ NoFreeNeighbours(Heads(flash), Packets)
         /\ \A a \in Packets : /\ Heads(flash)[a] = Header(flash, a)
                               /\ FollowedBy(a) = After(Heads(flash), a)
                               /\ FollowedBy(a) \in Nat /\ FollowedBy(a) <= HeapSize
                               /\ FollowedBy(a) < HeapSize => FollowedBy(a) \in Packets
  <1>1. HeapType /\ Whole(Packets)
    BY DEF HeapInv
  <1>2. /\ IsMemory(flash) /\ Heads(flash) \in HeaderMap
        /\ Tiled(Heads(flash), Packets) /\ NoFreeNeighbours(Heads(flash), Packets)
        /\ \A a \in Packets : Heads(flash)[a] = Header(flash, a)
    BY <1>1, WholeFacts DEF Sound
  <1>3. \A a \in Packets : FollowedBy(a) = After(Heads(flash), a)
    BY <1>2 DEF FollowedBy, After
  <1>4. \A a \in Packets : /\ After(Heads(flash), a) \in Nat /\ After(Heads(flash), a) <= HeapSize
                           /\ After(Heads(flash), a) < HeapSize => After(Heads(flash), a) \in Packets
    BY <1>2, TilingNumbers DEF Tiled
  <1> QED BY <1>2, <1>3, <1>4

(* As long as flashheap.c has not been led to join what lies behind the    *)
(* heap, to split a packet with less than a header left or to write a      *)
(* third piece, the packets fill the heap to its last byte and no two      *)
(* neighbours are free, between any two writes, after a loss of power and  *)
(* after writes that failed.                                               *)
THEOREM HeapStaysWhole == Spec => []PacketsFillHeap
  <1>1. HeapInv => PacketsFillHeap
    <2> SUFFICES ASSUME HeapInv, Intact, NEW a \in Packets
                 PROVE  /\ FollowedBy(a) =< HeapSize
                        /\ Header(flash, a) < 0 /\ FollowedBy(a) < HeapSize
                             => Header(flash, FollowedBy(a)) >= 0
      BY DEF PacketsFillHeap
    <2>1. /\ FollowedBy(a) = After(Heads(flash), a) /\ FollowedBy(a) <= HeapSize
          /\ Heads(flash)[a] = Header(flash, a)
      BY IntactPackets
    <2>2. ASSUME Header(flash, a) < 0, FollowedBy(a) < HeapSize
          PROVE  Header(flash, FollowedBy(a)) >= 0
      <3>1. FollowedBy(a) \in Packets
        BY <2>2, IntactPackets
      <3>2. Heads(flash)[FollowedBy(a)] = Header(flash, FollowedBy(a))
        BY <3>1, IntactPackets
      <3>3. Heads(flash)[FollowedBy(a)] >= 0
        BY <2>1, <2>2, IntactPackets DEF NoFreeNeighbours
      <3> QED BY <3>2, <3>3
    <2> QED BY <2>1, <2>2
  <1> QED BY <1>1, HeapIsInv, PTL

(* As long as, besides, the device has taken every write, what a caller    *)
(* stored stays there until it is freed, whatever is allocated, freed or   *)
(* interrupted in between.                                                 *)
THEOREM HeapKeepsData == Spec => []DataKept
  <1>1. HeapInv => DataKept
    <2> SUFFICES ASSUME HeapInv, faults = {}, NEW h \in held
                 PROVE  Stored(h)
      BY DEF DataKept
    <2>1. Intact
      BY DEF Intact
    <2>2. Holds(flash, Packets, h)
      BY <2>1 DEF HeapInv, Whole, Kept
    <2>3. Heads(flash)[h.ptr - HeaderSize] = Header(flash, h.ptr - HeaderSize)
      BY <2>1, <2>2, IntactPackets DEF Holds
    <2> QED BY <2>2, <2>3 DEF Holds, Stored
  <1> QED BY <1>1, HeapIsInv, PTL

(* The blocks that the refinement shows, in terms of the map of headers.   *)
Shown == IF Intact
         THEN {[at |-> a + HeaderSize, len |-> Header(flash, a)] :
                 a \in {p \in Packets : Header(flash, p) > 0}}
         ELSE {}

LEMMA ShownBlocks ==
  ASSUME HeapType, Intact => Whole(Packets)
  PROVE  Shown = IF Intact THEN InUse(Heads(flash), Packets) ELSE {}
  <1>1. CASE Intact
    <2>1. \A a \in Packets : Heads(flash)[a] = Header(flash, a)
      BY <1>1, WholeFacts
    <2> QED BY <1>1, <2>1 DEF Shown, InUse, Block
  <1>2. CASE ~Intact
    BY <1>2 DEF Shown
  <1> QED BY <1>1, <1>2

LEMMA ShownBlocksNext ==
  ASSUME HeapInv, HeapInv', [Next]_vars
  PROVE  BlockStep(Shown, Shown')
  <1>1. Shown = IF Intact THEN InUse(Heads(flash), Packets) ELSE {}
    BY ShownBlocks DEF HeapInv
  <1>2. Shown' = IF Intact' THEN InUse(Heads(flash'), Packets') ELSE {}
    <2>1. HeapType' /\ (Intact' => Whole(Packets)')
      BY DEF HeapInv
    <2>2. CASE Intact'
      <3>1. \A a \in Packets' : Heads(flash')[a] = Header(flash', a)
        <4>1. IsMemory(flash') /\ Tiled(Heads(flash'), Packets')
          BY <2>1, <2>2 DEF HeapType, Whole, Sound
        <4> QED BY <4>1, PacketHeaders
      <3> QED BY <2>2, <3>1 DEF Shown, InUse, Block
    <2>3. CASE ~Intact'
      BY <2>3 DEF Shown
    <2> QED BY <2>2, <2>3
  <1>3. CASE ~Intact'
    BY <1>2, <1>3 DEF BlockStep
  <1>4. CASE Intact' /\ Intact
    <2>1. PICK Q : Whole(Q)' /\ BlockStep(InUse(Heads(flash), Packets), InUse(Heads(flash'), Q))
      BY <1>4, WriteRefines DEF HeapInv
    <2>2. Packets' = Q
      BY <2>1, WholeIsPackets DEF HeapInv
    <2> QED BY <1>1, <1>2, <1>4, <2>1, <2>2
  <1>5. CASE Intact' /\ ~Intact
    <2>1. flashheap_erase
      BY <1>5, OnlyErasingHeals
    <2>2. Whole({0})' /\ Heads(flash')[0] < 0 /\ Heads(flash')[0] \in Int
      BY <2>1, EraseStep DEF HeapInv
    <2>3. Packets' = {0}
      BY <2>2, WholeIsPackets DEF HeapInv
    <2>4. InUse(Heads(flash'), {0}) = {}
      BY <2>2 DEF InUse
    <2> QED BY <1>2, <1>5, <2>3, <2>4 DEF BlockStep
  <1> QED BY <1>3, <1>4, <1>5

(* Each allocation and each release is decided by one write: before it the *)
(* heap is as if nothing had been begun, after it as if all were done, and *)
(* no other block is touched.  This is said of a heap that is intact; one  *)
(* that no longer is counts as having lost its blocks until it is erased.  *)
THEOREM HeapRefinesBlocks == Spec => OneWriteDecides
  <1>1. Init => Blocks!Init
    <2> SUFFICES ASSUME Init PROVE Blocks!Init
      OBVIOUS
    <2>1. HeapType /\ Whole({0}) /\ Heads(flash)[0] < 0 /\ Heads(flash)[0] \in Int
      BY TypeInit, HeapInit
    <2>2. Packets = {0}
      BY <2>1, WholeIsPackets
    <2>3. InUse(Heads(flash), {0}) = {}
      BY <2>1 DEF InUse
    <2>4. Shown = {}
      BY <2>1, <2>2, <2>3, ShownBlocks
    <2> QED BY <2>4 DEF Shown, Blocks!Init
  <1>2. HeapInv /\ HeapInv' /\ [Next]_vars => [Blocks!Next]_Shown
    <2> SUFFICES ASSUME HeapInv, HeapInv', [Next]_vars
                 PROVE  [Blocks!Next]_Shown
      OBVIOUS
    <2>1. BlockStep(Shown, Shown')
      BY ShownBlocksNext
    <2> QED BY <2>1 DEF BlockStep, Shown, Blocks!Next, Blocks!Lose, Blocks!Free, Blocks!Allocate
  <1> QED BY <1>1, <1>2, HeapIsInv, PTL DEF Spec, OneWriteDecides, Blocks!Spec, Shown
====
