---------------------------- MODULE BusartProofs ----------------------------
(***************************************************************************)
(* The serial port's promises, for every size of the rings and every       *)
(* length of a request.                                                    *)
(*                                                                         *)
(* First, what each operation of a ring does to the bytes that wait in it, *)
(* for every size of the ring and wherever its pointers are.  Then the     *)
(* invariant: what the program may rely on between the steps of ring_write *)
(* and ring_read, whatever the interrupt handler did meanwhile: the room   *)
(* that was counted is still there, the bytes that were copied are still   *)
(* where they were put, the bytes that were read still wait.               *)
(***************************************************************************)
EXTENDS Busart, SequenceTheorems, TLAPS

(* The rings whose bytes are of S.                                         *)
Rings(S) == [in: Offsets, out: Offsets, buf: [Offsets -> S]]

(* The writer has put these k bytes into the free ones.                    *)
Placed(r, k, new) == \A i \in 1 .. k : r.buf[(r.in + i - 1) % RingSize] = new[i]

-----------------------------------------------------------------------------
(* x % N for x less than N away from the range of offsets.                 *)
LEMMA ModNear ==
  ASSUME NEW N \in Nat, N > 0, NEW x \in Int
  PROVE  /\ 0 <= x /\ x < N => x % N = x
         /\ -N <= x /\ x < 0 => x % N = x + N
         /\ N <= x /\ x < 2 * N => x % N = x - N
         /\ x % N \in 0 .. N - 1
<1>1. 0 <= x /\ x < N => x % N = x
  BY SMTT(30)
<1>2. -N <= x /\ x < 0 => x % N = x + N
  BY SMTT(30)
<1>3. N <= x /\ x < 2 * N => x % N = x - N
  BY SMTT(30)
<1>4. x % N \in 0 .. N - 1
  BY SMTT(30)
<1> QED
  BY <1>1, <1>2, <1>3, <1>4

(* A function on 1 .. n is a sequence of length n.                         *)
LEMMA FunctionSeq ==
  ASSUME NEW S, NEW n \in Nat, NEW f \in [1 .. n -> S]
  PROVE  f \in Seq(S) /\ Len(f) = n
<1>1. f \in Seq(S)
  BY SeqDef
<1>2. DOMAIN f = 1 .. Len(f) /\ Len(f) \in Nat /\ DOMAIN f = 1 .. n
  BY <1>1, LenProperties
<1>3. n <= Len(f)
  BY <1>2
<1>4. Len(f) <= n
  BY <1>2
<1> QED
  BY <1>1, <1>2, <1>3, <1>4

(* Where an offset is, i places after another.                             *)
LEMMA Place ==
  ASSUME NEW o \in Offsets, NEW i \in 0 .. RingSize
  PROVE  /\ (o + i) % RingSize \in Offsets
         /\ o + i < RingSize => (o + i) % RingSize = o + i
         /\ o + i >= RingSize => (o + i) % RingSize = (o + i) - RingSize
<1>1. /\ RingSize \in Nat /\ RingSize > 0
      /\ o + i \in Int /\ 0 <= o + i /\ o + i < 2 * RingSize
  BY RingAssumption DEF Offsets
<1>2. o + i < RingSize => (o + i) % RingSize = o + i
  BY <1>1, ModNear
<1>3. o + i >= RingSize => (o + i) % RingSize = (o + i) - RingSize
  BY <1>1, ModNear
<1>4. (o + i) % RingSize \in Offsets
  BY <1>1, ModNear DEF Offsets
<1> QED
  BY <1>2, <1>3, <1>4

(* How far one offset is behind another.                                   *)
LEMMA Distance ==
  ASSUME NEW a \in Offsets, NEW b \in Offsets
  PROVE  /\ (a - b) % RingSize \in Offsets
         /\ a >= b => (a - b) % RingSize = a - b
         /\ a < b => (a - b) % RingSize = a - b + RingSize
<1> DEFINE x == a - b
<1>1. RingSize \in Nat /\ RingSize > 0 /\ x \in Int /\ -RingSize <= x /\ x < RingSize
      /\ a \in Int /\ b \in Int
  BY RingAssumption DEF Offsets
<1>2. a >= b => x % RingSize = x
  BY <1>1, ModNear
<1>3. a < b => x % RingSize = x + RingSize
  BY <1>1, ModNear
<1>4. x % RingSize \in 0 .. RingSize - 1
  BY <1>1, ModNear
<1> QED
  BY <1>2, <1>3, <1>4 DEF Offsets

(* The two counts share the bytes of the buffer but one.                   *)
LEMMA Counts ==
  ASSUME NEW S, NEW r \in Rings(S)
  PROVE  /\ RING_READ_NUM(r) \in 0 .. RingSize - 1
         /\ RING_WRITE_NUM(r) \in 0 .. RingSize - 1
         /\ RING_READ_NUM(r) + RING_WRITE_NUM(r) = RingSize - 1
<1>1. r.in \in Offsets /\ r.out \in Offsets
  BY DEF Rings
<1>2. RING_READ_NUM(r) \in Offsets
  BY <1>1, Distance DEF RING_READ_NUM
<1> QED
  BY <1>2, RingAssumption DEF RING_WRITE_NUM, Offsets

(* The bytes ring_read copies are a sequence of the buffer's values.       *)
LEMMA CopyOutSeq ==
  ASSUME NEW S, NEW r \in Rings(S), NEW n \in 0 .. RingSize
  PROVE  /\ CopyOut(r, n) \in Seq(S)
         /\ Len(CopyOut(r, n)) = n
         /\ \A i \in 1 .. n : CopyOut(r, n)[i] = r.buf[(r.out + i - 1) % RingSize]
<1>1. \A i \in 1 .. n : (r.out + i - 1) % RingSize \in Offsets
  <2> TAKE i \in 1 .. n
  <2>1. r.out \in Offsets /\ i - 1 \in 0 .. RingSize /\ r.out + (i - 1) = r.out + i - 1
    BY RingAssumption DEF Rings, Offsets
  <2> QED
    BY <2>1, Place
<1>2. CopyOut(r, n) \in [1 .. n -> S]
  BY <1>1 DEF CopyOut, Rings
<1>3. n \in Nat
  BY RingAssumption
<1> QED
  BY <1>2, <1>3, FunctionSeq DEF CopyOut

(* So are the contents.                                                    *)
LEMMA ContentsSeq ==
  ASSUME NEW S, NEW r \in Rings(S)
  PROVE  /\ Contents(r) \in Seq(S)
         /\ Len(Contents(r)) = RING_READ_NUM(r)
         /\ \A i \in 1 .. RING_READ_NUM(r) :
               Contents(r)[i] = r.buf[(r.out + i - 1) % RingSize]
<1> DEFINE n == RING_READ_NUM(r)
<1>1. n \in 0 .. RingSize
  BY Counts, RingAssumption
<1> HIDE DEF n
<1>2. /\ CopyOut(r, n) \in Seq(S)
      /\ Len(CopyOut(r, n)) = n
      /\ \A i \in 1 .. n : CopyOut(r, n)[i] = r.buf[(r.out + i - 1) % RingSize]
  BY <1>1, CopyOutSeq
<1>3. Contents(r) = CopyOut(r, n)
  BY DEF Contents, n
<1> QED
  BY <1>2, <1>3 DEF n

(* Two steps around the ring are one.                                      *)
LEMMA PlaceAgain ==
  ASSUME NEW o \in Offsets, NEW k \in Nat, NEW j \in Nat, k + j <= RingSize
  PROVE  (((o + k) % RingSize) + j) % RingSize = (o + (k + j)) % RingSize
<1> DEFINE m == (o + k) % RingSize
<1>1. k \in 0 .. RingSize /\ j \in 0 .. RingSize /\ k + j \in 0 .. RingSize
      /\ o \in Int /\ RingSize \in Nat /\ 0 <= o /\ o < RingSize
  BY RingAssumption DEF Offsets
<1>2. /\ m \in Offsets
      /\ o + k < RingSize => m = o + k
      /\ o + k >= RingSize => m = (o + k) - RingSize
  BY <1>1, Place
<1> HIDE DEF m
<1>3. /\ m + j < RingSize => (m + j) % RingSize = m + j
      /\ m + j >= RingSize => (m + j) % RingSize = (m + j) - RingSize
  BY <1>1, <1>2, Place
<1> DEFINE q == k + j
<1>4. /\ o + q < RingSize => (o + q) % RingSize = o + q
      /\ o + q >= RingSize => (o + q) % RingSize = (o + q) - RingSize
  BY <1>1, Place
<1>5. CASE o + k < RingSize
  <2>1. m + j = o + q
    BY <1>1, <1>2, <1>5
  <2> QED
    BY <2>1 DEF m
<1>6. CASE o + k >= RingSize
  <2>1. m + j = (o + q) - RingSize /\ o + q >= RingSize /\ m + j < RingSize
    BY <1>1, <1>2, <1>6
  <2> QED
    BY <1>3, <1>4, <2>1 DEF m
<1> QED
  BY <1>1, <1>5, <1>6

(* Moving the hinder offset on.                                            *)
LEMMA DistanceLess ==
  ASSUME NEW a \in Offsets, NEW b \in Offsets, NEW k \in 0 .. ((a - b) % RingSize)
  PROVE  (a - ((b + k) % RingSize)) % RingSize = ((a - b) % RingSize) - k
<1> DEFINE c == (b + k) % RingSize
           n == (a - b) % RingSize
           m == (a - c) % RingSize
<1>1. /\ n \in Offsets
      /\ a >= b => n = a - b
      /\ a < b => n = a - b + RingSize
  BY Distance
<1>2. k \in 0 .. RingSize
  BY <1>1, RingAssumption DEF Offsets
<1>3. /\ c \in Offsets
      /\ b + k < RingSize => c = b + k
      /\ b + k >= RingSize => c = (b + k) - RingSize
  BY <1>2, Place
<1> HIDE DEF c
<1>4. /\ a >= c => m = a - c
      /\ a < c => m = a - c + RingSize
  BY <1>3, Distance
<1>5. k \in 0 .. n
  OBVIOUS
<1> HIDE DEF n, m
<1>6. a \in Nat /\ b \in Nat /\ RingSize \in Nat /\ a < RingSize /\ b < RingSize
      /\ k \in Nat /\ k <= n /\ n \in Nat /\ c \in Nat
  BY <1>1, <1>3, <1>5, RingAssumption DEF Offsets
<1>7. m = n - k
  BY ONLY <1>1, <1>3, <1>4, <1>6
<1> QED
  BY <1>7 DEF m, n, c

(* Moving the one in front on.                                             *)
LEMMA DistanceMore ==
  ASSUME NEW a \in Offsets, NEW b \in Offsets, NEW k \in Nat,
         ((a - b) % RingSize) + k < RingSize
  PROVE  (((a + k) % RingSize) - b) % RingSize = ((a - b) % RingSize) + k
<1> DEFINE c == (a + k) % RingSize
           n == (a - b) % RingSize
           m == (c - b) % RingSize
<1>1. /\ n \in Offsets
      /\ a >= b => n = a - b
      /\ a < b => n = a - b + RingSize
  BY Distance
<1>2. n + k < RingSize
  OBVIOUS
<1> HIDE DEF n
<1>3. k \in 0 .. RingSize
  BY <1>1, <1>2, RingAssumption DEF Offsets
<1>4. /\ c \in Offsets
      /\ a + k < RingSize => c = a + k
      /\ a + k >= RingSize => c = (a + k) - RingSize
  BY <1>3, Place
<1> HIDE DEF c
<1>5. /\ c >= b => m = c - b
      /\ c < b => m = c - b + RingSize
  BY <1>4, Distance
<1> HIDE DEF m
<1>6. a \in Nat /\ b \in Nat /\ RingSize \in Nat /\ a < RingSize /\ b < RingSize
      /\ n \in Nat /\ c \in Nat
  BY <1>1, <1>4, RingAssumption DEF Offsets
<1>7. m = n + k
  BY ONLY <1>1, <1>2, <1>4, <1>5, <1>6
<1> QED
  BY <1>7 DEF m, n, c

(* How far a place ahead of an offset is.                                  *)
LEMMA DistanceAhead ==
  ASSUME NEW b \in Offsets, NEW j \in Offsets
  PROVE  (((b + j) % RingSize) - b) % RingSize = j
<1>1. b >= b /\ b - b = 0 /\ j \in Nat /\ j < RingSize /\ b \in Int
  BY RingAssumption DEF Offsets
<1>2. (b - b) % RingSize = 0
  BY <1>1, Distance
<1>3. ((b - b) % RingSize) + j < RingSize /\ 0 + j = j
  BY <1>1, <1>2
<1> QED
  BY <1>1, <1>2, <1>3, DistanceMore

(* A waiting byte is behind all the free ones, seen from the writer.       *)
LEMMA DistanceOccupied ==
  ASSUME NEW a \in Offsets, NEW b \in Offsets, NEW j \in Nat,
         j < (a - b) % RingSize
  PROVE  (((b + j) % RingSize) - a) % RingSize = (RingSize - ((a - b) % RingSize)) + j
<1> DEFINE c == (b + j) % RingSize
           n == (a - b) % RingSize
           m == (c - a) % RingSize
<1>1. /\ n \in Offsets
      /\ a >= b => n = a - b
      /\ a < b => n = a - b + RingSize
  BY Distance
<1>2. j < n
  OBVIOUS
<1> HIDE DEF n
<1>3. j \in 0 .. RingSize
  BY <1>1, <1>2, RingAssumption DEF Offsets
<1>4. /\ c \in Offsets
      /\ b + j < RingSize => c = b + j
      /\ b + j >= RingSize => c = (b + j) - RingSize
  BY <1>3, Place
<1> HIDE DEF c
<1>5. /\ c >= a => m = c - a
      /\ c < a => m = c - a + RingSize
  BY <1>4, Distance
<1> HIDE DEF m
<1>6. a \in Nat /\ b \in Nat /\ RingSize \in Nat /\ a < RingSize /\ b < RingSize
      /\ n \in Nat /\ n < RingSize /\ c \in Nat
  BY <1>1, <1>4, RingAssumption DEF Offsets
<1>7. m = (RingSize - n) + j
  BY ONLY <1>1, <1>2, <1>4, <1>5, <1>6
<1> QED
  BY <1>7 DEF m, n, c

-----------------------------------------------------------------------------
(* The reader gives bytes back: the rest keeps its order, and the writer's *)
(* free bytes, which begin at in, grow at their end only.                  *)
LEMMA ReadAdvance_Contents ==
  ASSUME NEW S, NEW r \in Rings(S), NEW k \in 0 .. RING_READ_NUM(r)
  PROVE  /\ ring_read_advance(r, k) \in Rings(S)
         /\ RING_READ_NUM(ring_read_advance(r, k)) = RING_READ_NUM(r) - k
         /\ Contents(ring_read_advance(r, k))
              = SubSeq(Contents(r), k + 1, RING_READ_NUM(r))
<1> DEFINE s == ring_read_advance(r, k)
           n == RING_READ_NUM(r)
<1>1. r.in \in Offsets /\ r.out \in Offsets /\ n \in 0 .. RingSize - 1 /\ k \in 0 .. n
      /\ RingSize \in Nat
  BY Counts, RingAssumption DEF Rings
<1>2. /\ s \in Rings(S) /\ s.in = r.in /\ s.buf = r.buf
      /\ s.out = (r.out + k) % RingSize /\ s.out \in Offsets
      /\ r.out + k < RingSize => s.out = r.out + k
      /\ r.out + k >= RingSize => s.out = (r.out + k) - RingSize
  <2>1. k \in 0 .. RingSize
    BY <1>1
  <2>2. (r.out + k) % RingSize \in Offsets
    BY <1>1, <2>1, Place
  <2>3. s.out = (r.out + k) % RingSize /\ s.in = r.in /\ s.buf = r.buf
    BY DEF ring_read_advance, Rings
  <2>4. s \in Rings(S)
    BY <2>2 DEF ring_read_advance, Rings
  <2> QED
    BY <1>1, <2>1, <2>2, <2>3, <2>4, Place
<1>3. RING_READ_NUM(s) = n - k
  <2>1. k \in 0 .. ((r.in - r.out) % RingSize)
    BY DEF RING_READ_NUM
  <2>2. (r.in - ((r.out + k) % RingSize)) % RingSize = ((r.in - r.out) % RingSize) - k
    BY <1>1, <2>1, DistanceLess
  <2> HIDE DEF s
  <2> QED
    BY <1>2, <2>2 DEF RING_READ_NUM
<1>4. /\ Contents(r) \in Seq(S) /\ Len(Contents(r)) = n
      /\ \A i \in 1 .. n : Contents(r)[i] = r.buf[(r.out + i - 1) % RingSize]
  BY ContentsSeq
<1>5. /\ Contents(s) \in Seq(S) /\ Len(Contents(s)) = n - k
      /\ \A i \in 1 .. n - k : Contents(s)[i] = r.buf[(s.out + i - 1) % RingSize]
  BY <1>2, <1>3, ContentsSeq
<1> DEFINE t == SubSeq(Contents(r), k + 1, n)
<1>6. /\ t \in Seq(S) /\ Len(t) = n - k
      /\ \A i \in 1 .. n - k : t[i] = Contents(r)[k + i]
  <2>1. \A i \in k + 1 .. n : Contents(r)[i] \in S
    BY <1>1, <1>4, ElementOfSeq
  <2>2. /\ t \in Seq(S) /\ Len(t) = IF k + 1 <= n THEN n - (k + 1) + 1 ELSE 0
        /\ \A i \in 1 .. n - (k + 1) + 1 : t[i] = Contents(r)[k + 1 + i - 1]
    BY <1>1, <2>1, SubSeqProperties
  <2> QED
    BY <1>1, <2>2
<1>7. ASSUME NEW i \in 1 .. n - k PROVE Contents(s)[i] = t[i]
  <2>1. i - 1 \in Nat /\ k \in Nat /\ k + (i - 1) <= RingSize /\ k + i \in 1 .. n
    BY <1>1
  <2>2. (s.out + (i - 1)) % RingSize = (r.out + (k + (i - 1))) % RingSize
    BY <1>1, <1>2, <2>1, PlaceAgain
  <2>3. s.out + (i - 1) = s.out + i - 1 /\ r.out + (k + (i - 1)) = r.out + (k + i) - 1
    BY <1>1, <1>2 DEF Offsets
  <2>4. Contents(r)[k + i] = r.buf[(r.out + (k + i) - 1) % RingSize]
    BY <1>4, <2>1
  <2>5. Contents(s)[i] = r.buf[(s.out + i - 1) % RingSize]
    BY <1>5
  <2> QED
    BY <1>6, <2>2, <2>3, <2>4, <2>5
<1> HIDE DEF t, s, n
<1>8. Contents(s) = t
  BY <1>5, <1>6, <1>7, SeqEqual
<1> QED
  BY <1>2, <1>3, <1>8 DEF s, t, n

(* The byte that ring_getc takes was the first.                            *)
LEMMA Getc_Contents ==
  ASSUME NEW S, NEW r \in Rings(S), RING_READ_NUM(r) # 0, NEW q \in Seq(S)
  PROVE  /\ ring_getc(r) = ring_read_advance(r, 1)
         /\ ring_peek(r) = Contents(r)[1]
         /\ ring_peek(r) \in S
         /\ Append(q, ring_peek(r)) \o Contents(ring_getc(r)) = q \o Contents(r)
<1> DEFINE n == RING_READ_NUM(r)
           b == ring_peek(r)
           c == Contents(r)
           d == Contents(ring_getc(r))
<1>1. n \in Nat /\ 1 \in 0 .. n /\ 1 \in 1 .. n /\ n \in 1 .. n
  BY Counts
<1>2. ring_getc(r) = ring_read_advance(r, 1)
  BY DEF ring_getc, ring_read_advance
<1>3. ring_getc(r) \in Rings(S) /\ d = SubSeq(c, 2, n)
  <2>1. 1 + 1 = 2
    OBVIOUS
  <2> QED
    BY <1>1, <1>2, <2>1, ReadAdvance_Contents
<1>4. c \in Seq(S) /\ Len(c) = n /\ d \in Seq(S)
  BY <1>3, ContentsSeq
<1>5. b = c[1] /\ b \in S
  <2>1. r.out \in Offsets /\ 0 \in 0 .. RingSize /\ r.out + 0 = r.out
        /\ r.out + 1 - 1 = r.out /\ r.out < RingSize
    BY RingAssumption DEF Rings, Offsets
  <2>2. r.out % RingSize = r.out
    BY <2>1, Place
  <2>3. c[1] = r.buf[(r.out + 1 - 1) % RingSize]
    BY <1>1, ContentsSeq
  <2>4. b = r.buf[r.out] /\ r.buf[r.out] \in S
    BY <2>1 DEF ring_peek, Rings
  <2> QED
    BY <2>1, <2>2, <2>3, <2>4
<1>6. SubSeq(c, 1, n) = <<c[1]>> \o SubSeq(c, 2, n) /\ SubSeq(c, 1, n) = c
  <2>1. 1 + 1 = 2
    OBVIOUS
  <2> QED
    BY <1>1, <1>4, <2>1, SubSeqRecursiveFirst, SubSeqFull
<1> HIDE DEF b, c, d, n
<1>7. c = <<b>> \o d
  BY <1>3, <1>5, <1>6
<1>8. Append(q, b) = q \o <<b>> /\ <<b>> \in Seq(S)
  BY <1>5, AppendIsConcat
<1>9. Append(q, b) \o d = q \o c
  BY <1>4, <1>7, <1>8, ConcatAssociative
<1> QED
  BY <1>2, <1>5, <1>9 DEF b, c, d

(* ring_read copies the oldest bytes.                                      *)
LEMMA CopyOut_Contents ==
  ASSUME NEW S, NEW r \in Rings(S), NEW k \in 0 .. RING_READ_NUM(r)
  PROVE  CopyOut(r, k) = SubSeq(Contents(r), 1, k)
<1> DEFINE n == RING_READ_NUM(r)
           c == Contents(r)
           t == SubSeq(c, 1, k)
           u == CopyOut(r, k)
<1>1. n \in 0 .. RingSize - 1 /\ k \in 0 .. RingSize /\ RingSize \in Nat
      /\ k \in Nat /\ k <= n
  BY Counts, RingAssumption
<1>2. /\ u \in Seq(S) /\ Len(u) = k
      /\ \A i \in 1 .. k : u[i] = r.buf[(r.out + i - 1) % RingSize]
  BY <1>1, CopyOutSeq
<1>3. /\ c \in Seq(S) /\ Len(c) = n
      /\ \A i \in 1 .. n : c[i] = r.buf[(r.out + i - 1) % RingSize]
  BY ContentsSeq
<1> HIDE DEF n, c, u
<1>4. /\ t \in Seq(S) /\ Len(t) = k
      /\ \A i \in 1 .. k : t[i] = c[i]
  <2>1. \A i \in 1 .. k : c[i] \in S
    BY <1>1, <1>3, ElementOfSeq
  <2>2. /\ t \in Seq(S) /\ Len(t) = IF 1 <= k THEN k - 1 + 1 ELSE 0
        /\ \A i \in 1 .. k - 1 + 1 : t[i] = c[1 + i - 1]
    BY <1>1, <2>1, SubSeqProperties
  <2> QED
    BY <1>1, <2>2
<1> HIDE DEF t
<1>5. ASSUME NEW i \in 1 .. k PROVE u[i] = t[i]
  <2>1. i \in 1 .. n
    BY <1>1
  <2> QED
    BY <1>2, <1>3, <1>4, <2>1
<1> QED
  BY <1>2, <1>4, <1>5, SeqEqual DEF u, t, c

(* The writer hands bytes over: what it had put into the free bytes is     *)
(* behind what waited before.                                              *)
LEMMA WriteAdvance_Contents ==
  ASSUME NEW S, NEW r \in Rings(S), NEW k \in 0 .. RING_WRITE_NUM(r),
         NEW new \in [1 .. k -> S],
         Placed(r, k, new)
  PROVE  /\ ring_write_advance(r, k) \in Rings(S)
         /\ RING_READ_NUM(ring_write_advance(r, k)) = RING_READ_NUM(r) + k
         /\ Contents(ring_write_advance(r, k)) = Contents(r) \o new
<1> DEFINE s == ring_write_advance(r, k)
           n == RING_READ_NUM(r)
           c == Contents(r)
           d == Contents(s)
           t == c \o new
<1>1. /\ r.in \in Offsets /\ r.out \in Offsets /\ n \in 0 .. RingSize - 1
      /\ RingSize \in Nat /\ k \in Nat /\ n + k < RingSize /\ k \in 0 .. RingSize
  <2>1. r.in \in Offsets /\ r.out \in Offsets
    BY DEF Rings
  <2> DEFINE m == RING_WRITE_NUM(r)
  <2>2. n \in 0 .. RingSize - 1 /\ m \in 0 .. RingSize - 1 /\ n + m = RingSize - 1
        /\ k \in 0 .. m
    BY Counts
  <2> HIDE DEF m, n
  <2> QED
    BY <2>1, <2>2, RingAssumption
<1>2. /\ s \in Rings(S) /\ s.out = r.out /\ s.buf = r.buf
      /\ s.in = (r.in + k) % RingSize
  <2>1. (r.in + k) % RingSize \in Offsets
    BY <1>1, Place
  <2> QED
    BY <2>1 DEF ring_write_advance, Rings
<1>3. RING_READ_NUM(s) = n + k
  <2>1. ((r.in - r.out) % RingSize) + k < RingSize
    BY <1>1 DEF RING_READ_NUM
  <2>2. (((r.in + k) % RingSize) - r.out) % RingSize = ((r.in - r.out) % RingSize) + k
    BY <1>1, <2>1, DistanceMore
  <2> HIDE DEF s
  <2> QED
    BY <1>2, <2>2 DEF RING_READ_NUM
<1>4. /\ c \in Seq(S) /\ Len(c) = n
      /\ \A i \in 1 .. n : c[i] = r.buf[(r.out + i - 1) % RingSize]
  BY ContentsSeq
<1>5. /\ d \in Seq(S) /\ Len(d) = n + k
      /\ \A i \in 1 .. n + k : d[i] = r.buf[(r.out + i - 1) % RingSize]
  BY <1>2, <1>3, ContentsSeq
<1>6. new \in Seq(S) /\ Len(new) = k
  BY <1>1, FunctionSeq
<1> HIDE DEF c, d, s, n
<1>7. /\ t \in Seq(S) /\ Len(t) = n + k
      /\ \A i \in 1 .. n + k : t[i] = IF i <= n THEN c[i] ELSE new[i - n]
  <2>1. /\ t \in Seq(S) /\ Len(t) = Len(c) + Len(new)
        /\ \A i \in 1 .. Len(c) + Len(new) :
              t[i] = IF i <= Len(c) THEN c[i] ELSE new[i - Len(c)]
    BY <1>4, <1>6, ConcatProperties
  <2> QED
    BY <1>4, <1>6, <2>1
<1>8. r.in = (r.out + n) % RingSize
  <2>1. r.in \in Int /\ r.out \in Int /\ n \in 0 .. RingSize
        /\ r.in < RingSize /\ r.out < RingSize /\ 0 <= r.in /\ 0 <= r.out
    BY <1>1 DEF Offsets
  <2>2. /\ r.in >= r.out => n = r.in - r.out
        /\ r.in < r.out => n = r.in - r.out + RingSize
    BY <1>1, Distance DEF RING_READ_NUM, n
  <2> DEFINE e == (r.out + n) % RingSize
  <2>3. /\ r.out + n < RingSize => e = r.out + n
        /\ r.out + n >= RingSize => e = (r.out + n) - RingSize
    BY <1>1, <2>1, Place
  <2> HIDE DEF e
  <2>4. r.in = e
    BY ONLY <1>1, <2>1, <2>2, <2>3
  <2> QED
    BY <2>4 DEF e
<1> HIDE DEF t
<1>9. ASSUME NEW i \in 1 .. n + k PROVE d[i] = t[i]
  <2>1. CASE i <= n
    <3>1. i \in 1 .. n
      BY <1>1, <2>1
    <3> QED
      BY <1>4, <1>5, <1>7, <2>1, <3>1
  <2>2. CASE i > n
    <3> DEFINE j == i - n
    <3>1. j \in 1 .. k /\ j - 1 \in Nat /\ n \in Nat /\ n + (j - 1) <= RingSize
          /\ n + (j - 1) = i - 1
      BY <1>1, <2>2
    <3>2. (((r.out + n) % RingSize) + (j - 1)) % RingSize = (r.out + (n + (j - 1))) % RingSize
      BY <1>1, <3>1, PlaceAgain
    <3>3. r.in + (j - 1) = r.in + j - 1 /\ r.out + (i - 1) = r.out + i - 1
      BY <1>1 DEF Offsets
    <3>4. (r.in + j - 1) % RingSize = (r.out + i - 1) % RingSize
      BY <1>8, <3>1, <3>2, <3>3
    <3>5. r.buf[(r.in + j - 1) % RingSize] = new[j]
      BY <3>1 DEF Placed
    <3>6. t[i] = new[j]
      BY <1>1, <1>7, <2>2
    <3> QED
      BY <1>5, <3>4, <3>5, <3>6
  <2> QED
    BY <1>1, <2>1, <2>2
<1>10. d = t
  BY <1>5, <1>7, <1>9, SeqEqual
<1> QED
  BY <1>2, <1>3, <1>10 DEF s, d, t, c, n

(* ring_write copies into free bytes: nothing that waits is overwritten.   *)
LEMMA CopyIn_Contents ==
  ASSUME NEW S, NEW r \in Rings(S), NEW k \in 0 .. RING_WRITE_NUM(r),
         NEW new \in [1 .. k -> S]
  PROVE  /\ CopyIn(r, new) \in Rings(S)
         /\ CopyIn(r, new).in = r.in /\ CopyIn(r, new).out = r.out
         /\ Placed(CopyIn(r, new), k, new)
         /\ Contents(CopyIn(r, new)) = Contents(r)
<1> DEFINE s == CopyIn(r, new)
           n == RING_READ_NUM(r)
           far(i) == (i - r.in) % RingSize
<1>1. /\ r.in \in Offsets /\ r.out \in Offsets /\ n \in 0 .. RingSize - 1
      /\ RingSize \in Nat /\ k \in Nat /\ n + k < RingSize /\ k \in 0 .. RingSize
  <2>1. r.in \in Offsets /\ r.out \in Offsets
    BY DEF Rings
  <2> DEFINE m == RING_WRITE_NUM(r)
  <2>2. n \in 0 .. RingSize - 1 /\ m \in 0 .. RingSize - 1 /\ n + m = RingSize - 1
        /\ k \in 0 .. m
    BY Counts
  <2> HIDE DEF m, n
  <2> QED
    BY <2>1, <2>2, RingAssumption
<1>2. Len(new) = k
  BY <1>1, FunctionSeq
<1> DEFINE buf == [i \in Offsets |-> IF far(i) < k THEN new[far(i) + 1] ELSE r.buf[i]]
<1>3. s = [r EXCEPT !.buf = buf]
  BY <1>2 DEF CopyIn
<1>4. buf \in [Offsets -> S]
  <2> SUFFICES ASSUME NEW i \in Offsets
               PROVE  (IF far(i) < k THEN new[far(i) + 1] ELSE r.buf[i]) \in S
    OBVIOUS
  <2>1. far(i) \in Nat
    BY <1>1, Distance, RingAssumption DEF Offsets
  <2> HIDE DEF far
  <2>2. CASE far(i) < k
    <3>1. far(i) + 1 \in 1 .. k
      BY <1>1, <2>1, <2>2
    <3> QED
      BY <2>2, <3>1
  <2>3. CASE ~(far(i) < k)
    BY <2>3 DEF Rings
  <2> QED
    BY <2>2, <2>3
<1>5. s \in Rings(S) /\ s.in = r.in /\ s.out = r.out /\ s.buf = buf
  <2> HIDE DEF s, buf
  <2> QED
    BY <1>3, <1>4 DEF Rings
<1>6. ASSUME NEW i \in 1 .. k PROVE s.buf[(r.in + i - 1) % RingSize] = new[i]
  <2> DEFINE j == i - 1
             p == (r.in + j) % RingSize
  <2>1. j \in Offsets /\ j \in 0 .. RingSize /\ j < k /\ j + 1 = i /\ r.in + j = r.in + i - 1
    BY <1>1 DEF Offsets
  <2>2. p \in Offsets
    BY <1>1, <2>1, Place
  <2>3. far(p) = j
    BY <1>1, <2>1, DistanceAhead
  <2>4. buf[p] = new[i]
    <3> HIDE DEF p, far, j
    <3> QED
      BY <2>1, <2>2, <2>3
  <2> QED
    BY <1>5, <2>1, <2>4
<1>7. RING_READ_NUM(s) = n
  BY <1>5 DEF RING_READ_NUM
<1>8. /\ Contents(r) \in Seq(S) /\ Len(Contents(r)) = n
      /\ \A i \in 1 .. n : Contents(r)[i] = r.buf[(r.out + i - 1) % RingSize]
  BY ContentsSeq
<1>9. /\ Contents(s) \in Seq(S) /\ Len(Contents(s)) = n
      /\ \A i \in 1 .. n : Contents(s)[i] = s.buf[(r.out + i - 1) % RingSize]
  <2> HIDE DEF s, buf
  <2> QED
    BY <1>5, <1>7, ContentsSeq
<1>10. ASSUME NEW i \in 1 .. n PROVE Contents(s)[i] = Contents(r)[i]
  <2> DEFINE j == i - 1
             p == (r.out + j) % RingSize
  <2>1. j \in Nat /\ j \in 0 .. RingSize /\ j < n /\ r.out + j = r.out + i - 1
    <3> HIDE DEF n
    <3> QED
      BY <1>1 DEF Offsets
  <2>2. p \in Offsets
    BY <1>1, <2>1, Place
  <2>3. far(p) = (RingSize - n) + j
    <3>1. j < (r.in - r.out) % RingSize
      BY <2>1 DEF RING_READ_NUM
    <3> QED
      BY <1>1, <2>1, <3>1, DistanceOccupied DEF RING_READ_NUM
  <2>4. buf[p] = r.buf[p]
    <3> HIDE DEF p, far, n
    <3>1. ~(far(p) < k)
      BY <1>1, <2>1, <2>3
    <3> QED
      BY <2>2, <3>1
  <2>5. Contents(s)[i] = buf[p] /\ Contents(r)[i] = r.buf[p]
    BY <1>5, <1>8, <1>9, <2>1
  <2> QED
    BY <2>4, <2>5
<1> HIDE DEF s, n, buf
<1>11. Placed(s, k, new)
  BY <1>5, <1>6 DEF Placed
<1>12. Contents(s) = Contents(r)
  BY <1>8, <1>9, <1>10, SeqEqual
<1> QED
  BY <1>5, <1>11, <1>12 DEF s

(* ring_putc on a ring with room: the byte is behind all the others.       *)
LEMMA Putc_Contents ==
  ASSUME NEW S, NEW r \in Rings(S), RING_WRITE_NUM(r) # 0, NEW c \in S
  PROVE  /\ ring_putc(r, c) \in Rings(S)
         /\ RING_READ_NUM(ring_putc(r, c)) = RING_READ_NUM(r) + 1
         /\ Contents(ring_putc(r, c)) = Contents(r) \o <<c>>
<1> DEFINE one == 1
           new == [i \in 1 .. one |-> c]
           s == CopyIn(r, new)
           t == ring_write_advance(s, one)
<1>1. one \in 0 .. RING_WRITE_NUM(r) /\ new \in [1 .. one -> S] /\ one \in Nat
  BY Counts
<1> HIDE DEF one, new
<1>2. /\ s \in Rings(S) /\ s.in = r.in /\ s.out = r.out
      /\ Placed(s, one, new)
      /\ Contents(s) = Contents(r)
  BY <1>1, CopyIn_Contents
<1>3. RING_READ_NUM(s) = RING_READ_NUM(r) /\ RING_WRITE_NUM(s) = RING_WRITE_NUM(r)
  BY <1>2 DEF RING_READ_NUM, RING_WRITE_NUM
<1> HIDE DEF s
<1>4. /\ t \in Rings(S)
      /\ RING_READ_NUM(t) = RING_READ_NUM(s) + one
      /\ Contents(t) = Contents(s) \o new
  <2>1. one \in 0 .. RING_WRITE_NUM(s)
    BY <1>1, <1>3
  <2>2. /\ s \in Rings(S) /\ one \in 0 .. RING_WRITE_NUM(s)
        /\ new \in [1 .. one -> S] /\ Placed(s, one, new)
    BY <1>1, <1>2, <2>1
  <2> QED
    BY ONLY <2>2, WriteAdvance_Contents
<1>5. ring_putc(r, c) = t
  <2>1. /\ r.in \in Offsets
        /\ \A i \in Offsets : (i - r.in) % RingSize < 1 <=> i = r.in
        /\ \A i \in Offsets : i = r.in => (i - r.in) % RingSize = 0
    <3>1. r.in \in Offsets
      BY DEF Rings
    <3>2. ASSUME NEW i \in Offsets
          PROVE  /\ (i - r.in) % RingSize < 1 <=> i = r.in
                 /\ i = r.in => (i - r.in) % RingSize = 0
      <4> DEFINE a == r.in
                 m == (i - a) % RingSize
      <4>1. /\ m \in Offsets
            /\ i >= a => m = i - a
            /\ i < a => m = i - a + RingSize
        BY <3>1, Distance
      <4>2. a \in Offsets
        BY <3>1
      <4> HIDE DEF m, a
      <4>3. (m < 1 <=> i = a) /\ (i = a => m = 0)
        BY <4>1, <4>2, RingAssumption DEF Offsets
      <4> QED
        BY <4>3 DEF m, a
    <3> QED
      BY <3>1, <3>2
  <2>2. Len(new) = 1 /\ new[1] = c
    BY <1>1, FunctionSeq DEF one, new
  <2>3. s = [r EXCEPT !.buf = [r.buf EXCEPT ![r.in] = c]]
    <3> DEFINE b == [i \in Offsets |->
                       LET k == (i - r.in) % RingSize
                       IN  IF k < Len(new) THEN new[k + 1] ELSE r.buf[i]]
    <3>1. s = [r EXCEPT !.buf = b]
      BY DEF CopyIn, s
    <3>2. r.buf \in [Offsets -> S]
      BY DEF Rings
    <3>3. ASSUME NEW i \in Offsets PROVE b[i] = [r.buf EXCEPT ![r.in] = c][i]
      BY <2>1, <2>2, <3>2
    <3>4. b = [r.buf EXCEPT ![r.in] = c]
      BY <3>2, <3>3
    <3> QED
      BY <3>1, <3>4
  <2> QED
    BY <2>3 DEF ring_putc, ring_write_advance, Rings, one
<1>6. new = <<c>> /\ one = 1
  BY DEF new, one
<1> HIDE DEF t
<1> QED
  BY <1>2, <1>3, <1>4, <1>5, <1>6

-----------------------------------------------------------------------------
(* What the buffers hold.                                                  *)
Values == Bytes \cup {Junk}

(* The numbers of n bytes that the program writes, from m on.              *)
Numbered(m, n) == [i \in 1 .. n |-> (m + i - 1) % Numbers]

(* The types, with the rings as the lemmas about rings want them.          *)
TypesOK ==
  /\ tx_ring \in Rings(Values) /\ rx_ring \in Rings(Values)
  /\ sending \in Seq(Bytes) /\ Len(sending) =< 2
  /\ arriving \in Bytes /\ next \in Bytes
  /\ left \in 0 .. MaxRequest /\ count \in 0 .. MaxRequest /\ tries \in 0 .. MaxTries
  /\ tx_irq \in BOOLEAN /\ RXRDY \in BOOLEAN /\ finished \in BOOLEAN

PcOK == pc \in {"idle", "write_count", "write_copy", "write_advance", "write_irq",
                "read_count", "read_copy", "read_advance", "finished"}

WriteOK ==
  /\ Contents(tx_ring) \in Seq(Bytes)
  /\ pc \in {"write_copy", "write_advance"} =>
       count \in 1 .. RING_WRITE_NUM(tx_ring) /\ count =< left
  /\ pc = "write_advance" => Placed(tx_ring, count, Numbered(next, count))

ReadOK ==
  /\ pc \in {"read_copy", "read_advance"} =>
       count \in 1 .. RING_READ_NUM(rx_ring) /\ count =< left
  /\ pc = "read_advance" => chunk = SubSeq(Contents(rx_ring), 1, count)

FinishedOK ==
  /\ pc \in {"write_count", "write_copy", "write_advance", "write_irq"} => ~finished
  /\ pc = "finished" => RING_READ_NUM(tx_ring) = 0
  /\ finished => RING_READ_NUM(tx_ring) = 0 /\ sending = << >>

IInv == TypesOK /\ PcOK /\ WriteOK /\ ReadOK /\ FinishedOK

-----------------------------------------------------------------------------
(* Numbers of bytes are bytes.                                             *)
LEMMA NumbersAreBytes ==
  /\ \A x \in Int : x % Numbers \in Bytes
  /\ \A x \in Bytes : x % Numbers = x
<1>1. Numbers \in Nat /\ Numbers > 0
  BY BusartAssumption
<1>2. ASSUME NEW x \in Int PROVE x % Numbers \in Bytes
  BY <1>1, ModNear DEF Bytes
<1>3. ASSUME NEW x \in Bytes PROVE x % Numbers = x
  <2>1. x \in Int /\ 0 <= x /\ x < Numbers
    BY <1>1 DEF Bytes
  <2> QED
    BY <1>1, <2>1, ModNear
<1> QED
  BY <1>2, <1>3

(* So are those of a request.                                              *)
LEMMA NumberedBytes ==
  ASSUME NEW m \in Bytes, NEW n \in Nat
  PROVE  /\ Numbered(m, n) \in [1 .. n -> Bytes]
         /\ Numbered(m, n) \in [1 .. n -> Values]
         /\ Numbered(m, n) \in Seq(Bytes) /\ Len(Numbered(m, n)) = n
<1>1. Numbered(m, n) \in [1 .. n -> Bytes]
  <2> SUFFICES ASSUME NEW i \in 1 .. n PROVE (m + i - 1) % Numbers \in Bytes
    BY DEF Numbered
  <2>1. m + i - 1 \in Int
    BY BusartAssumption DEF Bytes
  <2> QED
    BY <2>1, NumbersAreBytes
<1>2. Numbered(m, n) \in [1 .. n -> Values]
  BY <1>1 DEF Values
<1> QED
  BY <1>1, <1>2, FunctionSeq

(* That is the type invariant.                                             *)
LEMMA TypesAreRight == TypesOK => TypeOK
  BY DEF TypesOK, TypeOK, Rings, Values

(* The smaller of two counts.                                              *)
LEMMA LeastOf ==
  ASSUME NEW a \in Nat, NEW b \in Nat
  PROVE  Least(a, b) \in Nat /\ Least(a, b) <= a /\ Least(a, b) <= b
  BY DEF Least

-----------------------------------------------------------------------------
(* The handler's transmit part takes the first byte of the ring to the     *)
(* USART: nothing changes for the order of what is inside, the writer's    *)
(* part of the ring stays as it is, and its room can only grow.            *)
LEMMA IsrTransmits ==
  ASSUME IInv, busart_isr
  PROVE  /\ tx_ring' \in Rings(Values) /\ tx_irq' \in BOOLEAN
         /\ sending' \in Seq(Bytes) /\ Len(sending') =< 2
         /\ Contents(tx_ring') \in Seq(Bytes)
         /\ sending' \o Contents(tx_ring') = sending \o Contents(tx_ring)
         /\ tx_ring'.in = tx_ring.in /\ tx_ring'.buf = tx_ring.buf
         /\ RING_WRITE_NUM(tx_ring') >= RING_WRITE_NUM(tx_ring)
         /\ RING_READ_NUM(tx_ring) = 0 => tx_ring' = tx_ring /\ sending' = sending
<1>1. /\ tx_ring \in Rings(Values) /\ tx_irq \in BOOLEAN
      /\ sending \in Seq(Bytes) /\ Len(sending) =< 2 /\ Contents(tx_ring) \in Seq(Bytes)
  BY DEF TypesOK, IInv, WriteOK
<1>2. CASE TXRDY /\ RING_READ_NUM(tx_ring) # 0 /\ tx_ring' = ring_getc(tx_ring)
           /\ sending' = USART_WRITE(ring_peek(tx_ring)) /\ tx_irq' = tx_irq
  <2> DEFINE r == tx_ring
             s == ring_getc(tx_ring)
             n == RING_READ_NUM(tx_ring)
             b == ring_peek(tx_ring)
             c == Contents(tx_ring)
  <2>1. n \in Nat /\ n # 0 /\ n < RingSize /\ RingSize \in Nat
    BY <1>1, <1>2, Counts, RingAssumption
  <2>2. 1 \in 0 .. n
    BY <2>1
  <2>3. sending \in Seq(Values)
    BY <1>1, SeqMonotonic DEF Values
  <2>4. /\ s = ring_read_advance(r, 1) /\ b = c[1]
        /\ Append(sending, b) \o Contents(s) = sending \o c
    BY <1>1, <2>1, <2>3, Getc_Contents
  <2>5. /\ s \in Rings(Values) /\ RING_READ_NUM(s) = n - 1
        /\ Contents(s) = SubSeq(c, 2, n)
    <3>1. 1 + 1 = 2
      OBVIOUS
    <3> QED
      BY <1>1, <2>2, <2>4, <3>1, ReadAdvance_Contents
  <2>6. c \in Seq(Bytes) /\ Len(c) = n
    BY <1>1, ContentsSeq
  <2>7. \A i \in 1 .. n : c[i] \in Bytes
    BY <2>6, ElementOfSeq
  <2>8. b \in Bytes
    BY <2>1, <2>4, <2>7
  <2>9. Contents(s) \in Seq(Bytes)
    <3> HIDE DEF n, c, s
    <3>1. \A i \in 2 .. n : c[i] \in Bytes
      BY <2>1, <2>7
    <3> QED
      BY <2>1, <2>5, <3>1, SubSeqProperties
  <2>10. sending' = Append(sending, b)
    BY <1>2 DEF USART_WRITE
  <2>11. sending' \in Seq(Bytes) /\ Len(sending') =< 2
    <3>1. Len(sending) \in Nat /\ Len(sending) < 2
      BY <1>1, <1>2, LenProperties DEF TXRDY
    <3>2. Append(sending, b) \in Seq(Bytes) /\ Len(Append(sending, b)) = Len(sending) + 1
      BY <1>1, <2>8, AppendProperties
    <3> QED
      BY <2>10, <3>1, <3>2
  <2>12. s.in = r.in /\ s.buf = r.buf
    BY <1>1 DEF ring_getc, Rings
  <2>13. RING_WRITE_NUM(s) >= RING_WRITE_NUM(r)
    BY <2>1, <2>5 DEF RING_WRITE_NUM
  <2> QED
    BY <1>1, <1>2, <2>4, <2>5, <2>9, <2>10, <2>11, <2>12, <2>13
<1>3. CASE tx_ring' = tx_ring /\ sending' = sending /\ tx_irq' \in BOOLEAN
  <2>1. RING_WRITE_NUM(tx_ring) \in Nat
    BY <1>1, Counts
  <2> QED
    BY <1>1, <1>3, <2>1
<1> QED
  BY <1>1, <1>2, <1>3 DEF busart_isr, Transmit, ring_empty_p

(* The handler's receive part puts a byte behind the others or drops it.   *)
LEMMA IsrReceives ==
  ASSUME IInv, busart_isr
  PROVE  /\ rx_ring' \in Rings(Values) /\ arriving' \in Bytes
         /\ \/ Contents(rx_ring') = Contents(rx_ring) /\ arriving' = arriving
               /\ RING_READ_NUM(rx_ring') = RING_READ_NUM(rx_ring)
            \/ /\ Contents(rx_ring') = Contents(rx_ring) \o <<arriving>>
               /\ arriving' = (arriving + 1) % Numbers
               /\ RING_READ_NUM(rx_ring') = RING_READ_NUM(rx_ring) + 1
<1>1. rx_ring \in Rings(Values) /\ arriving \in Bytes /\ arriving \in Int
  BY DEF TypesOK, IInv, Bytes
<1>2. CASE RXRDY /\ RING_WRITE_NUM(rx_ring) # 0
  <2>1. rx_ring' = ring_putc(rx_ring, arriving) /\ arriving' = (arriving + 1) % Numbers
    BY <1>2 DEF busart_isr, Receive
  <2>2. arriving \in Values /\ arriving' \in Bytes
    BY <1>1, <2>1, NumbersAreBytes DEF Values
  <2> QED
    BY <1>1, <1>2, <2>1, <2>2, Putc_Contents
<1>3. CASE RXRDY /\ RING_WRITE_NUM(rx_ring) = 0
  <2>1. rx_ring' = rx_ring /\ arriving' = (arriving + 0) % Numbers
    BY <1>3 DEF busart_isr, Receive, ring_putc
  <2> QED
    BY <1>1, <2>1, NumbersAreBytes
<1>4. CASE ~RXRDY
  BY <1>1, <1>4 DEF busart_isr
<1> QED
  BY <1>2, <1>3, <1>4

-----------------------------------------------------------------------------
(* Of two sequences behind each other, the first byte and the others.      *)
LEMMA OneOfConcat ==
  ASSUME NEW S, NEW s \in Seq(S), NEW t \in Seq(S), s # << >>
  PROVE  SubSeq(s \o t, 1, 1) = <<Head(s)>>
<1>1. Len(s) \in Nat /\ Len(s) >= 1 /\ 1 \in 1 .. Len(s) /\ s[1] \in S
  BY EmptySeq, ElementOfSeq
<1>2. SubSeq(s \o t, 1, 1) = SubSeq(s, 1, 1)
  BY <1>1, SubSeqOfConcat1
<1>3. SubSeq(s, 1, 1) = <<s[1]>> \o SubSeq(s, 2, 1)
  <2>1. 1 \in 1 .. Len(s) /\ 1 + 1 = 2
    BY <1>1
  <2> QED
    BY <1>1, <2>1, SubSeqRecursiveFirst
<1>4. SubSeq(s, 2, 1) = << >>
  BY SubSeqEmpty
<1>5. <<s[1]>> \o << >> = <<s[1]>>
  BY <1>1, ConcatEmptySeq
<1>6. Head(s) = s[1]
  <2>1. Head(SubSeq(s, 1, Len(s))) = s[1]
    BY <1>1, HeadTailOfSubSeq
  <2> QED
    BY <2>1, SubSeqFull
<1> QED
  BY <1>2, <1>3, <1>4, <1>5, <1>6

(* What is left without the first byte.                                    *)
LEMMA TailOfConcat ==
  ASSUME NEW S, NEW s \in Seq(S), NEW t \in Seq(S), s # << >>
  PROVE  Tail(s) \o t = SubSeq(s \o t, 1 + 1, Len(s \o t))
<1> DEFINE q == s \o t
           u == Tail(s) \o t
           v == SubSeq(q, 2, Len(q))
<1>1. Len(s) \in Nat /\ Len(s) >= 1 /\ Len(t) \in Nat
  BY EmptySeq, LenProperties
<1>2. /\ q \in Seq(S) /\ Len(q) = Len(s) + Len(t)
      /\ \A i \in 1 .. Len(q) : q[i] = IF i <= Len(s) THEN s[i] ELSE t[i - Len(s)]
  BY ConcatProperties
<1>3. /\ Tail(s) \in Seq(S) /\ Len(Tail(s)) = Len(s) - 1
      /\ \A i \in 1 .. Len(Tail(s)) : Tail(s)[i] = s[i + 1]
  BY HeadTailProperties
<1>4. /\ u \in Seq(S) /\ Len(u) = Len(Tail(s)) + Len(t)
      /\ \A i \in 1 .. Len(u) :
           u[i] = IF i <= Len(Tail(s)) THEN Tail(s)[i] ELSE t[i - Len(Tail(s))]
  BY <1>3, ConcatProperties
<1>5. \A i \in 2 .. Len(q) : q[i] \in S
  <2> HIDE DEF q
  <2> QED
    BY <1>1, <1>2, ElementOfSeq
<1> HIDE DEF q, u
<1>6. /\ v \in Seq(S) /\ Len(v) = IF 2 <= Len(q) THEN Len(q) - 2 + 1 ELSE 0
      /\ \A i \in 1 .. Len(q) - 2 + 1 : v[i] = q[2 + i - 1]
  BY <1>1, <1>2, <1>5, SubSeqProperties
<1> HIDE DEF v
<1>7. Len(u) = Len(q) - 1 /\ Len(v) = Len(q) - 1 /\ Len(q) \in Nat
  BY <1>1, <1>2, <1>3, <1>4, <1>6
<1>8. ASSUME NEW i \in 1 .. Len(u) PROVE u[i] = v[i]
  <2>1. v[i] = q[i + 1] /\ i + 1 \in 1 .. Len(q) /\ i \in Nat
    BY <1>6, <1>7
  <2>2. CASE i <= Len(s) - 1
    BY <1>1, <1>2, <1>3, <1>4, <1>7, <2>1, <2>2
  <2>3. CASE i > Len(s) - 1
    <3>1. u[i] = t[i - Len(Tail(s))]
      BY <1>1, <1>3, <1>4, <2>1, <2>3
    <3>2. q[i + 1] = t[(i + 1) - Len(s)]
      BY <1>1, <1>2, <2>1, <2>3
    <3>3. i - Len(Tail(s)) = (i + 1) - Len(s)
      BY <1>1, <1>3, <2>1
    <3> QED
      BY <2>1, <3>1, <3>2, <3>3
  <2> QED
    BY <1>1, <2>1, <2>2, <2>3
<1>9. u = v
  BY <1>4, <1>6, <1>7, <1>8, SeqEqual
<1>10. 1 + 1 = 2
  OBVIOUS
<1> QED
  BY <1>9, <1>10 DEF u, v, q

-----------------------------------------------------------------------------
(* Rings are empty at first.                                               *)
LEMMA EmptyAtFirst ==
  ASSUME Init
  PROVE  RING_READ_NUM(tx_ring) = 0 /\ RING_READ_NUM(rx_ring) = 0
<1>1. 0 % RingSize = 0
  BY RingAssumption, ModNear
<1> QED
  BY <1>1 DEF Init, RING_READ_NUM, ring_init

(* An empty port.                                                          *)
LEMMA InitIInv == Init => IInv
<1> SUFFICES ASSUME Init PROVE IInv
  OBVIOUS
<1>1. ring_init(Junk) \in Rings(Values)
  BY RingAssumption DEF ring_init, Rings, Values, Offsets
<1>2. RING_READ_NUM(ring_init(Junk)) = 0
  BY EmptyAtFirst DEF Init
<1>3. Contents(ring_init(Junk)) = << >>
  <2> HIDE DEF Init
  <2> QED
    BY <1>1, <1>2, ContentsSeq, EmptySeq
<1>4. 0 \in Bytes
  BY BusartAssumption DEF Bytes
<1>5. << >> \in Seq(Bytes) /\ Len(<< >>) = 0
  BY EmptySeq
<1>6. TypesOK
  <2>1. tx_ring \in Rings(Values) /\ rx_ring \in Rings(Values)
    BY <1>1 DEF Init
  <2>2. tx_irq \in BOOLEAN /\ RXRDY \in BOOLEAN /\ finished \in BOOLEAN
    BY DEF Init
  <2>3. sending \in Seq(Bytes) /\ Len(sending) =< 2
    BY <1>5 DEF Init
  <2>4. arriving \in Bytes /\ next \in Bytes
        /\ left \in 0 .. MaxRequest /\ count \in 0 .. MaxRequest /\ tries \in 0 .. MaxTries
    BY <1>4, BusartAssumption DEF Init
  <2> QED
    BY <2>1, <2>2, <2>3, <2>4 DEF TypesOK
<1>7. WriteOK
  BY <1>3, <1>5 DEF Init, WriteOK
<1> QED
  BY <1>2, <1>6, <1>7 DEF Init, IInv, PcOK, ReadOK, FinishedOK

(* The handler comes between any two steps of the program.                 *)
LEMMA IsrIInv == ASSUME IInv, busart_isr PROVE IInv'
<1>1. TypesOK'
  <2>1. UNCHANGED <<next, left, count, tries, finished>> /\ RXRDY' = FALSE
    BY DEF busart_isr, request
  <2> QED
    BY <2>1, IsrTransmits, IsrReceives DEF TypesOK, IInv
<1>2. UNCHANGED <<pc, count, left, chunk, next, finished>>
  BY DEF busart_isr, request
<1>3. WriteOK'
  <2>1. /\ Contents(tx_ring') \in Seq(Bytes)
        /\ tx_ring'.in = tx_ring.in /\ tx_ring'.buf = tx_ring.buf
        /\ RING_WRITE_NUM(tx_ring') >= RING_WRITE_NUM(tx_ring)
        /\ tx_ring' \in Rings(Values) /\ tx_ring \in Rings(Values)
    BY IsrTransmits DEF TypesOK, IInv
  <2>2. ASSUME pc \in {"write_copy", "write_advance"}
        PROVE  count \in 1 .. RING_WRITE_NUM(tx_ring') /\ count =< left
    <3>1. count \in 1 .. RING_WRITE_NUM(tx_ring) /\ count =< left
      BY <2>2 DEF IInv, WriteOK
    <3>2. RING_WRITE_NUM(tx_ring) \in Int /\ RING_WRITE_NUM(tx_ring') \in Int
      BY <2>1, Counts
    <3> QED
      BY <2>1, <3>1, <3>2
  <2>3. ASSUME pc = "write_advance"
        PROVE  Placed(tx_ring', count, Numbered(next, count))
    <3>1. Placed(tx_ring, count, Numbered(next, count))
      BY <2>3 DEF IInv, WriteOK
    <3> QED
      BY <2>1, <3>1 DEF Placed
  <2> QED
    BY <1>2, <2>1, <2>2, <2>3 DEF WriteOK
<1>4. ReadOK'
  <2> SUFFICES ASSUME pc \in {"read_copy", "read_advance"}
               PROVE  /\ count \in 1 .. RING_READ_NUM(rx_ring') /\ count =< left
                      /\ SubSeq(Contents(rx_ring'), 1, count)
                          = SubSeq(Contents(rx_ring), 1, count)
    BY <1>2 DEF ReadOK, IInv
  <2>1. count \in 1 .. RING_READ_NUM(rx_ring) /\ count =< left
    BY DEF IInv, ReadOK
  <2>2. rx_ring \in Rings(Values) /\ arriving \in Bytes
    BY DEF TypesOK, IInv
  <2>3. RING_READ_NUM(rx_ring) \in Nat
    BY <2>2, Counts
  <2>4. CASE Contents(rx_ring') = Contents(rx_ring)
             /\ RING_READ_NUM(rx_ring') = RING_READ_NUM(rx_ring)
    BY <2>1, <2>4
  <2>5. CASE /\ Contents(rx_ring') = Contents(rx_ring) \o <<arriving>>
             /\ RING_READ_NUM(rx_ring') = RING_READ_NUM(rx_ring) + 1
    <3>1. Contents(rx_ring) \in Seq(Values)
          /\ Len(Contents(rx_ring)) = RING_READ_NUM(rx_ring)
      BY <2>2, ContentsSeq
    <3>2. <<arriving>> \in Seq(Values)
      BY <2>2 DEF Values
    <3>3. 1 \in 1 .. RING_READ_NUM(rx_ring)
      BY <2>1, <2>3
    <3>4. SubSeq(Contents(rx_ring) \o <<arriving>>, 1, count)
          = SubSeq(Contents(rx_ring), 1, count)
      BY <2>1, <3>1, <3>2, <3>3, SubSeqOfConcat1
    <3>5. count \in 1 .. RING_READ_NUM(rx_ring')
      BY <2>1, <2>3, <2>5
    <3>6. SubSeq(Contents(rx_ring'), 1, count) = SubSeq(Contents(rx_ring), 1, count)
      BY <2>5, <3>4
    <3> QED
      BY <2>1, <3>5, <3>6
  <2> QED
    BY <2>4, <2>5, IsrReceives
<1>5. FinishedOK'
  <2>1. RING_READ_NUM(tx_ring) = 0 => tx_ring' = tx_ring /\ sending' = sending
    BY IsrTransmits
  <2> QED
    BY <1>2, <2>1 DEF IInv, FinishedOK
<1> QED
  BY <1>1, <1>2, <1>3, <1>4, <1>5 DEF IInv, PcOK

(* The USART sends a byte.                                                 *)
LEMMA ByteSentIInv == ASSUME IInv, ByteSent PROVE IInv'
<1>1. sending \in Seq(Bytes) /\ Len(sending) =< 2 /\ sending # << >>
      /\ sending' = Tail(sending)
  BY DEF TypesOK, IInv, ByteSent, TXEMPTY
<1>2. sending' \in Seq(Bytes) /\ Len(sending') = Len(sending) - 1 /\ Len(sending) \in Nat
  BY <1>1, HeadTailProperties, LenProperties
<1>3. UNCHANGED <<rings, tx_irq, RXRDY, pc, request, numbers, finished>>
  BY DEF ByteSent
<1>4. TypesOK'
  BY <1>1, <1>2, <1>3 DEF TypesOK, IInv, rings, request, numbers
<1> QED
  BY <1>1, <1>3, <1>4
  DEF IInv, PcOK, WriteOK, ReadOK, FinishedOK, rings, request, numbers

(* A byte arrives in US_RHR.                                               *)
LEMMA ByteArrivesIInv == ASSUME IInv, ByteArrives PROVE IInv'
<1>1. UNCHANGED <<rings, tx_irq, sending, pc, request, numbers, finished>> /\ RXRDY' = TRUE
  BY DEF ByteArrives
<1>2. TypesOK'
  BY <1>1 DEF TypesOK, IInv, rings, request, numbers
<1> QED
  BY <1>1, <1>2 DEF IInv, PcOK, WriteOK, ReadOK, FinishedOK, rings, request, numbers

(* A write begins.                                                         *)
LEMMA WriteIInv ==
  ASSUME IInv, NEW size \in 1 .. MaxRequest, busart_write(size)
  PROVE  IInv'
<1>1. /\ pc' = "write_count" /\ left' = size /\ tries' = MaxTries /\ finished' = FALSE
      /\ UNCHANGED <<tx_ring, rx_ring, tx_irq, sending, RXRDY, count, chunk, next, arriving>>
  BY DEF busart_write, rings, usart, numbers
<1>2. TypesOK'
  <2>1. left' \in 0 .. MaxRequest /\ tries' \in 0 .. MaxTries
    BY <1>1, BusartAssumption
  <2> QED
    BY <1>1, <2>1 DEF IInv, TypesOK
<1> QED
  BY <1>1, <1>2 DEF IInv, PcOK, WriteOK, ReadOK, FinishedOK

(* The room for a write is counted.                                        *)
LEMMA WriteCountIInv == ASSUME IInv, WriteCount PROVE IInv'
<1>1. /\ pc = "write_count"
      /\ count' = Least(left, RING_WRITE_NUM(tx_ring))
      /\ pc' = IF count' = 0 THEN "write_irq" ELSE "write_copy"
      /\ UNCHANGED <<tx_ring, rx_ring, tx_irq, sending, RXRDY, left, tries, chunk,
                     next, arriving, finished>>
  BY DEF WriteCount, rings, usart, numbers
<1>2. /\ tx_ring \in Rings(Values) /\ left \in 0 .. MaxRequest /\ MaxRequest \in Nat
      /\ left \in Nat /\ RING_WRITE_NUM(tx_ring) \in Nat
  BY Counts, BusartAssumption, RingAssumption DEF IInv, TypesOK
<1>3. count' \in Nat /\ count' <= left /\ count' <= RING_WRITE_NUM(tx_ring)
  BY <1>1, <1>2, LeastOf
<1>4. TypesOK'
  <2>1. count' \in 0 .. MaxRequest
    BY <1>2, <1>3
  <2> QED
    BY <1>1, <2>1 DEF IInv, TypesOK
<1>5. WriteOK'
  <2>1. pc' = "write_copy" => count' \in 1 .. RING_WRITE_NUM(tx_ring) /\ count' =< left
    BY <1>1, <1>2, <1>3
  <2> QED
    BY <1>1, <2>1 DEF IInv, WriteOK
<1> QED
  BY <1>1, <1>4, <1>5 DEF IInv, PcOK, ReadOK, FinishedOK

(* The bytes of a write are copied into bytes that are free.               *)
LEMMA WriteCopies ==
  ASSUME IInv, WriteCopy
  PROVE  /\ tx_ring' \in Rings(Values)
         /\ tx_ring'.in = tx_ring.in /\ tx_ring'.out = tx_ring.out
         /\ Placed(tx_ring', count, Numbered(next, count))
         /\ Contents(tx_ring') = Contents(tx_ring)
<1>1. pc = "write_copy" /\ tx_ring' = CopyIn(tx_ring, Numbered(next, count))
  BY DEF WriteCopy, Numbered
<1>2. /\ tx_ring \in Rings(Values) /\ next \in Bytes /\ count \in Nat
      /\ count \in 1 .. RING_WRITE_NUM(tx_ring)
  BY <1>1, BusartAssumption DEF IInv, TypesOK, WriteOK
<1>3. Numbered(next, count) \in [1 .. count -> Values]
  BY <1>2, NumberedBytes
<1>4. count \in 0 .. RING_WRITE_NUM(tx_ring)
  BY <1>2
<1> QED
  BY <1>1, <1>2, <1>3, <1>4, CopyIn_Contents

(* So the copy is ready to be handed over.                                 *)
LEMMA WriteCopyIInv == ASSUME IInv, WriteCopy PROVE IInv'
<1>1. /\ pc = "write_copy" /\ pc' = "write_advance"
      /\ UNCHANGED <<rx_ring, tx_irq, sending, RXRDY, left, tries, count, chunk,
                     next, arriving, finished>>
  BY DEF WriteCopy, usart, request, numbers
<1>2. TypesOK'
  BY <1>1, WriteCopies DEF IInv, TypesOK
<1>3. WriteOK'
  <2>1. RING_WRITE_NUM(tx_ring') = RING_WRITE_NUM(tx_ring)
    BY WriteCopies DEF RING_WRITE_NUM, RING_READ_NUM
  <2> QED
    BY <1>1, <2>1, WriteCopies DEF IInv, WriteOK
<1> QED
  BY <1>1, <1>2, <1>3 DEF IInv, PcOK, ReadOK, FinishedOK

(* The pointer moves: the bytes are in the ring.                           *)
LEMMA WriteAdvances ==
  ASSUME IInv, WriteAdvance
  PROVE  /\ tx_ring' \in Rings(Values)
         /\ Contents(tx_ring') = Contents(tx_ring) \o Numbered(next, count)
         /\ Contents(tx_ring') \in Seq(Bytes)
         /\ RING_READ_NUM(tx_ring) + count < RingSize
         /\ count \in Nat /\ count >= 1
<1>1. pc = "write_advance" /\ tx_ring' = ring_write_advance(tx_ring, count)
  BY DEF WriteAdvance
<1>2. /\ tx_ring \in Rings(Values) /\ next \in Bytes /\ count \in Nat
      /\ count \in 1 .. RING_WRITE_NUM(tx_ring)
      /\ Placed(tx_ring, count, Numbered(next, count))
      /\ Contents(tx_ring) \in Seq(Bytes)
  BY <1>1, BusartAssumption DEF IInv, TypesOK, WriteOK
<1>3. /\ Numbered(next, count) \in [1 .. count -> Values]
      /\ Numbered(next, count) \in Seq(Bytes)
  BY <1>2, NumberedBytes
<1>4. count \in 0 .. RING_WRITE_NUM(tx_ring)
  BY <1>2
<1>5. tx_ring' \in Rings(Values)
      /\ Contents(tx_ring') = Contents(tx_ring) \o Numbered(next, count)
  BY <1>1, <1>2, <1>3, <1>4, WriteAdvance_Contents
<1>6. RING_READ_NUM(tx_ring) + count < RingSize
  <2> DEFINE n == RING_READ_NUM(tx_ring)
             m == RING_WRITE_NUM(tx_ring)
  <2>1. n \in 0 .. RingSize - 1 /\ m \in 0 .. RingSize - 1 /\ n + m = RingSize - 1
        /\ count \in 0 .. m
    BY <1>2, <1>4, Counts
  <2> HIDE DEF n, m
  <2>2. n + count < RingSize
    BY <2>1, RingAssumption
  <2> QED
    BY <2>2 DEF n
<1> QED
  BY <1>2, <1>3, <1>5, <1>6, ConcatProperties

(* So the program has only the interrupt left to enable.                   *)
LEMMA WriteAdvanceIInv == ASSUME IInv, WriteAdvance PROVE IInv'
<1>1. /\ pc = "write_advance" /\ pc' = "write_irq"
      /\ left' = left - count /\ next' = (next + count) % Numbers
      /\ UNCHANGED <<rx_ring, tx_irq, sending, RXRDY, tries, count, chunk,
                     arriving, finished>>
  BY DEF WriteAdvance, usart
<1>2. TypesOK'
  <2>1. left' \in 0 .. MaxRequest
    BY <1>1, WriteAdvances, BusartAssumption DEF IInv, TypesOK, WriteOK
  <2>2. next' \in Bytes
    <3>1. next \in Int /\ count \in Int
      BY WriteAdvances DEF IInv, TypesOK, Bytes
    <3> QED
      BY <1>1, <3>1, NumbersAreBytes
  <2> QED
    BY <1>1, <2>1, <2>2, WriteAdvances DEF IInv, TypesOK
<1> QED
  BY <1>1, <1>2, WriteAdvances DEF IInv, PcOK, WriteOK, ReadOK, FinishedOK

(* The interrupt is enabled and the write goes on or returns.              *)
LEMMA WriteIrqIInv == ASSUME IInv, WriteIrq PROVE IInv'
<1>1. /\ pc = "write_irq" /\ pc' \in {"idle", "write_count"}
      /\ UNCHANGED <<tx_ring, rx_ring, sending, RXRDY, chunk, next, arriving, finished>>
  BY DEF WriteIrq, WriteReturns, EndRequest, rings, numbers
<1>2. tx_irq' = TRUE
  BY DEF WriteIrq
<1>3. left' \in 0 .. MaxRequest /\ count' \in 0 .. MaxRequest /\ tries' \in 0 .. MaxTries
  BY BusartAssumption DEF IInv, TypesOK, WriteIrq, WriteReturns, EndRequest
<1>4. TypesOK'
  BY <1>1, <1>2, <1>3 DEF IInv, TypesOK
<1> QED
  BY <1>1, <1>4 DEF IInv, PcOK, WriteOK, ReadOK, FinishedOK

(* A read begins.                                                          *)
LEMMA ReadIInv ==
  ASSUME IInv, NEW size \in 1 .. MaxRequest, busart_read(size)
  PROVE  IInv'
<1>1. /\ pc' = "read_count" /\ left' = size /\ tries' = MaxTries
      /\ UNCHANGED <<tx_ring, rx_ring, tx_irq, sending, RXRDY, count, chunk, next,
                     arriving, finished>>
  BY DEF busart_read, rings, usart, numbers
<1>2. TypesOK'
  <2>1. left' \in 0 .. MaxRequest /\ tries' \in 0 .. MaxTries
    BY <1>1, BusartAssumption
  <2> QED
    BY <1>1, <2>1 DEF IInv, TypesOK
<1> QED
  BY <1>1, <1>2 DEF IInv, PcOK, WriteOK, ReadOK, FinishedOK

(* The bytes to read are counted.                                          *)
LEMMA ReadCountIInv == ASSUME IInv, ReadCount PROVE IInv'
<1> DEFINE n == Least(left, RING_READ_NUM(rx_ring))
<1>1. UNCHANGED <<tx_ring, rx_ring, tx_irq, sending, RXRDY, chunk, next, arriving, finished>>
  BY DEF ReadCount, rings, usart, numbers
<1>2. /\ rx_ring \in Rings(Values) /\ left \in Nat /\ left <= MaxRequest
      /\ MaxRequest \in Nat /\ tries \in 0 .. MaxTries /\ MaxTries \in Nat
      /\ RING_READ_NUM(rx_ring) \in Nat /\ count \in 0 .. MaxRequest
  BY Counts, BusartAssumption, RingAssumption DEF IInv, TypesOK
<1>3. n \in Nat /\ n <= left /\ n <= RING_READ_NUM(rx_ring)
  BY <1>2, LeastOf
<1>4. \/ n > 0 /\ count' = n /\ pc' = "read_copy" /\ left' = left /\ tries' = tries
      \/ /\ n = 0 /\ tries > 0 /\ tries' = tries - 1
         /\ pc' = "read_count" /\ left' = left /\ count' = count
      \/ left' = 0 /\ tries' = 0 /\ count' = 0 /\ pc' = "idle"
  BY DEF ReadCount, EndRequest
<1> HIDE DEF n
<1>5. left' \in 0 .. MaxRequest /\ tries' \in 0 .. MaxTries /\ count' \in 0 .. MaxRequest
      /\ pc' \in {"idle", "read_count", "read_copy"}
      /\ (pc' = "read_copy" =>
            count' \in 1 .. RING_READ_NUM(rx_ring) /\ count' =< left')
  BY <1>2, <1>3, <1>4
<1>6. TypesOK'
  BY <1>1, <1>5 DEF IInv, TypesOK
<1>7. ReadOK'
  BY <1>1, <1>5 DEF ReadOK
<1> QED
  BY <1>1, <1>5, <1>6, <1>7 DEF IInv, PcOK, WriteOK, FinishedOK

(* The bytes are copied.                                                   *)
LEMMA ReadCopyIInv == ASSUME IInv, ReadCopy PROVE IInv'
<1>1. /\ pc = "read_copy" /\ pc' = "read_advance" /\ chunk' = CopyOut(rx_ring, count)
      /\ UNCHANGED <<tx_ring, rx_ring, tx_irq, sending, RXRDY, left, tries, count, next,
                     arriving, finished>>
  BY DEF ReadCopy, rings, usart, numbers
<1>2. TypesOK'
  BY <1>1 DEF IInv, TypesOK
<1>3. count \in 1 .. RING_READ_NUM(rx_ring) /\ count =< left /\ rx_ring \in Rings(Values)
  BY <1>1 DEF IInv, ReadOK, TypesOK
<1>4. chunk' = SubSeq(Contents(rx_ring), 1, count)
  <2>1. count \in 0 .. RING_READ_NUM(rx_ring)
    BY <1>3
  <2> QED
    BY <1>1, <1>3, <2>1, CopyOut_Contents
<1>5. ReadOK'
  BY <1>1, <1>3, <1>4 DEF ReadOK
<1> QED
  BY <1>1, <1>2, <1>5 DEF IInv, PcOK, WriteOK, FinishedOK

(* The pointer moves: the bytes have left the ring.                        *)
LEMMA ReadAdvances ==
  ASSUME IInv, ReadAdvance
  PROVE  /\ rx_ring' \in Rings(Values)
         /\ received' = SubSeq(Contents(rx_ring), 1, count)
         /\ Contents(rx_ring')
              = SubSeq(Contents(rx_ring), count + 1, Len(Contents(rx_ring)))
         /\ count \in 1 .. Len(Contents(rx_ring)) /\ Len(Contents(rx_ring)) < RingSize
<1>1. /\ pc = "read_advance" /\ rx_ring' = ring_read_advance(rx_ring, count)
      /\ received' = chunk
  BY DEF ReadAdvance
<1>2. /\ rx_ring \in Rings(Values)
      /\ count \in 1 .. RING_READ_NUM(rx_ring)
      /\ chunk = SubSeq(Contents(rx_ring), 1, count)
  BY <1>1 DEF IInv, TypesOK, ReadOK
<1>3. Len(Contents(rx_ring)) = RING_READ_NUM(rx_ring)
      /\ RING_READ_NUM(rx_ring) \in 0 .. RingSize - 1
  BY <1>2, ContentsSeq, Counts
<1>4. count \in 0 .. RING_READ_NUM(rx_ring) /\ RING_READ_NUM(rx_ring) < RingSize
  BY <1>2, <1>3, RingAssumption
<1> QED
  BY <1>1, <1>2, <1>3, <1>4, ReadAdvance_Contents

(* So the read goes on or returns.                                         *)
LEMMA ReadAdvanceIInv == ASSUME IInv, ReadAdvance PROVE IInv'
<1>1. /\ pc = "read_advance" /\ pc' \in {"idle", "read_count"}
      /\ UNCHANGED <<tx_ring, tx_irq, sending, RXRDY, next, arriving, finished>>
  BY DEF ReadAdvance, EndRequest, usart, numbers
<1>2. left' \in 0 .. MaxRequest /\ tries' \in 0 .. MaxTries /\ count' \in 0 .. MaxRequest
  <2>1. count \in Nat /\ count =< left /\ left \in 0 .. MaxRequest
        /\ count \in 0 .. MaxRequest /\ tries \in 0 .. MaxTries
    BY <1>1, BusartAssumption DEF IInv, TypesOK, ReadOK
  <2> QED
    BY <2>1, BusartAssumption DEF ReadAdvance, EndRequest
<1>3. TypesOK'
  BY <1>1, <1>2, ReadAdvances DEF IInv, TypesOK
<1> QED
  BY <1>1, <1>3 DEF IInv, PcOK, WriteOK, ReadOK, FinishedOK

(* busart_write_finished_p finds the ring empty or not.                    *)
LEMMA FinishedRingIInv == ASSUME IInv, FinishedRing PROVE IInv'
<1>1. /\ pc = "idle"
      /\ UNCHANGED <<tx_ring, rx_ring, tx_irq, sending, RXRDY, left, tries, count, chunk,
                     next, arriving>>
      /\ \/ RING_READ_NUM(tx_ring) = 0 /\ pc' = "finished" /\ finished' = finished
         \/ finished' = FALSE /\ pc' = pc
  BY DEF FinishedRing, ring_empty_p, rings, usart, request, numbers
<1>2. TypesOK'
  BY <1>1 DEF IInv, TypesOK
<1> QED
  BY <1>1, <1>2 DEF IInv, PcOK, WriteOK, ReadOK, FinishedOK

(* It asks the USART: the ring is still empty.                             *)
LEMMA FinishedHardwareIInv == ASSUME IInv, FinishedHardware PROVE IInv'
<1>1. /\ pc = "finished" /\ pc' = "idle" /\ finished' = (sending = << >>)
      /\ UNCHANGED <<tx_ring, rx_ring, tx_irq, sending, RXRDY, left, tries, count, chunk,
                     next, arriving>>
  BY DEF FinishedHardware, TXEMPTY, rings, usart, request, numbers
<1>2. TypesOK'
  BY <1>1 DEF IInv, TypesOK
<1> QED
  BY <1>1, <1>2 DEF IInv, PcOK, WriteOK, ReadOK, FinishedOK

(* Every step keeps the invariant.                                         *)
LEMMA NextIInv == IInv /\ [Next]_vars => IInv'
<1> SUFFICES ASSUME IInv, [Next]_vars PROVE IInv'
  OBVIOUS
<1>1. CASE ProgramContinues
  BY <1>1, WriteCountIInv, WriteCopyIInv, WriteAdvanceIInv, WriteIrqIInv,
     ReadCountIInv, ReadCopyIInv, ReadAdvanceIInv, FinishedHardwareIInv
  DEF ProgramContinues
<1>2. CASE ProgramCalls
  BY <1>2, WriteIInv, ReadIInv, FinishedRingIInv DEF ProgramCalls
<1>3. CASE busart_isr
  BY <1>3, IsrIInv
<1>4. CASE ByteSent
  BY <1>4, ByteSentIInv
<1>5. CASE ByteArrives
  BY <1>5, ByteArrivesIInv
<1>6. CASE UNCHANGED vars
  BY <1>6 DEF vars, rings, usart, request, numbers, IInv, TypesOK, PcOK, WriteOK,
     ReadOK, FinishedOK
<1> QED
  BY <1>1, <1>2, <1>3, <1>4, <1>5, <1>6 DEF Next

(* The invariant holds in every state.                                     *)
THEOREM Invariance == Spec => []IInv
<1> QED
  BY InitIInv, NextIInv, PTL DEF Spec

(* Every variable of the serial port keeps its type; the junk a buffer     *)
(* begins with is never sent.                                              *)
THEOREM PortTypes == Spec => []TypeOK
<1>1. IInv => TypeOK
  BY TypesAreRight DEF IInv
<1> QED
  BY <1>1, Invariance, PTL

(* When busart_write_finished_p has said so, every byte is on the wire.    *)
THEOREM FinishedIsSent == Spec => []FinishedMeansSent
<1>1. IInv => FinishedMeansSent
  <2> SUFFICES ASSUME IInv, finished PROVE Contents(tx_ring) = << >> /\ TXEMPTY
    BY DEF FinishedMeansSent
  <2>1. RING_READ_NUM(tx_ring) = 0 /\ sending = << >> /\ tx_ring \in Rings(Values)
    BY DEF IInv, FinishedOK, TypesOK
  <2> QED
    BY <2>1, ContentsSeq, EmptySeq DEF TXEMPTY
<1> QED
  BY <1>1, Invariance, PTL

-----------------------------------------------------------------------------
(* What a step does to the bytes on their way out: nothing, or the step of *)
(* a pipe.                                                                 *)
LEMMA TransmitStep ==
  ASSUME IInv, [Next]_vars
  PROVE  [Sender!Next]_(Sender!vars)
<1>1. /\ sending \in Seq(Bytes) /\ Len(sending) \in Nat /\ Len(sending) =< 2
      /\ tx_ring \in Rings(Values) /\ Contents(tx_ring) \in Seq(Bytes)
      /\ Len(Contents(tx_ring)) = RING_READ_NUM(tx_ring) /\ RingSize \in Nat
      /\ RING_READ_NUM(tx_ring) \in 0 .. RingSize - 1
  BY LenProperties, ContentsSeq, Counts, RingAssumption DEF IInv, TypesOK, WriteOK
<1>2. CASE sending' \o Contents(tx_ring') = sending \o Contents(tx_ring)
           /\ next' = next /\ sent' = sent
  BY <1>2 DEF Sender!vars
<1>3. CASE busart_isr
  <2>1. next' = next /\ sent' = sent
    BY <1>3 DEF busart_isr
  <2> QED
    BY <1>2, <1>3, <2>1, IsrTransmits
<1>4. CASE ByteSent
  <2> DEFINE c == Contents(tx_ring)
             q == sending \o c
  <2>1. sending # << >> /\ sending' = Tail(sending) /\ sent' = <<Head(sending)>>
        /\ next' = next /\ tx_ring' = tx_ring
    BY <1>4 DEF ByteSent, TXEMPTY, rings, numbers
  <2>2. /\ q \in Seq(Bytes) /\ Len(q) = Len(sending) + Len(c)
        /\ Len(sending) >= 1 /\ Len(c) \in Nat
    BY <1>1, <2>1, ConcatProperties, EmptySeq, LenProperties
  <2>3. 1 =< Len(q) /\ Len(q) \in Nat
    BY <1>1, <2>2
  <2>4. SubSeq(q, 1, 1) = <<Head(sending)>>
    BY <1>1, <2>1, <2>2, <2>3, OneOfConcat
  <2>5. Tail(sending) \o c = SubSeq(q, 1 + 1, Len(q))
    BY <1>1, <2>1, TailOfConcat
  <2>6. 1 \in 1 .. RingSize + 1
    BY <1>1
  <2> HIDE DEF c, q
  <2>7. Sender!Take(1)
    BY <2>1, <2>3, <2>4, <2>5 DEF Sender!Take, c, q
  <2> QED
    BY <2>6, <2>7 DEF Sender!Next
<1>5. CASE WriteAdvance
  <2> DEFINE c == Contents(tx_ring)
             w == Numbered(next, count)
  <2>1. sending' = sending /\ sent' = sent /\ next' = (next + count) % Numbers
    BY <1>5 DEF WriteAdvance, usart
  <2>2. /\ Contents(tx_ring') = c \o w
        /\ RING_READ_NUM(tx_ring) + count < RingSize /\ count \in Nat /\ count >= 1
    BY <1>5, WriteAdvances
  <2>3. sending \in Seq(Bytes) /\ c \in Seq(Bytes) /\ w \in Seq(Bytes)
    BY <1>1, <2>2, NumberedBytes DEF IInv, TypesOK
  <2>4. (sending \o c) \o w = sending \o (c \o w)
    <3> HIDE DEF c, w
    <3> QED
      BY ONLY <2>3, ConcatAssociative
  <2>5. Len(sending \o c) = Len(sending) + RING_READ_NUM(tx_ring)
    BY <1>1, ConcatProperties
  <2>6. Len(sending \o c) + count =< RingSize + 1 /\ count \in 1 .. RingSize + 1
    BY <1>1, <2>2, <2>5
  <2>7. Sender!Put(count)
    BY <2>1, <2>2, <2>4, <2>6 DEF Sender!Put, Numbered
  <2> QED
    BY <2>6, <2>7 DEF Sender!Next
<1>6. CASE WriteCopy
  BY <1>2, <1>6, WriteCopies DEF WriteCopy, usart, numbers
<1>7. CASE UNCHANGED <<tx_ring, sending, sent, next>>
  BY <1>2, <1>7
<1>8. \/ busart_isr \/ ByteSent \/ WriteAdvance \/ WriteCopy
      \/ UNCHANGED <<tx_ring, sending, sent, next>>
  BY DEF Next, ProgramContinues, ProgramCalls, busart_write, busart_read, FinishedRing,
     FinishedHardware, WriteCount, WriteIrq, ReadCount, ReadCopy, ReadAdvance, ByteArrives,
     vars, rings, usart, numbers
<1> QED
  BY <1>3, <1>4, <1>5, <1>6, <1>7, <1>8

(* The same for the bytes on their way in.                                 *)
LEMMA ReceiveStep ==
  ASSUME IInv, [Next]_vars
  PROVE  [Receiver!Next]_(Receiver!vars)
<1>1. /\ rx_ring \in Rings(Values) /\ arriving \in Bytes /\ arriving \in Int
      /\ Contents(rx_ring) \in Seq(Values)
      /\ Len(Contents(rx_ring)) = RING_READ_NUM(rx_ring) /\ RingSize \in Nat
      /\ RING_READ_NUM(rx_ring) \in 0 .. RingSize - 1
  BY ContentsSeq, Counts, RingAssumption DEF IInv, TypesOK, Bytes
<1>2. CASE Contents(rx_ring') = Contents(rx_ring) /\ arriving' = arriving
           /\ received' = received
  BY <1>2 DEF Receiver!vars
<1>3. CASE busart_isr
  <2>1. received' = received
    BY <1>3 DEF busart_isr
  <2>2. CASE /\ Contents(rx_ring') = Contents(rx_ring) \o <<arriving>>
             /\ arriving' = (arriving + 1) % Numbers
             /\ RING_READ_NUM(rx_ring') = RING_READ_NUM(rx_ring) + 1
    <3>1. Numbered(arriving, 1) = <<arriving>>
      <4>1. arriving + 1 - 1 = arriving /\ arriving % Numbers = arriving
        BY <1>1, NumbersAreBytes
      <4>2. Numbered(arriving, 1) = [i \in 1 .. 1 |-> arriving]
        <5> SUFFICES ASSUME NEW i \in 1 .. 1 PROVE (arriving + i - 1) % Numbers = arriving
          BY DEF Numbered
        <5>1. i = 1
          OBVIOUS
        <5> QED
          BY <4>1, <5>1
      <4> QED
        BY <4>2
    <3>2. RING_READ_NUM(rx_ring) + 1 < RingSize
      <4>1. rx_ring' \in Rings(Values)
        BY <1>3, IsrReceives
      <4>2. RING_READ_NUM(rx_ring') \in 0 .. RingSize - 1
        BY <4>1, Counts
      <4> QED
        BY <1>1, <2>2, <4>2
    <3>3. Len(Contents(rx_ring)) + 1 =< RingSize - 1 /\ 1 \in 1 .. RingSize - 1
      BY <1>1, <3>2
    <3>4. Receiver!Put(1)
      BY <2>1, <2>2, <3>1, <3>3 DEF Receiver!Put, Numbered
    <3> QED
      BY <3>3, <3>4 DEF Receiver!Next
  <2> QED
    BY <1>2, <1>3, <2>1, <2>2, IsrReceives
<1>4. CASE ReadAdvance
  <2>1. arriving' = arriving
    BY <1>4 DEF ReadAdvance, numbers
  <2>2. /\ received' = SubSeq(Contents(rx_ring), 1, count)
        /\ Contents(rx_ring')
             = SubSeq(Contents(rx_ring), count + 1, Len(Contents(rx_ring)))
        /\ count \in 1 .. Len(Contents(rx_ring)) /\ Len(Contents(rx_ring)) < RingSize
    BY <1>4, ReadAdvances
  <2>3. count =< Len(Contents(rx_ring)) /\ count \in 1 .. RingSize - 1
    BY <1>1, <2>2
  <2>4. Receiver!Take(count)
    BY <2>1, <2>2, <2>3 DEF Receiver!Take
  <2> QED
    BY <2>3, <2>4 DEF Receiver!Next
<1>5. CASE UNCHANGED <<rx_ring, arriving, received>>
  BY <1>2, <1>5
<1>6. busart_isr \/ ReadAdvance \/ UNCHANGED <<rx_ring, arriving, received>>
  BY DEF Next, ProgramContinues, ProgramCalls, busart_write, busart_read, FinishedRing,
     FinishedHardware, WriteCount, WriteCopy, WriteAdvance, WriteIrq, ReadCount, ReadCopy,
     ByteSent, ByteArrives, vars, rings, numbers
<1> QED
  BY <1>3, <1>4, <1>5, <1>6

(* The wire carries what was written, in order, once.                      *)
THEOREM SenderIsPipe == Spec => TransmitsInOrder
<1>1. Init => Sender!Init
  <2> SUFFICES ASSUME Init PROVE next = 0 /\ sending \o Contents(tx_ring) = << >> /\ sent = << >>
    BY DEF Sender!Init
  <2>1. IInv /\ RING_READ_NUM(tx_ring) = 0
    BY InitIInv, EmptyAtFirst
  <2>2. Contents(tx_ring) = << >>
    BY <2>1, ContentsSeq, EmptySeq DEF IInv, TypesOK
  <2> QED
    BY <2>2, EmptySeq, ConcatEmptySeq DEF Init
<1>2. IInv /\ [Next]_vars => [Sender!Next]_(Sender!vars)
  BY TransmitStep
<1> QED
  BY <1>1, <1>2, Invariance, PTL DEF Spec, TransmitsInOrder, Sender!Spec

(* The program reads what arrived in the ring, in order, once.             *)
THEOREM ReceiverIsPipe == Spec => ReceivesInOrder
<1>1. Init => Receiver!Init
  <2> SUFFICES ASSUME Init PROVE arriving = 0 /\ Contents(rx_ring) = << >> /\ received = << >>
    BY DEF Receiver!Init
  <2>1. IInv /\ RING_READ_NUM(rx_ring) = 0
    BY InitIInv, EmptyAtFirst
  <2> QED
    BY <2>1, ContentsSeq, EmptySeq DEF Init, IInv, TypesOK
<1>2. IInv /\ [Next]_vars => [Receiver!Next]_(Receiver!vars)
  BY ReceiveStep
<1> QED
  BY <1>1, <1>2, Invariance, PTL DEF Spec, ReceivesInOrder, Receiver!Spec
=============================================================================
