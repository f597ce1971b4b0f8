----------------------------- MODULE FlashHeap ------------------------------
(***************************************************************************)
(* The heap in a flash memory, src/mmculib/flashheap.c: packets one after  *)
(* the other, each a header and its data.  The header is the size of the   *)
(* data, negative when the packet is free.  Nothing else is kept, so the   *)
(* headers must make sense at every moment: power may fail between any two *)
(* writes.                                                                 *)
(*                                                                         *)
(* Memory is modelled byte by byte, with addresses relative to the start   *)
(* of the heap.  The device may end with the heap or go on behind it.  Any *)
(* access to it may fail.  A read that fails ends a call before anything   *)
(* is written, and so does a failing write of flashheap_free: such calls   *)
(* return 0 and change nothing, they are stuttering steps.                 *)
(***************************************************************************)
EXTENDS Integers, Sequences, FiniteSetsExt

CONSTANTS
  HeapSize,     \* heap->size, in bytes
  Lens,         \* the sizes that callers ask flashheap_alloc for
  Vectors,      \* the data that callers hand to flashheap_writev
  Behind        \* what the device may hold behind the heap

Byte == 0 .. 255

INT32_MAX == 2147483647

(* A vector of data: its bytes, and how many of them come before each of   *)
(* its pieces (iov[0], iov[1], ...).                                       *)
IsVector(v) ==
  /\ v.bytes \in Seq(Byte)
  /\ v.starts \in Seq(0 .. Len(v.bytes))
  /\ \A i, j \in DOMAIN v.starts : i =< j => v.starts[i] =< v.starts[j]

(* A size is an int32_t, and the heap has room for more than a header.     *)
ASSUME FlashHeapAssumption ==
  /\ HeapSize \in Nat /\ HeapSize >= 5 /\ HeapSize =< INT32_MAX
  /\ Lens \subseteq Nat \ {0}
  /\ \A v \in Vectors : IsVector(v) /\ v.bytes # << >>
  /\ Behind \subseteq Seq(Byte)

VARIABLES
  flash,        \* the memory
  pc,           \* the next write of flashheap_writev
  addr, size, data,     \* its packet, and the data to be stored, if any
  held,         \* what callers have got and not freed
  faults        \* ghost: what has gone wrong since the heap was erased

locals == <<pc, addr, size, data>>
vars == <<flash, locals, held, faults>>

-----------------------------------------------------------------------------
(* A header is an int32_t, stored with its lowest byte first.              *)
HeaderSize == 4

Header(m, a) ==
  m[a] + 256 * m[a + 1] + 65536 * m[a + 2]
    + 16777216 * (IF m[a + 3] < 128 THEN m[a + 3] ELSE m[a + 3] - 256)

HeaderBytes(n) ==
  <<n % 256, (n \div 256) % 256, (n \div 65536) % 256, (n \div 16777216) % 256>>

(* readv and writev of the device refuse what is not within it.            *)
Within(a, n) == a + n - 1 \in DOMAIN flash

(* The memory m after a write of bytes at address a.                       *)
Written(m, a, bytes) ==
  [x \in DOMAIN m |-> IF x - a + 1 \in DOMAIN bytes THEN bytes[x - a + 1] ELSE m[x]]

Abs(n) == IF n < 0 THEN -n ELSE n

FollowedBy(a) == a + Abs(Header(flash, a)) + HeaderSize

(* The packets that a walk from the start of the heap comes by.            *)
Packets ==
  LET walk[a \in 0 .. HeapSize - 1] ==
        IF ~Within(a, HeaderSize) THEN {}
        ELSE LET next == FollowedBy(a)
             IN  {a} \cup (IF next < HeapSize THEN walk[next] ELSE {})
  IN  walk[0]

(* flashheap_erase: one large empty packet.                                *)
EmptyPacket == HeaderBytes(-(HeapSize - HeaderSize))

NoData == [bytes |-> << >>, starts |-> << >>]

(* An erased flash, which flashheap_erase has made a heap.                 *)
Init ==
  /\ \E b \in Behind :
       flash = Written([a \in 0 .. HeapSize + Len(b) - 1 |->
                          IF a < HeapSize THEN 255 ELSE b[a - HeapSize + 1]],
                       0, EmptyPacket)
  /\ pc = "idle" /\ addr = 0 /\ size = 0 /\ data = NoData
  /\ held = {}
  /\ faults = {}

flashheap_erase ==
  /\ pc = "idle"
  /\ flash' = Written(flash, 0, EmptyPacket)
  /\ held' = {}
  /\ faults' = {}
  /\ UNCHANGED locals

-----------------------------------------------------------------------------
(* What joining a neighbour adds to the size, if the neighbour is free.    *)
Joins(header) == IF header < 0 THEN header - HeaderSize ELSE 0

(* Seeded faults: the joined header is written where the freed packet      *)
(* began; only a free packet behind is joined.                             *)
FreePacket_in_place(prev, a) ==
  LET before == IF prev < a THEN Joins(Header(flash, prev)) ELSE 0
      behind == Joins(Header(flash, FollowedBy(a)))
  IN  Written(flash, a, HeaderBytes(before - Header(flash, a) + behind))

FreePacket_behind(prev, a) ==
  LET behind == Joins(Header(flash, FollowedBy(a)))
  IN  Written(flash, a, HeaderBytes(behind - Header(flash, a)))

(* The packet at a is joined with free neighbours by one write of the      *)
(* first header; prev is the packet before it, or a if there is none.      *)
FreePacket(prev, a) ==
  LET before == IF prev < a THEN Joins(Header(flash, prev)) ELSE 0
      behind == Joins(Header(flash, FollowedBy(a)))
  IN  Written(flash, IF before < 0 THEN prev ELSE a,
              HeaderBytes(before - Header(flash, a) + behind))

(* The header behind the packet is read without regard to the end of the   *)
(* heap: what lies there and looks like a free packet is joined too.  A    *)
(* pointer that is no packet's is not found.                               *)
flashheap_free(ptr) ==
  /\ pc = "idle"
  /\ LET a == ptr - HeaderSize
         earlier == {p \in Packets : p < a}
         prev == IF earlier = {} THEN a ELSE Max(earlier)
     IN  /\ a \in Packets /\ Header(flash, a) >= 0
         /\ Within(FollowedBy(a), HeaderSize)
         /\ flash' = FreePacket(prev, a)
         /\ faults' = IF FollowedBy(a) >= HeapSize /\ Header(flash, FollowedBy(a)) < 0
                      THEN faults \cup {"end joined"} ELSE faults
  /\ held' = {h \in held : h.ptr # ptr}
  /\ UNCHANGED locals

-----------------------------------------------------------------------------
(* An allocation takes the first free packet that is large enough; what it *)
(* does not need becomes an empty packet of its own.                       *)
Allocate(len, vector) ==
  /\ pc = "idle"
  /\ LET fits == {a \in Packets : Header(flash, a) < 0 /\ len =< -Header(flash, a)}
     IN  /\ fits # {}
         /\ addr' = Min(fits)
         /\ pc' = IF len = -Header(flash, addr') THEN "header" ELSE "remainder"
  /\ size' = len /\ data' = vector
  /\ UNCHANGED <<flash, held, faults>>

flashheap_writev(vector) == Allocate(Len(vector.bytes), vector)

(* flashheap_alloc: no data is written.                                    *)
flashheap_alloc(len) == Allocate(len, NoData)

(* Seeded fault: the remainder is taken to have no header.                 *)
WriteRemainder_no_header ==
  LET new_addr == addr + HeaderSize + size
      left == -Header(flash, addr) - size
  IN  /\ pc = "remainder"
      /\ Within(new_addr, HeaderSize)
      /\ flash' = Written(flash, new_addr, HeaderBytes(-left))
      /\ faults' = IF left < HeaderSize THEN faults \cup {"short remainder"} ELSE faults
      /\ pc' = "header"
      /\ UNCHANGED <<addr, size, data, held>>

(* The header of the remainder takes its room from it, also if there is    *)
(* less than a header left.                                                *)
WriteRemainder ==
  LET new_addr == addr + HeaderSize + size
      left == -Header(flash, addr) - size
  IN  /\ pc = "remainder"
      /\ Within(new_addr, HeaderSize)
      /\ flash' = Written(flash, new_addr, HeaderBytes(-(left - HeaderSize)))
      /\ faults' = IF left < HeaderSize THEN faults \cup {"short remainder"} ELSE faults
      /\ pc' = "header"
      /\ UNCHANGED <<addr, size, data, held>>

Done == pc' = "idle" /\ addr' = 0 /\ size' = 0 /\ data' = NoData

(* The caller gets its pointer, whether or not the memory took the data.   *)
Return ==
  /\ held' = held \cup {[ptr |-> addr + HeaderSize, len |-> size, data |-> data.bytes]}
  /\ Done

Continue(next) == pc' = next /\ UNCHANGED <<addr, size, data, held>>

(* The array iov2 has room for the header and three pieces.                *)
FirstPieces ==
  IF Len(data.starts) < 4 THEN data.bytes ELSE SubSeq(data.bytes, 1, data.starts[4])

(* What is written again, from the third piece on.                         *)
OtherPieces == SubSeq(data.bytes, data.starts[3] + 1, Len(data.bytes))

AfterFirstWrite == IF Len(data.starts) >= 3 THEN Continue("others") ELSE Return

(* The header and the first pieces are one writev of the device, which     *)
(* writes the header first.  Its result is not looked at.                  *)
WriteHeader ==
  /\ pc = "header"
  /\ \/ /\ Within(addr, HeaderSize + Len(FirstPieces))
        /\ flash' = Written(flash, addr, HeaderBytes(size))
        /\ IF data = NoData THEN Return ELSE Continue("data")
        /\ UNCHANGED faults
     \/ /\ AfterFirstWrite
        /\ faults' = faults \cup {"failed write"}
        /\ UNCHANGED flash

(* A write that fails leaves a part of the data behind.                    *)
WriteData ==
  /\ pc = "data"
  /\ \E n \in 0 .. Len(FirstPieces) :
       /\ flash' = Written(flash, addr + HeaderSize, SubSeq(FirstPieces, 1, n))
       /\ faults' = IF n < Len(FirstPieces) THEN faults \cup {"failed write"} ELSE faults
  /\ AfterFirstWrite

(* The other pieces go to the address of the header.                       *)
WriteOthers ==
  /\ pc = "others"
  /\ \E n \in 0 .. Len(OtherPieces) :
       /\ Within(addr, n)
       /\ flash' = Written(flash, addr, SubSeq(OtherPieces, 1, n))
       /\ faults' = faults \cup (IF n > 0 THEN {"third piece"} ELSE {})
                           \cup (IF n < Len(OtherPieces) THEN {"failed write"} ELSE {})
  /\ Return

(* Only the memory survives a loss of power.  The call that is told that   *)
(* the remainder's header could not be written has the same effect: it     *)
(* gives up.                                                               *)
PowerFails ==
  /\ pc # "idle"
  /\ Done
  /\ UNCHANGED <<flash, held, faults>>

-----------------------------------------------------------------------------
(* Callers free what they hold.                                            *)
Held(ptr) == \E h \in held : h.ptr = ptr

Next ==
  \/ flashheap_erase
  \/ \E a \in Packets : Held(a + HeaderSize) /\ flashheap_free(a + HeaderSize)
  \/ \E len \in Lens : flashheap_alloc(len)
  \/ \E v \in Vectors : flashheap_writev(v)
  \/ WriteRemainder \/ WriteHeader \/ WriteData \/ WriteOthers
  \/ PowerFails

Spec == Init /\ [][Next]_vars

-----------------------------------------------------------------------------
(* The code keeps the heap whole unless it is led to one of three things,  *)
(* none of which it looks for: to join what lies behind the heap, to split *)
(* a packet with less than a header left, or to write a third piece.       *)
Intact == faults \subseteq {"failed write"}

(* Between any two writes, and after a loss of power or a failing write    *)
(* there, the packets fill the heap to its last byte, and no two           *)
(* neighbours are free: freed room is found again by the first-fit search. *)
PacketsFillHeap ==
  Intact =>
    \A a \in Packets :
      /\ FollowedBy(a) =< HeapSize
      /\ Header(flash, a) < 0 /\ FollowedBy(a) < HeapSize => Header(flash, FollowedBy(a)) >= 0

(* A caller's block is a used packet with the caller's data in it.         *)
Stored(h) ==
  /\ h.ptr - HeaderSize \in Packets /\ Header(flash, h.ptr - HeaderSize) = h.len
  /\ \A i \in DOMAIN h.data : flash[h.ptr + i - 1] = h.data[i]

(* What a caller stored stays there until it is freed, whatever is         *)
(* allocated, freed or interrupted in between, even if the data look like  *)
(* headers, as long as the device has taken every write.                   *)
DataKept == faults = {} => \A h \in held : Stored(h)

(* Each allocation and each release happens at one write: before it the    *)
(* heap is as if nothing had been begun, after it as if all were done, and *)
(* no other block is touched.  A heap that is no longer intact counts as   *)
(* one whose blocks are lost, until it is erased.                          *)
Blocks == INSTANCE HeapBlocks WITH
  blocks <- IF Intact
            THEN {[at |-> a + HeaderSize, len |-> Header(flash, a)] :
                    a \in {p \in Packets : Header(flash, p) > 0}}
            ELSE {}

OneWriteDecides == Blocks!Spec

(* flashheap.h: flashheap_writev "allocates a packet in flash, writes a     *)
(* vector of data, and returns a pointer to the first byte of the data or  *)
(* NULL for failure", in a heap whose size is the "Number of bytes in      *)
(* heap".  This asks it of every sequence of calls, Intact or not, as long *)
(* as the device takes every write.  Each of the three things that Intact  *)
(* excludes violates it.                                                   *)
HeapAsDescribed ==
  "failed write" \notin faults =>
    /\ \A h \in held : Stored(h)
    /\ \A a \in Packets : FollowedBy(a) =< HeapSize
=============================================================================
