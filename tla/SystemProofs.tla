---------------------------- MODULE SystemProofs -----------------------------
(*****************************************************************************)
(* The services that all tasks use.  The heap, for every size of the memory  *)
(* and of a block header: memory is neither lost nor handed out twice.  The  *)
(* system time: its readings, and its dates for every day there is.  The     *)
(* system events: no key is taken for pressed that is not, for any keys.     *)
(*****************************************************************************)
EXTENDS Heap, Datetime, SysEvent, SeqLemmas

-----------------------------------------------------------------------------
(* The heap. *)

\* What the two calls have in hand between the rounds of their loops.
ScanOK ==
    \/ scan = NoScan
    \/ /\ scan \in [op : {"alloc"}, bytes : Requests, units : Nat, prev : Free, at : Free]
       /\ scan.units = Units(scan.bytes) /\ scan.at = next[scan.prev]
    \/ scan \in [op : {"free"}, block : InUse, at : Free]

HeapTypes ==
    /\ Blocks \subseteq Base .. HeapUnits
    /\ size \in [Blocks -> 0 .. HeapUnits - First]
    /\ next \in [Free -> Free]
    /\ freep \in Free
    /\ asked \in [InUse -> Requests]

\* The memory itself, between the calls and during them.
MemoryInv ==
    HeapTypes /\ BlocksTile /\ FreeListInOrder /\ NeighboursJoined /\ LargeEnough

LEMMA HeapInvParts == HeapInv <=> MemoryInv /\ ScanOK /\ PassedTooSmall
BY DEF HeapInv, HeapTypeOK, MemoryInv, HeapTypes, ScanOK

LEMMA Division ==
    ASSUME NEW n \in Nat, NEW d \in Nat \ {0}
    PROVE  n \div d \in Nat /\ d * (n \div d) <= n /\ n < d * (n \div d) + d
OBVIOUS

\* Rounding up gives room for the request and for the header.
LEMMA UnitsHold ==
    ASSUME HeapAssumption, NEW bytes \in Requests
    PROVE  /\ Units(bytes) \in Nat /\ Units(bytes) >= 1
           /\ bytes <= (Units(bytes) - 1) * UnitSize
<1>1. /\ UnitSize \in Nat \ {0} /\ Modulus \in Nat
      /\ bytes \in Nat /\ bytes + UnitSize <= Modulus
  BY DEF HeapAssumption
<1> DEFINE n == bytes + UnitSize - 1
<1>2. n \in Nat /\ n < Modulus
  BY <1>1
<1>3. n % Modulus = n
  BY <1>1, <1>2
<1> DEFINE q == n \div UnitSize
<1>5. Units(bytes) = q + 1
  BY <1>3 DEF Units, n
<1>6. q \in Nat /\ n <= UnitSize * q + UnitSize - 1
  <2> HIDE DEF n
  <2>1. n < UnitSize * q + UnitSize /\ q \in Nat
    BY <1>1, <1>2, Division
  <2> HIDE DEF q
  <2>2. UnitSize * q \in Int
    BY <1>1, <2>1
  <2> QED
    BY <1>1, <1>2, <2>1, <2>2
<1> HIDE DEF q
<1>7. bytes <= UnitSize * q
  <2>1. UnitSize * q \in Int
    BY <1>1, <1>6
  <2> QED
    BY <1>1, <1>6, <2>1 DEF n
<1>8. (Units(bytes) - 1) * UnitSize = UnitSize * q
  BY <1>1, <1>5, <1>6
<1> QED
  BY <1>5, <1>6, <1>7, <1>8

\* The free list goes up to the last free block and from there to the anchor.
LEMMA NextInOrder ==
    ASSUME HeapTypes, BlocksTile, FreeListInOrder, NEW p \in Free
    PROVE  /\ Base \in Free /\ next[p] \in Free /\ p \in Int /\ next[p] \in Int
           /\ p < next[p] => \A q \in Free : q <= p \/ next[p] <= q
           /\ ~ (p < next[p]) => next[p] = Base /\ \A q \in Free : q <= p
           /\ \A q \in Free : q \in Blocks /\ q \in Int /\ Base <= q
BY DEF HeapTypes, BlocksTile, FreeListInOrder, Base, First

\* It passes every free block once.
LEMMA NextInjective ==
    ASSUME HeapTypes, BlocksTile, FreeListInOrder,
           NEW p \in Free, NEW q \in Free, next[p] = next[q]
    PROVE  p = q
BY NextInOrder

LEMMA HeapBegins == HeapInit => HeapInv
<1> SUFFICES ASSUME HeapInit PROVE HeapInv
  OBVIOUS
<1> USE HeapAssumption DEF HeapInit, Base, First
<1>1. /\ Blocks = {Base, First} /\ Free = {Base, First} /\ InUse = {}
      /\ size[Base] = 0 /\ size[First] = HeapUnits + 1
      /\ next[Base] = First /\ next[First] = Base
  BY DEF Blocks, Free, InUse
<1>2. HeapUnits \in Nat /\ HeapUnits >= 1
  BY DEF HeapAssumption
<1>3. HeapTypes
  <2>1. asked \in [InUse -> Requests]
    BY <1>1 DEF InUse
  <2>2. size \in [Blocks -> 0 .. HeapUnits - First] /\ next \in [Free -> Free]
    BY <1>1, <1>2
  <2> QED
    BY <1>1, <1>2, <2>1, <2>2 DEF HeapTypes
<1>4. BlocksTile
  BY <1>1, <1>2 DEF BlocksTile
<1>5. FreeListInOrder /\ NeighboursJoined /\ LargeEnough
  BY <1>1, <1>2 DEF FreeListInOrder, NeighboursJoined, LargeEnough
<1>6. scan = NoScan /\ PassedTooSmall
  BY DEF PassedTooSmall, NoScan
<1> QED
  BY <1>3, <1>4, <1>5, <1>6, HeapInvParts DEF MemoryInv, ScanOK

\* What a step has in hand that continues a call of alloc_memory().
LEMMA AllocHolds ==
    ASSUME HeapAssumption, HeapInv, scan.op = "alloc"
    PROVE  /\ scan \in [op : {"alloc"}, bytes : Requests, units : Nat, prev : Free, at : Free]
           /\ scan.units = Units(scan.bytes) /\ scan.at = next[scan.prev]
           /\ scan.prev \in Free /\ scan.at \in Free /\ scan.bytes \in Requests
           /\ scan.units \in Nat /\ scan.units >= 1
           /\ scan.bytes <= (scan.units - 1) * UnitSize
<1>1. /\ scan \in [op : {"alloc"}, bytes : Requests, units : Nat, prev : Free, at : Free]
      /\ scan.units = Units(scan.bytes) /\ scan.at = next[scan.prev]
  BY HeapInvParts DEF ScanOK, NoScan
<1>2. scan.bytes \in Requests /\ scan.prev \in Free /\ scan.at \in Free
  BY <1>1
<1> QED
  BY <1>1, <1>2, UnitsHold

\* A search goes on behind a block that is too small.
LEMMA AllocNextKeeps ==
    ASSUME HeapAssumption, HeapInv, AllocNext
    PROVE  HeapInv'
<1>1. /\ scan.op = "alloc" /\ size[scan.at] < scan.units /\ scan.at # freep
      /\ scan' = [scan EXCEPT !.prev = scan.at, !.at = next[scan.at]]
      /\ UNCHANGED <<size, next, freep, asked>>
  BY DEF AllocNext
<1>2. /\ scan \in [op : {"alloc"}, bytes : Requests, units : Nat, prev : Free, at : Free]
      /\ scan.units = Units(scan.bytes) /\ scan.at = next[scan.prev]
      /\ scan.prev \in Free /\ scan.at \in Free
  BY <1>1, AllocHolds
<1>3. MemoryInv /\ PassedTooSmall
  BY HeapInvParts
<1>4. MemoryInv'
  BY <1>1, <1>3 DEF MemoryInv, HeapTypes, BlocksTile, FreeListInOrder, NeighboursJoined,
                    LargeEnough, Blocks, Free, InUse
<1>5. next[scan.at] \in Free
  BY <1>2, <1>3 DEF MemoryInv, HeapTypes
<1>6. ScanOK'
  BY <1>1, <1>2, <1>5 DEF ScanOK, Free, InUse, Units
<1>7. PassedTooSmall'
  <2> SUFFICES ASSUME NEW q \in Free, Passed(q)'
               PROVE  size[q] < scan.units
    BY <1>1, <1>2 DEF PassedTooSmall, Free
  <2>1. Passed(q) \/ q = scan.at
    <3>1. HeapTypes /\ BlocksTile /\ FreeListInOrder
      BY <1>3 DEF MemoryInv
    <3>2. /\ freep \in Free /\ freep' = freep /\ scan'.prev = scan.at
      BY <1>1, <1>2, <3>1 DEF HeapTypes
    <3>3. /\ Base \in Free /\ scan.prev \in Int /\ scan.at \in Int
          /\ scan.prev < scan.at => \A f \in Free : f <= scan.prev \/ scan.at <= f
          /\ ~ (scan.prev < scan.at) => scan.at = Base /\ \A f \in Free : f <= scan.prev
          /\ \A f \in Free : f \in Int /\ Base <= f
      BY <1>2, <3>1, NextInOrder
    <3> QED
      BY <1>1, <1>2, <3>2, <3>3 DEF Passed
  <2> QED
    BY <1>1, <1>2, <1>3, <2>1 DEF PassedTooSmall
<1> QED
  BY <1>4, <1>6, <1>7, HeapInvParts DEF HeapInv, HeapTypeOK, MemoryInv, HeapTypes, ScanOK

\* A search that comes back to where it began has passed all free blocks.
LEMMA SearchPassesAll ==
    ASSUME HeapAssumption, HeapInv, AllocFails
    PROVE  \A q \in Free : size[q] < scan.units
<1>1. scan.op = "alloc" /\ size[scan.at] < scan.units /\ scan.at = freep
  BY DEF AllocFails
<1>2. scan.at = next[scan.prev] /\ scan.prev \in Free /\ scan.at \in Free
  BY <1>1, AllocHolds
<1>3. HeapTypes /\ BlocksTile /\ FreeListInOrder /\ PassedTooSmall
  BY HeapInvParts DEF MemoryInv
<1>4. /\ scan.prev \in Int /\ scan.at \in Int
      /\ scan.prev < scan.at => \A f \in Free : f <= scan.prev \/ scan.at <= f
      /\ ~ (scan.prev < scan.at) => scan.at = Base /\ \A f \in Free : f <= scan.prev
      /\ \A f \in Free : f \in Int /\ Base <= f
  BY <1>2, <1>3, NextInOrder
<1>5. \A q \in Free : Passed(q) \/ q = freep
  BY <1>1, <1>2, <1>4 DEF Passed
<1> QED
  BY <1>1, <1>3, <1>5 DEF PassedTooSmall

\* The call that takes a whole block takes it out of the list.
LEMMA AllocWholeKeeps ==
    ASSUME HeapAssumption, HeapInv, AllocWhole
    PROVE  HeapInv'
<1> DEFINE at == scan.at
           prev == scan.prev
<1>1. /\ scan.op = "alloc" /\ size[at] = scan.units
      /\ next' = [b \in Free \ {at} |-> IF b = prev THEN next[at] ELSE next[b]]
      /\ asked' = [b \in InUse \cup {at} |-> IF b = at THEN scan.bytes ELSE asked[b]]
      /\ freep' = prev /\ scan' = NoScan /\ size' = size
  BY DEF AllocWhole
<1>2. /\ at = next[prev] /\ prev \in Free /\ at \in Free /\ scan.bytes \in Requests
      /\ scan.units >= 1 /\ scan.bytes <= (scan.units - 1) * UnitSize
  BY <1>1, AllocHolds
<1>3. HeapTypes /\ BlocksTile /\ FreeListInOrder /\ NeighboursJoined /\ LargeEnough
  BY HeapInvParts DEF MemoryInv
<1> HIDE DEF at, prev
<1>4. at # Base /\ Base \in Free
  BY <1>1, <1>2, <1>3 DEF BlocksTile
<1>5. /\ prev \in Int /\ at \in Int
      /\ prev < at /\ \A f \in Free : f <= prev \/ at <= f
      /\ \A f \in Free : f \in Int /\ Base <= f
  BY <1>2, <1>3, <1>4, NextInOrder
<1>6. next[at] # at
  BY <1>2, <1>3, <1>4, NextInOrder
<1>7. \A f \in Free : next[f] = at => f = prev
  BY <1>2, <1>3, NextInjective
<1>8. /\ Free' = Free \ {at} /\ InUse' = InUse \cup {at} /\ Blocks' = Blocks
      /\ next'[prev] = next[at]
      /\ \A f \in Free' \ {prev} : next'[f] = next[f]
  BY <1>1, <1>2, <1>5 DEF Free, InUse, Blocks
<1>9. HeapTypes'
  <2>1. next' \in [Free' -> Free']
    BY <1>1, <1>2, <1>3, <1>6, <1>7, <1>8 DEF HeapTypes
  <2>2. asked' \in [InUse' -> Requests]
    BY <1>1, <1>2, <1>3, <1>8 DEF HeapTypes
  <2> QED
    BY <1>1, <1>2, <1>3, <1>5, <1>8, <2>1, <2>2 DEF HeapTypes
<1>10. BlocksTile'
  BY <1>1, <1>2, <1>3, <1>4, <1>8 DEF BlocksTile
<1>11. FreeListInOrder'
  <2> SUFFICES ASSUME NEW p \in Free'
               PROVE  IF p < next'[p] THEN \A q \in Free' : q <= p \/ next'[p] <= q
                      ELSE next'[p] = Base /\ \A q \in Free' : q <= p
    BY DEF FreeListInOrder
  <2>1. CASE p = prev
    <3>1. /\ next[at] \in Int
          /\ at < next[at] => \A q \in Free : q <= at \/ next[at] <= q
          /\ ~ (at < next[at]) => next[at] = Base /\ \A q \in Free : q <= at
      BY <1>2, <1>3, NextInOrder
    <3> QED
      BY <1>2, <1>4, <1>5, <1>8, <2>1, <3>1 DEF Base
  <2>2. CASE p # prev
    <3>1. /\ next[p] \in Int /\ next'[p] = next[p]
          /\ p < next[p] => \A q \in Free : q <= p \/ next[p] <= q
          /\ ~ (p < next[p]) => next[p] = Base /\ \A q \in Free : q <= p
      BY <1>3, <1>8, <2>2, NextInOrder
    <3> QED
      BY <1>8, <3>1
  <2> QED
    BY <2>1, <2>2
<1>12. NeighboursJoined'
  BY <1>1, <1>3, <1>8 DEF NeighboursJoined
<1>13. LargeEnough'
  BY <1>1, <1>2, <1>3, <1>8 DEF LargeEnough, InUse
<1> QED
  BY <1>1, <1>9, <1>10, <1>11, <1>12, <1>13
     DEF HeapInv, HeapTypeOK, HeapTypes, PassedTooSmall, NoScan

\* The call that cuts off the tail of a block makes two of one.
LEMMA AllocTailKeeps ==
    ASSUME HeapAssumption, HeapInv, AllocTail
    PROVE  HeapInv'
<1> DEFINE at == scan.at
           rest == size[at] - scan.units
           tail == at + rest
<1>1. /\ scan.op = "alloc" /\ size[at] > scan.units
      /\ size' = [b \in DOMAIN size \cup {tail} |->
                     CASE b = tail -> scan.units [] b = at -> rest [] OTHER -> size[b]]
      /\ asked' = [b \in InUse \cup {tail} |-> IF b = tail THEN scan.bytes ELSE asked[b]]
      /\ freep' = scan.prev /\ scan' = NoScan /\ next' = next
  BY DEF AllocTail
<1>2. /\ scan.prev \in Free /\ at \in Free /\ scan.bytes \in Requests
      /\ scan.units \in Nat /\ scan.units >= 1
      /\ scan.bytes <= (scan.units - 1) * UnitSize
  BY <1>1, AllocHolds
<1>3. HeapTypes /\ BlocksTile /\ FreeListInOrder /\ NeighboursJoined /\ LargeEnough
  BY HeapInvParts DEF MemoryInv
<1>4. /\ at \in Blocks /\ at \in Int /\ size[at] \in Int /\ at # Base
      /\ \A b \in Blocks : b \in Int /\ size[b] \in Int
      /\ HeapUnits \in Int
  BY <1>1, <1>2, <1>3 DEF HeapTypes, BlocksTile, HeapAssumption, Base, First
<1>5. /\ rest \in Int /\ rest > 0 /\ rest < size[at] /\ tail \in Int /\ at < tail
      /\ tail + scan.units = at + size[at]
  BY <1>1, <1>2, <1>4
<1>6. /\ First <= at
      /\ at + size[at] = HeapUnits \/ at + size[at] \in Blocks
      /\ \A c \in Blocks : at < c => at + size[at] <= c
      /\ at + size[at] <= HeapUnits
  BY <1>3, <1>4 DEF BlocksTile, HeapTypes, Base, First
<1> HIDE DEF at, rest, tail
<1>7. tail \notin Blocks
  BY <1>2, <1>4, <1>5, <1>6
<1>8. /\ Blocks' = Blocks \cup {tail} /\ Free' = Free /\ InUse' = InUse \cup {tail}
      /\ size'[tail] = scan.units /\ size'[at] = rest
      /\ \A b \in Blocks \ {at} : size'[b] = size[b]
      /\ asked'[tail] = scan.bytes /\ \A b \in InUse \ {tail} : asked'[b] = asked[b]
  BY <1>1, <1>4, <1>7 DEF Blocks, Free, InUse
<1>9. HeapTypes'
  <2>1. tail \in Base .. HeapUnits
    BY <1>2, <1>4, <1>5, <1>6 DEF Base, First
  <2>2. size' \in [Blocks' -> 0 .. HeapUnits - First]
    <3>1. scan.units \in 0 .. HeapUnits - First /\ rest \in 0 .. HeapUnits - First
      BY <1>1, <1>2, <1>3, <1>4, <1>5 DEF HeapTypes, First
    <3> QED
      BY <1>1, <1>3, <1>8, <3>1 DEF HeapTypes, Blocks
  <2>3. asked' \in [InUse' -> Requests]
    BY <1>1, <1>2, <1>3, <1>8 DEF HeapTypes
  <2> QED
    BY <1>1, <1>2, <1>3, <1>8, <2>1, <2>2, <2>3 DEF HeapTypes
<1>10. BlocksTile'
  <2>1. /\ Blocks = Free \cup InUse /\ Free \cap InUse = {}
        /\ Base \in Free /\ size[Base] = 0 /\ First \in Blocks
    BY <1>3 DEF BlocksTile
  <2>2. /\ Blocks' = Free' \cup InUse' /\ Free' \cap InUse' = {}
        /\ Base \in Free' /\ size'[Base] = 0 /\ First \in Blocks'
    BY <1>4, <1>7, <1>8, <2>1
  <2>3. ASSUME NEW b \in Blocks' \ {Base}
        PROVE  /\ First <= b /\ size'[b] > 0
               /\ b + size'[b] = HeapUnits \/ b + size'[b] \in Blocks'
               /\ \A c \in Blocks' : b < c => b + size'[b] <= c
    <3>1. CASE b = tail
      BY <1>2, <1>4, <1>5, <1>6, <1>8, <3>1 DEF First
    <3>2. CASE b = at
      BY <1>2, <1>4, <1>5, <1>6, <1>8, <3>2 DEF tail
    <3>3. CASE b # tail /\ b # at
      <4>1. /\ First <= b /\ size[b] > 0
            /\ b + size[b] = HeapUnits \/ b + size[b] \in Blocks
            /\ \A c \in Blocks : b < c => b + size[b] <= c
            /\ size'[b] = size[b] /\ b \in Blocks
        BY <1>3, <1>8, <3>3 DEF BlocksTile
      <4>2. b < tail => b + size[b] <= tail
        BY <1>2, <1>4, <1>5, <1>6, <3>3, <4>1
      <4> QED
        BY <1>8, <4>1, <4>2
    <3> QED
      BY <3>1, <3>2, <3>3
  <2> QED
    BY <2>2, <2>3 DEF BlocksTile
<1>11. FreeListInOrder'
  BY <1>1, <1>3, <1>8 DEF FreeListInOrder
<1>12. NeighboursJoined'
  <2>1. at + size'[at] = tail /\ tail \notin Free
    BY <1>3, <1>7, <1>8 DEF BlocksTile, tail
  <2>2. \A p \in Free \ {at} : size'[p] = size[p]
    BY <1>3, <1>8 DEF BlocksTile
  <2> QED
    BY <1>3, <1>8, <2>1, <2>2 DEF NeighboursJoined
<1>13. LargeEnough'
  <2>1. \A b \in InUse : b # tail /\ b # at /\ b \in Blocks
    BY <1>2, <1>3, <1>7, <1>8 DEF BlocksTile, at
  <2> QED
    BY <1>2, <1>3, <1>8, <2>1 DEF LargeEnough
<1> QED
  BY <1>1, <1>9, <1>10, <1>11, <1>12, <1>13
     DEF HeapInv, HeapTypeOK, HeapTypes, PassedTooSmall, NoScan

\* What a step has in hand that continues a call of free_memory().
LEMMA FreeHolds ==
    ASSUME HeapInv, scan.op = "free"
    PROVE  /\ scan \in [op : {"free"}, block : InUse, at : Free]
           /\ scan.block \in InUse /\ scan.at \in Free
<1>1. scan \in [op : {"free"}, block : InUse, at : Free]
  BY HeapInvParts DEF ScanOK, NoScan
<1> QED
  BY <1>1

\* Where a block belongs: above the free block p, and no free block is between
\* p and the next one.
LEMMA BelongsBetween ==
    ASSUME HeapAssumption, HeapTypes, BlocksTile, FreeListInOrder,
           NEW b \in InUse, NEW p \in Free, Belongs(b, p)
    PROVE  /\ p < b
           /\ b < next[p] \/ next[p] = Base
           /\ \A f \in Free : f <= p \/ (b < f /\ b < next[p] /\ next[p] <= f)
<1>1. /\ p \in Int /\ next[p] \in Free /\ next[p] \in Int
      /\ p < next[p] => \A f \in Free : f <= p \/ next[p] <= f
      /\ ~ (p < next[p]) => next[p] = Base /\ \A f \in Free : f <= p
      /\ \A f \in Free : f \in Int
  BY NextInOrder
<1>2. b \in Int /\ Base < b
  BY DEF BlocksTile, HeapTypes, Base, First
<1>3. CASE p < b /\ b < next[p]
  BY <1>1, <1>2, <1>3
<1>4. CASE next[p] <= p /\ (p < b \/ b < next[p])
  BY <1>1, <1>2, <1>4 DEF Base
<1> QED
  BY <1>3, <1>4 DEF Belongs

\* The block is linked, and joined with the free blocks that it touches.
LEMMA FreeLinkKeeps ==
    ASSUME HeapAssumption, HeapInv, FreeLink
    PROVE  HeapInv'
<1> DEFINE p == scan.at
           b == scan.block
           n == next[p]
           above == b + size[b] = n
           below == p + size[p] = b
           after == IF above THEN next[n] ELSE n
           joined == size[b] + IF above THEN size[n] ELSE 0
           gone == (IF above THEN {n} ELSE {}) \cup (IF below THEN {b} ELSE {})
           m == IF below THEN p ELSE b
           end == IF above THEN n + size[n] ELSE b + size[b]
<1>1. /\ scan.op = "free" /\ Belongs(b, p) /\ scan' = NoScan /\ freep' = p
      /\ asked' = [c \in InUse \ {b} |-> asked[c]]
      /\ next' = [f \in (Free \cup {b}) \ gone |->
                     CASE f = b -> after
                       [] f = p -> IF below THEN after ELSE b
                       [] OTHER -> next[f]]
      /\ size' = [f \in DOMAIN size \ gone |->
                     CASE f = b -> joined
                       [] f = p /\ below -> size[p] + joined
                       [] OTHER -> size[f]]
  BY DEF FreeLink
<1>2. b \in InUse /\ p \in Free
  BY <1>1, FreeHolds
<1>3. HeapTypes /\ BlocksTile /\ FreeListInOrder /\ NeighboursJoined /\ LargeEnough
  BY HeapInvParts DEF MemoryInv
<1> HIDE DEF p, b
<1>4. /\ p < b
      /\ b < n \/ n = Base
      /\ \A f \in Free : f <= p \/ (b < f /\ b < n /\ n <= f)
  BY <1>1, <1>2, <1>3, BelongsBetween
<1>5. /\ n \in Free /\ next[n] \in Free
      /\ n < next[n] => \A f \in Free : f <= n \/ next[n] <= f
      /\ ~ (n < next[n]) => next[n] = Base /\ \A f \in Free : f <= n
  BY <1>2, <1>3, NextInOrder
<1>6. /\ \A c \in Blocks : c \in Int /\ Base <= c /\ c <= HeapUnits
                           /\ size[c] \in Int /\ size[c] >= 0
      /\ Free \subseteq Blocks /\ InUse \subseteq Blocks /\ b \notin Free
      /\ Blocks = Free \cup InUse /\ Free \cap InUse = {}
      /\ Base \in Free /\ size[Base] = 0 /\ First \in Blocks
      /\ HeapUnits \in Int
  BY <1>2, <1>3 DEF HeapTypes, BlocksTile, HeapAssumption, Base, First
<1>7. \A c \in Blocks \ {Base} :
         /\ First <= c /\ size[c] > 0
         /\ c + size[c] = HeapUnits \/ c + size[c] \in Blocks
         /\ \A d \in Blocks : c < d => c + size[c] <= d
  BY <1>3 DEF BlocksTile
<1>8. /\ b # Base /\ p # b /\ b \in Blocks /\ p \in Blocks /\ n \in Blocks /\ n # b
      /\ b \in Int /\ p \in Int /\ n \in Int
      /\ size[b] \in Int /\ size[p] \in Int /\ size[n] \in Int
      /\ size[b] > 0 /\ First <= b
  BY <1>2, <1>5, <1>6, <1>7
<1>9. ASSUME above
      PROVE  /\ b < n /\ n # Base /\ n # p /\ size[n] > 0
             /\ n + size[n] = HeapUnits \/ n + size[n] \in Blocks
  BY <1>4, <1>6, <1>7, <1>8, <1>9 DEF First, Base
<1>10. ASSUME below
       PROVE  p # Base
  BY <1>6, <1>8, <1>10
<1> HIDE DEF n, above, below
<1>11. /\ Free' = (Free \cup {b}) \ gone /\ Blocks' = Blocks \ gone /\ InUse' = InUse \ {b}
       /\ m \in Free' /\ m \in Blocks' /\ m # Base /\ p \in Free' /\ m \in Int
  BY <1>1, <1>2, <1>6, <1>8, <1>9, <1>10 DEF Free, Blocks, InUse
<1>12. /\ above => after = next[n] /\ end = n + size[n]
       /\ ~ above => after = n /\ end = b + size[b]
       /\ below => m = p
       /\ ~ below => m = b
  OBVIOUS
<1>13. \A c : c \in gone <=> (above /\ c = n) \/ (below /\ c = b)
  OBVIOUS
<1>14. /\ next'[m] = after
       /\ ~ below => next'[p] = b
       /\ \A f \in Free' \ {m, p} : next'[f] = next[f] /\ f \in Free
  BY <1>1, <1>8, <1>11 DEF Free
<1>15. /\ size'[m] \in Int /\ m + size'[m] = end /\ size'[m] > 0 /\ end \in Int /\ b < end
       /\ \A c \in Blocks' \ {m} : size'[c] = size[c] /\ c \in Blocks
  <2>1. /\ joined \in Int /\ b + joined = end /\ joined > 0 /\ end \in Int /\ b < end
    BY <1>8, <1>9 DEF above
  <2>2. CASE below
    <3>1. m = p /\ size'[m] = size[p] + joined
      BY <1>1, <1>8, <1>11, <2>2 DEF Blocks
    <3>2. p + size[p] = b /\ size[p] >= 0
      BY <1>6, <1>8, <2>2 DEF below
    <3>3. \A c \in Blocks' \ {m} : size'[c] = size[c] /\ c \in Blocks
      BY <1>1, <1>11, <2>2, <3>1 DEF Blocks
    <3> HIDE DEF joined, end
    <3> QED
      BY <1>8, <2>1, <3>1, <3>2, <3>3
  <2>3. CASE ~ below
    <3>1. m = b /\ size'[m] = joined
      BY <1>1, <1>8, <1>11, <2>3 DEF Blocks
    <3>2. \A c \in Blocks' \ {m} : size'[c] = size[c] /\ c \in Blocks
      BY <1>1, <1>11, <2>3, <3>1 DEF Blocks
    <3> QED
      BY <2>1, <3>1, <3>2
  <2> QED
    BY <2>2, <2>3
\* Between the joined block and its end there is no other.
<1>16. /\ end = HeapUnits \/ end \in Blocks'
       /\ end <= HeapUnits
       /\ \A c \in Blocks' : c <= m \/ end <= c
  <2>1. end = HeapUnits \/ end \in Blocks
    BY <1>7, <1>8, <1>9
  <2>2. end \notin gone
    BY <1>8, <1>9, <1>15
  <2>3. ASSUME NEW c \in Blocks'
        PROVE  c <= m \/ end <= c
    <3>1. c \in Blocks /\ c \notin gone /\ c \in Int
      BY <1>6, <1>11
    <3>2. c < b => c <= p \/ ~ below
      BY <1>7, <1>8, <1>10, <3>1 DEF below
    <3>3. b < c => b + size[b] <= c
      BY <1>7, <1>8, <3>1
    <3>4. above /\ b < c => end <= c
      BY <1>7, <1>8, <1>9, <3>1, <3>3 DEF above
    <3> QED
      BY <1>8, <3>1, <3>2, <3>3, <3>4
  <2>4. end \in Blocks => end <= HeapUnits
    BY <1>6
  <2> QED
    BY <1>6, <1>11, <2>1, <2>2, <2>3, <2>4
\* No other block ends where a block is gone.
<1>17. \A c \in Blocks' \ {Base, m} : c + size[c] \notin gone
  <2> SUFFICES ASSUME NEW c \in Blocks' \ {Base, m}
               PROVE  c + size[c] \notin gone
    OBVIOUS
  <2>1. /\ c \in Blocks /\ c \in Int /\ size[c] > 0 /\ size[c] \in Int
        /\ \A d \in Blocks : c < d => c + size[c] <= d
        /\ \A d \in Blocks \ {Base} : d < c => d + size[d] <= c
    BY <1>6, <1>7, <1>15
  <2>2. ASSUME below
        PROVE  c + size[c] # b
    <3>1. c # p /\ p # Base /\ p + size[p] = b
      BY <1>10, <1>12, <2>2 DEF below
    <3>2. /\ size[p] > 0
          /\ p < c => p + size[p] <= c
      BY <1>7, <1>8, <2>1, <3>1
    <3>3. c < p => c + size[c] <= p
      BY <1>8, <2>1
    <3> HIDE DEF m
    <3> QED
      BY <1>4, <1>8, <2>1, <3>1, <3>2, <3>3
  <2>3. above => c + size[c] # n
    <3>1. CASE c = b
      BY <1>11, <3>1
    <3>2. CASE c # b
      BY <1>8, <1>9, <2>1, <3>2 DEF above
    <3> QED
      BY <3>1, <3>2
  <2> QED
    BY <2>2, <2>3
<1>18. HeapTypes'
  <2>1. next' \in [Free' -> Free']
    <3>1. after \in Free'
      BY <1>5, <1>8, <1>9, <1>11
    <3>2. ~ below => b \in Free'
      BY <1>8, <1>9, <1>11
    <3>3. ASSUME NEW f \in Free' \ {m, p}
          PROVE  next'[f] \in Free'
      <4>1. f \in Free /\ next'[f] = next[f] /\ next[f] \in Free
        BY <1>3, <1>14 DEF HeapTypes
      <4>2. next[f] # n
        BY <1>2, <1>3, <4>1, NextInjective DEF n
      <4> QED
        BY <1>6, <1>11, <4>1, <4>2
    <3>4. \A f \in Free' : next'[f] \in Free'
      BY <1>14, <3>1, <3>2, <3>3
    <3>5. next' = [f \in Free' |-> next'[f]]
      BY <1>1 DEF Free
    <3> QED
      BY <3>4, <3>5
  <2>2. size' \in [Blocks' -> 0 .. HeapUnits - First]
    <3>1. size'[m] \in 0 .. HeapUnits - First
      <4>1. First <= m
        BY <1>7, <1>8, <1>10
      <4> QED
        BY <1>6, <1>11, <1>15, <1>16, <4>1 DEF First
    <3>2. \A c \in Blocks' : size'[c] \in 0 .. HeapUnits - First
      BY <1>3, <1>15, <3>1 DEF HeapTypes
    <3>3. size' = [c \in Blocks' |-> size'[c]]
      BY <1>1 DEF Blocks
    <3> QED
      BY <3>2, <3>3
  <2>3. asked' \in [InUse' -> Requests]
    BY <1>1, <1>3, <1>11 DEF HeapTypes
  <2> QED
    BY <1>1, <1>3, <1>11, <2>1, <2>2, <2>3 DEF HeapTypes
<1>19. BlocksTile'
  <2>1. Blocks' = Free' \cup InUse' /\ Free' \cap InUse' = {}
    <3> HIDE DEF gone, m
    <3>1. \A c \in gone : c \notin InUse \ {b}
      BY <1>6, <1>8, <1>13, <1>5
    <3> QED
      BY <1>2, <1>6, <1>11, <3>1
  <2>2. Base \in Free' /\ size'[Base] = 0
    BY <1>6, <1>8, <1>9, <1>11, <1>15
  <2>3. First \in Blocks'
    <3>1. above => First # n
      BY <1>8, <1>9 DEF First
    <3>2. below => First # b
      <4>1. below => First <= p /\ size[p] > 0 /\ p + size[p] = b
        BY <1>7, <1>8, <1>10 DEF below
      <4> QED
        BY <1>8, <4>1 DEF First
    <3> HIDE DEF gone, m
    <3> QED
      BY <1>6, <1>11, <1>13, <3>1, <3>2
  <2>4. ASSUME NEW c \in Blocks' \ {Base}
        PROVE  /\ First <= c /\ size'[c] > 0
               /\ c + size'[c] = HeapUnits \/ c + size'[c] \in Blocks'
               /\ \A d \in Blocks' : c < d => c + size'[c] <= d
    <3>1. CASE c = m
      BY <1>6, <1>7, <1>8, <1>10, <1>11, <1>15, <1>16, <3>1
    <3>2. CASE c # m
      BY <1>7, <1>11, <1>15, <1>17, <3>2
    <3> QED
      BY <3>1, <3>2
  <2> QED
    BY <2>1, <2>2, <2>3, <2>4 DEF BlocksTile
<1>20. FreeListInOrder'
  <2> SUFFICES ASSUME NEW f \in Free'
               PROVE  IF f < next'[f] THEN \A q \in Free' : q <= f \/ next'[f] <= q
                      ELSE next'[f] = Base /\ \A q \in Free' : q <= f
    BY DEF FreeListInOrder
  <2>1. \A q \in Free' : /\ q \in Int
                         /\ q <= p \/ (q = b /\ ~ below) \/ (b < q /\ b < n /\ n <= q /\ q \in Free)
                         /\ above => q # n
    BY <1>4, <1>6, <1>8, <1>11
  <2>2. CASE f = m
    <3>0. /\ m \in Int /\ Base < m /\ p <= m /\ m <= b
          /\ \A q \in Free' : /\ q \in Int
                              /\ q <= m \/ (b < q /\ b < n /\ n <= q /\ q \in Free)
      <4>1. /\ Base < p \/ ~ below
            /\ Base < b /\ p < b
        BY <1>4, <1>6, <1>8, <1>10 DEF Base, First
      <4>2. CASE below
        <5> HIDE DEF m
        <5> QED
          BY <1>8, <1>12, <2>1, <4>1, <4>2
      <4>3. CASE ~ below
        <5> HIDE DEF m
        <5> QED
          BY <1>8, <1>12, <2>1, <4>1, <4>3
      <4> QED
        BY <4>2, <4>3
    <3> HIDE DEF m, after, gone
    <3>1. CASE above
      <4>1. next'[f] = next[n] /\ next[n] \in Int /\ b < n
        BY <1>5, <1>6, <1>9, <1>14, <1>12, <2>2, <3>1
      <4>2. ASSUME NEW q \in Free'
            PROVE  q \in Int /\ (q <= m \/ (n < q /\ q \in Free))
        <5>1. q \in Int /\ q # n /\ (q <= m \/ (n <= q /\ q \in Free))
          BY <2>1, <3>0, <3>1
        <5> QED
          BY <1>8, <5>1
      <4>3. CASE n < next[n]
        <5>1. \A q \in Free' : q <= m \/ next[n] <= q
          BY <1>5, <1>8, <4>2, <4>3
        <5> QED
          BY <1>8, <2>2, <3>0, <4>1, <4>3, <5>1
      <4>4. CASE ~ (n < next[n])
        <5>1. \A q \in Free' : q <= m
          BY <1>5, <1>8, <4>2, <4>4
        <5> QED
          BY <1>5, <1>8, <2>2, <3>0, <4>1, <4>4, <5>1 DEF Base
      <4> QED
        BY <4>3, <4>4
    <3>2. CASE ~ above
      <4>1. next'[f] = n
        BY <1>14, <1>12, <2>2, <3>2
      <4> QED
        BY <1>4, <1>8, <2>2, <3>0, <4>1 DEF Base
    <3> QED
      BY <3>1, <3>2
  <2>3. CASE f # m /\ f = p
    <3>1. ~ below /\ next'[f] = b
      BY <1>14, <1>12, <2>3
    <3> HIDE DEF m, after, gone
    <3> QED
      BY <1>4, <1>8, <2>1, <2>3, <3>1
  <2>4. CASE f # m /\ f # p
    <3>1. /\ next'[f] = next[f] /\ f \in Free
      BY <1>14, <2>4
    <3>2. /\ next[f] \in Int /\ f \in Int
          /\ f < next[f] => \A q \in Free : q <= f \/ next[f] <= q
          /\ ~ (f < next[f]) => next[f] = Base /\ \A q \in Free : q <= f
      BY <1>3, <3>1, NextInOrder
    <3>3. f < p \/ b < f
      <4>1. f <= p \/ b < f
        BY <1>4, <3>1
      <4>2. f # p
        BY <2>4
      <4> QED
        BY <1>8, <3>2, <4>1, <4>2
    <3>4. \A q \in Free' : q \in Free \/ q = b
      BY <1>11
    <3> HIDE DEF m, after, gone
    <3>5. CASE f < next[f]
      <4>1. b <= f \/ next[f] <= b
        BY <1>2, <1>4, <1>8, <3>2, <3>3, <3>5
      <4> QED
        BY <3>1, <3>2, <3>4, <3>5, <4>1
    <3>6. CASE ~ (f < next[f])
      <4>1. b <= f
        BY <1>2, <1>4, <1>8, <3>2, <3>3, <3>6
      <4> QED
        BY <3>1, <3>2, <3>4, <3>6, <4>1
    <3> QED
      BY <3>5, <3>6
  <2> QED
    BY <2>2, <2>3, <2>4
<1>21. NeighboursJoined'
  <2>1. end \notin Free'
    <3>1. CASE above
      <4>1. end \notin Free
        BY <1>3, <1>5, <1>9, <3>1 DEF NeighboursJoined
      <4> QED
        BY <1>8, <1>11, <1>15, <4>1
    <3>2. CASE ~ above
      <4>1. end \notin Free
        <5>1. end = b + size[b] /\ end # n /\ b < end
          BY <1>15, <1>12, <3>2 DEF above
        <5>2. b < n => end <= n
          BY <1>7, <1>8, <5>1
        <5> HIDE DEF end, m, after, gone
        <5> QED
          BY <1>4, <1>8, <1>15, <5>1, <5>2
      <4> QED
        BY <1>8, <1>11, <1>15, <4>1
    <3> QED
      BY <3>1, <3>2
  <2>2. ASSUME NEW f \in Free' \ {Base, m}
        PROVE  f + size[f] \notin Free'
    <3>1. f \in Free /\ f + size[f] \notin Free
      BY <1>3, <1>11, <2>2 DEF NeighboursJoined
    <3>2. f + size[f] # b \/ below
      <4>1. f <= p \/ b < f
        BY <1>4, <3>1
      <4>2. f < p => f + size[f] <= p
        BY <1>6, <1>7, <1>8, <2>2, <3>1
      <4>3. f \in Int /\ size[f] > 0 /\ size[f] \in Int
        BY <1>6, <1>7, <2>2, <3>1
      <4>4. f = p => f + size[f] # b \/ below
        BY DEF below
      <4> HIDE DEF m, gone, after
      <4>5. CASE f = p
        BY <4>4, <4>5
      <4>6. CASE f < p
        BY <1>4, <1>8, <4>2, <4>3, <4>6
      <4>7. CASE b < f
        BY <1>8, <4>3, <4>7
      <4> QED
        BY <1>8, <4>1, <4>3, <4>5, <4>6, <4>7
    <3> QED
      BY <1>11, <3>1, <3>2
  <2>3. \A f \in Free' \ {m} : size'[f] = size[f]
    BY <1>6, <1>8, <1>11, <1>15
  <2> QED
    BY <1>15, <2>1, <2>2, <2>3 DEF NeighboursJoined
<1>22. LargeEnough'
  <2>1. \A c \in InUse' : c \in Blocks' /\ c # m /\ c \in InUse /\ asked'[c] = asked[c]
    BY <1>1, <1>2, <1>5, <1>6, <1>11
  <2> QED
    BY <1>3, <1>15, <2>1 DEF LargeEnough
<1> QED
  BY <1>1, <1>18, <1>19, <1>20, <1>21, <1>22
     DEF HeapInv, HeapTypeOK, HeapTypes, PassedTooSmall, NoScan

LEMMA HeapKept ==
    ASSUME HeapAssumption, HeapInv, [HeapNext]_heapVars
    PROVE  HeapInv'
<1>0. MemoryInv /\ ScanOK /\ PassedTooSmall
  BY HeapInvParts
<1>1. ASSUME UNCHANGED <<size, next, freep, asked>>
      PROVE  MemoryInv' /\ Free' = Free /\ InUse' = InUse
  BY <1>0, <1>1 DEF MemoryInv, HeapTypes, BlocksTile, FreeListInOrder, NeighboursJoined,
                    LargeEnough, Blocks, Free, InUse
<1>2. ASSUME UNCHANGED <<size, next, freep, asked>>, ScanOK', PassedTooSmall'
      PROVE  HeapInv'
  BY <1>1, <1>2 DEF HeapInv, HeapTypeOK, MemoryInv, HeapTypes, ScanOK
<1>3. ASSUME NEW bytes \in Requests, Alloc(bytes)
      PROVE  HeapInv'
  <2>1. /\ scan' = [op |-> "alloc", bytes |-> bytes, units |-> Units(bytes),
                    prev |-> freep, at |-> next[freep]]
        /\ UNCHANGED <<size, next, freep, asked>>
    BY <1>3 DEF Alloc
  <2>2. freep \in Free /\ next[freep] \in Free /\ Units(bytes) \in Nat /\ freep \in Int
    BY <1>0, UnitsHold DEF MemoryInv, HeapTypes, BlocksTile, Base
  <2>3. ScanOK'
    BY <2>1, <2>2 DEF ScanOK, Free, InUse, Units
  <2>4. PassedTooSmall'
    <3>1. \A q \in Free : q \in Int
      BY <1>0 DEF MemoryInv, HeapTypes, BlocksTile
    <3> QED
      BY <2>1, <2>2, <3>1 DEF PassedTooSmall, Passed, Free
  <2> QED
    BY <1>2, <2>1, <2>3, <2>4
<1>4. ASSUME NEW b \in InUse, FreeBlock(b)
      PROVE  HeapInv'
  <2>1. /\ scan' = [op |-> "free", block |-> b, at |-> freep]
        /\ UNCHANGED <<size, next, freep, asked>> /\ freep \in Free
    BY <1>0, <1>4 DEF FreeBlock, MemoryInv, HeapTypes
  <2>2. ScanOK' /\ PassedTooSmall'
    BY <2>1 DEF ScanOK, PassedTooSmall, Free, InUse
  <2> QED
    BY <1>2, <2>1, <2>2
<1>5. CASE FreeNext
  <2>1. /\ scan.op = "free" /\ scan' = [scan EXCEPT !.at = next[scan.at]]
        /\ UNCHANGED <<size, next, freep, asked>>
    BY <1>5 DEF FreeNext
  <2>2. /\ scan \in [op : {"free"}, block : InUse, at : Free] /\ next[scan.at] \in Free
    BY <1>0, <2>1, FreeHolds DEF MemoryInv, HeapTypes
  <2>3. ScanOK' /\ PassedTooSmall'
    BY <2>1, <2>2 DEF ScanOK, PassedTooSmall, Free, InUse
  <2> QED
    BY <1>2, <2>1, <2>3
<1>6. CASE AllocFails
  <2>1. scan' = NoScan /\ UNCHANGED <<size, next, freep, asked>>
    BY <1>6 DEF AllocFails
  <2>2. ScanOK' /\ PassedTooSmall'
    BY <2>1 DEF ScanOK, PassedTooSmall, NoScan
  <2> QED
    BY <1>2, <2>1, <2>2
<1>7. CASE UNCHANGED heapVars
  <2>1. UNCHANGED <<size, next, freep, asked>> /\ scan' = scan
    BY <1>7 DEF heapVars
  <2>2. ScanOK' /\ PassedTooSmall'
    BY <1>0, <2>1 DEF ScanOK, PassedTooSmall, Passed, Free, InUse
  <2> QED
    BY <1>2, <2>1, <2>2
<1> QED
  BY <1>3, <1>4, <1>5, <1>6, <1>7, AllocNextKeeps, AllocWholeKeeps, AllocTailKeeps,
     FreeLinkKeeps DEF HeapNext, HeapStep

\* The heap of kernel/memory.c, for every size of the memory and of a header:
\* the blocks tile it, the free list is in order, free memory is joined, and
\* what alloc_memory() returns has room.
THEOREM HeapInvariant == HeapSpec => []HeapInv
<1> USE HeapAssumption
<1>1. HeapInv /\ [HeapNext]_heapVars => HeapInv'
  BY HeapKept
<1> QED
  BY <1>1, HeapBegins, PTL DEF HeapSpec

\* alloc_memory() fails only if no free block is large enough, wherever in the
\* list its search began.
THEOREM HeapFailsOnlyWhenFull == HeapSpec => FailsOnlyWhenFull
<1> USE HeapAssumption
<1>1. HeapInv /\ [HeapNext]_heapVars =>
         [AllocFails => \A q \in Free : size[q] < scan.units]_heapVars
  BY SearchPassesAll
<1> QED
  BY <1>1, HeapInvariant, PTL DEF HeapSpec, FailsOnlyWhenFull

-----------------------------------------------------------------------------
(* The system time: the clock, the RTC that sets it, and its reader. *)

ClockTypes ==
    /\ sec \in 0 .. MaxSec + 2 /\ usec \in 0 .. SecondTicks - 1
    /\ tsync_status \in {"none", "sync"}
    /\ rtc \in Nat /\ last_rtc \in Nat
    /\ rtc >= SecondTicks /\ rtc <= (MaxSec + 2) * SecondTicks

\* The RTC is watched for the end of the second that was seen when it was asked
\* for, and what was set by it counts with it.
ClockInv ==
    /\ ClockTypes
    /\ tsync_status = "sync" /\ last_rtc # 0 => last_rtc = RtcSec
    /\ FixedByTheRtc

Loads == {"usec", "usec2", "again", "last"}

\* The second that was read is not ahead of the time, and began less than a
\* second before the reading or later.
ReadingInv ==
    /\ reading \in Loads \cup {"idle", "done"}
    /\ r_sec \in Nat /\ r_usec \in Nat /\ began \in Nat
    /\ reading \in Loads /\ ~ jumped =>
           r_sec <= sec /\ began < r_sec * SecondTicks + SecondTicks /\ began <= Now
    /\ ReadsAreClose

LEMMA DatetimeBegins == DatetimeInit => ClockInv /\ ReadingInv
<1> SUFFICES ASSUME DatetimeInit PROVE ClockInv /\ ReadingInv
  OBVIOUS
<1> USE DatetimeAssumption DEF DatetimeAssumption
<1>1. 2 * SecondTicks <= (MaxSec + 2) * SecondTicks
  <2>1. (MaxSec + 2) * SecondTicks = MaxSec * SecondTicks + 2 * SecondTicks
    OBVIOUS
  <2>2. MaxSec * SecondTicks \in Nat
    OBVIOUS
  <2> QED
    BY <2>1, <2>2
<1>2. ClockInv
  BY <1>1 DEF DatetimeInit, ClockInv, ClockTypes, FixedByTheRtc
<1>3. ReadingInv
  BY DEF DatetimeInit, ReadingInv, ReadsAreClose, Loads
<1> QED
  BY <1>2, <1>3

\* The second of a counter that goes on by one is the same, or the next one has
\* just begun.
LEMMA SecondsGoOn ==
    ASSUME NEW n \in Nat, NEW d \in Nat \ {0}
    PROVE  \/ (n + 1) \div d = n \div d
           \/ n + 1 = d * ((n + 1) \div d)
<1> DEFINE q == n \div d
           p == (n + 1) \div d
<1>1. q \in Nat /\ d * q <= n /\ n < d * q + d
  BY Division
<1>2. p \in Nat /\ d * p <= n + 1 /\ n + 1 < d * p + d
  BY Division
<1> HIDE DEF p, q
<1>3. CASE p = q
  BY <1>3 DEF p, q
<1>4. CASE p < q
  <2>1. p + 1 <= q
    BY <1>1, <1>2, <1>4
  <2>2. d * (p + 1) <= d * q /\ d * (p + 1) = d * p + d
    BY <1>1, <1>2, <2>1
  <2> QED
    BY <1>1, <1>2, <2>2
<1>5. CASE q < p
  <2>1. q + 1 <= p
    BY <1>1, <1>2, <1>5
  <2>2. d * (q + 1) <= d * p /\ d * (q + 1) = d * q + d /\ d * p \in Nat /\ d * q \in Nat
    BY <1>1, <1>2, <2>1
  <2>3. n + 1 = d * p
    BY <1>1, <1>2, <2>2
  <2> QED
    BY <2>3 DEF p
<1> QED
  BY <1>1, <1>2, <1>3, <1>4, <1>5

LEMMA ClockKept ==
    ASSUME ClockInv, [DatetimeNext]_datetimeVars
    PROVE  ClockInv'
<1> USE DatetimeAssumption DEF DatetimeAssumption
<1>1. CASE TimeCountProc
  <2> DEFINE due == tsync_status = "sync" /\ SyncIsDue(RtcSec')
             wraps == usec + 1 = SecondTicks
  <2>1. /\ rtc' = rtc + 1 /\ sec < MaxSec /\ rtc < (MaxSec + 2) * SecondTicks
        /\ sec' = IF due THEN RtcSec' ELSE IF wraps THEN sec + 1 ELSE sec
        /\ usec' = IF due \/ wraps THEN 0 ELSE usec + 1
        /\ tsync_status' = IF due THEN "none" ELSE tsync_status
        /\ last_rtc' = IF tsync_status = "sync" /\ last_rtc = 0 THEN RtcSec' ELSE last_rtc
        /\ fixed' = (fixed \/ due)
    BY <1>1 DEF TimeCountProc
  <2>2. ClockTypes
    BY DEF ClockInv
  <2>3. /\ RtcSec \in Nat /\ SecondTicks * RtcSec <= rtc /\ rtc < SecondTicks * RtcSec + SecondTicks
    BY <2>2, Division DEF ClockTypes, RtcSec
  <2>4. /\ RtcSec' \in Nat /\ SecondTicks * RtcSec' <= rtc'
        /\ rtc' < SecondTicks * RtcSec' + SecondTicks
    BY <2>1, <2>2, Division DEF ClockTypes, RtcSec
  <2>5. RtcSec' = RtcSec \/ rtc' = SecondTicks * RtcSec'
    BY <2>1, <2>2, SecondsGoOn DEF ClockTypes, RtcSec
  <2>6. rtc' \in Nat /\ rtc' >= SecondTicks /\ rtc' <= (MaxSec + 2) * SecondTicks
    <3>1. (MaxSec + 2) * SecondTicks \in Nat
      OBVIOUS
    <3> QED
      BY <2>1, <2>2, <3>1 DEF ClockTypes
  <2>7. RtcSec' <= MaxSec + 2 /\ RtcSec' # 0
    <3> DEFINE q == RtcSec'
    <3> HIDE DEF q
    <3>1. q \in Nat /\ SecondTicks * q <= rtc' /\ rtc' < SecondTicks * q + SecondTicks
      BY <2>4 DEF q
    <3>2. q # 0
      BY <2>6, <3>1
    <3>3. ASSUME q > MaxSec + 2 PROVE FALSE
      <4>1. SecondTicks * (MaxSec + 3) <= SecondTicks * q
        BY <3>1, <3>3
      <4>2. SecondTicks * (MaxSec + 3) = (MaxSec + 2) * SecondTicks + SecondTicks
        OBVIOUS
      <4> QED
        BY <2>6, <3>1, <4>1, <4>2
    <3> QED
      BY <3>1, <3>2, <3>3 DEF q
  <2> HIDE DEF due, wraps
  <2>8. ClockTypes'
    <3>1. sec' \in 0 .. MaxSec + 2
      BY <2>1, <2>2, <2>4, <2>7 DEF ClockTypes
    <3>2. usec' \in 0 .. SecondTicks - 1
      BY <2>1, <2>2 DEF ClockTypes, wraps
    <3> QED
      BY <2>1, <2>2, <2>4, <2>6, <3>1, <3>2 DEF ClockTypes
  <2>9. tsync_status' = "sync" /\ last_rtc' # 0 => last_rtc' = RtcSec'
    BY <2>1, <2>2 DEF ClockInv, due, SyncIsDue
  <2>10. FixedByTheRtc'
    <3>1. CASE due
      <4>1. rtc' = SecondTicks * RtcSec'
        BY <2>2, <2>5, <3>1 DEF ClockInv, due, SyncIsDue
      <4>2. sec' = RtcSec' /\ usec' = 0
        BY <2>1, <3>1
      <4> QED
        BY <2>4, <4>1, <4>2 DEF FixedByTheRtc, Now
    <3>2. CASE ~ due
      <4>1. fixed' => Now = rtc
        BY <2>1, <3>2 DEF ClockInv, FixedByTheRtc
      <4>2. Now' = Now + 1
        BY <2>1, <2>2, <3>2 DEF Now, ClockTypes, wraps
      <4> QED
        BY <2>1, <4>1, <4>2 DEF FixedByTheRtc
    <3> QED
      BY <3>1, <3>2
  <2> QED
    BY <2>8, <2>9, <2>10 DEF ClockInv
<1>2. CASE SyncTime
  BY <1>2 DEF SyncTime, ClockInv, ClockTypes, FixedByTheRtc, Now, RtcSec
<1>3. ASSUME UNCHANGED <<sec, usec, rtc, tsync_status, last_rtc, fixed>>
      PROVE  ClockInv'
  BY <1>3 DEF ClockInv, ClockTypes, FixedByTheRtc, Now, RtcSec
<1> QED
  BY <1>1, <1>2, <1>3
     DEF DatetimeNext, ReadSec, ReadUsec, ReadUsec2, ReadSecAgain, ReadUsecLast, ReadReturns,
         datetimeVars

LEMMA ReadingKept ==
    ASSUME ClockInv, ReadingInv, ClockInv', [DatetimeNext]_datetimeVars
    PROVE  ReadingInv'
<1> USE DatetimeAssumption DEF DatetimeAssumption
<1>1. /\ sec \in Nat /\ usec \in Nat /\ usec < SecondTicks /\ sec' \in Nat /\ usec' \in Nat
      /\ usec' < SecondTicks
  BY DEF ClockInv, ClockTypes
<1>2. /\ reading \in Loads \cup {"idle", "done"}
      /\ r_sec \in Nat /\ r_usec \in Nat /\ began \in Nat
      /\ reading \in Loads /\ ~ jumped =>
             r_sec <= sec /\ began < r_sec * SecondTicks + SecondTicks /\ began <= Now
      /\ ReadsAreClose
  BY DEF ReadingInv
<1>3. Now \in Nat /\ Now' \in Nat /\ r_sec * SecondTicks \in Nat
  <2>1. \A n \in Nat : n * SecondTicks \in Nat
    OBVIOUS
  <2>2. \A a, b \in Nat : a + b \in Nat
    OBVIOUS
  <2>3. r_sec * SecondTicks \in Nat
    BY <1>2, <2>1
  <2>4. Now \in Nat
    <3>1. sec * SecondTicks \in Nat
      BY <1>1, <2>1
    <3> QED
      BY <1>1, <2>2, <3>1 DEF Now
  <2>5. Now' \in Nat
    <3>1. sec' * SecondTicks \in Nat
      BY <1>1, <2>1
    <3>2. Now' = sec' * SecondTicks + usec'
      BY DEF Now
    <3>3. usec' \in Nat
      BY <1>1
    <3>4. sec' * SecondTicks + usec' \in Nat
      BY <2>2, <3>1, <3>3
    <3> QED
      BY <3>2, <3>4
  <2> QED
    BY <2>3, <2>4, <2>5
<1>4. ASSUME sec' = sec, usec' = usec PROVE Now' = Now
  BY <1>4 DEF Now
<1>5. CASE TimeCountProc
  <2>1. /\ reading' = reading /\ r_sec' = r_sec /\ r_usec' = r_usec /\ began' = began
        /\ ~ jumped' => ~ jumped /\ sec <= sec' /\ Now' = Now + 1
    <3> DEFINE due == tsync_status = "sync" /\ SyncIsDue(RtcSec')
               wraps == usec + 1 = SecondTicks
    <3> HIDE DEF due
    <3>1. /\ sec' = IF due THEN RtcSec' ELSE IF wraps THEN sec + 1 ELSE sec
          /\ usec' = IF due \/ wraps THEN 0 ELSE usec + 1
          /\ jumped' = (jumped \/ due)
          /\ reading' = reading /\ r_sec' = r_sec /\ r_usec' = r_usec /\ began' = began
      BY <1>5 DEF TimeCountProc, readingVars, due
    <3>2. ~ jumped' => ~ jumped /\ ~ due
      BY <3>1
    <3>3. ~ due => sec <= sec' /\ Now' = Now + 1
      BY <1>1, <3>1 DEF Now
    <3> QED
      BY <3>1, <3>2, <3>3
  <2>2. reading' \in Loads /\ ~ jumped' =>
           r_sec' <= sec' /\ began' < r_sec' * SecondTicks + SecondTicks /\ began' <= Now'
    BY <1>1, <1>2, <1>3, <2>1
  <2>3. ReadsAreClose'
    BY <1>1, <1>2, <1>3, <2>1 DEF ReadsAreClose
  <2> QED
    BY <1>2, <2>1, <2>2, <2>3 DEF ReadingInv
<1>6. CASE ReadSec
  <2>1. r_sec' = sec /\ r_usec' = r_usec /\ began' = Now /\ reading' = "usec" /\ sec' = sec /\ usec' = usec
    BY <1>6 DEF ReadSec
  <2>2. began' < r_sec' * SecondTicks + SecondTicks
    BY <1>1, <2>1 DEF Now
  <2> QED
    BY <1>1, <1>2, <1>3, <1>4, <2>1, <2>2 DEF ReadingInv, ReadsAreClose, Loads
<1>7. CASE ReadUsec \/ ReadUsec2
  <2>1. /\ r_sec' = r_sec /\ r_usec' \in Nat /\ began' = began /\ sec' = sec /\ usec' = usec
        /\ reading \in Loads /\ reading' \in Loads /\ reading' # "done" /\ jumped' = jumped
    BY <1>1, <1>2, <1>7 DEF ReadUsec, ReadUsec2, Loads
  <2> QED
    BY <1>1, <1>2, <1>3, <1>4, <2>1 DEF ReadingInv, ReadsAreClose
<1>8. CASE ReadSecAgain
  <2>1. /\ r_sec' = sec /\ r_usec' = r_usec /\ began' = began /\ sec' = sec /\ usec' = usec
        /\ reading \in Loads /\ reading' = "last" /\ jumped' = jumped
    BY <1>8 DEF ReadSecAgain, Loads
  <2>2. Now < sec * SecondTicks + SecondTicks
    BY <1>1 DEF Now
  <2>3. ~ jumped' => began' < r_sec' * SecondTicks + SecondTicks /\ began' <= Now'
    <3>1. sec * SecondTicks \in Nat
      BY <1>1
    <3> QED
      BY <1>2, <1>3, <1>4, <2>1, <2>2, <3>1
  <2> QED
    BY <1>1, <1>2, <2>1, <2>3 DEF ReadingInv, ReadsAreClose, Loads
<1>9. CASE ReadUsecLast
  <2>1. /\ r_sec' = r_sec /\ r_usec' = usec /\ began' = began /\ sec' = sec /\ usec' = usec
        /\ reading \in Loads /\ reading' = "done" /\ jumped' = jumped
    BY <1>9 DEF ReadUsecLast, Loads
  <2>2. ~ jumped => r_sec * SecondTicks <= sec * SecondTicks
    BY <1>1, <1>2, <2>1
  <2>3. ~ jumped => r_sec * SecondTicks + usec <= Now
    <3>1. sec * SecondTicks \in Nat
      BY <1>1
    <3> QED
      BY <1>1, <1>3, <2>2, <3>1 DEF Now
  <2>4. ReadsAreClose'
    BY <1>1, <1>2, <1>3, <1>4, <2>1, <2>3 DEF ReadsAreClose
  <2> QED
    BY <1>1, <1>2, <2>1, <2>4 DEF ReadingInv, Loads
<1>10. CASE ReadReturns
  BY <1>2, <1>10 DEF ReadReturns, ReadingInv, ReadsAreClose, Loads
<1>11. CASE SyncTime \/ UNCHANGED datetimeVars
  <2>1. UNCHANGED <<sec, usec, reading, r_sec, r_usec, began, jumped>>
    BY <1>11 DEF SyncTime, datetimeVars, readingVars
  <2> QED
    BY <1>2, <2>1 DEF ReadingInv, ReadsAreClose, Now
<1> QED
  BY <1>5, <1>6, <1>7, <1>8, <1>9, <1>10, <1>11 DEF DatetimeNext

-----------------------------------------------------------------------------
(* The calendar: centuries, years and months are numbered from March, as       *)
(* Jd2Greg() does, and each day is the d-th of one month of one of them.       *)

\* A year that ends with February, the y-th of the c-th century.
YearOf(c, y) == y + 100 * c - 4800

IsLeap(c, y) == IF y = 99 THEN (c + 1) % 4 = 0 ELSE (y + 1) % 4 = 0

\* The length of the m-th month of that year, which is March for 0.
LengthOf(c, y, m) ==
    IF m = 11 THEN (IF IsLeap(c, y) THEN 29 ELSE 28) ELSE IF m \in {1, 3, 6, 8} THEN 30 ELSE 31

DateOf(c, y, m, d) ==
    [year |-> YearOf(c, y) + (IF m > 9 THEN 1 ELSE 0),
     month |-> IF m > 9 THEN m - 9 ELSE m + 3, day |-> d]

CenturyStart(c) == (146097 * c) \div 4
YearStart(y) == (1461 * y) \div 4
MonthStart(m) == (153 * m + 2) \div 5

DaysInYear(c, y) == 365 + (IF IsLeap(c, y) THEN 1 ELSE 0)
DaysInCentury(c) == 36524 + (IF (c + 1) % 4 = 0 THEN 1 ELSE 0)

\* A day is the d-th of that month.
Counted(n, c, y, m, d) ==
    /\ c \in Nat /\ y \in 0 .. 99 /\ m \in 0 .. 11
    /\ d \in 1 .. LengthOf(c, y, m)
    /\ n + 2472633 = CenturyStart(c) + YearStart(y) + MonthStart(m) + d

LEMMA LengthsRange ==
    ASSUME NEW c \in Nat, NEW y \in 0 .. 99, NEW m \in 0 .. 11
    PROVE  /\ LengthOf(c, y, m) \in 28 .. 31
           /\ DaysInYear(c, y) \in Nat
           /\ DaysInCentury(c) \in Nat
BY DEF LengthOf, DaysInYear, DaysInCentury

LEMMA StartsAreNat ==
    ASSUME NEW c \in Nat, NEW y \in Nat, NEW m \in Nat
    PROVE  CenturyStart(c) \in Nat /\ YearStart(y) \in Nat /\ MonthStart(m) \in Nat
BY DEF CenturyStart, YearStart, MonthStart

LEMMA CenturyStarts ==
    ASSUME NEW c \in Nat
    PROVE  CenturyStart(c) = 36524 * c + c \div 4
BY DEF CenturyStart

LEMMA CenturyLength ==
    ASSUME NEW c \in Nat
    PROVE  CenturyStart(c + 1) = CenturyStart(c) + DaysInCentury(c)
BY DEF CenturyStart, DaysInCentury

LEMMA CenturiesGrow ==
    ASSUME NEW c \in Nat, NEW k \in Nat, c < k
    PROVE  CenturyStart(c + 1) <= CenturyStart(k)
<1>1. (c + 1) \div 4 <= k \div 4 /\ (c + 1) \div 4 \in Int /\ k \div 4 \in Int
  OBVIOUS
<1>2. /\ CenturyStart(c + 1) = 36524 * (c + 1) + (c + 1) \div 4
      /\ CenturyStart(k) = 36524 * k + k \div 4
  <2>1. CenturyStart(c + 1) = 36524 * (c + 1) + (c + 1) \div 4
    BY CenturyStarts, c + 1 \in Nat
  <2>2. CenturyStart(k) = 36524 * k + k \div 4
    BY CenturyStarts
  <2> QED
    BY <2>1, <2>2
<1> QED
  BY <1>1, <1>2

LEMMA YearStarts ==
    ASSUME NEW y \in Nat
    PROVE  YearStart(y) = 365 * y + y \div 4
BY DEF YearStart

\* The years of a century follow each other, and the last one ends it.
LEMMA YearLength ==
    ASSUME NEW c \in Nat, NEW y \in 0 .. 99
    PROVE  /\ y < 99 => YearStart(y + 1) = YearStart(y) + DaysInYear(c, y)
           /\ y = 99 => YearStart(y) + DaysInYear(c, y) = DaysInCentury(c)
           /\ YearStart(y) + DaysInYear(c, y) <= DaysInCentury(c)
<1>1. y < 99 => YearStart(y + 1) = YearStart(y) + DaysInYear(c, y)
  BY DEF YearStart, DaysInYear, IsLeap
<1>2. y = 99 => YearStart(y) + DaysInYear(c, y) = DaysInCentury(c)
  BY DEF YearStart, DaysInYear, DaysInCentury, IsLeap
<1>3. y < 99 => YearStart(y) + DaysInYear(c, y) <= DaysInCentury(c)
  BY DEF YearStart, DaysInYear, DaysInCentury, IsLeap
<1>4. DaysInCentury(c) \in Int
  BY DEF DaysInCentury
<1> QED
  BY <1>1, <1>2, <1>3, <1>4

LEMMA YearsGrow ==
    ASSUME NEW y \in Nat, NEW k \in Nat, y < k
    PROVE  YearStart(y + 1) <= YearStart(k)
<1>1. (y + 1) \div 4 <= k \div 4 /\ (y + 1) \div 4 \in Int /\ k \div 4 \in Int
  OBVIOUS
<1>2. /\ YearStart(y + 1) = 365 * (y + 1) + (y + 1) \div 4
      /\ YearStart(k) = 365 * k + k \div 4
  BY YearStarts, y + 1 \in Nat
<1> QED
  BY <1>1, <1>2

LEMMA MonthStarts ==
    /\ MonthStart(0) = 0 /\ MonthStart(1) = 31 /\ MonthStart(2) = 61 /\ MonthStart(3) = 92
    /\ MonthStart(4) = 122 /\ MonthStart(5) = 153 /\ MonthStart(6) = 184 /\ MonthStart(7) = 214
    /\ MonthStart(8) = 245 /\ MonthStart(9) = 275 /\ MonthStart(10) = 306 /\ MonthStart(11) = 337
BY DEF MonthStart

\* The months of a year follow each other, and the last one ends it.
LEMMA MonthsFollow ==
    ASSUME NEW c \in Nat, NEW y \in 0 .. 99, NEW m \in 0 .. 11
    PROVE  /\ m < 11 => MonthStart(m + 1) = MonthStart(m) + LengthOf(c, y, m)
           /\ m = 11 => MonthStart(m) + LengthOf(c, y, m) = DaysInYear(c, y)
           /\ MonthStart(m) + LengthOf(c, y, m) <= DaysInYear(c, y)
<1>1. m = 0 \/ m = 1 \/ m = 2 \/ m = 3 \/ m = 4 \/ m = 5 \/ m = 6 \/ m = 7 \/ m = 8
      \/ m = 9 \/ m = 10 \/ m = 11
  OBVIOUS
<1> QED
  BY <1>1, MonthStarts DEF LengthOf, DaysInYear

LEMMA MonthsGrow ==
    ASSUME NEW m \in 0 .. 11, NEW k \in 0 .. 11, m < k
    PROVE  MonthStart(m + 1) <= MonthStart(k)
BY DEF MonthStart

Before(c, y, m, d, c2, y2, m2, d2) ==
    c < c2 \/ (c = c2 /\ (y < y2 \/ (y = y2 /\ (m < m2 \/ (m = m2 /\ d < d2)))))

\* A day that is counted later comes later.
LEMMA CountedInOrder ==
    ASSUME NEW n \in Nat, NEW c, NEW y, NEW m, NEW d, Counted(n, c, y, m, d),
           NEW n2 \in Nat, NEW c2, NEW y2, NEW m2, NEW d2, Counted(n2, c2, y2, m2, d2),
           Before(c, y, m, d, c2, y2, m2, d2)
    PROVE  n < n2
<1>a. /\ c \in Nat /\ y \in 0 .. 99 /\ m \in 0 .. 11 /\ d \in 1 .. LengthOf(c, y, m)
      /\ c2 \in Nat /\ y2 \in 0 .. 99 /\ m2 \in 0 .. 11 /\ d2 \in 1 .. LengthOf(c2, y2, m2)
  BY DEF Counted
<1>b. /\ LengthOf(c2, y2, m2) \in 28 .. 31
      /\ DaysInYear(c2, y2) \in Nat
      /\ DaysInCentury(c2) \in Nat
  BY <1>a, LengthsRange, Zenon
<1>1. /\ LengthOf(c, y, m) \in 28 .. 31
      /\ DaysInYear(c, y) \in Nat
      /\ DaysInCentury(c) \in Nat
  BY <1>a, LengthsRange, Zenon
<1>2. /\ y \in Nat /\ y2 \in Nat /\ m \in Nat /\ m2 \in Nat /\ d \in Int /\ d2 \in Int
      /\ 1 <= d2 /\ c \in Nat /\ c2 \in Nat
  BY <1>a, <1>b, <1>1
<1>3. CenturyStart(c) \in Nat /\ YearStart(y) \in Nat /\ MonthStart(m) \in Nat
  BY <1>2, StartsAreNat, Zenon
<1>4. CenturyStart(c2) \in Nat /\ YearStart(y2) \in Nat /\ MonthStart(m2) \in Nat
  BY <1>2, StartsAreNat, Zenon
<1>5. d <= LengthOf(c, y, m) /\ n + 2472633 = CenturyStart(c) + YearStart(y) + MonthStart(m) + d
  BY <1>1, <1>2 DEF Counted
<1>6. n2 + 2472633 = CenturyStart(c2) + YearStart(y2) + MonthStart(m2) + d2
  BY DEF Counted
<1>7. /\ m < 11 => MonthStart(m + 1) = MonthStart(m) + LengthOf(c, y, m)
      /\ m = 11 => MonthStart(m) + LengthOf(c, y, m) = DaysInYear(c, y)
      /\ MonthStart(m) + LengthOf(c, y, m) <= DaysInYear(c, y)
  BY <1>a, MonthsFollow, Zenon
<1>8. /\ y < 99 => YearStart(y + 1) = YearStart(y) + DaysInYear(c, y)
      /\ y = 99 => YearStart(y) + DaysInYear(c, y) = DaysInCentury(c)
      /\ YearStart(y) + DaysInYear(c, y) <= DaysInCentury(c)
  BY <1>a, YearLength, Zenon
<1>9. CASE c < c2
  <2>1. CenturyStart(c + 1) <= CenturyStart(c2)
    BY <1>2, <1>9, CenturiesGrow, Zenon
  <2>2. CenturyStart(c + 1) = CenturyStart(c) + DaysInCentury(c)
    BY <1>2, CenturyLength, Zenon
  <2> QED
    BY <1>1, <1>2, <1>3, <1>4, <1>5, <1>6, <1>7, <1>8, <2>1, <2>2
<1>10. CASE c = c2 /\ y < y2
  <2>1. YearStart(y + 1) <= YearStart(y2)
    BY <1>2, <1>10, YearsGrow, Zenon
  <2>2. y < 99
    BY <1>a, <1>10
  <2> QED
    BY <1>1, <1>2, <1>3, <1>4, <1>5, <1>6, <1>7, <1>8, <1>10, <2>1, <2>2
<1>11. CASE c = c2 /\ y = y2 /\ m < m2
  <2>1. MonthStart(m + 1) <= MonthStart(m2)
    BY <1>a, <1>11, MonthsGrow, Zenon
  <2>2. m < 11
    BY <1>a, <1>11
  <2> QED
    BY <1>1, <1>2, <1>3, <1>4, <1>5, <1>6, <1>7, <1>11, <2>1, <2>2
<1>12. CASE c = c2 /\ y = y2 /\ m = m2 /\ d < d2
  BY <1>2, <1>3, <1>5, <1>6, <1>12
<1> QED
  BY <1>9, <1>10, <1>11, <1>12 DEF Before

\* Every day is counted once.
LEMMA CountedOnce ==
    ASSUME NEW n \in Nat, NEW c, NEW y, NEW m, NEW d, Counted(n, c, y, m, d),
           NEW c2, NEW y2, NEW m2, NEW d2, Counted(n, c2, y2, m2, d2)
    PROVE  DateOf(c, y, m, d) = DateOf(c2, y2, m2, d2)
<1>1. ~ (n < n)
  OBVIOUS
<1>2. ~ Before(c, y, m, d, c2, y2, m2, d2)
  BY <1>1, CountedInOrder, Zenon
<1>3. ~ Before(c2, y2, m2, d2, c, y, m, d)
  BY <1>1, CountedInOrder, Zenon
<1>a. /\ c \in Nat /\ y \in 0 .. 99 /\ m \in 0 .. 11 /\ d \in 1 .. LengthOf(c, y, m)
      /\ c2 \in Nat /\ y2 \in 0 .. 99 /\ m2 \in 0 .. 11 /\ d2 \in 1 .. LengthOf(c2, y2, m2)
  BY DEF Counted
<1>b. /\ LengthOf(c, y, m) \in 28 .. 31
      /\ DaysInYear(c, y) \in Nat
      /\ DaysInCentury(c) \in Nat
  BY <1>a, LengthsRange, Zenon
<1>c. /\ LengthOf(c2, y2, m2) \in 28 .. 31
      /\ DaysInYear(c2, y2) \in Nat
      /\ DaysInCentury(c2) \in Nat
  BY <1>a, LengthsRange, Zenon
<1>d. d \in Int /\ d2 \in Int
  BY <1>a, <1>b, <1>c
<1>4. c = c2 /\ y = y2 /\ m = m2 /\ d = d2
  BY <1>a, <1>d, <1>2, <1>3 DEF Before
<1> QED
  BY <1>4, Zenon

InCentury(j, c) == 146097 * c <= 4 * j - 1 /\ 4 * j - 1 < 146097 * c + 146097
InYear(k, y) == 1461 * y <= 4 * k - 1 /\ 4 * k - 1 < 1461 * y + 1461
InMonth(r, m) == 153 * m <= 5 * r - 3 /\ 5 * r - 3 < 153 * m + 153

LEMMA CenturyFound ==
    ASSUME NEW j \in Nat, 1 <= j, NEW c \in Nat, InCentury(j, c)
    PROVE  CenturyStart(c) < j /\ j - CenturyStart(c) <= DaysInCentury(c)
BY DEF CenturyStart, DaysInCentury, InCentury

LEMMA YearFound ==
    ASSUME NEW c \in Nat, NEW k \in Nat, 1 <= k, k <= DaysInCentury(c),
           NEW y \in Nat, InYear(k, y)
    PROVE  y \in 0 .. 99 /\ YearStart(y) < k /\ k - YearStart(y) <= DaysInYear(c, y)
<1>1. k <= 36524 + (IF (c + 1) % 4 = 0 THEN 1 ELSE 0)
  BY DEF DaysInCentury
<1>2. y \in 0 .. 99
  BY <1>1 DEF InYear
<1>3. YearStart(y) < k /\ k - YearStart(y) <= 365 + (IF (y + 1) % 4 = 0 THEN 1 ELSE 0)
  BY DEF YearStart, InYear
<1>4. y = 99 => YearStart(y) = 36159
  BY DEF YearStart
<1> QED
  BY <1>1, <1>2, <1>3, <1>4 DEF IsLeap, DaysInYear

LEMMA MonthFound ==
    ASSUME NEW c \in Nat, NEW y \in 0 .. 99, NEW r \in Nat, 1 <= r, r <= DaysInYear(c, y),
           NEW m \in Nat, InMonth(r, m)
    PROVE  m \in 0 .. 11 /\ r - MonthStart(m) \in 1 .. LengthOf(c, y, m)
<1>1. r <= 365 + (IF IsLeap(c, y) THEN 1 ELSE 0) /\ r <= 366
  BY DEF DaysInYear
<1>2. m \in 0 .. 11
  BY <1>1 DEF InMonth
<1>3. m = 0 \/ m = 1 \/ m = 2 \/ m = 3 \/ m = 4 \/ m = 5 \/ m = 6 \/ m = 7 \/ m = 8
      \/ m = 9 \/ m = 10 \/ m = 11
  BY <1>2
<1>4. CASE m # 11
  BY <1>2, <1>3, <1>4, MonthStarts DEF LengthOf, InMonth
<1>5. CASE m = 11
  BY <1>1, <1>5, MonthStarts DEF LengthOf, InMonth
<1> QED
  BY <1>2, <1>4, <1>5

\* Jd2Greg() counts the day.
LEMMA DateIsCounted ==
    ASSUME NEW n \in Nat
    PROVE  \E c \in Nat, y \in 0 .. 99, m \in 0 .. 11, d \in 1 .. 31 :
               Counted(n, c, y, m, d) /\ UnixtimeToDate(n) = DateOf(c, y, m, d)
<1>1. PICK j \in Nat : j = n + 2440588 + 32045
  OBVIOUS
<1>2. 1 <= j /\ 4 * j - 1 \in Nat /\ j = n + 2472633
  BY <1>1
<1>3. PICK c \in Nat : c = (4 * j - 1) \div 146097
  BY <1>2, SMT
<1>a. InCentury(j, c)
  BY <1>2, <1>3, SMT DEF InCentury
<1>4. CenturyStart(c) < j /\ j - CenturyStart(c) <= DaysInCentury(c)
  <2>1. 1 <= j
    BY <1>2
  <2> QED
    BY <1>a, <2>1, CenturyFound, Zenon
<1>5. CenturyStart(c) \in Nat /\ YearStart(c) \in Nat /\ MonthStart(c) \in Nat
  BY StartsAreNat, Zenon
<1>6. PICK k \in Nat : k = j - CenturyStart(c)
  BY <1>2, <1>4, <1>5
<1>7. 1 <= k /\ k <= DaysInCentury(c) /\ 4 * k - 1 \in Nat /\ j = CenturyStart(c) + k
  BY <1>2, <1>4, <1>5, <1>6
<1>8. PICK y \in Nat : y = (4 * k - 1) \div 1461
  BY <1>7, SMT
<1>b. InYear(k, y)
  BY <1>7, <1>8, SMT DEF InYear
<1>9. y \in 0 .. 99 /\ YearStart(y) < k /\ k - YearStart(y) <= DaysInYear(c, y)
  BY <1>7, <1>b, YearFound, Zenon
<1>10. CenturyStart(y) \in Nat /\ YearStart(y) \in Nat /\ MonthStart(y) \in Nat
  BY StartsAreNat, Zenon
<1>11. PICK r \in Nat : r = k - YearStart(y)
  BY <1>7, <1>9, <1>10
<1>12. 1 <= r /\ r <= DaysInYear(c, y) /\ 5 * r - 3 \in Nat /\ k = YearStart(y) + r
  BY <1>7, <1>9, <1>10, <1>11
<1>13. PICK m \in Nat : m = (5 * r - 3) \div 153
  BY <1>12, SMT
<1>c. InMonth(r, m)
  BY <1>12, <1>13, SMT DEF InMonth
<1>14. m \in 0 .. 11 /\ r - MonthStart(m) \in 1 .. LengthOf(c, y, m)
  BY <1>9, <1>12, <1>c, MonthFound, Zenon
<1>15. CenturyStart(m) \in Nat /\ YearStart(m) \in Nat /\ MonthStart(m) \in Nat
  BY StartsAreNat, Zenon
<1>16. /\ LengthOf(c, y, m) \in 28 .. 31
       /\ DaysInYear(c, y) \in Nat
       /\ DaysInCentury(c) \in Nat
  BY <1>9, <1>14, LengthsRange, Zenon
<1>17. PICK d \in 1 .. LengthOf(c, y, m) : d = r - MonthStart(m)
  BY <1>14, Zenon
<1>18. d \in 1 .. 31 /\ r = MonthStart(m) + d
  BY <1>11, <1>15, <1>16, <1>17
<1>19. Counted(n, c, y, m, d)
  <2>1. n + 2472633 = CenturyStart(c) + YearStart(y) + MonthStart(m) + d
    BY <1>2, <1>5, <1>7, <1>10, <1>12, <1>15, <1>18
  <2> QED
    BY <1>9, <1>14, <2>1 DEF Counted
<1>20. UnixtimeToDate(n) = DateOf(c, y, m, d)
  <2>1. (m + 3 > 12 <=> m > 9) /\ m + 3 - 12 = m - 9 /\ 153 * (m + 3) - 457 = 153 * m + 2
    OBVIOUS
  <2>2. Jd2Greg(n + 2440588) =
          [year |-> y + 100 * c - 4800 + (IF m + 3 > 12 THEN 1 ELSE 0),
           month |-> IF m + 3 > 12 THEN m + 3 - 12 ELSE m + 3,
           day |-> r - (153 * (m + 3) - 457) \div 5]
    BY <1>1, <1>3, <1>6, <1>8, <1>11, <1>13, SMT DEF Jd2Greg, CenturyStart, YearStart
  <2>3. r - (153 * (m + 3) - 457) \div 5 = d
    BY <1>17, <2>1 DEF MonthStart
  <2>4. Jd2Greg(n + 2440588) =
          [year |-> y + 100 * c - 4800 + (IF m > 9 THEN 1 ELSE 0),
           month |-> IF m > 9 THEN m - 9 ELSE m + 3, day |-> d]
    BY <2>1, <2>2, <2>3
  <2> QED
    BY <2>4, SMT DEF DateOf, YearOf, UnixtimeToDate
<1> QED
  BY <1>9, <1>14, <1>18, <1>19, <1>20, Zenon

LEMMA DateOfCounted ==
    ASSUME NEW n \in Nat, NEW c, NEW y, NEW m, NEW d, Counted(n, c, y, m, d)
    PROVE  UnixtimeToDate(n) = DateOf(c, y, m, d)
<1>1. PICK c3 \in Nat, y3 \in 0 .. 99, m3 \in 0 .. 11, d3 \in 1 .. 31 :
          Counted(n, c3, y3, m3, d3) /\ UnixtimeToDate(n) = DateOf(c3, y3, m3, d3)
  BY DateIsCounted, Zenon
<1>2. Counted(n, c3, y3, m3, d3)
  BY <1>1, Zenon
<1>3. DateOf(c3, y3, m3, d3) = DateOf(c, y, m, d)
  BY <1>2, CountedOnce, SMT
<1> QED
  BY <1>1, <1>3, Zenon

LEMMA LeapYears ==
    ASSUME NEW c \in Nat, NEW y \in 0 .. 99
    PROVE  LET year == YearOf(c, y) + 1
           IN  IsLeap(c, y) <=> (year % 4 = 0 /\ year % 100 # 0) \/ year % 400 = 0
<1> DEFINE year == y + 100 * c - 4800 + 1
<1>1. year % 4 = (y + 1) % 4
  OBVIOUS
<1>2. year % 100 = IF y = 99 THEN 0 ELSE y + 1
  OBVIOUS
<1>3. year % 400 = 0 <=> y = 99 /\ (c + 1) % 4 = 0
  OBVIOUS
<1> HIDE DEF year
<1>4. IsLeap(c, y) <=> (year % 4 = 0 /\ year % 100 # 0) \/ year % 400 = 0
  BY <1>1, <1>2, <1>3 DEF IsLeap
<1> QED
  BY <1>4 DEF year, YearOf

LEMMA LengthsAgree ==
    ASSUME NEW c \in Nat, NEW y \in 0 .. 99, NEW m \in 0 .. 11, NEW d
    PROVE  LengthOfMonth(DateOf(c, y, m, d).year, DateOf(c, y, m, d).month) = LengthOf(c, y, m)
<1>1. CASE m = 11
  <2>1. DateOf(c, y, m, d).year = YearOf(c, y) + 1 /\ DateOf(c, y, m, d).month = 2
    BY <1>1 DEF DateOf
  <2> QED
    BY <1>1, <2>1, LeapYears DEF LengthOfMonth, LengthOf
<1>2. CASE m # 11
  <2>1. /\ DateOf(c, y, m, d).month # 2
        /\ DateOf(c, y, m, d).month \in {4, 6, 9, 11} <=> m \in {1, 3, 6, 8}
    BY <1>2 DEF DateOf
  <2> QED
    BY <1>2, <2>1 DEF LengthOfMonth, LengthOf
<1> QED
  BY <1>1, <1>2

LEMMA DayAfterDate ==
    ASSUME NEW Y \in Int, NEW M \in Int, NEW D \in Int
    PROVE  LET date == [year |-> Y, month |-> M, day |-> D] IN
           /\ D < LengthOfMonth(Y, M) => DayAfter(date) = [year |-> Y, month |-> M, day |-> D + 1]
           /\ ~ (D < LengthOfMonth(Y, M)) /\ M < 12
                => DayAfter(date) = [year |-> Y, month |-> M + 1, day |-> 1]
           /\ ~ (D < LengthOfMonth(Y, M)) /\ ~ (M < 12)
                => DayAfter(date) = [year |-> Y + 1, month |-> 1, day |-> 1]
BY DEF DayAfter

\* The day after is the next day of the month, the first of the next month, of the
\* next year or of the next century.
LEMMA NextIsCounted ==
    ASSUME NEW n \in Nat, NEW c \in Nat, NEW y \in 0 .. 99, NEW m \in 0 .. 11, NEW d \in 1 .. 31,
           Counted(n, c, y, m, d)
    PROVE  UnixtimeToDate(n + 1) = DayAfter(DateOf(c, y, m, d))
<1> DEFINE date == DateOf(c, y, m, d)
<1>1. /\ LengthOf(c, y, m) \in 28 .. 31
      /\ DaysInYear(c, y) \in Nat
      /\ DaysInCentury(c) \in Nat
  BY LengthsRange, Zenon
<1>2. y \in Nat /\ m \in Nat
  OBVIOUS
<1>3. CenturyStart(c) \in Nat /\ YearStart(y) \in Nat /\ MonthStart(m) \in Nat
  BY <1>2, StartsAreNat, Zenon
<1>4. d <= LengthOf(c, y, m) /\ n + 2472633 = CenturyStart(c) + YearStart(y) + MonthStart(m) + d
  BY <1>1 DEF Counted
<1>5. /\ m < 11 => MonthStart(m + 1) = MonthStart(m) + LengthOf(c, y, m)
      /\ m = 11 => MonthStart(m) + LengthOf(c, y, m) = DaysInYear(c, y)
      /\ MonthStart(m) + LengthOf(c, y, m) <= DaysInYear(c, y)
  BY MonthsFollow, Zenon
<1>6. /\ y < 99 => YearStart(y + 1) = YearStart(y) + DaysInYear(c, y)
      /\ y = 99 => YearStart(y) + DaysInYear(c, y) = DaysInCentury(c)
      /\ YearStart(y) + DaysInYear(c, y) <= DaysInCentury(c)
  BY YearLength, Zenon
<1>7. LengthOfMonth(date.year, date.month) = LengthOf(c, y, m)
  BY LengthsAgree, Zenon
<1>8. /\ date.day = d /\ date.month = (IF m > 9 THEN m - 9 ELSE m + 3)
      /\ date.year = y + 100 * c - 4800 + (IF m > 9 THEN 1 ELSE 0)
  BY DEF DateOf, YearOf
<1>9. /\ d < LengthOf(c, y, m)
           => DayAfter(date) = [year |-> date.year, month |-> date.month, day |-> d + 1]
      /\ ~ (d < LengthOf(c, y, m)) /\ date.month < 12
           => DayAfter(date) = [year |-> date.year, month |-> date.month + 1, day |-> 1]
      /\ ~ (d < LengthOf(c, y, m)) /\ ~ (date.month < 12)
           => DayAfter(date) = [year |-> date.year + 1, month |-> 1, day |-> 1]
  <2>1. date = [year |-> date.year, month |-> date.month, day |-> d]
    BY DEF DateOf
  <2>2. date.year \in Int /\ date.month \in Int /\ d \in Int
    BY <1>8
  <2> HIDE DEF date
  <2>3. LET date0 == [year |-> date.year, month |-> date.month, day |-> d] IN
        /\ d < LengthOfMonth(date.year, date.month)
             => DayAfter(date0) = [year |-> date.year, month |-> date.month, day |-> d + 1]
        /\ ~ (d < LengthOfMonth(date.year, date.month)) /\ date.month < 12
             => DayAfter(date0) = [year |-> date.year, month |-> date.month + 1, day |-> 1]
        /\ ~ (d < LengthOfMonth(date.year, date.month)) /\ ~ (date.month < 12)
             => DayAfter(date0) = [year |-> date.year + 1, month |-> 1, day |-> 1]
    BY <2>2, DayAfterDate, Zenon
  <2> QED
    BY <1>7, <2>1, <2>3
<1>10. ASSUME NEW c2, NEW y2, NEW m2, NEW d2, Counted(n + 1, c2, y2, m2, d2)
       PROVE  UnixtimeToDate(n + 1) = DateOf(c2, y2, m2, d2)
  <2>1. n + 1 \in Nat
    OBVIOUS
  <2> QED
    BY <1>10, <2>1, DateOfCounted, SMT
<1>11. CASE d < LengthOf(c, y, m)
  <2>1. d + 1 \in 1 .. LengthOf(c, y, m) /\ d + 1 \in 1 .. 31
    BY <1>1, <1>11
  <2>2. n + 1 + 2472633 = CenturyStart(c) + YearStart(y) + MonthStart(m) + (d + 1)
    BY <1>3, <1>4
  <2>3. Counted(n + 1, c, y, m, d + 1)
    BY <2>1, <2>2 DEF Counted
  <2>4. UnixtimeToDate(n + 1) = DateOf(c, y, m, d + 1)
    BY <1>10, <2>1, <2>3, Zenon
  <2>5. DateOf(c, y, m, d + 1) = [year |-> date.year, month |-> date.month, day |-> d + 1]
    BY DEF DateOf
  <2> QED
    BY <1>9, <1>11, <2>4, <2>5
<1>12. CASE ~ (d < LengthOf(c, y, m)) /\ m < 11
  <2>1. m + 1 \in 0 .. 11 /\ 1 \in 1 .. 31
    BY <1>12
  <2>2. /\ LengthOf(c, y, m + 1) \in 28 .. 31
        /\ DaysInYear(c, y) \in Nat
        /\ DaysInCentury(c) \in Nat
    BY <2>1, LengthsRange, Zenon
  <2>3. 1 \in 1 .. LengthOf(c, y, m + 1)
    BY <2>2
  <2>4. n + 1 + 2472633 = CenturyStart(c) + YearStart(y) + MonthStart(m + 1) + 1
    BY <1>1, <1>3, <1>4, <1>5, <1>12
  <2>5. Counted(n + 1, c, y, m + 1, 1)
    BY <2>1, <2>3, <2>4 DEF Counted
  <2>6. UnixtimeToDate(n + 1) = DateOf(c, y, m + 1, 1)
    BY <1>10, <2>1, <2>5, Zenon
  <2>7. CASE m = 9
    <3>1. DateOf(c, y, m + 1, 1) = [year |-> date.year + 1, month |-> 1, day |-> 1]
      BY <1>8, <2>7 DEF DateOf, YearOf
    <3>2. ~ (date.month < 12)
      BY <1>8, <2>7
    <3> QED
      BY <1>9, <1>12, <2>6, <3>1, <3>2
  <2>8. CASE m # 9
    <3>1. DateOf(c, y, m + 1, 1) = [year |-> date.year, month |-> date.month + 1, day |-> 1]
      <4>1. /\ (IF m + 1 > 9 THEN 1 ELSE 0) = (IF m > 9 THEN 1 ELSE 0)
            /\ (IF m + 1 > 9 THEN m + 1 - 9 ELSE m + 1 + 3) = (IF m > 9 THEN m - 9 ELSE m + 3) + 1
        BY <2>8
      <4> QED
        BY <1>8, <4>1 DEF DateOf, YearOf
    <3>2. date.month < 12
      BY <1>8, <1>12, <2>8
    <3> QED
      BY <1>9, <1>12, <2>6, <3>1, <3>2
  <2> QED
    BY <2>7, <2>8
<1>13. CASE ~ (d < LengthOf(c, y, m)) /\ m = 11
  <2>1. date.month = 2 /\ date.month < 12 /\ date.month + 1 = 3
    BY <1>8, <1>13
  <2>2. DayAfter(date) = [year |-> date.year, month |-> 3, day |-> 1]
    BY <1>9, <1>13, <2>1
  <2>3. MonthStart(m) + d = DaysInYear(c, y)
    BY <1>1, <1>3, <1>4, <1>5, <1>13
  <2>4. 0 \in 0 .. 11 /\ 1 \in 1 .. 31 /\ MonthStart(0) = 0
    BY MonthStarts
  <2>5. CASE y < 99
    <3>1. y + 1 \in 0 .. 99
      BY <2>5
    <3>2. /\ LengthOf(c, y + 1, 0) \in 28 .. 31
          /\ DaysInYear(c, y + 1) \in Nat
          /\ DaysInCentury(c) \in Nat
      BY <2>4, <3>1, LengthsRange, Zenon
    <3>3. 1 \in 1 .. LengthOf(c, y + 1, 0)
      BY <3>2
    <3>4. n + 1 + 2472633 = CenturyStart(c) + YearStart(y + 1) + MonthStart(0) + 1
      BY <1>1, <1>3, <1>4, <1>6, <2>3, <2>4, <2>5
    <3>5. Counted(n + 1, c, y + 1, 0, 1)
      BY <2>4, <3>1, <3>3, <3>4 DEF Counted
    <3>6. UnixtimeToDate(n + 1) = DateOf(c, y + 1, 0, 1)
      BY <1>10, <2>4, <3>1, <3>5, Zenon
    <3>7. DateOf(c, y + 1, 0, 1) = [year |-> date.year, month |-> 3, day |-> 1]
      <4>1. y + 1 + 100 * c - 4800 + 0 = date.year
        BY <1>8, <1>13
      <4>2. DateOf(c, y + 1, 0, 1) = [year |-> y + 1 + 100 * c - 4800 + 0, month |-> 3, day |-> 1]
        BY DEF DateOf, YearOf
      <4> QED
        BY <4>1, <4>2
    <3> QED
      BY <2>2, <3>6, <3>7
  <2>6. CASE y = 99
    <3>1. c + 1 \in Nat /\ 0 \in 0 .. 99
      OBVIOUS
    <3>2. /\ LengthOf(c + 1, 0, 0) \in 28 .. 31
          /\ DaysInYear(c + 1, 0) \in Nat
          /\ DaysInCentury(c + 1) \in Nat
      BY <2>4, <3>1, LengthsRange, Zenon
    <3>3. 1 \in 1 .. LengthOf(c + 1, 0, 0)
      BY <3>2
    <3>4. YearStart(0) = 0
      BY DEF YearStart
    <3>5. CenturyStart(c + 1) = CenturyStart(c) + DaysInCentury(c)
      BY CenturyLength
    <3>6. n + 1 + 2472633 = CenturyStart(c + 1) + YearStart(0) + MonthStart(0) + 1
      BY <1>1, <1>3, <1>4, <1>6, <2>3, <2>4, <2>6, <3>4, <3>5
    <3>7. Counted(n + 1, c + 1, 0, 0, 1)
      BY <2>4, <3>1, <3>3, <3>6 DEF Counted
    <3>8. UnixtimeToDate(n + 1) = DateOf(c + 1, 0, 0, 1)
      BY <1>10, <2>4, <3>1, <3>7, Zenon
    <3>9. DateOf(c + 1, 0, 0, 1) = [year |-> date.year, month |-> 3, day |-> 1]
      <4>1. 0 + 100 * (c + 1) - 4800 + 0 = date.year
        BY <1>8, <1>13, <2>6
      <4>2. DateOf(c + 1, 0, 0, 1) = [year |-> 0 + 100 * (c + 1) - 4800 + 0, month |-> 3, day |-> 1]
        BY DEF DateOf, YearOf
      <4> QED
        BY <4>1, <4>2
    <3> QED
      BY <2>2, <3>8, <3>9
  <2> QED
    BY <2>5, <2>6
<1> QED
  BY <1>11, <1>12, <1>13

\* The day of a date is found again, and its day of the week.
LEMMA Months12 ==
    ASSUME NEW m \in 0 .. 11
    PROVE  /\ (367 * (m + 1)) \div 12 = MonthStart(m) + 30
           /\ LET month == IF m > 9 THEN m - 9 ELSE m + 3
                  t == <<0, 3, 2, 5, 0, 3, 5, 1, 4, 6, 2, 4>>
              IN  \E q \in Int : t[month] = MonthStart(m) + 2 + 7 * q
<1>1. m = 0 \/ m = 1 \/ m = 2 \/ m = 3 \/ m = 4 \/ m = 5 \/ m = 6 \/ m = 7 \/ m = 8
      \/ m = 9 \/ m = 10 \/ m = 11
  OBVIOUS
<1>2. (367 * (m + 1)) \div 12 = MonthStart(m) + 30
  BY <1>1, MonthStarts
<1> DEFINE month == IF m > 9 THEN m - 9 ELSE m + 3
           t == <<0, 3, 2, 5, 0, 3, 5, 1, 4, 6, 2, 4>>
           found(q) == q \in Int /\ t[month] = MonthStart(m) + 2 + 7 * q
<1>3. m = 0 => found(0)
  BY MonthStarts
<1>4. m = 1 => found(-4)
  BY MonthStarts
<1>5. m = 2 => found(-9)
  BY MonthStarts
<1>6. m = 3 => found(-13)
  BY MonthStarts
<1>7. m = 4 => found(-17)
  BY MonthStarts
<1>8. m = 5 => found(-22)
  BY MonthStarts
<1>9. m = 6 => found(-26)
  BY MonthStarts
<1>10. m = 7 => found(-30)
  BY MonthStarts
<1>11. m = 8 => found(-35)
  BY MonthStarts
<1>12. m = 9 => found(-39)
  BY MonthStarts
<1>13. m = 10 => found(-44)
  BY MonthStarts
<1>14. m = 11 => found(-48)
  BY MonthStarts
<1>15. \E q \in Int : found(q)
  <2> HIDE DEF found
  <2> QED
    BY <1>1, <1>3, <1>4, <1>5, <1>6, <1>7, <1>8, <1>9, <1>10, <1>11, <1>12, <1>13, <1>14
<1> QED
  BY <1>2, <1>15

LEMMA SameDayOfWeek ==
    ASSUME NEW a \in Int, NEW k \in Int
    PROVE  (a + 7 * k) % 7 = a % 7
OBVIOUS

LEMMA DayIsFound ==
    ASSUME NEW n \in Nat, NEW c \in Nat, NEW y \in 0 .. 99, NEW m \in 0 .. 11, NEW d \in 1 .. 31,
           Counted(n, c, y, m, d)
    PROVE  /\ DaysOfDate(DateOf(c, y, m, d)) = n
           /\ DayOfWeek(DateOf(c, y, m, d)) = (n + 4) % 7
<1> DEFINE date == DateOf(c, y, m, d)
<1>1. y \in Nat /\ m \in Nat
  OBVIOUS
<1>2. CenturyStart(c) \in Nat /\ YearStart(y) \in Nat /\ MonthStart(m) \in Nat
  BY <1>1, StartsAreNat, Zenon
<1>3. n + 2472633 = CenturyStart(c) + YearStart(y) + MonthStart(m) + d
  BY DEF Counted
<1>4. PICK year \in Int : year = y + 100 * c - 4800
  OBVIOUS
<1>5. PICK x \in Int : x = year \div 4 - year \div 100 + year \div 400
  BY SMT
<1>6. year * 365 + x = CenturyStart(c) + YearStart(y) - 1753164
  <2>1. year \div 4 = 25 * c - 1200 + y \div 4
    BY <1>4, SMT
  <2>2. year \div 100 = c - 48
    BY <1>4, SMT
  <2>3. year \div 400 = c \div 4 - 12
    BY <1>4, SMT
  <2>4. CenturyStart(c) = 36524 * c + c \div 4
    BY CenturyStarts
  <2>5. YearStart(y) = 365 * y + y \div 4
    BY <1>1, YearStarts
  <2> QED
    BY <1>4, <1>5, <2>1, <2>2, <2>3, <2>4, <2>5, SMT
<1>7. date.day = d /\ date.month = (IF m > 9 THEN m - 9 ELSE m + 3)
  BY DEF DateOf
<1>8. date.year = year + (IF m > 9 THEN 1 ELSE 0)
  BY <1>4 DEF DateOf, YearOf
<1> HIDE DEF date
<1>9. PICK q \in Int : /\ (367 * (m + 1)) \div 12 = MonthStart(m) + 30
                       /\ <<0, 3, 2, 5, 0, 3, 5, 1, 4, 6, 2, 4>>[date.month] = MonthStart(m) + 2 + 7 * q
  BY <1>7, Months12
<1>10. DaysOfDate(date) = n
  <2>1. /\ (date.month - 2 < 1) <=> m > 9
        /\ (IF m > 9 THEN date.year - 1 ELSE date.year) = year
        /\ (IF m > 9 THEN date.month + 10 ELSE date.month - 2) = m + 1
    BY <1>7, <1>8
  <2> DEFINE Y == IF date.month - 2 < 1 THEN date.year - 1 ELSE date.year
             M == IF date.month - 2 < 1 THEN date.month + 10 ELSE date.month - 2
  <2>3. DaysOfDate(date) =
          (Y \div 4 - Y \div 100 + Y \div 400 + (367 * M) \div 12 + date.day) + Y * 365 - 719499
    BY SMT DEF DaysOfDate
  <2>4. Y = year /\ M = m + 1
    BY <2>1
  <2> HIDE DEF Y, M
  <2>2. DaysOfDate(date) = x + (367 * (m + 1)) \div 12 + d + year * 365 - 719499
    <3>1. DaysOfDate(date) =
            (year \div 4 - year \div 100 + year \div 400 + (367 * (m + 1)) \div 12 + d) + year * 365 - 719499
      BY <1>7, <2>3, <2>4, SMT
    <3> QED
      BY <1>5, <3>1, SMT
  <2> QED
    BY <1>2, <1>3, <1>6, <1>9, <2>2, SMT
<1>11. DayOfWeek(date) = (n + 4) % 7
  <2>1. (date.month < 3 <=> m > 9) /\ (IF m > 9 THEN date.year - 1 ELSE date.year) = year
    BY <1>7, <1>8
  <2>2. DayOfWeek(date) = (year + x + (MonthStart(m) + 2 + 7 * q) + d) % 7
    BY <1>2, <1>5, <1>7, <1>9, <2>1, SMT DEF DayOfWeek
  <2>3. year + x + (MonthStart(m) + 2 + 7 * q) + d = (n + 4) + 7 * (102781 + q - 52 * year)
    BY <1>2, <1>3, <1>6, SMT
  <2>4. n + 4 \in Int /\ 102781 + q - 52 * year \in Int
    BY SMT
  <2> QED
    BY <2>2, <2>3, <2>4, SameDayOfWeek, SMT
<1> QED
  BY <1>10, <1>11 DEF date

LEMMA CalendarBegins == UnixtimeToDate(0) = [year |-> 1970, month |-> 1, day |-> 1]
<1>1. LengthOf(67, 69, 10) = 31
  BY DEF LengthOf
<1>2. MonthStart(10) = 306
  BY MonthStarts
<1>3. 0 + 2472633 = CenturyStart(67) + YearStart(69) + MonthStart(10) + 1
  BY <1>2, SMT DEF CenturyStart, YearStart
<1>4. Counted(0, 67, 69, 10, 1)
  BY <1>1, <1>3, SMT DEF Counted
<1>5. UnixtimeToDate(0) = DateOf(67, 69, 10, 1)
  BY <1>4, DateOfCounted, SMT
<1>6. DateOf(67, 69, 10, 1) = [year |-> 1970, month |-> 1, day |-> 1]
  BY SMT DEF DateOf, YearOf
<1> QED
  BY <1>5, <1>6

LEMMA DayFollows ==
    ASSUME NEW day \in Nat
    PROVE  /\ UnixtimeToDate(day + 1) = DayAfter(UnixtimeToDate(day))
           /\ DayOfWeek(UnixtimeToDate(day)) = (day + 4) % 7
           /\ DaysOfDate(UnixtimeToDate(day)) = day
<1>1. PICK c \in Nat, y \in 0 .. 99, m \in 0 .. 11, d \in 1 .. 31 :
          Counted(day, c, y, m, d) /\ UnixtimeToDate(day) = DateOf(c, y, m, d)
  BY DateIsCounted, Zenon
<1>2. Counted(day, c, y, m, d)
  BY <1>1, Zenon
<1>3. UnixtimeToDate(day) = DateOf(c, y, m, d)
  BY <1>1, Zenon
<1>4. UnixtimeToDate(day + 1) = DayAfter(DateOf(c, y, m, d))
  BY <1>2, NextIsCounted, Zenon
<1>5. /\ DaysOfDate(DateOf(c, y, m, d)) = day
      /\ DayOfWeek(DateOf(c, y, m, d)) = (day + 4) % 7
  BY <1>2, DayIsFound, Zenon
<1> QED
  BY <1>3, <1>4, <1>5

LEMMA InTheDay ==
    ASSUME NEW s \in Int, 0 <= s, s < 86400
    PROVE  s \div 86400 = 0 /\ s % 86400 = s
<1>1. s \div 86400 = 0
  BY SMT
<1>2. s % 86400 = s
  BY SMT
<1> QED
  BY <1>1, <1>2, SMT

LEMMA InTheDayAfter ==
    ASSUME NEW s \in Int, 86400 <= s, s < 172800
    PROVE  s \div 86400 = 1 /\ s % 86400 = s - 86400
<1>1. s \div 86400 = 1
  BY SMT
<1>2. s % 86400 = s - 86400
  BY SMT
<1> QED
  BY <1>1, <1>2, SMT

LEMMA InTheDayBefore ==
    ASSUME NEW s \in Int, -86400 <= s, s < 0
    PROVE  s \div 86400 = -1 /\ s % 86400 = s + 86400
<1>1. s \div 86400 = -1
  BY SMT
<1>2. s % 86400 = s + 86400
  BY SMT
<1> QED
  BY <1>1, <1>2, SMT

Local(s, second, k, r) ==
    /\ s \div 86400 = k /\ s % 86400 = r
    /\ (r - 32400) \div 86400 = - k /\ (r - 32400) % 86400 = second

LEMMA LocalSeconds ==
    ASSUME NEW second \in Int, 0 <= second, second < 86400, NEW s \in Nat, s = second + 32400
    PROVE  \E k \in Nat, r \in Nat : Local(s, second, k, r)
<1>1. CASE s < 86400
  <2>1. s \div 86400 = 0 /\ s % 86400 = s
    BY <1>1, InTheDay, SMT
  <2>2. s - 32400 = second
    BY SMT
  <2>3. second \div 86400 = 0 /\ second % 86400 = second
    BY InTheDay, SMT
  <2>4. Local(s, second, 0, s)
    BY <2>1, <2>2, <2>3, SMT DEF Local
  <2>5. 0 \in Nat
    BY SMT
  <2> QED
    BY <2>4, <2>5, SMT
<1>2. CASE ~ (s < 86400)
  <2>1. 86400 <= s /\ s < 172800
    BY <1>2, SMT
  <2>2. s \div 86400 = 1 /\ s % 86400 = s - 86400
    BY <2>1, InTheDayAfter, SMT
  <2>3. PICK r \in Nat : r = s - 86400
    BY <2>1, SMT
  <2>4. PICK x \in Int : x = r - 32400
    BY SMT
  <2>5. -86400 <= x /\ x < 0 /\ x + 86400 = second
    BY <2>3, <2>4, SMT
  <2>6. x \div 86400 = -1 /\ x % 86400 = x + 86400
    BY <2>5, InTheDayBefore, SMT
  <2>7. Local(s, second, 1, r)
    BY <2>2, <2>3, <2>4, <2>5, <2>6, SMT DEF Local
  <2>8. 1 \in Nat
    BY SMT
  <2> QED
    BY <2>7, <2>8, SMT
<1>3. s < 86400 \/ ~ (s < 86400)
  BY SMT
<1> QED
  BY <1>1, <1>2, <1>3, SMT

\* A local date and time is the system time again.
LEMMA TimeIsFoundAgain ==
    ASSUME NEW day \in Nat, NEW second \in Int, 0 <= second, second < 86400, NEW t,
           t = [day |-> day, second |-> second]
    PROVE  DatetimeToUtc(SystimeToDatetime(t)) = t
<1>1. SecondsOfDay = 86400 /\ DiffFromLocalTime = 32400
  BY SMT DEF SecondsOfDay, DiffFromLocalTime
<1>2. t.day = day /\ t.second = second
  BY SMT
<1>3. PICK s \in Nat : s = second + 32400
  BY SMT
<1>4. PICK k \in Nat, r \in Nat : Local(s, second, k, r)
  BY <1>3, LocalSeconds, SMT
<1>5. SystimeToDatetime(t) = [date |-> UnixtimeToDate(day + k), second |-> r]
  <2>1. SystimeToDatetime(t) =
          [date |-> UnixtimeToDate(t.day + (t.second + DiffFromLocalTime) \div SecondsOfDay),
           second |-> (t.second + DiffFromLocalTime) % SecondsOfDay]
    BY SMT DEF SystimeToDatetime
  <2>2. (t.second + DiffFromLocalTime) \div SecondsOfDay = k
    BY <1>1, <1>2, <1>3, <1>4, SMT DEF Local
  <2>3. (t.second + DiffFromLocalTime) % SecondsOfDay = r
    BY <1>1, <1>2, <1>3, <1>4, SMT DEF Local
  <2> QED
    BY <1>2, <2>1, <2>2, <2>3, SMT
<1>6. DaysOfDate(UnixtimeToDate(day + k)) = day + k
  <2>1. day + k \in Nat
    BY <1>4, SMT
  <2> QED
    BY <2>1, DayFollows, SMT
<1>7. ASSUME NEW dt, dt = [date |-> UnixtimeToDate(day + k), second |-> r]
      PROVE  DatetimeToUtc(dt) = [day |-> day, second |-> second]
  <2>1. DatetimeToUtc(dt) =
          [day |-> DaysOfDate(dt.date) + (dt.second - DiffFromLocalTime) \div SecondsOfDay,
           second |-> (dt.second - DiffFromLocalTime) % SecondsOfDay]
    BY SMT DEF DatetimeToUtc
  <2>2. DaysOfDate(dt.date) = day + k /\ dt.second = r
    BY <1>6, <1>7, SMT
  <2>3. (dt.second - DiffFromLocalTime) \div SecondsOfDay = - k
    BY <1>1, <1>4, <2>2, SMT DEF Local
  <2>4. (dt.second - DiffFromLocalTime) % SecondsOfDay = second
    BY <1>1, <1>4, <2>2, SMT DEF Local
  <2>5. day + k + (- k) = day
    BY SMT
  <2> QED
    BY <2>1, <2>2, <2>3, <2>4, <2>5, SMT
<1> QED
  BY <1>5, <1>7, SMT

LEMMA MonthsInCommonYears == MonthsHaveTheirDays
<1> SUFFICES ASSUME NEW year \in 1970 .. 2100, NEW month \in 1 .. 12,
                    month = 2 \/ ~ IsLeapYear(year)
             PROVE  NumOfDayInMonth(year, month) = LengthOfMonth(year, month)
  BY DEF MonthsHaveTheirDays
<1>1. year >= 4
  BY SMT
<1>2. IsLeapYear(year) <=> (year % 4 = 0 /\ year % 100 # 0) \/ year % 400 = 0
  BY <1>1, SMT DEF IsLeapYear
<1>3. \/ month = 1 \/ month = 2 \/ month = 3 \/ month = 4 \/ month = 5 \/ month = 6
      \/ month = 7 \/ month = 8 \/ month = 9 \/ month = 10 \/ month = 11 \/ month = 12
  BY SMT
<1>4. CASE month = 2
  BY <1>2, <1>4 DEF NumOfDayInMonth, LengthOfMonth
<1>5. CASE month # 2
  BY <1>3, <1>5 DEF NumOfDayInMonth, LengthOfMonth
<1> QED
  BY <1>4, <1>5

LEMMA Calendar == DatesFollowTheCalendar /\ LocalTimesAreFoundAgain /\ MonthsHaveTheirDays
<1>1. DatesFollowTheCalendar
  <2>1. \A day \in 0 .. LastDay : day \in Nat
    BY DatetimeAssumption DEF DatetimeAssumption
  <2> QED
    BY <2>1, CalendarBegins, DayFollows DEF DatesFollowTheCalendar
<1>2. LocalTimesAreFoundAgain
  <2>1. ASSUME NEW day \in 0 .. LastDay, NEW s \in {0, 53999, 54000, 86399}, NEW t,
               t = [day |-> day, second |-> s]
        PROVE  DatetimeToUtc(SystimeToDatetime(t)) = t
    <3>1. day \in Nat
      BY DatetimeAssumption, SMT DEF DatetimeAssumption
    <3>2. s \in Int /\ 0 <= s /\ s < 86400
      BY SMT
    <3> QED
      BY <2>1, <3>1, <3>2, TimeIsFoundAgain, SMT
  <2> QED
    BY <2>1, SMT DEF LocalTimesAreFoundAgain
<1> QED
  BY <1>1, <1>2, MonthsInCommonYears

\* datetime.c for every length of a second in interrupts and for every day: the
\* time is right to an interrupt once the RTC has set it, get_systime() reads it
\* without a lock to less than a second, and every day since 1970/01/01 has the
\* date that follows the one of the day before and is found again from it.
THEOREM DatetimeInvariant == DatetimeSpec => []DatetimeInv
<1>1. DatetimeInit => ClockInv /\ ReadingInv
  BY DatetimeBegins
<1>2. (ClockInv /\ ReadingInv) /\ [DatetimeNext]_datetimeVars => (ClockInv /\ ReadingInv)'
  BY ClockKept, ReadingKept
<1>3. ClockInv /\ ReadingInv => DatetimeInv
  <2>1. ClockInv /\ ReadingInv => DatetimeTypeOK /\ ReadsAreClose /\ FixedByTheRtc
    BY DEF ClockInv, ClockTypes, ReadingInv, Loads, DatetimeTypeOK
  <2> QED
    BY <2>1, Calendar DEF DatetimeInv
<1> QED
  BY <1>1, <1>2, <1>3, PTL DEF DatetimeSpec

-----------------------------------------------------------------------------
(* The system events of kernel/sysevent.c.                                 *)

\* A key that is taken for pressed is pressed, or its release is stored behind
\* an entry of the queue.
Held(k, keys, queue, from) ==
    k \in keys \/ \E j \in DOMAIN queue : from < j /\ queue[j].what = "keyup" /\ queue[j].arg = k

HeldInOrder(keys, queue) ==
    \A i \in DOMAIN queue : queue[i].what = "keydown" => Held(queue[i].arg, keys, queue, i)

\* Every press, whether it is repeated, in the task's structure or stored, is of a
\* key that is held.
Seen(keys, queue, e, k) ==
    /\ k = 0 \/ Held(k, keys, queue, 0)
    /\ e.what = "keydown" => Held(e.arg, keys, queue, 0)
    /\ HeldInOrder(keys, queue)

SysEventTypes ==
    /\ down \subseteq Keys
    /\ evtque \in Seq(Events) /\ Len(evtque) <= MaxEvents
    /\ waits \in BOOLEAN /\ repeat_flg \in BOOLEAN /\ released_unseen \in BOOLEAN
    /\ event \in Events
    /\ last_key \in Keys \cup {0}
    /\ start_age \in 0 .. StartTime /\ int_age \in 0 .. IntTime
    /\ rtn \in -1 .. 1

\* The inductive invariant: who waits has an empty queue, and no press outlives
\* its release.
SysEventInd ==
    /\ SysEventTypes
    /\ waits => evtque = <<>>
    /\ released_unseen \/ Seen(down, evtque, event, last_key)

LEMMA ConstantsAreNat ==
    /\ Keys \subseteq Nat \ {0} /\ MaxEvents \in Nat
    /\ LifeTime \in Nat \ {0} /\ StartTime \in Nat \ {0} /\ IntTime \in Nat \ {0}
<1>1. LifeTime \in {LifeTime, StartTime, IntTime} /\ StartTime \in {LifeTime, StartTime, IntTime}
      /\ IntTime \in {LifeTime, StartTime, IntTime}
  OBVIOUS
<1> QED
  BY <1>1, SysEventAssumption DEF SysEventAssumption

LEMMA NewEventIsEvent ==
    ASSUME NEW what \in {"null", "keydown", "keyup", "repeat", "other"}, NEW arg \in Keys \cup {0}
    PROVE  /\ NewEvent(what, arg) \in Events
           /\ NewEvent(what, arg).what = what /\ NewEvent(what, arg).arg = arg
<1>1. 0 \in 0 .. LifeTime
  BY ConstantsAreNat
<1> QED
  BY <1>1 DEF NewEvent, Events

LEMMA SysEventBegins == SysEventInit => SysEventInd
<1> SUFFICES ASSUME SysEventInit PROVE SysEventInd
  OBVIOUS
<1>1. SysEventTypes
  <2>1. <<>> \in Seq(Events) /\ Len(<<>>) = 0
    BY EmptySeq
  <2>2. NewEvent("null", 0) \in Events
    BY NewEventIsEvent
  <2>3. /\ 0 \in 0 .. StartTime /\ 0 \in 0 .. IntTime /\ 0 \in -1 .. 1 /\ 0 <= MaxEvents
    BY ConstantsAreNat
  <2>4. FALSE \in BOOLEAN /\ {} \subseteq Keys /\ 0 \in Keys \cup {0}
    OBVIOUS
  <2>5. evtque \in Seq(Events) /\ Len(evtque) <= MaxEvents
    BY <2>1, <2>3 DEF SysEventInit
  <2> QED
    BY <2>2, <2>3, <2>4, <2>5, Zenon DEF SysEventInit, SysEventTypes
<1>2. Seen(down, evtque, event, last_key)
  <2>1. DOMAIN <<>> = {}
    OBVIOUS
  <2> QED
    BY <2>1 DEF SysEventInit, Seen, HeldInOrder, NewEvent
<1> QED
  BY <1>1, <1>2 DEF SysEventInd, SysEventInit

\* What write_fifo() stores: the old entries, and then the new ones that had room.
LEMMA StoredEntries ==
    ASSUME MaxEvents \in Nat, evtque \in Seq(Events), Len(evtque) <= MaxEvents,
           NEW new \in Seq(Events)
    PROVE  LET n == IF Len(new) <= Room THEN Len(new) ELSE Room IN
           /\ Room \in Nat /\ n \in Nat /\ n <= Len(new) /\ n <= Room
           /\ Stored(new) \in Seq(Events) /\ Len(Stored(new)) = Len(evtque) + n
           /\ \A i \in 1 .. Len(evtque) : Stored(new)[i] = evtque[i]
           /\ \A i \in 1 .. n : Stored(new)[Len(evtque) + i] = new[i]
<1> DEFINE n == IF Len(new) <= Room THEN Len(new) ELSE Room
           sub == SubSeq(new, 1, n)
<1>1. Len(evtque) \in Nat /\ Len(new) \in Nat
  BY LenProperties
<1>2. Room \in Nat /\ n \in Nat /\ n <= Len(new) /\ n <= Room
  BY <1>1 DEF Room
<1> HIDE DEF n
<1>3. sub \in Seq(Events) /\ Len(sub) = n /\ \A i \in 1 .. n : sub[i] = new[i]
  <2>1. \A i \in 1 .. n : new[i] \in Events
    <3>1. \A i \in 1 .. n : i \in 1 .. Len(new)
      BY <1>1, <1>2
    <3> QED
      BY <3>1, ElementOfSeq
  <2>2. sub \in Seq(Events) /\ Len(sub) = (IF 1 <= n THEN n - 1 + 1 ELSE 0)
    BY <1>2, <2>1, SubSeqProperties
  <2>3. Len(sub) = n
    BY <1>2, <2>2
  <2>4. \A i \in 1 .. n : sub[i] = new[i]
    <3>1. \A i \in 1 .. n - 1 + 1 : sub[i] = new[1 + i - 1]
      BY <1>2, <2>1, SubSeqProperties
    <3>2. \A i \in 1 .. n : i \in 1 .. n - 1 + 1 /\ 1 + i - 1 = i
      BY <1>2
    <3> QED
      BY <3>1, <3>2
  <2> QED
    BY <2>2, <2>3, <2>4
<1> HIDE DEF sub
<1>4. Stored(new) = evtque \o sub
  BY DEF Stored, sub, n
<1>5. /\ evtque \o sub \in Seq(Events) /\ Len(evtque \o sub) = Len(evtque) + n
      /\ \A i \in 1 .. Len(evtque) + n :
            (evtque \o sub)[i] = IF i <= Len(evtque) THEN evtque[i] ELSE sub[i - Len(evtque)]
  BY <1>3, ConcatProperties
<1>6. \A i \in 1 .. Len(evtque) : i \in 1 .. Len(evtque) + n /\ i <= Len(evtque)
  BY <1>1, <1>2
<1>7. \A i \in 1 .. n : /\ Len(evtque) + i \in 1 .. Len(evtque) + n
                        /\ ~ (Len(evtque) + i <= Len(evtque)) /\ Len(evtque) + i - Len(evtque) = i
  BY <1>1, <1>2
<1>8. /\ Stored(new) \in Seq(Events) /\ Len(Stored(new)) = Len(evtque) + n
      /\ \A i \in 1 .. Len(evtque) : Stored(new)[i] = evtque[i]
  BY <1>4, <1>5, <1>6
<1>9. \A i \in 1 .. n : Stored(new)[Len(evtque) + i] = new[i]
  BY <1>3, <1>4, <1>5, <1>7
<1> QED
  BY <1>2, <1>8, <1>9 DEF n

\* With new entries behind the old ones every press is still of a key that is
\* held, if the releases of the keys that are no longer pressed are among them.
LEMMA SeenExtended ==
    ASSUME NEW keys, NEW keys2, NEW q \in Seq(Events), NEW q2 \in Seq(Events), NEW e, NEW k,
           Len(q) <= Len(q2), \A i \in 1 .. Len(q) : q2[i] = q[i],
           \A c \in keys : c \in keys2 \/ Held(c, keys2, q2, Len(q)),
           \A j \in 1 .. Len(q2) : Len(q) < j /\ q2[j].what = "keydown" => q2[j].arg \in keys2,
           Seen(keys, q, e, k)
    PROVE  Seen(keys2, q2, e, k)
<1>1. /\ Len(q) \in Nat /\ Len(q2) \in Nat /\ DOMAIN q = 1 .. Len(q) /\ DOMAIN q2 = 1 .. Len(q2)
  BY LenProperties
<1>2. ASSUME NEW c, NEW from \in Nat, from <= Len(q), Held(c, keys, q, from)
      PROVE  Held(c, keys2, q2, from)
  <2>1. CASE c \in keys
    <3>1. c \in keys2 \/ Held(c, keys2, q2, Len(q))
      BY <2>1
    <3>2. \A j \in DOMAIN q2 : Len(q) < j => from < j
      BY <1>1, <1>2
    <3> QED
      BY <3>1, <3>2 DEF Held
  <2>2. CASE \E j \in DOMAIN q : from < j /\ q[j].what = "keyup" /\ q[j].arg = c
    <3>1. PICK j \in DOMAIN q : from < j /\ q[j].what = "keyup" /\ q[j].arg = c
      BY <2>2
    <3>2. j \in DOMAIN q2 /\ q2[j] = q[j]
      BY <1>1, <3>1
    <3> QED
      BY <3>1, <3>2 DEF Held
  <2> QED
    BY <1>2, <2>1, <2>2 DEF Held
<1>3. 0 \in Nat /\ 0 <= Len(q)
  BY <1>1
<1>4. k = 0 \/ Held(k, keys2, q2, 0)
  BY <1>2, <1>3 DEF Seen
<1>5. e.what = "keydown" => Held(e.arg, keys2, q2, 0)
  BY <1>2, <1>3 DEF Seen
<1>6. HeldInOrder(keys2, q2)
  <2> SUFFICES ASSUME NEW i \in 1 .. Len(q2), q2[i].what = "keydown"
               PROVE  Held(q2[i].arg, keys2, q2, i)
    BY <1>1 DEF HeldInOrder
  <2>1. CASE i <= Len(q)
    <3>1. i \in DOMAIN q /\ i \in Nat /\ q2[i] = q[i]
      BY <1>1, <2>1
    <3>2. Held(q[i].arg, keys, q, i)
      BY <3>1 DEF Seen, HeldInOrder
    <3> QED
      BY <1>2, <2>1, <3>1, <3>2
  <2>2. CASE Len(q) < i
    BY <2>2 DEF Held
  <2> QED
    BY <1>1, <2>1, <2>2
<1> QED
  BY <1>4, <1>5, <1>6 DEF Seen

\* Without the first entry the presses behind it are still of keys that are held,
\* and so are the others, if it was no release.
LEMMA SeenTail ==
    ASSUME NEW keys, NEW q \in Seq(Events), q # <<>>, NEW e, NEW k, Seen(keys, q, e, k)
    PROVE  /\ HeldInOrder(keys, Tail(q))
           /\ Head(q).what = "keydown" => Held(Head(q).arg, keys, Tail(q), 0)
           /\ Head(q).what # "keyup" => k = 0 \/ Held(k, keys, Tail(q), 0)
<1>1. /\ Tail(q) \in Seq(Events) /\ Len(Tail(q)) = Len(q) - 1
      /\ \A i \in 1 .. Len(Tail(q)) : Tail(q)[i] = q[i + 1]
  BY HeadTailProperties
<1>2. /\ Len(q) \in Nat \ {0} /\ DOMAIN q = 1 .. Len(q) /\ DOMAIN Tail(q) = 1 .. Len(q) - 1
      /\ Head(q) = q[1]
  BY <1>1, LenProperties, EmptySeq
<1>3. \A i \in DOMAIN Tail(q) : i + 1 \in DOMAIN q /\ Tail(q)[i] = q[i + 1] /\ i \in Nat
  BY <1>1, <1>2
<1>4. ASSUME NEW c, NEW from \in Nat, Held(c, keys, q, from + 1)
      PROVE  Held(c, keys, Tail(q), from)
  <2>1. CASE \E j \in DOMAIN q : from + 1 < j /\ q[j].what = "keyup" /\ q[j].arg = c
    <3>1. PICK j \in DOMAIN q : from + 1 < j /\ q[j].what = "keyup" /\ q[j].arg = c
      BY <2>1
    <3>2. j - 1 \in DOMAIN Tail(q) /\ from < j - 1 /\ j - 1 + 1 = j
      BY <1>2, <3>1
    <3> QED
      BY <1>3, <3>1, <3>2 DEF Held
  <2> QED
    BY <1>4, <2>1 DEF Held
<1>5. HeldInOrder(keys, Tail(q))
  <2> SUFFICES ASSUME NEW i \in DOMAIN Tail(q), Tail(q)[i].what = "keydown"
               PROVE  Held(Tail(q)[i].arg, keys, Tail(q), i)
    BY DEF HeldInOrder
  <2>1. Held(q[i + 1].arg, keys, q, i + 1)
    BY <1>3 DEF Seen, HeldInOrder
  <2> QED
    BY <1>3, <1>4, <2>1
<1>6. Head(q).what = "keydown" => Held(Head(q).arg, keys, Tail(q), 0)
  <2>1. 1 \in DOMAIN q /\ 0 + 1 = 1 /\ 0 \in Nat
    BY <1>2
  <2>2. Head(q).what = "keydown" => Held(q[1].arg, keys, q, 1)
    BY <1>2, <2>1 DEF Seen, HeldInOrder
  <2> QED
    BY <1>2, <1>4, <2>1, <2>2
<1>7. ASSUME Head(q).what # "keyup", k # 0
      PROVE  Held(k, keys, Tail(q), 0)
  <2>1. Held(k, keys, q, 0)
    BY <1>7 DEF Seen
  <2>2. \A j \in DOMAIN q : 0 < j /\ q[j].what = "keyup" => 0 + 1 < j
    BY <1>2, <1>7
  <2>3. Held(k, keys, q, 0 + 1)
    BY <2>1, <2>2 DEF Held
  <2> QED
    BY <1>4, <2>3
<1> QED
  BY <1>5, <1>6, <1>7

\* get_event() with an event whose key is held, and the keys of which are held
\* that are stored.
LEMMA GotKeeps ==
    ASSUME SysEventAssumption, SysEventTypes, NEW e \in Events, NEW others \in Seq(Events),
           Len(others) <= MaxEvents, Got(e, others), down' \subseteq Keys,
           \/ released_unseen
           \/ /\ e.what = "keydown" => Held(e.arg, down', others, 0)
              /\ e.what # "keyup" => last_key = 0 \/ Held(last_key, down', others, 0)
              /\ HeldInOrder(down', others)
    PROVE  SysEventInd'
<1>1. /\ waits' = FALSE /\ event' = e /\ rtn' = (IF e.age < LifeTime THEN 1 ELSE -1)
      /\ released_unseen' = (released_unseen \/ (IsRelease(e) /\ e.age >= LifeTime))
  BY DEF Got
<1>2. /\ e.age \in 0 .. LifeTime /\ e.arg \in Keys \cup {0}
      /\ LifeTime \in Nat /\ StartTime \in Nat /\ IntTime \in Nat /\ MaxEvents \in Nat
  BY ConstantsAreNat DEF Events
<1>3. /\ waits' \in BOOLEAN /\ released_unseen' \in BOOLEAN /\ event' \in Events
      /\ rtn' \in -1 .. 1 /\ down' \subseteq Keys
  <2>1. rtn' \in -1 .. 1
    <3>1. 1 \in -1 .. 1 /\ -1 \in -1 .. 1
      OBVIOUS
    <3> QED
      BY <1>1, <3>1
  <2>2. waits' \in BOOLEAN /\ event' \in Events /\ down' \subseteq Keys
    BY <1>1
  <2>3. released_unseen' \in BOOLEAN
    BY <1>1, Zenon
  <2> QED
    BY <2>1, <2>2, <2>3
<1>4. ASSUME evtque' = others,
             /\ last_key' \in Keys \cup {0} /\ repeat_flg' \in BOOLEAN
             /\ start_age' \in 0 .. StartTime /\ int_age' \in 0 .. IntTime,
             \/ released_unseen'
             \/ last_key' = 0
             \/ last_key' = last_key /\ e.what # "keyup"
             \/ last_key' = e.arg /\ e.what = "keydown"
      PROVE  SysEventInd'
  <2>1. SysEventTypes'
    BY <1>3, <1>4, Zenon DEF SysEventTypes
  <2>2. released_unseen' \/ Seen(down', evtque', event', last_key')
    BY <1>1, <1>4 DEF Seen
  <2> QED
    BY <1>1, <2>1, <2>2 DEF SysEventInd
<1>5. CASE e.age >= LifeTime
  <2>1. UNCHANGED repeatVars /\ evtque' = others
    BY <1>2, <1>5 DEF Got
  <2>2. e.what = "keyup" => released_unseen'
    BY <1>1, <1>5 DEF IsRelease
  <2> QED
    BY <1>4, <2>1, <2>2 DEF repeatVars, SysEventTypes
<1>6. CASE e.age < LifeTime /\ e.what = "keydown"
  <2>1. KeyDown(e) /\ evtque' = others
    BY <1>2, <1>6 DEF Got
  <2> QED
    BY <1>2, <1>4, <1>6, <2>1 DEF KeyDown, SysEventTypes
<1>7. CASE e.age < LifeTime /\ e.what = "keyup"
  <2>1. KeyUp(e) /\ evtque' = others
    BY <1>2, <1>7 DEF Got
  <2> QED
    BY <1>2, <1>4, <1>7, <2>1 DEF KeyUp, SysEventTypes
<1>8. CASE e.age < LifeTime /\ e.what # "keydown" /\ e.what # "keyup"
  <2>1. /\ RepeatClock
        /\ evtque' = IF RepeatIsDue /\ Len(others) < MaxEvents
                       THEN Append(others, NewEvent("repeat", last_key))
                       ELSE others
    BY <1>2, <1>8 DEF Got
  <2>2. /\ last_key' = last_key /\ repeat_flg' \in BOOLEAN
        /\ start_age' = start_age /\ int_age' \in 0 .. IntTime
    <3>1. repeat_flg' = (repeat_flg \/ RepeatStarts)
      BY <2>1 DEF RepeatClock
    <3>2. repeat_flg' \in BOOLEAN
      BY <3>1 DEF SysEventTypes
    <3>3. last_key' = last_key /\ start_age' = start_age /\ int_age' \in {0, int_age}
      BY <2>1 DEF RepeatClock
    <3> QED
      BY <1>2, <3>2, <3>3 DEF SysEventTypes
  <2>3. CASE evtque' = others
    BY <1>4, <1>8, <2>2, <2>3 DEF SysEventTypes
  <2>4. CASE evtque' = Append(others, NewEvent("repeat", last_key)) /\ Len(others) < MaxEvents
    <3> DEFINE r == NewEvent("repeat", last_key)
    <3>1. r \in Events /\ r.what = "repeat"
      BY <1>2 DEF NewEvent, Events, SysEventTypes
    <3> HIDE DEF r
    <3>2. /\ Append(others, r) \in Seq(Events) /\ Len(Append(others, r)) = Len(others) + 1
          /\ \A i \in 1 .. Len(others) : Append(others, r)[i] = others[i]
          /\ Append(others, r)[Len(others) + 1] = r
      BY <3>1, AppendProperties
    <3>3. Len(others) \in Nat
      BY LenProperties
    <3>4. evtque' = Append(others, r)
      BY <2>4 DEF r
    <3>5. SysEventTypes'
      <4>1. evtque' \in Seq(Events) /\ Len(evtque') <= MaxEvents
        BY <1>2, <2>4, <3>2, <3>3, <3>4
      <4>2. last_key' \in Keys \cup {0} /\ start_age' \in 0 .. StartTime
        BY <2>2 DEF SysEventTypes
      <4> QED
        BY <1>3, <2>2, <4>1, <4>2, Zenon DEF SysEventTypes
    <3>6. ASSUME ~ released_unseen
          PROVE  Seen(down', evtque', event', last_key')
      <4>1. Seen(down', others, e, last_key)
        BY <1>8, <3>6 DEF Seen
      <4>2. \A c \in down' : c \in down' \/ Held(c, down', evtque', Len(others))
        OBVIOUS
      <4>3. \A j \in 1 .. Len(evtque') : Len(others) < j => evtque'[j] = r
        <5>1. \A j \in 1 .. Len(others) + 1 : Len(others) < j => j = Len(others) + 1
          BY <3>3
        <5> QED
          BY <3>2, <3>4, <5>1
      <4>4. \A j \in 1 .. Len(evtque') :
               Len(others) < j /\ evtque'[j].what = "keydown" => evtque'[j].arg \in down'
        BY <3>1, <4>3
      <4>5. /\ evtque' \in Seq(Events) /\ Len(others) <= Len(evtque')
            /\ \A i \in 1 .. Len(others) : evtque'[i] = others[i]
        BY <3>2, <3>3, <3>4
      <4>6. Seen(down', evtque', e, last_key)
        BY <4>1, <4>2, <4>4, <4>5, SeenExtended
      <4> QED
        BY <1>1, <2>2, <4>6
    <3> QED
      BY <1>1, <3>5, <3>6 DEF SysEventInd
  <2> QED
    BY <2>1, <2>3, <2>4
<1> QED
  BY <1>2, <1>5, <1>6, <1>7, <1>8

\* scan_key() pushes a release for every key that is no longer pressed, or one is
\* dropped; none is dropped by an empty queue.
LEMMA ScanStores ==
    ASSUME SysEventAssumption, SysEventTypes, NEW changed \in SUBSET Keys, changed # {},
           NEW pushed \in Scanned(changed), NEW new,
           new = [i \in DOMAIN pushed |->
                     NewEvent(IF pushed[i] \in down THEN "keyup" ELSE "keydown", pushed[i])],
           down' = (down \ changed) \cup (changed \ down)
    PROVE  /\ down' \subseteq Keys
           /\ Stored(new) \in Seq(Events) /\ Len(Stored(new)) <= MaxEvents
           /\ Len(evtque) <= Len(Stored(new))
           /\ \A i \in 1 .. Len(evtque) : Stored(new)[i] = evtque[i]
           /\ \A j \in 1 .. Len(Stored(new)) :
                 Len(evtque) < j /\ Stored(new)[j].what = "keydown" => Stored(new)[j].arg \in down'
           /\ \/ \E e \in Dropped(new) : IsRelease(e)
              \/ \A c \in down : c \in down' \/ Held(c, down', Stored(new), Len(evtque))
           /\ evtque = <<>> => Dropped(new) = {}
<1> DEFINE n == IF Len(new) <= Room THEN Len(new) ELSE Room
           keysChanged == Cardinality(changed)
<1>1. MaxEvents \in Nat /\ Cardinality(Keys) <= MaxEvents /\ Keys \subseteq Nat \ {0} /\ IsFiniteSet(Keys)
  BY DEF SysEventAssumption
<1>2. keysChanged \in Nat /\ keysChanged <= Cardinality(Keys) /\ Cardinality(Keys) \in Nat
  BY <1>1, FS_Subset, FS_CardinalityType
<1> HIDE DEF keysChanged
<1>3. /\ pushed \in [1 .. keysChanged -> changed]
      /\ \A k \in changed : \E i \in DOMAIN pushed : pushed[i] = k
  BY DEF Scanned, keysChanged
<1>4. /\ DOMAIN pushed = 1 .. keysChanged
      /\ \A i \in 1 .. keysChanged : /\ pushed[i] \in changed
                              /\ new[i] = NewEvent(IF pushed[i] \in down THEN "keyup" ELSE "keydown", pushed[i])
                              /\ new[i] \in Events
  <2> SUFFICES ASSUME NEW i \in 1 .. keysChanged
               PROVE  /\ pushed[i] \in changed
                      /\ new[i] = NewEvent(IF pushed[i] \in down THEN "keyup" ELSE "keydown", pushed[i])
                      /\ new[i] \in Events
    BY <1>3
  <2>1. pushed[i] \in changed /\ pushed[i] \in Keys \cup {0} /\ i \in DOMAIN pushed
    BY <1>3
  <2>2. new[i] = NewEvent(IF pushed[i] \in down THEN "keyup" ELSE "keydown", pushed[i])
    BY <2>1
  <2>3. (IF pushed[i] \in down THEN "keyup" ELSE "keydown")
            \in {"null", "keydown", "keyup", "repeat", "other"}
    OBVIOUS
  <2>4. new[i] \in Events
    BY <2>1, <2>2, <2>3, NewEventIsEvent, Zenon
  <2> QED
    BY <2>1, <2>2, <2>4
<1>5. new \in Seq(Events) /\ Len(new) = keysChanged /\ DOMAIN new = 1 .. keysChanged
  <2>1. new \in [1 .. keysChanged -> Events]
    BY <1>4
  <2>2. new \in Seq(Events)
    BY <1>2, <2>1
  <2> QED
    BY <1>2, <2>1, <2>2, LenProperties
<1>6. evtque \in Seq(Events) /\ Len(evtque) <= MaxEvents /\ Len(evtque) \in Nat
  BY LenProperties DEF SysEventTypes
<1>7. /\ Room \in Nat /\ n \in Nat /\ n <= Len(new) /\ n <= Room
      /\ Stored(new) \in Seq(Events) /\ Len(Stored(new)) = Len(evtque) + n
      /\ \A i \in 1 .. Len(evtque) : Stored(new)[i] = evtque[i]
      /\ \A i \in 1 .. n : Stored(new)[Len(evtque) + i] = new[i]
  BY <1>1, <1>5, <1>6, StoredEntries
<1>8. n = keysChanged \/ n = Room
  BY <1>5
<1> HIDE DEF n
<1>9. down' \subseteq Keys
  BY DEF SysEventTypes
<1>10. Len(Stored(new)) <= MaxEvents /\ Len(evtque) <= Len(Stored(new))
  BY <1>6, <1>7, <1>1 DEF Room
<1>11. ASSUME NEW j \in 1 .. Len(Stored(new)), Len(evtque) < j, Stored(new)[j].what = "keydown"
       PROVE  Stored(new)[j].arg \in down'
  <2>1. j - Len(evtque) \in 1 .. n /\ Len(evtque) + (j - Len(evtque)) = j
    BY <1>6, <1>7, <1>11
  <2>2. PICK i \in 1 .. n : i = j - Len(evtque)
    BY <2>1
  <2>3. Stored(new)[j] = new[i] /\ i \in 1 .. keysChanged
    <3>1. Len(evtque) + i = j
      BY <2>1, <2>2
    <3>2. Stored(new)[Len(evtque) + i] = new[i]
      BY <1>7, <2>2
    <3>3. i \in 1 .. keysChanged
      BY <1>2, <1>5, <1>7, <2>2
    <3> QED
      BY <3>1, <3>2, <3>3
  <2>4. pushed[i] \in changed /\ pushed[i] \notin down /\ new[i].arg = pushed[i]
    BY <1>4, <1>11, <2>3 DEF NewEvent
  <2> QED
    BY <2>3, <2>4
<1>12. ASSUME ~ \E e \in Dropped(new) : IsRelease(e), NEW c \in down, c \notin down'
       PROVE  Held(c, down', Stored(new), Len(evtque))
  <2>1. c \in changed
    BY <1>12
  <2>2. PICK i \in 1 .. keysChanged : pushed[i] = c
    BY <1>3, <1>4, <2>1
  <2>3. new[i].what = "keyup" /\ new[i].arg = c
    BY <1>4, <2>2 DEF NewEvent
  <2>4. i <= n
    <3>1. ASSUME ~ (i <= n) PROVE FALSE
      <4>1. i > Room
        BY <1>2, <1>7, <1>8, <3>1
      <4>2. new[i] \in Dropped(new)
        BY <1>5, <4>1 DEF Dropped
      <4> QED
        BY <1>12, <2>3, <4>2 DEF IsRelease
    <3> QED
      BY <3>1
  <2>5. i \in 1 .. n /\ Len(evtque) + i \in 1 .. Len(Stored(new)) /\ Len(evtque) < Len(evtque) + i
    BY <1>2, <1>6, <1>7, <2>4
  <2>6. DOMAIN Stored(new) = 1 .. Len(Stored(new))
    BY <1>7, LenProperties
  <2> QED
    BY <1>7, <2>3, <2>5, <2>6 DEF Held
<1>13. ASSUME evtque = <<>> PROVE Dropped(new) = {}
  <2>1. Len(evtque) = 0
    BY <1>13, EmptySeq
  <2>2. Room = MaxEvents
    BY <1>1, <2>1 DEF Room
  <2>3. \A i \in 1 .. keysChanged : ~ (i > Room)
    BY <1>1, <1>2, <2>2
  <2> QED
    BY <1>5, <2>3 DEF Dropped
<1> QED
  BY <1>7, <1>9, <1>10, <1>11, <1>12, <1>13

LEMMA ScanKeyKeeps ==
    ASSUME SysEventAssumption, SysEventInd, NEW changed \in SUBSET Keys, changed # {},
           ScanKey(changed)
    PROVE  SysEventInd'
<1>1. PICK pushed \in Scanned(changed) :
        LET new == [i \in DOMAIN pushed |->
                       NewEvent(IF pushed[i] \in down THEN "keyup" ELSE "keydown", pushed[i])]
            lost == \E e \in Dropped(new) : IsRelease(e)
        IN  /\ down' = (down \ changed) \cup (changed \ down)
            /\ IF waits
                 THEN Got(event, Stored(new))
                 ELSE /\ evtque' = Stored(new)
                      /\ released_unseen' = (released_unseen \/ lost)
                      /\ UNCHANGED <<waits, event, repeatVars, rtn>>
  BY DEF ScanKey
<1> DEFINE new == [i \in DOMAIN pushed |->
                      NewEvent(IF pushed[i] \in down THEN "keyup" ELSE "keydown", pushed[i])]
           lost == \E e \in Dropped(new) : IsRelease(e)
<1>2. down' = (down \ changed) \cup (changed \ down)
  BY <1>1
<1>3. waits => Got(event, Stored(new))
  BY <1>1
<1>4. ~ waits => /\ evtque' = Stored(new) /\ released_unseen' = (released_unseen \/ lost)
                 /\ UNCHANGED <<waits, event, repeatVars, rtn>>
  BY <1>1
<1>5. /\ SysEventTypes
      /\ waits => evtque = <<>>
      /\ released_unseen \/ Seen(down, evtque, event, last_key)
  BY DEF SysEventInd
<1>6. /\ down' \subseteq Keys
      /\ Stored(new) \in Seq(Events) /\ Len(Stored(new)) <= MaxEvents
      /\ Len(evtque) <= Len(Stored(new))
      /\ \A i \in 1 .. Len(evtque) : Stored(new)[i] = evtque[i]
      /\ \A j \in 1 .. Len(Stored(new)) :
            Len(evtque) < j /\ Stored(new)[j].what = "keydown" => Stored(new)[j].arg \in down'
      /\ lost \/ \A c \in down : c \in down' \/ Held(c, down', Stored(new), Len(evtque))
      /\ evtque = <<>> => Dropped(new) = {}
  BY <1>2, <1>5, ScanStores
<1>7. evtque = <<>> => ~ lost
  BY <1>6
<1> HIDE DEF new, lost
<1>8. evtque \in Seq(Events) /\ event \in Events
  BY <1>5 DEF SysEventTypes
<1>9. released_unseen \/ lost \/ Seen(down', Stored(new), event, last_key)
  BY <1>5, <1>6, <1>8, SeenExtended
<1>10. CASE waits
  <2>1. \/ released_unseen
        \/ /\ event.what = "keydown" => Held(event.arg, down', Stored(new), 0)
           /\ event.what # "keyup" => last_key = 0 \/ Held(last_key, down', Stored(new), 0)
           /\ HeldInOrder(down', Stored(new))
    BY <1>5, <1>7, <1>9, <1>10 DEF Seen
  <2> QED
    BY <1>3, <1>5, <1>6, <1>8, <1>10, <2>1, GotKeeps
<1>11. CASE ~ waits
  <2>1. /\ evtque' = Stored(new) /\ waits' = waits /\ event' = event /\ last_key' = last_key
        /\ repeat_flg' = repeat_flg /\ start_age' = start_age /\ int_age' = int_age /\ rtn' = rtn
    BY <1>4, <1>11 DEF repeatVars
  <2>2. released_unseen' = (released_unseen \/ lost)
    BY <1>4, <1>11
  <2>3. released_unseen' \in BOOLEAN
    BY <2>2, <1>5 DEF SysEventTypes
  <2>4. SysEventTypes'
    BY <1>5, <1>6, <2>1, <2>3 DEF SysEventTypes
  <2>5. released_unseen' \/ Seen(down', evtque', event', last_key')
    BY <1>9, <2>1, <2>2
  <2> QED
    BY <1>11, <2>1, <2>4, <2>5 DEF SysEventInd
<1> QED
  BY <1>10, <1>11

LEMMA SetEventKeeps ==
    ASSUME SysEventAssumption, SysEventInd, SetEvent
    PROVE  SysEventInd'
<1> DEFINE other == NewEvent("other", 0)
<1>1. /\ SysEventTypes
      /\ waits => evtque = <<>>
      /\ released_unseen \/ Seen(down, evtque, event, last_key)
      /\ MaxEvents \in Nat /\ LifeTime \in Nat
  BY DEF SysEventInd, SysEventAssumption
<1>2. other \in Events /\ other.what = "other"
  BY <1>1 DEF NewEvent, Events
<1>3. down' = down
  BY DEF SetEvent
<1>4. evtque \in Seq(Events) /\ Len(evtque) <= MaxEvents /\ down \subseteq Keys
  BY <1>1 DEF SysEventTypes
<1>5. CASE waits
  <2>1. Got(other, evtque)
    BY <1>5 DEF SetEvent
  <2> HIDE DEF other
  <2>2. \/ released_unseen
        \/ /\ other.what = "keydown" => Held(other.arg, down', evtque, 0)
           /\ other.what # "keyup" => last_key = 0 \/ Held(last_key, down', evtque, 0)
           /\ HeldInOrder(down', evtque)
    BY <1>1, <1>2, <1>3 DEF Seen
  <2>3. down' \subseteq Keys
    BY <1>3, <1>4
  <2> QED
    BY <1>1, <1>2, <1>4, <2>1, <2>2, <2>3, GotKeeps
<1>6. CASE ~ waits
  <2> DEFINE q == Stored(<<other>>)
             n == IF Len(<<other>>) <= Room THEN Len(<<other>>) ELSE Room
  <2>1. /\ evtque' = q /\ waits' = waits /\ event' = event /\ last_key' = last_key
        /\ repeat_flg' = repeat_flg /\ start_age' = start_age /\ int_age' = int_age /\ rtn' = rtn
        /\ released_unseen' = released_unseen
    BY <1>6 DEF SetEvent, repeatVars
  <2> HIDE DEF other
  <2>2. <<other>> \in Seq(Events) /\ Len(<<other>>) = 1 /\ <<other>>[1] = other
    BY <1>2
  <2>3. /\ Room \in Nat /\ n \in Nat /\ n <= Len(<<other>>) /\ n <= Room
        /\ q \in Seq(Events) /\ Len(q) = Len(evtque) + n
        /\ \A i \in 1 .. Len(evtque) : q[i] = evtque[i]
        /\ \A i \in 1 .. n : q[Len(evtque) + i] = <<other>>[i]
    BY <1>1, <1>4, <2>2, StoredEntries
  <2>4. Len(evtque) \in Nat /\ n \in {0, 1}
    BY <1>4, <2>2, <2>3, LenProperties
  <2> HIDE DEF q, n
  <2>5. Len(q) <= MaxEvents /\ Len(evtque) <= Len(q)
    BY <1>1, <1>4, <2>3, <2>4 DEF Room
  <2>6. ASSUME NEW j \in 1 .. Len(q), Len(evtque) < j
        PROVE  q[j] = other
    <3>1. 1 \in 1 .. n /\ j = Len(evtque) + 1
      BY <2>3, <2>4, <2>6
    <3> QED
      BY <2>2, <2>3, <3>1
  <2>7. SysEventTypes'
    BY <1>1, <1>3, <2>1, <2>3, <2>5 DEF SysEventTypes
  <2>8. released_unseen \/ Seen(down, q, event, last_key)
    <3>1. \A c \in down : c \in down \/ Held(c, down, q, Len(evtque))
      OBVIOUS
    <3>2. \A j \in 1 .. Len(q) : Len(evtque) < j /\ q[j].what = "keydown" => q[j].arg \in down
      BY <1>2, <2>6
    <3> QED
      BY <1>1, <1>4, <2>3, <2>5, <3>1, <3>2, SeenExtended
  <2> QED
    BY <1>3, <1>6, <2>1, <2>7, <2>8 DEF SysEventInd
<1> QED
  BY <1>5, <1>6

LEMMA GetEventKeeps ==
    ASSUME SysEventAssumption, SysEventInd, GetEvent
    PROVE  SysEventInd'
<1>1. /\ SysEventTypes
      /\ released_unseen \/ Seen(down, evtque, event, last_key)
      /\ MaxEvents \in Nat
  BY DEF SysEventInd, SysEventAssumption
<1>2. evtque \in Seq(Events) /\ Len(evtque) <= MaxEvents /\ down \subseteq Keys
  BY <1>1 DEF SysEventTypes
<1>3. evtque # <<>> /\ Got(Head(evtque), Tail(evtque)) /\ down' = down
  BY DEF GetEvent
<1>4. Head(evtque) \in Events /\ Tail(evtque) \in Seq(Events) /\ Len(Tail(evtque)) = Len(evtque) - 1
  BY <1>2, <1>3, HeadTailProperties
<1>5. Len(Tail(evtque)) <= MaxEvents
  <2>1. Len(evtque) \in Nat
    BY <1>2, LenProperties
  <2> QED
    BY <1>1, <1>2, <1>4, <2>1
<1>6. \/ released_unseen
      \/ /\ HeldInOrder(down, Tail(evtque))
         /\ Head(evtque).what = "keydown" => Held(Head(evtque).arg, down, Tail(evtque), 0)
         /\ Head(evtque).what # "keyup" => last_key = 0 \/ Held(last_key, down, Tail(evtque), 0)
  BY <1>1, <1>2, <1>3, SeenTail
<1>7. /\ down' \subseteq Keys
      /\ \/ released_unseen
         \/ /\ Head(evtque).what = "keydown" => Held(Head(evtque).arg, down', Tail(evtque), 0)
            /\ Head(evtque).what # "keyup" => last_key = 0 \/ Held(last_key, down', Tail(evtque), 0)
            /\ HeldInOrder(down', Tail(evtque))
  BY <1>2, <1>3, <1>6
<1> QED
  BY <1>1, <1>3, <1>4, <1>5, <1>7, GotKeeps

LEMMA NoEventKeeps ==
    ASSUME SysEventAssumption, SysEventInd, NoEvent
    PROVE  SysEventInd'
<1>1. /\ SysEventTypes /\ evtque = <<>>
      /\ released_unseen \/ Seen(down, evtque, event, last_key)
  BY DEF SysEventInd, NoEvent
<1>2. /\ waits' = FALSE /\ down' = down /\ evtque' = evtque /\ released_unseen' = released_unseen
      /\ rtn' \in {0, 1}
  BY DEF NoEvent
<1>3. event' \in Events /\ event'.what \in {"repeat", "null"}
  <2>1. \/ event' = [event EXCEPT !.what = "repeat", !.arg = last_key]
        \/ event' = [event EXCEPT !.what = "null", !.age = 0]
    BY DEF NoEvent
  <2>2. event \in Events /\ last_key \in Keys \cup {0} /\ LifeTime \in Nat
    BY <1>1, ConstantsAreNat DEF SysEventTypes
  <2>3. CASE event' = [event EXCEPT !.what = "repeat", !.arg = last_key]
    BY <2>2, <2>3 DEF Events
  <2>4. CASE event' = [event EXCEPT !.what = "null", !.age = 0]
    <3>1. 0 \in 0 .. LifeTime
      BY <2>2
    <3> QED
      BY <2>2, <2>4, <3>1 DEF Events
  <2> QED
    BY <2>1, <2>3, <2>4
<1>4. /\ last_key' = last_key /\ repeat_flg' \in BOOLEAN
      /\ start_age' = start_age /\ int_age' \in 0 .. IntTime
  <2>1. repeat_flg' = (repeat_flg \/ RepeatStarts)
    BY DEF NoEvent, RepeatClock
  <2>2. repeat_flg' \in BOOLEAN
    BY <1>1, <2>1 DEF SysEventTypes
  <2>3. last_key' = last_key /\ start_age' = start_age /\ int_age' \in {0, int_age}
    BY DEF NoEvent, RepeatClock
  <2>4. IntTime \in Nat
    BY ConstantsAreNat
  <2> QED
    BY <1>1, <2>2, <2>3, <2>4 DEF SysEventTypes
<1>5. SysEventTypes'
  <2>1. /\ down' \subseteq Keys /\ evtque' \in Seq(Events) /\ Len(evtque') <= MaxEvents
        /\ last_key' \in Keys \cup {0} /\ start_age' \in 0 .. StartTime
    BY <1>1, <1>2, <1>4 DEF SysEventTypes
  <2>2. waits' \in BOOLEAN /\ released_unseen' \in BOOLEAN
    BY <1>1, <1>2, Zenon DEF SysEventTypes
  <2>3. rtn' \in -1 .. 1
    BY <1>2
  <2> QED
    BY <1>3, <1>4, <2>1, <2>2, <2>3, Zenon DEF SysEventTypes
<1>6. released_unseen' \/ Seen(down', evtque', event', last_key')
  BY <1>1, <1>2, <1>3, <1>4 DEF Seen
<1> QED
  BY <1>2, <1>5, <1>6 DEF SysEventInd

LEMMA TimeKeeps ==
    ASSUME SysEventAssumption, SysEventInd, TimePasses
    PROVE  SysEventInd'
<1>1. /\ SysEventTypes
      /\ waits => evtque = <<>>
      /\ released_unseen \/ Seen(down, evtque, event, last_key)
  BY DEF SysEventInd
<1>2. /\ evtque' = [i \in DOMAIN evtque |-> [evtque[i] EXCEPT !.age = Older(@, LifeTime)]]
      /\ event' = [event EXCEPT !.age = Older(@, LifeTime)]
      /\ start_age' = Older(start_age, StartTime) /\ int_age' = Older(int_age, IntTime)
      /\ down' = down /\ waits' = waits /\ last_key' = last_key /\ repeat_flg' = repeat_flg
      /\ rtn' = rtn /\ released_unseen' = released_unseen
  BY DEF TimePasses
<1>3. LifeTime \in Nat /\ StartTime \in Nat /\ IntTime \in Nat
  BY ConstantsAreNat
<1>4. ASSUME NEW limit \in Nat, NEW age \in 0 .. limit
      PROVE  Older(age, limit) \in 0 .. limit
  BY DEF Older
<1>5. ASSUME NEW e \in Events
      PROVE  LET o == [e EXCEPT !.age = Older(@, LifeTime)] IN
             o \in Events /\ o.what = e.what /\ o.arg = e.arg
  <2>1. Older(e.age, LifeTime) \in 0 .. LifeTime
    BY <1>3, <1>4 DEF Events
  <2> QED
    BY <2>1 DEF Events
<1>6. event \in Events /\ evtque \in Seq(Events) /\ Len(evtque) <= MaxEvents /\ Len(evtque) \in Nat
      /\ DOMAIN evtque = 1 .. Len(evtque) /\ \A i \in 1 .. Len(evtque) : evtque[i] \in Events
  BY <1>1, LenProperties, ElementOfSeq DEF SysEventTypes
<1>7. event' \in Events /\ event'.what = event.what /\ event'.arg = event.arg
  BY <1>2, <1>5, <1>6
<1>8. /\ DOMAIN evtque' = 1 .. Len(evtque)
      /\ \A i \in 1 .. Len(evtque) : /\ evtque'[i] \in Events /\ evtque'[i].what = evtque[i].what
                                     /\ evtque'[i].arg = evtque[i].arg
  BY <1>2, <1>5, <1>6
<1>9. evtque' \in Seq(Events) /\ Len(evtque') = Len(evtque)
  <2>1. evtque' \in [1 .. Len(evtque) -> Events]
    BY <1>2, <1>6, <1>8
  <2>2. evtque' \in Seq(Events)
    BY <1>6, <2>1
  <2> QED
    BY <1>6, <2>1, <2>2, LenProperties
<1>10. start_age' \in 0 .. StartTime /\ int_age' \in 0 .. IntTime
  BY <1>1, <1>2, <1>3, <1>4 DEF SysEventTypes
<1>11. SysEventTypes'
  BY <1>1, <1>2, <1>6, <1>7, <1>9, <1>10 DEF SysEventTypes
<1>12. waits' => evtque' = <<>>
  <2>1. waits => Len(evtque) = 0
    BY <1>1, EmptySeq
  <2> QED
    BY <1>2, <1>9, <2>1, EmptySeq
<1>13. ASSUME NEW k, NEW from, Held(k, down, evtque, from)
       PROVE  Held(k, down', evtque', from)
  BY <1>2, <1>6, <1>8, <1>13 DEF Held
<1>14. ASSUME Seen(down, evtque, event, last_key)
       PROVE  Seen(down', evtque', event', last_key')
  <2>1. HeldInOrder(down', evtque')
    BY <1>6, <1>8, <1>13, <1>14 DEF Seen, HeldInOrder
  <2> QED
    BY <1>2, <1>7, <1>13, <1>14, <2>1 DEF Seen
<1> QED
  BY <1>1, <1>2, <1>11, <1>12, <1>14 DEF SysEventInd

LEMMA SysEventKept ==
    ASSUME SysEventAssumption, SysEventInd, [SysEventNext]_sysEventVars
    PROVE  SysEventInd'
<1>1. CASE WaitEvent
  <2>1. /\ evtque = <<>> /\ waits' = TRUE /\ down' = down /\ evtque' = evtque /\ event' = event
        /\ last_key' = last_key /\ repeat_flg' = repeat_flg /\ start_age' = start_age
        /\ int_age' = int_age /\ rtn' = rtn /\ released_unseen' = released_unseen
    BY <1>1 DEF WaitEvent, repeatVars
  <2> QED
    BY <2>1 DEF SysEventInd, SysEventTypes
<1>2. CASE UNCHANGED sysEventVars
  <2>1. /\ waits' = waits /\ down' = down /\ evtque' = evtque /\ event' = event
        /\ last_key' = last_key /\ repeat_flg' = repeat_flg /\ start_age' = start_age
        /\ int_age' = int_age /\ rtn' = rtn /\ released_unseen' = released_unseen
    BY <1>2 DEF sysEventVars
  <2> QED
    BY <2>1 DEF SysEventInd, SysEventTypes
<1>3. CASE \E changed \in (SUBSET Keys) \ {{}} : ScanKey(changed)
  <2>1. PICK changed \in (SUBSET Keys) \ {{}} : ScanKey(changed)
    BY <1>3
  <2>2. changed \in SUBSET Keys /\ changed # {}
    BY Zenon
  <2> QED
    BY <2>1, <2>2, ScanKeyKeeps, Zenon
<1>4. CASE SetEvent
  BY <1>4, SetEventKeeps
<1>5. CASE GetEvent
  BY <1>5, GetEventKeeps
<1>6. CASE NoEvent
  BY <1>6, NoEventKeeps
<1>7. CASE TimePasses
  BY <1>7, TimeKeeps
<1> QED
  BY <1>1, <1>2, <1>3, <1>4, <1>5, <1>6, <1>7, Zenon DEF SysEventNext

\* kernel/sysevent.c, for every number of keys, queue and times: get_event() takes
\* no key for pressed, and repeats none, that is not, unless its release was
\* dropped by a full queue or fetched too late.
THEOREM SysEventInvariant == SysEventSpec => []SysEventInv
<1> USE SysEventAssumption
<1>1. SysEventInd => SysEventInv
  <2> SUFFICES ASSUME SysEventInd PROVE SysEventInv
    OBVIOUS
  <2>1. MaxEvents \in Nat
    BY DEF SysEventAssumption
  <2>2. SysEventTypeOK
    BY <2>1, BoundedSequences DEF SysEventInd, SysEventTypes, SysEventTypeOK
  <2>3. RepeatedKeyIsDown
    BY DEF SysEventInd, Seen, Held, RepeatedKeyIsDown, ReleaseStored, IsRelease
  <2> QED
    BY <2>2, <2>3 DEF SysEventInv
<1>2. SysEventInd /\ [SysEventNext]_sysEventVars => SysEventInd'
  BY SysEventKept
<1>3. SysEventInit => SysEventInd
  BY SysEventBegins
<1> QED
  BY <1>1, <1>2, <1>3, PTL DEF SysEventSpec

=============================================================================
