-------------------------------- MODULE Heap --------------------------------
(***************************************************************************)
(* The heap of the kernel, portable/MemMang/heap_5.c: free blocks in a     *)
(* list by address, over several regions of memory, each closed by a       *)
(* marker of size zero.  pvPortMalloc and the second half of vPortFree run *)
(* with the scheduler suspended and are one step each; between the first   *)
(* half of vPortFree and the second, other tasks run.                      *)
(*                                                                         *)
(* Addresses and sizes are numbers of bytes.  A block is known by the      *)
(* address of its header.                                                  *)
(***************************************************************************)
EXTENDS Integers, FiniteSets, Sequences, FiniteSetsExt, Functions

CONSTANTS
  Regions,             \* the argument of vPortDefineHeapRegions: <<start, size>> by address
  portBYTE_ALIGNMENT,
  SIZE_MAX,            \* the largest value of size_t
  Requests,            \* bound: the sizes asked of pvPortMalloc
  Arrays,              \* bound: <<xNum, xSize>> asked of pvPortCalloc
  Frees                \* bound: calls of vPortFree under way at a time

xHeapStructSize == portBYTE_ALIGNMENT    \* two words of four bytes, aligned
heapMINIMUM_BLOCK_SIZE == 2 * xHeapStructSize
AllocatedBit == (SIZE_MAX + 1) \div 2

NULL   == 0
xStart == 0 - portBYTE_ALIGNMENT         \* a static variable: outside every region

RoundDown(a) == portBYTE_ALIGNMENT * (a \div portBYTE_ALIGNMENT)
RoundUp(a)   == RoundDown(a + portBYTE_ALIGNMENT - 1)

\* The first block of a region and its end marker.
First(i)  == RoundUp(Regions[i][1])
Marker(i) == RoundDown(Regions[i][1] + Regions[i][2] - xHeapStructSize)
pxEnd     == Marker(Len(Regions))

Region  == 1 .. Len(Regions)
Address == {a \in UNION {First(i) .. Marker(i) : i \in Region} : a % portBYTE_ALIGNMENT = 0}

ASSUME HeapAssumption ==
  /\ portBYTE_ALIGNMENT \in Nat \ {0}
  /\ \A i \in Region : NULL < First(i) /\ First(i) < Marker(i)
  /\ \A i \in Region \ {1} : Marker(i - 1) < First(i)
  /\ SIZE_MAX + 1 > 2 * (pxEnd + xHeapStructSize)
  /\ Requests \subseteq 0 .. SIZE_MAX /\ Arrays \subseteq (0 .. SIZE_MAX) \X (0 .. SIZE_MAX)
  /\ Frees \in Nat

VARIABLES
  pxNextFreeBlock, xBlockSize,   \* the headers, without the top bit of the size
  allocated,                     \* the blocks with that bit set
  xFreeBytesRemaining, xMinimumEverFreeBytesRemaining,
  held,      \* the application's: the pointers it holds and what it asked for
  freeing    \* the blocks of the calls of vPortFree that have not got to the list yet

links    == <<pxNextFreeBlock, xBlockSize>>
counters == <<xFreeBytesRemaining, xMinimumEverFreeBytesRemaining>>
vars     == <<links, allocated, counters, held, freeing>>

\* vPortDefineHeapRegions: one free block for each region, in one list.
Init ==
  /\ pxNextFreeBlock = [a \in Address \cup {xStart} |->
       IF a = xStart THEN First(1)
       ELSE IF \E i \in Region : a = First(i) THEN Marker(CHOOSE i \in Region : a = First(i))
       ELSE IF \E i \in Region \ {1} : a = Marker(i - 1)
         THEN First(CHOOSE i \in Region : i # 1 /\ a = Marker(i - 1))
       ELSE NULL]
  /\ xBlockSize = [a \in Address \cup {xStart} |->
       IF \E i \in Region : a = First(i)
         THEN pxNextFreeBlock[a] - a ELSE 0]
  /\ allocated = {}
  /\ xFreeBytesRemaining = MapThenSumSet(LAMBDA i : Marker(i) - First(i), Region)
  /\ xMinimumEverFreeBytesRemaining = xFreeBytesRemaining
  /\ held = [p \in {} |-> 0]
  /\ freeing = {}

-----------------------------------------------------------------------------
(* Mutants: what the properties would catch. *)

InsertedAtFront(next, b)   == xStart
NeverTouches(size, a, b)   == FALSE
TouchesAcross(size, a, b)  == a + size[a] <= b
-----------------------------------------------------------------------------
(* The list *)

\* The block of the list after which b belongs.
InsertionPoint(next, b) ==
  LET from[a \in DOMAIN next] == IF next[a] < b THEN from[next[a]] ELSE a
  IN from[xStart]

\* Block b begins where block a ends.
Touches(size, a, b) == a + size[a] = b

\* prvInsertBlockIntoFreeList: b is joined with the block before it and with
\* the one behind it where they touch, but not with the end of the list.
InsertBlockIntoFreeList(next, size, b) ==
  LET before      == InsertionPoint(next, b)
      after       == next[before]
      joinsBefore == Touches(size, before, b)
      block       == IF joinsBefore THEN before ELSE b
      joined      == IF joinsBefore THEN [size EXCEPT ![before] = @ + size[b]] ELSE size
      joinsAfter  == Touches(joined, block, after) /\ after # pxEnd
  IN /\ pxNextFreeBlock' = [next EXCEPT ![before] = block,
                                        ![block] = IF joinsAfter THEN next[after] ELSE after]
     /\ xBlockSize' = [joined EXCEPT ![block] = @ + IF joinsAfter THEN size[after] ELSE 0]

\* The last block passed over by the search for one of n bytes.
Search(n) ==
  LET from[a \in DOMAIN pxNextFreeBlock] ==
        LET b == pxNextFreeBlock[a]
        IN IF xBlockSize[b] < n /\ pxNextFreeBlock[b] # NULL THEN from[b] ELSE a
  IN from[xStart]

-----------------------------------------------------------------------------
(* The calls *)

\* The size of the block for a request, with its header and its padding;
\* 0 for a request that is refused.
BlockSize(xWantedSize) ==
  LET more == xHeapStructSize + portBYTE_ALIGNMENT - (xWantedSize % portBYTE_ALIGNMENT)
  IN IF xWantedSize = 0 \/ xWantedSize > SIZE_MAX - more THEN 0 ELSE xWantedSize + more

Granted(n) ==
  /\ n < AllocatedBit
  /\ n > 0 /\ n <= xFreeBytesRemaining
  /\ pxNextFreeBlock[Search(n)] # pxEnd

Pointer(block) == block + xHeapStructSize

\* The least the count has been, once a block of this size is taken.
MinimumEver(taken) == Min({xMinimumEverFreeBytesRemaining, xFreeBytesRemaining - taken})

\* heapFREE_BLOCK
Unmarked(block) == allocated \ {block}

Malloc(xWantedSize) ==
  LET n        == BlockSize(xWantedSize)
      previous == Search(n)
      block    == pxNextFreeBlock[previous]
      rest     == xBlockSize[block] - n
      splits   == rest > heapMINIMUM_BLOCK_SIZE
      taken    == IF splits THEN n ELSE xBlockSize[block]
      unlinked == [pxNextFreeBlock EXCEPT ![previous] = pxNextFreeBlock[block], ![block] = NULL]
  IN /\ Granted(n)
     /\ IF splits
          THEN InsertBlockIntoFreeList(unlinked, [xBlockSize EXCEPT ![block] = n, ![block + n] = rest], block + n)
          ELSE pxNextFreeBlock' = unlinked /\ UNCHANGED xBlockSize
     /\ xFreeBytesRemaining' = xFreeBytesRemaining - taken
     /\ xMinimumEverFreeBytesRemaining' = MinimumEver(taken)
     /\ allocated' = allocated \cup {block}
     /\ held' = [p \in DOMAIN held \cup {Pointer(block)} |->
                   IF p = Pointer(block) THEN xWantedSize ELSE held[p]]
     /\ UNCHANGED freeing

\* pvPortCalloc: the clearing of the memory is left out.
Calloc(xNum, xSize) ==
  /\ ~(xNum > 0 /\ xSize > SIZE_MAX \div xNum)
  /\ Malloc(xNum * xSize)

\* vPortFree up to the suspension of the scheduler.
StartFree(pv) ==
  LET block == pv - xHeapStructSize
  IN /\ Cardinality(freeing) < Frees
     /\ block \in allocated /\ pxNextFreeBlock[block] = NULL
     /\ allocated' = Unmarked(block)
     /\ freeing' = freeing \cup {block}
     /\ held' = Restrict(held, DOMAIN held \ {pv})
     /\ UNCHANGED <<links, counters>>

\* The rest of vPortFree.
FinishFree(block) ==
  /\ xFreeBytesRemaining' = xFreeBytesRemaining + xBlockSize[block]
  /\ InsertBlockIntoFreeList(pxNextFreeBlock, xBlockSize, block)
  /\ freeing' = freeing \ {block}
  /\ UNCHANGED <<allocated, xMinimumEverFreeBytesRemaining, held>>

Next ==
  \/ \E n \in Requests : Malloc(n)
  \/ \E a \in Arrays : Calloc(a[1], a[2])
  \/ \E pv \in DOMAIN held : StartFree(pv)
  \/ \E block \in freeing : FinishFree(block)

Spec == Init /\ [][Next]_vars

-----------------------------------------------------------------------------
(* Properties *)

\* The blocks of the list, the regions' end markers that are still in it included.
InList ==
  LET from[a \in Address] == IF a = pxEnd THEN {} ELSE {a} \cup from[pxNextFreeBlock[a]]
  IN from[pxNextFreeBlock[xStart]]

FreeBlocks == {a \in InList : xBlockSize[a] > 0}

\* The aligned addresses in a block; sizes are multiples of the alignment.
Block(a) == {b \in Address : a <= b /\ b < a + xBlockSize[a]}

TypeOK ==
  /\ pxNextFreeBlock \in [Address \cup {xStart} -> Address \cup {NULL}]
  /\ xBlockSize \in [Address \cup {xStart} -> {n \in 0 .. pxEnd : n % portBYTE_ALIGNMENT = 0}]
  /\ allocated \subseteq Address /\ freeing \subseteq Address \ allocated
  /\ {xFreeBytesRemaining, xMinimumEverFreeBytesRemaining} \subseteq 0 .. pxEnd
  /\ \A p \in DOMAIN held : held[p] \in 1 .. SIZE_MAX

\* Nothing is lost and nothing belongs to two: each byte between a region's
\* start and its end marker lies in exactly one block, which is in the list, in
\* the application's hands, or on its way from one to the other; and what the
\* application was given ends before the next header.  (The splits and joins of
\* pvPortMalloc and prvInsertBlockIntoFreeList.)
BlocksTileRegions ==
  LET Blocks == FreeBlocks \cup allocated \cup freeing
  IN /\ UNION {Block(a) : a \in Blocks} = Address \ {Marker(i) : i \in Region}
     /\ \A a, b \in Blocks : a < b => a + xBlockSize[a] <= b
     /\ \A a \in allocated : Pointer(a) + held[Pointer(a)] <= a + xBlockSize[a]

\* xFreeBytesRemaining, by which a request is refused before the list is
\* searched, is the sum of the free blocks, and the list is in the order of the
\* addresses, on which the joins rely.
ListAgreesWithCount ==
  /\ xFreeBytesRemaining = MapThenSumSet(LAMBDA a : xBlockSize[a], FreeBlocks)
  /\ \A a \in InList : pxNextFreeBlock[a] > a

\* The free list, the blocks handed out and the count of free bytes agree with
\* each other and fill the regions.
HeapConsistent == TypeOK /\ BlocksTileRegions /\ ListAgreesWithCount

\* No fragmentation but what the callers cause: when the bytes that no caller
\* holds or is giving back contain a run long enough for a request, the request
\* is served.  It is for this that freed blocks are joined with their
\* neighbours, and that the end of a region is no obstacle.
ServesWhatFits ==
  \A w \in Requests \ {0} :
    LET n == BlockSize(w)
        Unused(a) == \A b \in allocated \cup freeing : a + n <= b \/ b + xBlockSize[b] <= a
    IN (\E i \in Region, a \in Address :
          /\ n > 0 /\ First(i) <= a /\ a + n <= Marker(i)
          /\ Unused(a))
       => Granted(n)

\* The heap is a pool of memory (MemoryPool): what it gives out is aligned, as
\* large as asked for, inside the regions and nobody else's.
Pool == INSTANCE MemoryPool WITH
  Memory <- UNION {Regions[i][1] .. Regions[i][1] + Regions[i][2] - 1 : i \in Region},
  Align  <- portBYTE_ALIGNMENT,
  Sizes  <- Requests \cup {a[1] * a[2] : a \in Arrays}
ImplementsPool == Pool!Spec

\* xNumberOfFreeBlocks, as vPortGetHeapStats counts, and what portable.h:147
\* says of it: "The number of free memory blocks within the heap at the time
\* vPortGetHeapStats() is called."
xNumberOfFreeBlocks == Cardinality(InList)
CountsFreeBlocks    == xNumberOfFreeBlocks = Cardinality(FreeBlocks)

=============================================================================
