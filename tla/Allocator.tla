------------------------------ MODULE Allocator ------------------------------
(***************************************************************************)
(* The heap of smolos, kernel/allocator.asm: a first-fit allocator over a  *)
(* doubly linked list of free blocks with a header in front of each.  A    *)
(* call runs to its end before another task can, so it is one action.      *)
(*                                                                         *)
(* Data: the memory is its headers, three words for each address at which  *)
(* a block may start; what a block holds is left out, and with it the      *)
(* clearing of a block that is handed out.                                 *)
(***************************************************************************)
EXTENDS Integers, FiniteSetsExt

CONSTANTS Header,               \* HEADER_SIZE, in bytes
          Slack,                \* what a carved block keeps besides a header
          LowStart, LowSize,    \* 0x1000, and up to MEMORY_TOP
          HighStart, HighSize,  \* 0x20000, 0xE0000
          Request,              \* sizes asked for
          Word                  \* values of a machine word, 2^32

Low  == LowStart .. LowStart + LowSize - 1
High == HighStart .. HighStart + HighSize - 1
Address == Low \cup High

ASSUME AllocatorAssumption ==
  /\ Header \in Nat \ {0} /\ Slack \in Nat
  /\ LowStart \in Nat \ {0} /\ LowSize \in Nat /\ LowSize >= Header
  /\ HighStart \in Nat /\ HighStart >= LowStart + LowSize
  /\ HighSize \in Nat /\ HighSize >= Header
  /\ Word \in Nat /\ HighStart + HighSize <= Word
  /\ Request \subseteq Nat \ {0}
  /\ \A n \in Request : n + Header + Header + Slack < Word

VARIABLES
  size, prev, next,  \* the words of the header at an address
  free_list_head,
  total_heap_size,
  given              \* the blocks handed out, with the size asked for

headerVars == <<size, prev, next, free_list_head>>
vars == <<headerVars, total_heap_size, given>>

(* initialize_allocator.                                                   *)
Init ==
  /\ free_list_head = LowStart
  /\ size = [a \in Address |-> IF a = LowStart THEN LowSize
                               ELSE IF a = HighStart THEN HighSize ELSE 0]
  /\ prev = [a \in Address |-> IF a = HighStart THEN LowStart ELSE 0]
  /\ next = [a \in Address |-> IF a = LowStart THEN HighStart ELSE 0]
  /\ total_heap_size = 0
  /\ given = {}

-----------------------------------------------------------------------------
(* The k-th block of the free list, and zero behind the last.              *)
Link[k \in 0 .. Cardinality(Address)] ==
  IF k = 0 THEN free_list_head
  ELSE LET b == Link[k - 1] IN IF b = 0 THEN 0 ELSE next[b]

(* real_size: what a block for n bytes takes.                              *)
RealSize(n) == (n + Header) % Word

(* allocate_memory_while_block: the first block with room, or zero.        *)
FitsPayload(b, n) == size[b] >= n
Fits(b, n) == size[b] >= RealSize(n)

FirstFit(n) ==
  Link[Min({k \in DOMAIN Link : Link[k] = 0 \/ Fits(Link[k], n)})]

(* allocate_memory_good_block_carve: the end of a large block is cut off.  *)
CarveAnyway(b, n) == size[b] > RealSize(n)
MayCarve(b, n) == size[b] > (RealSize(n) + Header + Slack) % Word

Carve(b, n) ==
  LET rest == size[b] - RealSize(n) IN
  /\ size' = [size EXCEPT ![b] = rest, ![b + rest] = RealSize(n)]
  /\ given' = given \cup {<<b + rest + Header, n>>}
  /\ UNCHANGED <<prev, next, free_list_head>>

(* A smaller one is taken out of the list, with all it has.                *)
UnlinkNextOnly(b) ==
  /\ next' = [a \in Address |-> IF a = prev[b] THEN next[b] ELSE next[a]]
  /\ free_list_head' = IF prev[b] = 0 THEN next[b] ELSE free_list_head
  /\ UNCHANGED prev
Unlink(b) ==
  /\ prev' = [a \in Address |-> IF a = next[b] THEN prev[b] ELSE prev[a]]
  /\ next' = [a \in Address |-> IF a = prev[b] THEN next[b] ELSE next[a]]
  /\ free_list_head' = IF prev[b] = 0 THEN next[b] ELSE free_list_head

TakeWhole(b, n) ==
  /\ Unlink(b)
  /\ given' = given \cup {<<b + Header, n>>}
  /\ UNCHANGED size

(* allocate_memory; without a block that fits it returns zero.             *)
Allocate(n) ==
  LET b == FirstFit(n) IN
  IF b = 0 THEN UNCHANGED vars
  ELSE /\ IF MayCarve(b, n) THEN Carve(b, n) ELSE TakeWhole(b, n)
       /\ total_heap_size' = (total_heap_size + RealSize(n)) % Word

(* free_memory: the block becomes the first of the list.                   *)
HeaderOf(p) == p - Header

Free(g) ==
  LET b == HeaderOf(g[1]) IN
  /\ total_heap_size' = (total_heap_size - size[b]) % Word
  /\ prev' = [a \in Address |-> IF a = b THEN 0
                                ELSE IF a = free_list_head THEN b ELSE prev[a]]
  /\ next' = [next EXCEPT ![b] = free_list_head]
  /\ free_list_head' = b
  /\ given' = given \ {g}
  /\ UNCHANGED size

Next == (\E n \in Request : Allocate(n)) \/ (\E g \in given : Free(g))

Spec == Init /\ [][Next]_vars

-----------------------------------------------------------------------------
FreeBlocks == {Link[k] : k \in DOMAIN Link} \ {0}
LiveBlocks == {HeaderOf(g[1]) : g \in given}
Extent(b) == b .. b + size[b] - 1

(* The blocks, free and handed out, tile the heap: none is both, none      *)
(* overlaps another, none is lost, and each has room for its header, so    *)
(* that linking a block never writes into its neighbour.                   *)
Tiled ==
  LET blocks == FreeBlocks \cup LiveBlocks IN
  /\ FreeBlocks \cap LiveBlocks = {}
  /\ UNION {Extent(b) : b \in blocks} = Address
  /\ \A b, c \in blocks : b # c => Extent(b) \cap Extent(c) = {}
  /\ \A b \in blocks : size[b] >= Header

(* The free list ends, and reads the same from the back, so that a block   *)
(* can be taken out of its middle.                                         *)
ListLinked ==
  /\ \E k \in DOMAIN Link : Link[k] = 0
  /\ \A k \in DOMAIN Link : Link[k] # 0 =>
       prev[Link[k]] = IF k = 0 THEN 0 ELSE Link[k - 1]

(* What was handed out is disjoint memory of the heap (Heap.tla).          *)
Promise == INSTANCE Heap WITH HeapBytes <- Address, Size <- Request
HeapKept == Promise!Spec
=============================================================================
