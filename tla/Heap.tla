-------------------------------- MODULE Heap --------------------------------
(***************************************************************************)
(* What an allocator promises: a block it hands out lies in the heap, is   *)
(* as large as was asked for, and shares no byte with another one that was *)
(* not given back.  It may fail at any time.                               *)
(***************************************************************************)
EXTENDS Naturals

CONSTANTS HeapBytes, Size

VARIABLES given  \* the blocks handed out: pointer and number of bytes

Bytes(b) == b[1] .. b[1] + b[2] - 1

Init == given = {}

Allocate(n) ==
  \E p \in HeapBytes :
    /\ Bytes(<<p, n>>) \subseteq HeapBytes
    /\ \A b \in given : Bytes(b) \cap Bytes(<<p, n>>) = {}
    /\ given' = given \cup {<<p, n>>}

Free(b) == given' = given \ {b}

Next == (\E n \in Size : Allocate(n)) \/ (\E b \in given : Free(b))

Spec == Init /\ [][Next]_given
=============================================================================
