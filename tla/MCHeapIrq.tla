------------------------------ MODULE MCHeapIrq ------------------------------
(* Model-checking instance of HeapIrq: the 256-byte heap of MCBuddyHeap   *)
(* (orders 5 to 8, a 16-bit size_t), and a thread asking for a minimum    *)
(* block or one of order 6, so that some kmalloc splits and some does    *)
(* not.                                                                    *)
EXTENDS HeapIrq

MCRequests == {24, 40}

==============================================================================
