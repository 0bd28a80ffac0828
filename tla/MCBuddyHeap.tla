----------------------------- MODULE MCBuddyHeap -----------------------------
(* Model-checking instance of BuddyHeap: a heap of 256 bytes (max_order  *)
(* 8) of 32-byte minimum blocks, so four orders and eight minimum blocks, *)
(* and a 16-bit size_t.                                                    *)
EXTENDS BuddyHeap

\* one request per order, and one that no block holds (257 + 7 > 256)
MCRequests == {24, 25, 100, 248, 249}

==============================================================================
