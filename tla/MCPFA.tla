--------------------------------- MODULE MCPFA ---------------------------------
(* Model-checking instance of PFA at a scale of 8 bytes per frame: 18    *)
(* frames in five 4-bit bitmap words (two padding bits), a first "MiB"   *)
(* of 4 frames, the kernel from frame 4 and the bitmap (20 bytes, three *)
(* frames) right after it, which leaves nine frames to hand out.         *)
EXTENDS PFA

E(b, l, t) == [base |-> b, len |-> l, type |-> t]

\* every byte below total_frames is usable RAM
MCFlatMap == <<E(0, 144, 1)>>

\* the PC map: usable low memory ends below the first MiB (0x9FC00), the
\* BIOS area up to the first MiB is reserved, usable RAM follows
MCPCMap == <<E(0, 28, 1), E(28, 4, 2), E(32, 112, 1)>>
==============================================================================
