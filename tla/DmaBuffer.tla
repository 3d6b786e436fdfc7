----------------------------- MODULE DmaBuffer -----------------------------
(***************************************************************************)
(* The u-dma-buf buffer as the CPU sees it.  mu_get_udmabuf selects        *)
(* sync_mode 0, so the CPU's accesses go through its data cache while the  *)
(* FPGA's DMA engines access SDRAM beside it.  Nothing but                 *)
(* mu_udmabuf_sync_for_device and mu_udmabuf_sync_for_cpu makes the two    *)
(* agree.  A cache line is abstracted to a whole matrix.                   *)
(***************************************************************************)
EXTENDS Accelerator

CONSTANTS
    NoLine,         \* "the matrix is not cached"
    BufSize         \* the buffer's size attribute, in bytes

VARIABLES
    cached,         \* the CPU's copy of each matrix, or NoLine
    dirty           \* the cached matrices that SDRAM does not have yet

cacheVars == <<cached, dirty>>

MatBytes == 256     \* sizeof(matrix_t)

(* sync_size & 0xFFFFFFF0: the low four bits carry the direction and the   *)
(* enable flag.                                                            *)
SyncBytes(size) == size - (size % 16)

(* The end of each matrix in the buffer: mat[0], mat[1], mat[2].           *)
EndOf == [dst |-> MatBytes, lhs |-> 2 * MatBytes, rhs |-> 3 * MatBytes]

(* The matrices that a sync of (0, size) reaches.                          *)
Synced == {b \in Blocks : EndOf[b] <= SyncBytes(BufSize)}

(* main.c never compares the size attribute with the three matrices it     *)
(* places in the buffer: this is an assumption on the board's set-up.      *)
ASSUME BufferAssumption ==
    /\ NoLine \notin Matrix
    /\ BufSize \in Nat
    /\ SyncBytes(BufSize) >= 3 * MatBytes

CacheTypeOK ==
    /\ cached \in [Blocks -> Matrix \cup {NoLine}]
    /\ dirty \in SUBSET {b \in Blocks : cached[b] # NoLine}

(* What a load of matrix b returns.                                        *)
CpuView(b) == IF cached[b] = NoLine THEN mem[b] ELSE cached[b]

(* Stores to the matrices in DOMAIN w; they stay in the cache.             *)
CpuWrite(w) ==
    /\ cached' = [b \in Blocks |-> IF b \in DOMAIN w THEN w[b] ELSE cached[b]]
    /\ dirty' = dirty \cup DOMAIN w
    /\ UNCHANGED hwVars

(* Loads of the matrices in S; they are in the cache afterwards.           *)
CpuRead(S) ==
    /\ cached' = [b \in Blocks |-> IF b \in S THEN CpuView(b) ELSE cached[b]]
    /\ UNCHANGED <<dirty, hwVars>>

(* mu_udmabuf_sync_for_device: dirty lines are written back and stay valid.*)
SyncForDevice ==
    /\ mem' = [a \in Addr |-> IF a \in dirty \cap Synced THEN cached[a] ELSE mem[a]]
    /\ dirty' = dirty \ Synced
    /\ UNCHANGED <<cached, rdq, ch, instr, res, wrq>>

(* The mutant that invalidates the lines and still counts them as dirty.   *)
SyncForCpuKeepsDirty ==
    /\ cached' = [b \in Blocks |-> IF b \in Synced THEN NoLine ELSE cached[b]]
    /\ UNCHANGED <<dirty, hwVars>>

(* mu_udmabuf_sync_for_cpu: the lines are invalidated.                     *)
SyncForCpu ==
    /\ cached' = [b \in Blocks |-> IF b \in Synced THEN NoLine ELSE cached[b]]
    /\ dirty' = dirty \ Synced
    /\ UNCHANGED hwVars

----------------------------------------------------------------------------
(* What the CPU does unasked: it may drop a line, writing it back if it is *)
(* dirty, and it may load one speculatively.                               *)
Evict(b) ==
    /\ cached[b] # NoLine
    /\ cached' = [cached EXCEPT ![b] = NoLine]
    /\ mem' = IF b \in dirty THEN [mem EXCEPT ![b] = cached[b]] ELSE mem
    /\ dirty' = dirty \ {b}
    /\ UNCHANGED <<rdq, ch, instr, res, wrq>>

Prefetch(b) ==
    /\ cached[b] = NoLine
    /\ cached' = [cached EXCEPT ![b] = mem[b]]
    /\ UNCHANGED <<dirty, hwVars>>
=============================================================================
