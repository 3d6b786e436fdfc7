---------------------------- MODULE Accelerator ----------------------------
(***************************************************************************)
(* The FPGA side of the bridge, as far as src/src/main.c uses it: the      *)
(* read-DMA descriptor queue, the two input channels of the systolic core, *)
(* the instruction FIFO, the result stream and the write-DMA descriptor    *)
(* FIFO.  None of it is in the repository; every action below is external  *)
(* and is what the host code relies on.                                    *)
(*                                                                         *)
(* A 16x16 matrix is one opaque value.  Mul is the product of a left and a *)
(* right matrix.  The hardware keeps its state when the host process ends. *)
(***************************************************************************)
EXTENDS Integers, Sequences

CONSTANTS
    Matrix,         \* the matrices that can occur
    Mul(_, _),      \* the product the systolic core computes
    FifoDepth       \* FIFO_INSTR_IN_CSR_FIFO_DEPTH

ASSUME MulAssumption  == \A a, b \in Matrix : Mul(a, b) \in Matrix
ASSUME FifoAssumption == FifoDepth \in Nat \ {0}

VARIABLES
    mem,            \* SDRAM, as the DMA engines see it
    rdq,            \* read-DMA descriptors not yet executed
    ch,             \* matrices streamed into the core, per channel
    instr,          \* fill level of the instruction FIFO
    res,            \* products on their way to the write DMA
    wrq             \* write-DMA descriptors not yet completed

hwVars == <<mem, rdq, ch, instr, res, wrq>>

(* The three matrices of the buffer (mat[0], mat[1], mat[2]) and physical  *)
(* address 0, the target of diagnostic '4'.                                *)
Blocks  == {"dst", "lhs", "rhs"}
Addr    == Blocks \cup {"null"}
Channel == {0, 1}

Descriptor == [addr : Addr, channel : Channel]

HwTypeOK ==
    /\ mem   \in [Addr -> Matrix]
    /\ rdq   \in Seq(Descriptor)
    /\ ch    \in [Channel -> Seq(Matrix)]
    /\ instr \in Nat
    /\ res   \in Seq(Matrix)
    /\ wrq   \in Seq(Addr)

(* Nothing queued, nothing in flight.                                      *)
HwIdle ==
    /\ rdq = << >> /\ ch[0] = << >> /\ ch[1] = << >>
    /\ instr = 0 /\ res = << >> /\ wrq = << >>

(* *(write_dma.csr): non-zero from the posting of a descriptor until its   *)
(* matrix is in SDRAM.                                                     *)
WriteStatus == IF wrq = << >> THEN 0 ELSE 1

----------------------------------------------------------------------------
(* The read DMA streams the matrix at the oldest descriptor's address into *)
(* the descriptor's channel.                                               *)
ReadDma ==
    /\ rdq # << >>
    /\ ch' = [ch EXCEPT ![Head(rdq).channel] = Append(@, mem[Head(rdq).addr])]
    /\ rdq' = Tail(rdq)
    /\ UNCHANGED <<mem, instr, res, wrq>>

(* The core takes an instruction and one matrix from each channel:         *)
(* channel 1 carries the left operand, channel 0 the right one.            *)
Compute ==
    /\ instr > 0 /\ ch[0] # << >> /\ ch[1] # << >>
    /\ res' = Append(res, Mul(Head(ch[1]), Head(ch[0])))
    /\ ch' = [c \in Channel |-> Tail(ch[c])]
    /\ instr' = instr - 1
    /\ UNCHANGED <<mem, rdq, wrq>>

(* The write DMA stores the oldest product at the oldest posted address.   *)
WriteDma ==
    /\ res # << >> /\ wrq # << >>
    /\ mem' = [mem EXCEPT ![Head(wrq)] = Head(res)]
    /\ res' = Tail(res)
    /\ wrq' = Tail(wrq)
    /\ UNCHANGED <<rdq, ch, instr>>
=============================================================================
