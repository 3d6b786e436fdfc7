---------------------------- MODULE PipelineInv ----------------------------
(***************************************************************************)
(* The inductive invariant behind the properties of Pipeline: what is in   *)
(* SDRAM, in the cache and in the accelerator at each place of a run.      *)
(* PipelineProofs proves it; MCPipeline checks it.                         *)
(***************************************************************************)
EXTENDS Pipeline

Product == Mul(Lhs, Rhs)

ReadLhs == [addr |-> "lhs", channel |-> 1]
ReadRhs == [addr |-> "rhs", channel |-> 0]

(* The write DMA is only ever pointed at the destination or at address 0.  *)
TargetsOK == wrq \in Seq({"dst", "null"})

(* The descriptor of the instruction about to be sent is posted already.   *)
Backed == instr + Len(res) + (IF pc = "instr" THEN 1 ELSE 0) <= Len(wrq)

(* The places after sync1, where the patterns are in SDRAM, and those of   *)
(* matrix_mult16 and after.                                                *)
AfterSync1 == {"print1", "read1", "read2", "write", "instr", "poll", "sync2", "print2"}

ArgOK ==
    /\ pc \in AfterSync1 \cup {"memset", "pattern"} => arg = "none"
    /\ pc = "sync1" => arg \in {"none", "6"}
    /\ pc = "print8" => arg = "8"

PatternOf(b) == IF b = "lhs" THEN Lhs ELSE Rhs

(* From pattern on, what the CPU wrote is in SDRAM or will be; from sync1  *)
(* on it is in SDRAM, and no dirty line can overwrite SDRAM any more.      *)
Patterned ==
    /\ pc = "sync1" /\ arg = "none" =>
         \A b \in {"lhs", "rhs"} : IF b \in dirty THEN cached[b] = PatternOf(b)
                                                  ELSE mem[b] = PatternOf(b)
    /\ pc \in AfterSync1 =>
         /\ dirty = {}
         /\ mem["lhs"] = Lhs
         /\ mem["rhs"] = Rhs

(* Both reads are posted; none, one or both have been streamed.            *)
OperandsUnderway ==
    /\ res = << >>
    /\ \/ rdq = <<ReadLhs, ReadRhs>> /\ ch[1] = << >> /\ ch[0] = << >>
       \/ rdq = <<ReadRhs>> /\ ch[1] = <<Lhs>> /\ ch[0] = << >>
       \/ rdq = << >> /\ ch[1] = <<Lhs>> /\ ch[0] = <<Rhs>>

OneReadPosted ==
    /\ instr = 0 /\ res = << >> /\ wrq = << >> /\ ch[0] = << >>
    /\ \/ rdq = <<ReadLhs>> /\ ch[1] = << >>
       \/ rdq = << >> /\ ch[1] = <<Lhs>>

ProductUnderway ==
    /\ rdq = << >> /\ ch[0] = << >> /\ ch[1] = << >>
    /\ instr = 0 /\ res = <<Product>> /\ wrq = <<"dst">>

Delivered == HwIdle /\ mem["dst"] = Product

(* The accelerator at each place of a run that found it idle.              *)
CleanRun == clean =>
    /\ pc \in {"acquire", "diagnose", "print8", "memset", "pattern", "sync1",
               "print1", "read1"} => HwIdle
    /\ pc = "exit" /\ arg \notin {"4", "5"} => HwIdle
    /\ pc = "read2" => OneReadPosted
    /\ pc = "write" => OperandsUnderway /\ instr = 0 /\ wrq = << >>
    /\ pc = "instr" => OperandsUnderway /\ instr = 0 /\ wrq = <<"dst">>
    /\ pc = "poll" => \/ OperandsUnderway /\ instr = 1 /\ wrq = <<"dst">>
                      \/ ProductUnderway
                      \/ Delivered
    /\ pc \in {"sync2", "print2"} => Delivered
    /\ pc = "print2" => cached["dst"] \in {NoLine, Product}

(* The conjunction is inductive: every step of the host, of the engines    *)
(* and of the cache preserves it (main.c:164-312).                         *)
IInv ==
    /\ TypeOK
    /\ TargetsOK
    /\ Backed
    /\ FifoNeverOverflows
    /\ ArgOK
    /\ Patterned
    /\ CleanRun
    /\ ResultIsProduct
=============================================================================
