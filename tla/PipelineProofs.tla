--------------------------- MODULE PipelineProofs ---------------------------
(***************************************************************************)
(* Proofs about Pipeline, for every set of matrices, every product, every  *)
(* FIFO depth, every sufficient buffer size and any number of runs.        *)
(***************************************************************************)
EXTENDS PipelineInv, SequenceTheorems, TLAPS

(* The three matrices lie in the part of the buffer that a sync reaches.   *)
LEMMA SyncedAll == Synced = Blocks
  BY BufferAssumption DEF Synced, Blocks, EndOf, MatBytes, SyncBytes

(* The program starts in a state of the declared types.                    *)
LEMMA TypeInit == Init => TypeOK
<1> SUFFICES ASSUME Init PROVE TypeOK
  OBVIOUS
<1>1. HwTypeOK
  BY PatternAssumption DEF Init, HwTypeOK, Channel
<1>2. CacheTypeOK
  BY DEF Init, CacheTypeOK
<1>3. pc \in Place /\ arg \in Mode /\ runs \in Nat
  BY DEF Init, Place, Mode
<1>4. clean \in BOOLEAN /\ printed \in Matrix \cup {NoLine}
  BY DEF Init
<1> QED BY <1>1, <1>2, <1>3, <1>4 DEF TypeOK

(* The engines preserve the types (Accelerator).                           *)
LEMMA TypeHardware ==
  ASSUME TypeOK, Hardware
  PROVE  TypeOK'
<1> USE DEF TypeOK, HwTypeOK, hostVars, cacheVars, progVars, CacheTypeOK
<1>1. CASE ReadDma
  <2>1. Head(rdq) \in Descriptor /\ Tail(rdq) \in Seq(Descriptor)
    BY <1>1 DEF ReadDma
  <2>2. Head(rdq).channel \in Channel /\ mem[Head(rdq).addr] \in Matrix
    BY <2>1 DEF Descriptor
  <2>3. ch' \in [Channel -> Seq(Matrix)]
    BY <1>1, <2>2 DEF ReadDma
  <2> QED BY <1>1, <2>1, <2>3 DEF Hardware, ReadDma
<1>2. CASE Compute
  BY <1>2, MulAssumption DEF Hardware, Compute, Channel
<1>3. CASE WriteDma
  BY <1>3 DEF Hardware, WriteDma
<1> QED BY <1>1, <1>2, <1>3 DEF Hardware

(* So do the unasked steps of the cache (DmaBuffer).                       *)
LEMMA TypeCache ==
  ASSUME TypeOK, Cache
  PROVE  TypeOK'
<1> USE DEF TypeOK, HwTypeOK, progVars, CacheTypeOK
<1> PICK b \in Blocks : Evict(b) \/ Prefetch(b)
  BY DEF Cache
<1>1. CASE Evict(b)
  BY <1>1 DEF Cache, Evict, Addr
<1>2. CASE Prefetch(b)
  BY <1>2 DEF Cache, Prefetch, hwVars, Addr
<1> QED BY <1>1, <1>2

(* The accesses and syncs of the buffer preserve the types.                *)
LEMMA TypeBuffer ==
  ASSUME HwTypeOK, CacheTypeOK
  PROVE  /\ \A S \in SUBSET Blocks : CpuRead(S) => HwTypeOK' /\ CacheTypeOK'
         /\ \A S \in SUBSET Blocks : \A w \in [S -> Matrix] :
               CpuWrite(w) => HwTypeOK' /\ CacheTypeOK'
         /\ SyncForDevice => HwTypeOK' /\ CacheTypeOK'
         /\ SyncForCpu => HwTypeOK' /\ CacheTypeOK'
<1> USE DEF HwTypeOK, CacheTypeOK, hwVars, Addr
<1>1. ASSUME NEW S \in SUBSET Blocks, CpuRead(S)
      PROVE  HwTypeOK' /\ CacheTypeOK'
  BY <1>1 DEF CpuRead, CpuView
<1>2. ASSUME NEW S \in SUBSET Blocks, NEW w \in [S -> Matrix], CpuWrite(w)
      PROVE  HwTypeOK' /\ CacheTypeOK'
  <2>1. DOMAIN w = S
    OBVIOUS
  <2>2. cached' \in [Blocks -> Matrix \cup {NoLine}]
    BY <1>2, <2>1 DEF CpuWrite
  <2>3. ASSUME NEW b \in dirty' PROVE b \in Blocks /\ cached'[b] # NoLine
    BY <1>2, <2>1, <2>3, BufferAssumption DEF CpuWrite
  <2> QED BY <1>2, <2>2, <2>3 DEF CpuWrite
<1>3. ASSUME SyncForDevice PROVE HwTypeOK' /\ CacheTypeOK'
  BY <1>3 DEF SyncForDevice
<1>4. ASSUME SyncForCpu PROVE HwTypeOK' /\ CacheTypeOK'
  BY <1>4 DEF SyncForCpu
<1> QED BY <1>1, <1>2, <1>3, <1>4

(* The steps of the host preserve the types (main.c:195-330).              *)
LEMMA TypeHost ==
  ASSUME TypeOK, Host \/ Kill \/ \E a \in Mode : Main(a)
  PROVE  TypeOK'
<1> USE DEF Goto, Place, progVars
<1>u. ASSUME UNCHANGED <<hwVars, cacheVars>>
      PROVE  HwTypeOK' /\ CacheTypeOK'
  BY <1>u DEF TypeOK, HwTypeOK, CacheTypeOK, hwVars, cacheVars
<1>p. printed' = printed => printed' \in Matrix \cup {NoLine}
  BY DEF TypeOK
<1>1. CASE \E a \in Mode : Main(a)
  <2>1. clean' \in BOOLEAN
    BY <1>1 DEF Main, HwIdle
  <2> QED BY <1>1, <1>u, <2>1 DEF Main, TypeOK
<1>2. CASE Acquire \/ AcquireFails \/ Exit \/ Kill
  BY <1>2, <1>u DEF Acquire, AcquireFails, Exit, Kill, TypeOK
<1>3. CASE Diagnose
  <2>1. CASE DiagInspect \/ DiagSyncFails
    BY <2>1, <1>u DEF DiagInspect, DiagSyncFails, TypeOK
  <2>2. CASE DiagPrint \/ DiagPrintDst
    <3>1. HwTypeOK' /\ CacheTypeOK'
      BY <2>2, TypeBuffer DEF DiagPrint, DiagPrintDst, TypeOK, Blocks
    <3> QED BY <2>2, <3>1 DEF DiagPrint, DiagPrintDst, TypeOK
  <2>3. CASE DiagWrite
    BY <2>3 DEF DiagWrite, TypeOK, HwTypeOK, CacheTypeOK, cacheVars, Addr, Blocks
  <2>4. CASE DiagClear
    <3>1. [b \in {"dst"} |-> Zero] \in [{"dst"} -> Matrix]
      BY PatternAssumption
    <3>2. HwTypeOK' /\ CacheTypeOK'
      BY <2>4, <3>1, TypeBuffer DEF DiagClear, TypeOK, Blocks
    <3> QED BY <2>4, <3>2 DEF DiagClear, TypeOK
  <2>5. CASE DiagSync
    BY <2>5, TypeBuffer DEF DiagSync, TypeOK
  <2> QED BY <1>3, <2>1, <2>2, <2>3, <2>4, <2>5 DEF Diagnose
<1>4. CASE Multiply
  <2>1. CASE Memset
    <3>1. [b \in Blocks |-> Zero] \in [Blocks -> Matrix]
      BY PatternAssumption
    <3>2. HwTypeOK' /\ CacheTypeOK'
      BY <2>1, <3>1, TypeBuffer DEF Memset, TypeOK
    <3> QED BY <2>1, <3>2 DEF Memset, TypeOK
  <2>2. CASE Pattern
    <3> DEFINE w == [b \in {"lhs", "rhs"} |-> IF b = "lhs" THEN Lhs ELSE Rhs]
    <3>1. w \in [{"lhs", "rhs"} -> Matrix]
      BY PatternAssumption
    <3>2. CpuWrite(w)
      BY <2>2 DEF Pattern
    <3> HIDE DEF w
    <3>3. HwTypeOK' /\ CacheTypeOK'
      BY <3>1, <3>2, TypeBuffer DEF TypeOK, Blocks
    <3> QED BY <2>2, <3>3 DEF Pattern, TypeOK
  <2>3. CASE Sync1
    BY <2>3, TypeBuffer DEF Sync1, TypeOK
  <2>4. CASE Sync1Fails \/ Poll \/ Sync2Fails
    BY <2>4, <1>u DEF Sync1Fails, Poll, Sync2Fails, TypeOK
  <2>5. CASE Print1
    BY <2>5, TypeBuffer DEF Print1, TypeOK
  <2>6. CASE Read1 \/ Read2
    <3>1. /\ [addr |-> "lhs", channel |-> 1] \in Descriptor
          /\ [addr |-> "rhs", channel |-> 0] \in Descriptor
      BY DEF Descriptor, Addr, Blocks, Channel
    <3>2. \E d \in Descriptor : rdq' = Append(rdq, d)
      BY <2>6, <3>1, Zenon DEF Read1, Read2, SendRead
    <3>3. rdq' \in Seq(Descriptor)
      BY <3>2 DEF TypeOK, HwTypeOK
    <3> QED BY <2>6, <3>3
            DEF Read1, Read2, SendRead, TypeOK, HwTypeOK, CacheTypeOK, cacheVars
  <2>7. CASE Write
    BY <2>7 DEF Write, TypeOK, HwTypeOK, CacheTypeOK, cacheVars, Addr, Blocks
  <2>8. CASE Instr
    BY <2>8 DEF Instr, TypeOK, HwTypeOK, CacheTypeOK, cacheVars
  <2>9. CASE Sync2
    BY <2>9, TypeBuffer DEF Sync2, TypeOK
  <2>10. CASE Print2
    <3>1. HwTypeOK' /\ CacheTypeOK'
      BY <2>10, TypeBuffer DEF Print2, TypeOK
    <3>2. printed' \in Matrix \cup {NoLine}
      BY <2>10 DEF Print2, CpuView, TypeOK, HwTypeOK, CacheTypeOK, Addr, Blocks
    <3> QED BY <2>10, <3>1, <3>2 DEF Print2, TypeOK
  <2> QED BY <1>4, <2>1, <2>2, <2>3, <2>4, <2>5, <2>6, <2>7, <2>8, <2>9, <2>10
          DEF Multiply
<1> QED BY <1>1, <1>2, <1>3, <1>4 DEF Host

(* Every step preserves the types.                                         *)
LEMMA TypeStep ==
  ASSUME TypeOK, [Next]_vars
  PROVE  TypeOK'
<1>1. CASE UNCHANGED vars
  BY <1>1 DEF vars, TypeOK, HwTypeOK, CacheTypeOK, hwVars, cacheVars, progVars
<1> QED BY <1>1, TypeHost, TypeHardware, TypeCache DEF Next

(* The program, its buffer and the accelerator stay within their types.    *)
THEOREM TypeCorrect == Spec => []TypeOK
<1> QED BY TypeInit, TypeStep, PTL DEF Spec

----------------------------------------------------------------------------
(* What the steps do to the descriptors and instructions in flight.        *)

(* A step of the host either leaves the four counted queues alone, or      *)
(* posts a descriptor, or replaces the promise of an instruction (being at *)
(* place "instr") by the instruction.                                      *)
LEMMA FlightStep ==
  ASSUME TypeOK, [Next]_vars
  PROVE  \/ /\ UNCHANGED <<instr, res, wrq>>
            /\ pc' # "instr" \/ pc' = pc
         \/ /\ \E t \in {"dst", "null"} : wrq' = Append(wrq, t)
            /\ UNCHANGED <<instr, res>>
            /\ pc # "instr"
         \/ /\ pc = "instr" /\ pc' = "poll"
            /\ instr < FifoDepth /\ instr' = instr + 1
            /\ UNCHANGED <<res, wrq>>
         \/ /\ instr > 0 /\ instr' = instr - 1
            /\ \E m \in Matrix : res' = Append(res, m)
            /\ UNCHANGED <<wrq, pc>>
         \/ /\ res # << >> /\ wrq # << >>
            /\ res' = Tail(res) /\ wrq' = Tail(wrq)
            /\ UNCHANGED <<instr, pc>>
<1> USE DEF Goto, hwVars
<1>1. CASE UNCHANGED vars
  BY <1>1 DEF vars
<1>2. CASE \E a \in Mode : Main(a)
  BY <1>2 DEF Main
<1>3. CASE Acquire \/ AcquireFails \/ Exit \/ Kill
  BY <1>3 DEF Acquire, AcquireFails, Exit, Kill
<1>4. CASE Diagnose
  BY <1>4 DEF Diagnose, DiagInspect, DiagPrint, DiagWrite, DiagClear, DiagSync,
              DiagSyncFails, DiagPrintDst, CpuRead, CpuWrite, SyncForCpu
<1>5. CASE Memset \/ Pattern \/ Sync1 \/ Sync1Fails \/ Print1 \/ Read1 \/ Read2
  BY <1>5 DEF Memset, Pattern, Sync1, Sync1Fails, Print1, Read1, Read2, SendRead,
              CpuRead, CpuWrite, SyncForDevice
<1>6. CASE Write
  BY <1>6 DEF Write
<1>7. CASE Instr
  BY <1>7, FifoAssumption DEF Instr, TypeOK, HwTypeOK
<1>8. CASE Poll \/ Sync2 \/ Sync2Fails \/ Print2
  BY <1>8 DEF Poll, Sync2, Sync2Fails, Print2, CpuRead, SyncForCpu
<1>9. CASE Hardware
  <2>1. CASE ReadDma
    BY <1>9, <2>1 DEF Hardware, ReadDma, hostVars
  <2>2. CASE Compute
    <3>1. Head(ch[1]) \in Matrix /\ Head(ch[0]) \in Matrix
      BY <2>2 DEF Compute, TypeOK, HwTypeOK, Channel
    <3>2. Mul(Head(ch[1]), Head(ch[0])) \in Matrix
      BY <3>1, MulAssumption
    <3> QED BY <1>9, <2>2, <3>2 DEF Hardware, Compute, hostVars
  <2>3. CASE WriteDma
    BY <1>9, <2>3 DEF Hardware, WriteDma, hostVars
  <2> QED BY <1>9, <2>1, <2>2, <2>3 DEF Hardware
<1>10. CASE Cache
  BY <1>10 DEF Cache, Evict, Prefetch
<1> QED BY <1>1, <1>2, <1>3, <1>4, <1>5, <1>6, <1>7, <1>8, <1>9, <1>10
        DEF Next, Host, Multiply

(* Write descriptors stay pointed at the destination or at address 0.      *)
LEMMA TargetsStep ==
  ASSUME TypeOK, TargetsOK, [Next]_vars
  PROVE  TargetsOK'
<1> DEFINE Targets == {"dst", "null"}
<1>1. \/ wrq' = wrq
      \/ \E t \in Targets : wrq' = Append(wrq, t)
      \/ wrq # << >> /\ wrq' = Tail(wrq)
  BY FlightStep
<1>2. wrq \in Seq(Targets)
  BY DEF TargetsOK
<1> HIDE DEF Targets
<1>3. wrq' \in Seq(Targets)
  BY <1>1, <1>2
<1> QED BY <1>3 DEF TargetsOK, Targets

(* Instructions stay backed by descriptors, and their FIFO within bounds.  *)
LEMMA BackedStep ==
  ASSUME TypeOK, Backed, FifoNeverOverflows, [Next]_vars
  PROVE  Backed' /\ FifoNeverOverflows'
  BY FlightStep, FifoAssumption DEF Backed, FifoNeverOverflows, TypeOK, HwTypeOK

(* No step makes an orphaned descriptor disappear.                         *)
LEMMA OrphansStep ==
  ASSUME TypeOK, [Next]_vars
  PROVE  Orphans' >= Orphans
<1>1. Len(wrq) \in Nat /\ Len(res) \in Nat /\ instr \in Nat
  BY DEF TypeOK, HwTypeOK
<1> QED BY <1>1, FlightStep DEF Orphans, TypeOK, HwTypeOK

----------------------------------------------------------------------------
(* The mode of a run determines its path through _pipeline.                *)
LEMMA ArgStep ==
  ASSUME ArgOK, [Next]_vars
  PROVE  ArgOK'
<1> USE DEF ArgOK, AfterSync1, Goto, progVars
<1>1. CASE UNCHANGED vars
  BY <1>1 DEF vars
<1>2. CASE \E a \in Mode : Main(a)
  BY <1>2 DEF Main
<1>3. CASE Acquire \/ AcquireFails \/ Exit \/ Kill
  BY <1>3 DEF Acquire, AcquireFails, Exit, Kill
<1>4. CASE Diagnose
  BY <1>4 DEF Diagnose, DiagInspect, DiagPrint, DiagWrite, DiagClear, DiagSync,
              DiagSyncFails, DiagPrintDst
<1>5. CASE Multiply
  BY <1>5 DEF Multiply, Memset, Pattern, Sync1, Sync1Fails, Print1, Read1, Read2,
              SendRead, Write, Instr, Poll, Sync2, Sync2Fails, Print2
<1>6. CASE Hardware \/ Cache
  BY <1>6 DEF Hardware, Cache, hostVars
<1> QED BY <1>1, <1>2, <1>3, <1>4, <1>5, <1>6 DEF Next, Host

(* The patterns reach SDRAM at sync1 and stay there: afterwards no line is *)
(* dirty and the write DMA does not touch the operands.                    *)
LEMMA PatternedStep ==
  ASSUME TypeOK, TargetsOK, ArgOK, Patterned, [Next]_vars
  PROVE  Patterned'
<1> USE DEF Patterned, AfterSync1, Goto
<1>1. CASE UNCHANGED vars
  BY <1>1 DEF vars, hwVars, cacheVars, progVars, PatternOf
<1>2. CASE \E a \in Mode : Main(a)
  BY <1>2 DEF Main
<1>3. CASE Acquire \/ AcquireFails \/ Exit \/ Kill
  BY <1>3 DEF Acquire, AcquireFails, Exit, Kill
<1>4. CASE Diagnose
  BY <1>4 DEF Diagnose, DiagInspect, DiagPrint, DiagWrite, DiagClear, DiagSync,
              DiagSyncFails, DiagPrintDst, progVars
<1>5. CASE Memset \/ Sync1Fails \/ Sync2Fails \/ Print2
  BY <1>5 DEF Memset, Sync1Fails, Sync2Fails, Print2
<1>6. CASE Pattern
  <2>1. /\ "lhs" \in dirty' /\ cached'["lhs"] = Lhs
        /\ "rhs" \in dirty' /\ cached'["rhs"] = Rhs
    BY <1>6 DEF Pattern, CpuWrite, Blocks
  <2> QED BY <1>6, <2>1 DEF Pattern, PatternOf
<1>7. CASE Sync1
  <2>1. CASE arg = "6"
    BY <1>7, <2>1 DEF Sync1
  <2>2. CASE arg = "none"
    <3>1. dirty' = {}
      BY <1>7, SyncedAll DEF Sync1, SyncForDevice, TypeOK, CacheTypeOK
    <3>2. mem'["lhs"] = Lhs /\ mem'["rhs"] = Rhs
      BY <1>7, <2>2, SyncedAll
      DEF Sync1, SyncForDevice, TypeOK, CacheTypeOK, Addr, Blocks, PatternOf
    <3> QED BY <1>7, <2>2, <3>1, <3>2 DEF Sync1
  <2> QED BY <1>7, <2>1, <2>2 DEF Sync1, ArgOK
<1>8. CASE Print1
  BY <1>8 DEF Print1, CpuRead, hwVars
<1>9. CASE Read1 \/ Read2 \/ Write \/ Instr \/ Poll
  BY <1>9 DEF Read1, Read2, SendRead, Write, Instr, Poll, hwVars, cacheVars
<1>10. CASE Sync2
  BY <1>10 DEF Sync2, SyncForCpu, hwVars
<1>11. CASE Hardware
  <2>1. mem'["lhs"] = mem["lhs"] /\ mem'["rhs"] = mem["rhs"]
    <3>1. CASE WriteDma
      BY <3>1 DEF WriteDma, TargetsOK, TypeOK, HwTypeOK, Addr, Blocks
    <3> QED BY <1>11, <3>1 DEF Hardware, ReadDma, Compute
  <2> QED BY <1>11, <2>1 DEF Hardware, hostVars, cacheVars, progVars, PatternOf
<1>12. CASE Cache
  <2> PICK b \in Blocks : Evict(b) \/ Prefetch(b)
    BY <1>12 DEF Cache
  <2>1. CASE Evict(b)
    BY <1>12, <2>1
    DEF Cache, Evict, progVars, TypeOK, HwTypeOK, CacheTypeOK, Addr, Blocks
  <2>2. CASE Prefetch(b)
    BY <1>12, <2>2
    DEF Cache, Prefetch, hwVars, progVars, TypeOK, HwTypeOK, CacheTypeOK, Addr, Blocks
  <2> QED BY <2>1, <2>2
<1> QED BY <1>1, <1>2, <1>3, <1>4, <1>5, <1>6, <1>7, <1>8, <1>9, <1>10, <1>11, <1>12
        DEF Next, Host, Multiply

(* Sequences of at most one element.                                       *)
LEMMA OneElement ==
  \A x : /\ Append(<< >>, x) = <<x>>
        /\ Head(<<x>>) = x
        /\ Tail(<<x>>) = << >>
  OBVIOUS

(* A second element is appended.                                           *)
LEMMA TwoElements ==
  ASSUME NEW x, NEW y
  PROVE  Append(<<x>>, y) = <<x, y>>
<1>1. <<x>> \in Seq({x, y}) /\ Len(<<x>>) = 1 /\ <<x>>[1] = x
  OBVIOUS
<1>2. Append(<<x>>, y) \in Seq({x, y}) /\ Len(Append(<<x>>, y)) = 2
  BY <1>1
<1>3. Append(<<x>>, y)[1] = x /\ Append(<<x>>, y)[2] = y
  BY <1>1
<1>4. <<x, y>> \in Seq({x, y}) /\ Len(<<x, y>>) = 2 /\ <<x, y>>[1] = x /\ <<x, y>>[2] = y
  OBVIOUS
<1>5. \A i \in 1 .. 2 : Append(<<x>>, y)[i] = <<x, y>>[i]
  BY <1>3, <1>4
<1> QED BY <1>2, <1>4, <1>5, SeqEqual

(* A read descriptor at the head of the queue is streamed to an empty      *)
(* channel (Accelerator!ReadDma).                                          *)
LEMMA StreamOne ==
  ASSUME HwTypeOK, ReadDma, NEW b \in Addr, NEW c \in Channel,
         Head(rdq) = [addr |-> b, channel |-> c], ch[c] = << >>
  PROVE  /\ ch'[c] = <<mem[b]>>
         /\ \A d \in Channel : d # c => ch'[d] = ch[d]
<1>1. Head(rdq).channel = c /\ Head(rdq).addr = b
  OBVIOUS
<1>2. ch' = [ch EXCEPT ![c] = Append(ch[c], mem[b])]
  BY <1>1 DEF ReadDma
<1>3. ch'[c] = Append(<< >>, mem[b])
  BY <1>2 DEF HwTypeOK
<1> QED BY <1>2, <1>3, OneElement DEF HwTypeOK

(* The accelerator takes a run that found it idle through the phases of    *)
(* CleanRun: operands underway, product underway, product delivered.       *)
LEMMA CleanHardware ==
  ASSUME TypeOK, Patterned, CleanRun, clean, Hardware
  PROVE  CleanRun'
<1> USE DEF hostVars, progVars, cacheVars, Hardware
<1>0. UNCHANGED <<pc, arg, clean, cached>>
  OBVIOUS
<1>1. CASE HwIdle
  BY <1>1 DEF HwIdle, ReadDma, Compute, WriteDma
<1>2. CASE pc = "read2"
  <2>1. OneReadPosted /\ mem["lhs"] = Lhs
    BY <1>2 DEF CleanRun, Patterned, AfterSync1
  <2>2. ReadDma /\ rdq = <<ReadLhs>> /\ ch[1] = << >>
    BY <2>1 DEF OneReadPosted, ReadDma, Compute, WriteDma
  <2>3. rdq' = << >> /\ ch'[1] = <<Lhs>> /\ ch'[0] = ch[0]
    BY <2>1, <2>2, StreamOne, OneElement DEF ReadDma, ReadLhs, TypeOK, Channel, Addr, Blocks
  <2>4. OneReadPosted'
    BY <2>1, <2>2, <2>3 DEF OneReadPosted, ReadDma
  <2> QED BY <1>0, <1>2, <2>4 DEF CleanRun
<1>3. ASSUME OperandsUnderway, mem["lhs"] = Lhs, mem["rhs"] = Rhs, ReadDma
      PROVE  OperandsUnderway'
  <2>1. CASE rdq = <<ReadLhs, ReadRhs>> /\ ch[1] = << >> /\ ch[0] = << >>
    <3>1. Head(rdq) = ReadLhs /\ Tail(rdq) = <<ReadRhs>>
      BY <2>1
    <3>2. ch'[1] = <<Lhs>> /\ ch'[0] = << >>
      BY <1>3, <2>1, <3>1, StreamOne DEF ReadLhs, TypeOK, Channel, Addr, Blocks
    <3> QED BY <1>3, <3>1, <3>2 DEF OperandsUnderway, ReadDma
  <2>2. CASE rdq = <<ReadRhs>> /\ ch[1] = <<Lhs>> /\ ch[0] = << >>
    <3>1. Head(rdq) = ReadRhs /\ Tail(rdq) = << >>
      BY <2>2
    <3>2. ch'[1] = <<Lhs>> /\ ch'[0] = <<Rhs>>
      BY <1>3, <2>2, <3>1, StreamOne DEF ReadRhs, TypeOK, Channel, Addr, Blocks
    <3> QED BY <1>3, <3>1, <3>2 DEF OperandsUnderway, ReadDma
  <2> QED BY <1>3, <2>1, <2>2 DEF OperandsUnderway, ReadDma
<1>4. CASE pc \in {"write", "instr"}
  <2>1. OperandsUnderway /\ instr = 0 /\ mem["lhs"] = Lhs /\ mem["rhs"] = Rhs
    BY <1>4 DEF CleanRun, Patterned, AfterSync1
  <2>2. ReadDma
    BY <2>1 DEF OperandsUnderway, Compute, WriteDma
  <2>3. OperandsUnderway' /\ UNCHANGED <<instr, wrq>>
    BY <1>3, <2>1, <2>2 DEF ReadDma
  <2> QED BY <1>0, <1>4, <2>1, <2>3 DEF CleanRun
<1>5. CASE pc = "poll"
  <2> DEFINE Waiting == OperandsUnderway /\ instr = 1 /\ wrq = <<"dst">>
  <2>0. SUFFICES (Waiting \/ ProductUnderway \/ Delivered)'
    BY <1>0, <1>5 DEF CleanRun
  <2>1. CASE Waiting
    <3>1. mem["lhs"] = Lhs /\ mem["rhs"] = Rhs
      BY <1>5 DEF Patterned, AfterSync1
    <3>2. CASE ReadDma
      BY <2>1, <1>3, <3>1, <3>2 DEF ReadDma
    <3>3. CASE Compute
      <4>1. rdq = << >> /\ ch[1] = <<Lhs>> /\ ch[0] = <<Rhs>> /\ res = << >>
        BY <2>1, <3>3 DEF OperandsUnderway, Compute
      <4>2. res' = <<Product>> /\ instr' = 0 /\ rdq' = << >> /\ wrq' = <<"dst">>
        BY <2>1, <3>3, <4>1 DEF Compute, Product
      <4>3. ch'[0] = << >> /\ ch'[1] = << >>
        BY <3>3, <4>1, OneElement DEF Compute, Channel
      <4> QED BY <4>2, <4>3 DEF ProductUnderway, Product
    <3>4. CASE WriteDma
      BY <2>1, <3>4 DEF OperandsUnderway, WriteDma
    <3> QED BY <3>2, <3>3, <3>4
  <2>2. CASE ProductUnderway
    <3>1. WriteDma
      BY <2>2 DEF ProductUnderway, ReadDma, Compute
    <3>2. mem'["dst"] = Product
      BY <2>2, <3>1 DEF ProductUnderway, WriteDma, TypeOK, HwTypeOK, Addr, Blocks
    <3>3. HwIdle'
      BY <2>2, <3>1 DEF ProductUnderway, WriteDma, HwIdle
    <3> QED BY <3>2, <3>3 DEF Delivered, Product
  <2>3. CASE Delivered
    BY <1>1, <2>3 DEF Delivered, HwIdle, ReadDma, Compute, WriteDma
  <2> QED BY <1>5, <2>1, <2>2, <2>3 DEF CleanRun
<1>6. CASE pc = "off"
  BY <1>0, <1>6 DEF CleanRun
<1>7. CASE pc = "exit" /\ arg \in {"4", "5"}
  BY <1>0, <1>7 DEF CleanRun
<1> QED BY <1>1, <1>2, <1>4, <1>5, <1>6, <1>7 DEF CleanRun, Delivered, TypeOK, Place

(* The steps of the host take a run that found the hardware idle from one  *)
(* place of CleanRun to the next.                                          *)
LEMMA CleanHost ==
  ASSUME TypeOK, ArgOK, Patterned, CleanRun, clean, Host
  PROVE  CleanRun'
<1> USE DEF Goto, progVars
<1>i. ASSUME HwIdle, UNCHANGED <<rdq, ch, instr, res, wrq>>
      PROVE  HwIdle'
  BY <1>i DEF HwIdle
<1>1. CASE Acquire \/ AcquireFails \/ Exit
  BY <1>1, <1>i DEF Acquire, AcquireFails, Exit, CleanRun, hwVars
<1>2. CASE Diagnose
  <2>1. pc \in {"diagnose", "print8"} /\ HwIdle
    BY <1>2 DEF Diagnose, DiagInspect, DiagPrint, DiagWrite, DiagClear, DiagSync,
                DiagSyncFails, DiagPrintDst, CleanRun
  <2>2. CASE DiagWrite
    BY <2>1, <2>2 DEF DiagWrite, CleanRun
  <2>3. CASE ~DiagWrite
    <3>1. UNCHANGED <<rdq, ch, instr, res, wrq>>
      BY <1>2, <2>3 DEF Diagnose, DiagInspect, DiagPrint, DiagClear, DiagSync,
                  DiagSyncFails, DiagPrintDst, CpuRead, CpuWrite, SyncForCpu, hwVars
    <3>2. pc' \in {"exit", "sync1", "print8"}
      BY <1>2, <2>3 DEF Diagnose, DiagInspect, DiagPrint, DiagClear, DiagSync,
                  DiagSyncFails, DiagPrintDst
    <3> QED BY <2>1, <3>1, <3>2, <1>i DEF CleanRun
  <2> QED BY <2>2, <2>3
<1>3. CASE Memset \/ Pattern \/ Sync1 \/ Sync1Fails \/ Print1
  <2>1. HwIdle
    BY <1>3 DEF Memset, Pattern, Sync1, Sync1Fails, Print1, CleanRun
  <2>2. UNCHANGED <<rdq, ch, instr, res, wrq>>
    BY <1>3 DEF Memset, Pattern, Sync1, Sync1Fails, Print1, CpuWrite, CpuRead,
                SyncForDevice, hwVars
  <2>3. pc' \in {"pattern", "sync1", "print1", "exit", "read1"}
    BY <1>3 DEF Memset, Pattern, Sync1, Sync1Fails, Print1
  <2> QED BY <2>1, <2>2, <2>3, <1>i DEF CleanRun
<1>4. CASE Read1
  <2>1. HwIdle
    BY <1>4 DEF Read1, CleanRun
  <2>2. rdq' = <<ReadLhs>>
    BY <1>4, <2>1, OneElement DEF Read1, SendRead, HwIdle, ReadLhs
  <2>3. OneReadPosted'
    BY <1>4, <2>1, <2>2 DEF Read1, SendRead, HwIdle, OneReadPosted
  <2> QED BY <1>4, <2>3 DEF Read1, CleanRun
<1>5. CASE Read2
  <2>1. OneReadPosted
    BY <1>5 DEF Read2, CleanRun
  <2>2. rdq' = Append(rdq, ReadRhs) /\ UNCHANGED <<ch, instr, res, wrq>>
    BY <1>5 DEF Read2, SendRead, ReadRhs
  <2>3. CASE rdq = <<ReadLhs>> /\ ch[1] = << >>
    <3>1. rdq' = <<ReadLhs, ReadRhs>>
      BY <2>2, <2>3, TwoElements
    <3> QED BY <1>5, <2>1, <2>2, <2>3, <3>1
            DEF Read2, OneReadPosted, OperandsUnderway, CleanRun
  <2>4. CASE rdq = << >> /\ ch[1] = <<Lhs>>
    <3>1. rdq' = <<ReadRhs>>
      BY <2>2, <2>4, OneElement
    <3> QED BY <1>5, <2>1, <2>2, <2>4, <3>1
            DEF Read2, OneReadPosted, OperandsUnderway, CleanRun
  <2> QED BY <2>1, <2>3, <2>4 DEF OneReadPosted
<1>6. CASE Write
  <2>1. OperandsUnderway /\ instr = 0 /\ wrq = << >>
    BY <1>6 DEF Write, CleanRun
  <2>2. wrq' = <<"dst">>
    BY <1>6, <2>1, OneElement DEF Write
  <2>3. OperandsUnderway' /\ instr' = 0
    BY <1>6, <2>1 DEF Write, OperandsUnderway
  <2> QED BY <1>6, <2>2, <2>3 DEF Write, CleanRun
<1>7. CASE Instr
  <2>1. OperandsUnderway /\ instr = 0 /\ wrq = <<"dst">>
    BY <1>7 DEF Instr, CleanRun
  <2>2. OperandsUnderway' /\ instr' = 1 /\ wrq' = <<"dst">>
    BY <1>7, <2>1 DEF Instr, OperandsUnderway
  <2> QED BY <1>7, <2>2 DEF Instr, CleanRun
<1>8. CASE Poll
  <2>1. Delivered
    BY <1>8 DEF Poll, WriteStatus, CleanRun, ProductUnderway
  <2>2. Delivered'
    BY <1>8, <2>1 DEF Poll, Delivered, HwIdle, Product, hwVars
  <2> QED BY <1>8, <2>2 DEF Poll, CleanRun
<1>9. CASE Sync2 \/ Sync2Fails
  <2>1. Delivered
    BY <1>9 DEF Sync2, Sync2Fails, CleanRun
  <2>2. Delivered' /\ HwIdle'
    BY <1>9, <2>1 DEF Sync2, Sync2Fails, SyncForCpu, Delivered, HwIdle, Product, hwVars
  <2>3. pc' = "print2" => cached'["dst"] = NoLine
    BY <1>9, SyncedAll DEF Sync2, Sync2Fails, SyncForCpu, Blocks
  <2>4. pc' \in {"print2", "exit"}
    BY <1>9 DEF Sync2, Sync2Fails
  <2> QED BY <2>2, <2>3, <2>4 DEF CleanRun
<1>10. CASE Print2
  <2>1. HwIdle
    BY <1>10 DEF Print2, CleanRun, Delivered
  <2> QED BY <1>10, <1>i, <2>1 DEF Print2, CpuRead, hwVars, CleanRun
<1> QED BY <1>1, <1>2, <1>3, <1>4, <1>5, <1>6, <1>7, <1>8, <1>9, <1>10
        DEF Host, Multiply

(* Evictions and prefetches cannot disturb the run either: once sync1 is   *)
(* done no line is dirty, and a prefetched destination is the product.     *)
LEMMA CleanCache ==
  ASSUME TypeOK, Patterned, CleanRun, clean, Cache
  PROVE  CleanRun'
<1> PICK b \in Blocks : Evict(b) \/ Prefetch(b)
  BY DEF Cache
<1>1. UNCHANGED <<pc, arg, clean, rdq, ch, instr, res, wrq>>
  BY DEF Cache, Evict, Prefetch, hwVars, progVars
<1>2. pc \in AfterSync1 => mem' = mem
  BY DEF Evict, Prefetch, hwVars, Patterned
<1>3. /\ HwIdle' = HwIdle /\ OneReadPosted' = OneReadPosted
      /\ OperandsUnderway' = OperandsUnderway /\ ProductUnderway' = ProductUnderway
  BY <1>1 DEF HwIdle, OneReadPosted, OperandsUnderway, ProductUnderway, Product,
              ReadLhs, ReadRhs
<1>4. pc \in {"poll", "sync2", "print2"} => Delivered' = Delivered
  BY <1>1, <1>2, <1>3 DEF Delivered, AfterSync1, Product
<1>5. ASSUME pc = "print2" PROVE cached'["dst"] \in {NoLine, Product}
  <2>1. cached["dst"] \in {NoLine, Product} /\ mem["dst"] = Product
    BY <1>5 DEF CleanRun, Delivered
  <2> QED BY <2>1 DEF Evict, Prefetch, TypeOK, CacheTypeOK, Blocks
<1> QED BY <1>1, <1>3, <1>4, <1>5 DEF CleanRun, Product

(* Every step preserves CleanRun; a start of the program establishes it.   *)
LEMMA CleanStep ==
  ASSUME TypeOK, ArgOK, Patterned, CleanRun, [Next]_vars
  PROVE  CleanRun'
<1>1. CASE UNCHANGED vars
  BY <1>1 DEF vars, hwVars, cacheVars, progVars, CleanRun, HwIdle, OneReadPosted,
              OperandsUnderway, ProductUnderway, Delivered, Product, ReadLhs, ReadRhs
<1>2. CASE \E a \in Mode : Main(a)
  <2>1. pc' = "acquire" /\ (clean' => HwIdle')
    BY <1>2 DEF Main, Goto, HwIdle, hwVars
  <2> QED BY <2>1 DEF CleanRun
<1>3. CASE Kill
  BY <1>3 DEF Kill, CleanRun
<1>4. CASE Host \/ Hardware \/ Cache
  <2>1. CASE clean
    BY <1>4, <2>1, CleanHost, CleanHardware, CleanCache
  <2>2. CASE ~clean
    <3>1. clean' = clean
      BY <1>4 DEF Host, Acquire, AcquireFails, Exit, Diagnose, DiagInspect, DiagPrint,
                  DiagWrite, DiagClear, DiagSync, DiagSyncFails, DiagPrintDst,
                  Multiply, Memset, Pattern, Sync1, Sync1Fails, Print1, Read1, Read2,
                  SendRead, Write, Instr, Poll, Sync2, Sync2Fails, Print2,
                  Hardware, Cache, hostVars, progVars
    <3> QED BY <2>2, <3>1 DEF CleanRun
  <2> QED BY <2>1, <2>2
<1> QED BY <1>1, <1>2, <1>3, <1>4 DEF Next

(* Only Print2 sets printed, and at that place the CPU sees the product.   *)
LEMMA ResultStep ==
  ASSUME CleanRun, ResultIsProduct, [Next]_vars
  PROVE  ResultIsProduct'
<1>1. CASE Print2
  <2>1. ASSUME clean PROVE CpuView("dst") = Product
    BY <1>1, <2>1 DEF Print2, Goto, CleanRun, Delivered, CpuView
  <2> QED BY <1>1, <2>1 DEF Print2, progVars, ResultIsProduct, Product
<1>2. CASE \E a \in Mode : Main(a)
  BY <1>2 DEF Main, ResultIsProduct
<1>3. CASE UNCHANGED <<clean, printed>>
  BY <1>3 DEF ResultIsProduct
<1>4. [Next]_vars => \/ Print2 \/ (\E a \in Mode : Main(a))
                     \/ UNCHANGED <<clean, printed>>
  BY DEF Next, vars, Host, Kill, Acquire, AcquireFails, Exit, Diagnose, DiagInspect,
         DiagPrint, DiagWrite, DiagClear, DiagSync, DiagSyncFails, DiagPrintDst,
         Multiply, Memset, Pattern, Sync1, Sync1Fails, Print1, Read1, Read2,
         SendRead, Write, Instr, Poll, Sync2, Sync2Fails,
         Hardware, Cache, hostVars, progVars
<1> QED BY <1>1, <1>2, <1>3, <1>4

----------------------------------------------------------------------------
(* The inductive invariant holds: it is true before the first run, and     *)
(* every step of the program, the accelerator and the cache preserves it.  *)
THEOREM Inductive == Spec => []IInv
<1>1. Init => IInv
  <2> SUFFICES ASSUME Init PROVE IInv
    OBVIOUS
  <2>1. TypeOK
    BY TypeInit
  <2>2. TargetsOK /\ Backed /\ FifoNeverOverflows
    BY FifoAssumption DEF Init, TargetsOK, Backed, FifoNeverOverflows
  <2>3. ArgOK /\ Patterned /\ CleanRun /\ ResultIsProduct
    BY DEF Init, ArgOK, Patterned, CleanRun, ResultIsProduct, AfterSync1
  <2> QED BY <2>1, <2>2, <2>3 DEF IInv
<1>2. IInv /\ [Next]_vars => IInv'
  BY TypeStep, TargetsStep, BackedStep, ArgStep, PatternedStep, CleanStep, ResultStep
  DEF IInv
<1> QED BY <1>1, <1>2, PTL DEF Spec

(* A run that found the hardware idle prints the product (main.c:276-307). *)
THEOREM ResultCorrect == Spec => []ResultIsProduct
<1>1. IInv => ResultIsProduct
  BY DEF IInv
<1> QED BY <1>1, Inductive, PTL

(* Such a run leaves the hardware idle on every return path.               *)
THEOREM Quiescence == Spec => []QuiescentOnReturn
<1>1. IInv => QuiescentOnReturn
  BY DEF IInv, CleanRun, QuiescentOnReturn
<1> QED BY <1>1, Inductive, PTL

(* Instructions and products in flight have their descriptors, killed runs *)
(* included.                                                               *)
THEOREM FlightBounded == Spec => []InstrHasDescriptor
<1>1. IInv => InstrHasDescriptor
  BY DEF IInv, Backed, InstrHasDescriptor, TypeOK, HwTypeOK
<1> QED BY <1>1, Inductive, PTL

(* The instruction FIFO is never overfilled, whatever earlier runs left in *)
(* it (main.c:127-133).                                                    *)
THEOREM FifoBounded == Spec => []FifoNeverOverflows
<1>1. IInv => FifoNeverOverflows
  BY DEF IInv
<1> QED BY <1>1, Inductive, PTL

(* An orphaned write descriptor stays orphaned (main.c:175-180).           *)
THEOREM OrphansAreForever == Spec => OrphansStay
<1>1. TypeOK /\ [Next]_vars => [Orphans' >= Orphans]_vars
  BY OrphansStep
<1> QED BY <1>1, TypeCorrect, PTL DEF Spec, OrphansStay
=============================================================================
