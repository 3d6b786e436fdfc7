------------------------------ MODULE Pipeline ------------------------------
(***************************************************************************)
(* The host program (src/src/main.c): a sequence of invocations of         *)
(* main / _pipeline, each of which multiplies two 16x16 matrices on the    *)
(* accelerator or runs one of the diagnostics selected by argv[1][0],      *)
(* beside the hardware of Accelerator and the CPU cache of DmaBuffer.      *)
(*                                                                         *)
(* pc is the point the process has reached; "off" means that no process    *)
(* runs.  The process may be killed at any point; the hardware and the     *)
(* cache go on regardless.  HostResources models the acquisition and the   *)
(* release of the handles, which is one step here.                         *)
(***************************************************************************)
EXTENDS DmaBuffer

CONSTANTS
    Junk,           \* what SDRAM holds before the first run
    Zero,           \* a matrix of zeros (memset)
    Lhs,            \* the left pattern: all ones
    Rhs,            \* the right pattern: the banded matrix
    MaxRuns         \* bound: how many times the program is started

ASSUME PatternAssumption ==
    /\ {Junk, Zero, Lhs, Rhs} \subseteq Matrix
    /\ MaxRuns \in Nat

VARIABLES
    pc,             \* where the process is
    arg,            \* argv[1][0], or "none"
    runs,           \* invocations so far
    clean,          \* history: the hardware was idle when the process started
    printed         \* the destination printed after sync2, or NoLine

progVars == <<arg, runs, clean>>
vars == <<hwVars, cacheVars, pc, progVars, printed>>

(* The characters _pipeline tells apart.  "inspect" stands for '1', '3'    *)
(* and '7', which only read registers, and for any other character, which  *)
(* selects nothing.                                                        *)
Mode == {"none", "inspect", "2", "4", "5", "6", "8"}

Place == {"off", "acquire", "diagnose", "print8", "memset", "pattern", "sync1",
          "print1", "read1", "read2", "write", "instr", "poll", "sync2",
          "print2", "exit"}

TypeOK ==
    /\ HwTypeOK
    /\ CacheTypeOK
    /\ pc \in Place
    /\ arg \in Mode
    /\ runs \in Nat
    /\ clean \in BOOLEAN
    /\ printed \in Matrix \cup {NoLine}

Init ==
    /\ mem = [a \in Addr |-> Junk]
    /\ rdq = << >> /\ ch = [c \in Channel |-> << >>]
    /\ instr = 0 /\ res = << >> /\ wrq = << >>
    /\ cached = [b \in Blocks |-> NoLine] /\ dirty = {}
    /\ pc = "off" /\ arg = "none" /\ runs = 0
    /\ clean = FALSE /\ printed = NoLine

(* Control passes from one place to another.                               *)
Goto(from, to) == pc = from /\ pc' = to

----------------------------------------------------------------------------
(* main and the set-up of _pipeline.                                       *)

(* The program is started, with or without an argument.                    *)
Main(a) ==
    /\ Goto("off", "acquire")
    /\ runs < MaxRuns
    /\ runs' = runs + 1
    /\ arg' = a
    /\ clean' = HwIdle
    /\ printed' = NoLine
    /\ UNCHANGED <<hwVars, cacheVars>>

(* open, both mmaps, mu_get_udmabuf and the assignment of state succeed.   *)
Acquire ==
    /\ Goto("acquire", IF arg = "none" THEN "memset" ELSE "diagnose")
    /\ UNCHANGED <<hwVars, cacheVars, progVars, printed>>

(* One of them fails: ES_NEW_... returns.                                  *)
AcquireFails ==
    /\ Goto("acquire", "exit")
    /\ UNCHANGED <<hwVars, cacheVars, progVars, printed>>

(* _state_cleanup and the return to the shell.                             *)
Exit ==
    /\ Goto("exit", "off")
    /\ UNCHANGED <<hwVars, cacheVars, progVars, printed>>

(* The process is interrupted; nothing is told to the hardware.            *)
Kill ==
    /\ pc # "off"
    /\ pc' = "off"
    /\ UNCHANGED <<hwVars, cacheVars, progVars, printed>>

----------------------------------------------------------------------------
(* The diagnostics.                                                        *)

DiagInspect ==
    /\ arg = "inspect"
    /\ Goto("diagnose", "exit")
    /\ UNCHANGED <<hwVars, cacheVars, progVars, printed>>

(* '2' prints the three matrices without a sync.                           *)
DiagPrint ==
    /\ arg = "2"
    /\ Goto("diagnose", "exit")
    /\ CpuRead(Blocks)
    /\ UNCHANGED <<progVars, printed>>

(* '4' and '5' post a write descriptor and no instruction.                 *)
DiagWrite ==
    /\ arg \in {"4", "5"}
    /\ Goto("diagnose", "exit")
    /\ wrq' = Append(wrq, IF arg = "4" THEN "null" ELSE "dst")
    /\ UNCHANGED <<mem, rdq, ch, instr, res, cacheVars, progVars, printed>>

(* '6' clears the destination and goes on to the sync of main.c:263.       *)
DiagClear ==
    /\ arg = "6"
    /\ Goto("diagnose", "sync1")
    /\ CpuWrite([b \in {"dst"} |-> Zero])
    /\ UNCHANGED <<progVars, printed>>

(* '8' syncs for the CPU, or fails to, and prints the destination.         *)
DiagSync ==
    /\ arg = "8"
    /\ Goto("diagnose", "print8")
    /\ SyncForCpu
    /\ UNCHANGED <<progVars, printed>>

DiagSyncFails ==
    /\ arg = "8"
    /\ Goto("diagnose", "exit")
    /\ UNCHANGED <<hwVars, cacheVars, progVars, printed>>

DiagPrintDst ==
    /\ Goto("print8", "exit")
    /\ CpuRead({"dst"})
    /\ UNCHANGED <<progVars, printed>>

Diagnose ==
    \/ DiagInspect \/ DiagPrint \/ DiagWrite \/ DiagClear
    \/ DiagSync \/ DiagSyncFails \/ DiagPrintDst

----------------------------------------------------------------------------
(* The multiplication.                                                     *)

Memset ==
    /\ Goto("memset", "pattern")
    /\ CpuWrite([b \in Blocks |-> Zero])
    /\ UNCHANGED <<progVars, printed>>

Pattern ==
    /\ Goto("pattern", "sync1")
    /\ CpuWrite([b \in {"lhs", "rhs"} |-> IF b = "lhs" THEN Lhs ELSE Rhs])
    /\ UNCHANGED <<progVars, printed>>

(* The mutant that forgets to write the patterns back.                     *)
Sync1Skipped ==
    /\ Goto("sync1", IF arg = "6" THEN "exit" ELSE "print1")
    /\ UNCHANGED <<hwVars, cacheVars, progVars, printed>>

(* mu_udmabuf_sync_for_device over the whole buffer; diagnostic '6' ends   *)
(* with the same call.                                                     *)
Sync1 ==
    /\ Goto("sync1", IF arg = "6" THEN "exit" ELSE "print1")
    /\ SyncForDevice
    /\ UNCHANGED <<progVars, printed>>

Sync1Fails ==
    /\ Goto("sync1", "exit")
    /\ UNCHANGED <<hwVars, cacheVars, progVars, printed>>

(* The three matrices are printed; this brings them back into the cache.   *)
Print1 ==
    /\ Goto("print1", "read1")
    /\ CpuRead(Blocks)
    /\ UNCHANGED <<progVars, printed>>

(* _send_read posts a read descriptor.                                     *)
SendRead(b, c) ==
    /\ rdq' = Append(rdq, [addr |-> b, channel |-> c])
    /\ UNCHANGED <<mem, ch, instr, res, wrq, cacheVars, progVars, printed>>

Read1 == Goto("read1", "read2") /\ SendRead("lhs", 1)

(* The mutant that leaves out the second _send_read.                       *)
Read2Skipped ==
    /\ Goto("read2", "write")
    /\ UNCHANGED <<hwVars, cacheVars, progVars, printed>>

Read2 == Goto("read2", "write") /\ SendRead("rhs", 0)

(* The mutant that never posts the destination.                            *)
WriteSkipped ==
    /\ Goto("write", "instr")
    /\ UNCHANGED <<hwVars, cacheVars, progVars, printed>>

(* _send_write posts the destination.                                      *)
Write ==
    /\ Goto("write", "instr")
    /\ wrq' = Append(wrq, "dst")
    /\ UNCHANGED <<mem, rdq, ch, instr, res, cacheVars, progVars, printed>>

(* The mutant that writes to the FIFO whatever its fill level.             *)
InstrUnchecked ==
    /\ Goto("instr", "poll")
    /\ instr' = instr + 1
    /\ UNCHANGED <<mem, rdq, ch, res, wrq, cacheVars, progVars, printed>>

(* The mutant that sends the instruction twice.                            *)
InstrTwice ==
    /\ Goto("instr", "poll")
    /\ FifoDepth - instr > 0
    /\ instr' = instr + 2
    /\ UNCHANGED <<mem, rdq, ch, res, wrq, cacheVars, progVars, printed>>

(* _SEND_INSTR: _send_instr succeeds once the FIFO has room; until then    *)
(* the process yields and tries again.                                     *)
Instr ==
    /\ Goto("instr", "poll")
    /\ FifoDepth - instr > 0
    /\ instr' = instr + 1
    /\ UNCHANGED <<mem, rdq, ch, res, wrq, cacheVars, progVars, printed>>

(* The mutant that does not wait for the write DMA.                        *)
PollOnce ==
    /\ Goto("poll", "sync2")
    /\ UNCHANGED <<hwVars, cacheVars, progVars, printed>>

(* matrix_mult16 returns when the status of the write DMA reads zero.      *)
Poll ==
    /\ Goto("poll", "sync2")
    /\ WriteStatus = 0
    /\ UNCHANGED <<hwVars, cacheVars, progVars, printed>>

(* The mutant that forgets to invalidate the cached destination.           *)
Sync2Skipped ==
    /\ Goto("sync2", "print2")
    /\ UNCHANGED <<hwVars, cacheVars, progVars, printed>>

Sync2 ==
    /\ Goto("sync2", "print2")
    /\ SyncForCpu
    /\ UNCHANGED <<progVars, printed>>

Sync2Fails ==
    /\ Goto("sync2", "exit")
    /\ UNCHANGED <<hwVars, cacheVars, progVars, printed>>

(* The result is printed, then both operands.                              *)
Print2 ==
    /\ Goto("print2", "exit")
    /\ printed' = CpuView("dst")
    /\ CpuRead(Blocks)
    /\ UNCHANGED progVars

Multiply ==
    \/ Memset \/ Pattern \/ Sync1 \/ Sync1Fails \/ Print1
    \/ Read1 \/ Read2 \/ Write \/ Instr \/ Poll
    \/ Sync2 \/ Sync2Fails \/ Print2

----------------------------------------------------------------------------
Host == Acquire \/ AcquireFails \/ Diagnose \/ Multiply \/ Exit

hostVars == <<cacheVars, pc, progVars, printed>>

Hardware == (ReadDma \/ Compute \/ WriteDma) /\ UNCHANGED hostVars

Cache ==
    /\ \E b \in Blocks : Evict(b) \/ Prefetch(b)
    /\ UNCHANGED <<pc, progVars, printed>>

Next ==
    \/ \E a \in Mode : Main(a)
    \/ Host
    \/ Kill
    \/ Hardware
    \/ Cache

(* The process is scheduled and each engine of the accelerator proceeds;   *)
(* nobody has to start or kill the program, and a line need never be       *)
(* evicted or prefetched.                                                  *)
Fairness ==
    /\ WF_vars(Host)
    /\ WF_vars(ReadDma /\ UNCHANGED hostVars)
    /\ WF_vars(Compute /\ UNCHANGED hostVars)
    /\ WF_vars(WriteDma /\ UNCHANGED hostVars)

Spec == Init /\ [][Next]_vars /\ Fairness

----------------------------------------------------------------------------
(* Properties.                                                             *)

(* A run that found the hardware idle prints the product of the matrices   *)
(* it wrote, whatever the cache and the DMA engines do meanwhile and       *)
(* whatever earlier runs left in SDRAM and in the cache (main.c:276-307).  *)
ResultIsProduct ==
    clean /\ printed # NoLine => printed = Mul(Lhs, Rhs)

(* A run that found the hardware idle leaves it idle on every return path, *)
(* the failing ones included, unless it was asked to post a descriptor     *)
(* (main.c:164-182, 255-260).                                              *)
QuiescentOnReturn ==
    clean /\ pc = "exit" /\ arg \notin {"4", "5"} => HwIdle

(* Every instruction and every product in flight has a write descriptor    *)
(* waiting for it: matrix_mult16 posts the destination before the          *)
(* instruction (main.c:170-172), also when it is killed between the two.   *)
(* So a zero status of the write DMA means that nothing is in flight.      *)
InstrHasDescriptor == instr + Len(res) <= Len(wrq)

(* _send_instr (main.c:118-119) never overfills the instruction FIFO, also *)
(* when earlier, killed runs left instructions in it.                      *)
FifoNeverOverflows == instr <= FifoDepth

(* Write descriptors that no instruction, sent or about to be sent, will   *)
(* serve: those of diagnostics '4' and '5', and those of runs killed       *)
(* between _send_write and _SEND_INSTR.                                    *)
Orphans == Len(wrq) - (instr + Len(res) + IF pc = "instr" THEN 1 ELSE 0)

(* Nothing the program or the hardware does serves an orphan: once there   *)
(* is one, the loop of main.c:175-180 never ends again.                    *)
OrphansStay == [][Orphans' >= Orphans]_vars

(* A multiplication that starts without orphans ends, even if runs killed  *)
(* earlier left operands or instructions in the hardware: the loops of     *)
(* main.c:130 and main.c:175 are bounded by the hardware's progress.       *)
MultiplyTerminates == (pc = "read1" /\ Orphans = 0) ~> (pc = "off")
=============================================================================
