------------------------ MODULE HostResourcesProofs ------------------------
(***************************************************************************)
(* Proofs about HostResources, for every number of descriptors and every   *)
(* choice of failing calls: nothing leaks, the handles in use are live and *)
(* the process keeps its standard descriptors.                             *)
(***************************************************************************)
EXTENDS HostResources, WellFoundedInduction, TLAPS

----------------------------------------------------------------------------
(* Natural numbers.                                                        *)

(* Every nonempty set of natural numbers has a least element.  A proof by  *)
(* induction takes the least counterexample.                               *)
LEMMA LeastNat ==
  ASSUME NEW S, S \subseteq Nat, S # {}
  PROVE  \E m \in S : \A n \in S : m <= n
<1>1. IsWellFoundedOn(OpToRel(<, Nat), Nat)
  BY NatLessThanWellFounded, Zenon
<1>2. PICK m \in S : \A n \in S : ~(<<n, m>> \in OpToRel(<, Nat))
  BY <1>1, WFMin, Zenon
<1>3. \A n \in S : ~(n < m)
  BY <1>2 DEF OpToRel
<1> QED BY <1>3

----------------------------------------------------------------------------
Holds(f, file) == f \in DOMAIN table /\ table[f] = file
Empty == [fd |-> -1, virtual_base |-> "NULL"]

(* Where main holds /dev/mem, and where mu_get_udmabuf still has to put    *)
(* the buffer it acquired into state.                                      *)
Running == {"mmap_bridge", "mmap_csr", "attr_open", "attr_access", "udmabuf_open",
            "udmabuf_mmap", "udmabuf_return", "hand_over", "tmp_cleanup", "use"}
InTmp   == {"udmabuf_return", "hand_over"}

(* How far mu_get_udmabuf has come; sync_for is accessed after it only.    *)
Phase ==
    /\ pc \in {"open_mem", "mmap_bridge", "mmap_csr"} => ~acquired /\ attr = "size"
    /\ pc \in {"attr_open", "attr_access"} => (acquired <=> attr = "sync_for")
    /\ pc \in {"udmabuf_open", "udmabuf_mmap"} => ~acquired
    /\ pc \in {"hand_over", "use"} => acquired

(* The locals that a cleanup attribute releases: fd is open exactly while  *)
(* its function owns it, and what tmp says when cleanup_udmabuf runs on it *)
(* is not open any more.                                                   *)
Locals ==
    /\ pc = "attr_access" => Holds(fd, "attr")
    /\ pc = "udmabuf_mmap" => Holds(fd, "udmabuf")
    /\ pc = "udmabuf_return" /\ acquired => fd = -1
    /\ pc = "udmabuf_return" /\ ~acquired => Holds(fd, "udmabuf") /\ tmp.fd = fd
    /\ pc \notin {"attr_access", "udmabuf_mmap", "udmabuf_return"} => fd = -1
    /\ pc \notin InTmp \cup {"tmp_cleanup", "cleanup_unmap", "cleanup_close",
                             "cleanup_udmabuf", "off"} => tmp = Empty
    /\ pc = "tmp_cleanup" /\ acquired => tmp = Empty
    /\ pc = "tmp_cleanup" /\ ~acquired => tmp.fd \notin DOMAIN table

(* /dev/mem is open, or its close has been tried already.                  *)
Memory ==
    /\ pc \in Running => Holds(state.fd_dev_mem, "mem")
    /\ pc \in {"cleanup_unmap", "cleanup_close"} =>
          state.fd_dev_mem \notin DOMAIN table \/ Holds(state.fd_dev_mem, "mem")
    /\ pc \in Running \ {"mmap_bridge"} =>
          state.virtual_base = "bridge" /\ "bridge" \in maps
    /\ state.virtual_base # "udmabuf"

(* A buffer that was acquired is in tmp, then in state, and live; without  *)
(* one state.udmabuf is all zeros.                                         *)
Buffer ==
    /\ acquired /\ pc \in InTmp => Holds(tmp.fd, "udmabuf") /\ tmp.virtual_base = "udmabuf"
    /\ acquired /\ pc \notin InTmp \cup {"off"} =>
          Holds(state.udmabuf.fd, "udmabuf") /\ state.udmabuf.virtual_base = "udmabuf"
    /\ acquired /\ pc # "off" => "udmabuf" \in maps
    /\ ~acquired => state.udmabuf = [fd |-> 0, virtual_base |-> "NULL"]

(* Every descriptor of the program has a holder that will close it.        *)
FdsAccounted ==
    \A f \in OwnFds :
        \/ f = state.fd_dev_mem /\ pc \in Running \cup {"cleanup_unmap", "cleanup_close"}
        \/ f = fd
        \/ f = tmp.fd /\ acquired /\ pc \in InTmp
        \/ f = state.udmabuf.fd /\ acquired /\ pc \notin InTmp \cup {"off"}

(* So has every mapping but that of the SDRAM controller.                  *)
MapsAccounted ==
    /\ "bridge" \in maps => /\ state.virtual_base = "bridge"
                            /\ pc \in Running \cup {"cleanup_unmap"}
                            /\ pc # "mmap_bridge"
    /\ "udmabuf" \in maps =>
          \/ tmp.virtual_base = "udmabuf" /\ pc \in InTmp \cup {"tmp_cleanup"}
          \/ acquired /\ pc \notin InTmp \cup {"off"}

(* The standard descriptors: those the process was started with, all open  *)
(* until the last clean-up.                                                *)
Standard ==
    /\ \A f \in DOMAIN table : table[f] = "stdio" => f \in stdio
    /\ pc # "off" => \A f \in stdio : Holds(f, "stdio")

IInv == TypeOK /\ Phase /\ Locals /\ Memory /\ Buffer /\ FdsAccounted
        /\ MapsAccounted /\ Standard /\ StdioKept

----------------------------------------------------------------------------
(* open(2) adds one descriptor.                                            *)
LEMMA OpenedTable ==
  ASSUME NEW f, NEW file, table' = Opened(f, file)
  PROVE  /\ DOMAIN table' = DOMAIN table \cup {f} /\ table'[f] = file
         /\ \A g \in DOMAIN table : g # f => table'[g] = table[g]
BY DEF Opened

(* close(2) takes one descriptor away.                                     *)
LEMMA ClosedTable ==
  ASSUME NEW f, table' = Closed(f)
  PROVE  /\ DOMAIN table' = DOMAIN table \ {f}
         /\ \A g \in DOMAIN table' : table'[g] = table[g]
BY DEF Closed

(* A run never runs out of descriptors: at most two are open besides the   *)
(* standard ones when another is opened.                                   *)
LEMMA LowestFreeIsFree ==
  ASSUME IInv, pc \in {"open_mem", "attr_open", "udmabuf_open"}
  PROVE  LowestFree \in Fd \ DOMAIN table
<1>1. fd = -1 /\ \A f \in OwnFds : f = state.fd_dev_mem \/ f = state.udmabuf.fd
  BY DEF IInv, Locals, FdsAccounted, InTmp, TypeOK, Fd, OwnFds
<1>2. \A f \in {3, 4, 5} : f \in Fd /\ (f \in DOMAIN table => f \in OwnFds)
  BY MaxFdAssumption DEF IInv, Standard, TypeOK, OwnFds, Fd
<1>3. Fd \ DOMAIN table # {}
  BY <1>1, <1>2
<1>4. Fd \ DOMAIN table \subseteq Nat
  BY DEF Fd
<1> QED BY <1>3, <1>4, LeastNat DEF LowestFree

(* The initial state.                                                      *)
LEMMA IInvInit == Init => IInv
<1> SUFFICES ASSUME Init PROVE IInv
  OBVIOUS
<1> USE DEF Init
<1>1. /\ 0 \in Fd /\ state.fd_dev_mem = 0 /\ state.virtual_base = "NULL"
      /\ state.udmabuf = [fd |-> 0, virtual_base |-> "NULL"]
      /\ 0 .. 2 \subseteq Fd
  BY MaxFdAssumption DEF Fd
<1>2. TypeOK
  BY <1>1 DEF TypeOK, Errno, File, Attr, Base, Udmabuf, Place
<1>3. Phase /\ Locals /\ Memory
  BY <1>1 DEF Phase, Locals, Memory, Running, InTmp, Empty
<1>4. Buffer /\ MapsAccounted
  BY <1>1 DEF Buffer, MapsAccounted
<1>5. FdsAccounted /\ Standard /\ StdioKept
  BY DEF FdsAccounted, OwnFds, Standard, StdioKept, Holds
<1> QED BY <1>2, <1>3, <1>4, <1>5 DEF IInv

(* The mappings of /dev/mem, the run proper, and the unmapping of the      *)
(* bridge.                                                                 *)
LEMMA StepMaps ==
  ASSUME IInv, MmapBridge \/ MmapCsr \/ UseSync \/ UseReturn \/ CleanupUnmap
  PROVE  IInv'
<1>1. /\ UNCHANGED <<table, tmp, fd, acquired, stdio>>
      /\ \/ /\ pc = "mmap_bridge" /\ pc' = "mmap_csr" /\ maps' = maps \cup {"bridge"}
            /\ state'.virtual_base = "bridge" /\ attr' = attr
         \/ /\ pc = "mmap_bridge" /\ pc' = "cleanup_unmap" /\ maps' = maps
            /\ state'.virtual_base = "failed"
         \/ /\ pc = "mmap_csr" /\ pc' = "attr_open" /\ maps' = maps \cup {"sdramcsr"}
            /\ state' = state /\ attr' = attr
         \/ /\ pc \in {"mmap_csr", "use"} /\ pc' = "cleanup_unmap"
            /\ maps' = maps /\ state' = state
         \/ /\ pc = "use" /\ pc' = "attr_open" /\ attr' = "sync_for"
            /\ maps' = maps /\ state' = state
         \/ /\ pc = "cleanup_unmap" /\ pc' = "cleanup_close"
            /\ maps' = maps \ {state.virtual_base} /\ state'.virtual_base = "NULL"
  BY DEF MmapBridge, MmapCsr, UseSync, UseReturn, CleanupUnmap, IInv, TypeOK
<1>2. state'.fd_dev_mem = state.fd_dev_mem /\ state'.udmabuf = state.udmabuf
  BY DEF MmapBridge, MmapCsr, UseSync, UseReturn, CleanupUnmap, IInv, TypeOK
<1>3. TypeOK'
  BY DEF MmapBridge, MmapCsr, UseSync, UseReturn, CleanupUnmap, IInv, TypeOK, Base,
     Errno, Place, Attr
<1>4. Phase'
  BY <1>1 DEF IInv, Phase
<1>5. Locals'
  BY <1>1 DEF IInv, Locals, Holds, InTmp
<1>6. Memory'
  BY <1>1, <1>2 DEF IInv, Memory, Holds, Running
<1>7. Buffer'
  BY <1>1, <1>2 DEF IInv, Buffer, Phase, Holds, InTmp, Memory
<1>8. FdsAccounted'
  BY <1>1, <1>2 DEF IInv, FdsAccounted, OwnFds, Running, InTmp
<1>9. MapsAccounted'
  BY <1>1 DEF IInv, MapsAccounted, Phase, Running, InTmp, Memory
<1>10. Standard' /\ StdioKept'
  BY <1>1 DEF IInv, Standard, StdioKept, Holds
<1> QED BY <1>3, <1>4, <1>5, <1>6, <1>7, <1>8, <1>9, <1>10 DEF IInv

(* Opening /dev/mem.                                                       *)
LEMMA StepOpenMem ==
  ASSUME IInv, OpenMem
  PROVE  IInv'
<1>1. LowestFree \in Fd \ DOMAIN table
  BY LowestFreeIsFree DEF OpenMem
<1>2. /\ UNCHANGED <<maps, tmp, fd, attr, acquired, stdio>> /\ pc = "open_mem"
      /\ state'.virtual_base = state.virtual_base /\ state'.udmabuf = state.udmabuf
      /\ \/ /\ pc' = "mmap_bridge" /\ state'.fd_dev_mem \in Fd \ DOMAIN table
            /\ DOMAIN table' = DOMAIN table \cup {state'.fd_dev_mem}
            /\ table'[state'.fd_dev_mem] = "mem"
            /\ \A g \in DOMAIN table : table'[g] = table[g]
         \/ pc' = "cleanup_unmap" /\ state'.fd_dev_mem = -1 /\ table' = table
  BY <1>1, OpenedTable DEF OpenMem, IInv, TypeOK
<1>3. TypeOK'
  <2>1. state' \in [fd_dev_mem : Fd \cup {-1}, virtual_base : Base, udmabuf : Udmabuf]
    BY <1>1 DEF OpenMem, IInv, TypeOK
  <2>2. errno' \in Errno
    BY DEF OpenMem, IInv, TypeOK
  <2> QED BY <1>2, <2>1, <2>2 DEF IInv, TypeOK, Place, File
<1>4. -1 \notin DOMAIN table /\ ~acquired /\ OwnFds = {}
  BY <1>2 DEF IInv, TypeOK, Fd, Phase, FdsAccounted, Running, Locals, OwnFds
<1>5. Phase'
  BY <1>2 DEF IInv, Phase
<1>6. Locals'
  BY <1>2 DEF IInv, Locals, InTmp
<1>7. Memory'
  BY <1>2, <1>4 DEF IInv, Memory, Holds, Running
<1>8. Buffer'
  BY <1>2, <1>4 DEF IInv, Buffer
<1>9. FdsAccounted'
  BY <1>2, <1>4 DEF FdsAccounted, OwnFds, Running
<1>10. MapsAccounted'
  BY <1>2 DEF IInv, MapsAccounted, Running, InTmp
<1>11. Standard' /\ StdioKept'
  BY <1>2 DEF IInv, Standard, StdioKept, Holds
<1> QED BY <1>3, <1>5, <1>6, <1>7, <1>8, <1>9, <1>10, <1>11 DEF IInv

(* The helpers of memory_utils.c open a descriptor into their fd, which is *)
(* new.                                                                    *)
LEMMA StepOpenLocal ==
  ASSUME IInv, AttrOpen \/ UdmabufOpen
  PROVE  IInv'
<1>1. LowestFree \in Fd \ DOMAIN table
  BY LowestFreeIsFree DEF AttrOpen, UdmabufOpen
<1>2. UNCHANGED <<maps, state, tmp, attr, acquired, stdio>>
  BY DEF AttrOpen, UdmabufOpen
<1>3. /\ tmp = Empty /\ fd = -1 /\ pc \in {"attr_open", "udmabuf_open"}
      /\ -1 \notin DOMAIN table
  BY DEF AttrOpen, UdmabufOpen, IInv, Locals, InTmp, TypeOK, Fd
<1>4. \/ /\ fd' \in Fd \ DOMAIN table /\ DOMAIN table' = DOMAIN table \cup {fd'}
         /\ \A g \in DOMAIN table : table'[g] = table[g]
         /\ \/ pc = "attr_open" /\ pc' = "attr_access" /\ table'[fd'] = "attr"
            \/ pc = "udmabuf_open" /\ pc' = "udmabuf_mmap" /\ table'[fd'] = "udmabuf"
      \/ /\ fd' = -1 /\ table' = table
         /\ \/ pc' = "tmp_cleanup" /\ ~acquired
            \/ pc' = "cleanup_unmap" /\ acquired
  <2>1. CASE AttrOpen
    BY <1>1, <2>1, OpenedTable DEF AttrOpen, FailTo, IInv, Phase
  <2>2. CASE UdmabufOpen
    BY <1>1, <2>2, OpenedTable DEF UdmabufOpen, IInv, Phase
  <2> QED BY <2>1, <2>2
<1>5. TypeOK'
  <2>1. errno' \in Errno
    BY DEF AttrOpen, UdmabufOpen, IInv, TypeOK
  <2> QED BY <1>2, <1>4, <2>1 DEF IInv, TypeOK, Place, File
<1>6. Phase'
  BY <1>2, <1>3, <1>4 DEF IInv, Phase
<1>7. Locals'
  BY <1>2, <1>3, <1>4 DEF Locals, Holds, InTmp, Empty
<1>8. Memory'
  BY <1>2, <1>3, <1>4 DEF IInv, Memory, Holds, Running
<1>9. Buffer'
  BY <1>2, <1>3, <1>4 DEF IInv, Buffer, Holds, InTmp
<1>10. FdsAccounted'
  <2>1. OwnFds' \subseteq OwnFds \cup {fd'}
    BY <1>4 DEF OwnFds
  <2>2. fd \notin OwnFds
    BY <1>3 DEF OwnFds
  <2> QED BY <1>2, <1>3, <1>4, <2>1, <2>2 DEF IInv, FdsAccounted, Running, InTmp
<1>11. MapsAccounted'
  BY <1>2, <1>3, <1>4 DEF IInv, MapsAccounted, Running, InTmp
<1>12. Standard' /\ StdioKept'
  BY <1>2, <1>3, <1>4 DEF IInv, Standard, StdioKept, Holds
<1> QED BY <1>5, <1>6, <1>7, <1>8, <1>9, <1>10, <1>11, <1>12 DEF IInv

(* _mmap_udmabuf: on success tmp takes the descriptor over from fd; when   *)
(* it takes the mapping for a failure, both hold it.                       *)
LEMMA StepUdmabufMmap ==
  ASSUME IInv, UdmabufMmap
  PROVE  IInv'
<1>1. /\ pc = "udmabuf_mmap" /\ pc' = "udmabuf_return" /\ ~acquired
      /\ UNCHANGED <<table, state, attr, stdio>> /\ tmp'.fd = fd
      /\ Holds(fd, "udmabuf") /\ fd \in Fd
      /\ \/ /\ maps' = maps \cup {"udmabuf"} /\ fd' = -1 /\ acquired' = TRUE
            /\ tmp'.virtual_base = "udmabuf"
         \/ /\ maps' = maps \cup {"udmabuf"} /\ fd' = fd /\ acquired' = FALSE
            /\ tmp'.virtual_base = "udmabuf"
         \/ /\ maps' = maps /\ fd' = fd /\ acquired' = FALSE
  BY DEF UdmabufMmap, IInv, TypeOK, Phase, Locals, Holds
<1>2. TypeOK'
  <2>1. tmp' \in Udmabuf
    BY DEF UdmabufMmap, IInv, TypeOK, Udmabuf, Base
  <2>2. errno' \in Errno
    BY DEF UdmabufMmap, IInv, TypeOK, Errno
  <2> QED BY <1>1, <2>1, <2>2 DEF IInv, TypeOK, Place
<1>3. Phase' /\ Locals'
  BY <1>1 DEF Phase, Locals, Holds, InTmp
<1>4. Memory'
  BY <1>1 DEF IInv, Memory, Holds, Running
<1>5. Buffer'
  BY <1>1 DEF IInv, Buffer, Holds, InTmp
<1>6. FdsAccounted'
  BY <1>1 DEF IInv, FdsAccounted, OwnFds, Running, InTmp
<1>7. MapsAccounted'
  BY <1>1 DEF IInv, MapsAccounted, Running, InTmp
<1>8. Standard' /\ StdioKept'
  BY <1>1 DEF IInv, Standard, StdioKept, Holds
<1> QED BY <1>2, <1>3, <1>4, <1>5, <1>6, <1>7, <1>8 DEF IInv

(* mu_get_udmabuf hands the buffer to state and forgets it.                *)
LEMMA StepHandOver ==
  ASSUME IInv, HandOver
  PROVE  IInv'
<1>1. /\ pc = "hand_over" /\ pc' = "tmp_cleanup" /\ acquired /\ tmp' = Empty
      /\ UNCHANGED <<table, maps, errno, fd, attr, acquired, stdio>>
      /\ state'.udmabuf = tmp /\ state'.fd_dev_mem = state.fd_dev_mem
      /\ state'.virtual_base = state.virtual_base
  BY DEF HandOver, IInv, Phase, TypeOK, Empty
<1>2. TypeOK'
  BY DEF HandOver, IInv, TypeOK, Udmabuf, Base, Place
<1>3. Phase' /\ Locals'
  BY <1>1 DEF IInv, Phase, Locals, Holds, InTmp
<1>4. Memory'
  BY <1>1 DEF IInv, Memory, Holds, Running
<1>5. Buffer'
  BY <1>1 DEF IInv, Buffer, Holds, InTmp
<1>6. FdsAccounted'
  BY <1>1 DEF IInv, FdsAccounted, OwnFds, Running, InTmp
<1>7. MapsAccounted'
  BY <1>1 DEF IInv, MapsAccounted, Running, InTmp
<1>8. Standard' /\ StdioKept'
  BY <1>1 DEF IInv, Standard, StdioKept, Holds
<1> QED BY <1>2, <1>3, <1>4, <1>5, <1>6, <1>7, <1>8 DEF IInv

(* Closing a descriptor that is not a standard one disturbs no other.      *)
LEMMA Releases ==
  ASSUME IInv, NEW f, f \in DOMAIN table => table[f] # "stdio",
         DOMAIN table' = DOMAIN table \ {f},
         \A g \in DOMAIN table' : table'[g] = table[g],
         UNCHANGED stdio, pc # "off"
  PROVE  /\ Standard' /\ StdioKept' /\ OwnFds' = OwnFds \ {f}
<1>1. Standard' /\ OwnFds' = OwnFds \ {f}
  BY DEF IInv, Standard, OwnFds, Holds
<1>2. \A g \in stdio : g \in DOMAIN table' /\ table'[g] = "stdio"
  BY DEF IInv, Standard, Holds
<1> QED BY <1>1, <1>2 DEF StdioKept

(* The helpers return, and cleanup_fd closes what they still own and       *)
(* nothing else.                                                           *)
LEMMA StepReturns ==
  ASSUME IInv, AttrAccess \/ UdmabufReturn
  PROVE  IInv'
<1>1. /\ UNCHANGED <<maps, state, tmp, acquired, stdio>> /\ fd' = -1
      /\ fd \in Fd \cup {-1} /\ -1 \notin DOMAIN table
  BY DEF AttrAccess, UdmabufReturn, CleanupFd, IInv, TypeOK, Fd
<1>2. /\ DOMAIN table' = DOMAIN table \ {fd}
      /\ \A g \in DOMAIN table' : table'[g] = table[g]
      /\ errno' \in Errno
  <2>1. CASE fd >= 0
    <3>1. table' = Closed(fd) /\ errno' \in ErrnoOfClose(fd)
      BY <2>1 DEF AttrAccess, UdmabufReturn, CleanupFd
    <3> QED BY <3>1, ClosedTable DEF ErrnoOfClose, Errno, IInv, TypeOK
  <2>2. CASE ~(fd >= 0)
    <3>1. fd = -1
      BY <1>1, <2>2 DEF Fd
    <3>2. table' = table /\ errno' = errno
      BY <2>2 DEF AttrAccess, UdmabufReturn, CleanupFd
    <3> QED BY <1>1, <3>1, <3>2 DEF IInv, TypeOK
  <2> QED BY <2>1, <2>2
<1>3. /\ fd \in DOMAIN table => table[fd] \in {"attr", "udmabuf"}
      /\ fd \in DOMAIN table /\ table[fd] = "udmabuf" => ~acquired
      /\ pc \in {"attr_access", "udmabuf_return"}
  BY <1>1 DEF AttrAccess, UdmabufReturn, IInv, Locals, Holds
<1>4. /\ attr' \in Attr
      /\ \/ pc = "attr_access" /\ pc' = "cleanup_unmap" /\ acquired
         \/ pc = "attr_access" /\ pc' = "tmp_cleanup" /\ ~acquired
         \/ /\ pc = "attr_access" /\ pc' = "attr_open" /\ ~acquired
            /\ attr' # "sync_for"
         \/ pc = "attr_access" /\ pc' = "udmabuf_open" /\ ~acquired
         \/ pc = "attr_access" /\ pc' = "use" /\ acquired
         \/ pc = "udmabuf_return" /\ pc' = "hand_over" /\ acquired
         \/ pc = "udmabuf_return" /\ pc' = "tmp_cleanup" /\ ~acquired
  <2>1. CASE AttrAccess
    BY <2>1 DEF AttrAccess, FailTo, IInv, Phase, TypeOK, Attr
  <2>2. CASE UdmabufReturn
    BY <2>2 DEF UdmabufReturn, IInv, TypeOK
  <2> QED BY <2>1, <2>2
<1>5. TypeOK'
  BY <1>1, <1>2, <1>4 DEF IInv, TypeOK, Place
<1>6. Phase'
  BY <1>1, <1>4 DEF Phase
<1>7. Locals'
  BY <1>1, <1>2, <1>4 DEF IInv, Locals, InTmp, Empty
<1>8. Memory'
  BY <1>1, <1>2, <1>3, <1>4 DEF IInv, Memory, Holds, Running
<1>9. Buffer'
  BY <1>1, <1>2, <1>3, <1>4 DEF IInv, Buffer, Holds, InTmp
<1>10. Standard' /\ StdioKept' /\ OwnFds' = OwnFds \ {fd}
  BY <1>1, <1>2, <1>3, Releases
<1>11. FdsAccounted'
  BY <1>1, <1>4, <1>10 DEF IInv, FdsAccounted, Running, InTmp
<1>12. MapsAccounted'
  BY <1>1, <1>4 DEF IInv, MapsAccounted, Running, InTmp
<1> QED BY <1>5, <1>6, <1>7, <1>8, <1>9, <1>10, <1>11, <1>12 DEF IInv

(* cleanup_udmabuf of tmp: its descriptor is not open, having been handed  *)
(* over or closed by cleanup_fd before.                                    *)
LEMMA StepTmpCleanup ==
  ASSUME IInv, TmpCleanup
  PROVE  IInv'
<1>1. /\ pc = "tmp_cleanup" /\ UNCHANGED <<state, tmp, fd, attr, acquired, stdio>>
      /\ maps' = maps \ {tmp.virtual_base} /\ -1 \notin DOMAIN table
      /\ pc' = IF acquired THEN "use" ELSE "cleanup_unmap"
  BY DEF TmpCleanup, CleanupUdmabuf, IInv, TypeOK, Fd
<1>2. tmp.fd \notin DOMAIN table /\ (acquired => tmp = Empty)
  BY <1>1 DEF IInv, Locals, Empty
<1>3. /\ DOMAIN table' = DOMAIN table
      /\ \A g \in DOMAIN table : table'[g] = table[g]
      /\ errno' \in Errno
  <2>1. CASE tmp.fd >= 0
    BY <1>2, <2>1, ClosedTable DEF TmpCleanup, CleanupUdmabuf, ErrnoOfClose, Errno
  <2>2. CASE ~(tmp.fd >= 0)
    BY <2>2 DEF TmpCleanup, CleanupUdmabuf, IInv, TypeOK
  <2> QED BY <2>1, <2>2
<1>4. TypeOK'
  BY <1>1, <1>3 DEF IInv, TypeOK, Place
<1>5. Phase' /\ Locals'
  BY <1>1, <1>2 DEF IInv, Phase, Locals, InTmp
<1>6. Memory'
  BY <1>1, <1>2, <1>3 DEF IInv, Memory, Holds, Running, Empty
<1>7. Buffer'
  BY <1>1, <1>2, <1>3 DEF IInv, Buffer, Holds, InTmp, Empty
<1>8. FdsAccounted'
  BY <1>1, <1>3 DEF IInv, FdsAccounted, OwnFds, Running, InTmp
<1>9. MapsAccounted'
  BY <1>1 DEF IInv, MapsAccounted, Running, InTmp
<1>10. Standard' /\ StdioKept'
  BY <1>1, <1>3 DEF IInv, Standard, StdioKept, Holds
<1> QED BY <1>4, <1>5, <1>6, <1>7, <1>8, <1>9, <1>10 DEF IInv

(* One turn of the close loop of _state_cleanup: the descriptor of         *)
(* /dev/mem, or none, since nothing is opened in between.                  *)
LEMMA StepCleanupClose ==
  ASSUME IInv, CleanupClose
  PROVE  IInv'
<1> DEFINE m == state.fd_dev_mem
<1>1. /\ pc = "cleanup_close" /\ UNCHANGED <<maps, tmp, fd, attr, acquired, stdio>>
      /\ pc' \in {"cleanup_close", "cleanup_udmabuf"}
      /\ state'.udmabuf = state.udmabuf /\ state'.virtual_base = state.virtual_base
      /\ pc' = "cleanup_close" => state'.fd_dev_mem = m
      /\ m \in Fd \cup {-1} /\ -1 \notin DOMAIN table
  BY DEF CleanupClose, IInv, TypeOK, Fd
<1>2. m \in DOMAIN table => table[m] = "mem"
  BY <1>1 DEF IInv, Memory, Holds
<1>3. /\ DOMAIN table' = DOMAIN table \ {m}
      /\ \A g \in DOMAIN table' : table'[g] = table[g]
      /\ errno' \in Errno
  <2>1. CASE m >= 0
    <3>1. table' = Closed(m) /\ errno' \in ErrnoOfClose(m)
      BY <2>1 DEF CleanupClose
    <3> QED BY <3>1, ClosedTable DEF ErrnoOfClose, Errno, IInv, TypeOK
  <2>2. CASE ~(m >= 0)
    <3>1. m = -1
      BY <1>1, <2>2 DEF Fd
    <3>2. table' = table /\ errno' = errno
      BY <2>2 DEF CleanupClose
    <3> QED BY <1>1, <3>1, <3>2 DEF IInv, TypeOK
  <2> QED BY <2>1, <2>2
<1>4. TypeOK'
  <2>1. state' \in [fd_dev_mem : Fd \cup {-1}, virtual_base : Base, udmabuf : Udmabuf]
    BY DEF CleanupClose, IInv, TypeOK
  <2> QED BY <1>1, <1>3, <2>1 DEF IInv, TypeOK, Place
<1>5. Phase' /\ Locals'
  BY <1>1 DEF IInv, Phase, Locals, InTmp
<1>6. Memory'
  BY <1>1, <1>3 DEF IInv, Memory, Holds, Running
<1>7. Buffer'
  BY <1>1, <1>2, <1>3 DEF IInv, Buffer, Holds, InTmp
<1>8. Standard' /\ StdioKept' /\ OwnFds' = OwnFds \ {m}
  BY <1>1, <1>2, <1>3, Releases
<1>9. FdsAccounted'
  BY <1>1, <1>8 DEF IInv, FdsAccounted, Running, InTmp
<1>10. MapsAccounted'
  BY <1>1 DEF IInv, MapsAccounted, Running, InTmp
<1> QED BY <1>4, <1>5, <1>6, <1>7, <1>8, <1>9, <1>10 DEF IInv

(* cleanup_udmabuf of state: the buffer if there is one, and otherwise     *)
(* descriptor 0.                                                           *)
LEMMA StepCleanupState ==
  ASSUME IInv, CleanupState
  PROVE  IInv'
<1> DEFINE u == state.udmabuf
<1>1. /\ pc = "cleanup_udmabuf" /\ pc' = "off"
      /\ UNCHANGED <<state, tmp, fd, attr, acquired, stdio>>
      /\ maps' = maps \ {u.virtual_base} /\ u.fd \in Fd \cup {-1} /\ u.fd >= 0
      /\ table' = Closed(u.fd) /\ errno' \in ErrnoOfClose(u.fd)
  <2>1. u.fd \in Fd
    BY DEF CleanupState, IInv, Buffer, Holds, TypeOK, InTmp, Fd, Udmabuf
  <2>2. u.fd >= 0
    BY <2>1 DEF Fd
  <2> QED BY <2>1, <2>2 DEF CleanupState, CleanupUdmabuf
<1>2. /\ DOMAIN table' = DOMAIN table \ {u.fd}
      /\ \A g \in DOMAIN table' : table'[g] = table[g]
  BY <1>1, ClosedTable
<1>3. TypeOK'
  BY <1>1, <1>2 DEF IInv, TypeOK, Place, ErrnoOfClose, Errno
<1>4. Phase' /\ Locals' /\ Memory'
  BY <1>1 DEF IInv, Phase, Locals, Memory, InTmp, Running
<1>5. Buffer'
  BY <1>1 DEF IInv, Buffer, InTmp
<1>6. FdsAccounted'
  BY <1>1, <1>2 DEF IInv, FdsAccounted, OwnFds, Running, InTmp
<1>7. MapsAccounted'
  BY <1>1 DEF IInv, MapsAccounted, Buffer, Running, InTmp
<1>8. Standard'
  BY <1>1, <1>2 DEF IInv, Standard
<1>9. StdioKept'
  <2>1. \A f \in stdio : f # u.fd => f \in DOMAIN table' /\ table'[f] = "stdio"
    BY <1>1, <1>2 DEF IInv, Standard, Holds
  <2>2. CASE acquired
    <3>1. u.fd \notin stdio
      BY <1>1, <2>2 DEF IInv, Standard, Buffer, Holds, InTmp
    <3>2. stdio' = stdio /\ {f \in stdio : f \notin DOMAIN table' \/ table'[f] # "stdio"} = {}
      BY <1>1, <2>1, <3>1
    <3> QED BY <3>2, SMT DEF StdioKept
  <2>3. CASE ~acquired
    <3>1. u.fd = 0
      BY <2>3 DEF IInv, Buffer
    <3>2. {f \in stdio : f \notin DOMAIN table' \/ table'[f] # "stdio"} \subseteq {0}
      BY <2>1, <3>1
    <3>3. /\ ~acquired' /\ ~(pc' # "off") /\ stdio' = stdio
          /\ {f \in stdio' : f \notin DOMAIN table' \/ table'[f] # "stdio"} \subseteq {0}
      BY <1>1, <2>3, <3>2
    <3>4. (IF acquired' \/ pc' # "off" THEN {} ELSE {0}) = {0}
      BY <3>3, Zenon
    <3> QED BY <3>3, <3>4, Zenon DEF StdioKept
  <2> QED BY <2>2, <2>3
<1> QED BY <1>3, <1>4, <1>5, <1>6, <1>7, <1>8, <1>9 DEF IInv

(* The invariant holds in every reachable state.                           *)
LEMMA IInvAlways == Spec => []IInv
<1>1. IInv /\ UNCHANGED vars => IInv'
  BY DEF vars, IInv, TypeOK, Phase, Locals, Memory, Buffer, FdsAccounted, MapsAccounted,
     Standard, StdioKept, OwnFds, Holds
<1>2. IInv /\ Next => IInv'
  BY StepMaps, StepOpenMem, StepOpenLocal, StepReturns, StepUdmabufMmap, StepHandOver,
     StepTmpCleanup, StepCleanupClose, StepCleanupState DEF Next
<1> QED BY <1>1, <1>2, IInvInit, PTL DEF Spec

(* The state stays within its types on every path.                         *)
THEOREM ResourceTypes == Spec => []TypeOK
<1>1. IInv => TypeOK
  BY DEF IInv
<1> QED BY <1>1, IInvAlways, PTL

(* Whichever calls fail, a run that has ended has closed every descriptor  *)
(* it opened and unmapped the bridge and the buffer (main.c:77-92,         *)
(* memory_utils.c:160-217).                                                *)
THEOREM NoLeak == Spec => []NothingLeaks
<1>1. IInv => NothingLeaks
  <2> SUFFICES ASSUME IInv, pc = "off" PROVE OwnFds = {} /\ maps \subseteq {"sdramcsr"}
    BY DEF NothingLeaks
  <2>1. OwnFds = {}
    BY DEF IInv, FdsAccounted, Locals, InTmp, Running, OwnFds, TypeOK, Fd
  <2>2. maps \subseteq {"sdramcsr"}
    BY DEF IInv, MapsAccounted, InTmp, Running, TypeOK
  <2> QED BY <2>1, <2>2
<1> QED BY <1>1, IInvAlways, PTL

(* From mu_get_udmabuf to _state_cleanup the handles of /dev/mem and of    *)
(* the buffer are open, mapped and distinct (memory_utils.c:160-204).      *)
THEOREM HandlesStayLive == Spec => []HandlesLive
<1>1. IInv => HandlesLive
  BY DEF IInv, HandlesLive, Memory, Buffer, Holds, Running, InTmp
<1> QED BY <1>1, IInvAlways, PTL

(* A run closes none of the descriptors the process was started with, but  *)
(* for descriptor 0 when it did not get the buffer (main.c:198).           *)
THEOREM StdioSurvives == Spec => []StdioKept
<1>1. IInv => StdioKept
  BY DEF IInv
<1> QED BY <1>1, IInvAlways, PTL
=============================================================================
