--------------------------- MODULE HostResources ---------------------------
(***************************************************************************)
(* The handles of one run of _pipeline (src/src/main.c): the descriptor    *)
(* and mappings of /dev/mem, the u-dma-buf buffer that mu_get_udmabuf      *)
(* (src/src/memory_utils.c) acquires through sysfs attributes, and what    *)
(* the cleanup attributes release on each return path.                     *)
(*                                                                         *)
(* Every system call may fail.  A descriptor is a number, given out lowest *)
(* first; the process starts with any of 0, 1, 2 open.                     *)
(***************************************************************************)
EXTENDS Integers, FiniteSets

CONSTANT MaxFd      \* bound: the descriptors that can be given out

ASSUME MaxFdAssumption == MaxFd \in Nat /\ MaxFd >= 6

VARIABLES
    pc,
    table,          \* the open descriptors, each with what it refers to
    maps,           \* the live mappings
    errno,          \* "EINTR" or anything else
    state,          \* struct prog_state_s: fd_dev_mem, virtual_base, udmabuf
    tmp,            \* the udmabuf_t local to mu_get_udmabuf
    fd,             \* the CLEAN_FD local of the function running
    attr,           \* the sysfs attribute being accessed
    acquired,       \* mu_get_udmabuf has succeeded
    stdio           \* history: the descriptors the process was started with

vars == <<pc, table, maps, errno, state, tmp, fd, attr, acquired, stdio>>

Fd    == 0 .. MaxFd
Errno == {"EINTR", "other"}
File  == {"stdio", "mem", "attr", "udmabuf"}
Attr  == {"size", "phys_addr", "sync_mode", "sync_for"}

(* virtual_base of the bridge and of the buffer.  "failed" is MAP_FAILED,  *)
(* which is not NULL.                                                      *)
Base == {"NULL", "failed", "bridge", "udmabuf"}

Udmabuf == [fd : Fd \cup {-1}, virtual_base : Base]

Place == {"open_mem", "mmap_bridge", "mmap_csr", "attr_open", "attr_access",
          "udmabuf_open", "udmabuf_mmap", "udmabuf_return", "hand_over",
          "tmp_cleanup", "use", "cleanup_unmap", "cleanup_close",
          "cleanup_udmabuf", "off"}

TypeOK ==
    /\ pc \in Place
    /\ DOMAIN table \subseteq Fd
    /\ \A f \in DOMAIN table : table[f] \in File
    /\ maps \subseteq {"bridge", "sdramcsr", "udmabuf"}
    /\ errno \in Errno
    /\ state \in [fd_dev_mem : Fd \cup {-1}, virtual_base : Base, udmabuf : Udmabuf]
    /\ tmp \in Udmabuf
    /\ fd \in Fd \cup {-1}
    /\ attr \in Attr
    /\ acquired \in BOOLEAN
    /\ stdio \subseteq 0 .. 2

Init ==
    /\ pc = "open_mem"
    /\ stdio \in SUBSET (0 .. 2)
    /\ table = [f \in stdio |-> "stdio"]
    /\ maps = {}
    /\ errno = "other"
    /\ state = [fd_dev_mem |-> 0, virtual_base |-> "NULL",
                udmabuf |-> [fd |-> 0, virtual_base |-> "NULL"]]   \* state = {}
    /\ tmp = [fd |-> -1, virtual_base |-> "NULL"]
    /\ fd = -1
    /\ attr = "size"
    /\ acquired = FALSE

----------------------------------------------------------------------------
(* The system calls.                                                       *)

LowestFree == CHOOSE f \in Fd \ DOMAIN table :
                  \A g \in Fd \ DOMAIN table : f <= g

Opened(f, file) == [g \in DOMAIN table \cup {f} |-> IF g = f THEN file ELSE table[g]]
Closed(f) == [g \in DOMAIN table \ {f} |-> table[g]]

(* errno after close(f): Linux closes the descriptor even when it reports  *)
(* EINTR; closing a descriptor that is not open fails with EBADF.          *)
ErrnoOfClose(f) == IF f \in DOMAIN table THEN {errno, "EINTR", "other"} ELSE {"other"}

(* cleanup_fd.                                                             *)
CleanupFd ==
    /\ fd' = -1
    /\ IF fd >= 0
       THEN table' = Closed(fd) /\ errno' \in ErrnoOfClose(fd)
       ELSE UNCHANGED <<table, errno>>

(* cleanup_udmabuf: the mapping, then the descriptor.  The structure keeps *)
(* both values.                                                            *)
CleanupUdmabuf(u) ==
    /\ maps' = maps \ {u.virtual_base}
    /\ IF u.fd >= 0
       THEN table' = Closed(u.fd) /\ errno' \in ErrnoOfClose(u.fd)
       ELSE UNCHANGED <<table, errno>>

----------------------------------------------------------------------------
(* The set-up of _pipeline.                                                *)

OpenMem ==
    /\ pc = "open_mem"
    /\ \/ /\ table' = Opened(LowestFree, "mem")
          /\ state' = [state EXCEPT !.fd_dev_mem = LowestFree]
          /\ pc' = "mmap_bridge"
          /\ UNCHANGED errno
       \/ /\ state' = [state EXCEPT !.fd_dev_mem = -1]
          /\ errno' \in Errno
          /\ pc' = "cleanup_unmap"
          /\ UNCHANGED table
    /\ UNCHANGED <<maps, tmp, fd, attr, acquired, stdio>>

MmapBridge ==
    /\ pc = "mmap_bridge"
    /\ \/ /\ maps' = maps \cup {"bridge"}
          /\ state' = [state EXCEPT !.virtual_base = "bridge"]
          /\ pc' = "mmap_csr"
          /\ UNCHANGED errno
       \/ /\ state' = [state EXCEPT !.virtual_base = "failed"]
          /\ errno' = "other"
          /\ pc' = "cleanup_unmap"
          /\ UNCHANGED maps
    /\ UNCHANGED <<table, tmp, fd, attr, acquired, stdio>>

(* The mutant that stores the second mapping over the first.               *)
MmapCsrOverBridge ==
    /\ pc = "mmap_csr"
    /\ maps' = maps \cup {"sdramcsr"}
    /\ state' = [state EXCEPT !.virtual_base = "sdramcsr"]
    /\ pc' = "attr_open"
    /\ UNCHANGED <<table, errno, tmp, fd, attr, acquired, stdio>>

(* The mapping of the SDRAM controller; then mu_get_udmabuf begins.        *)
MmapCsr ==
    /\ pc = "mmap_csr"
    /\ \/ /\ maps' = maps \cup {"sdramcsr"}
          /\ pc' = "attr_open"
          /\ UNCHANGED errno
       \/ /\ errno' = "other"
          /\ pc' = "cleanup_unmap"
          /\ UNCHANGED maps
    /\ UNCHANGED <<table, state, tmp, fd, attr, acquired, stdio>>

----------------------------------------------------------------------------
(* _read_attr, _write_attr and _write_sync_for: open, transfer, close.     *)

(* Where a failing access returns to, through ES_FWD_INT_NM.               *)
FailTo == IF attr = "sync_for" THEN "cleanup_unmap" ELSE "tmp_cleanup"

AttrOpen ==
    /\ pc = "attr_open"
    /\ \/ /\ fd' = LowestFree
          /\ table' = Opened(LowestFree, "attr")
          /\ pc' = "attr_access"
          /\ UNCHANGED errno
       \/ /\ fd' = -1
          /\ errno' \in Errno
          /\ pc' = FailTo
          /\ UNCHANGED table
    /\ UNCHANGED <<maps, state, tmp, attr, acquired, stdio>>

(* read(2) or write(2) succeeds or fails; the descriptor is closed either  *)
(* way.  mu_get_udmabuf reads size and phys_addr and writes sync_mode.     *)
AttrAccess ==
    /\ pc = "attr_access"
    /\ CleanupFd
    /\ \/ pc' = FailTo /\ UNCHANGED attr
       \/ attr = "size"      /\ attr' = "phys_addr" /\ pc' = "attr_open"
       \/ attr = "phys_addr" /\ attr' = "sync_mode" /\ pc' = "attr_open"
       \/ attr = "sync_mode" /\ UNCHANGED attr      /\ pc' = "udmabuf_open"
       \/ attr = "sync_for"  /\ UNCHANGED attr      /\ pc' = "use"
    /\ UNCHANGED <<maps, state, tmp, acquired, stdio>>

----------------------------------------------------------------------------
(* _mmap_udmabuf and the end of mu_get_udmabuf.                            *)

UdmabufOpen ==
    /\ pc = "udmabuf_open"
    /\ \/ /\ fd' = LowestFree
          /\ table' = Opened(LowestFree, "udmabuf")
          /\ pc' = "udmabuf_mmap"
          /\ UNCHANGED errno
       \/ /\ fd' = -1
          /\ errno' \in Errno
          /\ pc' = "tmp_cleanup"
          /\ UNCHANGED table
    /\ UNCHANGED <<maps, state, tmp, attr, acquired, stdio>>

(* The check is "(int) virtual_base > 0": a mapping in the upper half of   *)
(* the address space counts as a failure although it exists.               *)
UdmabufMmap ==
    /\ pc = "udmabuf_mmap"
    /\ pc' = "udmabuf_return"
    /\ \/ /\ maps' = maps \cup {"udmabuf"}              \* below 2 GiB
          /\ tmp' = [fd |-> fd, virtual_base |-> "udmabuf"]
          /\ fd' = -1
          /\ acquired' = TRUE
          /\ UNCHANGED errno
       \/ /\ maps' = maps \cup {"udmabuf"}              \* above 2 GiB
          /\ tmp' = [fd |-> fd, virtual_base |-> "udmabuf"]
          /\ UNCHANGED <<fd, acquired, errno>>
       \/ /\ tmp' = [fd |-> fd, virtual_base |-> "failed"]
          /\ errno' = "other"
          /\ UNCHANGED <<maps, fd, acquired>>
    /\ UNCHANGED <<table, state, attr, stdio>>

(* _mmap_udmabuf returns and cleanup_fd runs on its fd.                    *)
UdmabufReturn ==
    /\ pc = "udmabuf_return"
    /\ CleanupFd
    /\ pc' = IF acquired THEN "hand_over" ELSE "tmp_cleanup"
    /\ UNCHANGED <<maps, state, tmp, attr, acquired, stdio>>

(* The mutant that forgets to reset tmp.                                   *)
HandOverKeepsTmp ==
    /\ pc = "hand_over"
    /\ state' = [state EXCEPT !.udmabuf = tmp]
    /\ pc' = "tmp_cleanup"
    /\ UNCHANGED <<table, maps, errno, tmp, fd, attr, acquired, stdio>>

(* The mutant that forgets the memcpy.                                     *)
HandOverWithoutCopy ==
    /\ pc = "hand_over"
    /\ tmp' = [fd |-> -1, virtual_base |-> "NULL"]
    /\ pc' = "tmp_cleanup"
    /\ UNCHANGED <<table, maps, errno, state, fd, attr, acquired, stdio>>

(* memcpy(dst, &tmp) and tmp = (udmabuf_t){.fd = -1}.                      *)
HandOver ==
    /\ pc = "hand_over"
    /\ state' = [state EXCEPT !.udmabuf = tmp]
    /\ tmp' = [fd |-> -1, virtual_base |-> "NULL"]
    /\ pc' = "tmp_cleanup"
    /\ UNCHANGED <<table, maps, errno, fd, attr, acquired, stdio>>

(* mu_get_udmabuf returns and cleanup_udmabuf runs on tmp.                 *)
TmpCleanup ==
    /\ pc = "tmp_cleanup"
    /\ CleanupUdmabuf(tmp)
    /\ pc' = IF acquired THEN "use" ELSE "cleanup_unmap"
    /\ UNCHANGED <<state, tmp, fd, attr, acquired, stdio>>

----------------------------------------------------------------------------
(* The run proper: any number of syncs, then the return.                   *)
UseSync ==
    /\ pc = "use"
    /\ attr' = "sync_for"
    /\ pc' = "attr_open"
    /\ UNCHANGED <<table, maps, errno, state, tmp, fd, acquired, stdio>>

UseReturn ==
    /\ pc = "use"
    /\ pc' = "cleanup_unmap"
    /\ UNCHANGED <<table, maps, errno, state, tmp, fd, attr, acquired, stdio>>

----------------------------------------------------------------------------
(* _state_cleanup.                                                         *)

CleanupUnmap ==
    /\ pc = "cleanup_unmap"
    /\ maps' = maps \ {state.virtual_base}
    /\ errno' = IF state.virtual_base = "failed" THEN "other" ELSE errno
    /\ state' = [state EXCEPT !.virtual_base = "NULL"]
    /\ pc' = "cleanup_close"
    /\ UNCHANGED <<table, tmp, fd, attr, acquired, stdio>>

(* The mutant whose loop does not look at errno.                           *)
CleanupCloseForever ==
    /\ pc = "cleanup_close"
    /\ IF state.fd_dev_mem >= 0
       THEN table' = Closed(state.fd_dev_mem) /\ UNCHANGED <<pc, errno, state>>
       ELSE pc' = "cleanup_udmabuf" /\ UNCHANGED <<table, errno, state>>
    /\ UNCHANGED <<maps, tmp, fd, attr, acquired, stdio>>

(* The mutant that takes descriptor 0 for "not open".                      *)
CleanupCloseSkipsZero ==
    /\ pc = "cleanup_close"
    /\ IF state.fd_dev_mem > 0
       THEN table' = Closed(state.fd_dev_mem) ELSE UNCHANGED table
    /\ pc' = "cleanup_udmabuf"
    /\ UNCHANGED <<maps, errno, state, tmp, fd, attr, acquired, stdio>>

(* One turn of "again: close": it is repeated when errno reads EINTR, also *)
(* when close succeeded and errno is left over from an earlier call.       *)
CleanupClose ==
    /\ pc = "cleanup_close"
    /\ IF state.fd_dev_mem >= 0
       THEN /\ table' = Closed(state.fd_dev_mem)
            /\ errno' \in ErrnoOfClose(state.fd_dev_mem)
            /\ IF errno' = "EINTR"
               THEN UNCHANGED <<pc, state>>
               ELSE /\ state' = [state EXCEPT !.fd_dev_mem = -1]
                    /\ pc' = "cleanup_udmabuf"
       ELSE pc' = "cleanup_udmabuf" /\ UNCHANGED <<table, errno, state>>
    /\ UNCHANGED <<maps, tmp, fd, attr, acquired, stdio>>

CleanupState ==
    /\ pc = "cleanup_udmabuf"
    /\ CleanupUdmabuf(state.udmabuf)
    /\ pc' = "off"
    /\ UNCHANGED <<state, tmp, fd, attr, acquired, stdio>>

----------------------------------------------------------------------------
Next ==
    \/ OpenMem \/ MmapBridge \/ MmapCsr
    \/ AttrOpen \/ AttrAccess
    \/ UdmabufOpen \/ UdmabufMmap \/ UdmabufReturn \/ HandOver \/ TmpCleanup
    \/ UseSync \/ UseReturn
    \/ CleanupUnmap \/ CleanupClose \/ CleanupState

(* The process runs until it ends; it may sync as often as it likes.       *)
Spec == Init /\ [][Next]_vars /\ WF_vars(Next)

----------------------------------------------------------------------------
(* Properties.                                                             *)

OwnFds == {f \in DOMAIN table : table[f] # "stdio"}

(* On every return path each descriptor the program opened is closed and   *)
(* the bridge and the buffer are unmapped (main.c:77-92, memory_utils.c:   *)
(* 173, 206-217).  Only the mapping of the SDRAM controller is left to the *)
(* kernel.                                                                 *)
NothingLeaks ==
    pc = "off" => OwnFds = {} /\ maps \subseteq {"sdramcsr"}

(* Between mu_get_udmabuf and _state_cleanup the handles in state are live *)
(* and distinct: no cleanup of a helper's local has released or replaced   *)
(* them (memory_utils.c:167, 180).                                         *)
HandlesLive ==
    pc \in {"use", "attr_open", "attr_access"} /\ acquired =>
        LET m == state.fd_dev_mem  u == state.udmabuf IN
        /\ m \in DOMAIN table /\ table[m] = "mem"
        /\ u.fd \in DOMAIN table /\ table[u.fd] = "udmabuf"
        /\ state.virtual_base = "bridge" /\ u.virtual_base = "udmabuf"
        /\ {"bridge", "udmabuf"} \subseteq maps

(* The descriptors the process was started with survive a run that got the *)
(* buffer, the repeated and double closes included; a run that did not get *)
(* it may lose standard input, the zero left in state.udmabuf.fd           *)
(* (main.c:198), and nothing else.                                         *)
StdioKept ==
    {f \in stdio : f \notin DOMAIN table \/ table[f] # "stdio"}
        \subseteq (IF acquired \/ pc # "off" THEN {} ELSE {0})

(* The loop of main.c:84-88 ends: a second close of the same descriptor    *)
(* fails with an errno that is not EINTR.                                  *)
CleanupEnds == (pc = "cleanup_unmap") ~> (pc = "off")
=============================================================================
