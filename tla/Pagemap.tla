------------------------------- MODULE Pagemap -------------------------------
(***************************************************************************)
(* mu_virt_to_phys and mu_is_continuous of src/src/memory_utils.c.  Both   *)
(* read entries of /proc/<pid>/pagemap, one open, pread and close for each *)
(* entry, while the kernel may move pages, swap them out and map them      *)
(* again.  An entry's page frame number reads as zero without the right    *)
(* privilege.  Failures go to the error stack.                             *)
(***************************************************************************)
EXTENDS ErrStack, FiniteSets

CONSTANTS
    PageSize, Pages,        \* sysconf(_SC_PAGE_SIZE); virtual pages 0 .. Pages - 1
    Frame,                  \* page frame numbers
    Ranges,                 \* bound: the ranges asked about
    MaxTrail                \* bound: how far callers forward an error

Page    == 0 .. Pages - 1
Address == 0 .. Pages * PageSize - 1

ASSUME PageAssumption ==
    /\ PageSize \in Nat \ {0} /\ Pages \in Nat \ {0}
    /\ Frame \subseteq Nat /\ 0 \in Frame
    /\ {"args", "pagemap", "present", "swapped", "virt_to_phys", "is_continuous",
        "caller"} \subseteq Place
    /\ Ranges \subseteq Address \X Address /\ MaxTrail \in Nat

VARIABLES
    pagemap,        \* the kernel's page table
    privileged,     \* may the process see frame numbers?
    call,           \* the call under way, or the last one and its answer
    steady          \* no page of the call has changed since it began

vars == <<es, trail, pagemap, privileged, call, steady>>

(* A page is mapped, swapped out or neither.  Only the first kind has a    *)
(* frame; what stands there for a swapped page is not looked at.           *)
Entry == {e \in [present : BOOLEAN, swapped : BOOLEAN, pfn : Frame] :
             ~(e.present /\ e.swapped) /\ (e.present \/ e.pfn = 0)}

NoCall == [op |-> "none", a |-> 0, b |-> 0, i |-> 0, last |-> 0,
           continuous |-> FALSE, phys |-> 0]

Failure == [NoCall EXCEPT !.op = "failed"]

TypeOK ==
    /\ EsTypeOK
    /\ pagemap \in [Page -> Entry]
    /\ privileged \in BOOLEAN /\ steady \in BOOLEAN
    /\ call \in [op : {"none", "loop", "translated", "answered", "failed"},
                 a : Address, b : Address, i : Page, last : Frame,
                 continuous : BOOLEAN, phys : Nat]

Init ==
    /\ EsInit
    /\ pagemap \in [Page -> Entry]
    /\ privileged \in BOOLEAN
    /\ call = NoCall /\ steady = TRUE

----------------------------------------------------------------------------
(* The kernel (external).  What changes between two calls may as well      *)
(* change during the second.                                               *)
PageOf(addr) == addr \div PageSize

Remap(p, e) ==
    /\ call.op = "loop" /\ e # pagemap[p]
    /\ pagemap' = [pagemap EXCEPT ![p] = e]
    /\ steady' = (steady /\ p \notin PageOf(call.a) .. PageOf(call.b))
    /\ UNCHANGED <<es, trail, privileged, call>>

Seen(p) == IF privileged THEN pagemap[p] ELSE [pagemap[p] EXCEPT !.pfn = 0]

(* _get_pagemap_entry: the entry of an address; or open, pread or the      *)
(* check of the length fails, and the caller forwards that.                *)
GetPagemapEntry(addr) == Seen(PageOf(addr))

Unavailable(by) ==
    \E m, n \in Lengths :
        NewAndFwd([at |-> "pagemap", len |-> m], [at |-> by, len |-> n])

Failed(at) == \E len \in Lengths : New([at |-> at, len |-> len])

Idle == call.op # "loop"

----------------------------------------------------------------------------
(* The address of a frame and the offset in it.                            *)
Phys(e, addr) == e.pfn * PageSize + (addr % PageSize)

(* mu_virt_to_phys; without a phys_addr it fails at once.                  *)
VirtToPhys(addr) ==
    LET e == GetPagemapEntry(addr)
        c == [NoCall EXCEPT !.a = addr, !.b = addr]
    IN  /\ Idle
        /\ steady' = TRUE
        /\ \/ /\ \/ Failed("args")
                 \/ Unavailable("virt_to_phys")
                 \/ ~e.present /\ Failed("present")
                 \/ e.present /\ e.swapped /\ Failed("swapped")
              /\ call' = Failure
           \/ /\ e.present /\ ~e.swapped
              /\ call' = [c EXCEPT !.op = "translated", !.phys = Phys(e, addr)]
              /\ UNCHANGED <<es, trail>>
        /\ UNCHANGED <<pagemap, privileged>>

(* mu_is_continuous up to its loop.                                        *)
IsContinuous(a, b) ==
    LET c == [NoCall EXCEPT !.a = a, !.b = b, !.i = PageOf(a)]
    IN  /\ Idle
        /\ steady' = TRUE
        /\ \/ /\ a < b
              /\ call' = [c EXCEPT !.op = "loop"]
              /\ UNCHANGED <<es, trail>>
           \/ /\ a >= b /\ Failed("args")
              /\ call' = Failure
        /\ UNCHANGED <<pagemap, privileged>>

Answer(yes) == call' = [call EXCEPT !.op = "answered", !.continuous = yes]

(* The mutant that takes any later frame for the next one.                 *)
ContinuesLoosely(e) == e.present /\ ~e.swapped /\ (call.i = PageOf(call.a) \/ call.last + 1 <= e.pfn)

(* Entry e belongs to the same run of frames as the page before it.        *)
Continues(e) == e.present /\ ~e.swapped /\ (call.i = PageOf(call.a) \/ call.last + 1 = e.pfn)

(* An iteration of the loop: the entry of page i.                          *)
LoopStep ==
    LET e == GetPagemapEntry(call.i * PageSize)
    IN  /\ call.op = "loop"
        /\ \/ ~Continues(e) /\ Answer(FALSE)
           \/ Continues(e) /\ call.i = PageOf(call.b) /\ Answer(TRUE)
           \/ /\ Continues(e) /\ call.i < PageOf(call.b)
              /\ call' = [call EXCEPT !.i = @ + 1, !.last = e.pfn]
        /\ UNCHANGED <<es, trail, pagemap, privileged, steady>>

LoopFails ==
    /\ call.op = "loop"
    /\ Unavailable("is_continuous")
    /\ call' = Failure
    /\ UNCHANGED <<pagemap, privileged, steady>>

(* A caller that was told of a failure forwards it.                        *)
CallerForwards ==
    /\ call.op = "failed" /\ Len(trail) < MaxTrail
    /\ \E len \in Lengths : Fwd([at |-> "caller", len |-> len])
    /\ UNCHANGED <<pagemap, privileged, call, steady>>

Next ==
    \/ \E p \in Page, e \in Entry : Remap(p, e)
    \/ \E a \in Address : VirtToPhys(a)
    \/ \E r \in Ranges : IsContinuous(r[1], r[2])
    \/ LoopStep \/ LoopFails
    \/ CallerForwards

Spec == Init /\ [][Next]_vars

----------------------------------------------------------------------------
(* Properties.                                                             *)

Mapped(addr)    == pagemap[PageOf(addr)].present
Physical(addr)  == Phys(pagemap[PageOf(addr)], addr)
Contiguous(a, b) ==
    \A x \in a .. b : Mapped(x) /\ Physical(x) = Physical(a) + (x - a)

(* As long as no page of a range changes, the answer of mu_is_continuous   *)
(* says whether every byte of it lies at its distance from the first in    *)
(* physical memory; without the privilege the zeros never pass for         *)
(* neighbouring frames, and only ranges within a page are accepted.        *)
(* mu_virt_to_phys answers for mapped pages alone, with the byte's own     *)
(* offset, and with the frame if it may be seen (memory_utils.c:38-82).    *)
AnswersExact ==
    /\ call.op = "answered" /\ steady =>
          /\ call.continuous => Contiguous(call.a, call.b)
          /\ Contiguous(call.a, call.b) =>
                (call.continuous <=> privileged \/ PageOf(call.a) = PageOf(call.b))
    /\ call.op = "translated" =>
          /\ Mapped(call.a) /\ (call.phys - call.a) % PageSize = 0
          /\ privileged => PageOf(call.phys) = pagemap[PageOf(call.a)].pfn
=============================================================================
