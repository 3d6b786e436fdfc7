--------------------------- MODULE PagemapProofs ---------------------------
(***************************************************************************)
(* Proofs about Pagemap, for every page size and every number of pages:    *)
(* the types, the bounds of the error stack among them, and the answers.   *)
(* The loop of mu_is_continuous compares page frames; that its answer is   *)
(* one about bytes is the arithmetic in the second half of this module.    *)
(***************************************************************************)
EXTENDS Pagemap, WellFoundedInduction, SequenceTheorems, TLAPS

----------------------------------------------------------------------------
(* Natural numbers.                                                        *)

(* Every nonempty set of natural numbers has a least element.  A proof by  *)
(* induction takes the least counterexample.                               *)
LEMMA LeastNat ==
  ASSUME NEW S, S \subseteq Nat, S # {}
  PROVE  \E m \in S : \A n \in S : m <= n
<1>1. IsWellFoundedOn(OpToRel(<, Nat), Nat)
  BY NatLessThanWellFounded, Zenon
<1>2. PICK m \in S : \A n \in S : ~(<<n, m>> \in OpToRel(<, Nat))
  BY <1>1, WFMin, Zenon
<1>3. \A n \in S : ~(n < m)
  BY <1>2 DEF OpToRel
<1> QED BY <1>3

(* Min returns that element.                                               *)
LEMMA MinNat ==
  ASSUME NEW S, S \subseteq Nat, S # {}
  PROVE  Min(S) \in S /\ \A n \in S : Min(S) <= n
BY LeastNat DEF Min

(* A number is its quotient times the divisor and its remainder.           *)
LEMMA Division ==
  ASSUME NEW P \in Nat \ {0}, NEW x \in Nat
  PROVE  /\ x \div P \in Nat /\ x % P \in Nat /\ x % P < P
         /\ x = (x \div P) * P + (x % P)
  OBVIOUS

(* In one way only.                                                        *)
LEMMA DivisionUnique ==
  ASSUME NEW P \in Nat \ {0}, NEW x \in Nat, NEW q \in Nat, NEW r \in Nat, r < P, x = q * P + r
  PROVE  x \div P = q /\ x % P = r
  OBVIOUS

----------------------------------------------------------------------------
(* Pages and offsets.                                                      *)

(* A later address lies in no earlier page.                                *)
LEMMA DivisionMonotone ==
  ASSUME NEW P \in Nat \ {0}, NEW x \in Nat, NEW y \in Nat, x <= y
  PROVE  x \div P <= y \div P
  OBVIOUS

(* An address below the end lies in one of the pages.                      *)
LEMMA DivisionBelow ==
  ASSUME NEW P \in Nat \ {0}, NEW n \in Nat, NEW x \in Nat, x < n * P
  PROVE  x \div P < n
  OBVIOUS

(* What is a whole number of pages away has the same offset.               *)
LEMMA Multiple ==
  ASSUME NEW P \in Nat \ {0}, NEW k \in Int
  PROVE  (k * P) % P = 0
  OBVIOUS

(* The page of an address, and the address of a page.                      *)
LEMMA Paging ==
  ASSUME NEW x \in Address
  PROVE  x \in Nat /\ PageOf(x) \in Page /\ x % PageSize \in Nat /\ x % PageSize < PageSize
         /\ x = PageOf(x) * PageSize + (x % PageSize)
<1>1. PageSize \in Nat \ {0} /\ Pages \in Nat \ {0}
  BY PageAssumption
<1>2. x \in Nat /\ x < Pages * PageSize
  BY <1>1 DEF Address
<1>3. PageOf(x) < Pages
  BY <1>1, <1>2, DivisionBelow DEF PageOf
<1> QED BY <1>1, <1>2, <1>3, Division DEF PageOf, Page

(* The first address of a page lies in it.                                 *)
LEMMA PageStart ==
  ASSUME NEW p \in Page
  PROVE  PageOf(p * PageSize) = p
<1>1. PageSize \in Nat \ {0} /\ p \in Nat
  BY PageAssumption DEF Page
<1> QED BY <1>1 DEF PageOf

(* The address and the page of a call that has none.                       *)
LEMMA NoAddress == 0 \in Address /\ 0 \in Page
  BY PageAssumption DEF Address, Page

(* The neighbours of a page within a range are pages of it.                *)
LEMMA PageBefore ==
  ASSUME NEW lo \in Page, NEW hi \in Page, NEW q \in Page, lo <= q, q <= hi, q # lo
  PROVE  q - 1 \in Page /\ lo <= q - 1 /\ q - 1 <= hi
BY PageAssumption DEF Page

(* The page after one that is not the last.                                *)
LEMMA PageAfter ==
  ASSUME NEW hi \in Page, NEW q \in Page, q < hi
  PROVE  /\ q + 1 \in Page /\ q + 1 <= hi /\ (q + 1) - 1 = q
         /\ \A p \in Page : p < q + 1 => p < q \/ p = q
         /\ \A p \in Page : p <= q => p <= q + 1
BY PageAssumption DEF Page

----------------------------------------------------------------------------
(* The error stack keeps its types.                                        *)

EsState == [start : 0 .. es_end, nul : 0 .. Size - 1,
            text : Seq([at : Place, len : 1 .. es_end])]

(* An append stays within the buffer.                                      *)
LEMMA AppendedType ==
  ASSUME NEW s \in EsState, NEW m \in Message
  PROVE  Appended(s, m) \in EsState
<1> DEFINE room == es_end - s.start
           n    == Min({m.len, room - 1})
<1>1. /\ Size \in Nat \ {0, 1} /\ es_end \in Nat /\ es_end = Size - 1 /\ es_end > 0
      /\ m.len \in Nat \ {0} /\ m.at \in Place
  <2>1. m.len \in Lengths /\ m.at \in Place
    BY DEF Message
  <2>2. m.len \in Nat \ {0}
    BY <2>1, StackAssumption
  <2>3. Size \in Nat \ {0, 1}
    BY StackAssumption
  <2> QED BY <2>1, <2>2, <2>3 DEF es_end
<1>2. s.start \in 0 .. es_end /\ s.nul \in 0 .. Size - 1
      /\ s.text \in Seq([at : Place, len : 1 .. es_end])
  BY DEF EsState
<1>3. CASE room = 0
  BY <1>3 DEF Appended
<1>4. CASE room # 0
  <2>1. room \in Nat \ {0} /\ ~(room < 0) /\ room <= es_end /\ s.start + room = es_end
    BY <1>1, <1>2, <1>4
  <2>2. n \in Nat /\ n <= room - 1
    <3>1. {m.len, room - 1} \subseteq Nat /\ {m.len, room - 1} # {}
      BY <1>1, <2>1
    <3> QED BY <3>1, MinNat, Zenon
  <2>3. Min({s.start + m.len, es_end}) \in 0 .. es_end
    <3>1. {s.start + m.len, es_end} \subseteq Nat /\ {s.start + m.len, es_end} # {}
      BY <1>1, <1>2
    <3>2. /\ Min({s.start + m.len, es_end}) \in {s.start + m.len, es_end}
          /\ Min({s.start + m.len, es_end}) <= es_end
      BY <3>1, MinNat
    <3> QED BY <1>1, <3>1, <3>2
  <2>4. Appended(s, m) =
          [start |-> Min({s.start + m.len, es_end}),
           nul   |-> s.start + n,
           text  |-> IF s.start = s.nul /\ n > 0
                     THEN Append(s.text, [m EXCEPT !.len = n]) ELSE s.text]
    BY <1>4, <2>1 DEF Appended
  <2> HIDE DEF n, room
  <2>5. s.start + n \in 0 .. Size - 1
    BY <1>1, <1>2, <2>1, <2>2
  <2>6. n > 0 => [m EXCEPT !.len = n] \in [at : Place, len : 1 .. es_end]
    BY <1>1, <2>1, <2>2 DEF Message
  <2>7. (IF s.start = s.nul /\ n > 0 THEN Append(s.text, [m EXCEPT !.len = n]) ELSE s.text)
          \in Seq([at : Place, len : 1 .. es_end])
    <3> DEFINE e == [m EXCEPT !.len = n]
    <3> HIDE DEF e
    <3>1. CASE n > 0
      <4>1. e \in [at : Place, len : 1 .. es_end]
        BY <2>6, <3>1 DEF e
      <4>2. Append(s.text, e) \in Seq([at : Place, len : 1 .. es_end])
        BY <1>2, <4>1
      <4> QED BY <1>2, <4>2 DEF e
    <3>2. CASE ~(n > 0)
      BY <1>2, <3>2, Zenon
    <3> QED BY <3>1, <3>2
  <2> QED BY <2>3, <2>4, <2>5, <2>7 DEF EsState
<1> QED BY <1>3, <1>4

(* So does a reset.                                                        *)
LEMMA ResetType == EsReset \in EsState
  BY StackAssumption DEF EsReset, EsState, es_end

(* A report of a failure, with or without a forward.                       *)
LEMMA ReportType ==
  ASSUME EsTypeOK
  PROVE  /\ \A m \in Message : New(m) => EsTypeOK'
         /\ \A m \in Message : Fwd(m) => EsTypeOK'
         /\ \A m, f \in Message : NewAndFwd(m, f) => EsTypeOK'
<1>1. es \in EsState /\ trail \in Seq(Message)
  BY DEF EsTypeOK, EsState
<1>2. ASSUME es' \in EsState, trail' \in Seq(Message) PROVE EsTypeOK'
  BY <1>2 DEF EsTypeOK, EsState, es_end
<1>3. ASSUME NEW m \in Message, New(m) PROVE EsTypeOK'
  BY <1>2, <1>3, AppendedType, ResetType DEF New, ES_NEW
<1>4. ASSUME NEW m \in Message, Fwd(m) PROVE EsTypeOK'
  BY <1>1, <1>2, <1>4, AppendedType DEF Fwd
<1>5. ASSUME NEW m \in Message, NEW f \in Message, NewAndFwd(m, f) PROVE EsTypeOK'
  <2>1. ES_NEW(m) \in EsState
    BY AppendedType, ResetType DEF ES_NEW
  <2>2. es' \in EsState
    BY <1>5, <2>1, AppendedType DEF NewAndFwd
  <2> QED BY <1>2, <1>5, <2>2 DEF NewAndFwd
<1> QED BY <1>3, <1>4, <1>5

(* The reports of this module are messages of the error stack.             *)
LEMMA FailureType ==
  ASSUME EsTypeOK
  PROVE  /\ Failed("args") \/ Failed("present") \/ Failed("swapped") => EsTypeOK'
         /\ Unavailable("virt_to_phys") \/ Unavailable("is_continuous") => EsTypeOK'
         /\ (\E len \in Lengths : Fwd([at |-> "caller", len |-> len])) => EsTypeOK'
<1>1. /\ "args" \in Place /\ "present" \in Place /\ "swapped" \in Place /\ "pagemap" \in Place
      /\ "virt_to_phys" \in Place /\ "is_continuous" \in Place /\ "caller" \in Place
  BY PageAssumption
<1>2. \A at \in Place, len \in Lengths : [at |-> at, len |-> len] \in Message
  BY DEF Message
<1>3. ASSUME NEW at \in Place, Failed(at) PROVE EsTypeOK'
  BY <1>2, <1>3, ReportType DEF Failed
<1>4. ASSUME NEW by \in Place, Unavailable(by) PROVE EsTypeOK'
  BY <1>1, <1>2, <1>4, ReportType DEF Unavailable
<1>5. ASSUME NEW len \in Lengths, Fwd([at |-> "caller", len |-> len]) PROVE EsTypeOK'
  BY <1>1, <1>2, <1>5, ReportType
<1> QED BY <1>1, <1>3, <1>4, <1>5

----------------------------------------------------------------------------
(* The inductive invariant.                                                *)

First == PageOf(call.a)
Last  == PageOf(call.b)

(* Page p is mapped, and where it is not the first its frame is the next.  *)
Follows(p) == pagemap[p].present /\ (p = First \/ Seen(p - 1).pfn + 1 = Seen(p).pfn)

(* The loop has been through the pages before i.                           *)
InLoop ==
    call.op = "loop" =>
        /\ call.a < call.b /\ First <= call.i /\ call.i <= Last
        /\ steady => /\ \A p \in Page : First <= p /\ p < call.i => Follows(p)
                     /\ call.i # First => call.last = Seen(call.i - 1).pfn

(* The answer is about all pages of the range.                             *)
Run == \A p \in Page : First <= p /\ p <= Last => Follows(p)

Answered ==
    call.op = "answered" =>
        /\ call.a < call.b
        /\ steady => (call.continuous <=> Run)

Translated ==
    call.op = "translated" =>
        /\ Mapped(call.a) /\ (call.phys - call.a) % PageSize = 0
        /\ privileged => PageOf(call.phys) = pagemap[PageOf(call.a)].pfn

IInv == TypeOK /\ InLoop /\ Answered /\ Translated

(* What the process sees of an entry.                                      *)
LEMMA SeenEntry ==
  ASSUME TypeOK, NEW p \in Page
  PROVE  /\ pagemap[p].present \in BOOLEAN /\ pagemap[p].pfn \in Frame
         /\ pagemap[p].present => ~pagemap[p].swapped
         /\ Seen(p).present = pagemap[p].present /\ Seen(p).swapped = pagemap[p].swapped
         /\ Seen(p).pfn = IF privileged THEN pagemap[p].pfn ELSE 0
         /\ Seen(p).pfn \in Frame
<1>1. /\ pagemap[p] \in [present : BOOLEAN, swapped : BOOLEAN, pfn : Frame]
      /\ ~(pagemap[p].present /\ pagemap[p].swapped)
  BY DEF TypeOK, Entry
<1>2. 0 \in Frame
  BY PageAssumption
<1> QED BY <1>1, <1>2 DEF Seen

(* A step that leaves the answer alone.                                    *)
LEMMA KeepsAnswer ==
  ASSUME IInv, EsTypeOK', UNCHANGED <<pagemap, privileged, call, steady>>
  PROVE  IInv'
<1>1. TypeOK'
  BY DEF IInv, TypeOK
<1> QED BY <1>1 DEF IInv, InLoop, Answered, Translated, Run, Follows, First, Last, Seen, Mapped

(* A call that fails has no answer.                                        *)
LEMMA Fails ==
  ASSUME IInv, EsTypeOK', call' = Failure, UNCHANGED <<pagemap, privileged>>, steady' \in BOOLEAN
  PROVE  IInv'
<1>1. /\ call' \in [op : {"none", "loop", "translated", "answered", "failed"},
                     a : Address, b : Address, i : Page, last : Frame,
                     continuous : BOOLEAN, phys : Nat]
      /\ call'.op = "failed"
  BY NoAddress, PageAssumption DEF Failure, NoCall
<1>2. TypeOK'
  BY <1>1 DEF IInv, TypeOK
<1>3. InLoop' /\ Answered' /\ Translated'
  BY <1>1 DEF InLoop, Answered, Translated
<1> QED BY <1>2, <1>3 DEF IInv

(* mu_virt_to_phys.                                                        *)
LEMMA StepVirtToPhys ==
  ASSUME IInv, NEW addr \in Address, VirtToPhys(addr)
  PROVE  IInv'
<1> DEFINE e == GetPagemapEntry(addr)
           p == PageOf(addr)
<1>1. steady' = TRUE /\ pagemap' = pagemap /\ privileged' = privileged
  BY DEF VirtToPhys
<1>2. p \in Page /\ EsTypeOK /\ TypeOK
  BY Paging DEF IInv, TypeOK
<1>3. ASSUME call' = Failure, EsTypeOK' PROVE IInv'
  BY <1>1, <1>3, Fails
<1>4. CASE /\ e.present /\ ~e.swapped
           /\ call' = [[NoCall EXCEPT !.a = addr, !.b = addr] EXCEPT
                         !.op = "translated", !.phys = Phys(e, addr)]
           /\ UNCHANGED <<es, trail>>
  <2> DEFINE f == e.pfn
             r == addr % PageSize
  <2>1. /\ pagemap[p].present /\ f \in Nat /\ (privileged => f = pagemap[p].pfn)
    <3>1. f \in Frame /\ (privileged => f = pagemap[p].pfn) /\ pagemap[p].present
      BY <1>2, <1>4, SeenEntry DEF GetPagemapEntry
    <3> QED BY <3>1, PageAssumption
  <2>2. /\ addr \in Nat /\ p \in Nat /\ r \in Nat /\ r < PageSize /\ addr = p * PageSize + r
        /\ PageSize \in Nat \ {0}
    BY Paging, PageAssumption DEF Page
  <2>3. Phys(e, addr) = f * PageSize + r
    BY DEF Phys
  <2> HIDE DEF f, r
  <2>4. Phys(e, addr) \in Nat /\ PageOf(Phys(e, addr)) = f
    <3>1. f * PageSize + r \in Nat
      BY <2>1, <2>2
    <3>2. (f * PageSize + r) \div PageSize = f
      BY <2>1, <2>2, <3>1, DivisionUnique, Zenon
    <3> QED BY <2>3, <3>1, <3>2 DEF PageOf
  <2>5. Phys(e, addr) - addr = (f - p) * PageSize /\ f - p \in Int
    BY <2>1, <2>2, <2>3
  <2>6. (Phys(e, addr) - addr) % PageSize = 0
    BY <2>2, <2>5, Multiple
  <2> DEFINE ph == Phys(e, addr)
  <2>7. call' = [op |-> "translated", a |-> addr, b |-> addr, i |-> 0, last |-> 0,
                 continuous |-> FALSE, phys |-> ph]
    BY <1>4 DEF NoCall
  <2> HIDE DEF ph
  <2>8. ph \in Nat /\ (ph - addr) % PageSize = 0 /\ PageOf(ph) = f
    BY <2>4, <2>6 DEF ph
  <2>9. /\ call' \in [op : {"none", "loop", "translated", "answered", "failed"},
                       a : Address, b : Address, i : Page, last : Frame,
                       continuous : BOOLEAN, phys : Nat]
        /\ call'.op = "translated" /\ call'.a = addr /\ call'.phys = ph
    BY <2>7, <2>8, NoAddress, PageAssumption
  <2>10. TypeOK'
    BY <1>1, <1>2, <1>4, <2>9 DEF TypeOK, EsTypeOK
  <2>11. InLoop' /\ Answered'
    BY <2>9 DEF InLoop, Answered
  <2>12. Translated'
    BY <1>1, <2>1, <2>8, <2>9 DEF Translated, Mapped
  <2> QED BY <2>10, <2>11, <2>12 DEF IInv
<1>5. CASE /\ \/ Failed("args")
              \/ Unavailable("virt_to_phys")
              \/ ~e.present /\ Failed("present")
              \/ e.present /\ e.swapped /\ Failed("swapped")
           /\ call' = Failure
  BY <1>2, <1>3, <1>5, FailureType
<1> QED BY <1>4, <1>5 DEF VirtToPhys

(* mu_is_continuous up to its loop.                                        *)
LEMMA StepIsContinuous ==
  ASSUME IInv, NEW a \in Address, NEW b \in Address, IsContinuous(a, b)
  PROVE  IInv'
<1>1. steady' = TRUE /\ pagemap' = pagemap /\ privileged' = privileged /\ EsTypeOK /\ TypeOK
  BY DEF IsContinuous, IInv, TypeOK
<1>2. CASE /\ a < b
           /\ call' = [[NoCall EXCEPT !.a = a, !.b = b, !.i = PageOf(a)] EXCEPT !.op = "loop"]
           /\ UNCHANGED <<es, trail>>
  <2> DEFINE q == PageOf(a)
  <2>1. /\ a \in Nat /\ b \in Nat /\ q \in Page /\ PageSize \in Nat \ {0} /\ PageOf(b) \in Page
    BY Paging, PageAssumption
  <2>2. q <= PageOf(b) /\ q \in Nat /\ \A p \in Page : ~(q <= p /\ p < q)
    BY <1>2, <2>1, DivisionMonotone DEF PageOf, Page
  <2>3. call' = [op |-> "loop", a |-> a, b |-> b, i |-> q, last |-> 0,
                 continuous |-> FALSE, phys |-> 0]
    BY <1>2 DEF NoCall
  <2> HIDE DEF q
  <2>4. /\ call' \in [op : {"none", "loop", "translated", "answered", "failed"},
                       a : Address, b : Address, i : Page, last : Frame,
                       continuous : BOOLEAN, phys : Nat]
        /\ call'.op = "loop" /\ call'.a = a /\ call'.b = b /\ call'.i = q
    BY <2>1, <2>3, PageAssumption
  <2>5. TypeOK'
    BY <1>1, <1>2, <2>4 DEF TypeOK, EsTypeOK
  <2>6. Answered' /\ Translated'
    BY <2>4 DEF Answered, Translated
  <2>7. InLoop'
    <3>1. First' = q /\ Last' = PageOf(b)
      BY <2>4 DEF First, Last, q
    <3> QED BY <1>2, <2>2, <2>4, <3>1 DEF InLoop
  <2> QED BY <2>5, <2>6, <2>7 DEF IInv
<1>3. CASE Failed("args") /\ call' = Failure
  <2>1. EsTypeOK'
    BY <1>1, <1>3, FailureType
  <2> QED BY <1>1, <1>3, <2>1, Fails
<1> QED BY <1>2, <1>3 DEF IsContinuous

(* The kernel changes an entry: of a page outside the range, or the call   *)
(* is not steady any more.                                                 *)
LEMMA StepRemap ==
  ASSUME IInv, NEW p \in Page, NEW e \in Entry, Remap(p, e)
  PROVE  IInv'
<1>1. /\ call.op = "loop" /\ pagemap' = [pagemap EXCEPT ![p] = e] /\ privileged' = privileged
      /\ call' = call /\ es' = es /\ trail' = trail
      /\ steady' = (steady /\ p \notin First .. Last)
  BY DEF Remap, First, Last
<1>2. TypeOK'
  BY <1>1 DEF IInv, TypeOK, EsTypeOK
<1>3. Answered' /\ Translated'
  BY <1>1 DEF Answered, Translated
<1>4. InLoop'
  <2>1. /\ call.a < call.b /\ First <= call.i /\ call.i <= Last
        /\ First' = First /\ Last' = Last
    BY <1>1 DEF IInv, InLoop, First, Last
  <2>2. First \in Page /\ Last \in Page /\ call.i \in Page /\ Page \subseteq Nat
        /\ DOMAIN pagemap = Page
    BY Paging DEF IInv, TypeOK, First, Last, Page
  <2>3. ASSUME steady' PROVE /\ \A q \in Page : First <= q /\ q < call.i => Follows(q)'
                             /\ call.i # First => call.last = Seen(call.i - 1)'.pfn
    <3>1. steady /\ p \notin First .. Last
      BY <1>1, <2>3
    <3>2. \A q \in Page : First <= q /\ q <= Last => q # p
      BY <2>2, <3>1
    <3>3. \A q \in Page : First <= q /\ q <= Last => pagemap'[q] = pagemap[q] /\ Seen(q)' = Seen(q)
      BY <1>1, <2>2, <3>2 DEF Seen
    <3>4. ASSUME NEW q \in Page, First <= q, q < call.i PROVE Follows(q)'
      <4>1. Follows(q)
        BY <1>1, <3>1, <3>4 DEF IInv, InLoop
      <4>2. pagemap'[q] = pagemap[q] /\ Seen(q)' = Seen(q)
        BY <2>1, <2>2, <3>3, <3>4
      <4>3. q # First => Seen(q - 1)' = Seen(q - 1)
        <5>1. q <= Last
          <6> DEFINE k == call.i
          <6>1. k \in Nat /\ q \in Nat /\ Last \in Nat /\ q < k /\ k <= Last
            BY <2>1, <2>2, <3>4
          <6> HIDE DEF k
          <6> QED BY <6>1
        <5>2. q # First => q - 1 \in Page /\ First <= q - 1 /\ q - 1 <= Last
          BY <2>2, <3>4, <5>1, PageBefore
        <5> QED BY <3>3, <5>2, Zenon
      <4> QED BY <2>1, <4>1, <4>2, <4>3 DEF Follows
    <3>5. ASSUME call.i # First PROVE call.last = Seen(call.i - 1)'.pfn
      <4>1. call.i - 1 \in Page /\ First <= call.i - 1 /\ call.i - 1 <= Last
        BY <2>1, <2>2, <3>5, PageBefore
      <4>2. Seen(call.i - 1)' = Seen(call.i - 1)
        <5> DEFINE k == call.i - 1
        <5>1. k' = k /\ pagemap'[k] = pagemap[k]
          BY <1>1, <3>3, <4>1
        <5> HIDE DEF k
        <5>2. Seen(k)' = Seen(k)
          BY <1>1, <5>1 DEF Seen
        <5> QED BY <5>2 DEF k
      <4>3. call.last = Seen(call.i - 1).pfn
        BY <1>1, <3>1, <3>5 DEF IInv, InLoop
      <4> QED BY <4>2, <4>3
    <3> QED BY <3>4, <3>5
  <2> QED BY <1>1, <2>1, <2>3 DEF InLoop
<1> QED BY <1>2, <1>3, <1>4 DEF IInv

(* An iteration of the loop compares page i with the page before it.       *)
LEMMA StepLoop ==
  ASSUME IInv, LoopStep
  PROVE  IInv'
<1> DEFINE e == GetPagemapEntry(call.i * PageSize)
<1>1. /\ call.op = "loop" /\ es' = es /\ trail' = trail /\ pagemap' = pagemap
      /\ privileged' = privileged /\ steady' = steady
  BY DEF LoopStep
<1>2. /\ TypeOK /\ call.a < call.b /\ First <= call.i /\ call.i <= Last
      /\ First \in Page /\ Last \in Page /\ call.i \in Page /\ Page \subseteq Nat
      /\ call \in [op : {"none", "loop", "translated", "answered", "failed"},
                    a : Address, b : Address, i : Page, last : Frame,
                    continuous : BOOLEAN, phys : Nat]
  BY <1>1, Paging DEF IInv, InLoop, TypeOK, First, Last, Page
<1>3. e = Seen(call.i)
  BY <1>2, PageStart DEF GetPagemapEntry
<1>4. e.pfn \in Frame
  BY <1>2, <1>3, SeenEntry
<1>5. steady => (Continues(e) <=> Follows(call.i))
  <2>1. steady => (call.i # First => call.last = Seen(call.i - 1).pfn)
    BY <1>1 DEF IInv, InLoop
  <2>2. e.present = pagemap[call.i].present /\ (pagemap[call.i].present => ~e.swapped)
    BY <1>2, <1>3, SeenEntry
  <2> QED BY <1>3, <2>1, <2>2 DEF Continues, Follows, First
<1>6. ASSUME NEW yes \in BOOLEAN, Answer(yes), steady => (yes <=> Run) PROVE IInv'
  <2>1. /\ call'.op = "answered" /\ call'.a = call.a /\ call'.b = call.b /\ call'.continuous = yes
        /\ call' \in [op : {"none", "loop", "translated", "answered", "failed"},
                       a : Address, b : Address, i : Page, last : Frame,
                       continuous : BOOLEAN, phys : Nat]
    BY <1>2, <1>6 DEF Answer
  <2>2. TypeOK'
    BY <1>1, <1>2, <2>1 DEF TypeOK, EsTypeOK
  <2>3. InLoop' /\ Translated'
    BY <2>1 DEF InLoop, Translated
  <2>4. First' = First /\ Last' = Last
    BY <2>1 DEF First, Last
  <2>5. \A p \in Page : Follows(p)' <=> Follows(p)
    BY <1>1, <2>4 DEF Follows, Seen
  <2>6. Run' <=> Run
    BY <2>4, <2>5 DEF Run
  <2>7. Answered'
    BY <1>1, <1>2, <1>6, <2>1, <2>6 DEF Answered
  <2> QED BY <2>2, <2>3, <2>7 DEF IInv
<1>7. CASE ~Continues(e) /\ Answer(FALSE)
  <2>1. steady => ~Run
    BY <1>2, <1>5, <1>7 DEF Run
  <2> QED BY <1>6, <1>7, <2>1
<1>8. CASE Continues(e) /\ call.i = PageOf(call.b) /\ Answer(TRUE)
  <2>1. ASSUME steady PROVE Run
    <3>1. call.i = Last /\ Follows(call.i)
      BY <1>5, <1>8, <2>1 DEF Last
    <3>2. \A p \in Page : First <= p /\ p < call.i => Follows(p)
      BY <1>1, <2>1 DEF IInv, InLoop
    <3>3. \A p \in Page : p <= Last => p < call.i \/ p = call.i
      BY <1>2, <3>1
    <3> QED BY <3>1, <3>2, <3>3 DEF Run
  <2> QED BY <1>6, <1>8, <2>1
<1>9. CASE /\ Continues(e) /\ call.i < PageOf(call.b)
           /\ call' = [call EXCEPT !.i = @ + 1, !.last = e.pfn]
  <2>1. call.i + 1 \in Page /\ call.i + 1 <= Last
    BY <1>2, <1>9, PageAfter DEF Last
  <2>2. /\ call'.op = "loop" /\ call'.a = call.a /\ call'.b = call.b
        /\ call'.i = call.i + 1 /\ call'.last = e.pfn
        /\ call' \in [op : {"none", "loop", "translated", "answered", "failed"},
                       a : Address, b : Address, i : Page, last : Frame,
                       continuous : BOOLEAN, phys : Nat]
    BY <1>1, <1>2, <1>4, <1>9, <2>1
  <2>3. TypeOK'
    BY <1>1, <1>2, <2>2 DEF TypeOK, EsTypeOK
  <2>4. Answered' /\ Translated'
    BY <2>2 DEF Answered, Translated
  <2>5. First' = First /\ Last' = Last
    BY <2>2 DEF First, Last
  <2>6. \A p \in Page : Follows(p)' <=> Follows(p)
    BY <1>1, <2>5 DEF Follows, Seen
  <2>7. ASSUME steady PROVE \A p \in Page : First <= p /\ p < call.i + 1 => Follows(p)
    <3>1. \A p \in Page : p < call.i + 1 => p < call.i \/ p = call.i
      BY <1>2, <1>9, PageAfter DEF Last
    <3>2. \A p \in Page : First <= p /\ p < call.i => Follows(p)
      BY <1>1, <2>7 DEF IInv, InLoop
    <3>3. Follows(call.i)
      BY <1>5, <1>9, <2>7
    <3> QED BY <3>1, <3>2, <3>3, Zenon
  <2>8. call'.last = Seen(call.i - 1)'.pfn
    <3> DEFINE k == call.i
    <3>1. (k + 1) - 1 = k /\ call'.last = Seen(k).pfn
      BY <1>2, <1>3, <1>9, <2>2, PageAfter DEF Last
    <3>2. call'.i - 1 = k
      BY <2>2, <3>1
    <3> HIDE DEF k
    <3>3. pagemap'[call'.i - 1] = pagemap[k]
      BY <1>1, <3>2
    <3> QED BY <1>1, <3>1, <3>3 DEF Seen
  <2>9. First <= call.i + 1
    <3>1. First \in Nat /\ call.i \in Nat
      BY <1>2
    <3> DEFINE k == call.i
    <3> HIDE DEF k
    <3>2. k \in Nat /\ First <= k
      BY <1>2, <3>1 DEF k
    <3>3. First <= k + 1
      BY <3>1, <3>2
    <3> QED BY <3>3 DEF k
  <2>10. InLoop'
    <3>1. steady' => \A p \in Page : First' <= p /\ p < call'.i => Follows(p)'
      BY <1>1, <2>2, <2>5, <2>6, <2>7
    <3>2. call'.a < call'.b /\ First' <= call'.i /\ call'.i <= Last'
      BY <1>2, <2>1, <2>2, <2>5, <2>9
    <3> QED BY <2>8, <3>1, <3>2 DEF InLoop
  <2> QED BY <2>3, <2>4, <2>10 DEF IInv
<1> QED BY <1>7, <1>8, <1>9 DEF LoopStep

(* The invariant holds in every reachable state.                           *)
LEMMA IInvAlways == Spec => []IInv
<1>1. Init => IInv
  <2> SUFFICES ASSUME Init PROVE IInv
    OBVIOUS
  <2>1. EsTypeOK
    BY ResetType DEF Init, EsInit, EsTypeOK, EsState
  <2>2. /\ call \in [op : {"none", "loop", "translated", "answered", "failed"},
                      a : Address, b : Address, i : Page, last : Frame,
                      continuous : BOOLEAN, phys : Nat]
        /\ call.op = "none"
    BY NoAddress, PageAssumption DEF Init, NoCall
  <2>3. TypeOK
    BY <2>1, <2>2 DEF Init, TypeOK
  <2> QED BY <2>2, <2>3 DEF IInv, InLoop, Answered, Translated
<1>2. ASSUME IInv, [Next]_vars PROVE IInv'
  <2>1. CASE \E p \in Page, e \in Entry : Remap(p, e)
    BY <1>2, <2>1, StepRemap
  <2>2. CASE \E a \in Address : VirtToPhys(a)
    BY <1>2, <2>2, StepVirtToPhys
  <2>3. CASE \E r \in Ranges : IsContinuous(r[1], r[2])
    <3>1. PICK r \in Ranges : IsContinuous(r[1], r[2])
      BY <2>3
    <3>2. r[1] \in Address /\ r[2] \in Address
      BY PageAssumption
    <3> QED BY <1>2, <3>1, <3>2, StepIsContinuous
  <2>4. CASE LoopStep
    BY <1>2, <2>4, StepLoop
  <2>5. CASE LoopFails
    <3>1. EsTypeOK' /\ call' = Failure /\ UNCHANGED <<pagemap, privileged>> /\ steady' \in BOOLEAN
      BY <1>2, <2>5, FailureType DEF LoopFails, IInv, TypeOK
    <3> QED BY <1>2, <3>1, Fails
  <2>6. CASE CallerForwards
    <3>1. EsTypeOK' /\ UNCHANGED <<pagemap, privileged, call, steady>>
      BY <1>2, <2>6, FailureType DEF CallerForwards, IInv, TypeOK
    <3> QED BY <1>2, <3>1, KeepsAnswer
  <2>7. CASE UNCHANGED vars
    <3>1. EsTypeOK' /\ UNCHANGED <<pagemap, privileged, call, steady>>
      BY <1>2, <2>7 DEF vars, IInv, TypeOK, EsTypeOK
    <3> QED BY <1>2, <3>1, KeepsAnswer
  <2> QED BY <1>2, <2>1, <2>2, <2>3, <2>4, <2>5, <2>6, <2>7 DEF Next
<1> QED BY <1>1, <1>2, PTL DEF Spec

(* The call, the error stack and the page table stay within their types.   *)
THEOREM PagemapTypes == Spec => []TypeOK
<1>1. IInv => TypeOK
  BY DEF IInv
<1> QED BY <1>1, IInvAlways, PTL

----------------------------------------------------------------------------
(* From pages to bytes and back.                                           *)

(* Multiples of the page size.                                             *)
LEMMA Scaled ==
  ASSUME NEW P \in Nat \ {0}, NEW k \in Int, NEW l \in Int
  PROVE  k * P \in Int /\ (k + 1) * P = k * P + P /\ (k <= l => k * P <= l * P)
  OBVIOUS

(* Equal multiples of the page size.                                       *)
LEMMA Cancel ==
  ASSUME NEW P \in Nat \ {0}, NEW k \in Nat, NEW l \in Nat, k * P = l * P
  PROVE  k = l
  OBVIOUS

(* Frames as far apart as their pages keep bytes as far apart.             *)
LEMMA Distance ==
  ASSUME NEW P \in Nat \ {0}, NEW c \in Nat, NEW p \in Nat, NEW q \in Nat, NEW r \in Nat,
         NEW s \in Nat, NEW x \in Nat, NEW a \in Nat, x = p * P + r, a = q * P + s
  PROVE  (c + (p - q)) * P + r = c * P + s + (x - a)
  OBVIOUS

(* Frame p holds page p.                                                   *)
PfnOf(p) == pagemap[p].pfn

(* The frames of a run are as far apart as its pages.                      *)
LEMMA RunOfFrames ==
  ASSUME TypeOK, privileged, Run, NEW p \in Page, First <= p, p <= Last
  PROVE  PfnOf(p) = PfnOf(First) + (p - First)
<1>1. First \in Page /\ Last \in Page /\ Page \subseteq Nat
  BY Paging DEF TypeOK, First, Last, Page
<1>2. \A q \in Page : PfnOf(q) \in Nat /\ Seen(q).pfn = PfnOf(q)
  BY SeenEntry, PageAssumption DEF PfnOf
<1> DEFINE S == {q \in Page : First <= q /\ q <= Last /\ PfnOf(q) # PfnOf(First) + (q - First)}
<1>3. CASE S = {}
  BY <1>3
<1>4. CASE S # {}
  <2>1. S \subseteq Nat
    BY <1>1
  <2>2. PICK m \in S : \A n \in S : m <= n
    BY <1>4, <2>1, LeastNat, Zenon
  <2>3. m \in Page /\ First <= m /\ m <= Last /\ PfnOf(m) # PfnOf(First) + (m - First)
    BY <2>2
  <2>4. m # First
    <3>1. PfnOf(First) \in Nat /\ First \in Nat
      BY <1>1, <1>2
    <3>2. PfnOf(First) + (First - First) = PfnOf(First)
      BY <3>1
    <3> QED BY <2>3, <3>2
  <2>5. m - 1 \in Page /\ First <= m - 1 /\ m - 1 <= Last
    BY <1>1, <2>3, <2>4, PageBefore
  <2>6. m - 1 \notin S
    <3>1. m \in Nat
      BY <1>1, <2>3
    <3>2. ~(m <= m - 1)
      BY <3>1
    <3> QED BY <2>2, <3>2, Zenon
  <2>7. PfnOf(m - 1) = PfnOf(First) + ((m - 1) - First)
    BY <2>5, <2>6, Zenon
  <2>8. PfnOf(m - 1) + 1 = PfnOf(m)
    <3>1. Seen(m - 1).pfn + 1 = Seen(m).pfn
      BY <2>3, <2>4 DEF Run, Follows
    <3>2. Seen(m - 1).pfn = PfnOf(m - 1) /\ Seen(m).pfn = PfnOf(m)
      BY <1>2, <2>3, <2>5, Zenon
    <3> QED BY <3>1, <3>2
  <2>9. PfnOf(First) \in Nat /\ PfnOf(m) \in Nat /\ m \in Nat /\ First \in Nat
    BY <1>1, <1>2, <2>3
  <2> HIDE DEF S
  <2>10. PfnOf(m) = PfnOf(First) + (m - First)
    BY <2>7, <2>8, <2>9
  <2> QED BY <2>3, <2>10
<1> QED BY <1>3, <1>4

(* Without the privilege a run is a page.                                  *)
LEMMA RunUnprivileged ==
  ASSUME TypeOK, ~privileged, Run, First <= Last
  PROVE  First = Last
<1>1. First \in Page /\ Last \in Page
  BY Paging DEF TypeOK, First, Last
<1> SUFFICES ASSUME First # Last PROVE FALSE
  OBVIOUS
<1>2. Last - 1 \in Page /\ First <= Last /\ Last <= Last
  BY <1>1, PageBefore DEF Page
<1>3. Seen(Last - 1).pfn + 1 = Seen(Last).pfn
  BY <1>1, <1>2 DEF Run, Follows
<1>4. Seen(Last - 1).pfn = 0 /\ Seen(Last).pfn = 0
  BY <1>1, <1>2, SeenEntry
<1> QED BY <1>3, <1>4

(* The pages of a range of bytes.                                          *)
LEMMA PagesOfRange ==
  ASSUME TypeOK, call.a < call.b, NEW x \in call.a .. call.b
  PROVE  /\ x \in Address /\ PageOf(x) \in Page
         /\ First <= PageOf(x) /\ PageOf(x) <= Last /\ First <= Last
<1> DEFINE a == call.a
           b == call.b
<1>1. a \in Address /\ b \in Address
  BY DEF TypeOK
<1>2. PageSize \in Nat \ {0} /\ Pages * PageSize \in Nat
  BY PageAssumption
<1> HIDE DEF a, b
<1>3. x \in a .. b /\ a < b /\ First = PageOf(a) /\ Last = PageOf(b)
  BY DEF First, Last, a, b
<1>4. x \in Nat /\ a \in Nat /\ b \in Nat /\ a <= x /\ x <= b /\ a <= b /\ x \in Address
  BY <1>1, <1>2, <1>3 DEF Address
<1>5. PageOf(a) <= PageOf(x) /\ PageOf(x) <= PageOf(b) /\ PageOf(a) <= PageOf(b)
  BY <1>2, <1>4, DivisionMonotone DEF PageOf
<1> QED BY <1>3, <1>4, <1>5, Paging

(* A run of frames is contiguous, byte by byte.                            *)
LEMMA PagesToBytes ==
  ASSUME TypeOK, call.a < call.b, Run
  PROVE  Contiguous(call.a, call.b)
<1> DEFINE a == call.a
           ra == a % PageSize
<1> SUFFICES ASSUME NEW x \in call.a .. call.b
             PROVE  Mapped(x) /\ Physical(x) = Physical(call.a) + (x - call.a)
  BY DEF Contiguous
<1> DEFINE p == PageOf(x)
           rx == x % PageSize
           A == First
<1>1. p \in Page /\ A <= p /\ p <= Last /\ x \in Address /\ A <= Last
  BY PagesOfRange
<1>2. pagemap[p].present
  BY <1>1 DEF Run, Follows
<1>3. /\ PageSize \in Nat \ {0} /\ x \in Nat /\ rx \in Nat /\ x = p * PageSize + rx
      /\ a \in Nat /\ ra \in Nat /\ a = A * PageSize + ra /\ A \in Page /\ A = PageOf(a)
      /\ p \in Nat /\ A \in Nat
  <2>1. a \in Address
    BY DEF TypeOK
  <2>2. PageSize \in Nat \ {0} /\ x \in Nat /\ rx \in Nat /\ x = p * PageSize + rx
    BY <1>1, Paging, PageAssumption
  <2>3. A = PageOf(a)
    BY DEF First
  <2>4. a \in Nat /\ ra \in Nat /\ a = PageOf(a) * PageSize + ra /\ PageOf(a) \in Page
    BY <2>1, Paging
  <2>5. Page \subseteq Nat
    BY DEF Page
  <2> HIDE DEF a, ra, p, rx, A
  <2> QED BY <1>1, <2>2, <2>3, <2>4, <2>5
<1>4. PfnOf(p) = PfnOf(A) + (p - A) /\ PfnOf(A) \in Nat
  <2>1. PfnOf(A) \in Nat
    BY <1>3, SeenEntry, PageAssumption DEF PfnOf
  <2>2. CASE privileged
    BY <1>1, <2>1, <2>2, RunOfFrames
  <2>3. CASE ~privileged
    <3>1. A = Last
      BY <1>1, <2>3, RunUnprivileged
    <3>2. p = A
      BY <1>1, <1>3, <3>1
    <3>3. PfnOf(A) = PfnOf(A) + (A - A)
      BY <1>3, <2>1
    <3> QED BY <2>1, <3>2, <3>3
  <2> QED BY <2>2, <2>3
<1>5. Physical(x) = PfnOf(p) * PageSize + rx /\ Physical(call.a) = PfnOf(A) * PageSize + ra
  BY <1>3 DEF Physical, Phys, PfnOf
<1> HIDE DEF a, ra, p, rx, A
<1>6. (PfnOf(A) + (p - A)) * PageSize + rx = PfnOf(A) * PageSize + ra + (x - a)
  <2> DEFINE c == PfnOf(A)
  <2>1. c \in Nat
    BY <1>4
  <2> HIDE DEF c
  <2>2. (c + (p - A)) * PageSize + rx = c * PageSize + ra + (x - a)
    BY <1>3, <2>1, Distance
  <2> QED BY <2>2 DEF c
<1>7. PfnOf(p) * PageSize + rx = PfnOf(A) * PageSize + ra + (x - a)
  BY <1>4, <1>6
<1> QED BY <1>2, <1>5, <1>7 DEF Mapped, p, a

(* Bytes on both sides of every boundary between pages.                    *)
LEMMA BytesToPages ==
  ASSUME TypeOK, call.a < call.b, Contiguous(call.a, call.b), privileged \/ First = Last
  PROVE  Run
<1> DEFINE a == call.a
           b == call.b
<1>1. /\ a \in Nat /\ b \in Nat /\ a < b /\ First \in Page /\ Last \in Page
      /\ a % PageSize \in Nat /\ a % PageSize < PageSize /\ b % PageSize \in Nat
      /\ a = First * PageSize + (a % PageSize)
      /\ b = Last * PageSize + (b % PageSize)
      /\ PageSize \in Nat \ {0} /\ Page \subseteq Nat
  <2>1. a \in Address /\ b \in Address
    BY DEF TypeOK
  <2> QED BY <2>1, Paging, PageAssumption DEF First, Last, Page
<1>2. \A x \in a .. b : Mapped(x) /\ Physical(x) = Physical(a) + (x - a)
  BY DEF Contiguous
<1>3. pagemap[First].present
  BY <1>1, <1>2 DEF Mapped, First
<1> HIDE DEF a, b
<1> SUFFICES ASSUME NEW p \in Page, First <= p, p <= Last, p # First PROVE Follows(p)
  BY <1>3 DEF Run, Follows
<1>4. /\ p - 1 \in Page /\ First <= p - 1 /\ p \in Nat /\ p - 1 \in Nat /\ First \in Nat
      /\ Last \in Nat /\ First + 1 <= p
  BY <1>1, PageBefore DEF Page
<1> DEFINE P == PageSize
           y == p * P
           z == p * P - 1
<1>5. /\ First * P + P <= y /\ y <= Last * P /\ y = (p - 1) * P + P /\ y \in Int
      /\ First * P \in Int /\ Last * P \in Int /\ (p - 1) * P \in Int
  <2>1. (First + 1) * P = First * P + P /\ First * P \in Int
    BY <1>1, <1>4, Scaled
  <2>2. (First + 1) * P <= p * P
    <3>1. First + 1 \in Int /\ p \in Int
      BY <1>4
    <3> QED BY <1>1, <1>4, <3>1, Scaled, Zenon
  <2>3. p * P <= Last * P /\ Last * P \in Int /\ p * P \in Int
    BY <1>1, <1>4, Scaled
  <2>4. ((p - 1) + 1) * P = (p - 1) * P + P /\ (p - 1) * P \in Int
    BY <1>1, <1>4, Scaled
  <2>5. (p - 1) + 1 = p
    BY <1>4
  <2> QED BY <2>1, <2>2, <2>3, <2>4, <2>5
<1>6. y \in a .. b /\ z \in a .. b
  <2> DEFINE f == First * P
             l == Last * P
             ra == a % P
             rb == b % P
  <2>1. /\ a = f + ra /\ b = l + rb /\ f \in Int /\ l \in Int /\ y \in Int /\ z = y - 1
        /\ f + P <= y /\ y <= l /\ ra \in Nat /\ ra < P /\ rb \in Nat /\ P \in Nat \ {0}
    BY <1>1, <1>5
  <2> HIDE DEF f, l, ra, rb, y, z, P
  <2> QED BY <1>1, <2>1
<1>7. PageOf(y) = p /\ y % P = 0 /\ PageOf(z) = p - 1 /\ z % P = P - 1
  <2>1. y \in Nat /\ z \in Nat /\ P - 1 \in Nat /\ P - 1 < P /\ 0 < P /\ P \in Nat \ {0}
    BY <1>1, <1>6
  <2>2. y = p * P + 0 /\ z = (p - 1) * P + (P - 1)
    <3> DEFINE w == (p - 1) * P
    <3>1. w \in Int /\ y = w + P /\ z = y - 1 /\ y = p * P /\ y \in Int
      BY <1>5
    <3> HIDE DEF w, y, z
    <3>2. z = w + (P - 1) /\ y = y + 0
      BY <2>1, <3>1
    <3> QED BY <3>1, <3>2 DEF w
  <2> HIDE DEF y, z, P
  <2>3. y \div P = p /\ y % P = 0
    BY <1>4, <2>1, <2>2, DivisionUnique, Zenon
  <2>4. z \div P = p - 1 /\ z % P = P - 1
    <3> DEFINE k == p - 1
               r == P - 1
    <3>1. k \in Nat /\ r \in Nat /\ r < P /\ z = k * P + r
      BY <1>4, <2>1, <2>2
    <3> HIDE DEF k, r
    <3>2. z \div P = k /\ z % P = r
      BY <2>1, <3>1, DivisionUnique, Zenon
    <3> QED BY <3>2 DEF k, r
  <2> QED BY <2>3, <2>4 DEF PageOf, P
<1>8. pagemap[p].present
  BY <1>2, <1>6, <1>7 DEF Mapped
<1>9. PfnOf(p - 1) \in Nat /\ PfnOf(p) \in Nat
  BY <1>4, SeenEntry, PageAssumption DEF PfnOf
<1>10. Physical(y) = PfnOf(p) * P + 0 /\ Physical(z) = PfnOf(p - 1) * P + (P - 1)
  BY <1>7 DEF Physical, Phys, PfnOf
<1>11. PfnOf(p) * P = (PfnOf(p - 1) + 1) * P
  <2> DEFINE u == PfnOf(p) * P
             v == PfnOf(p - 1) * P
             c == Physical(a)
             Y == Physical(y)
             Z == Physical(z)
  <2>1. Y = c + (y - a) /\ Z = c + (z - a) /\ z = y - 1
    BY <1>2, <1>6
  <2>2. u \in Int /\ v \in Int /\ (PfnOf(p - 1) + 1) * P = v + P
    BY <1>1, <1>9, Scaled
  <2>3. c \in Int
    <3>1. c = PfnOf(First) * P + (a % P)
      BY DEF Physical, Phys, PfnOf, First, a
    <3>2. PfnOf(First) \in Nat
      BY <1>1, SeenEntry, PageAssumption DEF PfnOf
    <3> QED BY <1>1, <3>1, <3>2
  <2>4. y \in Int /\ a \in Int /\ P \in Nat
    BY <1>1, <1>5
  <2>5. Y = u + 0 /\ Z = v + (P - 1)
    BY <1>10
  <2> HIDE DEF u, v, c, Y, Z, y, z, P
  <2>6. u = v + P
    BY <2>1, <2>2, <2>3, <2>4, <2>5
  <2> QED BY <2>2, <2>6 DEF u
<1>12. PfnOf(p) = PfnOf(p - 1) + 1
  <2> DEFINE l == PfnOf(p - 1) + 1
  <2>1. l \in Nat /\ PfnOf(p) * P = l * P
    BY <1>9, <1>11
  <2> HIDE DEF l
  <2>2. PfnOf(p) = l
    BY <1>1, <1>9, <2>1, Cancel
  <2> QED BY <2>2 DEF l
<1>13. privileged
  BY <1>1, <1>4
<1>14. Seen(p - 1).pfn = PfnOf(p - 1) /\ Seen(p).pfn = PfnOf(p)
  BY <1>4, <1>13, SeenEntry DEF PfnOf
<1> QED BY <1>8, <1>12, <1>14 DEF Follows

(* As long as no page of a range changes, mu_is_continuous answers for     *)
(* every byte of it, and without the privilege accepts no range of more    *)
(* than a page; mu_virt_to_phys answers for mapped pages alone, with the   *)
(* byte's own offset and, where it may be seen, its frame                  *)
(* (memory_utils.c:38-82).                                                 *)
THEOREM PagemapAnswersExact == Spec => []AnswersExact
<1>1. IInv => AnswersExact
  <2> SUFFICES ASSUME IInv PROVE AnswersExact
    OBVIOUS
  <2>1. ASSUME call.op = "answered", steady
        PROVE  /\ call.continuous => Contiguous(call.a, call.b)
               /\ Contiguous(call.a, call.b) =>
                     (call.continuous <=> privileged \/ PageOf(call.a) = PageOf(call.b))
    <3>1. TypeOK /\ call.a < call.b /\ (call.continuous <=> Run)
      BY <2>1 DEF IInv, Answered
    <3>2. Run => Contiguous(call.a, call.b)
      BY <3>1, PagesToBytes
    <3>3. Contiguous(call.a, call.b) /\ (privileged \/ First = Last) => Run
      BY <3>1, BytesToPages
    <3>4. call.a \in call.a .. call.b
      <4>1. call.a \in Nat /\ call.b \in Nat
        BY <3>1, Paging DEF TypeOK
      <4> QED BY <3>1, <4>1
    <3>5. Run => privileged \/ First = Last
      BY <3>1, <3>4, PagesOfRange, RunUnprivileged
    <3> QED BY <3>1, <3>2, <3>3, <3>5 DEF First, Last
  <2> QED BY <2>1 DEF IInv, Translated, AnswersExact
<1> QED BY <1>1, IInvAlways, PTL


----------------------------------------------------------------------------
(* What the error stack holds is the trail, cut to what fits.              *)

(* The lesser and the greater of two numbers.                              *)
LEMMA Lesser ==
  ASSUME NEW a \in Nat, NEW b \in Nat
  PROVE  Min({a, b}) = IF a <= b THEN a ELSE b
<1>1. {a, b} \subseteq Nat /\ {a, b} # {}
  OBVIOUS
<1>2. Min({a, b}) \in {a, b} /\ Min({a, b}) <= a /\ Min({a, b}) <= b
  BY <1>1, MinNat
<1> QED BY <1>2

(* See Lesser.                                                             *)
LEMMA AtLeastZero ==
  ASSUME NEW a \in Int
  PROVE  Max({0, a}) = IF a <= 0 THEN 0 ELSE a
<1>1. \E x \in {0, a} : \A y \in {0, a} : x >= y
  OBVIOUS
<1>2. Max({0, a}) \in {0, a} /\ Max({0, a}) >= 0 /\ Max({0, a}) >= a
  BY <1>1 DEF Max
<1> QED BY <1>2

(* The equation that defines the sums of a trail, up to message n.         *)
IsTotal(t, n, f) ==
    f = [k \in 0 .. n |-> IF k = 0 THEN 0 ELSE f[k - 1] + t[k].len]

(* There is such a function.                                               *)
LEMMA TotalExists ==
  ASSUME NEW t, NEW n \in Nat
  PROVE  \E f : IsTotal(t, n, f)
<1> DEFINE S == {m \in Nat : ~ \E f : IsTotal(t, m, f)}
<1>1. CASE S = {}
  BY <1>1
<1>2. CASE S # {}
  <2>1. PICK m \in S : \A k \in S : m <= k
    BY <1>2, LeastNat, Zenon
  <2>2. m # 0
    <3> DEFINE f == [k \in 0 .. 0 |-> 0]
    <3>1. IsTotal(t, 0, f)
      BY DEF IsTotal
    <3> QED BY <2>1, <3>1
  <2>3. m \in Nat /\ m - 1 \in Nat /\ m - 1 \notin S
    BY <2>1, <2>2
  <2>4. PICK g : IsTotal(t, m - 1, g)
    BY <2>3
  <2> DEFINE f == [k \in 0 .. m |-> IF k = 0 THEN 0 ELSE g[k - 1] + t[k].len]
  <2>5. \A k \in 0 .. (m - 1) : g[k] = IF k = 0 THEN 0 ELSE g[k - 1] + t[k].len
    BY <2>3, <2>4 DEF IsTotal
  <2>6. \A k \in 0 .. (m - 1) : f[k] = g[k]
    <3>1. \A k \in 0 .. (m - 1) : k \in 0 .. m
      BY <2>3
    <3> QED BY <2>5, <3>1
  <2>7. \A k \in 0 .. m : f[k] = IF k = 0 THEN 0 ELSE f[k - 1] + t[k].len
    <3>1. \A k \in 0 .. m : k # 0 => k - 1 \in 0 .. (m - 1)
      BY <2>3
    <3> QED BY <2>6, <3>1
  <2> HIDE DEF S
  <2>8. IsTotal(t, m, f)
    <3>1. DOMAIN f = 0 .. m
      OBVIOUS
    <3>2. f = [k \in 0 .. m |-> f[k]]
      BY <3>1
    <3> HIDE DEF f
    <3>3. [k \in 0 .. m |-> f[k]] = [k \in 0 .. m |-> IF k = 0 THEN 0 ELSE f[k - 1] + t[k].len]
      BY <2>7
    <3> QED BY <3>2, <3>3 DEF IsTotal
  <2> QED BY <2>1, <2>8 DEF S
<1> QED BY <1>1, <1>2

(* So Total is one.                                                        *)
LEMMA TotalSteps ==
  ASSUME NEW t \in Seq(Message)
  PROVE  /\ Total(t)[0] = 0
         /\ \A k \in 1 .. Len(t) : Total(t)[k] = Total(t)[k - 1] + t[k].len
<1>1. Len(t) \in Nat
  OBVIOUS
<1>2. \E f : f = [k \in 0 .. Len(t) |-> IF k = 0 THEN 0 ELSE f[k - 1] + t[k].len]
  <2>1. PICK f : IsTotal(t, Len(t), f)
    BY <1>1, TotalExists, Zenon
  <2> QED BY <2>1 DEF IsTotal
<1>3. Total(t) = [k \in 0 .. Len(t) |-> IF k = 0 THEN 0 ELSE Total(t)[k - 1] + t[k].len]
  BY <1>2 DEF Total
<1> DEFINE W == Total(t)
<1> HIDE DEF W
<1>4. W = [k \in 0 .. Len(t) |-> IF k = 0 THEN 0 ELSE W[k - 1] + t[k].len]
  BY <1>3 DEF W
<1>5. \A k \in 0 .. Len(t) : W[k] = IF k = 0 THEN 0 ELSE W[k - 1] + t[k].len
  BY <1>4
<1>6. 0 \in 0 .. Len(t) /\ \A k \in 1 .. Len(t) : k \in 0 .. Len(t) /\ k # 0
  BY <1>1
<1> QED BY <1>5, <1>6 DEF W

(* A message is not empty.                                                 *)
LEMMA MessageLength ==
  ASSUME NEW t \in Seq(Message), NEW k \in 1 .. Len(t)
  PROVE  t[k] \in Message /\ t[k].at \in Place /\ t[k].len \in Nat /\ t[k].len > 0
<1>1. t[k] \in Message
  OBVIOUS
<1>2. t[k].len \in Lengths /\ t[k].at \in Place
  BY <1>1 DEF Message
<1>3. t[k].len \in Nat \ {0}
  BY <1>2, StackAssumption
<1> QED BY <1>1, <1>2, <1>3

(* Sums are numbers.                                                       *)
LEMMA TotalType ==
  ASSUME NEW t \in Seq(Message), NEW k \in 0 .. Len(t)
  PROVE  Total(t)[k] \in Nat
<1> DEFINE W == Total(t)
           S == {m \in 0 .. Len(t) : W[m] \notin Nat}
<1>1. W[0] = 0 /\ \A m \in 1 .. Len(t) : W[m] = W[m - 1] + t[m].len
  BY TotalSteps
<1>2. Len(t) \in Nat
  OBVIOUS
<1> HIDE DEF W
<1>3. CASE S = {}
  BY <1>3 DEF W
<1>4. CASE S # {}
  <2>1. PICK m \in S : \A j \in S : m <= j
    <3>1. S \subseteq Nat
      BY <1>2
    <3> QED BY <1>4, <3>1, LeastNat, Zenon
  <2>2. m # 0
    BY <1>1, <2>1
  <2>3. m \in 1 .. Len(t) /\ m - 1 \in 0 .. Len(t) /\ ~(m <= m - 1)
    BY <1>2, <2>1, <2>2
  <2>4. W[m - 1] \in Nat
    BY <2>1, <2>3
  <2>5. t[m].len \in Nat
    BY <2>3, MessageLength
  <2>6. W[m] \in Nat
    <3>1. W[m] = W[m - 1] + t[m].len
      BY <1>1, <2>3
    <3> QED BY <2>4, <2>5, <3>1
  <2> QED BY <2>1, <2>6
<1> QED BY <1>3, <1>4

(* They grow: what stands before message k and the message itself is part  *)
(* of the whole.                                                           *)
LEMMA TotalGrows ==
  ASSUME NEW t \in Seq(Message), NEW k \in 1 .. Len(t)
  PROVE  Total(t)[k] <= Total(t)[Len(t)]
<1> DEFINE W == Total(t)
           n == Len(t)
           S == {m \in k .. n : ~(W[k] <= W[m])}
<1>1. \A m \in 1 .. n : W[m] = W[m - 1] + t[m].len
  BY TotalSteps
<1>2. n \in Nat /\ k \in Nat /\ k <= n /\ k >= 1
  OBVIOUS
<1>3. \A m \in 0 .. n : W[m] \in Nat
  BY TotalType
<1>4. \A m \in 1 .. n : t[m].len \in Nat
  BY MessageLength
<1> HIDE DEF W, n
<1>5. CASE S = {}
  <2>1. n \in k .. n
    BY <1>2
  <2>2. n \notin S
    BY <1>5
  <2>3. W[k] <= W[n]
    BY <2>1, <2>2
  <2> QED BY <2>3 DEF W, n
<1>6. CASE S # {}
  <2>1. PICK m \in S : \A j \in S : m <= j
    <3>1. S \subseteq Nat
      BY <1>2
    <3> QED BY <1>6, <3>1, LeastNat, Zenon
  <2>2. m \in k .. n /\ ~(W[k] <= W[m])
    BY <2>1
  <2>3. k \in 0 .. n /\ W[k] \in Nat
    BY <1>2, <1>3
  <2>4. m # k
    BY <2>2, <2>3
  <2>5. m - 1 \in k .. n /\ ~(m <= m - 1) /\ m \in 1 .. n /\ m - 1 \in 0 .. n
    BY <1>2, <2>2, <2>4
  <2>6. m - 1 \notin S
    BY <2>1, <2>5
  <2>7. W[k] <= W[m - 1]
    BY <2>5, <2>6
  <2> DEFINE a == W[k]
             b == W[m - 1]
             c == W[m]
             l == t[m].len
  <2>8. a \in Nat /\ b \in Nat /\ l \in Nat /\ c = b + l /\ a <= b /\ ~(a <= c)
    BY <1>1, <1>3, <1>4, <2>2, <2>3, <2>5, <2>7
  <2> HIDE DEF a, b, c, l
  <2> QED BY <2>8
<1> QED BY <1>5, <1>6

(* A new message leaves the sums before it alone.                          *)
LEMMA TotalAppend ==
  ASSUME NEW t \in Seq(Message), NEW m \in Message
  PROVE  /\ \A k \in 0 .. Len(t) : Total(Append(t, m))[k] = Total(t)[k]
         /\ Total(Append(t, m))[Len(t) + 1] = Total(t)[Len(t)] + m.len
<1> DEFINE u == Append(t, m)
           V == Total(u)
           W == Total(t)
           n == Len(t)
           S == {k \in 0 .. n : V[k] # W[k]}
<1>1. u \in Seq(Message) /\ Len(u) = n + 1 /\ n \in Nat /\ u[n + 1] = m
      /\ \A k \in 1 .. n : u[k] = t[k]
  OBVIOUS
<1>2. V[0] = 0 /\ \A k \in 1 .. n + 1 : V[k] = V[k - 1] + u[k].len
  BY <1>1, TotalSteps
<1>3. W[0] = 0 /\ \A k \in 1 .. n : W[k] = W[k - 1] + t[k].len
  BY TotalSteps
<1> HIDE DEF u, V, W, n
<1>4. S = {}
  <2> SUFFICES ASSUME S # {} PROVE FALSE
    OBVIOUS
  <2>1. PICK k \in S : \A j \in S : k <= j
    <3>1. S \subseteq Nat
      BY <1>1
    <3> QED BY <3>1, LeastNat, Zenon
  <2>2. k \in 0 .. n /\ V[k] # W[k]
    BY <2>1
  <2>3. k # 0
    BY <1>2, <1>3, <2>2
  <2>4. k \in 1 .. n /\ k \in 1 .. n + 1 /\ k - 1 \in 0 .. n /\ ~(k <= k - 1)
    BY <1>1, <2>2, <2>3
  <2>5. V[k - 1] = W[k - 1]
    BY <2>1, <2>4
  <2>6. V[k] = V[k - 1] + u[k].len /\ W[k] = W[k - 1] + t[k].len /\ u[k] = t[k]
    BY <1>1, <1>2, <1>3, <2>4
  <2> QED BY <2>2, <2>5, <2>6
<1>5. \A k \in 0 .. n : V[k] = W[k]
  BY <1>4
<1>6. V[n + 1] = W[n] + m.len
  <2>1. n + 1 \in 1 .. n + 1 /\ (n + 1) - 1 = n /\ n \in 0 .. n
    BY <1>1
  <2>2. V[n + 1] = V[n] + u[n + 1].len
    BY <1>2, <2>1
  <2> QED BY <1>1, <1>5, <2>1, <2>2
<1> QED BY <1>5, <1>6 DEF u, V, W, n

(* The room that is left for message k.                                    *)
LEMMA LeftIs ==
  ASSUME NEW t \in Seq(Message), NEW k \in 1 .. Len(t)
  PROVE  /\ Total(t)[k - 1] \in Nat
         /\ Left(t, k) = IF es_end - 1 - Total(t)[k - 1] <= 0 THEN 0
                         ELSE es_end - 1 - Total(t)[k - 1]
<1>1. es_end \in Nat
  BY StackAssumption DEF es_end
<1>2. k - 1 \in 0 .. Len(t)
  OBVIOUS
<1>3. Total(t)[k - 1] \in Nat
  BY <1>2, TotalType
<1> DEFINE r == es_end - 1 - Total(t)[k - 1]
<1>4. r \in Int
  BY <1>1, <1>3
<1>5. Left(t, k) = Max({0, r})
  BY DEF Left
<1> HIDE DEF r
<1>6. Left(t, k) = IF r <= 0 THEN 0 ELSE r
  BY <1>4, <1>5, AtLeastZero
<1> QED BY <1>3, <1>6 DEF r

(* A message that fits leaves room for all before it.                      *)
LEMMA RoomBefore ==
  ASSUME NEW t \in Seq(Message), NEW k \in 1 .. Len(t), Total(t)[Len(t)] < es_end
  PROVE  Left(t, k) > 0
<1> DEFINE a == Total(t)[k - 1]
           b == Total(t)[k]
           c == Total(t)[Len(t)]
           l == t[k].len
<1>1. es_end \in Nat
  BY StackAssumption DEF es_end
<1>2. k - 1 \in 0 .. Len(t) /\ k \in 0 .. Len(t) /\ Len(t) \in 0 .. Len(t)
  OBVIOUS
<1>3. a \in Nat /\ b \in Nat /\ c \in Nat
  BY <1>2, TotalType
<1>4. l \in Nat /\ l > 0
  BY MessageLength
<1>5. b = a + l /\ b <= c /\ c < es_end
  BY TotalSteps, TotalGrows
<1>6. Left(t, k) = IF es_end - 1 - a <= 0 THEN 0 ELSE es_end - 1 - a
  BY LeftIs
<1> HIDE DEF a, b, c, l
<1> QED BY <1>1, <1>3, <1>4, <1>5, <1>6

(* The trail with one more message, cut: the same if there is no room for  *)
(* it.                                                                     *)
LEMMA CutNoMore ==
  ASSUME NEW t \in Seq(Message), NEW m \in Message, Left(Append(t, m), Len(t) + 1) = 0
  PROVE  Cut(Append(t, m)) = Cut(t)
<1> DEFINE u == Append(t, m)
           n == Len(t)
<1>1. u \in Seq(Message) /\ Len(u) = n + 1 /\ n \in Nat /\ \A k \in 1 .. n : u[k] = t[k]
  OBVIOUS
<1>2. \A k \in 1 .. n : Total(u)[k - 1] = Total(t)[k - 1]
  <2>1. \A k \in 1 .. n : k - 1 \in 0 .. n
    BY <1>1
  <2> QED BY <2>1, TotalAppend
<1>3. \A k \in 1 .. n : Left(u, k) = Left(t, k)
  BY <1>2 DEF Left
<1>4. Left(u, n + 1) = 0
  OBVIOUS
<1> HIDE DEF u, n
<1>5. {k \in 1 .. Len(u) : Left(u, k) > 0} = {k \in 1 .. n : Left(t, k) > 0}
  <2>1. \A k \in 1 .. n + 1 : k \in 1 .. n \/ k = n + 1
    BY <1>1
  <2>2. 1 .. n \subseteq 1 .. n + 1
    BY <1>1
  <2>3. ~(0 > 0)
    OBVIOUS
  <2> QED BY <1>1, <1>3, <1>4, <2>1, <2>2, <2>3
<1> DEFINE D == {k \in 1 .. n : Left(t, k) > 0}
<1>6. Cut(u) = [k \in D |-> [u[k] EXCEPT !.len = Min({u[k].len, Left(u, k)})]]
  BY <1>5 DEF Cut
<1>7. Cut(t) = [k \in D |-> [t[k] EXCEPT !.len = Min({t[k].len, Left(t, k)})]]
  BY DEF Cut, n
<1>8. \A k \in D : u[k] = t[k] /\ Left(u, k) = Left(t, k)
  BY <1>1, <1>3
<1> HIDE DEF D
<1> QED BY <1>6, <1>7, <1>8 DEF u

(* Otherwise what fits of it comes last.                                   *)
LEMMA CutOneMore ==
  ASSUME NEW S, NEW t \in Seq(Message), NEW m \in Message, Cut(t) \in Seq(S),
         Left(Append(t, m), Len(t) + 1) > 0, Total(t)[Len(t)] < es_end
  PROVE  Cut(Append(t, m)) =
           Append(Cut(t), [m EXCEPT !.len = Min({m.len, Left(Append(t, m), Len(t) + 1)})])
<1> DEFINE u == Append(t, m)
           n == Len(t)
           e == [m EXCEPT !.len = Min({m.len, Left(u, n + 1)})]
           c == Cut(t)
<1>1. /\ u \in Seq(Message) /\ Len(u) = n + 1 /\ n \in Nat /\ \A k \in 1 .. n : u[k] = t[k]
      /\ u[n + 1] = m
  OBVIOUS
<1>2. \A k \in 1 .. n : Total(u)[k - 1] = Total(t)[k - 1]
  <2>1. \A k \in 1 .. n : k - 1 \in 0 .. n
    BY <1>1
  <2> QED BY <2>1, TotalAppend
<1>3. \A k \in 1 .. n : Left(u, k) = Left(t, k)
  BY <1>2 DEF Left
<1>4. Left(u, n + 1) > 0
  OBVIOUS
<1>5. \A k \in 1 .. n : Left(t, k) > 0
  BY RoomBefore
<1>6. c = [k \in 1 .. n |-> [t[k] EXCEPT !.len = Min({t[k].len, Left(t, k)})]]
  <2>1. {k \in 1 .. n : Left(t, k) > 0} = 1 .. n
    BY <1>5
  <2> QED BY <2>1 DEF Cut
<1> HIDE DEF u, n
<1>7. \A k \in 1 .. n + 1 : k \in 1 .. n \/ k = n + 1
  BY <1>1
<1>8. Cut(u) = [k \in 1 .. n + 1 |-> [u[k] EXCEPT !.len = Min({u[k].len, Left(u, k)})]]
  <2>1. {k \in 1 .. Len(u) : Left(u, k) > 0} = 1 .. n + 1
    BY <1>1, <1>3, <1>4, <1>5, <1>7
  <2> QED BY <2>1 DEF Cut
<1>9. c \in Seq(S) /\ DOMAIN c = 1 .. n
  BY <1>6
<1>10. n + 1 \notin 1 .. n /\ n + 1 \in 1 .. n + 1 /\ 1 .. n \subseteq 1 .. n + 1
  BY <1>1
<1>11. \A k \in 1 .. n : Cut(u)[k] = c[k]
  <2> SUFFICES ASSUME NEW k \in 1 .. n PROVE Cut(u)[k] = c[k]
    OBVIOUS
  <2>1. u[k] = t[k] /\ Left(u, k) = Left(t, k) /\ k \in 1 .. n + 1
    BY <1>1, <1>3, <1>10
  <2>2. Cut(u)[k] = [u[k] EXCEPT !.len = Min({u[k].len, Left(u, k)})]
    BY <1>8, <2>1
  <2>3. c[k] = [t[k] EXCEPT !.len = Min({t[k].len, Left(t, k)})]
    BY <1>6
  <2> QED BY <2>1, <2>2, <2>3
<1>12. Cut(u)[n + 1] = e
  BY <1>1, <1>8, <1>10
<1> HIDE DEF c, e
<1>13. Len(c) = n
  <2>1. Len(c) \in Nat /\ DOMAIN c = 1 .. Len(c)
    BY <1>9
  <2> QED BY <1>1, <1>9, <2>1
<1> DEFINE r == Append(c, e)
<1>14. /\ DOMAIN r = 1 .. n + 1 /\ r[n + 1] = e
       /\ \A k \in 1 .. n : r[k] = c[k]
       /\ r = [k \in 1 .. n + 1 |-> r[k]]
  <2>1. c \in Seq(S \cup {e})
    <3>1. S \subseteq S \cup {e}
      OBVIOUS
    <3> QED BY <1>9, <3>1, SeqMonotonic
  <2>2. r \in Seq(S \cup {e}) /\ Len(r) = n + 1
    BY <1>13, <2>1
  <2>3. DOMAIN r = 1 .. n + 1
    BY <2>2
  <2>4. r[n + 1] = e /\ \A k \in 1 .. n : r[k] = c[k]
    BY <1>13, <2>1
  <2>5. r = [k \in DOMAIN r |-> r[k]]
    <3> HIDE DEF r
    <3> QED BY <2>2
  <2> HIDE DEF r
  <2> QED BY <2>3, <2>4, <2>5
<1> HIDE DEF r
<1>15. \A k \in 1 .. n + 1 : Cut(u)[k] = r[k]
  BY <1>7, <1>11, <1>12, <1>14
<1>16. Cut(u) = [k \in 1 .. n + 1 |-> Cut(u)[k]]
  BY <1>8
<1>17. Cut(u) = r
  BY <1>14, <1>15, <1>16
<1> QED BY <1>17 DEF r, u, e, c, n

(* The stack holds trail t: the text is the trail, cut, and as long as it  *)
(* fits it ends where the next append begins.                              *)
Holds(s, t) ==
    /\ s \in EsState /\ t \in Seq(Message)
    /\ s.start = IF Total(t)[Len(t)] < es_end THEN Total(t)[Len(t)] ELSE es_end
    /\ Total(t)[Len(t)] < es_end => s.nul = Total(t)[Len(t)]
    /\ s.text = Cut(t)

(* After a reset, none.                                                    *)
LEMMA HoldsNone == Holds(EsReset, << >>)
<1>1. << >> \in Seq(Message) /\ Len(<< >>) = 0
  OBVIOUS
<1>2. Total(<< >>)[0] = 0
  BY <1>1, TotalSteps
<1>3. Cut(<< >>) = << >>
  <2>1. {k \in 1 .. Len(<< >>) : Left(<< >>, k) > 0} = {}
    BY <1>1
  <2>2. Cut(<< >>) = [k \in {} |-> [<< >>[k] EXCEPT !.len = Min({<< >>[k].len, Left(<< >>, k)})]]
    BY <2>1 DEF Cut
  <2> QED BY <2>2
<1>4. es_end > 0 /\ es_end \in Nat
  BY StackAssumption DEF es_end
<1>5. EsReset.start = 0 /\ EsReset.nul = 0 /\ EsReset.text = << >>
  BY DEF EsReset
<1> QED BY <1>1, <1>2, <1>3, <1>4, <1>5, ResetType DEF Holds

(* After an append, the trail with that message.                           *)
LEMMA HoldsAppended ==
  ASSUME NEW s, NEW t, Holds(s, t), NEW m \in Message
  PROVE  Holds(Appended(s, m), Append(t, m))
<1> DEFINE u == Append(t, m)
           T == Total(t)[Len(t)]
           U == Total(u)[Len(u)]
           l == m.len
           room == es_end - s.start
           n == Min({l, room - 1})
           left == Left(u, Len(t) + 1)
<1>1. s \in EsState /\ t \in Seq(Message) /\ s.text = Cut(t)
      /\ s.start = (IF T < es_end THEN T ELSE es_end)
      /\ (T < es_end => s.nul = T)
  BY DEF Holds
<1>2. es_end \in Nat /\ es_end > 0
  BY StackAssumption DEF es_end
<1>3. u \in Seq(Message) /\ Len(u) = Len(t) + 1 /\ Len(t) \in Nat /\ u[Len(t) + 1] = m
      /\ Len(t) + 1 \in 1 .. Len(u) /\ (Len(t) + 1) - 1 = Len(t) /\ Len(t) \in 0 .. Len(t)
  BY <1>1
<1>4. l \in Nat /\ l > 0
  BY <1>3, MessageLength, Zenon
<1>5. T \in Nat
  BY <1>1, <1>3, TotalType
<1>6. U = T + l /\ Total(u)[Len(t)] = T
  BY <1>1, <1>3, TotalAppend
<1>7. left = IF es_end - 1 - T <= 0 THEN 0 ELSE es_end - 1 - T
  <2>1. left = IF es_end - 1 - Total(u)[(Len(t) + 1) - 1] <= 0 THEN 0
               ELSE es_end - 1 - Total(u)[(Len(t) + 1) - 1]
    BY <1>3, LeftIs
  <2> QED BY <1>3, <1>6, <2>1
<1>8. Appended(s, m) \in EsState
  BY <1>1, AppendedType
<1>9. CASE ~(T < es_end)
  <2>1. Appended(s, m) = s
    <3>1. s.start = es_end
      BY <1>1, <1>9
    <3>2. es_end - s.start = 0
      BY <1>2, <3>1
    <3> QED BY <3>2 DEF Appended
  <2>2. left = 0
    <3> HIDE DEF T, left
    <3> QED BY <1>2, <1>5, <1>7, <1>9
  <2>3. Cut(u) = Cut(t)
    BY <1>1, <2>2, CutNoMore
  <2>4. ~(U < es_end)
    <3> HIDE DEF T, U, l
    <3> QED BY <1>2, <1>4, <1>5, <1>6, <1>9
  <2>5. s.start = es_end
    BY <1>1, <1>9
  <2> QED BY <1>1, <1>3, <2>1, <2>3, <2>4, <2>5 DEF Holds
<1>10. CASE T < es_end
  <2>1. s.start = T /\ s.nul = T
    BY <1>1, <1>10
  <2>2. room = es_end - T /\ room > 0 /\ room - 1 \in Nat /\ ~(room < 0) /\ room # 0 /\ room - 1 = left
    <3>1. es_end - s.start = es_end - T
      BY <2>1
    <3> HIDE DEF T, left
    <3> QED BY <1>2, <1>5, <1>7, <1>10, <3>1
  <2>3. n = IF l <= room - 1 THEN l ELSE room - 1
    <3> HIDE DEF l, room
    <3> QED BY <1>4, <2>2, Lesser
  <2>4. Min({s.start + l, es_end}) = IF U < es_end THEN U ELSE es_end
    <3>1. s.start + l = U
      BY <1>6, <2>1
    <3>2. U \in Nat
      <4> HIDE DEF T, U, l
      <4> QED BY <1>4, <1>5, <1>6
    <3> HIDE DEF U, l
    <3>3. Min({U, es_end}) = IF U <= es_end THEN U ELSE es_end
      BY <1>2, <3>2, Lesser
    <3> QED BY <1>2, <3>1, <3>2, <3>3
  <2>5. Appended(s, m) =
          [start |-> Min({s.start + l, es_end}),
           nul   |-> s.start + n,
           text  |-> IF s.start = s.nul /\ n > 0
                     THEN Append(s.text, [m EXCEPT !.len = n]) ELSE s.text]
    BY <2>2 DEF Appended
  <2>6. U < es_end => s.start + n = U
    <3> DEFINE q == s.start
    <3>1. q = T
      BY <2>1
    <3> HIDE DEF T, U, l, room, n, q
    <3>2. U < es_end => n = l
      BY <1>2, <1>4, <1>5, <1>6, <2>2, <2>3
    <3>3. q + l = U
      BY <1>6, <3>1
    <3> QED BY <3>2, <3>3 DEF q
  <2>7. (IF s.start = s.nul /\ n > 0 THEN Append(s.text, [m EXCEPT !.len = n]) ELSE s.text) = Cut(u)
    <3>1. CASE left > 0
      <4>1. n > 0
        <5> HIDE DEF l, room, n, left
        <5> QED BY <1>4, <2>2, <2>3, <3>1
      <4>2. n = Min({l, left})
        BY <2>2
      <4>3. Cut(t) \in Seq([at : Place, len : 1 .. es_end])
        BY <1>1 DEF EsState
      <4>4. Cut(u) = Append(Cut(t), [m EXCEPT !.len = Min({l, left})])
        <5>1. left > 0 /\ T < es_end
          BY <1>10, <3>1
        <5> QED BY <1>1, <4>3, <5>1, CutOneMore
      <4> HIDE DEF n, left, u
      <4> QED BY <1>1, <2>1, <4>1, <4>2, <4>4
    <3>2. CASE ~(left > 0)
      <4>1. left = 0 /\ ~(n > 0)
        <5> HIDE DEF l, room, n, left, T
        <5> QED BY <1>2, <1>4, <1>5, <1>7, <2>2, <2>3, <3>2
      <4>2. Cut(u) = Cut(t)
        BY <1>1, <4>1, CutNoMore
      <4> HIDE DEF n, left, u
      <4> QED BY <1>1, <4>1, <4>2
    <3> QED BY <3>1, <3>2
  <2> DEFINE a == Appended(s, m)
  <2>8. a.start = (IF U < es_end THEN U ELSE es_end) /\ (U < es_end => a.nul = U) /\ a.text = Cut(u)
    <3> HIDE DEF n, U, u, l
    <3> QED BY <2>4, <2>5, <2>6, <2>7
  <2> HIDE DEF a
  <2>9. a \in EsState
    BY <1>8 DEF a
  <2>10. Holds(a, u)
    BY <1>3, <2>8, <2>9 DEF Holds
  <2> QED BY <2>10 DEF a
<1> QED BY <1>9, <1>10

(* Each report leaves the stack with its trail.                            *)
LEMMA ReportHolds ==
  ASSUME Holds(es, trail)
  PROVE  /\ \A m \in Message : New(m) => Holds(es', trail')
         /\ \A m \in Message : Fwd(m) => Holds(es', trail')
         /\ \A m, f \in Message : NewAndFwd(m, f) => Holds(es', trail')
<1>1. ASSUME NEW m \in Message PROVE Holds(ES_NEW(m), <<m>>)
  <2>1. Append(<< >>, m) = <<m>>
    OBVIOUS
  <2>2. Holds(Appended(EsReset, m), Append(<< >>, m))
    BY HoldsNone, HoldsAppended
  <2> QED BY <2>1, <2>2 DEF ES_NEW
<1>2. ASSUME NEW m \in Message, New(m) PROVE Holds(es', trail')
  BY <1>1, <1>2 DEF New
<1>3. ASSUME NEW m \in Message, Fwd(m) PROVE Holds(es', trail')
  BY <1>3, HoldsAppended DEF Fwd
<1>4. ASSUME NEW m \in Message, NEW f \in Message, NewAndFwd(m, f) PROVE Holds(es', trail')
  <2>1. Append(<<m>>, f) = <<m, f>>
    <3> DEFINE a == Append(<<m>>, f)
               b == <<m, f>>
    <3>1. <<m>> \in Seq(Message) /\ Len(<<m>>) = 1 /\ <<m>>[1] = m
      OBVIOUS
    <3>2. a \in Seq(Message) /\ Len(a) = 2 /\ a[1] = m /\ a[2] = f
      BY <3>1
    <3>3. b \in Seq(Message) /\ Len(b) = 2 /\ b[1] = m /\ b[2] = f
      OBVIOUS
    <3> HIDE DEF a, b
    <3>4. \A i \in 1 .. Len(a) : a[i] = b[i]
      BY <3>2, <3>3
    <3>5. a = b
      BY <3>2, <3>3, <3>4, SeqEqual
    <3> QED BY <3>5 DEF a, b
  <2>2. Holds(Appended(ES_NEW(m), f), Append(<<m>>, f))
    BY <1>1, HoldsAppended
  <2> QED BY <1>4, <2>1, <2>2 DEF NewAndFwd
<1> QED BY <1>2, <1>3, <1>4

(* Every step either reports or leaves the stack alone.                    *)
LEMMA StepReports ==
  ASSUME [Next]_vars
  PROVE  \/ UNCHANGED <<es, trail>>
         \/ \E m \in Message : New(m) \/ Fwd(m)
         \/ \E m, f \in Message : NewAndFwd(m, f)
<1>1. /\ "args" \in Place /\ "present" \in Place /\ "swapped" \in Place /\ "pagemap" \in Place
      /\ "virt_to_phys" \in Place /\ "is_continuous" \in Place /\ "caller" \in Place
  BY PageAssumption
<1>2. \A at \in Place, len \in Lengths : [at |-> at, len |-> len] \in Message
  BY DEF Message
<1>3. ASSUME NEW at \in Place, Failed(at) PROVE \E m \in Message : New(m)
  BY <1>2, <1>3 DEF Failed
<1>4. ASSUME NEW by \in Place, Unavailable(by) PROVE \E m, f \in Message : NewAndFwd(m, f)
  BY <1>1, <1>2, <1>4 DEF Unavailable
<1>5. CASE \E p \in Page, e \in Entry : Remap(p, e)
  BY <1>5 DEF Remap
<1>6. CASE \E a \in Address : VirtToPhys(a)
  BY <1>1, <1>3, <1>4, <1>6 DEF VirtToPhys
<1>7. CASE \E r \in Ranges : IsContinuous(r[1], r[2])
  BY <1>1, <1>3, <1>7 DEF IsContinuous
<1>8. CASE LoopStep
  BY <1>8 DEF LoopStep
<1>9. CASE LoopFails
  BY <1>1, <1>4, <1>9 DEF LoopFails
<1>10. CASE CallerForwards
  BY <1>1, <1>2, <1>10 DEF CallerForwards
<1>11. CASE UNCHANGED vars
  BY <1>11 DEF vars
<1> QED BY <1>5, <1>6, <1>7, <1>8, <1>9, <1>10, <1>11 DEF Next

(* What es_print prints is the trail of the last failure, from its origin  *)
(* outwards, cut only where the buffer ends, for every size of the buffer  *)
(* and every length of the messages (errstack.c:117-141, errstack.h:36-75).*)
THEOREM PagemapTraceOfLastFailure == Spec => []TraceOfLastFailure
<1> DEFINE H == Holds(es, trail)
<1>1. Init => H
  BY HoldsNone DEF Init, EsInit
<1>2. H /\ [Next]_vars => H'
  <2> SUFFICES ASSUME H, [Next]_vars PROVE H'
    OBVIOUS
  <2>1. H' <=> Holds(es', trail')
    BY DEF Holds, EsState, es_end, Message, Total, Cut, Left
  <2>2. CASE UNCHANGED <<es, trail>>
    BY <2>1, <2>2
  <2>3. CASE \E m \in Message : New(m) \/ Fwd(m)
    BY <2>1, <2>3, ReportHolds
  <2>4. CASE \E m, f \in Message : NewAndFwd(m, f)
    BY <2>1, <2>4, ReportHolds
  <2> HIDE DEF H
  <2> QED BY <2>2, <2>3, <2>4, StepReports
<1>3. H => TraceOfLastFailure
  BY DEF Holds, TraceOfLastFailure, es_print
<1> QED BY <1>1, <1>2, <1>3, PTL DEF Spec
=============================================================================
