-------------------------- MODULE EpollHookProofs --------------------------
(***************************************************************************)
(* Proofs about EpollHook, for every set of hooks, descriptors and threads *)
(* and every choice of the client: the invariants the run checks follow    *)
(* from one inductive invariant.                                           *)
(***************************************************************************)
EXTENDS EpollHook, WellFoundedInduction, TLAPS

----------------------------------------------------------------------------
(* Natural numbers.                                                        *)

(* Every nonempty set of natural numbers has a least element.  A proof by  *)
(* induction takes the least counterexample.                               *)
LEMMA LeastNat ==
  ASSUME NEW S, S \subseteq Nat, S # {}
  PROVE  \E m \in S : \A n \in S : m <= n
<1>1. IsWellFoundedOn(OpToRel(<, Nat), Nat)
  BY NatLessThanWellFounded, Zenon
<1>2. PICK m \in S : \A n \in S : ~(<<n, m>> \in OpToRel(<, Nat))
  BY <1>1, WFMin, Zenon
<1>3. \A n \in S : ~(n < m)
  BY <1>2 DEF OpToRel
<1> QED BY <1>3

(* Min, which takes the first callback that is due, returns that element.  *)
LEMMA MinNat ==
  ASSUME NEW S, S \subseteq Nat, S # {}
  PROVE  Min(S) \in S /\ \A n \in S : Min(S) <= n
BY LeastNat DEF Min

----------------------------------------------------------------------------
(* Owned hooks are allocated, and no two of them share an fd; so what the  *)
(* calls for one hook do under its fd concerns no other hook.              *)
OwnedApart ==
    /\ owned \subseteq live
    /\ \A g, h \in owned : fd(g) = fd(h) => g = h

(* Owner, table and kernel agree, and the hook that is being stored is     *)
(* owned; in a serial context it is not under dispatch.                    *)
Agree ==
    /\ Registered
    /\ reg # NoReg => reg.hook \in owned /\ (Serial => ~Busy(reg.hook))

(* An entry without a hook reports nothing; the others are one-shot in a   *)
(* one-shot context and only there.                                        *)
Entries ==
    \A f \in Fd : IF interest[f].hook = NoHook
                  THEN interest[f] = NoEntry
                  ELSE interest[f].oneshot = ctx.oneshot

(* A thread that is out has no hook, and one that is not dispatches a hook *)
(* that is owned.  There is none without a context and at most one in a    *)
(* serial context; in a one-shot context the entry of its hook is disabled.*)
Dispatches ==
    /\ \A t \in Thread : th[t] = Out \/ (th[t].pc # "out" /\ th[t].hook \in owned)
    /\ ~ctx.alive => \A t \in Thread : th[t] = Out
    /\ Serial => \A t, u \in Thread : t # u => th[t] = Out \/ th[u] = Out
    /\ ctx.oneshot =>
          \A t \in Thread, f \in Fd :
             th[t].hook # NoHook /\ interest[f].hook = th[t].hook
                => interest[f].events = {}

(* A hook that nothing has silenced is on the list, which is what its next *)
(* EPOLL_CTL_MOD needs.                                                    *)
Listed == \A h \in owned : note[h] = "none" => interest[fd(h)].hook = h

IInv == TypeOK /\ OwnedApart /\ Agree /\ Entries /\ Dispatches /\ Listed
        /\ OneAtATime /\ NeverSilenced

----------------------------------------------------------------------------
(* The types of a thread's record and of a kernel entry, as in TypeOK.     *)
ThreadState == [pc : {"out", "inAll", "ops", "inOp"}, hook : Handle,
                new : SUBSET Event, j : Op, hangup : BOOLEAN]
EntryState  == [hook : Handle, events : SUBSET Event, et : BOOLEAN, oneshot : BOOLEAN]

USE DEF ThreadState, EntryState

(* Removing an fd from the ready list leaves a list of fds.                *)
LEMMA RemoveFirstType ==
  ASSUME NEW s \in Seq(Fd), NEW f
  PROVE  RemoveFirst(s, f) \in Seq(Fd)
<1>1. CASE \E i \in 1 .. Len(s) : s[i] = f
  <2> DEFINE I == {i \in 1 .. Len(s) : s[i] = f}
  <2>1. Min(I) \in 1 .. Len(s)
    BY <1>1, MinNat
  <2>2. RemoveFirst(s, f) = RemoveAt(s, Min(I))
    BY <1>1, Zenon DEF RemoveFirst, SelectInSeq
  <2> HIDE DEF I
  <2>3. RemoveAt(s, Min(I)) \in Seq(Fd)
    BY <2>1 DEF RemoveAt
  <2> QED BY <2>2, <2>3
<1>2. CASE ~ \E i \in 1 .. Len(s) : s[i] = f
  BY <1>2 DEF RemoveFirst
<1> QED BY <1>1, <1>2

(* The flags of a set of operations are events.                            *)
LEMMA FlagsType ==
  ASSUME NEW S \in SUBSET Op
  PROVE  EpollFlags(S) \in SUBSET Event
<1>1. \A op \in Op : EpollDefine(op) \subseteq Event
  BY HookAssumption DEF EpollDefine, Op, Event, ALL
<1> QED BY <1>1 DEF EpollFlags

(* More operations never have fewer flags.                                 *)
LEMMA FlagsMonotone ==
  ASSUME NEW S, NEW T, S \subseteq T
  PROVE  EpollFlags(S) \subseteq EpollFlags(T)
BY DEF EpollFlags

(* The initial state.                                                      *)
LEMMA IInvInit == Init => IInv
BY HookAssumption DEF Init, IInv, TypeOK, OwnedApart, Agree, Registered, Entries,
   Dispatches, Listed, OneAtATime, NeverSilenced, Handle, NoEntry, Out, NoReg, Op,
   ALL, live, Serial, Busy

----------------------------------------------------------------------------
(* The blank records are of their types and hold no hook.                  *)
LEMMA Blanks ==
  /\ Out \in ThreadState
  /\ NoEntry \in EntryState
  /\ NoReg \in [hook : Handle, auto : BOOLEAN]
  /\ NoEntry.hook = NoHook /\ NoEntry.events = {} /\ NoReg.hook = NoHook
  /\ Out.hook = NoHook /\ Out.pc = "out"
BY HookAssumption DEF Out, NoEntry, NoReg, Handle, Op, ALL

(* What the invariant says of an owned hook.                               *)
LEMMA OwnedFacts ==
  ASSUME IInv
  PROVE  /\ NoHook \notin owned /\ owned \subseteq Hook
         /\ \A h \in owned : hook[h] \in HookData /\ hook[h] # Freed
                            /\ fd(h) \in Fd /\ ops(h) \in SUBSET Op
         /\ \A f \in Fd : interest[f].hook \in owned \cup {NoHook}
         /\ \A t \in Thread : th[t].hook \in owned \cup {NoHook}
BY HookAssumption DEF IInv, TypeOK, OwnedApart, Agree, Registered, Dispatches,
   live, fd, ops, HookData, Out

(* What happens to the files: a condition arises, the client drains a      *)
(* file, or closes it, which takes its entry off the list and silences its *)
(* hook.                                                                   *)
LEMMA StepFiles ==
  ASSUME IInv, NEW f \in Fd, Drain(f) \/ Close(f) \/ \E e \in Happens[f] : Arrive(f, e)
  PROVE  IInv'
<1> USE HookAssumption DEF IInv
<1>1. CASE Drain(f)
  BY <1>1 DEF Drain, TypeOK, OwnedApart, Agree, Registered, Entries,
   Dispatches, Listed, OneAtATime, NeverSilenced, Handle, NoReg, live, Serial,
      Busy, fd, ops, mem, kernel
<1>2. CASE Close(f)
  <2> USE <1>2, OwnedFacts DEF Close
  <2>1. TypeOK'
    BY RemoveFirstType DEF TypeOK, NoEntry, Handle
  <2>2. OwnedApart'
    BY DEF OwnedApart, live, fd
  <2>9. \A h \in Hook : note'[h] = "failed" <=> note[h] = "failed"
    BY DEF TypeOK
  <2>10. interest' \in [Fd -> Range(interest')] /\ interest'[f] = NoEntry /\ \A g \in Fd : g # f => interest'[g] = interest[g]
    BY DEF TypeOK, Range
  <2>3. Agree'
    BY <2>9, <2>10 DEF Agree, Registered, fd, Serial, Busy, NoEntry
  <2>4. Entries'
    BY <2>10, ZenonT(30) DEF Entries, NoEntry
  <2>5. Dispatches'
    BY <2>10 DEF Dispatches, Serial, NoEntry
  <2>11. \A h \in Hook : note'[h] = "none" <=> (note[h] = "none" /\ interest[f].hook # h)
    BY DEF TypeOK
  <2>6. Listed'
    BY <2>10, <2>11 DEF Listed, fd
  <2>7. OneAtATime'
    BY DEF OneAtATime
  <2>8. NeverSilenced'
    BY <2>10, <2>11 DEF NeverSilenced, fd, ops, Busy
  <2> QED BY <2>1, <2>2, <2>3, <2>4, <2>5, <2>6, <2>7, <2>8
<1>3. ASSUME NEW e \in Happens[f], Arrive(f, e) PROVE IInv'
  BY <1>3 DEF Arrive, EnqueueIf, TypeOK, OwnedApart, Agree, Registered, Entries,
   Dispatches, Listed, OneAtATime, NeverSilenced, Handle, NoReg, live, Serial,
      Busy, fd, ops, mem, kernel
<1> QED BY <1>1, <1>2, <1>3

(* eh_ctx_unreg_hook of an owned hook, with or without the free of         *)
(* eh_hook_cleanup (epoll_hook.c:168-187, 281-293): whatever the kernel    *)
(* and the table held for the fd was this hook's, so no other registration *)
(* is touched.  The threads that were dispatching the hook leave.          *)
LEMMA Unregistering ==
  ASSUME IInv, NEW h \in owned, Unreg(h, fd(h)), UNCHANGED ctx,
         hook' \in {hook, [hook EXCEPT ![h] = Freed]},
         note' \in {note, [note EXCEPT ![h] = "none"]},
         reg' = IF reg.hook = h THEN NoReg ELSE reg,
         th' = [u \in Thread |-> IF th[u].hook = h THEN Out ELSE th[u]]
  PROVE  IInv'
<1>1. /\ h \in Hook /\ h # NoHook /\ fd(h) \in Fd /\ hook[h] \in HookData
      /\ \A u \in Thread : th[u].hook \in owned \cup {NoHook}
  BY OwnedFacts
<1>2. TypeOK'
  <2>1. ready' \in Seq(Fd)
    BY RemoveFirstType DEF IInv, TypeOK, Unreg, EpollDel
  <2> QED BY <1>1, <2>1, Blanks DEF IInv, TypeOK, Unreg, EpollDel
<1>3. /\ owned' = owned \ {h}
      /\ \A g \in owned' : /\ hook'[g] = hook[g] /\ note'[g] = note[g]
                           /\ fd(g) \in Fd \ {fd(h)}
      /\ interest'[fd(h)] = NoEntry /\ table'[fd(h)] = NoHook
      /\ \A f \in Fd : f # fd(h) => interest'[f] = interest[f] /\ table'[f] = table[f]
  BY <1>1, OwnedFacts DEF IInv, TypeOK, OwnedApart, live, Unreg, EpollDel
<1>4. \A u \in Thread : th'[u].hook = IF th[u].hook = h THEN NoHook ELSE th[u].hook
  BY DEF Out
<1>5. \A g \in Hook \ {h} : Busy(g)' <=> Busy(g)
  BY <1>4, HookAssumption DEF Busy
<1>6. OwnedApart'
  <2>1. (owned \subseteq live)'
    BY <1>3 DEF IInv, OwnedApart, live
  <2>2. (\A x, y \in owned : fd(x) = fd(y) => x = y)'
    BY <1>3 DEF IInv, OwnedApart, fd
  <2> QED BY <2>1, <2>2 DEF OwnedApart
<1>7. Agree'
  <2>1. Registered'
    BY <1>1, <1>3 DEF IInv, Agree, Registered, NoEntry, NoReg, fd
  <2>2. (reg # NoReg => reg.hook \in owned /\ (Serial => ~Busy(reg.hook)))'
    <3>1. CASE reg.hook = h
      BY <3>1
    <3>2. CASE reg.hook # h
      BY <1>3, <1>5, <3>2, OwnedFacts DEF IInv, Agree, Serial
    <3> QED BY <3>1, <3>2
  <2> QED BY <2>1, <2>2 DEF Agree
<1>8. Entries'
  BY <1>3, Blanks DEF IInv, Entries
<1>9. Dispatches'
  <2>1. \A t \in Thread : (th[t] = Out \/ (th[t].pc # "out" /\ th[t].hook \in owned))'
    BY <1>3 DEF IInv, Dispatches
  <2>2. (ctx.oneshot => \A t \in Thread, f \in Fd :
             th[t].hook # NoHook /\ interest[f].hook = th[t].hook
                => interest[f].events = {})'
    BY <1>3, <1>4, Blanks DEF IInv, Dispatches
  <2> QED BY <2>1, <2>2 DEF IInv, Dispatches, Serial
<1>10. Listed'
  BY <1>3 DEF IInv, Listed, fd
<1>11. OneAtATime'
  BY <1>4 DEF IInv, OneAtATime
<1>12. NeverSilenced'
  <2> SUFFICES ASSUME NEW g \in owned', note'[g] = "none", ~(ctx.oneshot /\ Busy(g))
               PROVE  /\ interest'[fd(g)'].hook = g
                      /\ EpollFlags(ops(g)') \subseteq interest'[fd(g)'].events
    BY <1>3, <1>5, OwnedFacts DEF NeverSilenced
  <2>1. interest'[fd(g)'] = interest[fd(g)] /\ ops(g)' = ops(g)
    BY <1>3 DEF fd, ops
  <2> QED BY <1>3, <2>1 DEF IInv, NeverSilenced
<1> QED BY <1>2, <1>6, <1>7, <1>8, <1>9, <1>10, <1>11, <1>12 DEF IInv

(* Allocating or freeing a hook that no context owns, which neither the    *)
(* table, the kernel nor a dispatch can point to.                          *)
LEMMA UnownedChange ==
  ASSUME IInv, NEW h \in Hook \ owned, NEW d \in HookData \cup {Freed},
         hook' = [hook EXCEPT ![h] = d],
         note' \in {note, [note EXCEPT ![h] = "none"]}, ready' \in Seq(Fd),
         UNCHANGED <<ctx, owned, table, interest, pending, th, reg>>
  PROVE  IInv'
<1>1. \A g \in owned : /\ g \in Hook /\ hook'[g] = hook[g] /\ note'[g] = note[g]
  BY OwnedFacts DEF IInv, TypeOK
<1>2. \A g \in owned : fd(g)' = fd(g) /\ ops(g)' = ops(g)
  BY <1>1 DEF fd, ops
<1>3. TypeOK'
  BY DEF IInv, TypeOK
<1>4. OwnedApart'
  BY <1>1, <1>2 DEF IInv, OwnedApart, live
<1>5. Agree'
  <2>1. Registered'
    BY <1>1, <1>2 DEF IInv, Agree, Registered
  <2> QED BY <2>1 DEF IInv, Agree, Serial, Busy
<1>6. Entries' /\ Dispatches' /\ OneAtATime'
  BY DEF IInv, Entries, Dispatches, OneAtATime, Serial
<1>7. Listed'
  BY <1>1, <1>2 DEF IInv, Listed
<1>8. NeverSilenced'
  BY <1>1, <1>2 DEF IInv, NeverSilenced, Busy
<1> QED BY <1>3, <1>4, <1>5, <1>6, <1>7, <1>8 DEF IInv

(* What the checks of eh_ctx_reg_hook and the client's rule give: no owned *)
(* hook has the fd, so the kernel and the table are free for it.           *)
LEMMA FdIsFree ==
  ASSUME IInv, NEW h \in Hook, NEW f \in Fd, MayReg(h, f)
  PROVE  /\ \A g \in owned : fd(g) # f
         /\ interest[f] = NoEntry /\ table[f] = NoHook
<1>1. \A g \in owned : fd(g) # f
  <2>1. \A g \in owned : fd(g) = f => note[g] # "failed" /\ table[f] # g /\ reg.hook # g
    BY OwnedFacts, Blanks DEF MayReg, MayCall, IInv, OwnedApart
  <2> QED BY <2>1 DEF IInv, Agree, Registered
<1>2. interest[f].hook = NoHook
  BY <1>1 DEF IInv, Agree, Registered
<1> QED BY <1>1, <1>2 DEF MayReg, IInv, Entries

(* What EPOLL_CTL_ADD and EPOLL_CTL_MOD leave in the entry of the fd.      *)
LEMMA MaskType ==
  ASSUME IInv, NEW f \in Fd, NEW h \in Hook, NEW S \in SUBSET Op, NEW et \in BOOLEAN,
         NEW oneshot \in BOOLEAN, EpollPut(f, h, EpollFlags(S), et, oneshot)
  PROVE  /\ interest' \in [Fd -> EntryState]
         /\ ready' \in Seq(Fd) /\ pending' = pending
         /\ interest'[f].hook = h /\ interest'[f].oneshot = oneshot
         /\ EpollFlags(S) \subseteq interest'[f].events
         /\ \A g \in Fd : g # f => interest'[g] = interest[g]
<1>1. EpollFlags(S) \cup {ERR, HUP} \in SUBSET Event
  BY FlagsType, HookAssumption DEF Event
<1> QED BY <1>1 DEF EpollPut, EnqueueIf, IInv, TypeOK, Handle

(* The first half of eh_ctx_reg_hook when EPOLL_CTL_ADD succeeds.          *)
LEMMA Registering ==
  ASSUME IInv, NEW h \in Hook \ owned, NEW d \in HookData, NEW auto \in BOOLEAN,
         MayReg(h, d.fd), RegAdd(h, d, auto), hook' = [hook EXCEPT ![h] = d],
         UNCHANGED <<ctx, note, table, th>>
  PROVE  IInv'
<1> DEFINE f == d.fd
<1>1. f \in Fd /\ d.ops \in SUBSET Op /\ h # NoHook /\ d # Freed
  BY HookAssumption DEF HookData
<1>2. /\ owned' = owned \cup {h} /\ reg' = [hook |-> h, auto |-> auto] /\ ~Busy(h)
      /\ h \notin owned
  BY DEF RegAdd, MayReg
<1>3. /\ interest' \in [Fd -> EntryState]
      /\ ready' \in Seq(Fd) /\ pending' = pending
      /\ interest'[f].hook = h /\ interest'[f].oneshot = ctx.oneshot
      /\ EpollFlags(d.ops) \subseteq interest'[f].events
      /\ \A g \in Fd : g # f => interest'[g] = interest[g]
  <2>1. EpollPut(f, h, EpollFlags(d.ops), ctx.threaded, ctx.oneshot)
    BY DEF RegAdd
  <2>2. ctx.threaded \in BOOLEAN /\ ctx.oneshot \in BOOLEAN
    BY DEF IInv, TypeOK
  <2> QED BY <1>1, <2>1, <2>2, MaskType
<1>4. (\A g \in owned : fd(g) # f) /\ table[f] = NoHook
  BY <1>1, FdIsFree
<1>5. /\ hook'[h] = d /\ fd(h)' = f /\ ops(h)' = d.ops
      /\ \A g \in owned : /\ hook'[g] = hook[g] /\ fd(g)' = fd(g) /\ ops(g)' = ops(g)
                          /\ fd(g) \in Fd \ {f}
  BY <1>4, OwnedFacts DEF IInv, TypeOK, fd, ops
<1> HIDE DEF f
<1>6. TypeOK'
  BY <1>1, <1>2, <1>3 DEF IInv, TypeOK, Handle
<1>7. OwnedApart'
  BY <1>1, <1>2, <1>4, <1>5 DEF IInv, OwnedApart, live
<1>8. Agree'
  <2>1. Registered'
    <3>1. (owned # {} => ctx.alive)'
      BY DEF MayReg
    <3>2. \A g \in owned' :
             note'[g] = "failed" \/ reg'.hook = g \/ table'[fd(g)'] = g
      <4>1. \A g \in owned : reg.hook # g
        BY OwnedFacts, Blanks DEF MayReg, MayCall
      <4> QED BY <1>2, <1>5, <4>1 DEF IInv, Agree, Registered
    <3>3. \A g \in Fd : \A k \in {table'[g], interest'[g].hook} \ {NoHook} :
             k \in owned' /\ fd(k)' = g
      BY <1>2, <1>3, <1>4, <1>5 DEF IInv, Agree, Registered, fd
    <3> QED BY <3>1, <3>2, <3>3 DEF Registered
  <2>2. reg'.hook \in owned' /\ ~Busy(reg'.hook)
    BY <1>2
  <2> QED BY <2>1, <2>2 DEF Agree, Busy
<1>9. Entries'
  BY <1>1, <1>3 DEF IInv, Entries
<1>10. Dispatches'
  <2>1. \A t \in Thread : th[t].hook # h
    BY <1>2 DEF Busy
  <2> QED BY <1>1, <1>2, <1>3, <2>1 DEF IInv, Dispatches, Serial
<1>11. Listed'
  BY <1>2, <1>3, <1>5 DEF IInv, Listed
<1>12. NeverSilenced'
  BY <1>2, <1>3, <1>5, SMTT(30) DEF IInv, NeverSilenced, Busy
<1>13. OneAtATime'
  BY DEF IInv, OneAtATime
<1> QED BY <1>6, <1>7, <1>8, <1>9, <1>10, <1>11, <1>12, <1>13 DEF IInv

(* The first half of eh_ctx_reg_hook when EPOLL_CTL_ADD fails and the      *)
(* owner stays set.                                                        *)
LEMMA StepRegFails ==
  ASSUME IInv, NEW h \in live, MayReg(h, fd(h)), owned' = owned \cup {h},
         note' = [note EXCEPT ![h] = "failed"],
         UNCHANGED <<ctx, hook, table, kernel, th, reg>>
  PROVE  IInv'
<1>1. h \in Hook \ owned /\ fd(h) \in Fd
  BY DEF live, MayReg, IInv, TypeOK, HookData, fd
<1>2. \A g \in owned : fd(g) # fd(h)
  BY <1>1, FdIsFree
<1>3. note'[h] = "failed" /\ \A g \in owned : note'[g] = note[g]
  BY <1>1, OwnedFacts DEF IInv, TypeOK
<1>4. TypeOK'
  BY <1>1 DEF IInv, TypeOK, kernel
<1>5. OwnedApart'
  BY <1>1, <1>2 DEF IInv, OwnedApart, live, fd
<1>6. Agree'
  <2>1. ctx.alive
    BY DEF MayReg
  <2> QED BY <1>3, <2>1 DEF IInv, Agree, Registered, fd, Serial, Busy, kernel
<1>7. Entries' /\ Dispatches' /\ OneAtATime'
  BY DEF IInv, Entries, Dispatches, OneAtATime, Serial, kernel
<1>8. Listed'
  BY <1>3 DEF IInv, Listed, fd, kernel
<1>9. NeverSilenced'
  BY <1>3 DEF IInv, NeverSilenced, fd, ops, Busy, kernel
<1> QED BY <1>4, <1>5, <1>6, <1>7, <1>8, <1>9 DEF IInv

(* The second half stores the hook in the table.                           *)
LEMMA StepRegSet ==
  ASSUME IInv, RegSet
  PROVE  IInv'
<1> DEFINE h == reg.hook
           f == fd(h)
<1>1. h \in owned /\ f \in Fd /\ h \in Hook
  BY OwnedFacts DEF RegSet, IInv, Agree
<1>2. /\ table' = [table EXCEPT ![f] = h] /\ reg' = NoReg
      /\ UNCHANGED <<ctx, hook, owned, note, interest, ready, pending, th>>
  BY DEF RegSet, mem, kernel
<1>3. /\ table'[f] = h
      /\ \A g \in Fd : g # f => table'[g] = table[g]
      /\ \A k \in owned : fd(k) = f => k = h
  BY <1>1, <1>2 DEF IInv, TypeOK, OwnedApart
<1>4. TypeOK'
  BY <1>1, <1>2, Blanks DEF IInv, TypeOK, Handle
<1>5. OwnedApart' /\ Entries' /\ Dispatches' /\ OneAtATime'
  BY <1>2 DEF IInv, OwnedApart, live, fd, Entries, Dispatches, OneAtATime, Serial
<1>6. Listed' /\ NeverSilenced'
  BY <1>2 DEF IInv, Listed, NeverSilenced, fd, ops, Busy
<1>7. Agree'
  <2>1. \A k \in owned : note[k] = "failed" \/ table'[fd(k)] = k
    BY <1>3, OwnedFacts DEF IInv, Agree, Registered
  <2>2. \A g \in Fd : \A k \in {table'[g], interest[g].hook} \ {NoHook} :
          k \in owned /\ fd(k) = g
    BY <1>1, <1>3 DEF IInv, Agree, Registered
  <2> QED BY <1>2, <2>1, <2>2 DEF IInv, Agree, Registered, fd
<1> QED BY <1>4, <1>5, <1>6, <1>7 DEF IInv

(* The second half fails: eh_ctx_hook_alloc cleans the hook up, the        *)
(* client's own call leaves it owned and listed.                           *)
LEMMA StepRegSetFails ==
  ASSUME IInv, RegSetFails
  PROVE  IInv'
<1> DEFINE h == reg.hook
<1>1. h \in owned /\ fd(h) \in Fd /\ h \in Hook /\ ~Busy(h)
  BY OwnedFacts DEF RegSetFails, IInv, Agree
<1>2. CASE reg.auto /\ Cleanup(h) /\ UNCHANGED note
  <2>1. Unreg(h, fd(h)) /\ hook' = [hook EXCEPT ![h] = Freed]
    BY <1>1, <1>2 DEF Cleanup, UnregIfOwned
  <2>2. th' = [u \in Thread |-> IF th[u].hook = h THEN Out ELSE th[u]]
    BY <1>1 DEF RegSetFails, Busy, IInv, TypeOK
  <2>3. ctx' = ctx /\ reg' = IF reg.hook = h THEN NoReg ELSE reg
    BY DEF RegSetFails
  <2> QED BY <1>1, <1>2, <2>1, <2>2, <2>3, Unregistering
<1>3. CASE /\ note' = [note EXCEPT ![h] = "failed"]
           /\ UNCHANGED <<hook, owned, table, kernel>>
  <2>1. /\ UNCHANGED <<ctx, hook, owned, table, interest, ready, pending, th>>
        /\ reg' = NoReg
    BY <1>3 DEF RegSetFails, kernel
  <2>2. note'[h] = "failed" /\ \A g \in owned : g # h => note'[g] = note[g]
    BY <1>1, <1>3, OwnedFacts DEF IInv, TypeOK
  <2>3. TypeOK'
    BY <1>1, <1>3, <2>1, Blanks DEF IInv, TypeOK
  <2>4. OwnedApart' /\ Entries' /\ Dispatches' /\ OneAtATime'
    BY <2>1 DEF IInv, OwnedApart, live, fd, Entries, Dispatches, OneAtATime, Serial
  <2>5. Agree'
    BY <2>1, <2>2 DEF IInv, Agree, Registered, fd
  <2>6. Listed' /\ NeverSilenced'
    BY <2>1, <2>2 DEF IInv, Listed, NeverSilenced, fd, ops, Busy
  <2> QED BY <2>3, <2>4, <2>5, <2>6 DEF IInv
<1> QED BY <1>2, <1>3 DEF RegSetFails

(* A context comes and goes. When it is cleaned up, the table holds every  *)
(* hook that it owns, so that none is left behind.                         *)
LEMMA StepCtx ==
  ASSUME IInv, CtxCleanup \/ \E a, b \in BOOLEAN : CtxAlloc(a, b)
  PROVE  IInv'
<1>1. ASSUME NEW a \in BOOLEAN, NEW b \in BOOLEAN, CtxAlloc(a, b) PROVE IInv'
  <2>1. owned = {} /\ \A t \in Thread : th[t] = Out
    BY <1>1 DEF CtxAlloc, IInv, Agree, Registered, Dispatches
  <2>2. \A f \in Fd : interest[f].hook = NoHook /\ interest[f] = NoEntry
    BY <2>1, OwnedFacts DEF IInv, Entries
  <2>3. TypeOK'
    BY <1>1 DEF CtxAlloc, IInv, TypeOK, mem, kernel
  <2>4. OwnedApart' /\ Agree' /\ Listed' /\ NeverSilenced'
    BY <1>1, <2>1 DEF CtxAlloc, IInv, OwnedApart, Agree, Registered, Listed,
       NeverSilenced, live, fd, mem, kernel
  <2>5. Entries' /\ Dispatches' /\ OneAtATime'
    BY <1>1, <2>1, <2>2, Blanks DEF CtxAlloc, IInv, Entries, Dispatches,
       OneAtATime, Serial, mem, kernel
  <2> QED BY <2>3, <2>4, <2>5 DEF IInv
<1>2. CASE CtxCleanup
  <2> DEFINE stored == Range(table) \ {NoHook}
  <2>1. owned = stored
    <3>1. \A h \in owned : table[fd(h)] = h /\ fd(h) \in Fd /\ h # NoHook
      BY <1>2, OwnedFacts, Blanks DEF CtxCleanup, IInv, OwnedApart, Agree,
         Registered
    <3>2. owned \subseteq stored
      BY <3>1 DEF Range, IInv, TypeOK
    <3>3. stored \subseteq owned
      BY DEF Range, IInv, TypeOK, Agree, Registered
    <3> QED BY <3>2, <3>3
  <2> HIDE DEF stored
  <2>2. /\ owned' = {} /\ table' = [f \in Fd |-> NoHook]
        /\ interest' = [f \in Fd |-> NoEntry] /\ ready' = << >>
        /\ UNCHANGED <<pending, th, reg>> /\ reg = NoReg
        /\ \A t \in Thread : th[t] = Out
        /\ ctx' = [alive |-> FALSE, threaded |-> FALSE, oneshot |-> FALSE]
    BY <1>2, <2>1 DEF CtxCleanup, stored
  <2>3. TypeOK'
    <3>1. /\ hook' = [h \in Hook |-> IF h \in stored THEN Freed ELSE hook[h]]
          /\ note' = [h \in Hook |-> IF h \in stored THEN "none" ELSE note[h]]
      BY <1>2 DEF CtxCleanup, stored
    <3> QED BY <2>2, <3>1, Blanks DEF IInv, TypeOK, Handle
  <2>4. OwnedApart' /\ Agree' /\ Listed' /\ NeverSilenced'
    BY <2>2, Blanks DEF OwnedApart, Agree, Registered, Listed, NeverSilenced
  <2>5. Entries' /\ Dispatches' /\ OneAtATime'
    BY <2>2, Blanks DEF Entries, Dispatches, OneAtATime, Serial
  <2> QED BY <2>3, <2>4, <2>5 DEF IInv
<1> QED BY <1>1, <1>2

(* eh_hook_mod_set_cbf: the entry never loses a flag of an operation that  *)
(* has a callback.                                                         *)
LEMMA StepModSetCbf ==
  ASSUME IInv, NEW h \in Hook, NEW op \in Op, NEW fn \in BOOLEAN, ModSetCbf(h, op, fn)
  PROVE  IInv'
<1> DEFINE f    == fd(h)
           more == EpollFlags(ops(h) \cup {op})
<1>1. /\ h \in owned /\ f \in Fd /\ hook[h] \in HookData /\ ops(h) \in SUBSET Op
      /\ h # NoHook
  BY OwnedFacts, HookAssumption DEF ModSetCbf
<1>2. /\ hook' = [hook EXCEPT ![h].ops = IF fn THEN @ \cup {op} ELSE @ \ {op}]
      /\ UNCHANGED <<ctx, owned, note, table, th, reg>>
  BY DEF ModSetCbf
<1>3. /\ hook'[h] \in HookData /\ fd(h)' = fd(h)
      /\ ops(h)' = IF fn THEN ops(h) \cup {op} ELSE ops(h) \ {op}
      /\ \A g \in owned : g # h => hook'[g] = hook[g]
  BY <1>1, <1>2, OwnedFacts DEF IInv, TypeOK, HookData, fd, ops
<1>4. \A g \in owned : fd(g)' = fd(g) /\ fd(g) \in Fd /\ (g # h => ops(g)' = ops(g))
  BY <1>3, OwnedFacts DEF fd, ops
<1>5. EpollFlags(ops(h)') \subseteq more
  BY <1>3, FlagsMonotone
<1>6. /\ interest' \in [Fd -> EntryState]
      /\ ready' \in Seq(Fd) /\ pending' = pending
      /\ interest'[f].hook = interest[f].hook
      /\ \A g \in Fd : g # f => interest'[g] = interest[g]
      /\ \/ interest'[f] = interest[f] /\ more = EpollFlags(ops(h))
         \/ /\ ~ctx.oneshot /\ interest'[f].hook # NoHook
            /\ interest'[f].oneshot = ctx.oneshot /\ more \subseteq interest'[f].events
  <2>1. CASE more = EpollFlags(ops(h))
    BY <2>1 DEF ModSetCbf, kernel, IInv, TypeOK
  <2>2. CASE more # EpollFlags(ops(h))
    <3>1. /\ Serial /\ interest[f] # NoEntry
          /\ EpollPut(f, h, EpollFlags(ops(h) \cup {op}), FALSE, FALSE)
      BY <2>2 DEF ModSetCbf
    <3>2. interest[f].hook = h
      BY <1>1, <3>1 DEF IInv, Entries, Agree, Registered, OwnedApart
    <3>3. ops(h) \cup {op} \in SUBSET Op
      BY <1>1
    <3>4. ctx.oneshot = FALSE
      BY <3>1 DEF Serial, IInv, TypeOK
    <3> QED BY <1>1, <3>1, <3>2, <3>3, <3>4, MaskType
  <2> QED BY <2>1, <2>2
<1>7. TypeOK'
  BY <1>2, <1>3, <1>6, OwnedFacts DEF IInv, TypeOK
<1>8. OwnedApart'
  <2>1. (owned \subseteq live)'
    BY <1>2, <1>3, HookAssumption DEF IInv, OwnedApart, live
  <2> QED BY <1>2, <1>4, <2>1 DEF IInv, OwnedApart
<1>9. Agree'
  <2>1. \A g \in Fd : interest'[g].hook = interest[g].hook
    BY <1>6
  <2> QED BY <1>2, <1>4, <2>1 DEF IInv, Agree, Registered, Serial, Busy
<1>10. Entries'
  BY <1>2, <1>6 DEF IInv, Entries
<1>11. Dispatches' /\ OneAtATime'
  BY <1>2, <1>6 DEF IInv, Dispatches, OneAtATime, Serial
<1>12. Listed'
  BY <1>2, <1>4, <1>6 DEF IInv, Listed
<1>13. NeverSilenced'
  <2> SUFFICES ASSUME NEW g \in owned, note[g] = "none", ~(ctx.oneshot /\ Busy(g))
               PROVE  /\ interest'[fd(g)].hook = g
                      /\ EpollFlags(ops(g)') \subseteq interest'[fd(g)].events
    BY <1>2, <1>4 DEF NeverSilenced, Busy
  <2>1. interest[fd(g)].hook = g /\ EpollFlags(ops(g)) \subseteq interest[fd(g)].events
    BY DEF IInv, NeverSilenced
  <2>2. CASE g = h
    BY <1>5, <1>6, <2>1, <2>2
  <2>3. CASE g # h
    <3>1. fd(g) # f
      BY <1>1, <2>3 DEF IInv, OwnedApart
    <3> QED BY <1>4, <1>6, <2>1, <2>3, <3>1
  <2> QED BY <2>2, <2>3
<1> QED BY <1>7, <1>8, <1>9, <1>10, <1>11, <1>12, <1>13 DEF IInv

(* A dispatch that ends without touching the kernel: in a one-shot context *)
(* the hook is then muted, or was silenced before.                         *)
LEMMA DispatchEnds ==
  ASSUME IInv, NEW t \in Thread, th[t] # Out, th' = [th EXCEPT ![t] = Out],
         Muted(th[t].hook), UNCHANGED <<ctx, hook, owned, table, kernel, reg>>
  PROVE  IInv'
<1> DEFINE h == th[t].hook
<1>1. h \in owned /\ h \in Hook /\ h # NoHook
  BY OwnedFacts, HookAssumption DEF IInv, Dispatches
<1>2. /\ \A g \in owned : g # h => note'[g] = note[g] /\ (Busy(g)' <=> Busy(g))
      /\ note'[h] = "failed" <=> note[h] = "failed"
      /\ note'[h] = "none" => note[h] = "none" /\ ~ctx.oneshot
      /\ \A u \in Thread : th'[u] = Out \/ th'[u] = th[u]
  BY <1>1, OwnedFacts, Blanks DEF Muted, IInv, TypeOK, Busy
<1>3. TypeOK'
  BY <1>1, Blanks DEF Muted, IInv, TypeOK, kernel
<1>4. OwnedApart' /\ Entries'
  BY DEF IInv, OwnedApart, live, fd, Entries, kernel
<1>5. Agree'
  <2>1. \A g \in Hook : Busy(g)' => Busy(g)
    BY <1>2, Blanks, HookAssumption DEF Busy
  <2> QED BY <1>2, <2>1, OwnedFacts DEF IInv, Agree, Registered, fd, Serial, kernel
<1>6. Dispatches' /\ OneAtATime'
  BY <1>2, Blanks DEF IInv, Dispatches, OneAtATime, Serial, kernel
<1>7. Listed'
  BY <1>2 DEF IInv, Listed, fd, kernel
<1>8. NeverSilenced'
  BY <1>2 DEF IInv, NeverSilenced, fd, ops, kernel
<1> QED BY <1>3, <1>4, <1>5, <1>6, <1>7, <1>8 DEF IInv

(* A step within a dispatch, from one callback to the next.                *)
LEMMA Dispatching ==
  ASSUME IInv, NEW t \in Thread, th[t].pc # "out", NEW pc \in {"ops", "inOp"},
         NEW new \in SUBSET Event, NEW j \in Op,
         th' = [th EXCEPT ![t].pc = pc, ![t].new = new, ![t].j = j],
         UNCHANGED <<ctx, mem, table, kernel, reg>>
  PROVE  IInv'
<1>0. /\ th' \in [Thread -> ThreadState]
      /\ th'[t].pc # "out" /\ th'[t].hook = th[t].hook
      /\ \A u \in Thread : u # t => th'[u] = th[u]
  <2>1. th \in [Thread -> ThreadState] /\ th[t] \in ThreadState
    BY DEF IInv, TypeOK
  <2>2. th'[t].hook = th[t].hook /\ th'[t].pc = pc
    BY <2>1
  <2>3. th' = [u \in Thread |-> th'[u]] /\ \A u \in Thread : u # t => th'[u] = th[u]
    BY <2>1
  <2>4. th'[t] = [[[th[t] EXCEPT !.pc = pc] EXCEPT !.new = new] EXCEPT !.j = j]
    BY <2>1
  <2>5. [[[th[t] EXCEPT !.pc = pc] EXCEPT !.new = new] EXCEPT !.j = j] \in ThreadState
    BY <2>1
  <2>6. \A u \in Thread : th'[u] \in ThreadState
    BY <2>1, <2>3, <2>4, <2>5
  <2> QED BY <2>2, <2>3, <2>6
<1>1. /\ \A u \in Thread : th'[u].hook = th[u].hook
      /\ th[t].hook \in owned /\ th'[t] # Out /\ th[t] # Out
  BY <1>0, Blanks DEF IInv, Dispatches
<1>2. TypeOK'
  BY <1>0 DEF IInv, TypeOK, mem, kernel
<1>3. OwnedApart' /\ Entries' /\ Agree'
  BY <1>0, <1>1 DEF IInv, OwnedApart, live, fd, Entries, Agree, Registered,
     Serial, Busy, mem, kernel
<1>4. Dispatches' /\ OneAtATime'
  BY <1>0, <1>1, Blanks DEF IInv, Dispatches, OneAtATime, Serial, mem, kernel
<1>5. Listed' /\ NeverSilenced'
  BY <1>0, <1>1 DEF IInv, Listed, NeverSilenced, Busy, fd, ops, mem, kernel
<1> QED BY <1>2, <1>3, <1>4, <1>5 DEF IInv

(* epoll_wait hands an event to a thread. A one-shot entry whose hook is   *)
(* already under dispatch is disabled and reports nothing, so no second    *)
(* thread gets that hook.                                                  *)
LEMMA StepEpollWait ==
  ASSUME IInv, NEW t \in Thread, EpollWait(t)
  PROVE  IInv'
<1> DEFINE f == Head(ready)
           e == interest[f]
           h == e.hook
<1>1. f \in Fd /\ ready' \in Seq(Fd)
  BY DEF EpollWait, IInv, TypeOK
<1>2. CASE Visible(f) = {}
  <2>1. UNCHANGED <<ctx, hook, owned, note, table, interest, pending, th, reg>>
    BY <1>2 DEF EpollWait, mem
  <2>2. TypeOK'
    BY <1>1, <2>1 DEF IInv, TypeOK
  <2>3. OwnedApart' /\ Agree' /\ Entries' /\ Dispatches' /\ OneAtATime'
    BY <2>1 DEF IInv, OwnedApart, Agree, Registered, Entries, Dispatches,
       OneAtATime,
       live, fd, Serial, Busy
  <2>4. Listed' /\ NeverSilenced'
    BY <2>1 DEF IInv, Listed, NeverSilenced, fd, ops, Busy
  <2> QED BY <2>2, <2>3, <2>4 DEF IInv
<1>3. CASE Visible(f) # {}
  <2>1. e.events # {} /\ h \in owned /\ h \in Hook /\ h # NoHook /\ e.oneshot = ctx.oneshot
    BY <1>1, <1>3, Blanks, OwnedFacts, HookAssumption DEF Visible, IInv, Entries
  <2>2. /\ th[t] = Out /\ ctx.alive /\ UNCHANGED <<ctx, hook, owned, note, table, pending, reg>>
        /\ Serial => reg = NoReg /\ \A u \in Thread : th[u] = Out
    BY DEF EpollWait, mem
  <2>3. /\ th' \in [Thread -> ThreadState]
        /\ th'[t].pc # "out" /\ th'[t].hook = h
        /\ \A u \in Thread : u # t => th'[u] = th[u]
    <3> DEFINE toAll == ALL \in ops(h)
               pc    == IF toAll THEN "inAll" ELSE "ops"
               new   == IF toAll THEN {} ELSE Visible(f)
               r     == [pc |-> pc, hook |-> h, new |-> new, j |-> 0,
                         hangup |-> HUP \in Visible(f)]
    <3>1. th' = [th EXCEPT ![t] = r]
      BY <1>3 DEF EpollWait
    <3>2. 0 \in Op /\ new \in SUBSET Event /\ pc \in {"inAll", "ops"}
      BY <1>1, HookAssumption DEF Op, ALL, Visible, IInv, TypeOK
    <3> HIDE DEF pc, new
    <3>3. /\ r \in ThreadState
          /\ r.pc # "out" /\ r.hook = h
      BY <2>1, <3>2 DEF Handle
    <3> HIDE DEF r
    <3> QED BY <3>1, <3>3 DEF IInv, TypeOK
  <2>4. /\ interest' \in [Fd -> EntryState]
        /\ \A g \in Fd : /\ interest'[g].hook = interest[g].hook
                         /\ interest'[g].oneshot = interest[g].oneshot
                         /\ g # f => interest'[g] = interest[g]
        /\ IF ctx.oneshot THEN interest'[f].events = {} ELSE interest'[f] = e
    <3>1. interest' = IF ctx.oneshot THEN [interest EXCEPT ![f].events = {}] ELSE interest
      BY <1>3, <2>1 DEF EpollWait
    <3> HIDE DEF f
    <3> QED BY <1>1, <3>1, SMTT(30) DEF IInv, TypeOK
  <2>5. \A u \in Thread : th[u].hook # h
    BY <1>1, <2>1, <2>2, Blanks DEF IInv, Dispatches, Serial
  <2> HIDE DEF f
  <2>6. \A g \in Hook : Busy(g)' <=> Busy(g) \/ g = h
    BY <2>2, <2>3, Blanks, HookAssumption DEF Busy
  <2>7. TypeOK'
    BY <1>1, <2>2, <2>3, <2>4 DEF IInv, TypeOK
  <2>8. OwnedApart'
    BY <2>2 DEF IInv, OwnedApart, live, fd
  <2>9. Entries'
    BY <1>1, <2>1, <2>2, <2>4 DEF IInv, Entries
  <2>10. Agree'
    <3>1. Registered'
      BY <2>2, <2>4 DEF IInv, Agree, Registered, fd
    <3> QED BY <2>2, <3>1 DEF IInv, Agree, Serial
  <2>11. Dispatches' /\ OneAtATime'
    <3>1. \A g \in Fd : interest[g].hook = h => g = f
      BY <1>1, <2>1 DEF IInv, Agree, Registered
    <3>2. \A u \in Thread : (th[u] = Out \/ (th[u].pc # "out" /\ th[u].hook \in owned))'
      BY <2>1, <2>2, <2>3 DEF IInv, Dispatches
    <3>3. (Serial => \A v, u \in Thread : v # u => th[v] = Out \/ th[u] = Out)'
      BY <2>2, <2>3 DEF Serial
    <3>4. (ctx.oneshot =>
          \A v \in Thread, g \in Fd :
             th[v].hook # NoHook /\ interest[g].hook = th[v].hook
                => interest[g].events = {})'
      BY <2>2, <2>3, <2>4, <3>1 DEF IInv, Dispatches
    <3>5. OneAtATime'
      BY <2>3, <2>5 DEF IInv, OneAtATime
    <3> QED BY <2>2, <3>2, <3>3, <3>4, <3>5 DEF Dispatches
  <2>12. Listed'
    BY <2>2, <2>4, OwnedFacts DEF IInv, Listed, fd
  <2>13. NeverSilenced'
    <3> SUFFICES ASSUME NEW g \in owned, note[g] = "none", ~(ctx.oneshot /\ Busy(g)')
                 PROVE  /\ interest'[fd(g)].hook = g
                        /\ EpollFlags(ops(g)) \subseteq interest'[fd(g)].events
      BY <2>2 DEF NeverSilenced, fd, ops
    <3>1. /\ interest[fd(g)].hook = g /\ EpollFlags(ops(g)) \subseteq interest[fd(g)].events
          /\ fd(g) \in Fd /\ (ctx.oneshot => g # h)
      BY <2>6, OwnedFacts DEF IInv, NeverSilenced
    <3> QED BY <2>4, <3>1
  <2> QED BY <2>7, <2>8, <2>9, <2>10, <2>11, <2>12, <2>13 DEF IInv
<1> QED BY <1>2, <1>3

(* The end of a one-shot dispatch re-arms the hook, which no other thread  *)
(* dispatches, or finds that the file was closed.                          *)
LEMMA Rearming ==
  ASSUME IInv, NEW t \in Thread, th[t] # Out, ctx.oneshot, Rearm(th[t].hook),
         th' = [th EXCEPT ![t] = Out], UNCHANGED <<ctx, hook, owned, note, table, reg>>
  PROVE  IInv'
<1> DEFINE h == th[t].hook
           f == fd(h)
<1>1. /\ h \in owned /\ h \in Hook /\ h # NoHook /\ f \in Fd /\ ops(h) \in SUBSET Op
      /\ ctx.oneshot = TRUE /\ ctx.threaded \in BOOLEAN
  BY OwnedFacts, HookAssumption DEF IInv, Dispatches, TypeOK
<1>2. CASE interest[f] = NoEntry
  <2>1. note[h] # "none"
    BY <1>1, <1>2, Blanks DEF IInv, Listed
  <2> QED BY <1>2, <2>1, DispatchEnds DEF Rearm, Muted
<1>3. CASE interest[f] # NoEntry
  <2>1. EpollPut(f, h, EpollFlags(ops(h)), ctx.threaded, TRUE)
    BY <1>3 DEF Rearm
  <2>2. interest[f].hook = h
    <3>1. interest[f].hook # NoHook
      BY <1>1, <1>3 DEF IInv, Entries
    <3>2. interest[f].hook \in owned /\ fd(interest[f].hook) = f
      BY <1>1, <3>1 DEF IInv, Agree, Registered
    <3> QED BY <1>1, <3>2 DEF IInv, OwnedApart
  <2>3. /\ interest' \in [Fd -> EntryState]
        /\ ready' \in Seq(Fd) /\ pending' = pending
        /\ interest'[f].hook = h /\ interest'[f].oneshot = TRUE
        /\ EpollFlags(ops(h)) \subseteq interest'[f].events
        /\ \A g \in Fd : g # f => interest'[g] = interest[g]
    BY <1>1, <2>1, MaskType
  <2>4. /\ th'[t] = Out /\ \A u \in Thread : u # t => th'[u] = th[u] /\ th[u].hook # h
    BY <1>1 DEF IInv, TypeOK, OneAtATime
  <2> HIDE DEF f, h
  <2>5. \A g \in owned : g # h => (Busy(g)' <=> Busy(g)) /\ fd(g) \in Fd \ {f}
    BY <1>1, <2>4, Blanks, OwnedFacts DEF Busy, h, f, IInv, OwnedApart
  <2>6. TypeOK'
    BY <2>3, Blanks DEF IInv, TypeOK
  <2>7. OwnedApart'
    BY DEF IInv, OwnedApart, live, fd
  <2>8. Entries'
    BY <1>1, <2>3 DEF IInv, Entries
  <2>9. Agree'
    <3>1. \A g \in Fd : interest'[g].hook = interest[g].hook
      BY <2>2, <2>3
    <3> QED BY <1>1, <3>1 DEF IInv, Agree, Registered, fd, Serial
  <2>10. Dispatches' /\ OneAtATime'
    <3>1. \A u \in Thread : th'[u].hook # NoHook => th'[u] = th[u] /\ th[u].hook # h
      BY <2>4, Blanks
    <3>2. OneAtATime'
      BY <2>4, Blanks DEF IInv, OneAtATime
    <3>3. (\A v \in Thread, g \in Fd :
             th[v].hook # NoHook /\ interest[g].hook = th[v].hook
                => interest[g].events = {})'
      BY <1>1, <2>3, <3>1 DEF IInv, Dispatches
    <3> QED BY <1>1, <2>4, <3>2, <3>3 DEF IInv, Dispatches, Serial
  <2>11. Listed'
    <3>1. \A g \in Fd : interest'[g].hook = interest[g].hook
      BY <2>2, <2>3
    <3> QED BY <3>1, OwnedFacts DEF IInv, Listed, fd
  <2>12. NeverSilenced'
    <3> SUFFICES ASSUME NEW g \in owned, note[g] = "none", ~(ctx.oneshot /\ Busy(g)')
                 PROVE  /\ interest'[fd(g)].hook = g
                        /\ EpollFlags(ops(g)) \subseteq interest'[fd(g)].events
      BY DEF NeverSilenced, fd, ops
    <3>1. CASE g = h
      BY <2>3, <3>1 DEF f
    <3>2. CASE g # h
      BY <2>3, <2>5, <3>2 DEF IInv, NeverSilenced
    <3> QED BY <3>1, <3>2
  <2> QED BY <2>6, <2>7, <2>8, <2>9, <2>10, <2>11, <2>12 DEF IInv
<1> QED BY <1>2, <1>3

(* Every step of eh_ctx_wait after the event preserves the invariant.      *)
LEMMA StepDispatch ==
  ASSUME IInv, NEW t \in Thread, Dispatch(t)
  PROVE  IInv'
<1>1. th[t].pc # "out" => th[t] # Out /\ th[t].hook \in owned
  BY Blanks DEF IInv, Dispatches
<1>2. CASE CallOp(t)
  <2>1. Min(Due(t)) \in Op
    <3>1. Due(t) # {} /\ Due(t) \subseteq Event
      BY <1>2 DEF CallOp, Due, IInv, TypeOK
    <3>2. Event \subseteq Nat /\ Event \subseteq Op
      BY HookAssumption DEF Event, Op, ALL
    <3> QED BY <3>1, <3>2, MinNat
  <2>2. th' = [th EXCEPT ![t].pc = "inOp", ![t].new = {}, ![t].j = Min(Due(t))]
    BY <1>2 DEF CallOp
  <2>3. th[t].pc # "out" /\ UNCHANGED <<ctx, mem, table, kernel, reg>>
    BY <1>2 DEF CallOp
  <2> QED BY <2>1, <2>2, <2>3, Dispatching
<1>3. CASE Return(t)
  <2>1. PICK new \in SUBSET After(t) :
           th' = [th EXCEPT ![t].pc = "ops", ![t].new = new, ![t].j = 0]
    BY <1>3 DEF Return
  <2>2. After(t) \subseteq Event /\ 0 \in Op
    BY HookAssumption DEF After, Event, Op, ALL, IInv, TypeOK
  <2>3. th[t].pc # "out" /\ UNCHANGED <<ctx, mem, table, kernel, reg>>
    BY <1>3 DEF Return, InCallback
  <2> QED BY <2>1, <2>2, <2>3, Dispatching
<1>4. CASE ReturnEnds(t)
  BY <1>1, <1>4, DispatchEnds DEF ReturnEnds, InCallback
<1>5. CASE EndDispatch(t)
  <2> DEFINE h == th[t].hook
  <2>1. /\ th[t] # Out /\ h \in owned /\ th' = [th EXCEPT ![t] = Out]
        /\ UNCHANGED <<ctx, hook, reg>>
    BY <1>1, <1>5 DEF EndDispatch
  <2>2. CASE th[t].hangup /\ ~ctx.oneshot
    <3>1. Unreg(h, fd(h)) /\ GivenUp(h)
      BY <1>5, <2>1, <2>2 DEF EndDispatch, UnregIfOwned
    <3>2. \A u \in Thread : u # t => th[u] = Out /\ th[u].hook # h
      BY <2>1, <2>2, Blanks, OwnedFacts, HookAssumption DEF IInv, Dispatches, Serial
    <3>3. th' = [u \in Thread |-> IF th[u].hook = h THEN Out ELSE th[u]]
      BY <2>1, <3>2 DEF IInv, TypeOK
    <3>4. reg' = IF reg.hook = h THEN NoReg ELSE reg
      <4>1. reg.hook # h
        BY <2>1, <2>2, Blanks, OwnedFacts, HookAssumption DEF IInv, Agree,
           Serial, Busy
      <4> QED BY <2>1, <4>1
    <3> QED BY <2>1, <3>1, <3>3, <3>4, Unregistering DEF GivenUp
  <2>3. CASE th[t].hangup /\ ctx.oneshot
    BY <1>5, <2>1, <2>3, DispatchEnds DEF EndDispatch
  <2>4. CASE ~th[t].hangup /\ ctx.oneshot
    BY <1>5, <2>1, <2>4, Rearming DEF EndDispatch
  <2>5. CASE ~th[t].hangup /\ ~ctx.oneshot
    BY <1>5, <2>1, <2>5, DispatchEnds DEF EndDispatch, Muted
  <2> QED BY <2>2, <2>3, <2>4, <2>5
<1> QED BY <1>2, <1>3, <1>4, <1>5 DEF Dispatch

(* A callback that unregisters or frees its own hook.                      *)
LEMMA StepGivesUp ==
  ASSUME IInv, NEW t \in Thread, CallbackGivesUp(t)
  PROVE  IInv'
<1> DEFINE h == th[t].hook
<1>1. h \in owned /\ h # NoHook
  BY Blanks, OwnedFacts, HookAssumption DEF CallbackGivesUp, InCallback, IInv,
     Dispatches
<1>2. /\ Unreg(h, fd(h)) /\ hook' \in {hook, [hook EXCEPT ![h] = Freed]}
  BY <1>1 DEF CallbackGivesUp, Cleanup, UnregIfOwned
<1>3. th' = [u \in Thread |-> IF th[u].hook = h THEN Out ELSE th[u]]
  BY DEF CallbackGivesUp, IInv, TypeOK
<1>4. /\ UNCHANGED ctx /\ note' = [note EXCEPT ![h] = "none"]
      /\ reg' = IF reg.hook = h THEN NoReg ELSE reg
  BY DEF CallbackGivesUp, GivenUp
<1> QED BY <1>1, <1>2, <1>3, <1>4, Unregistering

(* The client's calls preserve the invariant.                              *)
LEMMA StepClient ==
  ASSUME IInv, Client
  PROVE  IInv'
<1>1. ASSUME NEW h \in Hook, NEW d \in NewChoice[h], HookAlloc(h, d) \/ CtxHookAlloc(h, d)
      PROVE  IInv'
  <2>1. d \in HookData
    BY HookAssumption
  <2>2. h \notin owned
    BY <1>1 DEF HookAlloc, CtxHookAlloc, IInv, OwnedApart
  <2>3. CASE HookAlloc(h, d)
    <3>1. /\ hook' = [hook EXCEPT ![h] = d] /\ ready' \in Seq(Fd) /\ note' = note
          /\ UNCHANGED <<ctx, owned, table, interest, pending, th, reg>>
      BY <2>3 DEF HookAlloc, kernel, IInv, TypeOK
    <3> QED BY <2>1, <2>2, <3>1, UnownedChange
  <2>4. CASE /\ CtxHookAlloc(h, d) /\ RegAdd(h, d, TRUE)
             /\ hook' = [hook EXCEPT ![h] = d] /\ UNCHANGED table
    BY <2>1, <2>2, <2>4, Registering DEF CtxHookAlloc
  <2>5. CASE CtxHookAlloc(h, d) /\ Unreg(h, d.fd) /\ UNCHANGED <<hook, reg>>
    <3>1. d.fd \in Fd /\ interest[d.fd] = NoEntry /\ table[d.fd] = NoHook
      BY <2>1, <2>5, FdIsFree DEF CtxHookAlloc, HookData
    <3>2. UNCHANGED <<ctx, note, th, owned, table, interest, pending>>
      BY <2>2, <2>5, <3>1 DEF CtxHookAlloc, Unreg, EpollDel, IInv, TypeOK
    <3>3. ready' \in Seq(Fd)
      BY <2>5, RemoveFirstType DEF Unreg, EpollDel, IInv, TypeOK
    <3>4. hook[h] \in HookData \cup {Freed} /\ hook' = [hook EXCEPT ![h] = hook[h]]
      BY <2>5 DEF IInv, TypeOK
    <3> QED BY <2>2, <2>5, <3>2, <3>3, <3>4, UnownedChange
  <2> QED BY <1>1, <2>3, <2>4, <2>5 DEF CtxHookAlloc
<1>2. ASSUME NEW h \in Hook, CtxUnregHook(h) \/ HookCleanup(h) PROVE IInv'
  <2>1. /\ th' = [u \in Thread |-> IF th[u].hook = h THEN Out ELSE th[u]]
        /\ UNCHANGED ctx /\ note' = [note EXCEPT ![h] = "none"]
        /\ UNCHANGED <<th, reg>> /\ reg = NoReg
    BY <1>2 DEF CtxUnregHook, HookCleanup, MayCall, GivenUp, Busy, IInv, TypeOK
  <2>2. reg' = IF reg.hook = h THEN NoReg ELSE reg
    BY <2>1
  <2>3. CASE h \in owned
    <3>1. Unreg(h, fd(h)) /\ hook' \in {hook, [hook EXCEPT ![h] = Freed]}
      BY <1>2, <2>3 DEF CtxUnregHook, HookCleanup, Cleanup, UnregIfOwned
    <3> QED BY <2>1, <2>2, <2>3, <3>1, Unregistering
  <2>4. CASE h \notin owned
    <3>1. hook' = [hook EXCEPT ![h] = Freed] /\ UNCHANGED <<owned, table, kernel>>
      BY <1>2, <2>4 DEF CtxUnregHook, HookCleanup, Cleanup, UnregIfOwned
    <3> QED BY <2>1, <2>4, <3>1, UnownedChange DEF kernel, IInv, TypeOK
  <2> QED BY <2>3, <2>4
<1>3. ASSUME NEW h \in Hook, CtxRegHook(h) PROVE IInv'
  <2>1. h \in live /\ MayReg(h, fd(h)) /\ h \notin owned /\ hook[h] \in HookData
    BY <1>3 DEF CtxRegHook, MayReg, live, IInv, TypeOK
  <2>2. CASE RegAdd(h, hook[h], FALSE) /\ UNCHANGED note
    <3>1. hook' = [hook EXCEPT ![h] = hook[h]]
      BY <1>3 DEF CtxRegHook, IInv, TypeOK
    <3> QED BY <1>3, <2>1, <2>2, <3>1, Registering DEF CtxRegHook, fd
  <2>3. CASE /\ owned' = owned \cup {h} /\ note' = [note EXCEPT ![h] = "failed"]
             /\ UNCHANGED <<kernel, reg>>
    BY <1>3, <2>1, <2>3, StepRegFails DEF CtxRegHook
  <2> QED BY <1>3, <2>2, <2>3 DEF CtxRegHook
<1>4. ASSUME NEW h \in Hook, NEW op \in ModChoice[h], NEW fn \in BOOLEAN, ModSetCbf(h, op, fn)
      PROVE  IInv'
  BY <1>4, StepModSetCbf, HookAssumption
<1> QED BY <1>1, <1>2, <1>3, <1>4, StepCtx, StepRegSet, StepRegSetFails DEF Client

(* Every step preserves the invariant.                                     *)
LEMMA IInvStep ==
  ASSUME IInv, [Next]_vars
  PROVE  IInv'
<1>1. CASE UNCHANGED vars
  <2> USE <1>1 DEF vars, mem, kernel, IInv
  <2>1. TypeOK'
    BY DEF TypeOK
  <2>2. OwnedApart' /\ Agree' /\ Entries' /\ Dispatches' /\ OneAtATime'
    BY DEF OwnedApart, Agree, Registered, Entries, Dispatches, OneAtATime, live, fd,
       Serial, Busy
  <2>3. Listed' /\ NeverSilenced'
    BY DEF Listed, NeverSilenced, fd, ops, Busy
  <2> QED BY <2>1, <2>2, <2>3
<1> QED BY <1>1, StepClient, StepFiles, StepEpollWait, StepDispatch, StepGivesUp
        DEF Next, Files

(* The invariant holds in every reachable state.                           *)
LEMMA IInvAlways == Spec => []IInv
BY IInvInit, IInvStep, PTL DEF Spec

(* The state stays within its types whatever the client, the files and the *)
(* threads do.                                                             *)
THEOREM EpollTypes == Spec => []TypeOK
<1>1. IInv => TypeOK
  BY DEF IInv
<1> QED BY <1>1, IInvAlways, PTL

(* No call order leaves the kernel, the table or a thread in eh_ctx_wait   *)
(* with a pointer to a freed hook (epoll_hook.c:93-146, 281-293).          *)
THEOREM EpollNoDangling == Spec => []NoDangling
<1>1. IInv => NoDangling
  BY OwnedFacts DEF IInv, OwnedApart, Agree, Registered, NoDangling
<1> QED BY <1>1, IInvAlways, PTL

(* Owner, table and interest list agree after every call, failed ones      *)
(* included (epoll_hook.c:148-217).                                        *)
THEOREM EpollRegistered == Spec => []Registered
<1>1. IInv => Registered
  BY DEF IInv, Agree
<1> QED BY <1>1, IInvAlways, PTL

(* Two threads in eh_ctx_wait never dispatch the same hook: in a one-shot  *)
(* context because the kernel disables its entry, in a serial one because  *)
(* there is one thread (epoll_hook.c:93-146).                              *)
THEOREM EpollOneAtATime == Spec => []OneAtATime
<1>1. IInv => OneAtATime
  BY DEF IInv
<1> QED BY <1>1, IInvAlways, PTL

(* Every path through eh_ctx_wait re-arms a one-shot hook unless its       *)
(* callback or a hangup gave the events up, and eh_hook_mod_set_cbf never  *)
(* drops a flag in use (epoll_hook.c:93-146, 237-253).                     *)
THEOREM EpollNeverSilenced == Spec => []NeverSilenced
<1>1. IInv => NeverSilenced
  BY DEF IInv
<1> QED BY <1>1, IInvAlways, PTL
=============================================================================
