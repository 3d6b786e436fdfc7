----------------------------- MODULE EpollHook -----------------------------
(***************************************************************************)
(* The epoll contexts and hooks of src/src/global/epoll_hook.c beside the  *)
(* kernel's interest list and ready list.  Threads are inside eh_ctx_wait, *)
(* and the client calls the other functions: from callbacks, and between   *)
(* or, in a one-shot context, during the dispatches of other threads.      *)
(*                                                                         *)
(* Operations and events are numbered as in eh_ops_et: 0 .. HUP are the    *)
(* events, HUP + 1 is EH_OPS_ALL.  Which function a hook calls for an      *)
(* operation makes no difference here, only whether there is one; the      *)
(* user's data pointer is left out.                                        *)
(*                                                                         *)
(* The client keeps the rules that the code needs and does not check:      *)
(*  - several threads wait only on one-shot contexts, and no operation is  *)
(*    added to the kernel's entry of a hook of such a context;             *)
(*  - its own calls exclude each other, and memory does not run out in the *)
(*    one that stores a hook which is already being dispatched;            *)
(*  - a hook whose registration failed is unregistered or cleaned up, and  *)
(*    before its fd is registered again or the context is cleaned up;      *)
(*  - no thread is in eh_ctx_wait when the context is cleaned up;          *)
(*  - a hook under dispatch is left to its callback, which returns at once *)
(*    (0 from ALL, or -1) when it gives its hook up.  EpollHookRaw drops   *)
(*    this one.                                                            *)
(***************************************************************************)
EXTENDS Integers, Sequences, FiniteSets, Functions, SequencesExt, FiniteSetsExt

CONSTANTS
    Hook, NoHook,
    Freed,          \* what is left of a hook that is not allocated
    Fd,
    Thread,
    ERR, HUP,       \* EH_OPS_ERR and EH_OPS_HUP
    NewChoice,      \* bound: the fd and operations each hook is allocated with,
    ModChoice,      \*   the operations eh_hook_mod_set_cbf is called for,
    Happens         \*   and the conditions that arise on each file

ALL   == HUP + 1
Event == 0 .. HUP
Op    == 0 .. ALL

HookData == [fd : Fd, ops : SUBSET Op]

ASSUME HookAssumption ==
    /\ NoHook \notin Hook /\ Freed \notin HookData
    /\ HUP \in Nat /\ ERR \in Event
    /\ NewChoice \in [Hook -> SUBSET HookData]
    /\ ModChoice \in [Hook -> SUBSET Op] /\ Happens \in [Fd -> SUBSET Event]

VARIABLES
    ctx,            \* the context: allocated?, its two flags
    hook,           \* the hooks: hook->fd and the operations with a callback
    owned,          \* hooks with hook->owner = ctx; the others have NULL
    table,          \* ctx->hooks: the hook stored for each fd
    interest,       \* kernel: the entry of each fd
    ready,          \* kernel: the fds on the ready list, first to last
    pending,        \* kernel: the conditions that hold on each fd
    th,             \* the threads inside eh_ctx_wait
    reg,            \* the hook between EPOLL_CTL_ADD and ht_int_set, if any
    note            \* what the client was told of a hook: "failed" when its
                    \* registration returned -1, "mute" when it gave up events

mem    == <<hook, owned, note>>
kernel == <<interest, ready, pending>>
vars   == <<ctx, mem, table, kernel, th, reg>>

Handle  == Hook \cup {NoHook}
NoEntry == [hook |-> NoHook, events |-> {}, et |-> FALSE, oneshot |-> FALSE]
Out     == [pc |-> "out", hook |-> NoHook, new |-> {}, j |-> 0, hangup |-> FALSE]
live    == {h \in Hook : hook[h] # Freed}
fd(h)   == hook[h].fd
ops(h)  == hook[h].ops
NoReg   == [hook |-> NoHook, auto |-> FALSE]

TypeOK ==
    /\ ctx \in [alive : BOOLEAN, threaded : BOOLEAN, oneshot : BOOLEAN]
    /\ hook \in [Hook -> HookData \cup {Freed}] /\ owned \subseteq Hook
    /\ note \in [Hook -> {"none", "failed", "mute"}]
    /\ table \in [Fd -> Handle]
    /\ interest \in [Fd -> [hook : Handle, events : SUBSET Event,
                            et : BOOLEAN, oneshot : BOOLEAN]]
    /\ ready \in Seq(Fd) /\ pending \in [Fd -> SUBSET Event]
    /\ th \in [Thread -> [pc : {"out", "inAll", "ops", "inOp"},
                          hook : Handle, new : SUBSET Event, j : Op,
                          hangup : BOOLEAN]]
    /\ reg \in [hook : Handle, auto : BOOLEAN]

Init ==
    /\ ctx = [alive |-> FALSE, threaded |-> FALSE, oneshot |-> FALSE]
    /\ hook = [h \in Hook |-> Freed] /\ owned = {}
    /\ note = [h \in Hook |-> "none"]
    /\ table = [f \in Fd |-> NoHook]
    /\ interest = [f \in Fd |-> NoEntry] /\ ready = << >>
    /\ pending = [f \in Fd |-> {}]
    /\ th = [t \in Thread |-> Out]
    /\ reg = NoReg

----------------------------------------------------------------------------
(* The kernel (external).  EPOLLERR and EPOLLHUP are always reported; a    *)
(* one-shot entry that has fired has an empty mask.  An entry put on the   *)
(* list, or an event that arrives, makes its fd ready.                     *)

Visible(f) == pending[f] \cap interest[f].events

EnqueueIf(cond, f) ==
    ready' = IF cond /\ f \notin Range(ready) THEN Append(ready, f) ELSE ready

EpollPut(f, h, flags, et, oneshot) ==
    LET mask == flags \cup {ERR, HUP}
    IN  /\ interest' = [interest EXCEPT ![f] = [hook |-> h, events |-> mask,
                                                et |-> et, oneshot |-> oneshot]]
        /\ EnqueueIf(pending[f] \cap mask # {}, f)
        /\ UNCHANGED pending

EpollDel(f) ==
    /\ interest' = [interest EXCEPT ![f] = NoEntry]
    /\ ready' = RemoveFirst(ready, f)
    /\ UNCHANGED pending

(* A condition arises on a file, or the client reads and writes it until   *)
(* nothing but a hangup is left.                                           *)
Arrive(f, e) ==
    /\ pending' = [pending EXCEPT ![f] = @ \cup {e}]
    /\ EnqueueIf(e \in interest[f].events, f)
    /\ UNCHANGED <<ctx, mem, table, interest, th, reg>>

Drain(f) ==
    /\ pending' = [pending EXCEPT ![f] = @ \cap {HUP}]
    /\ UNCHANGED <<ctx, mem, table, interest, ready, th, reg>>

(* The client closes the file, whose number may be used for another one.   *)
Close(f) ==
    /\ interest' = [interest EXCEPT ![f] = NoEntry]
    /\ ready' = RemoveFirst(ready, f)
    /\ pending' = [pending EXCEPT ![f] = {}]
    /\ note' = [h \in Hook |-> IF interest[f].hook = h /\ note[h] = "none"
                               THEN "mute" ELSE note[h]]
    /\ UNCHANGED <<ctx, hook, owned, table, th, reg>>

----------------------------------------------------------------------------
(* The mutant without a case for ALL, which becomes a flag of its own.     *)
EpollDefineNoAll(op) == {op}

(* Flags: _eh_op_to_epoll_define and _get_epoll_flags.                     *)
EpollDefine(op) == IF op = ALL THEN Event ELSE {op}
EpollFlags(set) == UNION {EpollDefine(op) : op \in set}

Serial     == ~ctx.oneshot
InCallback == {t \in Thread : th[t].pc \in {"inAll", "inOp"}}
Busy(h)    == \E t \in Thread : th[t].hook = h

(* Where the client's code runs.                                           *)
MayCall ==
    /\ reg = NoReg
    /\ Serial => \A t \in Thread : th[t] = Out \/ t \in InCallback

(* eh_ctx_alloc.                                                           *)
CtxAlloc(threaded, oneshot) ==
    /\ ~ctx.alive
    /\ ctx' = [alive |-> TRUE, threaded |-> threaded, oneshot |-> oneshot]
    /\ UNCHANGED <<mem, table, kernel, th, reg>>

(* eh_ctx_cleanup: the epoll fd is closed, and with it the interest list;  *)
(* then every hook of the table is cleaned up.                             *)
CtxCleanup ==
    LET stored == Range(table) \ {NoHook}
    IN  /\ ctx.alive /\ reg = NoReg
        /\ \A t \in Thread : th[t] = Out
        /\ \A h \in live : note[h] # "failed"
        /\ ctx' = [alive |-> FALSE, threaded |-> FALSE, oneshot |-> FALSE]
        /\ hook' = [h \in Hook |-> IF h \in stored THEN Freed ELSE hook[h]]
        /\ owned' = owned \ stored
        /\ table' = [f \in Fd |-> NoHook]
        /\ note' = [h \in Hook |-> IF h \in stored THEN "none" ELSE note[h]]
        /\ interest' = [f \in Fd |-> NoEntry] /\ ready' = << >>
        /\ UNCHANGED <<pending, th, reg>>

(* eh_hook_alloc.                                                          *)
HookAlloc(h, d) ==
    /\ MayCall /\ h \notin live
    /\ hook' = [hook EXCEPT ![h] = d]
    /\ UNCHANGED <<ctx, owned, note, table, kernel, th, reg>>

(* eh_ctx_unreg_hook of a hook whose owner is ctx, and the free that       *)
(* eh_hook_cleanup adds to it.                                             *)
Unreg(h, f) ==
    /\ owned' = owned \ {h}
    /\ EpollDel(f)
    /\ table' = [table EXCEPT ![f] = NoHook]

UnregIfOwned(h) ==
    IF h \in owned THEN Unreg(h, fd(h)) ELSE UNCHANGED <<owned, table, kernel>>

(* The mutant that frees the hook and leaves it registered.                *)
CleanupFreesOnly(h) ==
    hook' = [hook EXCEPT ![h] = Freed] /\ UNCHANGED <<owned, table, kernel>>

Cleanup(h) == UnregIfOwned(h) /\ hook' = [hook EXCEPT ![h] = Freed]

GivenUp(h) == note' = [note EXCEPT ![h] = "none"]

(* The client's eh_ctx_unreg_hook and eh_hook_cleanup.                     *)
CtxUnregHook(h) ==
    /\ MayCall /\ h \in live \cap owned /\ ~Busy(h)
    /\ Unreg(h, fd(h)) /\ GivenUp(h)
    /\ UNCHANGED <<ctx, hook, th, reg>>

HookCleanup(h) ==
    /\ MayCall /\ h \in live /\ ~Busy(h)
    /\ Cleanup(h) /\ GivenUp(h)
    /\ UNCHANGED <<ctx, th, reg>>

----------------------------------------------------------------------------
(* eh_ctx_reg_hook.  Its first half sets the owner and adds the fd, which  *)
(* may fail (the fd is closed or is on the list already, or no memory) and *)
(* leaves the owner set; the second half stores the hook in the table.     *)
(* auto tells eh_ctx_hook_alloc, which cleans up the hook when either      *)
(* fails, from the client's own call.                                      *)

(* The mutant without the look-up of the fd in the table.                  *)
MayRegTwice(h, f) ==
    /\ MayCall /\ ctx.alive
    /\ h \notin owned /\ ~Busy(h)
    /\ \A g \in live : fd(g) = f => note[g] # "failed"

MayReg(h, f) ==
    /\ MayCall /\ ctx.alive
    /\ h \notin owned /\ ~Busy(h)
    /\ table[f] = NoHook
    /\ \A g \in live : fd(g) = f => note[g] # "failed"

(* The mutant that forgets EPOLLONESHOT.                                   *)
RegAddManyShots(h, d, auto) ==
    /\ interest[d.fd] = NoEntry
    /\ owned' = owned \cup {h}
    /\ EpollPut(d.fd, h, EpollFlags(d.ops), ctx.threaded, FALSE)
    /\ reg' = [hook |-> h, auto |-> auto]

RegAdd(h, d, auto) ==
    /\ interest[d.fd] = NoEntry
    /\ owned' = owned \cup {h}
    /\ EpollPut(d.fd, h, EpollFlags(d.ops), ctx.threaded, ctx.oneshot)
    /\ reg' = [hook |-> h, auto |-> auto]

CtxRegHook(h) ==
    /\ h \in live /\ MayReg(h, fd(h))
    /\ \/ RegAdd(h, hook[h], FALSE) /\ UNCHANGED note
       \/ /\ owned' = owned \cup {h}
          /\ note' = [note EXCEPT ![h] = "failed"]
          /\ UNCHANGED <<kernel, reg>>
    /\ UNCHANGED <<ctx, hook, table, th>>

(* When ADD fails here, eh_hook_cleanup unregisters the new hook, whose    *)
(* owner is set, and frees it.                                             *)
CtxHookAlloc(h, d) ==
    /\ h \notin live /\ MayReg(h, d.fd)
    /\ \/ /\ RegAdd(h, d, TRUE)
          /\ hook' = [hook EXCEPT ![h] = d]
          /\ UNCHANGED table
       \/ Unreg(h, d.fd) /\ UNCHANGED <<hook, reg>>
    /\ UNCHANGED <<ctx, note, th>>

RegSet ==
    /\ reg # NoReg
    /\ table' = [table EXCEPT ![fd(reg.hook)] = reg.hook]
    /\ reg' = NoReg
    /\ UNCHANGED <<ctx, mem, kernel, th>>

RegSetFails ==
    /\ reg # NoReg /\ ~Busy(reg.hook)
    /\ \/ reg.auto /\ Cleanup(reg.hook) /\ UNCHANGED note
       \/ /\ ~reg.auto
          /\ note' = [note EXCEPT ![reg.hook] = "failed"]
          /\ UNCHANGED <<hook, owned, table, kernel>>
    /\ reg' = NoReg
    /\ UNCHANGED <<ctx, th>>

(* eh_hook_mod_set_cbf: a new operation is added to the kernel's entry     *)
(* without the context's flags, which needs the fd on the list; an         *)
(* operation that is cleared stays in the entry.                           *)
ModSetCbf(h, op, fn) ==
    LET more == EpollFlags(ops(h) \cup {op})
    IN  /\ MayCall /\ h \in live \cap owned /\ note[h] # "failed"
        /\ fn # (op \in ops(h))
        /\ IF more = EpollFlags(ops(h))
           THEN UNCHANGED kernel
           ELSE /\ Serial
                /\ interest[fd(h)] # NoEntry
                /\ EpollPut(fd(h), h, more, FALSE, FALSE)
        /\ hook' = [hook EXCEPT ![h].ops = IF fn THEN @ \cup {op} ELSE @ \ {op}]
        /\ UNCHANGED <<ctx, owned, note, table, th, reg>>

----------------------------------------------------------------------------
(* eh_ctx_wait.  epoll_wait is asked for one event whatever max_events is. *)
(* It takes fds off the ready list until one has something to report; a    *)
(* one-shot entry is disabled, a level-triggered one goes to the end.  The *)
(* callback for ALL, if there is one, is called first, with new_events.    *)
EpollWait(t) ==
    LET f     == Head(ready)
        e     == interest[f]
        keep  == Visible(f) # {} /\ ~e.et /\ ~e.oneshot
        toAll == ALL \in ops(e.hook)
    IN  /\ th[t] = Out /\ ctx.alive /\ ready # << >>
        /\ Serial => reg = NoReg /\ \A u \in Thread : th[u] = Out
        /\ ready' = IF keep THEN Append(Tail(ready), f) ELSE Tail(ready)
        /\ IF Visible(f) = {}
           THEN UNCHANGED <<th, interest>>
           ELSE /\ th' = [th EXCEPT ![t] =
                             [pc     |-> IF toAll THEN "inAll" ELSE "ops",
                              hook   |-> e.hook,
                              new    |-> IF toAll THEN {} ELSE Visible(f),
                              j      |-> 0,
                              hangup |-> HUP \in Visible(f)]]
                /\ interest' = IF e.oneshot
                               THEN [interest EXCEPT ![f].events = {}]
                               ELSE interest
        /\ UNCHANGED <<ctx, mem, table, pending, reg>>

(* The operations whose callbacks are still to be called, and the first.   *)
Due(t) == th[t].new \cap ops(th[t].hook)

CallOp(t) ==
    /\ th[t].pc = "ops" /\ Due(t) # {}
    /\ th' = [th EXCEPT ![t].pc = "inOp", ![t].new = {}, ![t].j = Min(Due(t))]
    /\ UNCHANGED <<ctx, mem, table, kernel, reg>>

(* A dispatch that ends without re-arming.                                 *)
Muted(h) ==
    note' = IF ctx.oneshot /\ note[h] = "none" THEN [note EXCEPT ![h] = "mute"] ELSE note

(* The mutant whose loop calls the same operation again.                   *)
AfterSame(t) == IF th[t].pc = "inAll" THEN Event ELSE th[t].j .. HUP

(* A callback returns, having set new_events as it likes: more than 0 goes *)
(* on with the operations after this one, 0 from an operation ends the     *)
(* loop over them, 0 from ALL and less than 0 end the dispatch.            *)
After(t) == IF th[t].pc = "inAll" THEN Event ELSE th[t].j + 1 .. HUP

Return(t) ==
    /\ t \in InCallback
    /\ \E new \in SUBSET After(t) :
          th' = [th EXCEPT ![t].pc = "ops", ![t].new = new, ![t].j = 0]
    /\ UNCHANGED <<ctx, mem, table, kernel, reg>>

ReturnEnds(t) ==
    /\ t \in InCallback
    /\ th' = [th EXCEPT ![t] = Out]
    /\ Muted(th[t].hook)
    /\ UNCHANGED <<ctx, hook, owned, table, kernel, reg>>

(* A callback gives its hook up and returns so that the dispatch ends.     *)
CallbackGivesUp(t) ==
    LET h == th[t].hook
    IN  /\ t \in InCallback /\ reg = NoReg
        /\ \A u \in Thread \ {t} : th[u].hook # h
        /\ \/ Cleanup(h)
           \/ UnregIfOwned(h) /\ UNCHANGED hook
        /\ GivenUp(h)
        /\ th' = [th EXCEPT ![t] = Out]
        /\ UNCHANGED <<ctx, reg>>

(* The mutant that re-arms in threaded contexts only.                      *)
RearmThreaded(h) ==
    IF interest[fd(h)] = NoEntry \/ ~ctx.threaded
    THEN UNCHANGED kernel
    ELSE EpollPut(fd(h), h, EpollFlags(ops(h)), TRUE, TRUE)

(* The end of a dispatch: the hook is unregistered after a hangup, or a    *)
(* one-shot hook is re-armed.  EPOLL_CTL_MOD fails when the fd is not on   *)
(* the list; eh_ctx_wait then returns -1.                                  *)
Rearm(h) ==
    IF interest[fd(h)] = NoEntry
    THEN UNCHANGED kernel
    ELSE EpollPut(fd(h), h, EpollFlags(ops(h)), ctx.threaded, TRUE)

EndDispatch(t) ==
    LET h == th[t].hook
    IN  /\ th[t].pc = "ops" /\ Due(t) = {}
        /\ CASE th[t].hangup /\ ~ctx.oneshot -> UnregIfOwned(h) /\ GivenUp(h)
             [] th[t].hangup /\ ctx.oneshot ->
                    Muted(h) /\ UNCHANGED <<owned, table, kernel>>
             [] ~th[t].hangup /\ ctx.oneshot ->
                    Rearm(h) /\ UNCHANGED <<owned, note, table>>
             [] OTHER -> UNCHANGED <<owned, note, table, kernel>>
        /\ th' = [th EXCEPT ![t] = Out]
        /\ UNCHANGED <<ctx, hook, reg>>

Dispatch(t) ==
    CallOp(t) \/ Return(t) \/ ReturnEnds(t) \/ EndDispatch(t)

----------------------------------------------------------------------------
Client ==
    \/ \E a, b \in BOOLEAN : CtxAlloc(a, b)
    \/ CtxCleanup
    \/ \E h \in Hook :
          \/ \E d \in NewChoice[h] : HookAlloc(h, d) \/ CtxHookAlloc(h, d)
          \/ CtxUnregHook(h) \/ HookCleanup(h) \/ CtxRegHook(h)
          \/ \E op \in ModChoice[h], fn \in BOOLEAN : ModSetCbf(h, op, fn)
    \/ RegSet \/ RegSetFails

Files ==
    \E f \in Fd : Drain(f) \/ Close(f) \/ \E e \in Happens[f] : Arrive(f, e)

Next ==
    \/ Client
    \/ Files
    \/ \E t \in Thread : EpollWait(t) \/ Dispatch(t) \/ CallbackGivesUp(t)

(* Callbacks and calls return, and the client's threads keep calling       *)
(* eh_ctx_wait.  In a serial context the calls of the client and those of  *)
(* eh_ctx_wait alternate, hence strong fairness.                           *)
Spec ==
    /\ Init /\ [][Next]_vars
    /\ SF_vars(\E t \in Thread : EpollWait(t))
    /\ \A t \in Thread : WF_vars(Dispatch(t))
    /\ WF_vars(RegSet \/ RegSetFails)

----------------------------------------------------------------------------
(* Properties.                                                             *)

(* Memory safety: what the kernel, the table and a dispatch point to is    *)
(* never a hook that eh_hook_cleanup has freed.                            *)
NoDangling ==
    /\ \A f \in Fd : interest[f].hook \in live \cup {NoHook}
                   /\ table[f] \in live \cup {NoHook}
    /\ \A t \in Thread : th[t].hook \in live \cup {NoHook}

(* Owner, table and kernel agree: an owned hook has its context and is the *)
(* hook of its fd in the table, unless its registration is under way or    *)
(* failed; a hook in the table or on the interest list is owned, and is    *)
(* there under its own fd.  A failed eh_ctx_reg_hook and its clean-up take *)
(* no other hook's registration away.                                      *)
Registered ==
    /\ owned # {} => ctx.alive
    /\ \A h \in owned : note[h] = "failed" \/ reg.hook = h \/ table[fd(h)] = h
    /\ \A f \in Fd : \A h \in {table[f], interest[f].hook} \ {NoHook} :
          h \in owned /\ fd(h) = f

(* EPOLLONESHOT serialises: no two threads dispatch the same hook.         *)
OneAtATime ==
    \A t, u \in Thread : t # u /\ th[t].hook = th[u].hook => th[t].hook = NoHook

(* A registered hook hears of every operation it has a callback for, as    *)
(* long as neither a callback's answer, a hangup nor the closing of its    *)
(* file has silenced it: each return path of a one-shot dispatch re-arms.  *)
NeverSilenced ==
    \A h \in owned :
        \/ note[h] # "none"
        \/ ctx.oneshot /\ Busy(h)
        \/ /\ interest[fd(h)].hook = h
           /\ EpollFlags(ops(h)) \subseteq interest[fd(h)].events

(* A hook whose fd is ready is dispatched, although eh_ctx_wait takes one  *)
(* event at a time, unless the event goes away first.                      *)
ReadyServed ==
    \A f \in Fd :
        LET waiting == f \in Range(ready) /\ Visible(f) # {}
        IN  waiting ~> (~waiting \/ Busy(interest[f].hook))
=============================================================================
