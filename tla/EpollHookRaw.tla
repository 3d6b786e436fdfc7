---------------------------- MODULE EpollHookRaw ----------------------------
(***************************************************************************)
(* EpollHook with callbacks that unregister the hook they were called for  *)
(* and go on: eh_ctx_wait does not look at hook->owner again before it     *)
(* re-arms a one-shot hook.                                                *)
(***************************************************************************)
EXTENDS EpollHook

(* A callback calls eh_ctx_unreg_hook(ctx, hook) and has yet to return.    *)
CallbackUnreg(t) ==
    LET h == th[t].hook
    IN  /\ t \in InCallback /\ reg = NoReg
        /\ h \in owned
        /\ Unreg(h, fd(h)) /\ GivenUp(h)
        /\ UNCHANGED <<ctx, hook, th, reg>>

RawSpec == Init /\ [][Next \/ \E t \in Thread : CallbackUnreg(t)]_vars

----------------------------------------------------------------------------
(* "Unregister this hook from this context (stop waiting for events and    *)
(* deallocate hook)" (epoll_hook.h:65): the kernel's entries belong to     *)
(* registered hooks.  When a callback replaces its hook by another one for *)
(* the same fd, the re-arming after it (epoll_hook.c:137-142) points the   *)
(* new hook's entry at the old hook.                                       *)
UnregisteredIsSilent == \A f \in Fd : interest[f].hook \in owned \cup {NoHook}
=============================================================================
