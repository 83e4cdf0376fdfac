-------------------------- MODULE MCChannelFuture --------------------------
(***************************************************************************)
(* Instances of ChannelFuture for TLC: two threads that may complete the   *)
(* future, two that register listeners and two that wait.  The initial     *)
(* states choose who makes how many calls.                                 *)
(***************************************************************************)
EXTENDS ChannelFuture, TLC

CONSTANTS c1, c2, r1, r2, w1, w2

Budget(c, d, r, q, w, v) ==
    (c1 :> c) @@ (c2 :> d) @@ (r1 :> r) @@ (r2 :> q) @@ (w1 :> w) @@ (w2 :> v)

MCBudgets == { Budget(1, 1, 4, 0, 0, 0),   \* one registrar, long histories
               Budget(1, 1, 2, 1, 0, 0),   \* two registrars
               Budget(2, 1, 2, 0, 0, 0),   \* a completer goes on afterwards
               Budget(1, 1, 0, 0, 2, 0),   \* a waiter that comes back
               Budget(1, 0, 0, 0, 1, 1),   \* two waiters
               Budget(1, 0, 1, 0, 1, 0) }  \* a waiter and a listener
=============================================================================
