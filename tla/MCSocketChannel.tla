-------------------------- MODULE MCSocketChannel --------------------------
(***************************************************************************)
(* Instances of SocketChannel for TLC.  Low is 2 and High is 4, so that    *)
(* writes of 2 and 3 bytes meet both marks exactly and pass over them.     *)
(***************************************************************************)
EXTENDS SocketChannel, TLC

CONSTANTS w1, w2, w3

MCSizes == {(w1 :> 2) @@ (w2 :> 2) @@ (w3 :> 1), (w1 :> 3) @@ (w2 :> 0) @@ (w3 :> 2)}
MCFullSizes == {(w1 :> 2) @@ (w2 :> 2) @@ (w3 :> 1)}      \* no empty message

Budget(w, r, t, c, d) ==
    [writes |-> w, reads |-> r, toggles |-> t, closes |-> c, disconnects |-> d]

MCBudgets == { Budget(3, 0, 0, 1, 0),    \* writes and a close
               Budget(2, 1, 0, 0, 1),    \* writes, a message and a disconnect
               Budget(1, 1, 3, 0, 0),    \* suspending and resuming reads
               Budget(0, 1, 1, 1, 1) }   \* reads and closes
=============================================================================
