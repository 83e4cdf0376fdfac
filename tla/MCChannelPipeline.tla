------------------------- MODULE MCChannelPipeline -------------------------
(***************************************************************************)
(* Instances of ChannelPipeline for TLC: from an empty pipeline, from one  *)
(* handler and from three of mixed directions, so that first, middle, last *)
(* and only handlers are all modified while an event travels.              *)
(***************************************************************************)
EXTENDS ChannelPipeline

CONSTANTS na, nb, nc

Down == {"down"}
Both == {"up", "down"}

MCKinds == {Down, Both}
Handler(n, kind) == [name |-> n, kind |-> kind]
MCBuilt == { <<>>,
             <<Handler(na, Both)>>,
             <<Handler(na, Both), Handler(nb, Both), Handler(nc, Down)>> }

(* Two handlers: removing the second leaves the link of the first.          *)
MCTwoHandlers == {<<Handler(na, Both), Handler(nb, Both)>>}
=============================================================================
