----------------------------- MODULE MCTimeouts -----------------------------
(***************************************************************************)
(* Instances of Timeouts for TLC.  Times are configured in half            *)
(* milliseconds; 1 is a time that the constructors round.                  *)
(***************************************************************************)
EXTENDS Timeouts, TLC

Times(r, w, a, t) ==
    ("reader" :> r) @@ ("writer" :> w) @@ ("all" :> a) @@ ("readTimeout" :> t)

MCConfigured == { Times(4, 0, 0, 6),     \* both handlers watch the reads
                  Times(0, 4, 6, 0),     \* writes, and both directions
                  Times(0, 0, 5, 1) }    \* times that are not whole milliseconds
=============================================================================
