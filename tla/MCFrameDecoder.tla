-------------------------- MODULE MCFrameDecoder --------------------------
(***************************************************************************)
(* Instances of FrameDecoder for TLC.  Every stream over a content byte    *)
(* and the two delimiter bytes 8 and 9 is considered, for every way to cut *)
(* it into reads; 8 9 plays the part of CR LF.                             *)
(***************************************************************************)
EXTENDS FrameDecoder

CONSTANT MaxStream    \* bound: the length of the streams

Fixed(n) == [kind |-> "fixed", length |-> n]
Delimited(ds, strip, max) ==
    [kind |-> "delimiter", delimiters |-> ds, strip |-> strip, max |-> max]
Prefixed(offset, width, adjust, strip, max) ==
    [kind |-> "length", offset |-> offset, width |-> width, adjust |-> adjust,
     strip |-> strip, max |-> max]

Lines == <<<<8, 9>>, <<9>>>>                       \* Delimiters::lineDelimiter
Streams(n) == [1 .. n -> {1, 8, 9}]
Longer == {<<1, 8, 9, 9, 1, 8, 8, 9>>, <<1, 1, 1, 8, 9, 1, 1, 8, 9>>}

With(codecs, streams, sizes) ==
    [codec : codecs, own : BOOLEAN, capacity : sizes, stream : streams]

MCSetups ==
    UNION { With({Fixed(2), Fixed(3)}, {[i \in 1 .. 7 |-> i]}, {7}),
            With({Delimited(<<<<8>>, <<9>>>>, TRUE, 2)}, Streams(MaxStream), {MaxStream}),
            With({Delimited(Lines, TRUE, 9), Delimited(Lines, FALSE, 9)},
                 Streams(MaxStream - 1) \cup Longer, {9}),
            With({Delimited(Lines, TRUE, 2)}, Longer, {9}),
            With({Delimited(Lines, TRUE, 9)}, Longer, {5}),
            With({Prefixed(0, 1, 0, 1, 5)}, {<<2, 7, 7, 0, 1, 7>>}, {6}) }

MCGarbage == {-1, 0, 3}
=============================================================================
