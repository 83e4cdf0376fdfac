---------------------------- MODULE MCHttpDecoder ----------------------------
(***************************************************************************)
(* Instances of HttpDecoder for TLC: pairs of requests on one connection.  *)
(***************************************************************************)
EXTENDS HttpDecoder

Field(name, value) == [name |-> name, value |-> value]
Other == Field("other", <<"w">>)
Length(n) == Field("length", <<Digits[n + 1]>>)
Body(n) == [i \in 1 .. n |-> "w"]
Request(lead, eol, fields, body) ==
    [lead |-> lead, eol |-> eol, fields |-> fields, body |-> body]

Short == Request(<<>>, <<"LF">>, <<>>, <<>>)
Spaced == Request(<<"CR", "LF">>, <<"CR", "LF">>, <<Other>>, <<>>)
Empty == Request(<<>>, <<"LF">>, <<Length(0), Other>>, <<>>)
Whole == Request(<<>>, <<"LF">>, <<Other, Length(2)>>, Body(2))
Long == Request(<<"LF">>, <<"CR", "LF">>, <<Length(3)>>, Body(3))
Expected ==
    Request(<<>>, <<"LF">>, <<Field("expect", <<"continue">>), Length(1)>>, Body(1))
Chunks(raw) ==
    Request(<<>>, <<"LF">>, <<Field("encoding", <<"chunked">>)>>, raw)

With(requests, max, capacity) == [requests |-> requests, max |-> max, capacity |-> capacity]

MCSetups ==
    {With(<<p, q>>, 2, 80) : p, q \in {Short, Spaced, Empty, Whole, Long, Expected}}
      \cup {With(<<p>>, 1, 80) : p \in {Whole, Long}}
      \cup {With(<<Long, Short>>, 2, 24)}
      \cup {With(<<Chunks(raw)>>, 2, 80) : raw \in
              { <<"2", "0", "LF", "w", "w", "LF", "1", "LF", "LF">>,
                <<"3", "0", "LF", "w", "w", "w", "LF", "0", "0", "LF", "other", ":", "w", "LF">>,
                <<"0", "LF", "LF">> }}

MCSplitSetups == {With(<<Spaced>>, 2, 80)}
=============================================================================
