---------------------------- MODULE MCWsPayload -----------------------------
EXTENDS WsPayload

\* Well-formed texts, with code points of one to four bytes, and texts that
\* are malformed in each of the ways the validator tells apart.
Good == {<<65, 194, 128>>, <<224, 160, 129, 66>>, <<65, 66, 240, 144, 128, 129>>}
Bad == {<<65, 192, 129, 66, 67>>, <<193, 128>>, <<128, 65>>, <<65, 195>>,
        <<237, 160, 128>>, <<65, 226, 130>>, <<240, 143, 128, 129>>,
        <<244, 143, 128, 65>>, <<245, 128>>, <<225, 65, 66, 67>>}

Halves(s) == <<SubSeq(s, 1, 2), SubSeq(s, 3, Len(s))>>
Dynamics == {NewStreambuf(2), NewStatic(4), NewAdapter(<<1, 2, 1>>)}

Mixed ==
  {[msgs |-> <<Halves(t)>>, buf |-> NewStreambuf(2), cap |-> c, mode |-> "sync"] :
     t \in Good \cup Bad, c \in {0, 3}}
  \cup
  {[msgs |-> <<Halves(t), Halves(<<65, 66>>)>>, buf |-> b, cap |-> 2, mode |-> "async"] :
     t \in {<<65, 194, 128>>, <<65, 66, 226, 130>>, <<65, 66, 240, 144, 128, 129>>},
     b \in Dynamics}
=============================================================================
