--------------------------- MODULE MCHttpExchange ---------------------------
(* Messages for HttpExchange: one for each way a message can be framed, be  *)
(* empty, be odd or be wrong.                                               *)
EXTENDS HttpExchange

Msg(by, version, status, user, opt, known, pieces, trailers) ==
  [request |-> FALSE, by |-> by, version |-> version, status |-> status, user |-> user,
   opt |-> opt, known |-> known, pieces |-> pieces, trailers |-> trailers]

X == F(<<"x">>, <<"x">>)
Ours(version, status, opt, known, pieces) == Msg("beast", version, status, <<>>, opt, known, pieces, <<>>)
Theirs(version, status, user, pieces, trailers) ==
  Msg("other", version, status, user, "none", TRUE, pieces, trailers)

Plain == Ours("HTTP/1.1", "200", "none", TRUE, <<1>>)
RequestMsg(method, pieces) == [Ours("HTTP/1.1", method, "none", TRUE, pieces) EXCEPT !.request = TRUE]
Post == RequestMsg("POST", <<2>>)
CL(n) == F(ContentLength, <<Digit(n)>>)
TE(v) == F(TransferEncoding, v)
Con(v) == F(Connection, v)

Singles ==
  { Ours(v, st, opt, known, pieces) :
      v \in Versions, st \in {"200", "204"}, opt \in {"none", "close"},
      known \in BOOLEAN, pieces \in {<<0>>} }
  \cup { Ours(v, "200", opt, known, <<2>>) :
      v \in Versions, opt \in {"none", "close"}, known \in BOOLEAN }
  \cup { Ours("HTTP/1.1", "200", "none", FALSE, <<1, 2>>),
         Ours("HTTP/1.1", "200", "none", FALSE, <<1, 0, 1>>),
         Ours("HTTP/1.0", "200", "none", FALSE, <<1, 1>>) }
  \cup { Theirs("HTTP/1.1", "304", <<CL(2)>>, <<0>>, <<>>),
         Theirs("HTTP/1.1", "200", <<CL(1), F(<<"c", "ontent-length", "x">>, <<"1">>)>>, <<1>>, <<>>) }

Pairs ==
  { <<d, Plain>> : d \in
      { Plain, Post, RequestMsg("POST", <<0>>), RequestMsg("GET", <<0>>),
        Ours("HTTP/1.0", "200", "keep_alive", TRUE, <<2>>),
        Ours("HTTP/1.1", "200", "none", FALSE, <<2>>),
        Ours("HTTP/1.1", "200", "close", TRUE, <<1>>),
        Msg("beast", "HTTP/1.1", "101", <<F(Upgrade, <<"x">>)>>, "upgrade", TRUE, <<0>>, <<>>),
        Theirs("HTTP/1.1", "200", <<TE(Chunked)>>, <<1>>, <<X, F(<<"x">>, <<>>)>>),
        Theirs("HTTP/1.1", "200", <<CL(0), F(<<"x">>, <<"x", "CR", "LF", "SP", "c">>)>>, <<0>>, <<>>),
        Theirs("HTTP/1.1", "200", <<F(<<"x">>, <<"CR", "LF", "SP">>), CL(1)>>, <<1>>, <<>>),
        Theirs("HTTP/1.1", "200", <<TE(<<"x", ",", "SP", "c", "hunked">>)>>, <<1>>, <<X>>),
        Theirs("HTTP/1.1", "200", <<Con(<<"x", ",", "c", "lose">>), CL(1)>>, <<1>>, <<>>),
        Theirs("HTTP/1.1", "200", <<Con(<<"c", ",", "c", "lose">>), CL(1)>>, <<1>>, <<>>),
        Theirs("HTTP/1.1", "200", <<Con(<<"c", ",", "SP", "c", "lose">>), CL(1)>>, <<1>>, <<>>),
        Theirs("HTTP/1.0", "200", <<Con(<<"k", "eep-alive", "SP">>), CL(1)>>, <<1>>, <<>>),
        Theirs("HTTP/1.1", "200", <<F(<<"x">>, [i \in 1..9 |-> "x"]), CL(1)>>, <<1>>, <<>>) } }

Cases == { <<d>> : d \in Singles } \cup Pairs
=============================================================================
