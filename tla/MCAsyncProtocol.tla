--------------------------- MODULE MCAsyncProtocol ---------------------------
(* TLC instance: the second of three parties; both peers take part, the    *)
(* first is also in another signing.                                       *)
EXTENDS AsyncProtocolProps
MCStreams == {<<1, "this">>, <<3, "this">>, <<1, "other">>}
=============================================================================
