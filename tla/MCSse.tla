------------------------------- MODULE MCSse -------------------------------
(* Constants of the TLC run of Sse.                                          *)
EXTENDS Sse

SomePayloads == {<<"text">>, <<"", "text">>, <<"text", "">>, <<"text", "more">>}
=============================================================================
