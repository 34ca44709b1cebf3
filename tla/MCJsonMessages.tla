---------------------------- MODULE MCJsonMessages ----------------------------
(* A small instance of JsonMessages for TLC: the messages the adapter and  *)
(* its clients write, and values at the limits of the reader.              *)
EXTENDS JsonMessages

Hard == <<"a", Backslash, Quote, "\n", "^A">>
MCTexts == {<<"a">>, <<"arguments">>, Hard, <<"{", Quote, Nul, "a">>, <<>>}
MCDoubles == {<<"1", ".", "5", "e", "+", "2">>, <<"-", "7">>, <<"-", "inf">>}

NoValue == <<"null">>
NamedB == <<"{", " ", Quote, "name", Quote, ":", " ", Quote, "b", Quote, "}">>
Deep == <<"[", "{", "[", Quote, "]", Quote, "[", "]", "]", "}", "]">>
JustText == <<Quote, "name", Backslash, Quote, Quote>>
MCRawValues == {NoValue, NamedB, Deep, JustText}

Call(op, within, key, value) == [op |-> op, within |-> within, key |-> key, value |-> value]
Open(op, within, key) == [op |-> op, within |-> within, key |-> key]

TopCalls ==
    {Call("field", "top", "method", <<"a">>), Call("number", "top", "id", 12),
     Call("number", "top", "id", 13),
     Call("raw", "top", "id", NoValue), Call("raw", "top", "params", JustText),
     Call("double", "top", "id", <<"-", "7">>), Call("raw", "top", "method", JustText),
     Call("raw", "top", "result", Deep), Call("raw", "top", "error", NamedB),
     Call("double", "top", "result", <<"1", ".", "5", "e", "+", "2">>),
     Call("double", "top", "x", <<"-", "inf">>),
     Call("bool", "top", "name", TRUE),
     Open("object", "top", "params"), Open("object", "top", "error"), Open("array", "top", "tools")}
ParamsCalls ==
    {Call("field", "params", "name", Hard), Call("field", "params", "x", <<"arguments">>),
     Call("raw", "params", "arguments", NamedB), Call("number", "params", "name", 1),
     Call("raw", "params", "auth_token", JustText),
     Call("field", "params", "auth_token", <<"{", Quote, Nul, "a">>),
     Open("object", "params", "arguments"), Call("field", "arguments", "name", <<>>),
     Open("object", "arguments", "arguments")}
OtherCalls ==
    {Call("number", "error", "code", -12), Call("number", "error", "code", -13),
     Call("field", "error", "message", Hard),
     [op |-> "element", within |-> "tools", value |-> Hard],
     [op |-> "rawElement", within |-> "tools", value |-> NamedB]}

MCCalls == TopCalls \cup ParamsCalls \cup OtherCalls
=============================================================================
