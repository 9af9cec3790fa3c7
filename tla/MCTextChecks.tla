---------------------------- MODULE MCTextChecks ----------------------------
(* Small inputs of the four kinds.                                          *)
EXTENDS TextChecks
O(key, name, args, list) == [key |-> key, name |-> name, args |-> args, list |-> list]
MCObjects == {O("name", "f", "dict", "none"), O("tool_name", "g", "string", "none"),
              O("function", "f", "dict", "none"), O("function", "g", "escaped", "none"),
              O("tool", "g", "dict", "none"), O("name", "", "dict", "none"),
              O("name", "g", "escaped", "none"), O("name", "f", "none", "none"),
              O("name", "f", "dict", "values"), O("name", "g", "dict", "named")}
MCPairs == {<<O("name", "f", "dict", "none"), O("tool", "g", "string", "none")>>,
            <<O("function", "g", "escaped", "none"), O("name", "f", "dict", "values")>>}
MCPieces == {Prose, Bracketed, Footnote}
    \cup UNION {{Line(o), Spread(o), Params(o), Array(<<o>>)} : o \in MCObjects}
    \cup UNION {{Array(p), Wrapper(p)} : p \in MCPairs}
S(strategy, size, overlap) ==
    [strategy |-> strategy, size |-> size, overlap |-> overlap, tail |-> 1, probe |-> 2]
MCSettings == {S("recursive", 3, 0), S("recursive", 4, 1), S("sentence", 4, 0), S("sentence", 5, 2)}
MCItems == [page : 0 .. 2, text : {<<"x">>, <<"x", "y">>, <<"y", " ", "x">>, <<"X", ".", " ", "Y">>,
                                   <<"x", "y", "x", "y", "y">>, <<>>}]
W(session, event, status, list, outcome) ==
    [session |-> session, outcome |-> outcome,
     rec |-> [event |-> event, status |-> status, list |-> list]]
MCWrites == {W(<<"a", ":">>, "llm_call", "failed", FALSE, o) : o \in Outcome}
    \cup {W(<<"a", "_">>, "tool_call", "ok", TRUE, o) : o \in Outcome}
    \cup {W(<<"b">>, "error", "ok", FALSE, o) : o \in {"whole", "bare", "early"}}
=============================================================================
