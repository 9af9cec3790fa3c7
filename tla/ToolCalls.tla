------------------------------ MODULE ToolCalls ------------------------------
(***************************************************************************)
(* ToolCallParser of api-service: the tool calls in a model's reply, native  *)
(* ones or JSON the model wrote into its text.                              *)
(*                                                                          *)
(* A text is a sequence of pieces, one after the other on lines of their     *)
(* own: words, words or a number in brackets, a JSON object on one line or   *)
(* spread over several, an array of objects.  What the parser cuts out of a  *)
(* text is from the first opening bracket to the last closing one, so it     *)
(* matters in which pieces those are and whether what is between is JSON.    *)
(***************************************************************************)
EXTENDS Naturals, Sequences, SequencesExt

\* An object: where its name is and what it is (NoName: empty), where
\* its arguments are and how they are written, and a list among them: of
\* plain values or of objects that have names themselves.
NoName == ""
Object == [key : {"tool_name", "name", "tool", "function"}, name : STRING,
           args : {"dict", "string", "escaped", "none"},
           list : {"none", "values", "named"}]

\* A piece of a text.  A spread object may be one that wraps others: the value
\* of its key tool_calls is the list items, that of params the one item.
Prose == [is |-> "words"]
Bracketed == [is |-> "bracketed"]       \* [see below]
Footnote == [is |-> "footnote"]         \* [1]
Line(o) == [is |-> "line", items |-> <<o>>]
Spread(o) == [is |-> "spread", items |-> <<o>>]
Array(os) == [is |-> "array", items |-> os]
Wrapper(os) == [is |-> "tool_calls", items |-> os]
Params(o) == [is |-> "params", items |-> <<o>>]

Call(name, args) == [name |-> name, args |-> args]

\* A piece with a square bracket in it, with a brace in it.
Squared(p) ==
    \/ p.is \in {"bracketed", "footnote", "array", "tool_calls"}
    \/ p.is \in {"line", "spread", "params"} /\ p.items[1].list # "none"
Braced(p) == p.is \notin {"words", "bracketed", "footnote"}

Indices(text, Has(_)) == {i \in DOMAIN text : Has(text[i])}

-----------------------------------------------------------------------------

\* parse_tool_arguments: a dict, or a string that is one; anything else is {}.
ParseToolArguments(o) ==
    IF o.args \in {"dict", "string"} THEN "given" ELSE "empty"

ParseItemDirectly(o) == ParseToolArguments(o)       \* mutant
\* Escaped JSON is unescaped first.
ParseItemArguments(o) == IF o.args = "none" THEN "empty" ELSE "given"

Named(items) == SelectSeq(items, LAMBDA o : o.name # NoName)

\* Native calls: the name is function.name, bad arguments are {}.
FromNativeToolCalls(calls) ==
    LET named == Named(calls)
    IN  [i \in DOMAIN named |-> Call(named[i].name, ParseToolArguments(named[i]))]

\* A line that is an object counts when it has one of three keys; the
\* arguments are only looked for beside the name, not under function.
LineCandidates(text) ==
    FlattenSeq([i \in DOMAIN text |->
        IF text[i].is = "line" /\ text[i].items[1].key # "tool"
        THEN text[i].items ELSE <<>>])
LineCall(o) ==
    Call(o.name, IF o.key = "function" THEN "empty" ELSE ParseToolArguments(o))
FromLines(text) ==
    LET named == Named(LineCandidates(text))
    IN  [i \in DOMAIN named |-> LineCall(named[i])]

\* The list an array slice holds: of an array or a wrapper its objects, of
\* any other object the list among its arguments, which is taken for calls,
\* of a footnote a number; words in brackets are no JSON.
NoJSON == [bad |-> TRUE, items |-> <<>>]
InnerObject == [key |-> "name", name |-> "inner", args |-> "none", list |-> "none"]
ListOf(p) ==
    CASE p.is \in {"array", "tool_calls"} -> [bad |-> FALSE, items |-> p.items]
      [] p.is = "bracketed" -> NoJSON
      [] p.is = "footnote" -> [bad |-> FALSE, items |-> <<>>]
      [] p.items[1].list = "named" -> [bad |-> FALSE, items |-> <<InnerObject>>]
      [] OTHER -> [bad |-> FALSE, items |-> <<>>]

\* The object a brace slice holds, as the items to call: a wrapper's, the
\* params, or itself if a key says that it is a call.
ItemsOf(p) ==
    CASE p.is \in {"tool_calls", "params"} -> p.items
      [] p.is = "array" -> IF Len(p.items) = 1 THEN p.items ELSE <<>>
      [] OTHER -> p.items
SingleItems(p) == SelectSeq(ItemsOf(p), LAMBDA o : p.is \in {"tool_calls", "params"} \/ o.key # "tool")

\* From the first bracket to the last: JSON only when they are in one piece.
FirstToLast(at, Of(_), otherwise) ==
    IF at # {} /\ \A i, j \in at : i = j THEN Of(CHOOSE i \in at : TRUE) ELSE otherwise
BraceItems(text) ==
    LET at == Indices(text, Braced)
    IN  FirstToLast(at, LAMBDA i : SingleItems(text[i]), <<>>)
SquareList(text) ==
    LET at == Indices(text, Squared)
    IN  FirstToLast(at, LAMBDA i : ListOf(text[i]), NoJSON)

\* The array first; an object only when there is no array in the text, or
\* what is between the square brackets is no JSON.
PlainItems(text) ==
    IF SquareList(text).bad THEN BraceItems(text) ELSE SquareList(text).items

PlainCalls(text) ==
    LET named == Named(PlainItems(text))
    IN  [i \in DOMAIN named |-> Call(named[i].name, ParseItemArguments(named[i]))]

ExtractJsonToolCalls(text) ==
    IF FromLines(text) # <<>> THEN FromLines(text) ELSE PlainCalls(text)

ExtractToolCalls(native, text) ==
    IF native # <<>> THEN FromNativeToolCalls(native) ELSE ExtractJsonToolCalls(text)

\* LLMStage's net under the parser: a text that opens like JSON and has both
\* words in it, or speaks of tool_calls, is blocked and not shown.
Mentions(o, word) ==
    CASE word = "name" -> o.key # "tool" \/ o.list = "named"
      [] word = "arguments" -> o.args # "none"
Somewhere(text, word) ==
    \E i \in Indices(text, Braced) : \E k \in DOMAIN text[i].items :
        Mentions(text[i].items[k], word)
LooksLikeRawJson(text) ==
    \/ /\ text # <<>> /\ text[1].is # "words"
       /\ Somewhere(text, "name") /\ Somewhere(text, "arguments")
    \/ \E i \in DOMAIN text : text[i].is = "tool_calls"

-----------------------------------------------------------------------------
(* What the model meant: every object it wrote as a call, in order.         *)

MeantObjects(text) ==
    Named(FlattenSeq([i \in DOMAIN text |-> IF Braced(text[i]) THEN text[i].items ELSE <<>>]))
Meant(text) ==
    LET os == MeantObjects(text)
    IN  [i \in DOMAIN os |-> Call(os[i].name, IF os[i].args = "none" THEN "empty" ELSE "given")]

Names(calls) == [i \in DOMAIN calls |-> calls[i].name]

\* The forms ToolCallParser says it supports, one of them in a reply: lines
\* that are objects; one array, wrapper or object spread over lines, with
\* words around it but no brackets, and no list among an object's arguments.
OneForm(text) ==
    LET json == Indices(text, Braced) IN
    \/ \A i \in DOMAIN text : Braced(text[i]) => text[i].is = "line" /\ text[i].items[1].key # "tool"
    \/ /\ \A i, j \in json : i = j
       /\ \A i \in DOMAIN text : text[i].is \notin {"bracketed", "footnote"}
       /\ \A i \in json :
             text[i].is \in {"line", "spread", "params"} =>
                /\ text[i].items[1].list = "none"
                /\ text[i].is # "params" => text[i].items[1].key # "tool"

\* s is what is left of t when some elements are taken out.
LeftOf(s, t) ==
    Len(s) = FoldLeft(LAMBDA k, x : IF k < Len(s) /\ s[k + 1] = x THEN k + 1 ELSE k, 0, t)

\* In a reply of a supported form every call is found, in its order; in any
\* other reply calls may be missed but none is made up, except out of a list
\* of named objects among the arguments of one.
CallsFoundIn(text) ==
    LET found == Names(ExtractJsonToolCalls(text)) IN
    /\ OneForm(text) => found = Names(Meant(text))
    /\ (\A i \in DOMAIN text : Braced(text[i]) => \A k \in DOMAIN text[i].items : text[i].items[k].list # "named")
          => LeftOf(found, Names(Meant(text)))

\* A call found is given the arguments that were written for it, except that
\* a line of OpenAI's form, or with escaped arguments, is called with none.
ArgumentsKeptIn(text) ==
    OneForm(text) =>
        LET os == MeantObjects(text)  found == ExtractJsonToolCalls(text) IN
        \A i \in DOMAIN found :
            \/ found[i] = Meant(text)[i]
            \/ \E k \in DOMAIN text : text[k].is = "line" /\ text[k].items = <<os[i]>>
                                      /\ (os[i].key = "function" \/ os[i].args = "escaped")

\* A reply that opens with a call the model meant is called or blocked, never
\* shown, unless the call says tool for its name or has no arguments.
NotShownIn(text) ==
    LET opens == text # <<>> /\ Braced(text[1])
                 /\ \E o \in ToSet(text[1].items) :
                       o.name # NoName /\ o.key # "tool" /\ o.args # "none"
    IN  opens => ExtractJsonToolCalls(text) # <<>> \/ LooksLikeRawJson(text)
=============================================================================
