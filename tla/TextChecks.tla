------------------------------ MODULE TextChecks ------------------------------
(***************************************************************************)
(* The functions of ToolCalls, Chunks and Backlog over every input up to a   *)
(* length: a model's reply grows by a piece, a text by a character, a         *)
(* document by an item, a backlog by a write.  What is under test is chosen   *)
(* at the start, with its settings.                                          *)
(***************************************************************************)
EXTENDS ToolCalls, Chunks, Backlog

CONSTANTS
    Pieces, MaxPieces,          \* of a reply
    Alphabet, MaxText,          \* of a text
    Items, MaxItems,            \* of a document
    Writes, MaxWrites,          \* of a backlog
    ChunkSettings

VARIABLES test, settings, input

Init ==
    /\ input = <<>>
    /\ \/ test = "reply" /\ settings = "none"
       \/ test \in {"text", "document"} /\ settings \in ChunkSettings
       \/ test = "backlog" /\ settings \in {"off", "errors", "full"}

Grow(t, S, max) ==
    /\ test = t /\ Len(input) < max
    /\ \E x \in S : input' = Append(input, x)
    /\ UNCHANGED <<test, settings>>

WritePiece == Grow("reply", Pieces, MaxPieces)
\* Texts are normalised: no two spaces, none at an end.
WriteCharacter ==
    /\ Grow("text", Alphabet, MaxText)
    /\ input'[Len(input')] = " " => input # <<>> /\ Last(input) # " "
AddDocumentItem == Grow("document", Items, MaxItems)
WriteRecord == Grow("backlog", Writes, MaxWrites)

Next == WritePiece \/ WriteCharacter \/ AddDocumentItem \/ WriteRecord
Spec == Init /\ [][Next]_<<test, settings, input>>

\* The calls a model wrote as text are the calls that are made: found in the
\* forms ToolCallParser supports, with their arguments, and never made up; a
\* reply that opens with one is not shown when the parser misses it.
CallsFound ==
    test = "reply" =>
        CallsFoundIn(input) /\ ArgumentsKeptIn(input) /\ NotShownIn(input)

\* No text is lost on its way into chunks that fit their size, and a page's
\* text stays with the page's number.
ChunksKept ==
    /\ test = "text" /\ Strip(input) = input => ChunksFitIn(settings, input)
    /\ test = "document" => PagesKeptIn(settings, input)

\* A write cut short costs a backlog two records at most, and nothing that
\* the admin sees fails without one.
BacklogRead ==
    test = "backlog" => RecordsReadIn(settings, input) /\ AdminSeesIn(settings, input)
=============================================================================
