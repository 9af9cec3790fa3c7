------------------------------- MODULE Backlog -------------------------------
(***************************************************************************)
(* ModelBacklog of api-service: what happened in the turns of a session, one  *)
(* record appended after the other to a file of the session, each over       *)
(* several lines and followed by a separator; and what is read back when a    *)
(* write was cut short.  Two sessions whose names differ in a separator of    *)
(* paths share a file.                                                       *)
(*                                                                          *)
(* A disk is a function from the paths that exist to what is in the file, a   *)
(* sequence of marks: a record, part of one, or the separator.               *)
(***************************************************************************)
EXTENDS Naturals, Sequences, FiniteSets, SequencesExt

\* A record: its event, for a language-model call whether it was "ok", and
\* whether there is a list among its data.
Record == [event : {"turn_start", "tool_call", "tool_result", "error", "llm_call"},
           status : {"ok", "failed"}, list : BOOLEAN]
\* What became of a write: all of it, the record without the separator, the
\* record up to after its list, or less.
Outcome == {"whole", "bare", "late", "early"}

Sep == [is |-> "sep"]
Junk == [event |-> "junk"]      \* a value that is no record
NoFile == <<>>

\* A session's name is a sequence of characters.
Path(session) == [i \in DOMAIN session |-> IF session[i] \in {"/", "\\", ":"} THEN "_" ELSE session[i]]

ShouldWrite(mode, r) == mode = "full" \/ (mode = "errors" /\ r.event = "error")

\* What a write leaves in the file.
Mark(r, outcome) == [is |-> IF outcome \in {"whole", "bare"} THEN "record" ELSE outcome, rec |-> r]
SeparatorFirst(r, outcome) ==                       \* mutant
    IF outcome = "whole" THEN <<Sep, Mark(r, outcome)>> ELSE <<Sep, Mark(r, "early")>>
Appended(r, outcome) ==
    IF outcome = "whole" THEN <<Mark(r, outcome), Sep>> ELSE <<Mark(r, outcome)>>

\* open(path, "a"): the file is made by the first write to it.
Write(mode, disk, w) ==
    IF ~ShouldWrite(mode, w.rec) THEN disk
    ELSE LET p == Path(w.session)
             old == IF p \in DOMAIN disk THEN disk[p] ELSE <<>>
         IN  [q \in DOMAIN disk \cup {p} |->
                IF q = p THEN old \o Appended(w.rec, w.outcome) ELSE disk[q]]

Empty == [p \in {} |-> <<>>]
Written(mode, writes) == FoldLeft(LAMBDA d, w : Write(mode, d, w), Empty, writes)

\* The parts between separators.
Parts(content) ==
    LET Add(a, m) == IF m = Sep THEN [done |-> Append(a.done, a.part), part |-> <<>>]
                     ELSE [a EXCEPT !.part = Append(@, m)]
        a == FoldLeft(Add, [done |-> <<>>, part |-> <<>>], content)
    IN  Append(a.done, a.part)

\* A part that is one record is read; any other is taken line by line, and the
\* last element of a list stands alone on its line.
ReadPart(part) ==
    IF Len(part) = 1 /\ part[1].is = "record" THEN <<part[1].rec>>
    ELSE FlattenSeq([i \in DOMAIN part |->
            IF part[i].rec.list /\ part[i].is # "early" THEN <<Junk>> ELSE <<>>])

ReadRecords(disk, session) ==
    IF Path(session) \notin DOMAIN disk THEN <<>>
    ELSE LET parts == Parts(disk[Path(session)])
         IN  FlattenSeq([i \in DOMAIN parts |-> ReadPart(parts[i])])

ReadSession(disk, session, limit, offset) ==
    SubSeq(ReadRecords(disk, session), offset + 1, offset + limit)

-----------------------------------------------------------------------------
(* What the admin sees.  A value that is no record has no .get: the request  *)
(* fails.                                                                    *)

Fails == [failed |-> TRUE]
IsError(r) == r.event = "error" \/ r.status = "failed"

SessionStats(disk, session) ==
    LET rs == ReadRecords(disk, session) IN
    IF Junk \in ToSet(rs) THEN Fails
    ELSE [failed |-> FALSE,
          calls |-> Len(SelectSeq(rs, LAMBDA r : r.event = "llm_call")),
          errors |-> Len(SelectSeq(rs, IsError))]

\* The error of a failed model call has its text; that of an error record is
\* looked for beside its data and not in it.
RecentErrors(disk, order, limit) ==
    LET all == FlattenSeq([i \in DOMAIN order |-> ReadRecords(disk, order[i])])
        errors == SelectSeq(all, IsError)
    IN  IF Junk \in ToSet(all) THEN Fails
        ELSE [failed |-> FALSE,
              texts |-> [i \in 1 .. (IF Len(errors) < limit THEN Len(errors) ELSE limit) |->
                            IF errors[i].event = "error" THEN "" ELSE "text"]]

\* The sessions are sorted by the time of their first record, which a file
\* with nothing readable in it does not have.
ListSessions(disk) ==
    LET First(p) == ReadRecords(disk, p) IN
    IF \E p \in DOMAIN disk : First(p) = <<>> \/ First(p)[1] = Junk THEN Fails
    ELSE [failed |-> FALSE, sessions |-> DOMAIN disk]

\* Files nobody has written to for backlog_retention_days.
CleanupOld(disk, old) == [p \in DOMAIN disk \ old |-> disk[p]]

-----------------------------------------------------------------------------
(* Properties.                                                              *)

\* A record is read back, in its order, if it was written whole and the write
\* before it to the same file was, so that a write that was cut short costs
\* the session itself and one record more, and nothing else; what is read for
\* a session is what the sessions of its path wrote.
RecordsReadIn(mode, writes) ==
    \A s \in {writes[i].session : i \in DOMAIN writes} :
        LET on == SelectSeq(writes, LAMBDA w : Path(w.session) = Path(s) /\ ShouldWrite(mode, w.rec))
            whole(i) == /\ on[i].outcome = "whole" \/ (on[i].outcome = "bare" /\ i = Len(on))
                        /\ i = 1 \/ on[i - 1].outcome = "whole"
            kept == SelectSeq([i \in DOMAIN on |-> i], whole)
        IN  SelectSeq(ReadRecords(Written(mode, writes), s), LAMBDA r : r # Junk)
                = [k \in DOMAIN kept |-> on[kept[k]].rec]

\* The statistics of a session and the list of sessions can be had as long as
\* no write was cut short; one that was takes the list of all sessions with
\* it when it was the first of its file.
AdminSeesIn(mode, writes) ==
    LET disk == Written(mode, writes)
        cut == \E i \in DOMAIN writes : writes[i].outcome # "whole" /\ ShouldWrite(mode, writes[i].rec)
    IN  ~cut => /\ ~ListSessions(disk).failed
                /\ \A p \in DOMAIN disk : ~SessionStats(disk, p).failed
                /\ ~RecentErrors(disk, SetToSeq(DOMAIN disk), 2).failed
=============================================================================
