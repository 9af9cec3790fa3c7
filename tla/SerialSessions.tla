---------------------------- MODULE SerialSessions ----------------------------
(***************************************************************************)
(* What the per-session lock of api-service is for: the turns of one       *)
(* session run one at a time, each on the history its predecessor left.    *)
(* A turn that begins sees the stored turns, and when it is stored nothing *)
(* has been stored in between.  Turns that fail, or whose client leaves,   *)
(* are not stored.                                                         *)
(***************************************************************************)
EXTENDS Naturals, Sequences

CONSTANTS Session, Turn, SessionOf, HistoryTurns, NoTurn

VARIABLES
    turns,      \* the stored turns of each session, oldest first
    active,     \* the turn under way in each session
    view        \* the history the turn under way was given

svars == <<turns, active, view>>

(* The last n members of s.                                                *)
LastOf(s, n) ==
    IF Len(s) <= n THEN s ELSE SubSeq(s, Len(s) - n + 1, Len(s))

Init ==
    /\ turns = [s \in Session |-> << >>]
    /\ active = [s \in Session |-> NoTurn]
    /\ view = [s \in Session |-> << >>]

Begin(t) ==
    LET s == SessionOf[t] IN
    /\ active[s] = NoTurn
    /\ active' = [active EXCEPT ![s] = t]
    /\ view' = [view EXCEPT ![s] = turns[s]]
    /\ UNCHANGED turns

Commit(t) ==
    LET s == SessionOf[t] IN
    /\ active[s] = t
    /\ view[s] = turns[s]
    /\ turns' = [turns EXCEPT ![s] = LastOf(Append(@, t), HistoryTurns)]
    /\ active' = [active EXCEPT ![s] = NoTurn]
    /\ view' = [view EXCEPT ![s] = << >>]

(* The turns under way in the sessions of S end without being stored: one  *)
(* of them alone, or all of them when the process dies.                    *)
Abort(S) ==
    /\ \E s \in S : active[s] # NoTurn
    /\ active' = [s \in Session |-> IF s \in S THEN NoTurn ELSE active[s]]
    /\ view' = [s \in Session |-> IF s \in S THEN << >> ELSE view[s]]
    /\ UNCHANGED turns

Next ==
    \/ \E t \in Turn : Begin(t) \/ Commit(t)
    \/ \E S \in SUBSET Session : Abort(S)

Spec == Init /\ [][Next]_svars
=============================================================================
