---------------------------- MODULE MCSessionTurns ----------------------------
(* Four requests of two sessions for TLC.                                  *)
EXTENDS SessionTurns, TLC

CONSTANTS s1, s2, a1, a2, a3, b1

MCSessionOf == a1 :> s1 @@ a2 :> s1 @@ a3 :> s1 @@ b1 :> s2
=============================================================================
