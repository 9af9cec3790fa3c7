--------------------------- MODULE MCAbuseControl ---------------------------
(* The environment's settings let chats through, but those of robots; the    *)
(* others let none through: no burst, and no message may be said once.       *)
EXTENDS AbuseControl
MCChat == {"chat", "robot", "novel"}
MCBurst == [x \in Shared |-> IF x = EnvShared THEN 5 ELSE 0]
MCGoodAgent == [x \in Shared |-> IF x = EnvShared THEN MCChat \ {"robot"} ELSE MCChat]
MCShort == [x \in Shared |-> MCChat \ {"novel"}]
MCMaxRepeated == [x \in Repeats |-> IF x = EnvRepeats THEN 3 ELSE 0]
=============================================================================
