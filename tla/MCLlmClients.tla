---------------------------- MODULE MCLlmClients ----------------------------
(* Two chats: two agents with keys of their own for the same kind of        *)
(* provider, an agent with a list of providers, and no agent.               *)
EXTENDS LlmClients, TLC

CONSTANTS openai, groq, a1, a2, a3, k0, k1, k2, x1, x2

MCEnvAtStart == [k \in Kind |-> IF k = openai THEN k0 ELSE NoKey]
MCConfigs == [a \in Agent |-> IF a = a1 THEN [kind |-> openai, key |-> k1]
                              ELSE IF a = a2 THEN [kind |-> openai, key |-> k2]
                              ELSE NoConfig]
MCPriorityOf == [a \in Agent |-> IF a = a3 THEN <<groq, openai>> ELSE << >>]
MCTenantsOf == [a \in Agent \cup {Direct} |->
                 IF a = a1 THEN <<x1, x2>> ELSE IF a = Direct THEN << >> ELSE <<x2>>]

\* The chats are alike, and so are the two encryption keys.
Symmetry ==
    Permutations(Turn) \cup Permutations(Cipher)
=============================================================================
