---------------------------- MODULE MCVoiceChat ----------------------------
(* One request; a remote provider with a key of its own and a local one, in *)
(* either order, on, off and with or without fallback; one agent that may    *)
(* ask for what the settings do not.                                         *)
EXTENDS VoiceChat
P(n, kind, on, key) == [name |-> n, kind |-> kind, enabled |-> on, key |-> key]
Remote == P("remote", "litellm", TRUE, "key")
Masked == P("remote", "litellm", TRUE, "nokey")
Local == P("local", "local", TRUE, "nokey")
Off == P("remote", "litellm", FALSE, "key")
C(on, stt, tts, sf, tf) ==
    [enabled |-> on, stt |-> stt, tts |-> tts, sttFallback |-> sf, ttsFallback |-> tf]
MCDefault == C(TRUE, <<Remote, Local>>, <<Local, Remote>>, TRUE, TRUE)
MCBodies == {C(TRUE, <<Local, Masked>>, <<Off, Local>>, FALSE, TRUE),
             C(TRUE, <<Off, Local>>, <<Masked>>, TRUE, FALSE),
             C(FALSE, <<>>, <<>>, TRUE, TRUE)}
O(on, input, output, sf, tf) ==
    [enabled |-> on, inputDisabled |-> input, outputDisabled |-> output,
     sttFallback |-> sf, ttsFallback |-> tf]
MCOverride == {O({}, FALSE, TRUE, {FALSE}, {}), O({TRUE}, FALSE, FALSE, {}, {TRUE}),
               O({TRUE}, TRUE, FALSE, {}, {})}
=============================================================================
