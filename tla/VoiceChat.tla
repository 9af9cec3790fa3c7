------------------------------ MODULE VoiceChat ------------------------------
(***************************************************************************)
(* POST /api/chat/voice of api-service.  A request's audio is transcribed by *)
(* a chain of speech-to-text providers, the text goes through the chat      *)
(* pipeline (AgentTurn; here only what its stream brings), and the answer    *)
(* may be spoken by a chain of text-to-speech providers.  A provider is a    *)
(* remote API or a process of this host, which reads the recording from a    *)
(* temporary file.  The request works on the settings it read when it came;  *)
(* the admin edits them, and the agents' overrides, meanwhile.               *)
(*                                                                          *)
(* A server that cannot be asked, a process that ends badly or not at all    *)
(* and a client that leaves are choices.  A client that leaves is noticed    *)
(* only once the response streams.                                           *)
(***************************************************************************)
EXTENDS Naturals, Sequences, FiniteSets, SequencesExt

CONSTANTS
    Request,
    Agent, NoAgent,     \* agents; a request that names none
    Name, Key,          \* names of providers and their keys, among which
    NoKey,              \* an entry without api_key
    Default,            \* DEFAULT_VOICE_CONFIG_DICT
    Bodies,             \* what the admin may put; keys may be masked (NoKey)
    Override,           \* VoiceAgentConfig of an agent; {} is a field not set
    NoRow,              \* an agent that is gone
    MaxOps              \* bound: requests of the admin

Provider == [name : Name, kind : {"litellm", "local"}, enabled : BOOLEAN, key : Key]
VoiceConfig == [enabled : BOOLEAN, stt : Seq(Provider), tts : Seq(Provider),
                sttFallback : BOOLEAN, ttsFallback : BOOLEAN]

ASSUME VoiceAssumption ==
    /\ NoKey \in Key
    /\ Default \in VoiceConfig /\ Bodies \subseteq VoiceConfig
    /\ NoAgent \notin Agent /\ NoRow \notin Override /\ MaxOps \in Nat
    /\ \A o \in Override : {o.enabled, o.sttFallback, o.ttsFallback} \subseteq SUBSET BOOLEAN

VARIABLES
    voice,              \* global_config["voice"]
    override,           \* the agents' voice_config
    req,                \* the requests
    files,              \* recordings under /tmp
    procs,              \* processes of local providers that still run
    ops                 \* admin requests so far

voiceVars == <<voice, override, req, files, procs, ops>>

\* What is said of a call: which request's, on which list, its how-manieth.
Call == [of : Request, list : {"stt", "tts"}, at : Nat]

Fresh == [pc |-> "idle", agent |-> NoAgent, config |-> Default, tries |-> <<>>,
          events |-> <<>>, final |-> "", raised |-> FALSE, left |-> FALSE,
          spoken |-> <<>>, abandoned |-> FALSE]
Event == {"token", "tool_call", "tool_result", "final", "error", "audio", "done"}
Requests ==
    [pc : {"idle", "agent", "stt", "hearing", "stream", "tts", "speaking", "ended"},
     agent : Agent \cup {NoAgent}, config : VoiceConfig,
     tries : Seq(Nat),              \* places of the speech-to-text providers asked
     events : Seq(Event),
     final : {"", "text", "blank"}, raised : BOOLEAN, left : BOOLEAN,
     spoken : Seq(Nat),             \* places of the text-to-speech providers asked
     abandoned : BOOLEAN]           \* a call of it timed out or was cancelled

VoiceTypeOK ==
    /\ voice \in VoiceConfig
    /\ override \in [Agent -> Override \cup {NoRow}]
    /\ req \in [Request -> Requests]
    /\ files \subseteq [call : Call, whole : BOOLEAN]
    /\ procs \subseteq Call
    /\ ops \in 0 .. MaxOps

VoiceInit ==
    /\ voice = Default
    /\ override \in [Agent -> Override]
    /\ req = [r \in Request |-> Fresh]
    /\ files = {} /\ procs = {} /\ ops = 0

-----------------------------------------------------------------------------
(* The settings.                                                            *)

\* The current entry an edited one takes its masked fields from: the last of
\* its name.
Previous(p, current) ==
    LET same == {i \in DOMAIN current : current[i].name = p.name}
    IN  IF same = {} THEN p ELSE current[CHOOSE i \in same : \A j \in same : j <= i]
PreserveByPlace(body, current) ==                   \* mutant
    [i \in DOMAIN body |->
        IF body[i].key # NoKey \/ i \notin DOMAIN current THEN body[i]
        ELSE [body[i] EXCEPT !.key = current[i].key]]
PreserveFields(body, current) ==
    [i \in DOMAIN body |->
        IF body[i].key # NoKey THEN body[i]
        ELSE [body[i] EXCEPT !.key = Previous(body[i], current).key]]

\* INSERT OR REPLACE of the one row.
SaveVoiceConfig(c) == voice' = c

\* Read, merge and write; nothing else runs between.
UpdateVoiceConfig(body) ==
    /\ ops < MaxOps /\ ops' = ops + 1
    /\ SaveVoiceConfig([body EXCEPT !.stt = PreserveFields(@, voice.stt),
                                    !.tts = PreserveFields(@, voice.tts)])
    /\ UNCHANGED <<override, req, files, procs>>

SetOverride(a, o) ==
    /\ ops < MaxOps /\ ops' = ops + 1
    /\ override[a] # o
    /\ override' = [override EXCEPT ![a] = o]
    /\ UNCHANGED <<voice, req, files, procs>>

Says(field, otherwise) == IF field = {} THEN otherwise ELSE TRUE \in field

\* What the agent says wins; disabling input or output wins over the rest.
Resolve(c, o) ==
    [c EXCEPT
        !.enabled = ~o.inputDisabled /\ Says(o.enabled, @),
        !.sttFallback = Says(o.sttFallback, @),
        !.ttsFallback = Says(o.ttsFallback, @),
        !.tts = IF o.outputDisabled THEN <<>> ELSE @]

\* The chain of a list: the places of what is enabled in it, in their order.
Enabled(list) == {i \in DOMAIN list : list[i].enabled}
BuildSTT(c) == Enabled(c.stt)
BuildTTS(c) == Enabled(c.tts)
\* With the fallback switched off there is no speech at all.
Speaks(c) == Len(c.tts) > 0 /\ c.ttsFallback

-----------------------------------------------------------------------------
(* A request, up to its text.                                               *)

Goes(r, pc) == req' = [req EXCEPT ![r].pc = pc]
Refuse(r) == req' = [req EXCEPT ![r].pc = "ended", ![r].events = <<"error">>]

Receive(r, audio, agent) ==
    /\ req[r].pc = "idle"
    /\ req' = [req EXCEPT ![r] =
                 IF audio = "good" /\ voice.enabled
                 THEN [Fresh EXCEPT !.pc = IF agent = NoAgent THEN "stt" ELSE "agent",
                                    !.agent = agent, !.config = voice]
                 ELSE [Fresh EXCEPT !.pc = "ended", !.agent = agent,
                                    !.events = <<"error">>]]
    /\ UNCHANGED <<voice, override, files, procs, ops>>

\* An agent that is gone is no obstacle: the chat goes on without it.
LookUpAgent(r) ==
    /\ req[r].pc = "agent"
    /\ LET o == override[req[r].agent]
           c == IF o = NoRow THEN req[r].config ELSE Resolve(req[r].config, o)
       IN  req' = [req EXCEPT ![r].config = c,
                              ![r].pc = IF c.enabled THEN "stt" ELSE "ended",
                              ![r].events = IF c.enabled THEN @ ELSE <<"error">>]
    /\ UNCHANGED <<voice, override, files, procs, ops>>

\* What a chain has left behind the places that were asked.
Rest(chain, asked) == {i \in chain : \A k \in DOMAIN asked : asked[k] < i}

HearCall(r) == [of |-> r, list |-> "stt", at |-> Len(req[r].tries)]
NextSTT(r) == Min(Rest(BuildSTT(req[r].config), req[r].tries))
MoreSTT(r) == Rest(BuildSTT(req[r].config), req[r].tries) # {}

\* Another provider is asked unless the first failure was to be the last.
FallsBackAlways(r, fallback, asked) == TRUE         \* mutant
FallsBack(r, fallback, asked) == asked = 0 \/ fallback

NoneHears(r) ==
    /\ req[r].pc = "stt"
    /\ ~MoreSTT(r) \/ ~FallsBack(r, req[r].config.sttFallback, Len(req[r].tries))
    /\ Refuse(r)
    /\ UNCHANGED <<voice, override, files, procs, ops>>

\* The text of the recording: no speech is the end, else the turn begins.
Heard(r, tries) ==
    \E text \in {"text", "blank"} :
        req' = [req EXCEPT ![r].tries = tries,
                           ![r].pc = IF text = "text" THEN "stream" ELSE "ended",
                           ![r].events = IF text = "text" THEN @ ELSE <<"error">>]

AsksSTT(r, kind) ==
    /\ req[r].pc = "stt" /\ MoreSTT(r)
    /\ FallsBack(r, req[r].config.sttFallback, Len(req[r].tries))
    /\ req[r].config.stt[NextSTT(r)].kind = kind

AskRemoteSTT(r) ==
    /\ AsksSTT(r, "litellm")
    /\ LET tries == Append(req[r].tries, NextSTT(r))
       IN  Heard(r, tries) \/ req' = [req EXCEPT ![r].tries = tries]
    /\ UNCHANGED <<voice, override, files, procs, ops>>

\* The recording is written before anything can clean up after it; then the
\* process starts, or cannot and the recording is removed.
StartLocalSTT(r) ==
    /\ AsksSTT(r, "local")
    /\ LET call == [HearCall(r) EXCEPT !.at = @ + 1]
           tries == Append(req[r].tries, NextSTT(r))
       IN  \/ /\ files' = files \cup {[call |-> call, whole |-> FALSE]}
              /\ req' = [req EXCEPT ![r].tries = tries]
              /\ UNCHANGED procs
           \/ /\ req' = [req EXCEPT ![r].tries = tries]
              /\ UNCHANGED <<files, procs>>
           \/ /\ files' = files \cup {[call |-> call, whole |-> TRUE]}
              /\ procs' = procs \cup {call}
              /\ req' = [req EXCEPT ![r].tries = tries, ![r].pc = "hearing"]
    /\ UNCHANGED <<voice, override, ops>>

\* finally: os.unlink, whatever happened.
UnlinkIfHeard(r) == IF req'[r].pc # "stt"           \* mutant: not in a finally
                    THEN {f \in files : f.call # HearCall(r)} ELSE files
Unlink(r) == {f \in files : f.call # HearCall(r)}

LocalSTTEnds(r) ==
    /\ req[r].pc = "hearing"
    /\ procs' = procs \ {HearCall(r)}
    /\ Heard(r, req[r].tries) \/ Goes(r, "stt")
    /\ files' = Unlink(r)
    /\ UNCHANGED <<voice, override, ops>>

WaitsOn(r) == req[r].pc = "hearing" /\ UNCHANGED voiceVars   \* mutant: no timeout
\* After 120 s the wait is over; the process is not killed.
LocalSTTTimesOut(r) ==
    /\ req[r].pc = "hearing"
    /\ req' = [req EXCEPT ![r].pc = "stt", ![r].abandoned = TRUE]
    /\ files' = Unlink(r)
    /\ UNCHANGED <<voice, override, procs, ops>>

-----------------------------------------------------------------------------
(* The answer and its speech.                                               *)

\* What the browser is sent of an event of the turn: some it never sees.
Payload(type) ==
    IF type \in {"token", "tool_call", "tool_result", "final", "error", "audio"}
    THEN <<type>> ELSE <<>>

Concludes(e) == ToSet(e) \cap {"final", "error"} # {}

\* The stream of the turn brings what it is doing (bound: one such event is
\* kept), its answer or an error, or raises.
StreamShows(r, type) ==
    /\ req[r].pc = "stream" /\ req[r].events = <<>>
    /\ req' = [req EXCEPT ![r].events = Payload(type)]
    /\ UNCHANGED <<voice, override, files, procs, ops>>

StreamFinal(r, content) ==
    /\ req[r].pc = "stream" /\ ~Concludes(req[r].events)
    /\ req' = [req EXCEPT ![r].final = content, ![r].events = @ \o Payload("final")]
    /\ UNCHANGED <<voice, override, files, procs, ops>>

StreamError(r) ==
    /\ req[r].pc = "stream" /\ ~Concludes(req[r].events)
    /\ req' = [req EXCEPT ![r].events = @ \o Payload("error")]
    /\ UNCHANGED <<voice, override, files, procs, ops>>

StreamRaises(r) ==
    /\ req[r].pc = "stream"
    /\ req' = [req EXCEPT ![r].pc = "ended", ![r].raised = TRUE,
                          ![r].events = Append(@, "error")]
    /\ UNCHANGED <<voice, override, files, procs, ops>>

Finish(e) == Append(e, "end")                  \* mutant
Done(e) == Append(e, "done")
StreamEnds(r) ==
    /\ req[r].pc = "stream" /\ Concludes(req[r].events)
    /\ IF Speaks(req[r].config) /\ req[r].final = "text"
         THEN Goes(r, "tts")
         ELSE req' = [req EXCEPT ![r].pc = "ended", ![r].events = Done(@)]
    /\ UNCHANGED <<voice, override, files, procs, ops>>

SpeakCall(r) == [of |-> r, list |-> "tts", at |-> Len(req[r].spoken)]
NextTTS(r) == Min(Rest(BuildTTS(req[r].config), req[r].spoken))
MoreTTS(r) == Rest(BuildTTS(req[r].config), req[r].spoken) # {}

\* A speech that fails is not told to the client.
FailsQuietly(e) == Done(e)
NoneSpeaks(r) ==
    /\ req[r].pc = "tts"
    /\ ~MoreTTS(r) \/ ~FallsBack(r, req[r].config.ttsFallback, Len(req[r].spoken))
    /\ req' = [req EXCEPT ![r].pc = "ended", ![r].events = FailsQuietly(@)]
    /\ UNCHANGED <<voice, override, files, procs, ops>>

AsksTTS(r, kind) ==
    /\ req[r].pc = "tts" /\ MoreTTS(r)
    /\ FallsBack(r, req[r].config.ttsFallback, Len(req[r].spoken))
    /\ req[r].config.tts[NextTTS(r)].kind = kind

Spoke(r, spoken) ==
    req' = [req EXCEPT ![r].spoken = spoken, ![r].pc = "ended",
                       ![r].events = Done(Append(@, "audio"))]

AskRemoteTTS(r) ==
    /\ AsksTTS(r, "litellm")
    /\ LET spoken == Append(req[r].spoken, NextTTS(r))
       IN  Spoke(r, spoken) \/ req' = [req EXCEPT ![r].spoken = spoken]
    /\ UNCHANGED <<voice, override, files, procs, ops>>

StartLocalTTS(r) ==
    /\ AsksTTS(r, "local")
    /\ LET spoken == Append(req[r].spoken, NextTTS(r))
       IN  \/ req' = [req EXCEPT ![r].spoken = spoken] /\ UNCHANGED procs
           \/ /\ req' = [req EXCEPT ![r].spoken = spoken, ![r].pc = "speaking"]
              /\ procs' = procs \cup {[SpeakCall(r) EXCEPT !.at = @ + 1]}
    /\ UNCHANGED <<voice, override, files, ops>>

LocalTTSEnds(r) ==
    /\ req[r].pc = "speaking"
    /\ procs' = procs \ {SpeakCall(r)}
    /\ Spoke(r, req[r].spoken) \/ Goes(r, "tts")
    /\ UNCHANGED <<voice, override, files, ops>>

LocalTTSTimesOut(r) ==
    /\ req[r].pc = "speaking"
    /\ req' = [req EXCEPT ![r].pc = "tts", ![r].abandoned = TRUE]
    /\ UNCHANGED <<voice, override, files, procs, ops>>

-----------------------------------------------------------------------------
(* The client and the host.                                                 *)

Leave(r) ==
    /\ req[r].pc \notin {"idle", "ended"} /\ ~req[r].left
    /\ req' = [req EXCEPT ![r].left = TRUE]
    /\ UNCHANGED <<voice, override, files, procs, ops>>

\* The response is cancelled where it waits; a process of it runs on.
CancelStream(r) ==
    /\ req[r].left /\ req[r].pc \in {"stream", "tts", "speaking"}
    /\ req' = [req EXCEPT ![r].pc = "ended",
                          ![r].abandoned = @ \/ req[r].pc = "speaking"]
    /\ UNCHANGED <<voice, override, files, procs, ops>>

\* The call a request waits for.
Waited(r) == IF req[r].pc = "hearing" THEN {HearCall(r)}
             ELSE IF req[r].pc = "speaking" THEN {SpeakCall(r)} ELSE {}

ProcessExits(call) ==
    /\ call \in procs /\ call \notin Waited(call.of)
    /\ procs' = procs \ {call}
    /\ UNCHANGED <<voice, override, req, files, ops>>

Listens(r) ==
    \/ LookUpAgent(r) \/ NoneHears(r) \/ AskRemoteSTT(r)
    \/ StartLocalSTT(r) \/ LocalSTTTimesOut(r)
Answers(r) ==
    \/ \E content \in {"text", "blank"} : StreamFinal(r, content)
    \/ StreamError(r) \/ StreamRaises(r) \/ StreamEnds(r)
    \/ NoneSpeaks(r) \/ AskRemoteTTS(r)
    \/ StartLocalTTS(r) \/ LocalTTSTimesOut(r)

VoiceNext ==
    \/ \E body \in Bodies : UpdateVoiceConfig(body)
    \/ \E a \in Agent, o \in Override \cup {NoRow} : SetOverride(a, o)
    \/ \E r \in Request :
          \/ \E audio \in {"good", "bad"}, agent \in Agent \cup {NoAgent} :
                Receive(r, audio, agent)
          \/ \E type \in {"status", "token", "tool_call", "tool_result"} :
                StreamShows(r, type)
          \/ Listens(r) \/ LocalSTTEnds(r) \/ Answers(r) \/ LocalTTSEnds(r)
          \/ Leave(r) \/ CancelStream(r)
    \/ \E call \in procs : ProcessExits(call)

\* The event loop comes back to every request it has begun: a remote call has
\* a timeout of its own, a turn the bound of AgentTurn.  Nothing says that a
\* local process ever ends by itself.
VoiceSpec ==
    /\ VoiceInit /\ [][VoiceNext]_voiceVars
    /\ \A r \in Request : WF_voiceVars(Listens(r)) /\ WF_voiceVars(Answers(r))

-----------------------------------------------------------------------------
(* Properties.                                                              *)

\* The providers of a list were asked in its order, each after the one before
\* it failed, none that is switched off or passed over, and a second one only
\* if the list may fall back.  An answer with words stays unspoken only when
\* every provider was asked.
InOrder(asked, list, fallback) ==
    /\ \A k, l \in DOMAIN asked : k < l => asked[k] < asked[l]
    /\ \A k \in DOMAIN asked :
           Enabled(list) \cap 1 .. asked[k] = {asked[l] : l \in 1 .. k}
    /\ Len(asked) > 1 => fallback
AskedInOrder ==
    \A r \in Request :
        LET q == req[r] IN
        /\ InOrder(q.tries, q.config.stt, q.config.sttFallback)
        /\ InOrder(q.spoken, q.config.tts, q.config.ttsFallback)
        /\ /\ q.pc = "ended" /\ ~q.left /\ ~q.raised
           /\ q.final = "text" /\ Speaks(q.config) /\ "audio" \notin ToSet(q.events)
           => Enabled(q.config.tts) \subseteq ToSet(q.spoken)

\* An answer that was given stays one: it is followed by the end of the
\* stream, or by its speech and then the end, and by an error only when the
\* turn itself raised.  Speech is only sent of an answer with words in it, by
\* a provider that was asked for it.
Progress == {"token", "tool_call", "tool_result"}
Outcomes == {<<"error">>, <<"error", "done">>, <<"final", "done">>,
             <<"final", "audio", "done">>}
AnswerStands ==
    \A r \in Request :
        LET e == req[r].events IN
        /\ req[r].pc = "ended" /\ ~req[r].left /\ ~req[r].raised =>
              \E n \in 0 .. Len(e) : /\ \A i \in 1 .. n : e[i] \in Progress
                                    /\ SubSeq(e, n + 1, Len(e)) \in Outcomes
        /\ "audio" \in ToSet(e) => req[r].final = "text" /\ req[r].spoken # <<>>

\* Chains and stream together, of the settings the request began with.
VoiceInOrder == AskedInOrder /\ AnswerStands

\* A recording is on disk while its transcription waits for it; after that
\* only one that could not be written whole is.  A process outlives its call
\* only of a request that gave up waiting or was cancelled while it spoke.
NothingLeftBehind ==
    /\ \A f \in files : f.whole => f.call \in Waited(f.call.of)
    /\ \A call \in procs : call \in Waited(call.of) \/ req[call.of].abandoned

\* The dashboard sends masked keys: an edit takes no key from an entry that
\* keeps its name, wherever in the list it is put.
Keeps(before, after) ==
    \A i \in DOMAIN before, j \in DOMAIN after :
        (/\ before[i].name = after[j].name /\ before[i].key # NoKey
         /\ \A k \in DOMAIN before : before[k].name = before[i].name => k = i)
        => after[j].key # NoKey
KeysKept == [][Keeps(voice.stt, voice'.stt) /\ Keeps(voice.tts, voice'.tts)]_voiceVars

\* Every voice message is answered, refused or given up by its client.
EveryVoiceEnds ==
    \A r \in Request : req[r].pc # "idle" ~> req[r].pc = "ended"
=============================================================================
