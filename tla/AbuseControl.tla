----------------------------- MODULE AbuseControl -----------------------------
(***************************************************************************)
(* The anti-abuse settings and what they are applied to.                   *)
(*                                                                         *)
(* admin-dashboard (internal/server/abuse.go) keeps the settings in memory *)
(* and in DATA_DIR/abuse_config.json, and after a change tells api-service *)
(* in a goroutine of its own to reload.  api-service (abuse_live.py) keeps *)
(* what it read from the same file over the defaults of its environment,   *)
(* and can save settings of its own.  Neither locks the file: each writer  *)
(* truncates it and then writes it.  api-service runs its handlers on one  *)
(* event loop, so a save and the reload after it exclude its chats and its *)
(* other reloads, but not the dashboard.                                   *)
(*                                                                         *)
(* A chat is checked against the settings (server.py, anti_abuse.py) and,  *)
(* when it is over, its turn is stored in its session.                     *)
(***************************************************************************)
EXTENDS Naturals

CONSTANTS
    Shared,             \* values of the settings that both services know
    Repeats,            \* values of max_repeated_count, unknown to the dashboard
    EnvShared, EnvRepeats,      \* api-service's environment
    DashDefault,        \* DefaultAbuseConfig
    Absent,             \* a setting that a file or a request does not name
    NoFile, Broken,     \* no file; a file that is no JSON
    Session,            \* the clients' session ids
    Chat,               \* what a chat may be to the checks, and for the settings:
    Burst,              \*   burst of the limiter,
    GoodAgent, Short,   \*   the chats whose user agent, whose length may pass,
    MaxRepeated,        \*   max_repeated_count as a number
    MessageLimit,       \* max_messages_per_session
    MaxNotes,           \* bound on the reload requests in flight
    MayFail,            \* may a request be lost, a write fail, a service stop?
    StoreBound          \* bound on the messages of a session

Config == [shared : Shared, repeats : Repeats]
Saved == [shared : Shared, repeats : Repeats \cup {Absent}]

ASSUME AbuseAssumption ==
    /\ {EnvShared, DashDefault} \subseteq Shared /\ EnvRepeats \in Repeats
    /\ Absent \notin Shared \cup Repeats
    /\ NoFile \notin Saved /\ Broken \notin Saved
    /\ MayFail \in BOOLEAN
    /\ Burst \in [Shared -> Nat] /\ MaxRepeated \in [Repeats -> Nat]
    /\ {GoodAgent, Short} \subseteq [Shared -> SUBSET Chat]
    /\ MessageLimit \in Nat \ {0} /\ MaxNotes \in Nat \ {0}
    /\ StoreBound \in Nat /\ StoreBound > MessageLimit

VARIABLES
    file,       \* abuse_config.json
    dash,       \* AbuseStore.config
    dashAt,     \* the dashboard's save: idle, or the file is truncated
    api,        \* LiveAbuseProvider._full_config
    apiAt,      \* api-service's save: idle, truncated, written
    job,        \* the settings api-service is saving
    mixed,      \* the writers whose file the other one has touched since
    notes,      \* reload requests in flight
    missed,     \* (history) a change of the file that api-service is not told
    chat,       \* what the chat of each session is doing
    stored      \* messages in the session store: under the id, under direct:id

settings == <<file, dash, dashAt, api, apiAt, job, mixed, notes, missed>>
chats == <<chat, stored>>
vars == <<settings, chats>>

Env == [shared |-> EnvShared, repeats |-> EnvRepeats]

(* Fault: what is not named is taken over like the rest.                   *)
MergeAll(cfg, data) == [k \in DOMAIN cfg |-> data[k]]

(* _apply_json: the settings that the data names, over the others.         *)
Merge(cfg, data) ==
    [k \in DOMAIN cfg |-> IF data[k] = Absent THEN cfg[k] ELSE data[k]]

(* _load: the environment's defaults, and the file's settings over them if *)
(* it is there and can be read.                                            *)
Load(f) == IF f \in {NoFile, Broken} THEN Env ELSE Merge(Env, f)

(* AbuseStore.load: without a file that it can read the dashboard keeps    *)
(* its own defaults.                                                       *)
DashLoad(f) == IF f \in {NoFile, Broken} THEN DashDefault ELSE f.shared

Init ==
    /\ file = NoFile
    /\ dash = DashDefault /\ dashAt = "idle"
    /\ api = Env /\ apiAt = "idle" /\ job = Env
    /\ mixed = {}
    /\ notes = 0
    /\ missed = FALSE
    /\ chat = [s \in Session |-> "idle"]
    /\ stored = [id \in {"plain", "direct"} \X Session |-> 0]

-----------------------------------------------------------------------------
(* The file.                                                               *)

Other(w) == IF w = "dash" THEN "api" ELSE "dash"

Truncate(w) ==
    /\ file' = Broken
    /\ mixed' = (mixed \ {w}) \cup {Other(w)}

(* Written over what the other writer has put there in the meantime, the   *)
(* file may keep the end of that.                                          *)
Write(w, f) ==
    /\ \/ file' = f
       \/ w \in mixed /\ file # Broken /\ file' = Broken
    /\ mixed' = mixed \cup {Other(w)}

-----------------------------------------------------------------------------
(* admin-dashboard: abuseSettingsPutHandler and abusePresetHandler.  The   *)
(* store's mutex is held from the change to the end of the write.          *)

Room == notes + (IF dashAt = "idle" THEN 0 ELSE 1) < MaxNotes

DashSet(c) ==
    /\ dashAt = "idle"
    /\ Room
    /\ dash' = c
    /\ dashAt' = "truncated"
    /\ Truncate("dash")
    /\ UNCHANGED <<api, apiAt, job, notes, missed, chats>>

(* Fault: api-service was told before the file is written.                 *)
DashWriteTold ==
    /\ dashAt = "truncated"
    /\ dashAt' = "idle"
    /\ Write("dash", [shared |-> dash, repeats |-> Absent])
    /\ UNCHANGED <<dash, api, apiAt, job, notes, missed, chats>>

(* The file is written and a goroutine sends the reload request.           *)
DashWrite ==
    /\ dashAt = "truncated"
    /\ dashAt' = "idle"
    /\ Write("dash", [shared |-> dash, repeats |-> Absent])
    /\ notes' = notes + 1
    /\ UNCHANGED <<dash, api, apiAt, job, missed, chats>>

(* The write fails: the handler answers 500, tells nobody, and keeps the   *)
(* new settings in memory.                                                 *)
DashWriteFails ==
    /\ MayFail
    /\ dashAt = "truncated"
    /\ dashAt' = "idle"
    /\ missed' = TRUE
    /\ UNCHANGED <<file, dash, api, apiAt, job, mixed, notes, chats>>

DashRestart ==
    /\ MayFail
    /\ dash' = DashLoad(file)
    /\ dashAt' = "idle"
    /\ notes' = 0
    /\ missed' = (missed \/ notes > 0 \/ dashAt # "idle")
    /\ UNCHANGED <<file, api, apiAt, job, mixed, chats>>

(* A reload request without a change (abuseReloadHandler).                 *)
AskReload ==
    /\ Room
    /\ notes' = notes + 1
    /\ UNCHANGED <<file, dash, dashAt, api, apiAt, job, mixed, missed, chats>>

LoseNote ==
    /\ MayFail
    /\ notes > 0
    /\ notes' = notes - 1
    /\ missed' = TRUE
    /\ UNCHANGED <<file, dash, dashAt, api, apiAt, job, mixed, chats>>

-----------------------------------------------------------------------------
(* api-service.                                                            *)

(* reload_abuse_config.                                                    *)
Reload ==
    /\ notes > 0 /\ apiAt = "idle"
    /\ notes' = notes - 1
    /\ api' = Load(file)
    /\ missed' = FALSE
    /\ UNCHANGED <<file, dash, dashAt, apiAt, job, mixed, chats>>

(* save_config: the request's settings over those in memory, to the file,  *)
(* and from there back into memory.                                        *)
SaveConfig(data) ==
    /\ apiAt = "idle"
    /\ job' = Merge(api, data)
    /\ apiAt' = "truncated"
    /\ Truncate("api")
    /\ UNCHANGED <<dash, dashAt, api, notes, missed, chats>>

(* Fault: the writer does not know of max_repeated_count.                  *)
SerializeShared(cfg) == [shared |-> cfg.shared, repeats |-> Absent]

Serialize(cfg) == [shared |-> cfg.shared, repeats |-> cfg.repeats]

SaveWrites ==
    /\ apiAt = "truncated"
    /\ apiAt' = "written"
    /\ Write("api", Serialize(job))
    /\ UNCHANGED <<dash, dashAt, api, job, notes, missed, chats>>

SaveReloads ==
    /\ apiAt = "written"
    /\ apiAt' = "idle"
    /\ api' = Load(file)
    /\ job' = Env
    /\ missed' = FALSE
    /\ UNCHANGED <<file, dash, dashAt, mixed, notes, chats>>

(* The disk is full: the exception leaves the handler.                     *)
SaveFails ==
    /\ MayFail
    /\ apiAt = "truncated"
    /\ apiAt' = "idle"
    /\ job' = Env
    /\ missed' = TRUE
    /\ UNCHANGED <<file, dash, dashAt, api, mixed, notes, chats>>

(* At a start the file is read; the chats are gone, the sessions are not.  *)
ApiRestart ==
    /\ MayFail
    /\ api' = Load(file)
    /\ apiAt' = "idle"
    /\ job' = Env
    /\ missed' = FALSE
    /\ chat' = [s \in Session |-> "idle"]
    /\ UNCHANGED <<file, dash, dashAt, mixed, notes, stored>>

-----------------------------------------------------------------------------
(* Chats (chat_handler).                                                   *)

(* The rate limiter is made for this one request: its bucket is full.      *)
BucketAllows(cfg) == Burst[cfg.shared] >= 1

(* The checks that look at the request alone.                              *)
RequestAllowed(cfg, c) == c \in GoodAgent[cfg.shared] /\ c \in Short[cfg.shared]

(* So is the checker: the message has been said no time before.            *)
RepeatAllowed(cfg) == 0 < MaxRepeated[cfg.repeats]

(* check, with n messages in the session.  The stored messages carry no    *)
(* time, so the interval between two of them is never looked at.           *)
Check(cfg, c, n) == RequestAllowed(cfg, c) /\ n < MessageLimit /\ RepeatAllowed(cfg)

(* _check_abuse counts the messages stored under the client's session id.  *)
Admit(s) ==
    /\ apiAt = "idle"
    /\ chat[s] = "idle"
    /\ BucketAllows(api)
    /\ \E c \in Chat : Check(api, c, stored[<<"plain", s>>])
    /\ chat' = [chat EXCEPT ![s] = "running"]
    /\ UNCHANGED <<settings, stored>>

(* The turn is stored under the id with the prefix: the question, and the  *)
(* answer if there is one; a turn that is cut short stores nothing.  A     *)
(* second chat of the session would wait for its lock (SessionTurns).      *)
EndTurn(s) ==
    /\ apiAt = "idle"
    /\ chat[s] = "running"
    /\ chat' = [chat EXCEPT ![s] = "idle"]
    /\ \E n \in 0 .. 2 :
           /\ stored[<<"direct", s>>] + n <= StoreBound
           /\ stored' = [stored EXCEPT ![<<"direct", s>>] = @ + n]
    /\ UNCHANGED settings

-----------------------------------------------------------------------------

Data == [shared : Shared \cup {Absent}, repeats : Repeats \cup {Absent}]

Deliver == Reload \/ LoseNote
Dashboard == DashWrite \/ DashWriteFails
Api == SaveWrites \/ SaveReloads \/ SaveFails

Next ==
    \/ \E c \in Shared : DashSet(c)
    \/ DashRestart
    \/ AskReload
    \/ \E data \in Data : SaveConfig(data)
    \/ ApiRestart
    \/ Deliver \/ Dashboard \/ Api
    \/ \E s \in Session : Admit(s) \/ EndTurn(s)

(* A handler runs to its end, and a request that is sent arrives or is     *)
(* given up.  The event loop serves every request in turn: saves may not   *)
(* keep a reload out for ever.                                             *)
Fairness == SF_vars(Deliver) /\ WF_vars(Dashboard) /\ WF_vars(Api)

Spec == Init /\ [][Next]_vars /\ Fairness

-----------------------------------------------------------------------------
(* Properties.                                                             *)

TypeOK ==
    /\ file \in Saved \cup {NoFile, Broken}
    /\ dash \in Shared /\ dashAt \in {"idle", "truncated"}
    /\ api \in Config /\ apiAt \in {"idle", "truncated", "written"}
    /\ job \in Config
    /\ mixed \subseteq {"dash", "api"}
    /\ notes \in 0 .. MaxNotes
    /\ missed \in BOOLEAN
    /\ chat \in [Session -> {"idle", "running"}]
    /\ stored \in [{"plain", "direct"} \X Session -> 0 .. StoreBound]

(* When nobody is saving and no reload request is on its way or lost, the  *)
(* settings in force are those in the file, whichever service wrote them,  *)
(* in whatever order the saves and reloads of the two overlapped.          *)
Quiet == dashAt = "idle" /\ apiAt = "idle" /\ notes = 0
ApiFollowsFile == Quiet /\ ~missed => api = Load(file)

(* The settings an admin saved through api-service are in force when its   *)
(* handler answers, all of them, unless the dashboard wrote the file while *)
(* it was at work.                                                         *)
SaveTakesEffect ==
    [][SaveReloads /\ "api" \notin mixed => api' = job]_vars

(* Settings that were saved are the settings in force.                     *)
SettingsInForce == []ApiFollowsFile /\ SaveTakesEffect

(* If the admins stop changing things and no request is lost, both         *)
(* services come to rest, with the file's settings in force.               *)
Changes == \/ \E c \in Shared : DashSet(c)
           \/ \E data \in Data : SaveConfig(data)
           \/ AskReload \/ DashRestart \/ ApiRestart
Converges == <>[][~Changes]_settings => <>[](Quiet /\ (missed \/ api = Load(file)))

(* doc/agents/anti-abuse.md:10: a session has 50 messages.  A chat is      *)
(* started only while its session has fewer (run abuse_SessionBudget).     *)
SessionBudget ==
    [][\A s \in Session : Admit(s) => stored[<<"direct", s>>] < MessageLimit]_vars

=============================================================================
