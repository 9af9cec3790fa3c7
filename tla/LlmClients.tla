----------------------------- MODULE LlmClients -----------------------------
(***************************************************************************)
(* Which language model answers a chat of api-service, with whose key, and *)
(* who pays.  The admin edits the providers (a JSON file read once, written *)
(* on every change) and the agents (rows of SQLite whose model settings are *)
(* encrypted); a chat picks its client from its agent's settings, from the  *)
(* agent's provider names, from all enabled providers or from the process   *)
(* environment.  Two things are shared by every chat in the process: the    *)
(* environment, into which an agent's own key is written before the call    *)
(* that should use it, and the spending table.                              *)
(*                                                                          *)
(* The event loop runs a handler without a switch up to a call that really  *)
(* waits: the provider store never waits while it holds its lock, so each   *)
(* admin request on it is one step.  A name stands for a model of its kind. *)
(* The loop of a turn (AgentTurn) is reduced to the calls it makes.         *)
(***************************************************************************)
EXTENDS Naturals, Sequences, FiniteSets

CONSTANTS
    Kind,           \* kinds of providers: openai, groq, ...
    KeyMapped,      \* the kinds whose key create_client puts into the environment
    Name,           \* names of providers; a kind is the name of its import
    Key, NoKey,     \* API keys
    Torn,           \* a providers file that json.load cannot read
    EnvAtStart,     \* {PREFIX}_API_KEY in the environment of the process
    EnvModels,      \* the kinds with a {PREFIX}_MODEL there
    Agent,          \* agents, and for each:
    Configs,        \*   the llm_config an admin may give it,
    PriorityOf,     \*   its provider_priority,
    TenantsOf,      \*   its tenants, in order and none twice
    Direct,         \* stands for a chat with no agent
    Cipher,         \* values of ENCRYPTION_KEY
    Tenant,
    DefaultBudget,  \* USD, in units of one call
    Budgets,        \* what an admin may set instead; 0 = no limit
    Turn,           \* bound: chats at a time
    MaxCalls,       \* bound: calls of one turn
    MaxOps,         \* bound: requests of the admin, restarts
    MaxChats        \* bound: chats

ASSUME ConstantsTyped ==
    /\ KeyMapped \subseteq Kind /\ EnvModels \subseteq Kind /\ Kind \subseteq Name
    /\ NoKey \notin Key /\ Direct \notin Agent
    /\ EnvAtStart \in [Kind -> Key \cup {NoKey}]
    /\ {DefaultBudget, MaxCalls, MaxOps, MaxChats} \cup Budgets \subseteq Nat

VARIABLES
    env,            \* os.environ[{KIND}_API_KEY]
    opened,         \* get_provider_store has built the singleton
    providers,      \* ProviderStore._providers
    file,           \* providers.json
    rows,           \* table agents: config as stored, cipher it was stored with
    cipher,         \* _FERNET of this process
    budget, spent,  \* SpendingChecker: budget in force, _spending
    turn,           \* the chats under way
    count,          \* admin requests and restarts so far, chats so far
    overtaken,      \* ghost: turns whose key another turn has replaced since
    leaked,         \* ghost: agents' keys put in env before the store was opened
    rekeyed,        \* ghost: agents saved under another cipher than they had
    due, passedOver \* ghost: paid answers per tenant; tenants left out of one

keyVars == <<env, opened, providers, file, leaked>>
agentVars == <<rows, cipher, rekeyed>>
moneyVars == <<budget, spent, due, passedOver>>
vars == <<keyVars, agentVars, moneyVars, turn, count, overtaken>>

Absent == [kind |-> "absent"]
NoConfig == [kind |-> "none", key |-> NoKey]
Provider == [kind : Kind, key : Key \cup {NoKey}, enabled : BOOLEAN,
             source : {"env", "store"}]
Providers == [Name -> Provider \cup {Absent}]
Empty == [n \in Name |-> Absent]
Config == [kind : Kind, key : Key \cup {NoKey}] \cup {NoConfig}
Deployment == [kind : Kind, key : Key \cup {NoKey}]

ASSUME SettingsTyped ==
    /\ Configs \in [Agent -> Config]
    /\ PriorityOf \in [Agent -> Seq(Name)]
    /\ TenantsOf \in [Agent \cup {Direct} -> Seq(Tenant)]
    /\ \A a \in DOMAIN TenantsOf : \A i, j \in DOMAIN TenantsOf[a] :
         TenantsOf[a][i] = TenantsOf[a][j] => i = j
    /\ Torn \notin Providers

\* A client: how it was made, and what it may call with which stored key.
NoClient == [type |-> "none", pool |-> {}]
Clients == [type : {"none", "own", "priority", "router", "env", "ollama"},
            pool : SUBSET Deployment]
Idle == [pc |-> "idle", agent |-> Direct, config |-> NoConfig, client |-> NoClient,
         calls |-> 0, sent |-> NoKey]
Turns == [pc : {"idle", "read", "stream", "ready", "sent", "answered", "refused", "failed"},
          agent : Agent \cup {Direct}, config : Config, client : Clients,
          calls : 0 .. MaxCalls, sent : Key \cup {NoKey}]

TypeOK ==
    /\ env \in [Kind -> Key \cup {NoKey}]
    /\ opened \in BOOLEAN
    /\ providers \in Providers /\ file \in Providers \cup {Torn}
    /\ rows \in [Agent -> [config : Config, cipher : Cipher] \cup {Absent}]
    /\ cipher \in Cipher
    /\ budget \in [Tenant -> {DefaultBudget} \cup Budgets]
    /\ spent \in [Tenant -> Nat] /\ due \in [Tenant -> Nat]
    /\ passedOver \subseteq Tenant
    /\ turn \in [Turn -> Turns]
    /\ count \in [ops : 0 .. MaxOps, chats : 0 .. MaxChats]
    /\ overtaken \subseteq Turn /\ leaked \subseteq Key /\ rekeyed \subseteq Agent

Init ==
    /\ env = EnvAtStart /\ cipher \in Cipher
    /\ opened = FALSE /\ providers = Empty /\ file = Empty
    /\ rows = [a \in Agent |-> [config |-> Configs[a], cipher |-> cipher]]
    /\ budget = [x \in Tenant |-> DefaultBudget]
    /\ spent = [x \in Tenant |-> 0] /\ due = [x \in Tenant |-> 0]
    /\ passedOver = {} /\ overtaken = {} /\ leaked = {} /\ rekeyed = {}
    /\ turn = [t \in Turn |-> Idle]
    /\ count = [ops |-> 0, chats |-> 0]

AdminActs == count.ops < MaxOps /\ count' = [count EXCEPT !.ops = @ + 1]

-----------------------------------------------------------------------------
(* The provider store.                                                      *)

\* A file that is missing or that no JSON parser accepts is an empty store.
LoadedRaw == file                                   \* mutant: no except
Loaded == IF file = Torn THEN Empty ELSE file

\* {PREFIX}_API_KEY with a {PREFIX}_MODEL, under the prefix's name.
InEnv == {k \in EnvModels : env[k] # NoKey}
Imported ==
    [n \in Name |-> IF n \in InEnv
                    THEN [kind |-> n, key |-> env[n], enabled |-> TRUE, source |-> "env"]
                    ELSE Absent]

\* open(path, "w") empties the file before json.dump fills it.
Save(ps) == file' \in {ps, Torn}

\* An empty store imports the environment and saves; when that save fails
\* the constructor does, and the next request tries again.
OpenStore ==
    /\ ~opened
    /\ IF Loaded # Empty \/ InEnv = {}
         THEN providers' = Loaded /\ opened' = TRUE /\ UNCHANGED file
         ELSE /\ Save(Imported)
              /\ opened' = (file' = Imported)
              /\ providers' = IF file' = Imported THEN Imported ELSE Empty
    /\ UNCHANGED <<env, leaked, agentVars, moneyVars, turn, count, overtaken>>

Edit(ps) ==
    /\ opened /\ AdminActs
    /\ providers' = ps /\ Save(ps)
    /\ UNCHANGED <<env, opened, leaked, agentVars, moneyVars, turn, overtaken>>

NewProvider(kind, key) == [kind |-> kind, key |-> key, enabled |-> TRUE, source |-> "store"]
AddProvider(n, kind, key) ==
    /\ providers[n] = Absent
    /\ Edit([providers EXCEPT ![n] = NewProvider(kind, key)])

\* "" keeps the key, "__clear__" removes it; every edit clears the env mark.
UpdatedQuietly(p, key, enabled) == [p EXCEPT !.key = key, !.enabled = enabled]  \* mutant
Updated(p, key, enabled) == [p EXCEPT !.key = key, !.enabled = enabled, !.source = "store"]

UpdateProvider(n, key) ==
    /\ providers[n] # Absent
    /\ Edit([providers EXCEPT ![n] = Updated(@, key, @.enabled)])

ToggleProvider(n) ==
    /\ providers[n] # Absent
    /\ Edit([providers EXCEPT ![n] = Updated(@, @.key, ~@.enabled)])

DeleteInMemory(n) ==                                \* mutant: no save
    /\ providers[n] # Absent /\ opened /\ AdminActs
    /\ providers' = [providers EXCEPT ![n] = Absent]
    /\ UNCHANGED <<env, opened, file, leaked, agentVars, moneyVars, turn, overtaken>>
DeleteProvider(n) ==
    /\ providers[n] # Absent
    /\ Edit([providers EXCEPT ![n] = Absent])

\* What get_active_router_config hands to the router.
ActiveDeployments ==
    {[kind |-> providers[n].kind, key |-> providers[n].key] :
        n \in {m \in Name : providers[m] # Absent /\ providers[m].enabled}}

-----------------------------------------------------------------------------
(* The agents.                                                              *)

\* A value stored under another key, or under none, reads as nothing.
Decrypted(row) == IF row.cipher = cipher THEN row.config ELSE NoConfig
Encrypted(config) == [config |-> config, cipher |-> cipher]

SetRow(a, row) ==
    /\ AdminActs
    /\ rows' = [rows EXCEPT ![a] = row]
    /\ UNCHANGED <<keyVars, cipher, moneyVars, turn, overtaken>>

NewRow(a) == Encrypted(Configs[a])
CreateAgent(a) ==
    /\ rows[a] = Absent
    /\ SetRow(a, NewRow(a)) /\ rekeyed' = rekeyed \ {a}

\* An update of other fields writes back the model settings it could read.
LostConfig(a) == NoConfig                           \* mutant: not written back
KeptConfig(a) == Decrypted(rows[a])
UpdateAgent(a) ==
    /\ rows[a] # Absent
    /\ SetRow(a, Encrypted(KeptConfig(a)))
    /\ rekeyed' = IF rows[a].cipher = cipher THEN rekeyed ELSE rekeyed \cup {a}

UpdateAgentConfig(a) ==
    /\ rows[a] # Absent
    /\ SetRow(a, Encrypted(Configs[a])) /\ rekeyed' = rekeyed \ {a}

DeleteAgent(a) ==
    /\ rows[a] # Absent
    /\ SetRow(a, Absent) /\ rekeyed' = rekeyed \ {a}

-----------------------------------------------------------------------------
(* Choosing the client of a chat.                                           *)

At(t, pc) == turn[t].pc = pc

Starts(t, a, config) ==
    /\ turn[t].pc \in {"idle", "answered", "refused", "failed"}
    /\ count.chats < MaxChats /\ count' = [count EXCEPT !.chats = @ + 1]
    /\ turn' = [turn EXCEPT ![t] =
                 [Idle EXCEPT !.pc = "read", !.agent = a, !.config = config]]
    /\ overtaken' = overtaken \ {t}
    /\ UNCHANGED <<keyVars, agentVars, moneyVars>>

StartChat(t, a) == rows[a] # Absent /\ Starts(t, a, Decrypted(rows[a]))
StartDirectChat(t) == Starts(t, Direct, NoConfig)

SetEnvKeyIfUnset(config) ==                         \* mutant: os.environ.setdefault
    env' = IF config.key # NoKey /\ config.kind \in KeyMapped /\ env[config.kind] = NoKey
           THEN [env EXCEPT ![config.kind] = config.key] ELSE env
\* create_client(llm_config): the key goes into the environment of the process.
SetEnvKey(config) ==
    env' = IF config.key # NoKey /\ config.kind \in KeyMapped
           THEN [env EXCEPT ![config.kind] = config.key] ELSE env
CreateOwnClient(t) ==
    LET own == turn[t].config
        replaced == {u \in Turn \ {t} : /\ turn[u].client.type = "own"
                                        /\ turn[u].config.kind = own.kind}
    IN  /\ SetEnvKey(own)
        /\ leaked' = IF opened \/ own.key = NoKey THEN leaked ELSE leaked \cup {own.key}
        /\ overtaken' = IF env' = env THEN overtaken ELSE overtaken \cup replaced
        /\ turn' = [turn EXCEPT ![t].pc = "stream",
                                ![t].client = [type |-> "own", pool |-> {own}]]
        /\ UNCHANGED <<opened, providers, file>>

Prioritised(t) == turn[t].agent # Direct /\ PriorityOf[turn[t].agent] # << >>
Owned(t) == ~Prioritised(t) /\ turn[t].config # NoConfig

\* chat_agent_handler: names of providers come before the agent's own settings.
Handle(t) ==
    /\ At(t, "read")
    /\ IF Owned(t) THEN CreateOwnClient(t)
       ELSE turn' = [turn EXCEPT ![t].pc = "stream"] /\ UNCHANGED <<keyVars, overtaken>>
    /\ UNCHANGED <<agentVars, moneyVars, count>>

\* Blocked for abuse, or sent without a message or a session.
Refuse(t) ==
    /\ turn[t].pc \in {"read", "stream"}
    /\ turn' = [turn EXCEPT ![t] = [Idle EXCEPT !.pc = "failed"]]
    /\ UNCHANGED <<keyVars, agentVars, moneyVars, count, overtaken>>

\* The first listed provider that exists and is enabled; its key is dropped.
Valid(n) == providers[n] # Absent /\ providers[n].enabled
FirstValid(names) ==
    LET firsts == {i \in 1 .. Len(names) :
                     Valid(names[i]) /\ \A j \in 1 .. i - 1 : ~Valid(names[j])}
    IN  {names[i] : i \in firsts}
PriorityClients(names) ==
    {[type |-> "priority", pool |-> {[kind |-> providers[n].kind, key |-> NoKey]}] :
        n \in FirstValid(names)}

\* create_client(): some pair of the environment, else the local model.
EnvClients ==
    IF InEnv = {} THEN {[type |-> "ollama", pool |-> {}]}
    ELSE {[type |-> "env", pool |-> {[kind |-> k, key |-> NoKey]}] : k \in InEnv}

FallbackClients ==
    IF ActiveDeployments = {} THEN EnvClients
    ELSE {[type |-> "router", pool |-> ActiveDeployments]}

ChosenClients(t) ==
    IF turn[t].client # NoClient THEN {turn[t].client}
    ELSE LET listed == IF Prioritised(t) THEN PriorityClients(PriorityOf[turn[t].agent])
                       ELSE {}
         IN  IF listed # {} THEN listed ELSE FallbackClients

\* stream_events: a client made for this request, from the store as it is now.
StreamEvents(t) ==
    /\ At(t, "stream")
    /\ turn[t].client = NoClient => opened
    /\ \E c \in ChosenClients(t) : turn' = [turn EXCEPT ![t].pc = "ready", ![t].client = c]
    /\ UNCHANGED <<keyVars, agentVars, moneyVars, count, overtaken>>

-----------------------------------------------------------------------------
(* The calls of a turn.                                                     *)

\* LiteLLM: a key in the parameters wins, then the environment's.
EnvKey(d) == env[d.kind]
SentKey(client, d) == IF client.type = "router" /\ d.key # NoKey THEN d.key ELSE EnvKey(d)

Send(t) ==
    /\ At(t, "ready") /\ turn[t].calls < MaxCalls
    /\ \E k \in IF turn[t].client.pool = {} THEN {NoKey}
                ELSE {SentKey(turn[t].client, d) : d \in turn[t].client.pool} :
         turn' = [turn EXCEPT ![t].pc = "sent", ![t].calls = @ + 1, ![t].sent = k]
    /\ UNCHANGED <<keyVars, agentVars, moneyVars, count, overtaken>>

CallFails(t) ==
    /\ At(t, "sent")
    /\ turn' = [turn EXCEPT ![t].pc = "failed"]
    /\ UNCHANGED <<keyVars, agentVars, moneyVars, count, overtaken>>

\* LLMClient prices its answer, LiteLLMProvider says it cost nothing.
Priced == 1
Unpriced == 0
Cost(client) == IF client.type = "priority" THEN Unpriced ELSE Priced

TenantsOfTurn(t) == TenantsOf[turn[t].agent]
Over(x, spending) == budget[x] > 0 /\ spending[x] >= budget[x]

LastCharged(xs, cost) ==                            \* mutant: replaced, not added
    [x \in Tenant |-> IF x \in xs THEN cost ELSE spent[x]]

\* The tenants are charged and checked in turn, up to the first over its budget.
Charged(xs, cost) == [x \in Tenant |-> spent[x] + IF x \in xs THEN cost ELSE 0]
Listed(t) == {TenantsOfTurn(t)[i] : i \in DOMAIN TenantsOfTurn(t)}
Refusing(t, cost) == {i \in DOMAIN TenantsOfTurn(t) :
                        Over(TenantsOfTurn(t)[i], Charged(Listed(t), cost))}
Reached(t, cost) == {i \in DOMAIN TenantsOfTurn(t) :
                       \A j \in 1 .. i - 1 : j \notin Refusing(t, cost)}
Hit(t, cost) == {TenantsOfTurn(t)[i] : i \in Reached(t, cost)}

\* The answer: a status event when more calls follow, a final event otherwise.
Answer(t, last) ==
    LET cost == Cost(turn[t].client)
        refused == cost > 0 /\ Refusing(t, cost) # {}
    IN  /\ At(t, "sent") /\ (last \/ turn[t].calls < MaxCalls)
        /\ IF cost = 0 THEN UNCHANGED moneyVars
           ELSE /\ spent' = Charged(Hit(t, cost), cost)
                /\ due' = [x \in Tenant |-> due[x] + IF x \in Listed(t) THEN cost ELSE 0]
                /\ passedOver' = passedOver \cup (Listed(t) \ Hit(t, cost))
                /\ UNCHANGED budget
        /\ turn' = [turn EXCEPT ![t].pc = IF ~last THEN "ready"
                                          ELSE IF refused THEN "refused" ELSE "answered"]
        /\ UNCHANGED <<keyVars, agentVars, count, overtaken>>

SetBudget(x, b) ==
    /\ AdminActs
    /\ budget' = [budget EXCEPT ![x] = b]
    /\ UNCHANGED <<keyVars, agentVars, spent, due, passedOver, turn, overtaken>>

\* Everything but the two files is in memory; ENCRYPTION_KEY may be another.
Restart ==
    /\ AdminActs
    /\ env' = EnvAtStart /\ opened' = FALSE /\ providers' = Empty
    /\ cipher' \in Cipher
    /\ budget' = [x \in Tenant |-> DefaultBudget]
    /\ spent' = [x \in Tenant |-> 0] /\ due' = [x \in Tenant |-> 0]
    /\ passedOver' = {} /\ overtaken' = {}
    /\ turn' = [t \in Turn |-> Idle]
    /\ UNCHANGED <<file, rows, rekeyed, leaked>>

Administer ==
    \/ \E n \in Name, k \in Key :
         \/ \E kind \in Kind : AddProvider(n, kind, k)
         \/ UpdateProvider(n, k)
    \/ \E n \in Name : UpdateProvider(n, NoKey) \/ ToggleProvider(n) \/ DeleteProvider(n)
    \/ \E a \in Agent :
         CreateAgent(a) \/ UpdateAgent(a) \/ UpdateAgentConfig(a) \/ DeleteAgent(a)
    \/ \E x \in Tenant, b \in Budgets : SetBudget(x, b)

Chat(t) ==
    \/ (\E a \in Agent : StartChat(t, a)) \/ StartDirectChat(t)
    \/ Handle(t) \/ Refuse(t) \/ StreamEvents(t)
    \/ Send(t) \/ CallFails(t) \/ \E last \in BOOLEAN : Answer(t, last)

Next == OpenStore \/ Administer \/ Restart \/ \E t \in Turn : Chat(t)

Spec == Init /\ [][Next]_vars

-----------------------------------------------------------------------------
(* What the code is to guarantee.                                           *)

(* An agent's own key (llm_client.py, _set_provider_env_key) is the key its *)
(* calls are sent with, unless another chat has put its own key into the    *)
(* environment in the meantime; and a key marked as imported from the       *)
(* environment is the operator's, unless an agent's chat came before the    *)
(* first request that opened the store.                                     *)
KeysStayHome ==
    /\ \A t \in Turn : LET c == turn[t].config IN
         /\ turn[t].calls > 0 /\ turn[t].client.type = "own"
         /\ c.key # NoKey /\ c.kind \in KeyMapped
         => turn[t].sent = c.key \/ t \in overtaken
    /\ \A n \in Kind, ps \in {providers, Loaded} :
         ps[n] # Absent /\ ps[n].source = "env" => ps[n].key \in {EnvAtStart[n]} \cup leaked

(* A restart loses nothing an admin was told is saved: the providers in     *)
(* memory are those of the file unless its last write failed, and an agent  *)
(* keeps its model settings unless it was saved while they could not be     *)
(* decrypted (provider_store.py _save, agent_repository.py update_agent).   *)
NothingForgotten ==
    /\ opened /\ file # Torn => file = providers
    /\ \A a \in Agent : rows[a] # Absent /\ rows[a].config = NoConfig
                          => Configs[a] = NoConfig \/ a \in rekeyed

(* Every priced answer is charged once to each of the turn's tenants, save  *)
(* those listed behind one over its budget, and no chat gets its answer     *)
(* when the charge took one of its tenants to the budget (middlewares.py,   *)
(* SpendingMiddleware; spending.py).                                        *)
SpendingKept ==
    /\ [](\A x \in Tenant : spent[x] <= due[x] /\ (spent[x] = due[x] \/ x \in passedOver))
    /\ [][\A t \in Turn : /\ turn[t].pc = "sent" /\ turn'[t].pc = "answered"
                          /\ Cost(turn[t].client) > 0
                          => \A x \in Listed(t) : ~Over(x, spent')]_vars

=============================================================================
