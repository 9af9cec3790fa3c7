--------------------------- MODULE LlmClientsProofs ---------------------------
(***************************************************************************)
(* Proofs about LlmClients: whose key a call is sent with, what a restart  *)
(* leaves of the settings, and what the tenants are charged.               *)
(***************************************************************************)
EXTENDS LlmClients, TLAPS

(* A chat with its agent's own client has the agent's key in the           *)
(* environment from the choice of the client on, unless it was overtaken.  *)
OwnKeyInEnv ==
    \A t \in Turn : LET c == turn[t].config IN
      /\ turn[t].client.type = "own" => turn[t].client.pool = {c}
      /\ turn[t].client.type = "own" /\ c.key # NoKey /\ c.kind \in KeyMapped
         => env[c.kind] = c.key \/ t \in overtaken
      /\ turn[t].pc = "read" => turn[t].calls = 0

(* Until the store is opened a key in the environment is the operator's,   *)
(* or an agent's whose chat came first.                                    *)
EnvKnown == ~opened => \A k \in Kind : env[k] \in {EnvAtStart[k]} \cup leaked

(* A provider that is marked as imported has such a key.                   *)
MarkedKnown(ps) ==
    \A n \in Kind : ps[n] # Absent /\ ps[n].source = "env"
                      => ps[n].key \in {EnvAtStart[n]} \cup leaked

-----------------------------------------------------------------------------
(* What the steps put into the variables.                                  *)

(* The admin adds, changes, switches or deletes a provider.                *)
StoreEdit(n) ==
    \/ \E kind \in Kind, k \in Key : AddProvider(n, kind, k)
    \/ \E k \in Key \cup {NoKey} : UpdateProvider(n, k)
    \/ ToggleProvider(n) \/ DeleteProvider(n)

(* An edit of the admin replaces one provider; what it leaves there is not *)
(* marked as imported.                                                     *)
LEMMA EditShape ==
    ASSUME TypeOK, NEW n \in Name, StoreEdit(n)
    PROVE  \E p \in Provider \cup {Absent} :
             /\ Edit([providers EXCEPT ![n] = p])
             /\ p # Absent => p.source = "store"
<1>1. providers[n] \in Provider \cup {Absent}
  BY DEF TypeOK, Providers
<1>2. ASSUME NEW kind \in Kind, NEW k \in Key, AddProvider(n, kind, k)
      PROVE  \E p \in Provider \cup {Absent} :
               /\ Edit([providers EXCEPT ![n] = p])
               /\ p # Absent => p.source = "store"
  <2>1. NewProvider(kind, k) \in Provider /\ NewProvider(kind, k).source = "store"
    BY DEF NewProvider, Provider
  <2>2. QED
    BY <1>2, <2>1 DEF AddProvider
<1>3. ASSUME NEW k \in Key \cup {NoKey}, UpdateProvider(n, k)
      PROVE  \E p \in Provider \cup {Absent} :
               /\ Edit([providers EXCEPT ![n] = p])
               /\ p # Absent => p.source = "store"
  <2> DEFINE p == Updated(providers[n], k, providers[n].enabled)
  <2>1. p \in Provider /\ p.source = "store"
    BY <1>1, <1>3 DEF UpdateProvider, Updated, Provider
  <2>2. Edit([providers EXCEPT ![n] = p])
    BY <1>3 DEF UpdateProvider
  <2>3. QED
    BY <2>1, <2>2
<1>4. CASE ToggleProvider(n)
  <2> DEFINE p == Updated(providers[n], providers[n].key, ~providers[n].enabled)
  <2>1. p \in Provider /\ p.source = "store"
    BY <1>1, <1>4 DEF ToggleProvider, Updated, Provider
  <2>2. Edit([providers EXCEPT ![n] = p])
    BY <1>4 DEF ToggleProvider
  <2>3. QED
    BY <2>1, <2>2
<1>5. CASE DeleteProvider(n)
  BY <1>5 DEF DeleteProvider
<1>6. QED
  BY <1>2, <1>3, <1>4, <1>5 DEF StoreEdit

(* The providers that the file and the environment give have their types.  *)
LEMMA LoadedType == ASSUME TypeOK PROVE Loaded \in Providers
  BY DEF TypeOK, Loaded, Empty, Providers

LEMMA ImportedType == ASSUME TypeOK PROVE Imported \in Providers
<1>1. ASSUME NEW n \in Name, n \in InEnv
      PROVE  [kind |-> n, key |-> env[n], enabled |-> TRUE, source |-> "env"] \in Provider
  BY <1>1, ConstantsTyped DEF InEnv, TypeOK, Provider
<1>2. QED
  BY <1>1 DEF Imported, Providers

(* A chat keeps the client it has; one that is chosen for it has           *)
(* deployments the store knows and is never an agent's own.                *)
LEMMA ClientType ==
    ASSUME TypeOK, NEW t \in Turn, NEW c \in ChosenClients(t)
    PROVE  c \in Clients /\ (c.type # "own" \/ c = turn[t].client)
<1>1. turn[t] \in Turns /\ turn[t].client \in Clients
  BY DEF TypeOK, Turns
<1>2. CASE turn[t].client # NoClient
  BY <1>1, <1>2 DEF ChosenClients
<1>3. CASE turn[t].client = NoClient
  <2> DEFINE names == PriorityOf[turn[t].agent]
  <2>1. ASSUME Prioritised(t), NEW n \in FirstValid(names)
        PROVE  [kind |-> providers[n].kind, key |-> NoKey] \in Deployment
    <3>1. names \in Seq(Name)
      BY <1>1, <2>1, SettingsTyped DEF Prioritised, Turns
    <3>2. n \in Name /\ providers[n] # Absent
      BY <3>1, <2>1 DEF FirstValid, Valid
    <3>3. providers[n] \in Provider
      BY <3>2 DEF TypeOK, Providers
    <3>4. QED
      BY <3>3 DEF Provider, Deployment
  <2>2. ASSUME Prioritised(t), NEW d \in PriorityClients(names)
        PROVE  d \in Clients /\ d.type # "own"
    <3>1. PICK n \in FirstValid(names) :
            d = [type |-> "priority",
                 pool |-> {[kind |-> providers[n].kind, key |-> NoKey]}]
      BY <2>2 DEF PriorityClients
    <3> DEFINE p == [kind |-> providers[n].kind, key |-> NoKey]
    <3>2. p \in Deployment
      BY <2>1, <2>2
    <3>3. d = [type |-> "priority", pool |-> {p}]
      BY <3>1
    <3> HIDE DEF p
    <3>4. QED
      BY <3>2, <3>3 DEF Clients
  <2>3. ActiveDeployments \subseteq Deployment
    BY DEF ActiveDeployments, Deployment, TypeOK, Providers, Provider
  <2>4. ASSUME NEW d \in EnvClients PROVE d \in Clients /\ d.type # "own"
    <3>1. InEnv \subseteq Kind
      BY ConstantsTyped DEF InEnv
    <3>2. CASE InEnv = {}
      BY <2>4, <3>2 DEF EnvClients, Clients
    <3>3. CASE InEnv # {}
      <4>1. PICK k \in InEnv : d = [type |-> "env", pool |-> {[kind |-> k, key |-> NoKey]}]
        BY <2>4, <3>3 DEF EnvClients
      <4> DEFINE p == [kind |-> k, key |-> NoKey]
      <4>2. p \in Deployment
        BY <3>1 DEF Deployment
      <4>3. d = [type |-> "env", pool |-> {p}]
        BY <4>1
      <4> HIDE DEF p
      <4>4. QED
        BY <4>2, <4>3 DEF Clients
    <3>4. QED
      BY <3>2, <3>3
  <2>5. ASSUME NEW d \in FallbackClients PROVE d \in Clients /\ d.type # "own"
    <3>1. CASE ActiveDeployments = {}
      BY <2>4, <2>5, <3>1 DEF FallbackClients
    <3>2. CASE ActiveDeployments # {}
      <4>1. d = [type |-> "router", pool |-> ActiveDeployments]
        BY <2>5, <3>2 DEF FallbackClients
      <4>2. QED
        BY <4>1, <2>3 DEF Clients
    <3>3. QED
      BY <3>1, <3>2
  <2>6. c \in FallbackClients \/ (Prioritised(t) /\ c \in PriorityClients(names))
    BY <1>3 DEF ChosenClients
  <2>7. QED
    BY <2>2, <2>5, <2>6
<1>4. QED
  BY <1>2, <1>3

(* The key that a call is sent with is one of the keys, or none.           *)
LEMMA SentKeyType ==
    ASSUME TypeOK, NEW t \in Turn, NEW d \in turn[t].client.pool
    PROVE  SentKey(turn[t].client, d) \in Key \cup {NoKey}
<1>1. d \in Deployment
  BY DEF TypeOK, Turns, Clients
<1>2. QED
  BY <1>1 DEF SentKey, EnvKey, Deployment, TypeOK

-----------------------------------------------------------------------------
(* Types.                                                                   *)

LEMMA BoundsTyped ==
    /\ DefaultBudget \in Nat /\ MaxCalls \in Nat /\ MaxOps \in Nat
    /\ MaxChats \in Nat /\ Budgets \subseteq Nat
  BY ConstantsTyped

LEMMA IdleType == Idle \in Turns
  BY BoundsTyped DEF Idle, Turns, Config, NoConfig, Clients, NoClient

LEMMA TypeInit == Init => TypeOK
<1> SUFFICES ASSUME Init PROVE TypeOK
  OBVIOUS
<1>1. Idle \in Turns
  BY IdleType
<1>2. Empty \in Providers
  BY DEF Empty, Providers
<1>3. rows \in [Agent -> [config : Config, cipher : Cipher] \cup {Absent}]
  BY SettingsTyped DEF Init
<1>4. count \in [ops : 0 .. MaxOps, chats : 0 .. MaxChats]
  BY ConstantsTyped DEF Init
<1>5. QED
  BY <1>1, <1>2, <1>3, <1>4, ConstantsTyped DEF Init, TypeOK

LEMMA AdminCounts ==
    ASSUME TypeOK, AdminActs
    PROVE  count' \in [ops : 0 .. MaxOps, chats : 0 .. MaxChats]
<1>1. count \in [ops : 0 .. MaxOps, chats : 0 .. MaxChats]
  BY DEF TypeOK
<1>2. count.ops < MaxOps /\ count' = [count EXCEPT !.ops = @ + 1]
  BY DEF AdminActs
<1>3. QED
  BY <1>1, <1>2, BoundsTyped

LEMMA EditTyped ==
    ASSUME TypeOK, NEW n \in Name, NEW p \in Provider \cup {Absent},
           Edit([providers EXCEPT ![n] = p])
    PROVE  TypeOK'
<1>1. [providers EXCEPT ![n] = p] \in Providers
  BY DEF TypeOK, Providers
<1>2. count' \in [ops : 0 .. MaxOps, chats : 0 .. MaxChats]
  BY AdminCounts DEF Edit
<1>3. QED
  BY <1>1, <1>2 DEF TypeOK, Edit, Save, agentVars, moneyVars

LEMMA OpenTyped == ASSUME TypeOK, OpenStore PROVE TypeOK'
<1>1. Empty \in Providers
  BY DEF Empty, Providers
<1>2. /\ providers' \in Providers /\ file' \in Providers \cup {Torn}
      /\ opened' \in BOOLEAN
  BY <1>1, LoadedType, ImportedType DEF OpenStore, Save, TypeOK
<1>3. QED
  BY <1>2 DEF OpenStore, TypeOK, agentVars, moneyVars

LEMMA AgentsTyped ==
    ASSUME TypeOK, NEW a \in Agent,
           CreateAgent(a) \/ UpdateAgent(a) \/ UpdateAgentConfig(a) \/ DeleteAgent(a)
    PROVE  TypeOK'
<1>1. Configs[a] \in Config
  BY SettingsTyped
<1>2. ASSUME rows[a] # Absent PROVE KeptConfig(a) \in Config
  BY <1>2 DEF KeptConfig, Decrypted, TypeOK, Config
<1>3. PICK row \in [config : Config, cipher : Cipher] \cup {Absent} : SetRow(a, row)
  <2>1. CASE CreateAgent(a)
    BY <2>1, <1>1 DEF CreateAgent, NewRow, Encrypted, TypeOK
  <2>2. CASE UpdateAgent(a)
    BY <2>2, <1>2 DEF UpdateAgent, Encrypted, TypeOK
  <2>3. CASE UpdateAgentConfig(a)
    BY <2>3, <1>1 DEF UpdateAgentConfig, Encrypted, TypeOK
  <2>4. CASE DeleteAgent(a)
    BY <2>4 DEF DeleteAgent
  <2>5. QED
    BY <2>1, <2>2, <2>3, <2>4
<1>4. rekeyed' \subseteq Agent
  BY DEF TypeOK, CreateAgent, UpdateAgent, UpdateAgentConfig, DeleteAgent
<1>5. count' \in [ops : 0 .. MaxOps, chats : 0 .. MaxChats]
  BY <1>3, AdminCounts DEF SetRow
<1>6. QED
  BY <1>3, <1>4, <1>5 DEF SetRow, TypeOK, keyVars, moneyVars

LEMMA RestartTyped == ASSUME TypeOK, Restart PROVE TypeOK'
<1>1. Idle \in Turns
  BY IdleType
<1>2. Empty \in Providers
  BY DEF Empty, Providers
<1>3. count' \in [ops : 0 .. MaxOps, chats : 0 .. MaxChats]
  BY AdminCounts DEF Restart
<1>4. QED
  BY <1>1, <1>2, <1>3, ConstantsTyped DEF Restart, TypeOK

(* What a step of a chat does to the chat itself.                          *)
LEMMA StartTyped ==
    ASSUME TypeOK, NEW t \in Turn, NEW a \in Agent \cup {Direct},
           NEW config \in Config, Starts(t, a, config)
    PROVE  TypeOK'
<1> DEFINE r == [Idle EXCEPT !.pc = "read", !.agent = a, !.config = config]
<1>1. r \in Turns
  BY IdleType DEF Turns
<1>2. turn' = [turn EXCEPT ![t] = r]
  BY DEF Starts
<1>3. turn' \in [Turn -> Turns]
  <2> HIDE DEF r
  <2>1. QED
    BY <1>1, <1>2 DEF TypeOK
<1>4. count' \in [ops : 0 .. MaxOps, chats : 0 .. MaxChats]
  <2>1. count \in [ops : 0 .. MaxOps, chats : 0 .. MaxChats]
    BY DEF TypeOK
  <2>2. count.chats < MaxChats /\ count' = [count EXCEPT !.chats = @ + 1]
    BY DEF Starts
  <2>3. QED
    BY <2>1, <2>2, BoundsTyped
<1>5. QED
  BY <1>3, <1>4 DEF Starts, TypeOK, keyVars, agentVars, moneyVars

LEMMA HandleTyped == ASSUME TypeOK, NEW t \in Turn, Handle(t) PROVE TypeOK'
<1>1. turn[t] \in Turns
  BY DEF TypeOK
<1>2. CASE Owned(t)
  <2> DEFINE own == turn[t].config
             c == [type |-> "own", pool |-> {own}]
  <2>1. own \in Deployment /\ own.kind \in Kind /\ own.key \in Key \cup {NoKey}
    BY <1>1, <1>2 DEF Owned, Turns, Config, Deployment
  <2>2. c \in Clients
    BY <2>1 DEF Clients
  <2>3. turn' = [turn EXCEPT ![t].pc = "stream", ![t].client = c]
    BY <1>2 DEF Handle, CreateOwnClient
  <2>4. turn' \in [Turn -> Turns]
    <3> HIDE DEF c
    <3>1. QED
      BY <1>1, <2>2, <2>3 DEF TypeOK, Turns
  <2>5. env' \in [Kind -> Key \cup {NoKey}]
    BY <1>2, <2>1 DEF Handle, CreateOwnClient, SetEnvKey, TypeOK
  <2>6. leaked' \subseteq Key /\ overtaken' \subseteq Turn
    BY <1>2, <2>1 DEF Handle, CreateOwnClient, TypeOK
  <2>7. UNCHANGED <<opened, providers, file, agentVars, moneyVars, count>>
    BY <1>2 DEF Handle, CreateOwnClient
  <2>8. QED
    BY <2>4, <2>5, <2>6, <2>7 DEF TypeOK, agentVars, moneyVars
<1>3. CASE ~Owned(t)
  <2>1. turn' = [turn EXCEPT ![t].pc = "stream"]
    BY <1>3 DEF Handle
  <2>2. turn' \in [Turn -> Turns]
    BY <1>1, <2>1 DEF TypeOK, Turns
  <2>3. QED
    BY <1>3, <2>2 DEF Handle, TypeOK, keyVars, agentVars, moneyVars
<1>4. QED
  BY <1>2, <1>3

LEMMA StepsTyped ==
    ASSUME TypeOK, NEW t \in Turn, Refuse(t) \/ StreamEvents(t) \/ Send(t) \/ CallFails(t)
    PROVE  TypeOK'
<1>1. turn[t] \in Turns
  BY DEF TypeOK
<1>2. PICK r \in Turns : turn' = [turn EXCEPT ![t] = r]
  <2>1. CASE Refuse(t)
    <3>1. [Idle EXCEPT !.pc = "failed"] \in Turns
      BY IdleType DEF Turns
    <3>2. QED
      BY <2>1, <3>1 DEF Refuse
  <2>2. CASE StreamEvents(t)
    <3>1. PICK c \in ChosenClients(t) :
            turn' = [turn EXCEPT ![t].pc = "ready", ![t].client = c]
      BY <2>2 DEF StreamEvents
    <3> DEFINE r == [turn[t] EXCEPT !.pc = "ready", !.client = c]
    <3>2. r \in Turns
      BY <1>1, <3>1, ClientType DEF Turns
    <3>3. turn' = [turn EXCEPT ![t] = r]
      BY <3>1
    <3>4. QED
      BY <3>2, <3>3
  <2>3. CASE Send(t)
    <3>1. PICK k : /\ k \in IF turn[t].client.pool = {} THEN {NoKey}
                            ELSE {SentKey(turn[t].client, d) : d \in turn[t].client.pool}
                   /\ turn' = [turn EXCEPT ![t].pc = "sent", ![t].calls = @ + 1, ![t].sent = k]
      BY <2>3 DEF Send
    <3>2. k \in Key \cup {NoKey}
      BY <3>1, SentKeyType
    <3>3. turn[t].calls + 1 \in 0 .. MaxCalls
      BY <1>1, <2>3, BoundsTyped DEF Send, Turns
    <3> DEFINE r == [turn[t] EXCEPT !.pc = "sent", !.calls = @ + 1, !.sent = k]
    <3>4. r \in Turns
      BY <1>1, <3>2, <3>3 DEF Turns
    <3>5. turn' = [turn EXCEPT ![t] = r]
      BY <3>1
    <3>6. QED
      BY <3>4, <3>5
  <2>4. CASE CallFails(t)
    <3> DEFINE r == [turn[t] EXCEPT !.pc = "failed"]
    <3>1. r \in Turns
      BY <1>1 DEF Turns
    <3>2. turn' = [turn EXCEPT ![t] = r]
      BY <2>4 DEF CallFails
    <3>3. QED
      BY <3>1, <3>2
  <2>5. QED
    BY <2>1, <2>2, <2>3, <2>4
<1>3. turn' \in [Turn -> Turns]
  BY <1>2 DEF TypeOK
<1>4. UNCHANGED <<keyVars, agentVars, moneyVars, count, overtaken>>
  BY DEF Refuse, StreamEvents, Send, CallFails
<1>5. QED
  BY <1>3, <1>4 DEF TypeOK, keyVars, agentVars, moneyVars

(* The tenants of a chat are tenants, and so are those it charges.         *)
LEMMA TenantsTyped ==
    ASSUME TypeOK, NEW t \in Turn, NEW cost
    PROVE  Hit(t, cost) \subseteq Listed(t) /\ Listed(t) \subseteq Tenant
<1>1. TenantsOfTurn(t) \in Seq(Tenant)
  <2>1. turn[t].agent \in Agent \cup {Direct}
    BY DEF TypeOK, Turns
  <2>2. QED
    BY <2>1, SettingsTyped DEF TenantsOfTurn
<1>2. QED
  BY <1>1 DEF Hit, Reached, Listed

(* What an answer does to the spending.                                    *)
LEMMA AnswerCharges ==
    ASSUME TypeOK, NEW t \in Turn, NEW last \in BOOLEAN, Answer(t, last)
    PROVE  \E cost \in Nat, X \in SUBSET Tenant :
             /\ spent' = [x \in Tenant |-> spent[x] + IF x \in X THEN cost ELSE 0]
             /\ \E Y \in SUBSET Tenant :
                  /\ X \subseteq Y
                  /\ due' = [x \in Tenant |-> due[x] + IF x \in Y THEN cost ELSE 0]
                  /\ cost > 0 => passedOver' = passedOver \cup (Y \ X)
                  /\ cost = 0 => passedOver' = passedOver
             /\ budget' = budget
<1> DEFINE cost == Cost(turn[t].client)
           X == Hit(t, cost)
           Y == Listed(t)
<1>1. cost \in Nat
  BY DEF Cost, Priced, Unpriced
<1>2. X \subseteq Y /\ Y \subseteq Tenant
  BY TenantsTyped
<1>3. /\ spent \in [Tenant -> Nat] /\ due \in [Tenant -> Nat]
  BY DEF TypeOK
<1>4. CASE cost = 0
  <2>1. spent' = spent /\ due' = due /\ passedOver' = passedOver /\ budget' = budget
    BY <1>4 DEF Answer, moneyVars
  <2>2. /\ spent' = [x \in Tenant |-> spent[x] + IF x \in X THEN 0 ELSE 0]
        /\ due' = [x \in Tenant |-> due[x] + IF x \in Y THEN 0 ELSE 0]
    BY <1>3, <2>1
  <2> HIDE DEF cost, X, Y
  <2>3. QED
    BY <1>1, <1>2, <1>4, <2>1, <2>2
<1>5. CASE cost # 0
  <2>1. /\ spent' = Charged(X, cost)
        /\ due' = [x \in Tenant |-> due[x] + IF x \in Y THEN cost ELSE 0]
        /\ passedOver' = passedOver \cup (Y \ X)
        /\ budget' = budget
    BY <1>5 DEF Answer
  <2>2. spent' = [x \in Tenant |-> spent[x] + IF x \in X THEN cost ELSE 0]
    BY <2>1 DEF Charged
  <2> HIDE DEF cost, X, Y
  <2>3. QED
    BY <1>1, <1>2, <1>5, <2>1, <2>2
<1>6. QED
  BY <1>4, <1>5

LEMMA AnswerTyped ==
    ASSUME TypeOK, NEW t \in Turn, NEW last \in BOOLEAN, Answer(t, last)
    PROVE  TypeOK'
<1>1. turn[t] \in Turns
  BY DEF TypeOK
<1>2. turn' \in [Turn -> Turns]
  <2>1. PICK pc \in {"ready", "refused", "answered"} : turn' = [turn EXCEPT ![t].pc = pc]
    BY DEF Answer
  <2>2. [turn[t] EXCEPT !.pc = pc] \in Turns
    BY <1>1 DEF Turns
  <2>3. QED
    BY <2>1, <2>2 DEF TypeOK
<1>3. /\ spent' \in [Tenant -> Nat] /\ due' \in [Tenant -> Nat]
      /\ budget' = budget /\ passedOver' \subseteq Tenant
  BY AnswerCharges DEF TypeOK
<1>4. UNCHANGED <<keyVars, agentVars, count, overtaken>>
  BY DEF Answer
<1>5. QED
  BY <1>2, <1>3, <1>4 DEF TypeOK, keyVars, agentVars

LEMMA BudgetTyped ==
    ASSUME TypeOK, NEW x \in Tenant, NEW b \in Budgets, SetBudget(x, b) PROVE TypeOK'
<1>1. count' \in [ops : 0 .. MaxOps, chats : 0 .. MaxChats]
  BY AdminCounts DEF SetBudget
<1>2. QED
  BY <1>1 DEF SetBudget, TypeOK, keyVars, agentVars

LEMMA TypeStep == TypeOK /\ [Next]_vars => TypeOK'
<1> SUFFICES ASSUME TypeOK, [Next]_vars PROVE TypeOK'
  OBVIOUS
<1>1. CASE OpenStore
  BY <1>1, OpenTyped
<1>2. ASSUME NEW n \in Name, StoreEdit(n) PROVE TypeOK'
  BY <1>2, EditShape, EditTyped
<1>3. ASSUME NEW a \in Agent,
             CreateAgent(a) \/ UpdateAgent(a) \/ UpdateAgentConfig(a) \/ DeleteAgent(a)
      PROVE  TypeOK'
  BY <1>3, AgentsTyped
<1>4. ASSUME NEW x \in Tenant, NEW b \in Budgets, SetBudget(x, b) PROVE TypeOK'
  BY <1>4, BudgetTyped
<1>5. CASE Restart
  BY <1>5, RestartTyped
<1>6. ASSUME NEW t \in Turn, Chat(t) PROVE TypeOK'
  <2>1. ASSUME NEW a \in Agent, StartChat(t, a) PROVE TypeOK'
    <3>1. Decrypted(rows[a]) \in Config
      BY <2>1 DEF StartChat, Decrypted, TypeOK, Config
    <3>2. QED
      BY <2>1, <3>1, StartTyped DEF StartChat
  <2>2. CASE StartDirectChat(t)
    <3>1. NoConfig \in Config /\ Direct \in Agent \cup {Direct}
      BY DEF Config
    <3>2. QED
      BY <2>2, <3>1, StartTyped DEF StartDirectChat
  <2>3. CASE Handle(t)
    BY <2>3, HandleTyped
  <2>4. CASE Refuse(t) \/ StreamEvents(t) \/ Send(t) \/ CallFails(t)
    BY <2>4, StepsTyped
  <2>5. ASSUME NEW last \in BOOLEAN, Answer(t, last) PROVE TypeOK'
    BY <2>5, AnswerTyped
  <2>6. QED
    BY <1>6, <2>1, <2>2, <2>3, <2>4, <2>5 DEF Chat
<1>7. CASE UNCHANGED vars
  BY <1>7 DEF TypeOK, vars, keyVars, agentVars, moneyVars
<1>8. QED
  BY <1>1, <1>2, <1>3, <1>4, <1>5, <1>6, <1>7 DEF Next, Administer, StoreEdit

(* The variables keep the shapes of the stores, the chats and the charges. *)
THEOREM TypeCorrect == Spec => []TypeOK
  BY TypeInit, TypeStep, PTL DEF Spec

-----------------------------------------------------------------------------
(* Charges.                                                                 *)

(* A tenant is not charged for less than what it owes, unless passed over. *)
ChargedInFull ==
    \A x \in Tenant : spent[x] <= due[x] /\ (spent[x] = due[x] \/ x \in passedOver)

(* The step of an answer without a refusal leaves the tenants under their  *)
(* budgets.                                                                *)
AnswerInBudget ==
    \A t \in Turn : /\ turn[t].pc = "sent" /\ turn'[t].pc = "answered"
                    /\ Cost(turn[t].client) > 0
                    => \A x \in Listed(t) : ~Over(x, spent')

(* The steps that touch the spending are answers, budgets and restarts.    *)
LEMMA MoneyKept ==
    ASSUME TypeOK, [Next]_vars,
           \A t \in Turn, last \in BOOLEAN : ~Answer(t, last), ~Restart
    PROVE  spent' = spent /\ due' = due /\ passedOver' = passedOver
<1>1. ASSUME NEW n \in Name, StoreEdit(n) PROVE UNCHANGED <<spent, due, passedOver>>
  BY <1>1, EditShape DEF Edit, moneyVars
<1>2. QED
  BY <1>1 DEF Next, Administer, StoreEdit, vars, moneyVars, OpenStore, CreateAgent,
       UpdateAgent, UpdateAgentConfig, DeleteAgent, SetRow, SetBudget, Chat,
       StartChat, StartDirectChat, Starts, Handle, Refuse, StreamEvents, Send, CallFails

LEMMA ChargesStep == TypeOK /\ ChargedInFull /\ [Next]_vars => ChargedInFull'
<1> SUFFICES ASSUME TypeOK, ChargedInFull, [Next]_vars PROVE ChargedInFull'
  OBVIOUS
<1>1. ASSUME NEW t \in Turn, NEW last \in BOOLEAN, Answer(t, last)
      PROVE  ChargedInFull'
  <2>1. PICK cost \in Nat, X \in SUBSET Tenant, Y \in SUBSET Tenant :
          /\ spent' = [x \in Tenant |-> spent[x] + IF x \in X THEN cost ELSE 0]
          /\ X \subseteq Y
          /\ due' = [x \in Tenant |-> due[x] + IF x \in Y THEN cost ELSE 0]
          /\ cost > 0 => passedOver' = passedOver \cup (Y \ X)
          /\ cost = 0 => passedOver' = passedOver
    BY <1>1, AnswerCharges
  <2>2. spent \in [Tenant -> Nat] /\ due \in [Tenant -> Nat]
    BY DEF TypeOK
  <2>3. QED
    BY <2>1, <2>2 DEF ChargedInFull
<1>2. CASE Restart
  BY <1>2 DEF Restart, ChargedInFull
<1>3. CASE /\ \A t \in Turn, last \in BOOLEAN : ~Answer(t, last)
           /\ ~Restart
  BY <1>3, MoneyKept DEF ChargedInFull
<1>4. QED
  BY <1>1, <1>2, <1>3

(* A chat that no tenant refuses has charged each of them.                 *)
LEMMA UnrefusedHit ==
    ASSUME TypeOK, NEW t \in Turn, NEW cost, Refusing(t, cost) = {}
    PROVE  /\ Hit(t, cost) = Listed(t)
           /\ \A x \in Listed(t) : ~Over(x, Charged(Listed(t), cost))
  BY DEF Hit, Reached, Listed, Refusing

LEMMA AnswersStep == TypeOK /\ [Next]_vars => AnswerInBudget
<1> SUFFICES ASSUME TypeOK, [Next]_vars, NEW t \in Turn,
                    turn[t].pc = "sent", turn'[t].pc = "answered",
                    Cost(turn[t].client) > 0
             PROVE  \A x \in Listed(t) : ~Over(x, spent')
  BY DEF AnswerInBudget
<1> DEFINE cost == Cost(turn[t].client)
<1>1. turn \in [Turn -> Turns]
  BY DEF TypeOK
<1>2. ASSUME NEW u \in Turn, NEW last \in BOOLEAN, Answer(u, last)
      PROVE  \A x \in Listed(t) : ~Over(x, spent')
  <2>1. u = t
    BY <1>1, <1>2 DEF Answer
  <2>2. Refusing(t, cost) = {}
    BY <1>1, <1>2, <2>1 DEF Answer
  <2>3. spent' = Charged(Hit(t, cost), cost)
    BY <1>2, <2>1 DEF Answer
  <2>4. QED
    BY <2>2, <2>3, UnrefusedHit
<1>3. ASSUME \A u \in Turn, last \in BOOLEAN : ~Answer(u, last)
      PROVE  FALSE
  <2>1. ASSUME NEW n \in Name, StoreEdit(n) PROVE turn' = turn
    BY <2>1, EditShape DEF Edit
  <2>2. CASE turn' = turn
    BY <2>2
  <2>3. CASE Restart
    BY <2>3 DEF Restart, Idle
  <2>4. ASSUME NEW u \in Turn, Chat(u) PROVE FALSE
    <3>1. CASE u # t
      BY <1>1, <1>3, <2>4, <3>1 DEF Chat, StartChat, StartDirectChat, Starts, Handle,
           CreateOwnClient, Refuse, StreamEvents, Send, CallFails
    <3>2. CASE u = t
      <4>1. CASE CallFails(t)
        BY <1>1, <4>1 DEF CallFails
      <4>2. CASE ~CallFails(t)
        BY <1>3, <2>4, <3>2, <4>2 DEF Chat, StartChat, StartDirectChat, Starts, Handle,
             Refuse, StreamEvents, Send, At
      <4>3. QED
        BY <4>1, <4>2
    <3>3. QED
      BY <3>1, <3>2
  <2>5. QED
    BY <2>1, <2>2, <2>3, <2>4 DEF Next, Administer, StoreEdit, vars, OpenStore,
         CreateAgent, UpdateAgent, UpdateAgentConfig, DeleteAgent, SetRow, SetBudget
<1>4. QED
  BY <1>2, <1>3

(* Every priced answer is charged once to each tenant of the chat, save    *)
(* those behind one over its budget, and none of them is at its budget     *)
(* when the chat gets its answer.                                          *)
THEOREM ChargesKept == Spec => SpendingKept
<1>1. Init => ChargedInFull
  BY DEF Init, ChargedInFull
<1>2. Spec => []ChargedInFull
  BY <1>1, ChargesStep, TypeCorrect, PTL DEF Spec
<1>3. Spec => [][AnswerInBudget]_vars
  BY AnswersStep, TypeCorrect, PTL DEF Spec
<1>4. QED
  BY <1>2, <1>3, PTL DEF SpendingKept, ChargedInFull, AnswerInBudget

-----------------------------------------------------------------------------
(* What is saved.                                                           *)

LEMMA StoreSaved ==
    ASSUME TypeOK, NothingForgotten, [Next]_vars
    PROVE  opened' /\ file' # Torn => file' = providers'
<1>1. ASSUME NEW n \in Name, StoreEdit(n) PROVE file' \in {providers', Torn}
  BY <1>1, EditShape DEF Edit, Save
<1>2. CASE OpenStore
  BY <1>2 DEF OpenStore, Loaded, Save
<1>3. CASE Restart
  BY <1>3 DEF Restart
<1>4. CASE UNCHANGED <<opened, file, providers>>
  BY <1>4 DEF NothingForgotten
<1>5. QED
  BY <1>1, <1>2, <1>3, <1>4 DEF Next, Administer, StoreEdit, vars, keyVars,
       CreateAgent, UpdateAgent, UpdateAgentConfig, DeleteAgent, SetRow, SetBudget,
       Chat, StartChat, StartDirectChat, Starts, Handle, CreateOwnClient, Refuse,
       StreamEvents, Send, CallFails, Answer

LEMMA AgentsSaved ==
    ASSUME TypeOK, NothingForgotten, [Next]_vars, NEW b \in Agent,
           rows'[b] # Absent, rows'[b].config = NoConfig
    PROVE  Configs[b] = NoConfig \/ b \in rekeyed'
<1>1. rows \in [Agent -> [config : Config, cipher : Cipher] \cup {Absent}]
  BY DEF TypeOK
<1>2. ASSUME NEW a \in Agent, CreateAgent(a) \/ UpdateAgentConfig(a)
      PROVE  Configs[b] = NoConfig \/ b \in rekeyed'
  <2>1. /\ rows' = [rows EXCEPT ![a] = Encrypted(Configs[a])]
        /\ rekeyed' = rekeyed \ {a}
    BY <1>2 DEF CreateAgent, UpdateAgentConfig, SetRow, NewRow
  <2>2. CASE a = b
    BY <1>1, <2>1, <2>2 DEF Encrypted
  <2>3. CASE a # b
    BY <1>1, <2>1, <2>3 DEF NothingForgotten
  <2>4. QED
    BY <2>2, <2>3
<1>3. ASSUME NEW a \in Agent, UpdateAgent(a)
      PROVE  Configs[b] = NoConfig \/ b \in rekeyed'
  <2>1. /\ rows[a] # Absent
        /\ rows' = [rows EXCEPT ![a] = Encrypted(Decrypted(rows[a]))]
        /\ rekeyed' = IF rows[a].cipher = cipher THEN rekeyed ELSE rekeyed \cup {a}
    BY <1>3 DEF UpdateAgent, SetRow, KeptConfig
  <2>2. CASE a = b
    BY <1>1, <2>1, <2>2 DEF Encrypted, Decrypted, NothingForgotten
  <2>3. CASE a # b
    BY <1>1, <2>1, <2>3 DEF NothingForgotten
  <2>4. QED
    BY <2>2, <2>3
<1>4. ASSUME NEW a \in Agent, DeleteAgent(a)
      PROVE  Configs[b] = NoConfig \/ b \in rekeyed'
  BY <1>1, <1>4 DEF DeleteAgent, SetRow, NothingForgotten
<1>5. CASE UNCHANGED <<rows, rekeyed>>
  BY <1>5 DEF NothingForgotten
<1>6. ASSUME NEW n \in Name, StoreEdit(n) PROVE UNCHANGED <<rows, rekeyed>>
  BY <1>6, EditShape DEF Edit, agentVars
<1>7. QED
  BY <1>2, <1>3, <1>4, <1>5, <1>6 DEF Next, Administer, StoreEdit, vars, agentVars,
       OpenStore, Restart, SetBudget, Chat, StartChat, StartDirectChat, Starts,
       Handle, Refuse, StreamEvents, Send, CallFails, Answer

(* A restart loses no provider unless the last write failed, and an agent  *)
(* its model settings only if it was saved while they could not be read.   *)
THEOREM SettingsKept == Spec => []NothingForgotten
<1>1. Init => NothingForgotten
  BY DEF Init, NothingForgotten
<1>2. TypeOK /\ NothingForgotten /\ [Next]_vars => NothingForgotten'
  BY StoreSaved, AgentsSaved DEF NothingForgotten
<1>3. QED
  BY <1>1, <1>2, TypeCorrect, PTL DEF Spec

-----------------------------------------------------------------------------
(* Keys.                                                                    *)

(* What KeysStayHome says of the calls.                                    *)
SentKeys ==
    \A t \in Turn : LET c == turn[t].config IN
      /\ turn[t].calls > 0 /\ turn[t].client.type = "own"
      /\ c.key # NoKey /\ c.kind \in KeyMapped
      => turn[t].sent = c.key \/ t \in overtaken

ChatKeys == OwnKeyInEnv /\ SentKeys
StoreKeys == EnvKnown /\ MarkedKnown(providers) /\ MarkedKnown(Loaded)

LEMMA StoreKeysStep == TypeOK /\ StoreKeys /\ [Next]_vars => StoreKeys'
<1> SUFFICES ASSUME TypeOK, StoreKeys, [Next]_vars PROVE StoreKeys'
  OBVIOUS
<1>1. /\ env \in [Kind -> Key \cup {NoKey}] /\ leaked \subseteq Key
      /\ providers \in Providers /\ Loaded \in Providers /\ Kind \subseteq Name
  BY LoadedType, ConstantsTyped DEF TypeOK
<1>2. MarkedKnown(Empty)
  BY <1>1 DEF MarkedKnown, Empty
<1>3. CASE OpenStore
  <2>1. UNCHANGED <<env, leaked>>
    BY <1>3 DEF OpenStore
  <2>2. ~opened => MarkedKnown(Imported)
    <3>1. SUFFICES ASSUME ~opened, NEW n \in Kind, Imported[n] # Absent
                   PROVE  Imported[n].key \in {EnvAtStart[n]} \cup leaked
      BY DEF MarkedKnown
    <3>2. n \in InEnv /\ Imported[n].key = env[n]
      BY <1>1, <3>1 DEF Imported
    <3>3. QED
      BY <3>1, <3>2 DEF StoreKeys, EnvKnown
  <2>3. /\ providers' \in {Loaded, Imported, Empty}
        /\ file' \in {file, Imported, Torn} /\ ~opened
    BY <1>3 DEF OpenStore, Save
  <2>4. Loaded' \in {Loaded, Imported, Empty}
    BY <2>3 DEF Loaded
  <2>5. MarkedKnown(providers') /\ MarkedKnown(Loaded')
    BY <1>2, <2>2, <2>3, <2>4 DEF StoreKeys
  <2>6. QED
    BY <2>1, <2>3, <2>5 DEF StoreKeys, EnvKnown, MarkedKnown
<1>4. ASSUME NEW n \in Name, StoreEdit(n) PROVE StoreKeys'
  <2>1. PICK p \in Provider \cup {Absent} :
          /\ Edit([providers EXCEPT ![n] = p])
          /\ p # Absent => p.source = "store"
    BY <1>4, EditShape
  <2>2. MarkedKnown([providers EXCEPT ![n] = p])
    BY <1>1, <2>1 DEF MarkedKnown, StoreKeys, Providers
  <2>3. /\ providers' = [providers EXCEPT ![n] = p]
        /\ Loaded' \in {providers', Empty}
        /\ UNCHANGED <<env, opened, leaked>>
    BY <2>1 DEF Edit, Save, Loaded
  <2>4. MarkedKnown(providers') /\ MarkedKnown(Loaded')
    BY <1>2, <2>2, <2>3
  <2>5. QED
    BY <2>3, <2>4 DEF StoreKeys, EnvKnown, MarkedKnown
<1>5. CASE Restart
  <2>1. /\ env' = EnvAtStart /\ providers' = Empty
        /\ UNCHANGED <<file, leaked>>
    BY <1>5 DEF Restart
  <2>2. Loaded' = Loaded
    BY <2>1 DEF Loaded
  <2>3. QED
    BY <1>2, <2>1, <2>2 DEF StoreKeys, EnvKnown, MarkedKnown
<1>6. ASSUME NEW t \in Turn, Handle(t), Owned(t) PROVE StoreKeys'
  <2> DEFINE own == turn[t].config
  <2>1. /\ env' = IF own.key # NoKey /\ own.kind \in KeyMapped
                  THEN [env EXCEPT ![own.kind] = own.key] ELSE env
        /\ leaked' = IF opened \/ own.key = NoKey THEN leaked ELSE leaked \cup {own.key}
        /\ UNCHANGED <<opened, providers, file>>
    BY <1>6 DEF Handle, CreateOwnClient, SetEnvKey
  <2>2. Loaded' = Loaded
    BY <2>1 DEF Loaded
  <2>3. EnvKnown'
    BY <1>1, <2>1 DEF StoreKeys, EnvKnown
  <2>4. leaked \subseteq leaked'
    BY <2>1
  <2>5. MarkedKnown(providers)' /\ MarkedKnown(Loaded)'
    BY <2>1, <2>2, <2>4 DEF StoreKeys, MarkedKnown
  <2>6. QED
    BY <2>3, <2>5 DEF StoreKeys
<1>7. CASE UNCHANGED keyVars
  <2>1. Loaded' = Loaded
    BY <1>7 DEF Loaded, keyVars
  <2>2. QED
    BY <1>7, <2>1 DEF StoreKeys, EnvKnown, MarkedKnown, keyVars
<1>8. QED
  BY <1>3, <1>4, <1>5, <1>6, <1>7 DEF Next, Administer, StoreEdit, vars,
       CreateAgent, UpdateAgent, UpdateAgentConfig, DeleteAgent, SetRow, SetBudget,
       Chat, StartChat, StartDirectChat, Starts, Handle, Refuse,
       StreamEvents, Send, CallFails, Answer

(* The part of ChatKeys about one chat.                                    *)
KeysOf(t, r, e, o) ==
    /\ r.client.type = "own" => r.client.pool = {r.config}
    /\ r.client.type = "own" /\ r.config.key # NoKey /\ r.config.kind \in KeyMapped
       => /\ e[r.config.kind] = r.config.key \/ t \in o
          /\ r.calls > 0 => r.sent = r.config.key \/ t \in o
    /\ r.pc = "read" => r.calls = 0

LEMMA ChatKeysAre == ChatKeys <=> \A t \in Turn : KeysOf(t, turn[t], env, overtaken)
  BY DEF ChatKeys, OwnKeyInEnv, SentKeys, KeysOf

(* A step of one chat that keeps the environment leaves the others alone.  *)
LEMMA OneChat ==
    ASSUME TypeOK, ChatKeys, NEW t \in Turn, NEW r,
           turn' = [turn EXCEPT ![t] = r], env' = env,
           overtaken' = overtaken \/ overtaken' = overtaken \ {t},
           KeysOf(t, r, env, overtaken')
    PROVE  ChatKeys'
<1>1. turn \in [Turn -> Turns]
  BY DEF TypeOK
<1>2. \A u \in Turn : KeysOf(u, turn[u], env, overtaken)
  BY ChatKeysAre
<1>3. ASSUME NEW u \in Turn PROVE KeysOf(u, turn'[u], env', overtaken')
  <2>1. CASE u = t
    BY <1>1, <2>1
  <2>2. CASE u # t
    <3>1. turn'[u] = turn[u] /\ env' = env /\ (u \in overtaken' <=> u \in overtaken)
      BY <1>1, <2>2
    <3>2. KeysOf(u, turn[u], env, overtaken)
      BY <1>2
    <3>3. QED
      BY <3>1, <3>2 DEF KeysOf
  <2>3. QED
    BY <2>1, <2>2
<1>4. QED
  BY <1>3 DEF ChatKeys, OwnKeyInEnv, SentKeys, KeysOf

LEMMA HandleKeys ==
    ASSUME TypeOK, ChatKeys, NEW t \in Turn, Handle(t)
    PROVE  ChatKeys'
<1>1. /\ turn \in [Turn -> Turns] /\ turn[t] \in Turns
      /\ env \in [Kind -> Key \cup {NoKey}]
  BY DEF TypeOK
<1>2. \A u \in Turn : KeysOf(u, turn[u], env, overtaken)
  BY ChatKeysAre
<1>3. CASE ~Owned(t)
  <2> DEFINE r == [turn[t] EXCEPT !.pc = "stream"]
  <2>1. turn' = [turn EXCEPT ![t] = r] /\ env' = env /\ overtaken' = overtaken
    BY <1>1, <1>3 DEF Handle, keyVars
  <2>2. KeysOf(t, r, env, overtaken')
    BY <1>1, <1>2, <2>1 DEF KeysOf, Turns
  <2> HIDE DEF r
  <2>3. QED
    BY <2>1, <2>2, OneChat
<1>4. CASE Owned(t)
  <2> DEFINE own == turn[t].config
             c == [type |-> "own", pool |-> {own}]
             replaced == {u \in Turn \ {t} : /\ turn[u].client.type = "own"
                                             /\ turn[u].config.kind = own.kind}
  <2>1. /\ turn' = [turn EXCEPT ![t].pc = "stream", ![t].client = c]
        /\ env' = IF own.key # NoKey /\ own.kind \in KeyMapped
                  THEN [env EXCEPT ![own.kind] = own.key] ELSE env
        /\ overtaken' = IF env' = env THEN overtaken ELSE overtaken \cup replaced
        /\ turn[t].pc = "read"
    BY <1>4 DEF Handle, CreateOwnClient, SetEnvKey, At
  <2>2. own.kind \in Kind
    BY <1>1, <1>4 DEF Owned, Turns, Config
  <2>3. ASSUME NEW u \in Turn PROVE KeysOf(u, turn'[u], env', overtaken')
    <3>0. KeysOf(u, turn[u], env, overtaken) /\ turn[u] \in Turns
      BY <1>1, <1>2
    <3>1. CASE u = t
      <4>1. turn'[t] = [turn[t] EXCEPT !.pc = "stream", !.client = c]
        BY <1>1, <2>1
      <4>2. /\ turn'[t].pc = "stream" /\ turn'[t].client = c
            /\ turn'[t].config = own /\ turn'[t].calls = turn[t].calls
        BY <1>1, <4>1 DEF Turns
      <4>3. turn[t].calls = 0
        BY <1>2, <2>1 DEF KeysOf
      <4>4. own.key # NoKey /\ own.kind \in KeyMapped => env'[own.kind] = own.key
        BY <1>1, <2>1, <2>2
      <4>5. QED
        BY <3>1, <4>2, <4>3, <4>4 DEF KeysOf
    <3>2. CASE u # t
      <4>1. turn'[u] = turn[u]
        BY <1>1, <2>1, <3>2
      <4>2. CASE env' = env
        BY <2>1, <3>0, <4>1, <4>2 DEF KeysOf
      <4>3. CASE env' # env
        <5>1. overtaken' = overtaken \cup replaced
          BY <2>1, <4>3
        <5>2. env' = [env EXCEPT ![own.kind] = own.key]
          BY <2>1, <4>3
        <5>3. CASE turn[u].client.type = "own" /\ turn[u].config.kind = own.kind
          BY <3>0, <3>2, <4>1, <5>1, <5>3 DEF KeysOf
        <5>4. CASE turn[u].client.type # "own"
          BY <3>0, <4>1, <5>4 DEF KeysOf
        <5>5. CASE turn[u].config.kind # own.kind
          <6>1. turn[u].config.kind \in KeyMapped =>
                  env'[turn[u].config.kind] = env[turn[u].config.kind]
            BY <1>1, <5>2, <5>5, ConstantsTyped
          <6>2. QED
            BY <3>0, <4>1, <5>1, <6>1 DEF KeysOf
        <5>6. QED
          BY <5>3, <5>4, <5>5
      <4>4. QED
        BY <4>2, <4>3
    <3>3. QED
      BY <3>1, <3>2
  <2>4. QED
    BY <2>3 DEF ChatKeys, OwnKeyInEnv, SentKeys, KeysOf
<1>5. QED
  BY <1>3, <1>4

LEMMA ChatSteps ==
    ASSUME TypeOK, ChatKeys, NEW t \in Turn,
           \/ \E a \in Agent : StartChat(t, a)
           \/ StartDirectChat(t) \/ Refuse(t) \/ StreamEvents(t) \/ Send(t)
           \/ CallFails(t) \/ \E last \in BOOLEAN : Answer(t, last)
    PROVE  ChatKeys'
<1>1. /\ turn \in [Turn -> Turns] /\ turn[t] \in Turns
  BY DEF TypeOK
<1>2. KeysOf(t, turn[t], env, overtaken)
  BY ChatKeysAre
<1>3. ASSUME NEW a, NEW config, Starts(t, a, config) PROVE ChatKeys'
  <2> DEFINE r == [Idle EXCEPT !.pc = "read", !.agent = a, !.config = config]
  <2>1. turn' = [turn EXCEPT ![t] = r] /\ env' = env /\ overtaken' = overtaken \ {t}
    BY <1>3 DEF Starts, keyVars
  <2>2. KeysOf(t, r, env, overtaken')
    BY DEF KeysOf, Idle, NoClient
  <2> HIDE DEF r
  <2>3. QED
    BY <2>1, <2>2, OneChat
<1>4. CASE Refuse(t)
  <2> DEFINE r == [Idle EXCEPT !.pc = "failed"]
  <2>1. turn' = [turn EXCEPT ![t] = r] /\ env' = env /\ overtaken' = overtaken
    BY <1>4 DEF Refuse, keyVars
  <2>2. KeysOf(t, r, env, overtaken')
    BY DEF KeysOf, Idle, NoClient
  <2> HIDE DEF r
  <2>3. QED
    BY <2>1, <2>2, OneChat
<1>5. CASE StreamEvents(t)
  <2>1. PICK c \in ChosenClients(t) :
          turn' = [turn EXCEPT ![t].pc = "ready", ![t].client = c]
    BY <1>5 DEF StreamEvents
  <2>2. c.type # "own" \/ c = turn[t].client
    BY ClientType
  <2> DEFINE r == [turn[t] EXCEPT !.pc = "ready", !.client = c]
  <2>3. turn' = [turn EXCEPT ![t] = r] /\ env' = env /\ overtaken' = overtaken
    BY <1>1, <1>5, <2>1 DEF StreamEvents, keyVars
  <2>4. KeysOf(t, r, env, overtaken')
    BY <1>1, <1>2, <2>2, <2>3 DEF KeysOf, Turns
  <2> HIDE DEF r
  <2>5. QED
    BY <2>3, <2>4, OneChat
<1>6. CASE Send(t)
  <2>1. PICK k : /\ k \in IF turn[t].client.pool = {} THEN {NoKey}
                          ELSE {SentKey(turn[t].client, d) : d \in turn[t].client.pool}
                 /\ turn' = [turn EXCEPT ![t].pc = "sent", ![t].calls = @ + 1, ![t].sent = k]
    BY <1>6 DEF Send
  <2> DEFINE r == [turn[t] EXCEPT !.pc = "sent", !.calls = @ + 1, !.sent = k]
  <2>2. turn' = [turn EXCEPT ![t] = r] /\ env' = env /\ overtaken' = overtaken
    BY <1>1, <1>6, <2>1 DEF Send, keyVars
  <2>3. /\ r.pc = "sent" /\ r.sent = k
        /\ r.client = turn[t].client /\ r.config = turn[t].config
    BY <1>1 DEF Turns
  <2>4. turn[t].client.type = "own" => k = env[turn[t].config.kind]
    BY <1>2, <2>1 DEF KeysOf, SentKey, EnvKey
  <2>5. KeysOf(t, r, env, overtaken')
    <3> HIDE DEF r
    <3>1. QED
      BY <1>2, <2>2, <2>3, <2>4 DEF KeysOf
  <2> HIDE DEF r
  <2>6. QED
    BY <2>2, <2>5, OneChat
<1>7. CASE CallFails(t) \/ \E last \in BOOLEAN : Answer(t, last)
  <2>1. PICK pc \in {"failed", "ready", "refused", "answered"} :
          turn' = [turn EXCEPT ![t].pc = pc]
    BY <1>7 DEF CallFails, Answer
  <2> DEFINE r == [turn[t] EXCEPT !.pc = pc]
  <2>2. turn' = [turn EXCEPT ![t] = r] /\ env' = env /\ overtaken' = overtaken
    BY <1>1, <1>7, <2>1 DEF CallFails, Answer, keyVars
  <2>3. KeysOf(t, r, env, overtaken')
    BY <1>1, <1>2, <2>2 DEF KeysOf, Turns
  <2> HIDE DEF r
  <2>4. QED
    BY <2>2, <2>3, OneChat
<1>8. QED
  BY <1>3, <1>4, <1>5, <1>6, <1>7 DEF StartChat, StartDirectChat

LEMMA ChatKeysStep == TypeOK /\ ChatKeys /\ [Next]_vars => ChatKeys'
<1> SUFFICES ASSUME TypeOK, ChatKeys, [Next]_vars PROVE ChatKeys'
  OBVIOUS
<1>1. CASE UNCHANGED <<turn, env, overtaken>>
  BY <1>1 DEF ChatKeys, OwnKeyInEnv, SentKeys
<1>2. CASE Restart
  BY <1>2 DEF Restart, ChatKeys, OwnKeyInEnv, SentKeys, Idle, NoClient
<1>3. ASSUME NEW t \in Turn, Chat(t) PROVE ChatKeys'
  BY <1>3, HandleKeys, ChatSteps DEF Chat
<1>4. ASSUME NEW n \in Name, StoreEdit(n) PROVE UNCHANGED <<turn, env, overtaken>>
  BY <1>4, EditShape DEF Edit
<1>5. QED
  BY <1>1, <1>2, <1>3, <1>4 DEF Next, Administer, StoreEdit, vars, keyVars, OpenStore,
       CreateAgent, UpdateAgent, UpdateAgentConfig, DeleteAgent, SetRow, SetBudget

(* A call is sent with its agent's own key unless another chat has put its *)
(* key into the environment since, and a key that is marked as imported is *)
(* the operator's unless an agent's chat came before the store was opened. *)
THEOREM KeysAtHome == Spec => []KeysStayHome
<1>1. Init => ChatKeys /\ StoreKeys
  <2>1. Init => Loaded = Empty
    BY DEF Init, Loaded
  <2>2. MarkedKnown(Empty)
    BY ConstantsTyped DEF MarkedKnown, Empty
  <2>3. QED
    BY <2>1, <2>2 DEF Init, ChatKeys, OwnKeyInEnv, SentKeys, StoreKeys, EnvKnown,
         Idle, NoClient
<1>2. ChatKeys /\ StoreKeys => KeysStayHome
  BY DEF ChatKeys, SentKeys, StoreKeys, MarkedKnown, KeysStayHome
<1>3. QED
  BY <1>1, <1>2, ChatKeysStep, StoreKeysStep, TypeCorrect, PTL DEF Spec

=============================================================================
