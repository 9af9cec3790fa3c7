\* Two chats at a time, two of them in all, two admin requests or restarts.
SPECIFICATION Spec
CONSTANTS
    openai = openai
    groq = groq
    a1 = a1
    a2 = a2
    a3 = a3
    k0 = k0
    k1 = k1
    k2 = k2
    x1 = x1
    x2 = x2
    Kind = {openai, groq}
    KeyMapped = {openai}
    Name = {openai, groq}
    Key = {k0, k1, k2}
    NoKey = NoKey
    Torn = Torn
    EnvAtStart <- MCEnvAtStart
    EnvModels = {openai}
    Agent = {a1, a2, a3}
    Configs <- MCConfigs
    PriorityOf <- MCPriorityOf
    TenantsOf <- MCTenantsOf
    Direct = Direct
    Cipher = {e1, e2}
    Tenant = {x1, x2}
    DefaultBudget = 2
    Budgets = {0, 1}
    Turn = {t1, t2}
    MaxCalls = 2
    MaxOps = 2
    MaxChats = 2
INVARIANTS
    TypeOK
    KeysStayHome
    

    
SYMMETRY Symmetry
CHECK_DEADLOCK FALSE
