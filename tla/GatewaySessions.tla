---------------------------- MODULE GatewaySessions ----------------------------
(***************************************************************************)
(* The sessions of mcp-gateway (cmd/main.go) and its cache of tenant       *)
(* manifests (internal/httpclient/client.go).                              *)
(*                                                                         *)
(* A client opens an SSE stream with GET /mcp; its handler registers a     *)
(* session and then waits for the client to leave or for its idle timer.   *)
(* Each POST /mcp/message is a goroutine of its own: it finds the session, *)
(* makes sure the session has an MCP server for the tenants the request    *)
(* names (building one from their manifests under the session's mutex),    *)
(* lets it handle the message and writes the response to the stream.       *)
(*                                                                         *)
(* Time passes in ticks.  The model keeps no dates, only how long ago      *)
(* something happened, up to the age beyond which it makes no difference.  *)
(* A step takes no time; what may take time (a fetch, the handling of a    *)
(* message, the wait for the mutex) is a state, and what has a timeout or  *)
(* a timer behind it does not outlast it.  A manifest's content is not     *)
(* modelled, only how long ago data-service served it.                     *)
(***************************************************************************)
EXTENDS Naturals, Sequences, FiniteSets

CONSTANTS
    Handler,            \* GET /mcp requests; each owns at most one session
    Post,               \* POST /mcp/message requests
    NoHandler, NoPost,  \* no session; an unlocked mutex
    Tenant,
    TenantLists,        \* the X-Tenant-ID headers that clients send
    NoServer, NoEntry,
    MaxSessions,        \* MCP_MAX_SESSIONS
    IdleTimeout,        \* MCP_SESSION_IDLE_TIMEOUT
    MaxLifetime,        \* MCP_SESSION_MAX_LIFETIME
    HandleTimeout,      \* the timeouts behind HandleMessage
    FetchTimeout,       \* DATA_SERVICE_TIMEOUT
    TTL                 \* manifestCacheTTL

ASSUME GatewayAssumption ==
    /\ NoHandler \notin Handler /\ NoPost \notin Post
    /\ TenantLists \subseteq Seq(Tenant) \ {<<>>}
    /\ NoServer \notin TenantLists
    /\ {MaxSessions, IdleTimeout, MaxLifetime, HandleTimeout,
        FetchTimeout, TTL} \subseteq Nat \ {0}

(* The 25 s that a message may take are less than the 5 min of idleness.   *)
ASSUME TimeoutsAssumption == HandleTimeout <= IdleTimeout

VARIABLES
    sse,        \* where each GET handler is
    tenants,    \* sseSession.tenantIDs
    server,     \* sseSession.mcpServer: the tenants it was built for
    holder,     \* who holds sseSession.mu across a build
    idle,       \* since sseSession.lastActivity
    life,       \* since sseSession.createdAt
    timer,      \* until idleTimer fires
    post,       \* each POST handler: its stage and locals
    cache       \* manifestCache: the age of each live entry, and its rest

sessionVars == <<sse, tenants, server, holder, idle, life, timer>>
vars == <<sessionVars, post, cache>>

MaxAge == FetchTimeout + TTL            \* of a manifest in the cache
LifeCap == MaxLifetime + IdleTimeout + 1
ClockCap == IF FetchTimeout > HandleTimeout THEN FetchTimeout ELSE HandleTimeout
Lists == TenantLists \cup {<<>>}

Sessions == {h \in Handler : sse[h] = "serving"}
Fetching(p) == post[p].stage \in {"fetch", "served"}
Uses(p, h) == post[p].session = h
Unlocked(h) == h = NoHandler \/ holder[h] = NoPost

Fresh(stage, h, ts) ==
    [stage |-> stage, session |-> h, tenants |-> ts,
     server |-> NoServer, clock |-> 0, age |-> 0]
NoRequest == Fresh("idle", NoHandler, <<>>)

Init ==
    /\ sse = [h \in Handler |-> "away"]
    /\ tenants = [h \in Handler |-> <<>>]
    /\ server = [h \in Handler |-> NoServer]
    /\ holder = [h \in Handler |-> NoPost]
    /\ idle = [h \in Handler |-> 0]
    /\ life = [h \in Handler |-> 0]
    /\ timer = [h \in Handler |-> 0]
    /\ post = [p \in Post |-> NoRequest]
    /\ cache = [t \in Tenant |-> NoEntry]

-----------------------------------------------------------------------------
(* GET /mcp (sseHandler).                                                  *)

(* The handler counts the sessions; at the limit it answers 503.  Session  *)
(* ids are never used again: a handler's next session must not be taken    *)
(* for the one that a POST still holds.                                    *)
Admit(h) ==
    /\ sse[h] = "away"
    /\ \A p \in Post : ~Uses(p, h)
    /\ Cardinality(Sessions) < MaxSessions
    /\ sse' = [sse EXCEPT ![h] = "admitted"]
    /\ UNCHANGED <<tenants, server, holder, idle, life, timer, post, cache>>

Register(h, ts) ==
    /\ sse[h] = "admitted"
    /\ sse' = [sse EXCEPT ![h] = "serving"]
    /\ tenants' = [tenants EXCEPT ![h] = ts]
    /\ server' = [server EXCEPT ![h] = NoServer]
    /\ timer' = [timer EXCEPT ![h] = IdleTimeout]
    /\ UNCHANGED <<holder, idle, life, post, cache>>

(* The handler returns: its deferred call unregisters the session.         *)
End(h) ==
    /\ sse' = [sse EXCEPT ![h] = "away"]
    /\ idle' = [idle EXCEPT ![h] = 0]
    /\ life' = [life EXCEPT ![h] = 0]
    /\ timer' = [timer EXCEPT ![h] = 0]

(* A handler that waits for the mutex in isExpired sees it only later.     *)
ClientLeaves(h) ==
    /\ sse[h] = "serving"
    /\ timer[h] = 0 => Unlocked(h)
    /\ End(h)
    /\ UNCHANGED <<tenants, server, holder, post, cache>>

TimerFired(h) == sse[h] = "serving" /\ timer[h] = 0

(* Fault: only idleness ends a session.                                  *)
IsExpiredIdle(h) == idle[h] > IdleTimeout

IsExpired(h) == idle[h] > IdleTimeout \/ life[h] > MaxLifetime

(* isExpired waits for the mutex.                                          *)
Expire(h) ==
    /\ TimerFired(h) /\ Unlocked(h) /\ IsExpired(h)
    /\ End(h)
    /\ UNCHANGED <<tenants, server, holder, post, cache>>

(* Fault: the timer is set to the lifetime.                              *)
ResetTimerLong(h) ==
    /\ TimerFired(h) /\ Unlocked(h) /\ ~IsExpired(h)
    /\ timer' = [timer EXCEPT ![h] = IdleTimeout + MaxLifetime]
    /\ UNCHANGED <<sse, tenants, server, holder, idle, life, post, cache>>

ResetTimer(h) ==
    /\ TimerFired(h) /\ Unlocked(h) /\ ~IsExpired(h)
    /\ timer' = [timer EXCEPT ![h] = IdleTimeout]
    /\ UNCHANGED <<sse, tenants, server, holder, idle, life, post, cache>>

CheckTimer(h) == Expire(h) \/ ResetTimer(h)

-----------------------------------------------------------------------------
(* POST /mcp/message (mcpPostHandler).                                     *)

(* Fault: reusing a server and finishing one are no activity.            *)
TouchNothing(h) == UNCHANGED idle

Touch(h) == idle' = IF h = NoHandler \/ sse[h] # "serving"
                    THEN idle ELSE [idle EXCEPT ![h] = 0]

(* The request names a registered session (else 404) or none, and tenants  *)
(* or none (without either, 400).                                          *)
Arrive(p, h, ts) ==
    /\ post[p].stage = "idle"
    /\ h = NoHandler => ts # <<>>
    /\ post' = [post EXCEPT ![p] =
           Fresh(IF h = NoHandler THEN "build"
                 ELSE IF ts = <<>> THEN "ask" ELSE "ensure", h, ts)]
    /\ UNCHANGED <<sessionVars, cache>>

(* Without the header the tenants are the session's.                       *)
GetTenantIDs(p) ==
    LET h == post[p].session IN
    /\ post[p].stage = "ask"
    /\ Unlocked(h)
    /\ post' = [post EXCEPT ![p] =
           IF tenants[h] = <<>> THEN NoRequest
           ELSE [@ EXCEPT !.stage = "ensure", !.tenants = tenants[h]]]
    /\ UNCHANGED <<sessionVars, cache>>

(* ensureCompositeServer: the session's server if it is for these tenants; *)
(* otherwise one is built with the mutex held.                             *)
(* Fault: the session's server is reused whatever the request's tenants are.*)
ReusableAlways(h, ts) == server[h] # NoServer

Reusable(h, ts) == server[h] # NoServer /\ tenants[h] = ts

Ensure(p) ==
    LET h == post[p].session
        ts == post[p].tenants IN
    /\ post[p].stage = "ensure"
    /\ Unlocked(h)
    /\ IF Reusable(h, ts)
       THEN /\ post' = [post EXCEPT ![p].stage = "handle",
                                    ![p].server = server[h]]
            /\ Touch(h)
            /\ UNCHANGED holder
       ELSE /\ post' = [post EXCEPT ![p].stage = "build"]
            /\ holder' = [holder EXCEPT ![h] = p]
            /\ UNCHANGED idle
    /\ UNCHANGED <<sse, tenants, server, life, timer, cache>>

(* createCompositeServer fetches the manifests of the tenants in order.    *)
(* While it builds, post[p].server is the list of those it has.            *)
Built(p) == IF post[p].server = NoServer THEN <<>> ELSE post[p].server
Complete(p) == Built(p) = post[p].tenants
Wanted(p) == post[p].tenants[Len(Built(p)) + 1]
Obtain(p) == post' = [post EXCEPT ![p] =
    [@ EXCEPT !.stage = "build", !.server = Append(Built(p), Wanted(p)),
              !.clock = 0, !.age = 0]]

(* FetchConfigWithTenant: the cached manifest until its time is over,      *)
(* otherwise a request to data-service.                                    *)
Look(p) ==
    /\ post[p].stage = "build" /\ ~Complete(p)
    /\ IF cache[Wanted(p)] # NoEntry
       THEN Obtain(p)
       ELSE post' = [post EXCEPT ![p].stage = "fetch", ![p].clock = 0]
    /\ UNCHANGED <<sessionVars, cache>>

(* Data-service answers with the manifest it has now.                      *)
Serve(p) ==
    /\ post[p].stage = "fetch"
    /\ post' = [post EXCEPT ![p].stage = "served", ![p].age = 0]
    /\ UNCHANGED <<sessionVars, cache>>

(* The answer arrives and is cached, over whatever another request put     *)
(* there since this one looked.                                            *)
Receive(p) ==
    /\ post[p].stage = "served"
    /\ cache' = [cache EXCEPT ![Wanted(p)] = [age |-> post[p].age, left |-> TTL]]
    /\ Obtain(p)
    /\ UNCHANGED sessionVars

(* Fault: a build that fails has already set the session's tenants.      *)
FetchFailsHalfWay(p) ==
    /\ Fetching(p)
    /\ post' = [post EXCEPT ![p] = NoRequest]
    /\ holder' = [h \in Handler |-> IF holder[h] = p THEN NoPost ELSE holder[h]]
    /\ tenants' = [h \in Handler |-> IF holder[h] = p THEN post[p].tenants
                                     ELSE tenants[h]]
    /\ UNCHANGED <<sse, server, idle, life, timer, cache>>

(* One manifest that cannot be had fails the whole build: 500.             *)
FetchFails(p) ==
    /\ Fetching(p)
    /\ post' = [post EXCEPT ![p] = NoRequest]
    /\ holder' = [h \in Handler |-> IF holder[h] = p THEN NoPost ELSE holder[h]]
    /\ UNCHANGED <<sse, tenants, server, idle, life, timer, cache>>

Finish(p) ==
    LET h == post[p].session IN
    /\ post[p].stage = "build" /\ Complete(p)
    /\ post' = [post EXCEPT ![p].stage = "handle"]
    /\ IF h = NoHandler
       THEN UNCHANGED <<tenants, server, holder>>
       ELSE /\ server' = [server EXCEPT ![h] = post[p].server]
            /\ tenants' = [tenants EXCEPT ![h] = post[p].tenants]
            /\ holder' = [holder EXCEPT ![h] = NoPost]
    /\ Touch(h)
    /\ UNCHANGED <<sse, life, timer, cache>>

(* HandleMessage returns: a response for the session's stream, one for the *)
(* body of a request without a session, or none (a notification).          *)
Handle(p) ==
    /\ post[p].stage = "handle"
    /\ \/ post' = [post EXCEPT ![p] = NoRequest]
       \/ /\ post[p].session # NoHandler
          /\ post' = [post EXCEPT ![p].stage = "write", ![p].clock = 0]
    /\ UNCHANGED <<sessionVars, cache>>

(* writeMessage: also to the stream of a session that has ended meanwhile. *)
WriteMessage(p) ==
    /\ post[p].stage = "write"
    /\ Unlocked(post[p].session)
    /\ Touch(post[p].session)
    /\ post' = [post EXCEPT ![p] = NoRequest]
    /\ UNCHANGED <<sse, tenants, server, holder, life, timer, cache>>

-----------------------------------------------------------------------------
(* Time.                                                                   *)

Handling(p) == post[p].stage = "handle"

(* A request, a message and a timer are not late.                          *)
MayWait ==
    /\ \A p \in Post : /\ Fetching(p) => post[p].clock < FetchTimeout
                       /\ Handling(p) => post[p].clock < HandleTimeout
    /\ \A h \in Handler : TimerFired(h) => ~Unlocked(h)

(* Fault: a cached manifest is used whatever its time.                     *)
RunsOutNever(e) == FALSE

RunsOut(e) == e.left = 1

UpTo(cap, n) == IF n < cap THEN n + 1 ELSE n

Tick ==
    /\ MayWait
    /\ post' = [p \in Post |->
           [post[p] EXCEPT !.clock = IF Fetching(p) \/ Handling(p)
                                     THEN @ + 1 ELSE @,
                           !.age = IF post[p].stage = "served"
                                   THEN @ + 1 ELSE @]]
    /\ cache' = [t \in Tenant |->
           IF cache[t] = NoEntry THEN NoEntry ELSE IF RunsOut(cache[t]) THEN NoEntry
           ELSE [age |-> UpTo(MaxAge + 1, cache[t].age), left |-> cache[t].left - 1]]
    /\ idle' = [h \in Handler |-> IF sse[h] = "serving"
                                  THEN UpTo(IdleTimeout + 1, idle[h]) ELSE idle[h]]
    /\ life' = [h \in Handler |-> IF sse[h] = "serving"
                                  THEN UpTo(LifeCap, life[h]) ELSE life[h]]
    /\ timer' = [h \in Handler |-> IF timer[h] > 0 THEN timer[h] - 1 ELSE 0]
    /\ UNCHANGED <<sse, tenants, server, holder>>

-----------------------------------------------------------------------------

Proceed(p) ==
    \/ GetTenantIDs(p)
    \/ Ensure(p)
    \/ Look(p)
    \/ Serve(p)
    \/ Receive(p)
    \/ FetchFails(p)
    \/ Finish(p)
    \/ Handle(p)
    \/ WriteMessage(p)

Serving(h) ==
    \/ Admit(h)
    \/ \E ts \in Lists : Register(h, ts)
    \/ ClientLeaves(h)
    \/ CheckTimer(h)

Next ==
    \/ \E h \in Handler : Serving(h)
    \/ \E p \in Post, h \in Sessions \cup {NoHandler}, ts \in Lists : Arrive(p, h, ts)
    \/ \E p \in Post : Proceed(p)
    \/ Tick

(* Time goes on, a request that has started is not left where it is, and   *)
(* sync.Mutex lets no waiter starve (after 1 ms it is handed over in order *)
(* of arrival): the handler of a session gets to its check.                *)
Fairness ==
    /\ WF_vars(Tick)
    /\ \A p \in Post : WF_vars(Proceed(p))
    /\ \A h \in Handler : SF_vars(CheckTimer(h))

Spec == Init /\ [][Next]_vars /\ Fairness

-----------------------------------------------------------------------------
(* Properties.                                                             *)

Stages == {"idle", "ask", "ensure", "build", "fetch", "served", "handle", "write"}
Prefixes(ts) == {SubSeq(ts, 1, n) : n \in 1 .. Len(ts)}
Servers == {NoServer} \cup UNION {Prefixes(ts) : ts \in TenantLists}

TypeOK ==
    /\ sse \in [Handler -> {"away", "admitted", "serving"}]
    /\ tenants \in [Handler -> Lists]
    /\ server \in [Handler -> TenantLists \cup {NoServer}]
    /\ holder \in [Handler -> Post \cup {NoPost}]
    /\ idle \in [Handler -> 0 .. IdleTimeout + 1]
    /\ life \in [Handler -> 0 .. LifeCap]
    /\ timer \in [Handler -> 0 .. IdleTimeout]
    /\ post \in [Post -> [stage : Stages, session : Handler \cup {NoHandler},
                          tenants : Lists, server : Servers,
                          clock : 0 .. ClockCap, age : 0 .. FetchTimeout]]
    /\ cache \in [Tenant -> [age : 0 .. MaxAge + 1, left : 1 .. TTL]
                                \cup {NoEntry}]

(* A tool reads the data of the tenant whose manifest it was made from.    *)
(* The server of a single tenant takes the tenant from the request, that   *)
(* of several has the tenant in each tool's closure (makeHandler): so a    *)
(* POST must never be given a server for a list other than its own, however *)
(* other POSTs to the same session switch its tenants meanwhile.           *)
RunsAgainst(p, k) == IF Len(post[p].server) = 1 THEN post[p].tenants[1]
                     ELSE post[p].server[k]
ToolsReadOwnTenant ==
    \A p \in Post : Handling(p) =>
        /\ Len(post[p].server) = Len(post[p].tenants)
        /\ \A k \in DOMAIN post[p].server :
               RunsAgainst(p, k) = post[p].tenants[k]

(* While a server is being built, the session keeps the old one and its    *)
(* list together: what a session says of its tenants is what its server    *)
(* was built for, also after a build that failed half way.                 *)
ServerMatchesTenants ==
    \A h \in Handler : server[h] # NoServer => server[h] = tenants[h]

(* A manifest taken from the cache was served at most TTL and one fetch    *)
(* ago, although a slow fetch may overwrite a younger entry.               *)
ManifestFresh ==
    \A t \in Tenant : cache[t] # NoEntry => cache[t].age <= MaxAge

(* Whose data a message is answered from.                                  *)
ServesOwnTenants == ToolsReadOwnTenant /\ ServerMatchesTenants

(* The lifetime is looked at only when the idle timer fires.  A session    *)
(* outlives it by no more than one idle timeout, unless its handler is     *)
(* waiting for the mutex.                                                  *)
LifetimeOverrun ==
    \A h \in Sessions : life[h] > MaxLifetime + IdleTimeout => timer[h] = 0

(* The timer closes no stream for idleness while a message of the session  *)
(* is being handled: only a session past its lifetime is cut off from the  *)
(* response it waits for.                                                  *)
CutOnlyByLifetime ==
    [][\A h \in Handler : Expire(h) /\ (\E p \in Post : Uses(p, h) /\ Handling(p))
           => life[h] > MaxLifetime]_vars

(* No age passes its limit, and no limit cuts off what it should not.      *)
AgesKept == [](ManifestFresh /\ LifetimeOverrun) /\ CutOnlyByLifetime

(* No session stays for ever, however busy its client is.                  *)
SessionsEnd == \A h \in Handler : sse[h] = "serving" ~> sse[h] # "serving"

-----------------------------------------------------------------------------
(* The inductive invariant behind the ages: what waits has not outlasted   *)
(* its timeout; an entry of the cache ages as its rest shrinks, a session  *)
(* as its timer runs; and a session is idle no longer than the message     *)
(* that it is handling.                                                    *)
InTime(r) ==
    /\ r.stage \in {"idle", "ask", "ensure", "build", "write"} => r.clock = 0
    /\ r.stage \in {"fetch", "served"} => r.clock <= FetchTimeout
    /\ r.stage = "handle" => r.clock <= HandleTimeout
    /\ r.stage = "served" => r.age <= r.clock

AgesInv ==
    /\ \A p \in Post : InTime(post[p])
    /\ \A t \in Tenant :
           cache[t] # NoEntry => cache[t].age + cache[t].left <= MaxAge
    /\ \A h \in Handler :
           IF sse[h] = "serving"
           THEN timer[h] = 0 \/ life[h] + timer[h] <= MaxLifetime + IdleTimeout
           ELSE idle[h] = 0 /\ life[h] = 0
    /\ \A p \in Post, h \in Sessions :
           Handling(p) /\ Uses(p, h) => idle[h] <= post[p].clock

=============================================================================
