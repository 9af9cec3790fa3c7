------------------------------- MODULE McpClient -------------------------------
(***************************************************************************)
(* The connections that api-service keeps to mcp-gateway                   *)
(* (api_service/agent/mcp_client.py): one MCPClient shared by all turns,   *)
(* with a pool of SSE sessions, one for each list of tenants.              *)
(*                                                                         *)
(* A call takes the connection of its tenants from the pool, or opens one  *)
(* while it holds the registry lock, waits for its turn on the connection, *)
(* and sends its message.  When that fails it drops whatever connection    *)
(* the pool has by then, opens another without the lock, puts it into the  *)
(* pool and tries once more.  Turns run concurrently, so other calls move  *)
(* between any two awaits; a client that leaves cancels its call at any of *)
(* them.  The gateway ends a session that nobody posted to for a while     *)
(* (module GatewaySessions), and may end it at other times.                *)
(*                                                                         *)
(* Time passes in ticks, and is kept as ages only; what has no await takes *)
(* no time.                                                                *)
(***************************************************************************)
EXTENDS Naturals

CONSTANTS
    Call,               \* the turns that may use the client at a time
    Key,                \* the joined tenant ids
    NoKey,
    Conn,               \* _TenantConnection objects
    NoConn,
    OpenTimeout,        \* the timeouts behind _open_connection
    LockTimeout,        \* LOCK_ACQUIRE_TIMEOUT
    ExecTimeout,        \* TOOL_EXECUTION_TIMEOUT
    IdleLimit,          \* the 240 s of _get_connection
    GatewayIdle         \* MCP_SESSION_IDLE_TIMEOUT

ASSUME ClientAssumption ==
    /\ NoKey \notin Key /\ NoConn \notin Conn
    /\ {OpenTimeout, LockTimeout, ExecTimeout} \subseteq Nat \ {0}
    /\ IdleLimit \in Nat /\ GatewayIdle \in Nat

(* 240 s and twice 10 s are less than the gateway's 5 min, and opening a   *)
(* connection takes less than 240 s.                                       *)
ASSUME TimeoutsAssumption ==
    IdleLimit + 2 * LockTimeout < GatewayIdle /\ OpenTimeout <= IdleLimit

VARIABLES
    connections,    \* MCPClient._connections
    conn,           \* each _TenantConnection, and the gateway's side of it
    call            \* each use of the client

vars == <<connections, conn, call>>

Kinds == {"call", "list", "peek"}   \* call_tool, list_tools, get_schema et al.
Stages == {"none", "getting", "opening", "locking", "running",
           "popping", "storing"}

(* key is its tenant_id, idle the time since last_used, quiet the time     *)
(* since the gateway last heard of the session.                            *)
Connection == [key : Key \cup {NoKey},
               state : {"none", "opening", "open", "dead", "expired", "closed"},
               idle : 0 .. IdleLimit + 1, quiet : 0 .. GatewayIdle]

(* clock runs while the call opens a connection and, from the start of     *)
(* LOCK_ACQUIRE_TIMEOUT, while it waits for the connection or uses it;     *)
(* held while it uses it.  failed tells how the last use ended.  excused   *)
(* (history): another use overlapped this one, or the gateway failed under *)
(* way.                                                                    *)
Use == [at : Stages, kind : Kinds, key : Key \cup {NoKey},
        conn : Conn \cup {NoConn}, attempt : {1, 2}, clock : Nat, held : Nat,
        failed : BOOLEAN, excused : BOOLEAN]

NoConnection == [key |-> NoKey, state |-> "none", idle |-> 0, quiet |-> 0]
(* Of a connection that is gone nobody asks for how long.                  *)
Gone(x, state) ==
    [conn[x] EXCEPT !.state = state, !.quiet = 0,
                    !.idle = IF state = "closed" THEN 0 ELSE @]
NoUse == [at |-> "none", kind |-> "peek", key |-> NoKey, conn |-> NoConn,
          attempt |-> 1, clock |-> 0, held |-> 0, failed |-> FALSE,
          excused |-> FALSE]

Live == {"open", "dead", "expired"}
Waiting == {"locking", "running"}

TypeOK ==
    /\ connections \in [Key -> Conn \cup {NoConn}]
    /\ conn \in [Conn -> Connection]
    /\ call \in [Call -> Use]
    /\ \A c \in Call :
           /\ call[c].at = "opening" => call[c].clock <= OpenTimeout
           /\ call[c].at \in Waiting => call[c].clock <= LockTimeout

Init ==
    /\ connections = [k \in Key |-> NoConn]
    /\ conn = [x \in Conn |-> NoConnection]
    /\ call = [c \in Call |-> NoUse]

Active(c) == call[c].at # "none"
Registered(x) == \E k \in Key : connections[k] = x
Reachable(x) == Registered(x) \/ \E c \in Call : call[c].conn = x

(* The connections become f, but for those that nothing refers to any      *)
(* more.                                                                   *)
Conns(f) == conn' = [x \in Conn |-> IF Reachable(x)' THEN f[x]
                                    ELSE NoConnection]

(* _get_connection holds _registry_lock while it opens a connection.       *)
RegistryFree ==
    ~\E c \in Call : call[c].at = "opening" /\ call[c].attempt = 1

(* A connection has one call_lock and one list_lock.                       *)
LockFree(x, kind) ==
    ~\E c \in Call : /\ call[c].at = "running"
                     /\ call[c].conn = x /\ call[c].kind = kind

Become(c, r) == call' = [call EXCEPT ![c] = r]
Failed(excused) == [NoUse EXCEPT !.failed = TRUE, !.excused = excused]

(* The connection is at hand: get_schema and get_display_name read what    *)
(* was loaded with it, the others start the clock and queue for its lock.  *)
Obtained(c, x) ==
    IF call[c].kind = "peek"
    THEN NoUse
    ELSE [call[c] EXCEPT !.at = "locking", !.conn = x, !.clock = 0]

(* Mutant: the old connection is closed and stays in the pool until the    *)
(* new one is there.                                                       *)
ReplaceKeepsOld(c, n) ==
    LET k == call[c].key
        old == connections[k]
        new == CHOOSE x \in Conn : ~Reachable(x)
    IN
    /\ \E x \in Conn : ~Reachable(x)
    /\ UNCHANGED connections
    /\ Become(c, [call[c] EXCEPT !.at = "opening", !.attempt = n,
                                 !.conn = new, !.clock = 0])
    /\ Conns([x \in Conn |->
                IF x = old THEN Gone(x, "closed")
                ELSE IF x = new
                     THEN [conn[x] EXCEPT !.state = "opening", !.key = k]
                ELSE conn[x]])

(* Take the registered connection of c's tenants out of the pool, if there *)
(* is one, close it and begin to open another for c's attempt n.           *)
Replace(c, n) ==
    LET k == call[c].key
        old == connections[k]
        new == CHOOSE x \in Conn : ~Reachable(x)
    IN
    /\ \E x \in Conn : ~Reachable(x)
    /\ connections' = [connections EXCEPT ![k] = NoConn]
    /\ Become(c, [call[c] EXCEPT !.at = "opening", !.attempt = n,
                                 !.conn = new, !.clock = 0])
    /\ Conns([x \in Conn |->
                IF x = old THEN Gone(x, "closed")
                ELSE IF x = new
                     THEN [conn[x] EXCEPT !.state = "opening", !.key = k]
                ELSE conn[x]])
-----------------------------------------------------------------------------
Start(c, kind, k) ==
    /\ ~Active(c)
    /\ call' = [d \in Call |->
                  IF d = c
                  THEN [NoUse EXCEPT !.at = "getting", !.kind = kind, !.key = k,
                                     !.excused = \E e \in Call : Active(e)]
                  ELSE [call[d] EXCEPT !.excused = @ \/ Active(d)]]
    /\ UNCHANGED <<connections, conn>>

(* Mutant: a connection in the pool is used however long it was idle.      *)
GetAnyAge(c) ==
    LET x == connections[call[c].key] IN
    /\ call[c].at = "getting"
    /\ RegistryFree
    /\ IF x # NoConn
       THEN Become(c, Obtained(c, x)) /\ UNCHANGED <<connections, conn>>
       ELSE Replace(c, 1)

(* _get_connection: the connection in the pool, if it was used lately.     *)
Get(c) ==
    LET x == connections[call[c].key] IN
    /\ call[c].at = "getting"
    /\ RegistryFree
    /\ IF x # NoConn /\ conn[x].idle <= IdleLimit
       THEN Become(c, Obtained(c, x)) /\ UNCHANGED <<connections, conn>>
       ELSE Replace(c, 1)

(* The handshake succeeds; last_used is set when the session is ready, and *)
(* tool names and schema are loaded after it.                              *)
Opened(c) ==
    LET x == call[c].conn IN
    /\ call[c].at = "opening"
    /\ IF call[c].attempt = 1
       THEN /\ connections' = [connections EXCEPT ![call[c].key] = x]
            /\ Become(c, Obtained(c, x))
       ELSE /\ Become(c, [call[c] EXCEPT !.at = "storing", !.clock = 0])
            /\ UNCHANGED connections
    /\ \E n \in 0 .. call[c].clock :
           Conns([conn EXCEPT ![x].state = "open", ![x].idle = n,
                              ![x].quiet = n])

OpenFails(c) ==
    /\ call[c].at = "opening"
    /\ Become(c, Failed(TRUE))
    /\ UNCHANGED connections
    /\ Conns(conn)

(* The call has the lock and posts its message.                            *)
Lock(c) ==
    LET x == call[c].conn IN
    /\ call[c].at = "locking"
    /\ LockFree(x, call[c].kind)
    /\ Become(c, [call[c] EXCEPT !.at = "running", !.held = 0])
    /\ conn' = [conn EXCEPT ![x].quiet =
                    IF conn[x].state = "open" THEN 0 ELSE @]
    /\ UNCHANGED connections

(* The answer comes: a result, or "Tool not found", which list_tools takes *)
(* for an empty list and which does not count as a use.                    *)
Answered(c) ==
    LET x == call[c].conn IN
    /\ call[c].at = "running"
    /\ conn[x].state = "open"
    /\ UNCHANGED connections
    /\ Become(c, NoUse)
    /\ \E found \in BOOLEAN :
           Conns([conn EXCEPT ![x].idle = IF found THEN 0 ELSE @])

(* Mutant: a call that fails is tried again without end.                   *)
FailsNever(c) ==
    /\ call[c].at = "running"
    /\ Become(c, [NoUse EXCEPT !.at = "popping", !.kind = call[c].kind,
                               !.key = call[c].key, !.excused = TRUE])
    /\ UNCHANGED connections
    /\ Conns(conn)

(* The session raises: the connection is gone, or the gateway answers with *)
(* an error.  The first time the call connects anew, the second it fails.  *)
Fails(c) ==
    LET excused == call[c].excused \/ conn[call[c].conn].state = "open" IN
    /\ call[c].at = "running"
    /\ Become(c, IF call[c].attempt = 1
                 THEN [NoUse EXCEPT !.at = "popping", !.kind = call[c].kind,
                                    !.key = call[c].key, !.excused = excused]
                 ELSE Failed(excused))
    /\ UNCHANGED connections
    /\ Conns(conn)

(* A timeout is due: LOCK_ACQUIRE_TIMEOUT runs on while the call has the   *)
(* lock, with TOOL_EXECUTION_TIMEOUT inside it.                            *)
Due(c) ==
    \/ call[c].at \in Waiting /\ call[c].clock = LockTimeout
    \/ /\ call[c].at = "running" /\ call[c].kind = "call"
       /\ call[c].held = ExecTimeout

TimesOut(c) ==
    /\ Due(c)
    /\ Become(c, NoUse)
    /\ UNCHANGED connections
    /\ Conns(conn)

(* Mutant: the second attempt is made on the connection in the pool, if    *)
(* there is one.                                                           *)
PopNothing(c) ==
    LET x == connections[call[c].key] IN
    /\ call[c].at = "popping"
    /\ RegistryFree
    /\ IF x # NoConn
       THEN /\ Become(c, [Obtained(c, x) EXCEPT !.attempt = 2])
            /\ UNCHANGED <<connections, conn>>
       ELSE Replace(c, 2)

(* _reconnect: what the pool has now goes, whoever put it there.           *)
Pop(c) ==
    /\ call[c].at = "popping"
    /\ RegistryFree
    /\ Replace(c, 2)

(* _reconnect: the new connection replaces what the pool has by now, which *)
(* nobody closes.                                                          *)
Store(c) ==
    /\ call[c].at = "storing"
    /\ RegistryFree
    /\ connections' = [connections EXCEPT ![call[c].key] = call[c].conn]
    /\ Become(c, Obtained(c, call[c].conn))
    /\ Conns(conn)

(* The client leaves, which cancels the turn where it waits: the locks it  *)
(* has are released, a handshake it was in is given up.                    *)
Cancel(c) ==
    /\ Active(c)
    /\ Become(c, NoUse)
    /\ UNCHANGED connections
    /\ Conns(conn)

(* close(), when the service shuts down.                                   *)
Close ==
    /\ RegistryFree
    /\ \E x \in Conn : Registered(x)
    /\ connections' = [k \in Key |-> NoConn]
    /\ call' = [c \in Call |-> [call[c] EXCEPT !.excused = @ \/ Active(c)]]
    /\ Conns([x \in Conn |-> IF Registered(x) THEN Gone(x, "closed")
                             ELSE conn[x]])
-----------------------------------------------------------------------------
(* The gateway ends a session that was quiet for too long.                 *)
Expire(x) ==
    /\ conn[x].state = "open" /\ conn[x].quiet = GatewayIdle
    /\ conn' = [conn EXCEPT ![x] = Gone(x, "expired")]
    /\ UNCHANGED <<connections, call>>

(* It restarts, or ends a session for another reason.                      *)
Drop(x) ==
    /\ conn[x].state = "open"
    /\ conn' = [conn EXCEPT ![x] = Gone(x, "dead")]
    /\ call' = [c \in Call |->
                  [call[c] EXCEPT !.excused =
                       @ \/ (Active(c) /\ call[c].key = conn[x].key)]]
    /\ UNCHANGED connections

(* Mutant: the timeouts do not count while another call has the lock.      *)
UrgentNotQueued(c) ==
    \/ call[c].at \in {"getting", "popping", "storing"} /\ RegistryFree
    \/ call[c].at = "opening" /\ call[c].clock = OpenTimeout
    \/ call[c].at = "locking" /\ LockFree(call[c].conn, call[c].kind)
    \/ call[c].at = "running" /\ Due(c)

(* A call that can go on at once, or whose time is over, does not wait.    *)
Urgent(c) ==
    \/ call[c].at \in {"getting", "popping", "storing"} /\ RegistryFree
    \/ call[c].at = "opening" /\ call[c].clock = OpenTimeout
    \/ call[c].at = "locking" /\ LockFree(call[c].conn, call[c].kind)
    \/ Due(c)

Older(n, bound) == IF n < bound THEN n + 1 ELSE n

Tick ==
    /\ ~\E c \in Call : Urgent(c)
    /\ conn' = [x \in Conn |->
                  [conn[x] EXCEPT
                     !.idle = IF conn[x].state \in Live
                              THEN Older(@, IdleLimit + 1) ELSE @,
                     !.quiet = IF conn[x].state = "open"
                               THEN Older(@, GatewayIdle) ELSE @]]
    /\ call' = [c \in Call |->
                  [call[c] EXCEPT
                     !.clock = IF call[c].at \in Waiting \cup {"opening"}
                               THEN @ + 1 ELSE @,
                     !.held = IF call[c].at = "running" THEN @ + 1 ELSE @]]
    /\ UNCHANGED connections

Proceed(c) ==
    \/ Get(c) \/ Opened(c) \/ OpenFails(c) \/ Lock(c) \/ Answered(c)
    \/ Fails(c) \/ TimesOut(c) \/ Pop(c) \/ Store(c)

Next ==
    \/ \E c \in Call : \/ \E kind \in Kinds, k \in Key : Start(c, kind, k)
                       \/ Proceed(c)
                       \/ Cancel(c)
    \/ \E x \in Conn : Expire(x) \/ Drop(x)
    \/ Close
    \/ Tick

(* Time goes on, and the event loop runs every call that can go on; an     *)
(* asyncio.Lock goes to those who wait for it in turn.                     *)
Fairness == WF_vars(Tick) /\ \A c \in Call : SF_vars(Proceed(c))

Spec == Init /\ [][Next]_vars /\ Fairness
-----------------------------------------------------------------------------
(* However reconnections and evictions overlap, the pool never holds a     *)
(* connection that this client closed, or one of other tenants             *)
(* (_get_connection, _reconnect, close).                                   *)
PoolUsable ==
    \A k \in Key : connections[k] # NoConn =>
        /\ conn[connections[k]].key = k
        /\ conn[connections[k]].state \in Live

(* A call that no other overlaps never raises because of a connection that *)
(* went stale before it: unless it runs out of time, it fails only if the  *)
(* gateway does while it is under way (call_tool, list_tools).             *)
StaleConnectionMasked ==
    \A c \in Call : call[c].failed => call[c].excused

(* The idle limit keeps a message from being posted to a session of the    *)
(* pool that the gateway has ended for idleness: the client's 4 minutes,   *)
(* counted from the last answer, and the gateway's 5, counted from the     *)
(* last message, leave room for the waits in between.                      *)
NeverPostsToExpired ==
    \A c \in Call :
        call[c].at \in Waiting /\ call[c].attempt = 1 =>
            conn[call[c].conn].state # "expired"

(* What the pool hands out can be used.                                    *)
PoolSound == PoolUsable /\ NeverPostsToExpired

(* Every use of the client ends, whatever the gateway does: no lock stays  *)
(* held, no wait is without a timeout.                                     *)
EveryCallEnds ==
    \A c \in Call : call[c].at = "getting" ~> ~Active(c)
=============================================================================
