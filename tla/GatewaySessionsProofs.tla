------------------------- MODULE GatewaySessionsProofs -------------------------
(***************************************************************************)
(* Proofs about GatewaySessions: however many requests share a session and *)
(* whatever tenants they name, the tools a request runs read the data of   *)
(* the tenant whose manifest they were made from.                          *)
(***************************************************************************)
EXTENDS GatewaySessions, SequenceTheorems, TLAPS

Request == [stage : Stages, session : Handler \cup {NoHandler},
            tenants : Seq(Tenant), server : Seq(Tenant) \cup {NoServer},
            clock : Nat, age : Nat]

Shapes ==
    /\ post \in [Post -> Request]
    /\ tenants \in [Handler -> Seq(Tenant)]
    /\ server \in [Handler -> Seq(Tenant) \cup {NoServer}]

(* A request that waits for a session has one; one that is past the        *)
(* reading of its header names a tenant; and one whose message is handled  *)
(* has the server for the tenants it names.  While it builds one, it has   *)
(* the manifests of the first tenants, not of all when it fetches one.     *)
Has(r) == IF r.server = NoServer THEN <<>> ELSE r.server
Building(r) ==
    /\ Len(Has(r)) <= Len(r.tenants)
    /\ \A k \in 1 .. Len(Has(r)) : Has(r)[k] = r.tenants[k]
Named(r) ==
    /\ r.stage \in {"ask", "ensure"} =>
           r.session \in Handler /\ r.server = NoServer
    /\ r.stage \notin {"idle", "ask"} => r.tenants # <<>>
    /\ r.stage \in {"build", "fetch", "served"} => Building(r)
    /\ r.stage \in {"fetch", "served"} => Len(Has(r)) < Len(r.tenants)
    /\ r.stage = "handle" => r.server = r.tenants

IInv ==
    /\ Shapes
    /\ \A p \in Post : Named(post[p])
    /\ ServerMatchesTenants

(* A handler between two requests satisfies what is asked of a request.    *)
LEMMA NoRequestOK == NoRequest \in Request /\ Named(NoRequest)
  BY DEF NoRequest, Fresh, Request, Named, Stages

(* At first there are neither sessions nor requests.                       *)
LEMMA Initially == Init => IInv
  BY NoRequestOK DEF Init, IInv, Shapes, ServerMatchesTenants

(* A step of one request, which leaves the sessions' servers alone.        *)
LEMMA RequestStep ==
    ASSUME IInv, NEW p \in Post, NEW r \in Request, Named(r),
           post' = [post EXCEPT ![p] = r], UNCHANGED <<tenants, server>>
    PROVE  IInv'
  BY DEF IInv, Shapes, ServerMatchesTenants

(* A step of a session that leaves the requests and the servers alone.     *)
LEMMA SessionStep ==
    IInv /\ UNCHANGED <<post, tenants, server>> => IInv'
  BY DEF IInv, Shapes, ServerMatchesTenants

(* A build that has got the next tenant's manifest names one tenant more.  *)
LEMMA Extended ==
    ASSUME NEW x \in Request, NEW s \in Seq(Tenant), NEW t \in Tenant
    PROVE  [x EXCEPT !.stage = "build", !.server = Append(s, t),
                     !.clock = 0, !.age = 0] \in Request
  <1>1. Append(s, t) \in Seq(Tenant)
    OBVIOUS
  <1> QED BY <1>1 DEF Request, Stages

(* A tick changes the waiting time of a request and nothing it names.      *)
LEMMA Later ==
    ASSUME NEW x \in Request, NEW P, NEW Q, x.clock + 1 \in Nat, x.age + 1 \in Nat
    PROVE  [x EXCEPT !.clock = IF P THEN @ + 1 ELSE @,
                     !.age = IF Q THEN @ + 1 ELSE @] \in Request
  <1>1. CASE P /\ Q
    BY <1>1 DEF Request
  <1>2. CASE P /\ ~Q
    BY <1>2 DEF Request
  <1>3. CASE ~P /\ Q
    BY <1>3 DEF Request
  <1>4. CASE ~P /\ ~Q
    BY <1>4 DEF Request
  <1> QED BY <1>1, <1>2, <1>3, <1>4

(* A list that has the first tenants of another, but is not it, is shorter.*)
LEMMA Shorter ==
    ASSUME NEW a \in Seq(Tenant), NEW b \in Seq(Tenant), a # b, Len(a) <= Len(b),
           \A k \in 1 .. Len(a) : a[k] = b[k]
    PROVE  Len(a) < Len(b)
  BY SeqEqual

(* The next manifest is that of a tenant of the request, and is appended   *)
(* to those that the request has.                                          *)
LEMMA Obtaining ==
    ASSUME IInv, NEW p \in Post, ~Complete(p),
           post[p].stage \in {"build", "fetch", "served"},
           Obtain(p), UNCHANGED <<tenants, server>>
    PROVE  IInv'
  <1> DEFINE b == Built(p)
             ts == post[p].tenants
             r == [post[p] EXCEPT !.stage = "build",
                        !.server = Append(Built(p), Wanted(p)),
                        !.clock = 0, !.age = 0]
  <1>1. post[p] \in Request /\ Named(post[p])
    BY DEF IInv, Shapes
  <1>2. b \in Seq(Tenant) /\ ts \in Seq(Tenant)
    BY <1>1 DEF Built, Request
  <1>3. Len(b) < Len(ts) /\ \A k \in 1 .. Len(b) : b[k] = ts[k]
    <2>1. Len(b) <= Len(ts) /\ \A k \in 1 .. Len(b) : b[k] = ts[k]
      BY <1>1 DEF Named, Building, Has, Built
    <2>2. b # ts
      BY DEF Complete
    <2> HIDE DEF b, ts
    <2> QED BY <1>2, <2>1, <2>2, Shorter
  <1>4. Wanted(p) = ts[Len(b) + 1] /\ Wanted(p) \in Tenant
    BY <1>2, <1>3 DEF Wanted
  <1>5. r \in Request
    BY <1>1, <1>2, <1>4, Extended
  <1>6. Named(r)
    <2>1. /\ r.stage = "build" /\ r.tenants = ts
          /\ r.server = Append(b, Wanted(p))
      BY <1>1 DEF Request
    <2>2. ts # <<>>
      BY <1>1 DEF Named
    <2>3. Building(r)
      <3>1. CASE r.server = NoServer
        BY <1>2, <2>1, <3>1 DEF Building, Has
      <3>2. CASE r.server # NoServer
        <4>1. Has(r) = Append(b, ts[Len(b) + 1])
          BY <1>4, <2>1, <3>2 DEF Has
        <4> HIDE DEF b, ts, r
        <4> QED BY <1>2, <1>3, <2>1, <4>1 DEF Building
      <3> QED BY <3>1, <3>2
    <2> HIDE DEF r
    <2> QED BY <2>1, <2>2, <2>3 DEF Named
  <1>7. post' = [post EXCEPT ![p] = r]
    BY DEF Obtain
  <1> QED BY <1>5, <1>6, <1>7, RequestStep

(* Every step of a stream, a post or the clock keeps the invariant.        *)
LEMMA Stepping == IInv /\ [Next]_vars => IInv'
  <1> SUFFICES ASSUME IInv, [Next]_vars PROVE IInv' OBVIOUS
  <1>l. ASSUME NEW ts \in Lists PROVE ts \in Seq(Tenant)
    <2>1. CASE ts \in TenantLists
      BY <2>1, GatewayAssumption
    <2>2. CASE ts = <<>>
      BY <2>2
    <2> QED BY <2>1, <2>2 DEF Lists
  <1>p. ASSUME NEW p \in Post PROVE post[p] \in Request /\ Named(post[p])
    BY DEF IInv, Shapes
  <1>1. ASSUME NEW h \in Handler, Serving(h) PROVE IInv'
    <2>1. CASE Admit(h)
      BY <2>1, SessionStep DEF Admit
    <2>2. ASSUME NEW ts \in Lists, Register(h, ts) PROVE IInv'
      BY <2>2, <1>l DEF Register, IInv, Shapes, ServerMatchesTenants
    <2>3. CASE ClientLeaves(h)
      BY <2>3, SessionStep DEF ClientLeaves
    <2>4. CASE CheckTimer(h)
      BY <2>4, SessionStep DEF CheckTimer, Expire, ResetTimer
    <2> QED BY <1>1, <2>1, <2>2, <2>3, <2>4 DEF Serving
  <1>2. ASSUME NEW p \in Post, NEW h \in Sessions \cup {NoHandler},
               NEW ts \in Lists, Arrive(p, h, ts)
        PROVE  IInv'
    <2> DEFINE stage == IF h = NoHandler THEN "build"
                        ELSE IF ts = <<>> THEN "ask" ELSE "ensure"
               r == Fresh(stage, h, ts)
    <2>1. h \in Handler \cup {NoHandler} /\ ts \in Seq(Tenant)
      BY <1>l DEF Sessions
    <2>2. stage \in Stages
      BY DEF Stages
    <2>3. r \in Request
      BY <2>1, <2>2 DEF Request, Fresh
    <2>4. Named(r)
      <3>1. Len(Has(r)) = 0
        BY DEF Has, Fresh
      <3>2. Building(r)
        BY <2>1, <3>1 DEF Building, Fresh
      <3>3. stage # "ask" => ts # <<>>
        BY <1>2 DEF Arrive
      <3>4. stage # "build" => h \in Handler
        BY <2>1
      <3> QED BY <3>2, <3>3, <3>4 DEF Named, Fresh
    <2>5. post' = [post EXCEPT ![p] = r] /\ UNCHANGED <<tenants, server>>
      BY <1>2 DEF Arrive, sessionVars
    <2> HIDE DEF r
    <2> QED BY <2>3, <2>4, <2>5, RequestStep
  <1>3. ASSUME NEW p \in Post, Proceed(p) PROVE IInv'
    <2>1. CASE GetTenantIDs(p)
      <3> DEFINE h == post[p].session
                 r == [post[p] EXCEPT !.stage = "ensure", !.tenants = tenants[h]]
      <3>1. CASE tenants[h] = <<>>
        BY <2>1, <3>1, NoRequestOK, RequestStep DEF GetTenantIDs, sessionVars
      <3>2. CASE tenants[h] # <<>>
        <4>1. h \in Handler
          BY <1>p, <2>1 DEF Named, GetTenantIDs
        <4>2. tenants[h] \in Seq(Tenant)
          BY <4>1 DEF IInv, Shapes
        <4>3. r \in Request
          BY <1>p, <4>2 DEF Request, Stages
        <4>4. Named(r)
          BY <1>p, <2>1, <3>2, <4>1 DEF Named, Request, GetTenantIDs
        <4> QED
          BY <2>1, <3>2, <4>3, <4>4, RequestStep DEF GetTenantIDs, sessionVars
      <3> QED BY <3>1, <3>2
    <2>2. CASE Ensure(p)
      <3> DEFINE h == post[p].session
                 r1 == [post[p] EXCEPT !.stage = "handle", !.server = server[h]]
                 r2 == [post[p] EXCEPT !.stage = "build"]
      <3>1. h \in Handler /\ post[p].tenants # <<>>
        BY <1>p, <2>2 DEF Named, Ensure
      <3>2. CASE Reusable(h, post[p].tenants)
        <4>1. server[h] = post[p].tenants
          BY <3>1, <3>2 DEF Reusable, IInv, ServerMatchesTenants
        <4>2. r1 \in Request
          BY <1>p, <4>1 DEF Request, Stages
        <4>3. Named(r1)
          BY <1>p, <3>1, <4>1 DEF Named, Request
        <4>4. post' = [post EXCEPT ![p] = r1]
          BY <1>p, <2>2, <3>2 DEF Ensure, IInv, Shapes
        <4> QED
          BY <2>2, <4>2, <4>3, <4>4, RequestStep DEF Ensure
      <3>3. CASE ~Reusable(h, post[p].tenants)
        <4>1. r2 \in Request
          BY <1>p DEF Request, Stages
        <4>2. Named(r2)
          <5>1. /\ r2.stage = "build" /\ r2.server = NoServer
                /\ r2.tenants = post[p].tenants /\ r2.tenants \in Seq(Tenant)
            BY <1>p, <2>2 DEF Named, Request, Ensure
          <5>2. Len(Has(r2)) = 0
            BY <5>1 DEF Has
          <5>3. Building(r2)
            BY <5>1, <5>2 DEF Building
          <5> HIDE DEF r2
          <5> QED BY <3>1, <5>1, <5>3 DEF Named
        <4>3. post' = [post EXCEPT ![p] = r2]
          BY <2>2, <3>3 DEF Ensure
        <4> QED
          BY <2>2, <4>1, <4>2, <4>3, RequestStep DEF Ensure
      <3> QED BY <3>2, <3>3
    <2>3. CASE Look(p)
      <3> DEFINE r == [post[p] EXCEPT !.stage = "fetch", !.clock = 0]
      <3>1. CASE cache[Wanted(p)] # NoEntry
        BY <2>3, <3>1, Obtaining DEF Look, sessionVars
      <3>2. CASE cache[Wanted(p)] = NoEntry
        <4>1. r \in Request
          BY <1>p DEF Request, Stages
        <4>2. Len(Built(p)) < Len(post[p].tenants)
          <5>1. Built(p) \in Seq(Tenant) /\ post[p].tenants \in Seq(Tenant)
            BY <1>p DEF Built, Request
          <5>2. /\ Len(Built(p)) <= Len(post[p].tenants)
                /\ \A k \in 1 .. Len(Built(p)) : Built(p)[k] = post[p].tenants[k]
            BY <1>p, <2>3 DEF Look, Named, Building, Has, Built
          <5>3. Built(p) # post[p].tenants
            BY <2>3 DEF Look, Complete
          <5> QED BY <5>1, <5>2, <5>3, Shorter
        <4>3. Named(r)
          BY <1>p, <2>3, <4>2 DEF Look, Named, Building, Has, Built, Request
        <4>4. post' = [post EXCEPT ![p] = r]
          BY <1>p, <2>3, <3>2 DEF Look, IInv, Shapes
        <4> QED
          BY <2>3, <4>1, <4>3, <4>4, RequestStep DEF Look, sessionVars
      <3> QED BY <3>1, <3>2
    <2>4. CASE Serve(p)
      <3> DEFINE r == [post[p] EXCEPT !.stage = "served", !.age = 0]
      <3>1. r \in Request
        BY <1>p DEF Request, Stages
      <3>2. Named(r)
        <4>1. /\ r.stage = "served" /\ r.server = post[p].server
              /\ r.tenants = post[p].tenants /\ post[p].stage = "fetch"
          BY <1>p, <2>4 DEF Request, Serve
        <4> HIDE DEF r
        <4>2. Has(r) = Has(post[p])
          BY <4>1 DEF Has
        <4>3. Building(post[p]) => Building(r)
          BY <4>1, <4>2 DEF Building
        <4> QED BY <1>p, <4>1, <4>2, <4>3 DEF Named
      <3>3. post' = [post EXCEPT ![p] = r]
        BY <2>4, <1>p DEF Serve, IInv, Shapes
      <3> QED BY <2>4, <3>1, <3>2, <3>3, RequestStep DEF Serve, sessionVars
    <2>5. CASE Receive(p)
      <3>1. ~Complete(p)
        BY <1>p, <2>5 DEF Receive, Complete, Named, Has, Built, Request
      <3> QED BY <2>5, <3>1, Obtaining DEF Receive, sessionVars
    <2>6. CASE FetchFails(p)
      BY <2>6, NoRequestOK, RequestStep DEF FetchFails
    <2>7. CASE Finish(p)
      <3> DEFINE h == post[p].session
                 r == [post[p] EXCEPT !.stage = "handle"]
      <3>1. post[p].tenants # <<>> /\ post[p].server = post[p].tenants
        BY <1>p, <2>7 DEF Finish, Named, Complete, Built
      <3>2. r \in Request
        BY <1>p DEF Request, Stages
      <3>3. Named(r)
        BY <1>p, <3>1 DEF Named, Request
      <3>4. post' = [post EXCEPT ![p] = r]
        BY <1>p, <2>7 DEF Finish, IInv, Shapes
      <3>5. CASE h = NoHandler
        BY <2>7, <3>2, <3>3, <3>4, <3>5, RequestStep DEF Finish
      <3>6. CASE h # NoHandler
        <4>1. /\ server' = [server EXCEPT ![h] = post[p].tenants]
              /\ tenants' = [tenants EXCEPT ![h] = post[p].tenants]
          BY <2>7, <3>1, <3>6 DEF Finish
        <4>2. h \in Handler /\ post[p].tenants \in Seq(Tenant)
          BY <1>p, <3>6 DEF Request
        <4> HIDE DEF r
        <4>3. post' \in [Post -> Request] /\ \A q \in Post : Named(post'[q])
          BY <3>2, <3>3, <3>4 DEF IInv, Shapes
        <4>4. ServerMatchesTenants'
          BY <4>1, <4>2 DEF IInv, Shapes, ServerMatchesTenants
        <4> QED BY <4>1, <4>2, <4>3, <4>4 DEF IInv, Shapes
      <3> QED BY <3>5, <3>6
    <2>8. CASE Handle(p)
      <3> DEFINE r == [post[p] EXCEPT !.stage = "write", !.clock = 0]
      <3>1. r \in Request
        BY <1>p DEF Request, Stages
      <3>2. Named(r)
        BY <1>p, <2>8 DEF Named, Request, Handle
      <3>3. post' = [post EXCEPT ![p] = NoRequest] \/ post' = [post EXCEPT ![p] = r]
        BY <2>8, <1>p DEF Handle, IInv, Shapes
      <3> QED
        BY <2>8, <3>1, <3>2, <3>3, NoRequestOK, RequestStep DEF Handle, sessionVars
    <2>9. CASE WriteMessage(p)
      BY <2>9, NoRequestOK, RequestStep DEF WriteMessage
    <2> QED
      BY <1>3, <2>1, <2>2, <2>3, <2>4, <2>5, <2>6, <2>7, <2>8, <2>9 DEF Proceed
  <1>4. CASE Tick
    <2> DEFINE later(q) == [post[q] EXCEPT
                   !.clock = IF Fetching(q) \/ Handling(q) THEN @ + 1 ELSE @,
                   !.age = IF post[q].stage = "served" THEN @ + 1 ELSE @]
    <2>1. post' = [q \in Post |-> later(q)] /\ UNCHANGED <<tenants, server>>
      BY <1>4 DEF Tick
    <2>2. ASSUME NEW q \in Post
          PROVE  later(q) \in Request /\ Named(later(q))
      <3>1. later(q) \in Request
        <4>1. post[q].clock + 1 \in Nat /\ post[q].age + 1 \in Nat
          BY <1>p DEF Request
        <4> QED BY <1>p, <4>1, Later
      <3>2. /\ later(q).stage = post[q].stage
            /\ later(q).session = post[q].session
            /\ later(q).tenants = post[q].tenants
            /\ later(q).server = post[q].server
        BY <1>p DEF Request
      <3> HIDE DEF later
      <3>3. Has(later(q)) = Has(post[q])
        BY <3>2 DEF Has
      <3>4. Building(post[q]) => Building(later(q))
        BY <3>2, <3>3 DEF Building
      <3>5. Named(later(q))
        BY <1>p, <3>2, <3>3, <3>4 DEF Named
      <3> QED BY <3>1, <3>5
    <2> HIDE DEF later
    <2> QED
      BY <2>1, <2>2 DEF IInv, Shapes, ServerMatchesTenants
  <1>5. CASE UNCHANGED vars
    BY <1>5, SessionStep DEF vars, sessionVars
  <1> QED BY <1>1, <1>2, <1>3, <1>4, <1>5 DEF Next

(* Sessions, posts and the servers they hold agree on their tenants in     *)
(* every state (sseHandler, mcpPostHandler, ensureCompositeServer).        *)
THEOREM Invariance == Spec => []IInv
  BY Initially, Stepping, PTL DEF Spec

(* What a session says of its tenants is what its server was built for,    *)
(* also after a build that failed half way (ensureCompositeServer).        *)
THEOREM ServersMatch == Spec => []ServerMatchesTenants
  BY Invariance, PTL DEF IInv

(* A tool reads the data of the tenant whose manifest it was made from,    *)
(* for any number of sessions and requests, any tenants and any timeouts   *)
(* (mcpPostHandler, makeHandler).                                          *)
THEOREM ToolsReadOwn == Spec => []ToolsReadOwnTenant
  <1>1. IInv => ToolsReadOwnTenant
    <2> SUFFICES ASSUME IInv, NEW p \in Post, Handling(p)
                 PROVE  /\ Len(post[p].server) = Len(post[p].tenants)
                        /\ \A k \in DOMAIN post[p].server :
                               RunsAgainst(p, k) = post[p].tenants[k]
      BY DEF ToolsReadOwnTenant
    <2>1. post[p].server = post[p].tenants /\ post[p].tenants \in Seq(Tenant)
      BY DEF IInv, Shapes, Named, Handling, Request
    <2>2. ASSUME NEW k \in DOMAIN post[p].server
          PROVE  RunsAgainst(p, k) = post[p].tenants[k]
      <3>1. k \in 1 .. Len(post[p].tenants)
        BY <2>1
      <3>2. Len(post[p].tenants) = 1 => k = 1
        BY <3>1
      <3> QED BY <2>1, <3>2 DEF RunsAgainst
    <2> QED BY <2>1, <2>2
  <1> QED BY <1>1, Invariance, PTL


(* Both together: a message is answered from the data of its own tenants.  *)
THEOREM OwnTenantsServed == Spec => []ServesOwnTenants
  BY ToolsReadOwn, ServersMatch, PTL DEF ServesOwnTenants

-----------------------------------------------------------------------------
(* Types and ages.                                                         *)

(* The limits are numbers, and the clock of a request holds two of them.   *)
LEMMA Limits ==
    /\ IdleTimeout \in Nat \ {0} /\ MaxLifetime \in Nat \ {0}
    /\ HandleTimeout \in Nat \ {0} /\ FetchTimeout \in Nat \ {0}
    /\ TTL \in Nat \ {0} /\ MaxSessions \in Nat \ {0}
    /\ MaxAge \in Nat /\ MaxAge = FetchTimeout + TTL
    /\ LifeCap \in Nat /\ LifeCap = MaxLifetime + IdleTimeout + 1
    /\ ClockCap \in Nat /\ FetchTimeout <= ClockCap /\ HandleTimeout <= ClockCap
    /\ HandleTimeout <= IdleTimeout
  BY GatewayAssumption, TimeoutsAssumption DEF MaxAge, LifeCap, ClockCap

(* The requests of TypeOK, with what AgesInv says of each.                 *)
TypedRequest ==
    [stage : Stages, session : Handler \cup {NoHandler}, tenants : Lists,
     server : Servers, clock : 0 .. ClockCap, age : 0 .. FetchTimeout]
RequestsTyped ==
    post \in [Post -> TypedRequest] /\ \A p \in Post : InTime(post[p])

(* A server under way is for the first tenants of a header.                *)
LEMMA ServerFacts ==
    /\ NoServer \in Servers
    /\ \A ts \in TenantLists : \A n \in 1 .. Len(ts) : SubSeq(ts, 1, n) \in Servers
  BY DEF Servers, Prefixes

LEMMA NoRequestTyped == NoRequest \in TypedRequest /\ InTime(NoRequest)
  <1>1. /\ 0 \in 0 .. ClockCap /\ 0 \in 0 .. FetchTimeout
        /\ <<>> \in Lists /\ "idle" \in Stages
    BY Limits DEF Lists, Stages
  <1> QED
    BY <1>1, ServerFacts DEF NoRequest, Fresh, TypedRequest, InTime

LEMMA OneTyped ==
    ASSUME RequestsTyped, NEW p \in Post, NEW r \in TypedRequest, InTime(r),
           post' = [post EXCEPT ![p] = r]
    PROVE  RequestsTyped'
  BY DEF RequestsTyped

(* The lists a client sends are lists of tenants, and one that is not empty*)
(* is a header.                                                            *)
LEMMA HeaderFacts ==
    ASSUME NEW ts \in Lists
    PROVE  ts \in Seq(Tenant) /\ (ts # <<>> => ts \in TenantLists)
  <1>1. CASE ts \in TenantLists
    BY <1>1, GatewayAssumption
  <1>2. CASE ts = <<>>
    BY <1>2
  <1> QED BY <1>1, <1>2 DEF Lists

(* The first tenants of a header are a server under way, all of them a     *)
(* server.                                                                 *)
LEMMA PrefixServer ==
    ASSUME NEW ts \in TenantLists, NEW b \in Seq(Tenant), Len(b) < Len(ts),
           \A k \in 1 .. Len(b) : b[k] = ts[k]
    PROVE  Append(b, ts[Len(b) + 1]) \in Servers
  <1> DEFINE n == Len(b) + 1
             a == Append(b, ts[n])
  <1>1. ts \in Seq(Tenant) /\ n \in 1 .. Len(ts) /\ Len(b) \in Nat
    BY GatewayAssumption
  <1>2. a \in Seq(Tenant) /\ Len(a) = n
        /\ \A k \in 1 .. n : a[k] = IF k = n THEN ts[n] ELSE b[k]
    BY <1>1
  <1>3. /\ SubSeq(ts, 1, n) \in Seq(Tenant) /\ Len(SubSeq(ts, 1, n)) = n
        /\ \A k \in 1 .. n : SubSeq(ts, 1, n)[k] = ts[k]
    BY <1>1
  <1>4. a = SubSeq(ts, 1, n)
    <2>1. \A k \in 1 .. n : a[k] = ts[k]
      BY <1>1, <1>2
    <2> HIDE DEF a, n
    <2> QED BY <1>2, <1>3, <2>1, SeqEqual
  <1> HIDE DEF a, n
  <1>5. a \in Servers
    BY <1>1, <1>4, ServerFacts
  <1> QED BY <1>5 DEF a, n

LEMMA WholeServer ==
    ASSUME NEW ts \in TenantLists
    PROVE  ts \in Servers
  <1>1. ts \in Seq(Tenant) /\ Len(ts) \in 1 .. Len(ts)
    BY GatewayAssumption, EmptySeq
  <1>2. ts = SubSeq(ts, 1, Len(ts))
    BY <1>1
  <1> QED BY <1>1, <1>2, ServerFacts

(* The next manifest of a build.                                           *)
LEMMA ObtainTyped ==
    ASSUME IInv, RequestsTyped, NEW p \in Post, ~Complete(p),
           post[p].stage \in {"build", "served"}, Obtain(p)
    PROVE  RequestsTyped'
  <1> DEFINE b == Built(p)
             ts == post[p].tenants
             s == Append(b, Wanted(p))
             r == [post[p] EXCEPT !.stage = "build", !.server = s,
                        !.clock = 0, !.age = 0]
  <1>1. post[p] \in TypedRequest /\ Named(post[p]) /\ post[p] \in Request
    BY DEF IInv, Shapes, RequestsTyped
  <1>2. b \in Seq(Tenant) /\ ts \in Seq(Tenant)
    BY <1>1 DEF Built, Request
  <1>3. Len(b) < Len(ts) /\ \A k \in 1 .. Len(b) : b[k] = ts[k]
    <2>1. Len(b) <= Len(ts) /\ \A k \in 1 .. Len(b) : b[k] = ts[k]
      BY <1>1 DEF Named, Building, Has, Built
    <2>2. b # ts
      BY DEF Complete
    <2> HIDE DEF b, ts
    <2> QED BY <1>2, <2>1, <2>2, Shorter
  <1>4. ts \in TenantLists
    <2>1. ts \in Lists /\ ts # <<>>
      BY <1>1 DEF TypedRequest, Named
    <2> QED BY <2>1, HeaderFacts
  <1>5. s \in Servers
    <2>1. Wanted(p) = ts[Len(b) + 1]
      BY DEF Wanted
    <2> HIDE DEF b, ts
    <2> QED BY <1>2, <1>3, <1>4, <2>1, PrefixServer
  <1> HIDE DEF s
  <1>6. r \in TypedRequest
    <2>1. /\ 0 \in 0 .. ClockCap /\ 0 \in 0 .. FetchTimeout
          /\ "build" \in Stages
      BY Limits DEF Stages
    <2> QED BY <1>1, <1>5, <2>1 DEF TypedRequest
  <1>7. InTime(r)
    BY <1>1, Limits DEF TypedRequest, InTime
  <1>8. post' = [post EXCEPT ![p] = r]
    BY DEF Obtain, s
  <1> HIDE DEF r
  <1> QED BY <1>6, <1>7, <1>8, OneTyped

(* Every step leaves requests of the type, none beyond its timeout.        *)
LEMMA RequestsStep ==
    ASSUME IInv, TypeOK, AgesInv, [Next]_vars
    PROVE  RequestsTyped'
  <1>0. RequestsTyped
    BY DEF TypeOK, AgesInv, RequestsTyped, TypedRequest
  <1>p. ASSUME NEW p \in Post
        PROVE  post[p] \in TypedRequest /\ InTime(post[p]) /\ Named(post[p])
    BY <1>0 DEF RequestsTyped, IInv
  <1>1. ASSUME NEW h \in Handler, Serving(h) PROVE RequestsTyped'
    <2>1. post' = post
      BY <1>1
         DEF Serving, Admit, Register, ClientLeaves, CheckTimer, Expire, ResetTimer
    <2> QED BY <1>0, <2>1 DEF RequestsTyped
  <1>2. ASSUME NEW p \in Post, NEW h \in Sessions \cup {NoHandler},
               NEW ts \in Lists, Arrive(p, h, ts)
        PROVE  RequestsTyped'
    <2> DEFINE stage == IF h = NoHandler THEN "build"
                        ELSE IF ts = <<>> THEN "ask" ELSE "ensure"
               r == Fresh(stage, h, ts)
    <2>1. h \in Handler \cup {NoHandler}
      BY DEF Sessions
    <2>2. stage \in {"build", "ask", "ensure"}
      OBVIOUS
    <2> HIDE DEF stage
    <2>3. r \in TypedRequest /\ InTime(r)
      <3>1. /\ 0 \in 0 .. ClockCap /\ 0 \in 0 .. FetchTimeout
            /\ stage \in Stages
        BY <2>2, Limits DEF Stages
      <3> QED
        BY <2>1, <2>2, <3>1, ServerFacts DEF TypedRequest, Fresh, InTime
    <2>4. post' = [post EXCEPT ![p] = r]
      BY <1>2 DEF Arrive, stage
    <2> HIDE DEF r
    <2> QED BY <1>0, <2>3, <2>4, OneTyped
  <1>3. ASSUME NEW p \in Post, Proceed(p) PROVE RequestsTyped'
    <2>1. CASE GetTenantIDs(p)
      <3> DEFINE h == post[p].session
                 r == [post[p] EXCEPT !.stage = "ensure", !.tenants = tenants[h]]
      <3>1. h \in Handler
        BY <1>p, <2>1 DEF Named, GetTenantIDs
      <3>2. tenants[h] \in Lists
        BY <3>1 DEF TypeOK
      <3>3. r \in TypedRequest /\ InTime(r)
        BY <1>p, <2>1, <3>2 DEF TypedRequest, Stages, InTime, GetTenantIDs
      <3>4. post' = [post EXCEPT ![p] = NoRequest] \/ post' = [post EXCEPT ![p] = r]
        BY <2>1 DEF GetTenantIDs
      <3> HIDE DEF r
      <3> QED BY <1>0, <3>3, <3>4, NoRequestTyped, OneTyped
    <2>2. CASE Ensure(p)
      <3> DEFINE h == post[p].session
                 r1 == [post[p] EXCEPT !.stage = "handle", !.server = server[h]]
                 r2 == [post[p] EXCEPT !.stage = "build"]
      <3>1. h \in Handler
        BY <1>p, <2>2 DEF Named, Ensure
      <3>2. server[h] \in Servers
        BY <3>1, WholeServer, ServerFacts DEF TypeOK
      <3>3. r1 \in TypedRequest /\ InTime(r1)
        <4>1. post[p].stage = "ensure" /\ 0 <= HandleTimeout /\ "handle" \in Stages
          BY <2>2, Limits DEF Ensure, Stages
        <4> QED BY <1>p, <3>2, <4>1 DEF TypedRequest, InTime
      <3>4. r2 \in TypedRequest /\ InTime(r2)
        BY <1>p, <2>2 DEF TypedRequest, Stages, InTime, Ensure
      <3>5. post' = [post EXCEPT ![p] = r1] \/ post' = [post EXCEPT ![p] = r2]
        BY <1>0, <1>p, <2>2 DEF Ensure, RequestsTyped
      <3> HIDE DEF r1, r2
      <3> QED BY <1>0, <3>3, <3>4, <3>5, OneTyped
    <2>3. CASE Look(p)
      <3> DEFINE r == [post[p] EXCEPT !.stage = "fetch", !.clock = 0]
      <3>1. CASE cache[Wanted(p)] # NoEntry
        BY <1>0, <2>3, <3>1, ObtainTyped DEF Look
      <3>2. CASE cache[Wanted(p)] = NoEntry
        <4>1. r \in TypedRequest /\ InTime(r)
          <5>1. /\ 0 \in 0 .. ClockCap /\ 0 <= FetchTimeout
                /\ "fetch" \in Stages
            BY Limits DEF Stages
          <5> QED BY <1>p, <5>1 DEF TypedRequest, InTime
        <4>2. post' = [post EXCEPT ![p] = r]
          BY <1>0, <2>3, <3>2 DEF Look, RequestsTyped
        <4> HIDE DEF r
        <4> QED BY <1>0, <4>1, <4>2, OneTyped
      <3> QED BY <3>1, <3>2
    <2>4. CASE Serve(p)
      <3> DEFINE r == [post[p] EXCEPT !.stage = "served", !.age = 0]
      <3>1. r \in TypedRequest /\ InTime(r)
        <4>1. /\ post[p].stage = "fetch" /\ 0 \in 0 .. FetchTimeout
              /\ "served" \in Stages
          BY <2>4, Limits DEF Serve, Stages
        <4>2. post[p].clock \in Nat
          BY <1>p, Limits DEF TypedRequest
        <4>3. r \in TypedRequest
          BY <1>p, <4>1 DEF TypedRequest
        <4>4. /\ r.stage = "served" /\ r.clock = post[p].clock /\ r.age = 0
          BY <1>p DEF TypedRequest
        <4>5. post[p].clock <= FetchTimeout /\ 0 <= post[p].clock
          BY <1>p, <4>1, <4>2 DEF InTime
        <4> HIDE DEF r
        <4> QED BY <4>3, <4>4, <4>5 DEF InTime
      <3>2. post' = [post EXCEPT ![p] = r]
        BY <1>0, <2>4 DEF Serve, RequestsTyped
      <3> HIDE DEF r
      <3> QED BY <1>0, <3>1, <3>2, OneTyped
    <2>5. CASE Receive(p)
      <3>1. ~Complete(p)
        BY <1>p, <2>5 DEF Receive, Complete, Named, Has, Built
      <3> QED BY <1>0, <2>5, <3>1, ObtainTyped DEF Receive
    <2>6. CASE FetchFails(p) \/ WriteMessage(p)
      BY <1>0, <2>6, NoRequestTyped, OneTyped DEF FetchFails, WriteMessage
    <2>7. CASE Finish(p)
      <3> DEFINE r == [post[p] EXCEPT !.stage = "handle"]
      <3>1. r \in TypedRequest /\ InTime(r)
        BY <1>p, <2>7, Limits DEF TypedRequest, Stages, InTime, Finish
      <3>2. post' = [post EXCEPT ![p] = r]
        BY <1>0, <2>7 DEF Finish, RequestsTyped
      <3> HIDE DEF r
      <3> QED BY <1>0, <3>1, <3>2, OneTyped
    <2>8. CASE Handle(p)
      <3> DEFINE r == [post[p] EXCEPT !.stage = "write", !.clock = 0]
      <3>1. r \in TypedRequest /\ InTime(r)
        <4>1. 0 \in 0 .. ClockCap /\ "write" \in Stages
          BY Limits DEF Stages
        <4> QED BY <1>p, <4>1 DEF TypedRequest, InTime
      <3>2. post' = [post EXCEPT ![p] = NoRequest] \/ post' = [post EXCEPT ![p] = r]
        BY <1>0, <2>8 DEF Handle, RequestsTyped
      <3> HIDE DEF r
      <3> QED BY <1>0, <3>1, <3>2, NoRequestTyped, OneTyped
    <2> QED
      BY <1>3, <2>1, <2>2, <2>3, <2>4, <2>5, <2>6, <2>7, <2>8 DEF Proceed
  <1>4. CASE Tick
    <2> DEFINE later(q) == [post[q] EXCEPT
                   !.clock = IF Fetching(q) \/ Handling(q) THEN @ + 1 ELSE @,
                   !.age = IF post[q].stage = "served" THEN @ + 1 ELSE @]
    <2>1. post' = [q \in Post |-> later(q)]
      BY <1>4 DEF Tick
    <2>2. ASSUME NEW q \in Post
          PROVE  later(q) \in TypedRequest /\ InTime(later(q))
      <3>1. /\ Fetching(q) => post[q].clock < FetchTimeout
            /\ Handling(q) => post[q].clock < HandleTimeout
        BY <1>4 DEF Tick, MayWait
      <3>2. /\ post[q].clock \in Nat /\ post[q].age \in Nat
            /\ post[q].clock <= ClockCap /\ post[q].age <= FetchTimeout
        BY <1>p, Limits DEF TypedRequest
      <3>3. CASE post[q].stage = "served"
        <4>1. /\ post[q].clock + 1 \in 0 .. ClockCap
              /\ post[q].clock + 1 <= FetchTimeout
              /\ post[q].age + 1 \in 0 .. FetchTimeout
              /\ post[q].age + 1 <= post[q].clock + 1
          BY <1>p, <3>1, <3>2, <3>3, Limits DEF Fetching, InTime
        <4>2. later(q) = [post[q] EXCEPT !.clock = @ + 1, !.age = @ + 1]
          BY <3>3 DEF Fetching
        <4> QED
          BY <1>p, <3>3, <4>1, <4>2 DEF TypedRequest, InTime
      <3>4. CASE post[q].stage \in {"fetch", "handle"}
        <4>1. /\ post[q].clock + 1 \in 0 .. ClockCap
              /\ post[q].stage = "fetch" => post[q].clock + 1 <= FetchTimeout
              /\ post[q].stage = "handle" => post[q].clock + 1 <= HandleTimeout
          BY <3>1, <3>2, <3>4, Limits DEF Fetching, Handling
        <4>2. later(q) = [post[q] EXCEPT !.clock = @ + 1, !.age = @]
          BY <3>4 DEF Fetching, Handling
        <4> QED
          BY <1>p, <3>4, <4>1, <4>2 DEF TypedRequest, InTime
      <3>5. CASE post[q].stage \notin {"fetch", "served", "handle"}
        <4>1. later(q) = [post[q] EXCEPT !.clock = @, !.age = @]
          BY <3>5 DEF Fetching, Handling
        <4>2. later(q) = post[q]
          BY <1>p, <4>1 DEF TypedRequest
        <4> QED BY <1>p, <4>2
      <3> QED BY <3>3, <3>4, <3>5
    <2> HIDE DEF later
    <2> QED BY <2>1, <2>2 DEF RequestsTyped
  <1>5. CASE UNCHANGED vars
    BY <1>0, <1>5 DEF vars, RequestsTyped
  <1> QED BY <1>1, <1>2, <1>3, <1>4, <1>5 DEF Next

(* The entries of the cache: younger than MaxAge by what is left of them.  *)
CacheTyped ==
    /\ cache \in [Tenant -> [age : 0 .. MaxAge + 1, left : 1 .. TTL]
                                \cup {NoEntry}]
    /\ \A t \in Tenant :
           cache[t] # NoEntry => cache[t].age + cache[t].left <= MaxAge

LEMMA CacheStep ==
    ASSUME IInv, TypeOK, AgesInv, [Next]_vars
    PROVE  CacheTyped'
  <1> DEFINE Entry == [age : 0 .. MaxAge + 1, left : 1 .. TTL]
  <1>0. /\ cache \in [Tenant -> Entry \cup {NoEntry}]
        /\ \A t \in Tenant :
             cache[t] # NoEntry => cache[t].age + cache[t].left <= MaxAge
    BY DEF TypeOK, AgesInv
  <1>1. CASE UNCHANGED cache
    BY <1>0, <1>1 DEF CacheTyped
  <1>2. ASSUME NEW p \in Post, Receive(p) PROVE CacheTyped'
    <2> DEFINE e == [age |-> post[p].age, left |-> TTL]
    <2>1. post[p].age \in 0 .. FetchTimeout
      BY DEF TypeOK
    <2>2. e \in Entry /\ e.age + e.left <= MaxAge
      BY <2>1, Limits
    <2>3. cache' = [cache EXCEPT ![Wanted(p)] = e]
      BY <1>2 DEF Receive
    <2> HIDE DEF e, Entry
    <2>4. \A t \in Tenant : cache'[t] = e \/ cache'[t] = cache[t]
      BY <1>0, <2>3
    <2>5. cache' \in [Tenant -> Entry \cup {NoEntry}]
      BY <1>0, <2>2, <2>3
    <2>6. \A t \in Tenant :
            cache'[t] # NoEntry => cache'[t].age + cache'[t].left <= MaxAge
      BY <1>0, <2>2, <2>4
    <2> QED BY <2>5, <2>6 DEF CacheTyped, Entry
  <1>3. CASE Tick
    <2> DEFINE older(t) == [age |-> UpTo(MaxAge + 1, cache[t].age),
                            left |-> cache[t].left - 1]
    <2>1. cache' = [t \in Tenant |->
              IF cache[t] = NoEntry THEN NoEntry
              ELSE IF RunsOut(cache[t]) THEN NoEntry ELSE older(t)]
      BY <1>3 DEF Tick
    <2>2. ASSUME NEW t \in Tenant, cache[t] # NoEntry, ~RunsOut(cache[t])
          PROVE  older(t) \in Entry /\ older(t).age + older(t).left <= MaxAge
      <3>1. /\ cache[t].age \in 0 .. MaxAge + 1 /\ cache[t].left \in 1 .. TTL
            /\ cache[t].age + cache[t].left <= MaxAge
        BY <1>0, <2>2
      <3>2. cache[t].left # 1
        BY <2>2 DEF RunsOut
      <3>3. UpTo(MaxAge + 1, cache[t].age) = cache[t].age + 1
        BY <3>1, Limits DEF UpTo
      <3> QED BY <3>1, <3>2, <3>3, Limits
    <2> HIDE DEF older, Entry
    <2>3. cache' \in [Tenant -> Entry \cup {NoEntry}]
      BY <2>1, <2>2
    <2>4. \A t \in Tenant :
            cache'[t] # NoEntry => cache'[t].age + cache'[t].left <= MaxAge
      BY <2>1, <2>2
    <2> QED BY <2>3, <2>4 DEF CacheTyped, Entry
  <1> QED
    BY <1>1, <1>2, <1>3
       DEF Next, Serving, Admit, Register, ClientLeaves, CheckTimer, Expire,
           ResetTimer, Arrive, Proceed, GetTenantIDs, Ensure, Look, Serve,
           FetchFails, Finish, Handle, WriteMessage, sessionVars, vars

(* The sessions: the sum of age and timer never grows past the limit, and  *)
(* a handler without a session starts from zero.                           *)
SessionsTyped ==
    /\ sse \in [Handler -> {"away", "admitted", "serving"}]
    /\ tenants \in [Handler -> Lists]
    /\ server \in [Handler -> TenantLists \cup {NoServer}]
    /\ holder \in [Handler -> Post \cup {NoPost}]
    /\ idle \in [Handler -> 0 .. IdleTimeout + 1]
    /\ life \in [Handler -> 0 .. LifeCap]
    /\ timer \in [Handler -> 0 .. IdleTimeout]
    /\ \A h \in Handler :
           IF sse[h] = "serving"
           THEN timer[h] = 0 \/ life[h] + timer[h] <= MaxLifetime + IdleTimeout
           ELSE idle[h] = 0 /\ life[h] = 0

(* A session's handler that starts, is waited for or ends.                 *)
LEMMA HandlerStep ==
    ASSUME SessionsTyped, NEW h \in Handler, Serving(h)
    PROVE  SessionsTyped'
  <1>0. /\ 0 \in 0 .. IdleTimeout + 1 /\ 0 \in 0 .. LifeCap
        /\ 0 \in 0 .. IdleTimeout /\ IdleTimeout \in 0 .. IdleTimeout
    BY Limits
  <1>1. CASE Admit(h)
    BY <1>1 DEF Admit, SessionsTyped
  <1>2. ASSUME NEW ts \in Lists, Register(h, ts) PROVE SessionsTyped'
    <2>1. life[h] = 0 /\ 0 + IdleTimeout <= MaxLifetime + IdleTimeout
      BY <1>2, Limits DEF Register, SessionsTyped
    <2>2. /\ sse' = [sse EXCEPT ![h] = "serving"]
          /\ tenants' = [tenants EXCEPT ![h] = ts]
          /\ server' = [server EXCEPT ![h] = NoServer]
          /\ timer' = [timer EXCEPT ![h] = IdleTimeout]
          /\ UNCHANGED <<holder, idle, life>>
      BY <1>2 DEF Register
    <2>3. \A x \in Handler :
            IF sse'[x] = "serving"
            THEN \/ timer'[x] = 0
                 \/ life'[x] + timer'[x] <= MaxLifetime + IdleTimeout
            ELSE idle'[x] = 0 /\ life'[x] = 0
      BY <2>1, <2>2 DEF SessionsTyped
    <2> QED BY <1>0, <2>2, <2>3 DEF SessionsTyped
  <1>3. CASE ClientLeaves(h) \/ Expire(h)
    <2>1. End(h) /\ UNCHANGED <<tenants, server, holder>>
      BY <1>3 DEF ClientLeaves, Expire
    <2> QED BY <1>0, <2>1 DEF End, SessionsTyped
  <1>4. CASE ResetTimer(h)
    <2>1. ~IsExpired(h) /\ sse[h] = "serving"
      BY <1>4 DEF ResetTimer, TimerFired
    <2>2. life[h] + IdleTimeout <= MaxLifetime + IdleTimeout
      BY <2>1, Limits DEF IsExpired, SessionsTyped
    <2>3. /\ timer' = [timer EXCEPT ![h] = IdleTimeout]
          /\ UNCHANGED <<sse, tenants, server, holder, idle, life>>
      BY <1>4 DEF ResetTimer
    <2> QED BY <1>0, <2>1, <2>2, <2>3 DEF SessionsTyped
  <1> QED BY <1>1, <1>2, <1>3, <1>4 DEF Serving, CheckTimer

(* A request that touches its session leaves it less idle.                 *)
LEMMA TouchStep ==
    ASSUME SessionsTyped, NEW h \in Handler \cup {NoHandler}, Touch(h) \/ UNCHANGED idle,
           UNCHANGED <<sse, life, timer>>,
           tenants' \in [Handler -> Lists],
           server' \in [Handler -> TenantLists \cup {NoServer}],
           holder' \in [Handler -> Post \cup {NoPost}]
    PROVE  SessionsTyped'
  <1>0. 0 \in 0 .. IdleTimeout + 1
    BY Limits
  <1>1. /\ idle' \in [Handler -> 0 .. IdleTimeout + 1]
        /\ \A x \in Handler : idle[x] = 0 => idle'[x] = 0
    BY <1>0 DEF Touch, SessionsTyped
  <1> QED BY <1>1 DEF SessionsTyped

LEMMA SessionsStep ==
    ASSUME IInv, TypeOK, AgesInv, [Next]_vars
    PROVE  SessionsTyped'
  <1>0. SessionsTyped
    BY DEF TypeOK, AgesInv, SessionsTyped
  <1>p. ASSUME NEW p \in Post
        PROVE  /\ post[p].session \in Handler \cup {NoHandler}
               /\ post[p].tenants \in Lists /\ Named(post[p])
    BY DEF TypeOK, IInv
  <1>1. ASSUME NEW h \in Handler, Serving(h) PROVE SessionsTyped'
    BY <1>0, <1>1, HandlerStep
  <1>2. ASSUME NEW p \in Post, Ensure(p) PROVE SessionsTyped'
    <2>1. holder' \in [Handler -> Post \cup {NoPost}]
      BY <1>0, <1>2 DEF Ensure, SessionsTyped
    <2> QED
      BY <1>0, <1>p, <1>2, <2>1, TouchStep DEF Ensure, SessionsTyped
  <1>3. ASSUME NEW p \in Post, FetchFails(p) PROVE SessionsTyped'
    <2>1. holder' \in [Handler -> Post \cup {NoPost}]
      BY <1>0, <1>3 DEF FetchFails, SessionsTyped
    <2> QED
      BY <1>0, <1>p, <1>3, <2>1, TouchStep DEF FetchFails, SessionsTyped
  <1>4. ASSUME NEW p \in Post, Finish(p) PROVE SessionsTyped'
    <2> DEFINE h == post[p].session
    <2>1. /\ post[p].stage = "build" /\ post[p].tenants # <<>>
          /\ post[p].server = post[p].tenants
      BY <1>p, <1>4 DEF Finish, Named, Complete, Built
    <2>2. post[p].tenants \in TenantLists
      BY <1>p, <2>1, HeaderFacts
    <2>3. /\ tenants' \in [Handler -> Lists]
          /\ server' \in [Handler -> TenantLists \cup {NoServer}]
          /\ holder' \in [Handler -> Post \cup {NoPost}]
      BY <1>0, <1>p, <1>4, <2>1, <2>2 DEF Finish, SessionsTyped
    <2>4. UNCHANGED <<sse, life, timer>> /\ Touch(h)
      BY <1>4 DEF Finish
    <2> QED BY <1>0, <1>p, <2>3, <2>4, TouchStep
  <1>5. ASSUME NEW p \in Post, WriteMessage(p) PROVE SessionsTyped'
    BY <1>0, <1>p, <1>5, TouchStep DEF WriteMessage, SessionsTyped
  <1>6. CASE Tick
    <2>1. /\ idle' = [h \in Handler |-> IF sse[h] = "serving"
                                  THEN UpTo(IdleTimeout + 1, idle[h]) ELSE idle[h]]
          /\ life' = [h \in Handler |-> IF sse[h] = "serving"
                                  THEN UpTo(LifeCap, life[h]) ELSE life[h]]
          /\ timer' = [h \in Handler |-> IF timer[h] > 0 THEN timer[h] - 1 ELSE 0]
          /\ UNCHANGED <<sse, tenants, server, holder>>
      BY <1>6 DEF Tick
    <2>2. ASSUME NEW h \in Handler
          PROVE  /\ idle'[h] \in 0 .. IdleTimeout + 1
                 /\ life'[h] \in 0 .. LifeCap
                 /\ timer'[h] \in 0 .. IdleTimeout
                 /\ IF sse[h] = "serving"
                    THEN \/ timer'[h] = 0
                         \/ life'[h] + timer'[h] <= MaxLifetime + IdleTimeout
                    ELSE idle'[h] = 0 /\ life'[h] = 0
      <3>1. /\ idle[h] \in 0 .. IdleTimeout + 1 /\ life[h] \in 0 .. LifeCap
            /\ timer[h] \in 0 .. IdleTimeout
        BY <1>0 DEF SessionsTyped
      <3>2. /\ UpTo(IdleTimeout + 1, idle[h]) \in 0 .. IdleTimeout + 1
            /\ UpTo(LifeCap, life[h]) \in 0 .. LifeCap
            /\ UpTo(LifeCap, life[h]) <= life[h] + 1
        BY <3>1, Limits DEF UpTo
      <3>3. /\ idle'[h] = IF sse[h] = "serving"
                          THEN UpTo(IdleTimeout + 1, idle[h]) ELSE idle[h]
            /\ life'[h] = IF sse[h] = "serving"
                          THEN UpTo(LifeCap, life[h]) ELSE life[h]
            /\ timer'[h] = IF timer[h] > 0 THEN timer[h] - 1 ELSE 0
        BY <2>1
      <3>4. timer'[h] \in 0 .. IdleTimeout
        BY <3>1, <3>3, Limits
      <3>5. CASE sse[h] = "serving"
        <4>1. timer[h] = 0 \/ life[h] + timer[h] <= MaxLifetime + IdleTimeout
          BY <1>0, <3>5 DEF SessionsTyped
        <4>2. CASE timer[h] = 0
          BY <3>2, <3>3, <3>4, <3>5, <4>2
        <4>3. CASE timer[h] # 0
          <5>1. timer'[h] = timer[h] - 1
            BY <3>1, <3>3, <4>3, Limits
          <5>2. life'[h] \in 0 .. LifeCap /\ life'[h] <= life[h] + 1
            BY <3>2, <3>3, <3>5
          <5>3. life'[h] + timer'[h] <= MaxLifetime + IdleTimeout
            BY <3>1, <4>1, <4>3, <5>1, <5>2, Limits
          <5> QED BY <3>2, <3>3, <3>4, <3>5, <5>3
        <4> QED BY <4>2, <4>3
      <3>6. CASE sse[h] # "serving"
        BY <1>0, <3>1, <3>3, <3>4, <3>6 DEF SessionsTyped
      <3> QED BY <3>5, <3>6
    <2>3. /\ idle' \in [Handler -> 0 .. IdleTimeout + 1]
          /\ life' \in [Handler -> 0 .. LifeCap]
          /\ timer' \in [Handler -> 0 .. IdleTimeout]
      <3>1. /\ idle' = [h \in Handler |-> idle'[h]]
            /\ life' = [h \in Handler |-> life'[h]]
            /\ timer' = [h \in Handler |-> timer'[h]]
        BY <2>1
      <3> QED BY <2>2, <3>1
    <2> QED BY <1>0, <2>1, <2>2, <2>3 DEF SessionsTyped
  <1>7. CASE UNCHANGED sessionVars
    BY <1>0, <1>7 DEF sessionVars, SessionsTyped
  <1> QED
    BY <1>1, <1>2, <1>3, <1>4, <1>5, <1>6, <1>7
       DEF Next, Arrive, Proceed, GetTenantIDs, Look, Serve, Receive, Handle, vars

(* A session is idle no longer than the message it is handling.            *)
IdleBound ==
    \A p \in Post, h \in Sessions :
        Handling(p) /\ Uses(p, h) => idle[h] <= post[p].clock

LEMMA IdleStep ==
    ASSUME IInv, TypeOK, AgesInv, [Next]_vars
    PROVE  IdleBound'
  <1>0. /\ post \in [Post -> TypedRequest] /\ idle \in [Handler -> 0 .. IdleTimeout + 1]
        /\ sse \in [Handler -> {"away", "admitted", "serving"}]
        /\ IdleBound /\ \A h \in Handler : sse[h] # "serving" => idle[h] = 0
        /\ \A p \in Post : post[p].clock \in Nat
        /\ NoHandler \notin Handler
    BY Limits, GatewayAssumption DEF TypeOK, AgesInv, TypedRequest, IdleBound
  <1>1. ASSUME NEW h \in Handler, Serving(h) PROVE IdleBound'
    <2>1. UNCHANGED post
      BY <1>1
         DEF Serving, Admit, Register, ClientLeaves, CheckTimer, Expire, ResetTimer
    <2>2. ASSUME NEW x \in Handler, sse'[x] = "serving"
          PROVE  idle'[x] = idle[x] /\ (sse[x] # "serving" => idle[x] = 0)
      <3>1. CASE End(h)
        <4>1. x # h
          BY <1>0, <2>2, <3>1 DEF End
        <4> QED BY <1>0, <3>1, <4>1 DEF End
      <3>2. CASE UNCHANGED idle
        BY <1>0, <3>2
      <3> QED
        BY <1>1, <3>1, <3>2
           DEF Serving, Admit, Register, ClientLeaves, CheckTimer, Expire, ResetTimer
    <2>3. ASSUME NEW p \in Post, NEW x \in Handler, sse'[x] = "serving",
                 Handling(p), Uses(p, x)
          PROVE  idle'[x] <= post[p].clock
      <3>1. CASE sse[x] = "serving"
        BY <1>0, <2>2, <2>3, <3>1 DEF IdleBound, Sessions
      <3>2. CASE sse[x] # "serving"
        <4>1. idle'[x] = 0 /\ post[p].clock \in Nat
          BY <1>0, <2>2, <2>3, <3>2
        <4> QED BY <4>1
      <3> QED BY <3>1, <3>2
    <2> QED BY <2>1, <2>3 DEF IdleBound, Sessions, Handling, Uses
  <1>2. ASSUME NEW p \in Post, NEW h, NEW ts, Arrive(p, h, ts) PROVE IdleBound'
    <2>1. /\ post'[p].stage # "handle" /\ \A q \in Post : q # p => post'[q] = post[q]
          /\ UNCHANGED <<sse, idle>>
      BY <1>0, <1>2 DEF Arrive, Fresh, sessionVars
    <2> QED BY <1>0, <2>1 DEF IdleBound, Sessions, Handling, Uses
  <1>3. ASSUME NEW p \in Post, Proceed(p) PROVE IdleBound'
    <2>1. UNCHANGED sse /\ \A q \in Post : q # p => post'[q] = post[q]
      BY <1>0, <1>3
         DEF Proceed, GetTenantIDs, Ensure, Look, Serve, Receive, FetchFails,
             Finish, Handle, WriteMessage, Obtain, sessionVars
    <2>2. \A h \in Handler : idle'[h] = idle[h] \/ idle'[h] = 0
      BY <1>0, <1>3
         DEF Proceed, GetTenantIDs, Ensure, Look, Serve, Receive, FetchFails,
             Finish, Handle, WriteMessage, Touch, sessionVars
    <2>3. ASSUME NEW h \in Sessions, Handling(p)', Uses(p, h)'
          PROVE  idle'[h] = 0 /\ post'[p].clock \in Nat
      <3>0. h \in Handler /\ sse[h] = "serving" /\ h # NoHandler
        BY <1>0 DEF Sessions
      <3>1. post'[p].stage = "handle" /\ post'[p].session = h
        BY <2>3 DEF Handling, Uses
      <3>2. Ensure(p) \/ Finish(p)
        <4>1. ASSUME GetTenantIDs(p) PROVE post'[p].stage # "handle"
          BY <1>0, <4>1 DEF GetTenantIDs, NoRequest, Fresh, TypedRequest
        <4>2. ASSUME Obtain(p) PROVE post'[p].stage # "handle"
          BY <1>0, <4>2 DEF Obtain, TypedRequest
        <4>3. ASSUME Look(p) \/ Receive(p) PROVE post'[p].stage # "handle"
          BY <1>0, <4>2, <4>3 DEF Look, Receive, TypedRequest
        <4>4. ASSUME Serve(p) PROVE post'[p].stage # "handle"
          BY <1>0, <4>4 DEF Serve, TypedRequest
        <4>5. ASSUME FetchFails(p) \/ WriteMessage(p)
              PROVE  post'[p].stage # "handle"
          BY <1>0, <4>5 DEF FetchFails, WriteMessage, NoRequest, Fresh
        <4>6. ASSUME Handle(p) PROVE post'[p].stage # "handle"
          BY <1>0, <4>6 DEF Handle, NoRequest, Fresh, TypedRequest
        <4> QED
          BY <1>3, <3>1, <4>1, <4>3, <4>4, <4>5, <4>6 DEF Proceed
      <3>3. /\ post'[p].session = post[p].session
            /\ post'[p].clock = post[p].clock
        BY <1>0, <3>2 DEF Ensure, Finish, TypedRequest
      <3>4. Touch(h)
        BY <1>0, <3>1, <3>2, <3>3 DEF Ensure, Finish, TypedRequest
      <3> QED BY <1>0, <3>0, <3>3, <3>4 DEF Touch
    <2>4. ASSUME NEW q \in Post, NEW h \in Sessions, Handling(q)', Uses(q, h)'
          PROVE  idle'[h] <= post'[q].clock
      <3>1. CASE q = p
        BY <2>3, <2>4, <3>1
      <3>2. CASE q # p
        <4>1. /\ post'[q] = post[q] /\ Handling(q) /\ Uses(q, h)
              /\ h \in Handler /\ post[q].clock \in Nat
          BY <1>0, <2>1, <2>4, <3>2 DEF Handling, Uses, Sessions
        <4>2. idle[h] <= post[q].clock
          BY <1>0, <4>1 DEF IdleBound
        <4> QED BY <2>2, <4>1, <4>2
      <3> QED BY <3>1, <3>2
    <2>5. Sessions' = Sessions
      BY <2>1 DEF Sessions
    <2> QED BY <2>4, <2>5 DEF IdleBound
  <1>4. CASE Tick
    <2>1. UNCHANGED sse /\ Sessions' = Sessions
      BY <1>4 DEF Tick, Sessions
    <2>2. ASSUME NEW q \in Post, NEW h \in Sessions, Handling(q)', Uses(q, h)'
          PROVE  idle'[h] <= post'[q].clock
      <3>0. h \in Handler /\ post[q] \in TypedRequest
        BY <1>0 DEF Sessions
      <3>1. post'[q] = [post[q] EXCEPT
                 !.clock = IF Fetching(q) \/ Handling(q) THEN @ + 1 ELSE @,
                 !.age = IF post[q].stage = "served" THEN @ + 1 ELSE @]
        BY <1>4 DEF Tick
      <3>2. /\ post'[q].stage = post[q].stage
            /\ post'[q].session = post[q].session
            /\ post'[q].clock = IF Fetching(q) \/ Handling(q)
                                THEN post[q].clock + 1 ELSE post[q].clock
        BY <3>0, <3>1 DEF TypedRequest
      <3>3. /\ Handling(q) /\ Uses(q, h) /\ post[q].clock \in Nat
            /\ post'[q].clock = post[q].clock + 1
        BY <1>0, <2>2, <3>2 DEF Handling, Uses
      <3>4. idle[h] <= post[q].clock /\ idle[h] \in Nat
        BY <1>0, <3>0, <3>3, Limits DEF IdleBound
      <3>5. idle'[h] = IF sse[h] = "serving"
                       THEN UpTo(IdleTimeout + 1, idle[h]) ELSE idle[h]
        BY <1>4, <3>0 DEF Tick
      <3>6. idle'[h] <= idle[h] + 1
        BY <3>4, <3>5 DEF UpTo
      <3>7. idle'[h] \in Nat
        BY <3>4, <3>5 DEF UpTo
      <3> QED BY <3>3, <3>4, <3>6, <3>7
    <2> QED BY <2>1, <2>2 DEF IdleBound
  <1>5. CASE UNCHANGED vars
    BY <1>0, <1>5 DEF vars, sessionVars, IdleBound, Sessions, Handling, Uses
  <1> QED BY <1>1, <1>2, <1>3, <1>4, <1>5 DEF Next

(* All variables keep their types, and what waits, ages or idles keeps to  *)
(* its time.                                                               *)
LEMMA AgesStep == IInv /\ TypeOK /\ AgesInv /\ [Next]_vars => TypeOK' /\ AgesInv'
  <1> SUFFICES ASSUME IInv, TypeOK, AgesInv, [Next]_vars
               PROVE  TypeOK' /\ AgesInv'
    OBVIOUS
  <1>1. RequestsTyped' /\ CacheTyped' /\ SessionsTyped' /\ IdleBound'
    BY RequestsStep, CacheStep, SessionsStep, IdleStep
  <1> QED
    BY <1>1
       DEF TypeOK, AgesInv, RequestsTyped, TypedRequest, CacheTyped,
           SessionsTyped, IdleBound

LEMMA AgesInit == Init => TypeOK /\ AgesInv
  <1> SUFFICES ASSUME Init PROVE TypeOK /\ AgesInv
    OBVIOUS
  <1>1. RequestsTyped
    BY NoRequestTyped DEF Init, RequestsTyped
  <1>2. CacheTyped
    BY DEF Init, CacheTyped
  <1>3. SessionsTyped
    <2>1. /\ 0 \in 0 .. IdleTimeout + 1 /\ 0 \in 0 .. LifeCap
          /\ 0 \in 0 .. IdleTimeout /\ <<>> \in Lists
      BY Limits DEF Lists
    <2> QED BY <2>1 DEF Init, SessionsTyped
  <1>4. IdleBound
    BY DEF Init, IdleBound, Sessions
  <1> QED
    BY <1>1, <1>2, <1>3, <1>4
       DEF TypeOK, AgesInv, RequestsTyped, TypedRequest, CacheTyped,
           SessionsTyped, IdleBound

(* The types and the ages hold in every state, however requests, fetches,  *)
(* timers and the clock interleave.                                        *)
THEOREM AgesInvariance == Spec => [](TypeOK /\ AgesInv)
  BY Invariance, AgesInit, AgesStep, PTL DEF Spec

(* No request is in two places, no clock runs past its timeout.            *)
THEOREM TypeCorrect == Spec => []TypeOK
  BY AgesInvariance, PTL

(* A manifest in the cache was served no longer than TTL and one fetch ago,*)
(* whoever overwrote it last (FetchConfigWithTenant).                      *)
THEOREM ManifestsFresh == Spec => []ManifestFresh
  <1>1. TypeOK /\ AgesInv => ManifestFresh
    <2> SUFFICES ASSUME TypeOK, AgesInv, NEW t \in Tenant, cache[t] # NoEntry
                 PROVE  cache[t].age <= MaxAge
      BY DEF ManifestFresh
    <2>1. /\ cache[t].age \in 0 .. MaxAge + 1 /\ cache[t].left \in 1 .. TTL
          /\ cache[t].age + cache[t].left <= MaxAge
      BY DEF TypeOK, AgesInv
    <2> QED BY <2>1, Limits
  <1> QED BY <1>1, AgesInvariance, PTL

(* A session outlives its lifetime by one idle timeout at most, unless its *)
(* handler waits for the mutex (sseHandler, isExpired).                    *)
THEOREM OverrunBounded == Spec => []LifetimeOverrun
  <1>1. TypeOK /\ AgesInv => LifetimeOverrun
    <2> SUFFICES ASSUME TypeOK, AgesInv, NEW h \in Sessions,
                        life[h] > MaxLifetime + IdleTimeout
                 PROVE  timer[h] = 0
      BY DEF LifetimeOverrun
    <2>1. /\ timer[h] \in 0 .. IdleTimeout /\ life[h] \in 0 .. LifeCap
          /\ timer[h] = 0 \/ life[h] + timer[h] <= MaxLifetime + IdleTimeout
      BY DEF TypeOK, AgesInv, Sessions
    <2> QED BY <2>1, Limits
  <1> QED BY <1>1, AgesInvariance, PTL

(* The timer never cuts a session off from a message that is being handled *)
(* for idleness: only for its lifetime (isExpired, TimeoutsAssumption).    *)
THEOREM CutByLifetime == Spec => CutOnlyByLifetime
  <1>1. TypeOK /\ AgesInv /\ [Next]_vars =>
          [\A h \in Handler : Expire(h) /\ (\E p \in Post : Uses(p, h) /\ Handling(p))
              => life[h] > MaxLifetime]_vars
    <2> SUFFICES ASSUME TypeOK, AgesInv, NEW h \in Handler, Expire(h),
                        NEW p \in Post, Uses(p, h), Handling(p)
                 PROVE  life[h] > MaxLifetime
      BY Zenon
    <2>1. h \in Sessions /\ IsExpired(h)
      BY DEF Expire, TimerFired, Sessions
    <2>2. idle[h] <= post[p].clock /\ post[p].clock <= HandleTimeout
      BY <2>1 DEF AgesInv, InTime, Handling
    <2>3. idle[h] \in 0 .. IdleTimeout + 1 /\ post[p].clock \in 0 .. ClockCap
      BY DEF TypeOK
    <2>4. idle[h] <= IdleTimeout
      BY <2>2, <2>3, Limits
    <2> QED BY <2>1, <2>3, <2>4, Limits DEF IsExpired
  <1> QED BY <1>1, AgesInvariance, PTL DEF Spec, CutOnlyByLifetime

(* No age passes its limit, for all values of the limits with the timeout  *)
(* of a message below that of idleness.                                    *)
THEOREM AgesBounded == Spec => AgesKept
  BY ManifestsFresh, OverrunBounded, CutByLifetime, PTL DEF AgesKept
=============================================================================
