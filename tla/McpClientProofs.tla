---------------------------- MODULE McpClientProofs ----------------------------
(***************************************************************************)
(* Proofs about McpClient: whatever calls reconnect, are cancelled or run  *)
(* out of time, the pool holds usable connections of the right tenants,    *)
(* and the first attempt of a call never meets a session that the gateway  *)
(* ended for idleness.                                                     *)
(***************************************************************************)
EXTENDS McpClient, TLAPS

(* A use that has begun names its tenants, one that waits its connection,  *)
(* and only a second attempt puts a connection into the pool afterwards.   *)
UsesOK ==
    \A c \in Call :
        /\ Active(c) => call[c].key \in Key
        /\ call[c].at \in Waiting \cup {"opening", "storing"} =>
               call[c].conn \in Conn
        /\ call[c].at = "storing" => call[c].attempt = 2

(* A connection that is being opened, or was opened and is not yet in the  *)
(* pool, is its opener's alone.                                            *)
Owned(c) ==
    LET x == call[c].conn IN
    /\ conn[x].key = call[c].key
    /\ call[c].at = "opening" => conn[x].state = "opening"
    /\ call[c].at = "storing" => conn[x].state \in Live
    /\ \A k \in Key : connections[k] # x
    /\ \A d \in Call : d # c => call[d].conn # x

OwnersOK == \A c \in Call : call[c].at \in {"opening", "storing"} => Owned(c)

(* The gateway heard of a session not much before the client last used it, *)
(* so that one it ended for idleness has long been idle here.              *)
AgesOK ==
    \A x \in Conn :
        /\ conn[x].state = "open" /\ conn[x].idle <= IdleLimit =>
               conn[x].quiet <= conn[x].idle + LockTimeout
        /\ conn[x].state = "expired" => conn[x].idle = IdleLimit + 1

(* What a use on connection x of age quiet knows about it.                 *)
FreshFor(c) ==
    LET x == call[c].conn IN
    /\ call[c].at = "running" /\ conn[x].state = "open" =>
           conn[x].quiet <= call[c].clock
    /\ call[c].at \in Waiting /\ call[c].attempt = 1 =>
           /\ conn[x].state # "expired"
           /\ conn[x].state = "open" =>
                  conn[x].quiet <= IdleLimit + LockTimeout + call[c].clock

FreshOK == \A c \in Call : FreshFor(c)

IInv == TypeOK /\ UsesOK /\ OwnersOK /\ PoolUsable /\ AgesOK /\ FreshOK
-----------------------------------------------------------------------------
(* The constants are natural numbers that fit the gateway's timeout.       *)
LEMMA Numbers ==
    /\ OpenTimeout \in Nat /\ LockTimeout \in Nat /\ ExecTimeout \in Nat
    /\ IdleLimit \in Nat /\ GatewayIdle \in Nat
    /\ 0 < LockTimeout /\ 0 < OpenTimeout
    /\ IdleLimit + LockTimeout + LockTimeout < GatewayIdle
    /\ OpenTimeout <= IdleLimit
  BY ClientAssumption, TimeoutsAssumption, SMT

(* An unused connection and an idle caller have their types.               *)
LEMMA NoneTypes == NoConnection \in Connection /\ NoUse \in Use
  BY Numbers, SMT DEF NoConnection, Connection, NoUse, Use, Kinds, Stages

(* The fields of a connection and of a use.                                *)
LEMMA Fields ==
    /\ \A n \in Connection :
           /\ n.key \in Key \cup {NoKey} /\ n.idle \in 0 .. IdleLimit + 1
           /\ n.quiet \in 0 .. GatewayIdle /\ n.idle \in Nat /\ n.quiet \in Nat
    /\ \A u \in Use :
           /\ u.at \in Stages /\ u.kind \in Kinds /\ u.key \in Key \cup {NoKey}
           /\ u.conn \in Conn \cup {NoConn} /\ u.attempt \in {1, 2}
           /\ u.clock \in Nat /\ u.held \in Nat
           /\ u.failed \in BOOLEAN /\ u.excused \in BOOLEAN
  BY Numbers, SMT DEF Connection, Use

(* A connection that is given up keeps its type.                           *)
LEMMA GoneType ==
    ASSUME conn \in [Conn -> Connection], NEW x \in Conn,
           NEW s \in {"dead", "expired", "closed"}
    PROVE  /\ Gone(x, s) \in Connection
           /\ Gone(x, s).state = s /\ Gone(x, s).key = conn[x].key
           /\ s # "closed" => Gone(x, s).idle = conn[x].idle
  <1> DEFINE i == IF s = "closed" THEN 0 ELSE conn[x].idle
  <1>1. conn[x] \in Connection OBVIOUS
  <1>2. i \in 0 .. IdleLimit + 1 /\ 0 \in 0 .. GatewayIdle
    BY <1>1, Fields, Numbers, SMT
  <1>3. Gone(x, s) = [conn[x] EXCEPT !.state = s, !.quiet = 0, !.idle = i]
    BY DEF Gone
  <1> HIDE DEF i
  <1>4. Gone(x, s) \in Connection
    BY <1>1, <1>2, <1>3 DEF Connection
  <1>5. Gone(x, s).state = s /\ Gone(x, s).key = conn[x].key
        /\ Gone(x, s).idle = i
    BY <1>1, <1>3 DEF Connection
  <1> QED BY <1>4, <1>5 DEF i

(* In the initial state nobody uses the client and the pool is empty.      *)
LEMMA Initially == Init => IInv
  <1> SUFFICES ASSUME Init PROVE IInv OBVIOUS
  <1>1. TypeOK
    BY NoneTypes, Numbers, SMT DEF Init, TypeOK, NoUse, Waiting
  <1>2. UsesOK /\ OwnersOK /\ FreshOK
    BY DEF Init, UsesOK, OwnersOK, FreshOK, FreshFor, NoUse, Active, Waiting
  <1>3. PoolUsable
    BY DEF Init, PoolUsable
  <1>4. AgesOK
    BY DEF Init, AgesOK, NoConnection
  <1> QED BY <1>1, <1>2, <1>3, <1>4 DEF IInv

(* A use that ends, or goes back to begin its second attempt, leaves every *)
(* other use and the pool as they were.                                    *)
LEMMA Leaves ==
    ASSUME IInv, NEW c \in Call, NEW r \in Use,
           r.at \in {"none", "popping"}, r.conn = NoConn,
           r.at = "popping" => r.key \in Key,
           Become(c, r), UNCHANGED connections, Conns(conn)
    PROVE  IInv'
  <1>1. /\ connections \in [Key -> Conn \cup {NoConn}]
        /\ conn \in [Conn -> Connection] /\ call \in [Call -> Use]
    BY DEF IInv, TypeOK
  <1>2. /\ call' = [call EXCEPT ![c] = r] /\ call'[c] = r
        /\ \A d \in Call : d # c => call'[d] = call[d]
    BY <1>1 DEF Become
  <1>3. \A x \in Conn : conn'[x] = IF Reachable(x)' THEN conn[x]
                                   ELSE NoConnection
    BY DEF Conns
  <1>4. \A k \in Key : connections[k] # NoConn =>
            /\ connections[k] \in Conn
            /\ conn'[connections[k]] = conn[connections[k]]
    BY <1>1, <1>3 DEF Reachable, Registered
  <1>5. \A d \in Call : d # c /\ call[d].conn \in Conn =>
            conn'[call[d].conn] = conn[call[d].conn]
    BY <1>2, <1>3 DEF Reachable
  <1>6. TypeOK'
    <2>1. conn' \in [Conn -> Connection]
      BY <1>1, <1>3, NoneTypes DEF Conns
    <2>2. call' \in [Call -> Use]
      BY <1>1, <1>2
    <2>3. \A d \in Call :
              /\ call'[d].at = "opening" => call'[d].clock <= OpenTimeout
              /\ call'[d].at \in Waiting => call'[d].clock <= LockTimeout
      BY <1>2 DEF IInv, TypeOK, Waiting
    <2> QED BY <1>1, <2>1, <2>2, <2>3 DEF TypeOK
  <1>7. UsesOK'
    BY <1>2 DEF IInv, UsesOK, Active, Waiting
  <1>8. OwnersOK'
    <2> SUFFICES ASSUME NEW d \in Call, call'[d].at \in {"opening", "storing"}
                 PROVE  Owned(d)'
      BY DEF OwnersOK
    <2>1. d # c /\ call'[d] = call[d] /\ Owned(d) /\ call[d].conn \in Conn
      BY <1>2 DEF IInv, OwnersOK, UsesOK
    <2>2. conn'[call[d].conn] = conn[call[d].conn]
      BY <1>5, <2>1
    <2>3. \A e \in Call : e # d => call'[e].conn # call[d].conn
      BY <1>2, <2>1, ClientAssumption DEF Owned
    <2> QED BY <2>1, <2>2, <2>3 DEF Owned
  <1>9. PoolUsable'
    BY <1>4 DEF IInv, PoolUsable
  <1>10. AgesOK'
    BY <1>3 DEF IInv, AgesOK, NoConnection
  <1>11. FreshOK'
    <2> SUFFICES ASSUME NEW d \in Call, call'[d].at \in Waiting
                 PROVE  FreshFor(d)'
      BY DEF FreshOK, FreshFor, Waiting
    <2>1. d # c /\ call'[d] = call[d] /\ FreshFor(d) /\ call[d].conn \in Conn
      BY <1>2 DEF IInv, FreshOK, UsesOK, Waiting
    <2>2. conn'[call[d].conn] = conn[call[d].conn]
      BY <1>5, <2>1
    <2> QED BY <2>1, <2>2 DEF FreshFor
  <1> QED BY <1>6, <1>7, <1>8, <1>9, <1>10, <1>11 DEF IInv

(* What becomes of a use that has its connection at hand.                  *)
LEMMA ObtainedType ==
    ASSUME call \in [Call -> Use], NEW c \in Call, NEW x \in Conn
    PROVE  /\ Obtained(c, x) \in Use
           /\ \/ Obtained(c, x) = NoUse
              \/ /\ Obtained(c, x).at = "locking" /\ Obtained(c, x).clock = 0
                 /\ Obtained(c, x).conn = x
                 /\ Obtained(c, x).key = call[c].key
                 /\ Obtained(c, x).attempt = call[c].attempt
  <1>1. call[c] \in Use OBVIOUS
  <1>2. CASE call[c].kind = "peek"
    BY <1>2, NoneTypes DEF Obtained
  <1>3. CASE call[c].kind # "peek"
    <2>1. Obtained(c, x) = [call[c] EXCEPT !.at = "locking", !.conn = x,
                                           !.clock = 0]
      BY <1>3 DEF Obtained
    <2>2. "locking" \in Stages /\ x \in Conn \cup {NoConn} /\ 0 \in Nat
      BY DEF Stages
    <2>3. Obtained(c, x) \in Use
      BY <1>1, <2>1, <2>2 DEF Use
    <2>4. /\ Obtained(c, x).at = "locking" /\ Obtained(c, x).clock = 0
          /\ Obtained(c, x).conn = x
          /\ Obtained(c, x).key = call[c].key
          /\ Obtained(c, x).attempt = call[c].attempt
      BY <1>1, <2>1 DEF Use
    <2> QED BY <2>3, <2>4
  <1> QED BY <1>2, <1>3

(* A use of which only its excuse changes.                                 *)
LEMMA Excused ==
    ASSUME NEW u \in Use, NEW b \in BOOLEAN
    PROVE  LET t == [u EXCEPT !.excused = @ \/ b] IN
           /\ t \in Use /\ t.at = u.at /\ t.key = u.key /\ t.conn = u.conn
           /\ t.attempt = u.attempt /\ t.clock = u.clock
           /\ t.failed = u.failed /\ t.excused = (u.excused \/ b)
  <1>1. (u.excused \/ b) \in BOOLEAN OBVIOUS
  <1> QED BY <1>1 DEF Use

(* A use that begins has no connection; the others only learn of it.       *)
LEMMA Starts ==
    ASSUME IInv, NEW c \in Call, NEW kind \in Kinds, NEW k \in Key,
           Start(c, kind, k)
    PROVE  IInv'
  <1>1. call \in [Call -> Use] /\ UNCHANGED <<connections, conn>>
    BY DEF IInv, TypeOK, Start
  <1> DEFINE r == [NoUse EXCEPT !.at = "getting", !.kind = kind, !.key = k,
                                !.excused = \E e \in Call : Active(e)]
             s(d) == [call[d] EXCEPT !.excused = @ \/ Active(d)]
  <1>2. call' = [d \in Call |-> IF d = c THEN r ELSE s(d)]
    BY DEF Start
  <1>3. r \in Use /\ r.at = "getting" /\ r.key = k /\ r.conn = NoConn
    BY NoneTypes DEF Use, Stages, NoUse
  <1>4. \A d \in Call :
            /\ s(d) \in Use /\ s(d).at = call[d].at /\ s(d).key = call[d].key
            /\ s(d).conn = call[d].conn /\ s(d).attempt = call[d].attempt
            /\ s(d).clock = call[d].clock
    <2> TAKE d \in Call
    <2> DEFINE b == Active(d)
    <2>1. call[d] \in Use /\ b \in BOOLEAN
      BY <1>1 DEF Active
    <2>2. s(d) = [call[d] EXCEPT !.excused = @ \/ b]
      OBVIOUS
    <2> HIDE DEF b, s
    <2> QED BY <2>1, <2>2, Excused
  <1> HIDE DEF r, s
  <1>5. TypeOK'
    <2>1. call' \in [Call -> Use]
      BY <1>2, <1>3, <1>4
    <2> QED BY <1>1, <1>2, <1>3, <1>4, <2>1 DEF IInv, TypeOK, Waiting
  <1>6. UsesOK'
    BY <1>2, <1>3, <1>4 DEF IInv, UsesOK, Active, Waiting
  <1>7. OwnersOK'
    <2> SUFFICES ASSUME NEW d \in Call, call'[d].at \in {"opening", "storing"}
                 PROVE  Owned(d)'
      BY DEF OwnersOK
    <2>1. d # c /\ call[d].conn \in Conn /\ Owned(d)
      BY <1>2, <1>3, <1>4 DEF IInv, OwnersOK, UsesOK
    <2>2. \A e \in Call : e # d => call'[e].conn # call[d].conn
      BY <1>2, <1>3, <1>4, <2>1, ClientAssumption DEF Owned
    <2> QED BY <1>1, <1>2, <1>4, <2>1, <2>2 DEF Owned
  <1>8. PoolUsable' /\ AgesOK'
    BY <1>1 DEF IInv, PoolUsable, AgesOK
  <1>9. FreshOK'
    BY <1>1, <1>2, <1>3, <1>4 DEF IInv, FreshOK, FreshFor, Waiting
  <1> QED BY <1>5, <1>6, <1>7, <1>8, <1>9 DEF IInv

(* A connection that the pool has, and that was used lately, has a session *)
(* that the gateway has not ended for idleness.                            *)
LEMMA TakesPooled ==
    ASSUME IInv, NEW c \in Call, NEW x \in Conn, call[c].at = "getting",
           x = connections[call[c].key], conn[x].idle <= IdleLimit,
           Become(c, Obtained(c, x)), UNCHANGED <<connections, conn>>
    PROVE  IInv'
  <1> DEFINE r == Obtained(c, x)
  <1>1. /\ call \in [Call -> Use] /\ conn \in [Conn -> Connection]
        /\ call[c].key \in Key
    BY DEF IInv, TypeOK, UsesOK, Active
  <1>2. call' = [call EXCEPT ![c] = r]
    BY DEF Become
  <1>3. /\ r \in Use
        /\ r = NoUse \/ /\ r.at = "locking" /\ r.clock = 0 /\ r.conn = x
                        /\ r.key = call[c].key
    BY <1>1, ObtainedType
  <1> HIDE DEF r
  <1>4. call'[c] = r /\ \A d \in Call : d # c => call'[d] = call[d]
    BY <1>1, <1>2
  <1>5. TypeOK'
    <2>1. call' \in [Call -> Use]
      BY <1>1, <1>2, <1>3
    <2>2. r.at # "opening" /\ (r.at \in Waiting => r.clock = 0)
      BY <1>3 DEF NoUse, Waiting
    <2>3. \A d \in Call :
              /\ call'[d].at = "opening" => call'[d].clock <= OpenTimeout
              /\ call'[d].at \in Waiting => call'[d].clock <= LockTimeout
      BY <1>4, <2>2, Numbers DEF IInv, TypeOK
    <2> QED BY <2>1, <2>3 DEF IInv, TypeOK
  <1>6. UsesOK'
    BY <1>1, <1>3, <1>4 DEF IInv, UsesOK, Active, NoUse, Waiting
  <1>7. OwnersOK'
    <2> SUFFICES ASSUME NEW d \in Call, call'[d].at \in {"opening", "storing"}
                 PROVE  Owned(d)'
      BY DEF OwnersOK
    <2>1. d # c /\ call'[d] = call[d] /\ call[d].conn \in Conn /\ Owned(d)
      BY <1>3, <1>4 DEF IInv, OwnersOK, UsesOK, NoUse
    <2>2. r.conn # call[d].conn
      BY <1>1, <1>3, <2>1, ClientAssumption DEF Owned, NoUse
    <2> QED BY <1>4, <2>1, <2>2 DEF Owned
  <1>8. PoolUsable' /\ AgesOK'
    BY DEF IInv, PoolUsable, AgesOK
  <1>9. FreshOK'
    <2> SUFFICES ASSUME NEW d \in Call, call'[d].at \in Waiting
                 PROVE  FreshFor(d)'
      BY DEF FreshOK, FreshFor, Waiting
    <2>1. CASE d # c
      BY <1>4, <2>1 DEF IInv, FreshOK, FreshFor
    <2>2. CASE d = c
      <3>1. r.at = "locking" /\ r.clock = 0 /\ r.conn = x
        BY <1>3, <1>4, <2>2 DEF NoUse, Waiting
      <3>2. conn[x].state # "expired"
        BY <1>1, Fields, Numbers DEF IInv, AgesOK
      <3>3. conn[x].state = "open" =>
                conn[x].quiet <= IdleLimit + LockTimeout + 0
        BY <1>1, Fields, Numbers DEF IInv, AgesOK
      <3> QED BY <1>4, <2>2, <3>1, <3>2, <3>3 DEF FreshFor
    <2> QED BY <2>1, <2>2
  <1> QED BY <1>5, <1>6, <1>7, <1>8, <1>9 DEF IInv

(* Closing what the pool has and beginning to open another connection: the *)
(* new one is nobody else's, and no other list of tenants loses its own.   *)
LEMMA Replaces ==
    ASSUME IInv, NEW c \in Call, NEW n \in {1, 2},
           call[c].at \in {"getting", "popping"}, Replace(c, n)
    PROVE  IInv'
  <1> DEFINE k == call[c].key
             old == connections[k]
             new == CHOOSE x \in Conn : ~Reachable(x)
             r == [call[c] EXCEPT !.at = "opening", !.attempt = n,
                                  !.conn = new, !.clock = 0]
             opening == [conn[new] EXCEPT !.state = "opening", !.key = k]
  <1>1. /\ connections \in [Key -> Conn \cup {NoConn}]
        /\ conn \in [Conn -> Connection] /\ call \in [Call -> Use]
        /\ k \in Key
    BY DEF IInv, TypeOK, UsesOK, Active
  <1>2. new \in Conn /\ ~Reachable(new)
    BY DEF Replace
  <1>3. /\ connections' = [connections EXCEPT ![k] = NoConn]
        /\ call' = [call EXCEPT ![c] = r]
        /\ \A x \in Conn : conn'[x] =
               IF Reachable(x)'
               THEN IF x = old THEN Gone(x, "closed")
                    ELSE IF x = new THEN opening ELSE conn[x]
               ELSE NoConnection
        /\ conn' \in [Conn -> {conn'[x] : x \in Conn}]
    BY DEF Replace, Become, Conns
  <1>4. /\ \A j \in Key : connections[j] # new
        /\ \A d \in Call : call[d].conn # new
    BY <1>2 DEF Reachable, Registered
  <1>5. /\ opening \in Connection
        /\ opening.state = "opening" /\ opening.key = k
    BY <1>1, <1>2 DEF Connection
  <1>6. /\ r \in Use /\ r.at = "opening" /\ r.conn = new /\ r.clock = 0
        /\ r.key = k
    <2>1. call[c] \in Use /\ "opening" \in Stages /\ 0 \in Nat
          /\ new \in Conn \cup {NoConn}
      BY <1>1, <1>2 DEF Stages
    <2> HIDE DEF new
    <2>2. r \in Use
      BY <2>1 DEF Use
    <2>3. r.at = "opening" /\ r.conn = new /\ r.clock = 0 /\ r.key = k
      BY <2>1 DEF Use
    <2> QED BY <2>2, <2>3
  <1> HIDE DEF new, r, opening
  <1>7. call'[c] = r /\ \A d \in Call : d # c => call'[d] = call[d]
    BY <1>1, <1>3
  <1>8. connections'[k] = NoConn
        /\ \A j \in Key : j # k => connections'[j] = connections[j]
    BY <1>1, <1>3
  <1>9. conn'[new] = opening
    BY <1>1, <1>2, <1>3, <1>4, <1>6, <1>7 DEF Reachable
  <1>10. \A x \in Conn :
             \/ conn'[x] = conn[x] \/ conn'[x].state \in {"closed", "none"}
             \/ conn'[x] = opening
    <2> TAKE x \in Conn
    <2>1. /\ Gone(x, "closed").state = "closed"
          /\ NoConnection.state = "none"
      BY <1>1, GoneType DEF NoConnection
    <2>2. \/ conn'[x] = NoConnection \/ conn'[x] = Gone(x, "closed")
          \/ conn'[x] = opening \/ conn'[x] = conn[x]
      BY <1>3
    <2> QED BY <2>1, <2>2
  <1>11. \A x \in Conn : x # old /\ x # new /\ Reachable(x)' =>
             conn'[x] = conn[x]
    BY <1>3
  <1>12. TypeOK'
    <2>1. \A x \in Conn : conn'[x] \in Connection
      BY <1>1, <1>3, <1>5, GoneType, NoneTypes
    <2>2. conn' \in [Conn -> Connection]
      BY <1>3, <2>1
    <2>3. call' \in [Call -> Use]
          /\ connections' \in [Key -> Conn \cup {NoConn}]
      BY <1>1, <1>3, <1>6
    <2>4. \A d \in Call :
              /\ call'[d].at = "opening" => call'[d].clock <= OpenTimeout
              /\ call'[d].at \in Waiting => call'[d].clock <= LockTimeout
      BY <1>6, <1>7, Numbers DEF IInv, TypeOK, Waiting
    <2> QED BY <2>2, <2>3, <2>4 DEF TypeOK
  <1>13. UsesOK'
    BY <1>1, <1>2, <1>6, <1>7 DEF IInv, UsesOK, Active, Waiting
  <1>14. OwnersOK'
    <2> SUFFICES ASSUME NEW d \in Call, call'[d].at \in {"opening", "storing"}
                 PROVE  Owned(d)'
      BY DEF OwnersOK
    <2>1. CASE d = c
      <3>1. call'[d].conn = new /\ call'[d].key = k
            /\ call'[d].at = "opening"
        BY <1>6, <1>7, <2>1
      <3>2. \A j \in Key : connections'[j] # new
        BY <1>2, <1>4, <1>8, ClientAssumption
      <3>3. \A e \in Call : e # d => call'[e].conn # new
        BY <1>4, <1>7, <2>1
      <3> QED BY <1>5, <1>9, <3>1, <3>2, <3>3 DEF Owned
    <2>2. CASE d # c
      <3>1. call'[d] = call[d] /\ Owned(d) /\ call[d].conn \in Conn
        BY <1>7, <2>2 DEF IInv, OwnersOK, UsesOK
      <3>2. call[d].conn # old /\ call[d].conn # new
        BY <1>1, <1>4, <3>1 DEF Owned
      <3>3. conn'[call[d].conn] = conn[call[d].conn]
        BY <1>11, <3>1, <3>2 DEF Reachable
      <3>4. \A j \in Key : connections'[j] # call[d].conn
        BY <1>8, <3>1, ClientAssumption DEF Owned
      <3>5. \A e \in Call : e # d => call'[e].conn # call[d].conn
        BY <1>6, <1>7, <3>1, <3>2 DEF Owned
      <3> QED BY <3>1, <3>3, <3>4, <3>5 DEF Owned
    <2> QED BY <2>1, <2>2
  <1>15. PoolUsable'
    <2> SUFFICES ASSUME NEW j \in Key, connections'[j] # NoConn
                 PROVE  /\ conn'[connections'[j]].key = j
                        /\ conn'[connections'[j]].state \in Live
      BY DEF PoolUsable
    <2>1. j # k /\ connections'[j] = connections[j]
          /\ connections[j] \in Conn
      BY <1>1, <1>8
    <2>2. conn[connections[j]].key = j /\ conn[connections[j]].state \in Live
      BY <2>1 DEF IInv, PoolUsable
    <2>3. connections[j] # old
      BY <1>1, <2>1, <2>2 DEF IInv, PoolUsable
    <2>4. conn'[connections[j]] = conn[connections[j]]
      BY <1>4, <1>11, <2>1, <2>3 DEF Reachable, Registered
    <2> QED BY <2>1, <2>2, <2>4
  <1>16. AgesOK'
    BY <1>5, <1>10 DEF IInv, AgesOK
  <1>17. FreshOK'
    <2> SUFFICES ASSUME NEW d \in Call, call'[d].at \in Waiting
                 PROVE  FreshFor(d)'
      BY DEF FreshOK, FreshFor, Waiting
    <2>1. d # c /\ call'[d] = call[d] /\ FreshFor(d) /\ call[d].conn \in Conn
      BY <1>6, <1>7 DEF IInv, FreshOK, UsesOK, Waiting
    <2> QED BY <1>5, <1>10, <2>1 DEF FreshFor
  <1> QED BY <1>12, <1>13, <1>14, <1>15, <1>16, <1>17 DEF IInv

(* A connection that was opened reaches the pool, or its opener first, with *)
(* both its ages the same.                                                 *)
LEMMA Opens == ASSUME IInv, NEW c \in Call, Opened(c) PROVE IInv'
  <1> DEFINE x == call[c].conn
             k == call[c].key
             first == call[c].attempt = 1
             r == IF first THEN Obtained(c, x)
                  ELSE [call[c] EXCEPT !.at = "storing", !.clock = 0]
  <1>1. /\ connections \in [Key -> Conn \cup {NoConn}]
        /\ conn \in [Conn -> Connection] /\ call \in [Call -> Use]
        /\ call[c].at = "opening" /\ x \in Conn /\ k \in Key
        /\ call[c].clock <= OpenTimeout
    BY DEF IInv, TypeOK, UsesOK, Active, Opened
  <1>2. Owned(c)
    BY <1>1 DEF IInv, OwnersOK
  <1>3. PICK n \in 0 .. call[c].clock :
            Conns([conn EXCEPT ![x].state = "open", ![x].idle = n,
                               ![x].quiet = n])
    BY DEF Opened
  <1> DEFINE opened == [conn[x] EXCEPT !.state = "open", !.idle = n,
                                       !.quiet = n]
  <1>4. /\ conn' \in [Conn -> {conn'[y] : y \in Conn}]
        /\ \A y \in Conn : conn'[y] = IF Reachable(y)'
                                      THEN IF y = x THEN opened ELSE conn[y]
                                      ELSE NoConnection
    BY <1>1, <1>3 DEF Conns
  <1>5. /\ connections' = IF first THEN [connections EXCEPT ![k] = x]
                          ELSE connections
        /\ call' = [call EXCEPT ![c] = r]
    BY DEF Opened, Become
  <1>6. /\ n \in 0 .. IdleLimit + 1 /\ n \in 0 .. GatewayIdle
    BY <1>1, Fields, Numbers
  <1>7. /\ opened \in Connection /\ opened.state = "open" /\ opened.key = k
        /\ opened.idle = n /\ opened.quiet = n
    BY <1>1, <1>2, <1>6 DEF Connection, Owned
  <1>8. /\ r \in Use /\ r.at \in {"none", "locking", "storing"}
        /\ r.conn \in {x, NoConn} /\ (r.at # "none" => r.conn = x)
        /\ r.at # "none" => r.key = k
        /\ r.at \in Waiting => r.clock = 0
        /\ r.at = "storing" => ~first /\ r.attempt = 2
    <2>1. CASE first
      BY <1>1, <2>1, ObtainedType DEF NoUse, Waiting
    <2>2. CASE ~first
      <3>1. call[c] \in Use /\ call[c].attempt = 2
            /\ "storing" \in Stages /\ 0 \in Nat
        BY <1>1, <2>2, Fields DEF Stages
      <3>2. r = [call[c] EXCEPT !.at = "storing", !.clock = 0]
        BY <2>2
      <3>3. r \in Use
        BY <3>1, <3>2 DEF Use
      <3>4. r.at = "storing" /\ r.conn = x /\ r.key = k /\ r.attempt = 2
        BY <3>1, <3>2 DEF Use
      <3> QED BY <2>2, <3>3, <3>4 DEF Waiting
    <2> QED BY <2>1, <2>2
  <1> HIDE DEF r, opened
  <1>9. call'[c] = r /\ \A d \in Call : d # c => call'[d] = call[d]
    BY <1>1, <1>5
  <1>10. \A d \in Call : d # c => call[d].conn # x
    BY <1>2 DEF Owned
  <1>11. \A y \in Conn : y # x /\ Reachable(y)' => conn'[y] = conn[y]
    BY <1>4
  <1>12. \A y \in Conn :
             \/ conn'[y] = conn[y] \/ conn'[y] = opened
             \/ conn'[y].state = "none"
    BY <1>4 DEF NoConnection
  <1>13. TypeOK'
    <2>1. \A y \in Conn : conn'[y] \in Connection
      BY <1>1, <1>4, <1>7, NoneTypes
    <2>2. conn' \in [Conn -> Connection]
      BY <1>4, <2>1
    <2>3. call' \in [Call -> Use]
          /\ connections' \in [Key -> Conn \cup {NoConn}]
      BY <1>1, <1>5, <1>8
    <2>4. \A d \in Call :
              /\ call'[d].at = "opening" => call'[d].clock <= OpenTimeout
              /\ call'[d].at \in Waiting => call'[d].clock <= LockTimeout
      BY <1>8, <1>9, Numbers DEF IInv, TypeOK, Waiting
    <2> QED BY <2>2, <2>3, <2>4 DEF TypeOK
  <1>14. UsesOK'
    BY <1>1, <1>8, <1>9 DEF IInv, UsesOK, Active, Waiting
  <1>15. OwnersOK'
    <2> SUFFICES ASSUME NEW d \in Call, call'[d].at \in {"opening", "storing"}
                 PROVE  Owned(d)'
      BY DEF OwnersOK
    <2>1. CASE d = c
      <3>1. call'[d].conn = x /\ call'[d].key = k
            /\ call'[d].at = "storing" /\ ~first
        BY <1>8, <1>9, <2>1
      <3>2. conn'[x] = opened
        BY <1>1, <1>4, <3>1 DEF Reachable
      <3>3. \A j \in Key : connections'[j] # x
        BY <1>2, <1>5, <3>1 DEF Owned
      <3>4. \A e \in Call : e # d => call'[e].conn # x
        BY <1>9, <1>10, <2>1
      <3> QED BY <1>7, <3>1, <3>2, <3>3, <3>4 DEF Owned, Live
    <2>2. CASE d # c
      <3>1. call'[d] = call[d] /\ Owned(d) /\ call[d].conn \in Conn
            /\ call[d].conn # x
        BY <1>9, <1>10, <2>2 DEF IInv, OwnersOK, UsesOK
      <3>2. conn'[call[d].conn] = conn[call[d].conn]
        BY <1>11, <3>1 DEF Reachable
      <3>3. \A j \in Key : connections'[j] # call[d].conn
        BY <1>1, <1>5, <3>1 DEF Owned
      <3>4. \A e \in Call : e # d => call'[e].conn # call[d].conn
        BY <1>8, <1>9, <3>1, ClientAssumption DEF Owned
      <3> QED BY <3>1, <3>2, <3>3, <3>4 DEF Owned
    <2> QED BY <2>1, <2>2
  <1>16. PoolUsable'
    <2> SUFFICES ASSUME NEW j \in Key, connections'[j] # NoConn
                 PROVE  /\ conn'[connections'[j]].key = j
                        /\ conn'[connections'[j]].state \in Live
      BY DEF PoolUsable
    <2>1. CASE first /\ j = k
      <3>1. connections'[j] = x
        BY <1>1, <1>5, <2>1
      <3>2. conn'[x] = opened
        BY <1>1, <1>4, <3>1 DEF Reachable, Registered
      <3> QED BY <1>7, <2>1, <3>1, <3>2 DEF Live
    <2>2. CASE ~(first /\ j = k)
      <3>1. connections'[j] = connections[j] /\ connections[j] \in Conn
            /\ connections[j] # x
        BY <1>1, <1>2, <1>5, <2>2 DEF Owned
      <3>2. conn'[connections[j]] = conn[connections[j]]
        BY <1>11, <3>1 DEF Reachable, Registered
      <3> QED BY <3>1, <3>2 DEF IInv, PoolUsable
    <2> QED BY <2>1, <2>2
  <1>17. AgesOK'
    <2> SUFFICES ASSUME NEW y \in Conn
                 PROVE  /\ conn'[y].state = "open" /\ conn'[y].idle <= IdleLimit
                               => conn'[y].quiet <= conn'[y].idle + LockTimeout
                        /\ conn'[y].state = "expired" =>
                               conn'[y].idle = IdleLimit + 1
      BY DEF AgesOK
    <2>1. CASE conn'[y] = conn[y]
      BY <2>1 DEF IInv, AgesOK
    <2>2. CASE conn'[y] = opened
      BY <1>6, <1>7, <2>2, Numbers
    <2>3. CASE conn'[y].state = "none"
      BY <2>3
    <2> QED BY <1>12, <2>1, <2>2, <2>3
  <1>18. FreshOK'
    <2> SUFFICES ASSUME NEW d \in Call, call'[d].at \in Waiting
                 PROVE  FreshFor(d)'
      BY DEF FreshOK, FreshFor, Waiting
    <2>1. CASE d = c
      <3>1. call'[d].conn = x /\ call'[d].clock = 0 /\ call'[d].at = "locking"
        BY <1>8, <1>9, <2>1 DEF Waiting
      <3>2. conn'[x] = opened
        BY <1>1, <1>4, <3>1 DEF Reachable
      <3>3. n <= IdleLimit + LockTimeout + 0
        BY <1>1, <1>6, Fields, Numbers
      <3> QED BY <1>7, <3>1, <3>2, <3>3 DEF FreshFor
    <2>2. CASE d # c
      <3>1. call'[d] = call[d] /\ FreshFor(d) /\ call[d].conn \in Conn
            /\ call[d].conn # x
        BY <1>9, <1>10, <2>2 DEF IInv, FreshOK, UsesOK, Waiting
      <3>2. conn'[call[d].conn] = conn[call[d].conn]
        BY <1>11, <3>1 DEF Reachable
      <3> QED BY <3>1, <3>2 DEF FreshFor
    <2> QED BY <2>1, <2>2
  <1> QED BY <1>13, <1>14, <1>15, <1>16, <1>17, <1>18 DEF IInv

(* A call that posts its message makes the gateway hear of the session.    *)
LEMMA Locks == ASSUME IInv, NEW c \in Call, Lock(c) PROVE IInv'
  <1> DEFINE x == call[c].conn
             q == IF conn[x].state = "open" THEN 0 ELSE conn[x].quiet
             posted == [conn[x] EXCEPT !.quiet = q]
             r == [call[c] EXCEPT !.at = "running", !.held = 0]
  <1>1. /\ conn \in [Conn -> Connection] /\ call \in [Call -> Use]
        /\ call[c].at = "locking" /\ x \in Conn /\ UNCHANGED connections
        /\ call[c].clock <= LockTimeout
    BY DEF IInv, TypeOK, UsesOK, Lock, Waiting
  <1>2. conn' = [conn EXCEPT ![x] = posted] /\ call' = [call EXCEPT ![c] = r]
    BY <1>1 DEF Lock, Become
  <1>3. q \in 0 .. GatewayIdle /\ q <= conn[x].quiet
        /\ (conn[x].state = "open" => q = 0)
    BY <1>1, Fields, Numbers
  <1>4. /\ posted \in Connection /\ posted.state = conn[x].state
        /\ posted.key = conn[x].key /\ posted.idle = conn[x].idle
        /\ posted.quiet = q
    <2> HIDE DEF q
    <2> QED BY <1>1, <1>3 DEF Connection
  <1>5. /\ r \in Use /\ r.at = "running" /\ r.conn = x /\ r.key = call[c].key
        /\ r.clock = call[c].clock /\ r.attempt = call[c].attempt
    <2>1. call[c] \in Use /\ "running" \in Stages /\ 0 \in Nat
      BY <1>1 DEF Stages
    <2> QED BY <2>1 DEF Use
  <1> HIDE DEF q, posted, r
  <1>6. /\ call'[c] = r /\ \A d \in Call : d # c => call'[d] = call[d]
        /\ conn'[x] = posted /\ \A y \in Conn : y # x => conn'[y] = conn[y]
    BY <1>1, <1>2
  <1>7. TypeOK'
    <2>1. conn' \in [Conn -> Connection] /\ call' \in [Call -> Use]
      BY <1>1, <1>2, <1>4, <1>5
    <2>2. \A d \in Call :
              /\ call'[d].at = "opening" => call'[d].clock <= OpenTimeout
              /\ call'[d].at \in Waiting => call'[d].clock <= LockTimeout
      BY <1>1, <1>5, <1>6 DEF IInv, TypeOK
    <2> QED BY <1>1, <2>1, <2>2 DEF IInv, TypeOK
  <1>8. UsesOK'
    BY <1>1, <1>5, <1>6 DEF IInv, UsesOK, Active, Waiting
  <1>9. OwnersOK'
    <2> SUFFICES ASSUME NEW d \in Call, call'[d].at \in {"opening", "storing"}
                 PROVE  Owned(d)'
      BY DEF OwnersOK
    <2>1. d # c /\ call'[d] = call[d] /\ call[d].conn \in Conn /\ Owned(d)
          /\ call[d].conn # x
      BY <1>5, <1>6 DEF IInv, OwnersOK, UsesOK, Owned
    <2>2. \A e \in Call : e # d => call'[e].conn # call[d].conn
      BY <1>5, <1>6, <2>1 DEF Owned
    <2> QED BY <1>1, <1>6, <2>1, <2>2 DEF Owned
  <1>10. PoolUsable'
    <2>1. \A y \in Conn : /\ conn'[y].key = conn[y].key
                          /\ conn'[y].state = conn[y].state
      BY <1>4, <1>6
    <2>2. \A k \in Key : connections[k] \in Conn \cup {NoConn}
      BY DEF IInv, TypeOK
    <2> QED BY <1>1, <2>1, <2>2 DEF IInv, PoolUsable
  <1>11. AgesOK'
    <2> SUFFICES ASSUME NEW y \in Conn
                 PROVE  /\ conn'[y].state = "open" /\ conn'[y].idle <= IdleLimit
                               => conn'[y].quiet <= conn'[y].idle + LockTimeout
                        /\ conn'[y].state = "expired" =>
                               conn'[y].idle = IdleLimit + 1
      BY DEF AgesOK
    <2>1. CASE y # x
      BY <1>6, <2>1 DEF IInv, AgesOK
    <2>2. CASE y = x
      BY <1>1, <1>3, <1>4, <1>6, <2>2, Fields, Numbers DEF IInv, AgesOK
    <2> QED BY <2>1, <2>2
  <1>12. FreshOK'
    <2> SUFFICES ASSUME NEW d \in Call, call'[d].at \in Waiting
                 PROVE  FreshFor(d)'
      BY DEF FreshOK, FreshFor, Waiting
    <2>1. call'[d].clock = call[d].clock /\ call'[d].conn = call[d].conn
          /\ call'[d].attempt = call[d].attempt /\ call[d].at \in Waiting
          /\ (call'[d].at = "running" => call[d].at = "running" \/ d = c)
          /\ call[d].conn \in Conn /\ call[d].clock \in Nat
      BY <1>1, <1>5, <1>6, Fields DEF Waiting, IInv, UsesOK
    <2>2. FreshFor(d)
      BY DEF IInv, FreshOK
    <2>3. CASE call[d].conn # x
      <3>1. d # c
        BY <2>3
      <3> QED BY <1>6, <2>1, <2>2, <2>3, <3>1 DEF FreshFor
    <2>4. CASE call[d].conn = x
      <3>1. conn[x].state = "open" => 0 <= call[d].clock
                /\ 0 <= IdleLimit + LockTimeout + call[d].clock
        BY <2>1, Numbers
      <3>2. conn'[x].state = conn[x].state
            /\ (conn[x].state = "open" => conn'[x].quiet = 0)
        BY <1>3, <1>4, <1>6
      <3> QED BY <2>1, <2>2, <2>4, <3>1, <3>2 DEF FreshFor
    <2> QED BY <2>3, <2>4
  <1> QED BY <1>7, <1>8, <1>9, <1>10, <1>11, <1>12 DEF IInv

(* An answer counts as a use of the connection; the message it answers was *)
(* posted at most LOCK_ACQUIRE_TIMEOUT ago.                                *)
LEMMA Answers == ASSUME IInv, NEW c \in Call, Answered(c) PROVE IInv'
  <1> DEFINE x == call[c].conn
  <1>1. /\ connections \in [Key -> Conn \cup {NoConn}]
        /\ conn \in [Conn -> Connection] /\ call \in [Call -> Use]
        /\ call[c].at = "running" /\ x \in Conn /\ UNCHANGED connections
        /\ conn[x].state = "open" /\ call[c].clock <= LockTimeout
        /\ call' = [call EXCEPT ![c] = NoUse]
    BY DEF IInv, TypeOK, UsesOK, Answered, Waiting, Become
  <1>2. PICK found \in BOOLEAN :
            Conns([conn EXCEPT ![x].idle = IF found THEN 0 ELSE @])
    BY DEF Answered
  <1> DEFINE i == IF found THEN 0 ELSE conn[x].idle
             used == [conn[x] EXCEPT !.idle = i]
  <1>3. /\ conn' \in [Conn -> {conn'[y] : y \in Conn}]
        /\ \A y \in Conn : conn'[y] = IF Reachable(y)'
                                      THEN IF y = x THEN used ELSE conn[y]
                                      ELSE NoConnection
    BY <1>1, <1>2 DEF Conns
  <1>4. i \in 0 .. IdleLimit + 1 /\ (i = 0 \/ i = conn[x].idle)
    BY <1>1, Fields, Numbers
  <1>5. /\ used \in Connection /\ used.state = "open"
        /\ used.key = conn[x].key /\ used.idle = i /\ used.quiet = conn[x].quiet
    <2> HIDE DEF i
    <2> QED BY <1>1, <1>4 DEF Connection
  <1>6. conn[x].quiet <= LockTimeout
    BY <1>1, Fields, Numbers DEF IInv, FreshOK, FreshFor
  <1> HIDE DEF i, used
  <1>7. call'[c] = NoUse /\ \A d \in Call : d # c => call'[d] = call[d]
    BY <1>1
  <1>8. \A y \in Conn : Reachable(y)' =>
            /\ conn'[y].key = conn[y].key /\ conn'[y].state = conn[y].state
            /\ conn'[y].quiet = conn[y].quiet
    BY <1>1, <1>3, <1>5
  <1>9. TypeOK'
    <2>1. \A y \in Conn : conn'[y] \in Connection
      BY <1>1, <1>3, <1>5, NoneTypes
    <2>2. conn' \in [Conn -> Connection] /\ call' \in [Call -> Use]
      BY <1>1, <1>3, <2>1, NoneTypes
    <2>3. \A d \in Call :
              /\ call'[d].at = "opening" => call'[d].clock <= OpenTimeout
              /\ call'[d].at \in Waiting => call'[d].clock <= LockTimeout
      BY <1>7 DEF IInv, TypeOK, NoUse, Waiting
    <2> QED BY <1>1, <2>2, <2>3 DEF TypeOK
  <1>10. UsesOK'
    BY <1>7 DEF IInv, UsesOK, Active, NoUse, Waiting
  <1>11. OwnersOK'
    <2> SUFFICES ASSUME NEW d \in Call, call'[d].at \in {"opening", "storing"}
                 PROVE  Owned(d)'
      BY DEF OwnersOK
    <2>1. d # c /\ call'[d] = call[d] /\ call[d].conn \in Conn /\ Owned(d)
      BY <1>7 DEF IInv, OwnersOK, UsesOK, NoUse
    <2>2. \A e \in Call : e # d => call'[e].conn # call[d].conn
      BY <1>7, <2>1, ClientAssumption DEF Owned, NoUse
    <2>3. Reachable(call[d].conn)'
      BY <2>1 DEF Reachable
    <2> QED BY <1>1, <1>8, <2>1, <2>2, <2>3 DEF Owned
  <1>12. PoolUsable'
    BY <1>1, <1>8 DEF IInv, PoolUsable, Reachable, Registered
  <1>13. AgesOK'
    <2> SUFFICES ASSUME NEW y \in Conn
                 PROVE  /\ conn'[y].state = "open" /\ conn'[y].idle <= IdleLimit
                               => conn'[y].quiet <= conn'[y].idle + LockTimeout
                        /\ conn'[y].state = "expired" =>
                               conn'[y].idle = IdleLimit + 1
      BY DEF AgesOK
    <2>1. CASE conn'[y] = conn[y]
      BY <2>1 DEF IInv, AgesOK
    <2>2. CASE y = x /\ conn'[y] = used
      BY <1>1, <1>4, <1>5, <1>6, <2>2, Fields, Numbers DEF IInv, AgesOK
    <2>3. CASE conn'[y] = NoConnection
      BY <2>3 DEF NoConnection
    <2> QED BY <1>3, <2>1, <2>2, <2>3
  <1>14. FreshOK'
    <2> SUFFICES ASSUME NEW d \in Call, call'[d].at \in Waiting
                 PROVE  FreshFor(d)'
      BY DEF FreshOK, FreshFor, Waiting
    <2>1. call'[d] = call[d] /\ FreshFor(d) /\ call[d].conn \in Conn
      BY <1>7 DEF IInv, FreshOK, UsesOK, NoUse, Waiting
    <2>2. Reachable(call[d].conn)'
      BY <2>1 DEF Reachable
    <2> QED BY <1>8, <2>1, <2>2 DEF FreshFor
  <1> QED BY <1>9, <1>10, <1>11, <1>12, <1>13, <1>14 DEF IInv

(* Whatever the pool has when a second attempt brings its connection, that *)
(* connection is fit to take its place.                                    *)
LEMMA Stores == ASSUME IInv, NEW c \in Call, Store(c) PROVE IInv'
  <1> DEFINE x == call[c].conn
             k == call[c].key
             r == Obtained(c, x)
  <1>1. /\ connections \in [Key -> Conn \cup {NoConn}]
        /\ conn \in [Conn -> Connection] /\ call \in [Call -> Use]
        /\ call[c].at = "storing" /\ x \in Conn /\ k \in Key
        /\ call[c].attempt = 2
        /\ connections' = [connections EXCEPT ![k] = x]
        /\ call' = [call EXCEPT ![c] = r]
    BY DEF IInv, TypeOK, UsesOK, Active, Store, Become
  <1>2. /\ conn' \in [Conn -> {conn'[y] : y \in Conn}]
        /\ \A y \in Conn : conn'[y] = IF Reachable(y)' THEN conn[y]
                                      ELSE NoConnection
    BY DEF Store, Conns
  <1>3. Owned(c)
    BY <1>1 DEF IInv, OwnersOK
  <1>4. /\ r \in Use
        /\ \/ r = NoUse
           \/ /\ r.at = "locking" /\ r.clock = 0 /\ r.conn = x /\ r.key = k
              /\ r.attempt = 2
    BY <1>1, ObtainedType
  <1> HIDE DEF r
  <1>5. call'[c] = r /\ \A d \in Call : d # c => call'[d] = call[d]
    BY <1>1
  <1>6. TypeOK'
    <2>1. \A y \in Conn : conn'[y] \in Connection
      BY <1>1, <1>2, NoneTypes
    <2>2. conn' \in [Conn -> Connection] /\ call' \in [Call -> Use]
          /\ connections' \in [Key -> Conn \cup {NoConn}]
      BY <1>1, <1>2, <1>4, <2>1
    <2>3. r.at # "opening" /\ (r.at \in Waiting => r.clock = 0)
      BY <1>4 DEF NoUse, Waiting
    <2>4. \A d \in Call :
              /\ call'[d].at = "opening" => call'[d].clock <= OpenTimeout
              /\ call'[d].at \in Waiting => call'[d].clock <= LockTimeout
      BY <1>5, <2>3, Numbers DEF IInv, TypeOK
    <2> QED BY <2>2, <2>4 DEF TypeOK
  <1>7. UsesOK'
    BY <1>1, <1>4, <1>5 DEF IInv, UsesOK, Active, NoUse, Waiting
  <1>8. OwnersOK'
    <2> SUFFICES ASSUME NEW d \in Call, call'[d].at \in {"opening", "storing"}
                 PROVE  Owned(d)'
      BY DEF OwnersOK
    <2>1. d # c /\ call'[d] = call[d] /\ call[d].conn \in Conn /\ Owned(d)
      BY <1>4, <1>5 DEF IInv, OwnersOK, UsesOK, NoUse
    <2>2. call[d].conn # x
      BY <1>3, <2>1 DEF Owned
    <2>3. \A e \in Call : e # d => call'[e].conn # call[d].conn
      BY <1>4, <1>5, <2>1, <2>2, ClientAssumption DEF Owned, NoUse
    <2>4. \A j \in Key : connections'[j] # call[d].conn
      BY <1>1, <2>1, <2>2 DEF Owned
    <2>5. conn'[call[d].conn] = conn[call[d].conn]
      BY <1>2, <2>1 DEF Reachable
    <2> QED BY <2>1, <2>3, <2>4, <2>5 DEF Owned
  <1>9. PoolUsable'
    <2> SUFFICES ASSUME NEW j \in Key, connections'[j] # NoConn
                 PROVE  /\ conn'[connections'[j]].key = j
                        /\ conn'[connections'[j]].state \in Live
      BY DEF PoolUsable
    <2>1. connections'[j] \in Conn
          /\ conn'[connections'[j]] = conn[connections'[j]]
      BY <1>1, <1>2 DEF Reachable, Registered
    <2>2. CASE j = k
      BY <1>1, <1>3, <2>1, <2>2 DEF Owned
    <2>3. CASE j # k
      BY <1>1, <2>1, <2>3 DEF IInv, PoolUsable
    <2> QED BY <2>2, <2>3
  <1>10. AgesOK'
    BY <1>2 DEF IInv, AgesOK, NoConnection
  <1>11. FreshOK'
    <2> SUFFICES ASSUME NEW d \in Call, call'[d].at \in Waiting
                 PROVE  FreshFor(d)'
      BY DEF FreshOK, FreshFor, Waiting
    <2>1. CASE d = c
      BY <1>4, <1>5, <2>1 DEF FreshFor, NoUse, Waiting
    <2>2. CASE d # c
      <3>1. call'[d] = call[d] /\ FreshFor(d) /\ call[d].conn \in Conn
        BY <1>5, <2>2 DEF IInv, FreshOK, UsesOK, Waiting
      <3>2. conn'[call[d].conn] = conn[call[d].conn]
        BY <1>2, <3>1 DEF Reachable
      <3> QED BY <3>1, <3>2 DEF FreshFor
    <2> QED BY <2>1, <2>2
  <1> QED BY <1>6, <1>7, <1>8, <1>9, <1>10, <1>11 DEF IInv

(* The pool is emptied, or one connection of it is lost: each connection   *)
(* stays what it was or is of no use any more, and the pool, where it has  *)
(* something, has what it had.                                             *)
LEMMA Loses ==
    ASSUME IInv, call' \in [Call -> Use],
           connections' \in [Key -> Conn \cup {NoConn}],
           conn' \in [Conn -> Connection],
           \A d \in Call :
               /\ call'[d].at = call[d].at /\ call'[d].key = call[d].key
               /\ call'[d].conn = call[d].conn
               /\ call'[d].attempt = call[d].attempt
               /\ call'[d].clock = call[d].clock,
           \A k \in Key : connections'[k] \in {connections[k], NoConn},
           \A d \in Call : call[d].at = "opening" =>
               conn'[call[d].conn] = conn[call[d].conn],
           \A d \in Call : call[d].at = "storing" =>
               /\ conn'[call[d].conn].key = conn[call[d].conn].key
               /\ conn'[call[d].conn].state \in Live,
           \A x \in Conn :
               \/ conn'[x] = conn[x]
               \/ conn'[x].state \in {"none", "dead", "closed"}
               \/ /\ conn'[x].state = "expired"
                  /\ conn'[x].idle = IdleLimit + 1
                  /\ conn[x].state = "open" /\ conn[x].quiet = GatewayIdle,
           \A k \in Key : connections'[k] # NoConn =>
               /\ conn'[connections'[k]].key = conn[connections'[k]].key
               /\ conn'[connections'[k]].state \in Live
    PROVE  IInv'
  <1>1. TypeOK' /\ UsesOK'
    BY DEF IInv, TypeOK, UsesOK, Active
  <1>2. OwnersOK'
    <2> SUFFICES ASSUME NEW d \in Call, call'[d].at \in {"opening", "storing"}
                 PROVE  Owned(d)'
      BY DEF OwnersOK
    <2>1. Owned(d) /\ call[d].conn \in Conn
      BY DEF IInv, OwnersOK, UsesOK
    <2>2. \A k \in Key : connections'[k] # call[d].conn
      BY <2>1, ClientAssumption DEF Owned
    <2> QED BY <2>1, <2>2 DEF Owned
  <1>3. PoolUsable'
    BY DEF IInv, PoolUsable
  <1>4. AgesOK'
    BY DEF IInv, AgesOK
  <1>5. FreshOK'
    <2> SUFFICES ASSUME NEW d \in Call, call'[d].at \in Waiting
                 PROVE  FreshFor(d)'
      BY DEF FreshOK, FreshFor, Waiting
    <2> DEFINE x == call[d].conn
    <2>1. /\ FreshFor(d) /\ x \in Conn /\ call[d].at \in Waiting
          /\ call[d].clock \in Nat /\ call[d].clock <= LockTimeout
      BY Fields DEF IInv, FreshOK, UsesOK, TypeOK
    <2>2. CASE conn'[x] = conn[x]
      BY <2>1, <2>2 DEF FreshFor
    <2>3. CASE conn'[x].state \in {"none", "dead", "closed"}
      BY <2>3 DEF FreshFor
    <2>4. CASE /\ conn'[x].state = "expired" /\ conn[x].state = "open"
               /\ conn[x].quiet = GatewayIdle
      <3>1. ~(conn[x].quiet <= IdleLimit + LockTimeout + call[d].clock)
        BY <2>1, <2>4, Numbers
      <3>2. call[d].attempt # 1
        BY <2>1, <2>4, <3>1 DEF FreshFor
      <3> QED BY <2>4, <3>2 DEF FreshFor
    <2> QED BY <2>1, <2>2, <2>3, <2>4
  <1> QED BY <1>1, <1>2, <1>3, <1>4, <1>5 DEF IInv

(* When the gateway ends an idle session, the client has not used it for   *)
(* longer than its own limit.                                              *)
LEMMA Expires == ASSUME IInv, NEW x \in Conn, Expire(x) PROVE IInv'
  <1>1. /\ connections \in [Key -> Conn \cup {NoConn}]
        /\ conn \in [Conn -> Connection] /\ call \in [Call -> Use]
        /\ conn[x].state = "open" /\ conn[x].quiet = GatewayIdle
        /\ UNCHANGED <<connections, call>>
        /\ conn' = [conn EXCEPT ![x] = Gone(x, "expired")]
    BY DEF IInv, TypeOK, Expire
  <1>2. /\ Gone(x, "expired") \in Connection
        /\ Gone(x, "expired").state = "expired"
        /\ Gone(x, "expired").key = conn[x].key
        /\ Gone(x, "expired").idle = conn[x].idle
    BY <1>1, GoneType
  <1>3. conn[x].idle = IdleLimit + 1
    BY <1>1, Fields, Numbers DEF IInv, AgesOK
  <1>4. /\ conn' \in [Conn -> Connection] /\ conn'[x] = Gone(x, "expired")
        /\ \A y \in Conn : y # x => conn'[y] = conn[y]
    BY <1>1, <1>2
  <1>5. \A d \in Call : call[d].at = "opening" => call[d].conn # x
    BY <1>1 DEF IInv, OwnersOK, Owned
  <1>6. \A d \in Call : call[d].at \in {"opening", "storing"} =>
            call[d].conn \in Conn /\ Owned(d)
    BY DEF IInv, OwnersOK, UsesOK
  <1>7. \A d \in Call : call[d].at = "opening" =>
            conn'[call[d].conn] = conn[call[d].conn]
    BY <1>4, <1>5, <1>6
  <1>8. \A y \in Conn : conn'[y].key = conn[y].key
            /\ (conn[y].state \in Live => conn'[y].state \in Live)
    BY <1>2, <1>4 DEF Live
  <1>9. \A d \in Call : call[d].at = "storing" =>
            /\ conn'[call[d].conn].key = conn[call[d].conn].key
            /\ conn'[call[d].conn].state \in Live
    BY <1>6, <1>8 DEF Owned
  <1>10. \A y \in Conn :
             \/ conn'[y] = conn[y]
             \/ /\ conn'[y].state = "expired"
                /\ conn'[y].idle = IdleLimit + 1
                /\ conn[y].state = "open" /\ conn[y].quiet = GatewayIdle
    BY <1>1, <1>2, <1>3, <1>4
  <1>11. \A k \in Key : connections'[k] # NoConn =>
             /\ conn'[connections'[k]].key = conn[connections'[k]].key
             /\ conn'[connections'[k]].state \in Live
    BY <1>1, <1>8 DEF IInv, PoolUsable
  <1> QED BY <1>1, <1>4, <1>7, <1>9, <1>10, <1>11, Loses

(* A session that is lost stays in the pool until somebody notices.        *)
LEMMA Drops == ASSUME IInv, NEW x \in Conn, Drop(x) PROVE IInv'
  <1>1. /\ connections \in [Key -> Conn \cup {NoConn}]
        /\ conn \in [Conn -> Connection] /\ call \in [Call -> Use]
        /\ conn[x].state = "open" /\ UNCHANGED connections
        /\ conn' = [conn EXCEPT ![x] = Gone(x, "dead")]
    BY DEF IInv, TypeOK, Drop
  <1>2. /\ Gone(x, "dead") \in Connection
        /\ Gone(x, "dead").state = "dead"
        /\ Gone(x, "dead").key = conn[x].key
    BY <1>1, GoneType
  <1>3. /\ conn' \in [Conn -> Connection] /\ conn'[x] = Gone(x, "dead")
        /\ \A y \in Conn : y # x => conn'[y] = conn[y]
    BY <1>1, <1>2
  <1>4. call' = [d \in Call |-> [call[d] EXCEPT !.excused =
                     @ \/ (Active(d) /\ call[d].key = conn[x].key)]]
    BY DEF Drop
  <1>5. \A d \in Call :
            /\ call'[d] \in Use
            /\ call'[d].at = call[d].at /\ call'[d].key = call[d].key
            /\ call'[d].conn = call[d].conn
            /\ call'[d].attempt = call[d].attempt
            /\ call'[d].clock = call[d].clock
    <2> SUFFICES ASSUME NEW d \in Call
                 PROVE  /\ call'[d] \in Use
                        /\ call'[d].at = call[d].at
                        /\ call'[d].key = call[d].key
                        /\ call'[d].conn = call[d].conn
                        /\ call'[d].attempt = call[d].attempt
                        /\ call'[d].clock = call[d].clock
      OBVIOUS
    <2> DEFINE b == Active(d) /\ call[d].key = conn[x].key
    <2>1. b \in BOOLEAN
      BY DEF Active
    <2>2. call'[d] = [call[d] EXCEPT !.excused = @ \/ b]
      BY <1>1, <1>4
    <2> HIDE DEF b
    <2>3. call[d] \in Use
      BY <1>1
    <2> QED BY <2>1, <2>2, <2>3, Excused
  <1>6. call' \in [Call -> Use]
    BY <1>4, <1>5
  <1>7. \A d \in Call : call[d].at \in {"opening", "storing"} =>
            call[d].conn \in Conn /\ Owned(d)
    BY DEF IInv, OwnersOK, UsesOK
  <1>8. \A d \in Call : call[d].at = "opening" =>
            conn'[call[d].conn] = conn[call[d].conn]
    BY <1>1, <1>3, <1>7 DEF Owned
  <1>9. \A y \in Conn : conn'[y].key = conn[y].key
            /\ (conn[y].state \in Live => conn'[y].state \in Live)
    BY <1>2, <1>3 DEF Live
  <1>10. \A d \in Call : call[d].at = "storing" =>
             /\ conn'[call[d].conn].key = conn[call[d].conn].key
             /\ conn'[call[d].conn].state \in Live
    BY <1>7, <1>9 DEF Owned
  <1>11. \A y \in Conn : conn'[y] = conn[y] \/ conn'[y].state = "dead"
    BY <1>2, <1>3
  <1>12. \A k \in Key : connections'[k] # NoConn =>
             /\ conn'[connections'[k]].key = conn[connections'[k]].key
             /\ conn'[connections'[k]].state \in Live
    BY <1>1, <1>9 DEF IInv, PoolUsable
  <1> QED BY <1>1, <1>3, <1>5, <1>6, <1>8, <1>10, <1>11, <1>12, Loses

(* The shutdown closes what the pool has, and nothing else.                *)
LEMMA Closes == ASSUME IInv, Close PROVE IInv'
  <1>1. /\ connections \in [Key -> Conn \cup {NoConn}]
        /\ conn \in [Conn -> Connection] /\ call \in [Call -> Use]
        /\ connections' = [k \in Key |-> NoConn]
        /\ call' = [d \in Call |-> [call[d] EXCEPT !.excused =
                                        @ \/ Active(d)]]
    BY DEF IInv, TypeOK, Close
  <1>2. /\ conn' \in [Conn -> {conn'[y] : y \in Conn}]
        /\ \A y \in Conn : conn'[y] =
               IF Reachable(y)'
               THEN IF Registered(y) THEN Gone(y, "closed") ELSE conn[y]
               ELSE NoConnection
    BY DEF Close, Conns
  <1>3. \A y \in Conn : conn'[y] \in Connection
    BY <1>1, <1>2, GoneType, NoneTypes
  <1>4. conn' \in [Conn -> Connection]
    BY <1>2, <1>3
  <1>5. \A d \in Call :
            /\ call'[d] \in Use
            /\ call'[d].at = call[d].at /\ call'[d].key = call[d].key
            /\ call'[d].conn = call[d].conn
            /\ call'[d].attempt = call[d].attempt
            /\ call'[d].clock = call[d].clock
    <2> SUFFICES ASSUME NEW d \in Call
                 PROVE  /\ call'[d] \in Use
                        /\ call'[d].at = call[d].at
                        /\ call'[d].key = call[d].key
                        /\ call'[d].conn = call[d].conn
                        /\ call'[d].attempt = call[d].attempt
                        /\ call'[d].clock = call[d].clock
      OBVIOUS
    <2> DEFINE b == Active(d)
    <2>1. b \in BOOLEAN
      BY DEF Active
    <2>2. call'[d] = [call[d] EXCEPT !.excused = @ \/ b]
      BY <1>1
    <2> HIDE DEF b
    <2>3. call[d] \in Use
      BY <1>1
    <2> QED BY <2>1, <2>2, <2>3, Excused
  <1>6. call' \in [Call -> Use]
    BY <1>1, <1>5
  <1>7. \A d \in Call : call[d].at \in {"opening", "storing"} =>
            /\ call[d].conn \in Conn /\ Owned(d)
            /\ conn'[call[d].conn] = conn[call[d].conn]
    <2> SUFFICES ASSUME NEW d \in Call, call[d].at \in {"opening", "storing"}
                 PROVE  /\ call[d].conn \in Conn /\ Owned(d)
                        /\ conn'[call[d].conn] = conn[call[d].conn]
      OBVIOUS
    <2>1. call[d].conn \in Conn /\ Owned(d)
      BY DEF IInv, OwnersOK, UsesOK
    <2>2. PICK y \in Conn : y = call[d].conn
      BY <2>1
    <2>3. ~Registered(y) /\ Reachable(y)'
      BY <1>5, <2>1, <2>2 DEF Owned, Registered, Reachable
    <2> QED BY <1>2, <2>1, <2>2, <2>3
  <1>8. \A d \in Call : call[d].at = "storing" =>
            /\ conn'[call[d].conn].key = conn[call[d].conn].key
            /\ conn'[call[d].conn].state \in Live
    BY <1>7 DEF Owned
  <1>9. \A y \in Conn :
            conn'[y] = conn[y] \/ conn'[y].state \in {"none", "closed"}
    BY <1>1, <1>2, GoneType DEF NoConnection
  <1>10. \A k \in Key : connections'[k] = NoConn
    BY <1>1
  <1>11. connections' \in [Key -> Conn \cup {NoConn}]
    BY <1>1
  <1> QED BY <1>4, <1>5, <1>6, <1>7, <1>8, <1>9, <1>10, <1>11, Loses

(* With time, what the gateway and the client know of a connection grows   *)
(* old together, and a clock stops at its timeout.                         *)
LEMMA Ticks == ASSUME IInv, Tick PROVE IInv'
  <1> DEFINE idle(x) == IF conn[x].state \in Live
                        THEN Older(conn[x].idle, IdleLimit + 1)
                        ELSE conn[x].idle
             quiet(x) == IF conn[x].state = "open"
                         THEN Older(conn[x].quiet, GatewayIdle)
                         ELSE conn[x].quiet
             clock(c) == IF call[c].at \in Waiting \cup {"opening"}
                         THEN call[c].clock + 1 ELSE call[c].clock
             held(c) == IF call[c].at = "running"
                        THEN call[c].held + 1 ELSE call[c].held
  <1>1. /\ conn \in [Conn -> Connection] /\ call \in [Call -> Use]
        /\ UNCHANGED connections
        /\ conn' = [x \in Conn |-> [conn[x] EXCEPT !.idle = idle(x),
                                                   !.quiet = quiet(x)]]
        /\ call' = [c \in Call |-> [call[c] EXCEPT !.clock = clock(c),
                                                   !.held = held(c)]]
    BY DEF IInv, TypeOK, Tick
  <1>2. \A x \in Conn :
            /\ idle(x) \in 0 .. IdleLimit + 1 /\ quiet(x) \in 0 .. GatewayIdle
            /\ quiet(x) <= conn[x].quiet + 1
            /\ conn[x].state # "open" => quiet(x) = conn[x].quiet
            /\ conn[x].state \in Live =>
                   \/ idle(x) = conn[x].idle + 1
                   \/ idle(x) = IdleLimit + 1 /\ conn[x].idle = IdleLimit + 1
    <2> TAKE x \in Conn
    <2>1. /\ conn[x].idle \in 0 .. IdleLimit + 1
          /\ conn[x].quiet \in 0 .. GatewayIdle
      BY <1>1, Fields
    <2>2. idle(x) \in {Older(conn[x].idle, IdleLimit + 1), conn[x].idle}
          /\ (conn[x].state \in Live =>
                  idle(x) = Older(conn[x].idle, IdleLimit + 1))
      OBVIOUS
    <2>3. quiet(x) \in {Older(conn[x].quiet, GatewayIdle), conn[x].quiet}
          /\ (conn[x].state # "open" => quiet(x) = conn[x].quiet)
      OBVIOUS
    <2> HIDE DEF idle, quiet
    <2> QED BY <2>1, <2>2, <2>3, Numbers DEF Older
  <1>3. \A c \in Call :
            /\ clock(c) \in Nat /\ held(c) \in Nat
            /\ call[c].at \in Waiting \cup {"opening"} =>
                   clock(c) = call[c].clock + 1
    <2> TAKE c \in Call
    <2>1. call[c].clock \in Nat /\ call[c].held \in Nat
      BY <1>1, Fields
    <2> QED BY <2>1
  <1> HIDE DEF idle, quiet, clock, held
  <1>4. \A x \in Conn :
            /\ conn'[x] \in Connection /\ conn'[x].state = conn[x].state
            /\ conn'[x].key = conn[x].key /\ conn'[x].idle = idle(x)
            /\ conn'[x].quiet = quiet(x)
    BY <1>1, <1>2 DEF Connection
  <1>5. \A c \in Call :
            /\ call'[c] \in Use /\ call'[c].at = call[c].at
            /\ call'[c].key = call[c].key /\ call'[c].conn = call[c].conn
            /\ call'[c].attempt = call[c].attempt
            /\ call'[c].clock = clock(c)
    BY <1>1, <1>3 DEF Use
  <1>12. /\ \A x \in Conn : /\ conn'[x].state = conn[x].state
                            /\ conn'[x].key = conn[x].key
        /\ connections' = connections
    BY <1>1, <1>4
  <1>13. \A c \in Call :
            /\ call'[c].at = call[c].at /\ call'[c].key = call[c].key
            /\ call'[c].conn = call[c].conn
    BY <1>5
  <1>6. TypeOK'
    <2>1. conn' \in [Conn -> Connection] /\ call' \in [Call -> Use]
      BY <1>1, <1>4, <1>5
    <2> SUFFICES ASSUME NEW c \in Call
                 PROVE  /\ call'[c].at = "opening" =>
                               call'[c].clock <= OpenTimeout
                        /\ call'[c].at \in Waiting =>
                               call'[c].clock <= LockTimeout
      BY <1>1, <2>1 DEF IInv, TypeOK
    <2>2. /\ call[c].at = "opening" => call[c].clock # OpenTimeout
          /\ call[c].at \in Waiting => call[c].clock # LockTimeout
      BY DEF Tick, Urgent, Due
    <2>3. /\ call[c].at = "opening" => call[c].clock <= OpenTimeout
          /\ call[c].at \in Waiting => call[c].clock <= LockTimeout
      BY DEF IInv, TypeOK
    <2>4. call[c].clock \in Nat
      BY <1>1, Fields
    <2> QED BY <1>3, <1>5, <2>2, <2>3, <2>4, Numbers
  <1>7. UsesOK'
    BY <1>5 DEF IInv, UsesOK, Active
  <1>8. OwnersOK'
    <2> SUFFICES ASSUME NEW d \in Call, call'[d].at \in {"opening", "storing"}
                 PROVE  Owned(d)'
      BY DEF OwnersOK
    <2>1. Owned(d) /\ call[d].conn \in Conn
      BY <1>5 DEF IInv, OwnersOK, UsesOK
    <2> QED BY <1>12, <1>13, <2>1 DEF Owned
  <1>9. PoolUsable'
    <2>1. \A k \in Key : connections[k] \in Conn \cup {NoConn}
      BY DEF IInv, TypeOK
    <2> QED BY <1>12, <2>1 DEF IInv, PoolUsable
  <1>10. AgesOK'
    <2> SUFFICES ASSUME NEW x \in Conn
                 PROVE  /\ conn[x].state = "open" /\ idle(x) <= IdleLimit
                               => quiet(x) <= idle(x) + LockTimeout
                        /\ conn[x].state = "expired" =>
                               idle(x) = IdleLimit + 1
      BY <1>4 DEF AgesOK
    <2>1. conn[x].idle \in 0 .. IdleLimit + 1 /\ conn[x].quiet \in Nat
      BY <1>1, Fields
    <2>2. CASE conn[x].state = "open"
      BY <1>2, <2>1, <2>2, Numbers DEF IInv, AgesOK, Live
    <2>3. CASE conn[x].state = "expired"
      BY <1>2, <2>1, <2>3, Numbers DEF IInv, AgesOK, Live
    <2> QED BY <2>2, <2>3
  <1>11. FreshOK'
    <2> SUFFICES ASSUME NEW d \in Call, call'[d].at \in Waiting
                 PROVE  FreshFor(d)'
      BY DEF FreshOK, FreshFor, Waiting
    <2> DEFINE x == call[d].conn
    <2>1. FreshFor(d) /\ x \in Conn /\ call[d].at \in Waiting
      BY <1>5 DEF IInv, FreshOK, UsesOK
    <2>2. /\ call[d].clock \in Nat /\ conn[x].quiet \in Nat
          /\ quiet(x) \in Nat /\ quiet(x) <= conn[x].quiet + 1
          /\ clock(d) = call[d].clock + 1
      <3>1. call[d] \in Use /\ conn[x] \in Connection
        BY <1>1, <2>1
      <3>2. quiet(x) \in 0 .. GatewayIdle
        BY <1>2, <2>1
      <3> QED BY <1>2, <1>3, <2>1, <3>1, <3>2, Fields, Numbers
    <2>3. /\ conn[x].quiet <= call[d].clock => quiet(x) <= clock(d)
          /\ conn[x].quiet <= IdleLimit + LockTimeout + call[d].clock =>
                 quiet(x) <= IdleLimit + LockTimeout + clock(d)
      BY <2>2, Numbers
    <2> QED BY <1>4, <1>5, <2>1, <2>3 DEF FreshFor
  <1> QED BY <1>6, <1>7, <1>8, <1>9, <1>10, <1>11 DEF IInv

(* Every step keeps the invariant.                                         *)
LEMMA Steps == IInv /\ [Next]_vars => IInv'
  <1> SUFFICES ASSUME IInv, [Next]_vars PROVE IInv' OBVIOUS
  <1>1. /\ connections \in [Key -> Conn \cup {NoConn}]
        /\ call \in [Call -> Use]
        /\ \A c \in Call : Active(c) => call[c].key \in Key
    BY DEF IInv, TypeOK, UsesOK
  <1>2. \A b \in BOOLEAN : Failed(b) \in Use /\ Failed(b).at = "none"
                           /\ Failed(b).conn = NoConn
    BY NoneTypes DEF Failed, Use, NoUse
  <1>3. ASSUME NEW c \in Call, NEW kind \in Kinds, NEW k \in Key,
               Start(c, kind, k)
        PROVE  IInv'
    BY <1>3, Starts
  <1>4. ASSUME NEW c \in Call, Get(c) PROVE IInv'
    <2> DEFINE x == connections[call[c].key]
    <2>1. CASE x # NoConn /\ conn[x].idle <= IdleLimit
      <3>1. x \in Conn
        BY <1>1, <1>4, <2>1 DEF Get, Active
      <3>2. /\ call[c].at = "getting" /\ Become(c, Obtained(c, x))
            /\ UNCHANGED <<connections, conn>>
        BY <1>4, <2>1 DEF Get
      <3> QED BY <2>1, <3>1, <3>2, TakesPooled
    <2>2. CASE ~(x # NoConn /\ conn[x].idle <= IdleLimit)
      BY <1>4, <2>2, Replaces DEF Get
    <2> QED BY <2>1, <2>2
  <1>5. ASSUME NEW c \in Call, Pop(c) PROVE IInv'
    BY <1>5, Replaces DEF Pop
  <1>6. ASSUME NEW c \in Call, Opened(c) PROVE IInv'
    BY <1>6, Opens
  <1>7. ASSUME NEW c \in Call, OpenFails(c) PROVE IInv'
    BY <1>2, <1>7, Leaves DEF OpenFails
  <1>8. ASSUME NEW c \in Call, Lock(c) PROVE IInv'
    BY <1>8, Locks
  <1>9. ASSUME NEW c \in Call, Answered(c) PROVE IInv'
    BY <1>9, Answers
  <1>10. ASSUME NEW c \in Call, Fails(c) PROVE IInv'
    <2> DEFINE e == call[c].excused \/ conn[call[c].conn].state = "open"
               again == [NoUse EXCEPT !.at = "popping",
                             !.kind = call[c].kind, !.key = call[c].key,
                             !.excused = e]
    <2>1. /\ Become(c, IF call[c].attempt = 1 THEN again ELSE Failed(e))
          /\ UNCHANGED connections /\ Conns(conn) /\ Active(c)
      BY <1>10 DEF Fails, Active
    <2>2. e \in BOOLEAN /\ call[c].kind \in Kinds /\ call[c].key \in Key
      BY <1>1, <2>1, Fields
    <2> HIDE DEF e
    <2>3. /\ again \in Use /\ again.at = "popping" /\ again.conn = NoConn
          /\ again.key \in Key
      BY <2>2, NoneTypes DEF Use, NoUse, Stages
    <2>4. CASE call[c].attempt = 1
      BY <2>1, <2>3, <2>4, Leaves
    <2>5. CASE call[c].attempt # 1
      BY <1>2, <2>1, <2>2, <2>5, Leaves
    <2> QED BY <2>4, <2>5
  <1>11. NoUse \in Use /\ NoUse.at = "none" /\ NoUse.conn = NoConn
    BY NoneTypes DEF NoUse
  <1>12. ASSUME NEW c \in Call, TimesOut(c) \/ Cancel(c) PROVE IInv'
    BY <1>11, <1>12, Leaves DEF TimesOut, Cancel
  <1>13. ASSUME NEW c \in Call, Store(c) PROVE IInv'
    BY <1>13, Stores
  <1>14. ASSUME NEW x \in Conn, Expire(x) \/ Drop(x) PROVE IInv'
    BY <1>14, Expires, Drops
  <1>15. CASE UNCHANGED vars
    BY <1>15 DEF vars, IInv, TypeOK, UsesOK, OwnersOK, Owned, PoolUsable,
                 AgesOK, FreshOK, FreshFor, Active
  <1> QED BY <1>3, <1>4, <1>5, <1>6, <1>7, <1>8, <1>9, <1>10, <1>12, <1>13,
             <1>14, <1>15, Closes, Ticks DEF Next, Proceed

(* Owners, ages and the pool agree in every state of the client.           *)
THEOREM InductiveInvariant == Spec => []IInv
  BY Initially, Steps, PTL DEF Spec

(* The state of every connection and use is one the code can have, and no  *)
(* clock of a use passes its timeout.                                      *)
THEOREM TypeCorrect == Spec => []TypeOK
  <1>1. IInv => TypeOK
    BY DEF IInv
  <1> QED BY <1>1, InductiveInvariant, PTL

(* However many calls reconnect at a time, the pool has no connection that *)
(* was closed or is of other tenants.                                      *)
THEOREM PoolStaysUsable == Spec => []PoolUsable
  <1>1. IInv => PoolUsable
    BY DEF IInv
  <1> QED BY <1>1, InductiveInvariant, PTL

(* For all timeouts that leave the room of TimeoutsAssumption, no message  *)
(* of a first attempt goes to a session that was ended for idleness.       *)
THEOREM IdleLimitSuffices == Spec => []NeverPostsToExpired
  <1>1. IInv => NeverPostsToExpired
    BY DEF IInv, FreshOK, FreshFor, NeverPostsToExpired
  <1> QED BY <1>1, InductiveInvariant, PTL

(* The pool hands out open connections of the tenants asked for, which the *)
(* gateway has not ended for idleness.                                     *)
THEOREM PoolStaysSound == Spec => []PoolSound
  BY PoolStaysUsable, IdleLimitSuffices, PTL DEF PoolSound

-----------------------------------------------------------------------------
(* A connection that went stale costs a call at most its first attempt.    *)

(* A use under way that no other overlapped and the gateway did not fail.  *)
Unexcused(c) == Active(c) /\ ~call[c].excused

(* Such a use makes its second attempt on a connection that was opened for *)
(* it a moment ago and that nobody has touched since.                      *)
Reopened(c) ==
    LET x == call[c].conn IN
    /\ Unexcused(c)
    /\ call[c].attempt = 2
    /\ call[c].at \in Waiting \cup {"storing"}
    => /\ conn[x].state = "open" /\ conn[x].key = call[c].key
       /\ call[c].at = "storing" => conn[x].quiet <= OpenTimeout
       /\ call[c].at = "locking" =>
              conn[x].quiet <= OpenTimeout + call[c].clock

MaskedFor(c) ==
    /\ call[c].failed => call[c].excused
    /\ Unexcused(c) => \A d \in Call \ {c} : ~Active(d)
    /\ call[c].at = "getting" => call[c].attempt = 1
    /\ Reopened(c)

MaskInv == \A c \in Call : MaskedFor(c)

(* A step of one call leaves the others excused, as they overlap with it.  *)
LEMMA Moves ==
    ASSUME IInv, MaskInv, NEW c \in Call, Active(c), NEW r \in Use,
           Become(c, r), r.failed => r.excused, r.at # "getting",
           r.at # "none" /\ ~r.excused => ~call[c].excused,
           Reopened(c)'
    PROVE  MaskInv'
  <1>1. call'[c] = r /\ \A d \in Call : d # c => call'[d] = call[d]
    BY DEF IInv, TypeOK, Become
  <1>2. ASSUME NEW d \in Call, d # c PROVE MaskedFor(d)'
    <2>1. call'[d] = call[d] /\ MaskedFor(d)
      BY <1>1, <1>2 DEF MaskInv
    <2>2. ~Unexcused(d)
      BY <1>2, <2>1 DEF MaskedFor
    <2>3. ~Unexcused(d)'
      BY <2>1, <2>2 DEF Unexcused, Active
    <2> QED BY <2>1, <2>3 DEF MaskedFor, Reopened
  <1>3. MaskedFor(c)'
    <2>1. Unexcused(c)' => \A d \in Call \ {c} : ~Active(d)'
      <3> SUFFICES ASSUME Unexcused(c)', NEW d \in Call \ {c}
                   PROVE  ~Active(d)'
        OBVIOUS
      <3>1. Unexcused(c)
        BY <1>1 DEF Unexcused, Active
      <3> QED BY <1>1, <3>1 DEF MaskInv, MaskedFor, Active
    <2> QED BY <1>1, <2>1 DEF MaskedFor
  <1> QED BY <1>2, <1>3 DEF MaskInv

(* In the initial state nobody uses the client.                            *)
LEMMA MaskInitially == Init => MaskInv
  <1> SUFFICES ASSUME Init, NEW c \in Call PROVE MaskedFor(c)
    BY DEF MaskInv
  <1>1. call[c].at = "none" /\ call[c].failed = FALSE
    BY DEF Init, NoUse
  <1>2. ~Unexcused(c)
    BY <1>1 DEF Unexcused, Active
  <1> QED BY <1>1, <1>2 DEF MaskedFor, Reopened

(* A call that ends does not fail, or fails for a reason that excuses it.  *)
LEMMA MaskEnds ==
    ASSUME IInv, MaskInv, NEW c \in Call,
           OpenFails(c) \/ Answered(c) \/ TimesOut(c) \/ Cancel(c)
    PROVE  MaskInv'
  <1>1. call \in [Call -> Use] /\ Active(c)
    BY DEF IInv, TypeOK, OpenFails, Answered, TimesOut, Cancel, Due, Waiting,
           Active
  <1>2. PICK r \in {NoUse, Failed(TRUE)} : Become(c, r)
    BY DEF OpenFails, Answered, TimesOut, Cancel
  <1>3. /\ r \in Use /\ r.at = "none" /\ (r.failed => r.excused)
    <2>1. NoUse.at = "none" /\ NoUse.failed = FALSE
      BY DEF NoUse
    <2>2. /\ Failed(TRUE) \in Use /\ Failed(TRUE).at = "none"
          /\ Failed(TRUE).excused = TRUE
      BY NoneTypes DEF NoUse, Failed, Use
    <2> QED BY <2>1, <2>2, NoneTypes
  <1>4. Reopened(c)'
    BY <1>1, <1>2, <1>3 DEF Become, Reopened, Unexcused, Active
  <1> QED BY <1>1, <1>2, <1>3, <1>4, Moves

(* The session raises: a call that nothing disturbed is at its first       *)
(* attempt then, and goes on to the second.                                *)
LEMMA MaskFails ==
    ASSUME IInv, MaskInv, NEW c \in Call, Fails(c) PROVE MaskInv'
  <1> DEFINE e == call[c].excused \/ conn[call[c].conn].state = "open"
             again == [NoUse EXCEPT !.at = "popping",
                           !.kind = call[c].kind, !.key = call[c].key,
                           !.excused = e]
             r == IF call[c].attempt = 1 THEN again ELSE Failed(e)
  <1>1. /\ call \in [Call -> Use] /\ call[c].at = "running" /\ Active(c)
        /\ Become(c, r) /\ call[c].key \in Key
    BY DEF IInv, TypeOK, UsesOK, Fails, Active
  <1>2. e \in BOOLEAN /\ call[c].kind \in Kinds
    BY <1>1, Fields
  <1>3. call[c].attempt # 1 => e
    <2>1. call[c].attempt \in {1, 2} /\ Reopened(c)
      BY <1>1, Fields DEF MaskInv, MaskedFor
    <2> QED BY <1>1, <2>1 DEF Reopened, Unexcused, Waiting
  <1>4. ~e => ~call[c].excused
    OBVIOUS
  <1> HIDE DEF e
  <1>5. /\ again \in Use /\ again.at = "popping" /\ again.excused = e
        /\ again.failed = FALSE
    BY <1>1, <1>2, NoneTypes DEF Use, NoUse, Stages
  <1>6. /\ Failed(e) \in Use /\ Failed(e).at = "none" /\ Failed(e).excused = e
    BY <1>2, NoneTypes DEF Use, NoUse, Failed
  <1> HIDE DEF again
  <1>7. /\ r \in Use /\ r.at \in {"popping", "none"} /\ r.excused = e
        /\ (r.failed => e)
    BY <1>3, <1>5, <1>6
  <1> HIDE DEF r
  <1>8. Reopened(c)'
    BY <1>1, <1>7 DEF Become, Reopened, Waiting
  <1> QED BY <1>1, <1>4, <1>7, <1>8, Moves

(* A use keeps its excuse when it gets its connection.                     *)
LEMMA ObtainedExcuse ==
    ASSUME call \in [Call -> Use], NEW c \in Call, NEW x \in Conn
    PROVE  \/ Obtained(c, x) = NoUse
           \/ /\ Obtained(c, x).failed = call[c].failed
              /\ Obtained(c, x).excused = call[c].excused
  <1>1. call[c] \in Use OBVIOUS
  <1> QED BY <1>1 DEF Obtained, Use

(* Opening another connection keeps a use's excuse.                        *)
LEMMA MaskReplaces ==
    ASSUME IInv, MaskInv, NEW c \in Call, NEW n \in {1, 2},
           call[c].at \in {"getting", "popping"}, Replace(c, n)
    PROVE  MaskInv'
  <1> DEFINE new == CHOOSE x \in Conn : ~Reachable(x)
             r == [call[c] EXCEPT !.at = "opening", !.attempt = n,
                                  !.conn = new, !.clock = 0]
  <1>1. /\ call \in [Call -> Use] /\ call[c] \in Use /\ Active(c)
        /\ new \in Conn /\ Become(c, r)
    BY DEF IInv, TypeOK, Replace, Active
  <1>2. "opening" \in Stages /\ 0 \in Nat /\ new \in Conn \cup {NoConn}
    BY <1>1 DEF Stages
  <1> HIDE DEF new
  <1>3. /\ r \in Use /\ r.at = "opening" /\ r.failed = call[c].failed
        /\ r.excused = call[c].excused
    BY <1>1, <1>2 DEF Use
  <1> HIDE DEF r
  <1>4. Reopened(c)'
    BY <1>1, <1>3 DEF Become, Reopened, Waiting
  <1>5. call[c].failed => call[c].excused
    BY DEF MaskInv, MaskedFor
  <1> QED BY <1>1, <1>3, <1>4, <1>5, Moves

(* A first attempt may get a connection of any age from the pool.          *)
LEMMA MaskGets == ASSUME IInv, MaskInv, NEW c \in Call, Get(c) PROVE MaskInv'
  <1> DEFINE x == connections[call[c].key]
             r == Obtained(c, x)
  <1>1. /\ call \in [Call -> Use] /\ call[c].at = "getting" /\ Active(c)
        /\ connections \in [Key -> Conn \cup {NoConn}] /\ call[c].key \in Key
        /\ call[c].attempt = 1 /\ (call[c].failed => call[c].excused)
    BY DEF IInv, TypeOK, UsesOK, Get, Active, MaskInv, MaskedFor
  <1>2. CASE x # NoConn /\ conn[x].idle <= IdleLimit
    <2>1. x \in Conn /\ Become(c, r)
      BY <1>1, <1>2 DEF Get
    <2>2. /\ r \in Use
          /\ \/ r = NoUse
             \/ /\ r.at = "locking" /\ r.attempt = 1
                /\ r.failed = call[c].failed /\ r.excused = call[c].excused
      BY <1>1, <2>1, ObtainedType, ObtainedExcuse
    <2> HIDE DEF r, x
    <2>3. Reopened(c)' /\ r.at # "getting" /\ (r.failed => r.excused)
          /\ (r.at # "none" /\ ~r.excused => ~call[c].excused)
      BY <1>1, <2>1, <2>2 DEF Become, Reopened, NoUse
    <2> QED BY <1>1, <2>1, <2>2, <2>3, Moves
  <1>3. CASE ~(x # NoConn /\ conn[x].idle <= IdleLimit)
    BY <1>1, <1>3, MaskReplaces DEF Get
  <1> QED BY <1>2, <1>3

(* What was just opened for a second attempt is open and a moment old.     *)
LEMMA MaskOpens ==
    ASSUME IInv, MaskInv, NEW c \in Call, Opened(c) PROVE MaskInv'
  <1> DEFINE x == call[c].conn
             first == call[c].attempt = 1
             r == IF first THEN Obtained(c, x)
                  ELSE [call[c] EXCEPT !.at = "storing", !.clock = 0]
  <1>1. /\ conn \in [Conn -> Connection] /\ call \in [Call -> Use]
        /\ call[c] \in Use /\ call[c].at = "opening" /\ Active(c)
        /\ x \in Conn /\ call[c].clock <= OpenTimeout
        /\ Become(c, r) /\ (call[c].failed => call[c].excused)
    BY DEF IInv, TypeOK, UsesOK, Active, Opened, MaskInv, MaskedFor
  <1>2. conn[x].key = call[c].key
    BY <1>1 DEF IInv, OwnersOK, Owned
  <1>3. CASE first
    <2>1. /\ r \in Use
          /\ \/ r = NoUse
             \/ /\ r.at = "locking" /\ r.attempt = 1
                /\ r.failed = call[c].failed /\ r.excused = call[c].excused
      BY <1>1, <1>3, ObtainedType, ObtainedExcuse
    <2> HIDE DEF r, x
    <2>2. Reopened(c)' /\ r.at # "getting" /\ (r.failed => r.excused)
          /\ (r.at # "none" /\ ~r.excused => ~call[c].excused)
      BY <1>1, <2>1 DEF Become, Reopened, NoUse
    <2> QED BY <1>1, <2>1, <2>2, Moves
  <1>4. CASE ~first
    <2>1. "storing" \in Stages /\ 0 \in Nat
      BY DEF Stages
    <2>2. r = [call[c] EXCEPT !.at = "storing", !.clock = 0]
      BY <1>4
    <2>3. /\ r \in Use /\ r.at = "storing" /\ r.failed = call[c].failed
          /\ r.excused = call[c].excused /\ r.conn = x
          /\ r.key = call[c].key
      BY <1>1, <2>1, <2>2 DEF Use
    <2>4. PICK n \in 0 .. call[c].clock :
              Conns([conn EXCEPT ![x].state = "open", ![x].idle = n,
                                 ![x].quiet = n])
      BY DEF Opened
    <2> HIDE DEF r
    <2>5. call'[c] = r
      BY <1>1 DEF Become
    <2>6. conn'[x] = [conn[x] EXCEPT !.state = "open", !.idle = n,
                                     !.quiet = n]
      <3>1. PICK y \in Conn : y = x
        BY <1>1
      <3>2. Reachable(y)'
        BY <2>3, <2>5, <3>1 DEF Reachable
      <3> DEFINE f == [conn EXCEPT ![x].state = "open", ![x].idle = n,
                                   ![x].quiet = n]
      <3>3. f[y] = [conn[x] EXCEPT !.state = "open", !.idle = n, !.quiet = n]
        BY <1>1, <3>1
      <3>4. Conns(f)
        BY <2>4
      <3> HIDE DEF f
      <3>5. conn'[y] = f[y]
        BY <3>2, <3>4 DEF Conns
      <3> QED BY <3>1, <3>3, <3>5
    <2>7. conn'[x].state = "open" /\ conn'[x].key = call[c].key
          /\ conn'[x].quiet = n
      BY <1>1, <1>2, <2>6 DEF Connection
    <2>8. n <= OpenTimeout
      BY <1>1, <2>4, Fields, Numbers
    <2>9. Reopened(c)'
      BY <2>3, <2>5, <2>7, <2>8 DEF Reopened
    <2> QED BY <1>1, <2>3, <2>9, Moves
  <1> QED BY <1>3, <1>4

(* The pool takes the new connection, which stays as it is.                *)
LEMMA MaskStores ==
    ASSUME IInv, MaskInv, NEW c \in Call, Store(c) PROVE MaskInv'
  <1> DEFINE x == call[c].conn
             r == Obtained(c, x)
  <1>1. /\ conn \in [Conn -> Connection] /\ call \in [Call -> Use]
        /\ call[c].at = "storing" /\ Active(c) /\ call[c].attempt = 2
        /\ x \in Conn /\ Become(c, r) /\ Conns(conn)
        /\ (call[c].failed => call[c].excused) /\ Reopened(c)
    BY DEF IInv, TypeOK, UsesOK, Active, Store, MaskInv, MaskedFor
  <1>2. /\ r \in Use
        /\ \/ r = NoUse
           \/ /\ r.at = "locking" /\ r.conn = x /\ r.clock = 0
              /\ r.key = call[c].key
              /\ r.failed = call[c].failed /\ r.excused = call[c].excused
    BY <1>1, ObtainedType, ObtainedExcuse
  <1> HIDE DEF r
  <1>3. call'[c] = r
    BY <1>1 DEF Become
  <1>4. CASE r = NoUse
    <2>1. r.at = "none" /\ r.failed = FALSE
      BY <1>4 DEF NoUse
    <2>2. Reopened(c)'
      BY <1>3, <2>1 DEF Reopened, Unexcused, Active
    <2> QED BY <1>1, <1>2, <2>1, <2>2, Moves
  <1>5. CASE r # NoUse
    <2>1. conn'[x] = conn[x]
      BY <1>1, <1>2, <1>3, <1>5 DEF Conns, Reachable
    <2>2. conn[x].quiet \in Nat
      BY <1>1, Fields
    <2>3. Unexcused(c)' => Unexcused(c)
      BY <1>1, <1>2, <1>3, <1>5 DEF Unexcused
    <2>4. Unexcused(c) => /\ conn[x].state = "open"
                          /\ conn[x].key = call[c].key
                          /\ conn[x].quiet <= OpenTimeout + 0
      BY <1>1, <2>2, Numbers DEF Reopened
    <2>5. Reopened(c)'
      BY <1>2, <1>3, <1>5, <2>1, <2>3, <2>4 DEF Reopened
    <2> QED BY <1>1, <1>2, <1>5, <2>5, Moves
  <1> QED BY <1>4, <1>5

(* Posting the message leaves the connection open.                         *)
LEMMA MaskLocks ==
    ASSUME IInv, MaskInv, NEW c \in Call, Lock(c) PROVE MaskInv'
  <1> DEFINE x == call[c].conn
             r == [call[c] EXCEPT !.at = "running", !.held = 0]
             q == IF conn[x].state = "open" THEN 0 ELSE conn[x].quiet
  <1>1. /\ conn \in [Conn -> Connection] /\ call \in [Call -> Use]
        /\ call[c] \in Use /\ call[c].at = "locking" /\ Active(c)
        /\ x \in Conn /\ Become(c, r)
        /\ conn' = [conn EXCEPT ![x].quiet = q]
        /\ (call[c].failed => call[c].excused) /\ Reopened(c)
    BY DEF IInv, TypeOK, UsesOK, Active, Lock, MaskInv, MaskedFor, Waiting
  <1>2. "running" \in Stages /\ 0 \in Nat
    BY DEF Stages
  <1>3. /\ r \in Use /\ r.at = "running" /\ r.failed = call[c].failed
        /\ r.excused = call[c].excused /\ r.conn = x /\ r.key = call[c].key
        /\ r.attempt = call[c].attempt
    BY <1>1, <1>2 DEF Use
  <1> HIDE DEF r, q
  <1>4. call'[c] = r
    BY <1>1 DEF Become
  <1>5. conn'[x].state = conn[x].state /\ conn'[x].key = conn[x].key
    BY <1>1 DEF Connection
  <1>6. Unexcused(c)' => Unexcused(c)
    BY <1>1, <1>3, <1>4 DEF Unexcused
  <1>7. Reopened(c)'
    BY <1>1, <1>3, <1>4, <1>5, <1>6 DEF Reopened, Waiting
  <1> QED BY <1>1, <1>3, <1>7, Moves

(* A use that begins excuses all that are under way, and they excuse it.   *)
LEMMA MaskStarts ==
    ASSUME IInv, MaskInv, NEW c \in Call, NEW kind \in Kinds, NEW k \in Key,
           Start(c, kind, k)
    PROVE  MaskInv'
  <1> DEFINE any == \E e \in Call : Active(e)
             r == [NoUse EXCEPT !.at = "getting", !.kind = kind, !.key = k,
                                !.excused = any]
  <1>1. /\ call \in [Call -> Use] /\ any \in BOOLEAN
        /\ call' = [d \in Call |->
                      IF d = c THEN r
                      ELSE [call[d] EXCEPT !.excused = @ \/ Active(d)]]
    BY DEF IInv, TypeOK, Start
  <1>2. (~any) => \A d \in Call : ~Active(d)
    OBVIOUS
  <1> HIDE DEF any
  <1>3. /\ r.at = "getting" /\ r.failed = FALSE /\ r.excused = any
        /\ r.attempt = 1
    BY <1>1 DEF NoUse
  <1> HIDE DEF r
  <1>4. call'[c] = r
    BY <1>1
  <1>5. ASSUME NEW d \in Call, d # c
        PROVE  /\ call'[d].at = call[d].at
               /\ call'[d].attempt = call[d].attempt
               /\ call'[d].failed = call[d].failed
               /\ call'[d].excused = (call[d].excused \/ Active(d))
    <2> DEFINE b == Active(d)
    <2>1. call[d] \in Use /\ b \in BOOLEAN
      BY <1>1 DEF Active
    <2>2. call'[d] = [call[d] EXCEPT !.excused = @ \/ b]
      BY <1>1, <1>5
    <2> HIDE DEF b
    <2>3. /\ call'[d].at = call[d].at
          /\ call'[d].attempt = call[d].attempt
          /\ call'[d].failed = call[d].failed
          /\ call'[d].excused = (call[d].excused \/ b)
      BY <2>1, <2>2, Excused
    <2> QED BY <2>3 DEF b
  <1>6. ASSUME NEW d \in Call, d # c PROVE MaskedFor(d)'
    <2>1. ~Unexcused(d)'
      BY <1>5, <1>6 DEF Unexcused, Active
    <2>2. MaskedFor(d)
      BY DEF MaskInv
    <2> QED BY <1>5, <1>6, <2>1, <2>2 DEF MaskedFor, Reopened
  <1>7. MaskedFor(c)'
    <2>1. Unexcused(c)' => \A d \in Call \ {c} : ~Active(d)'
      BY <1>2, <1>3, <1>4, <1>5 DEF Unexcused, Active
    <2> QED BY <1>3, <1>4, <2>1 DEF MaskedFor, Reopened
  <1> QED BY <1>6, <1>7 DEF MaskInv

(* A step of the gateway, of the shutdown or of time moves no call on.     *)
LEMMA MaskStays ==
    ASSUME MaskInv,
           \A c \in Call :
               /\ call'[c].at = call[c].at /\ call'[c].failed = call[c].failed
               /\ call'[c].attempt = call[c].attempt
               /\ call[c].excused => call'[c].excused
               /\ Reopened(c)'
    PROVE  MaskInv'
  <1> SUFFICES ASSUME NEW c \in Call PROVE MaskedFor(c)'
    BY DEF MaskInv
  <1>1. MaskedFor(c)
    BY DEF MaskInv
  <1>2. Unexcused(c)' => Unexcused(c)
    BY DEF Unexcused, Active
  <1>3. \A d \in Call : Active(d)' <=> Active(d)
    BY DEF Active
  <1> QED BY <1>1, <1>2, <1>3 DEF MaskedFor

(* The gateway fails those it serves for the tenants of the session.       *)
LEMMA MaskDrops ==
    ASSUME IInv, MaskInv, NEW x \in Conn, Drop(x) PROVE MaskInv'
  <1>1. /\ call \in [Call -> Use] /\ conn \in [Conn -> Connection]
        /\ conn' = [conn EXCEPT ![x] = Gone(x, "dead")]
        /\ call' = [d \in Call |-> [call[d] EXCEPT !.excused =
                       @ \/ (Active(d) /\ call[d].key = conn[x].key)]]
    BY DEF IInv, TypeOK, Drop
  <1>2. ASSUME NEW c \in Call
        PROVE  /\ call'[c].at = call[c].at /\ call'[c].failed = call[c].failed
               /\ call'[c].attempt = call[c].attempt
               /\ call'[c].key = call[c].key /\ call'[c].conn = call[c].conn
               /\ call'[c].clock = call[c].clock
               /\ call'[c].excused =
                      (call[c].excused \/ (/\ Active(c)
                                           /\ call[c].key = conn[x].key))
    <2> DEFINE b == Active(c) /\ call[c].key = conn[x].key
    <2>1. call[c] \in Use /\ b \in BOOLEAN
      BY <1>1 DEF Active
    <2>2. call'[c] = [call[c] EXCEPT !.excused = @ \/ b]
      BY <1>1
    <2> HIDE DEF b
    <2>3. /\ call'[c].at = call[c].at /\ call'[c].failed = call[c].failed
          /\ call'[c].attempt = call[c].attempt
          /\ call'[c].key = call[c].key /\ call'[c].conn = call[c].conn
          /\ call'[c].clock = call[c].clock
          /\ call'[c].excused = (call[c].excused \/ b)
      BY <2>1, <2>2, Excused
    <2> QED BY <2>3 DEF b
  <1>3. ASSUME NEW c \in Call PROVE Reopened(c)'
    <2> DEFINE y == call[c].conn
    <2> SUFFICES ASSUME Unexcused(c)', call'[c].attempt = 2,
                        call'[c].at \in Waiting \cup {"storing"}
                 PROVE  Reopened(c)'
      BY DEF Reopened
    <2>1. /\ Unexcused(c) /\ call[c].attempt = 2
          /\ call[c].at \in Waiting \cup {"storing"}
          /\ call[c].key # conn[x].key
      BY <1>2 DEF Unexcused, Active
    <2>2. Reopened(c) /\ y \in Conn
      BY <2>1 DEF IInv, UsesOK, MaskInv, MaskedFor
    <2>3. y # x
      BY <2>1, <2>2 DEF Reopened
    <2>4. conn'[y] = conn[y]
      BY <1>1, <2>2, <2>3
    <2> QED BY <1>2, <2>1, <2>2, <2>4 DEF Reopened
  <1> QED BY <1>2, <1>3, MaskStays

(* A session that expires is older than any that was opened for a second   *)
(* attempt under way.                                                      *)
LEMMA MaskExpires ==
    ASSUME IInv, MaskInv, NEW x \in Conn, Expire(x) PROVE MaskInv'
  <1>1. /\ call \in [Call -> Use] /\ conn \in [Conn -> Connection]
        /\ conn' = [conn EXCEPT ![x] = Gone(x, "expired")]
        /\ call' = call /\ conn[x].quiet = GatewayIdle
        /\ conn[x].state = "open"
    BY DEF IInv, TypeOK, Expire
  <1>2. ASSUME NEW c \in Call PROVE Reopened(c)'
    <2> DEFINE y == call[c].conn
    <2> SUFFICES ASSUME Unexcused(c), call[c].attempt = 2,
                        call[c].at \in Waiting \cup {"storing"}
                 PROVE  Reopened(c)'
      BY <1>1 DEF Reopened, Unexcused, Active
    <2>1. Reopened(c) /\ y \in Conn
      BY DEF IInv, UsesOK, MaskInv, MaskedFor
    <2>2. /\ call[c].clock \in Nat
          /\ call[c].at \in Waiting => call[c].clock <= LockTimeout
      BY <1>1, Fields DEF IInv, TypeOK
    <2>3. y # x
      <3> SUFFICES ASSUME y = x PROVE FALSE
        OBVIOUS
      <3>1. CASE call[c].at = "storing"
        BY <1>1, <2>1, <3>1, Numbers DEF Reopened
      <3>2. CASE call[c].at = "locking"
        BY <1>1, <2>1, <2>2, <3>2, Numbers DEF Reopened, Waiting
      <3>3. CASE call[c].at = "running"
        <4>1. FreshFor(c)
          BY DEF IInv, FreshOK
        <4>2. conn[x].quiet <= call[c].clock
          BY <1>1, <3>3, <4>1 DEF FreshFor
        <4> QED BY <1>1, <2>2, <3>3, <4>2, Numbers DEF Waiting
      <3> QED BY <3>1, <3>2, <3>3 DEF Waiting
    <2>4. conn'[y] = conn[y]
      BY <1>1, <2>1, <2>3
    <2> QED BY <1>1, <2>1, <2>4 DEF Reopened, Unexcused, Active
  <1> QED BY <1>1, <1>2, MaskStays

(* The shutdown excuses every use that is under way.                       *)
LEMMA MaskCloses == ASSUME IInv, MaskInv, Close PROVE MaskInv'
  <1>1. ASSUME NEW c \in Call
        PROVE  /\ call'[c].at = call[c].at /\ call'[c].failed = call[c].failed
               /\ call'[c].attempt = call[c].attempt
               /\ call'[c].excused = (call[c].excused \/ Active(c))
    <2> DEFINE b == Active(c)
    <2>1. call[c] \in Use /\ b \in BOOLEAN
      BY DEF IInv, TypeOK, Active
    <2>2. call'[c] = [call[c] EXCEPT !.excused = @ \/ b]
      BY DEF Close
    <2> HIDE DEF b
    <2>3. /\ call'[c].at = call[c].at /\ call'[c].failed = call[c].failed
          /\ call'[c].attempt = call[c].attempt
          /\ call'[c].excused = (call[c].excused \/ b)
      BY <2>1, <2>2, Excused
    <2> QED BY <2>3 DEF b
  <1>2. ASSUME NEW c \in Call PROVE Reopened(c)'
    <2>1. ~Unexcused(c)'
      BY <1>1 DEF Unexcused, Active
    <2> QED BY <2>1 DEF Reopened
  <1> QED BY <1>1, <1>2, MaskStays

(* No time passes while a call alone has a connection to put into the      *)
(* pool, and while it waits, its clock goes with the session's age.        *)
LEMMA MaskTicks == ASSUME IInv, MaskInv, Tick PROVE MaskInv'
  <1> DEFINE idle(x) == IF conn[x].state \in Live
                        THEN Older(conn[x].idle, IdleLimit + 1)
                        ELSE conn[x].idle
             quiet(x) == IF conn[x].state = "open"
                         THEN Older(conn[x].quiet, GatewayIdle)
                         ELSE conn[x].quiet
             clock(c) == IF call[c].at \in Waiting \cup {"opening"}
                         THEN call[c].clock + 1 ELSE call[c].clock
             held(c) == IF call[c].at = "running"
                        THEN call[c].held + 1 ELSE call[c].held
  <1>1. /\ conn \in [Conn -> Connection] /\ call \in [Call -> Use]
        /\ conn' = [x \in Conn |-> [conn[x] EXCEPT !.idle = idle(x),
                                                   !.quiet = quiet(x)]]
        /\ call' = [c \in Call |-> [call[c] EXCEPT !.clock = clock(c),
                                                   !.held = held(c)]]
    BY DEF IInv, TypeOK, Tick
  <1>2. \A x \in Conn : quiet(x) <= conn[x].quiet + 1 /\ quiet(x) \in Nat
    <2> TAKE x \in Conn
    <2>1. conn[x].quiet \in Nat
      BY <1>1, Fields
    <2> QED BY <2>1, Numbers DEF Older
  <1>3. \A c \in Call : call[c].at = "locking" => clock(c) = call[c].clock + 1
    BY DEF Waiting
  <1> HIDE DEF idle, quiet, clock, held
  <1>4. \A x \in Conn : /\ conn'[x].state = conn[x].state
                        /\ conn'[x].key = conn[x].key
                        /\ conn'[x].quiet = quiet(x)
    BY <1>1 DEF Connection
  <1>5. \A c \in Call :
            /\ call'[c].at = call[c].at /\ call'[c].failed = call[c].failed
            /\ call'[c].attempt = call[c].attempt
            /\ call'[c].excused = call[c].excused
            /\ call'[c].key = call[c].key /\ call'[c].conn = call[c].conn
            /\ call'[c].clock = clock(c)
    BY <1>1 DEF Use
  <1>6. ASSUME NEW c \in Call PROVE Reopened(c)'
    <2> DEFINE y == call[c].conn
    <2> SUFFICES ASSUME Unexcused(c), call[c].attempt = 2,
                        call[c].at \in Waiting \cup {"storing"}
                 PROVE  Reopened(c)'
      BY <1>5 DEF Reopened, Unexcused, Active
    <2>1. /\ Reopened(c) /\ y \in Conn
          /\ \A d \in Call \ {c} : ~Active(d)
      BY DEF IInv, UsesOK, MaskInv, MaskedFor
    <2>2. call[c].at # "storing"
      <3> SUFFICES ASSUME call[c].at = "storing" PROVE FALSE
        OBVIOUS
      <3>1. RegistryFree
        BY <2>1 DEF RegistryFree, Active
      <3> QED BY <3>1 DEF Tick, Urgent
    <2>3. call[c].clock \in Nat /\ conn[y].quiet \in Nat
      BY <1>1, <2>1, Fields
    <2>4. /\ conn[y].state = "open" /\ conn[y].key = call[c].key
          /\ call[c].at = "locking" =>
                 conn[y].quiet <= OpenTimeout + call[c].clock
      BY <2>1 DEF Reopened
    <2>5. /\ quiet(y) \in Nat /\ quiet(y) <= conn[y].quiet + 1
          /\ conn'[y].state = "open" /\ conn'[y].key = call[c].key
          /\ conn'[y].quiet = quiet(y)
      BY <1>2, <1>4, <2>1, <2>4
    <2>6. call[c].at = "locking" => quiet(y) <= OpenTimeout + clock(c)
      BY <1>3, <2>3, <2>4, <2>5, Numbers
    <2> QED BY <1>5, <2>2, <2>5, <2>6 DEF Reopened
  <1> QED BY <1>5, <1>6, MaskStays

(* Every step keeps the excuses.                                           *)
LEMMA MaskSteps == IInv /\ MaskInv /\ [Next]_vars => MaskInv'
  <1> SUFFICES ASSUME IInv, MaskInv, [Next]_vars PROVE MaskInv' OBVIOUS
  <1>1. ASSUME NEW c \in Call, Pop(c) PROVE MaskInv'
    BY <1>1, MaskReplaces DEF Pop
  <1>2. CASE UNCHANGED vars
    BY <1>2 DEF vars, MaskInv, MaskedFor, Unexcused, Reopened, Active
  <1>3. ASSUME NEW c \in Call, Proceed(c) \/ Cancel(c) PROVE MaskInv'
    BY <1>1, <1>3, MaskGets, MaskOpens, MaskEnds, MaskLocks, MaskFails,
       MaskStores DEF Proceed
  <1>4. ASSUME NEW x \in Conn, Expire(x) \/ Drop(x) PROVE MaskInv'
    BY <1>4, MaskExpires, MaskDrops
  <1> QED BY <1>2, <1>3, <1>4, MaskStarts, MaskCloses, MaskTicks DEF Next

(* A call that no other overlaps, and that the gateway does not fail under *)
(* way, never raises because its connection went stale before: it meets    *)
(* that at its first attempt only, and its second connection lasts.        *)
THEOREM StaleMasked == Spec => []StaleConnectionMasked
  <1>1. MaskInv => StaleConnectionMasked
    BY DEF MaskInv, MaskedFor, StaleConnectionMasked
  <1> QED
    BY <1>1, InductiveInvariant, MaskInitially, MaskSteps, PTL DEF Spec
=============================================================================
