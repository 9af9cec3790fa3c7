--------------------------- MODULE TenantStoreProofs ---------------------------
(***************************************************************************)
(* Proofs about TenantStore: the registry of tenants is sound, whatever    *)
(* requests overlap, fail or are cut off by a crash.                       *)
(***************************************************************************)
EXTENDS TenantStore, TLAPS

-----------------------------------------------------------------------------
(* The inductive invariant.                                                *)

(* The steps a request of each kind takes, those at which it has an        *)
(* instance in its hands, and those at which it carries a configuration.   *)
StepsOf == [add |-> {"connect", "insert", "truncate", "write"},
            remove |-> {"close", "erase"},
            update |-> {"truncate", "write", "load", "lookup", "install"},
            rewrite |-> {"generate", "truncate", "write", "load", "lookup", "install"},
            approve |-> {"mark", "truncate", "write", "rebuild"},
            watch |-> {"load", "lookup", "install"}]
Holding == {"insert", "close", "erase", "generate", "truncate", "write",
            "install", "mark", "rebuild"}
Carrying == {"connect", "insert", "truncate", "write", "lookup", "install"}

(* A request under way is at a step of its kind, with what the step needs. *)
JobOK(o) ==
    Busy(o) =>
        /\ job[o] \in Job
        /\ at[o] \in StepsOf[job[o].kind]
        /\ at[o] \in Holding => job[o].inst \in Instance /\ config[job[o].inst] \in Config
        /\ at[o] \in Carrying => job[o].cfg \in Config

(* Requests that have an instance for themselves: before it is in the map  *)
(* or after it was taken out of it.                                        *)
Owns(o) == at[o] \in {"insert", "close"}

OwnedAlone ==
    /\ \A o \in Op : Owns(o) =>
         /\ conn[job[o].inst] = "open"
         /\ at[o] = "insert" => readonly[job[o].inst] # "closed"
         /\ \A t \in Tenant : tenants[t] # job[o].inst
    /\ \A o, p \in Op : Owns(o) /\ Owns(p) /\ job[o].inst = job[p].inst => o = p

OneEach ==
    /\ \A t, u \in Tenant : t # u /\ Registered(t) => tenants[t] # tenants[u]
    /\ \A t \in Tenant : Registered(t) => config[tenants[t]] \in Config

Placement == OwnedAlone /\ OneEach /\ RegisteredOpen /\ ConnHeld

IInv ==
    /\ TypeOK
    /\ \A o \in Op : JobOK(o)
    /\ changed => Default \in Tenant
    /\ Placement
    /\ RouterMatchesConfig


-----------------------------------------------------------------------------
(* What a step of one request leaves to the others.                        *)

Others(o) == \A p \in Op \ {o} : at'[p] = at[p] /\ job'[p] = job[p]

ApprovingBy(o, i) ==
    Busy(o) /\ job[o].kind = "approve" /\ job[o].inst = i /\ at[o] # "mark"

(* Configurations stay configurations, so the other requests keep what     *)
(* they need.                                                              *)
LEMMA JobsStay ==
  ASSUME IInv, NEW o \in Op, Others(o), JobOK(o)',
         \A i \in Instance : config[i] \in Config => config'[i] \in Config
  PROVE  \A p \in Op : JobOK(p)'
<1>1. TAKE p \in Op
<1>2. CASE p = o
  BY <1>2
<1>3. CASE p # o
  <2>1. at'[p] = at[p] /\ job'[p] = job[p]
    BY <1>3 DEF Others
  <2>2. JobOK(p)
    BY DEF IInv
  <2> QED
    BY <2>1, <2>2 DEF JobOK, Busy
<1> QED
  BY <1>2, <1>3

(* A step that moves no instance, of a request that has none for itself    *)
(* before or after.                                                        *)
LEMMA PlacementStays ==
  ASSUME IInv, NEW o \in Op, Others(o), ~Owns(o), ~Owns(o)',
         UNCHANGED <<tenants, conn, readonly>>,
         \A i \in Instance : config[i] \in Config => config'[i] \in Config
  PROVE  Placement'
<1> USE DEF Owns
<1>1. \A p \in Op : Owns(p)' => p # o /\ Owns(p) /\ at'[p] = at[p] /\ job'[p] = job[p]
  BY DEF Others
<1>2. \A p \in Op : Owns(p) => p # o /\ Owns(p)' /\ at'[p] = at[p] /\ job'[p] = job[p]
  BY DEF Others
<1>3. /\ OwnedAlone /\ OneEach /\ RegisteredOpen /\ ConnHeld
      /\ tenants \in [Tenant -> Instance \cup {NoInstance}]
  BY DEF IInv, Placement, TypeOK
<1>4. OwnedAlone'
  BY <1>1, <1>3 DEF OwnedAlone
<1>5. OneEach'
  BY <1>3 DEF OneEach, Registered
<1>6. RegisteredOpen'
  BY <1>3 DEF RegisteredOpen, Registered
<1>7. ConnHeld'
  BY <1>2, <1>3 DEF ConnHeld
<1> QED
  BY <1>4, <1>5, <1>6, <1>7 DEF Placement

(* Each instance: untouched, the request still approving it or its save    *)
(* failed; or with a router of its configuration; or in approval.          *)
LEMMA RoutersStay ==
  ASSUME IInv, NEW o \in Op, Others(o),
         \A i \in Instance :
            \/ /\ config'[i] = config[i] /\ router'[i] = router[i]
               /\ i \in unsaved => i \in unsaved'
               /\ ApprovingBy(o, i) => ApprovingBy(o, i)' \/ i \in unsaved'
            \/ router'[i] = config'[i]
            \/ ApprovingBy(o, i)'
  PROVE  RouterMatchesConfig'
<1>1. SUFFICES ASSUME NEW i \in Instance PROVE (Approving(i) \/ i \in unsaved \/ router[i] = config[i])'
  BY DEF RouterMatchesConfig
<1>2. \A j \in Instance : Approving(j) <=> \E p \in Op : ApprovingBy(p, j)
  BY DEF Approving, ApprovingBy
<1>3. Approving(i)' <=> \E p \in Op : ApprovingBy(p, i)'
  BY DEF Approving, ApprovingBy
<1>4. \A p \in Op \ {o} : ApprovingBy(p, i) => ApprovingBy(p, i)'
  BY DEF Others, ApprovingBy, Busy
<1>5. Approving(i) \/ i \in unsaved \/ router[i] = config[i]
  BY DEF IInv, RouterMatchesConfig
<1> QED
  BY <1>2, <1>3, <1>4, <1>5

(* What the steps do to the record of their request.                       *)
LEMMA JobUpdates ==
  ASSUME NEW j \in Job
  PROVE  /\ \A i \in Instance \cup {NoInstance} :
              /\ [j EXCEPT !.inst = i] \in Job
              /\ [j EXCEPT !.inst = i].inst = i
              /\ [j EXCEPT !.inst = i].kind = j.kind
              /\ [j EXCEPT !.inst = i].cfg = j.cfg
         /\ \A c \in Config \cup {NoConfig} :
              /\ [j EXCEPT !.cfg = c] \in Job
              /\ [j EXCEPT !.cfg = c].cfg = c
              /\ [j EXCEPT !.cfg = c].kind = j.kind
              /\ [j EXCEPT !.cfg = c].inst = j.inst
         /\ \A f \in {"saved", "base"} :
              /\ [j EXCEPT !.from = f, !.inst = NoInstance, !.cfg = NoConfig] \in Job
              /\ [j EXCEPT !.from = f, !.inst = NoInstance, !.cfg = NoConfig].kind = j.kind
BY DEF Job

(* A step of request o gives it a step and a record; it finds in it what    *)
(* the step needs, and the others keep what they need.                     *)
LEMMA Moved ==
  ASSUME IInv, NEW o \in Op, NEW s \in Steps, NEW j \in Job \cup {NoJob},
         at' = [at EXCEPT ![o] = s], job' = [job EXCEPT ![o] = j],
         s # "idle" => j \in Job /\ s \in StepsOf[j.kind],
         s \in Holding => j.inst \in Instance /\ config'[j.inst] \in Config,
         s \in Carrying => j.cfg \in Config,
         \A i \in Instance : config[i] \in Config => config'[i] \in Config
  PROVE  /\ Others(o) /\ at'[o] = s /\ job'[o] = j
         /\ at' \in [Op -> Steps]
         /\ job' \in [Op -> Job \cup {NoJob}]
         /\ \A p \in Op : JobOK(p)'
<1>1. /\ Others(o) /\ at'[o] = s /\ job'[o] = j
      /\ at' \in [Op -> Steps]
      /\ job' \in [Op -> Job \cup {NoJob}]
  <2>1. at \in [Op -> Steps] /\ job \in [Op -> Job \cup {NoJob}]
    BY DEF IInv, TypeOK
  <2> HIDE DEF Steps, Job
  <2> QED
    BY <2>1 DEF Others
<1>2. JobOK(o)'
  BY <1>1 DEF JobOK, Busy
<1> QED
  BY <1>1, <1>2, JobsStay
-----------------------------------------------------------------------------
(* Starting a request.                                                     *)

LEMMA StartKeeps ==
  ASSUME IInv, NEW o \in Op, Start(o) \/ HotReload(o)
  PROVE  IInv'
<1>1. /\ tenants \in [Tenant -> Instance \cup {NoInstance}]
      /\ TypeOK
      /\ \A t \in Tenant : Registered(t) =>
            tenants[t] \in Instance /\ config[tenants[t]] \in Config /\ conn[tenants[t]] = "open" /\ readonly[tenants[t]] # "closed"
  BY DEF IInv, TypeOK, Placement, OneEach, RegisteredOpen, Registered
<1>2. "idle" \notin {"insert", "close"}
  OBVIOUS
<1>3. CASE \E t \in Tenant : \/ Rewrite(o, t)
                            \/ \E c \in Config : AddTenant(o, t, c) \/ UpdateConfig(o, t, c)
  <2>1. PICK t \in Tenant, step \in {"connect", "truncate", "generate"}, kind \in {"add", "update", "rewrite"},
             i \in Instance \cup {NoInstance}, c \in Config \cup {NoConfig} :
           /\ Begin(o, step, kind, t, i, c, {}, "saved")
           /\ UNCHANGED <<tenants, instanceVars, fileVars>>
           /\ step \in StepsOf[kind]
           /\ step \in Holding => i \in Instance /\ config[i] \in Config
           /\ step \in Carrying => c \in Config
    <3>1. ASSUME NEW t \in Tenant, Rewrite(o, t)
          PROVE  /\ Begin(o, "generate", "rewrite", t, tenants[t], NoConfig, {}, "saved")
                 /\ UNCHANGED <<tenants, instanceVars, fileVars>>
                 /\ "generate" \in StepsOf["rewrite"] /\ "generate" \notin Carrying
                 /\ tenants[t] \in Instance /\ config[tenants[t]] \in Config
      BY <1>1, <3>1 DEF Rewrite, StepsOf, Carrying
    <3>2. ASSUME NEW t \in Tenant, NEW c \in Config, AddTenant(o, t, c)
          PROVE  /\ Begin(o, "connect", "add", t, NoInstance, c, {}, "saved")
                 /\ UNCHANGED <<tenants, instanceVars, fileVars>>
                 /\ "connect" \in StepsOf["add"] /\ "connect" \notin Holding
      BY <3>2 DEF AddTenant, StepsOf, Holding
    <3>3. ASSUME NEW t \in Tenant, NEW c \in Config, UpdateConfig(o, t, c)
          PROVE  /\ Begin(o, "truncate", "update", t, tenants[t], c, {}, "saved")
                 /\ UNCHANGED <<tenants, instanceVars, fileVars>>
                 /\ "truncate" \in StepsOf["update"]
                 /\ tenants[t] \in Instance /\ config[tenants[t]] \in Config
      BY <1>1, <3>3 DEF UpdateConfig, StepsOf
    <3> QED
      BY <1>3, <3>1, <3>2, <3>3
  <2>2. /\ step \in Steps /\ kind \in Kinds /\ {} \in SUBSET Tool /\ "saved" \in {"saved", "base"}
        /\ step \notin {"insert", "close"} /\ kind # "approve"
        /\ UNCHANGED config
    BY <2>1 DEF Steps, Kinds, instanceVars
  <2> DEFINE j == [kind |-> kind, tenant |-> t, inst |-> i, cfg |-> c,
                   tool |-> {}, from |-> "saved"]
  <2>3. /\ Others(o) /\ at[o] = "idle" /\ at'[o] = step
        /\ job'[o].kind = kind /\ job'[o].inst = i
        /\ at' \in [Op -> Steps] /\ job' \in [Op -> Job \cup {NoJob}]
        /\ disturbed' \subseteq Tenant /\ unsaved' = unsaved
        /\ \A p \in Op : JobOK(p)'
    <3>1. j \in Job /\ j.kind = kind /\ j.inst = i /\ j.cfg = c
      BY <2>1, <2>2 DEF Job
    <3>2. /\ at' = [at EXCEPT ![o] = step] /\ job' = [job EXCEPT ![o] = j]
          /\ at[o] = "idle" /\ unsaved' = unsaved /\ disturbed' \subseteq Tenant
      BY <1>1, <2>1, <2>2 DEF Begin, Move, Busy, TypeOK
    <3> HIDE DEF j
    <3> QED
      BY <2>1, <2>2, <3>1, <3>2, Moved
  <2>4. UNCHANGED <<tenants, instanceVars, fileVars>>
    BY <2>1
  <2>5. TypeOK'
    BY <1>1, <2>3, <2>4 DEF TypeOK, instanceVars, fileVars
  <2>7. Placement'
    BY <2>2, <2>3, <2>4, PlacementStays DEF Owns, instanceVars
  <2>8. RouterMatchesConfig'
    BY <2>2, <2>3, <2>4, RoutersStay DEF ApprovingBy, Busy, instanceVars
  <2> QED
    BY <2>4, <2>5, <2>3, <2>7, <2>8 DEF IInv, fileVars
<1>4. ASSUME NEW t \in Tenant, RemoveTenant(o, t)
      PROVE  IInv'
  <2>0. PICK i \in Instance : i = tenants[t]
    BY <1>1, <1>4 DEF RemoveTenant
  <2>1. /\ i = tenants[t]
        /\ Begin(o, "close", "remove", t, i, NoConfig, {}, "saved")
        /\ i \in Instance /\ config[i] \in Config /\ conn[i] = "open"
        /\ tenants' = [tenants EXCEPT ![t] = NoInstance]
        /\ UNCHANGED <<instanceVars, fileVars>>
    BY <1>1, <1>4, <2>0 DEF RemoveTenant
  <2>2. /\ "close" \in Steps /\ "remove" \in Kinds /\ {} \in SUBSET Tool
        /\ "saved" \in {"saved", "base"}
        /\ "close" \in StepsOf["remove"] /\ "close" \notin Carrying
        /\ "close" \in Holding => i \in Instance /\ config[i] \in Config
        /\ i \in Instance \cup {NoInstance} /\ NoConfig \in Config \cup {NoConfig}
        /\ UNCHANGED config
    BY <2>1 DEF Steps, Kinds, StepsOf, Carrying, instanceVars
  <2> DEFINE j == [kind |-> "remove", tenant |-> t, inst |-> i, cfg |-> NoConfig,
                   tool |-> {}, from |-> "saved"]
  <2>3. /\ Others(o) /\ at[o] = "idle" /\ at'[o] = "close"
        /\ job'[o].kind = "remove" /\ job'[o].inst = i
        /\ at' \in [Op -> Steps] /\ job' \in [Op -> Job \cup {NoJob}]
        /\ disturbed' \subseteq Tenant /\ unsaved' = unsaved
        /\ \A p \in Op : JobOK(p)'
    <3>1. j \in Job /\ j.kind = "remove" /\ j.inst = i /\ j.cfg = NoConfig
      BY <2>1, <2>2 DEF Job
    <3>2. /\ at' = [at EXCEPT ![o] = "close"] /\ job' = [job EXCEPT ![o] = j]
          /\ at[o] = "idle" /\ unsaved' = unsaved /\ disturbed' \subseteq Tenant
      BY <1>1, <2>1, <2>2 DEF Begin, Move, Busy, TypeOK
    <3> HIDE DEF j
    <3> QED
      BY <2>1, <2>2, <3>1, <3>2, Moved
  <2>4. /\ \A u \in Tenant : tenants'[u] = IF u = t THEN NoInstance ELSE tenants[u]
        /\ UNCHANGED <<instanceVars, fileVars>>
    BY <1>1, <2>1
  <2>5. TypeOK'
    <3>1. tenants' \in [Tenant -> Instance \cup {NoInstance}]
      BY <1>1, <2>1
    <3> QED
      BY <1>1, <2>3, <2>4, <3>1 DEF TypeOK, instanceVars, fileVars
  <2>7. Placement'
    <3>1. OwnedAlone /\ OneEach /\ RegisteredOpen /\ ConnHeld /\ NoInstance \notin Instance
      BY StoreAssumption DEF IInv, Placement
    <3>2. \A p \in Op : p # o => at'[p] = at[p] /\ job'[p] = job[p]
      BY <2>3 DEF Others
    <3>3. /\ conn' = conn /\ readonly' = readonly /\ config' = config
      BY <2>4 DEF instanceVars
    <3>4. \A p \in Op : p # o /\ Owns(p) => job[p].inst # i
      BY <2>0, <3>1 DEF OwnedAlone
    <3>5. \A u \in Tenant : u # t /\ Registered(u) => tenants[u] # i
      BY <1>4, <2>0, <3>1 DEF OneEach, RemoveTenant
    <3>6. OwnedAlone'
      <4>1. \A p \in Op : Owns(p)' =>
              p = o \/ (p # o /\ Owns(p) /\ at'[p] = at[p] /\ job'[p] = job[p])
        BY <3>2 DEF Owns
      <4>2. \A u \in Tenant : tenants'[u] # i
        BY <2>1, <2>4, <3>1, <3>5 DEF Registered
      <4>3. \A p \in Op : Owns(p)' =>
              /\ conn'[job'[p].inst] = "open"
              /\ at'[p] = "insert" => readonly'[job'[p].inst] # "closed"
              /\ \A u \in Tenant : tenants'[u] # job'[p].inst
        <5>1. SUFFICES ASSUME NEW p \in Op, Owns(p)'
              PROVE /\ conn'[job'[p].inst] = "open"
                    /\ at'[p] = "insert" => readonly'[job'[p].inst] # "closed"
                    /\ \A u \in Tenant : tenants'[u] # job'[p].inst
          OBVIOUS
        <5>2. CASE p = o
          BY <2>1, <2>3, <3>3, <4>2, <5>2
        <5>3. CASE p # o
          <6>1. job[p].inst \in Instance
            BY <3>2, <5>1, <5>3 DEF Owns, IInv, JobOK, Busy, Holding
          <6> QED
            BY <2>4, <3>1, <3>3, <4>1, <5>1, <5>3, <6>1 DEF OwnedAlone
        <5> QED
          BY <5>2, <5>3
      <4>4. ASSUME NEW p \in Op, NEW q \in Op, Owns(p)', Owns(q)', job'[p].inst = job'[q].inst
            PROVE  p = q
        BY <2>3, <3>1, <3>4, <4>1, <4>4 DEF OwnedAlone
      <4> QED
        BY <4>3, <4>4 DEF OwnedAlone, Owns
    <3>7. OneEach'
      BY <2>4, <3>1, <3>3 DEF OneEach, Registered
    <3>8. RegisteredOpen'
      BY <2>4, <3>1, <3>3 DEF RegisteredOpen, Registered
    <3>9. ConnHeld'
      <4>1. ASSUME NEW k \in Instance, conn'[k] = "open"
            PROVE  \/ \E u \in Tenant : tenants'[u] = k
                   \/ \E p \in Op : at'[p] \in {"insert", "close"} /\ job'[p].inst = k
        <5>1. CASE k = i
          BY <2>3, <5>1
        <5>2. CASE k # i /\ \E u \in Tenant : tenants[u] = k
          BY <2>0, <2>4, <5>2
        <5>3. CASE \E p \in Op : at[p] \in {"insert", "close"} /\ job[p].inst = k
          BY <2>3, <3>2, <5>3
        <5> QED
          BY <3>1, <3>3, <4>1, <5>1, <5>2, <5>3 DEF ConnHeld
      <4> QED
        BY <4>1 DEF ConnHeld
    <3> QED
      BY <3>6, <3>7, <3>8, <3>9 DEF Placement
  <2>8. RouterMatchesConfig'
    BY <2>2, <2>3, <2>4, RoutersStay DEF ApprovingBy, Busy, instanceVars
  <2> QED
    BY <2>4, <2>5, <2>3, <2>7, <2>8 DEF IInv, fileVars
<1>5. ASSUME NEW t \in Tenant, NEW e \in Tool, ApproveTool(o, t, e)
      PROVE  IInv'
  <2>1. PICK i \in Instance : i = tenants[t]
    BY <1>1, <1>5 DEF ApproveTool
  <2>2. /\ Begin(o, "mark", "approve", t, i, NoConfig, {e}, "saved")
        /\ config[i] \in Config
        /\ sharing' = [sharing EXCEPT ![i] = @ \cup {o}]
        /\ UNCHANGED <<tenants, conn, readonly, config, router, approved, path, fileVars>>
    BY <1>1, <1>5, <2>1 DEF ApproveTool
  <2>3. /\ "mark" \in Steps /\ "approve" \in Kinds /\ {e} \in SUBSET Tool
        /\ "saved" \in {"saved", "base"}
        /\ "mark" \in StepsOf["approve"] /\ "mark" \notin Carrying
        /\ UNCHANGED config
    BY <2>2 DEF Steps, Kinds, StepsOf, Carrying
  <2> DEFINE j == [kind |-> "approve", tenant |-> t, inst |-> i, cfg |-> NoConfig,
                   tool |-> {e}, from |-> "saved"]
  <2>4. /\ Others(o) /\ at[o] = "idle" /\ at'[o] = "mark"
        /\ job'[o].kind = "approve" /\ job'[o].inst = i
        /\ at' \in [Op -> Steps] /\ job' \in [Op -> Job \cup {NoJob}]
        /\ disturbed' \subseteq Tenant /\ unsaved' = unsaved
        /\ \A p \in Op : JobOK(p)'
    <3>1. j \in Job /\ j.kind = "approve" /\ j.inst = i /\ j.cfg = NoConfig
      BY <2>2, <2>3 DEF Job
    <3>2. /\ at' = [at EXCEPT ![o] = "mark"] /\ job' = [job EXCEPT ![o] = j]
          /\ at[o] = "idle" /\ unsaved' = unsaved /\ disturbed' \subseteq Tenant
      BY <1>1, <2>2, <2>3 DEF Begin, Move, Busy, TypeOK
    <3> HIDE DEF j
    <3> QED
      BY <2>2, <2>3, <3>1, <3>2, Moved
  <2>5. TypeOK'
    <3>1. sharing' \in [Instance -> SUBSET Op]
      BY <1>1, <2>2 DEF TypeOK
    <3> QED
      BY <1>1, <2>2, <2>4, <3>1 DEF TypeOK, fileVars
  <2>7. Placement'
    BY <2>2, <2>4, PlacementStays DEF Owns
  <2>8. RouterMatchesConfig'
    BY <2>2, <2>4, RoutersStay DEF ApprovingBy, Busy
  <2> QED
    BY <2>2, <2>4, <2>5, <2>7, <2>8 DEF IInv, fileVars
<1>6. CASE HotReload(o)
  <2>1. /\ Begin(o, "load", "watch", Default, NoInstance, NoConfig, {}, "base")
        /\ Default \in Tenant
        /\ changed' = FALSE
        /\ UNCHANGED <<tenants, instanceVars, disk, writers, base>>
    BY <1>6 DEF HotReload, IInv
  <2>2. /\ "load" \in Steps /\ "watch" \in Kinds /\ {} \in SUBSET Tool
        /\ "base" \in {"saved", "base"}
        /\ "load" \in StepsOf["watch"] /\ "load" \notin Carrying /\ "load" \notin Holding
        /\ UNCHANGED config
    BY <2>1 DEF Steps, Kinds, StepsOf, Carrying, Holding, instanceVars
  <2> DEFINE j == [kind |-> "watch", tenant |-> Default, inst |-> NoInstance, cfg |-> NoConfig,
                   tool |-> {}, from |-> "base"]
  <2>3. /\ Others(o) /\ at[o] = "idle" /\ at'[o] = "load"
        /\ job'[o].kind = "watch" /\ job'[o].inst = NoInstance
        /\ at' \in [Op -> Steps] /\ job' \in [Op -> Job \cup {NoJob}]
        /\ disturbed' \subseteq Tenant /\ unsaved' = unsaved
        /\ \A p \in Op : JobOK(p)'
    <3>1. j \in Job /\ j.kind = "watch" /\ j.inst = NoInstance /\ j.cfg = NoConfig
      BY <2>1, <2>2 DEF Job
    <3>2. /\ at' = [at EXCEPT ![o] = "load"] /\ job' = [job EXCEPT ![o] = j]
          /\ at[o] = "idle" /\ unsaved' = unsaved /\ disturbed' \subseteq Tenant
      BY <1>1, <2>1, <2>2 DEF Begin, Move, Busy, TypeOK
    <3> HIDE DEF j
    <3> QED
      BY <2>1, <2>2, <3>1, <3>2, Moved
  <2>5. TypeOK'
    BY <1>1, <2>1, <2>3 DEF TypeOK, instanceVars
  <2>7. Placement'
    BY <2>1, <2>3, PlacementStays DEF Owns, instanceVars
  <2>8. RouterMatchesConfig'
    BY <2>1, <2>3, RoutersStay DEF ApprovingBy, Busy, instanceVars
  <2> QED
    BY <2>1, <2>5, <2>3, <2>7, <2>8 DEF IInv
<1> QED
  BY <1>3, <1>4, <1>5, <1>6 DEF Start
-----------------------------------------------------------------------------
(* The steps of a request that leave the instances where they are.         *)

LEMMA Carried ==
  ASSUME IInv, NEW o \in Op, Busy(o)
  PROVE  /\ job[o] \in Job /\ at[o] \in StepsOf[job[o].kind]
         /\ job[o].kind \in Kinds /\ job[o].tenant \in Tenant
         /\ job[o].inst \in Instance \cup {NoInstance}
         /\ job[o].cfg \in Config \cup {NoConfig}
         /\ job[o].tool \in SUBSET Tool /\ job[o].from \in {"saved", "base"}
         /\ at[o] \in Holding => job[o].inst \in Instance /\ config[job[o].inst] \in Config
         /\ at[o] \in Carrying => job[o].cfg \in Config
<1>1. JobOK(o)
  BY DEF IInv
<1> QED
  BY <1>1 DEF JobOK, Job

RestTyped ==
    /\ path \in [Instance -> {"saved", "base"}]
    /\ disk \in [Tenant -> Config \cup Unreadable]
    /\ writers \in [Tenant -> SUBSET Op]
    /\ disturbed \subseteq Tenant
    /\ unsaved \subseteq Instance

(* Nothing but the request, the file and where it is read from changes: an *)
(* approval stays one, or leaves its instance unsaved.                     *)
LEMMA StepKeeps ==
  ASSUME IInv, NEW o \in Op, NEW s \in Steps, NEW j \in Job \cup {NoJob},
         at' = [at EXCEPT ![o] = s], job' = [job EXCEPT ![o] = j],
         s # "idle" => j \in Job /\ s \in StepsOf[j.kind],
         s \in Holding => j.inst \in Instance /\ config[j.inst] \in Config,
         s \in Carrying => j.cfg \in Config,
         ~Owns(o), s \notin {"insert", "close"},
         UNCHANGED <<tenants, conn, readonly, config, router, approved, sharing, base, changed>>,
         RestTyped', unsaved \subseteq unsaved',
         Busy(o) /\ job[o].kind = "approve" /\ at[o] # "mark"
            => \/ s \notin {"idle", "mark"} /\ j.kind = "approve" /\ j.inst = job[o].inst
               \/ job[o].inst \in unsaved'
  PROVE  IInv'
<1>1. /\ Others(o) /\ at'[o] = s /\ job'[o] = j
      /\ at' \in [Op -> Steps] /\ job' \in [Op -> Job \cup {NoJob}]
      /\ \A p \in Op : JobOK(p)'
  BY Moved
<1>2. TypeOK'
  <2>1. TypeOK
    BY DEF IInv
  <2> QED
    BY <1>1, <2>1 DEF TypeOK, RestTyped
<1>3. Placement'
  BY <1>1, PlacementStays DEF Owns
<1>4. RouterMatchesConfig'
  <2>1. ASSUME NEW i \in Instance, ApprovingBy(o, i)
        PROVE  ApprovingBy(o, i)' \/ i \in unsaved'
    BY <1>1, <2>1 DEF ApprovingBy, Busy
  <2> QED
    BY <1>1, <2>1, RoutersStay
<1>5. (changed => Default \in Tenant)'
  BY DEF IInv
<1> QED
  BY <1>1, <1>2, <1>3, <1>4, <1>5 DEF IInv

LEMMA TypesOf ==
  ASSUME IInv
  PROVE  RestTyped /\ at \in [Op -> Steps] /\ job \in [Op -> Job \cup {NoJob}]
BY DEF IInv, TypeOK, RestTyped

(* A request that approves nothing and has nothing for itself may return.  *)
LEMMA ReturnKeeps ==
  ASSUME IInv, NEW o \in Op, Return(o), ~Owns(o),
         ~(Busy(o) /\ job[o].kind = "approve" /\ at[o] # "mark"),
         UNCHANGED <<tenants, conn, readonly, config, router, approved, sharing, base, changed>>,
         RestTyped', unsaved \subseteq unsaved'
  PROVE  IInv'
<1>1. /\ at' = [at EXCEPT ![o] = "idle"] /\ job' = [job EXCEPT ![o] = NoJob]
  BY DEF Return, Move
<1>2. "idle" \in Steps /\ "idle" \notin Holding /\ "idle" \notin Carrying
  BY DEF Steps, Holding, Carrying
<1> QED
  BY <1>1, <1>2, StepKeeps

LEMMA EarlyEnds ==
  ASSUME IInv, NEW o \in Op, ConnectFails(o) \/ GenerateFails(o) \/ Erase(o)
  PROVE  IInv'
<1>1. RestTyped
  BY TypesOf
<1>2. at[o] \in {"connect", "generate", "erase"} /\ Return(o)
  BY DEF ConnectFails, GenerateFails, Erase
<1>3. /\ ~Owns(o) /\ job[o].tenant \in Tenant
      /\ ~(Busy(o) /\ job[o].kind = "approve" /\ at[o] # "mark")
  <2>1. job[o].tenant \in Tenant /\ job[o].kind \in Kinds /\ at[o] \in StepsOf[job[o].kind]
    BY <1>2, Carried DEF Busy
  <2> QED
    BY <1>2, <2>1 DEF Owns, StepsOf, Kinds
<1>4. RestTyped' /\ unsaved \subseteq unsaved'
  BY <1>1, <1>3 DEF RestTyped, ConnectFails, GenerateFails, Erase, instanceVars, fileVars, ghostVars, Unreadable
<1>5. UNCHANGED <<tenants, conn, readonly, config, router, approved, sharing, base, changed>>
  BY DEF ConnectFails, GenerateFails, Erase, instanceVars, fileVars, ghostVars
<1> QED
  BY <1>2, <1>3, <1>4, <1>5, ReturnKeeps

LEMMA GenerateKeeps ==
  ASSUME IInv, NEW o \in Op, NEW x \in Content, Generate(o, x)
  PROVE  IInv'
<1> DEFINE c == [content |-> x, approved |-> config[job[o].inst].approved]
           j == [job[o] EXCEPT !.cfg = c]
<1>1. /\ at[o] = "generate" /\ Busy(o)
      /\ job[o] \in Job /\ job[o].inst \in Instance /\ config[job[o].inst] \in Config
      /\ job[o].kind \in Kinds /\ "generate" \in StepsOf[job[o].kind]
  BY Carried DEF Generate, Busy, Holding
<1>2. job[o].kind = "rewrite"
  BY <1>1 DEF StepsOf, Kinds
<1>3. c \in Config
  BY <1>1 DEF Config
<1> HIDE DEF c
<1>4. j \in Job /\ j.kind = "rewrite" /\ j.inst = job[o].inst /\ j.cfg = c
  BY <1>1, <1>2, <1>3, JobUpdates
<1>5. /\ at' = [at EXCEPT ![o] = "truncate"] /\ job' = [job EXCEPT ![o] = j]
      /\ UNCHANGED <<tenants, instanceVars, fileVars, ghostVars>>
  <2>1. job' = [job EXCEPT ![o].cfg = c]
    BY DEF Generate, c
  <2> QED
    BY <2>1 DEF Generate, Move
<1> HIDE DEF j
<1>6. /\ "truncate" \in Steps /\ "truncate" \in StepsOf["rewrite"]
      /\ "truncate" \notin {"insert", "close", "idle"}
  BY DEF Steps, StepsOf
<1>7. RestTyped' /\ unsaved \subseteq unsaved'
  BY <1>5, TypesOf DEF RestTyped, instanceVars, fileVars, ghostVars
<1>8. UNCHANGED <<tenants, conn, readonly, config, router, approved, sharing, base, changed>>
  BY <1>5 DEF instanceVars, fileVars
<1>9. ~Owns(o)
  BY <1>1 DEF Owns
<1> QED
  BY <1>1, <1>2, <1>3, <1>4, <1>5, <1>6, <1>7, <1>8, <1>9, StepKeeps

(* The job goes on as it is: to the write of a file, or to its rebuild.    *)
LEMMA TruncateKeeps ==
  ASSUME IInv, NEW o \in Op, Truncate(o)
  PROVE  IInv'
<1>1. /\ at[o] = "truncate" /\ Busy(o)
      /\ job[o] \in Job /\ job[o].inst \in Instance /\ config[job[o].inst] \in Config
      /\ job[o].cfg \in Config /\ job[o].tenant \in Tenant
      /\ job[o].kind \in Kinds /\ "truncate" \in StepsOf[job[o].kind]
  BY Carried DEF Truncate, Busy, Holding, Carrying
<1>2. /\ at' = [at EXCEPT ![o] = "write"] /\ job' = [job EXCEPT ![o] = job[o]]
  <2>1. job' = job /\ at' = [at EXCEPT ![o] = "write"]
    BY DEF Truncate, Move
  <2> QED
    BY <2>1, TypesOf
<1>3. /\ "write" \in Steps /\ "write" \in StepsOf[job[o].kind]
      /\ "write" \notin {"insert", "close", "idle", "mark"}
  BY <1>1 DEF Steps, StepsOf, Kinds
<1>4. RestTyped' /\ unsaved \subseteq unsaved'
  BY <1>1, TypesOf DEF RestTyped, Truncate, instanceVars, ghostVars, Unreadable
<1>5. UNCHANGED <<tenants, conn, readonly, config, router, approved, sharing, base, changed>>
  BY DEF Truncate, instanceVars
<1>6. ~Owns(o)
  BY <1>1 DEF Owns
<1> QED
  BY <1>1, <1>2, <1>3, <1>4, <1>5, <1>6, StepKeeps

LEMMA LoadKeeps ==
  ASSUME IInv, NEW o \in Op, Load(o)
  PROVE  IInv'
<1>1. /\ at[o] = "load" /\ Busy(o)
      /\ job[o] \in Job /\ job[o].tenant \in Tenant
      /\ job[o].kind \in Kinds /\ "load" \in StepsOf[job[o].kind]
  BY Carried DEF Load, Busy
<1>2. /\ job[o].kind # "approve" /\ ~Owns(o)
      /\ "lookup" \in StepsOf[job[o].kind]
  BY <1>1 DEF StepsOf, Kinds, Owns
<1>3. /\ RestTyped' /\ unsaved \subseteq unsaved'
      /\ UNCHANGED <<tenants, conn, readonly, config, router, approved, sharing, base, changed>>
  BY TypesOf DEF RestTyped, Load, instanceVars, fileVars, ghostVars
<1>4. CASE Readable(Loaded(o))
  <2> DEFINE j == [job[o] EXCEPT !.cfg = Loaded(o)]
  <2>1. Loaded(o) \in Config
    <3>1. base \in Config \cup {NoConfig} /\ disk \in [Tenant -> Config \cup Unreadable]
      BY DEF IInv, TypeOK
    <3> QED
      BY <1>1, <1>4, <3>1 DEF Loaded, Readable, Unreadable
  <2>2. j \in Job /\ j.kind = job[o].kind /\ j.cfg \in Config
    BY <1>1, <2>1, JobUpdates
  <2>3. at' = [at EXCEPT ![o] = "lookup"] /\ job' = [job EXCEPT ![o] = j]
    BY <1>4 DEF Load, Move
  <2> HIDE DEF j
  <2>4. "lookup" \in Steps /\ "lookup" \notin Holding /\ "lookup" \notin {"insert", "close", "idle"}
    BY DEF Steps, Holding
  <2> QED
    BY <1>2, <1>3, <2>2, <2>3, <2>4, StepKeeps
<1>5. CASE ~Readable(Loaded(o))
  BY <1>2, <1>3, <1>5, ReturnKeeps DEF Load
<1> QED
  BY <1>4, <1>5

LEMMA LookupKeeps ==
  ASSUME IInv, NEW o \in Op, Lookup(o)
  PROVE  IInv'
<1>1. /\ at[o] = "lookup" /\ Busy(o)
      /\ job[o] \in Job /\ job[o].tenant \in Tenant /\ job[o].cfg \in Config
      /\ job[o].kind \in Kinds /\ "lookup" \in StepsOf[job[o].kind]
  BY Carried DEF Lookup, Busy, Carrying
<1>2. /\ job[o].kind # "approve" /\ ~Owns(o)
      /\ "install" \in StepsOf[job[o].kind]
  BY <1>1 DEF StepsOf, Kinds, Owns
<1>3. /\ RestTyped' /\ unsaved \subseteq unsaved'
      /\ UNCHANGED <<tenants, conn, readonly, config, router, approved, sharing, base, changed>>
  BY TypesOf DEF RestTyped, Lookup, instanceVars, fileVars, ghostVars
<1>4. CASE Registered(job[o].tenant)
  <2>1. PICK i \in Instance : i = tenants[job[o].tenant] /\ config[i] \in Config
    BY <1>1, <1>4 DEF IInv, TypeOK, Placement, OneEach, Registered
  <2> DEFINE j == [job[o] EXCEPT !.inst = i]
  <2>2. j \in Job /\ j.kind = job[o].kind /\ j.cfg = job[o].cfg /\ j.inst = i
    <3>1. i \in Instance \cup {NoInstance} /\ job[o] \in Job
      BY <1>1, <2>1
    <3> QED
      BY <3>1, JobUpdates, Zenon
  <2>3. at' = [at EXCEPT ![o] = "install"] /\ job' = [job EXCEPT ![o] = j]
    BY <1>4, <2>1 DEF Lookup, Move
  <2> HIDE DEF j
  <2>4. "install" \in Steps /\ "install" \notin {"insert", "close", "idle"}
    BY DEF Steps
  <2> QED
    BY <1>1, <1>2, <1>3, <2>1, <2>2, <2>3, <2>4, StepKeeps
<1>5. CASE ~Registered(job[o].tenant)
  BY <1>2, <1>3, <1>5, ReturnKeeps DEF Lookup
<1> QED
  BY <1>4, <1>5
LEMMA AfterSaveKeeps ==
  ASSUME IInv, NEW o \in Op, NEW saved \in BOOLEAN, AfterSave(o, saved),
         at[o] \in {"truncate", "write"}, saved => at[o] = "write",
         path' \in [Instance -> {"saved", "base"}],
         ~saved /\ job[o].kind = "approve" => job[o].inst \in unsaved',
         UNCHANGED <<tenants, conn, readonly, config, router, approved, sharing, base, changed>>,
         RestTyped', unsaved \subseteq unsaved'
  PROVE  IInv'
<1>1. /\ Busy(o) /\ ~Owns(o)
      /\ job[o] \in Job /\ job[o].inst \in Instance /\ config[job[o].inst] \in Config
      /\ job[o].kind \in Kinds /\ at[o] \in StepsOf[job[o].kind]
  BY Carried DEF Busy, Holding, Owns
<1>2. CASE job[o].kind = "approve" /\ saved
  <2>1. at' = [at EXCEPT ![o] = "rebuild"] /\ job' = [job EXCEPT ![o] = job[o]]
    <3>1. at' = [at EXCEPT ![o] = "rebuild"] /\ job' = job
      BY <1>2 DEF AfterSave, Move
    <3> QED
      BY <3>1, TypesOf
  <2>2. /\ "rebuild" \in Steps /\ "rebuild" \in StepsOf["approve"]
        /\ "rebuild" \notin {"insert", "close", "idle", "mark"}
        /\ "rebuild" \notin Carrying
    BY DEF Steps, StepsOf, Carrying
  <2> QED
    BY <1>1, <1>2, <2>1, <2>2, StepKeeps
<1>3. CASE job[o].kind \in {"update", "rewrite"} /\ (job[o].kind = "rewrite" => saved)
  <2>1. PICK f \in {"saved", "base"} : f = path'[job[o].inst]
    BY <1>1
  <2> DEFINE j == [job[o] EXCEPT !.from = f, !.inst = NoInstance, !.cfg = NoConfig]
  <2>2. j \in Job /\ j.kind = job[o].kind
    BY <1>1, JobUpdates, Zenon
  <2>3. at' = [at EXCEPT ![o] = "load"] /\ job' = [job EXCEPT ![o] = j]
    <3>1. /\ Move(o, "load")
          /\ job' = [job EXCEPT ![o].from = path'[job[o].inst], ![o].inst = NoInstance, ![o].cfg = NoConfig]
      BY <1>3 DEF AfterSave
    <3> QED
      BY <2>1, <3>1, TypesOf DEF Move
  <2> HIDE DEF j
  <2>4. /\ "load" \in Steps /\ "load" \in StepsOf[job[o].kind]
        /\ "load" \notin {"insert", "close", "idle"} /\ "load" \notin Carrying
        /\ "load" \notin Holding
    BY <1>3 DEF Steps, StepsOf, Carrying, Holding
  <2> QED
    BY <1>1, <1>3, <2>2, <2>3, <2>4, StepKeeps
<1>4. CASE /\ ~(job[o].kind = "approve" /\ saved)
           /\ job[o].kind # "update" /\ ~(job[o].kind = "rewrite" /\ saved)
  <2>1. /\ at' = [at EXCEPT ![o] = "idle"] /\ job' = [job EXCEPT ![o] = NoJob]
    BY <1>4 DEF AfterSave, Return, Move
  <2>2. "idle" \in Steps /\ "idle" \notin Holding /\ "idle" \notin Carrying
    BY DEF Steps, Holding, Carrying
  <2> QED
    BY <1>1, <1>4, <2>1, <2>2, StepKeeps
<1> QED
  BY <1>2, <1>3, <1>4

LEMMA SaveKeeps ==
  ASSUME IInv, NEW o \in Op, Write(o) \/ SaveFails(o)
  PROVE  IInv'
<1>1. /\ at[o] \in {"truncate", "write"} /\ Busy(o)
      /\ job[o].inst \in Instance /\ job[o].cfg \in Config /\ job[o].tenant \in Tenant
  BY Carried DEF Write, SaveFails, Busy, Holding, Carrying
<1>2. UNCHANGED <<tenants, conn, readonly, config, router, approved, sharing, base, changed>>
  BY DEF Write, SaveFails
<1>3. CASE Write(o)
  <2>1. PICK f \in Written(o) : disk' = [disk EXCEPT ![job[o].tenant] = f]
    BY <1>3 DEF Write
  <2>2. f \in Config \cup Unreadable
    BY <1>1, <2>1, TypesOf DEF Written, RestTyped, Unreadable
  <2>3. RestTyped' /\ unsaved \subseteq unsaved'
    BY <1>1, <1>3, <2>1, <2>2, TypesOf DEF RestTyped, Write, ghostVars
  <2>4. AfterSave(o, TRUE) /\ at[o] = "write"
    BY <1>3 DEF Write
  <2>5. path' \in [Instance -> {"saved", "base"}]
    BY <2>3 DEF RestTyped
  <2> QED
    BY <1>1, <1>2, <2>3, <2>4, <2>5, AfterSaveKeeps
<1>4. CASE SaveFails(o)
  <2>1. RestTyped' /\ unsaved \subseteq unsaved'
    BY <1>1, <1>4, TypesOf DEF RestTyped, SaveFails
  <2>2. AfterSave(o, FALSE) /\ (job[o].kind = "approve" => job[o].inst \in unsaved')
    BY <1>4 DEF SaveFails
  <2>3. path' \in [Instance -> {"saved", "base"}]
    BY <2>1 DEF RestTyped
  <2> QED
    BY <1>1, <1>2, <2>1, <2>2, <2>3, AfterSaveKeeps
<1> QED
  BY <1>3, <1>4

-----------------------------------------------------------------------------
(* The steps that change an instance where it is.                          *)

LEMMA InstallKeeps ==
  ASSUME IInv, NEW o \in Op, Install(o)
  PROVE  IInv'
<1>1. /\ at[o] = "install" /\ Busy(o) /\ ~Owns(o)
      /\ job[o].inst \in Instance /\ job[o].cfg \in Config
      /\ job[o].kind \in Kinds /\ "install" \in StepsOf[job[o].kind] /\ job[o].from \in {"saved", "base"}
  BY Carried DEF Install, Busy, Holding, Carrying, Owns
<1>2. PICK i \in Instance, c \in Config : i = job[o].inst /\ c = job[o].cfg
  BY <1>1
<1>3. /\ at' = [at EXCEPT ![o] = "idle"] /\ job' = [job EXCEPT ![o] = NoJob]
      /\ config' = [config EXCEPT ![i] = c] /\ router' = [router EXCEPT ![i] = c]
      /\ path' = [path EXCEPT ![i] = job[o].from]
      /\ approved' = [approved EXCEPT ![i] = c.approved]
      /\ sharing' = [sharing EXCEPT ![i] = {}]
      /\ unsaved' = unsaved \ {i}
      /\ UNCHANGED <<tenants, conn, readonly, fileVars, disturbed>>
  BY <1>2 DEF Install, Return, Move
<1>4. TypeOK /\ c.approved \in SUBSET Tool
  BY DEF IInv, Config
<1>5. /\ config' \in [Instance -> Config \cup {NoConfig}]
      /\ router' \in [Instance -> Config \cup {NoConfig}]
      /\ approved' \in [Instance -> SUBSET Tool]
      /\ sharing' \in [Instance -> SUBSET Op]
      /\ config'[i] = c /\ router'[i] = c
      /\ \A k \in Instance : k # i => config'[k] = config[k] /\ router'[k] = router[k]
  BY <1>3, <1>4 DEF TypeOK
<1>6. RestTyped'
  BY <1>1, <1>3, <1>4 DEF RestTyped, TypeOK, fileVars
<1>7. "idle" \in Steps /\ "idle" \notin Holding /\ "idle" \notin Carrying
  BY DEF Steps, Holding, Carrying
<1>8. \A k \in Instance : config[k] \in Config => config'[k] \in Config
  BY <1>5
<1>9. UNCHANGED <<tenants, conn, readonly, base, changed>>
  BY <1>3 DEF fileVars
<1>10. /\ at' = [at EXCEPT ![o] = "idle"] /\ job' = [job EXCEPT ![o] = NoJob]
       /\ NoJob \in Job \cup {NoJob}
  BY <1>3
<1>11. /\ Others(o) /\ at'[o] = "idle"
       /\ at' \in [Op -> Steps] /\ job' \in [Op -> Job \cup {NoJob}]
       /\ \A p \in Op : JobOK(p)'
  BY <1>7, <1>8, <1>10, Moved
<1>12. TypeOK'
  BY <1>4, <1>5, <1>6, <1>9, <1>11 DEF TypeOK, RestTyped
<1>13. Placement'
  BY <1>1, <1>8, <1>9, <1>11, PlacementStays DEF Owns
<1>14. RouterMatchesConfig'
  <2>1. ASSUME NEW k \in Instance, k # i
        PROVE  /\ config'[k] = config[k] /\ router'[k] = router[k]
               /\ k \in unsaved => k \in unsaved'
               /\ ~ApprovingBy(o, k)
    BY <1>2, <1>3, <1>5, <2>1 DEF ApprovingBy
  <2>2. router'[i] = config'[i]
    BY <1>5
  <2> QED
    BY <1>11, <2>1, <2>2, RoutersStay
<1>15. (changed => Default \in Tenant)'
  BY <1>9 DEF IInv
<1> QED
  BY <1>11, <1>12, <1>13, <1>14, <1>15 DEF IInv

LEMMA MarkKeeps ==
  ASSUME IInv, NEW o \in Op, Mark(o)
  PROVE  IInv'
<1>1. /\ at[o] = "mark" /\ Busy(o) /\ ~Owns(o)
      /\ job[o] \in Job /\ job[o].tool \in SUBSET Tool
      /\ job[o].inst \in Instance /\ config[job[o].inst] \in Config
      /\ job[o].kind \in Kinds /\ "mark" \in StepsOf[job[o].kind]
  BY Carried DEF Mark, Busy, Holding, Owns
<1>2. job[o].kind = "approve"
  BY <1>1 DEF StepsOf, Kinds
<1>3. PICK i \in Instance : i = job[o].inst
  BY <1>1
<1>4. TypeOK
  BY DEF IInv
<1>5. PICK tools \in SUBSET Tool :
         /\ approved' = [approved EXCEPT ![i] = tools]
         /\ config' = [config EXCEPT ![i].approved = tools]
         /\ job' = [job EXCEPT ![o].cfg = config'[i]]
         /\ sharing' = [sharing EXCEPT ![i] = @ \ {o}]
         /\ at' = [at EXCEPT ![o] = "truncate"]
         /\ UNCHANGED <<tenants, conn, readonly, router, path, fileVars, ghostVars>>
  <2> DEFINE tools == IF o \in sharing[i] THEN approved[i] \cup job[o].tool ELSE approved[i]
  <2>1. tools \in SUBSET Tool
    BY <1>1, <1>3, <1>4 DEF TypeOK
  <2>2. /\ approved' = [approved EXCEPT ![i] = tools]
        /\ config' = [config EXCEPT ![i].approved = tools]
        /\ job' = [job EXCEPT ![o].cfg = config'[i]]
        /\ sharing' = [sharing EXCEPT ![i] = @ \ {o}]
        /\ at' = [at EXCEPT ![o] = "truncate"]
        /\ UNCHANGED <<tenants, conn, readonly, router, path, fileVars, ghostVars>>
    BY <1>3 DEF Mark, Move
  <2> QED
    BY <2>1, <2>2
<1>6. PICK c \in Config : c = [config[i] EXCEPT !.approved = tools]
  BY <1>1, <1>3, <1>5 DEF Config
<1>7. config \in [Instance -> Config \cup {NoConfig}] /\ config' = [config EXCEPT ![i] = c]
  BY <1>4, <1>5, <1>6 DEF TypeOK
<1>8. /\ config' \in [Instance -> Config \cup {NoConfig}] /\ config'[i] = c
      /\ \A k \in Instance : k # i => config'[k] = config[k]
      /\ \A k \in Instance : config[k] \in Config => config'[k] \in Config
  BY <1>7
<1> DEFINE j == [job[o] EXCEPT !.cfg = c]
<1>9. job' = [job EXCEPT ![o] = j]
  BY <1>5, <1>8, TypesOf
<1>10. j \in Job /\ j.kind = "approve" /\ j.cfg = c /\ j.inst = i
  <2>1. c \in Config \cup {NoConfig} /\ job[o] \in Job
    BY <1>1
  <2>2. j \in Job /\ j.kind = job[o].kind /\ j.cfg = c /\ j.inst = job[o].inst
    BY <2>1, JobUpdates, Zenon
  <2> QED
    BY <1>2, <1>3, <2>2
<1> HIDE DEF j
<1>11. /\ "truncate" \in Steps /\ "truncate" \in StepsOf["approve"]
       /\ "truncate" \notin {"insert", "close", "idle", "mark"}
  BY DEF Steps, StepsOf
<1>12. /\ router' \in [Instance -> Config \cup {NoConfig}] /\ router' = router
       /\ approved' \in [Instance -> SUBSET Tool]
       /\ sharing' \in [Instance -> SUBSET Op]
       /\ unsaved' = unsaved
  BY <1>4, <1>5 DEF TypeOK, ghostVars
<1>13. RestTyped'
  BY <1>4, <1>5 DEF RestTyped, TypeOK, fileVars, ghostVars
<1>14. UNCHANGED <<tenants, conn, readonly, base, changed>>
  BY <1>5 DEF fileVars
<1>15. /\ Others(o) /\ at'[o] = "truncate" /\ job'[o] = j
       /\ at' \in [Op -> Steps] /\ job' \in [Op -> Job \cup {NoJob}]
       /\ \A p \in Op : JobOK(p)'
  <2>1. /\ at' = [at EXCEPT ![o] = "truncate"] /\ j \in Job \cup {NoJob}
        /\ j.inst \in Instance /\ config'[j.inst] \in Config
    BY <1>5, <1>8, <1>10
  <2> QED
    BY <1>8, <1>9, <1>10, <1>11, <2>1, Moved
<1>16. TypeOK'
  BY <1>4, <1>8, <1>12, <1>13, <1>14, <1>15 DEF TypeOK, RestTyped
<1>17. Placement'
  BY <1>1, <1>8, <1>14, <1>15, PlacementStays DEF Owns
<1>18. RouterMatchesConfig'
  <2>1. ASSUME NEW k \in Instance, k # i
        PROVE  /\ config'[k] = config[k] /\ router'[k] = router[k]
               /\ k \in unsaved => k \in unsaved'
               /\ ~ApprovingBy(o, k)
    BY <1>3, <1>8, <1>12, <2>1 DEF ApprovingBy
  <2>2. ApprovingBy(o, i)'
    BY <1>10, <1>15 DEF ApprovingBy, Busy
  <2> QED
    BY <1>15, <2>1, <2>2, RoutersStay
<1>19. (changed => Default \in Tenant)'
  BY <1>14 DEF IInv
<1> QED
  BY <1>15, <1>16, <1>17, <1>18, <1>19 DEF IInv

LEMMA RebuildKeeps ==
  ASSUME IInv, NEW o \in Op, Rebuild(o)
  PROVE  IInv'
<1>1. /\ at[o] = "rebuild" /\ Busy(o) /\ ~Owns(o)
      /\ job[o].inst \in Instance /\ config[job[o].inst] \in Config
  BY Carried DEF Rebuild, Busy, Holding, Owns
<1>2. PICK i \in Instance, c \in Config : i = job[o].inst /\ c = config[i]
  BY <1>1
<1>3. /\ at' = [at EXCEPT ![o] = "idle"] /\ job' = [job EXCEPT ![o] = NoJob]
      /\ router' = [router EXCEPT ![i] = c]
      /\ approved' = [approved EXCEPT ![i] = c.approved]
      /\ sharing' = [sharing EXCEPT ![i] = {}]
      /\ unsaved' = unsaved \ {i}
      /\ UNCHANGED <<tenants, conn, readonly, config, path, fileVars, disturbed>>
  BY <1>2 DEF Rebuild, Return, Move
<1>4. TypeOK /\ c.approved \in SUBSET Tool
  BY DEF IInv, Config
<1>5. /\ config' \in [Instance -> Config \cup {NoConfig}]
      /\ router' \in [Instance -> Config \cup {NoConfig}]
      /\ approved' \in [Instance -> SUBSET Tool]
      /\ sharing' \in [Instance -> SUBSET Op]
      /\ config'[i] = c /\ router'[i] = c
      /\ \A k \in Instance : k # i => config'[k] = config[k] /\ router'[k] = router[k]
  BY <1>2, <1>3, <1>4 DEF TypeOK
<1>6. RestTyped'
  BY <1>3, <1>4 DEF RestTyped, TypeOK, fileVars
<1>7. "idle" \in Steps /\ "idle" \notin Holding /\ "idle" \notin Carrying
  BY DEF Steps, Holding, Carrying
<1>8. \A k \in Instance : config[k] \in Config => config'[k] \in Config
  BY <1>3
<1>9. UNCHANGED <<tenants, conn, readonly, base, changed>>
  BY <1>3 DEF fileVars
<1>10. /\ at' = [at EXCEPT ![o] = "idle"] /\ job' = [job EXCEPT ![o] = NoJob]
       /\ NoJob \in Job \cup {NoJob}
  BY <1>3
<1>11. /\ Others(o) /\ at'[o] = "idle"
       /\ at' \in [Op -> Steps] /\ job' \in [Op -> Job \cup {NoJob}]
       /\ \A p \in Op : JobOK(p)'
  BY <1>7, <1>8, <1>10, Moved
<1>12. TypeOK'
  BY <1>4, <1>5, <1>6, <1>9, <1>11 DEF TypeOK, RestTyped
<1>13. Placement'
  BY <1>1, <1>8, <1>9, <1>11, PlacementStays DEF Owns
<1>14. RouterMatchesConfig'
  <2>1. ASSUME NEW k \in Instance, k # i
        PROVE  /\ config'[k] = config[k] /\ router'[k] = router[k]
               /\ k \in unsaved => k \in unsaved'
               /\ ~ApprovingBy(o, k)
    BY <1>2, <1>3, <1>5, <2>1 DEF ApprovingBy
  <2>2. router'[i] = config'[i]
    BY <1>5
  <2> QED
    BY <1>11, <2>1, <2>2, RoutersStay
<1>15. (changed => Default \in Tenant)'
  BY <1>9 DEF IInv
<1> QED
  BY <1>11, <1>12, <1>13, <1>14, <1>15 DEF IInv
-----------------------------------------------------------------------------
(* The steps that bring an instance into the map and out of it.            *)

LEMMA ConnectKeeps ==
  ASSUME IInv, NEW o \in Op, NEW i \in Instance, Connect(o, i)
  PROVE  IInv'
<1>1. /\ at[o] = "connect" /\ Busy(o) /\ ~Owns(o)
      /\ job[o] \in Job /\ job[o].cfg \in Config
      /\ job[o].kind \in Kinds /\ "connect" \in StepsOf[job[o].kind]
  BY Carried DEF Connect, Busy, Carrying, Owns
<1>2. job[o].kind = "add"
  BY <1>1 DEF StepsOf, Kinds
<1>3. PICK c \in Config : c = job[o].cfg
  BY <1>1
<1>4. PICK r \in {"open", "none"} : r = ReadonlyFor(c)
  BY DEF ReadonlyFor
<1> DEFINE j == [job[o] EXCEPT !.inst = i]
<1>5. j \in Job /\ j.kind = "add" /\ j.cfg = c /\ j.inst = i
  <2>1. i \in Instance \cup {NoInstance}
    OBVIOUS
  <2>2. j \in Job /\ j.kind = job[o].kind /\ j.cfg = job[o].cfg /\ j.inst = i
    BY <1>1, <2>1, JobUpdates, Zenon
  <2> QED
    BY <1>2, <1>3, <2>2
<1>6. /\ at' = [at EXCEPT ![o] = "insert"] /\ job' = [job EXCEPT ![o] = j]
      /\ conn' = [conn EXCEPT ![i] = "open"]
      /\ readonly' = [readonly EXCEPT ![i] = r]
      /\ config' = [config EXCEPT ![i] = c] /\ router' = [router EXCEPT ![i] = c]
      /\ approved' = [approved EXCEPT ![i] = c.approved]
      /\ path' = [path EXCEPT ![i] = "saved"]
      /\ sharing' = [sharing EXCEPT ![i] = {}]
      /\ unsaved' = unsaved \ {i}
      /\ UNCHANGED <<tenants, fileVars, disturbed>>
  BY <1>3, <1>4 DEF Connect, Move
<1> HIDE DEF j
<1>7. Free(i)
  BY DEF Connect
<1>8. TypeOK /\ c.approved \in SUBSET Tool
  BY DEF IInv, Config
<1>9. /\ config' \in [Instance -> Config \cup {NoConfig}]
      /\ router' \in [Instance -> Config \cup {NoConfig}]
      /\ config'[i] = c /\ router'[i] = c /\ conn'[i] = "open" /\ readonly'[i] = r
      /\ \A k \in Instance : k # i =>
           /\ config'[k] = config[k] /\ router'[k] = router[k]
           /\ conn'[k] = conn[k] /\ readonly'[k] = readonly[k]
      /\ tenants' = tenants
  BY <1>6, <1>8 DEF TypeOK
<1>10. \A k \in Instance : config[k] \in Config => config'[k] \in Config
  BY <1>9
<1>11. /\ Others(o) /\ at'[o] = "insert" /\ job'[o] = j
       /\ at' \in [Op -> Steps] /\ job' \in [Op -> Job \cup {NoJob}]
       /\ \A p \in Op : JobOK(p)'
  <2>1. /\ "insert" \in Steps /\ "insert" \in StepsOf["add"]
        /\ config'[i] \in Config /\ j \in Job \cup {NoJob}
    BY <1>5, <1>9 DEF Steps, StepsOf
  <2> QED
    BY <1>5, <1>6, <1>10, <2>1, Moved
<1>12. TypeOK'
  BY <1>6, <1>8, <1>9, <1>11 DEF TypeOK, fileVars
<1>13. Placement'
  <2>1. /\ OwnedAlone /\ OneEach /\ RegisteredOpen /\ ConnHeld
        /\ \A t \in Tenant : tenants[t] \in Instance \cup {NoInstance}
    BY <1>8 DEF IInv, Placement, TypeOK
  <2>2. \A p \in Op : Owns(p) => p # o /\ job[p].inst # i /\ job[p].inst \in Instance
    <3>1. ASSUME NEW p \in Op, Owns(p)
          PROVE  p # o /\ Busy(p) /\ at[p] \in Holding
      BY <1>1, <3>1 DEF Owns, Busy, Holding
    <3> QED
      BY <1>7, <3>1, Carried DEF Free
  <2>3. \A p \in Op : p # o => at'[p] = at[p] /\ job'[p] = job[p]
    BY <1>11 DEF Others
  <2>4. \A t \in Tenant : tenants[t] # i
    BY <1>7 DEF Free
  <2>5. OwnedAlone'
    <3>1. \A p \in Op : Owns(p)' => p = o \/ (p # o /\ Owns(p) /\ at'[p] = at[p] /\ job'[p] = job[p])
      BY <2>3 DEF Owns
    <3>2. ASSUME NEW p \in Op, Owns(p)'
          PROVE  /\ conn'[job'[p].inst] = "open"
                 /\ at'[p] = "insert" => readonly'[job'[p].inst] # "closed"
                 /\ \A t \in Tenant : tenants'[t] # job'[p].inst
      <4>1. CASE p = o
        BY <1>5, <1>9, <1>11, <2>4, <4>1
      <4>2. CASE p # o
        <5>1. /\ Owns(p) /\ at'[p] = at[p] /\ job'[p] = job[p]
              /\ job[p].inst # i /\ job[p].inst \in Instance
          BY <2>2, <3>1, <3>2, <4>2
        <5> QED
          BY <1>9, <2>1, <5>1 DEF OwnedAlone
      <4> QED
        BY <4>1, <4>2
    <3>3. ASSUME NEW p \in Op, NEW q \in Op, Owns(p)', Owns(q)', job'[p].inst = job'[q].inst
          PROVE  p = q
      BY <1>5, <1>11, <2>1, <2>2, <3>1, <3>3 DEF OwnedAlone
    <3> QED
      BY <3>2, <3>3 DEF OwnedAlone, Owns
  <2>6. OneEach'
    BY <1>9, <1>10, <2>1 DEF OneEach, Registered
  <2>7. RegisteredOpen'
    BY <1>9, <2>1, <2>4 DEF RegisteredOpen, Registered
  <2>8. ConnHeld'
    <3>1. ASSUME NEW k \in Instance, conn'[k] = "open"
          PROVE  \/ \E t \in Tenant : tenants'[t] = k
                 \/ \E p \in Op : at'[p] \in {"insert", "close"} /\ job'[p].inst = k
      <4>1. CASE k = i
        BY <1>5, <1>11, <4>1
      <4>2. CASE k # i
        <5>1. \/ \E t \in Tenant : tenants[t] = k
              \/ \E p \in Op : at[p] \in {"insert", "close"} /\ job[p].inst = k
          BY <1>9, <2>1, <3>1, <4>2 DEF ConnHeld
        <5>2. \A p \in Op : at[p] \in {"insert", "close"} => p # o
          BY <1>1
        <5> QED
          BY <1>9, <2>3, <5>1, <5>2
      <4> QED
        BY <4>1, <4>2
    <3> QED
      BY <3>1 DEF ConnHeld
  <2> QED
    BY <2>5, <2>6, <2>7, <2>8 DEF Placement
<1>14. RouterMatchesConfig'
  <2>1. ASSUME NEW k \in Instance, k # i
        PROVE  /\ config'[k] = config[k] /\ router'[k] = router[k]
               /\ k \in unsaved => k \in unsaved'
               /\ ~ApprovingBy(o, k)
    BY <1>2, <1>6, <1>9, <2>1 DEF ApprovingBy
  <2>2. router'[i] = config'[i]
    BY <1>9
  <2> QED
    BY <1>11, <2>1, <2>2, RoutersStay
<1>15. (changed => Default \in Tenant)'
  BY <1>6 DEF IInv, fileVars
<1> QED
  BY <1>11, <1>12, <1>13, <1>14, <1>15 DEF IInv

(* The request closes the instance it had for itself.                      *)
LEMMA LetGo ==
  ASSUME IInv, NEW o \in Op, Owns(o), NEW i \in Instance, i = job[o].inst,
         Others(o), ~Owns(o)',
         UNCHANGED <<config, tenants>>,
         \A k \in Instance : k # i => readonly'[k] = readonly[k],
         conn' = [conn EXCEPT ![i] = "closed"]
  PROVE  Placement'
<1>1. /\ OwnedAlone /\ OneEach /\ RegisteredOpen /\ ConnHeld
      /\ \A t \in Tenant : tenants[t] \in Instance \cup {NoInstance}
      /\ conn \in [Instance -> {"closed", "open"}]
  BY DEF IInv, Placement, TypeOK
<1>2. \A p \in Op : p # o => at'[p] = at[p] /\ job'[p] = job[p]
  BY DEF Others
<1>3. \A p \in Op : Owns(p)' => p # o /\ Owns(p) /\ at'[p] = at[p] /\ job'[p] = job[p] /\ job[p].inst # i
  <2>1. ASSUME NEW p \in Op, Owns(p)'
        PROVE  p # o /\ Owns(p) /\ at'[p] = at[p] /\ job'[p] = job[p]
    BY <1>2, <2>1 DEF Owns
  <2> QED
    BY <1>1, <2>1 DEF OwnedAlone
<1>4. \A p \in Op : Owns(p) => job[p].inst \in Instance
  <2>1. ASSUME NEW p \in Op, Owns(p)
        PROVE  Busy(p) /\ at[p] \in Holding
    BY <2>1 DEF Owns, Busy, Holding
  <2> QED
    BY <2>1, Carried
<1>5. OwnedAlone'
  <2>1. ASSUME NEW p \in Op, Owns(p)'
        PROVE  /\ conn'[job'[p].inst] = "open"
               /\ at'[p] = "insert" => readonly'[job'[p].inst] # "closed"
               /\ \A t \in Tenant : tenants'[t] # job'[p].inst
    BY <1>1, <1>3, <1>4, <2>1 DEF OwnedAlone
  <2>2. ASSUME NEW p \in Op, NEW q \in Op, Owns(p)', Owns(q)', job'[p].inst = job'[q].inst
        PROVE  p = q
    BY <1>1, <1>3, <2>2 DEF OwnedAlone
  <2> QED
    BY <2>1, <2>2 DEF OwnedAlone, Owns
<1>6. \A t \in Tenant : tenants[t] # i
  BY <1>1 DEF OwnedAlone
<1>7. OneEach' /\ RegisteredOpen'
  BY <1>1, <1>6 DEF OneEach, RegisteredOpen, Registered
<1>8. ConnHeld'
  <2>1. ASSUME NEW k \in Instance, conn'[k] = "open"
        PROVE  \/ \E t \in Tenant : tenants'[t] = k
               \/ \E p \in Op : at'[p] \in {"insert", "close"} /\ job'[p].inst = k
    <3>1. k # i /\ conn[k] = "open"
      BY <1>1, <2>1
    <3>2. CASE \E t \in Tenant : tenants[t] = k
      BY <3>2
    <3>3. CASE \E p \in Op : at[p] \in {"insert", "close"} /\ job[p].inst = k
      BY <1>2, <3>1, <3>3
    <3> QED
      BY <1>1, <3>1, <3>2, <3>3 DEF ConnHeld
  <2> QED
    BY <2>1 DEF ConnHeld
<1> QED
  BY <1>5, <1>7, <1>8 DEF Placement
LEMMA CloseKeeps ==
  ASSUME IInv, NEW o \in Op, Close(o)
  PROVE  IInv'
<1>1. /\ at[o] = "close" /\ Busy(o) /\ Owns(o)
      /\ job[o] \in Job /\ job[o].inst \in Instance /\ config[job[o].inst] \in Config
      /\ job[o].kind \in Kinds /\ "close" \in StepsOf[job[o].kind]
  BY Carried DEF Close, Busy, Holding, Owns
<1>2. job[o].kind = "remove"
  BY <1>1 DEF StepsOf, Kinds
<1>3. PICK i \in Instance : i = job[o].inst
  BY <1>1
<1>4. /\ conn' = [conn EXCEPT ![i] = "closed"]
      /\ readonly' = [readonly EXCEPT ![i] = IF @ = "open" THEN "closed" ELSE @]
      /\ at' = [at EXCEPT ![o] = "erase"] /\ job' = job
      /\ UNCHANGED <<tenants, config, router, approved, path, sharing, fileVars, ghostVars>>
  BY <1>3 DEF Close, Move
<1>5. TypeOK
  BY DEF IInv
<1>6. /\ Others(o) /\ at'[o] = "erase" /\ job'[o] = job[o]
      /\ at' \in [Op -> Steps] /\ job' \in [Op -> Job \cup {NoJob}]
      /\ \A p \in Op : JobOK(p)'
  <2>1. job' = [job EXCEPT ![o] = job[o]] /\ job[o] \in Job \cup {NoJob}
    BY <1>1, <1>4, TypesOf
  <2>2. /\ "erase" \in Steps /\ "erase" \in StepsOf[job[o].kind] /\ "erase" \notin Carrying
        /\ at' = [at EXCEPT ![o] = "erase"] /\ config' = config
    BY <1>2, <1>4 DEF Steps, StepsOf, Carrying
  <2> QED
    BY <1>1, <2>1, <2>2, Moved
<1>7. TypeOK'
  BY <1>4, <1>5, <1>6 DEF TypeOK, fileVars, ghostVars
<1>8. Placement'
  <2>1. ~Owns(o)'
    BY <1>6 DEF Owns
  <2>2. \A k \in Instance : k # i => readonly'[k] = readonly[k]
    BY <1>4, <1>5 DEF TypeOK
  <2> QED
    BY <1>1, <1>3, <1>4, <1>6, <2>1, <2>2, LetGo
<1>9. RouterMatchesConfig'
  BY <1>2, <1>4, <1>6, RoutersStay DEF ApprovingBy, ghostVars
<1>10. (changed => Default \in Tenant)'
  BY <1>4 DEF IInv, fileVars
<1> QED
  BY <1>6, <1>7, <1>8, <1>9, <1>10 DEF IInv

LEMMA InsertKeeps ==
  ASSUME IInv, NEW o \in Op, Insert(o)
  PROVE  IInv'
<1>1. /\ at[o] = "insert" /\ Busy(o) /\ Owns(o)
      /\ job[o] \in Job /\ job[o].inst \in Instance /\ config[job[o].inst] \in Config
      /\ job[o].cfg \in Config /\ job[o].tenant \in Tenant
      /\ job[o].kind \in Kinds /\ "insert" \in StepsOf[job[o].kind]
  BY Carried DEF Insert, Busy, Holding, Carrying, Owns
<1>2. job[o].kind = "add"
  BY <1>1 DEF StepsOf, Kinds
<1>3. PICK i \in Instance, t \in Tenant : i = job[o].inst /\ t = job[o].tenant
  BY <1>1
<1>4. /\ UNCHANGED <<readonly, config, router, approved, path, sharing, fileVars, ghostVars>>
      /\ config' = config /\ router' = router /\ unsaved' = unsaved
  BY DEF Insert, ghostVars
<1>5. TypeOK
  BY DEF IInv
<1>6. PICK s \in {"idle", "truncate"}, j \in {job[o], NoJob} :
         /\ at' = [at EXCEPT ![o] = s] /\ job' = [job EXCEPT ![o] = j]
         /\ s = "truncate" => j = job[o]
  <2>1. CASE Registered(t)
    BY <1>3, <2>1 DEF Insert, Return, Move
  <2>2. CASE ~Registered(t)
    BY <1>3, <2>2, TypesOf DEF Insert, Move
  <2> QED
    BY <2>1, <2>2
<1>7. /\ Others(o) /\ at'[o] = s /\ job'[o] = j
      /\ at' \in [Op -> Steps] /\ job' \in [Op -> Job \cup {NoJob}]
      /\ \A p \in Op : JobOK(p)'
  <2>1. /\ s \in Steps /\ j \in Job \cup {NoJob}
        /\ s # "idle" => j \in Job /\ s \in StepsOf[j.kind]
        /\ s \in Holding => j.inst \in Instance /\ config'[j.inst] \in Config
        /\ s \in Carrying => j.cfg \in Config
    BY <1>1, <1>2, <1>4, <1>6 DEF Steps, StepsOf, Holding, Carrying
  <2> QED
    BY <1>4, <1>6, <2>1, Moved
<1>8. ~Owns(o)'
  BY <1>7 DEF Owns
<1>9. /\ Placement' /\ tenants' \in [Tenant -> Instance \cup {NoInstance}]
      /\ conn' \in [Instance -> {"closed", "open"}]
  <2>1. CASE Registered(t)
    <3>1. conn' = [conn EXCEPT ![i] = "closed"] /\ tenants' = tenants
      BY <1>3, <2>1 DEF Insert
    <3>2. \A k \in Instance : k # i => readonly'[k] = readonly[k]
      BY <1>4
    <3>3. Placement'
      BY <1>1, <1>3, <1>4, <1>7, <1>8, <3>1, <3>2, LetGo
    <3> QED
      BY <1>5, <3>1, <3>3 DEF TypeOK
  <2>2. CASE ~Registered(t)
    <3>1. /\ tenants' = [tenants EXCEPT ![t] = i] /\ conn' = conn /\ readonly' = readonly
      BY <1>3, <1>4, <2>2 DEF Insert
    <3>2. /\ OwnedAlone /\ OneEach /\ RegisteredOpen /\ ConnHeld
          /\ tenants \in [Tenant -> Instance \cup {NoInstance}]
      BY <1>5 DEF IInv, Placement, TypeOK
    <3>3. /\ conn[i] = "open" /\ readonly[i] # "closed" /\ config[i] \in Config
          /\ \A u \in Tenant : tenants[u] # i
      BY <1>1, <1>3, <3>2 DEF OwnedAlone
    <3>4. \A p \in Op : p # o => at'[p] = at[p] /\ job'[p] = job[p]
      BY <1>7 DEF Others
    <3>5. \A p \in Op : Owns(p)' => p # o /\ Owns(p) /\ at'[p] = at[p] /\ job'[p] = job[p] /\ job[p].inst # i
      <4>1. ASSUME NEW p \in Op, Owns(p)'
            PROVE  p # o /\ Owns(p) /\ at'[p] = at[p] /\ job'[p] = job[p]
        BY <1>8, <3>4, <4>1 DEF Owns
      <4> QED
        BY <1>1, <1>3, <3>2, <4>1 DEF OwnedAlone
    <3>6. OwnedAlone'
      <4>1. ASSUME NEW p \in Op, Owns(p)'
            PROVE  /\ conn'[job'[p].inst] = "open"
                   /\ at'[p] = "insert" => readonly'[job'[p].inst] # "closed"
                   /\ \A u \in Tenant : tenants'[u] # job'[p].inst
        BY <3>1, <3>2, <3>5, <4>1 DEF OwnedAlone
      <4>2. ASSUME NEW p \in Op, NEW q \in Op, Owns(p)', Owns(q)', job'[p].inst = job'[q].inst
            PROVE  p = q
        BY <3>2, <3>5, <4>2 DEF OwnedAlone
      <4> QED
        BY <4>1, <4>2 DEF OwnedAlone, Owns
    <3>7. OneEach'
      BY <1>4, <3>1, <3>2, <3>3 DEF OneEach, Registered
    <3>8. RegisteredOpen'
      BY <3>1, <3>2, <3>3 DEF RegisteredOpen, Registered
    <3>9. ConnHeld'
      <4>1. ASSUME NEW k \in Instance, conn'[k] = "open"
            PROVE  \/ \E u \in Tenant : tenants'[u] = k
                   \/ \E p \in Op : at'[p] \in {"insert", "close"} /\ job'[p].inst = k
        <5>1. CASE k = i
          BY <3>1, <3>2, <5>1
        <5>2. CASE k # i /\ \E u \in Tenant : tenants[u] = k
          <6>1. PICK u \in Tenant : tenants[u] = k
            BY <5>2
          <6>2. u # t
            BY <2>2, <6>1, StoreAssumption DEF Registered
          <6> QED
            BY <3>1, <3>2, <6>1, <6>2
        <5>3. CASE k # i /\ \E p \in Op : at[p] \in {"insert", "close"} /\ job[p].inst = k
          BY <1>3, <3>4, <5>3
        <5> QED
          BY <3>1, <3>2, <4>1, <5>1, <5>2, <5>3 DEF ConnHeld
      <4> QED
        BY <4>1 DEF ConnHeld
    <3> QED
      BY <1>5, <3>1, <3>2, <3>6, <3>7, <3>8, <3>9 DEF Placement, TypeOK
  <2> QED
    BY <2>1, <2>2
<1>10. TypeOK'
  BY <1>4, <1>5, <1>7, <1>9 DEF TypeOK, fileVars, ghostVars
<1>11. RouterMatchesConfig'
  BY <1>2, <1>4, <1>7, RoutersStay DEF ApprovingBy
<1>12. (changed => Default \in Tenant)'
  BY <1>4 DEF IInv, fileVars
<1> QED
  BY <1>7, <1>9, <1>10, <1>11, <1>12 DEF IInv

-----------------------------------------------------------------------------
(* The steps of no request.                                                *)

LEMMA EditKeeps ==
  ASSUME IInv, NEW c \in BaseConfigs, EditBase(c)
  PROVE  IInv'
<1>1. /\ Default \in Tenant /\ base' = c /\ changed' = TRUE
      /\ disturbed' = disturbed \cup {Default}
      /\ UNCHANGED <<tenants, conn, readonly, config, router, approved, path, sharing,
                     disk, writers, at, job, unsaved>>
  BY DEF EditBase, instanceVars
<1>2. c \in Config
  BY StoreAssumption DEF Config
<1>3. TypeOK'
  BY <1>1, <1>2 DEF IInv, TypeOK
<1>4. \A o \in Op : JobOK(o)'
  BY <1>1 DEF IInv, JobOK, Busy
<1>5. Placement'
  BY <1>1 DEF IInv, Placement, OwnedAlone, Owns, OneEach, RegisteredOpen, ConnHeld, Registered
<1>6. RouterMatchesConfig'
  BY <1>1 DEF IInv, RouterMatchesConfig, Approving, Busy
<1> QED
  BY <1>1, <1>3, <1>4, <1>5, <1>6 DEF IInv

LEMMA StutterKeeps ==
  ASSUME IInv, UNCHANGED vars
  PROVE  IInv'
<1>1. UNCHANGED <<tenants, conn, readonly, config, router, approved, path, sharing,
                  disk, writers, base, changed, at, job, disturbed, unsaved>>
  BY DEF vars, instanceVars, fileVars, ghostVars
<1>2. TypeOK'
  BY <1>1 DEF IInv, TypeOK
<1>3. \A o \in Op : JobOK(o)'
  BY <1>1 DEF IInv, JobOK, Busy
<1>4. Placement'
  BY <1>1 DEF IInv, Placement, OwnedAlone, Owns, OneEach, RegisteredOpen, ConnHeld, Registered
<1>5. RouterMatchesConfig'
  BY <1>1 DEF IInv, RouterMatchesConfig, Approving, Busy
<1> QED
  BY <1>1, <1>2, <1>3, <1>4, <1>5 DEF IInv
(* A start puts every tenant it brings up on an instance of its own.       *)
LEMMA RestartKeeps ==
  ASSUME IInv, Restart
  PROVE  IInv'
<1>1. PICK place \in [Tenant -> Instance \cup {NoInstance}],
           up \in [Tenant -> Config \cup {NoConfig}] :
         /\ \A t \in Tenant : (up[t] = NoConfig) <=> (place[t] = NoInstance)
         /\ \A t, u \in Tenant :
               t # u /\ place[t] = place[u] => place[t] = NoInstance
         /\ Booted(place, up)
         /\ disturbed' = {t \in Tenant : {up[t]} # FirstChoice(t)}
  BY DEF Restart
<1> DEFINE placed(i) == \E t \in Tenant : place[t] = i
           of(i) == CHOOSE t \in Tenant : place[t] = i
<1>2. /\ writers' = [t \in Tenant |-> {}] /\ changed' = FALSE
      /\ at' = [o \in Op |-> "idle"] /\ job' = [o \in Op |-> NoJob]
      /\ unsaved' = {} /\ UNCHANGED <<disk, base>>
  BY DEF Restart
<1>3. \A i \in Instance : placed(i) => of(i) \in Tenant /\ place[of(i)] = i /\ up[of(i)] \in Config
  <2>1. ASSUME NEW i \in Instance, placed(i)
        PROVE  of(i) \in Tenant /\ place[of(i)] = i
    BY <2>1
  <2> HIDE DEF of, placed
  <2>2. ASSUME NEW i \in Instance, placed(i)
        PROVE  up[of(i)] \in Config
    BY <1>1, <2>1, <2>2, StoreAssumption
  <2> QED
    BY <2>1, <2>2
<1>4. /\ tenants' = place
      /\ conn' = [i \in Instance |-> IF placed(i) THEN "open" ELSE "closed"]
      /\ readonly' = [i \in Instance |-> IF placed(i) THEN ReadonlyFor(up[of(i)]) ELSE "none"]
      /\ config' = [i \in Instance |-> IF placed(i) THEN up[of(i)] ELSE NoConfig]
      /\ router' = config'
      /\ approved' = [i \in Instance |-> IF placed(i) THEN up[of(i)].approved ELSE {}]
      /\ path' = [i \in Instance |-> IF placed(i) /\ {up[of(i)]} # OwnConfig(of(i)) THEN "base" ELSE "saved"]
      /\ sharing' = [i \in Instance |-> {}]
  BY <1>1 DEF Booted
<1>5. \A t \in Tenant : place[t] # NoInstance => place[t] \in Instance /\ placed(place[t])
  BY <1>1
<1> HIDE DEF of, placed
<1>6. TypeOK'
  <2>1. \A i \in Instance : placed(i) => ReadonlyFor(up[of(i)]) \in {"none", "open"} /\ up[of(i)].approved \in SUBSET Tool
    BY <1>3 DEF ReadonlyFor, Config
  <2>2. /\ tenants' \in [Tenant -> Instance \cup {NoInstance}]
        /\ conn' \in [Instance -> {"closed", "open"}]
    BY <1>1, <1>4
  <2>3. readonly' \in [Instance -> {"none", "closed", "open"}]
    BY <1>4, <2>1
  <2>4. /\ config' \in [Instance -> Config \cup {NoConfig}]
        /\ router' \in [Instance -> Config \cup {NoConfig}]
    BY <1>3, <1>4
  <2>5. approved' \in [Instance -> SUBSET Tool]
    BY <1>4, <2>1
  <2>6. path' \in [Instance -> {"saved", "base"}] /\ sharing' \in [Instance -> SUBSET Op]
    BY <1>4
  <2>7. /\ disk' \in [Tenant -> Config \cup Unreadable] /\ writers' \in [Tenant -> SUBSET Op]
        /\ base' \in Config \cup {NoConfig} /\ changed' \in BOOLEAN
    BY <1>2 DEF IInv, TypeOK
  <2>8. /\ at' \in [Op -> Steps] /\ job' \in [Op -> Job \cup {NoJob}]
        /\ disturbed' \subseteq Tenant /\ unsaved' \subseteq Instance
    <3>1. "idle" \in Steps
      BY DEF Steps
    <3> QED
      BY <1>1, <1>2, <3>1
  <2> QED
    BY <2>2, <2>3, <2>4, <2>5, <2>6, <2>7, <2>8 DEF TypeOK
<1>7. \A o \in Op : JobOK(o)'
  BY <1>2 DEF JobOK, Busy
<1>8. Placement'
  <2>1. OwnedAlone'
    BY <1>2 DEF OwnedAlone, Owns
  <2>2. OneEach'
    <3>1. ASSUME NEW t \in Tenant, place[t] # NoInstance
          PROVE  config'[place[t]] \in Config
      BY <1>3, <1>4, <1>5, <3>1
    <3> QED
      BY <1>1, <1>4, <3>1 DEF OneEach, Registered
  <2>3. RegisteredOpen'
    <3>1. ASSUME NEW t \in Tenant, place[t] # NoInstance
          PROVE  conn'[place[t]] = "open" /\ readonly'[place[t]] # "closed"
      BY <1>4, <1>5, <3>1 DEF ReadonlyFor
    <3> QED
      BY <1>4, <3>1 DEF RegisteredOpen, Registered
  <2>4. ConnHeld'
    BY <1>4 DEF ConnHeld, placed
  <2> QED
    BY <2>1, <2>2, <2>3, <2>4 DEF Placement
<1>9. RouterMatchesConfig'
  BY <1>4 DEF RouterMatchesConfig
<1> QED
  BY <1>2, <1>6, <1>7, <1>8, <1>9 DEF IInv

-----------------------------------------------------------------------------
(* The theorems.                                                           *)

LEMMA InitKeeps == Init => IInv
<1> SUFFICES ASSUME Init PROVE IInv
  OBVIOUS
<1>1. base \in Config \cup {NoConfig}
  BY StoreAssumption DEF Init, Config
<1>2. "idle" \in Steps
  BY DEF Steps
<1>3. TypeOK
  BY <1>1, <1>2 DEF Init, TypeOK, Unreadable
<1>4. \A o \in Op : JobOK(o)
  BY DEF Init, JobOK, Busy
<1>5. Placement
  BY DEF Init, Placement, OwnedAlone, Owns, OneEach, RegisteredOpen, ConnHeld, Registered
<1>6. RouterMatchesConfig
  BY DEF Init, RouterMatchesConfig
<1> QED
  BY <1>3, <1>4, <1>5, <1>6 DEF IInv, Init

LEMMA ProceedKeeps ==
  ASSUME IInv, NEW o \in Op, Proceed(o)
  PROVE  IInv'
<1>1. CASE ConnectFails(o) \/ GenerateFails(o) \/ Erase(o)
  BY <1>1, EarlyEnds
<1>2. CASE \E i \in Instance : Connect(o, i)
  BY <1>2, ConnectKeeps
<1>3. CASE Insert(o) \/ Close(o)
  BY <1>3, InsertKeeps, CloseKeeps
<1>4. CASE \E x \in Content : Generate(o, x)
  BY <1>4, GenerateKeeps
<1>5. CASE Truncate(o) \/ Write(o) \/ SaveFails(o)
  BY <1>5, TruncateKeeps, SaveKeeps
<1>6. CASE Load(o) \/ Lookup(o) \/ Install(o)
  BY <1>6, LoadKeeps, LookupKeeps, InstallKeeps
<1>7. CASE Mark(o) \/ Rebuild(o)
  BY <1>7, MarkKeeps, RebuildKeeps
<1> QED
  BY <1>1, <1>2, <1>3, <1>4, <1>5, <1>6, <1>7 DEF Proceed

LEMMA StepsKeep == IInv /\ [Next]_vars => IInv'
<1> SUFFICES ASSUME IInv, [Next]_vars PROVE IInv'
  OBVIOUS
<1>1. CASE \E o \in Op : Start(o) \/ HotReload(o)
  BY <1>1, StartKeeps
<1>2. CASE \E o \in Op : Proceed(o)
  BY <1>2, ProceedKeeps
<1>3. CASE \E c \in BaseConfigs : EditBase(c)
  BY <1>3, EditKeeps
<1>4. CASE Restart
  BY <1>4, RestartKeeps
<1>5. CASE UNCHANGED vars
  BY <1>5, StutterKeeps
<1> QED
  BY <1>1, <1>2, <1>3, <1>4, <1>5 DEF Next

(* The state of the registry, its files and its requests is of its types:  *)
(* a step never lacks the instance or the configuration it works with.     *)
THEOREM TypeCorrect == Spec => []TypeOK
<1>1. IInv => TypeOK
  BY DEF IInv
<1> QED
  BY <1>1, InitKeeps, StepsKeep, PTL DEF Spec

(* However many requests overlap, fail or are cut off by a restart, a      *)
(* tenant in the map has its connections, no open pool is lost, and the    *)
(* router a tenant is served by is built from its configuration, once no   *)
(* approval is between the two (TenantStore, its handlers and main).       *)
THEOREM RegistryStaysSound == Spec => []RegistrySound
<1>1. IInv => RegistrySound
  BY DEF IInv, Placement, RegistrySound
<1> QED
  BY <1>1, InitKeeps, StepsKeep, PTL DEF Spec

-----------------------------------------------------------------------------
(* Memory and disk.                                                        *)

(* An instance is one tenant's: a request that has hold of the instance of *)
(* a tenant is about that tenant, and nobody else has hold of one that is  *)
(* not in the map yet.  Requests of one tenant that overlap disturb it, and *)
(* so does what leaves an instance unsaved.                                *)
HeldInv ==
    /\ \A o \in Op, t \in Tenant :
           Busy(o) /\ Registered(t) /\ job[o].inst = tenants[t] =>
               job[o].tenant = t
    /\ \A o \in Op : at[o] = "insert" =>
           /\ job[o].inst \notin unsaved
           /\ \A p \in Op \ {o} : Busy(p) => job[p].inst # job[o].inst
    /\ \A t \in Tenant : Registered(t) /\ tenants[t] \in unsaved =>
           t \in disturbed
    /\ \A o, p \in Op :
           o # p /\ Busy(o) /\ Busy(p) /\ job[o].tenant = job[p].tenant =>
               job[o].tenant \in disturbed
    /\ \A o \in Op : Busy(o) /\ job[o].kind = "watch" =>
           job[o].tenant \in disturbed

(* The tenant is served as a restart would serve it.                       *)
Agrees(t) ==
    IF Registered(t) THEN {router[tenants[t]]} = Restored(t)
    ELSE ~Readable(disk[t])

(* A rewrite carries the approvals that its tenant is served with.         *)
Kept(o, f) ==
    job[o].kind = "rewrite" /\ Registered(job[o].tenant) =>
        router[tenants[job[o].tenant]].approved \subseteq f.approved

(* What a request is about to save, or is saving.                          *)
Saving(o) ==
    /\ tenants[job[o].tenant] = job[o].inst
    /\ Kept(o, job[o].cfg)
    /\ job[o].kind = "add" => router[job[o].inst] = job[o].cfg
    /\ job[o].kind = "approve" => config[job[o].inst] = job[o].cfg

(* How far the only change of an undisturbed tenant has come.              *)
Progress(o) ==
    LET t == job[o].tenant
        i == job[o].inst
        c == job[o].cfg
    IN
    /\ at[o] \in {"connect", "insert"} => ~Registered(t) /\ ~Readable(disk[t])
    /\ at[o] = "insert" => router[i] = c
    /\ at[o] \in {"close", "erase"} => ~Registered(t)
    /\ at[o] \in {"generate", "mark", "install", "rebuild"} => tenants[t] = i
    /\ at[o] = "generate" => Agrees(t)
    /\ at[o] \in {"truncate", "write"} => Saving(o)
    /\ at[o] = "write" => o \in writers[t] /\ disk[t] = Empty
    /\ at[o] \in {"load", "lookup"} => Registered(t)
    /\ at[o] = "load" =>
           job[o].from = "saved" /\ Readable(disk[t]) /\ Kept(o, disk[t])
    /\ at[o] \in {"lookup", "install"} => c = disk[t] /\ Kept(o, c)
    /\ at[o] = "rebuild" => disk[t] = config[i]

AgreeInv ==
    /\ \A t \in Tenant \ disturbed : Quiet(t) => Agrees(t)
    /\ \A o \in Op : Busy(o) /\ job[o].tenant \notin disturbed => Progress(o)

(* A step of request o about tenant t touches that tenant and, of the      *)
(* instances, only i, which is no other tenant's.                          *)
Acts(o, t, i) ==
    /\ Others(o)
    /\ Busy(o) \/ Busy(o)'
    /\ Busy(o) => job[o].tenant = t
    /\ Busy(o)' => job'[o].tenant = t
    /\ \A u \in Tenant \ {t} :
           /\ tenants'[u] = tenants[u]
           /\ disk'[u] = disk[u]
           /\ writers'[u] = writers[u]
           /\ u \in disturbed' <=> u \in disturbed
    /\ t \in disturbed => t \in disturbed'
    /\ base' = base
    /\ \A j \in Instance \ {i} :
           /\ config'[j] = config[j] /\ router'[j] = router[j]
           /\ j \in unsaved' => j \in unsaved
    /\ i \in Instance =>
           /\ \A u \in Tenant \ {t} : tenants[u] # i
           /\ \A p \in Op \ {o} : at[p] = "insert" => job[p].inst # i

(* The instance a request has in its hands is no other tenant's, and no    *)
(* other request is about to put it into the map.                          *)
LEMMA HeldAlone ==
  ASSUME HeldInv, IInv, NEW o \in Op, Busy(o), NEW i \in Instance, i = job[o].inst,
         NEW t \in Tenant, t = job[o].tenant
  PROVE  /\ \A u \in Tenant \ {t} : tenants[u] # i
         /\ \A p \in Op \ {o} : at[p] = "insert" => job[p].inst # i
<1>1. ASSUME NEW u \in Tenant \ {t}, tenants[u] = i PROVE FALSE
  <2>1. Registered(u)
    BY <1>1, StoreAssumption DEF Registered
  <2> QED
    BY <1>1, <2>1 DEF HeldInv
<1>2. ASSUME NEW p \in Op \ {o}, at[p] = "insert" PROVE job[p].inst # i
  BY <1>2 DEF HeldInv
<1> QED
  BY <1>1, <1>2

(* A step keeps who has hold of what, if what it takes hold of was free or *)
(* its tenant's.                                                           *)
LEMMA HeldActs ==
  ASSUME IInv, HeldInv, NEW o \in Op, NEW t \in Tenant,
         NEW i \in Instance \cup {NoInstance}, Acts(o, t, i), TypeOK',
         \/ tenants'[t] \in {tenants[t], NoInstance}
         \/ at[o] = "insert" /\ job[o].inst = tenants'[t],
         Busy(o)' => \/ job'[o].inst = NoInstance
                     \/ Busy(o) /\ job'[o].inst = job[o].inst
                     \/ Registered(t) /\ job'[o].inst = tenants[t]
                     \/ Free(job'[o].inst),
         at'[o] = "insert" => Free(job'[o].inst) /\ job'[o].inst \notin unsaved',
         (Registered(t) /\ tenants[t] \in unsaved => t \in disturbed)',
         \A p \in Op \ {o} :
             ~Busy(o) /\ Busy(p) /\ job[p].tenant = t => t \in disturbed',
         Busy(o)' /\ job'[o].kind = "watch" => t \in disturbed'
  PROVE  HeldInv'
<1>1. /\ \A p \in Op \ {o} : /\ at'[p] = at[p] /\ job'[p] = job[p]
                             /\ Busy(p)' <=> Busy(p)
      /\ \A u \in Tenant \ {t} : /\ tenants'[u] = tenants[u]
                                 /\ Registered(u)' <=> Registered(u)
  BY DEF Acts, Others, Busy, Registered
<1>2. ASSUME NEW p \in Op, NEW u \in Tenant, Busy(p)', Registered(u)',
             job'[p].inst = tenants'[u]
      PROVE  job'[p].tenant = u
  <2>1. CASE p # o /\ u # t
    BY <1>1, <1>2, <2>1 DEF HeldInv
  <2>2. CASE p # o /\ u = t
    <3>1. job'[p] = job[p] /\ Busy(p) /\ tenants'[t] # NoInstance
      BY <1>1, <1>2, <2>2 DEF Registered
    <3>2. CASE tenants'[t] = tenants[t]
      BY <1>2, <2>2, <3>1, <3>2 DEF HeldInv, Registered
    <3>3. CASE at[o] = "insert" /\ job[o].inst = tenants'[t]
      BY <1>2, <2>2, <3>1, <3>3 DEF HeldInv
    <3> QED
      BY <3>1, <3>2, <3>3
  <2>3. CASE p = o
    <3>1. job'[o].tenant = t
      BY <1>2, <2>3 DEF Acts
    <3>2. CASE u = t
      BY <2>3, <3>1, <3>2
    <3>3. CASE u # t
      <4>1. /\ tenants'[u] = tenants[u] /\ Registered(u)
            /\ job'[o].inst = tenants[u] /\ job'[o].inst # NoInstance
        BY <1>1, <1>2, <2>3, <3>3 DEF Registered
      <4>2. CASE Busy(o) /\ job'[o].inst = job[o].inst
        <5>1. job[o].tenant = u
          BY <4>1, <4>2 DEF HeldInv
        <5> QED
          BY <3>3, <4>2, <5>1 DEF Acts
      <4>3. CASE Registered(t) /\ job'[o].inst = tenants[t]
        BY <3>3, <4>1, <4>3 DEF IInv, Placement, OneEach
      <4>4. CASE Free(job'[o].inst)
        BY <4>1, <4>4 DEF Free
      <4> QED
        BY <1>2, <2>3, <4>1, <4>2, <4>3, <4>4
    <3> QED
      BY <3>2, <3>3
  <2> QED
    BY <2>1, <2>2, <2>3
<1>3. ASSUME NEW p \in Op, at'[p] = "insert"
      PROVE  job'[p].inst \notin unsaved'
  <2>1. CASE p = o
    BY <1>3, <2>1
  <2>2. CASE p # o
    <3>1. at[p] = "insert" /\ job'[p] = job[p] /\ job[p].inst \notin unsaved
      BY <1>1, <1>3, <2>2 DEF HeldInv
    <3>2. job[p].inst \in Instance
      <4>1. JobOK(p)
        BY DEF IInv
      <4> QED
        BY <3>1, <4>1 DEF JobOK, Busy, Holding
    <3>3. job[p].inst # i
      BY <2>2, <3>1, <3>2 DEF Acts
    <3> QED
      BY <3>1, <3>2, <3>3 DEF Acts
  <2> QED
    BY <2>1, <2>2
<1>4. ASSUME NEW p \in Op, NEW q \in Op, p # q, at'[p] = "insert", Busy(q)'
      PROVE  job'[q].inst # job'[p].inst
  <2>1. CASE p # o /\ q # o
    BY <1>1, <1>4, <2>1 DEF HeldInv
  <2>2. CASE p = o
    <3>1. Busy(q) /\ job'[q] = job[q] /\ Free(job'[o].inst)
      BY <1>1, <1>4, <2>2
    <3> QED
      BY <2>2, <3>1 DEF Free
  <2>3. CASE q = o
    <3>1. /\ at[p] = "insert" /\ job'[p] = job[p] /\ Busy(p)
          /\ (Busy(o) => job[o].inst # job[p].inst)
      BY <1>1, <1>4, <2>3 DEF HeldInv, Busy
    <3>2. /\ job[p].inst \in Instance
          /\ \A u \in Tenant : tenants[u] # job[p].inst
      <4>1. JobOK(p) /\ OwnedAlone
        BY DEF IInv, Placement
      <4> QED
        BY <3>1, <4>1 DEF JobOK, Busy, Holding, OwnedAlone, Owns
    <3>3. ~Free(job[p].inst)
      BY <3>1 DEF Free
    <3> QED
      BY <1>4, <2>3, <3>1, <3>2, <3>3, StoreAssumption
  <2> QED
    BY <2>1, <2>2, <2>3
<1>5. ASSUME NEW u \in Tenant, Registered(u)', tenants'[u] \in unsaved'
      PROVE  u \in disturbed'
  <2>1. CASE u = t
    BY <1>5, <2>1
  <2>2. CASE u # t
    <3>1. tenants'[u] = tenants[u] /\ Registered(u) /\ tenants[u] \in Instance
      BY <1>1, <1>5, <2>2 DEF IInv, TypeOK, Registered
    <3>2. tenants[u] # i
      BY <2>2, <3>1 DEF Acts
    <3>3. tenants[u] \in unsaved
      BY <1>5, <3>1, <3>2 DEF Acts
    <3> QED
      BY <2>2, <3>1, <3>3 DEF Acts, HeldInv
  <2> QED
    BY <2>1, <2>2
<1>6. ASSUME NEW p \in Op \ {o}, Busy(p)', Busy(o)', job'[p].tenant = t
      PROVE  t \in disturbed'
  <2>1. Busy(p) /\ job[p].tenant = t
    BY <1>1, <1>6
  <2>2. CASE Busy(o)
    BY <1>6, <2>1, <2>2 DEF Acts, HeldInv
  <2> QED
    BY <2>1, <2>2
<1>7. ASSUME NEW p \in Op, NEW q \in Op, p # q, Busy(p)', Busy(q)',
             job'[p].tenant = job'[q].tenant
      PROVE  job'[p].tenant \in disturbed'
  <2>1. CASE p = o \/ q = o
    <3>1. job'[o].tenant = t
      BY <1>7, <2>1 DEF Acts
    <3> QED
      BY <1>6, <1>7, <2>1, <3>1
  <2>2. CASE p # o /\ q # o
    <3>1. /\ job'[p] = job[p] /\ job[p].tenant \in disturbed
          /\ job[p].tenant \in Tenant
      BY <1>1, <1>7, <2>2, Carried DEF HeldInv
    <3> QED
      BY <3>1 DEF Acts
  <2> QED
    BY <2>1, <2>2
<1>8. ASSUME NEW p \in Op, Busy(p)', job'[p].kind = "watch"
      PROVE  job'[p].tenant \in disturbed'
  <2>1. CASE p = o
    BY <1>8, <2>1 DEF Acts
  <2>2. CASE p # o
    <3>1. /\ job'[p] = job[p] /\ job[p].tenant \in disturbed
          /\ job[p].tenant \in Tenant
      BY <1>1, <1>8, <2>2, Carried DEF HeldInv
    <3> QED
      BY <3>1 DEF Acts
  <2> QED
    BY <2>1, <2>2
<1> QED
  BY <1>2, <1>3, <1>4, <1>5, <1>7, <1>8 DEF HeldInv

(* What a step does for its own tenant is all there is to look at.         *)
LEMMA AgreeActs ==
  ASSUME IInv, HeldInv, HeldInv', AgreeInv, NEW o \in Op, NEW t \in Tenant,
         NEW i \in Instance \cup {NoInstance}, Acts(o, t, i),
         t \notin disturbed' /\ Busy(o)' => Progress(o)',
         t \notin disturbed' /\ ~Busy(o)' => Agrees(t)'
  PROVE  AgreeInv'
<1>1. /\ \A p \in Op \ {o} : /\ at'[p] = at[p] /\ job'[p] = job[p]
                             /\ Busy(p)' <=> Busy(p)
      /\ tenants \in [Tenant -> Instance \cup {NoInstance}]
  BY DEF Acts, Others, Busy, IInv, TypeOK
<1>2. ASSUME NEW u \in Tenant \ {t}
      PROVE  /\ tenants'[u] = tenants[u] /\ disk'[u] = disk[u]
             /\ writers'[u] = writers[u] /\ base' = base
             /\ Registered(u)' <=> Registered(u)
             /\ Registered(u) => /\ router'[tenants[u]] = router[tenants[u]]
                                 /\ config'[tenants[u]] = config[tenants[u]]
             /\ Restored(u)' = Restored(u)
             /\ Agrees(u)' <=> Agrees(u)
             /\ u \in disturbed' <=> u \in disturbed
  <2>1. /\ tenants'[u] = tenants[u] /\ disk'[u] = disk[u]
        /\ writers'[u] = writers[u] /\ base' = base
        /\ u \in disturbed' <=> u \in disturbed
    BY DEF Acts
  <2>2. Registered(u)' <=> Registered(u)
    BY <2>1 DEF Registered
  <2>3. Registered(u) => /\ router'[tenants[u]] = router[tenants[u]]
                         /\ config'[tenants[u]] = config[tenants[u]]
    BY <1>1 DEF Registered, Acts
  <2>4. Restored(u)' = Restored(u)
    BY <2>1 DEF Restored, OwnConfig, BaseConfig, Readable
  <2> QED
    BY <2>1, <2>2, <2>3, <2>4 DEF Agrees, Readable
<1>3. ASSUME NEW u \in Tenant \ disturbed', Quiet(u)' PROVE Agrees(u)'
  <2>1. CASE u = t
    BY <1>3, <2>1 DEF Acts, Quiet
  <2>2. CASE u # t
    <3>1. Quiet(u)
      <4> SUFFICES ASSUME NEW p \in Op, Busy(p) PROVE job[p].tenant # u
        BY DEF Quiet
      <4>1. CASE p = o
        BY <2>2, <4>1 DEF Acts
      <4>2. CASE p # o
        BY <1>1, <1>3, <4>2 DEF Quiet
      <4> QED
        BY <4>1, <4>2
    <3> QED
      BY <1>2, <1>3, <2>2, <3>1 DEF AgreeInv
  <2> QED
    BY <2>1, <2>2
<1>4. ASSUME NEW p \in Op, Busy(p)', job'[p].tenant \notin disturbed'
      PROVE  Progress(p)'
  <2>1. CASE p = o
    BY <1>4, <2>1 DEF Acts
  <2>2. CASE p # o
    <3>1. PICK u \in Tenant : u = job[p].tenant
      BY <1>1, <1>4, <2>2, Carried
    <3>2. Busy(p) /\ job'[p] = job[p] /\ at'[p] = at[p]
      BY <1>1, <1>4, <2>2
    <3>3. u # t
      <4> SUFFICES ASSUME u = t PROVE FALSE
        OBVIOUS
      <4>1. CASE Busy(o)'
        BY <1>4, <2>2, <3>1, <3>2, <4>1 DEF HeldInv, Acts
      <4>2. CASE Busy(o)
        BY <1>4, <2>2, <3>1, <3>2, <4>2 DEF HeldInv, Acts
      <4> QED
        BY <4>1, <4>2 DEF Acts
    <3>4. Progress(p)
      BY <1>2, <1>4, <3>1, <3>2, <3>3 DEF AgreeInv
    <3>5. at[p] = "insert" => router'[job[p].inst] = router[job[p].inst]
      <4>1. JobOK(p)
        BY DEF IInv
      <4>2. at[p] = "insert" => job[p].inst \in Instance
        BY <3>2, <4>1 DEF JobOK, Holding
      <4> QED
        BY <2>2, <4>2 DEF Acts
    <3>6. ASSUME NEW f PROVE Kept(p, f)' <=> Kept(p, f)
      BY <1>2, <3>1, <3>2, <3>3 DEF Kept
    <3>7. at[p] \in Holding => job[p].inst \in Instance
      BY <3>2, Carried
    <3>8. Saving(p) /\ job[p].inst \in Instance => Saving(p)'
      <4> SUFFICES ASSUME Saving(p), job[p].inst \in Instance PROVE Saving(p)'
        OBVIOUS
      <4>1. Registered(u) /\ tenants[u] = job[p].inst
        BY <3>1, StoreAssumption DEF Saving, Registered
      <4>2. Kept(p, job[p].cfg)'
        BY <3>2, <3>6 DEF Saving
      <4> QED
        BY <1>2, <3>1, <3>2, <3>3, <4>1, <4>2 DEF Saving
    <3>9. ~Registered(u)' <=> ~Registered(u)
      BY <1>2, <3>3
    <3>10. /\ at[p] \in {"truncate", "write"} => Saving(p)'
           /\ at[p] = "rebuild" => disk[u] = config'[job[p].inst]
      <4>1. at[p] \in {"truncate", "write", "rebuild"} => job[p].inst \in Instance
        BY <3>7 DEF Holding
      <4>2. at[p] = "rebuild" => /\ disk[u] = config[job[p].inst]
                                 /\ tenants[u] = job[p].inst
        BY <3>1, <3>4 DEF Progress
      <4>3. at[p] = "rebuild" => Registered(u)
        BY <4>1, <4>2, StoreAssumption DEF Registered
      <4>4. at[p] \in {"truncate", "write"} => Saving(p)
        BY <3>4 DEF Progress
      <4> QED
        BY <1>2, <3>3, <3>8, <4>1, <4>2, <4>3, <4>4
    <3>11. /\ at[p] = "load" => Kept(p, disk[u])'
           /\ at[p] \in {"lookup", "install"} => Kept(p, job[p].cfg)'
      <4>1. /\ at[p] = "load" => Kept(p, disk[u])
            /\ at[p] \in {"lookup", "install"} => Kept(p, job[p].cfg)
        BY <3>1, <3>4 DEF Progress
      <4>2. disk'[u] = disk[u] /\ job'[p].cfg = job[p].cfg
        BY <1>2, <3>2, <3>3
      <4> QED
        BY <3>6, <4>1, <4>2
    <3> QED
      BY <1>2, <3>1, <3>2, <3>3, <3>4, <3>5, <3>9, <3>10, <3>11
      DEF Progress, Readable
  <2> QED
    BY <2>1, <2>2
<1> QED
  BY <1>3, <1>4 DEF AgreeInv

(* What a request has, and the move it makes.                              *)
LEMMA Goes ==
  ASSUME IInv, NEW o \in Op, NEW s, NEW j,
         at' = [at EXCEPT ![o] = s], job' = [job EXCEPT ![o] = j]
  PROVE  Others(o) /\ at'[o] = s /\ job'[o] = j
BY DEF IInv, TypeOK, Others

(* A step of a request that keeps its tenant, or ends, with what HeldActs  *)
(* and AgreeActs ask for.                                                  *)
LEMMA Proceeds ==
  ASSUME IInv, IInv', HeldInv, AgreeInv, NEW o \in Op, Busy(o),
         NEW t \in Tenant, t = job[o].tenant,
         NEW i \in Instance \cup {NoInstance}, Acts(o, t, i),
         \/ tenants'[t] \in {tenants[t], NoInstance}
         \/ at[o] = "insert" /\ job[o].inst = tenants'[t],
         Busy(o)' => \/ job'[o].inst \in {NoInstance, job[o].inst}
                     \/ Registered(t) /\ job'[o].inst = tenants[t]
                     \/ Free(job'[o].inst),
         at'[o] = "insert" => Free(job'[o].inst) /\ job'[o].inst \notin unsaved',
         tenants'[t] # NoInstance /\ tenants'[t] \in unsaved' => t \in disturbed',
         Busy(o)' => job'[o].kind = job[o].kind,
         t \notin disturbed' /\ t \notin disturbed /\ Progress(o) =>
             /\ Busy(o)' => Progress(o)'
             /\ ~Busy(o)' => Agrees(t)'
  PROVE  HeldInv' /\ AgreeInv'
<1>1. TypeOK' /\ (Registered(t) /\ tenants[t] \in unsaved => t \in disturbed)'
  BY DEF IInv, Registered
<1>2. Busy(o)' /\ job'[o].kind = "watch" => t \in disturbed'
  BY DEF HeldInv, Acts
<1>3. HeldInv'
  BY <1>1, <1>2, HeldActs
<1>4. t \notin disturbed' => t \notin disturbed /\ Progress(o)
  BY DEF Acts, AgreeInv
<1> QED
  BY <1>3, <1>4, AgreeActs

(* A request that begins finds its tenant as it was left, if nobody else   *)
(* is about it.                                                            *)
LEMMA Begins ==
  ASSUME IInv, HeldInv, AgreeInv, NEW o \in Op, NEW step \in Steps,
         NEW kind \in Kinds, NEW t \in Tenant,
         NEW i \in Instance \cup {NoInstance}, NEW c, NEW tool, NEW from,
         Begin(o, step, kind, t, i, c, tool, from), step # "idle"
  PROVE  /\ Others(o) /\ ~Busy(o) /\ Busy(o)' /\ at'[o] = step
         /\ job'[o].kind = kind /\ job'[o].tenant = t /\ job'[o].inst = i
         /\ job'[o].cfg = c /\ job'[o].from = from
         /\ UNCHANGED unsaved
         /\ \A u \in Tenant \ {t} : u \in disturbed' <=> u \in disturbed
         /\ t \in disturbed => t \in disturbed'
         /\ \A p \in Op \ {o} : Busy(p) /\ job[p].tenant = t => t \in disturbed'
         /\ kind = "watch" => t \in disturbed'
         /\ t \notin disturbed' => Agrees(t)
<1> DEFINE j == [kind |-> kind, tenant |-> t, inst |-> i, cfg |-> c,
                 tool |-> tool, from |-> from]
<1>1. /\ ~Busy(o) /\ at' = [at EXCEPT ![o] = step] /\ job' = [job EXCEPT ![o] = j]
      /\ UNCHANGED unsaved
  BY DEF Begin, Move
<1>2. /\ j.kind = kind /\ j.tenant = t /\ j.inst = i /\ j.cfg = c /\ j.from = from
  OBVIOUS
<1> HIDE DEF j
<1>3. Others(o) /\ at'[o] = step /\ job'[o] = j
  BY <1>1, Goes
<1>4. disturbed' = IF \/ kind = "watch"
                      \/ \E p \in Op \ {o} : Busy(p) /\ job[p].tenant = t
                   THEN disturbed \cup {t} ELSE disturbed
  BY DEF Begin
<1>5. t \notin disturbed' => Agrees(t)
  <2>1. SUFFICES ASSUME t \notin disturbed' PROVE Agrees(t)
    OBVIOUS
  <2>2. t \notin disturbed /\ Quiet(t)
    BY <1>1, <1>4, <2>1 DEF Quiet
  <2> QED
    BY <2>2 DEF AgreeInv
<1> QED
  BY <1>1, <1>2, <1>3, <1>4, <1>5 DEF Busy

(* Starting a request leaves the tenant's file and router as they are.     *)
LEMMA StartAgrees ==
  ASSUME IInv, IInv', HeldInv, AgreeInv, NEW o \in Op, Start(o) \/ HotReload(o)
  PROVE  HeldInv' /\ AgreeInv'
<1>1. /\ tenants \in [Tenant -> Instance \cup {NoInstance}] /\ TypeOK'
      /\ NoInstance \notin Instance
  BY StoreAssumption DEF IInv, TypeOK
<1>2. ASSUME NEW step \in Steps \ {"idle", "insert"}, NEW kind \in Kinds, NEW t \in Tenant,
             NEW i \in Instance \cup {NoInstance}, NEW c, NEW tool, NEW from,
             Begin(o, step, kind, t, i, c, tool, from),
             UNCHANGED <<config, router, disk, writers, base>>,
             i \in {NoInstance, tenants[t]},
             \/ UNCHANGED tenants
             \/ tenants' = [tenants EXCEPT ![t] = NoInstance],
             t \notin disturbed' /\ Agrees(t) => Progress(o)'
      PROVE  HeldInv' /\ AgreeInv'
  <2>1. /\ Others(o) /\ ~Busy(o) /\ Busy(o)' /\ at'[o] = step
        /\ job'[o].kind = kind /\ job'[o].tenant = t /\ job'[o].inst = i
        /\ UNCHANGED unsaved
        /\ \A u \in Tenant \ {t} : u \in disturbed' <=> u \in disturbed
        /\ t \in disturbed => t \in disturbed'
        /\ \A p \in Op \ {o} : Busy(p) /\ job[p].tenant = t => t \in disturbed'
        /\ kind = "watch" => t \in disturbed'
        /\ t \notin disturbed' => Agrees(t)
    BY <1>2, Begins
  <2>2. \A u \in Tenant : \/ tenants'[u] = tenants[u]
                          \/ u = t /\ tenants'[u] = NoInstance
    BY <1>1, <1>2
  <2>3. Acts(o, t, NoInstance)
    BY <1>1, <1>2, <2>1, <2>2 DEF Acts
  <2>4. (Registered(t) /\ tenants[t] \in unsaved => t \in disturbed)'
    BY <2>1, <2>2 DEF Registered, HeldInv
  <2>5. NoInstance \in Instance \cup {NoInstance}
    OBVIOUS
  <2>6. HeldInv'
    BY <1>1, <1>2, <2>1, <2>2, <2>3, <2>4, <2>5, HeldActs DEF Registered
  <2> QED
    BY <1>2, <2>1, <2>3, <2>5, <2>6, AgreeActs
<1>3. ASSUME NEW t \in Tenant, RemoveTenant(o, t)
      PROVE  HeldInv' /\ AgreeInv'
  <2>1. PICK i \in Instance : i = tenants[t]
    BY <1>1, <1>3 DEF RemoveTenant, Registered
  <2>2. /\ Begin(o, "close", "remove", t, i, NoConfig, {}, "saved")
        /\ tenants' = [tenants EXCEPT ![t] = NoInstance]
        /\ UNCHANGED <<config, router, disk, writers, base>>
    BY <1>3, <2>1 DEF RemoveTenant, instanceVars, fileVars
  <2>3. "close" \in Steps \ {"idle", "insert"} /\ "remove" \in Kinds
    BY DEF Steps, Kinds
  <2>4. at'[o] = "close" /\ job'[o].tenant = t /\ ~Registered(t)'
    <3>1. at'[o] = "close" /\ job'[o].tenant = t
      BY <2>2, <2>3, Begins
    <3> QED
      BY <1>1, <2>2, <3>1 DEF Registered
  <2>5. Progress(o)'
    BY <2>4 DEF Progress
  <2> QED
    BY <1>2, <2>1, <2>2, <2>3, <2>5
<1>4. ASSUME NEW t \in Tenant, Rewrite(o, t)
      PROVE  HeldInv' /\ AgreeInv'
  <2>1. PICK i \in Instance : i = tenants[t]
    BY <1>1, <1>4 DEF Rewrite, Registered
  <2>2. /\ Begin(o, "generate", "rewrite", t, i, NoConfig, {}, "saved")
        /\ UNCHANGED <<tenants, config, router, disk, writers, base>>
    BY <1>4, <2>1 DEF Rewrite, instanceVars, fileVars
  <2>3. "generate" \in Steps \ {"idle", "insert"} /\ "rewrite" \in Kinds
    BY DEF Steps, Kinds
  <2>4. at'[o] = "generate" /\ job'[o].tenant = t /\ job'[o].inst = i
    BY <2>2, <2>3, Begins
  <2>5. Agrees(t) => Agrees(t)'
    BY <2>2 DEF Agrees, Registered, Restored, OwnConfig, BaseConfig, Readable
  <2>6. Agrees(t) => Progress(o)'
    BY <2>1, <2>2, <2>4, <2>5 DEF Progress
  <2> QED
    BY <1>2, <2>1, <2>2, <2>3, <2>6
<1>5. ASSUME NEW t \in Tenant, NEW c \in Config, AddTenant(o, t, c)
      PROVE  HeldInv' /\ AgreeInv'
  <2>2. /\ Begin(o, "connect", "add", t, NoInstance, c, {}, "saved")
        /\ UNCHANGED <<tenants, config, router, disk, writers, base>>
        /\ ~Registered(t)
    BY <1>5 DEF AddTenant, instanceVars, fileVars
  <2>3. "connect" \in Steps \ {"idle", "insert"} /\ "add" \in Kinds
        /\ NoInstance \in Instance \cup {NoInstance}
    BY DEF Steps, Kinds
  <2>4. at'[o] = "connect" /\ job'[o].tenant = t
    BY <2>2, <2>3, Begins
  <2>6. Agrees(t) => Progress(o)'
    BY <2>2, <2>4 DEF Progress, Agrees, Registered, Readable
  <2> QED
    BY <1>2, <2>2, <2>3, <2>6
<1>6. ASSUME NEW t \in Tenant, NEW c \in Config, UpdateConfig(o, t, c)
      PROVE  HeldInv' /\ AgreeInv'
  <2>1. PICK i \in Instance : i = tenants[t]
    BY <1>1, <1>6 DEF UpdateConfig, Registered
  <2>2. /\ Begin(o, "truncate", "update", t, i, c, {}, "saved")
        /\ UNCHANGED <<tenants, config, router, disk, writers, base>>
    BY <1>6, <2>1 DEF UpdateConfig, instanceVars, fileVars
  <2>3. "truncate" \in Steps \ {"idle", "insert"} /\ "update" \in Kinds
    BY DEF Steps, Kinds
  <2>4. /\ at'[o] = "truncate" /\ job'[o].tenant = t /\ job'[o].inst = i
        /\ job'[o].kind = "update"
    BY <2>2, <2>3, Begins
  <2>6. Progress(o)'
    BY <2>1, <2>2, <2>4 DEF Progress, Saving, Kept
  <2> QED
    BY <1>2, <2>1, <2>2, <2>3, <2>6
<1>7. ASSUME NEW t \in Tenant, NEW e \in Tool, ApproveTool(o, t, e)
      PROVE  HeldInv' /\ AgreeInv'
  <2>1. PICK i \in Instance : i = tenants[t]
    BY <1>1, <1>7 DEF ApproveTool, Registered
  <2>2. /\ Begin(o, "mark", "approve", t, i, NoConfig, {e}, "saved")
        /\ UNCHANGED <<tenants, config, router, disk, writers, base>>
    BY <1>7, <2>1 DEF ApproveTool, fileVars
  <2>3. "mark" \in Steps \ {"idle", "insert"} /\ "approve" \in Kinds
    BY DEF Steps, Kinds
  <2>4. at'[o] = "mark" /\ job'[o].tenant = t /\ job'[o].inst = i
    BY <2>2, <2>3, Begins
  <2>6. Progress(o)'
    BY <2>1, <2>2, <2>4 DEF Progress
  <2> QED
    BY <1>2, <2>1, <2>2, <2>3, <2>6
<1>8. CASE HotReload(o)
  <2>1. Default \in Tenant
    BY <1>8 DEF HotReload, IInv
  <2>2. /\ Begin(o, "load", "watch", Default, NoInstance, NoConfig, {}, "base")
        /\ UNCHANGED <<tenants, config, router, disk, writers, base>>
    BY <1>8 DEF HotReload, instanceVars
  <2>3. "load" \in Steps \ {"idle", "insert"} /\ "watch" \in Kinds
        /\ NoInstance \in Instance \cup {NoInstance}
    BY DEF Steps, Kinds
  <2>4. Default \in disturbed'
    BY <2>1, <2>2, <2>3, Begins
  <2> QED
    BY <1>2, <2>1, <2>2, <2>3, <2>4
<1> QED
  BY <1>3, <1>4, <1>5, <1>6, <1>7, <1>8 DEF Start

(* What a request under way has in its hands, and whose that is.           *)
LEMMA Working ==
  ASSUME IInv, HeldInv, NEW o \in Op, Busy(o)
  PROVE  \E t \in Tenant, i \in Instance \cup {NoInstance} :
             /\ t = job[o].tenant /\ i = job[o].inst
             /\ job[o] \in Job /\ job[o].kind \in Kinds
             /\ at[o] \in StepsOf[job[o].kind]
             /\ at[o] \in Holding => i \in Instance
             /\ at[o] \in Carrying => job[o].cfg \in Config
             /\ i \in Instance =>
                    /\ \A u \in Tenant \ {t} : tenants[u] # i
                    /\ \A p \in Op \ {o} : at[p] = "insert" => job[p].inst # i
<1>1. PICK t \in Tenant, i \in Instance \cup {NoInstance} :
          t = job[o].tenant /\ i = job[o].inst
  BY Carried
<1>2. i \in Instance =>
          /\ \A u \in Tenant \ {t} : tenants[u] # i
          /\ \A p \in Op \ {o} : at[p] = "insert" => job[p].inst # i
  BY <1>1, HeldAlone
<1> QED
  BY <1>1, <1>2, Carried

(* The request ends and leaves everything as it is.                        *)
LEMMA EndsAgree ==
  ASSUME IInv, IInv', HeldInv, AgreeInv, NEW o \in Op,
         ConnectFails(o) \/ GenerateFails(o)
  PROVE  HeldInv' /\ AgreeInv'
<1>1. /\ at[o] \in {"connect", "generate"} /\ Busy(o)
      /\ at' = [at EXCEPT ![o] = "idle"] /\ job' = [job EXCEPT ![o] = NoJob]
      /\ UNCHANGED <<tenants, config, router, disk, writers, base, disturbed, unsaved>>
  BY DEF ConnectFails, GenerateFails, Return, Move, Busy, instanceVars, fileVars, ghostVars
<1>2. PICK t \in Tenant, i \in Instance \cup {NoInstance} : t = job[o].tenant /\ i = job[o].inst
  BY <1>1, Working
<1>3. Others(o) /\ at'[o] = "idle" /\ ~Busy(o)'
  BY <1>1, Goes DEF Busy
<1>4. Acts(o, t, NoInstance)
  BY <1>1, <1>2, <1>3, StoreAssumption DEF Acts
<1>5. Progress(o) => Agrees(t)'
  <2>1. Agrees(t)' <=> Agrees(t)
    BY <1>1 DEF Agrees, Registered, Restored, OwnConfig, BaseConfig, Readable
  <2> QED
    BY <1>1, <1>2, <2>1 DEF Progress, Agrees
<1>6. tenants'[t] # NoInstance /\ tenants'[t] \in unsaved' => t \in disturbed'
  BY <1>1 DEF HeldInv, Registered
<1> QED
  BY <1>1, <1>2, <1>3, <1>4, <1>5, <1>6, Proceeds

(* A free instance gets the configuration that its request carries.        *)
LEMMA ConnectAgrees ==
  ASSUME IInv, IInv', HeldInv, AgreeInv, NEW o \in Op, NEW i \in Instance,
         Connect(o, i)
  PROVE  HeldInv' /\ AgreeInv'
<1>1. at[o] = "connect" /\ Busy(o) /\ Free(i)
  BY DEF Connect, Busy
<1>2. PICK t \in Tenant : t = job[o].tenant /\ job[o] \in Job
  BY <1>1, Working
<1> DEFINE j == [job[o] EXCEPT !.inst = i]
<1>3. /\ j.inst = i /\ j.tenant = t /\ j.kind = job[o].kind /\ j.cfg = job[o].cfg
  BY <1>2 DEF Job
<1>4. /\ at' = [at EXCEPT ![o] = "insert"] /\ job' = [job EXCEPT ![o] = j]
  BY DEF Connect, Move
<1> HIDE DEF j
<1>5. Others(o) /\ at'[o] = "insert" /\ Busy(o)' /\ job'[o] = j
  <2>1. Others(o) /\ at'[o] = "insert" /\ job'[o] = j
    BY <1>4, Goes
  <2> QED
    BY <2>1 DEF Busy
<1>6. /\ config' = [config EXCEPT ![i] = job[o].cfg]
      /\ router' = [router EXCEPT ![i] = job[o].cfg]
      /\ unsaved' = unsaved \ {i}
      /\ UNCHANGED <<tenants, disk, writers, base, disturbed>>
  BY DEF Connect, fileVars
<1>7. /\ config \in [Instance -> Config \cup {NoConfig}]
      /\ router \in [Instance -> Config \cup {NoConfig}]
  BY DEF IInv, TypeOK
<1>8. Acts(o, t, i)
  <2>1. /\ \A u \in Tenant \ {t} : tenants[u] # i
        /\ \A p \in Op \ {o} : at[p] = "insert" => job[p].inst # i
    BY <1>1 DEF Free, Busy
  <2>2. \A k \in Instance \ {i} : /\ config'[k] = config[k] /\ router'[k] = router[k]
                                  /\ k \in unsaved' => k \in unsaved
    BY <1>6, <1>7
  <2> QED
    BY <1>1, <1>2, <1>3, <1>5, <1>6, <2>1, <2>2 DEF Acts
<1>9. Progress(o) => Progress(o)'
  <2>1. router'[i] = job[o].cfg
    BY <1>6, <1>7
  <2>2. Progress(o) => ~Registered(t)' /\ ~Readable(disk[t])
    BY <1>1, <1>2, <1>6 DEF Progress, Registered
  <2> QED
    BY <1>3, <1>5, <1>6, <2>1, <2>2 DEF Progress, Readable
<1>10. tenants'[t] # NoInstance /\ tenants'[t] \in unsaved' => t \in disturbed'
  BY <1>6 DEF HeldInv, Registered
<1> QED
  BY <1>1, <1>2, <1>3, <1>5, <1>6, <1>8, <1>9, <1>10, Proceeds

(* A tenant that is undisturbed was not inserted by anybody else.          *)
LEMMA InsertAgrees ==
  ASSUME IInv, IInv', HeldInv, AgreeInv, NEW o \in Op, Insert(o)
  PROVE  HeldInv' /\ AgreeInv'
<1>1. /\ at[o] = "insert" /\ Busy(o)
      /\ UNCHANGED <<config, router, disk, writers, base, disturbed, unsaved>>
  BY DEF Insert, Busy, fileVars, ghostVars
<1>2. PICK t \in Tenant, i \in Instance :
          /\ t = job[o].tenant /\ i = job[o].inst
          /\ job[o].kind \in Kinds /\ at[o] \in StepsOf[job[o].kind]
  BY <1>1, Working DEF Holding
<1>3. job[o].kind = "add"
  BY <1>1, <1>2 DEF Kinds, StepsOf
<1>4. \A p \in Op \ {o} : at[p] = "insert" => job[p].inst # i
  BY <1>1, <1>2 DEF HeldInv, Busy
<1>5. \A u \in Tenant : tenants[u] # i
  BY <1>1, <1>2 DEF IInv, Placement, OwnedAlone, Owns
<1>6. /\ at \in [Op -> Steps] /\ job \in [Op -> Job \cup {NoJob}]
      /\ tenants \in [Tenant -> Instance \cup {NoInstance}]
  BY DEF IInv, TypeOK
<1>7. CASE Registered(t)
  <2>1. /\ at' = [at EXCEPT ![o] = "idle"] /\ job' = [job EXCEPT ![o] = NoJob]
        /\ UNCHANGED tenants
    BY <1>2, <1>7 DEF Insert, Return, Move
  <2>2. Others(o) /\ at'[o] = "idle" /\ ~Busy(o)'
    BY <2>1, Goes DEF Busy
  <2>3. Acts(o, t, i)
    BY <1>1, <1>2, <1>4, <1>5, <2>1, <2>2 DEF Acts
  <2>4. ~Progress(o)
    BY <1>1, <1>2, <1>7 DEF Progress
  <2>5. tenants'[t] # NoInstance /\ tenants'[t] \in unsaved' => t \in disturbed'
    BY <1>1, <2>1 DEF HeldInv, Registered
  <2> QED
    BY <1>1, <1>2, <2>1, <2>2, <2>3, <2>4, <2>5, Proceeds
<1>8. CASE ~Registered(t)
  <2>1. /\ at' = [at EXCEPT ![o] = "truncate"] /\ UNCHANGED job
        /\ tenants' = [tenants EXCEPT ![t] = i]
    BY <1>2, <1>8 DEF Insert, Move
  <2>2. /\ Others(o) /\ at'[o] = "truncate" /\ Busy(o)' /\ job'[o] = job[o]
    BY <1>6, <2>1 DEF Others, Busy
  <2>3. /\ tenants'[t] = i
        /\ \A u \in Tenant \ {t} : tenants'[u] = tenants[u]
    BY <1>6, <2>1
  <2>4. Acts(o, t, i)
    BY <1>1, <1>2, <1>4, <1>5, <2>2, <2>3 DEF Acts
  <2>5. Progress(o) => Progress(o)'
    <3>1. Progress(o) => router'[i] = job[o].cfg
      BY <1>1, <1>2 DEF Progress
    <3>2. Progress(o) => Saving(o)'
      BY <1>2, <1>3, <2>2, <2>3, <3>1 DEF Saving, Kept
    <3> QED
      BY <2>2, <3>2 DEF Progress
  <2>6. tenants'[t] \notin unsaved'
    BY <1>1, <1>2, <2>3 DEF HeldInv
  <2> QED
    BY <1>1, <1>2, <2>2, <2>3, <2>4, <2>5, <2>6, Proceeds
<1> QED
  BY <1>7, <1>8

(* Closing pools is nothing to the router and the file.                    *)
LEMMA CloseAgrees ==
  ASSUME IInv, IInv', HeldInv, AgreeInv, NEW o \in Op, Close(o)
  PROVE  HeldInv' /\ AgreeInv'
<1>1. /\ at[o] = "close" /\ Busy(o) /\ at' = [at EXCEPT ![o] = "erase"]
      /\ UNCHANGED <<tenants, config, router, disk, writers, base, job, disturbed, unsaved>>
  BY DEF Close, Move, Busy, fileVars, ghostVars
<1>2. PICK t \in Tenant, i \in Instance \cup {NoInstance} : t = job[o].tenant /\ i = job[o].inst
  BY <1>1, Working
<1>3. /\ Others(o) /\ at'[o] = "erase" /\ Busy(o)' /\ job'[o] = job[o]
  BY <1>1 DEF IInv, TypeOK, Others, Busy
<1>4. Acts(o, t, NoInstance)
  BY <1>1, <1>2, <1>3, StoreAssumption DEF Acts
<1>5. Progress(o) => Progress(o)'
  BY <1>1, <1>3 DEF Progress, Registered
<1>6. tenants'[t] # NoInstance /\ tenants'[t] \in unsaved' => t \in disturbed'
  BY <1>1 DEF HeldInv, Registered
<1> QED
  BY <1>1, <1>2, <1>3, <1>4, <1>5, <1>6, Proceeds

(* The file of a tenant that was removed goes, or it is disturbed.         *)
LEMMA EraseAgrees ==
  ASSUME IInv, IInv', HeldInv, AgreeInv, NEW o \in Op, Erase(o)
  PROVE  HeldInv' /\ AgreeInv'
<1>1. /\ at[o] = "erase" /\ Busy(o)
      /\ at' = [at EXCEPT ![o] = "idle"] /\ job' = [job EXCEPT ![o] = NoJob]
      /\ UNCHANGED <<tenants, config, router, base, unsaved>>
  BY DEF Erase, Return, Move, Busy, instanceVars
<1>2. PICK t \in Tenant, i \in Instance \cup {NoInstance} : t = job[o].tenant /\ i = job[o].inst
  BY <1>1, Working
<1>3. Others(o) /\ at'[o] = "idle" /\ ~Busy(o)'
  BY <1>1, Goes DEF Busy
<1>4. /\ disk \in [Tenant -> Config \cup Unreadable] /\ writers \in [Tenant -> SUBSET Op]
  BY DEF IInv, TypeOK
<1>5. \/ /\ disk' = [disk EXCEPT ![t] = NoConfig]
         /\ writers' = [writers EXCEPT ![t] = {}] /\ UNCHANGED disturbed
      \/ disturbed' = disturbed \cup {t} /\ UNCHANGED <<disk, writers>>
  BY <1>2 DEF Erase
<1>6. /\ \A u \in Tenant \ {t} : /\ disk'[u] = disk[u] /\ writers'[u] = writers[u]
                                 /\ u \in disturbed' <=> u \in disturbed
      /\ t \in disturbed => t \in disturbed'
      /\ t \notin disturbed' => disk'[t] = NoConfig
  BY <1>4, <1>5
<1>7. Acts(o, t, NoInstance)
  BY <1>1, <1>2, <1>3, <1>6, StoreAssumption DEF Acts
<1>8. Progress(o) /\ t \notin disturbed' => Agrees(t)'
  <2>1. Progress(o) => ~Registered(t)'
    BY <1>1, <1>2 DEF Progress, Registered
  <2> QED
    BY <1>6, <2>1 DEF Agrees, Readable, Unreadable
<1>9. tenants'[t] # NoInstance /\ tenants'[t] \in unsaved' => t \in disturbed'
  BY <1>1, <1>6 DEF HeldInv, Registered
<1> QED
  BY <1>1, <1>2, <1>3, <1>7, <1>8, <1>9, Proceeds

(* What is not saved yet: the approvals in force go with the new content.  *)
LEMMA GenerateAgrees ==
  ASSUME IInv, IInv', HeldInv, AgreeInv, NEW o \in Op, NEW x \in Content,
         Generate(o, x)
  PROVE  HeldInv' /\ AgreeInv'
<1>1. /\ at[o] = "generate" /\ Busy(o)
      /\ UNCHANGED <<tenants, config, router, disk, writers, base, disturbed, unsaved>>
  BY DEF Generate, Busy, instanceVars, fileVars, ghostVars
<1>2. PICK t \in Tenant, i \in Instance :
          /\ t = job[o].tenant /\ i = job[o].inst /\ job[o] \in Job
          /\ job[o].kind \in Kinds /\ at[o] \in StepsOf[job[o].kind]
  BY <1>1, Working DEF Holding
<1>3. job[o].kind = "rewrite"
  BY <1>1, <1>2 DEF Kinds, StepsOf
<1> DEFINE c == [content |-> x, approved |-> config[i].approved]
           j == [job[o] EXCEPT !.cfg = c]
<1>4. /\ j.inst = i /\ j.tenant = t /\ j.kind = "rewrite" /\ j.cfg = c
      /\ c.approved = config[i].approved
  BY <1>2, <1>3 DEF Job
<1>5. /\ at' = [at EXCEPT ![o] = "truncate"] /\ job' = [job EXCEPT ![o] = j]
  BY <1>2 DEF Generate, Move, IInv, TypeOK
<1> HIDE DEF c, j
<1>6. Others(o) /\ at'[o] = "truncate" /\ Busy(o)' /\ job'[o] = j
  <2>1. Others(o) /\ at'[o] = "truncate" /\ job'[o] = j
    BY <1>5, Goes
  <2> QED
    BY <2>1 DEF Busy
<1>7. Acts(o, t, NoInstance)
  BY <1>1, <1>2, <1>4, <1>6, StoreAssumption DEF Acts
<1>8. t \notin disturbed /\ Progress(o) => Progress(o)'
  <2> SUFFICES ASSUME t \notin disturbed, Progress(o) PROVE Progress(o)'
    OBVIOUS
  <2>1. tenants[t] = i /\ Registered(t)
    BY <1>1, <1>2, StoreAssumption DEF Progress, Registered
  <2>2. ~Approving(i)
    <3> SUFFICES ASSUME NEW p \in Op, Busy(p), job[p].kind = "approve", job[p].inst = i
                 PROVE  FALSE
      BY DEF Approving
    <3>1. p # o /\ job[p].tenant = t
      BY <1>3, <2>1 DEF HeldInv
    <3> QED
      BY <1>1, <1>2, <3>1 DEF HeldInv
  <2>3. router[i] = config[i]
    BY <2>1, <2>2 DEF HeldInv, IInv, RouterMatchesConfig
  <2>4. Saving(o)'
    BY <1>1, <1>4, <1>6, <2>1, <2>3 DEF Saving, Kept
  <2> QED
    BY <1>6, <2>4 DEF Progress
<1>9. tenants'[t] # NoInstance /\ tenants'[t] \in unsaved' => t \in disturbed'
  BY <1>1 DEF HeldInv, Registered
<1>10. i \in Instance \cup {NoInstance}
  OBVIOUS
<1> QED
  BY <1>1, <1>2, <1>3, <1>4, <1>6, <1>7, <1>8, <1>9, Proceeds

(* An undisturbed file has this writer only.                               *)
LEMMA TruncateAgrees ==
  ASSUME IInv, IInv', HeldInv, AgreeInv, NEW o \in Op, Truncate(o)
  PROVE  HeldInv' /\ AgreeInv'
<1>1. /\ at[o] = "truncate" /\ Busy(o) /\ at' = [at EXCEPT ![o] = "write"]
      /\ UNCHANGED <<tenants, config, router, base, job, disturbed, unsaved>>
  BY DEF Truncate, Move, Busy, instanceVars, ghostVars
<1>2. PICK t \in Tenant, i \in Instance \cup {NoInstance} : t = job[o].tenant /\ i = job[o].inst
  BY <1>1, Working
<1>3. /\ Others(o) /\ at'[o] = "write" /\ Busy(o)' /\ job'[o] = job[o]
  BY <1>1 DEF IInv, TypeOK, Others, Busy
<1>4. /\ disk \in [Tenant -> Config \cup Unreadable] /\ writers \in [Tenant -> SUBSET Op]
  BY DEF IInv, TypeOK
<1>5. /\ disk' = [disk EXCEPT ![t] = Empty]
      /\ writers' = [writers EXCEPT ![t] = @ \cup {o}]
  BY <1>2 DEF Truncate
<1>6. /\ \A u \in Tenant \ {t} : disk'[u] = disk[u] /\ writers'[u] = writers[u]
      /\ disk'[t] = Empty /\ o \in writers'[t]
  BY <1>4, <1>5
<1>7. Acts(o, t, NoInstance)
  BY <1>1, <1>2, <1>3, <1>6, StoreAssumption DEF Acts
<1>8. Progress(o) => Progress(o)'
  <2>1. Progress(o) => Saving(o)'
    BY <1>1, <1>3 DEF Progress, Saving, Kept, Registered
  <2> QED
    BY <1>2, <1>3, <1>6, <2>1 DEF Progress
<1>9. tenants'[t] # NoInstance /\ tenants'[t] \in unsaved' => t \in disturbed'
  BY <1>1 DEF HeldInv, Registered
<1> QED
  BY <1>1, <1>2, <1>3, <1>7, <1>8, <1>9, Proceeds

(* What is written is what was to be saved, and that is what the tenant is *)
(* served with, or will be.                                                *)
LEMMA WriteAgrees ==
  ASSUME IInv, IInv', HeldInv, AgreeInv, NEW o \in Op, Write(o)
  PROVE  HeldInv' /\ AgreeInv'
<1>1. /\ at[o] = "write" /\ Busy(o) /\ AfterSave(o, TRUE)
      /\ UNCHANGED <<tenants, config, router, base, disturbed, unsaved>>
  BY DEF Write, Busy, ghostVars
<1>2. PICK t \in Tenant, i \in Instance :
          /\ t = job[o].tenant /\ i = job[o].inst /\ job[o] \in Job
          /\ job[o].kind \in Kinds /\ at[o] \in StepsOf[job[o].kind]
          /\ job[o].cfg \in Config
  BY <1>1, Working DEF Holding, Carrying
<1>3. PICK c \in Config : c = job[o].cfg
  BY <1>2
<1>4. /\ disk \in [Tenant -> Config \cup Unreadable] /\ writers \in [Tenant -> SUBSET Op]
      /\ path \in [Instance -> {"saved", "base"}]
      /\ at \in [Op -> Steps] /\ job \in [Op -> Job \cup {NoJob}]
  BY DEF IInv, TypeOK
<1>5. PICK f \in Written(o) : disk' = [disk EXCEPT ![t] = f]
  BY <1>2 DEF Write
<1>6. /\ writers' = [writers EXCEPT ![t] = @ \ {o}]
      /\ path' = [path EXCEPT ![i] = "saved"]
  BY <1>2 DEF Write
<1>7. /\ \A u \in Tenant \ {t} : disk'[u] = disk[u] /\ writers'[u] = writers[u]
      /\ disk'[t] = f /\ path'[i] = "saved"
  BY <1>4, <1>5, <1>6
<1>8. Progress(o) => f = c /\ Saving(o)
  BY <1>1, <1>2, <1>3, <1>5 DEF Progress, Written
<1>9. Readable(c)
  <2>1. c \in [content : Content, approved : SUBSET Tool]
    BY DEF Config
  <2> QED
    BY <2>1, StoreAssumption DEF Readable, Unreadable
<1>10. /\ Saving(o) => /\ tenants[t] = i /\ Registered(t) /\ Kept(o, c)
                       /\ job[o].kind = "add" => router[i] = c
                       /\ job[o].kind = "approve" => config[i] = c
  BY <1>2, <1>3, StoreAssumption DEF Saving, Registered
<1>11. tenants'[t] # NoInstance /\ tenants'[t] \in unsaved' => t \in disturbed'
  BY <1>1 DEF HeldInv, Registered
<1>12. CASE job[o].kind = "approve"
  <2>1. at' = [at EXCEPT ![o] = "rebuild"] /\ UNCHANGED job
    BY <1>1, <1>12 DEF AfterSave, Move
  <2>2. /\ Others(o) /\ at'[o] = "rebuild" /\ Busy(o)' /\ job'[o] = job[o]
    BY <1>4, <2>1 DEF Others, Busy
  <2>3. Acts(o, t, NoInstance)
    BY <1>1, <1>2, <1>7, <2>2, StoreAssumption DEF Acts
  <2>4. Progress(o) => Progress(o)'
    BY <1>1, <1>2, <1>7, <1>8, <1>10, <1>12, <2>2 DEF Progress
  <2> QED
    BY <1>1, <1>2, <1>11, <2>2, <2>3, <2>4, Proceeds
<1>13. CASE job[o].kind \in {"update", "rewrite"}
  <2> DEFINE j == [job[o] EXCEPT !.from = "saved", !.inst = NoInstance, !.cfg = NoConfig]
  <2>1. /\ j.tenant = t /\ j.kind = job[o].kind /\ j.inst = NoInstance
        /\ j.from = "saved"
    BY <1>2 DEF Job
  <2>2. at' = [at EXCEPT ![o] = "load"] /\ job' = [job EXCEPT ![o] = j]
    <3>1. /\ Move(o, "load")
          /\ job' = [job EXCEPT ![o].from = path'[i], ![o].inst = NoInstance, ![o].cfg = NoConfig]
      BY <1>1, <1>2, <1>13 DEF AfterSave
    <3> QED
      BY <1>4, <1>7, <3>1 DEF Move
  <2> HIDE DEF j
  <2>3. /\ Others(o) /\ at'[o] = "load" /\ Busy(o)' /\ job'[o] = j
    <3>1. Others(o) /\ at'[o] = "load" /\ job'[o] = j
      BY <2>2, Goes
    <3> QED
      BY <3>1 DEF Busy
  <2>4. Acts(o, t, NoInstance)
    BY <1>1, <1>2, <1>7, <2>1, <2>3, StoreAssumption DEF Acts
  <2>5. Progress(o) => Progress(o)'
    <3>1. Saving(o) => Registered(t)' /\ Kept(o, c)'
      BY <1>1, <1>2, <1>10, <2>1, <2>3 DEF Kept, Registered
    <3>2. Progress(o) => /\ Registered(t)' /\ disk'[t] = c /\ Kept(o, c)'
      BY <1>7, <1>8, <3>1
    <3>3. Progress(o) => Kept(o, disk[t])'
      BY <3>2
    <3> QED
      BY <1>9, <2>1, <2>3, <3>2, <3>3 DEF Progress, Readable
  <2> QED
    BY <1>1, <1>2, <1>11, <2>1, <2>3, <2>4, <2>5, Proceeds
<1>14. CASE job[o].kind \notin {"approve", "update", "rewrite"}
  <2>1. job[o].kind = "add"
    BY <1>1, <1>2, <1>14 DEF Kinds, StepsOf
  <2>2. at' = [at EXCEPT ![o] = "idle"] /\ job' = [job EXCEPT ![o] = NoJob]
    BY <1>1, <1>14 DEF AfterSave, Return, Move
  <2>3. Others(o) /\ at'[o] = "idle" /\ ~Busy(o)'
    BY <2>2, Goes DEF Busy
  <2>4. Acts(o, t, NoInstance)
    BY <1>1, <1>2, <1>7, <2>3, StoreAssumption DEF Acts
  <2>5. Progress(o) => Agrees(t)'
    <3>1. Progress(o) => /\ Registered(t)' /\ router'[tenants'[t]] = c
                         /\ disk'[t] = c
      BY <1>1, <1>7, <1>8, <1>10, <2>1 DEF Registered
    <3> QED
      BY <1>9, <3>1 DEF Agrees, Restored, OwnConfig, Readable
  <2> QED
    BY <1>1, <1>2, <1>11, <2>3, <2>4, <2>5, Proceeds
<1> QED
  BY <1>12, <1>13, <1>14

(* A save that fails disturbs its tenant.                                  *)
LEMMA FailureAgrees ==
  ASSUME IInv, IInv', HeldInv, AgreeInv, NEW o \in Op, SaveFails(o)
  PROVE  HeldInv' /\ AgreeInv'
<1>1. /\ at[o] \in {"truncate", "write"} /\ Busy(o) /\ AfterSave(o, FALSE)
      /\ UNCHANGED <<tenants, config, router, base, disk, path>>
  BY DEF SaveFails, Busy
<1>2. PICK t \in Tenant, i \in Instance :
          /\ t = job[o].tenant /\ i = job[o].inst /\ job[o] \in Job
          /\ \A u \in Tenant \ {t} : tenants[u] # i
          /\ \A p \in Op \ {o} : at[p] = "insert" => job[p].inst # i
  BY <1>1, Working DEF Holding
<1>3. /\ writers \in [Tenant -> SUBSET Op] /\ path \in [Instance -> {"saved", "base"}]
      /\ job \in [Op -> Job \cup {NoJob}]
  BY DEF IInv, TypeOK
<1>4. /\ writers' = [writers EXCEPT ![t] = @ \ {o}]
      /\ disturbed' = disturbed \cup {t}
      /\ unsaved' \in {unsaved, unsaved \cup {i}}
  BY <1>2 DEF SaveFails
<1>5. /\ \A u \in Tenant \ {t} : /\ writers'[u] = writers[u]
                                 /\ u \in disturbed' <=> u \in disturbed
      /\ t \in disturbed'
      /\ \A k \in Instance \ {i} : k \in unsaved' => k \in unsaved
  BY <1>3, <1>4
<1>6. PICK s \in {"idle", "load"}, f \in {"saved", "base"} :
          /\ at' = [at EXCEPT ![o] = s]
          /\ job' = [job EXCEPT ![o] =
                        IF s = "idle" THEN NoJob
                        ELSE [job[o] EXCEPT !.from = f, !.inst = NoInstance, !.cfg = NoConfig]]
  <2>1. CASE job[o].kind = "update"
    <3>1. PICK f \in {"saved", "base"} : f = path'[i]
      BY <1>1, <1>3
    <3>2. /\ Move(o, "load")
          /\ job' = [job EXCEPT ![o].from = f, ![o].inst = NoInstance, ![o].cfg = NoConfig]
      BY <1>1, <1>2, <2>1, <3>1 DEF AfterSave
    <3>3. job' = [job EXCEPT ![o] = [job[o] EXCEPT !.from = f, !.inst = NoInstance,
                                                   !.cfg = NoConfig]]
      BY <1>3, <3>2
    <3> QED
      BY <3>2, <3>3 DEF Move
  <2>2. CASE job[o].kind # "update"
    <3>1. at' = [at EXCEPT ![o] = "idle"] /\ job' = [job EXCEPT ![o] = NoJob]
      BY <1>1, <2>2 DEF AfterSave, Return, Move
    <3> QED
      BY <3>1
  <2> QED
    BY <2>1, <2>2
<1> DEFINE j == [job[o] EXCEPT !.from = f, !.inst = NoInstance, !.cfg = NoConfig]
           r == IF s = "idle" THEN NoJob ELSE j
<1>7. j.tenant = t /\ j.kind = job[o].kind /\ j.inst = NoInstance
  BY <1>2 DEF Job
<1> HIDE DEF j
<1>8. job' = [job EXCEPT ![o] = r]
  BY <1>6 DEF j
<1>9. s # "idle" => r = j
  OBVIOUS
<1> HIDE DEF r
<1>10. Others(o) /\ at'[o] = s /\ job'[o] = r
  BY <1>6, <1>8, Goes
<1>11. Busy(o)' => job'[o].tenant = t /\ job'[o].kind = job[o].kind /\ job'[o].inst = NoInstance
  BY <1>7, <1>9, <1>10 DEF Busy
<1>12. Acts(o, t, i)
  BY <1>1, <1>2, <1>5, <1>10, <1>11 DEF Acts
<1>13. at'[o] # "insert"
  BY <1>10
<1>14. i \in Instance \cup {NoInstance}
  OBVIOUS
<1> QED
  BY <1>1, <1>2, <1>5, <1>11, <1>12, <1>13, <1>14, Proceeds

(* What is read is the tenant's file.                                      *)
LEMMA LoadAgrees ==
  ASSUME IInv, IInv', HeldInv, AgreeInv, NEW o \in Op, Load(o)
  PROVE  HeldInv' /\ AgreeInv'
<1>1. /\ at[o] = "load" /\ Busy(o)
      /\ UNCHANGED <<tenants, config, router, disk, writers, base, disturbed, unsaved>>
  BY DEF Load, Busy, instanceVars, fileVars, ghostVars
<1>2. PICK t \in Tenant : t = job[o].tenant /\ job[o] \in Job
  BY <1>1, Working
<1>3. tenants'[t] # NoInstance /\ tenants'[t] \in unsaved' => t \in disturbed'
  BY <1>1 DEF HeldInv, Registered
<1>4. Progress(o) => /\ Registered(t) /\ Loaded(o) = disk[t] /\ Readable(Loaded(o))
                     /\ Kept(o, disk[t])
  BY <1>1, <1>2 DEF Progress, Loaded
<1>5. NoInstance \in Instance \cup {NoInstance}
  OBVIOUS
<1>6. CASE Readable(Loaded(o))
  <2>1. PICK c : c = Loaded(o)
    OBVIOUS
  <2> DEFINE j == [job[o] EXCEPT !.cfg = c]
  <2>2. /\ j.tenant = t /\ j.kind = job[o].kind /\ j.inst = job[o].inst /\ j.cfg = c
    BY <1>2 DEF Job
  <2>3. at' = [at EXCEPT ![o] = "lookup"] /\ job' = [job EXCEPT ![o] = j]
    BY <1>6, <2>1 DEF Load, Move, IInv, TypeOK
  <2> HIDE DEF j
  <2>4. /\ Others(o) /\ at'[o] = "lookup" /\ Busy(o)' /\ job'[o] = j
    <3>1. Others(o) /\ at'[o] = "lookup" /\ job'[o] = j
      BY <2>3, Goes
    <3> QED
      BY <3>1 DEF Busy
  <2>5. Acts(o, t, NoInstance)
    BY <1>1, <1>2, <2>2, <2>4, StoreAssumption DEF Acts
  <2>6. Progress(o) => Progress(o)'
    <3>1. Progress(o) => Registered(t)' /\ c = disk'[t] /\ Kept(o, c)'
      BY <1>1, <1>2, <1>4, <2>1, <2>2, <2>4 DEF Kept, Registered
    <3>2. job'[o].cfg = c
      BY <2>2, <2>4
    <3>3. Kept(o, c)' => Kept(o, job[o].cfg)'
      BY <3>2
    <3> QED
      BY <2>2, <2>4, <3>1, <3>2, <3>3 DEF Progress
  <2> QED
    BY <1>1, <1>2, <1>3, <1>5, <2>2, <2>4, <2>5, <2>6, Proceeds
<1>7. CASE ~Readable(Loaded(o))
  <2>1. at' = [at EXCEPT ![o] = "idle"] /\ job' = [job EXCEPT ![o] = NoJob]
    BY <1>7 DEF Load, Return, Move
  <2>2. Others(o) /\ at'[o] = "idle" /\ ~Busy(o)'
    BY <2>1, Goes DEF Busy
  <2>3. Acts(o, t, NoInstance)
    BY <1>1, <1>2, <2>2, StoreAssumption DEF Acts
  <2> QED
    BY <1>1, <1>2, <1>3, <1>4, <1>5, <1>7, <2>2, <2>3, Proceeds
<1> QED
  BY <1>6, <1>7

(* The instance it is for is the tenant's.                                 *)
LEMMA LookupAgrees ==
  ASSUME IInv, IInv', HeldInv, AgreeInv, NEW o \in Op, Lookup(o)
  PROVE  HeldInv' /\ AgreeInv'
<1>1. /\ at[o] = "lookup" /\ Busy(o)
      /\ UNCHANGED <<tenants, config, router, disk, writers, base, disturbed, unsaved>>
  BY DEF Lookup, Busy, instanceVars, fileVars, ghostVars
<1>2. PICK t \in Tenant : t = job[o].tenant /\ job[o] \in Job
  BY <1>1, Working
<1>3. tenants'[t] # NoInstance /\ tenants'[t] \in unsaved' => t \in disturbed'
  BY <1>1 DEF HeldInv, Registered
<1>4. Progress(o) => Registered(t) /\ job[o].cfg = disk[t] /\ Kept(o, job[o].cfg)
  BY <1>1, <1>2 DEF Progress
<1>5. NoInstance \in Instance \cup {NoInstance}
  OBVIOUS
<1>6. CASE Registered(t)
  <2>1. PICK i \in Instance : i = tenants[t]
    BY <1>6 DEF Registered, IInv, TypeOK
  <2> DEFINE j == [job[o] EXCEPT !.inst = i]
  <2>2. /\ j.tenant = t /\ j.kind = job[o].kind /\ j.inst = i /\ j.cfg = job[o].cfg
    BY <1>2 DEF Job
  <2>3. at' = [at EXCEPT ![o] = "install"] /\ job' = [job EXCEPT ![o] = j]
    BY <1>2, <1>6, <2>1 DEF Lookup, Move, IInv, TypeOK
  <2> HIDE DEF j
  <2>4. /\ Others(o) /\ at'[o] = "install" /\ Busy(o)' /\ job'[o] = j
    <3>1. Others(o) /\ at'[o] = "install" /\ job'[o] = j
      BY <2>3, Goes
    <3> QED
      BY <3>1 DEF Busy
  <2>5. Acts(o, t, NoInstance)
    BY <1>1, <1>2, <2>2, <2>4, StoreAssumption DEF Acts
  <2>6. Progress(o) => Progress(o)'
    <3>1. Progress(o) => Kept(o, job[o].cfg)'
      BY <1>1, <1>2, <1>4, <2>2, <2>4 DEF Kept, Registered
    <3> QED
      BY <1>1, <1>4, <2>1, <2>2, <2>4, <3>1 DEF Progress
  <2> QED
    BY <1>1, <1>2, <1>3, <1>5, <1>6, <2>1, <2>2, <2>4, <2>5, <2>6, Proceeds
<1>7. CASE ~Registered(t)
  <2>1. at' = [at EXCEPT ![o] = "idle"] /\ job' = [job EXCEPT ![o] = NoJob]
    BY <1>2, <1>7 DEF Lookup, Return, Move
  <2>2. Others(o) /\ at'[o] = "idle" /\ ~Busy(o)'
    BY <2>1, Goes DEF Busy
  <2>3. Acts(o, t, NoInstance)
    BY <1>1, <1>2, <2>2, StoreAssumption DEF Acts
  <2> QED
    BY <1>1, <1>2, <1>3, <1>4, <1>5, <1>7, <2>2, <2>3, Proceeds
<1> QED
  BY <1>6, <1>7

(* The tenant is served with what its file says.                           *)
LEMMA InstallAgrees ==
  ASSUME IInv, IInv', HeldInv, AgreeInv, NEW o \in Op, Install(o) \/ Rebuild(o)
  PROVE  HeldInv' /\ AgreeInv'
<1>1. /\ at[o] \in {"install", "rebuild"} /\ Busy(o)
      /\ at' = [at EXCEPT ![o] = "idle"] /\ job' = [job EXCEPT ![o] = NoJob]
      /\ UNCHANGED <<tenants, disk, writers, base, disturbed>>
  BY DEF Install, Rebuild, Return, Move, Busy, fileVars
<1>2. PICK t \in Tenant, i \in Instance :
          /\ t = job[o].tenant /\ i = job[o].inst
          /\ at[o] = "install" => job[o].cfg \in Config
          /\ \A u \in Tenant \ {t} : tenants[u] # i
          /\ \A p \in Op \ {o} : at[p] = "insert" => job[p].inst # i
  BY <1>1, Working DEF Holding, Carrying
<1>3. Others(o) /\ at'[o] = "idle" /\ ~Busy(o)'
  BY <1>1, Goes DEF Busy
<1>4. /\ config \in [Instance -> Config \cup {NoConfig}]
      /\ router \in [Instance -> Config \cup {NoConfig}]
  BY DEF IInv, TypeOK
<1>5. PICK c : c = IF at[o] = "install" THEN job[o].cfg ELSE config[i]
  OBVIOUS
<1>6. /\ router' = [router EXCEPT ![i] = c]
      /\ config' \in {config, [config EXCEPT ![i] = c]}
      /\ unsaved' = unsaved \ {i}
  BY <1>2, <1>5 DEF Install, Rebuild
<1>7. /\ router'[i] = c
      /\ \A k \in Instance \ {i} : /\ router'[k] = router[k] /\ config'[k] = config[k]
                                   /\ k \in unsaved' => k \in unsaved
  BY <1>4, <1>6
<1>8. Acts(o, t, i)
  BY <1>1, <1>2, <1>3, <1>7 DEF Acts
<1>9. Progress(o) => Agrees(t)'
  <2>1. Progress(o) => tenants[t] = i /\ disk[t] = c
    BY <1>1, <1>2, <1>5 DEF Progress
  <2>2. Busy(o) => JobOK(o)
    BY DEF IInv
  <2>3. c \in Config
    BY <1>1, <1>2, <1>5, <2>2 DEF JobOK, Holding
  <2>4. Readable(c)
    <3>1. c \in [content : Content, approved : SUBSET Tool]
      BY <2>3 DEF Config
    <3> QED
      BY <3>1, StoreAssumption DEF Readable, Unreadable
  <2>5. i # NoInstance
    BY StoreAssumption
  <2> QED
    BY <1>1, <1>7, <2>1, <2>4, <2>5 DEF Agrees, Registered, Restored, OwnConfig, Readable
<1>10. tenants'[t] # NoInstance /\ tenants'[t] \in unsaved' => t \in disturbed'
  BY <1>1, <1>6 DEF HeldInv, Registered
<1>11. i \in Instance \cup {NoInstance}
  OBVIOUS
<1> QED
  BY <1>1, <1>2, <1>3, <1>8, <1>9, <1>10, <1>11, Proceeds

(* The configuration to be saved is the instance's.                        *)
LEMMA MarkAgrees ==
  ASSUME IInv, IInv', HeldInv, AgreeInv, NEW o \in Op, Mark(o)
  PROVE  HeldInv' /\ AgreeInv'
<1>1. /\ at[o] = "mark" /\ Busy(o)
      /\ UNCHANGED <<tenants, router, disk, writers, base, disturbed, unsaved>>
  BY DEF Mark, Busy, fileVars, ghostVars
<1>2. PICK t \in Tenant, i \in Instance :
          /\ t = job[o].tenant /\ i = job[o].inst /\ job[o] \in Job
          /\ job[o].kind \in Kinds /\ at[o] \in StepsOf[job[o].kind]
          /\ \A u \in Tenant \ {t} : tenants[u] # i
          /\ \A p \in Op \ {o} : at[p] = "insert" => job[p].inst # i
  BY <1>1, Working DEF Holding
<1>3. job[o].kind = "approve"
  BY <1>1, <1>2 DEF Kinds, StepsOf
<1>4. PICK c : c = config'[i]
  OBVIOUS
<1> DEFINE j == [job[o] EXCEPT !.cfg = c]
<1>5. j.inst = i /\ j.tenant = t /\ j.kind = "approve" /\ j.cfg = c
  BY <1>2, <1>3 DEF Job
<1>6. at' = [at EXCEPT ![o] = "truncate"] /\ job' = [job EXCEPT ![o] = j]
  BY <1>2, <1>4 DEF Mark, Move, IInv, TypeOK
<1> HIDE DEF j
<1>7. /\ Others(o) /\ at'[o] = "truncate" /\ Busy(o)' /\ job'[o] = j
  <2>1. Others(o) /\ at'[o] = "truncate" /\ job'[o] = j
    BY <1>6, Goes
  <2> QED
    BY <2>1 DEF Busy
<1>8. \A k \in Instance \ {i} : config'[k] = config[k]
  BY <1>2 DEF Mark, IInv, TypeOK
<1>9. Acts(o, t, i)
  BY <1>1, <1>2, <1>5, <1>7, <1>8 DEF Acts
<1>10. Progress(o) => Progress(o)'
  <2>1. Progress(o) => tenants[t] = i
    BY <1>1, <1>2 DEF Progress
  <2>2. Progress(o) => Saving(o)'
    BY <1>1, <1>4, <1>5, <1>7, <2>1 DEF Saving, Kept
  <2> QED
    BY <1>7, <2>2 DEF Progress
<1>11. tenants'[t] # NoInstance /\ tenants'[t] \in unsaved' => t \in disturbed'
  BY <1>1 DEF HeldInv, Registered
<1>12. i \in Instance \cup {NoInstance}
  OBVIOUS
<1> QED
  BY <1>1, <1>2, <1>3, <1>5, <1>7, <1>9, <1>10, <1>11, <1>12, Proceeds

(* An edit of the --config file disturbs the one tenant that it is of.     *)
LEMMA EditAgrees ==
  ASSUME IInv, HeldInv, AgreeInv, NEW b \in BaseConfigs, EditBase(b)
  PROVE  HeldInv' /\ AgreeInv'
<1>1. /\ disturbed' = disturbed \cup {Default}
      /\ UNCHANGED <<tenants, config, router, disk, writers, at, job, unsaved>>
  BY DEF EditBase, instanceVars
<1>2. HeldInv'
  BY <1>1 DEF HeldInv, Busy, Registered
<1>3. \A u \in Tenant \ {Default} : Agrees(u)' <=> Agrees(u)
  BY <1>1 DEF Agrees, Registered, Restored, OwnConfig, BaseConfig, Readable
<1>4. \A u \in Tenant \ disturbed' : Quiet(u)' => Agrees(u)'
  BY <1>1, <1>3 DEF AgreeInv, Quiet, Busy
<1>5. ASSUME NEW o \in Op, Busy(o)', job'[o].tenant \notin disturbed'
      PROVE  Progress(o)'
  <2>1. Busy(o) /\ Progress(o) /\ job'[o] = job[o] /\ at'[o] = at[o]
    BY <1>1, <1>5 DEF AgreeInv, Busy
  <2>2. PICK u \in Tenant : u = job[o].tenant
    BY <2>1, Carried
  <2>3. u # Default
    BY <1>1, <1>5, <2>1, <2>2
  <2>4. Agrees(u)' <=> Agrees(u)
    BY <1>3, <2>3
  <2>5. Saving(o)' <=> Saving(o)
    BY <1>1 DEF Saving, Kept, Registered
  <2>6. /\ Kept(o, disk[u])' <=> Kept(o, disk[u])
        /\ Kept(o, job[o].cfg)' <=> Kept(o, job[o].cfg)
    BY <1>1 DEF Kept, Registered
  <2> QED
    BY <1>1, <2>1, <2>2, <2>4, <2>5, <2>6 DEF Progress, Registered, Readable
<1> QED
  BY <1>2, <1>4, <1>5 DEF AgreeInv

(* A start leaves every tenant as its files say, or disturbed.             *)
LEMMA RestartAgrees ==
  ASSUME IInv, Restart
  PROVE  HeldInv' /\ AgreeInv'
<1>1. PICK place \in [Tenant -> Instance \cup {NoInstance}],
           up \in [Tenant -> Config \cup {NoConfig}] :
         /\ \A t \in Tenant : (up[t] = NoConfig) <=> (place[t] = NoInstance)
         /\ \A t, u \in Tenant :
               t # u /\ place[t] = place[u] => place[t] = NoInstance
         /\ Booted(place, up)
         /\ disturbed' = {t \in Tenant : {up[t]} # FirstChoice(t)}
  BY DEF Restart
<1>2. /\ \A o \in Op : ~Busy(o)' /\ at'[o] # "insert"
      /\ unsaved' = {} /\ UNCHANGED <<disk, base>>
  BY DEF Restart, Busy
<1>3. HeldInv'
  BY <1>2 DEF HeldInv
<1>4. ASSUME NEW t \in Tenant, place[t] # NoInstance
      PROVE  router'[place[t]] = up[t]
  <2> DEFINE of(i) == CHOOSE u \in Tenant : place[u] = i
  <2>1. place[t] \in Instance
    BY <1>4
  <2>2. router' = [i \in Instance |-> IF \E u \in Tenant : place[u] = i
                                      THEN up[of(i)] ELSE NoConfig]
    BY <1>1 DEF Booted
  <2>3. of(place[t]) \in Tenant /\ place[of(place[t])] = place[t]
    OBVIOUS
  <2>4. of(place[t]) = t
    BY <1>1, <1>4, <2>3
  <2> HIDE DEF of
  <2> QED
    BY <2>1, <2>2, <2>4
<1>5. tenants' = place
  BY <1>1 DEF Booted
<1>6. ASSUME NEW t \in Tenant, t \notin disturbed' PROVE Agrees(t)'
  <2>1. {up[t]} = FirstChoice(t)
    BY <1>1, <1>6
  <2>2. Restored(t)' = Restored(t) /\ OwnConfig(t)' = OwnConfig(t)
        /\ Readable(disk[t])' = Readable(disk[t])
    BY <1>2 DEF Restored, OwnConfig, BaseConfig, Readable
  <2>3. CASE up[t] # NoConfig
    <3>1. /\ Registered(t)' /\ router'[tenants'[t]] = up[t]
      BY <1>1, <1>4, <1>5, <2>3 DEF Registered
    <3>2. FirstChoice(t) = Restored(t)
      <4>1. CASE OwnConfig(t) # {}
        BY <4>1 DEF FirstChoice, Restored
      <4>2. CASE OwnConfig(t) = {} /\ BaseConfig(t) # {}
        BY <4>2 DEF FirstChoice, Restored
      <4>3. CASE OwnConfig(t) = {} /\ BaseConfig(t) = {}
        BY <2>1, <2>3, <4>3 DEF FirstChoice
      <4> QED
        BY <4>1, <4>2, <4>3
    <3> QED
      BY <2>1, <2>2, <3>1, <3>2 DEF Agrees
  <2>4. CASE up[t] = NoConfig
    <3>1. ~Registered(t)'
      BY <1>1, <1>5, <2>4 DEF Registered
    <3>2. ~Readable(disk[t])
      <4> SUFFICES ASSUME Readable(disk[t]) PROVE FALSE
        OBVIOUS
      <4>1. FirstChoice(t) = {disk[t]}
        BY DEF FirstChoice, OwnConfig
      <4> QED
        BY <2>1, <2>4, <4>1 DEF Readable, Unreadable
    <3> QED
      BY <2>2, <3>1, <3>2 DEF Agrees
  <2> QED
    BY <2>3, <2>4
<1> QED
  BY <1>2, <1>3, <1>6 DEF AgreeInv

(* Every step keeps memory and disk in agreement.                          *)
LEMMA StepsAgree ==
  IInv /\ HeldInv /\ AgreeInv /\ [Next]_vars => HeldInv' /\ AgreeInv'
<1> SUFFICES ASSUME IInv, HeldInv, AgreeInv, [Next]_vars, IInv'
             PROVE  HeldInv' /\ AgreeInv'
  BY StepsKeep
<1>1. ASSUME NEW o \in Op, Start(o) \/ HotReload(o)
      PROVE  HeldInv' /\ AgreeInv'
  BY <1>1, StartAgrees
<1>2. ASSUME NEW o \in Op, Proceed(o)
      PROVE  HeldInv' /\ AgreeInv'
  BY <1>2, ConnectAgrees, EndsAgree, InsertAgrees, CloseAgrees, EraseAgrees,
     GenerateAgrees, TruncateAgrees, WriteAgrees, FailureAgrees, LoadAgrees,
     LookupAgrees, InstallAgrees, MarkAgrees DEF Proceed
<1>3. CASE UNCHANGED vars
  <2>1. /\ UNCHANGED <<tenants, config, router, disk, writers, base, at, job,
                       disturbed, unsaved>>
    BY <1>3 DEF vars, instanceVars, fileVars, ghostVars
  <2>2. HeldInv'
    BY <2>1 DEF HeldInv, Busy, Registered
  <2>3. \A u \in Tenant : Agrees(u)' <=> Agrees(u)
    BY <2>1 DEF Agrees, Registered, Restored, OwnConfig, BaseConfig, Readable
  <2>4. ASSUME NEW o \in Op, Busy(o)
        PROVE  Progress(o)' <=> Progress(o)
    <3>1. Agrees(job[o].tenant)' <=> Agrees(job[o].tenant)
      BY <2>1 DEF Agrees, Registered, Restored, OwnConfig, BaseConfig, Readable
    <3>2. Saving(o)' <=> Saving(o)
      BY <2>1 DEF Saving, Kept, Registered
    <3>3. /\ Kept(o, disk[job[o].tenant])' <=> Kept(o, disk[job[o].tenant])
          /\ Kept(o, job[o].cfg)' <=> Kept(o, job[o].cfg)
      BY <2>1 DEF Kept, Registered
    <3> QED
      BY <2>1, <3>1, <3>2, <3>3 DEF Progress, Registered, Readable
  <2> QED
    BY <2>1, <2>2, <2>3, <2>4 DEF AgreeInv, Quiet, Busy
<1> QED
  BY <1>1, <1>2, <1>3, EditAgrees, RestartAgrees DEF Next

(* Before the first start nothing is registered and nothing is saved.      *)
LEMMA InitAgrees == Init => HeldInv /\ AgreeInv
<1> SUFFICES ASSUME Init PROVE HeldInv /\ AgreeInv
  OBVIOUS
<1>1. /\ \A o \in Op : ~Busy(o) /\ at[o] # "insert"
      /\ \A t \in Tenant : ~Registered(t) /\ ~Readable(disk[t])
  BY DEF Init, Busy, Registered, Readable, Unreadable
<1> QED
  BY <1>1 DEF HeldInv, AgreeInv, Agrees

(* Memory and disk agree in every state the registry can be in.            *)
THEOREM Agreement == Spec => [](IInv /\ HeldInv /\ AgreeInv)
<1>1. Init => IInv /\ HeldInv /\ AgreeInv
  BY InitKeeps, InitAgrees
<1> QED
  BY <1>1, StepsKeep, StepsAgree, PTL DEF Spec

(* As long as the changes of a tenant have not overlapped or failed, a     *)
(* restart gives it back as it is served, also after a crash in the middle *)
(* of a change, whatever is done to other tenants meanwhile.               *)
THEOREM RestartHarmless == Spec => []RestartChangesNothing
<1>1. AgreeInv => RestartChangesNothing
  <2> SUFFICES ASSUME AgreeInv, NEW t \in Tenant \ disturbed, Quiet(t)
               PROVE  \/ Serving(t) = Restored(t)
                      \/ t = Default /\ ~Registered(t) /\ OwnConfig(t) = {}
    BY DEF RestartChangesNothing
  <2>1. Agrees(t)
    BY DEF AgreeInv
  <2> QED
    BY <2>1 DEF Agrees, Serving, Restored, OwnConfig, BaseConfig
<1> QED
  BY <1>1, Agreement, PTL

(* A rewrite and a reload keep the tools that were approved, as long as    *)
(* the changes of the tenant do not overlap.                               *)
THEOREM ApprovalsStay == Spec => ApprovalsKept
<1>1. IInv /\ HeldInv /\ AgreeInv /\ [Next]_vars =>
          [\A t \in Tenant : \A o \in Op :
              /\ t \notin disturbed
              /\ Install(o)
              /\ job[o].tenant = t
              /\ job[o].kind # "update"
              => router[tenants[t]].approved \subseteq router'[tenants[t]].approved
          ]_vars
  <2> SUFFICES ASSUME IInv, HeldInv, AgreeInv, NEW t \in Tenant, NEW o \in Op,
                      t \notin disturbed, Install(o), job[o].tenant = t,
                      job[o].kind # "update"
               PROVE  router[tenants[t]].approved \subseteq router'[tenants[t]].approved
    OBVIOUS
  <2>1. at[o] = "install" /\ Busy(o)
    BY DEF Install, Busy
  <2>2. PICK i \in Instance :
            /\ i = job[o].inst /\ job[o].kind \in Kinds
            /\ at[o] \in StepsOf[job[o].kind]
    BY <2>1, Working DEF Holding
  <2>3. job[o].kind = "rewrite"
    BY <2>1, <2>2 DEF Kinds, StepsOf, HeldInv
  <2>4. tenants[t] = i /\ Registered(t) /\ Kept(o, job[o].cfg)
    BY <2>1, <2>2, StoreAssumption DEF AgreeInv, Progress, Registered
  <2>5. router[i].approved \subseteq job[o].cfg.approved
    BY <2>3, <2>4 DEF Kept
  <2>6. router'[i] = job[o].cfg
    BY <2>2 DEF Install, IInv, TypeOK
  <2> QED
    BY <2>4, <2>5, <2>6
<1> QED
  BY <1>1, Agreement, PTL DEF Spec, ApprovalsKept
=============================================================================
