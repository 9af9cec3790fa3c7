------------------------------ MODULE TenantStore ------------------------------
(***************************************************************************)
(* The tenants of data-service: TenantStore's map of instances, each with  *)
(* its connection pools, configuration and router; the configurations kept *)
(* in TENANTS_DIR/{id}.json; and the admin handlers that change both       *)
(* (internal/server/tenant_lifecycle.go, tenant.go, tenant_admin.go,       *)
(* admin.go; the start-up in cmd/server/main.go).                          *)
(*                                                                         *)
(* Every request is a goroutine.  The store's mutex covers only the map    *)
(* accesses and the assignments of ReloadTenant, so a handler is a chain   *)
(* of steps that others interleave with: connecting, truncating the file,  *)
(* writing it, reading it back, looking the instance up, installing.  The  *)
(* process may stop between any two of them and start again from the disk. *)
(***************************************************************************)
EXTENDS Naturals, FiniteSets, Functions

CONSTANTS
    Tenant,             \* tenant ids
    Default,            \* the tenant of the --config file, or NoTenant
    NoTenant,
    Content,            \* what a configuration says but for its approvals
    Isolated,           \* contents with a readonly_dsn
    Tool,               \* write endpoints (paths)
    BaseConfigs,        \* what the operator may write to the --config file
    Op,                 \* the requests being handled
    Instance,           \* TenantInstance objects (bound on those in memory)
    NoInstance,
    NoConfig,           \* no configuration, no file
    Empty, Garbled,     \* a file that is truncated, or mixed from two
    NoJob,              \* a request that is over
    DiskMayFail,        \* may a write or a removal of a file fail?
    ConnectMayFail      \* may a database refuse a connection?

ASSUME StoreAssumption ==
    /\ NoTenant \notin Tenant
    /\ Default \in Tenant \cup {NoTenant}
    /\ Isolated \subseteq Content
    /\ NoInstance \notin Instance
    /\ BaseConfigs \subseteq [content : Content, approved : SUBSET Tool]
    /\ \A c \in [content : Content, approved : SUBSET Tool] :
           c \notin {NoConfig, Empty, Garbled}
    /\ Empty # NoConfig /\ Garbled # NoConfig /\ Empty # Garbled
    /\ DiskMayFail \in BOOLEAN
    /\ ConnectMayFail \in BOOLEAN

VARIABLES
    tenants,    \* TenantStore.tenants
    conn,       \* of each instance: Conn
    readonly,   \* ReadonlyConn
    config,     \* Config
    router,     \* Router: the configuration it was built from
    approved,   \* ApprovedTools
    path,       \* ConfigPath: the --config file, or the tenant's own
    sharing,    \* the approvals in progress that hold this ApprovedTools map
    disk,       \* TENANTS_DIR/{id}.json
    writers,    \* the writers whose open file is still the one at that path
    base,       \* the --config file
    changed,    \* fsnotify has seen base change, the debounce timer is set
    at,         \* the step a request is at
    job,        \* what it is about
    disturbed,  \* tenants with overlapping changes, a change of base or a failure
    unsaved     \* instances with an approval whose save failed

instanceVars == <<conn, readonly, config, router, approved, path, sharing>>
fileVars == <<disk, writers, base, changed>>
ghostVars == <<disturbed, unsaved>>
vars == <<tenants, instanceVars, fileVars, at, job, ghostVars>>

Config == [content : Content, approved : SUBSET Tool]
Unreadable == {NoConfig, Empty, Garbled}

Kinds == {"add", "remove", "update", "rewrite", "approve", "watch"}
Steps == {"idle", "connect", "insert", "truncate", "write", "load", "lookup",
          "install", "generate", "mark", "rebuild", "close", "erase"}

(* kind: the handler; from: the file a reload reads; cfg: the              *)
(* configuration it is carrying.                                           *)
Job == [kind : Kinds, tenant : Tenant, inst : Instance \cup {NoInstance},
        cfg : Config \cup {NoConfig}, tool : SUBSET Tool,
        from : {"saved", "base"}]

TypeOK ==
    /\ tenants \in [Tenant -> Instance \cup {NoInstance}]
    /\ conn \in [Instance -> {"closed", "open"}]
    /\ readonly \in [Instance -> {"none", "closed", "open"}]
    /\ config \in [Instance -> Config \cup {NoConfig}]
    /\ router \in [Instance -> Config \cup {NoConfig}]
    /\ approved \in [Instance -> SUBSET Tool]
    /\ path \in [Instance -> {"saved", "base"}]
    /\ sharing \in [Instance -> SUBSET Op]
    /\ disk \in [Tenant -> Config \cup Unreadable]
    /\ writers \in [Tenant -> SUBSET Op]
    /\ base \in Config \cup {NoConfig}
    /\ changed \in BOOLEAN
    /\ at \in [Op -> Steps]
    /\ job \in [Op -> Job \cup {NoJob}]
    /\ disturbed \subseteq Tenant
    /\ unsaved \subseteq Instance

-----------------------------------------------------------------------------
(* Files and instances.                                                    *)

(* config.Load succeeds on a whole configuration only.                     *)
ReadableExists(f) == f # NoConfig          \* mutant: os.Stat instead of Load
Readable(f) == f \notin Unreadable

Registered(t) == tenants[t] # NoInstance
Busy(o) == at[o] # "idle"

(* No one can reach the instance, and it keeps no connection.              *)
Free(i) ==
    /\ \A t \in Tenant : tenants[t] # i
    /\ \A o \in Op : Busy(o) => job[o].inst # i
    /\ conn[i] # "open"
    /\ readonly[i] # "open"

(* The connections buildTenantInstance opens for a configuration.          *)
ReadonlyFor(c) == IF c.content \in Isolated THEN "open" ELSE "none"

(* What the start-up may register for tenant t: its own file if it loads;  *)
(* the default tenant, the --config file if its own did not get it.        *)
OwnConfig(t) == IF Readable(disk[t]) THEN {disk[t]} ELSE {}
BaseConfig(t) == IF t = Default THEN {base} ELSE {}
FirstChoice(t) ==
    IF OwnConfig(t) # {} THEN OwnConfig(t)
    ELSE IF BaseConfig(t) # {} THEN BaseConfig(t)
    ELSE {NoConfig}
Bootable(t) ==
    IF ConnectMayFail THEN OwnConfig(t) \cup BaseConfig(t) \cup {NoConfig}
    ELSE FirstChoice(t)

(* main: memory is built from the files alone; place is the new map and up *)
(* the configurations its instances are built for.                         *)
Booted(place, up) ==
    LET placed(i) == \E t \in Tenant : place[t] = i
        of(i)     == CHOOSE t \in Tenant : place[t] = i
    IN
    /\ tenants' = place
    /\ conn' = [i \in Instance |-> IF placed(i) THEN "open" ELSE "closed"]
    /\ readonly' = [i \in Instance |->
                       IF placed(i) THEN ReadonlyFor(up[of(i)]) ELSE "none"]
    /\ config' = [i \in Instance |-> IF placed(i) THEN up[of(i)] ELSE NoConfig]
    /\ router' = config'
    /\ approved' = [i \in Instance |->
                       IF placed(i) THEN up[of(i)].approved ELSE {}]
    /\ path' = [i \in Instance |->
                   IF placed(i) /\ {up[of(i)]} # OwnConfig(of(i)) THEN "base"
                   ELSE "saved"]
    /\ sharing' = [i \in Instance |-> {}]

Restart ==
    /\ \E place \in [Tenant -> Instance \cup {NoInstance}],
          up \in [Tenant -> Config \cup {NoConfig}] :
          /\ \A t \in Tenant : /\ up[t] \in Bootable(t)
                               /\ (up[t] = NoConfig) <=> (place[t] = NoInstance)
          /\ \A t, u \in Tenant :
                 t # u /\ place[t] = place[u] => place[t] = NoInstance
          /\ Booted(place, up)
          /\ disturbed' = {t \in Tenant : {up[t]} # FirstChoice(t)}
    /\ writers' = [t \in Tenant |-> {}]
    /\ changed' = FALSE
    /\ at' = [o \in Op |-> "idle"]
    /\ job' = [o \in Op |-> NoJob]
    /\ unsaved' = {}
    /\ UNCHANGED <<disk, base>>

(* Before the first start: no instance, no file of a tenant.               *)
Init ==
    /\ tenants = [t \in Tenant |-> NoInstance]
    /\ conn = [i \in Instance |-> "closed"]
    /\ readonly = [i \in Instance |-> "none"]
    /\ config = [i \in Instance |-> NoConfig]
    /\ router = config
    /\ approved = [i \in Instance |-> {}]
    /\ path = [i \in Instance |-> "saved"]
    /\ sharing = [i \in Instance |-> {}]
    /\ disk = [t \in Tenant |-> NoConfig]
    /\ writers = [t \in Tenant |-> {}]
    /\ base \in IF Default \in Tenant THEN BaseConfigs ELSE {NoConfig}
    /\ changed = FALSE
    /\ at = [o \in Op |-> "idle"]
    /\ job = [o \in Op |-> NoJob]
    /\ disturbed = {}
    /\ unsaved = {}

-----------------------------------------------------------------------------
(* The steps of a request.                                                 *)

Move(o, step) == at' = [at EXCEPT ![o] = step]

(* The handler returns, whatever it answers.                               *)
Return(o) ==
    /\ Move(o, "idle")
    /\ job' = [job EXCEPT ![o] = NoJob]

(* A request of some kind about tenant t begins.                           *)
Begin(o, step, kind, t, i, c, tool, from) ==
    /\ ~Busy(o)
    /\ Move(o, step)
    /\ job' = [job EXCEPT ![o] =
                  [kind |-> kind, tenant |-> t, inst |-> i, cfg |-> c,
                   tool |-> tool, from |-> from]]
    /\ disturbed' =
          IF \/ kind = "watch"
             \/ \E p \in Op \ {o} : Busy(p) /\ job[p].tenant = t
          THEN disturbed \cup {t} ELSE disturbed
    /\ UNCHANGED unsaved

(* adminAddTenantHandler, AddTenant: the check under the read lock.        *)
AddTenant(o, t, c) ==
    /\ ~Registered(t)
    /\ Begin(o, "connect", "add", t, NoInstance, c, {}, "saved")
    /\ UNCHANGED <<tenants, instanceVars, fileVars>>

(* buildTenantInstance; what a failure had opened is closed again.         *)
Connect(o, i) ==
    LET c == job[o].cfg
    IN
    /\ at[o] = "connect"
    /\ Free(i)
    /\ Move(o, "insert")
    /\ job' = [job EXCEPT ![o].inst = i]
    /\ conn' = [conn EXCEPT ![i] = "open"]
    /\ readonly' = [readonly EXCEPT ![i] = ReadonlyFor(c)]
    /\ config' = [config EXCEPT ![i] = c]
    /\ router' = [router EXCEPT ![i] = c]
    /\ approved' = [approved EXCEPT ![i] = c.approved]
    /\ path' = [path EXCEPT ![i] = "saved"]
    /\ sharing' = [sharing EXCEPT ![i] = {}]
    /\ unsaved' = unsaved \ {i}
    /\ UNCHANGED <<tenants, fileVars, disturbed>>

ConnectFails(o) ==
    /\ at[o] = "connect"
    /\ ConnectMayFail
    /\ Return(o)
    /\ UNCHANGED <<tenants, instanceVars, fileVars, ghostVars>>

(* AddTenant under the write lock.  A duplicate closes Conn, not           *)
(* ReadonlyConn.                                                           *)
InsertUnchecked(o) ==              \* mutant: no double check
    /\ at[o] = "insert"
    /\ tenants' = [tenants EXCEPT ![job[o].tenant] = job[o].inst]
    /\ Move(o, "truncate")
    /\ UNCHANGED <<instanceVars, fileVars, job, ghostVars>>
Insert(o) ==
    LET t == job[o].tenant
        i == job[o].inst
    IN
    /\ at[o] = "insert"
    /\ IF Registered(t)
         THEN /\ conn' = [conn EXCEPT ![i] = "closed"]
              /\ Return(o)
              /\ UNCHANGED tenants
         ELSE /\ tenants' = [tenants EXCEPT ![t] = i]
              /\ Move(o, "truncate")
              /\ UNCHANGED <<conn, job>>
    /\ UNCHANGED <<readonly, config, router, approved, path, sharing, fileVars,
                   ghostVars>>

(* RemoveTenant: out of the map, then the pools are closed, then           *)
(* adminRemoveTenantHandler removes the file.                              *)
RemoveTenantLate(o, t) ==          \* mutant: left in the map, pools closed
    /\ Registered(t)
    /\ Begin(o, "close", "remove", t, tenants[t], NoConfig, {}, "saved")
    /\ UNCHANGED <<tenants, instanceVars, fileVars>>
RemoveTenant(o, t) ==
    /\ Registered(t)
    /\ Begin(o, "close", "remove", t, tenants[t], NoConfig, {}, "saved")
    /\ tenants' = [tenants EXCEPT ![t] = NoInstance]
    /\ UNCHANGED <<instanceVars, fileVars>>

Close(o) ==
    LET i == job[o].inst
    IN
    /\ at[o] = "close"
    /\ conn' = [conn EXCEPT ![i] = "closed"]
    /\ readonly' = [readonly EXCEPT ![i] = IF @ = "open" THEN "closed" ELSE @]
    /\ Move(o, "erase")
    /\ UNCHANGED <<tenants, config, router, approved, path, sharing, fileVars,
                   job, ghostVars>>

(* A writer that has the removed file open writes to it in vain.           *)
EraseNothing(o) ==                 \* mutant: the file is forgotten
    /\ at[o] = "erase"
    /\ Return(o)
    /\ UNCHANGED <<tenants, instanceVars, fileVars, ghostVars>>
Erase(o) ==
    LET t == job[o].tenant
    IN
    /\ at[o] = "erase"
    /\ \/ /\ disk' = [disk EXCEPT ![t] = NoConfig]
          /\ writers' = [writers EXCEPT ![t] = {}]
          /\ UNCHANGED disturbed
       \/ /\ DiskMayFail
          /\ disturbed' = disturbed \cup {t}
          /\ UNCHANGED <<disk, writers>>
    /\ Return(o)
    /\ UNCHANGED <<tenants, instanceVars, base, changed, unsaved>>

(* adminConfigUpdateHandler up to its save: the request brings a whole     *)
(* configuration, its approvals included.                                  *)
UpdateConfig(o, t, c) ==
    /\ Registered(t)
    /\ Begin(o, "truncate", "update", t, tenants[t], c, {}, "saved")
    /\ UNCHANGED <<tenants, instanceVars, fileVars>>

(* adminRewriteHandler resolves its instance, then introspects the         *)
(* database; the approvals it keeps are read after that.                   *)
Rewrite(o, t) ==
    /\ Registered(t)
    /\ Begin(o, "generate", "rewrite", t, tenants[t], NoConfig, {}, "saved")
    /\ UNCHANGED <<tenants, instanceVars, fileVars>>

GenerateAnew(o, x) ==              \* mutant: the approvals are not carried over
    /\ at[o] = "generate"
    /\ job' = [job EXCEPT ![o].cfg = [content |-> x, approved |-> {}]]
    /\ Move(o, "truncate")
    /\ UNCHANGED <<tenants, instanceVars, fileVars, ghostVars>>
Generate(o, x) ==
    /\ at[o] = "generate"
    /\ job' = [job EXCEPT ![o].cfg =
                  [content |-> x, approved |-> config[job[o].inst].approved]]
    /\ Move(o, "truncate")
    /\ UNCHANGED <<tenants, instanceVars, fileVars, ghostVars>>

GenerateFails(o) ==
    /\ at[o] = "generate"
    /\ ConnectMayFail
    /\ Return(o)
    /\ UNCHANGED <<tenants, instanceVars, fileVars, ghostVars>>

-----------------------------------------------------------------------------
(* SaveTenantConfig: os.WriteFile truncates the file, then writes it.      *)

Truncate(o) ==
    LET t == job[o].tenant
    IN
    /\ at[o] = "truncate"
    /\ disk' = [disk EXCEPT ![t] = Empty]
    /\ writers' = [writers EXCEPT ![t] = @ \cup {o}]
    /\ Move(o, "write")
    /\ UNCHANGED <<tenants, instanceVars, base, changed, job, ghostVars>>

(* What a write at the start of the file leaves: over what another writer  *)
(* has written since, the two may come out mixed.                          *)
Written(o) ==
    LET t == job[o].tenant
    IN
    IF o \notin writers[t] THEN {disk[t]}
    ELSE IF disk[t] = Empty THEN {job[o].cfg}
    ELSE {job[o].cfg, Garbled}

(* Where a handler goes when its save is over.  The reload of an update    *)
(* reads inst.ConfigPath.                                                  *)
AfterSave(o, saved) ==
    LET i      == job[o].inst
        reload == /\ Move(o, "load")
                  /\ job' = [job EXCEPT ![o].from = path'[i],
                                         ![o].inst = NoInstance,
                                         ![o].cfg = NoConfig]
    IN
    CASE job[o].kind = "approve" /\ saved ->
             /\ Move(o, "rebuild")
             /\ UNCHANGED job
      [] job[o].kind = "update" -> reload
      [] job[o].kind = "rewrite" /\ saved -> reload
      [] OTHER -> Return(o)

Write(o) ==
    /\ at[o] = "write"
    /\ \E f \in Written(o) : disk' = [disk EXCEPT ![job[o].tenant] = f]
    /\ writers' = [writers EXCEPT ![job[o].tenant] = @ \ {o}]
    /\ path' = [path EXCEPT ![job[o].inst] = "saved"]
    /\ AfterSave(o, TRUE)
    /\ UNCHANGED <<tenants, conn, readonly, config, router, approved, sharing,
                   base, changed, ghostVars>>

(* Opening the file fails, or writing it does.                             *)
SaveFails(o) ==
    /\ DiskMayFail
    /\ at[o] \in {"truncate", "write"}
    /\ writers' = [writers EXCEPT ![job[o].tenant] = @ \ {o}]
    /\ path' = path
    /\ AfterSave(o, FALSE)
    /\ disturbed' = disturbed \cup {job[o].tenant}
    /\ unsaved' = IF job[o].kind = "approve" THEN unsaved \cup {job[o].inst}
                  ELSE unsaved
    /\ UNCHANGED <<tenants, conn, readonly, config, router, approved, sharing,
                   disk, base, changed>>

-----------------------------------------------------------------------------
(* ReloadTenant: load the file, look the instance up, build its router,    *)
(* install the two under the write lock.                                   *)

Loaded(o) == IF job[o].from = "base" THEN base ELSE disk[job[o].tenant]

Load(o) ==
    /\ at[o] = "load"
    /\ IF Readable(Loaded(o))
         THEN /\ job' = [job EXCEPT ![o].cfg = Loaded(o)]
              /\ Move(o, "lookup")
         ELSE Return(o)
    /\ UNCHANGED <<tenants, instanceVars, fileVars, ghostVars>>

Lookup(o) ==
    LET t == job[o].tenant
    IN
    /\ at[o] = "lookup"
    /\ IF Registered(t)
         THEN /\ job' = [job EXCEPT ![o].inst = tenants[t]]
              /\ Move(o, "install")
         ELSE Return(o)
    /\ UNCHANGED <<tenants, instanceVars, fileVars, ghostVars>>

InstallNoRouter(o) ==              \* mutant: the router built is not assigned
    LET i == job[o].inst
    IN
    /\ at[o] = "install"
    /\ config' = [config EXCEPT ![i] = job[o].cfg]
    /\ approved' = [approved EXCEPT ![i] = job[o].cfg.approved]
    /\ Return(o)
    /\ unsaved' = unsaved \ {i}
    /\ UNCHANGED <<tenants, conn, readonly, router, path, sharing, fileVars,
                   disturbed>>
Install(o) ==
    LET i == job[o].inst
    IN
    /\ at[o] = "install"
    /\ config' = [config EXCEPT ![i] = job[o].cfg]
    /\ router' = [router EXCEPT ![i] = job[o].cfg]
    /\ path' = [path EXCEPT ![i] = job[o].from]
    /\ approved' = [approved EXCEPT ![i] = job[o].cfg.approved]
    /\ sharing' = [sharing EXCEPT ![i] = {}]
    /\ unsaved' = unsaved \ {i}
    /\ Return(o)
    /\ UNCHANGED <<tenants, conn, readonly, fileVars, disturbed>>

-----------------------------------------------------------------------------
(* adminTenantApproveToolHandler, without any lock: it gets hold of the    *)
(* instance and its ApprovedTools map,                                     *)
ApproveTool(o, t, e) ==
    /\ Registered(t)
    /\ Begin(o, "mark", "approve", t, tenants[t], NoConfig, {e}, "saved")
    /\ sharing' = [sharing EXCEPT ![tenants[t]] = @ \cup {o}]
    /\ UNCHANGED <<tenants, conn, readonly, config, router, approved, path,
                   fileVars>>

(* marks the tool in that map, which need no longer be the instance's,     *)
(* copies the instance's map to its configuration and marshals that,       *)
Mark(o) ==
    LET i     == job[o].inst
        tools == IF o \in sharing[i] THEN approved[i] \cup job[o].tool
                 ELSE approved[i]
    IN
    /\ at[o] = "mark"
    /\ approved' = [approved EXCEPT ![i] = tools]
    /\ config' = [config EXCEPT ![i].approved = tools]
    /\ job' = [job EXCEPT ![o].cfg = config'[i]]
    /\ sharing' = [sharing EXCEPT ![i] = @ \ {o}]
    /\ Move(o, "truncate")
    /\ UNCHANGED <<tenants, conn, readonly, router, path, fileVars, ghostVars>>

(* and, the file saved, rebuilds the router with a map of its own.         *)
RebuildForgotten(o) ==             \* mutant: the new router is not assigned
    LET i == job[o].inst
    IN
    /\ at[o] = "rebuild"
    /\ approved' = [approved EXCEPT ![i] = config[i].approved]
    /\ sharing' = [sharing EXCEPT ![i] = {}]
    /\ Return(o)
    /\ unsaved' = unsaved \ {i}
    /\ UNCHANGED <<tenants, conn, readonly, config, router, path, fileVars,
                   disturbed>>
Rebuild(o) ==
    LET i == job[o].inst
    IN
    /\ at[o] = "rebuild"
    /\ router' = [router EXCEPT ![i] = config[i]]
    /\ approved' = [approved EXCEPT ![i] = config[i].approved]
    /\ sharing' = [sharing EXCEPT ![i] = {}]
    /\ unsaved' = unsaved \ {i}
    /\ Return(o)
    /\ UNCHANGED <<tenants, conn, readonly, config, path, fileVars, disturbed>>

-----------------------------------------------------------------------------
(* An operator edits the --config file; watchConfig reloads the default    *)
(* tenant from it when the debounce timer fires.                           *)
EditBase(c) ==
    /\ Default \in Tenant
    /\ base' = c
    /\ changed' = TRUE
    /\ disturbed' = disturbed \cup {Default}
    /\ UNCHANGED <<tenants, instanceVars, disk, writers, at, job, unsaved>>

HotReload(o) ==
    /\ changed
    /\ changed' = FALSE
    /\ Begin(o, "load", "watch", Default, NoInstance, NoConfig, {}, "base")
    /\ UNCHANGED <<tenants, instanceVars, disk, writers, base>>

Start(o) ==
    \E t \in Tenant :
        \/ RemoveTenant(o, t)
        \/ Rewrite(o, t)
        \/ \E c \in Config : AddTenant(o, t, c) \/ UpdateConfig(o, t, c)
        \/ \E e \in Tool : ApproveTool(o, t, e)

Proceed(o) ==
    \/ \E i \in Instance : Connect(o, i)
    \/ ConnectFails(o)
    \/ Insert(o)
    \/ Close(o)
    \/ Erase(o)
    \/ \E x \in Content : Generate(o, x)
    \/ GenerateFails(o)
    \/ Truncate(o)
    \/ Write(o)
    \/ SaveFails(o)
    \/ Load(o)
    \/ Lookup(o)
    \/ Install(o)
    \/ Mark(o)
    \/ Rebuild(o)

Next ==
    \/ \E o \in Op : Start(o) \/ Proceed(o) \/ HotReload(o)
    \/ \E c \in BaseConfigs : EditBase(c)
    \/ Restart

Spec == Init /\ [][Next]_vars

-----------------------------------------------------------------------------
(* Properties.                                                             *)

(* A tenant in the map has its connections: no handler closes the pools of *)
(* an instance that requests can still be routed to (RemoveTenant, the     *)
(* clean-up of a duplicate in AddTenant).                                  *)
RegisteredOpen ==
    \A t \in Tenant : Registered(t) =>
        /\ conn[tenants[t]] = "open"
        /\ readonly[tenants[t]] # "closed"

(* No main pool is lost: an open one belongs to a tenant in the map, or to *)
(* the request that opened it and has not inserted it yet, or that has     *)
(* taken it out and is about to close it.                                  *)
ConnHeld ==
    \A i \in Instance : conn[i] = "open" =>
        \/ \E t \in Tenant : tenants[t] = i
        \/ \E o \in Op : at[o] \in {"insert", "close"} /\ job[o].inst = i

(* An approval of a tool of instance i has changed its configuration and   *)
(* not yet its router.                                                     *)
Approving(i) ==
    \E o \in Op : /\ Busy(o)
                  /\ job[o].kind = "approve"
                  /\ job[o].inst = i
                  /\ at[o] # "mark"

(* Whatever overlaps, the router a tenant is served by is built from the   *)
(* configuration the admin API shows for it, once no approval is between   *)
(* the two (and none failed to be saved).                                  *)
RouterMatchesConfig ==
    \A i \in Instance :
        Approving(i) \/ i \in unsaved \/ router[i] = config[i]

(* The registry as a whole: open, held and served as configured.           *)
RegistrySound == RegisteredOpen /\ ConnHeld /\ RouterMatchesConfig

(* No change of tenant t is in progress.                                   *)
Quiet(t) == \A o \in Op : Busy(o) => job[o].tenant # t

(* What serves tenant t now, and what a restart would serve it with.       *)
Serving(t) == IF Registered(t) THEN {router[tenants[t]]} ELSE {}
Restored(t) == IF OwnConfig(t) # {} THEN OwnConfig(t) ELSE BaseConfig(t)

(* Memory and disk agree: as long as the changes of a tenant have not      *)
(* overlapped or failed, a restart gives back the tenant exactly as it is  *)
(* served, also after a crash in the middle of a change; but the default   *)
(* tenant, once removed, comes back from the --config file.                *)
RestartChangesNothing ==
    \A t \in Tenant \ disturbed :
        Quiet(t) => \/ Serving(t) = Restored(t)
                    \/ t = Default /\ ~Registered(t) /\ OwnConfig(t) = {}

(* An approved tool stays open through everything but an update (which     *)
(* brings a list of its own), the removal of the tenant and a restart, as  *)
(* long as changes do not overlap: a rewrite and a reload keep it.         *)
ApprovalsKept ==
    [][\A t \in Tenant : \A o \in Op :
          /\ t \notin disturbed
          /\ Install(o)
          /\ job[o].tenant = t
          /\ job[o].kind # "update"
          => router[tenants[t]].approved \subseteq router'[tenants[t]].approved
      ]_vars
=============================================================================
