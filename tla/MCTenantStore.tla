----------------------------- MODULE MCTenantStore -----------------------------
(* Values of the constants of TenantStore for TLC.                         *)
EXTENDS TenantStore, TLC

(* The operator approves no tools in the --config file.                    *)
MCBaseConfigs == [content : Content, approved : {{}}]

(* Requests, instances and tools are interchangeable.                      *)
Interchangeable == Permutations(Op) \cup Permutations(Instance)
                       \cup Permutations(Tool)

(* What a free instance still holds is garbage: nothing reads it before    *)
(* Connect or Restart overwrites it.                                       *)
Garbage(f) == [i \in Instance |-> IF Free(i) THEN NoConfig ELSE f[i]]
StateView == <<tenants, fileVars, at, job, disturbed,
               Garbage(conn), Garbage(readonly), Garbage(config),
               Garbage(router), Garbage(approved), Garbage(path),
               Garbage(sharing), {i \in unsaved : ~Free(i)}>>

=============================================================================
