-------------------------- MODULE SettingsProofs --------------------------
(***************************************************************************)
(* Proofs about the settings of api-service that an admin edits while it   *)
(* serves: of AbuseControl, that after every overlap of saves and reloads  *)
(* the settings in force are those of the file and what an admin saves     *)
(* takes effect; of VoiceChat, that every voice message keeps to the       *)
(* settings it began with, that its answer stands, that it leaves nothing  *)
(* behind on the host, and that no edit loses a key.                       *)
(***************************************************************************)
EXTENDS AbuseControl, VoiceChat, WellFoundedInduction, SequenceTheorems, TLAPS

-----------------------------------------------------------------------------
(* The settings against abuse.                                             *)

(* The settings, without the chats, have the types that TypeOK gives them. *)
SettingsOK ==
    /\ file \in Saved \cup {NoFile, Broken}
    /\ api \in Config /\ job \in Config
    /\ dash \in Shared
    /\ notes \in Nat

(* Between the write of api-service's save and its reload the file holds   *)
(* what was saved, unless the dashboard has touched it.                    *)
WrittenIsSaved ==
    apiAt = "written" /\ "api" \notin mixed => file = Serialize(job)

IInv == SettingsOK /\ ApiFollowsFile /\ WrittenIsSaved

(* What is loaded is complete whatever the file holds: a setting that the  *)
(* file does not name has the environment's value.                         *)
LEMMA LoadType == \A f \in Saved \cup {NoFile, Broken} : Load(f) \in Config
  <1> TAKE f \in Saved \cup {NoFile, Broken}
  <1>1. Env \in Config
    BY AbuseAssumption DEF Env, Config
  <1>2. CASE f \in Saved
    BY <1>1, <1>2, AbuseAssumption DEF Load, Merge, Saved, Config, Env
  <1>3. CASE f \in {NoFile, Broken}
    BY <1>1, <1>3 DEF Load
  <1> QED BY <1>2, <1>3

(* A request that names only some of the settings leaves a complete        *)
(* configuration complete.                                                 *)
LEMMA MergeType == \A c \in Config, d \in Data : Merge(c, d) \in Config
  BY DEF Merge, Data, Config

(* Saving and loading loses no setting: the file that api-service writes   *)
(* is read back as what it was written from.                               *)
LEMMA RoundTrip == \A c \in Config : Load(Serialize(c)) = c
  <1> TAKE c \in Config
  <1>1. Serialize(c) \in Saved /\ Serialize(c) = c
    BY DEF Serialize, Saved, Config
  <1>2. Serialize(c) \notin {NoFile, Broken}
    BY <1>1, AbuseAssumption
  <1>3. \A k \in DOMAIN c : c[k] # Absent
    BY AbuseAssumption DEF Config
  <1>4. Merge(Env, c) = [k \in {"shared", "repeats"} |-> c[k]]
    BY <1>3 DEF Merge, Env, Config
  <1>5. c = [k \in {"shared", "repeats"} |-> c[k]]
    BY DEF Config
  <1> QED BY <1>1, <1>2, <1>4, <1>5 DEF Load

(* Both services start on the settings that the file, if any, gives them.  *)
LEMMA Initially == Init => IInv
  <1> SUFFICES ASSUME Init PROVE IInv OBVIOUS
  <1>1. Env \in Config /\ Load(NoFile) = Env
    BY AbuseAssumption DEF Env, Config, Load
  <1> QED
    BY <1>1, AbuseAssumption
    DEF Init, IInv, SettingsOK, ApiFollowsFile, WrittenIsSaved

(* The invariant speaks of the settings alone, so chats do not touch it.   *)
LEMMA Stutters == IInv /\ UNCHANGED settings => IInv'
  BY DEF IInv, SettingsOK, ApiFollowsFile, WrittenIsSaved, Quiet, settings

(* Every save, reload, failure and restart keeps the invariant.            *)
LEMMA Steps == IInv /\ [Next]_vars => IInv'
  <1> SUFFICES ASSUME IInv, [Next]_vars PROVE IInv' OBVIOUS
  <1> USE DEF IInv
  <1>1. CASE \E c \in Shared : DashSet(c)
    <2> PICK c \in Shared : DashSet(c) BY <1>1
    <2>1. SettingsOK'
      BY DEF DashSet, Truncate, SettingsOK
    <2>2. ApiFollowsFile'
      BY DEF DashSet, ApiFollowsFile, Quiet
    <2>3. WrittenIsSaved'
      BY DEF DashSet, Truncate, Other, WrittenIsSaved
    <2> QED BY <2>1, <2>2, <2>3
  <1>2. CASE DashRestart
    <2>1. SettingsOK'
      BY <1>2, AbuseAssumption DEF DashRestart, DashLoad, SettingsOK, Saved
    <2>2. ~missed' => ~missed /\ ~(notes > 0) /\ dashAt = "idle"
      BY <1>2 DEF DashRestart
    <2>3. ~(notes > 0) => notes = 0
      BY DEF SettingsOK
    <2>4. UNCHANGED <<api, apiAt, file>>
      BY <1>2 DEF DashRestart
    <2>5. ApiFollowsFile'
      BY <2>2, <2>3, <2>4 DEF ApiFollowsFile, Quiet
    <2>6. WrittenIsSaved'
      BY <1>2 DEF DashRestart, WrittenIsSaved
    <2> QED BY <2>1, <2>5, <2>6
  <1>3. CASE AskReload
    BY <1>3 DEF AskReload, SettingsOK, ApiFollowsFile, Quiet, WrittenIsSaved
  <1>4. CASE \E data \in Data : SaveConfig(data)
    <2> PICK data \in Data : SaveConfig(data) BY <1>4
    <2>1. SettingsOK'
      BY MergeType DEF SaveConfig, Truncate, SettingsOK
    <2>2. ApiFollowsFile' /\ WrittenIsSaved'
      BY DEF SaveConfig, ApiFollowsFile, Quiet, WrittenIsSaved
    <2> QED BY <2>1, <2>2
  <1>5. CASE ApiRestart
    <2>1. Env \in Config
      BY AbuseAssumption DEF Env, Config
    <2> QED
      BY <1>5, <2>1, LoadType
      DEF ApiRestart, SettingsOK, ApiFollowsFile, WrittenIsSaved
  <1>6. CASE Reload
    BY <1>6, LoadType
    DEF Reload, SettingsOK, ApiFollowsFile, WrittenIsSaved
  <1>7. CASE LoseNote
    BY <1>7 DEF LoseNote, SettingsOK, ApiFollowsFile, WrittenIsSaved
  <1>8. CASE DashWrite
    <2>1. [shared |-> dash, repeats |-> Absent] \in Saved
      BY DEF SettingsOK, Saved
    <2>2. SettingsOK'
      BY <1>8, <2>1 DEF DashWrite, Write, SettingsOK
    <2>3. notes' # 0
      BY <1>8 DEF DashWrite, SettingsOK
    <2>4. ApiFollowsFile'
      BY <2>3 DEF ApiFollowsFile, Quiet
    <2>5. WrittenIsSaved'
      BY <1>8 DEF DashWrite, Write, Other, WrittenIsSaved
    <2> QED BY <2>2, <2>4, <2>5
  <1>9. CASE DashWriteFails
    BY <1>9 DEF DashWriteFails, SettingsOK, ApiFollowsFile, WrittenIsSaved
  <1>10. CASE SaveWrites
    <2>1. Serialize(job) \in Saved
      BY DEF SettingsOK, Serialize, Saved, Config
    <2>2. SettingsOK'
      BY <1>10, <2>1 DEF SaveWrites, Write, SettingsOK
    <2>3. ApiFollowsFile'
      BY <1>10 DEF SaveWrites, ApiFollowsFile, Quiet
    <2>4. WrittenIsSaved'
      BY <1>10 DEF SaveWrites, Write, WrittenIsSaved, Serialize
    <2> QED BY <2>2, <2>3, <2>4
  <1>11. CASE SaveReloads
    <2>1. Env \in Config
      BY AbuseAssumption DEF Env, Config
    <2> QED
      BY <1>11, <2>1, LoadType
      DEF SaveReloads, SettingsOK, ApiFollowsFile, WrittenIsSaved
  <1>12. CASE SaveFails
    <2>1. Env \in Config
      BY AbuseAssumption DEF Env, Config
    <2> QED
      BY <1>12, <2>1
      DEF SaveFails, SettingsOK, ApiFollowsFile, WrittenIsSaved
  <1>13. CASE \E s \in Session : Admit(s) \/ EndTurn(s)
    BY <1>13, Stutters DEF Admit, EndTurn
  <1>14. CASE UNCHANGED vars
    BY <1>14, Stutters DEF vars
  <1> QED
    BY <1>1, <1>2, <1>3, <1>4, <1>5, <1>6, <1>7, <1>8, <1>9, <1>10, <1>11,
       <1>12, <1>13, <1>14
    DEF Next, Deliver, Dashboard, Api

(* The file, the memories of the two services and the requests in flight   *)
(* agree in every state (abuse.go, abuse_live.py).                         *)
THEOREM Invariance == Spec => []IInv
  BY Initially, Steps, PTL DEF Spec

(* When no save and no reload request is under way or lost, api-service    *)
(* runs on the settings in the file, for any settings and any number of    *)
(* requests in flight (abuse.go, abuse_live.py).                           *)
THEOREM SettingsAgree == Spec => []ApiFollowsFile
  BY Invariance, PTL DEF IInv

(* A save through api-service that the dashboard does not disturb puts     *)
(* every setting in force that it was to put in force (save_config).       *)
THEOREM SavesTakeEffect == Spec => SaveTakesEffect
  <1>1. IInv /\ [Next]_vars => [SaveReloads /\ "api" \notin mixed => api' = job]_vars
    <2> SUFFICES ASSUME IInv, SaveReloads, "api" \notin mixed PROVE api' = job
      OBVIOUS
    <2>1. file = Serialize(job) /\ job \in Config
      BY DEF IInv, WrittenIsSaved, SettingsOK, SaveReloads
    <2>2. api' = Load(file)
      BY DEF SaveReloads
    <2> QED BY <2>1, <2>2, RoundTrip
  <1> QED
    BY <1>1, Invariance, PTL DEF Spec, SaveTakesEffect


(* Settings that were saved are in force, through either service.          *)
THEOREM SettingsKept == Spec => SettingsInForce
  BY SettingsAgree, SavesTakeEffect, PTL DEF SettingsInForce

-----------------------------------------------------------------------------
(* Types.                                                                  *)

(* The save under way has its place among the reload requests in flight.   *)
Roomy == notes + (IF dashAt = "idle" THEN 0 ELSE 1) <= MaxNotes

(* Each step keeps the types: no more reload requests are in flight than   *)
(* MaxNotes, whichever of them are lost.                                   *)
LEMMA TypeStep == IInv /\ TypeOK /\ Roomy /\ [Next]_vars => TypeOK' /\ Roomy'
  <1> SUFFICES ASSUME IInv, TypeOK, Roomy, [Next]_vars, IInv'
               PROVE  TypeOK' /\ Roomy'
    BY Steps
  <1>0. MaxNotes \in Nat /\ notes \in Nat /\ notes <= MaxNotes
    BY AbuseAssumption DEF TypeOK
  <1>s. /\ file' \in Saved \cup {NoFile, Broken} /\ dash' \in Shared
        /\ api' \in Config /\ job' \in Config
    BY DEF IInv, SettingsOK
  <1>c. /\ chat \in [Session -> {"idle", "running"}]
        /\ stored \in [{"plain", "direct"} \X Session -> 0 .. StoreBound]
        /\ mixed \subseteq {"dash", "api"} /\ missed \in BOOLEAN
        /\ dashAt \in {"idle", "truncated"}
        /\ apiAt \in {"idle", "truncated", "written"}
    BY DEF TypeOK
  <1>1. ASSUME NEW c \in Shared, DashSet(c) PROVE TypeOK' /\ Roomy'
    <2>1. notes + 1 <= MaxNotes
      BY <1>0, <1>1 DEF DashSet, Room
    <2> QED
      BY <1>0, <1>1, <1>s, <1>c, <2>1
      DEF DashSet, Truncate, Other, chats, TypeOK, Roomy
  <1>2. CASE DashRestart
    BY <1>0, <1>2, <1>s, <1>c DEF DashRestart, chats, TypeOK, Roomy
  <1>3. CASE AskReload
    BY <1>0, <1>3, <1>s, <1>c DEF AskReload, Room, chats, TypeOK, Roomy
  <1>4. CASE LoseNote \/ Reload
    <2>1. notes' = notes - 1 /\ notes > 0 /\ UNCHANGED <<dashAt, mixed, chat, stored, apiAt>>
          /\ missed' \in BOOLEAN
      BY <1>4 DEF LoseNote, Reload, chats
    <2> QED BY <1>0, <1>s, <1>c, <2>1 DEF TypeOK, Roomy
  <1>5. CASE DashWrite
    <2>1. notes + 1 <= MaxNotes
      BY <1>0, <1>5 DEF DashWrite, Roomy
    <2> QED
      BY <1>0, <1>5, <1>s, <1>c, <2>1
      DEF DashWrite, Write, Other, chats, TypeOK, Roomy
  <1>6. CASE DashWriteFails
    BY <1>0, <1>6, <1>s, <1>c DEF DashWriteFails, chats, TypeOK, Roomy
  <1>7. ASSUME NEW data \in Data, SaveConfig(data) PROVE TypeOK' /\ Roomy'
    BY <1>0, <1>7, <1>s, <1>c
    DEF SaveConfig, Truncate, Other, chats, TypeOK, Roomy
  <1>8. CASE SaveWrites
    BY <1>0, <1>8, <1>s, <1>c DEF SaveWrites, Write, Other, chats, TypeOK, Roomy
  <1>9. CASE SaveReloads \/ SaveFails
    BY <1>0, <1>9, <1>s, <1>c DEF SaveReloads, SaveFails, chats, TypeOK, Roomy
  <1>10. CASE ApiRestart
    BY <1>0, <1>10, <1>s, <1>c DEF ApiRestart, TypeOK, Roomy
  <1>11. ASSUME NEW s \in Session, Admit(s) \/ EndTurn(s)
         PROVE  TypeOK' /\ Roomy'
    <2>1. UNCHANGED settings /\ chat' \in [Session -> {"idle", "running"}]
      BY <1>11, <1>c DEF Admit, EndTurn
    <2>2. stored' \in [{"plain", "direct"} \X Session -> 0 .. StoreBound]
      <3>1. CASE Admit(s)
        BY <1>c, <3>1 DEF Admit
      <3>2. CASE EndTurn(s)
        <4>1. PICK n \in 0 .. 2 :
                /\ stored[<<"direct", s>>] + n <= StoreBound
                /\ stored' = [stored EXCEPT ![<<"direct", s>>] = @ + n]
          BY <3>2 DEF EndTurn
        <4>2. /\ <<"direct", s>> \in {"plain", "direct"} \X Session
              /\ stored[<<"direct", s>>] \in 0 .. StoreBound /\ StoreBound \in Nat
          BY <1>c, AbuseAssumption
        <4>3. stored[<<"direct", s>>] + n \in 0 .. StoreBound
          BY <4>1, <4>2
        <4> QED BY <1>c, <4>1, <4>3
      <3> QED BY <1>11, <3>1, <3>2
    <2> QED
      BY <1>0, <1>s, <1>c, <2>1, <2>2 DEF settings, TypeOK, Roomy
  <1>12. CASE UNCHANGED vars
    BY <1>12 DEF vars, settings, chats, TypeOK, Roomy
  <1> QED
    BY <1>1, <1>2, <1>3, <1>4, <1>5, <1>6, <1>7, <1>8, <1>9, <1>10, <1>11, <1>12
    DEF Next, Deliver, Dashboard, Api

(* The settings in memory are complete whatever the file held, and what is *)
(* in flight stays within its bound.                                       *)
THEOREM TypeCorrect == Spec => []TypeOK
  <1>1. Init => TypeOK /\ Roomy
    <2> SUFFICES ASSUME Init PROVE TypeOK /\ Roomy OBVIOUS
    <2>1. SettingsOK
      BY Initially DEF IInv
    <2>2. MaxNotes \in Nat /\ MaxNotes > 0 /\ StoreBound \in Nat
      BY AbuseAssumption
    <2>3. notes = 0 /\ notes \in 0 .. MaxNotes /\ Roomy
      BY <2>2 DEF Init, Roomy
    <2>4. stored \in [{"plain", "direct"} \X Session -> 0 .. StoreBound]
      <3>1. stored = [id \in {"plain", "direct"} \X Session |-> 0]
        BY DEF Init
      <3>2. 0 \in 0 .. StoreBound
        BY <2>2
      <3> HIDE DEF Init
      <3> QED BY <3>1, <3>2
    <2>5. chat \in [Session -> {"idle", "running"}]
      BY DEF Init
    <2>6. /\ mixed \subseteq {"dash", "api"} /\ missed \in BOOLEAN
          /\ dashAt \in {"idle", "truncated"}
          /\ apiAt \in {"idle", "truncated", "written"}
      BY DEF Init
    <2> QED
      BY <2>1, <2>3, <2>4, <2>5, <2>6 DEF SettingsOK, TypeOK
  <1> QED
    BY <1>1, Invariance, TypeStep, PTL DEF Spec

-----------------------------------------------------------------------------
(* The voice messages.                                                      *)

(* e is what the turn was doing, if anything, and then o.                   *)
Told(e, o) ==
    \E p \in {<<>>} \cup {<<x>> : x \in Progress} : e = p \o o

(* What is known of a request that is over.                                 *)
Over(q) ==
    /\ ~q.left /\ ~q.raised => \E o \in Outcomes : Told(q.events, o)
    /\ "audio" \in ToSet(q.events) => q.final = "text" /\ q.spoken # <<>>
    /\ /\ ~q.left /\ ~q.raised /\ q.final = "text" /\ Speaks(q.config)
       /\ "audio" \notin ToSet(q.events)
       => Enabled(q.config.tts) \subseteq ToSet(q.spoken)

(* What its client was told of an answer while the turn runs.               *)
Streamed(q) ==
    \/ Told(q.events, <<>>) /\ q.final = ""
    \/ Told(q.events, <<"error">>) /\ q.final = ""
    \/ Told(q.events, <<"final">>) /\ q.final \in {"text", "blank"}

(* A request at each of its steps.                                          *)
VoiceShape(q) ==
    /\ q.pc = "idle" => q = Fresh
    /\ q.pc \in {"idle", "agent"} => q.tries = <<>>
    /\ q.pc = "agent" => q.agent \in Agent
    /\ q.pc \in {"idle", "agent", "stt", "hearing"} =>
           q.events = <<>> /\ q.spoken = <<>> /\ q.final = ""
    /\ q.pc = "stream" => q.spoken = <<>> /\ Streamed(q)
    /\ q.pc \in {"tts", "speaking"} =>
           /\ Told(q.events, <<"final">>) /\ q.final = "text"
           /\ Speaks(q.config)
    /\ q.pc = "speaking" => q.spoken # <<>>
    /\ q.pc = "ended" => Over(q)
    /\ InOrder(q.tries, q.config.stt, q.config.sttFallback)
    /\ InOrder(q.spoken, q.config.tts, q.config.ttsFallback)

VoiceReqs == req \in [Request -> Requests] /\ \A r \in Request : VoiceShape(req[r])

(* A non-empty set of numbers has a least one, which Min finds.             *)
LEMMA MinIsLeast ==
    ASSUME NEW S, S \subseteq Nat, S # {}
    PROVE  Min(S) \in S /\ \A x \in S : Min(S) <= x
<1>1. PICK m \in S : \A y \in S : <<y, m>> \notin OpToRel(<, Nat)
  BY NatLessThanWellFounded, WFMin, Zenon
<1>2. \A y \in S : m <= y
  <2>1. \A y \in S : ~(y < m)
    BY <1>1, Zenon DEF OpToRel
  <2> QED
    BY <2>1, SMT
<1> QED
  BY <1>2, Zenon DEF Min

(* A list with an entry of some sort has a last one.                        *)
LEMMA LastOfSort ==
    ASSUME NEW n \in Nat, NEW S, S \subseteq 1 .. n, S # {}
    PROVE  \E i \in S : \A j \in S : j <= i
<1> DEFINE T == {n - i : i \in S}
<1>1. T \subseteq Nat /\ T # {}
  <2>1. \A i \in S : n - i \in Nat
    OBVIOUS
  <2> QED
    BY <2>1
<1>2. Min(T) \in T /\ \A x \in T : Min(T) <= x
  BY <1>1, MinIsLeast, Zenon
<1>3. PICK i \in S : Min(T) = n - i
  BY <1>2
<1>4. \A j \in S : n - i <= n - j
  BY <1>2, <1>3
<1> QED
  BY <1>4

(* The edited list has the types of the lists it is made from.              *)
LEMMA PreserveType ==
    ASSUME NEW body \in Seq(Provider), NEW current \in Seq(Provider)
    PROVE  PreserveFields(body, current) \in Seq(Provider)
<1>1. \A p \in Provider : Previous(p, current) \in Provider
  <2> SUFFICES ASSUME NEW p \in Provider
               PROVE  Previous(p, current) \in Provider
    OBVIOUS
  <2> DEFINE same == {i \in DOMAIN current : current[i].name = p.name}
  <2>1. CASE same = {}
    BY <2>1 DEF Previous
  <2>2. CASE same # {}
    <3>1. \E i \in same : \A j \in same : j <= i
      <4>1. Len(current) \in Nat /\ same \subseteq 1 .. Len(current)
        OBVIOUS
      <4> HIDE DEF same
      <4> QED
        BY <2>2, <4>1, LastOfSort
    <3>2. (CHOOSE i \in same : \A j \in same : j <= i) \in DOMAIN current
      BY <3>1
    <3> QED
      BY <2>2, <3>2 DEF Previous
  <2> QED
    BY <2>1, <2>2
<1>2. \A i \in DOMAIN body : body[i] \in Provider
  OBVIOUS
<1>3. \A i \in DOMAIN body :
          [body[i] EXCEPT !.key = Previous(body[i], current).key] \in Provider
  BY <1>1, <1>2 DEF Provider
<1> QED
  BY <1>2, <1>3 DEF PreserveFields

(* An entry that keeps its name keeps having a key (_preserve_fields).      *)
LEMMA PreserveKeeps ==
    ASSUME NEW body \in Seq(Provider), NEW current \in Seq(Provider)
    PROVE  Keeps(current, PreserveFields(body, current))
<1> DEFINE after == PreserveFields(body, current)
<1> SUFFICES ASSUME NEW i \in DOMAIN current, NEW j \in DOMAIN after,
                    current[i].name = after[j].name, current[i].key # NoKey,
                    \A k \in DOMAIN current : current[k].name = current[i].name => k = i
             PROVE  after[j].key # NoKey
  BY DEF Keeps
<1>1. j \in DOMAIN body /\ body[j] \in Provider
  BY DEF PreserveFields
<1>2. CASE body[j].key # NoKey
  BY <1>1, <1>2 DEF PreserveFields
<1>3. CASE body[j].key = NoKey
  <2> DEFINE same == {k \in DOMAIN current : current[k].name = body[j].name}
  <2>1. after[j] = [body[j] EXCEPT !.key = Previous(body[j], current).key]
    BY <1>1, <1>3 DEF PreserveFields
  <2>2. after[j].name = body[j].name /\ after[j].key = Previous(body[j], current).key
    BY <1>1, <2>1 DEF Provider
  <2>3. same = {i}
    BY <2>2
  <2>4. (CHOOSE k \in same : \A m \in same : m <= k) = i
    BY <2>3
  <2>5. Previous(body[j], current) = current[i]
    BY <2>3, <2>4 DEF Previous
  <2> QED
    BY <2>2, <2>5
<1> QED
  BY <1>2, <1>3

(* Asking the next of a chain keeps its order (transcribe, synthesize).     *)
LEMMA OrderGoesOn ==
    ASSUME NEW list \in Seq(Provider), NEW asked \in Seq(Nat), NEW fallback,
           InOrder(asked, list, fallback),
           Rest(Enabled(list), asked) # {},
           Len(asked) = 0 \/ fallback
    PROVE  LET next == Min(Rest(Enabled(list), asked)) IN
           /\ next \in DOMAIN list
           /\ Append(asked, next) \in Seq(Nat)
           /\ InOrder(Append(asked, next), list, fallback)
<1> DEFINE rest == Rest(Enabled(list), asked)
           next == Min(rest)
           now == Append(asked, next)
<1>1. Enabled(list) \subseteq 1 .. Len(list) /\ Len(list) \in Nat
  BY DEF Enabled
<1>2. rest \subseteq Nat /\ rest \subseteq Enabled(list) /\ rest # {}
  BY <1>1 DEF Rest
<1>3. next \in rest /\ \A x \in rest : next <= x
  <2> HIDE DEF rest
  <2> QED
    BY <1>2, MinIsLeast
<1>4. next \in Enabled(list) /\ next \in Nat /\ next \in DOMAIN list
  BY <1>1, <1>2, <1>3
<1>5. \A k \in DOMAIN asked : asked[k] < next /\ asked[k] \in Nat
  BY <1>3 DEF Rest
<1> HIDE DEF rest, next
<1>6. /\ now \in Seq(Nat) /\ Len(now) = Len(asked) + 1
      /\ \A k \in 1 .. Len(asked) : now[k] = asked[k]
      /\ now[Len(asked) + 1] = next
      /\ DOMAIN now = DOMAIN asked \cup {Len(asked) + 1}
      /\ DOMAIN asked = 1 .. Len(asked) /\ Len(asked) \in Nat
  BY <1>4
<1> HIDE DEF now
<1>7. \A k, l \in DOMAIN now : k < l => now[k] < now[l]
  BY <1>5, <1>6 DEF InOrder
<1>8. ASSUME NEW k \in DOMAIN now
      PROVE  Enabled(list) \cap 1 .. now[k] = {now[l] : l \in 1 .. k}
  <2>1. CASE k \in DOMAIN asked
    <3>1. Enabled(list) \cap 1 .. asked[k] = {asked[l] : l \in 1 .. k}
      BY <2>1 DEF InOrder
    <3>2. \A l \in 1 .. k : now[l] = asked[l]
      <4>1. k \in 1 .. Len(asked) /\ Len(asked) \in Nat
        BY <2>1, <1>6, Zenon
      <4>2. \A l \in 1 .. k : l \in 1 .. Len(asked)
        BY <4>1
      <4> QED
        BY <4>2, <1>6, Zenon
    <3>3. {now[l] : l \in 1 .. k} = {asked[l] : l \in 1 .. k}
      BY <3>2
    <3> QED
      BY <2>1, <1>6, <3>1, <3>3
  <2>2. CASE k = Len(asked) + 1
    <3>1. \A i \in Enabled(list) \cap 1 .. next : i = next \/ \E l \in 1 .. Len(asked) : i = asked[l]
      <4> SUFFICES ASSUME NEW i \in Enabled(list), i \in 1 .. next, i # next
                   PROVE  \E l \in 1 .. Len(asked) : i = asked[l]
        OBVIOUS
      <4>1. i \notin rest
        BY <1>3, <1>4
      <4>2. PICK j \in DOMAIN asked : ~(asked[j] < i)
        BY <4>1 DEF rest, Rest
      <4>3. i \in 1 .. asked[j]
        BY <4>2, <1>5
      <4>4. i \in {asked[l] : l \in 1 .. j}
        BY <4>3 DEF InOrder
      <4> QED
        BY <4>4, <1>6
    <3>2. \A l \in 1 .. Len(asked) : asked[l] \in Enabled(list) \cap 1 .. next
      <4> SUFFICES ASSUME NEW l \in 1 .. Len(asked)
                   PROVE  asked[l] \in Enabled(list) \cap 1 .. next
        OBVIOUS
      <4>1. asked[l] \in {asked[m] : m \in 1 .. l}
        BY <1>6
      <4>2. asked[l] \in Enabled(list) \cap 1 .. asked[l]
        BY <4>1, <1>6 DEF InOrder
      <4>3. asked[l] \in Nat /\ asked[l] < next
        BY <1>5, <1>6
      <4> QED
        BY <4>2, <4>3, <1>4
    <3>3. next \in Enabled(list) \cap 1 .. next
      BY <1>1, <1>4
    <3>4. now[k] = next
      BY <2>2, <1>6
    <3>5. \A l \in 1 .. k : l \in 1 .. Len(asked) \/ l = k
      BY <2>2, <1>6
    <3>6. \A l \in 1 .. Len(asked) : l \in 1 .. k /\ now[l] = asked[l]
      <4>1. \A l \in 1 .. Len(asked) : l \in 1 .. k
        BY <2>2
      <4> QED
        BY <4>1, <1>6, Zenon
    <3>7. k \in 1 .. k
      BY <2>2, <1>6
    <3>8. {now[l] : l \in 1 .. k} = {asked[l] : l \in 1 .. Len(asked)} \cup {next}
      BY <3>4, <3>5, <3>6, <3>7
    <3> QED
      BY <3>1, <3>2, <3>3, <3>4, <3>8
  <2> QED
    BY <2>1, <2>2, <1>6
<1>9. Len(now) > 1 => fallback
  BY <1>6
<1>10. InOrder(now, list, fallback)
  BY <1>7, <1>8, <1>9 DEF InOrder
<1> QED
  BY <1>4, <1>6, <1>10 DEF now, next, rest

(* A chain with nothing left has been asked from end to end.                *)
LEMMA AllAsked ==
    ASSUME NEW list \in Seq(Provider), NEW asked \in Seq(Nat), NEW fallback,
           InOrder(asked, list, fallback), Rest(Enabled(list), asked) = {}
    PROVE  Enabled(list) \subseteq ToSet(asked)
<1> SUFFICES ASSUME NEW i \in Enabled(list) PROVE i \in ToSet(asked)
  OBVIOUS
<1>1. i \in Nat /\ i > 0
  BY DEF Enabled
<1>2. PICK k \in DOMAIN asked : ~(asked[k] < i)
  BY DEF Rest
<1>3. i \in 1 .. asked[k] /\ k \in Nat
  BY <1>1, <1>2
<1>4. PICK l \in 1 .. k : i = asked[l]
  BY <1>3 DEF InOrder
<1> QED
  BY <1>2, <1>4 DEF ToSet

(* Nobody was asked yet.                                                    *)
LEMMA OrderBegins == \A list, fallback : InOrder(<<>>, list, fallback)
  BY DEF InOrder

(* What the turn was doing is no more than one event of its progress.       *)
LEMMA ProgressParts ==
    \A p \in {<<>>} \cup {<<y>> : y \in Progress} :
        p \in Seq(Event) /\ \A i \in DOMAIN p : p[i] \in Progress
<1>1. Progress \subseteq Event
  BY DEF Progress, Event
<1>2. \A y \in Progress : <<y>> \in Seq(Event) /\ \A i \in DOMAIN <<y>> : <<y>>[i] \in Progress
  BY <1>1
<1>3. <<>> \in Seq(Event) /\ \A i \in DOMAIN <<>> : <<>>[i] \in Progress
  OBVIOUS
<1> QED
  BY <1>2, <1>3

(* What is told goes on at its end.                                         *)
LEMMA ToldGoesOn ==
    ASSUME NEW e, NEW o \in Seq(Event), Told(e, o), NEW x \in Event
    PROVE  Told(Append(e, x), Append(o, x)) /\ Told(e \o <<x>>, Append(o, x))
<1>1. PICK p \in {<<>>} \cup {<<y>> : y \in Progress} : e = p \o o
  BY DEF Told
<1>2. p \in Seq(Event)
  BY ProgressParts
<1>3. Append(p \o o, x) = p \o Append(o, x)
  BY <1>2
<1>4. (p \o o) \o <<x>> = p \o Append(o, x)
  BY <1>2
<1> QED
  BY <1>1, <1>3, <1>4 DEF Told

(* Its members are those of both parts.                                     *)
LEMMA ToldMembers ==
    ASSUME NEW e, NEW o \in Seq(Event), Told(e, o)
    PROVE  /\ e \in Seq(Event)
           /\ \A x \in Event \ Progress : x \in ToSet(e) <=> x \in ToSet(o)
<1>1. PICK p \in {<<>>} \cup {<<y>> : y \in Progress} : e = p \o o
  BY DEF Told
<1>2. p \in Seq(Event) /\ \A i \in DOMAIN p : p[i] \in Progress
  BY ProgressParts
<1>3. e \in Seq(Event)
  BY <1>1, <1>2
<1>4. \A x \in Event \ Progress : x \in ToSet(e) => x \in ToSet(o)
  <2> SUFFICES ASSUME NEW x \in Event \ Progress, NEW i \in DOMAIN e, x = e[i]
               PROVE  x \in ToSet(o)
    BY DEF ToSet
  <2>1. i \notin DOMAIN p
    BY <1>1, <1>2
  <2>2. i - Len(p) \in DOMAIN o /\ e[i] = o[i - Len(p)]
    BY <1>1, <1>2, <2>1
  <2> QED
    BY <2>2 DEF ToSet
<1>5. \A x \in Event \ Progress : x \in ToSet(o) => x \in ToSet(e)
  <2> SUFFICES ASSUME NEW x \in Event \ Progress, NEW i \in DOMAIN o, x = o[i]
               PROVE  x \in ToSet(e)
    BY DEF ToSet
  <2>1. i + Len(p) \in DOMAIN e /\ e[i + Len(p)] = o[i]
    BY <1>1, <1>2
  <2> QED
    BY <2>1 DEF ToSet
<1> QED
  BY <1>3, <1>4, <1>5

(* What the answer's stream is to be when the request is over.              *)
LEMMA ToldWhole ==
    ASSUME NEW e, NEW o \in Seq(Event), Told(e, o)
    PROVE  \E n \in 0 .. Len(e) : /\ \A i \in 1 .. n : e[i] \in Progress
                                  /\ SubSeq(e, n + 1, Len(e)) = o
<1>1. PICK p \in {<<>>} \cup {<<y>> : y \in Progress} : e = p \o o
  BY DEF Told
<1>2. p \in Seq(Event) /\ \A i \in DOMAIN p : p[i] \in Progress
  BY ProgressParts
<1>3. e \in Seq(Event) /\ Len(e) = Len(p) + Len(o) /\ Len(p) \in 0 .. Len(e)
  BY <1>1, <1>2
<1>4. \A i \in 1 .. Len(p) : e[i] \in Progress
  BY <1>1, <1>2
<1>5. SubSeq(e, Len(p) + 1, Len(e)) = o
  BY <1>1, <1>2, <1>3
<1> QED
  BY <1>3, <1>4, <1>5

(* A request that goes on goes on alone.                                    *)
LEMMA RequestMoves ==
    ASSUME VoiceReqs, NEW r \in Request, NEW q \in Requests, VoiceShape(q),
           req' = [req EXCEPT ![r] = q]
    PROVE  VoiceReqs'
<1>1. req' \in [Request -> Requests]
  BY DEF VoiceReqs
<1>2. ASSUME NEW x \in Request PROVE VoiceShape(req'[x])
  <2>1. CASE x = r
    BY <2>1 DEF VoiceReqs
  <2>2. CASE x # r
    <3>1. req'[x] = req[x]
      BY <2>2 DEF VoiceReqs
    <3> QED
      BY <3>1 DEF VoiceReqs
  <2> QED
    BY <2>1, <2>2
<1> QED
  BY <1>1, <1>2 DEF VoiceReqs

(* A request, its shape and the types of the fields that the steps use.     *)
LEMMA RequestKnown ==
    ASSUME VoiceReqs, NEW r \in Request
    PROVE  /\ req[r] \in Requests /\ VoiceShape(req[r])
           /\ req[r].config \in VoiceConfig /\ req[r].tries \in Seq(Nat)
           /\ req[r].spoken \in Seq(Nat) /\ req[r].events \in Seq(Event)
           /\ req[r].config.stt \in Seq(Provider) /\ req[r].config.tts \in Seq(Provider)
<1>1. req[r] \in Requests /\ VoiceShape(req[r])
  BY DEF VoiceReqs
<1>2. /\ req[r].config \in VoiceConfig /\ req[r].tries \in Seq(Nat)
      /\ req[r].spoken \in Seq(Nat) /\ req[r].events \in Seq(Event)
  BY <1>1 DEF Requests
<1> QED
  BY <1>1, <1>2 DEF VoiceConfig

(* Short streams of events, of which longer ones begin.                     *)
LEMMA ToldShort ==
    /\ Told(<<>>, <<>>) /\ Told(<<"error">>, <<"error">>)
    /\ \A x \in Progress : Told(<<x>>, <<>>)
    /\ <<>> \in Seq(Event) /\ <<"error">> \in Seq(Event) /\ <<"final">> \in Seq(Event)
    /\ <<"final", "audio">> \in Seq(Event)
    /\ {"final", "error", "audio", "done"} \subseteq Event \ Progress
    /\ Progress \subseteq Event
    /\ Outcomes \subseteq Seq(Event)
<1>1. Progress \subseteq Event /\ {"final", "error", "audio", "done"} \subseteq Event \ Progress
  BY DEF Progress, Event
<1>2. Told(<<>>, <<>>)
  <2>1. <<>> = <<>> \o <<>>
    OBVIOUS
  <2> QED
    BY <2>1 DEF Told
<1>3. Told(<<"error">>, <<"error">>)
  <2>1. <<"error">> = <<>> \o <<"error">>
    OBVIOUS
  <2> QED
    BY <2>1 DEF Told
<1>4. ASSUME NEW x \in Progress PROVE Told(<<x>>, <<>>)
  <2>1. <<x>> = <<x>> \o <<>>
    OBVIOUS
  <2> QED
    BY <2>1 DEF Told
<1>5. <<>> \in Seq(Event) /\ <<"error">> \in Seq(Event) /\ <<"final">> \in Seq(Event)
  BY <1>1
<1>6. /\ <<"final", "audio">> \in Seq(Event) /\ <<"error", "done">> \in Seq(Event)
      /\ <<"final", "done">> \in Seq(Event) /\ <<"final", "audio", "done">> \in Seq(Event)
  BY <1>1
<1> QED
  BY <1>1, <1>2, <1>3, <1>4, <1>5, <1>6 DEF Outcomes

(* A stream of two events, as the handler builds it.                        *)
LEMMA AppendPair == \A x, y : Append(<<x>>, y) = <<x, y>>
<1> SUFFICES ASSUME NEW x, NEW y PROVE Append(<<x>>, y) = <<x, y>>
  OBVIOUS
<1>1. <<x>> \in Seq({x, y}) /\ <<x, y>> \in Seq({x, y}) /\ Append(<<x>>, y) \in Seq({x, y})
  OBVIOUS
<1>2. Len(Append(<<x>>, y)) = 2 /\ Len(<<x, y>>) = 2
  OBVIOUS
<1>3. \A i \in 1 .. 2 : Append(<<x>>, y)[i] = <<x, y>>[i]
  OBVIOUS
<1> QED
  BY <1>1, <1>2, <1>3, SeqEqual

(* A stream of three events.                                                *)
LEMMA AppendTriple == \A x, y, z : Append(<<x, y>>, z) = <<x, y, z>>
<1> SUFFICES ASSUME NEW x, NEW y, NEW z PROVE Append(<<x, y>>, z) = <<x, y, z>>
  OBVIOUS
<1> DEFINE S == {x, y, z}
<1>1. <<x, y>> \in Seq(S) /\ <<x, y, z>> \in Seq(S) /\ Append(<<x, y>>, z) \in Seq(S)
  OBVIOUS
<1>2. Len(Append(<<x, y>>, z)) = 3 /\ Len(<<x, y, z>>) = 3
  OBVIOUS
<1>3. \A i \in 1 .. 3 : Append(<<x, y>>, z)[i] = <<x, y, z>>[i]
  OBVIOUS
<1> QED
  BY <1>1, <1>2, <1>3, SeqEqual

(* What a client may have been told when a request ends without speech.     *)
Silent == {<<>>, <<"error">>, <<"final">>, <<"error", "error">>, <<"final", "error">>,
           <<"error", "done">>, <<"final", "done">>}

(* The answers that are not spoken, of which none brings audio.             *)
LEMMA NoAudioIn ==
    /\ Silent \subseteq Seq(Event)
    /\ \A o \in Silent : "audio" \notin ToSet(o)
<1>1. {"error", "final", "done"} \subseteq Event
  BY DEF Event
<1>2. Silent \subseteq Seq({"error", "final", "done"})
  BY DEF Silent
<1>3. ASSUME NEW o \in Seq({"error", "final", "done"})
      PROVE  o \in Seq(Event) /\ "audio" \notin ToSet(o)
  <2>1. \A i \in DOMAIN o : o[i] \in {"error", "final", "done"}
    OBVIOUS
  <2> QED
    BY <1>1, <2>1 DEF ToSet
<1> QED
  BY <1>2, <1>3

(* A request that is refused has been told so, and nothing else.            *)
LEMMA RefusedIsOver ==
    ASSUME NEW q, q.events = <<"error">>, q.final = ""
    PROVE  Over(q)
<1>1. "audio" \notin ToSet(q.events)
  <2>1. "audio" \in ToSet(q.events) <=> "audio" \in ToSet(<<"error">>)
    OBVIOUS
  <2> QED
    BY <2>1, NoAudioIn DEF Silent
<1>2. \E o \in Outcomes : Told(q.events, o)
  BY ToldShort DEF Outcomes
<1> QED
  BY <1>1, <1>2 DEF Over

(* A refusal before there is a text (_single_error).                        *)
LEMMA Refused ==
    ASSUME VoiceReqs, NEW r \in Request, Refuse(r),
           req[r].pc \in {"agent", "stt"}
    PROVE  VoiceReqs'
<1> DEFINE q == req[r]
           n == [q EXCEPT !.pc = "ended", !.events = <<"error">>]
<1>1. q \in Requests /\ VoiceShape(q)
  BY RequestKnown
<1>2. n \in Requests
  BY <1>1, ToldShort DEF Requests
<1>3. /\ n.pc = "ended" /\ n.events = <<"error">> /\ n.final = q.final
      /\ n.tries = q.tries /\ n.spoken = q.spoken /\ n.config = q.config
  BY <1>1 DEF Requests
<1>4. Over(n)
  <2>1. n.final = ""
    BY <1>1, <1>3 DEF VoiceShape
  <2> HIDE DEF n
  <2> QED
    BY <1>3, <2>1, RefusedIsOver
<1>5. VoiceShape(n)
  <2> HIDE DEF n
  <2> QED
    BY <1>1, <1>3, <1>4 DEF VoiceShape
<1>6. req' = [req EXCEPT ![r] = n]
  BY DEF Refuse
<1> QED
  BY <1>2, <1>5, <1>6, RequestMoves

(* chat_voice_endpoint, as far as the text.                                 *)
LEMMA ReceiveShape ==
    ASSUME VoiceReqs, voice \in VoiceConfig, NEW r \in Request,
           NEW audio, NEW agent \in Agent \cup {NoAgent}, Receive(r, audio, agent)
    PROVE  VoiceReqs'
<1> DEFINE pc == IF agent = NoAgent THEN "stt" ELSE "agent"
           n == [Fresh EXCEPT !.pc = pc, !.agent = agent, !.config = voice]
           m == [Fresh EXCEPT !.pc = "ended", !.agent = agent, !.events = <<"error">>]
<1>1. pc \in {"stt", "agent"}
  OBVIOUS
<1>2. Fresh \in Requests
  BY VoiceAssumption DEF Fresh, Requests
<1>3. n \in Requests /\ m \in Requests
  <2> HIDE DEF pc
  <2>1. n \in Requests
    BY <1>1, <1>2 DEF Requests
  <2>2. m \in Requests
    BY <1>2, ToldShort DEF Requests
  <2> QED
    BY <2>1, <2>2
<1>4. VoiceShape(n)
  <2>1. /\ n.pc \in {"stt", "agent"} /\ (n.pc = "agent" => n.agent \in Agent)
        /\ n.tries = <<>> /\ n.spoken = <<>>
        /\ n.events = <<>> /\ n.final = ""
    BY <1>1 DEF Fresh
  <2> HIDE DEF n
  <2> QED
    BY <2>1, OrderBegins DEF VoiceShape
<1>5. VoiceShape(m)
  <2>1. /\ m.pc = "ended" /\ m.tries = <<>> /\ m.spoken = <<>>
        /\ m.events = <<"error">> /\ m.final = ""
    BY DEF Fresh
  <2> HIDE DEF m
  <2>2. Over(m)
    BY <2>1, RefusedIsOver
  <2> QED
    BY <2>1, <2>2, OrderBegins DEF VoiceShape
<1>6. req' = [req EXCEPT ![r] = n] \/ req' = [req EXCEPT ![r] = m]
  BY DEF Receive
<1> HIDE DEF n, m
<1> QED
  BY <1>3, <1>4, <1>5, <1>6, RequestMoves

(* What an agent overrides leaves the settings complete                     *)
(* (resolve_voice_config).                                                  *)
LEMMA ResolveType ==
    ASSUME NEW c \in VoiceConfig, NEW o \in Override
    PROVE  Resolve(c, o) \in VoiceConfig
<1>1. \A f, b : b \in BOOLEAN => Says(f, b) \in BOOLEAN
  <2> SUFFICES ASSUME NEW f, NEW b \in BOOLEAN PROVE Says(f, b) \in BOOLEAN
    OBVIOUS
  <2>1. CASE f = {}
    BY <2>1 DEF Says
  <2>2. CASE f # {}
    <3>1. Says(f, b) <=> TRUE \in f
      BY <2>2 DEF Says
    <3>2. (TRUE \in f) \in BOOLEAN
      OBVIOUS
    <3> QED
      BY <2>2, <3>2, Zenon DEF Says
  <2> QED
    BY <2>1, <2>2
<1>2. /\ c.enabled \in BOOLEAN /\ c.sttFallback \in BOOLEAN /\ c.ttsFallback \in BOOLEAN
      /\ c.stt \in Seq(Provider) /\ c.tts \in Seq(Provider)
  BY DEF VoiceConfig
<1> DEFINE on == ~o.inputDisabled /\ Says(o.enabled, c.enabled)
           sf == Says(o.sttFallback, c.sttFallback)
           tf == Says(o.ttsFallback, c.ttsFallback)
           tts == IF o.outputDisabled THEN <<>> ELSE c.tts
<1>3. on \in BOOLEAN /\ sf \in BOOLEAN /\ tf \in BOOLEAN
  BY <1>1, <1>2, Zenon
<1>4. tts \in Seq(Provider)
  BY <1>2
<1>5. Resolve(c, o) = [c EXCEPT !.enabled = on, !.sttFallback = sf,
                                !.ttsFallback = tf, !.tts = tts]
  BY Zenon DEF Resolve
<1> HIDE DEF on, sf, tf, tts
<1> QED
  BY <1>3, <1>4, <1>5 DEF VoiceConfig

(* The request with the settings of its agent, or refused by them.          *)
LEMMA LookUpShape ==
    ASSUME VoiceReqs, override \in [Agent -> Override \cup {NoRow}],
           NEW r \in Request, LookUpAgent(r)
    PROVE  VoiceReqs'
<1> DEFINE q == req[r]
           o == override[q.agent]
           c == IF o = NoRow THEN q.config ELSE Resolve(q.config, o)
           n == [q EXCEPT !.config = c,
                          !.pc = IF c.enabled THEN "stt" ELSE "ended",
                          !.events = IF c.enabled THEN @ ELSE <<"error">>]
<1>1. /\ q \in Requests /\ VoiceShape(q) /\ q.pc = "agent" /\ q.config \in VoiceConfig
      /\ q.agent \in Agent
  BY RequestKnown DEF LookUpAgent, VoiceShape
<1>2. c \in VoiceConfig
  BY <1>1, ResolveType
<1>3. req' = [req EXCEPT ![r] = n]
  BY DEF LookUpAgent
<1> HIDE DEF c
<1>4. n \in Requests
  <2>1. <<"error">> \in Seq(Event)
    BY ToldShort
  <2> QED
    BY <1>1, <1>2, <2>1 DEF Requests
<1>5. /\ n.pc = (IF c.enabled THEN "stt" ELSE "ended") /\ n.tries = q.tries
      /\ n.spoken = q.spoken /\ n.final = q.final
      /\ n.events = (IF c.enabled THEN q.events ELSE <<"error">>)
  BY <1>1 DEF Requests
<1>6. q.tries = <<>> /\ q.spoken = <<>> /\ q.events = <<>> /\ q.final = ""
  BY <1>1 DEF VoiceShape
<1> HIDE DEF n
<1>7. VoiceShape(n)
  <2>1. CASE c.enabled
    BY <2>1, <1>5, <1>6, OrderBegins DEF VoiceShape
  <2>2. CASE ~c.enabled
    <3>1. Over(n)
      BY <2>2, <1>5, <1>6, RefusedIsOver
    <3> QED
      BY <2>2, <3>1, <1>5, <1>6, OrderBegins DEF VoiceShape
  <2> QED
    BY <2>1, <2>2
<1> QED
  BY <1>3, <1>4, <1>7, RequestMoves

(* Asking the next provider of the recording (STTEngine.transcribe).        *)
LEMMA HearNext ==
    ASSUME VoiceReqs, NEW r \in Request, NEW kind, AsksSTT(r, kind)
    PROVE  LET tries == Append(req[r].tries, NextSTT(r)) IN
           /\ tries \in Seq(Nat)
           /\ InOrder(tries, req[r].config.stt, req[r].config.sttFallback)
<1> DEFINE list == req[r].config.stt
           asked == req[r].tries
           fallback == req[r].config.sttFallback
<1>1. list \in Seq(Provider) /\ asked \in Seq(Nat) /\ InOrder(asked, list, fallback)
  BY RequestKnown DEF VoiceShape
<1>2. Rest(Enabled(list), asked) # {} /\ NextSTT(r) = Min(Rest(Enabled(list), asked))
  BY DEF AsksSTT, MoreSTT, NextSTT, BuildSTT
<1>3. Len(asked) = 0 \/ fallback
  BY DEF AsksSTT, FallsBack
<1> HIDE DEF list, asked, fallback
<1>4. /\ Append(asked, NextSTT(r)) \in Seq(Nat)
      /\ InOrder(Append(asked, NextSTT(r)), list, fallback)
  BY <1>1, <1>2, <1>3, OrderGoesOn
<1> QED
  BY <1>4 DEF list, asked, fallback

(* The request between two answers of its chain, and when it has the text.  *)
LEMMA HearingShape ==
    ASSUME VoiceReqs, NEW r \in Request, req[r].pc \in {"stt", "hearing"},
           NEW q \in Requests, q.pc \in {"stt", "hearing", "stream"},
           q.events = req[r].events, q.spoken = req[r].spoken,
           q.final = req[r].final, q.config = req[r].config,
           InOrder(q.tries, q.config.stt, q.config.sttFallback)
    PROVE  VoiceShape(q)
<1>1. VoiceShape(req[r])
  BY RequestKnown
<1>2. q.events = <<>> /\ q.spoken = <<>> /\ q.final = ""
  BY <1>1 DEF VoiceShape
<1>3. Streamed(q)
  BY <1>2, ToldShort DEF Streamed
<1> QED
  BY <1>2, <1>3, OrderBegins DEF VoiceShape

(* A transcription: the turn begins, or there was no speech.                *)
LEMMA HeardShape ==
    ASSUME VoiceReqs, NEW r \in Request, req[r].pc \in {"stt", "hearing"},
           NEW tries \in Seq(Nat), Heard(r, tries),
           InOrder(tries, req[r].config.stt, req[r].config.sttFallback)
    PROVE  VoiceReqs'
<1> DEFINE q == req[r]
           n == [q EXCEPT !.tries = tries, !.pc = "stream"]
           m == [q EXCEPT !.tries = tries, !.pc = "ended", !.events = <<"error">>]
<1>1. q \in Requests /\ VoiceShape(q)
  BY RequestKnown
<1>2. n \in Requests /\ m \in Requests
  <2>1. n \in Requests
    BY <1>1 DEF Requests
  <2>2. m \in Requests
    BY <1>1, ToldShort DEF Requests
  <2> QED
    BY <2>1, <2>2
<1>3. /\ n.pc = "stream" /\ n.tries = tries /\ n.events = q.events
      /\ n.spoken = q.spoken /\ n.final = q.final /\ n.config = q.config
  BY <1>1 DEF Requests
<1>4. /\ m.pc = "ended" /\ m.tries = tries /\ m.events = <<"error">>
      /\ m.spoken = q.spoken /\ m.final = q.final /\ m.config = q.config
  BY <1>1 DEF Requests
<1>5. PICK text \in {"text", "blank"} :
          req' = [req EXCEPT ![r].tries = tries,
                             ![r].pc = IF text = "text" THEN "stream" ELSE "ended",
                             ![r].events = IF text = "text" THEN @ ELSE <<"error">>]
  BY DEF Heard
<1>6. CASE text = "text"
  <2>1. n = [q EXCEPT !.tries = tries, !.pc = "stream", !.events = q.events]
    BY <1>1 DEF Requests
  <2>2. req' = [req EXCEPT ![r] = n]
    BY <1>5, <1>6, <2>1
  <2> HIDE DEF n
  <2>3. VoiceShape(n)
    BY <1>2, <1>3, HearingShape
  <2> QED
    BY <1>2, <2>2, <2>3, RequestMoves
<1>7. CASE text # "text"
  <2>1. req' = [req EXCEPT ![r] = m]
    BY <1>5, <1>7
  <2> HIDE DEF m
  <2>2. m.final = "" /\ m.spoken = <<>>
    BY <1>1, <1>4 DEF VoiceShape
  <2>3. Over(m)
    BY <1>4, <2>2, RefusedIsOver
  <2>4. VoiceShape(m)
    BY <1>4, <2>2, <2>3, OrderBegins DEF VoiceShape
  <2> QED
    BY <1>2, <2>1, <2>4, RequestMoves
<1> QED
  BY <1>6, <1>7

(* A provider that fails leaves the request at the next one.                *)
LEMMA MissedShape ==
    ASSUME VoiceReqs, NEW r \in Request, req[r].pc \in {"stt", "hearing"},
           NEW q \in Requests, q.pc \in {"stt", "hearing"},
           q.events = req[r].events, q.spoken = req[r].spoken,
           q.final = req[r].final, q.config = req[r].config,
           InOrder(q.tries, q.config.stt, q.config.sttFallback),
           req' = [req EXCEPT ![r] = q]
    PROVE  VoiceReqs'
<1>1. VoiceShape(q)
  BY HearingShape
<1> QED
  BY <1>1, RequestMoves

(* Asking a remote API for the text (LiteLLMSTTProvider).                   *)
LEMMA RemoteHearShape ==
    ASSUME VoiceReqs, NEW r \in Request, AskRemoteSTT(r)
    PROVE  VoiceReqs'
<1> DEFINE tries == Append(req[r].tries, NextSTT(r))
           n == [req[r] EXCEPT !.tries = tries]
<1>1. AsksSTT(r, "litellm") /\ req[r].pc = "stt"
  BY DEF AskRemoteSTT, AsksSTT
<1>2. tries \in Seq(Nat) /\ InOrder(tries, req[r].config.stt, req[r].config.sttFallback)
  BY <1>1, HearNext
<1>3. Heard(r, tries) \/ req' = [req EXCEPT ![r] = n]
  BY DEF AskRemoteSTT
<1> HIDE DEF tries
<1>4. CASE Heard(r, tries)
  BY <1>1, <1>2, <1>4, HeardShape
<1>5. CASE req' = [req EXCEPT ![r] = n]
  <2>1. /\ n \in Requests /\ n.pc = "stt" /\ n.tries = tries
        /\ n.events = req[r].events /\ n.spoken = req[r].spoken
        /\ n.final = req[r].final /\ n.config = req[r].config
    BY <1>1, <1>2, RequestKnown DEF Requests
  <2> HIDE DEF n
  <2> QED
    BY <1>1, <1>2, <1>5, <2>1, MissedShape
<1> QED
  BY <1>3, <1>4, <1>5

(* Starting a local process for the text (LocalSTTProvider).                *)
LEMMA LocalHearShape ==
    ASSUME VoiceReqs, NEW r \in Request, StartLocalSTT(r)
    PROVE  VoiceReqs'
<1> DEFINE tries == Append(req[r].tries, NextSTT(r))
           n == [req[r] EXCEPT !.tries = tries]
           m == [req[r] EXCEPT !.tries = tries, !.pc = "hearing"]
<1>1. AsksSTT(r, "local") /\ req[r].pc = "stt"
  BY DEF StartLocalSTT, AsksSTT
<1>2. tries \in Seq(Nat) /\ InOrder(tries, req[r].config.stt, req[r].config.sttFallback)
  BY <1>1, HearNext
<1>3. req' = [req EXCEPT ![r] = n] \/ req' = [req EXCEPT ![r] = m]
  BY Zenon DEF StartLocalSTT
<1> HIDE DEF tries
<1>4. /\ n \in Requests /\ n.pc = "stt" /\ n.tries = tries
      /\ n.events = req[r].events /\ n.spoken = req[r].spoken
      /\ n.final = req[r].final /\ n.config = req[r].config
  BY <1>1, <1>2, RequestKnown DEF Requests
<1>5. /\ m \in Requests /\ m.pc = "hearing" /\ m.tries = tries
      /\ m.events = req[r].events /\ m.spoken = req[r].spoken
      /\ m.final = req[r].final /\ m.config = req[r].config
  BY <1>1, <1>2, RequestKnown DEF Requests
<1> HIDE DEF n, m
<1>6. CASE req' = [req EXCEPT ![r] = n]
  BY <1>1, <1>2, <1>4, <1>6, MissedShape
<1>7. CASE req' = [req EXCEPT ![r] = m]
  BY <1>1, <1>2, <1>5, <1>7, MissedShape
<1> QED
  BY <1>3, <1>6, <1>7

(* The local process brings the text, fails, or is given up.                *)
LEMMA HearEndShape ==
    ASSUME VoiceReqs, NEW r \in Request, LocalSTTEnds(r) \/ LocalSTTTimesOut(r)
    PROVE  VoiceReqs'
<1> DEFINE n == [req[r] EXCEPT !.pc = "stt"]
           m == [req[r] EXCEPT !.pc = "stt", !.abandoned = TRUE]
<1>1. req[r].pc = "hearing"
  BY DEF LocalSTTEnds, LocalSTTTimesOut
<1>2. /\ req[r] \in Requests /\ req[r].tries \in Seq(Nat)
      /\ InOrder(req[r].tries, req[r].config.stt, req[r].config.sttFallback)
  BY RequestKnown DEF VoiceShape
<1>3. \/ Heard(r, req[r].tries)
      \/ req' = [req EXCEPT ![r] = n]
      \/ req' = [req EXCEPT ![r] = m]
  BY DEF LocalSTTEnds, LocalSTTTimesOut, Goes
<1>4. /\ n \in Requests /\ n.pc = "stt" /\ n.tries = req[r].tries
      /\ n.events = req[r].events /\ n.spoken = req[r].spoken
      /\ n.final = req[r].final /\ n.config = req[r].config
  BY <1>2 DEF Requests
<1>5. /\ m \in Requests /\ m.pc = "stt" /\ m.tries = req[r].tries
      /\ m.events = req[r].events /\ m.spoken = req[r].spoken
      /\ m.final = req[r].final /\ m.config = req[r].config
  BY <1>2 DEF Requests
<1> HIDE DEF n, m
<1>6. CASE Heard(r, req[r].tries)
  BY <1>1, <1>2, <1>6, HeardShape
<1>7. CASE req' = [req EXCEPT ![r] = n]
  BY <1>1, <1>2, <1>4, <1>7, MissedShape
<1>8. CASE req' = [req EXCEPT ![r] = m]
  BY <1>1, <1>2, <1>5, <1>8, MissedShape
<1> QED
  BY <1>3, <1>6, <1>7, <1>8

(* Up to the text, whatever step a request takes it stays in shape.         *)
LEMMA ListeningShape ==
    ASSUME VoiceReqs, override \in [Agent -> Override \cup {NoRow}],
           NEW r \in Request, Listens(r) \/ LocalSTTEnds(r)
    PROVE  VoiceReqs'
<1>1. CASE LookUpAgent(r)
  BY <1>1, LookUpShape DEF LookUpAgent
<1>2. CASE NoneHears(r)
  BY <1>2, Refused DEF NoneHears
<1>3. CASE AskRemoteSTT(r)
  BY <1>3, RemoteHearShape
<1>4. CASE StartLocalSTT(r)
  BY <1>4, LocalHearShape
<1>5. CASE LocalSTTTimesOut(r) \/ LocalSTTEnds(r)
  BY <1>5, HearEndShape
<1> QED
  BY <1>1, <1>2, <1>3, <1>4, <1>5 DEF Listens

(* What was told so far of a turn that runs.                                *)
LEMMA StreamedSoFar ==
    ASSUME VoiceReqs, NEW r \in Request, req[r].pc = "stream"
    PROVE  /\ Streamed(req[r]) /\ req[r].spoken = <<>>
           /\ ~Concludes(req[r].events) =>
                  Told(req[r].events, <<>>) /\ req[r].final = ""
           /\ Concludes(req[r].events) =>
                  \/ Told(req[r].events, <<"error">>) /\ req[r].final = ""
                  \/ Told(req[r].events, <<"final">>)
           /\ \E o \in {<<>>, <<"error">>, <<"final">>} : Told(req[r].events, o)
<1> DEFINE e == req[r].events
<1>1. Streamed(req[r]) /\ req[r].spoken = <<>>
  BY RequestKnown DEF VoiceShape
<1>2. "error" \in ToSet(<<"error">>) /\ "final" \in ToSet(<<"final">>)
  <2>1. 1 \in DOMAIN <<"error">> /\ 1 \in DOMAIN <<"final">>
    OBVIOUS
  <2> QED
    BY <2>1 DEF ToSet
<1>3. "error" \notin ToSet(<<>>) /\ "final" \notin ToSet(<<>>)
  BY DEF ToSet
<1>4. /\ Told(e, <<"error">>) => "error" \in ToSet(e)
      /\ Told(e, <<"final">>) => "final" \in ToSet(e)
      /\ Told(e, <<>>) => "error" \notin ToSet(e) /\ "final" \notin ToSet(e)
  BY <1>2, <1>3, ToldShort, ToldMembers
<1>5. Concludes(e) <=> "error" \in ToSet(e) \/ "final" \in ToSet(e)
  BY DEF Concludes
<1> QED
  BY <1>1, <1>4, <1>5 DEF Streamed

(* The turn shows what it is doing, of which some is not sent.              *)
LEMMA StreamShowsShape ==
    ASSUME VoiceReqs, NEW r \in Request,
           NEW type \in {"status", "token", "tool_call", "tool_result"},
           StreamShows(r, type)
    PROVE  VoiceReqs'
<1> DEFINE n == [req[r] EXCEPT !.events = Payload(type)]
<1>1. req[r].pc = "stream" /\ req[r].events = <<>>
  BY DEF StreamShows
<1>2. ~Concludes(req[r].events)
  BY <1>1 DEF Concludes, ToSet
<1>3. req[r].final = "" /\ req[r].spoken = <<>>
  BY <1>1, <1>2, StreamedSoFar
<1>4. Payload(type) \in Seq(Event) /\ Told(Payload(type), <<>>)
  <2>1. CASE type = "status"
    <3>1. Payload(type) = <<>>
      BY <2>1 DEF Payload
    <3> QED
      BY <3>1, ToldShort
  <2>2. CASE type # "status"
    <3>1. Payload(type) = <<type>> /\ type \in Progress
      BY <2>2 DEF Payload, Progress
    <3>2. type \in Event
      BY <3>1, ToldShort
    <3> QED
      BY <3>1, <3>2, ToldShort
  <2> QED
    BY <2>1, <2>2
<1>5. req[r] \in Requests /\ VoiceShape(req[r])
  BY RequestKnown
<1>6. /\ n \in Requests /\ n.pc = "stream" /\ n.events = Payload(type)
      /\ n.final = "" /\ n.spoken = <<>> /\ n.tries = req[r].tries
      /\ n.config = req[r].config
  BY <1>1, <1>3, <1>4, <1>5 DEF Requests
<1>7. req' = [req EXCEPT ![r] = n]
  BY DEF StreamShows
<1> HIDE DEF n
<1>8. Streamed(n)
  BY <1>4, <1>6 DEF Streamed
<1>9. VoiceShape(n)
  BY <1>5, <1>6, <1>8, OrderBegins DEF VoiceShape
<1> QED
  BY <1>6, <1>7, <1>9, RequestMoves

(* The answer, or an error in its place.                                    *)
LEMMA StreamAnswerShape ==
    ASSUME VoiceReqs, NEW r \in Request, NEW content \in {"text", "blank"},
           StreamFinal(r, content) \/ StreamError(r)
    PROVE  VoiceReqs'
<1> DEFINE e == req[r].events
           n == [req[r] EXCEPT !.final = content, !.events = e \o <<"final">>]
           m == [req[r] EXCEPT !.events = e \o <<"error">>]
<1>1. req[r].pc = "stream" /\ ~Concludes(e)
  BY DEF StreamFinal, StreamError
<1>2. Told(e, <<>>) /\ req[r].final = "" /\ req[r].spoken = <<>>
  BY <1>1, StreamedSoFar
<1>3. /\ Told(e \o <<"final">>, <<"final">>) /\ Told(e \o <<"error">>, <<"error">>)
      /\ e \o <<"final">> \in Seq(Event) /\ e \o <<"error">> \in Seq(Event)
  <2>1. Append(<<>>, "final") = <<"final">> /\ Append(<<>>, "error") = <<"error">>
    OBVIOUS
  <2>2. "final" \in Event /\ "error" \in Event /\ <<>> \in Seq(Event)
    BY ToldShort
  <2>3. Told(e \o <<"final">>, <<"final">>) /\ Told(e \o <<"error">>, <<"error">>)
    BY <1>2, <2>1, <2>2, ToldGoesOn
  <2> QED
    BY <2>3, ToldMembers, ToldShort
<1>4. req[r] \in Requests /\ VoiceShape(req[r])
  BY RequestKnown
<1>5. req' = [req EXCEPT ![r] = n] \/ req' = [req EXCEPT ![r] = m]
  BY DEF StreamFinal, StreamError, Payload
<1> HIDE DEF e
<1>6. /\ n \in Requests /\ n.pc = "stream" /\ n.events = e \o <<"final">>
      /\ n.final = content /\ n.spoken = <<>> /\ n.tries = req[r].tries
      /\ n.config = req[r].config
  BY <1>1, <1>2, <1>3, <1>4 DEF Requests
<1>7. /\ m \in Requests /\ m.pc = "stream" /\ m.events = e \o <<"error">>
      /\ m.final = "" /\ m.spoken = <<>> /\ m.tries = req[r].tries
      /\ m.config = req[r].config
  BY <1>1, <1>2, <1>3, <1>4 DEF Requests
<1> HIDE DEF n, m
<1>8. Streamed(n) /\ Streamed(m)
  BY <1>3, <1>6, <1>7 DEF Streamed
<1>9. VoiceShape(n)
  BY <1>4, <1>6, <1>8, OrderBegins DEF VoiceShape
<1>10. VoiceShape(m)
  BY <1>4, <1>7, <1>8, OrderBegins DEF VoiceShape
<1> QED
  BY <1>5, <1>6, <1>7, <1>9, <1>10, RequestMoves

(* A request that ends, in terms of what its client was told.               *)
LEMMA EndShape ==
    ASSUME VoiceReqs, NEW r \in Request, req[r].pc \in {"stream", "tts", "speaking"},
           NEW q \in Requests, q.pc = "ended", Over(q),
           q.tries = req[r].tries, q.config = req[r].config,
           InOrder(q.spoken, q.config.tts, q.config.ttsFallback),
           req' = [req EXCEPT ![r] = q]
    PROVE  VoiceReqs'
<1>1. VoiceShape(req[r])
  BY RequestKnown
<1>2. VoiceShape(q)
  BY <1>1 DEF VoiceShape
<1> QED
  BY <1>2, RequestMoves

(* An end without speech: nothing was to be spoken, or nobody could.        *)
LEMMA SilentEnd ==
    ASSUME NEW q, NEW o \in Silent, Told(q.events, o),
           ~q.left /\ ~q.raised =>
               /\ o \in Outcomes
               /\ q.final = "text" /\ Speaks(q.config) =>
                      Enabled(q.config.tts) \subseteq ToSet(q.spoken)
    PROVE  Over(q)
<1>1. "audio" \notin ToSet(q.events)
  BY NoAudioIn, ToldMembers, ToldShort
<1> QED
  BY <1>1 DEF Over

(* A turn that raises is an error to the client, whatever it was told.      *)
LEMMA StreamRaisesShape ==
    ASSUME VoiceReqs, NEW r \in Request, StreamRaises(r)
    PROVE  VoiceReqs'
<1> DEFINE e == req[r].events
           n == [req[r] EXCEPT !.pc = "ended", !.raised = TRUE,
                               !.events = Append(e, "error")]
<1>1. req[r].pc = "stream"
  BY DEF StreamRaises
<1>2. PICK o \in {<<>>, <<"error">>, <<"final">>} : Told(e, o)
  BY <1>1, StreamedSoFar
<1>3. req[r] \in Requests /\ VoiceShape(req[r]) /\ e \in Seq(Event)
  BY RequestKnown
<1>4. Append(e, "error") \in Seq(Event)
  BY <1>3, ToldShort
<1>5. Append(o, "error") \in Silent /\ o \in Seq(Event)
  <2>1. Append(<<"error">>, "error") = <<"error", "error">>
    BY AppendPair
  <2>2. Append(<<"final">>, "error") = <<"final", "error">>
    BY AppendPair
  <2>3. Append(<<>>, "error") = <<"error">>
    OBVIOUS
  <2> QED
    BY <2>1, <2>2, <2>3, ToldShort DEF Silent
<1>6. Told(Append(e, "error"), Append(o, "error"))
  BY <1>2, <1>5, ToldGoesOn, ToldShort
<1>7. req' = [req EXCEPT ![r] = n]
  BY DEF StreamRaises
<1> HIDE DEF e
<1>8. /\ n \in Requests /\ n.pc = "ended" /\ n.raised /\ n.events = Append(e, "error")
      /\ n.tries = req[r].tries /\ n.spoken = req[r].spoken /\ n.config = req[r].config
  BY <1>3, <1>4 DEF Requests
<1> HIDE DEF n
<1>9. Over(n)
  BY <1>5, <1>6, <1>8, SilentEnd
<1>10. InOrder(n.spoken, n.config.tts, n.config.ttsFallback)
  BY <1>3, <1>8 DEF VoiceShape
<1> QED
  BY <1>1, <1>7, <1>8, <1>9, <1>10, EndShape

(* The turn is over: what has words is to be spoken, the rest is done.      *)
LEMMA StreamEndsShape ==
    ASSUME VoiceReqs, NEW r \in Request, StreamEnds(r)
    PROVE  VoiceReqs'
<1> DEFINE e == req[r].events
           n == [req[r] EXCEPT !.pc = "tts"]
           m == [req[r] EXCEPT !.pc = "ended", !.events = Append(e, "done")]
<1>1. req[r].pc = "stream" /\ Concludes(e)
  BY DEF StreamEnds
<1>2. /\ req[r] \in Requests /\ VoiceShape(req[r]) /\ e \in Seq(Event)
      /\ req[r].spoken = <<>>
  BY <1>1, RequestKnown, StreamedSoFar
<1>3. \/ Told(e, <<"error">>) /\ req[r].final = ""
      \/ Told(e, <<"final">>)
  BY <1>1, StreamedSoFar
<1>4. \/ /\ Speaks(req[r].config) /\ req[r].final = "text"
         /\ req' = [req EXCEPT ![r] = n]
      \/ /\ ~(Speaks(req[r].config) /\ req[r].final = "text")
         /\ req' = [req EXCEPT ![r] = m]
  BY DEF StreamEnds, Goes, Done
<1>5. Append(e, "done") \in Seq(Event)
  BY <1>2, ToldShort
<1>6. \E o \in Silent \cap Outcomes : Told(Append(e, "done"), o)
  <2>1. Append(<<"error">>, "done") = <<"error", "done">>
    BY AppendPair
  <2>2. Append(<<"final">>, "done") = <<"final", "done">>
    BY AppendPair
  <2>3. {<<"error", "done">>, <<"final", "done">>} \subseteq Silent \cap Outcomes
    BY DEF Silent, Outcomes
  <2>4. CASE Told(e, <<"error">>)
    <3>1. Told(Append(e, "done"), Append(<<"error">>, "done"))
      BY <2>4, ToldGoesOn, ToldShort
    <3> QED
      BY <3>1, <2>1, <2>3
  <2>5. CASE Told(e, <<"final">>)
    <3>1. Told(Append(e, "done"), Append(<<"final">>, "done"))
      BY <2>5, ToldGoesOn, ToldShort
    <3> QED
      BY <3>1, <2>2, <2>3
  <2> QED
    BY <1>3, <2>4, <2>5
<1>7. CASE /\ Speaks(req[r].config) /\ req[r].final = "text"
           /\ req' = [req EXCEPT ![r] = n]
  <2>1. Told(e, <<"final">>)
    BY <1>3, <1>7
  <2>2. /\ n \in Requests /\ n.pc = "tts" /\ n.events = e /\ n.final = "text"
        /\ n.tries = req[r].tries /\ n.spoken = <<>> /\ n.config = req[r].config
    BY <1>2, <1>7 DEF Requests
  <2> HIDE DEF n, e
  <2>3. VoiceShape(n)
    BY <1>2, <1>7, <2>1, <2>2, OrderBegins DEF VoiceShape
  <2> QED
    BY <1>7, <2>2, <2>3, RequestMoves
<1>8. CASE /\ ~(Speaks(req[r].config) /\ req[r].final = "text")
           /\ req' = [req EXCEPT ![r] = m]
  <2> HIDE DEF e
  <2>1. /\ m \in Requests /\ m.pc = "ended" /\ m.events = Append(e, "done")
        /\ m.final = req[r].final
        /\ m.tries = req[r].tries /\ m.spoken = <<>> /\ m.config = req[r].config
    BY <1>2, <1>5 DEF Requests
  <2> HIDE DEF m
  <2>2. Over(m)
    BY <1>6, <1>8, <2>1, SilentEnd
  <2> QED
    BY <1>1, <1>8, <2>1, <2>2, OrderBegins, EndShape
<1> QED
  BY <1>4, <1>7, <1>8

(* An answer about to be spoken.                                            *)
LEMMA Speaking ==
    ASSUME VoiceReqs, NEW r \in Request, req[r].pc \in {"tts", "speaking"}
    PROVE  /\ Told(req[r].events, <<"final">>) /\ req[r].final = "text"
           /\ Speaks(req[r].config)
           /\ InOrder(req[r].spoken, req[r].config.tts, req[r].config.ttsFallback)
           /\ Told(Append(req[r].events, "done"), <<"final", "done">>)
           /\ Append(req[r].events, "done") \in Seq(Event)
           /\ Told(Append(Append(req[r].events, "audio"), "done"),
                   <<"final", "audio", "done">>)
           /\ Append(Append(req[r].events, "audio"), "done") \in Seq(Event)
<1> DEFINE e == req[r].events
<1>1. VoiceShape(req[r]) /\ e \in Seq(Event)
  BY RequestKnown
<1>2. /\ Told(e, <<"final">>) /\ req[r].final = "text" /\ Speaks(req[r].config)
      /\ InOrder(req[r].spoken, req[r].config.tts, req[r].config.ttsFallback)
  BY <1>1 DEF VoiceShape
<1> HIDE DEF e
<1>3. Told(Append(e, "done"), Append(<<"final">>, "done"))
  BY <1>2, ToldGoesOn, ToldShort DEF e
<1>4. Told(Append(e, "audio"), Append(<<"final">>, "audio"))
  BY <1>2, ToldGoesOn, ToldShort DEF e
<1>5. Told(Append(Append(e, "audio"), "done"), Append(<<"final", "audio">>, "done"))
  BY <1>4, AppendPair, ToldGoesOn, ToldShort
<1>6. Append(e, "done") \in Seq(Event) /\ Append(Append(e, "audio"), "done") \in Seq(Event)
  BY <1>1, ToldShort
<1> QED
  BY <1>2, <1>3, <1>5, <1>6, AppendPair, AppendTriple DEF e

(* The answer goes unspoken: nobody is left to ask, or may be asked.        *)
LEMMA NoneSpeaksShape ==
    ASSUME VoiceReqs, NEW r \in Request, NoneSpeaks(r)
    PROVE  VoiceReqs'
<1> DEFINE e == req[r].events
           n == [req[r] EXCEPT !.pc = "ended", !.events = Append(e, "done")]
<1>1. req[r].pc = "tts"
  BY DEF NoneSpeaks
<1>2. /\ Speaks(req[r].config) /\ Append(e, "done") \in Seq(Event)
      /\ Told(Append(e, "done"), <<"final", "done">>)
      /\ InOrder(req[r].spoken, req[r].config.tts, req[r].config.ttsFallback)
  BY <1>1, Speaking
<1>3. /\ req[r] \in Requests /\ req[r].spoken \in Seq(Nat)
      /\ req[r].config.tts \in Seq(Provider)
  BY RequestKnown
<1>4. ~MoreTTS(r)
  BY <1>2 DEF NoneSpeaks, FallsBack, Speaks
<1>5. Enabled(req[r].config.tts) \subseteq ToSet(req[r].spoken)
  BY <1>2, <1>3, <1>4, AllAsked DEF MoreTTS, BuildTTS
<1>6. req' = [req EXCEPT ![r] = n]
  BY DEF NoneSpeaks, FailsQuietly, Done
<1> HIDE DEF e
<1>7. /\ n \in Requests /\ n.pc = "ended" /\ n.events = Append(e, "done")
      /\ n.tries = req[r].tries /\ n.spoken = req[r].spoken /\ n.config = req[r].config
  BY <1>2, <1>3 DEF Requests
<1> HIDE DEF n
<1>8. <<"final", "done">> \in Silent \cap Outcomes
  BY DEF Silent, Outcomes
<1>9. Over(n)
  BY <1>2, <1>5, <1>7, <1>8, SilentEnd
<1> QED
  BY <1>1, <1>2, <1>6, <1>7, <1>9, EndShape

(* Asking the next provider of speech (TTSEngine.synthesize).               *)
LEMMA SpeakNext ==
    ASSUME VoiceReqs, NEW r \in Request, NEW kind, AsksTTS(r, kind)
    PROVE  LET spoken == Append(req[r].spoken, NextTTS(r)) IN
           /\ spoken \in Seq(Nat) /\ spoken # <<>>
           /\ InOrder(spoken, req[r].config.tts, req[r].config.ttsFallback)
<1> DEFINE list == req[r].config.tts
           asked == req[r].spoken
           fallback == req[r].config.ttsFallback
<1>1. list \in Seq(Provider) /\ asked \in Seq(Nat) /\ InOrder(asked, list, fallback)
  BY RequestKnown DEF VoiceShape
<1>2. Rest(Enabled(list), asked) # {} /\ NextTTS(r) = Min(Rest(Enabled(list), asked))
  BY DEF AsksTTS, MoreTTS, NextTTS, BuildTTS
<1>3. Len(asked) = 0 \/ fallback
  BY DEF AsksTTS, FallsBack
<1> HIDE DEF list, asked, fallback
<1>4. /\ NextTTS(r) \in DOMAIN list
      /\ Append(asked, NextTTS(r)) \in Seq(Nat)
      /\ InOrder(Append(asked, NextTTS(r)), list, fallback)
  BY <1>1, <1>2, <1>3, OrderGoesOn
<1>5. Append(asked, NextTTS(r)) # <<>>
  BY <1>1, <1>4
<1> QED
  BY <1>4, <1>5 DEF list, asked, fallback

(* The answer's audio is sent by a provider that was asked for it.          *)
LEMMA SpokeShape ==
    ASSUME VoiceReqs, NEW r \in Request, req[r].pc \in {"tts", "speaking"},
           NEW spoken \in Seq(Nat), spoken # <<>>, Spoke(r, spoken),
           InOrder(spoken, req[r].config.tts, req[r].config.ttsFallback)
    PROVE  VoiceReqs'
<1> DEFINE e == Append(Append(req[r].events, "audio"), "done")
           n == [req[r] EXCEPT !.spoken = spoken, !.pc = "ended", !.events = e]
<1>1. /\ e \in Seq(Event) /\ Told(e, <<"final", "audio", "done">>)
      /\ req[r].final = "text"
  BY Speaking
<1>2. req[r] \in Requests
  BY RequestKnown
<1>3. req' = [req EXCEPT ![r] = n]
  BY DEF Spoke, Done
<1> HIDE DEF e
<1>4. /\ n \in Requests /\ n.pc = "ended" /\ n.events = e /\ n.spoken = spoken
      /\ n.tries = req[r].tries /\ n.config = req[r].config /\ n.final = "text"
  BY <1>1, <1>2 DEF Requests
<1> HIDE DEF n
<1>5. <<"final", "audio", "done">> \in Outcomes /\ <<"final", "audio", "done">> \in Seq(Event)
  BY ToldShort DEF Outcomes
<1>6. "audio" \in ToSet(n.events)
  <2>1. 2 \in DOMAIN <<"final", "audio", "done">>
        /\ <<"final", "audio", "done">>[2] = "audio"
    OBVIOUS
  <2>2. "audio" \in ToSet(<<"final", "audio", "done">>)
    BY <2>1 DEF ToSet
  <2> QED
    BY <2>2, <1>1, <1>4, <1>5, ToldMembers, ToldShort
<1>7. Over(n)
  BY <1>1, <1>4, <1>5, <1>6 DEF Over
<1> QED
  BY <1>3, <1>4, <1>7, EndShape

(* The request between two providers of its speech.                         *)
LEMMA UnspokenShape ==
    ASSUME VoiceReqs, NEW r \in Request, req[r].pc \in {"tts", "speaking"},
           NEW q \in Requests, q.pc \in {"tts", "speaking"},
           q.events = req[r].events, q.tries = req[r].tries,
           q.final = req[r].final, q.config = req[r].config,
           q.pc = "speaking" => q.spoken # <<>>,
           InOrder(q.spoken, q.config.tts, q.config.ttsFallback),
           req' = [req EXCEPT ![r] = q]
    PROVE  VoiceReqs'
<1>1. VoiceShape(req[r])
  BY RequestKnown
<1>2. VoiceShape(q)
  BY <1>1, Speaking DEF VoiceShape
<1> QED
  BY <1>2, RequestMoves

(* Asking a provider for the speech, remote or local.                       *)
LEMMA SpeakShape ==
    ASSUME VoiceReqs, NEW r \in Request, AskRemoteTTS(r) \/ StartLocalTTS(r)
    PROVE  VoiceReqs'
<1> DEFINE spoken == Append(req[r].spoken, NextTTS(r))
           n == [req[r] EXCEPT !.spoken = spoken]
           m == [req[r] EXCEPT !.spoken = spoken, !.pc = "speaking"]
<1>1. req[r].pc = "tts" /\ \E kind \in {"litellm", "local"} : AsksTTS(r, kind)
  BY DEF AskRemoteTTS, StartLocalTTS, AsksTTS
<1>2. /\ spoken \in Seq(Nat) /\ spoken # <<>>
      /\ InOrder(spoken, req[r].config.tts, req[r].config.ttsFallback)
  BY <1>1, SpeakNext
<1>3. \/ Spoke(r, spoken)
      \/ req' = [req EXCEPT ![r] = n]
      \/ req' = [req EXCEPT ![r] = m]
  BY Zenon DEF AskRemoteTTS, StartLocalTTS
<1>4. req[r] \in Requests
  BY RequestKnown
<1> HIDE DEF spoken
<1>5. /\ n \in Requests /\ n.pc = "tts" /\ n.spoken = spoken /\ n.tries = req[r].tries
      /\ n.events = req[r].events /\ n.final = req[r].final /\ n.config = req[r].config
  BY <1>1, <1>2, <1>4 DEF Requests
<1>6. /\ m \in Requests /\ m.pc = "speaking" /\ m.spoken = spoken
      /\ m.tries = req[r].tries /\ m.events = req[r].events
      /\ m.final = req[r].final /\ m.config = req[r].config
  BY <1>2, <1>4 DEF Requests
<1> HIDE DEF n, m
<1>7. CASE Spoke(r, spoken)
  BY <1>1, <1>2, <1>7, SpokeShape
<1>8. CASE req' = [req EXCEPT ![r] = n]
  BY <1>1, <1>2, <1>5, <1>8, UnspokenShape
<1>9. CASE req' = [req EXCEPT ![r] = m]
  BY <1>1, <1>2, <1>6, <1>9, UnspokenShape
<1> QED
  BY <1>3, <1>7, <1>8, <1>9

(* The local process brings the speech, fails, or is given up.              *)
LEMMA SpeakEndShape ==
    ASSUME VoiceReqs, NEW r \in Request,
           LocalTTSEnds(r) \/ LocalTTSTimesOut(r)
    PROVE  VoiceReqs'
<1> DEFINE n == [req[r] EXCEPT !.pc = "tts"]
           m == [req[r] EXCEPT !.pc = "tts", !.abandoned = TRUE]
<1>1. req[r].pc = "speaking"
  BY DEF LocalTTSEnds, LocalTTSTimesOut
<1>2. /\ req[r] \in Requests /\ req[r].spoken \in Seq(Nat)
      /\ InOrder(req[r].spoken, req[r].config.tts, req[r].config.ttsFallback)
      /\ req[r].spoken # <<>>
  BY <1>1, RequestKnown DEF VoiceShape
<1>3. \/ Spoke(r, req[r].spoken)
      \/ req' = [req EXCEPT ![r] = n]
      \/ req' = [req EXCEPT ![r] = m]
  BY DEF LocalTTSEnds, LocalTTSTimesOut, Goes
<1>4. /\ n \in Requests /\ n.pc = "tts" /\ n.spoken = req[r].spoken
      /\ n.tries = req[r].tries /\ n.events = req[r].events
      /\ n.final = req[r].final /\ n.config = req[r].config
  BY <1>2 DEF Requests
<1>5. /\ m \in Requests /\ m.pc = "tts" /\ m.spoken = req[r].spoken
      /\ m.tries = req[r].tries /\ m.events = req[r].events
      /\ m.final = req[r].final /\ m.config = req[r].config
  BY <1>2 DEF Requests
<1> HIDE DEF n, m
<1>6. CASE Spoke(r, req[r].spoken)
  BY <1>1, <1>2, <1>6, SpokeShape
<1>7. CASE req' = [req EXCEPT ![r] = n]
  BY <1>1, <1>2, <1>4, <1>7, UnspokenShape
<1>8. CASE req' = [req EXCEPT ![r] = m]
  BY <1>1, <1>2, <1>5, <1>8, UnspokenShape
<1> QED
  BY <1>3, <1>6, <1>7, <1>8

(* A client that leaves changes nothing of what it was told.                *)
LEMMA LeaveShape ==
    ASSUME VoiceReqs, NEW r \in Request, Leave(r)
    PROVE  VoiceReqs'
<1> DEFINE n == [req[r] EXCEPT !.left = TRUE]
<1>1. req[r].pc \notin {"idle", "ended"} /\ req[r] \in Requests /\ VoiceShape(req[r])
  BY RequestKnown DEF Leave
<1>2. /\ n \in Requests /\ n.pc = req[r].pc /\ n.spoken = req[r].spoken
      /\ n.tries = req[r].tries /\ n.events = req[r].events /\ n.agent = req[r].agent
      /\ n.final = req[r].final /\ n.config = req[r].config
  BY <1>1 DEF Requests
<1>3. req' = [req EXCEPT ![r] = n]
  BY DEF Leave
<1> HIDE DEF n
<1>4. VoiceShape(n)
  BY <1>1, <1>2 DEF VoiceShape, Streamed
<1> QED
  BY <1>2, <1>3, <1>4, RequestMoves

(* The response of a client that left is cut off where it waits.            *)
LEMMA CancelShape ==
    ASSUME VoiceReqs, NEW r \in Request, CancelStream(r)
    PROVE  VoiceReqs'
<1> DEFINE abandoned == req[r].abandoned \/ req[r].pc = "speaking"
           n == [req[r] EXCEPT !.pc = "ended", !.abandoned = abandoned]
<1>1. /\ req[r].pc \in {"stream", "tts", "speaking"} /\ req[r].left
      /\ req[r] \in Requests /\ VoiceShape(req[r])
  BY RequestKnown DEF CancelStream
<1>2. \E o \in Silent : Told(req[r].events, o)
  BY <1>1, StreamedSoFar, Speaking DEF Silent
<1>3. req' = [req EXCEPT ![r] = n]
  BY DEF CancelStream
<1>4. abandoned \in BOOLEAN
  BY Zenon
<1> HIDE DEF abandoned
<1>5. /\ n \in Requests /\ n.pc = "ended" /\ n.left = req[r].left
      /\ n.spoken = req[r].spoken /\ n.tries = req[r].tries
      /\ n.events = req[r].events /\ n.config = req[r].config
  BY <1>1, <1>4 DEF Requests
<1> HIDE DEF n
<1>6. Over(n)
  BY <1>1, <1>2, <1>5, SilentEnd
<1>7. InOrder(n.spoken, n.config.tts, n.config.ttsFallback)
  BY <1>1, <1>5 DEF VoiceShape
<1> QED
  BY <1>1, <1>3, <1>5, <1>6, <1>7, EndShape

-----------------------------------------------------------------------------
(* What the steps of a request leave behind on the host.                    *)

(* Recordings are only made for transcriptions.                             *)
Tidy ==
    /\ NothingLeftBehind
    /\ \A f \in files : f.call.list = "stt"

(* A step of one request is tidy when what it leaves behind is waited for,  *)
(* or was not waited for before, or is a process given up.                  *)
LEMMA StaysTidy ==
    ASSUME Tidy, VoiceTypeOK, NEW r \in Request,
           \A x \in Request \ {r} : req'[x] = req[x],
           req[r].abandoned => req'[r].abandoned,
           \A f \in files' :
               /\ f.call.list = "stt"
               /\ f.whole => \/ f \in files /\ f.call \notin Waited(r)
                             \/ f.call \in Waited(r)',
           \A call \in procs' :
               \/ call \in procs /\ (call \in Waited(r) => req'[r].abandoned)
               \/ call \in Waited(r)'
    PROVE  Tidy'
<1>2. \A x \in Request \ {r} : Waited(x)' = Waited(x)
  BY DEF Waited, HearCall, SpeakCall
<1>3. \A call \in Waited(r)' : call.of = r
  BY DEF Waited, HearCall, SpeakCall
<1>4. ASSUME NEW f \in files', f.whole
      PROVE  f.call \in Waited(f.call.of)'
  <2>1. CASE f.call \in Waited(r)'
    BY <2>1, <1>3
  <2>2. CASE f \in files /\ f.call \notin Waited(r)
    <3>1. f.call \in Waited(f.call.of) /\ f.call.of \in Request
      BY <1>4, <2>2 DEF Tidy, NothingLeftBehind, VoiceTypeOK, Call
    <3>2. f.call.of # r
      BY <2>2, <3>1
    <3> QED
      BY <3>1, <3>2, <1>2
  <2> QED
    BY <1>4, <2>1, <2>2
<1>5. ASSUME NEW call \in procs'
      PROVE  call \in Waited(call.of)' \/ req'[call.of].abandoned
  <2>1. CASE call \in Waited(r)'
    BY <2>1, <1>3
  <2>2. CASE call \in procs /\ (call \in Waited(r) => req'[r].abandoned)
    <3>1. /\ call \in Waited(call.of) \/ req[call.of].abandoned
          /\ call.of \in Request
      BY <2>2 DEF Tidy, NothingLeftBehind, VoiceTypeOK, Call
    <3>2. CASE call.of = r
      BY <2>2, <3>1, <3>2
    <3>3. CASE call.of # r
      BY <1>2, <3>1, <3>3
    <3> QED
      BY <3>2, <3>3
  <2> QED
    BY <1>5, <2>1, <2>2
<1> QED
  BY <1>4, <1>5 DEF Tidy, NothingLeftBehind

(* A request that waits for nothing leaves nothing behind by going on.      *)
LEMMA QuietTidy ==
    ASSUME Tidy, VoiceTypeOK, NEW r \in Request,
           \A x \in Request \ {r} : req'[x] = req[x],
           req[r].abandoned => req'[r].abandoned,
           req[r].pc \notin {"hearing", "speaking"},
           UNCHANGED <<files, procs>>
    PROVE  Tidy'
<1>1. Waited(r) = {}
  BY DEF Waited
<1>2. \A f \in files : f.call.list = "stt"
  BY DEF Tidy
<1> QED
  BY <1>1, <1>2, StaysTidy

(* The fields of a request, so that a step is seen to keep those it does     *)
(* not mention.                                                             *)
LEMMA RequestFields ==
    ASSUME VoiceTypeOK, NEW r \in Request
    PROVE  /\ req \in [Request -> Requests]
           /\ DOMAIN req[r] = {"pc", "agent", "config", "tries", "events", "final",
                               "raised", "left", "spoken", "abandoned"}
<1>1. req[r] \in Requests
  BY DEF VoiceTypeOK
<1> QED
  BY <1>1 DEF VoiceTypeOK, Requests

(* The steps that call no local provider and wait for none.                 *)
LEMMA RemoteTidy ==
    ASSUME Tidy, VoiceTypeOK, VoiceReqs, NEW r \in Request,
           \/ \E audio \in {"good", "bad"}, agent \in Agent \cup {NoAgent} :
                  Receive(r, audio, agent)
           \/ \E type \in {"status", "token", "tool_call", "tool_result"} :
                  StreamShows(r, type)
           \/ LookUpAgent(r) \/ NoneHears(r) \/ AskRemoteSTT(r)
           \/ \E content \in {"text", "blank"} : StreamFinal(r, content)
           \/ StreamError(r) \/ StreamRaises(r) \/ StreamEnds(r)
           \/ NoneSpeaks(r) \/ AskRemoteTTS(r)
    PROVE  Tidy'
<1>1. /\ req[r].pc \in {"idle", "agent", "stt", "stream", "tts"}
      /\ UNCHANGED <<files, procs>>
  BY DEF Receive, StreamShows, LookUpAgent, NoneHears, AskRemoteSTT, AsksSTT, StreamFinal,
         StreamError, StreamRaises, StreamEnds, NoneSpeaks, AskRemoteTTS, AsksTTS
<1>2. req \in [Request -> Requests] /\ "abandoned" \in DOMAIN req[r]
  BY RequestFields
<1>3. CASE req[r].pc = "idle"
  <2>1. ~req[r].abandoned
    <3>1. req[r] = Fresh
      BY <1>3, RequestKnown DEF VoiceShape
    <3>2. Fresh.abandoned = FALSE
      BY DEF Fresh
    <3> QED
      BY <3>1, <3>2
  <2>2. \E audio \in {"good", "bad"}, agent \in Agent \cup {NoAgent} :
            Receive(r, audio, agent)
    BY <1>3 DEF StreamShows, LookUpAgent, NoneHears, AskRemoteSTT, AsksSTT,
         StreamFinal, StreamError, StreamRaises, StreamEnds, NoneSpeaks, AskRemoteTTS, AsksTTS
  <2>3. \A x \in Request \ {r} : req'[x] = req[x]
    BY <2>2, <1>2 DEF Receive
  <2> QED
    BY <1>1, <2>1, <2>3, QuietTidy
<1>4. CASE LookUpAgent(r)
  <2>1. \A x \in Request \ {r} : req'[x] = req[x]
    BY <1>4, <1>2 DEF LookUpAgent
  <2>2. req'[r].abandoned = req[r].abandoned
    BY <1>4, <1>2 DEF LookUpAgent, Requests
  <2> QED
    BY <1>1, <2>1, <2>2, QuietTidy
<1>5. CASE NoneHears(r) \/ AskRemoteSTT(r)
  <2>1. \A x \in Request \ {r} : req'[x] = req[x]
    BY <1>5, <1>2 DEF NoneHears, Refuse, AskRemoteSTT, Heard
  <2>2. req'[r].abandoned = req[r].abandoned
    BY <1>5, <1>2 DEF NoneHears, Refuse, AskRemoteSTT, Heard
  <2> QED
    BY <1>1, <2>1, <2>2, QuietTidy
<1>6. CASE \E type \in {"status", "token", "tool_call", "tool_result"} : StreamShows(r, type)
  <2>1. \A x \in Request \ {r} : req'[x] = req[x]
    BY <1>6, <1>2 DEF StreamShows
  <2>2. req'[r].abandoned = req[r].abandoned
    BY <1>6, <1>2 DEF StreamShows
  <2> QED
    BY <1>1, <2>1, <2>2, QuietTidy
<1>7. CASE \E content \in {"text", "blank"} : StreamFinal(r, content)
  <2>1. \A x \in Request \ {r} : req'[x] = req[x]
    BY <1>7, <1>2 DEF StreamFinal
  <2>2. req'[r].abandoned = req[r].abandoned
    BY <1>7, <1>2 DEF StreamFinal
  <2> QED
    BY <1>1, <2>1, <2>2, QuietTidy
<1>8. CASE StreamError(r) \/ StreamRaises(r) \/ StreamEnds(r)
  <2>1. \A x \in Request \ {r} : req'[x] = req[x]
    BY <1>8, <1>2 DEF StreamError, StreamRaises, StreamEnds, Goes
  <2>2. req'[r].abandoned = req[r].abandoned
    BY <1>8, <1>2 DEF StreamError, StreamRaises, StreamEnds, Goes
  <2> QED
    BY <1>1, <2>1, <2>2, QuietTidy
<1>9. CASE NoneSpeaks(r) \/ AskRemoteTTS(r)
  <2>1. \A x \in Request \ {r} : req'[x] = req[x]
    BY <1>9, <1>2 DEF NoneSpeaks, AskRemoteTTS, Spoke
  <2>2. req'[r].abandoned = req[r].abandoned
    BY <1>9, <1>2 DEF NoneSpeaks, AskRemoteTTS, Spoke
  <2> QED
    BY <1>1, <2>1, <2>2, QuietTidy
<1>10. ASSUME NEW audio, NEW agent, Receive(r, audio, agent) PROVE req[r].pc = "idle"
  BY <1>10 DEF Receive
<1> QED
  BY <1>3, <1>4, <1>5, <1>6, <1>7, <1>8, <1>9, <1>10

(* A local process hears: its recording is whole while the request waits,   *)
(* and it is the request's only call.                                       *)
LEMMA LocalHearTidy ==
    ASSUME Tidy, VoiceTypeOK, NEW r \in Request, StartLocalSTT(r)
    PROVE  Tidy'
<1> DEFINE call == [HearCall(r) EXCEPT !.at = @ + 1]
           tries == Append(req[r].tries, NextSTT(r))
<1>1. /\ req \in [Request -> Requests] /\ "pc" \in DOMAIN req[r]
      /\ "tries" \in DOMAIN req[r] /\ "abandoned" \in DOMAIN req[r]
      /\ req[r].tries \in Seq(Nat)
  BY RequestFields DEF Requests
<1>2. req[r].pc = "stt" /\ Waited(r) = {}
  BY DEF StartLocalSTT, AsksSTT, Waited
<1>3. call = [of |-> r, list |-> "stt", at |-> Len(req[r].tries) + 1]
  BY DEF HearCall
<1>4. \A f \in files : f.call.list = "stt"
  BY DEF Tidy
<1>5. CASE /\ files' \subseteq files \cup {[call |-> call, whole |-> FALSE]}
           /\ req' = [req EXCEPT ![r].tries = tries] /\ UNCHANGED procs
  <2>1. \A f \in files' : f.call.list = "stt" /\ (f.whole => f \in files)
    BY <1>3, <1>4, <1>5
  <2>2. /\ \A x \in Request \ {r} : req'[x] = req[x]
        /\ req'[r].abandoned = req[r].abandoned
    BY <1>1, <1>5
  <2> QED
    BY <1>2, <1>5, <2>1, <2>2, StaysTidy
<1>6. CASE /\ files' = files \cup {[call |-> call, whole |-> TRUE]}
           /\ procs' = procs \cup {call}
           /\ req' = [req EXCEPT ![r].tries = tries, ![r].pc = "hearing"]
  <2>1. /\ \A x \in Request \ {r} : req'[x] = req[x]
        /\ req'[r].abandoned = req[r].abandoned
        /\ req'[r].pc = "hearing" /\ req'[r].tries = tries
    BY <1>1, <1>6
  <2>2. Len(tries) = Len(req[r].tries) + 1
    BY <1>1
  <2>3. call \in Waited(r)'
    BY <2>1, <2>2, <1>3 DEF Waited, HearCall
  <2>4. \A f \in files' : /\ f.call.list = "stt"
                          /\ f.whole => f \in files \/ f.call = call
    BY <1>3, <1>4, <1>6
  <2> HIDE DEF call, tries
  <2> QED
    BY <1>2, <1>6, <2>1, <2>3, <2>4, StaysTidy
<1>7. \/ /\ files' \subseteq files \cup {[call |-> call, whole |-> FALSE]}
         /\ req' = [req EXCEPT ![r].tries = tries] /\ UNCHANGED procs
      \/ /\ files' = files \cup {[call |-> call, whole |-> TRUE]}
         /\ procs' = procs \cup {call}
         /\ req' = [req EXCEPT ![r].tries = tries, ![r].pc = "hearing"]
  <2> HIDE DEF call, tries
  <2>1. \/ /\ files' = files \cup {[call |-> call, whole |-> FALSE]}
           /\ req' = [req EXCEPT ![r].tries = tries] /\ UNCHANGED procs
        \/ req' = [req EXCEPT ![r].tries = tries] /\ UNCHANGED <<files, procs>>
        \/ /\ files' = files \cup {[call |-> call, whole |-> TRUE]}
           /\ procs' = procs \cup {call}
           /\ req' = [req EXCEPT ![r].tries = tries, ![r].pc = "hearing"]
    BY Zenon DEF StartLocalSTT, call, tries
  <2> QED
    BY <2>1
<1> QED
  BY <1>5, <1>6, <1>7

(* The recording goes when the wait is over, and the process too unless     *)
(* the wait was given up.                                                   *)
LEMMA HearEndTidy ==
    ASSUME Tidy, VoiceTypeOK, NEW r \in Request,
           LocalSTTEnds(r) \/ LocalSTTTimesOut(r)
    PROVE  Tidy'
<1>1. /\ req \in [Request -> Requests] /\ "abandoned" \in DOMAIN req[r]
      /\ req[r].abandoned \in BOOLEAN
  BY RequestFields DEF Requests
<1>2. Waited(r) = {HearCall(r)} /\ files' = Unlink(r)
  BY DEF LocalSTTEnds, LocalSTTTimesOut, Waited
<1>3. \A f \in files' : f \in files /\ f.call.list = "stt" /\ f.call \notin Waited(r)
  BY <1>2 DEF Unlink, Tidy
<1>4. \A x \in Request \ {r} : req'[x] = req[x]
  BY <1>1 DEF LocalSTTEnds, LocalSTTTimesOut, Heard, Goes
<1>5. CASE LocalSTTEnds(r)
  <2>1. req'[r].abandoned = req[r].abandoned
    BY <1>1, <1>5 DEF LocalSTTEnds, Heard, Goes
  <2>2. procs' = procs \ {HearCall(r)}
    BY <1>5 DEF LocalSTTEnds
  <2> QED
    BY <1>2, <1>3, <1>4, <2>1, <2>2, StaysTidy
<1>6. CASE LocalSTTTimesOut(r)
  <2>1. req'[r].abandoned /\ procs' = procs
    BY <1>1, <1>6 DEF LocalSTTTimesOut
  <2> QED
    BY <1>3, <1>4, <2>1, StaysTidy
<1> QED
  BY <1>5, <1>6

(* Speech needs no recording.                                               *)
LEMMA SpeechTidy ==
    ASSUME Tidy, VoiceTypeOK, NEW r \in Request,
           StartLocalTTS(r) \/ LocalTTSEnds(r) \/ LocalTTSTimesOut(r)
    PROVE  Tidy'
<1> DEFINE call == [SpeakCall(r) EXCEPT !.at = @ + 1]
           spoken == Append(req[r].spoken, NextTTS(r))
<1>1. /\ req \in [Request -> Requests] /\ "pc" \in DOMAIN req[r]
      /\ "spoken" \in DOMAIN req[r] /\ "abandoned" \in DOMAIN req[r]
      /\ req[r].spoken \in Seq(Nat)
  BY RequestFields DEF Requests
<1>2. \A x \in Request \ {r} : req'[x] = req[x]
  BY <1>1 DEF StartLocalTTS, LocalTTSEnds, LocalTTSTimesOut, Spoke, Goes
<1>3. req[r].pc \in {"tts", "speaking"} /\ files' = files
  BY DEF StartLocalTTS, AsksTTS, LocalTTSEnds, LocalTTSTimesOut
<1>4. \A f \in files' : f.call.list = "stt" /\ f \in files /\ f.call \notin Waited(r)
  BY <1>3 DEF Tidy, Waited, SpeakCall
<1>5. CASE StartLocalTTS(r)
  <2>1. req[r].pc = "tts" /\ Waited(r) = {}
    BY <1>5 DEF StartLocalTTS, AsksTTS, Waited
  <2>2. req'[r].abandoned = req[r].abandoned
    BY <1>1, <1>5 DEF StartLocalTTS
  <2>3. CASE procs' = procs
    BY <1>2, <1>4, <2>1, <2>2, <2>3, StaysTidy
  <2>4. CASE procs' # procs
    <3>1. /\ req' = [req EXCEPT ![r].spoken = spoken, ![r].pc = "speaking"]
          /\ procs' = procs \cup {call}
      BY <1>5, <2>4 DEF StartLocalTTS
    <3>2. req'[r].pc = "speaking" /\ req'[r].spoken = spoken
      BY <1>1, <3>1
    <3>3. Len(spoken) = Len(req[r].spoken) + 1
      BY <1>1
    <3>4. call = [of |-> r, list |-> "tts", at |-> Len(req[r].spoken) + 1]
      BY DEF SpeakCall
    <3>5. call \in Waited(r)'
      BY <3>2, <3>3, <3>4 DEF Waited, SpeakCall
    <3> HIDE DEF call
    <3> QED
      BY <1>2, <1>4, <2>1, <2>2, <3>1, <3>5, StaysTidy
  <2> QED
    BY <2>3, <2>4
<1>6. CASE LocalTTSEnds(r)
  <2>1. req'[r].abandoned = req[r].abandoned
    BY <1>1, <1>6 DEF LocalTTSEnds, Spoke, Goes
  <2>2. Waited(r) = {SpeakCall(r)} /\ procs' = procs \ {SpeakCall(r)}
    BY <1>6 DEF LocalTTSEnds, Waited
  <2> QED
    BY <1>2, <1>4, <2>1, <2>2, StaysTidy
<1>7. CASE LocalTTSTimesOut(r)
  <2>1. req'[r].abandoned /\ procs' = procs
    BY <1>1, <1>7 DEF LocalTTSTimesOut
  <2> QED
    BY <1>2, <1>4, <2>1, StaysTidy
<1> QED
  BY <1>5, <1>6, <1>7

(* A client that leaves does not end the wait; the cancelled response of    *)
(* one that left gives its speech up.                                       *)
LEMMA LeaveTidy ==
    ASSUME Tidy, VoiceTypeOK, NEW r \in Request, Leave(r) \/ CancelStream(r)
    PROVE  Tidy'
<1>1. /\ req \in [Request -> Requests] /\ "pc" \in DOMAIN req[r]
      /\ {"tries", "spoken", "left", "abandoned"} \subseteq DOMAIN req[r]
  BY RequestFields
<1>2. /\ \A x \in Request \ {r} : req'[x] = req[x]
      /\ UNCHANGED <<files, procs>>
  BY <1>1 DEF Leave, CancelStream
<1>3. \A f \in files : f.call.list = "stt"
  BY DEF Tidy
<1>4. CASE Leave(r)
  <2>1. /\ req'[r].pc = req[r].pc /\ req'[r].tries = req[r].tries
        /\ req'[r].spoken = req[r].spoken /\ req'[r].abandoned = req[r].abandoned
    BY <1>1, <1>4 DEF Leave
  <2>2. Waited(r)' = Waited(r)
    BY <2>1 DEF Waited, HearCall, SpeakCall
  <2> QED
    BY <1>2, <1>3, <2>1, <2>2, StaysTidy
<1>5. CASE CancelStream(r)
  <2>1. req[r].pc \in {"stream", "tts", "speaking"}
    BY <1>5 DEF CancelStream
  <2>2. /\ req[r].abandoned => req'[r].abandoned
        /\ req[r].pc = "speaking" => req'[r].abandoned
    BY <1>1, <1>5 DEF CancelStream
  <2>3. \A f \in files : f.call \notin Waited(r)
    BY <1>3, <2>1 DEF Waited, SpeakCall
  <2>4. Waited(r) # {} => req[r].pc = "speaking"
    BY <2>1 DEF Waited
  <2> QED
    BY <1>2, <1>3, <2>2, <2>3, <2>4, StaysTidy
<1> QED
  BY <1>4, <1>5

-----------------------------------------------------------------------------
(* The invariant of the voice messages.                                     *)

VoiceInv == VoiceTypeOK /\ VoiceReqs /\ Tidy

(* What a request may do next, grouped as the lemmas above are.             *)
RequestStep(r) ==
    \/ \E audio \in {"good", "bad"}, agent \in Agent \cup {NoAgent} :
          Receive(r, audio, agent)
    \/ \E type \in {"status", "token", "tool_call", "tool_result"} :
          StreamShows(r, type)
    \/ Listens(r) \/ LocalSTTEnds(r) \/ Answers(r) \/ LocalTTSEnds(r)
    \/ Leave(r) \/ CancelStream(r)

(* Every step of a request keeps its shape.                                 *)
LEMMA RequestStepShape ==
    ASSUME VoiceInv, NEW r \in Request, RequestStep(r)
    PROVE  VoiceReqs'
<1>0. VoiceReqs /\ voice \in VoiceConfig /\ override \in [Agent -> Override \cup {NoRow}]
  BY DEF VoiceInv, VoiceTypeOK
<1>1. ASSUME NEW audio, NEW agent \in Agent \cup {NoAgent}, Receive(r, audio, agent)
      PROVE  VoiceReqs'
  BY <1>0, <1>1, ReceiveShape
<1>2. ASSUME NEW type \in {"status", "token", "tool_call", "tool_result"},
             StreamShows(r, type)
      PROVE  VoiceReqs'
  BY <1>0, <1>2, StreamShowsShape
<1>3. CASE Listens(r) \/ LocalSTTEnds(r)
  BY <1>0, <1>3, ListeningShape
<1>4. CASE Answers(r)
  <2>1. ASSUME NEW content \in {"text", "blank"}, StreamFinal(r, content) \/ StreamError(r)
        PROVE  VoiceReqs'
    BY <1>0, <2>1, StreamAnswerShape
  <2>2. CASE StreamRaises(r)
    BY <1>0, <2>2, StreamRaisesShape
  <2>3. CASE StreamEnds(r)
    BY <1>0, <2>3, StreamEndsShape
  <2>4. CASE NoneSpeaks(r)
    BY <1>0, <2>4, NoneSpeaksShape
  <2>5. CASE AskRemoteTTS(r) \/ StartLocalTTS(r)
    BY <1>0, <2>5, SpeakShape
  <2>6. CASE LocalTTSTimesOut(r)
    BY <1>0, <2>6, SpeakEndShape
  <2> QED
    BY <1>4, <2>1, <2>2, <2>3, <2>4, <2>5, <2>6 DEF Answers
<1>5. CASE LocalTTSEnds(r)
  BY <1>0, <1>5, SpeakEndShape
<1>6. CASE Leave(r)
  BY <1>0, <1>6, LeaveShape
<1>7. CASE CancelStream(r)
  BY <1>0, <1>7, CancelShape
<1> QED
  BY <1>1, <1>2, <1>3, <1>4, <1>5, <1>6, <1>7 DEF RequestStep

(* Every step of a request leaves the host tidy.                            *)
LEMMA RequestStepTidy ==
    ASSUME VoiceInv, NEW r \in Request, RequestStep(r)
    PROVE  Tidy'
<1>0. VoiceReqs /\ VoiceTypeOK /\ Tidy
  BY DEF VoiceInv
<1>1. CASE StartLocalSTT(r)
  BY <1>0, <1>1, LocalHearTidy
<1>2. CASE LocalSTTEnds(r) \/ LocalSTTTimesOut(r)
  BY <1>0, <1>2, HearEndTidy
<1>3. CASE StartLocalTTS(r) \/ LocalTTSEnds(r) \/ LocalTTSTimesOut(r)
  BY <1>0, <1>3, SpeechTidy
<1>4. CASE Leave(r) \/ CancelStream(r)
  BY <1>0, <1>4, LeaveTidy
<1> QED
  BY <1>0, <1>1, <1>2, <1>3, <1>4, RemoteTidy DEF RequestStep, Listens, Answers

(* What a step of a request adds to the host is a call of that request.     *)
LEMMA RequestStepTypes ==
    ASSUME VoiceInv, NEW r \in Request, RequestStep(r)
    PROVE  /\ UNCHANGED <<voice, override, ops>>
           /\ files' \subseteq [call : Call, whole : BOOLEAN]
           /\ procs' \subseteq Call
<1>1. UNCHANGED <<voice, override, ops>>
  BY DEF RequestStep, Receive, StreamShows, Listens, LookUpAgent, NoneHears, AskRemoteSTT,
         StartLocalSTT, LocalSTTTimesOut, LocalSTTEnds, Answers, StreamFinal, StreamError,
         StreamRaises, StreamEnds, NoneSpeaks, AskRemoteTTS, StartLocalTTS,
         LocalTTSTimesOut, LocalTTSEnds, Leave, CancelStream
<1>2. /\ files \subseteq [call : Call, whole : BOOLEAN] /\ procs \subseteq Call
      /\ req[r].tries \in Seq(Nat) /\ req[r].spoken \in Seq(Nat)
  BY RequestKnown DEF VoiceInv, VoiceTypeOK
<1>3. /\ [HearCall(r) EXCEPT !.at = @ + 1] \in Call
      /\ [SpeakCall(r) EXCEPT !.at = @ + 1] \in Call
  BY <1>2 DEF HearCall, SpeakCall, Call
<1>4. CASE StartLocalSTT(r)
  <2> DEFINE call == [HearCall(r) EXCEPT !.at = @ + 1]
  <2> HIDE DEF call
  <2>1. \/ files' = files \cup {[call |-> call, whole |-> FALSE]} /\ procs' = procs
        \/ files' = files /\ procs' = procs
        \/ /\ files' = files \cup {[call |-> call, whole |-> TRUE]}
           /\ procs' = procs \cup {call}
    BY <1>4, Zenon DEF StartLocalSTT, call
  <2>2. call \in Call
    BY <1>3 DEF call
  <2>3. \A b \in BOOLEAN : [call |-> call, whole |-> b] \in [call : Call, whole : BOOLEAN]
    BY <2>2
  <2>4. procs' \subseteq Call
    BY <1>2, <2>1, <2>2
  <2>5. files' \subseteq [call : Call, whole : BOOLEAN]
    BY <1>2, <2>1, <2>3
  <2> QED
    BY <1>1, <2>4, <2>5
<1>5. CASE LocalSTTEnds(r) \/ LocalSTTTimesOut(r)
  BY <1>2, <1>5 DEF LocalSTTEnds, LocalSTTTimesOut, Unlink
<1>6. CASE StartLocalTTS(r) \/ LocalTTSEnds(r) \/ LocalTTSTimesOut(r)
  BY <1>2, <1>3, <1>6 DEF StartLocalTTS, LocalTTSEnds, LocalTTSTimesOut
<1>7. \/ StartLocalSTT(r) \/ LocalSTTEnds(r) \/ LocalSTTTimesOut(r)
      \/ StartLocalTTS(r) \/ LocalTTSEnds(r) \/ LocalTTSTimesOut(r)
      \/ UNCHANGED <<files, procs>>
  BY DEF RequestStep, Receive, StreamShows, Listens, LookUpAgent, NoneHears, AskRemoteSTT,
         Answers, StreamFinal, StreamError, StreamRaises, StreamEnds, NoneSpeaks,
         AskRemoteTTS, Leave, CancelStream
<1> QED
  BY <1>1, <1>2, <1>4, <1>5, <1>6, <1>7

(* The admin's requests touch no request and nothing on the host.           *)
LEMMA AdminStep ==
    ASSUME VoiceInv,
           \/ \E body \in Bodies : UpdateVoiceConfig(body)
           \/ \E a \in Agent, o \in Override \cup {NoRow} : SetOverride(a, o)
    PROVE  VoiceInv'
<1>1. UNCHANGED <<req, files, procs>> /\ ops' = ops + 1 /\ ops < MaxOps
  BY DEF UpdateVoiceConfig, SetOverride
<1>2. ops' \in 0 .. MaxOps
  BY <1>1, VoiceAssumption DEF VoiceInv, VoiceTypeOK
<1>3. voice' \in VoiceConfig
  <2>1. ASSUME NEW body \in Bodies, UpdateVoiceConfig(body) PROVE voice' \in VoiceConfig
    <3>1. body \in VoiceConfig /\ voice \in VoiceConfig
      BY VoiceAssumption DEF VoiceInv, VoiceTypeOK
    <3>2. /\ PreserveFields(body.stt, voice.stt) \in Seq(Provider)
          /\ PreserveFields(body.tts, voice.tts) \in Seq(Provider)
      BY <3>1, PreserveType DEF VoiceConfig
    <3>3. voice' = [body EXCEPT !.stt = PreserveFields(body.stt, voice.stt),
                                !.tts = PreserveFields(body.tts, voice.tts)]
      BY <2>1 DEF UpdateVoiceConfig, SaveVoiceConfig
    <3> QED
      BY <3>1, <3>2, <3>3 DEF VoiceConfig
  <2>2. CASE \E a \in Agent, o \in Override \cup {NoRow} : SetOverride(a, o)
    BY <2>2 DEF SetOverride, VoiceInv, VoiceTypeOK
  <2> QED
    BY <2>1, <2>2
<1>4. override' \in [Agent -> Override \cup {NoRow}]
  BY DEF UpdateVoiceConfig, SetOverride, VoiceInv, VoiceTypeOK
<1>5. VoiceTypeOK'
  BY <1>1, <1>2, <1>3, <1>4 DEF VoiceInv, VoiceTypeOK
<1>6. VoiceReqs' /\ Tidy'
  BY <1>1 DEF VoiceInv, VoiceReqs, Tidy, NothingLeftBehind, Waited, HearCall, SpeakCall
<1> QED
  BY <1>5, <1>6 DEF VoiceInv

(* Every step of the voice messages keeps the invariant.                    *)
LEMMA VoiceSteps == VoiceInv /\ [VoiceNext]_voiceVars => VoiceInv'
<1> SUFFICES ASSUME VoiceInv, [VoiceNext]_voiceVars PROVE VoiceInv'
  OBVIOUS
<1>1. CASE \/ \E body \in Bodies : UpdateVoiceConfig(body)
           \/ \E a \in Agent, o \in Override \cup {NoRow} : SetOverride(a, o)
  BY <1>1, AdminStep
<1>2. ASSUME NEW r \in Request, RequestStep(r) PROVE VoiceInv'
  <2>1. VoiceReqs' /\ Tidy'
    BY <1>2, RequestStepShape, RequestStepTidy
  <2>2. /\ UNCHANGED <<voice, override, ops>>
        /\ files' \subseteq [call : Call, whole : BOOLEAN] /\ procs' \subseteq Call
    BY <1>2, RequestStepTypes
  <2>3. VoiceTypeOK'
    BY <2>1, <2>2 DEF VoiceInv, VoiceTypeOK, VoiceReqs
  <2> QED
    BY <2>1, <2>3 DEF VoiceInv
<1>3. CASE \E call \in procs : ProcessExits(call)
  <2>1. UNCHANGED <<voice, override, req, files, ops>> /\ procs' \subseteq procs
    BY <1>3 DEF ProcessExits
  <2>2. VoiceTypeOK' /\ VoiceReqs'
    BY <2>1 DEF VoiceInv, VoiceTypeOK, VoiceReqs
  <2>3. Tidy'
    BY <2>1 DEF VoiceInv, Tidy, NothingLeftBehind, Waited, HearCall, SpeakCall
  <2> QED
    BY <2>2, <2>3 DEF VoiceInv
<1>4. CASE UNCHANGED voiceVars
  <2>1. UNCHANGED <<voice, override, req, files, procs, ops>>
    BY <1>4 DEF voiceVars
  <2>2. VoiceTypeOK' /\ VoiceReqs'
    BY <2>1 DEF VoiceInv, VoiceTypeOK, VoiceReqs
  <2>3. Tidy'
    BY <2>1 DEF VoiceInv, Tidy, NothingLeftBehind, Waited, HearCall, SpeakCall
  <2> QED
    BY <2>2, <2>3 DEF VoiceInv
<1> QED
  BY <1>1, <1>2, <1>3, <1>4 DEF VoiceNext, RequestStep

(* Nothing has come in yet.                                                 *)
LEMMA VoiceBegins == VoiceInit => VoiceInv
<1> SUFFICES ASSUME VoiceInit PROVE VoiceInv
  OBVIOUS
<1>1. Fresh \in Requests
  BY VoiceAssumption DEF Fresh, Requests
<1>2. VoiceShape(Fresh)
  <2>1. /\ Fresh.pc = "idle" /\ Fresh.tries = <<>> /\ Fresh.spoken = <<>>
        /\ Fresh.events = <<>> /\ Fresh.final = ""
    BY DEF Fresh
  <2> QED
    BY <2>1, OrderBegins DEF VoiceShape
<1>3. VoiceReqs
  BY <1>1, <1>2 DEF VoiceInit, VoiceReqs
<1>4. VoiceTypeOK
  BY <1>3, VoiceAssumption DEF VoiceInit, VoiceTypeOK, VoiceReqs
<1>5. Tidy
  BY DEF VoiceInit, Tidy, NothingLeftBehind
<1> QED
  BY <1>3, <1>4, <1>5 DEF VoiceInv

(* What is known of every voice message holds in every state.               *)
LEMMA VoiceInvariance == VoiceSpec => []VoiceInv
  BY VoiceBegins, VoiceSteps, PTL DEF VoiceSpec

(* A client is not told of speech before the request is over.               *)
LEMMA NoAudioYet ==
    ASSUME VoiceReqs, NEW r \in Request, req[r].pc # "ended"
    PROVE  "audio" \notin ToSet(req[r].events)
<1>1. req[r] \in Requests /\ VoiceShape(req[r])
  BY RequestKnown
<1>2. CASE req[r].pc \in {"idle", "agent", "stt", "hearing"}
  <2>1. req[r].events = <<>>
    BY <1>1, <1>2 DEF VoiceShape
  <2> QED
    BY <2>1 DEF ToSet
<1>3. CASE req[r].pc \in {"stream", "tts", "speaking"}
  <2>1. \E o \in Silent : Told(req[r].events, o)
    BY <1>3, StreamedSoFar, Speaking DEF Silent
  <2> QED
    BY <2>1, NoAudioIn, ToldMembers, ToldShort
<1> QED
  BY <1>1, <1>2, <1>3 DEF Requests

(* The shape of every request says that the answers stand in order.         *)
LEMMA ShapeInOrder == VoiceReqs => VoiceInOrder
<1> SUFFICES ASSUME VoiceReqs, NEW r \in Request
             PROVE  /\ InOrder(req[r].tries, req[r].config.stt, req[r].config.sttFallback)
                    /\ InOrder(req[r].spoken, req[r].config.tts, req[r].config.ttsFallback)
                    /\ /\ req[r].pc = "ended" /\ ~req[r].left /\ ~req[r].raised
                       /\ req[r].final = "text" /\ Speaks(req[r].config)
                       /\ "audio" \notin ToSet(req[r].events)
                       => Enabled(req[r].config.tts) \subseteq ToSet(req[r].spoken)
                    /\ req[r].pc = "ended" /\ ~req[r].left /\ ~req[r].raised =>
                          \E n \in 0 .. Len(req[r].events) :
                              /\ \A i \in 1 .. n : req[r].events[i] \in Progress
                              /\ SubSeq(req[r].events, n + 1, Len(req[r].events)) \in Outcomes
                    /\ "audio" \in ToSet(req[r].events) =>
                          req[r].final = "text" /\ req[r].spoken # <<>>
  BY Zenon DEF VoiceInOrder, AskedInOrder, AnswerStands
<1>1. VoiceShape(req[r])
  BY RequestKnown
<1>2. CASE req[r].pc # "ended"
  BY <1>1, <1>2, NoAudioYet DEF VoiceShape
<1>3. CASE req[r].pc = "ended"
  <2>1. Over(req[r])
    BY <1>1, <1>3 DEF VoiceShape
  <2>2. ASSUME ~req[r].left /\ ~req[r].raised
        PROVE  \E n \in 0 .. Len(req[r].events) :
                   /\ \A i \in 1 .. n : req[r].events[i] \in Progress
                   /\ SubSeq(req[r].events, n + 1, Len(req[r].events)) \in Outcomes
    <3>1. PICK o \in Outcomes : Told(req[r].events, o)
      BY <2>1, <2>2 DEF Over
    <3>2. o \in Seq(Event)
      BY ToldShort
    <3> QED
      BY <3>1, <3>2, ToldWhole
  <2> QED
    BY <1>1, <2>1, <2>2 DEF VoiceShape, Over
<1> QED
  BY <1>2, <1>3

(* The settings keep their types under every edit, and so do the requests,  *)
(* the recordings and the processes (voice_config.py, stt_engine.py).       *)
THEOREM VoiceTypes == VoiceSpec => []VoiceTypeOK
  BY VoiceInvariance, PTL DEF VoiceInv

(* Every chain is asked in its order and no further than it may be, an      *)
(* answer with words goes unspoken only when every voice was asked, and an  *)
(* answer that was given stands, for any lists of providers and any number  *)
(* of requests, agents and edits (transcribe, synthesize,                   *)
(* chat_voice_endpoint).                                                    *)
THEOREM VoiceOrdered == VoiceSpec => []VoiceInOrder
  BY VoiceInvariance, ShapeInOrder, PTL DEF VoiceInv

(* No recording outlives its transcription and no process its request,      *)
(* unless the request gave it up (LocalSTTProvider, LocalTTSProvider).      *)
THEOREM VoiceLeavesNothing == VoiceSpec => []NothingLeftBehind
  BY VoiceInvariance, PTL DEF VoiceInv, Tidy

(* No edit takes the key of an entry that keeps its name, of lists of any   *)
(* length, wherever in the list the entry is put (_preserve_fields).        *)
THEOREM VoiceKeys == VoiceSpec => KeysKept
<1>1. VoiceInv /\ [VoiceNext]_voiceVars =>
          [Keeps(voice.stt, voice'.stt) /\ Keeps(voice.tts, voice'.tts)]_voiceVars
  <2> SUFFICES ASSUME VoiceInv, VoiceNext
               PROVE  Keeps(voice.stt, voice'.stt) /\ Keeps(voice.tts, voice'.tts)
    OBVIOUS
  <2>1. ASSUME NEW body \in Bodies, UpdateVoiceConfig(body)
        PROVE  Keeps(voice.stt, voice'.stt) /\ Keeps(voice.tts, voice'.tts)
    <3>1. body \in VoiceConfig /\ voice \in VoiceConfig
      BY VoiceAssumption DEF VoiceInv, VoiceTypeOK
    <3>2. /\ voice'.stt = PreserveFields(body.stt, voice.stt)
          /\ voice'.tts = PreserveFields(body.tts, voice.tts)
      BY <2>1, <3>1 DEF UpdateVoiceConfig, SaveVoiceConfig, VoiceConfig
    <3> QED
      BY <3>1, <3>2, PreserveKeeps DEF VoiceConfig
  <2>2. ASSUME voice' = voice
        PROVE  Keeps(voice.stt, voice'.stt) /\ Keeps(voice.tts, voice'.tts)
    BY <2>2 DEF Keeps
  <2>3. CASE \E a \in Agent, o \in Override \cup {NoRow} : SetOverride(a, o)
    BY <2>2, <2>3 DEF SetOverride
  <2>4. ASSUME NEW r \in Request, RequestStep(r)
        PROVE  Keeps(voice.stt, voice'.stt) /\ Keeps(voice.tts, voice'.tts)
    BY <2>2, <2>4, RequestStepTypes
  <2>5. CASE \E call \in procs : ProcessExits(call)
    BY <2>2, <2>5 DEF ProcessExits
  <2> QED
    BY <2>1, <2>3, <2>4, <2>5 DEF VoiceNext, RequestStep
<1> QED
  BY <1>1, VoiceInvariance, PTL DEF VoiceSpec, KeysKept
=============================================================================
