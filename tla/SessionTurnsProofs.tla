-------------------------- MODULE SessionTurnsProofs --------------------------
(***************************************************************************)
(* Proofs about SessionTurns: its inductive invariant, and with it that    *)
(* the turns of a session are serial as long as the session's lock was not *)
(* evicted while in use and no client left during a save.                  *)
(***************************************************************************)
EXTENDS SessionTurns, SequenceTheorems, FiniteSetTheorems, TLAPS

-----------------------------------------------------------------------------
(* Sequences without repetition.                                           *)

(* Removing one member of a sequence keeps the others, in order.           *)
LEMMA RemoveAtFacts ==
    ASSUME NEW S, NEW s \in Seq(S), NEW i \in 1..Len(s)
    PROVE  /\ RemoveAt(s, i) \in Seq(S)
           /\ Len(RemoveAt(s, i)) = Len(s) - 1
           /\ \A j \in 1..(Len(s) - 1) :
                RemoveAt(s, i)[j] = IF j < i THEN s[j] ELSE s[j + 1]
<1> DEFINE a == SubSeq(s, 1, i - 1)
           b == SubSeq(s, i + 1, Len(s))
<1>1. a \in Seq(S) /\ Len(a) = i - 1 /\ \A j \in 1..(i - 1) : a[j] = s[j]
  OBVIOUS
<1>2. b \in Seq(S) /\ Len(b) = Len(s) - i
      /\ \A j \in 1..(Len(s) - i) : b[j] = s[i + j]
  OBVIOUS
<1> HIDE DEF a, b
<1>3. /\ a \o b \in Seq(S) /\ Len(a \o b) = Len(s) - 1
      /\ \A j \in 1..(Len(s) - 1) :
           (a \o b)[j] = IF j <= i - 1 THEN a[j] ELSE b[j - (i - 1)]
  <2>1. /\ a \o b \in Seq(S) /\ Len(a \o b) = Len(a) + Len(b)
        /\ \A j \in 1..(Len(a) + Len(b)) :
             (a \o b)[j] = IF j <= Len(a) THEN a[j] ELSE b[j - Len(a)]
    BY <1>1, <1>2, ConcatProperties
  <2>2. Len(a) + Len(b) = Len(s) - 1
    BY <1>1, <1>2
  <2>3. QED
    BY <1>1, <2>1, <2>2
<1>4. ASSUME NEW j \in 1..(Len(s) - 1)
      PROVE  (a \o b)[j] = IF j < i THEN s[j] ELSE s[j + 1]
  <2>1. CASE j < i
    BY <1>1, <1>3, <2>1
  <2>2. CASE ~(j < i)
    <3>1. (a \o b)[j] = b[j - (i - 1)] /\ j - (i - 1) \in 1..(Len(s) - i)
      BY <1>3, <2>2
    <3>2. b[j - (i - 1)] = s[i + (j - (i - 1))]
      BY <1>2, <3>1
    <3>3. QED
      BY <2>2, <3>1, <3>2
  <2>3. QED
    BY <2>1, <2>2
<1>5. RemoveAt(s, i) = a \o b
  BY DEF RemoveAt, a, b
<1>6. QED
  BY <1>3, <1>4, <1>5

(* Removing a member of a sequence without repetitions leaves one of the   *)
(* other members, and what was first stays first unless it was removed.    *)
LEMMA WithoutFacts ==
    ASSUME NEW S, NEW s \in Seq(S), IsInjective(s), NEW e \in ToSet(s)
    PROVE  /\ Without(s, e) \in Seq(S)
           /\ Len(Without(s, e)) = Len(s) - 1
           /\ IsInjective(Without(s, e))
           /\ ToSet(Without(s, e)) = ToSet(s) \ {e}
           /\ s # << >> /\ Head(s) # e =>
                Without(s, e) # << >> /\ Head(Without(s, e)) = Head(s)
<1> DEFINE k == CHOOSE i \in 1..Len(s) : s[i] = e
           w == RemoveAt(s, k)
<1>1. k \in 1..Len(s) /\ s[k] = e
  BY DEF ToSet
<1>2. Without(s, e) = w
  BY DEF Without
<1>3. /\ w \in Seq(S) /\ Len(w) = Len(s) - 1
      /\ \A j \in 1..(Len(s) - 1) : w[j] = IF j < k THEN s[j] ELSE s[j + 1]
  BY <1>1, RemoveAtFacts
<1> HIDE DEF k, w
<1>4. IsInjective(w)
  BY <1>1, <1>3 DEF IsInjective
<1>5. ToSet(w) = ToSet(s) \ {e}
  <2>1. ASSUME NEW x \in ToSet(w) PROVE x \in ToSet(s) /\ x # e
    <3>1. PICK j \in 1..Len(w) : w[j] = x
      BY <1>3 DEF ToSet
    <3>2. PICK n \in 1..Len(s) : s[n] = x /\ n # k
      BY <1>1, <1>3, <3>1
    <3>3. QED
      BY <1>1, <3>2 DEF IsInjective, ToSet
  <2>2. ASSUME NEW x \in ToSet(s), x # e PROVE x \in ToSet(w)
    <3>1. PICK j \in 1..Len(s) : s[j] = x
      BY DEF ToSet
    <3>2. CASE j < k
      <4>1. j \in 1..Len(w) /\ w[j] = x
        BY <1>1, <1>3, <3>1, <3>2
      <4>2. QED
        BY <4>1 DEF ToSet
    <3>3. CASE j > k
      <4>1. j - 1 \in 1..Len(w) /\ w[j - 1] = x
        BY <1>1, <1>3, <3>1, <3>3
      <4>2. QED
        BY <4>1 DEF ToSet
    <3>4. QED
      BY <1>1, <2>2, <3>1, <3>2, <3>3
  <2>3. QED
    BY <2>1, <2>2
<1>6. s # << >> /\ Head(s) # e => w # << >> /\ Head(w) = Head(s)
  BY <1>1, <1>3
<1>7. QED
  BY <1>2, <1>3, <1>4, <1>5, <1>6

(* Appending a new member keeps a sequence without repetition and its head.*)
LEMMA AppendFacts ==
    ASSUME NEW S, NEW s \in Seq(S), IsInjective(s), NEW e \in S,
           e \notin ToSet(s)
    PROVE  /\ Append(s, e) \in Seq(S)
           /\ Len(Append(s, e)) = Len(s) + 1
           /\ IsInjective(Append(s, e))
           /\ ToSet(Append(s, e)) = ToSet(s) \cup {e}
           /\ s # << >> => Head(Append(s, e)) = Head(s)
<1> DEFINE w == Append(s, e)
<1>1. /\ w \in Seq(S) /\ Len(w) = Len(s) + 1 /\ w[Len(s) + 1] = e
      /\ \A j \in 1..Len(s) : w[j] = s[j]
  OBVIOUS
<1> HIDE DEF w
<1>2. IsInjective(w)
  BY <1>1 DEF IsInjective, ToSet
<1>3. ToSet(w) = ToSet(s) \cup {e}
  BY <1>1 DEF ToSet
<1>4. s # << >> => Head(w) = Head(s)
  BY <1>1
<1>5. QED
  BY <1>1, <1>2, <1>3, <1>4 DEF w

(* The first member leaves.                                                *)
LEMMA TailFacts ==
    ASSUME NEW S, NEW s \in Seq(S), IsInjective(s), s # << >>
    PROVE  /\ Tail(s) \in Seq(S)
           /\ Len(Tail(s)) = Len(s) - 1
           /\ IsInjective(Tail(s))
           /\ ToSet(Tail(s)) = ToSet(s) \ {Head(s)}
           /\ Head(s) \in ToSet(s)
<1> DEFINE w == Tail(s)
<1>1. /\ w \in Seq(S) /\ Len(w) = Len(s) - 1 /\ Len(s) \in Nat \ {0}
      /\ \A j \in 1..(Len(s) - 1) : w[j] = s[j + 1]
      /\ Head(s) = s[1]
  OBVIOUS
<1> HIDE DEF w
<1>2. IsInjective(w)
  <2>1. ASSUME NEW i \in 1..Len(w), NEW j \in 1..Len(w), w[i] = w[j]
        PROVE  i = j
    <3>1. s[i + 1] = s[j + 1] /\ i + 1 \in 1..Len(s) /\ j + 1 \in 1..Len(s)
      BY <1>1, <2>1
    <3>2. QED
      BY <3>1 DEF IsInjective
  <2>2. QED
    BY <1>1, <2>1 DEF IsInjective
<1>3. ToSet(w) = ToSet(s) \ {Head(s)}
  <2>1. ASSUME NEW x \in ToSet(w) PROVE x \in ToSet(s) /\ x # s[1]
    BY <1>1 DEF IsInjective, ToSet
  <2>2. ASSUME NEW x \in ToSet(s), x # s[1] PROVE x \in ToSet(w)
    <3>1. PICK j \in 1..Len(s) : s[j] = x
      BY DEF ToSet
    <3>2. j - 1 \in 1..Len(w) /\ w[j - 1] = x
      BY <1>1, <2>2, <3>1
    <3>3. QED
      BY <3>2 DEF ToSet
  <2>3. QED
    BY <1>1, <2>1, <2>2
<1>4. Head(s) \in ToSet(s)
  BY <1>1 DEF ToSet
<1>5. QED
  BY <1>1, <1>2, <1>3, <1>4 DEF w

-----------------------------------------------------------------------------
(* Queues.                                                                 *)

(* A turn of IInv holds its lock exactly when it is the head of the queue  *)
(* it is in, so two turns that hold one lock are the same.                 *)
LEMMA OneHolder ==
    ASSUME NEW t \in Turn, NEW u \in Turn, Holds(t), Holds(u),
           lockOf[t] = lockOf[u]
    PROVE  t = u
BY DEF Holds

(* A turn under way leaves its queue: the queues stay disciplined, and     *)
(* whoever else held a lock still does.                                    *)
LEMMA ReleaseStep ==
    ASSUME TypeOK, QueueDiscipline, OnCachedLock, NEW t \in Turn, Queued(t),
           Release(t), pc' = [pc EXCEPT ![t] = "ended"], UNCHANGED lockOf
    PROVE  /\ queue' \in [Lock -> Seq(Turn)]
           /\ QueueDiscipline'
           /\ \A u \in Turn : u # t /\ Holds(u) => Holds(u)'
           /\ \A l \in Lock : queue'[l] # << >> => queue[l] # << >>
<1> DEFINE l == lockOf[t]
<1>1. /\ l \in Lock /\ queue \in [Lock -> Seq(Turn)] /\ pc \in [Turn -> Places]
      /\ lockOf \in [Turn -> Lock \cup {NoTurn}]
  BY DEF TypeOK, OnCachedLock
<1>2. /\ queue[l] \in Seq(Turn) /\ IsInjective(queue[l])
      /\ t \in ToSet(queue[l])
  BY <1>1 DEF QueueDiscipline
<1>3. /\ Without(queue[l], t) \in Seq(Turn)
      /\ IsInjective(Without(queue[l], t))
      /\ ToSet(Without(queue[l], t)) = ToSet(queue[l]) \ {t}
      /\ queue[l] # << >> /\ Head(queue[l]) # t =>
           /\ Without(queue[l], t) # << >>
           /\ Head(Without(queue[l], t)) = Head(queue[l])
  BY <1>2, WithoutFacts
<1>4. queue' = [queue EXCEPT ![l] = Without(queue[l], t)]
  BY DEF Release
<1> HIDE DEF l
<1>5. queue' \in [Lock -> Seq(Turn)]
  BY <1>1, <1>3, <1>4
<1>6. \A k \in Lock : queue'[k] = IF k = l THEN Without(queue[l], t) ELSE queue[k]
  BY <1>1, <1>4
<1>7. ASSUME NEW u \in Turn
      PROVE  Queued(u)' <=> Queued(u) /\ u # t
  BY <1>1 DEF Queued
<1>8. ASSUME NEW u \in Turn, NEW k \in Lock
      PROVE  u \in ToSet(queue'[k]) <=> Queued(u)' /\ lockOf'[u] = k
  <2>1. u \in ToSet(queue[k]) <=> Queued(u) /\ lockOf[u] = k
    BY DEF QueueDiscipline
  <2>2. CASE k = l
    BY <1>3, <1>6, <1>7, <2>1, <2>2
  <2>3. CASE k # l
    <3>1. ~(u = t /\ lockOf[u] = k)
      BY <2>3 DEF l
    <3>2. QED
      BY <1>6, <1>7, <2>1, <2>3, <3>1
  <2>4. QED
    BY <2>2, <2>3
<1>9. \A k \in Lock : IsInjective(queue'[k])
  BY <1>3, <1>6 DEF QueueDiscipline
<1>10. QueueDiscipline'
  BY <1>8, <1>9 DEF QueueDiscipline
<1>11. ASSUME NEW u \in Turn, u # t, Holds(u)
       PROVE  Holds(u)'
  <2>1. /\ lockOf[u] \in Lock /\ queue[lockOf[u]] # << >>
        /\ Head(queue[lockOf[u]]) = u
    BY <1>1, <1>11 DEF Holds
  <2>2. CASE lockOf[u] = l
    BY <1>3, <1>6, <1>11, <2>1, <2>2 DEF Holds
  <2>3. CASE lockOf[u] # l
    BY <1>6, <1>11, <2>1, <2>3 DEF Holds
  <2>4. QED
    BY <2>2, <2>3
<1>12. \A k \in Lock : queue'[k] # << >> => queue[k] # << >>
  <2>1. queue[l] # << >>
    BY <1>2 DEF ToSet
  <2>2. QED
    BY <1>6, <2>1
<1>13. QED
  BY <1>5, <1>10, <1>11, <1>12

-----------------------------------------------------------------------------
(* The lock cache.                                                         *)

(* What an arrival does to the cache: its session has a lock, and a lock   *)
(* that goes either was not in use or marks its session as lapsed.         *)
LEMMA CacheStep ==
    ASSUME TypeOK, CacheConsistent, NEW t \in Turn, Arrive(t)
    PROVE  /\ locks' \in [Session -> Lock \cup {NoTurn}]
           /\ order' \in Seq(Session)
           /\ CacheConsistent'
           /\ lapsed \subseteq lapsed' /\ lapsed' \subseteq Session
           /\ locks'[SessionOf[t]] = LockFor(SessionOf[t], t)
           /\ \A x \in Session : x # SessionOf[t] =>
                \/ locks'[x] = locks[x]
                \/ locks'[x] = NoTurn /\ (InUse(locks[x]) => x \in lapsed')
<1> DEFINE s == SessionOf[t]
<1>0. /\ s \in Session /\ t # NoTurn /\ MaxSessionLocks \in Nat \ {0}
      /\ locks \in [Session -> Lock \cup {NoTurn}]
      /\ order \in Seq(Session) /\ IsInjective(order)
      /\ Len(order) <= MaxSessionLocks
      /\ ToSet(order) = {x \in Session : locks[x] # NoTurn}
      /\ lapsed \subseteq Session /\ t \in Lock
  BY SessionsAssumption DEF TypeOK, CacheConsistent, Lock
<1>1. IF locks[s] # NoTurn THEN ReuseLock(s) ELSE CreateLock(s, t)
  BY DEF Arrive
<1> HIDE DEF s
<1>2. CASE locks[s] # NoTurn
  <2>1. s \in ToSet(order)
    BY <1>0, <1>2
  <2>2. /\ Without(order, s) \in Seq(Session)
        /\ Len(Without(order, s)) = Len(order) - 1
        /\ IsInjective(Without(order, s))
        /\ ToSet(Without(order, s)) = ToSet(order) \ {s}
    BY <1>0, <2>1, WithoutFacts
  <2>3. order' = Append(Without(order, s), s) /\ UNCHANGED <<locks, lapsed>>
    BY <1>1, <1>2 DEF ReuseLock
  <2>4. /\ order' \in Seq(Session)
        /\ Len(order') = Len(Without(order, s)) + 1
        /\ IsInjective(order')
        /\ ToSet(order') = ToSet(Without(order, s)) \cup {s}
    BY <1>0, <2>2, <2>3, AppendFacts
  <2>5. Len(order') <= MaxSessionLocks /\ ToSet(order') = ToSet(order)
    BY <1>0, <2>1, <2>2, <2>4
  <2>6. CacheConsistent'
    BY <1>0, <2>3, <2>4, <2>5 DEF CacheConsistent
  <2>7. QED
    BY <1>0, <1>2, <2>3, <2>4, <2>6 DEF LockFor, s
<1>3. CASE locks[s] = NoTurn
  <2> DEFINE grown == Append(order, s)
             oldest == Head(grown)
  <2>1. s \notin ToSet(order)
    BY <1>0, <1>3
  <2>2. /\ grown \in Seq(Session) /\ Len(grown) = Len(order) + 1
        /\ IsInjective(grown) /\ ToSet(grown) = ToSet(order) \cup {s}
        /\ order # << >> => Head(grown) = Head(order)
    BY <1>0, <2>1, AppendFacts
  <2>3. LockFor(s, t) = t
    BY <1>3 DEF LockFor
  <2>4. CASE Len(grown) > MaxSessionLocks
    <3>1. /\ order' = Tail(grown)
          /\ locks' = [locks EXCEPT ![s] = t, ![oldest] = NoTurn]
          /\ lapsed' = lapsed \cup {x \in {oldest} : x # s /\ InUse(locks[x])}
      BY <1>1, <1>3, <2>4 DEF CreateLock
    <3>2. order # << >> /\ grown # << >>
      BY <1>0, <2>2, <2>4
    <3>3. oldest \in ToSet(order) /\ oldest # s /\ oldest \in Session
      BY <1>0, <2>1, <2>2, <3>2, TailFacts
    <3>4. /\ Tail(grown) \in Seq(Session) /\ Len(Tail(grown)) = Len(grown) - 1
          /\ IsInjective(Tail(grown)) /\ ToSet(Tail(grown)) = ToSet(grown) \ {oldest}
      BY <2>2, <3>2, TailFacts
    <3> HIDE DEF grown, oldest
    <3>5. \A x \in Session :
            locks'[x] = IF x = oldest THEN NoTurn
                        ELSE IF x = s THEN t ELSE locks[x]
      BY <1>0, <3>1, <3>3
    <3>6. ToSet(order') = {x \in Session : locks'[x] # NoTurn}
      BY <1>0, <2>2, <3>1, <3>3, <3>4, <3>5
    <3>7. Len(order') <= MaxSessionLocks
      BY <1>0, <2>2, <3>1, <3>4
    <3>8. CacheConsistent'
      BY <3>1, <3>4, <3>6, <3>7 DEF CacheConsistent
    <3>9. locks' \in [Session -> Lock \cup {NoTurn}]
      BY <1>0, <3>1
    <3>10. locks'[s] = t
      BY <1>0, <3>3, <3>5
    <3>11. QED
      BY <1>0, <2>3, <3>1, <3>3, <3>4, <3>5, <3>8, <3>9, <3>10 DEF s
  <2>5. CASE ~(Len(grown) > MaxSessionLocks)
    <3>1. /\ order' = grown
          /\ locks' = [locks EXCEPT ![s] = t]
          /\ UNCHANGED lapsed
      BY <1>1, <1>3, <2>5 DEF CreateLock
    <3>2. ToSet(order') = {x \in Session : locks'[x] # NoTurn}
      BY <1>0, <2>2, <3>1
    <3>3. Len(order') <= MaxSessionLocks
      BY <1>0, <2>2, <2>5, <3>1
    <3>4. CacheConsistent'
      BY <2>2, <3>1, <3>2, <3>3 DEF CacheConsistent
    <3>5. QED
      BY <1>0, <2>2, <2>3, <3>1, <3>4 DEF s
  <2>6. QED
    BY <2>4, <2>5
<1>4. QED
  BY <1>2, <1>3

(* A turn that arrives joins the queue of its session's lock.              *)
LEMMA ArriveStep ==
    ASSUME IInv, NEW t \in Turn, Arrive(t)
    PROVE  IInv'
<1> DEFINE s == SessionOf[t]
           l == LockFor(s, t)
<1>0. TypeOK /\ CacheConsistent /\ QueueDiscipline /\ OnCachedLock /\ WorkingHolds
  BY DEF IInv
<1>1. /\ s \in Session /\ t # NoTurn /\ t \in Lock /\ Lock = Turn
      /\ locks \in [Session -> Lock \cup {NoTurn}]
      /\ queue \in [Lock -> Seq(Turn)] /\ pc \in [Turn -> Places]
      /\ lockOf \in [Turn -> Lock \cup {NoTurn}] /\ lapsed \subseteq Session
      /\ SessionOf \in [Turn -> Session] /\ NoTurn \notin Lock
  BY <1>0, SessionsAssumption DEF TypeOK, Lock
<1>2. /\ pc[t] = "new" /\ pc' = [pc EXCEPT ![t] = "locking"]
      /\ lockOf' = [lockOf EXCEPT ![t] = l]
      /\ queue' = [queue EXCEPT ![l] = Append(queue[l], t)]
      /\ UNCHANGED <<context, writes, turns>>
  BY DEF Arrive
<1>3. /\ locks' \in [Session -> Lock \cup {NoTurn}]
      /\ order' \in Seq(Session) /\ CacheConsistent'
      /\ lapsed \subseteq lapsed' /\ lapsed' \subseteq Session
      /\ locks'[s] = l
      /\ \A x \in Session : x # s =>
           \/ locks'[x] = locks[x]
           \/ locks'[x] = NoTurn /\ (InUse(locks[x]) => x \in lapsed')
  BY <1>0, CacheStep
<1>4. /\ l \in Lock
      /\ locks[s] = NoTurn => l = t
      /\ locks[s] # NoTurn => l = locks[s]
  BY <1>1 DEF LockFor
<1> HIDE DEF s, l
<1>5. SessionOf[l] = s /\ (l = t \/ pc[l] # "new")
  BY <1>0, <1>1, <1>4 DEF OnCachedLock, s
<1>6. \A u \in Turn : /\ pc'[u] = IF u = t THEN "locking" ELSE pc[u]
                      /\ lockOf'[u] = IF u = t THEN l ELSE lockOf[u]
  BY <1>1, <1>2
<1>7. \A u \in Turn : Queued(u)' <=> u = t \/ Queued(u)
  BY <1>6 DEF Queued
<1>8. t \notin ToSet(queue[l]) /\ queue[l] \in Seq(Turn) /\ IsInjective(queue[l])
  BY <1>0, <1>1, <1>2, <1>4 DEF QueueDiscipline, Queued
<1>9. /\ Append(queue[l], t) \in Seq(Turn) /\ IsInjective(Append(queue[l], t))
      /\ ToSet(Append(queue[l], t)) = ToSet(queue[l]) \cup {t}
      /\ queue[l] # << >> => Head(Append(queue[l], t)) = Head(queue[l])
      /\ Append(queue[l], t) # << >>
  <2>1. /\ Append(queue[l], t) \in Seq(Turn) /\ IsInjective(Append(queue[l], t))
        /\ ToSet(Append(queue[l], t)) = ToSet(queue[l]) \cup {t}
        /\ queue[l] # << >> => Head(Append(queue[l], t)) = Head(queue[l])
    BY <1>8, AppendFacts
  <2>2. Append(queue[l], t) # << >>
    BY <1>8
  <2>3. QED
    BY <2>1, <2>2
<1>10. \A k \in Lock :
         queue'[k] = IF k = l THEN Append(queue[l], t) ELSE queue[k]
  BY <1>1, <1>2, <1>4
<1>11. TypeOK'
  <2>1. queue' \in [Lock -> Seq(Turn)]
    BY <1>1, <1>2, <1>9
  <2>2. pc' \in [Turn -> Places] /\ lockOf' \in [Turn -> Lock \cup {NoTurn}]
    BY <1>1, <1>2, <1>4 DEF Places
  <2>3. QED
    BY <1>0, <1>2, <1>3, <2>1, <2>2 DEF TypeOK
<1>12. QueueDiscipline'
  <2>1. \A k \in Lock : IsInjective(queue'[k])
    BY <1>0, <1>9, <1>10 DEF QueueDiscipline
  <2>2. ASSUME NEW u \in Turn, NEW k \in Lock
        PROVE  u \in ToSet(queue'[k]) <=> Queued(u)' /\ lockOf'[u] = k
    <3>1. u \in ToSet(queue[k]) <=> Queued(u) /\ lockOf[u] = k
      BY <1>0 DEF QueueDiscipline
    <3>2. ~Queued(t)
      BY <1>2 DEF Queued
    <3>3. QED
      BY <1>6, <1>7, <1>9, <1>10, <3>1, <3>2
  <2>3. QED
    BY <2>1, <2>2 DEF QueueDiscipline
<1>13. OnCachedLock'
  <2>1. ASSUME NEW x \in Session, locks'[x] # NoTurn
        PROVE  SessionOf[locks'[x]] = x /\ pc'[locks'[x]] # "new"
    <3>1. CASE x = s
      BY <1>3, <1>4, <1>5, <1>6, <3>1 DEF Lock
    <3>2. CASE x # s
      <4>1. locks'[x] = locks[x]
        BY <1>3, <2>1, <3>2
      <4>2. SessionOf[locks[x]] = x /\ pc[locks[x]] # "new" /\ locks[x] \in Turn
        BY <1>0, <1>1, <2>1, <4>1 DEF OnCachedLock
      <4>3. QED
        BY <1>6, <4>1, <4>2
    <3>3. QED
      BY <3>1, <3>2
  <2>2. ASSUME NEW u \in Turn, Queued(u)'
        PROVE  lockOf'[u] # NoTurn /\ pc'[lockOf'[u]] # "new"
    <3>1. CASE u = t
      BY <1>1, <1>4, <1>5, <1>6, <3>1
    <3>2. CASE u # t
      <4>1. lockOf'[u] = lockOf[u] /\ lockOf[u] # NoTurn /\ pc[lockOf[u]] # "new"
        BY <1>0, <1>6, <1>7, <2>2, <3>2 DEF OnCachedLock
      <4>2. lockOf[u] \in Turn
        BY <1>1, <4>1
      <4>3. QED
        BY <1>6, <4>1, <4>2
    <3>3. QED
      BY <3>1, <3>2
  <2>3. ASSUME NEW u \in Turn, Queued(u)', SessionOf[u] \notin lapsed'
        PROVE  lockOf'[u] = locks'[SessionOf[u]]
    <3>1. CASE u = t
      BY <1>3, <1>6, <3>1 DEF s
    <3>2. CASE u # t
      <4>1. /\ Queued(u) /\ lockOf'[u] = lockOf[u] /\ lockOf[u] # NoTurn
            /\ lockOf[u] = locks[SessionOf[u]] /\ lockOf[u] \in Lock
        BY <1>0, <1>1, <1>3, <1>6, <1>7, <2>3, <3>2 DEF OnCachedLock
      <4>2. u \in ToSet(queue[lockOf[u]])
        BY <1>0, <4>1 DEF QueueDiscipline
      <4>3. InUse(locks[SessionOf[u]])
        BY <4>1, <4>2 DEF InUse, ToSet
      <4>4. CASE SessionOf[u] = s
        BY <1>3, <1>4, <4>1, <4>4
      <4>5. CASE SessionOf[u] # s
        BY <1>1, <1>3, <2>3, <4>1, <4>3, <4>5
      <4>6. QED
        BY <4>4, <4>5
    <3>3. QED
      BY <3>1, <3>2
  <2>4. QED
    BY <2>1, <2>2, <2>3 DEF OnCachedLock
<1>14. WorkingHolds'
  <2>1. ASSUME NEW u \in Turn, pc'[u] \in {"running", "saving"}
        PROVE  Holds(u)'
    <3>1. u # t /\ pc[u] \in {"running", "saving"} /\ lockOf'[u] = lockOf[u]
      BY <1>6, <2>1
    <3>2. /\ lockOf[u] \in Lock /\ queue[lockOf[u]] # << >>
          /\ Head(queue[lockOf[u]]) = u
      BY <1>0, <1>1, <3>1 DEF WorkingHolds, Holds
    <3>3. queue'[lockOf[u]] # << >> /\ Head(queue'[lockOf[u]]) = u
      BY <1>9, <1>10, <3>2
    <3>4. QED
      BY <1>1, <3>1, <3>2, <3>3 DEF Holds
  <2>2. \A u \in writes' : pc'[u] = "saving" \/ SessionOf[u] \in lapsed'
    BY <1>0, <1>2, <1>3, <1>6 DEF WorkingHolds, TypeOK
  <2>3. ASSUME NEW u \in Turn, Working(u)', SessionOf[u] \notin lapsed'
        PROVE  context'[u] = turns'[SessionOf[u]]
    <3>1. Working(u)
      BY <1>2, <1>6, <2>3 DEF Working
    <3>2. QED
      BY <1>0, <1>2, <1>3, <2>3, <3>1 DEF WorkingHolds
  <2>4. QED
    BY <2>1, <2>2, <2>3 DEF WorkingHolds
<1>15. QED
  BY <1>3, <1>11, <1>12, <1>13, <1>14 DEF IInv

-----------------------------------------------------------------------------
(* The steps of a turn under way.                                          *)

(* Reading the history keeps the invariant.                                *)
LEMMA ReadHistoryStep ==
    ASSUME IInv, NEW t \in Turn, ReadHistory(t)
    PROVE  IInv'
<1>0. TypeOK /\ CacheConsistent /\ QueueDiscipline /\ OnCachedLock /\ WorkingHolds
  BY DEF IInv
<1>1. /\ pc \in [Turn -> Places] /\ context \in [Turn -> Seq(Turn)]
      /\ turns \in [Session -> Seq(Turn)] /\ SessionOf[t] \in Session
  BY <1>0, SessionsAssumption DEF TypeOK
<1>2. /\ pc[t] = "locking" /\ Holds(t)
      /\ pc' = [pc EXCEPT ![t] = "running"]
      /\ context' = [context EXCEPT ![t] = turns[SessionOf[t]]]
      /\ UNCHANGED <<locks, order, queue, lockOf, writes, turns, lapsed>>
  BY DEF ReadHistory, cacheVars
<1>3. \A u \in Turn :
        /\ pc'[u] = IF u = t THEN "running" ELSE pc[u]
        /\ context'[u] = IF u = t THEN turns[SessionOf[t]] ELSE context[u]
        /\ Queued(u)' <=> Queued(u)
        /\ Holds(u)' <=> Holds(u)
  BY <1>1, <1>2 DEF Queued, Holds
<1>4. TypeOK'
  BY <1>0, <1>1, <1>2 DEF TypeOK, Places
<1>5. CacheConsistent' /\ QueueDiscipline'
  BY <1>0, <1>2, <1>3 DEF CacheConsistent, QueueDiscipline
<1>6. OnCachedLock'
  <2>1. locks \in [Session -> Turn \cup {NoTurn}] /\ lockOf \in [Turn -> Turn \cup {NoTurn}]
    BY <1>0 DEF TypeOK, Lock
  <2>2. QED
    BY <1>0, <1>2, <1>3, <2>1 DEF OnCachedLock
<1>7. WorkingHolds'
  <2>1. \A u \in Turn : pc'[u] \in {"running", "saving"} => Holds(u)'
    BY <1>0, <1>2, <1>3 DEF WorkingHolds
  <2>2. \A u \in writes' : pc'[u] = "saving" \/ SessionOf[u] \in lapsed'
    BY <1>0, <1>2, <1>3 DEF WorkingHolds, TypeOK
  <2>3. ASSUME NEW u \in Turn, Working(u)', SessionOf[u] \notin lapsed'
        PROVE  context'[u] = turns'[SessionOf[u]]
    BY <1>0, <1>2, <1>3, <2>3 DEF WorkingHolds, Working
  <2>4. QED
    BY <2>1, <2>2, <2>3 DEF WorkingHolds
<1>8. QED
  BY <1>4, <1>5, <1>6, <1>7 DEF IInv

(* Handing the turn to its writing thread keeps the invariant.             *)
LEMMA SubmitSaveStep ==
    ASSUME IInv, NEW t \in Turn, SubmitSave(t)
    PROVE  IInv'
<1>0. TypeOK /\ CacheConsistent /\ QueueDiscipline /\ OnCachedLock /\ WorkingHolds
  BY DEF IInv
<1>1. pc \in [Turn -> Places] /\ writes \subseteq Turn
  BY <1>0 DEF TypeOK
<1>2. /\ pc[t] = "running" /\ pc' = [pc EXCEPT ![t] = "saving"]
      /\ writes' = writes \cup {t}
      /\ UNCHANGED <<locks, order, queue, lockOf, context, turns, lapsed>>
  BY DEF SubmitSave, cacheVars
<1>3. \A u \in Turn :
        /\ pc'[u] = IF u = t THEN "saving" ELSE pc[u]
        /\ Queued(u)' <=> Queued(u)
        /\ Holds(u)' <=> Holds(u)
  BY <1>1, <1>2 DEF Queued, Holds
<1>4. TypeOK'
  BY <1>0, <1>1, <1>2 DEF TypeOK, Places
<1>5. CacheConsistent' /\ QueueDiscipline'
  BY <1>0, <1>2, <1>3 DEF CacheConsistent, QueueDiscipline
<1>6. OnCachedLock'
  <2>1. locks \in [Session -> Turn \cup {NoTurn}] /\ lockOf \in [Turn -> Turn \cup {NoTurn}]
    BY <1>0 DEF TypeOK, Lock
  <2>2. QED
    BY <1>0, <1>2, <1>3, <2>1 DEF OnCachedLock
<1>7. WorkingHolds'
  BY <1>0, <1>1, <1>2, <1>3 DEF WorkingHolds, Working
<1>8. QED
  BY <1>4, <1>5, <1>6, <1>7 DEF IInv

(* Two turns at work on a session that has not lapsed are the same turn.   *)
LEMMA OneWorker ==
    ASSUME TypeOK, OnCachedLock, WorkingHolds,
           NEW t \in Turn, NEW u \in Turn, Working(t), Working(u),
           SessionOf[t] = SessionOf[u], SessionOf[t] \notin lapsed
    PROVE  t = u
<1>1. pc[t] \in {"running", "saving"} /\ pc[u] \in {"running", "saving"}
  BY DEF Working, WorkingHolds
<1>2. Holds(t) /\ Holds(u)
  BY <1>1 DEF WorkingHolds
<1>3. lockOf[t] = lockOf[u]
  BY <1>1 DEF OnCachedLock, Queued
<1>4. QED
  BY <1>2, <1>3, OneHolder

(* A commit keeps the invariant.                                           *)
LEMMA WriteStep ==
    ASSUME IInv, NEW t \in Turn, CommitSave(t) \/ SaveFails(t)
    PROVE  IInv'
<1>0. TypeOK /\ CacheConsistent /\ QueueDiscipline /\ OnCachedLock /\ WorkingHolds
  BY DEF IInv
<1>1. /\ t \in writes /\ writes' = writes \ {t} /\ writes \subseteq Turn
      /\ turns \in [Session -> Seq(Turn)] /\ SessionOf[t] \in Session
      /\ UNCHANGED <<locks, order, queue, lockOf, pc, context, lapsed>>
  BY <1>0, SessionsAssumption DEF CommitSave, SaveFails, cacheVars, TypeOK
<1>2. /\ turns' \in [Session -> Seq(Turn)]
      /\ \A x \in Session : x # SessionOf[t] => turns'[x] = turns[x]
  <2>1. CASE CommitSave(t)
    <3> DEFINE w == Append(turns[SessionOf[t]], t)
    <3>1. w \in Seq(Turn)
      BY <1>1
    <3>2. LastOf(w, HistoryTurns) \in Seq(Turn)
      BY <3>1, SessionsAssumption DEF LastOf
    <3>3. turns' = [turns EXCEPT ![SessionOf[t]] = LastOf(w, HistoryTurns)]
      BY <2>1 DEF CommitSave, Trimmed
    <3> HIDE DEF w
    <3>4. QED
      BY <1>1, <3>2, <3>3
  <2>2. CASE SaveFails(t)
    BY <1>1, <2>2 DEF SaveFails
  <2>3. QED
    BY <2>1, <2>2
<1>3. TypeOK'
  BY <1>0, <1>1, <1>2 DEF TypeOK
<1>4. CacheConsistent' /\ QueueDiscipline' /\ OnCachedLock'
  BY <1>0, <1>1 DEF CacheConsistent, QueueDiscipline, OnCachedLock, Queued
<1>5. WorkingHolds'
  <2>1. \A u \in Turn : pc'[u] \in {"running", "saving"} => Holds(u)'
    BY <1>0, <1>1 DEF WorkingHolds, Holds
  <2>2. \A u \in writes' : pc'[u] = "saving" \/ SessionOf[u] \in lapsed'
    BY <1>0, <1>1 DEF WorkingHolds
  <2>3. ASSUME NEW u \in Turn, Working(u)', SessionOf[u] \notin lapsed'
        PROVE  context'[u] = turns'[SessionOf[u]]
    <3>1. Working(u) /\ Working(t) /\ SessionOf[u] \in Session
      BY <1>1, <2>3, SessionsAssumption DEF Working
    <3>2. CASE SessionOf[u] = SessionOf[t]
      <4>1. u = t
        BY <1>0, <1>1, <2>3, <3>1, <3>2, OneWorker
      <4>2. pc[t] = "saving"
        BY <1>0, <1>1, <2>3, <3>2 DEF WorkingHolds
      <4>3. ~Working(t)'
        BY <1>1, <4>2 DEF Working
      <4>4. QED
        BY <2>3, <4>1, <4>3
    <3>3. CASE SessionOf[u] # SessionOf[t]
      BY <1>0, <1>1, <1>2, <2>3, <3>1, <3>3 DEF WorkingHolds
    <3>4. QED
      BY <3>2, <3>3
  <2>4. QED
    BY <2>1, <2>2, <2>3 DEF WorkingHolds
<1>6. QED
  BY <1>3, <1>4, <1>5 DEF IInv

(* A turn ends, by itself or because its client left.                      *)
LEMMA EndStep ==
    ASSUME IInv, NEW t \in Turn, Finish(t) \/ Disconnect(t)
    PROVE  IInv'
<1>0. TypeOK /\ CacheConsistent /\ QueueDiscipline /\ OnCachedLock /\ WorkingHolds
  BY DEF IInv
<1>1. /\ pc \in [Turn -> Places] /\ SessionOf[t] \in Session
      /\ lapsed \subseteq Session
  BY <1>0, SessionsAssumption DEF TypeOK
<1>2. /\ Queued(t) /\ Release(t) /\ pc' = [pc EXCEPT ![t] = "ended"]
      /\ UNCHANGED <<locks, order, lockOf, context, writes, turns>>
      /\ lapsed \subseteq lapsed' /\ lapsed' \subseteq Session
      /\ t \in writes => SessionOf[t] \in lapsed'
  <2>1. CASE Finish(t)
    BY <1>0, <1>1, <2>1 DEF Finish, cacheVars, Queued, WorkingHolds
  <2>2. CASE Disconnect(t)
    BY <1>1, <2>2 DEF Disconnect, cacheVars, Queued
  <2>3. QED
    BY <2>1, <2>2
<1>3. /\ queue' \in [Lock -> Seq(Turn)] /\ QueueDiscipline'
      /\ \A u \in Turn : u # t /\ Holds(u) => Holds(u)'
  BY <1>0, <1>2, ReleaseStep
<1>4. \A u \in Turn : /\ pc'[u] = IF u = t THEN "ended" ELSE pc[u]
                      /\ Queued(u)' => Queued(u)
  BY <1>1, <1>2 DEF Queued
<1>5. TypeOK'
  BY <1>0, <1>1, <1>2, <1>3 DEF TypeOK, Places
<1>6. CacheConsistent'
  BY <1>0, <1>2 DEF CacheConsistent
<1>7. OnCachedLock'
  <2>1. locks \in [Session -> Turn \cup {NoTurn}] /\ lockOf \in [Turn -> Turn \cup {NoTurn}]
    BY <1>0 DEF TypeOK, Lock
  <2>2. QED
    BY <1>0, <1>2, <1>4, <2>1 DEF OnCachedLock
<1>8. WorkingHolds'
  <2>1. \A u \in Turn : pc'[u] \in {"running", "saving"} => Holds(u)'
    BY <1>0, <1>3, <1>4 DEF WorkingHolds
  <2>2. \A u \in writes' : pc'[u] = "saving" \/ SessionOf[u] \in lapsed'
    BY <1>0, <1>2, <1>4 DEF WorkingHolds, TypeOK
  <2>3. ASSUME NEW u \in Turn, Working(u)', SessionOf[u] \notin lapsed'
        PROVE  context'[u] = turns'[SessionOf[u]]
    BY <1>0, <1>2, <1>4, <2>3 DEF WorkingHolds, Working
  <2>4. QED
    BY <2>1, <2>2, <2>3 DEF WorkingHolds
<1>9. QED
  BY <1>3, <1>5, <1>6, <1>7, <1>8 DEF IInv

(* After a restart nothing is queued, cached or at work.                   *)
LEMMA RestartStep ==
    ASSUME IInv, Restart
    PROVE  IInv'
<1>1. /\ pc \in [Turn -> Places] /\ turns \in [Session -> Seq(Turn)]
      /\ MaxSessionLocks \in Nat
  BY SessionsAssumption DEF IInv, TypeOK
<1>2. /\ locks' = [s \in Session |-> NoTurn] /\ order' = << >>
      /\ queue' = [l \in Lock |-> << >>] /\ lockOf' = [t \in Turn |-> NoTurn]
      /\ pc' = [t \in Turn |-> IF pc[t] = "new" THEN "new" ELSE "ended"]
      /\ context' = [t \in Turn |-> << >>] /\ writes' = {} /\ lapsed' = {}
      /\ UNCHANGED turns
  BY DEF Restart
<1>3. \A t \in Turn : pc'[t] \in {"new", "ended"} /\ ~Queued(t)'
  BY <1>2 DEF Queued
<1>4. ToSet(<< >>) = {} /\ IsInjective(<< >>)
  BY DEF ToSet, IsInjective
<1>5. TypeOK'
  BY <1>1, <1>2 DEF TypeOK, Places
<1>6. CacheConsistent'
  BY <1>1, <1>2, <1>4 DEF CacheConsistent
<1>7. QueueDiscipline'
  BY <1>2, <1>3, <1>4 DEF QueueDiscipline
<1>8. OnCachedLock'
  BY <1>2, <1>3 DEF OnCachedLock
<1>9. WorkingHolds'
  BY <1>2, <1>3 DEF WorkingHolds, Working
<1>10. QED
  BY <1>5, <1>6, <1>7, <1>8, <1>9 DEF IInv

-----------------------------------------------------------------------------
(* The invariant holds when the service starts.                            *)
LEMMA InitIInv == Init => IInv
<1> SUFFICES ASSUME Init PROVE IInv
  OBVIOUS
<1>1. /\ locks = [s \in Session |-> NoTurn] /\ order = << >>
      /\ queue = [l \in Lock |-> << >>] /\ lockOf = [t \in Turn |-> NoTurn]
      /\ pc = [t \in Turn |-> "new"] /\ context = [t \in Turn |-> << >>]
      /\ writes = {} /\ turns = [s \in Session |-> << >>] /\ lapsed = {}
  BY DEF Init
<1>2. \A t \in Turn : pc[t] = "new" /\ ~Queued(t)
  BY <1>1 DEF Queued
<1>3. ToSet(<< >>) = {} /\ IsInjective(<< >>)
  BY DEF ToSet, IsInjective
<1>4. TypeOK
  BY <1>1 DEF TypeOK, Places
<1>5. CacheConsistent
  BY <1>1, <1>3, SessionsAssumption DEF CacheConsistent
<1>6. QueueDiscipline
  BY <1>1, <1>2, <1>3 DEF QueueDiscipline
<1>7. OnCachedLock
  BY <1>1, <1>2 DEF OnCachedLock
<1>8. WorkingHolds
  BY <1>1, <1>2 DEF WorkingHolds, Working
<1>9. QED
  BY <1>4, <1>5, <1>6, <1>7, <1>8 DEF IInv

(* Every step keeps the invariant.                                         *)
LEMMA NextIInv == IInv /\ [Next]_vars => IInv'
<1> SUFFICES ASSUME IInv, [Next]_vars PROVE IInv'
  OBVIOUS
<1>1. ASSUME NEW t \in Turn, Arrive(t) \/ Proceed(t) \/ Disconnect(t)
      PROVE  IInv'
  BY <1>1, ArriveStep, ReadHistoryStep, SubmitSaveStep, WriteStep, EndStep
     DEF Proceed
<1>2. CASE UNCHANGED vars
  BY <1>2
     DEF vars, cacheVars, IInv, TypeOK, CacheConsistent, QueueDiscipline,
         OnCachedLock, WorkingHolds, Working, Queued, Holds
<1>3. QED
  BY <1>1, <1>2, RestartStep DEF Next

(* The cache, the queues of the locks and the turns at work agree in every *)
(* state, with evictions, disconnections and restarts at any point.        *)
THEOREM InductiveInvariant == Spec => []IInv
BY InitIInv, NextIInv, PTL DEF Spec

(* The lock cache never outgrows its limit and its two structures agree.   *)
THEOREM CacheBounded == Spec => []CacheConsistent
<1>1. IInv => CacheConsistent
  BY DEF IInv
<1>2. QED
  BY InductiveInvariant, <1>1, PTL

(* Two turns never work on one session at once unless its lock was evicted *)
(* while in use or a client left during a save.                            *)
THEOREM SerialWork == Spec => []OverlapOnlyAfterLapse
<1>1. IInv => OverlapOnlyAfterLapse
  BY OneWorker DEF IInv, OverlapOnlyAfterLapse
<1>2. QED
  BY InductiveInvariant, <1>1, PTL

(* A turn that is stored saw every turn stored before it, with the same    *)
(* exceptions.                                                             *)
THEOREM StoredInContext == Spec => StoredOnItsContext
<1>1. IInv /\ [Next]_vars =>
        [\A t \in Turn :
           t \in writes /\ turns[SessionOf[t]] # turns'[SessionOf[t]] =>
             context[t] = turns[SessionOf[t]] \/ SessionOf[t] \in lapsed]_vars
  <2> SUFFICES ASSUME IInv, NEW t \in Turn, t \in writes,
                      SessionOf[t] \notin lapsed
               PROVE  context[t] = turns[SessionOf[t]]
    BY Zenon
  <2>1. QED
    BY DEF IInv, WorkingHolds, Working
<1>2. QED
  BY InductiveInvariant, <1>1, PTL DEF Spec, StoredOnItsContext

-----------------------------------------------------------------------------
(* What is stored.                                                         *)

(* The end of a sequence has no more members than the sequence, and none   *)
(* of them twice if it had none twice.                                     *)
LEMMA LastOfFacts ==
    ASSUME NEW S, NEW s \in Seq(S), IsInjective(s), NEW n \in Nat
    PROVE  /\ LastOf(s, n) \in Seq(S)
           /\ Len(LastOf(s, n)) <= n
           /\ IsInjective(LastOf(s, n))
           /\ ToSet(LastOf(s, n)) \subseteq ToSet(s)
<1>1. CASE Len(s) <= n
  BY <1>1 DEF LastOf
<1>2. CASE ~(Len(s) <= n)
  <2> DEFINE w == SubSeq(s, Len(s) - n + 1, Len(s))
             d == Len(s) - n
  <2>1. /\ w \in Seq(S) /\ Len(w) = n /\ d \in Nat /\ Len(s) = d + n
        /\ \A j \in 1..n : w[j] = s[d + j]
    BY <1>2
  <2>2. LastOf(s, n) = w
    BY <1>2 DEF LastOf
  <2> HIDE DEF w, d
  <2>3. ASSUME NEW i \in 1..n, NEW j \in 1..n, w[i] = w[j]
        PROVE  i = j
    <3>1. s[d + i] = s[d + j] /\ d + i \in 1..Len(s) /\ d + j \in 1..Len(s)
      BY <2>1, <2>3
    <3>2. QED
      BY <2>1, <3>1 DEF IsInjective
  <2>4. IsInjective(w)
    BY <2>1, <2>3 DEF IsInjective
  <2>5. ASSUME NEW x \in ToSet(w) PROVE x \in ToSet(s)
    <3>1. PICK j \in 1..n : w[j] = x
      BY <2>1 DEF ToSet
    <3>2. d + j \in 1..Len(s) /\ s[d + j] = x
      BY <2>1, <3>1
    <3>3. QED
      BY <3>2 DEF ToSet
  <2>6. QED
    BY <2>1, <2>2, <2>4, <2>5
<1>3. QED
  BY <1>1, <1>2

(* A stored turn was submitted once and is not being written any more.     *)
StoredInv ==
    /\ StoredTurns
    /\ \A t \in writes : pc[t] \in {"saving", "ended"}
    /\ \A s \in Session : \A t \in ToSet(turns[s]) :
         t \notin writes /\ pc[t] \in {"saving", "ended"}

(* A commit adds a turn that was not stored yet to its own session.        *)
LEMMA CommitStored ==
    ASSUME TypeOK, StoredInv, NEW t \in Turn, CommitSave(t)
    PROVE  StoredInv'
<1> DEFINE s == SessionOf[t]
           w == Append(turns[s], t)
<1>1. /\ s \in Session /\ turns \in [Session -> Seq(Turn)]
      /\ HistoryTurns \in Nat /\ writes \subseteq Turn
  BY SessionsAssumption DEF TypeOK
<1>2. /\ t \in writes /\ writes' = writes \ {t} /\ pc' = pc
      /\ turns' = [turns EXCEPT ![s] = LastOf(w, HistoryTurns)]
  BY DEF CommitSave, Trimmed
<1>3. turns[s] \in Seq(Turn) /\ IsInjective(turns[s]) /\ t \notin ToSet(turns[s])
  BY <1>1, <1>2 DEF StoredInv, StoredTurns
<1>4. w \in Seq(Turn) /\ IsInjective(w) /\ ToSet(w) = ToSet(turns[s]) \cup {t}
  BY <1>3, AppendFacts
<1>5. /\ Len(LastOf(w, HistoryTurns)) <= HistoryTurns
      /\ IsInjective(LastOf(w, HistoryTurns))
      /\ ToSet(LastOf(w, HistoryTurns)) \subseteq ToSet(turns[s]) \cup {t}
  <2> HIDE DEF w
  <2>1. QED
    BY <1>1, <1>4, LastOfFacts
<1> HIDE DEF w
<1>6. \A x \in Session :
        turns'[x] = IF x = s THEN LastOf(w, HistoryTurns) ELSE turns[x]
  BY <1>1, <1>2
<1>7. StoredTurns'
  BY <1>5, <1>6 DEF StoredInv, StoredTurns
<1>8. \A x \in writes' : pc'[x] \in {"saving", "ended"}
  BY <1>2 DEF StoredInv
<1>9. ASSUME NEW x \in Session, NEW u \in ToSet(turns'[x])
      PROVE  u \notin writes' /\ pc'[u] \in {"saving", "ended"}
  <2>1. u \in ToSet(turns[x]) \/ u = t
    BY <1>5, <1>6, <1>9
  <2>2. QED
    BY <1>2, <2>1 DEF StoredInv
<1>10. QED
  BY <1>7, <1>8, <1>9 DEF StoredInv

(* No step stores a turn twice, cuts one up or lets a session grow.        *)
LEMMA StoredStep ==
    ASSUME IInv, StoredInv, [Next]_vars
    PROVE  StoredInv'
<1>0. /\ TypeOK /\ pc \in [Turn -> Places] /\ turns \in [Session -> Seq(Turn)]
      /\ writes \subseteq Turn
  BY DEF IInv, TypeOK
<1>1. \A s \in Session : \A t \in ToSet(turns[s]) : t \in Turn
  BY <1>0 DEF ToSet
<1>2. ASSUME NEW t \in Turn, Arrive(t) \/ ReadHistory(t) PROVE StoredInv'
  <2>1. /\ pc[t] \in {"new", "locking"} /\ turns' = turns /\ writes' = writes
        /\ \A u \in Turn : u # t => pc'[u] = pc[u]
    BY <1>0, <1>2 DEF Arrive, ReadHistory
  <2>2. QED
    BY <1>0, <1>1, <2>1 DEF StoredInv, StoredTurns
<1>3. ASSUME NEW t \in Turn, SubmitSave(t) PROVE StoredInv'
  <2>1. /\ pc[t] = "running" /\ pc'[t] = "saving" /\ turns' = turns
        /\ writes' = writes \cup {t}
        /\ \A u \in Turn : u # t => pc'[u] = pc[u]
    BY <1>0, <1>3 DEF SubmitSave
  <2>2. QED
    BY <1>0, <1>1, <2>1 DEF StoredInv, StoredTurns
<1>4. ASSUME NEW t \in Turn, SaveFails(t) PROVE StoredInv'
  BY <1>4 DEF SaveFails, StoredInv, StoredTurns
<1>5. ASSUME NEW t \in Turn, Finish(t) \/ Disconnect(t) PROVE StoredInv'
  <2>1. /\ turns' = turns /\ writes' = writes /\ pc'[t] = "ended"
        /\ \A u \in Turn : u # t => pc'[u] = pc[u]
    BY <1>0, <1>5 DEF Finish, Disconnect
  <2>2. QED
    BY <1>0, <1>1, <2>1 DEF StoredInv, StoredTurns
<1>6. CASE Restart
  <2>1. /\ turns' = turns /\ writes' = {}
        /\ \A u \in Turn : pc'[u] = IF pc[u] = "new" THEN "new" ELSE "ended"
    BY <1>6 DEF Restart
  <2>2. QED
    BY <1>1, <2>1 DEF StoredInv, StoredTurns
<1>7. CASE UNCHANGED vars
  BY <1>7 DEF vars, StoredInv, StoredTurns
<1>8. QED
  BY <1>0, <1>2, <1>3, <1>4, <1>5, <1>6, <1>7, CommitStored DEF Next, Proceed

(* The store has whole turns of a session, each once, and no more of them  *)
(* than it is to keep, whatever overlaps, fails or restarts.               *)
THEOREM StoredWhole == Spec => []StoredTurns
<1>1. Init => StoredInv
  <2> SUFFICES ASSUME Init PROVE StoredInv
    OBVIOUS
  <2>1. turns = [s \in Session |-> << >>] /\ writes = {}
    BY DEF Init
  <2>2. ToSet(<< >>) = {} /\ IsInjective(<< >>) /\ Len(<< >>) = 0
    BY DEF ToSet, IsInjective
  <2>3. QED
    BY <2>1, <2>2, SessionsAssumption DEF StoredInv, StoredTurns
<1>2. IInv /\ StoredInv /\ [Next]_vars => StoredInv'
  BY StoredStep
<1>3. StoredInv => StoredTurns
  BY DEF StoredInv
<1>4. QED
  BY InductiveInvariant, <1>1, <1>2, <1>3, PTL DEF Spec

(* The turns of a session are serial unless it lapsed.                     *)
THEOREM SerialSessionTurns == Spec => SerialUnlessLapsed
  BY SerialWork, StoredWhole, StoredInContext, PTL DEF SerialUnlessLapsed

-----------------------------------------------------------------------------
(* The sessions as SerialSessions sees them, while none has lapsed.        *)

(* The turn under way in a session is the one at work on it, and its view  *)
(* is what is stored.                                                      *)
ActiveFacts ==
    \A s \in Session :
      /\ Active(s) = {} => ActiveTurn[s] = NoTurn /\ ActiveView[s] = << >>
      /\ \A t \in Active(s) : ActiveTurn[s] = t /\ ActiveView[s] = turns[s]

LEMMA ActiveMapped == IInv /\ lapsed = {} => ActiveFacts
<1> SUFFICES ASSUME IInv, lapsed = {}, NEW s \in Session
             PROVE  /\ Active(s) = {} =>
                         ActiveTurn[s] = NoTurn /\ ActiveView[s] = << >>
                    /\ \A t \in Active(s) :
                         ActiveTurn[s] = t /\ ActiveView[s] = turns[s]
  BY DEF ActiveFacts
<1>1. Active(s) = {} => ActiveTurn[s] = NoTurn /\ ActiveView[s] = << >>
  BY DEF ActiveTurn, ActiveView
<1>2. ASSUME NEW t \in Active(s)
      PROVE  ActiveTurn[s] = t /\ ActiveView[s] = turns[s]
  <2>1. t \in Turn /\ SessionOf[t] = s /\ Working(t)
    BY DEF Active
  <2>2. \A u \in Active(s) : u = t
    BY <2>1, OneWorker DEF Active, IInv
  <2>3. (CHOOSE u \in Active(s) : TRUE) = t
    BY <2>2
  <2>4. context[t] = turns[s]
    BY <2>1 DEF IInv, WorkingHolds
  <2>5. QED
    BY <2>3, <2>4 DEF ActiveTurn, ActiveView
<1>3. QED
  BY <1>1, <1>2

(* A step that changes neither what is stored nor who is at work is no     *)
(* step of the serial sessions.                                            *)
LEMMA SerialStutter ==
    ASSUME ActiveFacts, ActiveFacts', UNCHANGED turns,
           \A u \in Turn : Working(u)' <=> Working(u)
    PROVE  UNCHANGED <<turns, ActiveTurn, ActiveView>>
<1>1. ASSUME NEW s \in Session
      PROVE  ActiveTurn'[s] = ActiveTurn[s] /\ ActiveView'[s] = ActiveView[s]
  <2>1. Active(s)' = Active(s)
    BY DEF Active
  <2>2. CASE Active(s) = {}
    BY <2>1, <2>2 DEF ActiveFacts
  <2>3. CASE Active(s) # {}
    <3>1. PICK t : t \in Active(s)
      BY <2>3
    <3>2. QED
      BY <2>1, <3>1 DEF ActiveFacts
  <2>4. QED
    BY <2>2, <2>3
<1>2. ActiveTurn' = ActiveTurn
  BY <1>1 DEF ActiveTurn
<1>3. ActiveView' = ActiveView
  BY <1>1 DEF ActiveView
<1>4. QED
  BY <1>2, <1>3

(* What the step of one turn that starts or stops working does to the      *)
(* sessions: nothing to the others.                                        *)
LEMMA OthersKept ==
    ASSUME ActiveFacts, ActiveFacts', NEW t \in Turn,
           \A x \in Session : x # SessionOf[t] => turns'[x] = turns[x],
           \A u \in Turn : u # t => (Working(u)' <=> Working(u)),
           NEW x \in Session, x # SessionOf[t]
    PROVE  ActiveTurn'[x] = ActiveTurn[x] /\ ActiveView'[x] = ActiveView[x]
<1>1. Active(x)' = Active(x)
  BY DEF Active
<1>2. CASE Active(x) = {}
  BY <1>1, <1>2 DEF ActiveFacts
<1>3. CASE Active(x) # {}
  <2>1. PICK u : u \in Active(x)
    BY <1>3
  <2>2. QED
    BY <1>1, <2>1 DEF ActiveFacts
<1>4. QED
  BY <1>2, <1>3

(* The turn at work stops: its session has none.                           *)
LEMMA SerialLeaves ==
    ASSUME ActiveFacts, ActiveFacts', NEW t \in Turn,
           Working(t), ~Working(t)',
           \A x \in Session : x # SessionOf[t] => turns'[x] = turns[x],
           \A u \in Turn : u # t => (Working(u)' <=> Working(u))
    PROVE  /\ ActiveTurn[SessionOf[t]] = t
           /\ ActiveView[SessionOf[t]] = turns[SessionOf[t]]
           /\ ActiveTurn' = [ActiveTurn EXCEPT ![SessionOf[t]] = NoTurn]
           /\ ActiveView' = [ActiveView EXCEPT ![SessionOf[t]] = << >>]
<1> DEFINE s == SessionOf[t]
<1>1. s \in Session
  BY SessionsAssumption
<1>2. t \in Active(s) /\ ActiveTurn[s] = t /\ ActiveView[s] = turns[s]
  BY <1>1 DEF Active, ActiveFacts
<1>3. Active(s) = {t}
  BY <1>1, <1>2 DEF ActiveFacts
<1>4. Active(s)' = {}
  BY <1>3 DEF Active
<1>5. ActiveTurn'[s] = NoTurn /\ ActiveView'[s] = << >>
  BY <1>1, <1>4 DEF ActiveFacts
<1>6. \A x \in Session : x # s =>
        ActiveTurn'[x] = ActiveTurn[x] /\ ActiveView'[x] = ActiveView[x]
  BY OthersKept
<1> HIDE DEF s
<1>7. ActiveTurn' = [ActiveTurn EXCEPT ![s] = NoTurn]
  BY <1>1, <1>5, <1>6 DEF ActiveTurn
<1>8. ActiveView' = [ActiveView EXCEPT ![s] = << >>]
  BY <1>1, <1>5, <1>6 DEF ActiveView
<1>9. QED
  BY <1>2, <1>7, <1>8 DEF s

(* A turn starts to work on a session nobody works on.                     *)
LEMMA SerialJoins ==
    ASSUME ActiveFacts, ActiveFacts', NEW t \in Turn,
           ~Working(t), Working(t)', UNCHANGED turns,
           \A u \in Turn : u # t => (Working(u)' <=> Working(u))
    PROVE  /\ ActiveTurn[SessionOf[t]] = NoTurn
           /\ ActiveTurn' = [ActiveTurn EXCEPT ![SessionOf[t]] = t]
           /\ ActiveView' = [ActiveView EXCEPT ![SessionOf[t]] = turns[SessionOf[t]]]
<1> DEFINE s == SessionOf[t]
<1>1. s \in Session
  BY SessionsAssumption
<1>2. t \in Active(s)'
  BY DEF Active
<1>3. ActiveTurn'[s] = t /\ ActiveView'[s] = turns[s]
  BY <1>1, <1>2 DEF ActiveFacts
<1>4. ASSUME NEW u \in Active(s) PROVE FALSE
  <2>1. u \in Turn /\ SessionOf[u] = s /\ Working(u) /\ u # t
    BY DEF Active
  <2>2. u \in Active(s)'
    BY <2>1 DEF Active
  <2>3. QED
    BY <1>1, <1>3, <2>1, <2>2 DEF ActiveFacts
<1>5. ActiveTurn[s] = NoTurn
  BY <1>1, <1>4 DEF ActiveFacts
<1>6. \A x \in Session : x # s =>
        ActiveTurn'[x] = ActiveTurn[x] /\ ActiveView'[x] = ActiveView[x]
  BY OthersKept
<1> HIDE DEF s
<1>7. ActiveTurn' = [ActiveTurn EXCEPT ![s] = t]
  BY <1>1, <1>3, <1>6 DEF ActiveTurn
<1>8. ActiveView' = [ActiveView EXCEPT ![s] = turns[s]]
  <2>1. /\ ActiveView = [x \in Session |-> ActiveView[x]]
        /\ ActiveView' = [x \in Session |-> ActiveView'[x]]
    BY DEF ActiveView
  <2>2. QED
    BY <1>1, <1>3, <1>6, <2>1
<1>9. QED
  BY <1>5, <1>7, <1>8 DEF s

-----------------------------------------------------------------------------
(* Each step of the turns is a step of the serial sessions, or none.       *)

(* What an action changes is who works and what is stored.                 *)
LEMMA SerialStep ==
    ASSUME IInv, lapsed = {}, IInv', lapsed' = {}, ActiveFacts, ActiveFacts',
           [Next]_vars
    PROVE  [Serial!Next]_(Serial!svars)
<1>0. /\ pc \in [Turn -> Places] /\ turns \in [Session -> Seq(Turn)]
      /\ writes \subseteq Turn
      /\ \A t \in Turn : t \in writes => pc[t] = "saving"
  BY DEF IInv, TypeOK, WorkingHolds
<1>1. ASSUME NEW t \in Turn, Arrive(t) \/ SubmitSave(t)
      PROVE  UNCHANGED Serial!svars
  <2>1. \A u \in Turn : Working(u)' <=> Working(u)
    BY <1>0, <1>1 DEF Arrive, SubmitSave, Working
  <2>2. UNCHANGED turns
    BY <1>1 DEF Arrive, SubmitSave
  <2>3. QED
    BY <2>1, <2>2, SerialStutter DEF Serial!svars
<1>2. ASSUME NEW t \in Turn, ReadHistory(t)
      PROVE  Serial!Begin(t)
  <2>1. /\ ~Working(t) /\ Working(t)' /\ UNCHANGED turns
        /\ \A u \in Turn : u # t => (Working(u)' <=> Working(u))
    BY <1>0, <1>2 DEF ReadHistory, Working
  <2>2. /\ ActiveTurn[SessionOf[t]] = NoTurn
        /\ ActiveTurn' = [ActiveTurn EXCEPT ![SessionOf[t]] = t]
        /\ ActiveView' = [ActiveView EXCEPT ![SessionOf[t]] = turns[SessionOf[t]]]
    BY <2>1, SerialJoins
  <2>3. QED
    BY <2>1, <2>2 DEF Serial!Begin
<1>3. ASSUME NEW t \in Turn, CommitSave(t)
      PROVE  Serial!Commit(t)
  <2>1. /\ turns' = [turns EXCEPT ![SessionOf[t]] =
                         LastOf(Append(@, t), HistoryTurns)]
        /\ t \in writes /\ writes' = writes \ {t} /\ UNCHANGED pc
    BY <1>3 DEF CommitSave, Trimmed
  <2>2. /\ Working(t) /\ ~Working(t)'
        /\ \A u \in Turn : u # t => (Working(u)' <=> Working(u))
    BY <1>0, <2>1 DEF Working
  <2>3. \A x \in Session : x # SessionOf[t] => turns'[x] = turns[x]
    BY <1>0, <2>1
  <2>4. /\ ActiveTurn[SessionOf[t]] = t
        /\ ActiveView[SessionOf[t]] = turns[SessionOf[t]]
        /\ ActiveTurn' = [ActiveTurn EXCEPT ![SessionOf[t]] = NoTurn]
        /\ ActiveView' = [ActiveView EXCEPT ![SessionOf[t]] = << >>]
    BY <2>2, <2>3, SerialLeaves
  <2>5. QED
    BY <2>1, <2>4 DEF Serial!Commit, LastOf, Serial!LastOf
<1>4. ASSUME NEW t \in Turn, Working(t), ~Working(t)', UNCHANGED turns,
             \A u \in Turn : u # t => (Working(u)' <=> Working(u))
      PROVE  Serial!Abort({SessionOf[t]})
  <2>1. SessionOf[t] \in Session /\ t # NoTurn
    BY SessionsAssumption
  <2>2. /\ ActiveTurn[SessionOf[t]] = t
        /\ ActiveTurn' = [ActiveTurn EXCEPT ![SessionOf[t]] = NoTurn]
        /\ ActiveView' = [ActiveView EXCEPT ![SessionOf[t]] = << >>]
    BY <1>4, SerialLeaves
  <2>3. /\ ActiveTurn = [x \in Session |-> ActiveTurn[x]]
        /\ ActiveView = [x \in Session |-> ActiveView[x]]
    BY DEF ActiveTurn, ActiveView
  <2> DEFINE s == SessionOf[t]
  <2> HIDE DEF s
  <2>4. /\ ActiveTurn' = [x \in Session |-> IF x \in {s} THEN NoTurn ELSE ActiveTurn[x]]
        /\ ActiveView' = [x \in Session |-> IF x \in {s} THEN << >> ELSE ActiveView[x]]
    BY <2>2, <2>3 DEF s
  <2>5. \E x \in {s} : ActiveTurn[x] # NoTurn
    BY <2>1, <2>2 DEF s
  <2>6. Serial!Abort({s})
    BY <1>4, <2>4, <2>5 DEF Serial!Abort
  <2>7. QED
    BY <2>6 DEF s
<1>5. ASSUME NEW t \in Turn, SaveFails(t)
      PROVE  Serial!Abort({SessionOf[t]})
  <2>1. /\ Working(t) /\ ~Working(t)' /\ UNCHANGED turns
        /\ \A u \in Turn : u # t => (Working(u)' <=> Working(u))
    BY <1>0, <1>5 DEF SaveFails, Working
  <2>2. QED
    BY <1>4, <2>1
<1>6. ASSUME NEW t \in Turn, Finish(t) \/ Disconnect(t)
      PROVE  Serial!Abort({SessionOf[t]}) \/ UNCHANGED Serial!svars
  <2>1. /\ pc' = [pc EXCEPT ![t] = "ended"] /\ UNCHANGED <<writes, turns>>
        /\ pc[t] \in {"locking", "running", "saving"} /\ t \notin writes
    BY <1>0, <1>6 DEF Finish, Disconnect
  <2>2. ~Working(t)' /\ \A u \in Turn : u # t => (Working(u)' <=> Working(u))
    BY <1>0, <2>1 DEF Working
  <2>3. CASE Working(t)
    BY <1>4, <2>1, <2>2, <2>3
  <2>4. CASE ~Working(t)
    BY <2>1, <2>2, <2>4, SerialStutter DEF Serial!svars
  <2>5. QED
    BY <2>3, <2>4
<1>7. ASSUME Restart
      PROVE  Serial!Abort(Session) \/ UNCHANGED Serial!svars
  <2>1. UNCHANGED turns /\ \A u \in Turn : ~Working(u)'
    BY <1>7 DEF Restart, Working
  <2>2. CASE \E t \in Turn : Working(t)
    <3>1. PICK t \in Turn : Working(t)
      BY <2>2
    <3>2. /\ SessionOf[t] \in Session /\ t # NoTurn
          /\ ActiveTurn[SessionOf[t]] = t
      BY <3>1, SessionsAssumption DEF Active, ActiveFacts
    <3>3. \A x \in Session : ActiveTurn'[x] = NoTurn /\ ActiveView'[x] = << >>
      BY <2>1 DEF Active, ActiveFacts
    <3>4. /\ ActiveTurn' = [x \in Session |-> ActiveTurn'[x]]
          /\ ActiveView' = [x \in Session |-> ActiveView'[x]]
      BY DEF ActiveTurn, ActiveView
    <3>5. /\ ActiveTurn' = [x \in Session |->
                              IF x \in Session THEN NoTurn ELSE ActiveTurn[x]]
          /\ ActiveView' = [x \in Session |->
                              IF x \in Session THEN << >> ELSE ActiveView[x]]
      BY <3>3, <3>4
    <3>6. QED
      BY <2>1, <3>2, <3>5 DEF Serial!Abort
  <2>3. CASE ~\E t \in Turn : Working(t)
    BY <2>1, <2>3, SerialStutter DEF Serial!svars
  <2>4. QED
    BY <2>2, <2>3
<1>8. CASE UNCHANGED vars
  BY <1>8 DEF vars, Serial!svars, ActiveTurn, ActiveView, Active, Working
<1>9. ASSUME NEW t \in Turn, Arrive(t) \/ Proceed(t) \/ Disconnect(t)
      PROVE  Serial!Next \/ UNCHANGED Serial!svars
  <2>1. SessionOf[t] \in Session
    BY SessionsAssumption
  <2>2. QED
    BY <1>1, <1>2, <1>3, <1>5, <1>6, <1>9, <2>1 DEF Proceed, Serial!Next
<1>10. QED
  BY <1>7, <1>8, <1>9 DEF Next, Serial!Next

(* At the start nobody works.                                              *)
LEMMA SerialInit == Init => Serial!Init
BY DEF Init, Serial!Init, ActiveTurn, ActiveView, Active, Working

(* While no session lapses, whatever fails, leaves or restarts, the turns  *)
(* of each session run one at a time, each on the history its predecessor  *)
(* left.                                                                   *)
THEOREM SerialWhileUnlapsed == Spec => ([](lapsed = {}) => ImplementsSerial)
<1>1. IInv /\ lapsed = {} => ActiveFacts
  BY ActiveMapped
<1>2. /\ IInv /\ lapsed = {} /\ ActiveFacts
      /\ IInv' /\ (lapsed = {})' /\ ActiveFacts'
      /\ [Next]_vars
      => [Serial!Next]_(Serial!svars)
  BY SerialStep
<1>3. QED
  BY InductiveInvariant, SerialInit, <1>1, <1>2, PTL
     DEF Spec, Serial!Spec, ImplementsSerial

(* A cache with a lock for every session evicts none.                      *)
LEMMA NothingEvicted ==
    ASSUME IsFiniteSet(Session), Cardinality(Session) <= MaxSessionLocks,
           TypeOK, CacheConsistent, NEW t \in Turn, Arrive(t)
    PROVE  UNCHANGED lapsed
<1> DEFINE s == SessionOf[t]
           grown == Append(order, s)
<1>1. /\ s \in Session /\ MaxSessionLocks \in Nat
      /\ order \in Seq(Session) /\ IsInjective(order)
      /\ ToSet(order) = {x \in Session : locks[x] # NoTurn}
      /\ Cardinality(Session) \in Nat
  BY SessionsAssumption, FS_CardinalityType DEF TypeOK, CacheConsistent
<1>2. IF locks[s] # NoTurn THEN ReuseLock(s) ELSE CreateLock(s, t)
  BY DEF Arrive
<1>3. CASE locks[s] # NoTurn
  BY <1>2, <1>3 DEF ReuseLock
<1>4. CASE locks[s] = NoTurn
  <2>1. s \notin ToSet(order)
    BY <1>1, <1>4
  <2>2. grown \in Seq(Session) /\ IsInjective(grown)
    BY <1>1, <2>1, AppendFacts
  <2> HIDE DEF grown, s
  <2>3. ~(Len(grown) > MaxSessionLocks)
    <3> SUFFICES ASSUME Len(grown) > MaxSessionLocks PROVE FALSE
      OBVIOUS
    <3>1. grown \in [1..Len(grown) -> Session] /\ Len(grown) \in Nat
      BY <2>2
    <3>2. /\ IsFiniteSet(1..Len(grown))
          /\ Cardinality(1..Len(grown)) = Len(grown)
      <4>1. Len(grown) \in Int /\ 1 \in Int /\ ~(1 > Len(grown))
        BY <1>1, <3>1
      <4>2. QED
        BY <4>1, FS_Interval
    <3>3. Cardinality(Session) < Cardinality(1..Len(grown))
      BY <1>1, <3>1, <3>2
    <3>4. \E x, y \in 1..Len(grown) : x # y /\ grown[x] = grown[y]
      BY <3>1, <3>2, <3>3, FS_PigeonHole
    <3>5. QED
      BY <2>2, <3>1, <3>4 DEF IsInjective
  <2>4. QED
    BY <1>2, <1>4, <2>3 DEF CreateLock, grown
<1>5. QED
  BY <1>3, <1>4

(* With a lock for every session, and clients that stay while their turn   *)
(* is being stored, the turns of each session are serial.                  *)
THEOREM SessionsImplementSerial ==
    ASSUME ~MayLeaveSaving, IsFiniteSet(Session),
           Cardinality(Session) <= MaxSessionLocks
    PROVE  Spec => ImplementsSerial
<1>1. Init => lapsed = {}
  BY DEF Init
<1>2. IInv /\ lapsed = {} /\ [Next]_vars => (lapsed = {})'
  <2> SUFFICES ASSUME IInv, lapsed = {}, [Next]_vars PROVE lapsed' = {}
    OBVIOUS
  <2>1. ASSUME NEW t \in Turn, Arrive(t) PROVE lapsed' = {}
    BY <2>1, NothingEvicted DEF IInv
  <2>2. ASSUME NEW t \in Turn, Disconnect(t) PROVE lapsed' = {}
    BY <2>2 DEF Disconnect, IInv, WorkingHolds
  <2>3. ASSUME NEW t \in Turn, Proceed(t) PROVE lapsed' = {}
    BY <2>3 DEF Proceed, ReadHistory, SubmitSave, CommitSave, SaveFails, Finish
  <2>4. CASE Restart
    BY <2>4 DEF Restart
  <2>5. QED
    BY <2>1, <2>2, <2>3, <2>4 DEF Next, vars
<1>3. QED
  BY InductiveInvariant, SerialWhileUnlapsed, <1>1, <1>2, PTL DEF Spec
=============================================================================
