-------------------------- MODULE ConcurrencyProofs --------------------------
(***************************************************************************)
(* Proofs about the two concurrency utilities: BoundedExecutor, for every  *)
(* number of calls and both limits, and SingleFlight, for every number of  *)
(* requests.  The two share nothing but this module.                       *)
(*                                                                         *)
(* The argument for the executor.  The counter is the number of works that *)
(* hold a slot, and the queue lists every work that waits, once.  drain()  *)
(* is the only code that takes a slot, and it stops only when the slots or *)
(* the queue end; so after each block either no slot is free or nobody     *)
(* waits, and a call that finds a slot never adds to the queue.            *)
(*                                                                         *)
(* The argument for the single flight.  The waiters are the generations    *)
(* above the completed one, and a pass covers exactly the requests made    *)
(* when it started.                                                        *)
(***************************************************************************)
EXTENDS BoundedExecutor, SingleFlight, FiniteSetTheorems, FunctionTheorems, TLAPS

Stages == {"new", "queued", "running", "settled", "gone"}

(* The works that hold a slot: they run, or have settled and wait for the  *)
(* microtask that frees it.                                                *)
Occupied(st) == {w \in Work : st[w] \in {"running", "settled"}}

(* The queue holds the works that wait, each of them once.                 *)
Orderly(q, st) ==
  /\ \A i, j \in 1..Len(q) : q[i] = q[j] => i = j
  /\ \A i \in 1..Len(q) : st[q[i]] = "queued"
  /\ \A w \in Work : st[w] = "queued" => \E i \in 1..Len(q) : q[i] = w

(* A work in the queue has an unsettled caller: the test of consumerSettled*)
(* in drain() never skips a work.                                          *)
QueuedAreAwaited == \A w \in Work : stage[w] = "queued" => consumer[w] = "waiting"

(* The inductive invariant.                                                *)
IInv ==
  /\ TypeOK
  /\ active = Cardinality(Occupied(stage))
  /\ Orderly(queue, stage)
  /\ QueuedAreAwaited
  /\ Len(queue) <= MaxQueued
  /\ NoSlotIdles

-----------------------------------------------------------------------------
(* drain().                                                                *)

(* drain() starts works until the slots or the queue end.                  *)
LEMMA Drained ==
  ASSUME NEW a \in 0..MaxConcurrent, NEW q \in Seq(Work), NEW st, Drain(a, q, st)
  PROVE  \E n \in 0..Len(q) :
           /\ a + n <= MaxConcurrent
           /\ n < Len(q) => a + n = MaxConcurrent
           /\ active' = a + n
           /\ queue' = SubSeq(q, n + 1, Len(q))
           /\ stage' = [w \in Work |-> IF w \in {q[i] : i \in 1..n}
                                       THEN "running" ELSE st[w]]
<1>. DEFINE fits(n) == \A i \in 1..n : HasSlot(a + i - 1)
            Stop(k) == fits(k) /\ (k < Len(q) => ~fits(k + 1))
            n == CHOOSE k \in 0..Len(q) : Stop(k)
<1>. USE LimitAssumption
<1>1. Len(q) \in Nat
  OBVIOUS
<1>2. \A k \in Nat : fits(k) <=> a + k <= MaxConcurrent
  <2>. SUFFICES ASSUME NEW k \in Nat PROVE fits(k) <=> a + k <= MaxConcurrent
    OBVIOUS
  <2>1. ASSUME fits(k) PROVE a + k <= MaxConcurrent
    <3>1. CASE k = 0
      BY <3>1
    <3>2. CASE k # 0
      <4>1. k \in 1..k
        BY <3>2
      <4>2. HasSlot(a + k - 1)
        BY <2>1, <4>1
      <4>. QED BY <4>2 DEF HasSlot
    <3>. QED BY <3>1, <3>2
  <2>2. ASSUME a + k <= MaxConcurrent PROVE fits(k)
    BY <2>2 DEF HasSlot
  <2>. QED BY <2>1, <2>2
<1>. HIDE DEF fits
<1>3. \E k \in 0..Len(q) : Stop(k)
  <2>1. CASE a + Len(q) <= MaxConcurrent
    <3>. WITNESS Len(q) \in 0..Len(q)
    <3>. QED BY <1>1, <1>2, <2>1
  <2>2. CASE ~(a + Len(q) <= MaxConcurrent)
    <3>1. MaxConcurrent - a \in 0..Len(q)
      BY <1>1, <2>2
    <3>. WITNESS MaxConcurrent - a \in 0..Len(q)
    <3>. QED BY <1>1, <1>2, <2>2
  <2>. QED BY <2>1, <2>2
<1>4. n \in 0..Len(q) /\ Stop(n)
  <2>. HIDE DEF Stop
  <2>. QED BY <1>3
<1>5. a + n <= MaxConcurrent /\ (n < Len(q) => a + n = MaxConcurrent)
  <2>. HIDE DEF n
  <2>. QED BY <1>1, <1>2, <1>4
<1>6. /\ active' = a + n
      /\ queue' = SubSeq(q, n + 1, Len(q))
      /\ stage' = [w \in Work |-> IF w \in {q[i] : i \in 1..n}
                                  THEN "running" ELSE st[w]]
  BY DEF Drain, fits
<1>. HIDE DEF n
<1>. QED BY <1>4, <1>5, <1>6

(* The works at the first n places of a queue that lists each work once    *)
(* are n works.                                                            *)
LEMMA PrefixCount ==
  ASSUME NEW q \in Seq(Work), NEW n \in 0..Len(q),
         \A i, j \in 1..Len(q) : q[i] = q[j] => i = j
  PROVE  /\ IsFiniteSet({q[i] : i \in 1..n})
         /\ Cardinality({q[i] : i \in 1..n}) = n
<1>. DEFINE T == {q[i] : i \in 1..n}
            f == [i \in 1..n |-> q[i]]
<1>1. Len(q) \in Nat /\ n \in Nat
  OBVIOUS
<1>2. f \in Bijection(1..n, T)
  <2>1. f \in [1..n -> T]
    OBVIOUS
  <2>2. \A i, j \in 1..n : f[i] = f[j] => i = j
    BY <1>1
  <2>3. \A t \in T : \E i \in 1..n : f[i] = t
    OBVIOUS
  <2>. HIDE DEF f, T
  <2>. QED BY <2>1, <2>2, <2>3, Fun_IsBij
<1>3. ExistsBijection(1..n, T)
  BY <1>2 DEF ExistsBijection
<1>4. IsFiniteSet(1..n) /\ Cardinality(1..n) = n
  BY <1>1, FS_Interval
<1>. HIDE DEF T, f
<1>5. IsFiniteSet(T) /\ Cardinality(T) = n
  BY <1>3, <1>4, FS_Bijection
<1>. QED BY <1>5 DEF T

(* There are finitely many works, hence finitely many that hold a slot.    *)
LEMMA OccupiedFinite ==
  ASSUME NEW st
  PROVE  IsFiniteSet(Occupied(st))
BY WorkAssumption, FS_Subset DEF Occupied

(* drain() keeps the counter and the queue true and leaves no slot beside  *)
(* a work that waits.                                                      *)
LEMMA DrainKeeps ==
  ASSUME NEW a \in 0..MaxConcurrent, NEW q \in Seq(Work), NEW st \in [Work -> Stages],
         a = Cardinality(Occupied(st)), Orderly(q, st), Drain(a, q, st)
  PROVE  /\ active' \in 0..MaxConcurrent
         /\ queue' \in Seq(Work)
         /\ stage' \in [Work -> Stages]
         /\ active' = Cardinality(Occupied(stage'))
         /\ Orderly(queue', stage')
         /\ queue' # <<>> => active' = MaxConcurrent
         /\ Len(queue') <= Len(q)
         /\ q # <<>> /\ a < MaxConcurrent => Len(queue') < Len(q)
         /\ \A w \in Work : stage'[w] = "queued" => st[w] = "queued"
<1>. USE LimitAssumption
<1>1. PICK n \in 0..Len(q) :
        /\ a + n <= MaxConcurrent
        /\ n < Len(q) => a + n = MaxConcurrent
        /\ active' = a + n
        /\ queue' = SubSeq(q, n + 1, Len(q))
        /\ stage' = [w \in Work |-> IF w \in {q[i] : i \in 1..n}
                                    THEN "running" ELSE st[w]]
  BY Drained
<1>. DEFINE T == {q[i] : i \in 1..n}
<1>2. Len(q) \in Nat /\ n \in Nat
  OBVIOUS
<1>3. /\ queue' \in Seq(Work)
      /\ Len(queue') = Len(q) - n
      /\ \A i \in 1..Len(queue') : queue'[i] = q[n + i]
  BY <1>1, <1>2
<1>4. T \subseteq Work /\ (\A w \in T : st[w] = "queued")
  BY <1>2 DEF Orderly
<1>5. \A w \in Work : stage'[w] = IF w \in T THEN "running" ELSE st[w]
  BY <1>1
<1>6. stage' \in [Work -> Stages]
  BY <1>1, <1>5 DEF Stages
<1>7. active' = Cardinality(Occupied(stage'))
  <2>1. IsFiniteSet(T) /\ Cardinality(T) = n
    BY PrefixCount DEF Orderly
  <2>. HIDE DEF T
  <2>2. Occupied(stage') = Occupied(st) \cup T
    BY <1>4, <1>5 DEF Occupied
  <2>3. Occupied(st) \cap T = {}
    BY <1>4 DEF Occupied
  <2>4. IsFiniteSet(Occupied(st))
    BY OccupiedFinite
  <2>5. Cardinality(Occupied(st) \cap T) = 0
    BY <2>3, FS_EmptySet
  <2>6. Cardinality(Occupied(stage')) = Cardinality(Occupied(st)) + Cardinality(T)
                                          - Cardinality(Occupied(st) \cap T)
    BY <2>1, <2>2, <2>4, FS_Union
  <2>. QED BY <1>1, <1>2, <2>1, <2>5, <2>6
<1>8. Orderly(queue', stage')
  <2>1. ASSUME NEW i \in 1..Len(queue'), NEW j \in 1..Len(queue'), queue'[i] = queue'[j]
        PROVE  i = j
    <3>1. n + i \in 1..Len(q) /\ n + j \in 1..Len(q)
      BY <1>2, <1>3
    <3>2. q[n + i] = q[n + j]
      BY <1>3, <2>1
    <3>3. n + i = n + j
      BY <3>1, <3>2 DEF Orderly
    <3>. QED BY <1>2, <1>3, <3>3
  <2>2. ASSUME NEW i \in 1..Len(queue') PROVE stage'[queue'[i]] = "queued"
    <3>1. n + i \in 1..Len(q) /\ n + i \notin 1..n /\ queue'[i] = q[n + i]
      BY <1>2, <1>3
    <3>2. st[q[n + i]] = "queued" /\ q[n + i] \in Work
      BY <3>1 DEF Orderly
    <3>3. q[n + i] \notin T
      <4>. SUFFICES ASSUME NEW m \in 1..n, q[n + i] = q[m] PROVE FALSE
        OBVIOUS
      <4>1. m \in 1..Len(q)
        BY <1>2
      <4>2. n + i = m
        BY <3>1, <4>1 DEF Orderly
      <4>. QED BY <3>1, <4>2
    <3>. QED BY <1>5, <3>1, <3>2, <3>3
  <2>3. ASSUME NEW w \in Work, stage'[w] = "queued"
        PROVE  \E i \in 1..Len(queue') : queue'[i] = w
    <3>1. w \notin T /\ st[w] = "queued"
      <4>. HIDE DEF T
      <4>. QED BY <1>5, <2>3
    <3>2. PICK m \in 1..Len(q) : q[m] = w
      BY <3>1 DEF Orderly
    <3>3. m \notin 1..n
      BY <3>1, <3>2
    <3>4. m - n \in 1..Len(queue') /\ n + (m - n) = m
      BY <1>2, <1>3, <3>3
    <3>. QED BY <1>3, <3>2, <3>4
  <2>. QED BY <2>1, <2>2, <2>3 DEF Orderly
<1>9. queue' # <<>> => active' = MaxConcurrent
  BY <1>1, <1>2, <1>3
<1>10. /\ Len(queue') <= Len(q)
       /\ q # <<>> /\ a < MaxConcurrent => Len(queue') < Len(q)
  BY <1>1, <1>2, <1>3
<1>11. \A w \in Work : stage'[w] = "queued" => st[w] = "queued"
  <2>. HIDE DEF T
  <2>. QED BY <1>5
<1>12. active' \in 0..MaxConcurrent
  BY <1>1, <1>2
<1>. QED BY <1>3, <1>6, <1>7, <1>8, <1>9, <1>10, <1>11, <1>12

-----------------------------------------------------------------------------
(* One lemma per action.                                                   *)

(* The initial state.                                                      *)
LEMMA InitKeeps == Init => IInv
<1>. SUFFICES ASSUME Init PROVE IInv
  OBVIOUS
<1>1. Occupied(stage) = {}
  BY DEF Init, Occupied
<1>2. active = Cardinality(Occupied(stage))
  BY <1>1, FS_EmptySet DEF Init
<1>3. TypeOK
  BY LimitAssumption DEF Init, TypeOK
<1>4. Orderly(queue, stage)
  BY DEF Init, Orderly
<1>5. QueuedAreAwaited /\ Len(queue) <= MaxQueued /\ NoSlotIdles
  BY LimitAssumption DEF Init, QueuedAreAwaited, NoSlotIdles
<1>. QED BY <1>2, <1>3, <1>4, <1>5 DEF IInv

(* A call is refused, or joins the queue and drain() runs: it stays in the *)
(* queue only when every slot is taken and the queue was not full.         *)
LEMMA CallKeeps ==
  ASSUME IInv, NEW w \in Work, Call(w)
  PROVE  IInv'
<1>. USE LimitAssumption
<1>0. /\ active \in 0..MaxConcurrent /\ queue \in Seq(Work) /\ Len(queue) \in Nat
      /\ stage \in [Work -> Stages]
      /\ consumer \in [Work -> {"none", "waiting", "result", "timeout", "refused"}]
  BY DEF IInv, TypeOK, Stages
<1>1. stage[w] = "new"
  BY DEF Call
<1>2. CASE Refused
  <2>1. /\ stage' = [stage EXCEPT ![w] = "gone"]
        /\ consumer' = [consumer EXCEPT ![w] = "refused"]
        /\ UNCHANGED <<active, queue>>
    BY <1>2 DEF Call
  <2>2. Occupied(stage') = Occupied(stage)
    BY <1>0, <1>1, <2>1 DEF Occupied
  <2>3. Orderly(queue', stage')
    BY <1>0, <1>1, <2>1 DEF IInv, Orderly
  <2>4. TypeOK'
    BY <1>0, <2>1 DEF TypeOK, Stages
  <2>5. QueuedAreAwaited'
    BY <1>0, <1>1, <2>1 DEF IInv, QueuedAreAwaited
  <2>. QED BY <2>1, <2>2, <2>3, <2>4, <2>5 DEF IInv, NoSlotIdles
<1>3. CASE ~Refused
  <2>. DEFINE q == Append(queue, w)
              st == [stage EXCEPT ![w] = "queued"]
  <2>1. consumer' = [consumer EXCEPT ![w] = "waiting"] /\ Drain(active, q, st)
    BY <1>3 DEF Call
  <2>2. /\ q \in Seq(Work) /\ Len(q) = Len(queue) + 1 /\ q[Len(q)] = w
        /\ \A i \in 1..Len(queue) : q[i] = queue[i]
    BY <1>0
  <2>3. st \in [Work -> Stages]
    BY <1>0 DEF Stages
  <2>4. active = Cardinality(Occupied(st))
    <3>1. Occupied(st) = Occupied(stage)
      BY <1>0, <1>1 DEF Occupied
    <3>. QED BY <3>1 DEF IInv
  <2>5. \A v \in Work : st[v] = IF v = w THEN "queued" ELSE stage[v]
    BY <1>0
  <2>6. \A i \in 1..Len(queue) : queue[i] \in Work /\ queue[i] # w /\ stage[queue[i]] = "queued"
    BY <1>0, <1>1 DEF IInv, Orderly
  <2>. HIDE DEF q, st
  <2>7. Orderly(q, st)
    <3>1. \A i \in 1..Len(q) : i \in 1..Len(queue) \/ i = Len(q)
      BY <1>0, <2>2
    <3>2. ASSUME NEW i \in 1..Len(q), NEW j \in 1..Len(q), q[i] = q[j] PROVE i = j
      BY <2>2, <2>6, <3>1, <3>2 DEF IInv, Orderly
    <3>3. ASSUME NEW i \in 1..Len(q) PROVE st[q[i]] = "queued"
      BY <2>2, <2>5, <2>6, <3>1
    <3>4. ASSUME NEW v \in Work, st[v] = "queued" PROVE \E i \in 1..Len(q) : q[i] = v
      <4>1. CASE v = w
        BY <1>0, <2>2, <4>1
      <4>2. CASE v # w
        <5>1. PICK i \in 1..Len(queue) : queue[i] = v
          BY <2>5, <3>4, <4>2 DEF IInv, Orderly
        <5>2. i \in 1..Len(q)
          BY <1>0, <2>2
        <5>. QED BY <2>2, <5>1, <5>2
      <4>. QED BY <4>1, <4>2
    <3>. QED BY <3>2, <3>3, <3>4 DEF Orderly
  <2>8. /\ active' \in 0..MaxConcurrent
        /\ queue' \in Seq(Work)
        /\ stage' \in [Work -> Stages]
        /\ active' = Cardinality(Occupied(stage'))
        /\ Orderly(queue', stage')
        /\ queue' # <<>> => active' = MaxConcurrent
        /\ Len(queue') <= Len(q)
        /\ q # <<>> /\ active < MaxConcurrent => Len(queue') < Len(q)
        /\ \A v \in Work : stage'[v] = "queued" => st[v] = "queued"
    <3>1. PICK a0, q0, st0 : a0 = active /\ q0 = q /\ st0 = st
      OBVIOUS
    <3>2. /\ a0 \in 0..MaxConcurrent /\ q0 \in Seq(Work) /\ st0 \in [Work -> Stages]
          /\ a0 = Cardinality(Occupied(st0)) /\ Orderly(q0, st0) /\ Drain(a0, q0, st0)
      BY <1>0, <2>1, <2>2, <2>3, <2>4, <2>7, <3>1
    <3>. QED BY <3>1, <3>2, DrainKeeps
  <2>9. Len(queue') <= MaxQueued
    <3>0. Len(queue') \in Nat
      BY <2>8
    <3>1. CASE HasSlot(active)
      <4>1. queue = <<>>
        BY <1>0, <3>1 DEF IInv, NoSlotIdles, HasSlot
      <4>2. Len(q) = 1 /\ q # <<>>
        BY <2>2, <4>1
      <4>. QED BY <2>8, <3>0, <3>1, <4>2 DEF HasSlot
    <3>2. CASE ~HasSlot(active)
      <4>1. Len(queue) < MaxQueued
        BY <1>0, <1>3, <3>2 DEF Refused
      <4>. QED BY <1>0, <2>2, <2>8, <3>0, <4>1
    <3>. QED BY <3>1, <3>2
  <2>10. QueuedAreAwaited'
    BY <1>0, <2>1, <2>5, <2>8 DEF IInv, QueuedAreAwaited
  <2>11. TypeOK'
    BY <1>0, <2>1, <2>8 DEF TypeOK, Stages
  <2>. QED BY <2>8, <2>9, <2>10, <2>11 DEF IInv, NoSlotIdles
<1>. QED BY <1>2, <1>3

(* splice: one place is taken out and the rest keeps its order.            *)
LEMMA WaitingRemoves ==
  ASSUME NEW w, queue \in Seq(Work), NEW m \in 1..Len(queue), queue[m] = w,
         \A i, j \in 1..Len(queue) : queue[i] = queue[j] => i = j
  PROVE  /\ Waiting(w) \in Seq(Work)
         /\ Len(Waiting(w)) = Len(queue) - 1
         /\ \A i \in 1..Len(queue) - 1 :
              Waiting(w)[i] = IF i < m THEN queue[i] ELSE queue[i + 1]
<1>. DEFINE index == CHOOSE i \in 1..Len(queue) : queue[i] = w
<1>1. index = m
  OBVIOUS
<1>2. Waiting(w) = SubSeq(queue, 1, m - 1) \o SubSeq(queue, m + 1, Len(queue))
  BY <1>1 DEF Waiting
<1>3. Len(queue) \in Nat /\ m \in Nat
  OBVIOUS
<1>4. /\ SubSeq(queue, 1, m - 1) \in Seq(Work)
      /\ Len(SubSeq(queue, 1, m - 1)) = m - 1
      /\ \A i \in 1..m - 1 : SubSeq(queue, 1, m - 1)[i] = queue[i]
  BY <1>3
<1>5. /\ SubSeq(queue, m + 1, Len(queue)) \in Seq(Work)
      /\ Len(SubSeq(queue, m + 1, Len(queue))) = Len(queue) - m
      /\ \A i \in 1..Len(queue) - m :
           SubSeq(queue, m + 1, Len(queue))[i] = queue[m + i]
  BY <1>3
<1>6. \A s, t \in Seq(Work) :
        /\ s \o t \in Seq(Work)
        /\ Len(s \o t) = Len(s) + Len(t)
        /\ \A i \in 1..Len(s) + Len(t) :
             (s \o t)[i] = IF i <= Len(s) THEN s[i] ELSE t[i - Len(s)]
  OBVIOUS
<1>. DEFINE s == SubSeq(queue, 1, m - 1)
            t == SubSeq(queue, m + 1, Len(queue))
<1>. HIDE DEF s, t
<1>7. /\ s \in Seq(Work) /\ Len(s) = m - 1 /\ (\A i \in 1..m - 1 : s[i] = queue[i])
      /\ t \in Seq(Work) /\ Len(t) = Len(queue) - m
      /\ (\A i \in 1..Len(queue) - m : t[i] = queue[m + i])
  BY <1>4, <1>5 DEF s, t
<1>8. Waiting(w) = s \o t
  BY <1>2 DEF s, t
<1>9. /\ s \o t \in Seq(Work) /\ Len(s \o t) = Len(queue) - 1
      /\ \A i \in 1..Len(queue) - 1 :
           (s \o t)[i] = IF i <= m - 1 THEN s[i] ELSE t[i - (m - 1)]
  <2>1. Len(s) + Len(t) = Len(queue) - 1
    BY <1>3, <1>7
  <2>2. /\ s \o t \in Seq(Work)
        /\ Len(s \o t) = Len(s) + Len(t)
        /\ \A i \in 1..Len(s) + Len(t) :
             (s \o t)[i] = IF i <= Len(s) THEN s[i] ELSE t[i - Len(s)]
    BY <1>6, <1>7, Zenon
  <2>3. Len(s) = m - 1
    BY <1>7
  <2>. QED BY <2>1, <2>2, <2>3, Zenon
<1>10. ASSUME NEW i \in 1..Len(queue) - 1
       PROVE  (s \o t)[i] = IF i < m THEN queue[i] ELSE queue[i + 1]
  <2>1. CASE i < m
    <3>1. i <= m - 1 /\ i \in 1..m - 1
      BY <1>3, <2>1
    <3>. QED BY <1>7, <1>9, <2>1, <3>1
  <2>2. CASE ~(i < m)
    <3>1. ~(i <= m - 1) /\ i - (m - 1) \in 1..Len(queue) - m /\ m + (i - (m - 1)) = i + 1
      BY <1>3, <2>2
    <3>. QED BY <1>7, <1>9, <2>2, <3>1
  <2>. QED BY <2>1, <2>2
<1>. QED BY <1>8, <1>9, <1>10

(* A deadline takes a queued work out of its place; a running one keeps    *)
(* its slot.                                                               *)
LEMMA DeadlineKeeps ==
  ASSUME IInv, NEW w \in Work, Deadline(w)
  PROVE  IInv'
<1>0. /\ active \in 0..MaxConcurrent /\ queue \in Seq(Work) /\ Len(queue) \in Nat
      /\ stage \in [Work -> Stages]
      /\ consumer \in [Work -> {"none", "waiting", "result", "timeout", "refused"}]
  BY DEF IInv, TypeOK, Stages
<1>1. consumer' = [consumer EXCEPT ![w] = "timeout"] /\ active' = active
  BY DEF Deadline, Slots
<1>2. CASE stage[w] = "queued"
  <2>1. queue' = Waiting(w) /\ stage' = [stage EXCEPT ![w] = "gone"]
    BY <1>2 DEF Deadline
  <2>2. PICK m \in 1..Len(queue) : queue[m] = w
    BY <1>2 DEF IInv, Orderly
  <2>3. \A i, j \in 1..Len(queue) : queue[i] = queue[j] => i = j
    BY DEF IInv, Orderly
  <2>4. /\ queue' \in Seq(Work)
        /\ Len(queue') = Len(queue) - 1
        /\ \A i \in 1..Len(queue) - 1 :
             queue'[i] = IF i < m THEN queue[i] ELSE queue[i + 1]
    BY <1>0, <2>1, <2>2, <2>3, WaitingRemoves
  <2>5. \A v \in Work : stage'[v] = IF v = w THEN "gone" ELSE stage[v]
    BY <1>0, <2>1
  <2>6. stage' \in [Work -> Stages]
    BY <1>0, <2>1 DEF Stages
  <2>7. Occupied(stage') = Occupied(stage)
    BY <1>2, <2>5 DEF Occupied
  <2>. DEFINE At(i) == IF i < m THEN i ELSE i + 1
  <2>8. ASSUME NEW i \in 1..Len(queue')
        PROVE  At(i) \in 1..Len(queue) /\ At(i) # m /\ queue'[i] = queue[At(i)]
    BY <1>0, <2>4
  <2>9. ASSUME NEW i \in 1..Len(queue'), NEW j \in 1..Len(queue'), At(i) = At(j)
        PROVE  i = j
    BY <1>0, <2>4, <2>9
  <2>. HIDE DEF At
  <2>10. Orderly(queue', stage')
    <3>1. ASSUME NEW i \in 1..Len(queue'), NEW j \in 1..Len(queue'), queue'[i] = queue'[j]
          PROVE  i = j
      BY <2>3, <2>8, <2>9, <3>1
    <3>2. ASSUME NEW i \in 1..Len(queue') PROVE stage'[queue'[i]] = "queued"
      <4>1. queue[At(i)] \in Work /\ queue[At(i)] # w /\ stage[queue[At(i)]] = "queued"
        BY <1>0, <2>2, <2>3, <2>8 DEF IInv, Orderly
      <4>. QED BY <2>5, <2>8, <4>1
    <3>3. ASSUME NEW v \in Work, stage'[v] = "queued"
          PROVE  \E i \in 1..Len(queue') : queue'[i] = v
      <4>1. v # w /\ stage[v] = "queued"
        BY <2>5, <3>3
      <4>2. PICK l \in 1..Len(queue) : queue[l] = v
        BY <4>1 DEF IInv, Orderly
      <4>3. l # m
        BY <2>2, <4>1, <4>2
      <4>4. CASE l < m
        <5>1. l \in 1..Len(queue') /\ l \in 1..Len(queue) - 1
          BY <1>0, <2>4, <4>4
        <5>. QED BY <2>4, <4>2, <4>4, <5>1
      <4>5. CASE ~(l < m)
        <5>1. /\ l - 1 \in 1..Len(queue') /\ l - 1 \in 1..Len(queue) - 1
              /\ ~(l - 1 < m) /\ (l - 1) + 1 = l
          BY <1>0, <2>4, <4>3, <4>5
        <5>. QED BY <2>4, <4>2, <5>1
      <4>. QED BY <4>4, <4>5
    <3>. QED BY <3>1, <3>2, <3>3 DEF Orderly
  <2>11. QueuedAreAwaited'
    BY <1>0, <1>1, <2>5 DEF IInv, QueuedAreAwaited
  <2>12. Len(queue') <= MaxQueued
    BY <1>0, <2>4, LimitAssumption DEF IInv
  <2>13. NoSlotIdles'
    BY <1>0, <1>1, <2>2 DEF IInv, NoSlotIdles
  <2>14. TypeOK'
    BY <1>0, <1>1, <2>4, <2>6 DEF TypeOK, Stages
  <2>. QED BY <1>1, <2>7, <2>10, <2>11, <2>12, <2>13, <2>14 DEF IInv
<1>3. CASE stage[w] # "queued"
  <2>1. queue' = queue /\ stage' = stage
    BY <1>3 DEF Deadline
  <2>2. QueuedAreAwaited'
    BY <1>0, <1>1, <1>3, <2>1 DEF IInv, QueuedAreAwaited
  <2>3. TypeOK'
    BY <1>0, <1>1, <2>1 DEF TypeOK, Stages
  <2>. QED BY <1>1, <2>1, <2>2, <2>3 DEF IInv, NoSlotIdles
<1>. QED BY <1>2, <1>3

(* Settling answers the caller; the slot stays taken.                      *)
LEMMA SettleKeeps ==
  ASSUME IInv, NEW w \in Work, Settle(w)
  PROVE  IInv'
<1>0. /\ stage \in [Work -> Stages]
      /\ consumer \in [Work -> {"none", "waiting", "result", "timeout", "refused"}]
      /\ queue \in Seq(Work)
  BY DEF IInv, TypeOK, Stages
<1>1. /\ stage[w] = "running"
      /\ stage' = [stage EXCEPT ![w] = "settled"]
      /\ consumer' = [consumer EXCEPT ![w] = Answer(w)]
      /\ active' = active /\ queue' = queue
  BY DEF Settle
<1>2. \A v \in Work : stage'[v] = IF v = w THEN "settled" ELSE stage[v]
  BY <1>0, <1>1
<1>3. Occupied(stage') = Occupied(stage)
  BY <1>1, <1>2 DEF Occupied
<1>4. Orderly(queue', stage')
  BY <1>0, <1>1, <1>2 DEF IInv, Orderly
<1>5. TypeOK'
  BY <1>0, <1>1 DEF IInv, TypeOK, Stages, Answer
<1>6. QueuedAreAwaited'
  BY <1>0, <1>1, <1>2 DEF IInv, QueuedAreAwaited
<1>. QED BY <1>1, <1>3, <1>4, <1>5, <1>6 DEF IInv, NoSlotIdles

(* The slot of a settled work is freed and offered to the queue.           *)
LEMMA FreeKeeps ==
  ASSUME IInv, NEW w \in Work, Free(w)
  PROVE  IInv'
<1>. DEFINE st == [stage EXCEPT ![w] = "gone"]
<1>0. /\ active \in 0..MaxConcurrent /\ queue \in Seq(Work) /\ Len(queue) \in Nat
      /\ stage \in [Work -> Stages]
      /\ consumer \in [Work -> {"none", "waiting", "result", "timeout", "refused"}]
  BY DEF IInv, TypeOK, Stages
<1>1. stage[w] = "settled" /\ Drain(active - 1, queue, st) /\ consumer' = consumer
  BY DEF Free, Freed
<1>2. \A v \in Work : st[v] = IF v = w THEN "gone" ELSE stage[v]
  BY <1>0
<1>3. st \in [Work -> Stages]
  BY <1>0 DEF Stages
<1>. HIDE DEF st
<1>4. active - 1 = Cardinality(Occupied(st))
  <2>1. w \in Occupied(stage) /\ Occupied(st) = Occupied(stage) \ {w}
    BY <1>1, <1>2 DEF Occupied
  <2>. QED BY <2>1, OccupiedFinite, FS_RemoveElement DEF IInv
<1>5. active - 1 \in 0..MaxConcurrent
  <2>1. Cardinality(Occupied(st)) \in Nat
    BY OccupiedFinite, FS_CardinalityType
  <2>. QED BY <1>0, <1>4, <2>1, LimitAssumption
<1>6. Orderly(queue, st)
  BY <1>0, <1>1, <1>2 DEF IInv, Orderly
<1>7. /\ active' \in 0..MaxConcurrent
      /\ queue' \in Seq(Work)
      /\ stage' \in [Work -> Stages]
      /\ active' = Cardinality(Occupied(stage'))
      /\ Orderly(queue', stage')
      /\ queue' # <<>> => active' = MaxConcurrent
      /\ Len(queue') <= Len(queue)
      /\ \A v \in Work : stage'[v] = "queued" => st[v] = "queued"
  <2>1. PICK a0, q0, st0 : a0 = active - 1 /\ q0 = queue /\ st0 = st
    OBVIOUS
  <2>2. /\ a0 \in 0..MaxConcurrent /\ q0 \in Seq(Work) /\ st0 \in [Work -> Stages]
        /\ a0 = Cardinality(Occupied(st0)) /\ Orderly(q0, st0) /\ Drain(a0, q0, st0)
    BY <1>0, <1>1, <1>3, <1>4, <1>5, <1>6, <2>1
  <2>. QED BY <2>1, <2>2, DrainKeeps
<1>8. Len(queue') <= MaxQueued
  <2>1. Len(queue') \in Nat
    BY <1>7
  <2>. QED BY <1>0, <1>7, <2>1, LimitAssumption DEF IInv
<1>9. QueuedAreAwaited'
  BY <1>1, <1>2, <1>7 DEF IInv, QueuedAreAwaited
<1>10. TypeOK'
  BY <1>0, <1>1, <1>7 DEF TypeOK, Stages
<1>. QED BY <1>7, <1>8, <1>9, <1>10 DEF IInv, NoSlotIdles

-----------------------------------------------------------------------------
(* The theorems.                                                           *)

(* Every reachable state satisfies the inductive invariant.                *)
THEOREM Inductive == Spec => []IInv
<1>1. IInv /\ [Next]_vars => IInv'
  <2>. SUFFICES ASSUME IInv, [Next]_vars PROVE IInv'
    OBVIOUS
  <2>1. CASE UNCHANGED vars
    BY <2>1 DEF vars, IInv, TypeOK, Occupied, Orderly, QueuedAreAwaited, NoSlotIdles
  <2>2. CASE Next
    BY <2>2, CallKeeps, DeadlineKeeps, SettleKeeps, FreeKeeps DEF Next
  <2>. QED BY <2>1, <2>2
<1>. QED BY <1>1, InitKeeps, PTL DEF Spec

(* Type correctness: the counter of slots never leaves 0..maxConcurrent.   *)
THEOREM TypeCorrect == Spec => []TypeOK
<1>1. IInv => TypeOK
  BY DEF IInv
<1>. QED BY <1>1, Inductive, PTL

(* Deadlines never turn a slow dependency into unbounded work: the running *)
(* operations and the waiting works stay within the two limits.            *)
THEOREM LoadIsBoundedHolds == Spec => []LoadIsBounded
<1>1. IInv => LoadIsBounded
  <2>. SUFFICES ASSUME IInv PROVE LoadIsBounded
    OBVIOUS
  <2>. DEFINE R == {w \in Work : stage[w] = "running"}
  <2>1. R \in SUBSET Occupied(stage)
    BY DEF Occupied
  <2>. HIDE DEF R
  <2>2. IsFiniteSet(R) /\ Cardinality(R) <= Cardinality(Occupied(stage))
    BY <2>1, OccupiedFinite, FS_Subset
  <2>3. Cardinality(R) \in Nat
    BY <2>2, FS_CardinalityType
  <2>4. Cardinality(R) <= MaxConcurrent
    BY <2>2, <2>3, LimitAssumption DEF IInv, TypeOK
  <2>. QED BY <2>4 DEF R, LoadIsBounded, IInv
<1>. QED BY <1>1, Inductive, PTL

(* No work waits beside a free slot, whichever block has just run.         *)
THEOREM NoSlotIdlesHolds == Spec => []NoSlotIdles
<1>1. IInv => NoSlotIdles
  BY DEF IInv
<1>. QED BY <1>1, Inductive, PTL

(* The consumerSettled test of drain() is never true: no work waits in the *)
(* queue whose caller has been answered.                                   *)
THEOREM QueuedAreAwaitedHolds == Spec => []QueuedAreAwaited
<1>1. IInv => QueuedAreAwaited
  BY DEF IInv
<1>. QED BY <1>1, Inductive, PTL

-----------------------------------------------------------------------------
(* SingleFlight.                                                           *)

\* What a pass in progress knows: it serves generations that no earlier pass
\* has served, and it was started when they had been requested.
PassIsAhead == drain = "passing" => pass > completed /\ view = pass

FlightIInv == FlightTypeOK /\ NoStaleAnswer /\ NoLostWakeup /\ PassIsAhead

(* The initial state.                                                      *)
LEMMA FlightInitKeeps == FlightInit => FlightIInv
BY RequestsAssumption DEF FlightInit, FlightIInv, FlightTypeOK, Generation, NoStaleAnswer, NoLostWakeup, PassIsAhead

(* Every step of the single flight.                                        *)
LEMMA FlightNextKeeps == FlightIInv /\ [FlightNext]_flightVars => FlightIInv'
<1> SUFFICES ASSUME FlightIInv, [FlightNext]_flightVars PROVE FlightIInv'
  OBVIOUS
<1> USE RequestsAssumption DEF FlightIInv, FlightTypeOK, Generation
<1>1. CASE Ask
  <2>1. /\ requested' = requested + 1 /\ requested' <= MaxRequests
        /\ completed' = completed /\ answer' = answer
        /\ waiters' = waiters \cup {requested + 1}
    BY <1>1 DEF Ask
  <2>2. /\ drain' = "passing" \/ (drain' = drain /\ drain # "null")
        /\ drain' = "passing" /\ drain = "null" => pass' = requested + 1 /\ view' = requested + 1
        /\ drain # "null" => drain' = drain /\ pass' = pass /\ view' = view
    BY <1>1 DEF Ask, Loop, Behind
  <2>3. FlightTypeOK'
    BY <2>1, <2>2
  <2>4. NoStaleAnswer'
    BY <2>1 DEF NoStaleAnswer
  <2>5. NoLostWakeup'
    BY <2>1, <2>2 DEF NoLostWakeup
  <2>6. PassIsAhead'
    BY <2>1, <2>2 DEF PassIsAhead
  <2>7. QED
    BY <2>3, <2>4, <2>5, <2>6
<1>2. CASE PassSettles
  <2>1. /\ drain = "passing" /\ completed' = pass /\ requested' = requested
        /\ waiters' = {g \in waiters : g > pass}
        /\ answer' = [g \in Generation |-> IF g \in waiters \ waiters' THEN view ELSE answer[g]]
    BY <1>2 DEF PassSettles, PassGeneration
  <2>2. /\ pass > completed /\ view = pass
    BY <2>1 DEF PassIsAhead
  <2>3. \/ pass < requested /\ drain' = "passing" /\ pass' = requested /\ view' = requested
        \/ pass >= requested /\ drain' = "returned" /\ pass' = pass /\ view' = view
    BY <1>2 DEF PassSettles, PassGeneration, Loop, Behind
  <2>4. FlightTypeOK'
    <3>1. /\ requested' \in 0..MaxRequests /\ completed' \in 0..requested'
          /\ waiters' \subseteq 1..requested'
      BY <2>1
    <3>2. /\ drain' \in {"null", "passing", "returned"}
          /\ pass' \in 0..requested' /\ view' \in 0..requested'
      BY <2>1, <2>3
    <3>3. view \in 0..MaxRequests /\ answer \in [Generation -> 0..MaxRequests]
      OBVIOUS
    <3>4. answer' \in [Generation -> 0..MaxRequests]
      BY <2>1, <3>3
    <3>5. QED
      BY <3>1, <3>2, <3>4
  <2>5. NoStaleAnswer'
    <3> SUFFICES ASSUME NEW g \in 1..requested, g \notin waiters'
                 PROVE answer'[g] >= g
      BY <2>1 DEF NoStaleAnswer
    <3> g \in Generation /\ g \in Nat
      BY <2>1
    <3>1. CASE g \in waiters
      <4>1. answer'[g] = view
        BY <3>1, <2>1
      <4>2. g <= pass
        BY <3>1, <2>1
      <4>3. QED
        BY <4>1, <4>2, <2>2
    <3>2. CASE g \notin waiters
      <4>1. answer'[g] = answer[g]
        BY <3>2, <2>1
      <4>2. QED
        BY <3>2, <4>1, <2>1 DEF NoStaleAnswer
    <3>3. QED
      BY <3>1, <3>2
  <2>6. NoLostWakeup'
    BY <2>1, <2>2, <2>3 DEF NoLostWakeup
  <2>7. PassIsAhead'
    BY <2>1, <2>3 DEF PassIsAhead
  <2>8. QED
    BY <2>4, <2>5, <2>6, <2>7
<1>3. CASE Finally
  <2>1. /\ drain = "returned" /\ requested' = requested /\ completed' = completed
        /\ waiters' = waiters /\ answer' = answer
    BY <1>3 DEF Finally
  <2>2. \/ completed < requested /\ drain' = "passing" /\ pass' = requested /\ view' = requested
        \/ completed >= requested /\ drain' = "null" /\ pass' = pass /\ view' = view
    BY <1>3 DEF Finally, Restart, Loop, Behind
  <2>3. QED
    BY <2>1, <2>2 DEF NoStaleAnswer, NoLostWakeup, PassIsAhead
<1>4. CASE UNCHANGED flightVars
  BY <1>4 DEF flightVars, NoStaleAnswer, NoLostWakeup, PassIsAhead
<1>5. QED
  BY <1>1, <1>2, <1>3, <1>4 DEF FlightNext

\* The inductive invariant holds throughout.
(* Every reachable state of the single flight satisfies its invariant.     *)
LEMMA FlightInductive == FlightSpec => []FlightIInv
<1>1. FlightInit => FlightIInv
  BY FlightInitKeeps
<1>2. FlightIInv /\ [FlightNext]_flightVars => FlightIInv'
  BY FlightNextKeeps
<1>3. QED
  BY <1>1, <1>2, PTL DEF FlightSpec

\* Every request is answered by a pass that started after it was made
\* (`passGeneration = requestedGeneration` before `await runPass()`).
THEOREM NoStaleAnswerHolds == FlightSpec => []NoStaleAnswer
<1>1. FlightIInv => NoStaleAnswer
  BY DEF FlightIInv
<1>2. QED
  BY <1>1, FlightInductive, PTL

\* No request is left waiting without a drain under way, the window before
\* the finally callback of ensureDrain included.
THEOREM NoLostWakeupHolds == FlightSpec => []NoLostWakeup
<1>1. FlightIInv => NoLostWakeup
  BY DEF FlightIInv
<1>2. QED
  BY <1>1, FlightInductive, PTL

\* No pass runs for nobody: the loop of drain() starts one only while a
\* generation is incomplete.
THEOREM PassesHaveWaitersHolds == FlightSpec => []PassesHaveWaiters
<1>1. FlightIInv => PassesHaveWaiters
  BY RequestsAssumption DEF FlightIInv, FlightTypeOK, NoLostWakeup, PassIsAhead, PassesHaveWaiters
<1>2. QED
  BY <1>1, FlightInductive, PTL
==============================================================================
