------------------------- MODULE ClientParts_proofs -------------------------
(***************************************************************************)
(* What the clients of the server are made of: lemmas about RetryingCalls  *)
(* and AsyncTTLCache, for any tasks, permits and attempts, any keys,       *)
(* values, time to live and size.  The theorems about the specifications   *)
(* that use these operators rest on them.  Those about the cache by itself *)
(* are at the end.                                                         *)
(***************************************************************************)
EXTENDS RetryingCalls, AsyncTTLCacheUse, FiniteSetTheorems, SequenceTheorems,
        TLAPS

-----------------------------------------------------------------------------
(* Induction and recursion over the natural numbers.  Induction is over a  *)
(* set, because that is what the library states without an operator        *)
(* parameter: a relation that is well founded has minimal elements.        *)

\* A set that has 0 and with each number the next has all of them.
LEMMA Induction ==
    ASSUME NEW P, P \subseteq Nat, 0 \in P, \A n \in P : n + 1 \in P
    PROVE  P = Nat
  <1> DEFINE less == OpToRel(<, Nat)
             others == Nat \ P
  <1>1. IsWellFoundedOn(less, Nat)
    BY NatLessThanWellFounded, Zenon
  <1>2. SUFFICES ASSUME others # {} PROVE FALSE
    OBVIOUS
  <1>3. PICK x \in others : \A y \in others : <<y, x>> \notin less
    <2>1. others \subseteq Nat
      OBVIOUS
    <2> HIDE DEF less, others
    <2> QED
      BY <1>1, <1>2, <2>1, WFMin
  <1>4. \A y \in others : ~(y < x)
    BY <1>3 DEF OpToRel
  <1>5. x # 0 /\ x \in Nat
    OBVIOUS
  <1>6. x - 1 \in Nat /\ x - 1 < x /\ x - 1 + 1 = x
    BY <1>5
  <1>7. x - 1 \in P
    BY <1>4, <1>6
  <1> QED
    BY <1>6, <1>7

\* f[0], ..., f[n] of R are what each step leaves, beginning with start.
IsMadeBy(f, R, start, n, step) ==
    /\ f \in [0..n -> R]
    /\ f[0] = start
    /\ \A i \in 1..n : f[i] = step[<<i, f[i - 1]>>]

\* A function that is given by its first value and a step exists.
LEMMA Recursion ==
    ASSUME NEW R, NEW start \in R, NEW n \in Nat,
           NEW step \in [(1..n) \X R -> R]
    PROVE  \E f : IsMadeBy(f, R, start, n, step)
  <1> DEFINE P == {m \in Nat : m <= n =>
                     \E f \in [0..m -> R] :
                       /\ f[0] = start
                       /\ \A i \in 1..m : f[i] = step[<<i, f[i - 1]>>]}
  <1>1. 0 \in P
    <2> DEFINE f == [i \in 0..0 |-> start]
    <2>1. f \in [0..0 -> R] /\ f[0] = start
      OBVIOUS
    <2>2. 1..0 = {}
      OBVIOUS
    <2> HIDE DEF f
    <2>3. \E h \in [0..0 -> R] :
            /\ h[0] = start
            /\ \A i \in 1..0 : h[i] = step[<<i, h[i - 1]>>]
      BY <2>1, <2>2
    <2> QED
      BY <2>3
  <1>2. ASSUME NEW m \in P PROVE m + 1 \in P
    <2> SUFFICES ASSUME m + 1 <= n
                 PROVE \E f \in [0..(m + 1) -> R] :
                       /\ f[0] = start
                       /\ \A i \in 1..(m + 1) : f[i] = step[<<i, f[i - 1]>>]
      OBVIOUS
    <2>1. m \in Nat /\ m <= n
      OBVIOUS
    <2>2. PICK f \in [0..m -> R] :
                       /\ f[0] = start
                       /\ \A i \in 1..m : f[i] = step[<<i, f[i - 1]>>]
      BY <2>1
    <2> DEFINE last == step[<<m + 1, f[m]>>]
               g == [i \in 0..(m + 1) |-> IF i <= m THEN f[i] ELSE last]
    <2>3. last \in R
      <3>1. m \in 0..m /\ m + 1 \in 1..n
        BY <2>1
      <3> QED
        BY <3>1
    <2>4. \A i \in 0..m : g[i] = f[i] /\ f[i] \in R
      BY <2>1
    <2>5. g[m + 1] = last
      BY <2>1
    <2>6. DOMAIN g = 0..(m + 1) /\ g = [i \in 0..(m + 1) |-> g[i]]
      OBVIOUS
    <2>7. /\ \A i \in 0..(m + 1) : i \in 0..m \/ i = m + 1
          /\ \A i \in 1..(m + 1) : i \in 1..m \/ i = m + 1
          /\ \A i \in 1..m : i \in 0..m /\ i - 1 \in 0..m
          /\ 0 \in 0..m /\ m \in 0..m /\ (m + 1) - 1 = m
      BY <2>1
    <2> HIDE DEF g
    <2>8. g \in [0..(m + 1) -> R]
      BY <2>3, <2>4, <2>5, <2>6, <2>7
    <2>9. g[0] = start
      BY <2>2, <2>4, <2>7
    <2>10. ASSUME NEW i \in 1..(m + 1) PROVE g[i] = step[<<i, g[i - 1]>>]
      <3>1. CASE i \in 1..m
        BY <2>2, <2>4, <2>7, <3>1
      <3>2. CASE i = m + 1
        BY <2>4, <2>5, <2>7, <3>2
      <3> QED
        BY <2>7, <3>1, <3>2
    <2> QED
      BY <2>8, <2>9, <2>10
  <1>3. P \subseteq Nat
    OBVIOUS
  <1>4. n \in P
    <2> HIDE DEF P
    <2> QED
      BY <1>1, <1>2, <1>3, Induction
  <1> QED
    BY <1>4 DEF IsMadeBy

-----------------------------------------------------------------------------
(* Permits and retries                                                     *)

(***************************************************************************)
(* The semaphore                                                           *)
(***************************************************************************)

\* No task is twice in the queue.
Distinct(w) == \A i, j \in DOMAIN w : w[i] = w[j] => i = j

SemaphoreInv ==
    /\ permits \in Nat
    /\ waiters \in Seq(Tasks)
    /\ granted \subseteq Tasks
    /\ IsFiniteSet(granted)
    /\ granted \cap ToSet(waiters) = {}
    /\ Distinct(waiters)
    /\ NoForgottenWaiter

\* The tasks in acquire, and the permits that nobody works with.
Queue == ToSet(waiters) \cup granted
Spare == permits + Cardinality(granted)

\* The first n of distinct waiters are n tasks.
LEMMA FirstWaiters ==
    ASSUME NEW w \in Seq(Tasks), Distinct(w), NEW n \in 0..Len(w)
    PROVE  /\ IsFiniteSet({w[i] : i \in 1..n})
           /\ Cardinality({w[i] : i \in 1..n}) = n
  <1> DEFINE W == {w[i] : i \in 1..n}
             f == [i \in 1..n |-> w[i]]
  <1>1. f \in Bijection(1..n, W)
    BY DEF Bijection, Injection, Surjection, Distinct, IsInjective
  <1>2. ExistsBijection(1..n, W)
    BY <1>1 DEF ExistsBijection
  <1>3. IsFiniteSet(W)
    BY <1>2, FS_NatBijection
  <1> QED
    BY <1>2, <1>3, FS_CountingElements

\* Waking waiters up makes grants of permits, in the order of the queue, and
\* stops when either runs out.
LEMMA WakingUp ==
    ASSUME NEW p \in Nat, NEW w \in Seq(Tasks), NEW g \in SUBSET Tasks,
           IsFiniteSet(g), g \cap ToSet(w) = {}, Distinct(w),
           WakeUpAll(p, w, g)
    PROVE  /\ SemaphoreInv'
           /\ Queue' = ToSet(w) \cup g
           /\ Spare' = p + Cardinality(g)
  <1> DEFINE n == IF p < Len(w) THEN p ELSE Len(w)
             W == {w[i] : i \in 1..n}
             rest == SubSeq(w, n + 1, Len(w))
  <1>1. /\ n \in 0..Len(w)
        /\ n <= p
        /\ p > n => n = Len(w)
        /\ Len(w) \in Nat
    OBVIOUS
  <1> HIDE DEF n
  <1>2. /\ waiters' = rest
        /\ granted' = g \cup W
        /\ permits' = p - n
    BY DEF WakeUpAll, n
  <1>3. /\ IsFiniteSet(W)
        /\ Cardinality(W) = n
    BY <1>1, FirstWaiters
  <1>4. /\ rest \in Seq(Tasks)
        /\ Len(rest) = Len(w) - n
        /\ \A i \in 1..(Len(w) - n) : rest[i] = w[n + i]
    BY <1>1
  <1> HIDE DEF rest
  <1>5. /\ Distinct(rest)
        /\ W \cap ToSet(rest) = {}
        /\ W \cup ToSet(rest) = ToSet(w)
    <2>1. W \cup ToSet(rest) = ToSet(w)
      <3>1. ASSUME NEW t \in ToSet(w)
            PROVE  t \in W \cup ToSet(rest)
        <4>1. PICK i \in 1..Len(w) : t = w[i]
          BY DEF ToSet
        <4>2. CASE i <= n
          BY <4>1, <4>2, <1>1
        <4>3. CASE i > n
          <5>1. i - n \in 1..(Len(w) - n) /\ rest[i - n] = w[i]
            BY <4>3, <1>1, <1>4
          <5> QED
            BY <5>1, <4>1, <1>4 DEF ToSet
        <4> QED
          BY <4>2, <4>3, <1>1
      <3>2. W \subseteq ToSet(w)
        BY <1>1 DEF ToSet
      <3>3. ASSUME NEW t \in ToSet(rest)
            PROVE  t \in ToSet(w)
        <4>1. PICK i \in 1..(Len(w) - n) : t = rest[i]
          BY <1>4 DEF ToSet
        <4>2. n + i \in 1..Len(w) /\ t = w[n + i]
          BY <4>1, <1>1, <1>4
        <4> QED
          BY <4>2 DEF ToSet
      <3> QED
        BY <3>1, <3>2, <3>3
    <2>2. Distinct(rest)
      <3> SUFFICES ASSUME NEW i \in DOMAIN rest, NEW j \in DOMAIN rest,
                          rest[i] = rest[j]
                   PROVE  i = j
        BY DEF Distinct
      <3>1. i \in 1..(Len(w) - n) /\ j \in 1..(Len(w) - n)
        BY <1>4
      <3>2. n + i \in 1..Len(w) /\ n + j \in 1..Len(w)
        BY <3>1, <1>1
      <3>3. w[n + i] = w[n + j]
        BY <3>1, <1>4
      <3>4. /\ n + i \in DOMAIN w /\ n + j \in DOMAIN w
            /\ w[n + i] = w[n + j]
        BY <3>2, <3>3
      <3>5. n + i = n + j
        BY <3>4 DEF Distinct
      <3> QED
        BY <3>5, <3>1, <1>1
    <2>3. ASSUME NEW t \in W, t \in ToSet(rest)
          PROVE  FALSE
      <3>1. PICK i \in 1..n : t = w[i]
        OBVIOUS
      <3>2. PICK j \in 1..(Len(w) - n) : t = rest[j]
        BY <2>3, <1>4 DEF ToSet
      <3>3. /\ i \in DOMAIN w /\ n + j \in DOMAIN w
            /\ w[i] = w[n + j]
        BY <3>1, <3>2, <1>1, <1>4
      <3>4. i = n + j
        BY <3>3 DEF Distinct
      <3> QED
        BY <3>4, <1>1
    <2> QED
      BY <2>1, <2>2, <2>3
  <1>6. /\ IsFiniteSet(g \cup W)
        /\ Cardinality(g \cup W) = Cardinality(g) + n
    <2>1. g \cap W = {}
      BY <1>5
    <2>2. Cardinality(g \cap W) = 0
      BY <2>1, FS_EmptySet
    <2>3. /\ IsFiniteSet(g \cup W)
          /\ Cardinality(g \cup W)
               = Cardinality(g) + Cardinality(W) - Cardinality(g \cap W)
      <3> HIDE DEF W
      <3> QED
        BY <1>3, FS_Union
    <2>4. Cardinality(g) \in Nat
      BY FS_CardinalityType
    <2> HIDE DEF W
    <2> QED
      BY <2>2, <2>3, <2>4, <1>3, <1>1
  <1>7. W \subseteq Tasks
    BY <1>1
  <1>8. NoForgottenWaiter'
    BY <1>1, <1>2, <1>4 DEF NoForgottenWaiter
  <1>9. SemaphoreInv'
    BY <1>1, <1>2, <1>4, <1>5, <1>6, <1>7, <1>8 DEF SemaphoreInv
  <1>10. Queue' = ToSet(w) \cup g
    BY <1>2, <1>5 DEF Queue
  <1>11. Spare' = p + Cardinality(g)
    BY <1>1, <1>2, <1>6, FS_CardinalityType DEF Spare
  <1> QED
    BY <1>9, <1>10, <1>11

\* Release gives one permit back, or to the first waiter.
LEMMA Releasing ==
    ASSUME SemaphoreInv, Release
    PROVE  /\ SemaphoreInv'
           /\ Queue' = Queue
           /\ Spare' = Spare + 1
  <1>1. Cardinality(granted) \in Nat
    BY FS_CardinalityType DEF SemaphoreInv
  <1>2. CASE waiters = <<>>
    BY <1>1, <1>2
    DEF Release, SemaphoreInv, Queue, Spare, NoForgottenWaiter
  <1>3. CASE waiters # <<>>
    <2> DEFINE t == Head(waiters)
    <2>1. /\ waiters \in Seq(Tasks)
          /\ Len(waiters) \in Nat \ {0}
          /\ DOMAIN waiters = 1..Len(waiters)
          /\ t = waiters[1]
          /\ t \in Tasks
      BY <1>3 DEF SemaphoreInv
    <2>2. /\ waiters' = Tail(waiters)
          /\ granted' = granted \cup {t}
          /\ permits' = permits
      BY <1>3 DEF Release
    <2>3. /\ waiters' \in Seq(Tasks)
          /\ DOMAIN waiters' = 1..(Len(waiters) - 1)
          /\ \A i \in 1..(Len(waiters) - 1) : waiters'[i] = waiters[i + 1]
      BY <2>1, <2>2
    <2>4. Distinct(waiters')
      <3> SUFFICES ASSUME NEW i \in 1..(Len(waiters) - 1),
                          NEW j \in 1..(Len(waiters) - 1),
                          waiters'[i] = waiters'[j]
                   PROVE  i = j
        BY <2>3 DEF Distinct
      <3>1. i + 1 \in DOMAIN waiters /\ j + 1 \in DOMAIN waiters
        BY <2>1
      <3>2. waiters[i + 1] = waiters[j + 1]
        BY <2>3
      <3>3. i + 1 = j + 1
        BY <3>1, <3>2 DEF SemaphoreInv, Distinct
      <3> QED
        BY <3>3
    <2>5. ToSet(waiters) = ToSet(waiters') \cup {t}
      <3>1. ASSUME NEW u \in ToSet(waiters), u # t
            PROVE  u \in ToSet(waiters')
        <4>1. PICK i \in 1..Len(waiters) : u = waiters[i]
          BY <2>1 DEF ToSet
        <4>2. i - 1 \in 1..(Len(waiters) - 1) /\ (i - 1) + 1 = i
          BY <4>1, <3>1, <2>1
        <4> QED
          BY <4>1, <4>2, <2>3 DEF ToSet
      <3>2. ASSUME NEW u \in ToSet(waiters')
            PROVE  u \in ToSet(waiters)
        <4>1. PICK i \in 1..(Len(waiters) - 1) : u = waiters'[i]
          BY <2>3 DEF ToSet
        <4>2. i + 1 \in DOMAIN waiters /\ u = waiters[i + 1]
          BY <4>1, <2>1, <2>3
        <4> QED
          BY <4>2 DEF ToSet
      <3>3. t \in ToSet(waiters)
        BY <2>1 DEF ToSet
      <3> QED
        BY <3>1, <3>2, <3>3
    <2>6. t \notin ToSet(waiters')
      <3>1. ASSUME NEW i \in 1..(Len(waiters) - 1), t = waiters'[i]
            PROVE  FALSE
        <4>1. /\ 1 \in DOMAIN waiters /\ i + 1 \in DOMAIN waiters
              /\ waiters[1] = waiters[i + 1]
          BY <3>1, <2>1, <2>3
        <4>2. 1 = i + 1
          BY <4>1 DEF SemaphoreInv, Distinct
        <4> QED
          BY <4>2
      <3> QED
        BY <3>1, <2>3 DEF ToSet
    <2> HIDE DEF t
    <2>7. t \notin granted
      BY <2>5 DEF SemaphoreInv
    <2>8. /\ IsFiniteSet(granted')
          /\ Cardinality(granted') = Cardinality(granted) + 1
      BY <2>2, <2>7, FS_AddElement DEF SemaphoreInv
    <2>9. SemaphoreInv'
      <3>1. granted' # {}
        BY <2>2
      <3>2. granted' \cap ToSet(waiters') = {}
        BY <2>2, <2>5, <2>6 DEF SemaphoreInv
      <3> QED
        BY <3>1, <3>2, <2>1, <2>2, <2>3, <2>4, <2>8
        DEF SemaphoreInv, NoForgottenWaiter
    <2> QED
      BY <2>2, <2>5, <2>8, <2>9, <1>1 DEF Queue, Spare, SemaphoreInv
  <1> QED
    BY <1>2, <1>3

\* A call enters without waiting only when nobody waits.
LEMMA EnteringAtOnce ==
    ASSUME SemaphoreInv, AcquireNow
    PROVE  /\ SemaphoreInv'
           /\ Queue' = Queue
           /\ Spare' = Spare - 1
  <1>1. Cardinality(granted) \in Nat
    BY FS_CardinalityType DEF SemaphoreInv
  <1> QED
    BY <1>1
    DEF AcquireNow, Locked, SemaphoreInv, Queue, Spare, NoForgottenWaiter

\* A call that must wait takes the last place.
LEMMA Queueing ==
    ASSUME SemaphoreInv, NEW t \in Tasks, t \notin Queue, Enqueue(t)
    PROVE  /\ SemaphoreInv'
           /\ Queue' = Queue \cup {t}
           /\ Spare' = Spare
  <1>1. /\ waiters \in Seq(Tasks)
        /\ waiters' = Append(waiters, t)
        /\ permits' = permits
        /\ granted' = granted
        /\ Locked
    BY DEF SemaphoreInv, Enqueue
  <1>2. /\ waiters' \in Seq(Tasks)
        /\ Len(waiters) \in Nat
        /\ DOMAIN waiters = 1..Len(waiters)
        /\ DOMAIN waiters' = 1..(Len(waiters) + 1)
        /\ \A i \in 1..Len(waiters) : waiters'[i] = waiters[i]
        /\ waiters'[Len(waiters) + 1] = t
    BY <1>1
  <1>3. ToSet(waiters') = ToSet(waiters) \cup {t}
    BY <1>2 DEF ToSet
  <1>4. Distinct(waiters')
    BY <1>2 DEF SemaphoreInv, Distinct, Queue, ToSet
  <1>5. NoForgottenWaiter'
    BY <1>1 DEF SemaphoreInv, NoForgottenWaiter, Locked
  <1>6. granted' \cap ToSet(waiters') = {}
    BY <1>1, <1>3 DEF SemaphoreInv, Queue
  <1> QED
    BY <1>1, <1>2, <1>3, <1>4, <1>5, <1>6 DEF SemaphoreInv, Queue, Spare

\* A task that was granted a permit has it.
LEMMA Resuming ==
    ASSUME SemaphoreInv, NEW t, Resume(t)
    PROVE  /\ SemaphoreInv'
           /\ Queue' = Queue \ {t}
           /\ Spare' = Spare - 1
  <1>1. /\ IsFiniteSet(granted \ {t})
        /\ Cardinality(granted \ {t}) = Cardinality(granted) - 1
        /\ Cardinality(granted) \in Nat
    BY FS_RemoveElement, FS_CardinalityType DEF SemaphoreInv, Resume
  <1>2. /\ SemaphoreInv'
        /\ Queue' = ToSet(waiters) \cup (granted \ {t})
        /\ Spare' = permits + Cardinality(granted \ {t})
    BY <1>1, WakingUp DEF SemaphoreInv, Resume
  <1> QED
    BY <1>1, <1>2 DEF SemaphoreInv, Resume, Queue, Spare

\* A task that was granted a permit and is cancelled gives it back.
LEMMA CancellingGranted ==
    ASSUME SemaphoreInv, NEW t, CancelGranted(t)
    PROVE  /\ SemaphoreInv'
           /\ Queue' = Queue \ {t}
           /\ Spare' = Spare
  <1>1. /\ IsFiniteSet(granted \ {t})
        /\ Cardinality(granted \ {t}) = Cardinality(granted) - 1
        /\ Cardinality(granted) \in Nat
    BY FS_RemoveElement, FS_CardinalityType DEF SemaphoreInv, CancelGranted
  <1>2. /\ SemaphoreInv'
        /\ Queue' = ToSet(waiters) \cup (granted \ {t})
        /\ Spare' = permits + 1 + Cardinality(granted \ {t})
    BY <1>1, WakingUp DEF SemaphoreInv, CancelGranted
  <1> QED
    BY <1>1, <1>2 DEF SemaphoreInv, CancelGranted, Queue, Spare

\* The elements of a sequence from which one is removed.
LEMMA Removing ==
    ASSUME NEW S, NEW s \in Seq(S), NEW k \in 1..Len(s)
    PROVE  /\ RemoveAt(s, k) \in Seq(S)
           /\ DOMAIN RemoveAt(s, k) = 1..(Len(s) - 1)
           /\ \A i \in 1..(Len(s) - 1) :
                RemoveAt(s, k)[i] = IF i < k THEN s[i] ELSE s[i + 1]
  <1> DEFINE front == SubSeq(s, 1, k - 1)
             back == SubSeq(s, k + 1, Len(s))
  <1>1. Len(s) \in Nat /\ k \in Nat /\ 1 <= k /\ k <= Len(s)
    OBVIOUS
  <1>2. /\ front \in Seq(S)
        /\ Len(front) = k - 1
        /\ \A i \in 1..(k - 1) : front[i] = s[i]
    BY <1>1
  <1>3. /\ back \in Seq(S)
        /\ Len(back) = Len(s) - k
        /\ \A i \in 1..(Len(s) - k) : back[i] = s[k + i]
    BY <1>1
  <1>4. RemoveAt(s, k) = front \o back
    BY DEF RemoveAt
  <1> HIDE DEF front, back
  <1>5. /\ front \o back \in Seq(S)
        /\ Len(front \o back) = Len(front) + Len(back)
        /\ \A i \in 1..(Len(front) + Len(back)) :
             (front \o back)[i] = IF i <= Len(front) THEN front[i]
                                  ELSE back[i - Len(front)]
    BY <1>2, <1>3, ConcatProperties
  <1>6. Len(front) + Len(back) = Len(s) - 1
    BY <1>1, <1>2, <1>3
  <1>7. ASSUME NEW i \in 1..(Len(s) - 1)
        PROVE  (front \o back)[i] = IF i < k THEN s[i] ELSE s[i + 1]
    <2>1. (front \o back)[i] = IF i <= k - 1 THEN front[i] ELSE back[i - (k - 1)]
      BY <1>2, <1>5, <1>6
    <2>2. CASE i < k
      BY <2>1, <2>2, <1>1, <1>2
    <2>3. CASE ~(i < k)
      <3>1. i - (k - 1) \in 1..(Len(s) - k) /\ k + (i - (k - 1)) = i + 1
        BY <2>3, <1>1
      <3>2. (front \o back)[i] = back[i - (k - 1)]
        BY <2>1, <2>3, <1>1
      <3> QED
        BY <3>1, <3>2, <2>3, <1>3
    <2> QED
      BY <2>2, <2>3
  <1>8. DOMAIN (front \o back) = 1..(Len(s) - 1)
    BY <1>5, <1>6, LenProperties
  <1> QED
    BY <1>4, <1>5, <1>7, <1>8

\* A task that is cancelled in the queue leaves it to the others.
LEMMA CancellingPending ==
    ASSUME SemaphoreInv, NEW t, CancelPending(t)
    PROVE  /\ SemaphoreInv'
           /\ Queue' = Queue \ {t}
           /\ Spare' = Spare
  <1>1. PICK k \in DOMAIN waiters :
          waiters[k] = t /\ WakeUpAll(permits, RemoveAt(waiters, k), granted)
    BY DEF CancelPending
  <1> DEFINE w == RemoveAt(waiters, k)
             m == Len(waiters)
  <1>2. /\ waiters \in Seq(Tasks)
        /\ m \in Nat
        /\ DOMAIN waiters = 1..m
        /\ k \in 1..m
    BY DEF SemaphoreInv
  <1>3. /\ w \in Seq(Tasks)
        /\ DOMAIN w = 1..(m - 1)
        /\ \A i \in 1..(m - 1) :
             w[i] = IF i < k THEN waiters[i] ELSE waiters[i + 1]
    BY <1>2, Removing
  <1> HIDE DEF w, m
  <1>4. Distinct(w)
    <2> DEFINE old(i) == IF i < k THEN i ELSE i + 1
    <2> SUFFICES ASSUME NEW i \in 1..(m - 1), NEW j \in 1..(m - 1),
                        w[i] = w[j]
                 PROVE  i = j
      BY <1>3 DEF Distinct
    <2>1. old(i) \in 1..m /\ old(j) \in 1..m
      BY <1>2
    <2>2. waiters[old(i)] = waiters[old(j)]
      BY <1>3
    <2>3. old(i) = old(j)
      BY <1>2, <2>1, <2>2 DEF SemaphoreInv, Distinct
    <2> QED
      BY <2>3, <1>2
  <1>5. ToSet(w) = ToSet(waiters) \ {t}
    <2>1. ASSUME NEW u \in ToSet(waiters), u # t
          PROVE  u \in ToSet(w)
      <3>1. PICK i \in 1..m : u = waiters[i]
        BY <1>2 DEF ToSet
      <3>2. CASE i < k
        BY <3>1, <3>2, <1>2, <1>3 DEF ToSet
      <3>3. CASE i > k
        <4>1. i - 1 \in 1..(m - 1) /\ ~(i - 1 < k) /\ (i - 1) + 1 = i
          BY <3>3, <1>2
        <4> QED
          BY <4>1, <3>1, <1>3 DEF ToSet
      <3> QED
        BY <3>1, <3>2, <3>3, <2>1, <1>1, <1>2
    <2>2. ASSUME NEW u \in ToSet(w)
          PROVE  u \in ToSet(waiters) /\ u # t
      <3>1. PICK i \in 1..(m - 1) : u = w[i]
        BY <1>3 DEF ToSet
      <3>2. PICK j \in 1..m : u = waiters[j] /\ j # k
        BY <3>1, <1>2, <1>3
      <3> QED
        BY <3>2, <1>1, <1>2 DEF ToSet, SemaphoreInv, Distinct
    <2> QED
      BY <2>1, <2>2
  <1>6. /\ SemaphoreInv'
        /\ Queue' = ToSet(w) \cup granted
        /\ Spare' = permits + Cardinality(granted)
    <2>1. WakeUpAll(permits, w, granted)
      BY <1>1 DEF w
    <2>2. granted \cap ToSet(w) = {}
      BY <1>5 DEF SemaphoreInv
    <2> QED
      BY <2>1, <2>2, <1>3, <1>4, WakingUp DEF SemaphoreInv
  <1>7. t \notin granted
    BY <1>1 DEF SemaphoreInv, ToSet
  <1> QED
    BY <1>5, <1>6, <1>7 DEF Queue, Spare

(***************************************************************************)
(* The calls                                                               *)
(***************************************************************************)

\* The calls of a client with these outcomes and requests.
CallStates(outcomes, requests) ==
    {Over(o) : o \in outcomes} \cup Calls(requests)
CallsOK(outcomes, requests) == call \in [Tasks -> CallStates(outcomes, requests)]

IsHolder(c) == c.phase \in {"sending", "backoff"}

\* What makes the properties of RetryingCalls inductive: the permits are
\* counted at the tasks that hold them, the tasks they were handed to and the
\* semaphore, and only a call that may retry backs off.
CallInv ==
    /\ SemaphoreInv
    /\ {t \in Tasks : call[t].phase = "queued"} = Queue
    /\ IsFiniteSet(Holders)
    /\ Spare + Cardinality(Holders) = MaxConcurrency
    /\ \A t \in Tasks :
         call[t].phase = "backoff" => call[t].attempt < MaxAttempts
    /\ RetryLoopNeverFallsThrough

\* Numbers of the invariant are natural numbers.
LEMMA Counts ==
    ASSUME CallInv
    PROVE  /\ Cardinality(granted) \in Nat
           /\ Cardinality(Holders) \in Nat
           /\ permits \in Nat
           /\ Spare \in Nat
           /\ MaxConcurrency \in Nat
  BY FS_CardinalityType, ConcurrencyAssumption DEF CallInv, SemaphoreInv, Spare

\* The invariant implies the properties of RetryingCalls.
LEMMA Implied ==
    ASSUME CallInv
    PROVE  /\ SemaphoreTypeOK
           /\ QueueOK
           /\ PermitsConserved
           /\ NoForgottenWaiter
           /\ RetryLoopNeverFallsThrough
  <1>1. /\ permits \in 0..MaxConcurrency
        /\ PermitsConserved
    BY Counts DEF CallInv, Spare, PermitsConserved
  <1> QED
    BY <1>1
    DEF CallInv, SemaphoreInv, SemaphoreTypeOK, QueueOK, Queue, Distinct

\* It holds before the first call.
LEMMA Beginning ==
    ASSUME CallsInit, NEW outcomes, NEW requests, "none" \in outcomes
    PROVE  CallsOK(outcomes, requests) /\ CallInv
  <1>1. /\ permits = MaxConcurrency
        /\ waiters = <<>>
        /\ granted = {}
        /\ call = [t \in Tasks |-> Over("none")]
    BY DEF CallsInit, SemaphoreInit
  <1>2. Holders = {}
    BY <1>1 DEF Holders, Over
  <1>3. SemaphoreInv
    BY <1>1, FS_EmptySet, ConcurrencyAssumption
    DEF SemaphoreInv, Distinct, NoForgottenWaiter, ToSet
  <1>4. Queue = {}
    BY <1>1 DEF Queue, ToSet
  <1>5. Spare + Cardinality(Holders) = MaxConcurrency
    BY <1>1, <1>2, FS_EmptySet, ConcurrencyAssumption DEF Spare
  <1>6. RetryLoopNeverFallsThrough
    BY <1>1 DEF RetryLoopNeverFallsThrough, Over
  <1>7. CallInv
    BY <1>1, <1>2, <1>3, <1>4, <1>5, <1>6, FS_EmptySet DEF CallInv, Over
  <1> QED
    BY <1>1, <1>7 DEF CallsOK, CallStates

\* A step of one call keeps the invariant when the semaphore moves along with
\* it: a task that waits is in the queue, and a permit is spare when it has
\* been given back and not before.
LEMMA Moving ==
    ASSUME NEW outcomes, NEW requests, CallsOK(outcomes, requests), CallInv,
           NEW t \in Tasks, NEW c \in CallStates(outcomes, requests),
           call' = [call EXCEPT ![t] = c],
           c.phase = "backoff" => c.attempt < MaxAttempts,
           c # Over("unreachable"),
           SemaphoreInv',
           Queue' = IF c.phase = "queued" THEN Queue \cup {t} ELSE Queue \ {t},
           Spare' = Spare + (IF IsHolder(call[t]) THEN 1 ELSE 0)
                          - (IF IsHolder(c) THEN 1 ELSE 0)
    PROVE  CallsOK(outcomes, requests)' /\ CallInv'
  <1>1. CallsOK(outcomes, requests)'
    BY DEF CallsOK
  <1>2. /\ call'[t] = c
        /\ \A u \in Tasks \ {t} : call'[u] = call[u]
    BY DEF CallsOK
  <1>3. {u \in Tasks : call'[u].phase = "queued"} = Queue'
    BY <1>2 DEF CallInv
  <1>4. /\ IsFiniteSet(Holders')
        /\ Spare' + Cardinality(Holders') = MaxConcurrency
    <2>1. Holders' = IF IsHolder(c) THEN Holders \cup {t} ELSE Holders \ {t}
      BY <1>2 DEF Holders, IsHolder
    <2>2. IsHolder(call[t]) <=> t \in Holders
      BY DEF Holders, IsHolder
    <2>3. IsFiniteSet(Holders)
      BY DEF CallInv
    <2>4. Spare + Cardinality(Holders) = MaxConcurrency
      BY DEF CallInv
    <2>5. CASE IsHolder(c)
      <3>1. /\ IsFiniteSet(Holders \cup {t})
            /\ Cardinality(Holders \cup {t})
                 = IF t \in Holders THEN Cardinality(Holders)
                                    ELSE Cardinality(Holders) + 1
        BY <2>3, FS_AddElement
      <3> QED
        BY <3>1, <2>1, <2>2, <2>4, <2>5, Counts
    <2>6. CASE ~IsHolder(c)
      <3>1. /\ IsFiniteSet(Holders \ {t})
            /\ Cardinality(Holders \ {t})
                 = IF t \in Holders THEN Cardinality(Holders) - 1
                                    ELSE Cardinality(Holders)
        BY <2>3, FS_RemoveElement
      <3> QED
        BY <3>1, <2>1, <2>2, <2>4, <2>6, Counts
    <2> QED
      BY <2>5, <2>6
  <1>5. \A u \in Tasks :
          call'[u].phase = "backoff" => call'[u].attempt < MaxAttempts
    BY <1>2 DEF CallInv
  <1>6. RetryLoopNeverFallsThrough'
    BY <1>2 DEF CallInv, RetryLoopNeverFallsThrough, Over
  <1> QED
    BY <1>1, <1>3, <1>4, <1>5, <1>6 DEF CallInv

\* A step that touches neither the calls nor the semaphore.
LEMMA Stuttering ==
    ASSUME NEW outcomes, NEW requests, CallsOK(outcomes, requests), CallInv,
           UNCHANGED callVars
    PROVE  CallsOK(outcomes, requests)' /\ CallInv'
  BY DEF callVars, semaphoreVars, CallsOK, CallInv, SemaphoreInv, Queue, Spare,
         Holders, NoForgottenWaiter, RetryLoopNeverFallsThrough

\* A step in which only calls that are over get another outcome.
LEMMA Resetting ==
    ASSUME NEW outcomes, NEW requests, CallsOK(outcomes, requests), CallInv,
           NEW outcome \in outcomes, outcome # "unreachable",
           UNCHANGED semaphoreVars,
           call' = [t \in Tasks |-> call'[t]],
           \A t \in Tasks :
             \/ call'[t] = call[t]
             \/ call[t].phase = "over" /\ call'[t] = Over(outcome)
    PROVE  CallsOK(outcomes, requests)' /\ CallInv'
  <1>1. CallsOK(outcomes, requests)'
    BY DEF CallsOK, CallStates
  <1>2. \A t \in Tasks :
          /\ call'[t].phase = call[t].phase
          /\ call'[t].phase # "over" => call'[t] = call[t]
          /\ call'[t] # Over("unreachable")
    BY DEF CallInv, RetryLoopNeverFallsThrough, Over
  <1>3. Holders' = Holders
    BY <1>2 DEF Holders
  <1>4. {t \in Tasks : call'[t].phase = "queued"}
          = {t \in Tasks : call[t].phase = "queued"}
    BY <1>2
  <1>5. SemaphoreInv' /\ Queue' = Queue /\ Spare' = Spare
    BY DEF semaphoreVars, CallInv, SemaphoreInv, Queue, Spare, NoForgottenWaiter
  <1> QED
    BY <1>1, <1>2, <1>3, <1>4, <1>5 DEF CallInv, RetryLoopNeverFallsThrough

\* What the phase of a call says about its record.
LEMMA Phases ==
    ASSUME NEW outcomes, NEW requests, CallsOK(outcomes, requests),
           NEW t \in Tasks
    PROVE  /\ call[t].phase # "over" =>
                call[t] \in [phase : {"queued", "sending", "backoff"},
                             req : requests, attempt : 1..MaxAttempts]
           /\ call[t].phase = "over" => \E o \in outcomes : call[t] = Over(o)
  BY DEF CallsOK, CallStates, Calls, Over

\* The operations of RetryingCalls keep the invariant.  A client that answers
\* a call at once does, too.
LEMMA EndingOver ==
    ASSUME NEW outcomes, NEW requests, CallsOK(outcomes, requests), CallInv,
           NEW t \in Tasks, NEW outcome \in outcomes, outcome # "unreachable",
           call[t].phase = "over",
           call' = [call EXCEPT ![t] = Over(outcome)],
           UNCHANGED semaphoreVars
    PROVE  CallsOK(outcomes, requests)' /\ CallInv'
  <1> DEFINE c == Over(outcome)
  <1>1. /\ c \in CallStates(outcomes, requests)
        /\ c.phase = "over"
        /\ c # Over("unreachable")
        /\ ~IsHolder(c)
    BY DEF CallStates, Over, IsHolder
  <1>2. t \notin Queue /\ ~IsHolder(call[t])
    BY DEF CallInv, IsHolder
  <1>3. call' = [call EXCEPT ![t] = c]
    OBVIOUS
  <1> HIDE DEF c
  <1>4. /\ SemaphoreInv'
        /\ Queue' = Queue \ {t}
        /\ Spare' = Spare
    BY <1>2
    DEF semaphoreVars, CallInv, SemaphoreInv, Queue, Spare, NoForgottenWaiter
  <1>5. Spare' = Spare + (IF IsHolder(call[t]) THEN 1 ELSE 0)
                        - (IF IsHolder(c) THEN 1 ELSE 0)
    BY <1>1, <1>2, <1>4, Counts
  <1> QED
    BY <1>1, <1>3, <1>4, <1>5, Moving

\* acquire, with or without a permit to be had.
LEMMA BeginKeeps ==
    ASSUME NEW outcomes, NEW requests, CallsOK(outcomes, requests), CallInv,
           NEW t \in Tasks, NEW req \in requests,
           call[t].phase = "over", Begin(t, req)
    PROVE  CallsOK(outcomes, requests)' /\ CallInv'
  <1>1. PICK phase \in {"sending", "queued"} :
          /\ IF phase = "sending" THEN AcquireNow ELSE Enqueue(t)
          /\ call' = [call EXCEPT ![t] = [phase |-> phase, req |-> req,
                                          attempt |-> 1]]
    BY DEF Begin
  <1> DEFINE c == [phase |-> phase, req |-> req, attempt |-> 1]
  <1>2. /\ c \in CallStates(outcomes, requests)
        /\ c.phase = phase
        /\ c # Over("unreachable")
    BY AttemptsAssumption DEF CallStates, Calls, Over
  <1>3. t \notin Queue /\ ~IsHolder(call[t])
    BY DEF CallInv, IsHolder
  <1>4. IsHolder(c) <=> phase = "sending"
    BY DEF IsHolder
  <1>5. SemaphoreInv
    BY DEF CallInv
  <1>6. /\ SemaphoreInv'
        /\ Queue' = IF phase = "queued" THEN Queue \cup {t} ELSE Queue \ {t}
        /\ Spare' = Spare - (IF phase = "sending" THEN 1 ELSE 0)
    <2>1. CASE phase = "sending"
      BY <2>1, <1>1, <1>3, <1>5, EnteringAtOnce
    <2>2. CASE phase = "queued"
      BY <2>2, <1>1, <1>3, <1>5, Queueing, Counts
    <2> QED
      BY <2>1, <2>2
  <1> HIDE DEF c
  <1>7. Spare' = Spare + (IF IsHolder(call[t]) THEN 1 ELSE 0)
                      - (IF IsHolder(c) THEN 1 ELSE 0)
    BY <1>3, <1>4, <1>6, Counts
  <1>8. call' = [call EXCEPT ![t] = c]
    BY <1>1 DEF c
  <1> QED
    BY <1>1, <1>2, <1>6, <1>7, <1>8, Moving

\* The semaphore lets a call in.
LEMMA LetInKeeps ==
    ASSUME NEW outcomes, NEW requests, CallsOK(outcomes, requests), CallInv,
           NEW t \in Tasks, LetIn(t)
    PROVE  CallsOK(outcomes, requests)' /\ CallInv'
  <1> DEFINE c == [call[t] EXCEPT !.phase = "sending"]
  <1>1. /\ call[t].phase = "queued"
        /\ Resume(t)
        /\ call' = [call EXCEPT ![t] = c]
    BY DEF LetIn, Goto
  <1>2. call[t] \in [phase : {"queued", "sending", "backoff"},
                     req : requests, attempt : 1..MaxAttempts]
    BY <1>1, Phases
  <1>3. /\ c \in CallStates(outcomes, requests)
        /\ c.phase = "sending"
        /\ c # Over("unreachable")
    BY <1>2 DEF CallStates, Calls, Over
  <1>4. IsHolder(c) /\ ~IsHolder(call[t])
    BY <1>1, <1>3 DEF IsHolder
  <1> HIDE DEF c
  <1>5. /\ SemaphoreInv'
        /\ Queue' = Queue \ {t}
        /\ Spare' = Spare - 1
    BY <1>1, Resuming DEF CallInv
  <1>6. Spare' = Spare + (IF IsHolder(call[t]) THEN 1 ELSE 0)
                        - (IF IsHolder(c) THEN 1 ELSE 0)
    BY <1>4, <1>5, Counts
  <1> QED
    BY <1>1, <1>3, <1>5, <1>6, Moving

\* A call that holds a permit ends and gives it back.
LEMMA LeaveKeeps ==
    ASSUME NEW outcomes, NEW requests, CallsOK(outcomes, requests), CallInv,
           NEW t \in Tasks, NEW outcome \in outcomes, outcome # "unreachable",
           IsHolder(call[t]), Leave(t, outcome)
    PROVE  CallsOK(outcomes, requests)' /\ CallInv'
  <1> DEFINE c == Over(outcome)
  <1>1. /\ call' = [call EXCEPT ![t] = c]
        /\ Release
    BY DEF Leave
  <1>2. /\ c \in CallStates(outcomes, requests)
        /\ c.phase = "over"
        /\ c # Over("unreachable")
        /\ ~IsHolder(c)
    BY DEF CallStates, Over, IsHolder
  <1>3. t \notin Queue
    BY DEF CallInv, IsHolder
  <1> HIDE DEF c
  <1>4. /\ SemaphoreInv'
        /\ Queue' = Queue \ {t}
        /\ Spare' = Spare + 1
    BY <1>1, <1>3, Releasing DEF CallInv
  <1>5. Spare' = Spare + (IF IsHolder(call[t]) THEN 1 ELSE 0)
                        - (IF IsHolder(c) THEN 1 ELSE 0)
    BY <1>2, <1>4, Counts
  <1> QED
    BY <1>1, <1>2, <1>4, <1>5, Moving

\* A failure keeps the permit for the backoff, or ends the call.
LEMMA FailKeeps ==
    ASSUME NEW outcomes, NEW requests, CallsOK(outcomes, requests), CallInv,
           NEW t \in Tasks, "error" \in outcomes, Fail(t)
    PROVE  CallsOK(outcomes, requests)' /\ CallInv'
  <1>1. call[t].phase = "sending" /\ IsHolder(call[t])
    BY DEF Fail, IsHolder
  <1>2. CASE MayRetry(call[t].attempt)
    <2> DEFINE c == [call[t] EXCEPT !.phase = "backoff"]
    <2>1. /\ call' = [call EXCEPT ![t] = c]
          /\ UNCHANGED semaphoreVars
      BY <1>2 DEF Fail, Goto
    <2>2. call[t] \in [phase : {"queued", "sending", "backoff"},
                       req : requests, attempt : 1..MaxAttempts]
      BY <1>1, Phases
    <2>3. /\ c \in CallStates(outcomes, requests)
          /\ c.phase = "backoff"
          /\ c.attempt < MaxAttempts
          /\ c # Over("unreachable")
          /\ IsHolder(c)
      BY <1>2, <2>2 DEF CallStates, Calls, Over, IsHolder, MayRetry
    <2>4. t \notin Queue
      BY <1>1 DEF CallInv
    <2> HIDE DEF c
    <2>5. /\ SemaphoreInv'
          /\ Queue' = Queue \ {t}
          /\ Spare' = Spare
      BY <2>1, <2>4
      DEF semaphoreVars, CallInv, SemaphoreInv, Queue, Spare, NoForgottenWaiter
    <2>6. Spare' = Spare + (IF IsHolder(call[t]) THEN 1 ELSE 0)
                          - (IF IsHolder(c) THEN 1 ELSE 0)
      BY <1>1, <2>3, <2>5, Counts
    <2> QED
      BY <2>1, <2>3, <2>5, <2>6, Moving
  <1>3. CASE ~MayRetry(call[t].attempt)
    BY <1>1, <1>3, LeaveKeeps DEF Fail
  <1> QED
    BY <1>2, <1>3

\* A call that backs off has a turn of the loop left.
LEMMA NextTurnKeeps ==
    ASSUME NEW outcomes, NEW requests, CallsOK(outcomes, requests), CallInv,
           NEW t \in Tasks, NextTurn(t)
    PROVE  CallsOK(outcomes, requests)' /\ CallInv'
  <1> DEFINE c == [call[t] EXCEPT !.phase = "sending",
                                  !.attempt = call[t].attempt + 1]
  <1>1. call[t].phase = "backoff" /\ IsHolder(call[t])
    BY DEF NextTurn, IsHolder
  <1>2. call[t] \in [phase : {"queued", "sending", "backoff"},
                     req : requests, attempt : 1..MaxAttempts]
    BY <1>1, Phases
  <1>3. call[t].attempt + 1 \in 1..MaxAttempts
    BY <1>1, <1>2, AttemptsAssumption DEF CallInv
  <1>4. /\ call' = [call EXCEPT ![t].phase = "sending", ![t].attempt = @ + 1]
        /\ UNCHANGED semaphoreVars
    BY <1>3, AttemptsAssumption DEF NextTurn
  <1>5. call' = [call EXCEPT ![t] = c]
    BY <1>4 DEF CallsOK
  <1>6. /\ c \in CallStates(outcomes, requests)
        /\ c.phase = "sending"
        /\ c # Over("unreachable")
        /\ IsHolder(c)
    BY <1>2, <1>3 DEF CallStates, Calls, Over, IsHolder
  <1>7. t \notin Queue
    BY <1>1 DEF CallInv
  <1> HIDE DEF c
  <1>8. /\ SemaphoreInv'
        /\ Queue' = Queue \ {t}
        /\ Spare' = Spare
    BY <1>4, <1>7
    DEF semaphoreVars, CallInv, SemaphoreInv, Queue, Spare, NoForgottenWaiter
  <1>9. Spare' = Spare + (IF IsHolder(call[t]) THEN 1 ELSE 0)
                        - (IF IsHolder(c) THEN 1 ELSE 0)
    BY <1>1, <1>6, <1>8, Counts
  <1> QED
    BY <1>5, <1>6, <1>8, <1>9, Moving

\* A cancellation, wherever it hits the call.
LEMMA CancelledKeeps ==
    ASSUME NEW outcomes, NEW requests, CallsOK(outcomes, requests), CallInv,
           NEW t \in Tasks, "cancelled" \in outcomes, Cancelled(t)
    PROVE  CallsOK(outcomes, requests)' /\ CallInv'
  <1> DEFINE c == Over("cancelled")
  <1>1. CASE /\ call[t].phase = "queued"
             /\ CancelPending(t) \/ CancelGranted(t)
             /\ call' = [call EXCEPT ![t] = c]
    <2>1. /\ c \in CallStates(outcomes, requests)
          /\ c.phase = "over"
          /\ c # Over("unreachable")
          /\ ~IsHolder(c)
      BY DEF CallStates, Over, IsHolder
    <2>2. ~IsHolder(call[t])
      BY <1>1 DEF IsHolder
    <2>3. call' = [call EXCEPT ![t] = c]
      BY <1>1
    <2> HIDE DEF c
    <2>4. /\ SemaphoreInv'
          /\ Queue' = Queue \ {t}
          /\ Spare' = Spare
      BY <1>1, CancellingPending, CancellingGranted DEF CallInv
    <2>5. Spare' = Spare + (IF IsHolder(call[t]) THEN 1 ELSE 0)
                          - (IF IsHolder(c) THEN 1 ELSE 0)
      BY <2>1, <2>2, <2>4, Counts
    <2> QED
      BY <2>1, <2>3, <2>4, <2>5, Moving
  <1>2. CASE /\ call[t].phase \in {"sending", "backoff"}
             /\ Leave(t, "cancelled")
    BY <1>2, LeaveKeeps DEF IsHolder
  <1> QED
    BY <1>1, <1>2 DEF Cancelled

-----------------------------------------------------------------------------
(* The cache: each method keeps the entries well formed, within the limit  *)
(* and one per key, and what it may leave in the cache.                    *)

UniqueKeys(s) == \A i, j \in DOMAIN s : s[i].key = s[j].key => i = j

\* The entries of a cached key, by position and as the others.
LEMMA Position ==
    ASSUME NEW key, key \in CachedKeys
    PROVE  /\ PositionOf(key) \in DOMAIN entries
           /\ entries[PositionOf(key)].key = key
           /\ EntryOf(key) \in ToSet(entries)
           /\ EntryOf(key).key = key
  <1>1. \E i \in DOMAIN entries : entries[i].key = key
    BY DEF CachedKeys, ToSet
  <1>2. /\ PositionOf(key) \in DOMAIN entries
        /\ entries[PositionOf(key)].key = key
    BY <1>1 DEF PositionOf
  <1> QED
    BY <1>2 DEF EntryOf, ToSet

\* The elements of a sequence from which one is removed.
LEMMA Removal ==
    ASSUME NEW S, NEW s \in Seq(S), NEW k \in 1..Len(s)
    PROVE  /\ RemoveAt(s, k) \in Seq(S)
           /\ Len(RemoveAt(s, k)) = Len(s) - 1
           /\ \A i \in 1..(Len(s) - 1) :
                RemoveAt(s, k)[i] = IF i < k THEN s[i] ELSE s[i + 1]
  <1> DEFINE front == SubSeq(s, 1, k - 1)
             back == SubSeq(s, k + 1, Len(s))
  <1>1. Len(s) \in Nat /\ k \in Nat /\ 1 <= k /\ k <= Len(s)
    OBVIOUS
  <1>2. /\ front \in Seq(S)
        /\ Len(front) = k - 1
        /\ \A i \in 1..(k - 1) : front[i] = s[i]
    BY <1>1
  <1>3. /\ back \in Seq(S)
        /\ Len(back) = Len(s) - k
        /\ \A i \in 1..(Len(s) - k) : back[i] = s[k + i]
    BY <1>1
  <1>4. RemoveAt(s, k) = front \o back
    BY DEF RemoveAt
  <1> HIDE DEF front, back
  <1>5. /\ front \o back \in Seq(S)
        /\ Len(front \o back) = Len(front) + Len(back)
        /\ \A i \in 1..(Len(front) + Len(back)) :
             (front \o back)[i] = IF i <= Len(front) THEN front[i]
                                  ELSE back[i - Len(front)]
    BY <1>2, <1>3, ConcatProperties
  <1>6. Len(front) + Len(back) = Len(s) - 1
    BY <1>1, <1>2, <1>3
  <1>7. ASSUME NEW i \in 1..(Len(s) - 1)
        PROVE  (front \o back)[i] = IF i < k THEN s[i] ELSE s[i + 1]
    <2>1. (front \o back)[i] = IF i <= k - 1 THEN front[i] ELSE back[i - (k - 1)]
      BY <1>2, <1>5, <1>6
    <2>2. CASE i < k
      BY <2>1, <2>2, <1>1, <1>2
    <2>3. CASE ~(i < k)
      <3>1. i - (k - 1) \in 1..(Len(s) - k) /\ k + (i - (k - 1)) = i + 1
        BY <2>3, <1>1
      <3>2. (front \o back)[i] = back[i - (k - 1)]
        BY <2>1, <2>3, <1>1
      <3> QED
        BY <3>1, <3>2, <2>3, <1>3
    <2> QED
      BY <2>2, <2>3
  <1> QED
    BY <1>4, <1>5, <1>6, <1>7

\* What is left when a key is taken out.
LEMMA WithoutKey ==
    ASSUME CacheTypeOK, NEW key
    PROVE  /\ Without(key) \in Seq(Entries)
           /\ UniqueKeys(Without(key))
           /\ Len(Without(key)) <= Len(entries)
           /\ key \in CachedKeys => Len(Without(key)) = Len(entries) - 1
           /\ \A e \in ToSet(Without(key)) : e \in ToSet(entries) /\ e.key # key
  <1> DEFINE s == Without(key)
             n == Len(entries)
  <1>1. /\ entries \in Seq(Entries)
        /\ n \in Nat
        /\ DOMAIN entries = 1..n
        /\ UniqueKeys(entries)
    BY DEF CacheTypeOK, UniqueKeys
  <1>2. CASE key \notin CachedKeys
    <2>1. s = entries
      BY <1>2 DEF Without
    <2>2. \A e \in ToSet(entries) : e.key # key
      BY <1>2 DEF CachedKeys
    <2>3. Len(s) <= n
      BY <2>1, <1>1
    <2>4. \A e \in ToSet(s) : e \in ToSet(entries) /\ e.key # key
      BY <2>1, <2>2
    <2>5. s \in Seq(Entries) /\ UniqueKeys(s)
      BY <2>1, <1>1
    <2> QED
      BY <2>3, <2>4, <2>5, <1>2
  <1>3. CASE key \in CachedKeys
    <2> DEFINE k == PositionOf(key)
    <2>1. k \in 1..n /\ entries[k].key = key
      BY <1>1, <1>3, Position
    <2>2. s = RemoveAt(entries, k)
      BY <1>3 DEF Without
    <2> HIDE DEF k, s
    <2>3. /\ s \in Seq(Entries)
          /\ Len(s) = n - 1
          /\ \A i \in 1..(n - 1) :
               s[i] = IF i < k THEN entries[i] ELSE entries[i + 1]
      BY <2>1, <2>2, <1>1, Removal
    <2> DEFINE old(i) == IF i < k THEN i ELSE i + 1
    <2>4. DOMAIN s = 1..(n - 1)
      BY <2>3, <1>1
    <2> HIDE DEF n
    <2>5. \A i \in 1..(n - 1) : old(i) \in 1..n /\ old(i) # k /\ s[i] = entries[old(i)]
      BY <2>1, <2>3, <1>1
    <2>6. UniqueKeys(s)
      <3> SUFFICES ASSUME NEW i \in 1..(n - 1), NEW j \in 1..(n - 1),
                          s[i].key = s[j].key
                   PROVE  i = j
        BY <2>4 DEF UniqueKeys
      <3>1. old(i) = old(j)
        BY <2>5, <1>1 DEF UniqueKeys
      <3> QED
        BY <3>1, <2>1, <1>1
    <2>7. ASSUME NEW e \in ToSet(s)
          PROVE  e \in ToSet(entries) /\ e.key # key
      <3>1. PICK i \in 1..(n - 1) : e = s[i]
        BY <2>4 DEF ToSet
      <3>2. e = entries[old(i)] /\ old(i) \in 1..n /\ old(i) # k
        BY <3>1, <2>5
      <3> HIDE DEF old
      <3> QED
        BY <3>2, <2>1, <1>1 DEF UniqueKeys, ToSet
    <2> QED
      BY <2>3, <2>6, <2>7, <1>1 DEF n, s
  <1> QED
    BY <1>2, <1>3

\* A key that is not there can be added as the newest.
LEMMA Appending ==
    ASSUME NEW s \in Seq(Entries), UniqueKeys(s), NEW e \in Entries,
           \A d \in ToSet(s) : d.key # e.key
    PROVE  /\ Append(s, e) \in Seq(Entries)
           /\ Len(Append(s, e)) = Len(s) + 1
           /\ UniqueKeys(Append(s, e))
           /\ ToSet(Append(s, e)) = ToSet(s) \cup {e}
  <1>1. /\ Len(s) \in Nat
        /\ DOMAIN s = 1..Len(s)
    OBVIOUS
  <1>2. /\ Append(s, e) \in Seq(Entries)
        /\ Len(Append(s, e)) = Len(s) + 1
        /\ DOMAIN Append(s, e) = 1..(Len(s) + 1)
        /\ \A i \in 1..Len(s) : Append(s, e)[i] = s[i]
        /\ Append(s, e)[Len(s) + 1] = e
    OBVIOUS
  <1>3. \A i \in 1..Len(s) : s[i].key # e.key
    BY <1>1 DEF ToSet
  <1>4. UniqueKeys(Append(s, e))
    BY <1>1, <1>2, <1>3 DEF UniqueKeys
  <1>5. ToSet(Append(s, e)) = ToSet(s) \cup {e}
    BY <1>1, <1>2 DEF ToSet
  <1> QED
    BY <1>2, <1>4, <1>5

\* Eviction keeps the newest entries, as many as the limit allows.
LEMMA Evicting ==
    ASSUME NEW s \in Seq(Entries), UniqueKeys(s)
    PROVE  /\ Evicted(s) \in Seq(Entries)
           /\ UniqueKeys(Evicted(s))
           /\ Len(Evicted(s)) <= MaxEntries
           /\ ToSet(Evicted(s)) \subseteq ToSet(s)
  <1>1. /\ Len(s) \in Nat
        /\ DOMAIN s = 1..Len(s)
        /\ MaxEntries \in Nat \ {0}
    BY CacheAssumption
  <1>2. CASE ~(Len(s) > MaxEntries)
    BY <1>1, <1>2 DEF Evicted
  <1>3. CASE Len(s) > MaxEntries
    <2> DEFINE d == Len(s) - MaxEntries
               kept == SubSeq(s, d + 1, Len(s))
    <2>1. d \in Nat /\ d + MaxEntries = Len(s)
      BY <1>1, <1>3
    <2>2. Evicted(s) = kept
      BY <1>3 DEF Evicted
    <2>3. /\ kept \in Seq(Entries)
          /\ Len(kept) = MaxEntries
          /\ \A i \in 1..MaxEntries : kept[i] = s[d + i]
      <3>1. /\ d + 1 \in Int /\ Len(s) \in Int
            /\ \A i \in (d + 1)..Len(s) : s[i] \in Entries
            /\ d + 1 <= Len(s)
            /\ Len(s) - (d + 1) + 1 = MaxEntries
        BY <1>1, <2>1
      <3>2. /\ kept \in Seq(Entries)
            /\ Len(kept) = MaxEntries
            /\ \A i \in 1..MaxEntries : kept[i] = s[(d + 1) + i - 1]
        <4> HIDE DEF d
        <4> QED
          BY <3>1, SubSeqProperties
      <3>3. \A i \in 1..MaxEntries : (d + 1) + i - 1 = d + i
        BY <2>1, <1>1
      <3> QED
        BY <3>2, <3>3
    <2>4. DOMAIN kept = 1..MaxEntries
      BY <2>3, LenProperties
    <2> HIDE DEF d, kept
    <2>5. \A i \in 1..MaxEntries : d + i \in DOMAIN s
      BY <1>1, <2>1
    <2>6. UniqueKeys(kept)
      <3> SUFFICES ASSUME NEW i \in 1..MaxEntries, NEW j \in 1..MaxEntries,
                          kept[i].key = kept[j].key
                   PROVE  i = j
        BY <2>4 DEF UniqueKeys
      <3>1. d + i = d + j
        BY <2>3, <2>5 DEF UniqueKeys
      <3> QED
        BY <3>1, <2>1, <1>1
    <2>7. ToSet(kept) \subseteq ToSet(s)
      BY <2>3, <2>4, <2>5 DEF ToSet
    <2> QED
      BY <1>1, <2>2, <2>3, <2>6, <2>7
  <1> QED
    BY <1>2, <1>3

\* get returns nothing, or the value of a fresh entry of the key asked for.
LEMMA LookingUp ==
    ASSUME NEW key, Lookup(key) # None
    PROVE  \E e \in ToSet(entries) :
             e.key = key /\ e.value = Lookup(key) /\ ~Expired(e)
  BY Position DEF Lookup, Live

\* get adds nothing to the cache and keeps it well formed.
LEMMA GetKeeps ==
    ASSUME CacheTypeOK, NEW key, Get(key)
    PROVE  /\ CacheTypeOK'
           /\ ToSet(entries') \subseteq ToSet(entries)
  <1>1. /\ entries \in Seq(Entries)
        /\ UniqueKeys(entries)
        /\ Len(entries) <= MaxEntries
        /\ Len(entries) \in Nat
        /\ time' = time
        /\ time \in Nat
        /\ MaxEntries \in Nat
    BY CacheAssumption DEF CacheTypeOK, UniqueKeys, Get
  <1>2. CASE entries' = entries
    BY <1>1, <1>2 DEF CacheTypeOK, UniqueKeys
  <1>3. CASE entries' = Without(key)
    <2>1. /\ entries' \in Seq(Entries)
          /\ UniqueKeys(entries')
          /\ Len(entries') <= Len(entries)
          /\ ToSet(entries') \subseteq ToSet(entries)
      BY <1>3, WithoutKey
    <2>2. Len(entries') \in Nat
      BY <2>1
    <2> QED
      BY <1>1, <2>1, <2>2 DEF CacheTypeOK, UniqueKeys
  <1>4. CASE key \in CachedKeys /\ entries' = Touched(key)
    <2> DEFINE w == Without(key)
               e == EntryOf(key)
    <2>1. /\ w \in Seq(Entries)
          /\ UniqueKeys(w)
          /\ Len(w) = Len(entries) - 1
          /\ \A d \in ToSet(w) : d \in ToSet(entries) /\ d.key # key
      BY <1>4, WithoutKey
    <2>2. e \in ToSet(entries) /\ e.key = key
      BY <1>4, Position
    <2>3. e \in Entries
      BY <1>1, <2>2 DEF ToSet
    <2>4. entries' = Append(w, e)
      BY <1>4 DEF Touched
    <2> HIDE DEF w, e
    <2>5. /\ entries' \in Seq(Entries)
          /\ Len(entries') = Len(w) + 1
          /\ UniqueKeys(entries')
          /\ ToSet(entries') = ToSet(w) \cup {e}
      BY <2>1, <2>2, <2>3, <2>4, Appending
    <2>6. Len(entries') = Len(entries)
      BY <1>1, <2>1, <2>5
    <2> QED
      BY <1>1, <2>1, <2>2, <2>5, <2>6 DEF CacheTypeOK, UniqueKeys
  <1> QED
    BY <1>2, <1>3, <1>4 DEF Get, Live

\* set adds nothing but the entry it was asked for, within the limit.
LEMMA SetKeeps ==
    ASSUME CacheTypeOK, NEW key \in Keys, NEW value \in Values, Set(key, value)
    PROVE  /\ CacheTypeOK'
           /\ \A e \in ToSet(entries') :
                \/ e \in ToSet(entries)
                \/ /\ e.key = key /\ e.value = value
                   /\ e.expires_at = time + TTL
  <1>1. CASE TTL = 0
    BY <1>1 DEF Set, CacheTypeOK
  <1>2. CASE TTL # 0
    <2> DEFINE w == Without(key)
               e == [key |-> key, expires_at |-> time + TTL, value |-> value]
    <2>1. /\ w \in Seq(Entries)
          /\ UniqueKeys(w)
          /\ \A d \in ToSet(w) : d \in ToSet(entries) /\ d.key # key
      BY WithoutKey
    <2>2. /\ e \in Entries /\ e.key = key /\ e.value = value
          /\ e.expires_at = time + TTL
      BY CacheAssumption DEF Entries, CacheTypeOK
    <2>3. entries' = Evicted(Append(w, e))
      BY <1>2 DEF Set, Stored
    <2> HIDE DEF w, e
    <2>4. /\ Append(w, e) \in Seq(Entries)
          /\ UniqueKeys(Append(w, e))
          /\ ToSet(Append(w, e)) = ToSet(w) \cup {e}
      BY <2>1, <2>2, Appending
    <2>5. /\ entries' \in Seq(Entries)
          /\ UniqueKeys(entries')
          /\ Len(entries') <= MaxEntries
          /\ ToSet(entries') \subseteq ToSet(w) \cup {e}
      BY <2>3, <2>4, Evicting
    <2>6. time' \in Nat
      BY DEF Set, CacheTypeOK
    <2> QED
      BY <2>1, <2>2, <2>5, <2>6 DEF CacheTypeOK, UniqueKeys
  <1> QED
    BY <1>1, <1>2

\* clear and the clock.
LEMMA ClearKeeps ==
    ASSUME CacheTypeOK, Clear
    PROVE  CacheTypeOK' /\ ToSet(entries') = {}
  BY CacheAssumption DEF Clear, CacheTypeOK, ToSet

\* Time passes and changes no entry.
LEMMA TickKeeps ==
    ASSUME CacheTypeOK, CacheTick
    PROVE  CacheTypeOK' /\ entries' = entries
  BY DEF CacheTick, CacheTypeOK

\* A step of a client that does not touch its cache.
LEMMA CacheUnchanged ==
    ASSUME CacheTypeOK, UNCHANGED cacheVars
    PROVE  CacheTypeOK' /\ entries' = entries
  BY DEF cacheVars, CacheTypeOK

-----------------------------------------------------------------------------
(* The cache under any sequence of calls                                   *)

\* s is a part of t in the same order.
PartOf(s, t) ==
    \E place \in [DOMAIN s -> DOMAIN t] :
      /\ \A i \in DOMAIN s : s[i] = t[place[i]]
      /\ \A i, j \in DOMAIN s : i < j <=> place[i] < place[j]

\* The entries s are ordered by last use, where since is the history usedSince.
ByUse(s, since) ==
    \A i, j \in DOMAIN s : i < j <=> s[j].key \in since[s[i].key]

\* Every entry holds what was stored last under its key, and expires TTL ticks
\* after that.
HoldsLast(e, last) ==
    \E l \in last[e.key] : e.value = l.value /\ e.expires_at = l.at + TTL

UseInv ==
    /\ CacheTypeOK
    /\ usedSince \in [Keys -> SUBSET Keys]
    /\ stored \in [Keys -> SUBSET [value : Values, at : Nat]]
    /\ ByUse(entries, usedSince)
    /\ \A e \in ToSet(entries) : HoldsLast(e, stored)
    /\ TTL = 0 => entries = <<>>

\* The order of the entries is also that of a part of them.
LEMMA PartKeepsOrder ==
    ASSUME NEW s, NEW t, NEW since, PartOf(s, t), ByUse(t, since)
    PROVE  ByUse(s, since)
  BY DEF PartOf, ByUse

\* A key that is used now is the newest.
LEMMA NewestIsLast ==
    ASSUME NEW s \in Seq(Entries), UniqueKeys(s), NEW e \in Entries,
           \A d \in ToSet(s) : d.key # e.key,
           NEW since \in [Keys -> SUBSET Keys], ByUse(s, since),
           NEW now, now = [k \in Keys |-> IF k = e.key THEN {}
                                          ELSE since[k] \cup {e.key}]
    PROVE  ByUse(Append(s, e), now)
  <1> DEFINE n == Len(s)
             t == Append(s, e)
  <1>1. /\ n \in Nat
        /\ DOMAIN s = 1..n
        /\ DOMAIN t = 1..(n + 1)
        /\ \A i \in 1..n : t[i] = s[i] /\ s[i] \in Entries /\ s[i].key # e.key
        /\ t[n + 1] = e
    BY DEF ToSet
  <1> HIDE DEF n, t
  <1>2. /\ \A i \in 1..n : s[i].key \in Keys
        /\ e.key \in Keys
    BY <1>1 DEF Entries
  <1> SUFFICES ASSUME NEW i \in 1..(n + 1), NEW j \in 1..(n + 1)
               PROVE  i < j <=> t[j].key \in now[t[i].key]
    BY <1>1 DEF ByUse, t
  <1>3. CASE i = n + 1
    BY <1>1, <1>2, <1>3
  <1>4. CASE i # n + 1 /\ j = n + 1
    <2>1. i \in 1..n
      BY <1>1, <1>4
    <2> QED
      BY <1>1, <1>2, <1>4, <2>1
  <1>5. CASE i # n + 1 /\ j # n + 1
    <2>1. i \in 1..n /\ j \in 1..n
      BY <1>1, <1>5
    <2>2. now[t[i].key] = since[s[i].key] \cup {e.key} /\ t[j].key = s[j].key
      BY <1>1, <1>2, <2>1
    <2>3. i < j <=> s[j].key \in since[s[i].key]
      BY <1>1, <2>1 DEF ByUse
    <2> QED
      BY <1>1, <2>1, <2>2, <2>3
  <1> QED
    BY <1>3, <1>4, <1>5

\* Taking a key out leaves the other entries, in their order.
LEMMA WithoutIsPart ==
    ASSUME CacheTypeOK, NEW key
    PROVE  /\ PartOf(Without(key), entries)
           /\ \A e \in ToSet(entries) : e.key # key => e \in ToSet(Without(key))
  <1> DEFINE s == Without(key)
             n == Len(entries)
  <1>1. /\ entries \in Seq(Entries)
        /\ n \in Nat
        /\ DOMAIN entries = 1..n
        /\ UniqueKeys(entries)
    BY DEF CacheTypeOK, UniqueKeys
  <1>2. CASE key \notin CachedKeys
    <2>1. s = entries
      BY <1>2 DEF Without
    <2>2. PartOf(entries, entries)
      <3> DEFINE place == [i \in DOMAIN entries |-> i]
      <3>1. place \in [DOMAIN entries -> DOMAIN entries]
        OBVIOUS
      <3> QED
        BY <3>1 DEF PartOf
    <2> QED
      BY <2>1, <2>2
  <1>3. CASE key \in CachedKeys
    <2> DEFINE k == PositionOf(key)
               old(i) == IF i < k THEN i ELSE i + 1
               place == [i \in 1..(n - 1) |-> old(i)]
    <2>1. k \in 1..n /\ entries[k].key = key
      BY <1>1, <1>3, Position
    <2>2. s = RemoveAt(entries, k)
      BY <1>3 DEF Without
    <2> HIDE DEF k, s
    <2>3. /\ DOMAIN s = 1..(n - 1)
          /\ \A i \in 1..(n - 1) : s[i] = entries[old(i)]
      <3>1. /\ s \in Seq(Entries)
            /\ Len(s) = n - 1
            /\ \A i \in 1..(n - 1) :
                 s[i] = IF i < k THEN entries[i] ELSE entries[i + 1]
        BY <2>1, <2>2, <1>1, Removal
      <3> QED
        BY <3>1
    <2> HIDE DEF n
    <2>4. place \in [1..(n - 1) -> 1..n]
      BY <2>1, <1>1
    <2>5. \A i, j \in 1..(n - 1) : i < j <=> place[i] < place[j]
      BY <2>1, <1>1
    <2>6. PartOf(s, entries)
      <3>1. \A i \in 1..(n - 1) : s[i] = entries[place[i]]
        BY <2>3
      <3> HIDE DEF place
      <3> QED
        BY <3>1, <1>1, <2>3, <2>4, <2>5 DEF PartOf
    <2>7. ASSUME NEW e \in ToSet(entries), e.key # key
          PROVE  e \in ToSet(s)
      <3>1. PICK i \in 1..n : e = entries[i]
        BY <1>1 DEF ToSet
      <3>2. i # k
        BY <2>1, <2>7, <3>1
      <3>3. \E m \in 1..(n - 1) : old(m) = i
        <4>1. CASE i < k
          <5>1. i \in 1..(n - 1) /\ old(i) = i
            BY <4>1, <2>1, <1>1
          <5> QED
            BY <5>1
        <4>2. CASE ~(i < k)
          <5>1. i - 1 \in 1..(n - 1) /\ old(i - 1) = i
            BY <4>2, <3>2, <2>1, <1>1
          <5> QED
            BY <5>1
        <4> QED
          BY <4>1, <4>2
      <3> QED
        BY <3>1, <3>3, <2>3 DEF ToSet
    <2> QED
      BY <2>6, <2>7 DEF s
  <1> QED
    BY <1>2, <1>3

\* Eviction leaves the newest entries in their order; when one more than the
\* limit came, it drops the first and no other.
LEMMA EvictedIsPart ==
    ASSUME NEW s \in Seq(Entries)
    PROVE  /\ PartOf(Evicted(s), s)
           /\ Len(s) <= MaxEntries => Evicted(s) = s
           /\ Len(s) = MaxEntries + 1 =>
                \A i \in 2..Len(s) : s[i] \in ToSet(Evicted(s))
  <1>1. /\ Len(s) \in Nat
        /\ DOMAIN s = 1..Len(s)
        /\ MaxEntries \in Nat \ {0}
    BY CacheAssumption
  <1>2. CASE ~(Len(s) > MaxEntries)
    <2>1. Evicted(s) = s
      BY <1>2 DEF Evicted
    <2>2. PartOf(s, s)
      <3> DEFINE place == [i \in DOMAIN s |-> i]
      <3>1. place \in [DOMAIN s -> DOMAIN s]
        OBVIOUS
      <3> QED
        BY <3>1 DEF PartOf
    <2>3. Len(s) # MaxEntries + 1
      <3>1. ASSUME NEW m \in Nat, NEW n \in Nat, ~(n > m)
            PROVE  n # m + 1
        BY <3>1
      <3> QED
        BY <3>1, <1>1, <1>2
    <2> QED
      BY <2>1, <2>2, <2>3
  <1>3. CASE Len(s) > MaxEntries
    <2> DEFINE d == Len(s) - MaxEntries
               kept == SubSeq(s, d + 1, Len(s))
               place == [i \in 1..MaxEntries |-> d + i]
    <2>1. d \in Nat /\ d + MaxEntries = Len(s)
      BY <1>1, <1>3
    <2>2. Evicted(s) = kept
      BY <1>3 DEF Evicted
    <2>3. /\ DOMAIN kept = 1..MaxEntries
          /\ \A i \in 1..MaxEntries : kept[i] = s[d + i]
      <3>1. /\ d + 1 \in Int /\ Len(s) \in Int
            /\ \A i \in (d + 1)..Len(s) : s[i] \in Entries
            /\ d + 1 <= Len(s)
            /\ Len(s) - (d + 1) + 1 = MaxEntries
        BY <1>1, <2>1
      <3>2. /\ kept \in Seq(Entries)
            /\ Len(kept) = MaxEntries
            /\ \A i \in 1..MaxEntries : kept[i] = s[(d + 1) + i - 1]
        <4> HIDE DEF d
        <4> QED
          BY <3>1, SubSeqProperties
      <3>3. \A i \in 1..MaxEntries : (d + 1) + i - 1 = d + i
        BY <2>1, <1>1
      <3> QED
        BY <3>2, <3>3, LenProperties
    <2> HIDE DEF d, kept
    <2>4. place \in [1..MaxEntries -> 1..Len(s)]
      BY <1>1, <2>1
    <2>5. \A i, j \in 1..MaxEntries : i < j <=> place[i] < place[j]
      BY <1>1, <2>1
    <2>6. PartOf(kept, s)
      BY <1>1, <2>3, <2>4, <2>5 DEF PartOf
    <2>7. ASSUME Len(s) = MaxEntries + 1, NEW i \in 2..Len(s)
          PROVE  s[i] \in ToSet(kept)
      <3>1. d = 1 /\ i - 1 \in 1..MaxEntries /\ d + (i - 1) = i
        BY <1>1, <2>1, <2>7
      <3> QED
        BY <3>1, <2>3 DEF ToSet
    <2> QED
      <3>1. ~(Len(s) <= MaxEntries)
        BY <1>1, <1>3
      <3> QED
        BY <3>1, <2>2, <2>6, <2>7
  <1> QED
    BY <1>2, <1>3

\* What a hit or a miss leaves keeps the order and what was stored.
LEMMA GetCallKeeps ==
    ASSUME UseInv, NEW key \in Keys, GetCall(key)
    PROVE  UseInv'
  <1>1. CacheTypeOK' /\ ToSet(entries') \subseteq ToSet(entries)
    BY GetKeeps DEF UseInv, GetCall
  <1>2. stored' = stored
    BY DEF GetCall
  <1>3. \A e \in ToSet(entries') : HoldsLast(e, stored')
    BY <1>1, <1>2 DEF UseInv
  <1>4. /\ usedSince' \in [Keys -> SUBSET Keys]
        /\ TTL = 0 => entries' = <<>>
    BY DEF UseInv, GetCall, Used, Get, Live
  <1>5. ByUse(entries', usedSince')
    <2>1. CASE Live(key)
      <3> DEFINE w == Without(key)
                 e == EntryOf(key)
      <3>1. /\ entries' = Append(w, e)
            /\ usedSince' = [k \in Keys |-> IF k = key THEN {}
                                            ELSE usedSince[k] \cup {key}]
        BY <2>1 DEF GetCall, Get, Touched, Used
      <3>2. key \in CachedKeys
        BY <2>1 DEF Live
      <3>3. e \in ToSet(entries) /\ e.key = key
        BY <3>2, Position
      <3>4. e \in Entries
        BY <3>3 DEF UseInv, CacheTypeOK, ToSet
      <3>5. /\ w \in Seq(Entries)
            /\ UniqueKeys(w)
            /\ \A d \in ToSet(w) : d.key # e.key
        BY <3>3, WithoutKey DEF UseInv
      <3>6. ByUse(w, usedSince)
        BY WithoutIsPart, PartKeepsOrder DEF UseInv
      <3> HIDE DEF w, e
      <3> QED
        BY <3>1, <3>3, <3>4, <3>5, <3>6, NewestIsLast DEF UseInv
    <2>2. CASE ~Live(key)
      <3>1. /\ usedSince' = usedSince
            /\ entries' = entries \/ entries' = Without(key)
        BY <2>2 DEF GetCall, Get
      <3> QED
        BY <3>1, WithoutIsPart, PartKeepsOrder DEF UseInv
    <2> QED
      BY <2>1, <2>2
  <1> QED
    BY <1>1, <1>2, <1>3, <1>4, <1>5 DEF UseInv

\* The entry that set makes is the newest and holds what was stored last.
LEMMA SetCallKeeps ==
    ASSUME UseInv, NEW key \in Keys, NEW value \in Values, SetCall(key, value)
    PROVE  UseInv'
  <1> DEFINE w == Without(key)
             e == [key |-> key, expires_at |-> time + TTL, value |-> value]
  <1>1. CacheTypeOK'
    BY SetKeeps DEF UseInv, SetCall
  <1>2. /\ usedSince' = [k \in Keys |-> IF k = key THEN {}
                                        ELSE usedSince[k] \cup {key}]
        /\ usedSince' \in [Keys -> SUBSET Keys]
    BY DEF UseInv, SetCall, Used
  <1>3. stored' = [stored EXCEPT ![key] = {[value |-> value, at |-> time]}]
    BY DEF SetCall
  <1>4. time \in Nat /\ time + TTL \in Nat
    BY CacheAssumption DEF UseInv, CacheTypeOK
  <1>5. stored' \in [Keys -> SUBSET [value : Values, at : Nat]]
    BY <1>3, <1>4 DEF UseInv
  <1>6. CASE TTL = 0
    <2>1. entries' = entries
      BY <1>6 DEF SetCall, Set
    <2>2. entries = <<>>
      BY <1>6 DEF UseInv
    <2> QED
      BY <1>1, <1>2, <1>5, <1>6, <2>1, <2>2 DEF UseInv, ByUse, ToSet
  <1>7. CASE TTL # 0
    <2>1. /\ e \in Entries
          /\ e.key = key
          /\ e.value = value
          /\ e.expires_at = time + TTL
      BY <1>4 DEF Entries
    <2>2. /\ w \in Seq(Entries)
          /\ UniqueKeys(w)
          /\ \A d \in ToSet(w) : d \in ToSet(entries) /\ d.key # e.key
      BY WithoutKey DEF UseInv
    <2>3. entries' = Evicted(Append(w, e))
      BY <1>7 DEF SetCall, Set, Stored
    <2>4. ByUse(w, usedSince)
      BY WithoutIsPart, PartKeepsOrder DEF UseInv
    <2> HIDE DEF w, e
    <2>5. ByUse(Append(w, e), usedSince')
      BY <1>2, <2>1, <2>2, <2>4, NewestIsLast DEF UseInv
    <2>6. /\ Append(w, e) \in Seq(Entries)
          /\ UniqueKeys(Append(w, e))
          /\ ToSet(Append(w, e)) = ToSet(w) \cup {e}
      BY <2>1, <2>2, Appending
    <2>7. ByUse(entries', usedSince')
      BY <2>3, <2>5, <2>6, EvictedIsPart, PartKeepsOrder
    <2>8. ASSUME NEW d \in ToSet(entries')
          PROVE  HoldsLast(d, stored')
      <3>1. d \in ToSet(w) \/ d = e
        BY <2>3, <2>6, Evicting
      <3>2. CASE d = e
        <4>1. stored'[d.key] = {[value |-> value, at |-> time]}
          BY <1>3, <2>1, <3>2 DEF UseInv
        <4>2. /\ e.value = [value |-> value, at |-> time].value
              /\ e.expires_at = [value |-> value, at |-> time].at + TTL
          BY <2>1
        <4> QED
          BY <3>2, <4>1, <4>2 DEF HoldsLast
      <3>3. CASE d \in ToSet(w)
        <4>1. d \in ToSet(entries) /\ d.key # key
          BY <2>1, <2>2, <3>3
        <4>2. stored'[d.key] = stored[d.key]
          BY <1>3, <4>1 DEF UseInv
        <4> QED
          BY <4>1, <4>2 DEF UseInv, HoldsLast
      <3> QED
        BY <3>1, <3>2, <3>3
    <2> QED
      BY <1>1, <1>2, <1>5, <1>7, <2>7, <2>8 DEF UseInv
  <1> QED
    BY <1>6, <1>7

\* The invariant holds after any sequence of calls.
LEMMA UseInvariant == UseSpec => []UseInv
  <1>1. UseInit => UseInv
    <2> SUFFICES ASSUME UseInit PROVE UseInv
      OBVIOUS
    <2>1. /\ entries = <<>> /\ time = 0
          /\ usedSince = [k \in Keys |-> {}]
          /\ stored = [k \in Keys |-> {}]
      BY DEF UseInit, CacheInit
    <2>2. CacheTypeOK
      BY <2>1, CacheAssumption DEF CacheTypeOK
    <2> QED
      BY <2>1, <2>2 DEF UseInv, ByUse, ToSet
  <1>2. UseInv /\ [UseNext]_useVars => UseInv'
    <2> SUFFICES ASSUME UseInv, [UseNext]_useVars PROVE UseInv'
      OBVIOUS
    <2>1. ASSUME NEW k \in Keys, GetCall(k) PROVE UseInv'
      BY <2>1, GetCallKeeps
    <2>2. ASSUME NEW k \in Keys, NEW v \in Values, SetCall(k, v) PROVE UseInv'
      BY <2>2, SetCallKeeps
    <2>3. CASE ClearCall
      <3>1. CacheTypeOK' /\ entries' = <<>>
        BY <2>3, ClearKeeps DEF UseInv, ClearCall, Clear
      <3> QED
        BY <2>3, <3>1 DEF UseInv, ClearCall, ByUse, ToSet
    <2>4. CASE CacheTick /\ UNCHANGED <<usedSince, stored>>
      <3>1. CacheTypeOK' /\ entries' = entries
        BY <2>4, TickKeeps DEF UseInv
      <3> QED
        BY <2>4, <3>1 DEF UseInv
    <2>5. CASE UNCHANGED useVars
      <3>1. CacheTypeOK' /\ entries' = entries
        BY <2>5, CacheUnchanged DEF UseInv, useVars
      <3> QED
        BY <2>5, <3>1 DEF UseInv, useVars
    <2> QED
      BY <2>1, <2>2, <2>3, <2>4, <2>5 DEF UseNext
  <1> QED
    BY <1>1, <1>2, PTL DEF UseSpec

\* A hit is the last value stored under its key, and fresh.
THEOREM HitsAreFresh == UseSpec => []HitIsLastStored
  <1>1. UseInv => HitIsLastStored
    <2> SUFFICES ASSUME UseInv, NEW k \in Keys, Live(k)
                 PROVE  \E last \in stored[k] : /\ EntryOf(k).value = last.value
                                                /\ time < last.at + TTL
      BY DEF HitIsLastStored
    <2>1. /\ EntryOf(k) \in ToSet(entries)
          /\ EntryOf(k).key = k
      BY Position DEF Live
    <2>2. PICK last \in stored[k] : /\ EntryOf(k).value = last.value
                                    /\ EntryOf(k).expires_at = last.at + TTL
      BY <2>1 DEF UseInv, HoldsLast
    <2>3. EntryOf(k) \in Entries
      BY <2>1 DEF UseInv, CacheTypeOK, ToSet
    <2>4. ~(EntryOf(k).expires_at <= time)
      BY DEF Live, Expired
    <2>5. EntryOf(k).expires_at \in Nat /\ time \in Nat
      BY <2>3 DEF Entries, UseInv, CacheTypeOK
    <2> QED
      BY <2>2, <2>4, <2>5
  <1> QED
    BY <1>1, UseInvariant, PTL

\* The entries are in the order of their last use.
THEOREM OldestUseIsFirst == UseSpec => []OrderIsRecency
  <1>1. UseInv => OrderIsRecency
    BY DEF UseInv, ByUse, OrderIsRecency
  <1> QED
    BY <1>1, UseInvariant, PTL

\* What a step of set may lose: the first entry of a full cache, for a new key.
LEMMA SetLosesFirst ==
    ASSUME UseInv, NEW key \in Keys, NEW value \in Values, SetCall(key, value),
           NEW k \in CachedKeys, k \notin CachedKeys'
    PROVE  /\ Len(entries) = MaxEntries
           /\ entries[1].key = k
           /\ key \in CachedKeys' /\ key \notin CachedKeys
  <1> DEFINE w == Without(key)
             e == [key |-> key, expires_at |-> time + TTL, value |-> value]
             s == Append(w, e)
  <1>1. TTL # 0
    BY DEF SetCall, Set, CachedKeys
  <1>2. e \in Entries /\ e.key = key
    BY CacheAssumption DEF Entries, UseInv, CacheTypeOK
  <1>3. /\ w \in Seq(Entries)
        /\ UniqueKeys(w)
        /\ Len(w) <= Len(entries)
        /\ key \in CachedKeys => Len(w) = Len(entries) - 1
        /\ \A d \in ToSet(w) : d \in ToSet(entries) /\ d.key # key
        /\ \A d \in ToSet(entries) : d.key # key => d \in ToSet(w)
    BY WithoutKey, WithoutIsPart DEF UseInv
  <1>4. /\ entries' = Evicted(s)
        /\ key \notin CachedKeys => w = entries
    BY <1>1 DEF SetCall, Set, Stored, Without
  <1>5. /\ entries \in Seq(Entries)
        /\ Len(entries) \in Nat
        /\ Len(entries) <= MaxEntries
        /\ MaxEntries \in Nat \ {0}
        /\ Len(w) \in Nat
    BY <1>3, CacheAssumption DEF UseInv, CacheTypeOK
  <1> HIDE DEF w, e
  <1>6. /\ s \in Seq(Entries)
        /\ Len(s) = Len(w) + 1
        /\ UniqueKeys(s)
        /\ ToSet(s) = ToSet(w) \cup {e}
        /\ \A i \in 1..Len(w) : s[i] = w[i]
        /\ s[Len(w) + 1] = e
    BY <1>2, <1>3, Appending
  <1> HIDE DEF s
  <1>7. \E d \in ToSet(s) : d.key = k
    <2>1. PICK d \in ToSet(entries) : d.key = k
      BY DEF CachedKeys
    <2> QED
      BY <2>1, <1>2, <1>3, <1>6
  <1>8. ~(Len(s) <= MaxEntries)
    <2> SUFFICES ASSUME Len(s) <= MaxEntries PROVE FALSE
      OBVIOUS
    <2>1. entries' = s
      BY <1>4, <1>6, EvictedIsPart
    <2> QED
      BY <2>1, <1>7 DEF CachedKeys
  <1>9. /\ Len(w) = MaxEntries /\ Len(entries) = MaxEntries
        /\ Len(s) = MaxEntries + 1
        /\ key \notin CachedKeys
    BY <1>3, <1>5, <1>6, <1>8
  <1>10. \A i \in 2..Len(s) : s[i] \in ToSet(entries')
    BY <1>4, <1>6, <1>9, EvictedIsPart
  <1>11. e \in ToSet(entries')
    <2>1. Len(w) + 1 \in 2..Len(s)
      BY <1>5, <1>6, <1>9
    <2> QED
      BY <2>1, <1>6, <1>10
  <1>12. key \in CachedKeys'
    BY <1>2, <1>11 DEF CachedKeys
  <1>13. entries[1].key = k
    <2>1. PICK i \in DOMAIN entries : entries[i].key = k
      BY DEF CachedKeys, ToSet
    <2>2. i \in 1..MaxEntries /\ s[i] = entries[i]
      BY <2>1, <1>4, <1>5, <1>6, <1>9
    <2>3. i \notin 2..Len(s)
      BY <2>1, <2>2, <1>10 DEF CachedKeys
    <2>4. i = 1
      BY <2>2, <2>3, <1>5, <1>9
    <2> QED
      BY <2>1, <2>4
  <1> QED
    BY <1>9, <1>12, <1>13

\* An unexpired entry is lost only in clear or as the least recently used one.
THEOREM EvictionIsLeastRecent == UseSpec => LosesOnlyLeastRecent
  <1> DEFINE Kept ==
        \A k \in Keys :
          k \in CachedKeys /\ ~Expired(EntryOf(k)) /\ k \notin CachedKeys' =>
            \/ entries' = <<>>
            \/ /\ CachedKeys \ {k} \subseteq usedSince[k]
               /\ Len(entries) = MaxEntries
               /\ CachedKeys' \ CachedKeys # {}
  <1>1. UseInv /\ [UseNext]_useVars => [Kept]_useVars
    <2> SUFFICES ASSUME UseInv, [UseNext]_useVars,
                        NEW k \in Keys,
                        k \in CachedKeys, ~Expired(EntryOf(k)),
                        k \notin CachedKeys'
                 PROVE  \/ entries' = <<>>
                        \/ /\ CachedKeys \ {k} \subseteq usedSince[k]
                           /\ Len(entries) = MaxEntries
                           /\ CachedKeys' \ CachedKeys # {}
      OBVIOUS
    <2>1. PICK d \in ToSet(entries) : d.key = k
      BY DEF CachedKeys
    <2>2. entries' # entries
      BY DEF CachedKeys
    <2>3. ASSUME NEW key \in Keys, GetCall(key) PROVE FALSE
      <3>1. \A e \in ToSet(entries) : e.key # key => e \in ToSet(Without(key))
        BY WithoutIsPart DEF UseInv
      <3>2. CASE Live(key)
        <4> DEFINE w == Without(key)
                   e == EntryOf(key)
        <4>1. e \in ToSet(entries) /\ e.key = key
          BY <3>2, Position DEF Live
        <4>2. entries' = Append(w, e)
          BY <2>3, <3>2 DEF GetCall, Get, Touched
        <4>3. /\ w \in Seq(Entries) /\ UniqueKeys(w)
              /\ \A c \in ToSet(w) : c.key # key
          BY WithoutKey DEF UseInv
        <4>4. e \in Entries
          BY <4>1 DEF UseInv, CacheTypeOK, ToSet
        <4> HIDE DEF w, e
        <4>5. ToSet(entries') = ToSet(w) \cup {e}
          BY <4>1, <4>2, <4>3, <4>4, Appending
        <4>6. CASE key = k
          BY <4>1, <4>5, <4>6 DEF CachedKeys
        <4>7. CASE key # k
          BY <2>1, <3>1, <4>5, <4>7 DEF CachedKeys, w
        <4> QED
          BY <4>6, <4>7
      <3>3. CASE ~Live(key)
        <4>1. TTL # 0 /\ entries' = Without(key)
          BY <2>2, <2>3, <3>3 DEF GetCall, Get
        <4>2. key # k
          BY <3>3, <4>1 DEF Live
        <4> QED
          BY <2>1, <3>1, <4>1, <4>2 DEF CachedKeys
      <3> QED
        BY <3>2, <3>3
    <2>4. ASSUME NEW key \in Keys, NEW value \in Values, SetCall(key, value)
          PROVE  /\ CachedKeys \ {k} \subseteq usedSince[k]
                 /\ Len(entries) = MaxEntries
                 /\ CachedKeys' \ CachedKeys # {}
      <3>1. /\ Len(entries) = MaxEntries
            /\ entries[1].key = k
            /\ key \in CachedKeys' /\ key \notin CachedKeys
        BY <2>4, SetLosesFirst
      <3>2. ASSUME NEW other \in CachedKeys \ {k}
            PROVE  other \in usedSince[k]
        <4>1. PICK j \in DOMAIN entries : entries[j].key = other
          BY DEF CachedKeys, ToSet
        <4>2. 1 \in DOMAIN entries /\ j \in Nat /\ 1 <= j
          BY <4>1 DEF UseInv, CacheTypeOK
        <4>3. 1 < j
          BY <3>1, <3>2, <4>1, <4>2
        <4> QED
          BY <3>1, <4>1, <4>2, <4>3 DEF UseInv, ByUse
      <3> QED
        BY <3>1, <3>2
    <2>5. CASE ClearCall
      BY <2>5 DEF ClearCall, Clear
    <2>6. CASE CacheTick /\ UNCHANGED <<usedSince, stored>>
      BY <2>6, <2>2 DEF CacheTick
    <2>7. CASE UNCHANGED useVars
      BY <2>7, <2>2 DEF useVars, cacheVars
    <2> QED
      BY <2>3, <2>4, <2>5, <2>6, <2>7 DEF UseNext
  <1> QED
    BY <1>1, UseInvariant, PTL DEF UseSpec, LosesOnlyLeastRecent
=============================================================================
