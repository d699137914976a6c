-------------------------- MODULE AsyncioSemaphore --------------------------
(***************************************************************************)
(* asyncio.Semaphore as Python 3.12 (the Dockerfile's) implements it.  It  *)
(* is not code of this repository; it is modelled because every HTTP       *)
(* client of the server bounds its concurrency with one, and whether a     *)
(* permit can leak depends on how the two work together when a task is     *)
(* cancelled.                                                              *)
(*                                                                         *)
(* release hands the permit to the first waiter by completing its future,  *)
(* so that a task may own a permit that it does not know of.  A completed  *)
(* future stays in the deque of waiters until its task runs again, but all *)
(* that is ever asked of it there is whether the deque is empty, which is  *)
(* why the tasks of completed futures are a set of their own here.         *)
(***************************************************************************)
EXTENDS Naturals, Sequences, FiniteSets, SequencesExt

CONSTANTS
    Tasks,           \* the tasks that use the semaphore
    MaxConcurrency   \* the initial value

ASSUME ConcurrencyAssumption == MaxConcurrency \in Nat \ {0}

VARIABLES
    permits,   \* self._value
    waiters,   \* the tasks in acquire whose future is pending, first come first
    granted    \* those whose future has its result

semaphoreVars == <<permits, waiters, granted>>

SemaphoreTypeOK ==
    /\ permits \in 0..MaxConcurrency
    /\ waiters \in Seq(Tasks)
    /\ granted \subseteq Tasks

SemaphoreInit ==
    /\ permits = MaxConcurrency
    /\ waiters = <<>>
    /\ granted = {}

Locked == permits = 0 \/ waiters # <<>> \/ granted # {}

\* acquire that does not wait.
AcquireNow ==
    /\ ~Locked
    /\ permits' = permits - 1
    /\ UNCHANGED <<waiters, granted>>

\* acquire that waits.
Enqueue(t) ==
    /\ Locked
    /\ waiters' = Append(waiters, t)
    /\ UNCHANGED <<permits, granted>>

\* release: _wake_up_next once.
Release ==
    IF waiters = <<>>
    THEN permits' = permits + 1 /\ UNCHANGED <<waiters, granted>>
    ELSE /\ waiters' = Tail(waiters)
         /\ granted' = granted \cup {Head(waiters)}
         /\ UNCHANGED permits

\* The end of acquire for a task that waited: `while self._value > 0`,
\* _wake_up_next, with p permits free, the queue w and the other completed
\* futures g.
WakeUpAll(p, w, g) ==
    LET n == IF p < Len(w) THEN p ELSE Len(w)
    IN  /\ waiters' = SubSeq(w, n + 1, Len(w))
        /\ granted' = g \cup {w[i] : i \in 1..n}
        /\ permits' = p - n

\* The task of a granted waiter runs again and holds the permit.
Resume(t) ==
    /\ t \in granted
    /\ WakeUpAll(permits, waiters, granted \ {t})

\* The task is cancelled while its future is pending ...
CancelPending(t) ==
    \E i \in DOMAIN waiters :
      /\ waiters[i] = t
      /\ WakeUpAll(permits, RemoveAt(waiters, i), granted)

\* ... or after a permit was handed to it, which it gives back.  (A definition
\* Name_variant just before Name is Name with a bug, for the mutation runs
\* only.)
CancelGranted_noWakeUp(t) ==
    /\ t \in granted
    /\ granted' = granted \ {t}
    /\ permits' = permits + 1
    /\ UNCHANGED waiters
CancelGranted(t) ==
    /\ t \in granted
    /\ WakeUpAll(permits + 1, waiters, granted \ {t})
=============================================================================
