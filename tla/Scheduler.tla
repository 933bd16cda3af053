------------------------------ MODULE Scheduler ------------------------------
(***************************************************************************)
(* What the scheduling library promises, without lock word, tokens, retries *)
(* or states of threads: a monitor that one thread is in at a time, queues  *)
(* of ready threads by level, and wakeups as permits.                       *)
(*                                                                         *)
(* A thread is ready while it is on the queue of its level.  It sleeps only *)
(* without a permit and returns from its sleep by using one up.  The        *)
(* processor is given to the first of the best level, or to the thread the  *)
(* one before has asked for, and only while nobody is in the monitor.       *)
(***************************************************************************)
EXTENDS Integers, SequencesExt

CONSTANTS App,      \* the threads that are scheduled
          Sched,    \* the one that runs when the timer expires
          Level,    \* 0 the best
          NULL

VARIABLES
  running,   \* the thread on the processor
  inside,    \* the thread in the monitor
  queue,     \* the ready threads of each level
  level,     \* of the threads that have one
  asleep,
  permits,   \* wakeups of a thread it has not used up
  asked      \* the thread each one wants to run after it

schvars == <<running, inside, queue, level, asleep, permits, asked>>

Placed == DOMAIN level
Ready(t) == \E p \in Level : t \in ToSet(queue[p])
Best(t) ==
  \E p \in Level :
    /\ queue[p] # <<>>
    /\ t = Head(queue[p])
    /\ \A q \in Level : queue[q] # <<>> => p <= q

Init ==
  /\ running = Sched
  /\ inside = NULL
  /\ Placed \subseteq App /\ level \in [Placed -> Level]
  /\ \A p \in Level :
       /\ ToSet(queue[p]) = {t \in Placed : level[t] = p}
       /\ IsInjective(queue[p])
  /\ asleep = {}
  /\ permits = [t \in App |-> 0]
  /\ asked = [t \in App |-> NULL]

-----------------------------------------------------------------------------
(* The monitor and the processor *)

Enter(t) ==
  /\ running = t
  /\ inside = NULL
  /\ inside' = t
  /\ UNCHANGED <<running, queue, level, asleep, permits, asked>>

Leave(t) ==
  /\ running = t
  /\ inside = t
  /\ inside' = NULL
  /\ UNCHANGED <<running, queue, level, asleep, permits, asked>>

Dispatch(t) ==
  /\ inside = NULL
  /\ \/ Best(t)
     \/ running \in App /\ asked[running] = t /\ Ready(t)
  /\ running' = t
  /\ UNCHANGED <<inside, queue, level, asleep, permits, asked>>

Preempt ==
  /\ running' = Sched
  /\ UNCHANGED <<inside, queue, level, asleep, permits, asked>>

\* The thread in the monitor goes on, lest the scheduler thread waits for ever.
Lend ==
  /\ running = Sched
  /\ inside \in App
  /\ running' = inside
  /\ UNCHANGED <<inside, queue, level, asleep, permits, asked>>

-----------------------------------------------------------------------------
(* What threads do *)

InMonitor(t) == running = t /\ inside = t
Without(t) == [p \in Level |-> RemoveFirst(queue[p], t)]
Added(q, t, p) == [q EXCEPT ![p] = Append(@, t)]

Sleep(t) ==
  /\ InMonitor(t)
  /\ t \in Placed \ asleep
  /\ permits[t] = 0
  /\ asleep' = asleep \cup {t}
  /\ queue' = Without(t)
  /\ UNCHANGED <<running, inside, level, permits, asked>>

Wake(t, u) ==
  /\ InMonitor(t)
  /\ u \in Placed
  /\ permits' = [permits EXCEPT ![u] = @ + 1]
  /\ queue' = IF u \in asleep THEN Added(queue, u, level[u]) ELSE queue
  /\ asleep' = asleep \ {u}
  /\ UNCHANGED <<running, inside, level, asked>>

\* The end of a sleep, or of one that was not needed.
Return(t) ==
  /\ running = t
  /\ t \in Placed \ asleep
  /\ permits[t] > 0
  /\ permits' = [permits EXCEPT ![t] = @ - 1]
  /\ UNCHANGED <<running, inside, queue, level, asleep, asked>>

Yield(t) ==
  /\ InMonitor(t)
  /\ t \in Placed \ asleep
  /\ queue' = Added(Without(t), t, level[t])
  /\ UNCHANGED <<running, inside, level, asleep, permits, asked>>

Ask(t, u) ==
  /\ running = t
  /\ asked' = [asked EXCEPT ![t] = u]
  /\ UNCHANGED <<running, inside, queue, level, asleep, permits>>

\* A thread that is made, or given another level, has none in between.  Only the best
\* one does that, and outside the monitor.
TakeOff(t, u) ==
  /\ running = t /\ inside # t /\ Best(t)
  /\ u \in Placed \ (asleep \cup {t})
  /\ queue' = Without(u)
  /\ level' = [v \in Placed \ {u} |-> level[v]]
  /\ UNCHANGED <<running, inside, asleep, permits, asked>>

PutOn(t, u, p) ==
  /\ running = t /\ inside # t /\ Best(t)
  /\ u \notin Placed
  /\ queue' = Added(queue, u, p)
  /\ level' = [v \in Placed \cup {u} |-> IF v = u THEN p ELSE level[v]]
  /\ UNCHANGED <<running, inside, asleep, permits, asked>>

-----------------------------------------------------------------------------
Next ==
  \/ \E t \in App \cup {Sched} : Enter(t) \/ Leave(t)
  \/ \E t \in App : Dispatch(t)
  \/ Preempt \/ Lend
  \/ \E t \in App : Sleep(t) \/ Return(t) \/ Yield(t)
  \/ \E t, u \in App : Wake(t, u) \/ TakeOff(t, u)
  \/ \E t \in App, u \in App \cup {NULL} : Ask(t, u)
  \/ \E t, u \in App, p \in Level : PutOn(t, u, p)
Spec == Init /\ [][Next]_schvars
=============================================================================
