------------------------------ MODULE ForkJoin ------------------------------
(***************************************************************************)
(* What the thread part of the lwt library promises to its callers: a      *)
(* thread created as joinable keeps its result until somebody joins it,    *)
(* a join gives back exactly that result and only after the thread has     *)
(* ended, and a thread is reclaimed only once it has ended.  There is no   *)
(* ring, no scheduler, no status word and no counter here, and any thread  *)
(* may take the next step.                                                 *)
(***************************************************************************)
CONSTANTS Thread,   \* thread identities
          Main,     \* the thread that exists at the start
          Value,    \* results a thread may end with
          NULL      \* no thread, no value

VARIABLES phase,    \* "free", "running", "joining" or "done"
          detached, \* threads created with LWT_NOJOIN
          awaits,   \* the thread a joining thread waits for
          result,   \* what a thread that is done ended with
          got       \* what the last join to return gave back

fjvars == <<phase, detached, awaits, result, got>>

Init ==
  /\ phase = [t \in Thread |-> IF t = Main THEN "running" ELSE "free"]
  /\ detached = {}
  /\ awaits = [t \in Thread |-> NULL]
  /\ result = [t \in Thread |-> NULL]
  /\ got = NULL

Fork(t) ==
  /\ phase[t] = "free"
  /\ phase' = [phase EXCEPT ![t] = "running"]
  /\ detached' \in {detached, detached \cup {t}}
  /\ UNCHANGED <<awaits, result, got>>

\* A joinable thread that ends keeps its result ...
Finish(t, v) ==
  /\ phase[t] = "running"
  /\ t \notin detached
  /\ phase' = [phase EXCEPT ![t] = "done"]
  /\ result' = [result EXCEPT ![t] = v]
  /\ UNCHANGED <<detached, awaits, got>>

\* ... and a detached one disappears at once.
Vanish(t) ==
  /\ phase[t] = "running"
  /\ t \in detached
  /\ phase' = [phase EXCEPT ![t] = "free"]
  /\ detached' = detached \ {t}
  /\ UNCHANGED <<awaits, result, got>>

\* w starts to wait for t, which has not ended.
Await(w, t) ==
  /\ phase[w] = "running"
  /\ phase[t] \in {"running", "joining"}
  /\ t \notin detached
  /\ phase' = [phase EXCEPT ![w] = "joining"]
  /\ awaits' = [awaits EXCEPT ![w] = t]
  /\ UNCHANGED <<detached, result, got>>

\* w gets the result of t, which has ended, and t is reclaimed.
Reap(w, t) ==
  /\ phase[w] = "running" \/ (phase[w] = "joining" /\ awaits[w] = t)
  /\ phase[t] = "done"
  /\ got' = result[t]
  /\ phase' = [phase EXCEPT ![w] = "running", ![t] = "free"]
  /\ awaits' = [awaits EXCEPT ![w] = NULL]
  /\ result' = [result EXCEPT ![t] = NULL]
  /\ UNCHANGED detached

\* Joining a detached thread gives nothing back.
Refuse(w, t) ==
  /\ phase[w] = "running"
  /\ t \in detached
  /\ got' = NULL
  /\ UNCHANGED <<phase, detached, awaits, result>>

Next ==
  \E t \in Thread :
    \/ Fork(t)
    \/ Vanish(t)
    \/ \E v \in Value : Finish(t, v)
    \/ \E w \in Thread \ {t} : Await(w, t) \/ Reap(w, t) \/ Refuse(w, t)

Spec == Init /\ [][Next]_fjvars
=============================================================================
