------------------------------ MODULE EnvLease ------------------------------
(***************************************************************************)
(* What an execution engine promises the workers that run commands         *)
(* (relay/engines: Engine.NewEnvironment, ReleaseEnvironment, Clean):      *)
(* an environment is leased to one worker at a time, is only ever leased   *)
(* for the pipeline/bundle:version it was created for, and is never leased *)
(* again once it has been reclaimed or shut down.  How the engine keeps    *)
(* the promise (the cache, its lock, the in-use flags) is in EnvCache.     *)
(***************************************************************************)
CONSTANTS Workers, Keys, Envs, NoKey, NoEnv

VARIABLES want,      \* want[w]: the key worker w asked an environment for
          lease,     \* lease[w]: the environment w holds
          home,      \* home[e]: the key e was created for
          pool,      \* the environments waiting to be leased again
          retired,   \* taken out of the pool, not shut down yet
          dead       \* shut down

vars == <<want, lease, home, pool, retired, dead>>

Init == /\ want = [w \in Workers |-> NoKey]
        /\ lease = [w \in Workers |-> NoEnv]
        /\ home = [e \in Envs |-> NoKey]
        /\ pool = {}
        /\ retired = {}
        /\ dead = {}

\* A worker without an environment asks for one.
Ask(w, k) == /\ want[w] = NoKey
             /\ want' = [want EXCEPT ![w] = k]
             /\ UNCHANGED <<lease, home, pool, retired, dead>>

\* The request is over: the worker gives up whatever it holds.
Done(w) == /\ want' = [want EXCEPT ![w] = NoKey]
           /\ lease' = [lease EXCEPT ![w] = NoEnv]

Create(w, e) == /\ want[w] # NoKey
                /\ lease[w] = NoEnv
                /\ home[e] = NoKey
                /\ home' = [home EXCEPT ![e] = want[w]]
                /\ lease' = [lease EXCEPT ![w] = e]
                /\ UNCHANGED <<want, pool, retired, dead>>

Reuse(w, e) == /\ want[w] # NoKey
               /\ lease[w] = NoEnv
               /\ e \in pool
               /\ home[e] = want[w]
               /\ pool' = pool \ {e}
               /\ lease' = [lease EXCEPT ![w] = e]
               /\ UNCHANGED <<want, home, retired, dead>>

\* No environment could be made, or the one that was made is abandoned.
GiveUp(w) == /\ want[w] # NoKey
             /\ Done(w)
             /\ UNCHANGED <<home, pool, retired, dead>>

\* The pool keeps one environment per key.
Return(w) == /\ lease[w] # NoEnv
             /\ \A e \in pool : home[e] # home[lease[w]]
             /\ pool' = pool \cup {lease[w]}
             /\ Done(w)
             /\ UNCHANGED <<home, retired, dead>>

Discard(w) == /\ lease[w] # NoEnv
              /\ dead' = dead \cup {lease[w]}
              /\ Done(w)
              /\ UNCHANGED <<home, pool, retired>>

Reclaim(S) == /\ pool' = pool \ S
              /\ retired' = retired \cup S
              /\ UNCHANGED <<want, lease, home, dead>>

Retire(e) == /\ e \in retired
             /\ retired' = retired \ {e}
             /\ dead' = dead \cup {e}
             /\ UNCHANGED <<want, lease, home, pool>>

Next == \/ \E w \in Workers :
              \/ \E k \in Keys : Ask(w, k)
              \/ \E e \in Envs : Create(w, e) \/ Reuse(w, e)
              \/ GiveUp(w) \/ Return(w) \/ Discard(w)
        \/ \E S \in SUBSET pool : Reclaim(S)
        \/ \E e \in Envs : Retire(e)

Spec == Init /\ [][Next]_vars
=============================================================================
