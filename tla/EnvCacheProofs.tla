--------------------------- MODULE EnvCacheProofs ---------------------------
(***************************************************************************)
(* Proofs about EnvCache, for any sets of workers, keys and environments.  *)
(***************************************************************************)
EXTENDS EnvCache, TLAPS

\* A worker has an environment, and a key, exactly where executeCommand does.
Locals == \A w \in Workers : /\ env[w] # NoEnv <=> pc[w] \in Holding
                             /\ key[w] # NoKey <=> pc[w] # "idle"

\* An environment in a worker's hands is alive, is the worker's own, was made
\* for the worker's key, and is neither being cleaned up nor abandoned; it
\* is not in the cache once put has refused it.
HeldInv == \A w \in Workers : env[w] # NoEnv =>
              /\ status[env[w]] = "alive"
              /\ home[env[w]] = key[w]
              /\ env[w] \notin cleaning \cup abandoned
              /\ \A v \in Workers : env[v] = env[w] => v = w
              /\ pc[w] = "shutdown" =>
                    \A k \in Keys : envs[k] # NoEntry => envs[k].env # env[w]

\* A cached environment is alive and cached under the key it was made for,
\* which is why no environment is cached twice; while its entry is not in
\* use nobody has it, and while it is somebody has or abandoned it.
EntryInv == \A k \in Keys : envs[k] # NoEntry =>
               /\ k \notin NativeKeys
               /\ status[envs[k].env] = "alive"
               /\ home[envs[k].env] = k
               /\ envs[k].env \notin cleaning
               /\ ~envs[k].inUse => /\ envs[k].env \notin abandoned
                                    /\ \A w \in Workers : env[w] # envs[k].env
               /\ envs[k].inUse => \/ envs[k].env \in abandoned
                                   \/ \E w \in Workers : env[w] = envs[k].env

\* What is being cleaned up, and what was abandoned, is alive; an environment
\* has a home once it is created; and a live one is somewhere.
EnvInv == \A e \in Envs :
             /\ e \in cleaning => status[e] = "alive" /\ e \notin abandoned
             /\ e \in abandoned => status[e] = "alive"
             /\ status[e] = "unborn" <=> home[e] = NoKey
             /\ status[e] = "alive" =>
                   \/ e \in cleaning \cup abandoned
                   \/ \E w \in Workers : env[w] = e
                   \/ \E k \in Keys : envs[k] # NoEntry /\ envs[k].env = e

IInv == TypeOK /\ Locals /\ HeldInv /\ EntryInv /\ EnvInv

USE NilAssumption DEF Entry, Holding, Goto, Return, Hit, Old

\* Setting the flags of an entry leaves an entry of the same environment.
LEMMA EntryFlags ==
  ASSUME NEW r \in Entry, NEW b \in BOOLEAN, NEW c \in BOOLEAN
  PROVE  /\ [r EXCEPT !.inUse = b] \in Entry
         /\ [r EXCEPT !.old = b] \in Entry
         /\ [r EXCEPT !.inUse = b, !.old = c] \in Entry
         /\ [r EXCEPT !.inUse = b].env = r.env
         /\ [r EXCEPT !.old = b].env = r.env
         /\ [r EXCEPT !.inUse = b, !.old = c].env = r.env
  BY Zenon

\* The entry that put makes for an environment.
LEMMA NewEntry ==
  ASSUME NEW e \in Envs
  PROVE  LET r == [env |-> e, inUse |-> FALSE, old |-> FALSE]
         IN  r \in Entry /\ r.env = e /\ ~r.inUse
  OBVIOUS

\* A request starts without an environment.
LEMMA StartRequestInv == ASSUME IInv, NEW w \in Workers, NEW k \in Keys, StartRequest(w, k) PROVE IInv'
<1> USE DEF IInv, StartRequest
<1>1. TypeOK'
  BY DEF TypeOK, Locals
<1>2. Locals'
  BY DEF TypeOK, Locals
<1>3. HeldInv'
  BY DEF TypeOK, Locals, HeldInv, EntryInv, EnvInv
<1>4. EntryInv'
  BY DEF TypeOK, Locals, HeldInv, EntryInv, EnvInv
<1>5. EnvInv'
  BY DEF TypeOK, Locals, HeldInv, EntryInv, EnvInv
<1>6. QED BY <1>1, <1>2, <1>3, <1>4, <1>5

\* A hit marks the entry in use, and its environment was nobody's.
LEMMA getInv == ASSUME IInv, NEW w \in Workers, get(w) PROVE IInv'
<1> USE DEF IInv, get
<1>0. /\ key[w] \in Keys
      /\ envs[key[w]] \in Entry
      /\ envs'[key[w]] = [envs[key[w]] EXCEPT !.inUse = TRUE, !.old = FALSE]
      /\ envs'[key[w]] \in Entry
      /\ envs'[key[w]].env = envs[key[w]].env
      /\ \A j \in Keys : j # key[w] => envs'[j] = envs[j]
  <2>1. key[w] \in Keys /\ envs[key[w]] \in Entry
    BY DEF TypeOK, Locals
  <2>2. /\ envs'[key[w]] = [envs[key[w]] EXCEPT !.inUse = TRUE, !.old = FALSE]
        /\ \A j \in Keys : j # key[w] => envs'[j] = envs[j]
    BY <2>1 DEF TypeOK
  <2>3. /\ [envs[key[w]] EXCEPT !.inUse = TRUE, !.old = FALSE] \in Entry
        /\ [envs[key[w]] EXCEPT !.inUse = TRUE, !.old = FALSE].env = envs[key[w]].env
    BY <2>1, EntryFlags, Zenon
  <2>4. QED BY <2>1, <2>2, <2>3, Zenon
<1>1. TypeOK'
  BY <1>0 DEF TypeOK, Locals
<1>2. Locals'
  BY DEF TypeOK, Locals
<1>3. HeldInv'
  BY <1>0, SMTT(60) DEF TypeOK, Locals, HeldInv, EntryInv, EnvInv
<1>4. EntryInv'
  BY <1>0 DEF TypeOK, Locals, HeldInv, EntryInv, EnvInv
<1>5. EnvInv'
  BY SMTT(60) DEF TypeOK, Locals, HeldInv, EntryInv, EnvInv
<1>6. QED BY <1>1, <1>2, <1>3, <1>4, <1>5

\* A miss changes nothing but where the worker is.
LEMMA getMissInv == ASSUME IInv, NEW w \in Workers, getMiss(w) PROVE IInv'
<1> USE DEF IInv, getMiss
<1>1. TypeOK'
  BY DEF TypeOK, Locals
<1>2. Locals'
  BY DEF TypeOK, Locals
<1>3. HeldInv'
  BY DEF TypeOK, Locals, HeldInv, EntryInv, EnvInv
<1>4. EntryInv'
  BY DEF TypeOK, Locals, HeldInv, EntryInv, EnvInv
<1>5. EnvInv'
  BY DEF TypeOK, Locals, HeldInv, EntryInv, EnvInv
<1>6. QED BY <1>1, <1>2, <1>3, <1>4, <1>5

\* A new environment is not in anyone's hands, in the cache or abandoned.
LEMMA newEnvironmentInv == ASSUME IInv, NEW w \in Workers, NEW e \in Envs, newEnvironment(w, e) PROVE IInv'
<1> USE DEF IInv, newEnvironment
<1>1. TypeOK'
  BY DEF TypeOK, Locals
<1>2. Locals'
  BY DEF TypeOK, Locals
<1>3. HeldInv'
  BY DEF TypeOK, Locals, HeldInv, EntryInv, EnvInv
<1>4. EntryInv'
  BY DEF TypeOK, Locals, HeldInv, EntryInv, EnvInv
<1>5. EnvInv'
  BY DEF TypeOK, Locals, HeldInv, EntryInv, EnvInv
<1>6. QED BY <1>1, <1>2, <1>3, <1>4, <1>5

\* The request ends with nothing in hand.
LEMMA newEnvironmentErrorInv == ASSUME IInv, NEW w \in Workers, newEnvironmentError(w) PROVE IInv'
<1> USE DEF IInv, newEnvironmentError
<1>1. TypeOK'
  BY DEF TypeOK, Locals
<1>2. Locals'
  BY DEF TypeOK, Locals
<1>3. HeldInv'
  BY DEF TypeOK, Locals, HeldInv, EntryInv, EnvInv
<1>4. EntryInv'
  BY DEF TypeOK, Locals, HeldInv, EntryInv, EnvInv
<1>5. EnvInv'
  BY DEF TypeOK, Locals, HeldInv, EntryInv, EnvInv
<1>6. QED BY <1>1, <1>2, <1>3, <1>4, <1>5

\* The environment stays in hand.
LEMMA ToCircuitRequestInv == ASSUME IInv, NEW w \in Workers, ToCircuitRequest(w) PROVE IInv'
<1> USE DEF IInv, ToCircuitRequest
<1>1. TypeOK'
  BY DEF TypeOK, Locals
<1>2. Locals'
  BY DEF TypeOK, Locals
<1>3. HeldInv'
  BY DEF TypeOK, Locals, HeldInv, EntryInv, EnvInv
<1>4. EntryInv'
  BY DEF TypeOK, Locals, HeldInv, EntryInv, EnvInv
<1>5. EnvInv'
  BY DEF TypeOK, Locals, HeldInv, EntryInv, EnvInv
<1>6. QED BY <1>1, <1>2, <1>3, <1>4, <1>5

\* The environment that is dropped is recorded as abandoned, which keeps an
\* in-use entry of it justified.
LEMMA ToCircuitRequestErrorInv == ASSUME IInv, NEW w \in Workers, ToCircuitRequestError(w) PROVE IInv'
<1> USE DEF IInv, ToCircuitRequestError
<1>1. TypeOK'
  BY DEF TypeOK, Locals
<1>2. Locals'
  BY DEF TypeOK, Locals
<1>3. HeldInv'
  BY DEF TypeOK, Locals, HeldInv, EntryInv, EnvInv
<1>4. EntryInv'
  BY DEF TypeOK, Locals, HeldInv, EntryInv, EnvInv
<1>5. EnvInv'
  BY DEF TypeOK, Locals, HeldInv, EntryInv, EnvInv
<1>6. QED BY <1>1, <1>2, <1>3, <1>4, <1>5

\* The environment stays in hand.
LEMMA RunInv == ASSUME IInv, NEW w \in Workers, Run(w) PROVE IInv'
<1> USE DEF IInv, Run
<1>1. TypeOK'
  BY DEF TypeOK, Locals
<1>2. Locals'
  BY DEF TypeOK, Locals
<1>3. HeldInv'
  BY DEF TypeOK, Locals, HeldInv, EntryInv, EnvInv
<1>4. EntryInv'
  BY DEF TypeOK, Locals, HeldInv, EntryInv, EnvInv
<1>5. EnvInv'
  BY DEF TypeOK, Locals, HeldInv, EntryInv, EnvInv
<1>6. QED BY <1>1, <1>2, <1>3, <1>4, <1>5

\* The environment moves from the worker to the new, idle entry.
LEMMA putNewInv == ASSUME IInv, NEW w \in Workers, putNew(w) PROVE IInv'
<1> USE DEF IInv, putNew
<1>0. /\ key[w] \in Keys
      /\ env[w] \in Envs
      /\ envs'[key[w]] = [env |-> env[w], inUse |-> FALSE, old |-> FALSE]
      /\ envs'[key[w]] \in Entry
      /\ envs'[key[w]] # NoEntry /\ envs'[key[w]].env = env[w]
      /\ \A j \in Keys : j # key[w] => envs'[j] = envs[j]
  <2>1. key[w] \in Keys /\ env[w] \in Envs
    BY DEF TypeOK, Locals
  <2>2. /\ envs'[key[w]] = [env |-> env[w], inUse |-> FALSE, old |-> FALSE]
        /\ \A j \in Keys : j # key[w] => envs'[j] = envs[j]
    BY <2>1 DEF TypeOK
  <2>3. envs'[key[w]] \in Entry /\ envs'[key[w]].env = env[w]
    BY <2>1, <2>2, NewEntry, Zenon
  <2>4. QED BY <2>1, <2>2, <2>3, Zenon
<1>1. TypeOK'
  BY <1>0 DEF TypeOK, Locals
<1>2. Locals'
  BY DEF TypeOK, Locals
<1>3. HeldInv'
  BY <1>0, SMTT(60) DEF TypeOK, Locals, HeldInv, EntryInv, EnvInv
<1>4. EntryInv'
  BY <1>0 DEF TypeOK, Locals, HeldInv, EntryInv, EnvInv
<1>5. EnvInv'
  <2>1. \A j \in Keys : envs[j] # NoEntry =>
           envs'[j] # NoEntry /\ envs'[j].env = envs[j].env
    BY <1>0 DEF TypeOK
  <2>2. SUFFICES ASSUME NEW e \in Envs, status[e] = "alive", e \notin cleaning \cup abandoned
                 PROVE  \/ \E v \in Workers : env'[v] = e
                        \/ \E j \in Keys : envs'[j] # NoEntry /\ envs'[j].env = e
    BY Zenon DEF TypeOK, Locals, HeldInv, EntryInv, EnvInv
  <2>3. CASE \E v \in Workers : env[v] = e
    <3>1. PICK v \in Workers : env[v] = e
      BY <2>3
    <3>2. CASE v = w
      <4>1. envs'[key[w]] # NoEntry /\ envs'[key[w]].env = e
        BY <1>0, <3>1, <3>2
      <4>2. QED BY <1>0, <4>1
    <3>3. CASE v # w
      BY <3>1, <3>3 DEF TypeOK
    <3>4. QED BY <3>2, <3>3
  <2>4. CASE \E j \in Keys : envs[j] # NoEntry /\ envs[j].env = e
    BY <2>1, <2>4
  <2>5. QED BY <2>2, <2>3, <2>4 DEF EnvInv
<1>6. QED BY <1>1, <1>2, <1>3, <1>4, <1>5

\* The environment moves from the worker back to its own entry.
LEMMA putBackInv == ASSUME IInv, NEW w \in Workers, putBack(w) PROVE IInv'
<1> USE DEF IInv, putBack
<1>0. /\ key[w] \in Keys
      /\ envs[key[w]] \in Entry
      /\ envs'[key[w]] = [envs[key[w]] EXCEPT !.inUse = FALSE]
      /\ envs'[key[w]] \in Entry
      /\ envs'[key[w]].env = envs[key[w]].env
      /\ \A j \in Keys : j # key[w] => envs'[j] = envs[j]
  <2>1. key[w] \in Keys /\ envs[key[w]] \in Entry
    BY DEF TypeOK, Locals
  <2>2. /\ envs'[key[w]] = [envs[key[w]] EXCEPT !.inUse = FALSE]
        /\ \A j \in Keys : j # key[w] => envs'[j] = envs[j]
    BY <2>1, Zenon DEF TypeOK
  <2>3. /\ [envs[key[w]] EXCEPT !.inUse = FALSE] \in Entry
        /\ [envs[key[w]] EXCEPT !.inUse = FALSE].env = envs[key[w]].env
    BY <2>1, EntryFlags, ZenonT(60)
  <2>4. QED BY <2>1, <2>2, <2>3
<1>1. TypeOK'
  BY <1>0 DEF TypeOK, Locals
<1>2. Locals'
  BY DEF TypeOK, Locals
<1>3. HeldInv'
  BY <1>0, SMTT(60) DEF TypeOK, Locals, HeldInv, EntryInv, EnvInv
<1>4. EntryInv'
  BY <1>0 DEF TypeOK, Locals, HeldInv, EntryInv, EnvInv
<1>5. EnvInv'
  <2>1. \A j \in Keys : envs[j] # NoEntry =>
           envs'[j] # NoEntry /\ envs'[j].env = envs[j].env
    BY <1>0, Zenon DEF TypeOK
  <2>2. SUFFICES ASSUME NEW e \in Envs, status[e] = "alive", e \notin cleaning \cup abandoned
                 PROVE  \/ \E v \in Workers : env'[v] = e
                        \/ \E j \in Keys : envs'[j] # NoEntry /\ envs'[j].env = e
    BY DEF TypeOK, Locals, HeldInv, EntryInv, EnvInv
  <2>3. CASE \E v \in Workers : env[v] = e
    BY <1>0, <2>1, <2>2, <2>3 DEF TypeOK, Locals, HeldInv, EntryInv
  <2>4. CASE \E j \in Keys : envs[j] # NoEntry /\ envs[j].env = e
    BY <2>1, <2>4
  <2>5. QED BY <2>2, <2>3, <2>4 DEF EnvInv
<1>6. QED BY <1>1, <1>2, <1>3, <1>4, <1>5

\* The environment is in no entry: not in its key's, which has another one,
\* and in no other key's, since it would have another home there.
LEMMA putRefusedInv == ASSUME IInv, NEW w \in Workers, putRefused(w) PROVE IInv'
<1> USE DEF IInv, putRefused
<1>1. TypeOK'
  BY DEF TypeOK, Locals
<1>2. Locals'
  BY DEF TypeOK, Locals
<1>3. HeldInv'
  BY DEF TypeOK, Locals, HeldInv, EntryInv, EnvInv
<1>4. EntryInv'
  BY SMTT(60) DEF TypeOK, Locals, HeldInv, EntryInv, EnvInv
<1>5. EnvInv'
  BY DEF TypeOK, Locals, HeldInv, EntryInv, EnvInv
<1>6. QED BY <1>1, <1>2, <1>3, <1>4, <1>5

\* Only the worker had the environment that dies.
LEMMA ShutdownInv == ASSUME IInv, NEW w \in Workers, Shutdown(w) PROVE IInv'
<1> USE DEF IInv, Shutdown
<1>1. TypeOK'
  BY DEF TypeOK, Locals
<1>2. Locals'
  BY DEF TypeOK, Locals
<1>3. HeldInv'
  BY DEF TypeOK, Locals, HeldInv, EntryInv, EnvInv
<1>4. EntryInv'
  BY DEF TypeOK, Locals, HeldInv, EntryInv, EnvInv
<1>5. EnvInv'
  BY DEF TypeOK, Locals, HeldInv, EntryInv, EnvInv
<1>6. QED BY <1>1, <1>2, <1>3, <1>4, <1>5

\* Ageing an entry leaves its environment and its in-use flag.
LEMMA AgeInv == ASSUME IInv, NEW k \in Keys, Age(k) PROVE IInv'
<1> USE DEF IInv, Age
<1>0. /\ k \in Keys
      /\ envs[k] \in Entry
      /\ envs'[k] = [envs[k] EXCEPT !.old = TRUE]
      /\ envs'[k] \in Entry
      /\ envs'[k].env = envs[k].env
      /\ \A j \in Keys : j # k => envs'[j] = envs[j]
  <2>1. k \in Keys /\ envs[k] \in Entry
    BY DEF TypeOK, Locals
  <2>2. /\ envs'[k] = [envs[k] EXCEPT !.old = TRUE]
        /\ \A j \in Keys : j # k => envs'[j] = envs[j]
    BY <2>1, ZenonT(60) DEF TypeOK
  <2>3. [envs[k] EXCEPT !.old = TRUE] \in Entry /\ [envs[k] EXCEPT !.old = TRUE].env = envs[k].env
    BY <2>1, EntryFlags, Zenon
  <2>4. QED BY <2>1, <2>2, <2>3
<1>1. TypeOK'
  BY <1>0 DEF TypeOK, Locals
<1>2. Locals'
  BY DEF TypeOK, Locals
<1>3. HeldInv'
  BY <1>0 DEF TypeOK, Locals, HeldInv, EntryInv, EnvInv
<1>4. EntryInv'
  BY <1>0 DEF TypeOK, Locals, HeldInv, EntryInv, EnvInv
<1>5. EnvInv'
  <2>1. \A j \in Keys : envs[j] # NoEntry =>
           envs'[j] # NoEntry /\ envs'[j].env = envs[j].env
    BY <1>0, Zenon DEF TypeOK
  <2>2. SUFFICES ASSUME NEW e \in Envs, status[e] = "alive", e \notin cleaning \cup abandoned
                 PROVE  \/ \E v \in Workers : env'[v] = e
                        \/ \E j \in Keys : envs'[j] # NoEntry /\ envs'[j].env = e
    BY DEF TypeOK, Locals, HeldInv, EntryInv, EnvInv
  <2>3. CASE \E v \in Workers : env[v] = e
    BY <1>0, <2>1, <2>2, <2>3 DEF TypeOK, Locals, HeldInv, EntryInv
  <2>4. CASE \E j \in Keys : envs[j] # NoEntry /\ envs[j].env = e
    BY <2>1, <2>4
  <2>5. QED BY <2>2, <2>3, <2>4 DEF EnvInv
<1>6. QED BY <1>1, <1>2, <1>3, <1>4, <1>5

\* The environments of the removed entries move to the clean-up; an
\* environment is cached once, so no entry that is left has one of them.
LEMMA getOldInv == ASSUME IInv, getOld PROVE IInv'
<1> USE DEF IInv, getOld
<1>1. TypeOK'
  BY DEF TypeOK, Locals
<1>2. Locals'
  BY DEF TypeOK, Locals
<1>3. HeldInv'
  BY DEF TypeOK, Locals, HeldInv, EntryInv, EnvInv
<1>4. EntryInv'
  BY DEF TypeOK, Locals, HeldInv, EntryInv, EnvInv
<1>5. EnvInv'
  BY DEF TypeOK, Locals, HeldInv, EntryInv, EnvInv
<1>6. QED BY <1>1, <1>2, <1>3, <1>4, <1>5

\* Only the clean-up had the environment that dies.
LEMMA CleanInv == ASSUME IInv, NEW e \in Envs, Clean(e) PROVE IInv'
<1> USE DEF IInv, Clean
<1>1. TypeOK'
  BY DEF TypeOK, Locals
<1>2. Locals'
  BY DEF TypeOK, Locals
<1>3. HeldInv'
  BY DEF TypeOK, Locals, HeldInv, EntryInv, EnvInv
<1>4. EntryInv'
  BY DEF TypeOK, Locals, HeldInv, EntryInv, EnvInv
<1>5. EnvInv'
  BY DEF TypeOK, Locals, HeldInv, EntryInv, EnvInv
<1>6. QED BY <1>1, <1>2, <1>3, <1>4, <1>5

\* Every step of the workers, of time and of the clean-up preserves IInv.
LEMMA NextInv == IInv /\ [Next]_vars => IInv'
<1> SUFFICES ASSUME IInv, [Next]_vars PROVE IInv'
  BY Zenon
<1>1. CASE UNCHANGED vars
  BY <1>1 DEF vars, IInv, TypeOK, Locals, HeldInv, EntryInv, EnvInv
<1>2. CASE Next
  BY <1>2, StartRequestInv, getInv, getMissInv, newEnvironmentInv,
     newEnvironmentErrorInv, ToCircuitRequestInv, ToCircuitRequestErrorInv,
     RunInv, putNewInv, putBackInv, putRefusedInv, ShutdownInv, AgeInv,
     getOldInv, CleanInv, Zenon DEF Next, WorkerStep
<1>3. QED BY <1>1, <1>2

\* The inductive invariant of the environment cache.
THEOREM Invariance == Spec => []IInv
<1>1. Init => IInv
  BY DEF Init, IInv, TypeOK, Locals, HeldInv, EntryInv, EnvInv
<1>2. QED BY <1>1, NextInv, PTL DEF Spec

\* TypeOK holds in every behaviour of the cache.
THEOREM Types == Spec => []TypeOK
BY Invariance, PTL DEF IInv

\* Two workers never have the same environment (env_cache.go get, put).
THEOREM Exclusion == Spec => []ExclusiveLease
<1>1. IInv => ExclusiveLease
  BY DEF IInv, HeldInv, ExclusiveLease
<1>2. QED BY <1>1, Invariance, PTL

\* A cached environment is only reused for the key it was made for.
THEOREM Reuse == Spec => []Isolation
<1>1. IInv => Isolation
  BY DEF IInv, HeldInv, Isolation
<1>2. QED BY <1>1, Invariance, PTL

\* What the cache, a worker or the clean-up can still use is alive.
LEMMA IInvNoUse == IInv => NoUseAfterShutdown
<1> SUFFICES ASSUME IInv PROVE NoUseAfterShutdown
  OBVIOUS
<1>1. Held \cup Idle \cup cleaning \subseteq Alive
  BY SMTT(60) DEF IInv, TypeOK, HeldInv, EntryInv, EnvInv, Held, Idle, Alive
<1>2. Held \cap Idle = {}
  BY DEF IInv, EntryInv, Held, Idle
<1>3. Held \cap cleaning = {}
  BY DEF IInv, HeldInv, Held
<1>4. Idle \cap cleaning = {}
  BY DEF IInv, EntryInv, Idle
<1>5. QED BY <1>1, <1>2, <1>3, <1>4 DEF NoUseAfterShutdown

\* No environment is shut down while it can be used, nor twice
\* (docker.go ReleaseEnvironment, Clean).
THEOREM NoUse == Spec => []NoUseAfterShutdown
BY IInvNoUse, Invariance, PTL

\* Except on the error path of ToCircuitRequest no environment is lost, and
\* an entry stays in use only while a worker has its environment.
THEOREM NothingLost == Spec => []Accounted
<1>1. IInv => Alive = Held \cup Idle \cup cleaning \cup abandoned
  BY DEF IInv, TypeOK, HeldInv, EntryInv, EnvInv, Held, Idle, Alive
<1>2. IInv => \A k \in Keys : envs[k] # NoEntry /\ envs[k].inUse
                                => envs[k].env \in Held \cup abandoned
  BY DEF IInv, TypeOK, EntryInv, Held
<1>3. IInv => Accounted
  BY <1>1, <1>2 DEF Accounted
<1>4. QED BY <1>3, Invariance, PTL

\* The cache, the engines and the clean-up timer implement EnvLease.
THEOREM Refinement == Spec => ImplementsLease
<1>1. Init => Lease!Init
  BY DEF Init, Lease!Init, Idle
<1>2. IInv /\ IInv' /\ [Next]_vars => [Lease!Next]_Lease!vars
  <2> SUFFICES ASSUME IInv, IInv', [Next]_vars
               PROVE  Lease!Next \/ UNCHANGED Lease!vars
    OBVIOUS
  <2>1. ASSUME NEW w \in Workers, NEW k \in Keys, StartRequest(w, k)
        PROVE  Lease!Ask(w, k)
    BY <2>1 DEF StartRequest, Lease!Ask, IInv, Locals, Idle
  <2>2. ASSUME NEW w \in Workers, get(w)
        PROVE  \E e \in Envs : Lease!Reuse(w, e)
    <3>1. /\ key[w] \in Keys /\ envs[key[w]] \in Entry /\ ~envs[key[w]].inUse
          /\ key[w] # NoKey /\ env[w] = NoEnv
      <4>1. /\ pc[w] = "lookup" /\ envs[key[w]] # NoEntry /\ ~envs[key[w]].inUse
        BY <2>2, Zenon DEF get, Hit
      <4>2. key[w] # NoKey /\ env[w] = NoEnv
        BY <4>1 DEF IInv, Locals, Holding
      <4>3. key[w] \in Keys \cup {NoKey} /\ envs \in [Keys -> Entry \cup {NoEntry}]
        BY Zenon DEF IInv, TypeOK
      <4> QED BY <4>1, <4>2, <4>3, Zenon
    <3>2. PICK k \in Keys, e \in Envs : k = key[w] /\ e = envs[k].env
      BY <3>1 DEF Entry
    <3>3. e \in Idle /\ home[e] = k
      <4>1. envs[k] # NoEntry
        BY <3>1, <3>2, NilAssumption, Zenon
      <4>2. home[e] = k
        BY <3>2, <4>1, Zenon DEF IInv, EntryInv
      <4> QED BY <3>1, <3>2, <4>1, <4>2, Zenon DEF Idle
    <3>4. Idle' = Idle \ {e}
      <4>1. /\ \A j \in Keys : j # k => envs'[j] = envs[j]
            /\ envs'[k].inUse
        <5>1. envs \in [Keys -> Entry \cup {NoEntry}]
          BY Zenon DEF IInv, TypeOK
        <5>2. envs' = [envs EXCEPT ![k].inUse = TRUE, ![k].old = FALSE]
          BY <2>2, <3>2, Zenon DEF get
        <5> QED BY <3>1, <3>2, <5>1, <5>2 DEF Entry
      <4>2. \A j \in Keys : envs[j] # NoEntry => home[envs[j].env] = j
        BY Zenon DEF IInv, EntryInv
      <4>3. ASSUME NEW x \in Idle' PROVE x \in Idle \ {e}
        <5>1. PICK j \in Keys : envs'[j] # NoEntry /\ ~envs'[j].inUse /\ x = envs'[j].env
          BY <4>3, Zenon DEF Idle
        <5>2. j # k /\ envs'[j] = envs[j]
          BY <4>1, <5>1, Zenon
        <5>3. x \in Idle /\ home[x] = j
          BY <4>2, <5>1, <5>2, Zenon DEF Idle
        <5> QED BY <3>3, <5>2, <5>3, Zenon
      <4>4. ASSUME NEW x \in Idle \ {e} PROVE x \in Idle'
        <5>1. PICK j \in Keys : envs[j] # NoEntry /\ ~envs[j].inUse /\ x = envs[j].env
          BY <4>4, Zenon DEF Idle
        <5>2. envs'[j] = envs[j]
          BY <3>2, <4>1, <4>4, <5>1, Zenon
        <5> QED BY <5>1, <5>2, Zenon DEF Idle
      <4> QED BY <4>3, <4>4, Zenon
    <3>5. /\ env' = [env EXCEPT ![w] = e]
          /\ UNCHANGED <<key, home, cleaning, status>>
      BY <2>2, <3>2, Zenon DEF get
    <3>6. Lease!Reuse(w, e)
      BY <3>1, <3>2, <3>3, <3>4, <3>5, Zenon DEF Lease!Reuse
    <3> QED BY <3>6, Zenon
  <2>3. ASSUME NEW w \in Workers, getMiss(w)
        PROVE  UNCHANGED Lease!vars
    BY <2>3 DEF getMiss, Lease!vars, Idle
  <2>4. ASSUME NEW w \in Workers, NEW e \in Envs, newEnvironment(w, e)
        PROVE  Lease!Create(w, e)
    BY <2>4, SMTT(60) DEF newEnvironment, Lease!Create, IInv, TypeOK, Locals, EnvInv, Idle
  <2>5. ASSUME NEW w \in Workers, newEnvironmentError(w) \/ ToCircuitRequestError(w)
        PROVE  Lease!GiveUp(w)
    BY <2>5 DEF newEnvironmentError, ToCircuitRequestError, Lease!GiveUp,
                Lease!Done, IInv, Locals, Idle
  <2>6. ASSUME NEW w \in Workers, ToCircuitRequest(w) \/ Run(w) \/ putRefused(w)
        PROVE  UNCHANGED Lease!vars
    BY <2>6 DEF ToCircuitRequest, Run, putRefused, Lease!vars, Idle
  <2>7. ASSUME NEW w \in Workers, putNew(w) \/ putBack(w)
        PROVE  Lease!Return(w)
    <3>1. /\ key[w] \in Keys /\ env[w] \in Envs
          /\ envs'[key[w]] # NoEntry
          /\ envs'[key[w]].env = env[w] /\ ~envs'[key[w]].inUse
          /\ \A j \in Keys : j # key[w] => envs'[j] = envs[j]
      <4>1. key[w] \in Keys /\ env[w] \in Envs
        BY <2>7 DEF putNew, putBack, IInv, TypeOK, Locals
      <4>2. CASE putNew(w)
        <5>1. /\ envs'[key[w]] = [env |-> env[w], inUse |-> FALSE, old |-> FALSE]
              /\ \A j \in Keys : j # key[w] => envs'[j] = envs[j]
          BY <4>1, <4>2 DEF putNew, IInv, TypeOK
        <5>2. QED BY <4>1, <5>1, NewEntry, ZenonT(60)
      <4>3. CASE putBack(w)
        <5>1. /\ envs[key[w]] \in Entry /\ envs[key[w]].env = env[w]
              /\ envs'[key[w]] = [envs[key[w]] EXCEPT !.inUse = FALSE]
              /\ \A j \in Keys : j # key[w] => envs'[j] = envs[j]
          BY <4>1, <4>3 DEF putBack, IInv, TypeOK
        <5>2. /\ [envs[key[w]] EXCEPT !.inUse = FALSE] \in Entry
              /\ [envs[key[w]] EXCEPT !.inUse = FALSE].env = env[w]
          BY <5>1, EntryFlags, Zenon
        <5>3. ~[envs[key[w]] EXCEPT !.inUse = FALSE].inUse
          BY <5>1
        <5>4. QED BY <4>1, <5>1, <5>2, <5>3, Zenon
      <4>4. QED BY <2>7, <4>2, <4>3
    <3>2. Idle' = Idle \cup {env[w]}
      <4>1. envs[key[w]] = NoEntry \/ envs[key[w]].env = env[w]
        BY <2>7 DEF putNew, putBack
      <4>2. QED BY <3>1, <4>1 DEF Idle
    <3>3. \A e \in Idle : home[e] # home[env[w]]
      <4>1. SUFFICES ASSUME NEW k \in Keys, Hit(k), home[envs[k].env] = home[env[w]]
                     PROVE  FALSE
        BY Zenon DEF Idle
      <4>2. k = key[w]
        BY <3>1, <4>1 DEF IInv, EntryInv, HeldInv, TypeOK
      <4>3. envs[k].env = env[w]
        BY <2>7, <4>1, <4>2, Zenon DEF putNew, putBack
      <4>4. QED BY <4>1, <4>3 DEF IInv, EntryInv
    <3>4. QED BY <2>7, <3>1, <3>2, <3>3 DEF putNew, putBack, Lease!Return, Lease!Done
  <2>8. ASSUME NEW w \in Workers, Shutdown(w)
        PROVE  Lease!Discard(w)
    BY <2>8 DEF Shutdown, Lease!Discard, Lease!Done, IInv, TypeOK, Locals, Idle
  <2>9. ASSUME NEW k \in Keys, Age(k)
        PROVE  UNCHANGED Lease!vars
    <3>1. /\ envs[k] \in Entry
          /\ envs'[k] = [envs[k] EXCEPT !.old = TRUE]
          /\ \A j \in Keys : j # k => envs'[j] = envs[j]
      BY <2>9 DEF Age, IInv, TypeOK
    <3>2. /\ envs'[k] # NoEntry
          /\ envs'[k].env = envs[k].env
          /\ envs'[k].inUse <=> envs[k].inUse
      <4>1. /\ [envs[k] EXCEPT !.old = TRUE] \in Entry
            /\ [envs[k] EXCEPT !.old = TRUE].env = envs[k].env
        BY <3>1, EntryFlags, ZenonT(60)
      <4>2. [envs[k] EXCEPT !.old = TRUE].inUse <=> envs[k].inUse
        BY <3>1
      <4>3. QED BY <3>1, <4>1, <4>2, ZenonT(60)
    <3>3. Idle' = Idle
      BY <2>9, <3>1, <3>2 DEF Age, Idle
    <3>4. QED BY <2>9, <3>3 DEF Age, Lease!vars
  <2>10. ASSUME getOld
         PROVE  \E S \in SUBSET Idle : Lease!Reclaim(S)
    <3>1. cleaning' \subseteq Idle /\ cleaning = {}
      BY <2>10 DEF getOld, Idle
    <3>2. Idle' = Idle \ cleaning'
      <4>1. \A j, k \in Keys : Hit(j) /\ Hit(k) /\ envs[j].env = envs[k].env => j = k
        BY DEF IInv, EntryInv
      <4>2. \A k \in Keys : envs'[k] = IF Old(k) THEN NoEntry ELSE envs[k]
        BY <2>10 DEF getOld
      <4>3. \A e : e \in cleaning' <=> \E k \in Keys : Old(k) /\ envs[k].env = e
        BY <2>10, Zenon DEF getOld
      <4>4. QED BY <4>1, <4>2, <4>3 DEF Idle
    <3>3. QED BY <2>10, <3>1, <3>2, Zenon DEF getOld, Lease!Reclaim
  <2>11. ASSUME NEW e \in Envs, Clean(e)
         PROVE  Lease!Retire(e)
    BY <2>11 DEF Clean, Lease!Retire, IInv, TypeOK, EnvInv, Idle
  <2>12. CASE UNCHANGED vars
    BY <2>12 DEF vars, Lease!vars, Idle
  <2>13. QED
    BY <2>1, <2>2, <2>3, <2>4, <2>5, <2>6, <2>7, <2>8, <2>9, <2>10, <2>11, <2>12
       DEF Next, WorkerStep, Lease!Next
<1>3. QED BY <1>1, <1>2, Invariance, PTL DEF ImplementsLease, Spec, Lease!Spec
=============================================================================
