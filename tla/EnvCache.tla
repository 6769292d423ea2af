------------------------------ MODULE EnvCache ------------------------------
(***************************************************************************)
(* The environment cache of the execution engines and the goroutines that  *)
(* use it: the workers (worker/execution.go executeCommand, from the call  *)
(* of NewEnvironment on), the Docker and the native engine                 *)
(* (engines/docker.go, engines/native.go) and the clean-up timer           *)
(* (relay.go scheduledDockerCleanup).  get, put and getOld run under the   *)
(* cache's mutex and are atomic; everything between them interleaves.      *)
(*                                                                         *)
(* A key is what makeKey builds: pipeline/bundle:version.  Keys of bundles *)
(* without a Docker stanza (NativeKeys) never reach the cache.  The age of *)
(* an entry is abstracted to whether more than oldAge has passed since     *)
(* lastUsed.  Envs bounds the number of environments ever created.         *)
(***************************************************************************)
CONSTANTS Workers,     \* the MaxConcurrent execution goroutines
          Keys,        \* pipeline/bundle:version
          NativeKeys,  \* the keys of bundles the native engine runs
          Envs,        \* circuit.Environment instances
          NoKey, NoEnv, NoEntry

VARIABLES envs,      \* envCache.envs
          status,    \* status[e]: whether e exists, and dockerEnvironment.isDead
          pc,        \* where worker w is in executeCommand
          key,       \* makeKey(request.PipelineID(), bundle) of w's request
          env,       \* executeCommand's env
          cleaning,  \* what getOld returned to Clean and is not shut down yet
          home,      \* history: the key each environment was created for
          abandoned  \* history: environments dropped without a release

vars == <<envs, status, pc, key, env, cleaning, home, abandoned>>

Entry == [env : Envs, inUse : BOOLEAN, old : BOOLEAN]

\* The values that stand for nil are none of the others.
ASSUME NilAssumption == /\ NoKey \notin Keys
                        /\ NoEnv \notin Envs
                        /\ NoEntry \notin Entry

\* Where a worker is when it has an environment in hand.
Holding == {"request", "run", "release", "shutdown"}

TypeOK == /\ envs \in [Keys -> Entry \cup {NoEntry}]
          /\ status \in [Envs -> {"unborn", "alive", "dead"}]
          /\ pc \in [Workers -> {"idle", "lookup", "create"} \cup Holding]
          /\ key \in [Workers -> Keys \cup {NoKey}]
          /\ env \in [Workers -> Envs \cup {NoEnv}]
          /\ cleaning \subseteq Envs
          /\ home \in [Envs -> Keys \cup {NoKey}]
          /\ abandoned \subseteq Envs

Init == /\ envs = [k \in Keys |-> NoEntry]
        /\ status = [e \in Envs |-> "unborn"]
        /\ pc = [w \in Workers |-> "idle"]
        /\ key = [w \in Workers |-> NoKey]
        /\ env = [w \in Workers |-> NoEnv]
        /\ cleaning = {}
        /\ home = [e \in Envs |-> NoKey]
        /\ abandoned = {}

Goto(w, label) == pc' = [pc EXCEPT ![w] = label]

\* executeCommand returns: its locals are gone.
Return(w) == /\ Goto(w, "idle")
             /\ key' = [key EXCEPT ![w] = NoKey]
             /\ env' = [env EXCEPT ![w] = NoEnv]

(***************************************************************************)
(* The worker.                                                             *)
(***************************************************************************)
\* The bundle is found and its engine is there.
StartRequest(w, k) == /\ pc[w] = "idle"
                      /\ Goto(w, "lookup")
                      /\ key' = [key EXCEPT ![w] = k]
                      /\ UNCHANGED <<envs, status, env, cleaning, home, abandoned>>

\* Mutant: the in-use flag is not looked at.
Hit_ignoresInUse(k) == envs[k] # NoEntry

\* get returns the cached environment: the key has an entry nobody uses.
Hit(k) == envs[k] # NoEntry /\ ~envs[k].inUse

get(w) == /\ pc[w] = "lookup"
          /\ key[w] \notin NativeKeys
          /\ Hit(key[w])
          /\ env' = [env EXCEPT ![w] = envs[key[w]].env]
          /\ envs' = [envs EXCEPT ![key[w]].inUse = TRUE, ![key[w]].old = FALSE]
          /\ Goto(w, "request")
          /\ UNCHANGED <<status, key, cleaning, home, abandoned>>

getMiss(w) == /\ pc[w] = "lookup"
              /\ key[w] \in NativeKeys \/ ~Hit(key[w])
              /\ Goto(w, "create")
              /\ UNCHANGED <<envs, status, key, env, cleaning, home, abandoned>>

\* Mutant: an environment that was shut down is started again.
newEnvironment_revived(w, e) ==
    /\ pc[w] = "create"
    /\ status[e] # "alive"
    /\ status' = [status EXCEPT ![e] = "alive"]
    /\ home' = [home EXCEPT ![e] = key[w]]
    /\ env' = [env EXCEPT ![w] = e]
    /\ Goto(w, "request")
    /\ UNCHANGED <<envs, key, cleaning, abandoned>>

newEnvironment(w, e) == /\ pc[w] = "create"
                        /\ status[e] = "unborn"
                        /\ status' = [status EXCEPT ![e] = "alive"]
                        /\ home' = [home EXCEPT ![e] = key[w]]
                        /\ env' = [env EXCEPT ![w] = e]
                        /\ Goto(w, "request")
                        /\ UNCHANGED <<envs, key, cleaning, abandoned>>

\* Mutant: the error is dropped and the nil environment used.
newEnvironmentError_dropped(w) ==
    /\ pc[w] = "create"
    /\ Goto(w, "request")
    /\ UNCHANGED <<envs, status, key, env, cleaning, home, abandoned>>

\* The engine returns an error, which becomes the response.
newEnvironmentError(w) == /\ pc[w] = "create"
                          /\ Return(w)
                          /\ UNCHANGED <<envs, status, cleaning, home, abandoned>>

ToCircuitRequest(w) == /\ pc[w] = "request"
                       /\ Goto(w, "run")
                       /\ UNCHANGED <<envs, status, key, env, cleaning, home, abandoned>>

\* The error becomes the response; the environment is not released.
ToCircuitRequestError(w) == /\ pc[w] = "request"
                            /\ abandoned' = abandoned \cup {env[w]}
                            /\ Return(w)
                            /\ UNCHANGED <<envs, status, cleaning, home>>

\* Run's error, if any, goes to the output parser: the release follows anyway.
Run(w) == /\ pc[w] = "run"
          /\ Goto(w, "release")
          /\ UNCHANGED <<envs, status, key, env, cleaning, home, abandoned>>

\* Mutant: the key is built again from a bundle that changed in between.
putNew_otherKey(w) ==
    /\ pc[w] = "release"
    /\ key[w] \notin NativeKeys
    /\ \E k \in Keys \ NativeKeys :
          /\ envs[k] = NoEntry
          /\ envs' = [envs EXCEPT ![k] =
                        [env |-> env[w], inUse |-> FALSE, old |-> FALSE]]
    /\ Return(w)
    /\ UNCHANGED <<status, cleaning, home, abandoned>>

\* A first put for the key stores the environment.
putNew(w) == /\ pc[w] = "release"
             /\ key[w] \notin NativeKeys
             /\ envs[key[w]] = NoEntry
             /\ envs' = [envs EXCEPT ![key[w]] =
                           [env |-> env[w], inUse |-> FALSE, old |-> FALSE]]
             /\ Return(w)
             /\ UNCHANGED <<status, cleaning, home, abandoned>>

\* A put of the environment that is stored there; lastUsed stays.
putBack(w) == /\ pc[w] = "release"
              /\ key[w] \notin NativeKeys
              /\ envs[key[w]] # NoEntry
              /\ envs[key[w]].env = env[w]
              /\ envs' = [envs EXCEPT ![key[w]].inUse = FALSE]
              /\ Return(w)
              /\ UNCHANGED <<status, cleaning, home, abandoned>>

\* Mutant: ReleaseEnvironment ignores the false that put returns.
putRefused_noShutdown(w) ==
    /\ pc[w] = "release"
    /\ \/ key[w] \in NativeKeys
       \/ envs[key[w]] # NoEntry /\ envs[key[w]].env # env[w]
    /\ Return(w)
    /\ UNCHANGED <<envs, status, cleaning, home, abandoned>>

\* put returns false, or the environment is native.
putRefused(w) == /\ pc[w] = "release"
                 /\ \/ key[w] \in NativeKeys
                    \/ envs[key[w]] # NoEntry /\ envs[key[w]].env # env[w]
                 /\ Goto(w, "shutdown")
                 /\ UNCHANGED <<envs, status, key, env, cleaning, home, abandoned>>

Shutdown(w) == /\ pc[w] = "shutdown"
               /\ status' = [status EXCEPT ![env[w]] = "dead"]
               /\ Return(w)
               /\ UNCHANGED <<envs, cleaning, home, abandoned>>

(***************************************************************************)
(* Time and the clean-up timer.                                            *)
(***************************************************************************)
\* More than oldAge has passed since the entry's lastUsed.
Age(k) == /\ envs[k] # NoEntry
          /\ ~envs[k].old
          /\ envs' = [envs EXCEPT ![k].old = TRUE]
          /\ UNCHANGED <<status, pc, key, env, cleaning, home, abandoned>>

\* Mutant: the in-use flag is not looked at.
Old_ignoresInUse(k) == envs[k] # NoEntry /\ envs[k].old

\* Mutant: the comparison with oldAge is the wrong way round.
Old_young(k) == envs[k] # NoEntry /\ ~envs[k].inUse /\ ~envs[k].old

Old(k) == envs[k] # NoEntry /\ ~envs[k].inUse /\ envs[k].old

\* The timer is armed again only when Clean has returned.  (A Clean that finds
\* the daemon out of reach returns without a look at the cache.)
getOld == /\ cleaning = {}
          /\ \E k \in Keys : Old(k)
          /\ cleaning' = {envs[k].env : k \in {j \in Keys : Old(j)}}
          /\ envs' = [k \in Keys |-> IF Old(k) THEN NoEntry ELSE envs[k]]
          /\ UNCHANGED <<status, pc, key, env, home, abandoned>>

Clean(e) == /\ e \in cleaning
            /\ status' = [status EXCEPT ![e] = "dead"]
            /\ cleaning' = cleaning \ {e}
            /\ UNCHANGED <<envs, pc, key, env, home, abandoned>>

WorkerStep(w) == \/ get(w) \/ getMiss(w)
                 \/ \E e \in Envs : newEnvironment(w, e)
                 \/ newEnvironmentError(w)
                 \/ ToCircuitRequest(w) \/ ToCircuitRequestError(w)
                 \/ Run(w)
                 \/ putNew(w) \/ putBack(w) \/ putRefused(w)
                 \/ Shutdown(w)

Next == \/ \E w \in Workers, k \in Keys : StartRequest(w, k)
        \/ \E w \in Workers : WorkerStep(w)
        \/ \E k \in Keys : Age(k)
        \/ getOld
        \/ \E e \in Envs : Clean(e)

Spec == Init /\ [][Next]_vars

\* Goroutines that can run do run, time passes, and the clean-up timer,
\* armed again at the end of each clean-up, keeps firing, and does not find
\* the daemon out of reach for ever.
Fairness == /\ \A w \in Workers : WF_vars(WorkerStep(w))
            /\ \A k \in Keys : WF_vars(Age(k))
            /\ WF_vars(getOld)
            /\ \A e \in Envs : WF_vars(Clean(e))

FairSpec == Spec /\ Fairness

(***************************************************************************)
(* Properties.                                                             *)
(***************************************************************************)
Held == {env[w] : w \in Workers} \ {NoEnv}
Idle == {envs[k].env : k \in {j \in Keys : envs[j] # NoEntry /\ ~envs[j].inUse}}
Alive == {e \in Envs : status[e] = "alive"}

\* Two workers never run commands in the same environment, whatever the
\* order of their get, put and of the clean-up.
ExclusiveLease == \A v, w \in Workers :
                     v # w /\ env[v] # NoEnv => env[v] # env[w]

\* No environment is shut down while a worker has it, while the cache could
\* hand it out, or twice: whatever is held, idle or about to be shut down
\* by Clean is alive, and it is only one of the three.
NoUseAfterShutdown == /\ Held \cup Idle \cup cleaning \subseteq Alive
                      /\ Held \cap Idle = {}
                      /\ Held \cap cleaning = {}
                      /\ Idle \cap cleaning = {}

\* A cached environment is only handed to the pipeline, bundle and version
\* that it was created for.
Isolation == \A w \in Workers : env[w] # NoEnv => home[env[w]] = key[w]

\* Every environment that was created and for which Shutdown was not called
\* is held, idle in the cache, about to be shut down, or was abandoned on the
\* error path of ToCircuitRequest: no other path of executeCommand or of the
\* cache forgets one.  And an entry is marked in use only while a worker has
\* its environment, or because that worker abandoned it.  (Whether the daemon
\* removed the container is another matter: the engines do not try again when
\* Shutdown fails.)
Accounted == /\ Alive = Held \cup Idle \cup cleaning \cup abandoned
             /\ \A k \in Keys : envs[k] # NoEntry /\ envs[k].inUse
                                  => envs[k].env \in Held \cup abandoned

\* An idle environment is used again or cleaned up.
IdleReclaimed == \A e \in Envs : e \in Idle ~> e \in Held \/ status[e] = "dead"

\* The cache keeps the engines' promise.
Lease == INSTANCE EnvLease WITH want <- key, lease <- env, pool <- Idle,
                                retired <- cleaning,
                                dead <- {e \in Envs : status[e] = "dead"}

ImplementsLease == Lease!Spec
=============================================================================
