----------------------------- MODULE DynConfig -----------------------------
(***************************************************************************)
(* Managed dynamic configuration: the updater (relay/dynamic_config.go),   *)
(* the disk it writes to, and a worker that reads a bundle's layers from   *)
(* there (relay/config/dynamic_config.go).                                 *)
(*                                                                         *)
(* On disk there is a directory per signature, the symlink root (through   *)
(* which everybody reads) and, for a moment, the symlink "new".  The files *)
(* of a signature are determined by it: of a file only matters whether it  *)
(* is missing, half written (WriteFile truncates before it writes) or      *)
(* whole.  The process may die at any step and start again; the disk stays *)
(* as it is.  The updater's own connection reconnects by itself and keeps  *)
(* its one router, so dynConfigUpdate never runs twice at a time.          *)
(***************************************************************************)
EXTENDS Integers, Sequences, FiniteSetsExt

CONSTANTS Sigs,      \* signatures of the configurations Cog has
          Layers,    \* the files of a bundle, numbered: base, room, user
          Keys,      \* the top-level keys of the files
          IllegalKeys,  \* those that begin with COG_ or RELAY_
          FilesOf,   \* FilesOf[sig]: the files of that configuration
          KeysOf,    \* KeysOf[sig][f]: the keys that file sets there
          NoSig,     \* "", and the target of a symlink that is not there
          MaxChanges,   \* bound on the changes of the configuration in Cog
          MaxErrors,    \* bound on the errors the file system returns
          MaxRestarts,  \* bound on the deaths of the process
          MaxLost       \* bound on the lost replies

VARIABLES cogSig,     \* the signature of Cog's configuration
          changes, errors, restarts, lost,  \* what happened so far, for the bounds
          runPc,      \* where Run is
          hookPc,     \* where the handler of the connected event is
          timer,      \* refreshTimer: "nil", "armed" or "idle"
          replies,    \* the signatures of Cog's replies on their way (NoSig: no change)
          lastSignature,
          pc,         \* where dynConfigUpdate is
          update,     \* the signature it is writing
          todo,       \* the files it has still to write
          nilTimer,   \* its deferred Reset is one of a nil refreshTimer
          dirs,       \* the directories there are
          file,       \* file[sig][f]: "absent", "partial" or "whole"
          new,        \* the target of the symlink "new"
          root,       \* the target of dynamicConfigRoot
          reader,     \* LoadDynamicConfig in a worker
          lookup,     \* "dynamic-config" of the environment's user data
          halted,     \* Halt was called
          crashed     \* the process died of a panic

bounds == <<changes, errors, restarts, lost>>
cogVars == <<cogSig, replies>>
procVars == <<runPc, hookPc, timer, lastSignature>>
updVars == <<pc, update, todo, nilTimer>>
diskVars == <<dirs, file, new, root>>
readVars == <<reader, lookup>>
endVars == <<halted, crashed>>
vars == <<cogVars, bounds, procVars, updVars, diskVars, readVars, endVars>>

NoFiles == [f \in Layers |-> "absent"]

\* A value is known by the file it comes from; Unset stands for none.
Unset == <<>>
Value == Layers \X Sigs \X {"partial", "whole"}
NoConf == [k \in Keys |-> Unset]

\* pc, the files still to find, those found and not read, the map read so far,
\* and whether root was moved meanwhile.
Reader == [pc : {"idle", "find", "read", "done"}, find : SUBSET Layers,
           read : SUBSET Layers, conf : [Keys -> Value \cup {Unset}], moved : BOOLEAN]
IdleReader == [pc |-> "idle", find |-> {}, read |-> {}, conf |-> NoConf, moved |-> FALSE]

ASSUME DynConfigAssumption == /\ NoSig \notin Sigs
                              /\ Layers \subseteq Nat
                              /\ FilesOf \in [Sigs -> SUBSET Layers]
                              /\ KeysOf \in [Sigs -> [Layers -> SUBSET Keys]]
                              /\ MaxChanges \in Nat /\ MaxErrors \in Nat
                              /\ MaxRestarts \in Nat /\ MaxLost \in Nat

TypeOK == /\ cogSig \in Sigs
          /\ runPc \in {"options", "request", "timer", "done"}
          /\ hookPc \in {"call", "subscribe", "done"}
          /\ timer \in {"nil", "armed", "idle"}
          /\ replies \in Seq(Sigs \cup {NoSig})
          /\ lastSignature \in Sigs \cup {NoSig}
          /\ pc \in {"idle", "mkdir", "write", "symlink", "rename", "clean", "reset"}
          /\ update \in Sigs \cup {NoSig}
          /\ todo \subseteq Layers /\ nilTimer \in BOOLEAN
          /\ dirs \subseteq Sigs
          /\ file \in [Sigs -> [Layers -> {"absent", "partial", "whole"}]]
          /\ \A sig \in Sigs \ dirs : file[sig] = NoFiles
          /\ new \in Sigs \cup {NoSig}
          /\ root \in Sigs \cup {NoSig}
          /\ reader \in Reader /\ lookup \in BOOLEAN
          /\ halted \in BOOLEAN /\ crashed \in BOOLEAN

\* The process has started: Run has connected the client, which has started
\* the goroutine of OnConnect.
Init == /\ runPc = "options" /\ hookPc = "call" /\ timer = "nil"
        /\ lastSignature = NoSig
        /\ pc = "idle" /\ update = NoSig /\ todo = {} /\ nilTimer = FALSE
        /\ replies = <<>>
        /\ reader = IdleReader /\ lookup = TRUE
        /\ cogSig \in Sigs
        /\ changes = 0 /\ errors = 0 /\ restarts = 0 /\ lost = 0
        /\ dirs = {}
        /\ file = [sig \in Sigs |-> NoFiles]
        /\ new = NoSig /\ root = NoSig
        /\ halted = FALSE /\ crashed = FALSE

(***************************************************************************)
(* Run, and the connected event, whose handler OnConnect runs in another   *)
(* goroutine as soon as the client is connected.                           *)
(***************************************************************************)
\* MQTTConnection.Connect stores the options, the events handler with them.
setOptions == /\ runPc = "options"
              /\ runPc' = "request"
              /\ UNCHANGED <<cogVars, bounds, hookPc, timer, lastSignature, updVars,
                             diskVars, readVars, endVars>>

\* The handler is called through those options, and sets dcu.conn.
connectedEvent == /\ hookPc = "call"
                  /\ crashed' = (runPc = "options")
                  /\ hookPc' = "subscribe"
                  /\ UNCHANGED <<cogVars, bounds, runPc, timer, lastSignature, updVars,
                                 diskVars, readVars, halted>>

subscribe == /\ hookPc = "subscribe"
             /\ hookPc' = "done"
             /\ UNCHANGED <<cogVars, bounds, runPc, timer, lastSignature, updVars,
                            diskVars, readVars, endVars>>

\* The request goes out, and Cog answers.
request == replies' = Append(replies, IF lastSignature = cogSig THEN NoSig ELSE cogSig)

\* The first refreshConfigs; dcu.conn may be nil.
runRequest == /\ runPc = "request"
              /\ runPc' = "timer"
              /\ crashed' = (hookPc = "call")
              /\ IF hookPc = "call" THEN UNCHANGED replies ELSE request
              /\ UNCHANGED <<cogSig, bounds, hookPc, timer, lastSignature, updVars,
                             diskVars, readVars, halted>>

runTimer == /\ runPc = "timer"
            /\ runPc' = "done"
            /\ timer' = "armed"
            /\ UNCHANGED <<cogVars, bounds, hookPc, lastSignature, updVars, diskVars,
                           readVars, endVars>>

\* The timer fires (the interval outlasts the subscription of a new process).
\* After Halt the client is disconnected: the publish fails and the timer is
\* reset.
refreshConfigs == /\ timer = "armed" /\ hookPc = "done"
                  /\ \/ ~halted /\ request /\ timer' = "idle"
                     \/ halted /\ UNCHANGED <<replies, timer>>
                  /\ UNCHANGED <<cogSig, bounds, runPc, hookPc, lastSignature, updVars,
                                 diskVars, readVars, endVars>>

\* Halt hands over to wait, which stops the timer and disconnects.
wait == /\ runPc = "done" /\ ~halted
        /\ halted' = TRUE
        /\ timer' = "idle"
        /\ replies' = <<>>
        /\ UNCHANGED <<cogSig, bounds, runPc, hookPc, lastSignature, updVars, diskVars,
                       readVars, crashed>>

(***************************************************************************)
(* dynConfigUpdate.                                                        *)
(***************************************************************************)
\* A reply that cannot be decoded counts as one that says nothing changed.
\* The receiver of the deferred Reset is the refreshTimer of this moment.
dynConfigUpdate ==
    /\ hookPc = "done" /\ pc = "idle"
    /\ replies # <<>>
    /\ replies' = Tail(replies)
    /\ nilTimer' = (timer = "nil")
    /\ \/ /\ Head(replies) \notin {NoSig, lastSignature}
          /\ update' = Head(replies)
          /\ pc' = "mkdir"
       \/ /\ Head(replies) \in {NoSig, lastSignature}
          /\ pc' = "reset"
          /\ UNCHANGED update
    /\ UNCHANGED <<cogSig, bounds, procVars, todo, diskVars, readVars, endVars>>

\* Mutant: the directory is not made.
mkdir_missing == /\ pc = "mkdir"
                 /\ todo' = FilesOf[update]
                 /\ pc' = "write"
                 /\ UNCHANGED <<cogVars, bounds, procVars, update, nilTimer, diskVars,
                                readVars, endVars>>

mkdir == /\ pc = "mkdir"
         /\ dirs' = dirs \cup {update}
         /\ todo' = FilesOf[update]
         /\ pc' = "write"
         /\ UNCHANGED <<cogVars, bounds, procVars, update, nilTimer, file, new, root,
                        readVars, endVars>>

\* WriteFile opens, and truncates, the file, and then writes it.
truncate(f) == /\ pc = "write" /\ f \in todo
               /\ file[update][f] # "partial"
               /\ file' = [file EXCEPT ![update][f] = "partial"]
               /\ UNCHANGED <<cogVars, bounds, procVars, updVars, dirs, new, root,
                              readVars, endVars>>

write(f) == /\ pc = "write" /\ f \in todo
            /\ file[update][f] = "partial"
            /\ file' = [file EXCEPT ![update][f] = "whole"]
            /\ todo' = todo \ {f}
            /\ UNCHANGED <<cogVars, bounds, procVars, pc, update, nilTimer, dirs, new,
                           root, readVars, endVars>>

\* os.Symlink fails if there is a "new" already.
symlink == /\ pc = "write" /\ todo = {}
           /\ \/ new = NoSig /\ new' = update /\ pc' = "rename"
              \/ new # NoSig /\ pc' = "reset" /\ UNCHANGED new
           /\ UNCHANGED <<cogVars, bounds, procVars, update, todo, nilTimer, dirs, file,
                          root, readVars, endVars>>

\* updateConfigs has succeeded.
rename == /\ pc = "rename"
          /\ root' = new
          /\ new' = NoSig
          /\ lastSignature' = update
          /\ reader' = [reader EXCEPT !.moved = TRUE]
          /\ pc' = "clean"
          /\ UNCHANGED <<cogVars, bounds, runPc, hookPc, timer, update, todo, nilTimer,
                         dirs, file, lookup, endVars>>

\* os.RemoveAll deletes the files of a directory, and then the directory.
RemoveAll(sig) ==
    \/ /\ \E f \in Layers : /\ file[sig][f] # "absent"
                            /\ file' = [file EXCEPT ![sig][f] = "absent"]
       /\ UNCHANGED dirs
    \/ /\ file[sig] = NoFiles
       /\ dirs' = dirs \ {sig}
       /\ UNCHANGED file

\* Mutant: the directory that is in use is removed with the others.
cleanOldConfigs_all(sig) ==
    /\ pc = "clean"
    /\ sig \in dirs
    /\ RemoveAll(sig)
    /\ UNCHANGED <<cogVars, bounds, procVars, updVars, new, root, readVars, endVars>>

cleanOldConfigs(sig) ==
    /\ pc = "clean"
    /\ sig \in dirs \ {lastSignature}
    /\ RemoveAll(sig)
    /\ UNCHANGED <<cogVars, bounds, procVars, updVars, new, root, readVars, endVars>>

\* The errors of RemoveAll are ignored: what could not be removed stays.
cleaned == /\ pc = "clean"
           /\ \/ dirs = {lastSignature} /\ UNCHANGED errors
              \/ errors < MaxErrors /\ errors' = errors + 1
           /\ pc' = "reset"
           /\ UNCHANGED <<cogVars, changes, restarts, lost, procVars, update, todo,
                          nilTimer, diskVars, readVars, endVars>>

\* updateConfigs returns false: an error of the file system, or the root is no
\* symlink.
updateError == /\ pc \in {"mkdir", "write", "rename"}
               /\ errors < MaxErrors
               /\ errors' = errors + 1
               /\ todo' = {}
               /\ pc' = "reset"
               /\ UNCHANGED <<cogVars, changes, restarts, lost, procVars, update,
                              nilTimer, diskVars, readVars, endVars>>

\* Mutant: the timer is reset after an update only.
reset_updated == /\ pc = "reset"
                 /\ crashed' = nilTimer
                 /\ timer' = IF ~nilTimer /\ update # NoSig THEN "armed" ELSE timer
                 /\ pc' = "idle"
                 /\ update' = NoSig
                 /\ UNCHANGED <<cogVars, bounds, runPc, hookPc, lastSignature, todo,
                                nilTimer, diskVars, readVars, halted>>

\* The deferred Reset panics on a nil timer.
reset == /\ pc = "reset"
         /\ crashed' = nilTimer
         /\ timer' = IF nilTimer THEN timer ELSE "armed"
         /\ pc' = "idle"
         /\ update' = NoSig
         /\ UNCHANGED <<cogVars, bounds, runPc, hookPc, lastSignature, todo, nilTimer,
                        diskVars, readVars, halted>>

(***************************************************************************)
(* executeCommand gets the dynamic configuration for a command, unless its *)
(* environment says that there is none.                                    *)
(***************************************************************************)
\* An environment is made for a new pipeline.
newEnvironment == /\ reader.pc = "idle"
                  /\ ~lookup /\ lookup' = TRUE
                  /\ UNCHANGED <<cogVars, bounds, procVars, updVars, diskVars, reader,
                                 endVars>>

\* Without a root the map is empty.
LoadDynamicConfig ==
    /\ reader.pc = "idle" /\ lookup
    /\ reader' = IF root \in dirs THEN [IdleReader EXCEPT !.pc = "find", !.find = Layers]
                 ELSE [IdleReader EXCEPT !.pc = "done"]
    /\ UNCHANGED <<cogVars, bounds, procVars, updVars, diskVars, lookup, endVars>>

Readable(f) == root \in dirs /\ file[root][f] # "absent"

\* The files are looked for in their order, and then
allConfigFiles ==
    /\ reader.pc = "find"
    /\ \/ reader.find = {} /\ reader' = [reader EXCEPT !.pc = "read"]
       \/ \E f \in reader.find :
             /\ \A g \in reader.find : f <= g
             /\ reader' = [reader EXCEPT !.find = @ \ {f},
                                         !.read = IF Readable(f) THEN @ \cup {f} ELSE @]
    /\ UNCHANGED <<cogVars, bounds, procVars, updVars, diskVars, lookup, endVars>>

\* Mutant: the values that are set already stay.
merge_keeps(conf, f, keys) ==
    [k \in Keys |-> IF k \in keys /\ conf[k] = Unset THEN <<f, root, file[root][f]>>
                    ELSE conf[k]]

merge(conf, f, keys) ==
    [k \in Keys |-> IF k \in keys THEN <<f, root, file[root][f]>> ELSE conf[k]]

\* read into the same map.  A file that cannot be read makes it empty; one
\* that is half written does so too, or yields any of its keys.
ReadFile ==
    /\ reader.pc = "read"
    /\ \E f \in reader.read :
          /\ \A g \in reader.read : f <= g
          /\ \/ /\ Readable(f)
                /\ \E keys \in SUBSET KeysOf[root][f] :
                      /\ file[root][f] = "whole" => keys = KeysOf[root][f]
                      /\ reader' = [reader EXCEPT !.read = @ \ {f},
                                                  !.conf = merge(@, f, keys)]
             \/ /\ ~Readable(f) \/ file[root][f] = "partial"
                /\ reader' = [reader EXCEPT !.pc = "done", !.conf = NoConf]
    /\ UNCHANGED <<cogVars, bounds, procVars, updVars, diskVars, lookup, endVars>>

\* Then the illegal keys are deleted.
deleteIllegal ==
    /\ reader.pc = "read" /\ reader.read = {}
    /\ reader' = [reader EXCEPT !.pc = "done",
                                !.conf = [k \in Keys |-> IF k \in IllegalKeys THEN Unset
                                                         ELSE @[k]]]
    /\ UNCHANGED <<cogVars, bounds, procVars, updVars, diskVars, lookup, endVars>>

\* Mutant: a single key is not enough.
foundDynamicConfig_many == Cardinality({k \in Keys : reader.conf[k] # Unset}) > 1

foundDynamicConfig == reader.conf # NoConf

\* What was found goes into the command's environment variables; if nothing
\* was, the environment is marked, and is not asked again.
dynamicConfigFound ==
    /\ reader.pc = "done"
    /\ reader' = IdleReader
    /\ lookup' = foundDynamicConfig
    /\ UNCHANGED <<cogVars, bounds, procVars, updVars, diskVars, endVars>>

(***************************************************************************)
(* Cog, the bus, and the process.                                          *)
(***************************************************************************)
changeConfig == /\ changes < MaxChanges
                /\ changes' = changes + 1
                /\ cogSig' \in Sigs \ {cogSig}
                /\ UNCHANGED <<replies, errors, restarts, lost, procVars, updVars,
                               diskVars, readVars, endVars>>

\* A reply has no subscriber yet, or is lost with the connection.
loseReply == /\ replies # <<>>
             /\ replies' = Tail(replies)
             /\ \/ hookPc # "done" /\ UNCHANGED lost
                \/ lost < MaxLost /\ lost' = lost + 1
             /\ UNCHANGED <<cogSig, changes, errors, restarts, procVars, updVars,
                            diskVars, readVars, endVars>>

\* The process is killed, and starts again.
restart == /\ restarts < MaxRestarts
           /\ restarts' = restarts + 1
           /\ runPc' = "options" /\ hookPc' = "call" /\ timer' = "nil"
           /\ lastSignature' = NoSig
           /\ pc' = "idle" /\ update' = NoSig /\ todo' = {} /\ nilTimer' = FALSE
           /\ replies' = <<>>
           /\ reader' = IdleReader /\ lookup' = TRUE
           /\ UNCHANGED <<cogSig, changes, errors, lost, diskVars, endVars>>

UpdaterStep == \/ dynConfigUpdate \/ mkdir
               \/ \E f \in Layers : truncate(f) \/ write(f)
               \/ symlink \/ rename
               \/ \E sig \in Sigs : cleanOldConfigs(sig)
               \/ cleaned \/ updateError \/ reset

RunStep == setOptions \/ runRequest \/ runTimer
HookStep == connectedEvent \/ subscribe
ReaderStep == \/ newEnvironment \/ LoadDynamicConfig \/ allConfigFiles \/ ReadFile
              \/ deleteIllegal \/ dynamicConfigFound

Next == /\ ~crashed
        /\ \/ RunStep \/ HookStep \/ refreshConfigs \/ wait
           \/ UpdaterStep \/ ReaderStep
           \/ changeConfig \/ loseReply \/ restart

Spec == Init /\ [][Next]_vars

\* The goroutines run and the timer fires.
Fairness == /\ WF_vars(~crashed /\ RunStep)
            /\ WF_vars(~crashed /\ HookStep)
            /\ WF_vars(~crashed /\ refreshConfigs)
            /\ WF_vars(~crashed /\ UpdaterStep)

FairSpec == Spec /\ Fairness

(***************************************************************************)
(* Properties.                                                             *)
(***************************************************************************)
\* Once there is a configuration, whatever happens to the process and to the
\* updates, a bundle's files are there: the root never dangles, no file of
\* the configuration it stands for is missing, and there is none besides.
RootServes == root # NoSig =>
                 /\ root \in dirs
                 /\ \A f \in Layers : (file[root][f] # "absent") <=> (f \in FilesOf[root])

SetsKey(f, k) == f \in FilesOf[root] /\ k \in KeysOf[root][f]

\* The configuration the root stands for: a key has the value of the last
\* layer that sets it.
Layered(conf) ==
    \A k \in Keys :
       IF root # NoSig /\ k \notin IllegalKeys /\ \E f \in Layers : SetsKey(f, k)
       THEN \E f \in Layers : /\ SetsKey(f, k)
                              /\ \A g \in Layers : SetsKey(g, k) => g <= f
                              /\ conf[k] = <<f, root, "whole">>
       ELSE conf[k] = Unset

\* A worker that reads while the root is not moved gets the layers of one
\* configuration, all of them whole, "with successive top-level keys
\* overwriting values previously set", and no illegal key.  (After a restart
\* the updater forgets its signature and rewrites the files in use.)
UndisturbedRead == reader.pc = "done" /\ ~reader.moved /\ restarts = 0 =>
                      Layered(reader.conf)

\* An environment is marked as one without dynamic configuration only if
\* there was none for the command, or if the root was moved, or files were
\* rewritten, during the read: then its later commands do without.
MarkedRightly == [][lookup /\ ~lookup' =>
                      Layered(NoConf) \/ reader.moved \/ restarts > 0]_vars

\* "DynamicConfigUpdater periodically updates bundle dynamic configurations
\* from Cog": when Cog's configuration no longer changes, the workers' one
\* comes to be the same, through errors and restarts.  Two things end the
\* updates for good: the loss of a reply, and a link "new" that an error or a
\* restart between Symlink and Rename has left.
Converges == <>[](crashed \/ halted \/ lost > 0 \/ new # NoSig \/ root = cogSig)
=============================================================================
