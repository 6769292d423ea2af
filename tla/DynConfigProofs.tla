--------------------------- MODULE DynConfigProofs ---------------------------
(***************************************************************************)
(* The root of the managed configuration never dangles and never misses a  *)
(* file: for every set of signatures, every set of files, and any number   *)
(* of changes, errors, restarts and lost replies.  A read that nothing     *)
(* disturbs yields the layered content of one configuration.               *)
(***************************************************************************)
EXTENDS DynConfig, TLAPS

\* The part of the type invariant that the disk needs.
DiskTypeOK == /\ cogSig \in Sigs
              /\ replies \in Seq(Sigs \cup {NoSig})
              /\ update \in Sigs \cup {NoSig}
              /\ todo \subseteq Layers
              /\ dirs \subseteq Sigs
              /\ file \in [Sigs -> [Layers -> {"absent", "partial", "whole"}]]
              /\ new \in Sigs \cup {NoSig}
              /\ root \in Sigs \cup {NoSig}

\* No directory, in use, being written, or left behind by an earlier process,
\* has a file that its configuration does not have.
NothingBesides == \A sig \in Sigs, f \in Layers :
                     file[sig][f] # "absent" => f \in FilesOf[sig]

\* What updateConfigs has got done at each of its steps: the files that are
\* not left to do are there, "new" stands for the complete directory, and what
\* is kept by cleanOldConfigs is what the root stands for.
Progress == /\ pc \in {"mkdir", "write", "rename", "clean"} => update \in Sigs
            /\ pc \in {"write", "rename"} =>
                  /\ update \in dirs
                  /\ todo \subseteq FilesOf[update]
                  /\ \A f \in FilesOf[update] \ todo : file[update][f] # "absent"
            /\ pc = "rename" => new = update /\ todo = {}
            /\ pc = "clean" => root = lastSignature /\ root # NoSig

DiskInv == DiskTypeOK /\ NothingBesides /\ Progress /\ RootServes

LEMMA DiskInvInit == Init => DiskInv
<1> SUFFICES ASSUME Init PROVE DiskInv
  OBVIOUS
<1>1. DiskTypeOK
  BY DEF Init, DiskTypeOK, NoFiles
<1>2. NothingBesides
  BY DEF Init, NothingBesides, NoFiles
<1> QED BY <1>1, <1>2 DEF Init, DiskInv, Progress, RootServes

\* What changes neither the disk nor the updater keeps the invariant, if
\* what Cog sends are signatures.
LEMMA DiskInvElsewhere ==
    ASSUME DiskInv, UNCHANGED <<updVars, diskVars, lastSignature>>,
           cogSig' \in Sigs, replies' \in Seq(Sigs \cup {NoSig})
    PROVE  DiskInv'
BY DEF DiskInv, DiskTypeOK, NothingBesides, Progress, RootServes, updVars, diskVars

LEMMA DiskInvProcess ==
    ASSUME DiskInv,
           \/ RunStep \/ HookStep \/ refreshConfigs \/ wait \/ ReaderStep
           \/ changeConfig \/ loseReply
    PROVE  DiskInv'
<1>1. cogSig \in Sigs /\ replies \in Seq(Sigs \cup {NoSig})
  BY Zenon DEF DiskInv, DiskTypeOK
<1>2. UNCHANGED <<updVars, diskVars, lastSignature>>
  BY Zenon DEF RunStep, HookStep, ReaderStep, setOptions, runRequest, runTimer, connectedEvent,
         subscribe, refreshConfigs, wait, changeConfig, loseReply, LoadDynamicConfig,
         allConfigFiles, ReadFile, deleteIllegal, dynamicConfigFound, newEnvironment, procVars
<1>3. cogSig' \in Sigs
  BY <1>1, Zenon DEF RunStep, HookStep, ReaderStep, setOptions, runRequest, runTimer,
         connectedEvent, subscribe, refreshConfigs, wait, changeConfig, loseReply,
         LoadDynamicConfig, allConfigFiles, ReadFile, deleteIllegal, dynamicConfigFound,
         newEnvironment, cogVars
<1>4. replies' \in Seq(Sigs \cup {NoSig})
  <2>1. request => replies' \in Seq(Sigs \cup {NoSig})
    BY <1>1 DEF request
  <2>2. replies # <<>> => Tail(replies) \in Seq(Sigs \cup {NoSig})
    BY <1>1
  <2>3. <<>> \in Seq(Sigs \cup {NoSig})
    OBVIOUS
  <2> QED BY <1>1, <2>1, <2>2, <2>3, Zenon
          DEF RunStep, HookStep, ReaderStep, setOptions, runRequest, runTimer,
              connectedEvent, subscribe, refreshConfigs, wait, changeConfig, loseReply,
              LoadDynamicConfig, allConfigFiles, ReadFile, deleteIllegal, dynamicConfigFound,
         newEnvironment, cogVars
<1> QED BY <1>2, <1>3, <1>4, DiskInvElsewhere

\* The process dies at any step: the disk is as it was, the updater starts
\* over and has forgotten its signature.
LEMMA DiskInvRestart ==
    ASSUME DiskInv, restart
    PROVE  DiskInv'
<1>1. DiskTypeOK'
  BY DEF restart, DiskInv, DiskTypeOK, diskVars
<1> QED BY <1>1 DEF restart, DiskInv, NothingBesides, Progress, RootServes, diskVars

\* RemoveAll takes files away from one directory, and removes it when it is
\* empty.
LEMMA RemovesFrom ==
    ASSUME DiskTypeOK, NEW sig \in Sigs, RemoveAll(sig)
    PROVE  /\ dirs \ {sig} \subseteq dirs' /\ dirs' \subseteq dirs
           /\ file' \in [Sigs -> [Layers -> {"absent", "partial", "whole"}]]
           /\ \A other \in Sigs \ {sig} : file'[other] = file[other]
           /\ \A f \in Layers : file'[sig][f] \in {file[sig][f], "absent"}
           /\ dirs' = dirs \/ file'[sig] = NoFiles
<1>1. CASE file[sig] = NoFiles /\ dirs' = dirs \ {sig} /\ UNCHANGED file
  BY <1>1 DEF DiskTypeOK
<1>2. ASSUME NEW f \in Layers, file' = [file EXCEPT ![sig][f] = "absent"], UNCHANGED dirs
      PROVE  /\ dirs \ {sig} \subseteq dirs' /\ dirs' = dirs
             /\ file' \in [Sigs -> [Layers -> {"absent", "partial", "whole"}]]
             /\ \A other \in Sigs \ {sig} : file'[other] = file[other]
             /\ \A g \in Layers : file'[sig][g] \in {file[sig][g], "absent"}
  BY <1>2 DEF DiskTypeOK
<1> QED BY <1>1, <1>2 DEF RemoveAll

LEMMA DiskInvUpdater ==
    ASSUME DiskInv, UpdaterStep
    PROVE  DiskInv'
<1> USE DEF DiskInv, cogVars, procVars, updVars, diskVars
<1>1. CASE dynConfigUpdate
  <2>1. Head(replies) \in Sigs \cup {NoSig} /\ Tail(replies) \in Seq(Sigs \cup {NoSig})
    BY <1>1 DEF dynConfigUpdate, DiskTypeOK
  <2>2. DiskTypeOK'
    BY <1>1, <2>1 DEF dynConfigUpdate, DiskTypeOK
  <2>3. Progress'
    BY <1>1, <2>1 DEF dynConfigUpdate, Progress
  <2> QED BY <1>1, <2>2, <2>3 DEF dynConfigUpdate, NothingBesides, RootServes
<1>2. CASE mkdir
  BY <1>2, DynConfigAssumption
     DEF mkdir, DiskTypeOK, NothingBesides, Progress, RootServes
<1>3. ASSUME NEW f \in Layers, truncate(f) \/ write(f) PROVE DiskInv'
  <2>1. /\ update \in Sigs /\ update \in dirs /\ f \in todo /\ todo \subseteq FilesOf[update]
        /\ pc = "write" /\ pc' = "write" /\ todo' \in {todo, todo \ {f}}
        /\ UNCHANGED <<cogSig, replies, lastSignature, update, dirs, new, root>>
    BY <1>3 DEF truncate, write, Progress
  <2>2. PICK s \in {"partial", "whole"} : file' = [file EXCEPT ![update][f] = s]
    BY <1>3 DEF truncate, write
  <2>3. \A sig \in Sigs, g \in Layers :
           file'[sig][g] = IF sig = update /\ g = f THEN s ELSE file[sig][g]
    BY <2>1, <2>2 DEF DiskTypeOK
  <2>4. DiskTypeOK'
    BY <2>1, <2>2 DEF DiskTypeOK
  <2>5. NothingBesides'
    BY <2>1, <2>3 DEF NothingBesides
  <2>6. Progress'
    BY <2>1, <2>3, DynConfigAssumption DEF Progress
  <2>7. RootServes'
    BY <2>1, <2>3 DEF RootServes, DiskTypeOK
  <2> QED BY <2>4, <2>5, <2>6, <2>7
<1>4. CASE symlink
  BY <1>4, DynConfigAssumption
     DEF symlink, DiskTypeOK, NothingBesides, Progress, RootServes
<1>5. CASE rename
  <2>1. root' = update /\ update \in Sigs /\ update \in dirs
    BY <1>5 DEF rename, Progress
  <2>2. \A f \in FilesOf[update] : file[update][f] # "absent"
    BY <1>5 DEF rename, Progress
  <2>3. RootServes'
    BY <1>5, <2>1, <2>2 DEF rename, RootServes, NothingBesides
  <2>4. DiskTypeOK' /\ NothingBesides'
    BY <1>5, <2>1 DEF rename, DiskTypeOK, NothingBesides
  <2>5. Progress'
    BY <1>5, <2>1, DynConfigAssumption DEF rename, Progress
  <2> QED BY <2>3, <2>4, <2>5
<1>6. ASSUME NEW sig \in Sigs, cleanOldConfigs(sig) PROVE DiskInv'
  <2>1. root = lastSignature /\ root # NoSig /\ sig # root /\ pc' = pc /\ pc = "clean"
    BY <1>6 DEF cleanOldConfigs, Progress
  <2>2. /\ dirs \ {sig} \subseteq dirs' /\ dirs' \subseteq dirs
        /\ file' \in [Sigs -> [Layers -> {"absent", "partial", "whole"}]]
        /\ \A other \in Sigs \ {sig} : file'[other] = file[other]
        /\ \A f \in Layers : file'[sig][f] \in {file[sig][f], "absent"}
    BY <1>6, RemovesFrom DEF cleanOldConfigs
  <2>3. UNCHANGED <<cogSig, replies, update, todo, new, root, lastSignature>>
    BY <1>6 DEF cleanOldConfigs
  <2>4. DiskTypeOK'
    BY <2>2, <2>3 DEF DiskTypeOK
  <2>5. NothingBesides'
    BY <2>2 DEF NothingBesides
  <2>6. RootServes'
    BY <2>1, <2>2, <2>3 DEF RootServes, DiskTypeOK
  <2>7. Progress'
    BY <2>1, <2>3, Zenon DEF Progress
  <2> QED BY <2>4, <2>5, <2>6, <2>7
<1>7. CASE cleaned \/ updateError \/ reset
  BY <1>7 DEF cleaned, updateError, reset, DiskTypeOK, NothingBesides, Progress, RootServes
<1> QED BY <1>1, <1>2, <1>3, <1>4, <1>5, <1>6, <1>7 DEF UpdaterStep

LEMMA DiskInvNext ==
    ASSUME DiskInv, [Next]_vars
    PROVE  DiskInv'
<1>1. CASE UNCHANGED vars
  BY <1>1, DiskInvElsewhere DEF vars, cogVars, procVars, DiskInv, DiskTypeOK
<1> QED BY <1>1, DiskInvProcess, DiskInvRestart, DiskInvUpdater DEF Next

\* updateConfigs and cleanOldConfigs of dynamic_config.go, interrupted by any
\* error or death of the process: once there is a configuration, the root
\* stands for a directory that has exactly the files of its configuration.
THEOREM RootAlwaysServes == Spec => []RootServes
<1>1. DiskInv => RootServes
  BY DEF DiskInv
<1> QED BY <1>1, DiskInvInit, DiskInvNext, PTL DEF Spec
(***************************************************************************)
(* A worker's view, as long as the process has not been restarted.         *)
(***************************************************************************)
\* The updater knows what the root stands for and does not write there, so
\* that the files in use are whole.
FirstLife == /\ lastSignature = root
             /\ pc \in {"mkdir", "write", "rename"} => update # root
             /\ pc \in {"write", "rename"} =>
                   \A f \in FilesOf[update] \ todo : file[update][f] = "whole"
             /\ root # NoSig => \A f \in FilesOf[root] : file[root][f] = "whole"

\* conf holds the topmost value of each key among the layers in S.
Topmost(conf, S) ==
    \A k \in Keys :
       IF \E f \in S : k \in KeysOf[root][f]
       THEN \E f \in S : /\ k \in KeysOf[root][f]
                         /\ \A g \in S : k \in KeysOf[root][g] => g <= f
                         /\ conf[k] = <<f, root, "whole">>
       ELSE conf[k] = Unset

\* How far LoadDynamicConfig has got, at each of its steps.
ReaderProgress ==
    /\ reader.pc \in {"find", "read"} => root # NoSig
    /\ reader.pc = "find" =>
          /\ reader.conf = NoConf
          /\ reader.read = FilesOf[root] \ reader.find
          /\ \A f \in reader.find, g \in Layers \ reader.find : g <= f
    /\ reader.pc = "read" =>
          /\ reader.read \subseteq FilesOf[root]
          /\ \A f \in reader.read, g \in FilesOf[root] \ reader.read : g <= f
          /\ Topmost(reader.conf, FilesOf[root] \ reader.read)
    /\ reader.pc = "done" => Layered(reader.conf)

ReaderTypeOK == reader \in Reader

ReadInv == /\ ReaderTypeOK
           /\ restarts \in Nat
           /\ restarts = 0 => FirstLife /\ (~reader.moved => ReaderProgress)

LEMMA ReadInvInit == Init => ReadInv
<1> SUFFICES ASSUME Init PROVE ReadInv
  OBVIOUS
<1>1. NoConf \in [Keys -> Value \cup {Unset}]
  BY Zenon DEF NoConf
<1>2. ReaderTypeOK
  BY <1>1, Zenon DEF Init, ReaderTypeOK, Reader, IdleReader
<1> QED BY <1>2, DynConfigAssumption DEF Init, ReadInv, FirstLife, ReaderProgress, IdleReader

\* Steps that touch neither the disk, nor the updater, nor the reader.
LEMMA ReadInvElsewhere ==
    ASSUME ReadInv, UNCHANGED <<updVars, diskVars, lastSignature, reader, restarts>>
    PROVE  ReadInv'
BY DEF ReadInv, ReaderTypeOK, FirstLife, ReaderProgress, Topmost, Layered, SetsKey,
       updVars, diskVars

LEMMA ReadInvProcess ==
    ASSUME ReadInv,
           RunStep \/ HookStep \/ refreshConfigs \/ wait \/ changeConfig \/ loseReply
    PROVE  ReadInv'
<1>1. UNCHANGED <<updVars, diskVars, lastSignature, reader, restarts>>
  BY DEF RunStep, HookStep, setOptions, runRequest, runTimer, connectedEvent, subscribe,
         refreshConfigs, wait, changeConfig, loseReply, procVars, bounds, readVars
<1> QED BY <1>1, ReadInvElsewhere, Zenon

LEMMA ReadInvRestart ==
    ASSUME ReadInv, restart
    PROVE  ReadInv'
<1>1. NoConf \in [Keys -> Value \cup {Unset}]
  BY ZenonT(60) DEF NoConf
<1>2. ReaderTypeOK'
  BY <1>1 DEF restart, ReaderTypeOK, Reader, IdleReader
<1>3. restarts' \in Nat /\ restarts' # 0
  BY DEF restart, ReadInv
<1> QED BY <1>2, <1>3 DEF ReadInv

\* The updater's steps that leave the root, and the files it stands for,
\* alone leave the reader's progress as it is.
LEMMA ReaderUndisturbed ==
    ASSUME ReaderProgress, UNCHANGED <<reader, root>>
    PROVE  ReaderProgress'
BY DEF ReaderProgress, Topmost, Layered, SetsKey

LEMMA ReadInvUpdater ==
    ASSUME DiskInv, ReadInv, UpdaterStep
    PROVE  ReadInv'
<1>1. CASE rename
  <2>1. reader' \in Reader /\ reader'.moved
    BY <1>1, Zenon DEF rename, ReadInv, ReaderTypeOK, Reader
  <2>2. root' = update /\ new = update
    BY <1>1 DEF rename, DiskInv, Progress
  <2>3. pc = "rename" /\ todo = {}
    BY <1>1 DEF rename, DiskInv, Progress
  <2>4. FirstLife => FirstLife'
    BY <1>1, <2>2, <2>3 DEF rename, FirstLife
  <2>5. restarts' = restarts
    BY <1>1 DEF rename, bounds
  <2> QED BY <2>1, <2>4, <2>5 DEF ReadInv, ReaderTypeOK
<1>2. CASE ~rename
  <2>1. UNCHANGED <<reader, root, restarts>>
    BY <1>2, SMTT(60) DEF UpdaterStep, dynConfigUpdate, mkdir, truncate, write, symlink,
                cleanOldConfigs, cleaned, updateError, reset, readVars, diskVars, bounds
  <2>2. ASSUME FirstLife PROVE FirstLife'
    <3> USE DEF FirstLife, procVars, updVars, diskVars
    <3>1. CASE dynConfigUpdate
      BY <2>2, <3>1, Zenon DEF dynConfigUpdate
    <3>2. CASE mkdir
      BY <2>2, <3>2 DEF mkdir
    <3>3. ASSUME NEW f \in Layers, truncate(f) \/ write(f) PROVE FirstLife'
      <4>1. /\ update \in Sigs /\ update # root /\ f \in todo /\ pc = "write"
            /\ UNCHANGED <<pc, update, root, lastSignature>>
        BY <2>2, <3>3 DEF truncate, write, DiskInv, Progress
      <4>2. PICK s \in {"partial", "whole"} : /\ file' = [file EXCEPT ![update][f] = s]
                                              /\ \/ s = "partial" /\ todo' = todo
                                                 \/ s = "whole" /\ todo' = todo \ {f}
        BY <3>3 DEF truncate, write
      <4>3. \A sig \in Sigs, g \in Layers :
               file'[sig][g] = IF sig = update /\ g = f THEN s ELSE file[sig][g]
        BY <4>1, <4>2 DEF DiskInv, DiskTypeOK
      <4>4. \A sig \in Sigs : FilesOf[sig] \subseteq Layers
        BY DynConfigAssumption
      <4>5. root' # NoSig => \A g \in FilesOf[root'] : file'[root'][g] = "whole"
        BY <2>2, <4>1, <4>3, <4>4 DEF DiskInv, DiskTypeOK
      <4>6. \A g \in FilesOf[update'] \ todo' : file'[update'][g] = "whole"
        BY <2>2, <4>1, <4>2, <4>3, <4>4
      <4> QED BY <2>2, <4>1, <4>5, <4>6
    <3>4. CASE symlink
      BY <2>2, <3>4, Zenon DEF symlink
    <3>5. ASSUME NEW sig \in Sigs, cleanOldConfigs(sig) PROVE FirstLife'
      <4>1. root = lastSignature /\ sig # root /\ pc' = "clean"
        BY <2>2, <3>5 DEF cleanOldConfigs
      <4>2. root \in Sigs => file'[root] = file[root]
        BY <3>5, <4>1, RemovesFrom DEF cleanOldConfigs, DiskInv
      <4> QED BY <2>2, <3>5, <4>1, <4>2, Zenon DEF cleanOldConfigs, DiskInv, DiskTypeOK
    <3>6. CASE cleaned \/ updateError \/ reset
      BY <2>2, <3>6, Zenon DEF cleaned, updateError, reset
    <3> QED BY <1>2, <3>1, <3>2, <3>3, <3>4, <3>5, <3>6 DEF UpdaterStep
  <2> QED BY <2>1, <2>2, ReaderUndisturbed, SMTT(60) DEF ReadInv, ReaderTypeOK
<1> QED BY <1>1, <1>2
(***************************************************************************)
(* The reader's own steps.                                                 *)
(***************************************************************************)
\* merge on top of what was read so far.
LEMMA MergeTopmost ==
    ASSUME NEW conf \in [Keys -> Value \cup {Unset}], NEW S \in SUBSET Layers,
           NEW f \in Layers \ S, root \in Sigs, file[root][f] = "whole",
           \A g \in S : g <= f, Topmost(conf, S)
    PROVE  Topmost(merge(conf, f, KeysOf[root][f]), S \cup {f})
<1> DEFINE M == merge(conf, f, KeysOf[root][f])
           T(k, R) == IF \E g \in R : k \in KeysOf[root][g]
                      THEN \E g \in R : /\ k \in KeysOf[root][g]
                                        /\ \A h \in R : k \in KeysOf[root][h] => h <= g
                                        /\ M[k] = <<g, root, "whole">>
                      ELSE M[k] = Unset
<1>1. f <= f
  BY DynConfigAssumption, SMTT(60)
<1>2. ASSUME NEW k \in Keys PROVE T(k, S \cup {f})
  <2>1. CASE k \in KeysOf[root][f]
    <3>1. M[k] = <<f, root, "whole">>
      BY <2>1, SMTT(30) DEF merge
    <3> HIDE DEF M
    <3> QED BY <1>1, <2>1, <3>1, Zenon
  <2>2. CASE k \notin KeysOf[root][f]
    <3>1. M[k] = conf[k]
      BY <2>2 DEF merge
    <3> HIDE DEF M
    <3> QED BY <2>2, <3>1, SMTT(30) DEF Topmost
  <2> QED BY <2>1, <2>2, Zenon
<1> HIDE DEF M
<1> QED BY <1>2 DEF Topmost, M

\* What is the topmost of all layers, without the illegal keys, is layered.
LEMMA TopmostLayered ==
    ASSUME NEW conf \in [Keys -> Value \cup {Unset}], root \in Sigs,
           Topmost(conf, FilesOf[root])
    PROVE  Layered([k \in Keys |-> IF k \in IllegalKeys THEN Unset ELSE conf[k]])
<1> DEFINE L == [k \in Keys |-> IF k \in IllegalKeys THEN Unset ELSE conf[k]]
<1>1. FilesOf[root] \subseteq Layers /\ root # NoSig
  BY DynConfigAssumption
<1>2. \A k \in Keys : L[k] = IF k \in IllegalKeys THEN Unset ELSE conf[k]
  OBVIOUS
<1> HIDE DEF L
<1>3. Layered(L)
  BY <1>1, <1>2 DEF Layered, SetsKey, Topmost
<1> QED BY <1>3 DEF L

LEMMA ReadInvReader ==
    ASSUME DiskInv, ReadInv, ReaderStep
    PROVE  ReadInv'
<1>1. UNCHANGED <<updVars, diskVars, lastSignature, restarts>>
  BY Zenon DEF ReaderStep, newEnvironment, LoadDynamicConfig, allConfigFiles, ReadFile,
         deleteIllegal, dynamicConfigFound, procVars, bounds
<1>2. FirstLife => FirstLife'
  BY <1>1 DEF FirstLife, updVars, diskVars
<1>3. reader \in Reader /\ NoConf \in [Keys -> Value \cup {Unset}]
  BY DEF ReadInv, ReaderTypeOK, NoConf
<1>4. root \in Sigs \cup {NoSig} /\ root' = root
  BY <1>1 DEF DiskInv, DiskTypeOK, diskVars
<1>5. \A sig \in Sigs : FilesOf[sig] \subseteq Layers /\ NoSig # sig
  BY DynConfigAssumption
<1>6. root \in dirs <=> root # NoSig
  BY <1>4, <1>5 DEF DiskInv, DiskTypeOK, RootServes
<1> SUFFICES /\ reader' \in Reader
             /\ FirstLife /\ (~reader.moved => ReaderProgress) /\ ~reader'.moved
                   => ReaderProgress'
  BY <1>1, <1>2 DEF ReadInv, ReaderTypeOK
<1>7. CASE newEnvironment
  BY <1>3, <1>4, <1>7, ReaderUndisturbed DEF newEnvironment
<1>8. CASE LoadDynamicConfig
  <2>1. CASE root \in dirs
    <3>1. reader' = [pc |-> "find", find |-> Layers, read |-> {}, conf |-> NoConf,
                     moved |-> FALSE]
      BY <1>8, <2>1, ZenonT(60) DEF LoadDynamicConfig, IdleReader
    <3> QED BY <1>3, <1>4, <1>5, <1>6, <2>1, <3>1 DEF Reader, ReaderProgress
  <2>2. CASE root \notin dirs
    <3>1. reader' = [pc |-> "done", find |-> {}, read |-> {}, conf |-> NoConf,
                     moved |-> FALSE]
      BY <1>8, <2>2, Zenon DEF LoadDynamicConfig, IdleReader
    <3>2. Layered(NoConf)'
      BY <1>4, <1>6, <2>2, SMTT(60) DEF Layered, NoConf
    <3> QED BY <1>3, <3>1, <3>2 DEF Reader, ReaderProgress
  <2> QED BY <2>1, <2>2, ZenonT(60)
<1>9. CASE dynamicConfigFound
  BY <1>3, <1>9, SMTT(60) DEF dynamicConfigFound, IdleReader, Reader, ReaderProgress
<1>10. CASE deleteIllegal
  <2>1. reader.conf \in [Keys -> Value \cup {Unset}]
    BY <1>3 DEF Reader
  <2>2. PICK L \in [Keys -> Value \cup {Unset}] :
           L = [k \in Keys |-> IF k \in IllegalKeys THEN Unset ELSE reader.conf[k]]
    BY <2>1, Zenon
  <2>3. reader' = [reader EXCEPT !.pc = "done", !.conf = L]
    BY <1>10, <2>2, SMTT(30) DEF deleteIllegal
  <2>4. ~reader.moved /\ ReaderProgress => Layered(L)
    <3> SUFFICES ASSUME ReaderProgress PROVE Layered(L)
      OBVIOUS
    <3>1. root # NoSig /\ Topmost(reader.conf, FilesOf[root] \ reader.read)
      BY <1>10 DEF deleteIllegal, ReaderProgress
    <3>2. FilesOf[root] \ reader.read = FilesOf[root]
      BY <1>10 DEF deleteIllegal
    <3> QED BY <1>4, <2>1, <2>2, <3>1, <3>2, TopmostLayered
  <2>5. Layered(L) => Layered(L)'
    BY <1>4 DEF Layered, SetsKey
  <2>6. /\ reader' \in Reader
        /\ reader'.pc = "done" /\ reader'.conf = L /\ reader'.moved = reader.moved
    BY <1>3, <2>3, Zenon DEF Reader
  <2>7. Layered(L)' => ReaderProgress'
    BY <2>6 DEF ReaderProgress
  <2> QED BY <2>4, <2>5, <2>6, <2>7
<1>11. CASE allConfigFiles
  <2>1. CASE reader.find = {} /\ reader' = [reader EXCEPT !.pc = "read"]
    <3>1. /\ reader' \in Reader /\ reader'.pc = "read"
          /\ reader'.read = reader.read /\ reader'.conf = reader.conf
          /\ reader'.moved = reader.moved
      BY <1>3, <2>1, Zenon DEF Reader
    <3>2. ASSUME ReaderProgress PROVE ReaderProgress'
      <4>1. /\ root # NoSig /\ reader.conf = NoConf
            /\ reader.read = FilesOf[root]
        BY <1>11, <2>1, <3>2 DEF allConfigFiles, ReaderProgress
      <4>2. FilesOf[root] \ reader.read = {}
        BY <4>1, Zenon
      <4>3. Topmost(reader.conf, FilesOf[root] \ reader.read)'
        BY <1>4, <3>1, <4>1, <4>2 DEF Topmost, NoConf
      <4> QED BY <1>4, <3>1, <4>1, <4>3 DEF ReaderProgress
    <3> QED BY <3>1, <3>2
  <2>2. ASSUME NEW f \in reader.find, \A g \in reader.find : f <= g,
               reader' = [reader EXCEPT !.find = @ \ {f},
                                        !.read = IF Readable(f) THEN @ \cup {f} ELSE @]
        PROVE  /\ reader' \in Reader
               /\ FirstLife /\ (~reader.moved => ReaderProgress) /\ ~reader'.moved
                     => ReaderProgress'
    <3>1. f \in Layers /\ reader.find \subseteq Layers
      BY <1>3, Zenon DEF Reader
    <3>2. /\ reader' \in Reader /\ reader'.pc = "find"
          /\ reader'.find = reader.find \ {f}
          /\ reader'.read = IF Readable(f) THEN reader.read \cup {f} ELSE reader.read
          /\ reader'.conf = reader.conf /\ reader'.moved = reader.moved
      BY <1>3, <1>11, <2>2, <3>1, Zenon DEF Reader, allConfigFiles
    <3>3. ASSUME ReaderProgress PROVE ReaderProgress'
      <4>1. /\ root # NoSig /\ reader.conf = NoConf
            /\ reader.read = FilesOf[root] \ reader.find
            /\ \A h \in reader.find, g \in Layers \ reader.find : g <= h
        BY <1>11, <3>3, Zenon DEF allConfigFiles, ReaderProgress
      <4>2. Readable(f) <=> f \in FilesOf[root]
        BY <1>6, <3>1, <4>1, Zenon DEF Readable, DiskInv, RootServes
      <4>3. reader'.read = FilesOf[root] \ reader'.find
        BY <3>1, <3>2, <4>1, <4>2
      <4>4. \A h \in reader'.find, g \in Layers \ reader'.find : g <= h
        BY <2>2, <3>1, <3>2, <4>1, Zenon
      <4> QED BY <1>4, <3>2, <4>1, <4>3, <4>4, Zenon DEF ReaderProgress
    <3> QED BY <3>2, <3>3
  <2> QED BY <1>11, <2>1, <2>2, Zenon DEF allConfigFiles
<1>12. CASE ReadFile
  <2>1. PICK f \in reader.read :
           /\ \A g \in reader.read : f <= g
           /\ \/ /\ Readable(f)
                 /\ \E keys \in SUBSET KeysOf[root][f] :
                       /\ file[root][f] = "whole" => keys = KeysOf[root][f]
                       /\ reader' = [reader EXCEPT !.read = @ \ {f},
                                                   !.conf = merge(@, f, keys)]
              \/ /\ ~Readable(f) \/ file[root][f] = "partial"
                 /\ reader' = [reader EXCEPT !.pc = "done", !.conf = NoConf]
    BY <1>12, Zenon DEF ReadFile
  <2>2. reader.pc = "read" /\ f \in Layers /\ reader.conf \in [Keys -> Value \cup {Unset}]
    BY <1>3, <1>12, Zenon DEF ReadFile, Reader
  <2>3. CASE /\ ~Readable(f) \/ file[root][f] = "partial"
             /\ reader' = [reader EXCEPT !.pc = "done", !.conf = NoConf]
    <3>1. reader' \in Reader /\ reader'.moved = reader.moved
      BY <1>3, <2>3, Zenon DEF Reader
    <3>2. ~(FirstLife /\ ReaderProgress)
      BY <1>6, <2>2, <2>3 DEF FirstLife, ReaderProgress, Readable
    <3> QED BY <3>1, <3>2
  <2>4. ASSUME NEW keys \in SUBSET KeysOf[root][f], Readable(f),
               file[root][f] = "whole" => keys = KeysOf[root][f],
               reader' = [reader EXCEPT !.read = @ \ {f}, !.conf = merge(@, f, keys)]
        PROVE  /\ reader' \in Reader
               /\ FirstLife /\ (~reader.moved => ReaderProgress) /\ ~reader'.moved
                     => ReaderProgress'
    <3>1. root \in Sigs /\ file[root][f] \in {"partial", "whole"}
      BY <1>4, <1>6, <2>2, <2>4 DEF Readable, DiskInv, DiskTypeOK
    <3>2. PICK M \in [Keys -> Value \cup {Unset}] : M = merge(reader.conf, f, keys)
      BY <2>2, <3>1, Zenon DEF merge, Value
    <3>3. /\ reader' \in Reader /\ reader'.pc = "read"
          /\ reader'.read = reader.read \ {f} /\ reader'.conf = M
          /\ reader'.moved = reader.moved
      BY <1>3, <2>2, <2>4, <3>2, ZenonT(60) DEF Reader
    <3>4. ASSUME FirstLife, ReaderProgress PROVE ReaderProgress'
      <4> DEFINE S == FilesOf[root] \ reader.read
      <4>1. /\ reader.read \subseteq FilesOf[root]
            /\ \A h \in reader.read, g \in S : g <= h
            /\ Topmost(reader.conf, S)
        BY <2>2, <3>4 DEF ReaderProgress
      <4>2. file[root][f] = "whole" /\ keys = KeysOf[root][f]
        BY <1>5, <2>4, <3>1, <3>4, <4>1, Zenon DEF FirstLife
      <4>3. S \in SUBSET Layers /\ f \in Layers \ S
        BY <1>5, <2>2, <3>1, Zenon
      <4>4. Topmost(M, S \cup {f})
        <5> HIDE DEF S
        <5> QED BY <2>2, <3>1, <3>2, <4>1, <4>2, <4>3, MergeTopmost, Zenon
      <4>5. S \cup {f} = FilesOf[root] \ reader'.read
        BY <3>3, <4>1, SMTT(60)
      <4>6. Topmost(reader.conf, FilesOf[root] \ reader.read)'
        BY <1>4, <3>3, <4>4, <4>5 DEF Topmost
      <4>7. \A h \in reader'.read, g \in FilesOf[root] \ reader'.read : g <= h
        BY <2>1, <3>3, <4>1, Zenon
      <4> QED BY <1>4, <1>5, <3>1, <3>3, <4>1, <4>6, <4>7, SMTT(60) DEF ReaderProgress
    <3> QED BY <3>3, <3>4
  <2> QED BY <2>1, <2>3, <2>4, Zenon
<1> QED BY <1>7, <1>8, <1>9, <1>10, <1>11, <1>12, Zenon DEF ReaderStep

LEMMA ReadInvNext ==
    ASSUME DiskInv, ReadInv, [Next]_vars
    PROVE  ReadInv'
<1>1. CASE UNCHANGED vars
  BY <1>1, ReadInvElsewhere, ZenonT(60) DEF vars, procVars, bounds, readVars
<1> QED BY <1>1, ReadInvProcess, ReadInvRestart, ReadInvUpdater, ReadInvReader, Zenon DEF Next

LEMMA ReadInvUndisturbed == ReadInv => UndisturbedRead
BY DEF ReadInv, ReaderProgress, UndisturbedRead

\* LoadDynamicConfig in a worker, against an updater that writes, fails and
\* cleans up meanwhile: unless the root is moved during the read, the map is
\* that of one configuration, with the topmost value of every legal key, for
\* any number of layers and keys, until the process is restarted.
THEOREM UndisturbedReads == Spec => []UndisturbedRead
<1> QED BY DiskInvInit, DiskInvNext, ReadInvInit, ReadInvNext, ReadInvUndisturbed, PTL DEF Spec

\* executeCommand marks an environment as one without dynamic configuration
\* only if there was none, or the root was moved during the read, or the
\* process was restarted.
THEOREM RightlyMarked == Spec => MarkedRightly
<1>1. ASSUME ReadInv, [Next]_vars
      PROVE  [lookup /\ ~lookup' => Layered(NoConf) \/ reader.moved \/ restarts > 0]_vars
  <2> SUFFICES ASSUME Next, lookup, ~lookup', ~reader.moved, ~(restarts > 0)
               PROVE  Layered(NoConf)
    BY <1>1, Zenon
  <2>1. dynamicConfigFound
    BY Zenon DEF Next, RunStep, HookStep, UpdaterStep, ReaderStep, setOptions, runRequest,
           runTimer, connectedEvent, subscribe, refreshConfigs, wait, dynConfigUpdate,
           mkdir, truncate, write, symlink, rename, cleanOldConfigs, cleaned, updateError,
           reset, newEnvironment, LoadDynamicConfig, allConfigFiles, ReadFile,
           deleteIllegal, changeConfig, loseReply, restart, readVars
  <2>2. reader.pc = "done" /\ reader.conf = NoConf
    BY <2>1, Zenon DEF dynamicConfigFound, foundDynamicConfig
  <2>3. restarts = 0
    BY <1>1 DEF ReadInv
  <2> QED BY <1>1, <2>2, <2>3, ReadInvUndisturbed DEF UndisturbedRead
<1> QED BY <1>1, DiskInvInit, DiskInvNext, ReadInvInit, ReadInvNext, PTL DEF Spec, MarkedRightly

(***************************************************************************)
(* Types.                                                                  *)
(***************************************************************************)
\* Where the goroutines are, and the flags.
PhaseTypeOK == /\ runPc \in {"options", "request", "timer", "done"}
               /\ hookPc \in {"call", "subscribe", "done"}
               /\ timer \in {"nil", "armed", "idle"}
               /\ pc \in {"idle", "mkdir", "write", "symlink", "rename", "clean", "reset"}
FlagTypeOK == /\ lookup \in BOOLEAN /\ nilTimer \in BOOLEAN
              /\ halted \in BOOLEAN /\ crashed \in BOOLEAN

\* A directory that is not there has no files: cleanOldConfigs removes one
\* only when all that was in it is gone, and updateConfigs writes only into the
\* directory it has made.
Emptied == /\ lastSignature \in Sigs \cup {NoSig}
           /\ \A sig \in Sigs \ dirs : file[sig] = NoFiles

LEMMA PhaseTypes ==
    ASSUME PhaseTypeOK, FlagTypeOK, [Next]_vars
    PROVE  PhaseTypeOK' /\ FlagTypeOK'
<1> USE DEF cogVars, bounds, procVars, updVars, diskVars, readVars, endVars
<1>1. CASE RunStep \/ HookStep \/ refreshConfigs \/ wait
  <2>1. PhaseTypeOK'
    BY <1>1, Zenon DEF PhaseTypeOK, RunStep, HookStep, setOptions, runRequest, runTimer,
                       connectedEvent, subscribe, refreshConfigs, wait
  <2>2. FlagTypeOK'
    BY <1>1, Zenon DEF FlagTypeOK, RunStep, HookStep, setOptions, runRequest, runTimer,
                       connectedEvent, subscribe, refreshConfigs, wait
  <2> QED BY <2>1, <2>2
<1>2. CASE UpdaterStep
  <2>1. PhaseTypeOK'
    BY <1>2, Zenon DEF PhaseTypeOK, UpdaterStep, dynConfigUpdate, mkdir, truncate, write, symlink,
                       rename, cleanOldConfigs, cleaned, updateError, reset
  <2>2. FlagTypeOK'
    BY <1>2, ZenonT(30) DEF FlagTypeOK, UpdaterStep, dynConfigUpdate, mkdir, truncate, write, symlink,
                       rename, cleanOldConfigs, cleaned, updateError, reset
  <2> QED BY <2>1, <2>2
<1>3. CASE ReaderStep
  <2>1. PhaseTypeOK'
    BY <1>3, Zenon DEF PhaseTypeOK, ReaderStep, newEnvironment, LoadDynamicConfig, allConfigFiles,
                       ReadFile, deleteIllegal, dynamicConfigFound
  <2>2. FlagTypeOK'
    BY <1>3, Zenon DEF FlagTypeOK, ReaderStep, newEnvironment, LoadDynamicConfig, allConfigFiles,
                       ReadFile, deleteIllegal, dynamicConfigFound, foundDynamicConfig
  <2> QED BY <2>1, <2>2
<1>4. CASE changeConfig \/ loseReply \/ restart \/ UNCHANGED vars
  <2>1. PhaseTypeOK'
    BY <1>4, Zenon DEF PhaseTypeOK, changeConfig, loseReply, restart, vars
  <2>2. FlagTypeOK'
    BY <1>4, Zenon DEF FlagTypeOK, changeConfig, loseReply, restart, vars
  <2> QED BY <2>1, <2>2
<1> QED BY <1>1, <1>2, <1>3, <1>4, Zenon DEF Next

LEMMA EmptiedNext ==
    ASSUME DiskInv, Emptied, [Next]_vars
    PROVE  Emptied'
<1> USE DEF procVars, updVars, diskVars
<1>1. update \in Sigs \cup {NoSig}
  BY Zenon DEF DiskInv, DiskTypeOK
<1>2. ASSUME UNCHANGED <<dirs, file>>, lastSignature' \in {lastSignature, update, NoSig}
      PROVE  Emptied'
  BY <1>1, <1>2, Zenon DEF Emptied
<1>3. CASE mkdir
  BY <1>3, Zenon DEF mkdir, Emptied
<1>4. ASSUME NEW f \in Layers, truncate(f) \/ write(f) PROVE Emptied'
  <2>1. update \in dirs /\ UNCHANGED <<dirs, lastSignature>>
    BY <1>4, Zenon DEF truncate, write, DiskInv, Progress
  <2>2. ASSUME NEW sig \in Sigs \ dirs PROVE file'[sig] = file[sig]
    BY <1>4, <2>1 DEF truncate, write, DiskInv, DiskTypeOK
  <2> QED BY <2>1, <2>2, Zenon DEF Emptied
<1>5. ASSUME NEW sig \in Sigs, cleanOldConfigs(sig) PROVE Emptied'
  <2>1. sig \in dirs /\ lastSignature' = lastSignature
    BY <1>5, ZenonT(30) DEF cleanOldConfigs
  <2>2. /\ dirs \ {sig} \subseteq dirs' /\ dirs' \subseteq dirs
        /\ \A other \in Sigs \ {sig} : file'[other] = file[other]
        /\ dirs' = dirs \/ file'[sig] = NoFiles
    BY <1>5, RemovesFrom DEF cleanOldConfigs, DiskInv
  <2> QED BY <2>1, <2>2, Zenon DEF Emptied
<1>6. CASE dynConfigUpdate \/ symlink \/ rename \/ cleaned \/ updateError \/ reset
  BY <1>2, <1>6, Zenon DEF dynConfigUpdate, symlink, rename, cleaned, updateError, reset
<1>7. CASE RunStep \/ HookStep \/ refreshConfigs \/ wait \/ ReaderStep
  BY <1>2, <1>7, Zenon
     DEF RunStep, HookStep, ReaderStep, setOptions, runRequest, runTimer, connectedEvent,
         subscribe, refreshConfigs, wait, newEnvironment, LoadDynamicConfig, allConfigFiles,
         ReadFile, deleteIllegal, dynamicConfigFound
<1>8. CASE changeConfig \/ loseReply \/ restart \/ UNCHANGED vars
  BY <1>2, <1>8, Zenon DEF changeConfig, loseReply, restart, vars
<1> QED BY <1>3, <1>4, <1>5, <1>6, <1>7, <1>8, Zenon DEF Next, UpdaterStep

\* Every variable of the updater, of the disk and of the reader keeps its
\* type: what os.Rename moves the root to is a signature, and a directory is
\* gone only when its files are.
THEOREM ConfigTypes == Spec => []TypeOK
<1>1. Init => PhaseTypeOK /\ FlagTypeOK
  BY Zenon DEF Init, PhaseTypeOK, FlagTypeOK
<1>2. Init => Emptied
  BY DEF Init, Emptied
<1>3. DiskInv /\ ReadInv /\ PhaseTypeOK /\ FlagTypeOK /\ Emptied => TypeOK
  BY Zenon DEF DiskInv, DiskTypeOK, ReadInv, ReaderTypeOK, PhaseTypeOK, FlagTypeOK, Emptied, TypeOK
<1> QED BY <1>1, <1>2, <1>3, DiskInvInit, DiskInvNext, ReadInvInit, ReadInvNext, PhaseTypes,
           EmptiedNext, PTL DEF Spec
=============================================================================
