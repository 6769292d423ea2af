--------------------------- MODULE AnnouncerProofs ---------------------------
(***************************************************************************)
(* The announcer keeps its promise, whatever the number of retry timers,   *)
(* bundles and epochs, the lists Cog sends and the losses of the           *)
(* connection; while it waits for a receipt something will send again; and *)
(* at rest Cog's view is the one that was acknowledged.                    *)
(***************************************************************************)
EXTENDS Announcer, CatalogProofs

\* Goto, spelled out.
LEMMA GotoMeans ==
    ASSUME pc \in [Senders -> Locked \cup Unlocked], NEW s \in Senders,
           NEW label \in Locked \cup Unlocked, Goto(s, label)
    PROVE  /\ pc' \in [Senders -> Locked \cup Unlocked]
           /\ \A t \in Senders : pc'[t] = IF t = s THEN label ELSE pc[t]
BY DEF Goto

(***************************************************************************)
(* Types.                                                                  *)
(***************************************************************************)
LEMMA TypesInit == Init => TypeOK
<1> SUFFICES ASSUME Init PROVE TypeOK
  OBVIOUS
<1>1. CatalogTypeOK
  BY DEF Init, NewCatalog, CatalogTypeOK
<1>2. pc \in [Senders -> Locked \cup Unlocked]
  BY DEF Init, AnnouncerInit, Locked, Unlocked
<1>3. NoAnnouncement \in Announcement
  BY DEF NoAnnouncement, Announcement
<1>4. control \in Seq({"announce", "stop"}) /\ Len(control) <= ControlCap
  BY DEF Init, AnnouncerInit, ControlCap
<1>5. stale \in 0 .. MaxStale
  BY AnnouncerAssumption DEF Init, AnnouncerInit
<1> QED BY <1>1, <1>2, <1>3, <1>4, <1>5, Zenon DEF Init, AnnouncerInit, TypeOK

\* What getBundles adds for one name is in the catalog.
Found(n) == IF bundles[n] # NoBundle /\ bundles[n].available
            THEN {<<n, bundles[n].version>>} ELSE {}

LEMMA FoundTypes ==
    ASSUME CatalogTypeOK, NEW n \in Names
    PROVE  Found(n) \subseteq Content /\ Found(n) \in SUBSET (Names \X Versions)
<1>1. bundles[n] # NoBundle => bundles[n].version \in Versions
  BY DEF CatalogTypeOK, Bundle
<1> QED BY <1>1 DEF Found, Content, ContentOf

LEMMA GetBundlesAnn ==
    ASSUME TypeOK, NEW s \in Senders, NEW n \in Names, getBundles(s, n)
    PROVE  /\ ann' \in [Senders -> Announcement]
           /\ \A t \in Senders :
                 /\ ann'[t].id = ann[t].id
                 /\ ann'[t].bundles = IF t = s THEN ann[s].bundles \cup Found(n)
                                      ELSE ann[t].bundles
<1>1. ann \in [Senders -> Announcement] /\ CatalogTypeOK
  BY DEF TypeOK
<1>2. CASE bundles[n] # NoBundle /\ bundles[n].available
  <2>1. PICK more \in SUBSET (Names \X Versions) : more = Found(n)
    BY <1>1, FoundTypes
  <2>2. ann' = [ann EXCEPT ![s].bundles = @ \cup more]
    BY <1>2, <2>1 DEF getBundles, Found
  <2>3. PICK item : item = [ann[s] EXCEPT !.bundles = @ \cup more]
    BY Zenon
  <2>4. /\ item \in Announcement /\ item.id = ann[s].id
        /\ item.bundles = ann[s].bundles \cup more
    BY <1>1, <2>3 DEF Announcement
  <2>5. ann' = [ann EXCEPT ![s] = item]
    BY <2>2, <2>3
  <2>6. ann' \in [Senders -> Announcement]
    BY <1>1, <2>4, <2>5, Zenon
  <2>7. ann'[s] = item /\ \A t \in Senders \ {s} : ann'[t] = ann[t]
    BY <1>1, <2>5, Zenon
  <2> QED BY <2>1, <2>4, <2>6, <2>7, Zenon
<1>3. CASE ~(bundles[n] # NoBundle /\ bundles[n].available)
  BY <1>1, <1>3, ZenonT(30) DEF getBundles, Found
<1> QED BY <1>2, <1>3, Zenon

LEMMA TypesSender ==
    ASSUME TypeOK, NEW s \in Senders, SenderStep(s)
    PROVE  TypeOK'
<1> USE DEF TypeOK, catalogVars, stateVars, timerVars, localVars, cogVars, busVars,
            CatalogTypeOK
<1>1. CASE lockAndRead(s)
  <2>1. [id |-> epoch, bundles |-> {}] \in Announcement
    BY DEF Announcement
  <2>2. BundleNames \in SUBSET Names
    BY DEF BundleNames
  <2> QED BY <1>1, <2>1, <2>2, GotoMeans, SMTT(60) DEF lockAndRead, Locked
<1>2. ASSUME NEW n \in Names, getBundles(s, n) PROVE TypeOK'
  <2>1. ann' \in [Senders -> Announcement]
    BY <1>2, GetBundlesAnn, Zenon
  <2>2. todo' \in [Senders -> SUBSET Names]
    BY <1>2 DEF getBundles
  <2> QED BY <1>2, <2>1, <2>2, SMTT(60) DEF getBundles
<1>3. CASE publishError(s)
  BY <1>3, GotoMeans DEF publishError, Unlocked
<1>4. CASE wake(s)
  BY <1>4, GotoMeans DEF wake, Locked
<1>5. CASE publish(s)
  <2>1. ann[s].id \in Nat /\ ann[s].bundles \in SUBSET (Names \X Versions)
    BY DEF Announcement
  <2> QED BY <1>5, <2>1, GotoMeans, ZenonT(60) DEF publish, Locked
<1>6. CASE publishUnseen(s)
  BY <1>6, GotoMeans DEF publishUnseen, Locked
<1>7. CASE sent(s)
  <2>1. NoAnnouncement \in Announcement /\ ann[s].id \in Nat
    BY DEF Announcement, NoAnnouncement
  <2> QED BY <1>7, <2>1, GotoMeans, SMTT(60) DEF sent, Unlocked
<1> QED BY <1>1, <1>2, <1>3, <1>4, <1>5, <1>6, <1>7, SMTT(60) DEF SenderStep

\* The channel's content.
LEMMA ControlSteps ==
    ASSUME control \in Seq({"announce", "stop"}), Len(control) <= ControlCap
    PROVE  /\ control # <<>> => /\ Tail(control) \in Seq({"announce", "stop"})
                                /\ Len(Tail(control)) <= ControlCap
                                /\ Head(control) = control[1] /\ 1 \in DOMAIN control
                                /\ \A i \in DOMAIN Tail(control) :
                                      i + 1 \in DOMAIN control /\ Tail(control)[i] = control[i + 1]
           /\ \A c \in {"announce", "stop"} :
                 /\ Append(control, c) \in Seq({"announce", "stop"})
                 /\ Len(Append(control, c)) = Len(control) + 1
                 /\ \A i \in DOMAIN Append(control, c) :
                       \/ i \in DOMAIN control /\ Append(control, c)[i] = control[i]
                       \/ Append(control, c)[i] = c
<1>1. ControlCap \in Nat /\ Len(control) \in Nat
  BY DEF ControlCap
<1> QED BY <1>1

LEMMA TypesLoop ==
    ASSUME TypeOK, LoopStep
    PROVE  TypeOK'
<1> USE DEF TypeOK, catalogVars, stateVars, timerVars, localVars, cogVars, busVars,
            CatalogTypeOK
<1>1. Loop \in Senders
  BY Zenon DEF Senders
<1>2. CASE recvAnnounce
  BY <1>1, <1>2, GotoMeans, ControlSteps, SMTT(60) DEF recvAnnounce, recv, Unlocked
<1>3. CASE announce
  <2>1. pc' \in [Senders -> Locked \cup Unlocked]
    BY <1>1, <1>3, GotoMeans, Zenon DEF announce, Unlocked
  <2>2. announcementPending' \in BOOLEAN
    BY <1>3, Zenon DEF announce
  <2> QED BY <1>3, <2>1, <2>2, SMTT(60) DEF announce
<1>4. CASE arm
  <2>1. stale' \in 0 .. MaxStale
    BY <1>4, AnnouncerAssumption, SMTT(60) DEF arm
  <2> QED BY <1>1, <1>4, <2>1, GotoMeans, SMTT(60) DEF arm, Unlocked
<1>5. CASE recvStop
  BY <1>1, <1>5, GotoMeans, ControlSteps, SMTT(60) DEF recvStop, recv, Unlocked
<1>6. CASE stopTimer
  BY <1>1, <1>6, GotoMeans, SMTT(60) DEF stopTimer, Stopped, Unlocked
<1> QED BY <1>2, <1>3, <1>4, <1>5, <1>6, ZenonT(60) DEF LoopStep

LEMMA TypesReceipt ==
    ASSUME TypeOK, NEW id \in receipts,
           cogReceipt(id) \/ cogReceiptIgnored(id) \/ loseReceipt(id)
    PROVE  TypeOK'
<1> USE DEF TypeOK, catalogVars, stateVars, timerVars, localVars, cogVars, busVars,
            CatalogTypeOK
<1>1. CASE cogReceipt(id)
  <2>1. lastAcked' \in Nat
    BY <1>1, Zenon DEF cogReceipt, EpochAcked
  <2>2. /\ state' \in {"Stopped", "Waiting", "ReceiptWaiting"}
        /\ announceTimer' \in {"nil", "armed", "idle"}
    BY <1>1, Zenon DEF cogReceipt, Stopped
  <2>3. crashed' \in BOOLEAN
    BY <1>1, Zenon DEF cogReceipt
  <2> QED BY <1>1, <2>1, <2>2, <2>3, Zenon DEF cogReceipt
<1>2. CASE cogReceiptIgnored(id)
  BY <1>2 DEF cogReceiptIgnored
<1>3. CASE loseReceipt(id)
  BY <1>3 DEF loseReceipt
<1> QED BY <1>1, <1>2, <1>3, Zenon

LEMMA TypesEnv ==
    ASSUME TypeOK, EnvStep
    PROVE  TypeOK'
<1> USE DEF TypeOK, catalogVars, stateVars, timerVars, localVars, cogVars, busVars
<1>1. CASE /\ CatalogStep
           /\ UNCHANGED <<stateVars, stateLock, timerVars, pc, localVars, receipts,
                          cogView, owed, busVars>>
  <2>1. CatalogTypeOK'
    BY <1>1, CatalogChanges DEF CatalogStep
  <2>2. told' \subseteq SUBSET (Names \X Versions)
    BY <1>1, Zenon DEF CatalogStep
  <2> QED BY <1>1, <2>1, <2>2, SMTT(60)
<1>2. CASE /\ SendAnnouncement \/ Halt
           /\ UNCHANGED <<catalogVars, stateVars, stateLock, timerVars, pc, localVars,
                          receipts, cogView, told, connected>>
  <2>1. control' \in Seq({"announce", "stop"}) /\ Len(control') <= ControlCap
    BY <1>2, ControlSteps, SMTT(60) DEF SendAnnouncement, Halt, ControlCap
  <2>2. owed' \in Nat \cup {None}
    BY <1>2, Zenon DEF SendAnnouncement, Halt, CatalogTypeOK
  <2>3. halted' \in BOOLEAN
    BY <1>2, Zenon DEF SendAnnouncement, Halt
  <2> QED BY <1>2, <2>1, <2>2, <2>3, ZenonT(60) DEF CatalogTypeOK
<1>3. CASE Disconnect
  <2>1. pc' \in [Senders -> Locked \cup Unlocked]
    BY <1>3 DEF Disconnect, Locked
  <2>2. receipts' \subseteq Nat /\ cogView' = Offline /\ connected' = FALSE
    BY <1>3, SMTT(30) DEF Disconnect
  <2> QED BY <1>3, <2>1, <2>2, ZenonT(60) DEF Disconnect, CatalogTypeOK
<1>4. CASE /\ ~connected
           /\ connected' = TRUE
           /\ UNCHANGED <<catalogVars, stateVars, stateLock, timerVars, pc, localVars,
                          cogVars, control, halted>>
  BY <1>4 DEF CatalogTypeOK
<1> QED BY <1>1, <1>2, <1>3, <1>4, ZenonT(60) DEF EnvStep

LEMMA TypesNext ==
    ASSUME TypeOK, [Next]_vars
    PROVE  TypeOK'
<1>1. CASE UNCHANGED vars
  BY <1>1, SMTT(60)
     DEF vars, TypeOK, catalogVars, stateVars, timerVars, localVars, cogVars, busVars,
              CatalogTypeOK
<1>2. ASSUME NEW r \in Retriers, fire(r) PROVE TypeOK'
  <2>1. r \in Senders
    BY Zenon DEF Senders
  <2>2. stale' \in 0 .. MaxStale
    BY <1>2, AnnouncerAssumption DEF fire, TypeOK
  <2> QED BY <1>2, <2>1, <2>2, GotoMeans
          DEF fire, Unlocked, TypeOK, catalogVars, stateVars, localVars, cogVars, busVars,
              CatalogTypeOK
<1> QED BY <1>1, <1>2, TypesSender, TypesLoop, TypesReceipt, TypesEnv, ZenonT(60)
           DEF Next, AnnouncerStep

\* The types of the announcer's state; in particular control never holds more
\* than the two commands NewAnnouncer makes room for.
THEOREM Types == Spec => []TypeOK
<1> QED BY TypesInit, TypesNext, PTL DEF Spec

(***************************************************************************)
(* Retries.                                                                *)
(***************************************************************************)
\* Only Halt stops the timer: a stop command means that it was called.
StopHalts == /\ pc[Loop] = "stop" => halted
             /\ \A i \in DOMAIN control : control[i] = "stop" => halted

RetryInv == TypeOK /\ StopHalts /\ RetryArmed

LEMMA RetryInvInit == Init => RetryInv
BY TypesInit, SMTT(60) DEF Init, AnnouncerInit, RetryInv, StopHalts, RetryArmed, Senders

LEMMA RetryInvSender ==
    ASSUME RetryInv, NEW s \in Senders, SenderStep(s)
    PROVE  StopHalts' /\ RetryArmed'
<1> USE DEF RetryInv, StopHalts, RetryArmed, stateVars, timerVars, busVars
<1>1. Loop \in Senders /\ Retriers \subseteq Senders /\ Loop \notin Retriers
  BY AnnouncerAssumption, Zenon DEF Senders
<1>2. pc \in [Senders -> Locked \cup Unlocked]
  BY DEF TypeOK
<1>3. s # Loop => s \in Retriers
  BY Zenon DEF Senders
<1>4. CASE lockAndRead(s)
  BY <1>1, <1>2, <1>4, GotoMeans DEF lockAndRead, Locked
<1>5. ASSUME NEW n \in Names, getBundles(s, n) PROVE StopHalts' /\ RetryArmed'
  BY <1>5, Zenon DEF getBundles
<1>6. CASE publishError(s)
  BY <1>1, <1>2, <1>6, GotoMeans, SMTT(60) DEF publishError, Unlocked
<1>7. CASE wake(s)
  BY <1>1, <1>2, <1>7, GotoMeans, SMTT(60) DEF wake, Locked
<1>8. CASE publish(s) \/ publishUnseen(s)
  BY <1>1, <1>2, <1>8, GotoMeans, SMTT(60) DEF publish, publishUnseen, Locked
<1>9. CASE sent(s)
  BY <1>1, <1>2, <1>3, <1>9, GotoMeans, SMTT(60) DEF sent, Unlocked
<1> QED BY <1>4, <1>5, <1>6, <1>7, <1>8, <1>9, ZenonT(60) DEF SenderStep

LEMMA RetryInvLoop ==
    ASSUME RetryInv, LoopStep
    PROVE  StopHalts' /\ RetryArmed'
<1> USE DEF RetryInv, StopHalts, RetryArmed, stateVars, timerVars, busVars
<1>1. Loop \in Senders /\ Retriers \subseteq Senders /\ Loop \notin Retriers
  BY AnnouncerAssumption, Zenon DEF Senders
<1>2. /\ pc \in [Senders -> Locked \cup Unlocked]
      /\ control \in Seq({"announce", "stop"}) /\ Len(control) <= ControlCap
  BY ZenonT(60) DEF TypeOK
<1>3. CASE recvAnnounce
  BY <1>1, <1>2, <1>3, GotoMeans, ControlSteps, SMTT(60) DEF recvAnnounce, recv, Unlocked
<1>4. CASE announce
  BY <1>1, <1>2, <1>4, GotoMeans, SMTT(60) DEF announce, Unlocked
<1>5. CASE arm
  BY <1>1, <1>2, <1>5, GotoMeans, SMTT(60) DEF arm, Unlocked
<1>6. CASE recvStop
  BY <1>1, <1>2, <1>6, GotoMeans, ControlSteps, ZenonT(60) DEF recvStop, recv, Unlocked
<1>7. CASE stopTimer
  BY <1>1, <1>2, <1>7, GotoMeans, Zenon DEF stopTimer, Unlocked
<1> QED BY <1>3, <1>4, <1>5, <1>6, <1>7, Zenon DEF LoopStep

LEMMA RetryInvNext ==
    ASSUME RetryInv, [Next]_vars
    PROVE  RetryInv'
<1> SUFFICES StopHalts' /\ RetryArmed'
  BY TypesNext, Zenon DEF RetryInv
<1> USE DEF RetryInv, StopHalts, RetryArmed, stateVars, timerVars, busVars
<1>1. Loop \in Senders /\ Retriers \subseteq Senders /\ Loop \notin Retriers
  BY AnnouncerAssumption, Zenon DEF Senders
<1>2. /\ pc \in [Senders -> Locked \cup Unlocked]
      /\ control \in Seq({"announce", "stop"}) /\ Len(control) <= ControlCap
  BY Zenon DEF TypeOK
<1>3. CASE UNCHANGED vars
  BY <1>3, Zenon DEF vars
<1>4. ASSUME NEW r \in Retriers, fire(r) PROVE StopHalts' /\ RetryArmed'
  BY <1>1, <1>2, <1>4, GotoMeans, SMTT(60) DEF fire, Unlocked
<1>5. ASSUME NEW id \in receipts, cogReceipt(id) \/ cogReceiptIgnored(id) \/ loseReceipt(id)
      PROVE  StopHalts' /\ RetryArmed'
  BY <1>5, Zenon DEF cogReceipt, cogReceiptIgnored, loseReceipt
<1>6. CASE EnvStep
  <2>1. CASE Disconnect
    BY <1>1, <1>2, <2>1, Zenon DEF Disconnect
  <2>2. CASE SendAnnouncement \/ Halt
    <3>1. UNCHANGED <<state, announceTimer, stale, pc>>
      BY <1>6, <2>2, <1>2, SMTT(60) DEF EnvStep, SendAnnouncement, Halt, CatalogStep, Disconnect
    <3> QED BY <1>2, <2>2, <3>1, ControlSteps, ZenonT(60) DEF SendAnnouncement, Halt
  <2>3. CASE UNCHANGED <<state, announceTimer, stale, pc, control, halted>>
    BY <2>3
  <2> QED BY <1>6, <2>1, <2>2, <2>3, Zenon DEF EnvStep
<1> QED BY <1>3, <1>4, <1>5, <1>6, RetryInvSender, RetryInvLoop, ZenonT(60)
           DEF Next, AnnouncerStep

\* While cogReceipt is awaited and Halt was not called, a timer is armed, or a
\* goroutine of a timer is at work, or the loop is about to arm one.
THEOREM RetriesArmed == Spec => []RetryArmed
<1>1. RetryInv => RetryArmed
  BY DEF RetryInv
<1> QED BY <1>1, RetryInvInit, RetryInvNext, PTL DEF Spec

(***************************************************************************)
(* The mutex, and what an announcement may still say when it goes out.     *)
(***************************************************************************)
LockInv == \A s \in Senders : (pc[s] \in Locked) <=> (stateLock = s)

\* An announcement under way is of this epoch, or of an earlier one; of this
\* one it lists only what the catalog has.
AnnInv == \A s \in Senders : /\ ann[s].id <= epoch
                             /\ ann[s].id = epoch => ann[s].bundles \subseteq Content

Inv == TypeOK /\ LockInv /\ AnnInv

LEMMA InvInit == Init => Inv
<1> SUFFICES ASSUME Init PROVE Inv
  BY Zenon
<1>1. LockInv
  BY AnnouncerAssumption, Zenon DEF Init, AnnouncerInit, LockInv, Locked
<1>2. AnnInv
  BY DEF Init, AnnouncerInit, NewCatalog, AnnInv, NoAnnouncement
<1> QED BY <1>1, <1>2, TypesInit DEF Inv

\* The lock goes with the program counters.
LEMMA LockGoto ==
    ASSUME TypeOK, LockInv, NEW s \in Senders, NEW label \in Locked \cup Unlocked,
           Goto(s, label),
           \/ pc[s] \notin Locked /\ label \notin Locked /\ UNCHANGED stateLock
           \/ pc[s] \in Locked /\ label \in Locked /\ UNCHANGED stateLock
           \/ pc[s] \in Locked /\ label \notin Locked /\ stateLock' = Free
           \/ stateLock = Free /\ label \in Locked /\ stateLock' = s
    PROVE  LockInv'
<1>1. /\ pc' \in [Senders -> Locked \cup Unlocked]
      /\ \A t \in Senders : pc'[t] = IF t = s THEN label ELSE pc[t]
  BY GotoMeans, Zenon DEF TypeOK
<1>2. Free \notin Senders
  BY AnnouncerAssumption
<1> HIDE DEF Locked, Unlocked
<1> QED BY <1>1, <1>2, Zenon DEF LockInv

LEMMA LockInvNext ==
    ASSUME Inv, [Next]_vars
    PROVE  LockInv'
<1> USE DEF Inv
<1>1. Loop \in Senders /\ Retriers \subseteq Senders
  BY DEF Senders
<1>2. CASE UNCHANGED <<pc, stateLock>>
  BY <1>2, Zenon DEF LockInv
<1>3. ASSUME NEW s \in Senders, SenderStep(s) PROVE LockInv'
  <2>1. CASE lockAndRead(s)
    BY <2>1, LockGoto DEF lockAndRead, Locked, Unlocked
  <2>2. ASSUME NEW n \in Names, getBundles(s, n) PROVE LockInv'
    BY <1>2, <2>2, SMTT(60) DEF getBundles
  <2>3. CASE publishError(s)
    BY <2>3, LockGoto, Zenon DEF publishError, Locked, Unlocked
  <2>4. CASE wake(s)
    BY <2>4, LockGoto, Zenon DEF wake, Locked, Unlocked
  <2>5. CASE publish(s) \/ publishUnseen(s)
    BY <2>5, LockGoto, ZenonT(60) DEF publish, publishUnseen, Locked, Unlocked
  <2>6. CASE sent(s)
    BY <2>6, LockGoto DEF sent, Locked, Unlocked
  <2> QED BY <1>3, <2>1, <2>2, <2>3, <2>4, <2>5, <2>6, ZenonT(60) DEF SenderStep
<1>4. CASE LoopStep
  <2>1. CASE recvAnnounce
    BY <1>1, <2>1, LockGoto, Zenon DEF recvAnnounce, recv, Locked, Unlocked
  <2>2. CASE announce
    BY <1>1, <2>2, LockGoto, Zenon DEF announce, Locked, Unlocked
  <2>3. CASE arm
    BY <1>1, <2>3, LockGoto, Zenon DEF arm, Locked, Unlocked
  <2>4. CASE recvStop
    BY <1>1, <2>4, LockGoto, Zenon DEF recvStop, recv, Locked, Unlocked
  <2>5. CASE stopTimer
    BY <1>1, <2>5, LockGoto, Zenon DEF stopTimer, Locked, Unlocked
  <2> QED BY <1>4, <2>1, <2>2, <2>3, <2>4, <2>5, SMTT(60) DEF LoopStep
<1>5. ASSUME NEW r \in Retriers, fire(r) PROVE LockInv'
  BY <1>1, <1>5, LockGoto, Zenon DEF fire, Locked, Unlocked
<1>6. ASSUME NEW id \in receipts, cogReceipt(id) \/ cogReceiptIgnored(id) \/ loseReceipt(id)
      PROVE  LockInv'
  BY <1>2, <1>6, Zenon DEF cogReceipt, cogReceiptIgnored, loseReceipt
<1>7. CASE EnvStep
  <2>1. CASE Disconnect
    BY <2>1, Zenon DEF Disconnect, LockInv, Locked
  <2> QED BY <1>2, <1>7, <2>1, Zenon DEF EnvStep
<1>8. CASE UNCHANGED vars
  BY <1>2, <1>8, ZenonT(60) DEF vars
<1> QED BY <1>3, <1>4, <1>5, <1>6, <1>7, <1>8, SMTT(60) DEF Next, AnnouncerStep

LEMMA AnnInvNext ==
    ASSUME Inv, [Next]_vars
    PROVE  AnnInv'
<1> USE DEF Inv
<1>1. ann \in [Senders -> Announcement] /\ CatalogTypeOK /\ epoch \in Nat
  BY Zenon DEF TypeOK, CatalogTypeOK
<1>2. UNCHANGED catalogVars => Content' = Content /\ epoch' = epoch
  BY Zenon DEF catalogVars, Content, ContentOf
<1>3. ASSUME UNCHANGED <<epoch, ann>>, Content' = Content PROVE AnnInv'
  BY <1>3, Zenon DEF AnnInv
<1>4. ASSUME NEW s \in Senders, SenderStep(s) PROVE AnnInv'
  <2>1. CASE lockAndRead(s)
    <3>1. \A t \in Senders : ann'[t] = IF t = s THEN [id |-> epoch, bundles |-> {}] ELSE ann[t]
      BY <1>1, <2>1, Zenon DEF lockAndRead
    <3>2. Content' = Content /\ epoch' = epoch
      BY <1>2, <2>1, Zenon DEF lockAndRead
    <3> QED BY <1>1, <3>1, <3>2, SMTT(60) DEF AnnInv
  <2>2. ASSUME NEW n \in Names, getBundles(s, n) PROVE AnnInv'
    <3>1. Found(n) \subseteq Content
      BY <1>1, FoundTypes
    <3>2. Content' = Content /\ epoch' = epoch
      BY <1>2, <2>2, Zenon DEF getBundles
    <3>3. \A t \in Senders :
             /\ ann'[t].id = ann[t].id
             /\ ann'[t].bundles = IF t = s THEN ann[s].bundles \cup Found(n)
                                  ELSE ann[t].bundles
      BY <2>2, GetBundlesAnn, Zenon
    <3>4. \A t \in Senders : ann[t].id = epoch => ann'[t].bundles \subseteq Content
      BY <3>1, <3>3, Zenon DEF AnnInv
    <3> QED BY <3>2, <3>3, <3>4, Zenon DEF AnnInv
  <2>3. CASE sent(s)
    <3>1. \A t \in Senders : ann'[t] = IF t = s THEN NoAnnouncement ELSE ann[t]
      BY <1>1, <2>3, Zenon DEF sent
    <3>2. 0 <= epoch /\ NoAnnouncement.id = 0 /\ NoAnnouncement.bundles = {}
      BY <1>1, SMTT(60) DEF NoAnnouncement
    <3>3. Content' = Content /\ epoch' = epoch
      BY <1>2, <2>3, Zenon DEF sent
    <3> QED BY <3>1, <3>2, <3>3, Zenon DEF AnnInv
  <2> QED BY <1>2, <1>3, <1>4, <2>1, <2>2, <2>3, ZenonT(60)
          DEF SenderStep, publishError, wake, publish, publishUnseen, localVars, catalogVars
<1>5. CASE LoopStep
  BY <1>2, <1>3, <1>5, Zenon DEF LoopStep, recvAnnounce, announce, arm, recvStop, stopTimer,
                          localVars, catalogVars
<1>6. ASSUME NEW r \in Retriers, fire(r) PROVE AnnInv'
  BY <1>2, <1>3, <1>6, Zenon DEF fire, localVars
<1>7. ASSUME NEW id \in receipts, cogReceipt(id) \/ cogReceiptIgnored(id) \/ loseReceipt(id)
      PROVE  AnnInv'
  <2>1. UNCHANGED <<bundles, epoch, ann>>
    BY <1>7, Zenon DEF cogReceipt, cogReceiptIgnored, loseReceipt, localVars, catalogVars
  <2> QED BY <1>3, <2>1, Zenon DEF Content, ContentOf
<1>8. CASE EnvStep
  <2>1. CASE CatalogStep /\ UNCHANGED localVars
    <3>1. /\ epoch' \in {epoch, epoch + 1}
          /\ epoch' = epoch => Content' = Content
      BY <1>1, <2>1, CatalogChanges, Zenon DEF CatalogStep
    <3>2. \A s \in Senders : ann[s].id \in Nat
      BY <1>1, Zenon DEF Announcement
    <3> QED BY <1>1, <2>1, <3>1, <3>2, SMTT(60) DEF AnnInv, localVars
  <2>2. CASE UNCHANGED <<catalogVars, localVars>>
    BY <1>2, <1>3, <2>2, Zenon DEF localVars
  <2> QED BY <1>8, <2>1, <2>2, Zenon DEF EnvStep, Disconnect
<1>9. CASE UNCHANGED vars
  BY <1>2, <1>3, <1>9, Zenon DEF vars, localVars
<1> QED BY <1>4, <1>5, <1>6, <1>7, <1>8, <1>9, SMTT(60) DEF Next, AnnouncerStep

LEMMA InvNext ==
    ASSUME Inv, [Next]_vars
    PROVE  Inv'
BY TypesNext, LockInvNext, AnnInvNext, Zenon DEF Inv

(***************************************************************************)
(* Cog's view.                                                             *)
(***************************************************************************)
\* If Cog did not miss it, what it processed last is what the sender that has
\* the lock has just published, or what the announcer waits for, or what was
\* acknowledged last.
ViewInv == /\ receiptFor # None => receiptFor <= epoch
           /\ state = "Waiting" => receiptFor = None
           /\ \A s \in Senders : pc[s] = "puback" => cogView \in {Offline, Missed, ann[s].id}
           /\ cogView \notin {Offline, Missed} /\ (\A s \in Senders : pc[s] \notin {"puback", "hung"}) =>
                 \/ receiptFor = cogView
                 \/ receiptFor = None /\ lastAcked = cogView

LEMMA ViewInvInit == Init => ViewInv
BY Zenon DEF Init, AnnouncerInit, ViewInv

\* A sender or the loop moves on, publishing nothing.
LEMMA ViewGoto ==
    ASSUME Inv, ViewInv, NEW s \in Senders, NEW label \in Locked \cup Unlocked,
           Goto(s, label), pc[s] \notin {"puback", "hung"}, label \notin {"puback", "hung"},
           UNCHANGED <<receiptFor, epoch, cogView, lastAcked>>, state' \in {state, "Stopped"},
           \A t \in Senders \ {s} : ann'[t] = ann[t]
    PROVE  ViewInv'
<1>1. \A t \in Senders : pc'[t] = IF t = s THEN label ELSE pc[t]
  BY GotoMeans, Zenon DEF Inv, TypeOK
<1> HIDE DEF Locked, Unlocked
<1> QED BY <1>1, Zenon DEF ViewInv

LEMMA ViewInvSender ==
    ASSUME Inv, ViewInv, NEW s \in Senders, SenderStep(s)
    PROVE  ViewInv'
<1> USE DEF catalogVars, stateVars, cogVars, localVars
<1>1. pc \in [Senders -> Locked \cup Unlocked] /\ ann \in [Senders -> Announcement]
  BY Zenon DEF Inv, TypeOK
<1>2. \A t \in Senders : ann[t].id \in Nat /\ ann[t].id <= epoch
  BY <1>1, Zenon DEF Announcement, Inv, AnnInv
<1>3. CASE lockAndRead(s)
  <2>1. \A t \in Senders \ {s} : ann'[t] = ann[t]
    BY <1>1, <1>3, SMTT(60) DEF lockAndRead
  <2> QED BY <1>3, <2>1, ViewGoto, ZenonT(60) DEF lockAndRead, Locked
<1>4. ASSUME NEW n \in Names, getBundles(s, n) PROVE ViewInv'
  <2>1. \A t \in Senders : ann'[t].id = ann[t].id
    BY <1>4, GetBundlesAnn, Zenon DEF Inv
  <2> QED BY <1>4, <2>1, Zenon DEF getBundles, ViewInv
<1>5. CASE publishError(s)
  BY <1>5, ViewGoto, Zenon DEF publishError, Unlocked
<1>6. CASE wake(s)
  BY <1>6, ViewGoto, Zenon DEF wake, Locked
<1>7. CASE publish(s)
  <2>1. \A t \in Senders : pc'[t] = IF t = s THEN "puback" ELSE pc[t]
    BY <1>1, <1>7, GotoMeans, Zenon DEF publish, Locked
  <2>2. \A t \in Senders : pc[t] = "puback" => t = s
    BY <1>7, Zenon DEF Inv, LockInv, Locked, publish
  <2> QED BY <1>7, <2>1, <2>2, Zenon DEF publish, ViewInv
<1>8. CASE sent(s)
  <2>1. \A t \in Senders : pc'[t] = IF t = s THEN IF s = Loop THEN "arm" ELSE "done" ELSE pc[t]
    BY <1>1, <1>8, GotoMeans, ZenonT(60) DEF sent, Unlocked
  <2>2. \A t \in Senders : pc[t] = "puback" => t = s
    BY <1>8, SMTT(60) DEF Inv, LockInv, Locked, sent
  <2>3. cogView \in {Offline, Missed, ann[s].id} /\ receiptFor' = ann[s].id
    BY <1>8, Zenon DEF sent, ViewInv
  <2> QED BY <1>2, <1>8, <2>1, <2>2, <2>3, AnnouncerAssumption, ZenonT(60) DEF sent, ViewInv
<1>9. CASE publishUnseen(s)
  <2>1. \A t \in Senders : pc'[t] = IF t = s THEN "puback" ELSE pc[t]
    BY <1>1, <1>9, GotoMeans, Zenon DEF publishUnseen, Locked
  <2>2. cogView' \in {Offline, Missed}
    BY <1>9, Zenon DEF publishUnseen
  <2> QED BY <1>9, <2>1, <2>2, Zenon DEF publishUnseen, ViewInv
<1> QED BY <1>3, <1>4, <1>5, <1>6, <1>7, <1>8, <1>9, ZenonT(60) DEF SenderStep

LEMMA ViewInvNext ==
    ASSUME Inv, ViewInv, [Next]_vars
    PROVE  ViewInv'
<1> USE DEF catalogVars, stateVars, cogVars, localVars
<1>1. Loop \in Senders /\ Retriers \subseteq Senders
  BY Zenon DEF Senders
<1>2. CASE UNCHANGED <<receiptFor, epoch, state, pc, cogView, ann, lastAcked>>
  BY <1>2 DEF ViewInv
<1>3. CASE LoopStep
  <2>1. CASE recvAnnounce
    BY <1>1, <2>1, ViewGoto, Zenon DEF recvAnnounce, recv, Unlocked
  <2>2. CASE announce
    BY <1>1, <2>2, ViewGoto, Zenon DEF announce, Unlocked
  <2>3. CASE arm
    BY <1>1, <2>3, ViewGoto, Zenon DEF arm, Unlocked
  <2>4. CASE recvStop
    BY <1>1, <2>4, ViewGoto, Zenon DEF recvStop, recv, Unlocked
  <2>5. CASE stopTimer
    BY <1>1, <2>5, ViewGoto, Zenon DEF stopTimer, Unlocked
  <2> QED BY <1>3, <2>1, <2>2, <2>3, <2>4, <2>5, ZenonT(60) DEF LoopStep
<1>4. ASSUME NEW r \in Retriers, fire(r) PROVE ViewInv'
  BY <1>1, <1>4, ViewGoto, Zenon DEF fire, Unlocked
<1>5. ASSUME NEW id \in receipts, cogReceipt(id) PROVE ViewInv'
  <2>1. receiptFor = id /\ id # None /\ receiptFor' = None
    BY <1>5, AnnouncerAssumption, ZenonT(60) DEF cogReceipt, Inv, TypeOK
  <2>2. lastAcked' = id
    BY <1>5, <2>1, SMTT(60) DEF cogReceipt, EpochAcked, ViewInv, Inv, TypeOK, CatalogTypeOK
  <2>3. UNCHANGED <<epoch, pc, cogView, ann>>
    BY <1>5, Zenon DEF cogReceipt
  <2> QED BY <2>1, <2>2, <2>3, Zenon DEF ViewInv
<1>6. ASSUME NEW id \in receipts, cogReceiptIgnored(id) \/ loseReceipt(id) PROVE ViewInv'
  BY <1>2, <1>6, Zenon DEF cogReceiptIgnored, loseReceipt
<1>7. CASE EnvStep
  <2>1. CASE CatalogStep /\ UNCHANGED <<stateVars, pc, localVars, cogView>>
    <3>1. epoch' \in {epoch, epoch + 1} /\ lastAcked' = lastAcked /\ epoch \in Nat
      BY <2>1, CatalogChanges, ZenonT(60)
         DEF CatalogStep, Inv, TypeOK, CatalogTypeOK
    <3>2. receiptFor # None => receiptFor \in Nat
      BY Zenon DEF Inv, TypeOK
    <3> QED BY <2>1, <3>1, <3>2, SMTT(60) DEF ViewInv
  <2>2. CASE Disconnect
    BY <2>2, Zenon DEF Disconnect, ViewInv, Inv, TypeOK
  <2> QED BY <1>2, <1>7, <2>1, <2>2, ZenonT(60) DEF EnvStep
<1>8. CASE UNCHANGED vars
  BY <1>2, <1>8, Zenon DEF vars
<1> QED BY <1>3, <1>4, <1>5, <1>6, <1>7, <1>8, ViewInvSender, SMTT(60) DEF Next, AnnouncerStep

\* Once the announcer (loop, timers and mutex of announcer.go) is at rest, no
\* late retry has put an older announcement in the place of the acknowledged
\* one, whatever receipts and announcements were lost on the way, if Cog did
\* not miss the last one.
THEOREM Settled == Spec => []SettledView
<1>1. Inv /\ ViewInv => SettledView
  <2> SUFFICES ASSUME Inv, ViewInv, Quiet, lastAcked = epoch, cogView \notin {Offline, Missed}
               PROVE  cogView = epoch
    BY Zenon DEF SettledView
  <2>1. \A s \in Senders : pc[s] \notin {"puback", "hung"}
    BY Zenon DEF Quiet, Senders
  <2>2. receiptFor = None
    BY Zenon DEF ViewInv, Quiet
  <2>3. cogView # None
    BY AnnouncerAssumption DEF Inv, TypeOK
  <2> QED BY <2>1, <2>2, <2>3, Zenon DEF ViewInv
<1> QED BY <1>1, InvInit, InvNext, ViewInvInit, ViewInvNext, PTL DEF Spec

(***************************************************************************)
(* The promise.                                                            *)
(***************************************************************************)
Stuck == \E s \in Senders : pc[s] = "hung"

\* A sender that moves on neither hangs nor comes back.
LEMMA StuckGoto ==
    ASSUME TypeOK, NEW s \in Senders, NEW label \in Locked \cup Unlocked,
           Goto(s, label), pc[s] # "hung", label # "hung"
    PROVE  Stuck' <=> Stuck
<1>1. \A t \in Senders : pc'[t] = IF t = s THEN label ELSE pc[t]
  BY GotoMeans, Zenon DEF TypeOK
<1> HIDE DEF Locked, Unlocked
<1> QED BY <1>1, Zenon DEF Stuck

\* What the promise sees of a step that changes nothing of Cog's, or lets it
\* miss an announcement.
LEMMA PromiseMissed ==
    ASSUME UNCHANGED <<catalogVars, connected, receipts, told, owed, halted, crashed>>,
           cogView' # Offline <=> cogView # Offline, Stuck' <=> Stuck
    PROVE  UNCHANGED Promise!promiseVars
BY Zenon DEF Stuck, catalogVars, Promise!promiseVars, Promise!catalogVars, Promise!cogVars

LEMMA PromiseStutter ==
    ASSUME UNCHANGED <<catalogVars, connected, receipts, cogView, told, owed, halted, crashed>>,
           Stuck' <=> Stuck
    PROVE  UNCHANGED Promise!promiseVars
BY PromiseMissed, Zenon

LEMMA PromiseSender ==
    ASSUME Inv, NEW s \in Senders, SenderStep(s)
    PROVE  Promise!PromiseNext \/ UNCHANGED Promise!promiseVars
<1> USE DEF catalogVars, stateVars, cogVars, busVars
<1>1. TypeOK /\ LockInv /\ AnnInv
  BY Zenon DEF Inv
<1>2. CASE lockAndRead(s)
  <2>1. Stuck' <=> Stuck
    BY <1>1, <1>2, StuckGoto DEF lockAndRead, Locked
  <2> QED BY <1>2, <2>1, PromiseStutter, ZenonT(60) DEF lockAndRead
<1>3. ASSUME NEW n \in Names, getBundles(s, n) PROVE UNCHANGED Promise!promiseVars
  BY <1>3, PromiseStutter, Zenon DEF getBundles, Stuck
<1>4. CASE publishError(s)
  <2>1. Stuck' <=> Stuck
    BY <1>1, <1>4, StuckGoto, Zenon DEF publishError, Unlocked
  <2> QED BY <1>4, <2>1, PromiseStutter, Zenon DEF publishError
<1>5. CASE wake(s)
  <2>1. Stuck' <=> Stuck
    BY <1>1, <1>5, StuckGoto, Zenon DEF wake, Locked
  <2> QED BY <1>5, <2>1, PromiseStutter, Zenon DEF wake
<1>6. CASE publish(s)
  <2>1. Stuck' <=> Stuck
    BY <1>1, <1>6, StuckGoto, Zenon DEF publish, Locked
  <2>2. ~Stuck
    BY <1>1, <1>6, Zenon DEF publish, Stuck, LockInv, Locked
  <2>3. PICK id \in Nat : id = ann[s].id
    BY <1>1, Zenon DEF TypeOK, Announcement
  <2>4. PICK content \in SUBSET (Names \X Versions) : content = ann[s].bundles
    BY <1>1, ZenonT(60) DEF TypeOK, Announcement
  <2>5. /\ id \in 0 .. epoch
        /\ id <= epoch /\ (id = epoch => content \subseteq Promise!Content)
    BY <1>1, <2>3, <2>4, SMTT(60) DEF AnnInv, TypeOK, CatalogTypeOK, Content, ContentOf,
                            Promise!Content, Promise!ContentOf
  <2>6. cogView' # Offline
    BY <1>6, <2>3, AnnouncerAssumption, Zenon DEF publish
  <2>7. Promise!Announce(id, content)
    BY <1>6, <2>1, <2>2, <2>3, <2>4, <2>5, <2>6, ZenonT(60)
       DEF publish, Stuck, Promise!Announce, Promise!catalogVars
  <2> QED BY <2>5, <2>7, Zenon DEF Promise!PromiseNext
<1>7. CASE publishUnseen(s)
  <2>1. Stuck' <=> Stuck
    BY <1>1, <1>7, StuckGoto, Zenon DEF publishUnseen, Locked
  <2>2. cogView' # Offline <=> cogView # Offline
    BY <1>7, AnnouncerAssumption, Zenon DEF publishUnseen
  <2> QED BY <1>7, <2>1, <2>2, PromiseMissed, Zenon DEF publishUnseen
<1>8. CASE sent(s)
  <2>1. Stuck' <=> Stuck
    BY <1>1, <1>8, StuckGoto, Zenon DEF sent, Unlocked
  <2> QED BY <1>8, <2>1, PromiseStutter, Zenon DEF sent
<1> QED BY <1>2, <1>3, <1>4, <1>5, <1>6, <1>7, <1>8, SMTT(60) DEF SenderStep

LEMMA PromiseLoop ==
    ASSUME Inv, ~crashed, LoopStep
    PROVE  Promise!PromiseNext \/ UNCHANGED Promise!promiseVars
<1> USE DEF catalogVars, stateVars, cogVars, busVars
<1>1. TypeOK /\ Loop \in Senders
  BY DEF Inv, Senders
<1>2. Stuck' <=> Stuck
  <2>1. CASE recvAnnounce
    BY <1>1, <2>1, StuckGoto, Zenon DEF recvAnnounce, recv, Unlocked
  <2>2. CASE announce
    BY <1>1, <2>2, StuckGoto, Zenon DEF announce, Unlocked
  <2>3. CASE arm
    BY <1>1, <2>3, StuckGoto, Zenon DEF arm, Unlocked
  <2>4. CASE recvStop
    BY <1>1, <2>4, StuckGoto, ZenonT(60) DEF recvStop, recv, Unlocked
  <2>5. CASE stopTimer
    BY <1>1, <2>5, StuckGoto, Zenon DEF stopTimer, Unlocked
  <2> QED BY <2>1, <2>2, <2>3, <2>4, <2>5, ZenonT(60) DEF LoopStep
<1>3. CASE ~stopTimer
  BY <1>2, <1>3, PromiseStutter, ZenonT(60) DEF LoopStep, recvAnnounce, announce, arm, recvStop
<1>4. CASE stopTimer /\ announceTimer # "nil"
  <2>1. crashed' = crashed
    BY <1>1, <1>4, SMTT(60) DEF stopTimer, TypeOK
  <2> QED BY <1>2, <1>4, <2>1, PromiseStutter, ZenonT(60) DEF stopTimer
<1>5. CASE stopTimer /\ announceTimer = "nil"
  <2>1. crashed' = TRUE
    BY <1>5, Zenon DEF stopTimer
  <2>2. Promise!Die
    BY <1>2, <1>5, <2>1, Zenon
       DEF stopTimer, Stuck, Promise!Die, Promise!catalogVars, Promise!cogVars
  <2> QED BY <2>2, Zenon DEF Promise!PromiseNext
<1> QED BY <1>3, <1>4, <1>5, Zenon

LEMMA PromiseReceipt ==
    ASSUME Inv, NEW id \in receipts,
           cogReceipt(id) \/ cogReceiptIgnored(id) \/ loseReceipt(id)
    PROVE  Promise!PromiseNext
<1> USE DEF catalogVars, stateVars, cogVars, busVars
<1>1. (Stuck' <=> Stuck) /\ pc' = pc
  BY Zenon DEF cogReceipt, cogReceiptIgnored, loseReceipt, Stuck
<1>2. CASE cogReceipt(id)
  <2>1. ~Stuck
    <3>1. \A s \in Senders : stateLock # s
      BY <1>2, AnnouncerAssumption, Zenon DEF cogReceipt
    <3> QED BY <3>1, Zenon DEF Stuck, Inv, LockInv, Locked
  <2>2. crashed' \in BOOLEAN
    BY <1>2, ZenonT(60) DEF cogReceipt, Inv, TypeOK
  <2>3. Promise!EpochAcked(id)
    BY <1>2, SMTT(60) DEF cogReceipt, EpochAcked, Promise!EpochAcked
  <2>4. Promise!Acknowledge(id)
    BY <1>1, <1>2, <2>1, <2>2, <2>3, SMTT(60) DEF cogReceipt, Stuck, Promise!Acknowledge
  <2> QED BY <2>4 DEF Promise!PromiseNext
<1>3. CASE cogReceiptIgnored(id) \/ loseReceipt(id)
  <2>1. Promise!Ignore(id)
    BY <1>1, <1>3 DEF cogReceiptIgnored, loseReceipt, Stuck, Promise!Ignore, Promise!catalogVars
  <2> QED BY <2>1, ZenonT(60) DEF Promise!PromiseNext
<1> QED BY <1>2, <1>3, Zenon

\* The promise's catalog is the announcer's.
LEMMA SameChanges ==
    ASSUME Change
    PROVE  Promise!Change
<1>1. ASSUME NEW list PROVE Promise!diff(list) = diff(list)
  BY Zenon DEF diff, Fresh, findByName, Positions, Min, Max, Promise!diff, Promise!Fresh,
         Promise!findByName, Promise!Positions, Promise!Min, Promise!Max
<1>2. ASSUME NEW list PROVE Promise!Dirty(list) <=> Dirty(list)
  BY Zenon DEF Dirty, findByName, Positions, Min, Promise!Dirty, Promise!findByName,
         Promise!Positions, Promise!Min
<1>3. ASSUME NEW list, Replace(list) PROVE Promise!Replace(list)
  BY <1>1, <1>2, <1>3, ZenonT(60) DEF Replace, Promise!Replace
<1> QED BY <1>3, Zenon
        DEF Change, Remove, SetAvailable, Reconnected, Promise!Change, Promise!Remove,
            Promise!SetAvailable, Promise!Reconnected

LEMMA PromiseEnv ==
    ASSUME Inv, EnvStep
    PROVE  Promise!PromiseNext
<1> USE DEF catalogVars, stateVars, cogVars, busVars
<1>1. CASE /\ CatalogStep
           /\ UNCHANGED <<stateVars, stateLock, timerVars, pc, localVars, receipts,
                          cogView, owed, busVars>>
  <2>1. Promise!Change
    BY <1>1, SameChanges, ZenonT(60) DEF CatalogStep
  <2>2. Promise!CatalogStep
    BY <1>1, <2>1 DEF CatalogStep, Promise!CatalogStep
  <2> QED BY <2>2 DEF Promise!PromiseNext
<1>2. CASE /\ SendAnnouncement \/ Halt
           /\ UNCHANGED <<catalogVars, stateVars, stateLock, timerVars, pc, localVars,
                          receipts, cogView, told, connected>>
  <2>1. Promise!SendAnnouncement \/ Promise!Halt
    BY <1>2 DEF SendAnnouncement, Halt, Promise!SendAnnouncement, Promise!Halt,
                Promise!catalogVars, Promise!cogVars
  <2> QED BY <2>1, ZenonT(60) DEF Promise!PromiseNext
<1>3. CASE Disconnect
  <2>1. /\ Stuck => Stuck'
        /\ ~MayHang => (Stuck' <=> Stuck)
    BY <1>3, Zenon DEF Disconnect, Stuck
  <2>2. Stuck' \in (IF MayHang THEN {Stuck, TRUE} ELSE {Stuck})
    BY <2>1, AnnouncerAssumption, Zenon DEF Stuck
  <2>3. Promise!Disconnect
    BY <1>3, <2>2, Zenon DEF Disconnect, Stuck, Promise!Disconnect, Promise!catalogVars
  <2> QED BY <2>3, Zenon DEF Promise!PromiseNext
<1>4. CASE /\ ~connected
           /\ connected' = TRUE
           /\ UNCHANGED <<catalogVars, stateVars, stateLock, timerVars, pc, localVars,
                          cogVars, control, halted>>
  <2>1. Promise!Connect
    BY <1>4 DEF Promise!Connect, Promise!catalogVars, Promise!cogVars
  <2> QED BY <2>1 DEF Promise!PromiseNext
<1> QED BY <1>1, <1>2, <1>3, <1>4, ZenonT(60) DEF EnvStep

\* The announcer implements its promise: a step of announcer.go, of the bus
\* or of the catalog is a step the promise allows, or changes nothing of what
\* the promise is about.
THEOREM KeepsPromise == Spec => ImplementsPromise
<1>1. Init => Promise!PromiseInit
  <2> SUFFICES ASSUME Init PROVE Promise!PromiseInit
    OBVIOUS
  <2>1. ~Stuck
    BY Zenon DEF Init, AnnouncerInit, Stuck
  <2> QED BY <2>1, Zenon DEF Init, AnnouncerInit, NewCatalog, Stuck, Promise!PromiseInit,
                      Promise!NewCatalog
<1>2. ASSUME Inv, [Next]_vars PROVE [Promise!PromiseNext]_(Promise!promiseVars)
  <2>1. CASE UNCHANGED vars
    BY <2>1, PromiseStutter, Zenon DEF vars, Stuck, stateVars, cogVars, busVars
  <2>2. ASSUME ~crashed, NEW r \in Retriers, fire(r) PROVE UNCHANGED Promise!promiseVars
    <3>1. r \in Senders
      BY ZenonT(60) DEF Senders
    <3>2. Stuck' <=> Stuck
      BY <1>2, <2>2, <3>1, StuckGoto, SMTT(60) DEF fire, Unlocked, Inv
    <3> QED BY <2>2, <3>2, PromiseStutter DEF fire, stateVars, cogVars, busVars
  <2> QED BY <1>2, <2>1, <2>2, PromiseSender, PromiseLoop, PromiseReceipt, PromiseEnv, ZenonT(60)
          DEF Next, AnnouncerStep
<1> QED BY <1>1, <1>2, InvInit, InvNext, PTL DEF Spec, ImplementsPromise, Promise!PromiseSpec
=============================================================================
