----------------------------- MODULE Announcer -----------------------------
(***************************************************************************)
(* The announcer (relay/announcer.go) at the grain of its mutex.  The      *)
(* goroutines that send announcements are the main loop and the functions  *)
(* of announce timers that fired (the retriers); the bus client's router   *)
(* delivers Cog's receipts.  The rest of the process is the environment:   *)
(* the catalog changes by any of its methods, and SendAnnouncement and     *)
(* Halt are called, at any time.                                           *)
(*                                                                         *)
(* sendAnnouncement holds stateLock from the reading of the epoch until    *)
(* the broker has acknowledged the message, except while it sleeps after   *)
(* a failed publish.  A publish fails if the bus client is not connected;  *)
(* one that is waiting for the broker when the connection is lost never    *)
(* returns (the client drops the token), and the lock is never released.   *)
(*                                                                         *)
(* A timer is announceTimer or one that announceTimer no longer points to; *)
(* of the latter only the number still armed matters.                      *)
(***************************************************************************)
EXTENDS Catalog

CONSTANTS Loop,       \* the goroutine of loop
          Retriers,   \* goroutines for timer functions (bounds their number)
          Free,       \* the value of stateLock when it is unlocked
          None,       \* the empty receiptFor; no epoch
          Offline,    \* Cog's view after the last will of the connection
          Missed,     \* Cog's view when an announcement did not reach it
          MaxEpoch,   \* bound on the catalog's epoch
          Halts,      \* whether Relay may be stopped
          CogLossy,   \* whether Cog may miss a message, and receipts may be lost
          MaxStale,   \* bound on the armed timers that were replaced
          MayHang     \* whether a lost connection may leave a publish hanging

VARIABLES state,       \* relayAnnouncer.state
          stateLock,   \* the sender that has relayAnnouncer.stateLock, or Free
          receiptFor,  \* relayAnnouncer.receiptFor
          announcementPending,
          control,     \* relayAnnouncer.control, a channel of capacity 2
          announceTimer,  \* "nil", "armed", or "idle" (fired or stopped)
          stale,       \* number of armed timers announceTimer was moved from
          pc,          \* where each sender is
          ann,         \* the announcement a sender has made
          todo,        \* the names getBundles has not looked up yet; it publishes then
          connected,   \* whether the bus client is connected
          receipts,    \* the ids of Cog's receipts on their way
          cogView,     \* the id of the announcement Cog processed last
          told,        \* history: the bundles of this epoch's announcements Cog processed
          owed,        \* history: the epoch of the last SendAnnouncement for which
                       \* Cog has not processed an announcement yet
          halted,      \* history: Halt was called
          crashed      \* the process died of a panic

stateVars == <<state, receiptFor, announcementPending, crashed>>
timerVars == <<announceTimer, stale>>
localVars == <<ann, todo>>
cogVars == <<receipts, cogView, told, owed>>
busVars == <<connected, control, halted>>
vars == <<catalogVars, stateVars, stateLock, timerVars, pc, localVars, cogVars, busVars>>

Senders == {Loop} \cup Retriers
ControlCap == 2

Announcement == [id : Nat, bundles : SUBSET (Names \X Versions)]
NoAnnouncement == [id |-> 0, bundles |-> {}]

\* Where a sender has the lock, and where it has not.
Locked == {"publish", "puback", "hung"}
Unlocked == {"recv", "got", "lock", "sleep", "arm", "stop", "done"}

ASSUME AnnouncerAssumption == /\ Loop \notin Retriers
                              /\ Free \notin Senders
                              /\ None \notin Nat
                              /\ {Offline, Missed} \cap Nat = {} /\ Offline # Missed
                              /\ {Halts, CogLossy, MayHang} \subseteq BOOLEAN
                              /\ MaxEpoch \in Nat
                              /\ MaxStale \in Nat

TypeOK == /\ CatalogTypeOK
          /\ state \in {"Stopped", "Waiting", "ReceiptWaiting"}
          /\ stateLock \in Senders \cup {Free}
          /\ receiptFor \in Nat \cup {None}
          /\ announcementPending \in BOOLEAN
          /\ control \in Seq({"announce", "stop"}) /\ Len(control) <= ControlCap
          /\ announceTimer \in {"nil", "armed", "idle"}
          /\ stale \in 0 .. MaxStale
          /\ pc \in [Senders -> Locked \cup Unlocked]
          /\ ann \in [Senders -> Announcement]
          /\ todo \in [Senders -> SUBSET Names]
          /\ connected \in BOOLEAN
          /\ receipts \subseteq Nat
          /\ cogView \in Nat \cup {Offline, Missed}
          /\ told \subseteq SUBSET (Names \X Versions)
          /\ owed \in Nat \cup {None}
          /\ halted \in BOOLEAN
          /\ crashed \in BOOLEAN

\* NewAnnouncer and Run, on the first connection.
AnnouncerInit == /\ state = "Waiting"
                 /\ stateLock = Free
                 /\ receiptFor = None
                 /\ announcementPending = FALSE
                 /\ control = <<>>
                 /\ announceTimer = "nil"
                 /\ stale = 0
                 /\ pc = [s \in Senders |-> IF s = Loop THEN "recv" ELSE "done"]
                 /\ ann = [s \in Senders |-> NoAnnouncement]
                 /\ todo = [s \in Senders |-> {}]
                 /\ receipts = {}
                 /\ cogView = Offline
                 /\ told = {}
                 /\ owed = None
                 /\ halted = FALSE
                 /\ crashed = FALSE

Init == NewCatalog /\ AnnouncerInit /\ connected = TRUE

Goto(s, label) == pc' = [pc EXCEPT ![s] = label]
Stopped(timer) == IF timer = "armed" THEN "idle" ELSE timer

(***************************************************************************)
(* sendAnnouncement, run by sender s.                                      *)
(***************************************************************************)
\* Takes the lock, reads the epoch (CurrentEpoch) and then the names.
lockAndRead(s) ==
    /\ pc[s] = "lock"
    /\ stateLock = Free
    /\ stateLock' = s
    /\ ann' = [ann EXCEPT ![s] = [id |-> epoch, bundles |-> {}]]
    /\ todo' = [todo EXCEPT ![s] = BundleNames]
    /\ Goto(s, "publish")
    /\ UNCHANGED <<catalogVars, stateVars, timerVars, cogVars, busVars>>

\* One round of getBundles; a bundle may be gone, or be unavailable, by now.
getBundles(s, n) ==
    /\ pc[s] = "publish"
    /\ n \in todo[s]
    /\ todo' = [todo EXCEPT ![s] = @ \ {n}]
    /\ ann' = IF bundles[n] # NoBundle /\ bundles[n].available
              THEN [ann EXCEPT ![s].bundles = @ \cup {<<n, bundles[n].version>>}]
              ELSE ann
    /\ UNCHANGED <<catalogVars, stateVars, stateLock, timerVars, pc, cogVars, busVars>>

\* The publish fails: unlock, and sleep for a second.
publishError(s) ==
    /\ pc[s] = "publish" /\ todo[s] = {}
    /\ ~connected
    /\ stateLock' = Free
    /\ Goto(s, "sleep")
    /\ UNCHANGED <<catalogVars, stateVars, timerVars, localVars, cogVars, busVars>>

\* The same announcement is published again.
wake(s) ==
    /\ pc[s] = "sleep"
    /\ stateLock = Free
    /\ stateLock' = s
    /\ Goto(s, "publish")
    /\ UNCHANGED <<catalogVars, stateVars, timerVars, localVars, cogVars, busVars>>

\* The message is out: Cog processes it and sends its receipt.  The sender
\* waits for the broker's acknowledgement.
publish(s) ==
    /\ pc[s] = "publish" /\ todo[s] = {}
    /\ connected
    /\ cogView' = ann[s].id
    /\ receipts' = receipts \cup {ann[s].id}
    /\ told' = IF ann[s].id = epoch THEN told \cup {ann[s].bundles} ELSE told
    /\ owed' = IF owed # None /\ ann[s].id >= owed THEN None ELSE owed
    /\ Goto(s, "puback")
    /\ UNCHANGED <<catalogVars, stateVars, stateLock, timerVars, localVars, busVars>>

\* The message is out, and the broker has it, but Cog never sees it.
publishUnseen(s) ==
    /\ CogLossy
    /\ pc[s] = "publish" /\ todo[s] = {}
    /\ connected
    /\ cogView' = IF cogView = Offline THEN Offline ELSE Missed
    /\ Goto(s, "puback")
    /\ UNCHANGED <<catalogVars, stateVars, stateLock, timerVars, localVars, receipts, told, owed,
                   busVars>>

\* Mutant: a retrier does not reset the timer.
sent_noReset(s) ==
    /\ pc[s] = "puback"
    /\ receiptFor' = ann[s].id
    /\ state' = "ReceiptWaiting"
    /\ stateLock' = Free
    /\ Goto(s, IF s = Loop THEN "arm" ELSE "done")
    /\ ann' = [ann EXCEPT ![s] = NoAnnouncement]
    /\ UNCHANGED <<catalogVars, announcementPending, crashed, timerVars, todo, cogVars,
                   busVars>>

\* Publish returns.  A retrier resets announceTimer; the loop calls with
\* skipTimer and makes a new timer when it is back.
sent(s) ==
    /\ pc[s] = "puback"
    /\ receiptFor' = ann[s].id
    /\ state' = "ReceiptWaiting"
    /\ announceTimer' = IF s = Loop THEN announceTimer ELSE "armed"
    /\ stateLock' = Free
    /\ Goto(s, IF s = Loop THEN "arm" ELSE "done")
    /\ ann' = [ann EXCEPT ![s] = NoAnnouncement]
    /\ UNCHANGED <<catalogVars, announcementPending, crashed, stale, todo, cogVars, busVars>>

(***************************************************************************)
(* loop.                                                                   *)
(***************************************************************************)
recv(command, label) ==
    /\ pc[Loop] = "recv"
    /\ control # <<>> /\ Head(control) = command
    /\ control' = Tail(control)
    /\ Goto(Loop, label)

recvAnnounce ==
    /\ recv("announce", "got")
    /\ UNCHANGED <<catalogVars, stateVars, stateLock, timerVars, localVars, cogVars,
                   connected, halted>>

\* Mutant: a command that comes while a receipt is awaited is dropped.
announce_drops ==
    /\ pc[Loop] = "got"
    /\ stateLock = Free
    /\ Goto(Loop, IF state = "ReceiptWaiting" THEN "recv" ELSE "lock")
    /\ UNCHANGED <<catalogVars, stateVars, stateLock, timerVars, localVars, cogVars, busVars>>

announce ==
    /\ pc[Loop] = "got"
    /\ stateLock = Free
    /\ \/ /\ state = "ReceiptWaiting"
          /\ announcementPending' = TRUE
          /\ Goto(Loop, "recv")
       \/ /\ state # "ReceiptWaiting"
          /\ UNCHANGED announcementPending
          /\ Goto(Loop, "lock")
    /\ UNCHANGED <<catalogVars, state, receiptFor, crashed, stateLock, timerVars,
                   localVars, cogVars, busVars>>

\* announceTimer = time.AfterFunc(...), without the lock.
arm ==
    /\ pc[Loop] = "arm"
    /\ stale' = IF announceTimer = "armed" THEN stale + 1 ELSE stale
    /\ stale' <= MaxStale
    /\ announceTimer' = "armed"
    /\ Goto(Loop, "recv")
    /\ UNCHANGED <<catalogVars, stateVars, stateLock, localVars, cogVars, busVars>>

\* The state is changed without the lock.
recvStop ==
    /\ recv("stop", "stop")
    /\ state' = "Stopped"
    /\ UNCHANGED <<catalogVars, receiptFor, announcementPending, crashed, stateLock,
                   timerVars, localVars, cogVars, connected, halted>>

\* announceTimer.Stop() panics on a nil timer; then the loop looks at state.
stopTimer ==
    /\ pc[Loop] = "stop"
    /\ crashed' = (announceTimer = "nil")
    /\ announceTimer' = Stopped(announceTimer)
    /\ Goto(Loop, IF state = "Stopped" THEN "done" ELSE "recv")
    /\ UNCHANGED <<catalogVars, state, receiptFor, announcementPending, stateLock,
                   stale, localVars, cogVars, busVars>>

(***************************************************************************)
(* Timers and receipts.                                                    *)
(***************************************************************************)
fire(r) ==
    /\ pc[r] = "done"
    /\ \/ announceTimer = "armed" /\ announceTimer' = "idle" /\ UNCHANGED stale
       \/ stale > 0 /\ stale' = stale - 1 /\ UNCHANGED announceTimer
    /\ Goto(r, "lock")
    /\ UNCHANGED <<catalogVars, stateVars, stateLock, localVars, cogVars, busVars>>

\* cogReceipt for a receipt that is not the one waited for.
cogReceiptIgnored(id) ==
    /\ stateLock = Free
    /\ id # receiptFor
    /\ receipts' = receipts \ {id}
    /\ UNCHANGED <<catalogVars, stateVars, stateLock, timerVars, pc, localVars,
                   cogView, told, owed, busVars>>

\* Mutant: the catalog is not told of the receipt.
cogReceipt_notAcked(id) ==
    /\ stateLock = Free
    /\ id = receiptFor
    /\ receipts' = receipts \ {id}
    /\ receiptFor' = None
    /\ state' = IF announcementPending THEN state ELSE "Waiting"
    /\ announceTimer' = IF announcementPending THEN announceTimer ELSE Stopped(announceTimer)
    /\ crashed' = (~announcementPending /\ announceTimer = "nil")
    /\ UNCHANGED <<catalogVars, announcementPending, stateLock, stale, pc,
                   localVars, cogView, told, owed, busVars>>

\* Mutant: without the lock.
cogReceipt_unlocked(id) ==
    /\ id = receiptFor
    /\ receipts' = receipts \ {id}
    /\ EpochAcked(receiptFor)
    /\ receiptFor' = None
    /\ state' = IF announcementPending THEN state ELSE "Waiting"
    /\ announceTimer' = IF announcementPending THEN announceTimer ELSE Stopped(announceTimer)
    /\ crashed' = (~announcementPending /\ announceTimer = "nil")
    /\ UNCHANGED <<bundles, epoch, announcementPending, stateLock, stale, pc,
                   localVars, cogView, told, owed, busVars>>

\* cogReceipt for the one waited for.  Stop panics on a nil timer.
cogReceipt(id) ==
    /\ stateLock = Free
    /\ id = receiptFor
    /\ receipts' = receipts \ {id}
    /\ EpochAcked(receiptFor)
    /\ receiptFor' = None
    /\ \/ /\ announcementPending
          /\ UNCHANGED <<state, announceTimer, crashed>>
       \/ /\ ~announcementPending
          /\ state' = "Waiting"
          /\ announceTimer' = Stopped(announceTimer)
          /\ crashed' = (announceTimer = "nil")
    /\ UNCHANGED <<bundles, epoch, announcementPending, stateLock, stale, pc,
                   localVars, cogView, told, owed, busVars>>

\* A receipt is lost, or never sent.
loseReceipt(id) ==
    /\ CogLossy
    /\ receipts' = receipts \ {id}
    /\ UNCHANGED <<catalogVars, stateVars, stateLock, timerVars, pc, localVars,
                   cogView, told, owed, busVars>>

(***************************************************************************)
(* What the rest of the process and the bus do to the announcer.           *)
(***************************************************************************)
\* Mutant: the channel has room for any number of commands.
SendAnnouncement_unbounded ==
    /\ control' = Append(control, "announce")
    /\ owed' = epoch
    /\ UNCHANGED halted

SendAnnouncement == /\ Len(control) < ControlCap
                    /\ control' = Append(control, "announce")
                    /\ owed' = epoch
                    /\ UNCHANGED halted

\* Called once, from Stop.
Halt == /\ Halts /\ ~halted
        /\ Len(control) < ControlCap
        /\ control' = Append(control, "stop")
        /\ halted' = TRUE
        /\ UNCHANGED owed

\* The client loses its connection.  Publishes that wait for the broker hang,
\* and the broker sends the last will, to which Cog answers with a receipt
\* for announcement "0".
Disconnect ==
    /\ connected
    /\ connected' = FALSE
    /\ pc' = [s \in Senders |-> IF pc[s] = "puback" THEN "hung" ELSE pc[s]]
    /\ MayHang \/ \A s \in Senders : pc[s] # "puback"
    /\ cogView' = Offline
    /\ receipts' = receipts \cup {0}
    /\ UNCHANGED <<catalogVars, stateVars, stateLock, timerVars, localVars, told, owed,
                   control, halted>>

CatalogStep == /\ epoch < MaxEpoch
               /\ Change
               /\ told' = IF epoch' = epoch THEN told ELSE {}

SenderStep(s) == \/ lockAndRead(s)
                 \/ \E n \in Names : getBundles(s, n)
                 \/ publishError(s) \/ wake(s)
                 \/ publish(s) \/ publishUnseen(s) \/ sent(s)

LoopStep == recvAnnounce \/ announce \/ arm \/ recvStop \/ stopTimer

\* Everything in announcer.go, and Cog's receipts.
AnnouncerStep == \/ \E s \in Senders : SenderStep(s)
                 \/ LoopStep
                 \/ \E r \in Retriers : fire(r)
                 \/ \E id \in receipts : \/ cogReceipt(id)
                                         \/ cogReceiptIgnored(id)
                                         \/ loseReceipt(id)

EnvStep == \/ /\ CatalogStep
              /\ UNCHANGED <<stateVars, stateLock, timerVars, pc, localVars, receipts,
                             cogView, owed, busVars>>
           \/ /\ SendAnnouncement \/ Halt
              /\ UNCHANGED <<catalogVars, stateVars, stateLock, timerVars, pc, localVars,
                             receipts, cogView, told, connected>>
           \/ Disconnect
           \/ /\ ~connected
              /\ connected' = TRUE
              /\ UNCHANGED <<catalogVars, stateVars, stateLock, timerVars, pc, localVars,
                             cogVars, control, halted>>

Next == ~crashed /\ (AnnouncerStep \/ EnvStep)

Spec == Init /\ [][Next]_vars

\* Goroutines run and timers fire.  Whoever waits for the mutex gets it in
\* the end: Go's mutexes hand over to a goroutine that has starved; this goes
\* for a receipt, too.  A publish on a connection that lasts is acknowledged:
\* the bus client is not in the standstill of Dispatch (StallCause).
Fairness == /\ WF_vars(~crashed /\ LoopStep)
            /\ SF_vars(~crashed /\ announce)
            /\ \A s \in Senders : /\ WF_vars(~crashed /\ SenderStep(s))
                                  /\ SF_vars(~crashed /\ (lockAndRead(s) \/ wake(s)))
            /\ \A r \in Retriers : WF_vars(~crashed /\ fire(r))
            /\ SF_vars(~crashed /\ \E id \in receipts : cogReceipt(id))

FairSpec == Spec /\ Fairness

(***************************************************************************)
(* Properties.                                                             *)
(***************************************************************************)
\* While the announcer waits for a receipt a retry is on its way: a timer is
\* armed, or a retrier is at work, or the loop is about to arm the timer
\* (until Halt, which stops the timer without looking at retriers).  A
\* retrier whose publish hangs counts as at work, though it comes no further:
\* that is the standstill Promise calls stuck.
RetryArmed == state = "ReceiptWaiting" /\ ~halted =>
                 \/ announceTimer = "armed"
                 \/ stale > 0
                 \/ pc[Loop] = "arm"
                 \/ \E r \in Retriers : pc[r] # "done"

\* The announcer keeps its promise.
Promise == INSTANCE Announcing WITH
              online <- cogView # Offline,
              stuck <- \E s \in Senders : pc[s] = "hung"

ImplementsPromise == Promise!PromiseSpec

Quiet == /\ state = "Waiting"
         /\ control = <<>> /\ pc[Loop] = "recv"
         /\ announceTimer # "armed" /\ stale = 0
         /\ \A r \in Retriers : pc[r] = "done"

\* What Cog believes is what was acknowledged: once the announcer is at rest
\* and the catalog counts as announced, no late retry has put an older
\* announcement in its place, if Cog did not miss the last one.
SettledView == /\ Quiet /\ lastAcked = epoch /\ epoch > 0
               /\ cogView \notin {Offline, Missed}
               => cogView = epoch

\* No call of SendAnnouncement is lost: Cog comes to process an announcement
\* of the epoch of the call, or of a later one.  Excused are the loss of the
\* connection (Relay asks again when it is back), a publish that hangs for
\* it, Halt, and a panic.
Excused == ~connected \/ halted \/ crashed \/ \E s \in Senders : pc[s] = "hung"

NotLost == owed # None ~> owed = None \/ Excused

\* An announcement that Cog has processed is acknowledged, or another one
\* takes its place.
Acked == \A e \in 0 .. MaxEpoch :
            cogView = e ~> lastAcked = e \/ cogView # e \/ Excused

\* "processing directly [...] any incoming messages" (relay.go): handling a
\* receipt never brings the process down.
ReceiptNeverPanics == [][(\E id \in receipts : cogReceipt(id)) => ~crashed']_vars
=============================================================================
