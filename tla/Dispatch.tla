------------------------------ MODULE Dispatch ------------------------------
(***************************************************************************)
(* How commands get from the bus to the workers and the answers back       *)
(* (relay/relay.go: handleCommand; relay/worker/execution.go;              *)
(* relay/bus/mqtt.go and backoff.go), and what the loss of the connection  *)
(* does to them.                                                           *)
(*                                                                         *)
(* The bus client has one goroutine, alllogic, for all that comes in.  It  *)
(* hands each message over to the router goroutine of its connection,      *)
(* which runs the handler before it takes the next one, and it also        *)
(* completes the publishes for which the broker's acknowledgement has      *)
(* come.  All these channels are unbuffered: while a handler blocks,       *)
(* alllogic can block on the next message, and then no publish of the      *)
(* process returns.  handleCommand blocks while the queue is full,         *)
(* cogReceipt while the announcer has stateLock, which it keeps until its  *)
(* publish returns, and updateCatalog, which calls SendAnnouncement, while *)
(* the announcer's control channel is full.                                *)
(*                                                                         *)
(* The connection is lost when alllogic is told of it, which it is when it *)
(* waits for a packet.  A publish that waits for the broker then never     *)
(* returns; the router of the lost connection finishes its handler.        *)
(***************************************************************************)
EXTENDS Integers, Sequences, FiniteSets

CONSTANTS Workers,        \* MaxConcurrent of them
          MaxCommands,    \* Cog sends the commands 1 .. MaxCommands, in order
          Malformed,      \* those that are not JSON
          Announcer,      \* the announcer, as a publisher
          MaxPublishes,   \* bound on the announcements
          MaxDirectives,  \* bound on the lists that change the catalog
          MaxLosses,      \* bound on the losses of the connection
          MaxWire,        \* bound on the packets that are under way
          Intervals,      \* the last index of intervalTable
          Nothing         \* no message, no command

VARIABLES sent,       \* the number of commands Cog has sent
          wire,       \* what the broker has sent and alllogic not taken
          logic,      \* the message alllogic is handing over
          router,     \* the message whose handler a connection's router is running
          queue,      \* cogRelay.queue, a channel of capacity MaxConcurrent
          job,        \* the command a worker is executing
          waiting,    \* the publishers that wait in token.Wait
          acks,       \* those whose message the broker has not acknowledged yet
          hung,       \* those whose token was dropped with a connection
          decoderErr, \* the workers whose decoder has met a syntax error
          control,    \* number of commands in the announcer's control channel
          taken,      \* the announcer's loop has taken a command
          published,  \* number of announcements published
          receipts,   \* number of receipts Cog has not sent yet
          directives, \* number of directives Cog has sent
          link,       \* the number of the present, or of the last, connection
          connected,
          subscribed, \* the handler of the connected event has subscribed
          interval,   \* Backoff.interval
          answered,   \* commands whose response was published
          unanswered, \* commands whose response could not be published
          ignored,    \* commands that were dropped as malformed
          lost        \* commands that were lost with a connection

cogVars == <<sent, receipts, directives>>
clientVars == <<wire, logic, router>>
workVars == <<queue, job, decoderErr>>
publishVars == <<waiting, acks, hung>>
announcerVars == <<control, taken, published>>
linkVars == <<link, connected, subscribed, interval>>
fateVars == <<answered, unanswered, ignored, lost>>
vars == <<cogVars, clientVars, workVars, publishVars, announcerVars, linkVars, fateVars>>

Commands == 1 .. MaxCommands
Links == 0 .. MaxLosses
MaxConcurrent == Cardinality(Workers)
ControlCap == 2
Publishers == Workers \cup {Announcer}

Command(c) == [kind |-> "command", of |-> c]
Message == [kind : {"command"}, of : Commands] \cup [kind : {"receipt", "directive"}, of : {0}]
Packet == Message \cup [kind : {"puback"}, of : Publishers]

ASSUME DispatchAssumption == /\ IsFiniteSet(Workers) /\ Workers # {}
                             /\ Announcer \notin Workers
                             /\ Malformed \subseteq Commands
                             /\ Nothing \notin Message \cup Commands
                             /\ {MaxCommands, MaxPublishes, MaxDirectives, MaxLosses,
                                 MaxWire, Intervals} \subseteq Nat

TypeOK == /\ sent \in 0 .. MaxCommands
          /\ wire \in Seq(Packet) /\ Len(wire) <= MaxWire
          /\ logic \in Message \cup {Nothing}
          /\ router \in [Links -> Message \cup {Nothing}]
          /\ queue \in Seq(Commands) /\ Len(queue) <= MaxConcurrent
          /\ job \in [Workers -> Commands \cup {Nothing}]
          /\ waiting \subseteq Publishers /\ acks \subseteq waiting
          /\ hung \subseteq Publishers \ waiting
          /\ decoderErr \subseteq Workers
          /\ control \in 0 .. ControlCap
          /\ taken \in BOOLEAN
          /\ published \in 0 .. MaxPublishes
          /\ receipts \in 0 .. MaxPublishes
          /\ directives \in 0 .. MaxDirectives
          /\ link \in Links
          /\ connected \in BOOLEAN /\ subscribed \in BOOLEAN
          /\ interval \in 0 .. Intervals
          /\ answered \subseteq Commands /\ unanswered \subseteq Commands
          /\ ignored \subseteq Commands /\ lost \subseteq Commands

\* The first connection is up and its handler has announced and subscribed.
Init == /\ sent = 0 /\ receipts = 0 /\ directives = 0
        /\ wire = <<>> /\ logic = Nothing /\ router = [l \in Links |-> Nothing]
        /\ queue = <<>> /\ job = [w \in Workers |-> Nothing] /\ decoderErr = {}
        /\ waiting = {} /\ acks = {} /\ hung = {}
        /\ control = 1 /\ taken = FALSE /\ published = 0
        /\ link = 0 /\ connected = TRUE /\ subscribed = TRUE /\ interval = 0
        /\ answered = {} /\ unanswered = {} /\ ignored = {} /\ lost = {}

(***************************************************************************)
(* Cog and the broker.                                                     *)
(***************************************************************************)
\* The broker sends what there is a subscription for.
deliver(kind, of) == /\ Len(wire) < MaxWire
                     /\ wire' = IF subscribed THEN Append(wire, [kind |-> kind, of |-> of])
                                ELSE wire

sendCommand == /\ sent < MaxCommands
               /\ sent' = sent + 1
               /\ deliver("command", sent')
               /\ lost' = IF subscribed THEN lost ELSE lost \cup {sent'}
               /\ UNCHANGED <<receipts, directives, logic, router, workVars, publishVars,
                              announcerVars, linkVars, answered, unanswered, ignored>>

sendReceipt == /\ receipts > 0
               /\ receipts' = receipts - 1
               /\ deliver("receipt", 0)
               /\ UNCHANGED <<sent, directives, logic, router, workVars, publishVars,
                              announcerVars, linkVars, fateVars>>

sendDirective == /\ directives < MaxDirectives
                 /\ directives' = directives + 1
                 /\ deliver("directive", 0)
                 /\ UNCHANGED <<sent, receipts, logic, router, workVars, publishVars,
                                announcerVars, linkVars, fateVars>>

sendPuback(p) == /\ p \in acks
                 /\ Len(wire) < MaxWire
                 /\ acks' = acks \ {p}
                 /\ wire' = Append(wire, [kind |-> "puback", of |-> p])
                 /\ UNCHANGED <<cogVars, logic, router, workVars, waiting, hung,
                                announcerVars, linkVars, fateVars>>

(***************************************************************************)
(* The bus client.                                                         *)
(***************************************************************************)
\* alllogic takes the next packet.  A publisher whose publish returns is done
\* with its command.
alllogic ==
    /\ logic = Nothing
    /\ wire # <<>>
    /\ wire' = Tail(wire)
    /\ LET packet == Head(wire)
       IN  \/ /\ packet.kind = "puback"
              /\ waiting' = waiting \ {packet.of}
              /\ job' = [w \in Workers |-> IF w = packet.of THEN Nothing ELSE job[w]]
              /\ taken' = (taken /\ packet.of # Announcer)
              /\ UNCHANGED logic
           \/ /\ packet.kind # "puback"
              /\ logic' = packet
              /\ UNCHANGED <<waiting, job, taken>>
    /\ UNCHANGED <<cogVars, router, queue, decoderErr, acks, hung, control, published,
                   linkVars, fateVars>>

\* c.incomingPubChan <- pp meets the router.
matchAndDispatch ==
    /\ logic # Nothing
    /\ router[link] = Nothing
    /\ router' = [router EXCEPT ![link] = logic]
    /\ logic' = Nothing
    /\ UNCHANGED <<cogVars, wire, workVars, publishVars, announcerVars, linkVars, fateVars>>

(***************************************************************************)
(* Relay's handlers, in the router of connection l.                        *)
(***************************************************************************)
Handles(l, kind) == router[l] # Nothing /\ router[l].kind = kind
HandlerReturns(l) == router' = [router EXCEPT ![l] = Nothing]

\* Mutant: the queue is made one too small.
QueueHasRoom_small == Len(queue) < MaxConcurrent - 1

\* A send on the queue does not block.
QueueHasRoom == Len(queue) < MaxConcurrent

enqueue(l) == /\ queue' = Append(queue, router[l].of)
              /\ HandlerReturns(l)
              /\ UNCHANGED <<cogVars, wire, logic, job, decoderErr, publishVars,
                             announcerVars, linkVars, fateVars>>

\* Mutant: the queue has no bound.
handleCommand_unbounded(l) == Handles(l, "command") /\ enqueue(l)

\* Mutant: a command that finds the queue full is dropped.
handleCommand_drops(l) ==
    /\ Handles(l, "command")
    /\ queue' = IF QueueHasRoom THEN Append(queue, router[l].of) ELSE queue
    /\ HandlerReturns(l)
    /\ UNCHANGED <<cogVars, wire, logic, job, decoderErr, publishVars, announcerVars,
                   linkVars, fateVars>>

handleCommand(l) == /\ Handles(l, "command")
                    /\ QueueHasRoom
                    /\ enqueue(l)

\* stateLock is free: the announcer is not publishing.
LockFree == Announcer \notin waiting \cup hung

cogReceipt(l) == /\ Handles(l, "receipt")
                 /\ LockFree
                 /\ HandlerReturns(l)
                 /\ UNCHANGED <<cogVars, wire, logic, workVars, publishVars, announcerVars,
                                linkVars, fateVars>>

\* A send on the announcer's control channel does not block.
ControlHasRoom == control < ControlCap

SendAnnouncement == ControlHasRoom /\ control' = control + 1

\* updateCatalog for a list that changes the catalog.
updateCatalog(l) == /\ Handles(l, "directive")
                    /\ SendAnnouncement
                    /\ HandlerReturns(l)
                    /\ UNCHANGED <<cogVars, wire, logic, workVars, publishVars, taken,
                                   published, linkVars, fateVars>>

(***************************************************************************)
(* The workers and the announcer.                                          *)
(***************************************************************************)
\* A worker takes a command and decodes it.  The decoder is the worker's own
\* and keeps its first syntax error: from then on it returns that error.
ExecutionWorker(w) ==
    /\ job[w] = Nothing
    /\ queue # <<>>
    /\ queue' = Tail(queue)
    /\ LET c == Head(queue)
       IN  \/ /\ c \notin Malformed /\ w \notin decoderErr
              /\ job' = [job EXCEPT ![w] = c]
              /\ UNCHANGED <<decoderErr, ignored>>
           \/ /\ c \in Malformed \/ w \in decoderErr
              /\ decoderErr' = decoderErr \cup {w}
              /\ ignored' = ignored \cup {c}
              /\ UNCHANGED job
    /\ UNCHANGED <<cogVars, clientVars, publishVars, announcerVars, linkVars, answered,
                   unanswered, lost>>

\* Publish hands the message to the connection; without one it fails at once.
Publish(p) == waiting' = waiting \cup {p} /\ acks' = acks \cup {p}

\* Mutant: the worker waits for a token that nothing completes.
executeCommand_unacked(w) ==
    /\ job[w] # Nothing /\ w \notin waiting \cup hung
    /\ connected
    /\ waiting' = waiting \cup {w}
    /\ answered' = answered \cup {job[w]}
    /\ UNCHANGED <<cogVars, clientVars, workVars, acks, hung, announcerVars, linkVars,
                   unanswered, ignored, lost>>

\* The command was run, or could not be; the response is published, and the
\* error of Publish, if there is one, is dropped.
executeCommand(w) ==
    /\ job[w] # Nothing /\ w \notin waiting \cup hung
    /\ \/ /\ connected
          /\ Publish(w)
          /\ answered' = answered \cup {job[w]}
          /\ UNCHANGED <<job, unanswered>>
       \/ /\ ~connected
          /\ unanswered' = unanswered \cup {job[w]}
          /\ job' = [job EXCEPT ![w] = Nothing]
          /\ UNCHANGED <<waiting, acks, answered>>
    /\ UNCHANGED <<cogVars, clientVars, queue, decoderErr, hung, announcerVars, linkVars,
                   ignored, lost>>

\* The announcer's loop takes a command,
take == /\ control > 0 /\ ~taken
        /\ control' = control - 1
        /\ taken' = TRUE
        /\ UNCHANGED <<cogVars, clientVars, workVars, publishVars, published, linkVars,
                       fateVars>>

\* and leaves it to the receipt it waits for, if it waits for one,
announcementPending == /\ taken /\ LockFree
                       /\ published > 0
                       /\ taken' = FALSE
                       /\ UNCHANGED <<cogVars, clientVars, workVars, publishVars, control,
                                      published, linkVars, fateVars>>

\* or takes stateLock and publishes (again and again, until it is connected).
sendAnnouncement == /\ taken /\ LockFree
                    /\ connected
                    /\ published < MaxPublishes
                    /\ published' = published + 1
                    /\ receipts' = receipts + 1
                    /\ Publish(Announcer)
                    /\ UNCHANGED <<sent, directives, clientVars, workVars, hung, control,
                                   taken, linkVars, fateVars>>

(***************************************************************************)
(* The loss of the connection.                                             *)
(***************************************************************************)
OnWire == {c \in Commands : \E i \in DOMAIN wire : wire[i] = Command(c)}

loseConnection ==
    /\ link < MaxLosses
    /\ connected /\ logic = Nothing
    /\ connected' = FALSE /\ subscribed' = FALSE
    /\ wire' = <<>>
    /\ lost' = lost \cup OnWire
    /\ waiting' = {} /\ acks' = {} /\ hung' = hung \cup waiting
    /\ UNCHANGED <<cogVars, logic, router, workVars, announcerVars, link, interval,
                   answered, unanswered, ignored>>

\* Backoff.nextInterval.
nextInterval == IF interval < Intervals THEN interval + 1 ELSE interval

connectError == /\ ~connected
                /\ interval' = nextInterval
                /\ UNCHANGED <<cogVars, clientVars, workVars, publishVars, announcerVars,
                               link, connected, subscribed, fateVars>>

\* Mutant: the client gives up at the end of the table.
reconnect_givesUp == /\ ~connected /\ interval < Intervals
                     /\ connected' = TRUE
                     /\ link' = link + 1
                     /\ interval' = 0
                     /\ UNCHANGED <<cogVars, clientVars, workVars, publishVars,
                                    announcerVars, subscribed, fateVars>>

reconnect == /\ ~connected
             /\ connected' = TRUE
             /\ link' = link + 1
             /\ interval' = 0
             /\ UNCHANGED <<cogVars, clientVars, workVars, publishVars, announcerVars,
                            subscribed, fateVars>>

\* The handler of the connected event (its steps are in Relay).
handleBusEvents == /\ connected /\ ~subscribed
                   /\ SendAnnouncement
                   /\ subscribed' = TRUE
                   /\ UNCHANGED <<cogVars, clientVars, workVars, publishVars, taken,
                                  published, link, connected, interval, fateVars>>

HandlerStep(l) == handleCommand(l) \/ cogReceipt(l) \/ updateCatalog(l)
WorkerStep(w) == ExecutionWorker(w) \/ executeCommand(w)
AnnouncerStep == take \/ announcementPending \/ sendAnnouncement

Next == \/ sendCommand \/ sendReceipt \/ sendDirective
        \/ \E p \in Publishers : sendPuback(p)
        \/ alllogic \/ matchAndDispatch
        \/ \E l \in Links : HandlerStep(l)
        \/ \E w \in Workers : WorkerStep(w)
        \/ AnnouncerStep
        \/ loseConnection \/ connectError \/ reconnect \/ handleBusEvents

Spec == Init /\ [][Next]_vars

\* Goroutines run, the broker and Cog answer, and a connection attempt comes
\* to succeed.  A worker that waits for the queue gets its turn: receivers of
\* a Go channel are served in order.
Fairness == /\ WF_vars(sendReceipt)
            /\ \A p \in Publishers : WF_vars(sendPuback(p))
            /\ WF_vars(alllogic) /\ WF_vars(matchAndDispatch)
            /\ \A l \in Links : WF_vars(HandlerStep(l))
            /\ \A w \in Workers : WF_vars(WorkerStep(w))
            /\ WF_vars(AnnouncerStep)
            /\ WF_vars(reconnect) /\ WF_vars(handleBusEvents)

FairSpec == Spec /\ Fairness

(***************************************************************************)
(* Properties.                                                             *)
(***************************************************************************)
\* The commands in each place they can be.
Places ==
    [unsent |-> {c \in Commands : c > sent},
     wire |-> OnWire,
     logic |-> {c \in Commands : logic = Command(c)},
     router |-> {c \in Commands : \E l \in Links : router[l] = Command(c)},
     queue |-> {c \in Commands : \E i \in DOMAIN queue : queue[i] = c},
     worker |-> {c \in Commands : \E w \in Workers : job[w] = c /\ w \notin waiting \cup hung},
     answered |-> answered, unanswered |-> unanswered, ignored |-> ignored, lost |-> lost]

\* Every command is in one place, and in one only: none is lost but with a
\* connection, and none is executed twice, between the bus and the response.
OnePlace == LET places == Places
            IN  \A c \in Commands : \E p \in DOMAIN places :
                   \A q \in DOMAIN places : c \in places[q] <=> q = p

Finished == answered \cup unanswered \cup ignored \cup lost

\* The commands Relay has been sent and has not finished.
Outstanding == {c \in Commands : /\ c <= sent
                                 /\ c \in Finished => \E w \in Workers : job[w] = c}

\* Which goroutine can go on: the handler in the router of connection l, worker
\* w, the announcer's loop (whatever the bound on its publishes).
HandlerReady(l) == \/ Handles(l, "command") /\ QueueHasRoom
                   \/ Handles(l, "receipt") /\ LockFree
                   \/ Handles(l, "directive") /\ ControlHasRoom
WorkerReady(w) == IF job[w] = Nothing THEN queue # <<>> ELSE w \notin waiting \cup hung
AnnouncerReady == \/ control > 0 /\ ~taken
                  \/ taken /\ LockFree /\ (published > 0 \/ connected)

\* alllogic waits for the router, whose handler waits, and so do all others.
Stalled == /\ logic # Nothing /\ router[link] # Nothing
           /\ \A l \in Links : ~HandlerReady(l)
           /\ \A w \in Workers : ~WorkerReady(w)
           /\ ~AnnouncerReady

\* Commands stall Relay only if they fill the workers, the queue, the router
\* and (if it has no command) alllogic; otherwise the announcer is in the
\* cycle: its publish has the lock that cogReceipt waits for, or that its
\* loop waits for while the commands of updateCatalog fill its channel.
StallCause == Stalled =>
    \/ Cardinality(Outstanding) >= 2 * MaxConcurrent
                                     + (IF logic.kind = "command" THEN 2 ELSE 1)
    \/ /\ Announcer \in waiting \cup hung
       /\ \/ router[link].kind = "receipt"
          \/ router[link].kind = "directive" /\ control = ControlCap

\* Every worker waits for a response of a connection that is gone.
Exhausted == Workers \subseteq hung

\* Every command that Cog has sent is answered, or dropped by a worker, or
\* lost with a connection, unless everything has come to a standstill, or
\* lost connections have cost Relay all of its workers.
Served == []<>((\A c \in Commands : c <= sent => c \in Finished) \/ Stalled \/ Exhausted)

\* After a loss of the connection Relay comes to listen again, unless the
\* announcer hangs and its channel is full.
ListensAgain == []<>(subscribed \/ (Announcer \in hung /\ control = ControlCap))

\* "processing directly or dispatching to a worker pool any incoming messages"
\* (relay.go): every command that Cog has sent is answered or dropped.
Answered == \A c \in Commands : c <= sent ~> c \in answered \cup ignored
=============================================================================
