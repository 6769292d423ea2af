---------------------------- MODULE DispatchProofs ----------------------------
(***************************************************************************)
(* No command is lost, but with a connection, and none is executed twice:  *)
(* for any number of workers, commands, announcements and connections.     *)
(***************************************************************************)
EXTENDS Dispatch, FiniteSetTheorems, TLAPS

(***************************************************************************)
(* Channels.                                                               *)
(***************************************************************************)
LEMMA TailFacts ==
    ASSUME NEW S, NEW s \in Seq(S), s # <<>>
    PROVE  /\ 1 \in DOMAIN s /\ Head(s) = s[1] /\ Head(s) \in S
           /\ Tail(s) \in Seq(S) /\ Len(Tail(s)) = Len(s) - 1 /\ Len(s) \in Nat
           /\ \A i \in DOMAIN Tail(s) : i + 1 \in DOMAIN s /\ i + 1 # 1 /\ Tail(s)[i] = s[i + 1]
           /\ \A i \in DOMAIN s \ {1} : i - 1 \in DOMAIN Tail(s) /\ Tail(s)[i - 1] = s[i]
OBVIOUS

LEMMA AppendFacts ==
    ASSUME NEW S, NEW s \in Seq(S), NEW e \in S
    PROVE  /\ Append(s, e) \in Seq(S) /\ Len(Append(s, e)) = Len(s) + 1 /\ Len(s) \in Nat
           /\ DOMAIN Append(s, e) = DOMAIN s \cup {Len(s) + 1} /\ Len(s) + 1 \notin DOMAIN s
           /\ Append(s, e)[Len(s) + 1] = e
           /\ \A i \in DOMAIN s : Append(s, e)[i] = s[i]
OBVIOUS

\* No two places of a channel hold the same x.
Once(s, x) == \A i, j \in DOMAIN s : s[i] = x /\ s[j] = x => i = j
Holds(s, x) == \E i \in DOMAIN s : s[i] = x

LEMMA OnceTail ==
    ASSUME NEW S, NEW s \in Seq(S), s # <<>>, NEW x, Once(s, x)
    PROVE  /\ Once(Tail(s), x)
           /\ Holds(Tail(s), x) <=> Holds(s, x) /\ x # Head(s)
<1>1. ASSUME NEW i \in DOMAIN Tail(s), NEW j \in DOMAIN Tail(s), Tail(s)[i] = x, Tail(s)[j] = x
      PROVE  i = j
  <2>1. i + 1 = j + 1
    BY <1>1, TailFacts DEF Once
  <2>2. i \in Nat /\ j \in Nat
    BY TailFacts
  <2> QED BY <2>1, <2>2
<1>2. ASSUME NEW i \in DOMAIN Tail(s), Tail(s)[i] = x
      PROVE  Holds(s, x) /\ x # Head(s)
  BY <1>2, TailFacts DEF Once, Holds
<1>3. ASSUME NEW i \in DOMAIN s, s[i] = x, x # Head(s)
      PROVE  Holds(Tail(s), x)
  BY <1>3, TailFacts, ZenonT(60) DEF Holds
<1> QED BY <1>1, <1>2, <1>3 DEF Once, Holds

LEMMA OnceAppend ==
    ASSUME NEW S, NEW s \in Seq(S), NEW e \in S, NEW x, Once(s, x), e = x => ~Holds(s, x)
    PROVE  /\ Once(Append(s, e), x)
           /\ Holds(Append(s, e), x) <=> Holds(s, x) \/ x = e
<1>1. Once(Append(s, e), x)
  BY AppendFacts DEF Once, Holds
<1>2. Holds(s, x) => Holds(Append(s, e), x)
  BY AppendFacts DEF Holds
<1>3. x = e => Holds(Append(s, e), x)
  BY AppendFacts DEF Holds
<1>4. Holds(Append(s, e), x) => Holds(s, x) \/ x = e
  BY AppendFacts DEF Holds
<1> QED BY <1>1, <1>2, <1>3, <1>4

(***************************************************************************)
(* Types.                                                                  *)
(***************************************************************************)
Puback(p) == [kind |-> "puback", of |-> p]

\* An acknowledgement that is under way is the only one for its publisher,
\* who waits for it.
PubackInv == \A p \in Publishers : /\ Once(wire, Puback(p))
                                   /\ Holds(wire, Puback(p)) => p \in waiting \ acks

TypeInv == /\ TypeOK
           /\ PubackInv
           /\ receipts <= published
           /\ ~connected => link < MaxLosses

LEMMA Constants == /\ MaxConcurrent \in Nat
                   /\ {MaxCommands, MaxPublishes, MaxDirectives, MaxLosses, MaxWire, Intervals}
                         \subseteq Nat
                   /\ 0 \in Links
BY DispatchAssumption, FS_CardinalityType DEF MaxConcurrent, Links

LEMMA CommandsAreNumbers == Commands \subseteq Nat
BY DEF Commands

LEMMA Counters ==
    ASSUME TypeInv
    PROVE  /\ sent \in 0 .. MaxCommands /\ directives \in 0 .. MaxDirectives
           /\ published \in 0 .. MaxPublishes /\ receipts \in 0 .. MaxPublishes
           /\ receipts <= published
           /\ control \in 0 .. ControlCap /\ interval \in 0 .. Intervals
BY Zenon DEF TypeInv, TypeOK

LEMMA TypeInvInit == Init => TypeInv
<1> SUFFICES ASSUME Init PROVE TypeInv
  OBVIOUS
<1>1. TypeOK
  <2>1. /\ sent \in 0 .. MaxCommands /\ published \in 0 .. MaxPublishes
        /\ receipts \in 0 .. MaxPublishes /\ directives \in 0 .. MaxDirectives
        /\ interval \in 0 .. Intervals /\ control \in 0 .. ControlCap
    <3>1. sent = 0 /\ published = 0 /\ receipts = 0 /\ directives = 0 /\ interval = 0
          /\ control = 1
      BY Zenon DEF Init
    <3> QED BY <3>1, Constants DEF ControlCap
  <2>2. /\ wire \in Seq(Packet) /\ Len(wire) <= MaxWire
        /\ queue \in Seq(Commands) /\ Len(queue) <= MaxConcurrent
    <3>1. wire = <<>> /\ queue = <<>>
      BY Zenon DEF Init
    <3> QED BY <3>1, Constants
  <2>3. /\ logic \in Message \cup {Nothing} /\ router \in [Links -> Message \cup {Nothing}]
        /\ job \in [Workers -> Commands \cup {Nothing}]
    BY Zenon DEF Init
  <2>4. /\ waiting \subseteq Publishers /\ acks \subseteq waiting
        /\ hung \subseteq Publishers \ waiting /\ decoderErr \subseteq Workers
        /\ answered \subseteq Commands /\ unanswered \subseteq Commands
        /\ ignored \subseteq Commands /\ lost \subseteq Commands
    BY Zenon DEF Init
  <2>5. /\ link \in Links /\ connected \in BOOLEAN /\ subscribed \in BOOLEAN
        /\ taken \in BOOLEAN
    BY Constants, Zenon DEF Init
  <2> QED BY <2>1, <2>2, <2>3, <2>4, <2>5, Zenon DEF TypeOK
<1>2. PubackInv
  BY DEF Init, PubackInv, Once, Holds
<1> QED BY <1>1, <1>2 DEF Init, TypeInv

\* A message that is not an acknowledgement joins the others.
LEMMA DeliverTypes ==
    ASSUME TypeInv, NEW kind, NEW of, [kind |-> kind, of |-> of] \in Message, deliver(kind, of),
           UNCHANGED <<waiting, acks>>
    PROVE  wire' \in Seq(Packet) /\ Len(wire') <= MaxWire /\ PubackInv'
<1> DEFINE e == [kind |-> kind, of |-> of]
<1>1. e \in Packet /\ \A p \in Publishers : e # Puback(p)
  BY DEF Message, Packet, Puback
<1>2. wire \in Seq(Packet) /\ Len(wire) <= MaxWire /\ PubackInv /\ MaxWire \in Nat
  BY Constants DEF TypeInv, TypeOK
<1>3. CASE wire' = wire
  BY <1>2, <1>3 DEF PubackInv
<1>4. CASE Len(wire) < MaxWire /\ wire' = Append(wire, e)
  <2> HIDE DEF e
  <2>1. wire' \in Seq(Packet) /\ Len(wire') <= MaxWire
    BY <1>1, <1>2, <1>4, AppendFacts
  <2>2. ASSUME NEW p \in Publishers
        PROVE  /\ Once(wire', Puback(p))
               /\ Holds(wire', Puback(p)) => p \in waiting \ acks
    BY <1>1, <1>2, <1>4, OnceAppend DEF PubackInv
  <2> QED BY <2>1, <2>2 DEF PubackInv
<1> QED BY <1>3, <1>4 DEF deliver

LEMMA CogTypes ==
    ASSUME TypeInv, sendCommand \/ sendReceipt \/ sendDirective
    PROVE  TypeInv'
<1> USE Constants
<1>1. CASE sendCommand
  <2>1. sent' \in Commands /\ sent' \in 0 .. MaxCommands
    <3>1. sent < MaxCommands /\ sent' = sent + 1
      BY <1>1, Zenon DEF sendCommand
    <3> QED BY <3>1, Counters DEF Commands
  <2>2. [kind |-> "command", of |-> sent'] \in Message
    BY <2>1 DEF Message
  <2>3. wire' \in Seq(Packet) /\ Len(wire') <= MaxWire /\ PubackInv'
    BY <1>1, <2>2, DeliverTypes DEF sendCommand, publishVars
  <2>4. lost' \subseteq Commands
    BY <1>1, <2>1, Zenon DEF sendCommand, TypeInv, TypeOK
  <2> QED BY <1>1, <2>1, <2>3, <2>4, ZenonT(60)
          DEF sendCommand, TypeInv, TypeOK, workVars, publishVars, announcerVars, linkVars
<1>2. CASE sendReceipt
  <2>1. wire' \in Seq(Packet) /\ Len(wire') <= MaxWire /\ PubackInv'
    BY <1>2, DeliverTypes DEF sendReceipt, publishVars, Message
  <2>2. receipts' \in 0 .. MaxPublishes /\ receipts' <= published
    <3>1. receipts > 0 /\ receipts' = receipts - 1
      BY <1>2, Zenon DEF sendReceipt
    <3> QED BY <3>1, Counters
  <2> QED BY <1>2, <2>1, <2>2, ZenonT(60)
          DEF sendReceipt, TypeInv, TypeOK, workVars, publishVars, announcerVars, linkVars,
              fateVars
<1>3. CASE sendDirective
  <2>1. wire' \in Seq(Packet) /\ Len(wire') <= MaxWire /\ PubackInv'
    BY <1>3, DeliverTypes DEF sendDirective, publishVars, Message
  <2>2. directives' \in 0 .. MaxDirectives
    <3>1. directives < MaxDirectives /\ directives' = directives + 1
      BY <1>3, Zenon DEF sendDirective
    <3> QED BY <3>1, Counters
  <2> QED BY <1>3, <2>1, <2>2, ZenonT(60)
          DEF sendDirective, TypeInv, TypeOK, workVars, publishVars, announcerVars, linkVars,
              fateVars
<1> QED BY <1>1, <1>2, <1>3, Zenon

LEMMA PubackTypes ==
    ASSUME TypeInv, NEW p \in Publishers, sendPuback(p)
    PROVE  TypeInv'
<1>1. /\ p \in acks /\ acks' = acks \ {p} /\ waiting' = waiting
      /\ Len(wire) < MaxWire /\ wire' = Append(wire, Puback(p))
  BY DEF sendPuback, Puback
<1>2. wire \in Seq(Packet) /\ PubackInv /\ Puback(p) \in Packet /\ MaxWire \in Nat
  BY Constants DEF TypeInv, TypeOK, Packet, Puback
<1>3. wire' \in Seq(Packet) /\ Len(wire') <= MaxWire
  BY <1>1, <1>2, AppendFacts
<1>4. PubackInv'
  <2>1. ASSUME NEW q \in Publishers
        PROVE  /\ Once(wire', Puback(q))
               /\ Holds(wire', Puback(q)) => q \in waiting \ acks'
    <3>1. CASE q = p
      <4>1. ~Holds(wire, Puback(p))
        BY <1>1, <1>2 DEF PubackInv
      <4> QED BY <1>1, <1>2, <3>1, <4>1, OnceAppend DEF PubackInv, TypeInv, TypeOK
    <3>2. CASE q # p
      <4>1. Puback(q) # Puback(p)
        BY <3>2 DEF Puback
      <4> QED BY <1>1, <1>2, <3>2, <4>1, OnceAppend DEF PubackInv
    <3> QED BY <3>1, <3>2, Zenon
  <2> QED BY <1>1, <2>1 DEF PubackInv
<1>5. acks' \subseteq waiting'
  BY <1>1 DEF TypeInv, TypeOK
<1> QED BY <1>3, <1>4, <1>5
        DEF sendPuback, TypeInv, TypeOK, cogVars, workVars, announcerVars, linkVars, fateVars

\* alllogic takes a packet.
LEMMA LogicTypes ==
    ASSUME TypeInv, alllogic
    PROVE  TypeInv'
<1> DEFINE packet == Head(wire)
<1>1. wire \in Seq(Packet) /\ wire # <<>> /\ wire' = Tail(wire) /\ PubackInv /\ MaxWire \in Nat
      /\ Len(wire) <= MaxWire /\ acks' = acks
  BY Constants DEF alllogic, TypeInv, TypeOK
<1>2. wire' \in Seq(Packet) /\ Len(wire') <= MaxWire /\ packet \in Packet
  BY <1>1, TailFacts
<1>3. \A q \in Publishers : /\ Once(wire', Puback(q))
                            /\ Holds(wire', Puback(q)) =>
                                  Holds(wire, Puback(q)) /\ Puback(q) # packet
  BY <1>1, OnceTail, Zenon DEF PubackInv
<1>4. CASE packet.kind = "puback"
  <2>1. packet.of \in Publishers /\ packet = Puback(packet.of)
    BY <1>2, <1>4 DEF Packet, Message, Puback
  <2>2. Holds(wire, packet)
    BY <1>1, TailFacts DEF Holds
  <2>3. packet.of \in waiting \ acks
    BY <1>1, <2>1, <2>2 DEF PubackInv
  <2>4. /\ waiting' = waiting \ {packet.of} /\ logic' = logic
        /\ job' = [w \in Workers |-> IF w = packet.of THEN Nothing ELSE job[w]]
    BY <1>4 DEF alllogic
  <2>5. taken' \in BOOLEAN
    BY <1>4, Zenon DEF alllogic
  <2>6. PubackInv'
    BY <1>1, <1>3, <2>1, <2>4 DEF PubackInv
  <2>7. job' \in [Workers -> Commands \cup {Nothing}]
    BY <2>4 DEF TypeInv, TypeOK
  <2>8. waiting' \subseteq Publishers /\ acks' \subseteq waiting' /\ hung \subseteq Publishers \ waiting'
    BY <1>1, <2>3, <2>4, SMTT(60) DEF TypeInv, TypeOK
  <2> QED BY <1>2, <2>4, <2>5, <2>6, <2>7, <2>8, ZenonT(60)
          DEF alllogic, TypeInv, TypeOK, cogVars, linkVars, fateVars
<1>5. CASE packet.kind # "puback"
  <2>1. packet \in Message
    BY <1>2, <1>5 DEF Packet
  <2>2. logic' = packet /\ UNCHANGED <<waiting, job, taken>>
    BY <1>5 DEF alllogic
  <2>3. PubackInv'
    BY <1>1, <1>3, <2>2, Zenon DEF PubackInv
  <2> QED BY <1>2, <2>1, <2>2, <2>3, Zenon
          DEF alllogic, TypeInv, TypeOK, cogVars, linkVars, fateVars
<1> QED BY <1>4, <1>5, Zenon

\* What goes on in the routers, the workers and the announcer puts nothing on
\* the wire, and takes nothing from it.
LEMMA SendTypes ==
    ASSUME TypeInv, SendAnnouncement
    PROVE  control' \in 0 .. ControlCap
BY Counters DEF SendAnnouncement, ControlHasRoom, ControlCap

LEMMA HandlerTypes ==
    ASSUME TypeInv, matchAndDispatch \/ \E l \in Links : HandlerStep(l)
    PROVE  TypeInv'
<1> USE DEF TypeInv, TypeOK, PubackInv, cogVars, workVars, publishVars, announcerVars, linkVars,
            fateVars
<1>1. CASE matchAndDispatch
  BY <1>1 DEF matchAndDispatch
<1>2. ASSUME NEW l \in Links, handleCommand(l) PROVE TypeInv'
  <2>1. router[l] \in Message /\ router[l].kind = "command"
    BY <1>2 DEF handleCommand, Handles
  <2>2. router[l].of \in Commands
    BY <2>1, Zenon DEF Message
  <2>3. queue' \in Seq(Commands) /\ Len(queue') <= MaxConcurrent
    BY <1>2, <2>2, Constants, AppendFacts, SMTT(60) DEF handleCommand, QueueHasRoom, enqueue
  <2> QED BY <1>2, <2>3 DEF handleCommand, QueueHasRoom, enqueue, HandlerReturns
<1>3. ASSUME NEW l \in Links, cogReceipt(l) PROVE TypeInv'
  BY <1>3, Zenon DEF cogReceipt, HandlerReturns
<1>4. ASSUME NEW l \in Links, updateCatalog(l) PROVE TypeInv'
  <2>1. control' \in 0 .. ControlCap
    BY <1>4, SendTypes, Zenon DEF updateCatalog
  <2> QED BY <1>4, <2>1, ZenonT(60) DEF updateCatalog, HandlerReturns
<1> QED BY <1>1, <1>2, <1>3, <1>4, ZenonT(60) DEF HandlerStep

LEMMA PublishTypes ==
    ASSUME TypeInv, NEW p \in Publishers, p \notin waiting \cup hung, Publish(p),
           UNCHANGED <<wire, hung>>
    PROVE  /\ waiting' \subseteq Publishers /\ acks' \subseteq waiting'
           /\ hung' \subseteq Publishers \ waiting'
           /\ PubackInv'
<1>1. waiting' = waiting \cup {p} /\ acks' = acks \cup {p}
  BY DEF Publish
<1>2. ~Holds(wire, Puback(p))
  BY DEF TypeInv, PubackInv
<1>3. PubackInv'
  BY <1>1, <1>2 DEF TypeInv, PubackInv
<1> QED BY <1>1, <1>3 DEF TypeInv, TypeOK

LEMMA WorkerTypes ==
    ASSUME TypeInv, NEW w \in Workers, WorkerStep(w)
    PROVE  TypeInv'
<1> USE DEF cogVars, clientVars, announcerVars, linkVars
<1>1. CASE ExecutionWorker(w)
  <2>1. queue \in Seq(Commands) /\ queue # <<>> /\ queue' = Tail(queue)
        /\ Len(queue) <= MaxConcurrent /\ MaxConcurrent \in Nat
    BY <1>1, Constants DEF ExecutionWorker, TypeInv, TypeOK
  <2>2. queue' \in Seq(Commands) /\ Len(queue') <= MaxConcurrent /\ Head(queue) \in Commands
    BY <2>1, TailFacts
  <2>3. /\ job' \in [Workers -> Commands \cup {Nothing}]
        /\ decoderErr' \subseteq Workers /\ ignored' \subseteq Commands
    BY <1>1, <2>2, ZenonT(60) DEF ExecutionWorker, TypeInv, TypeOK
  <2>4. PubackInv'
    BY <1>1 DEF ExecutionWorker, publishVars, TypeInv, PubackInv
  <2> QED BY <1>1, <2>2, <2>3, <2>4, ZenonT(60) DEF ExecutionWorker, publishVars, TypeInv, TypeOK
<1>2. CASE executeCommand(w)
  <2>1. job[w] \in Commands /\ w \in Publishers /\ w \notin waiting \cup hung
    BY <1>2, Zenon DEF executeCommand, TypeInv, TypeOK, Publishers
  <2>2. CASE connected
    <3>1. Publish(w) /\ answered' = answered \cup {job[w]} /\ UNCHANGED <<job, unanswered>>
      BY <1>2, <2>2, Zenon DEF executeCommand
    <3>2. /\ waiting' \subseteq Publishers /\ acks' \subseteq waiting'
          /\ hung' \subseteq Publishers \ waiting'
          /\ PubackInv'
      BY <1>2, <2>1, <3>1, PublishTypes, Zenon DEF executeCommand
    <3>3. answered' \subseteq Commands
      BY <2>1, <3>1, Zenon DEF TypeInv, TypeOK
    <3> QED BY <1>2, <3>1, <3>2, <3>3, Zenon DEF executeCommand, TypeInv, TypeOK
  <2>3. CASE ~connected
    <3>1. /\ unanswered' = unanswered \cup {job[w]} /\ job' = [job EXCEPT ![w] = Nothing]
          /\ UNCHANGED <<waiting, acks, answered>>
      BY <1>2, <2>3, Zenon DEF executeCommand
    <3>2. PubackInv'
      BY <1>2, <3>1, Zenon DEF executeCommand, TypeInv, PubackInv
    <3>3. unanswered' \subseteq Commands /\ job' \in [Workers -> Commands \cup {Nothing}]
      BY <2>1, <3>1 DEF TypeInv, TypeOK
    <3> QED BY <1>2, <3>1, <3>2, <3>3, Zenon DEF executeCommand, TypeInv, TypeOK
  <2> QED BY <2>2, <2>3
<1> QED BY <1>1, <1>2, Zenon DEF WorkerStep

LEMMA AnnouncerTypes ==
    ASSUME TypeInv, AnnouncerStep
    PROVE  TypeInv'
<1> USE Constants DEF cogVars, clientVars, workVars, linkVars, fateVars
<1>1. CASE take \/ announcementPending
  <2>1. taken' \in BOOLEAN
    BY <1>1, ZenonT(60) DEF take, announcementPending
  <2>2. control' \in 0 .. ControlCap
    <3>1. ASSUME take PROVE control > 0 /\ control' = control - 1
      BY <3>1, Zenon DEF take
    <3>2. ASSUME announcementPending PROVE control' = control
      BY <3>2, Zenon DEF announcementPending
    <3> QED BY <1>1, <3>1, <3>2, Counters DEF ControlCap
  <2>3. UNCHANGED <<wire, waiting, acks, hung, published>>
    BY <1>1, Zenon DEF take, announcementPending, publishVars
  <2> QED BY <1>1, <2>1, <2>2, <2>3, Zenon
             DEF take, announcementPending, TypeInv, TypeOK, PubackInv
<1>2. CASE sendAnnouncement
  <2>1. /\ waiting' \subseteq Publishers /\ acks' \subseteq waiting'
        /\ hung' \subseteq Publishers \ waiting'
        /\ PubackInv'
    <3>1. Announcer \in Publishers
      BY DEF Publishers
    <3>2. /\ Announcer \notin waiting \cup hung /\ Publish(Announcer)
          /\ UNCHANGED <<wire, hung>>
      BY <1>2, Zenon DEF sendAnnouncement, LockFree
    <3> QED BY <3>1, <3>2, PublishTypes, Zenon
  <2>2. published' \in 0 .. MaxPublishes /\ receipts' \in 0 .. MaxPublishes
        /\ receipts' <= published'
    <3>1. published < MaxPublishes /\ published' = published + 1 /\ receipts' = receipts + 1
      BY <1>2, Zenon DEF sendAnnouncement
    <3> QED BY <3>1, Counters
  <2> QED BY <1>2, <2>1, <2>2, Zenon DEF sendAnnouncement, TypeInv, TypeOK
<1> QED BY <1>1, <1>2, Zenon DEF AnnouncerStep

LEMMA LinkTypes ==
    ASSUME TypeInv, loseConnection \/ connectError \/ reconnect \/ handleBusEvents
    PROVE  TypeInv'
<1> USE Constants DEF cogVars, clientVars, workVars, publishVars, announcerVars, fateVars
<1>1. CASE loseConnection
  <2>1. wire' = <<>> /\ waiting' = {} /\ acks' = {} /\ hung' = hung \cup waiting
    BY <1>1, Zenon DEF loseConnection
  <2>2. PubackInv'
    BY <2>1, SMTT(60) DEF PubackInv, Once, Holds
  <2>3. lost' \subseteq Commands
    BY <1>1, Zenon DEF loseConnection, OnWire, TypeInv, TypeOK
  <2>4. hung' \subseteq Publishers \ waiting' /\ wire' \in Seq(Packet) /\ Len(wire') <= MaxWire
    BY <2>1, SMTT(60) DEF TypeInv, TypeOK
  <2> QED BY <1>1, <2>1, <2>2, <2>3, <2>4, Zenon DEF loseConnection, TypeInv, TypeOK
<1>2. CASE connectError
  <2>1. interval' \in 0 .. Intervals
    <3>1. interval' = nextInterval
      BY <1>2, Zenon DEF connectError
    <3> QED BY <3>1, Counters DEF nextInterval
  <2> QED BY <1>2, <2>1, Zenon DEF connectError, TypeInv, TypeOK, PubackInv
<1>3. CASE reconnect
  <2>1. link < MaxLosses /\ link \in 0 .. MaxLosses
    BY <1>3 DEF reconnect, TypeInv, TypeOK, Links
  <2>2. link' = link + 1 /\ interval' = 0
    BY <1>3, Zenon DEF reconnect
  <2>3. link' \in Links /\ interval' \in 0 .. Intervals
    BY <2>1, <2>2, SMTT(60) DEF Links
  <2> QED BY <1>3, <2>3, Zenon DEF reconnect, TypeInv, TypeOK, PubackInv
<1>4. CASE handleBusEvents
  <2>1. control' \in 0 .. ControlCap
    BY <1>4, SendTypes, Zenon DEF handleBusEvents
  <2> QED BY <1>4, <2>1, Zenon DEF handleBusEvents, TypeInv, TypeOK, PubackInv
<1> QED BY <1>1, <1>2, <1>3, <1>4

LEMMA TypeInvNext ==
    ASSUME TypeInv, [Next]_vars
    PROVE  TypeInv'
<1>1. CASE UNCHANGED vars
  BY <1>1, Zenon
     DEF vars, cogVars, clientVars, workVars, publishVars, announcerVars, linkVars, fateVars,
        TypeInv, TypeOK, PubackInv
<1> QED BY <1>1, CogTypes, PubackTypes, LogicTypes, HandlerTypes, WorkerTypes, AnnouncerTypes,
           LinkTypes, Zenon DEF Next

\* The queue and the announcer's channel keep to their capacity, the index of
\* nextInterval stays in its table, and an acknowledgement finds its publisher
\* waiting: every variable keeps its type.
THEOREM Types == Spec => []TypeOK
<1>1. TypeInv => TypeOK
  BY DEF TypeInv
<1> QED BY <1>1, TypeInvInit, TypeInvNext, PTL DEF Spec

(***************************************************************************)
(* Every command is in one place.                                          *)
(***************************************************************************)
\* No command is twice on the wire, in the queue, in routers or with workers
\* that have not answered it; and a worker that waits for its publish still
\* has its command, so that it takes no other.
Distinct == /\ \A c \in Commands : Once(wire, Command(c)) /\ Once(queue, c)
            /\ \A l, m \in Links, c \in Commands :
                  router[l] = Command(c) /\ router[m] = Command(c) => l = m
            /\ \A v, w \in Workers \ (waiting \cup hung) :
                  job[v] # Nothing /\ job[v] = job[w] => v = w
            /\ \A w \in Workers \cap (waiting \cup hung) : job[w] # Nothing

PlaceInv == TypeInv /\ Distinct /\ OnePlace

PlaceNames == {"unsent", "wire", "logic", "router", "queue", "worker", "answered", "unanswered",
               "ignored", "lost"}

\* A step that takes the commands of S from one place to another, or none.
Moves(S, from, to) == /\ from \in PlaceNames /\ to \in PlaceNames /\ from # to
                      /\ S \subseteq Places[from]
                      /\ Places'[from] = Places[from] \ S
                      /\ Places'[to] = Places[to] \cup S
                      /\ \A p \in PlaceNames \ {from, to} : Places'[p] = Places[p]

LEMMA Moved ==
    ASSUME OnePlace, NEW S, NEW from, NEW to, Moves(S, from, to)
    PROVE  OnePlace'
<1>1. DOMAIN Places = PlaceNames /\ DOMAIN Places' = PlaceNames
  BY DEF Places, PlaceNames
<1>2. ASSUME NEW c \in Commands
      PROVE  \E p \in PlaceNames : \A q \in PlaceNames : c \in Places'[q] <=> q = p
  <2>1. PICK p \in PlaceNames : \A q \in PlaceNames : c \in Places[q] <=> q = p
    BY <1>1 DEF OnePlace
  <2>2. CASE c \in S
    BY <2>1, <2>2, ZenonT(60) DEF Moves
  <2>3. CASE c \notin S
    BY <2>1, <2>3 DEF Moves
  <2> QED BY <2>2, <2>3, Zenon
<1>3. Commands' = Commands
  BY Zenon DEF Commands
<1> QED BY <1>1, <1>2, <1>3, ZenonT(60) DEF OnePlace

\* The places are what Places says.
PlaceTable ==
    /\ Places["unsent"] = {c \in Commands : c > sent}
    /\ Places["wire"] = {c \in Commands : Holds(wire, Command(c))}
    /\ Places["logic"] = {c \in Commands : logic = Command(c)}
    /\ Places["router"] = {c \in Commands : \E l \in Links : router[l] = Command(c)}
    /\ Places["queue"] = {c \in Commands : Holds(queue, c)}
    /\ Places["worker"] = {c \in Commands : \E w \in Workers \ (waiting \cup hung) : job[w] = c}
    /\ Places["answered"] = answered /\ Places["unanswered"] = unanswered
    /\ Places["ignored"] = ignored /\ Places["lost"] = lost

LEMMA PlaceValues == PlaceTable
<1>1. /\ Places["unsent"] = {c \in Commands : c > sent}
      /\ Places["wire"] = OnWire
      /\ Places["logic"] = {c \in Commands : logic = Command(c)}
      /\ Places["router"] = {c \in Commands : \E l \in Links : router[l] = Command(c)}
      /\ Places["queue"] = {c \in Commands : \E i \in DOMAIN queue : queue[i] = c}
      /\ Places["worker"] = {c \in Commands :
                               \E w \in Workers : job[w] = c /\ w \notin waiting \cup hung}
      /\ Places["answered"] = answered /\ Places["unanswered"] = unanswered
      /\ Places["ignored"] = ignored /\ Places["lost"] = lost
  BY DEF Places
<1>2. OnWire = {c \in Commands : Holds(wire, Command(c))}
  BY DEF OnWire, Holds
<1>3. {c \in Commands : \E i \in DOMAIN queue : queue[i] = c} = {c \in Commands : Holds(queue, c)}
  BY DEF Holds
<1>4. {c \in Commands : \E w \in Workers : job[w] = c /\ w \notin waiting \cup hung}
        = {c \in Commands : \E w \in Workers \ (waiting \cup hung) : job[w] = c}
  OBVIOUS
<1> QED BY <1>1, <1>2, <1>3, <1>4, ZenonT(60) DEF PlaceTable

\* The same of the next state.
LEMMA PlaceValuesNext == PlaceTable'
BY PlaceValues, PTL

\* A place changes only with its variables.
LEMMA Kept ==
    /\ sent' = sent => Places'["unsent"] = Places["unsent"]
    /\ (\A c \in Commands : Holds(wire', Command(c)) <=> Holds(wire, Command(c)))
          => Places'["wire"] = Places["wire"]
    /\ wire' = wire => Places'["wire"] = Places["wire"]
    /\ logic' = logic => Places'["logic"] = Places["logic"]
    /\ router' = router => Places'["router"] = Places["router"]
    /\ queue' = queue => Places'["queue"] = Places["queue"]
    /\ job' = job /\ Workers \cap (waiting' \cup hung') = Workers \cap (waiting \cup hung)
          => Places'["worker"] = Places["worker"]
    /\ answered' = answered => Places'["answered"] = Places["answered"]
    /\ unanswered' = unanswered => Places'["unanswered"] = Places["unanswered"]
    /\ ignored' = ignored => Places'["ignored"] = Places["ignored"]
    /\ lost' = lost => Places'["lost"] = Places["lost"]
<1> USE PlaceValues, PlaceValuesNext DEF PlaceTable
<1>1. sent' = sent => Places'["unsent"] = Places["unsent"]
  BY SMTT(60)
<1>2. (\A c \in Commands : Holds(wire', Command(c)) <=> Holds(wire, Command(c)))
          => Places'["wire"] = Places["wire"]
  BY Zenon
<1>3. logic' = logic => Places'["logic"] = Places["logic"]
  BY SMTT(60)
<1>4. router' = router => Places'["router"] = Places["router"]
  BY SMTT(60)
<1>5. queue' = queue => Places'["queue"] = Places["queue"]
  BY SMTT(60)
<1>6. ASSUME job' = job, Workers \cap (waiting' \cup hung') = Workers \cap (waiting \cup hung)
      PROVE  Places'["worker"] = Places["worker"]
  <2>1. Workers \ (waiting' \cup hung') = Workers \ (waiting \cup hung)
    BY <1>6, Zenon
  <2> QED BY <1>6, <2>1, ZenonT(60)
<1>7. wire' = wire => Places'["wire"] = Places["wire"]
  BY <1>2, Zenon
<1>8. /\ answered' = answered => Places'["answered"] = Places["answered"]
      /\ unanswered' = unanswered => Places'["unanswered"] = Places["unanswered"]
      /\ ignored' = ignored => Places'["ignored"] = Places["ignored"]
      /\ lost' = lost => Places'["lost"] = Places["lost"]
  OBVIOUS
<1> QED BY <1>1, <1>2, <1>3, <1>4, <1>5, <1>6, <1>7, <1>8, ZenonT(60)

LEMMA PlacesInit == Init => Distinct /\ OnePlace
<1> SUFFICES ASSUME Init PROVE Distinct /\ OnePlace
  BY Zenon
<1>1. Distinct
  <2>1. \A c \in Commands : Once(wire, Command(c)) /\ Once(queue, c)
    BY DEF Init, Once
  <2>2. \A l \in Links, c \in Commands : router[l] # Command(c)
    BY DispatchAssumption DEF Init, Message, Command
  <2> QED BY <2>1, <2>2, ZenonT(60) DEF Init, Distinct
<1>2. ASSUME NEW c \in Commands
      PROVE  /\ c \in Places["unsent"]
             /\ \A q \in PlaceNames \ {"unsent"} : c \notin Places[q]
  <2>1. c > 0 /\ c # Nothing
    BY DispatchAssumption, SMTT(60) DEF Commands
  <2>2. c \in Places["unsent"]
    BY <2>1, PlaceValues, ZenonT(60) DEF PlaceTable, Init
  <2>3. logic # Command(c) /\ \A l \in Links : router[l] # Command(c)
    BY DispatchAssumption DEF Init, Message, Command
  <2>4. ~Holds(wire, Command(c)) /\ ~Holds(queue, c)
    BY SMTT(60) DEF Init, Holds
  <2>5. \A q \in PlaceNames \ {"unsent"} : c \notin Places[q]
    BY <2>1, <2>3, <2>4, PlaceValues, SMTT(60) DEF PlaceTable, PlaceNames, Init
  <2> QED BY <2>2, <2>5, Zenon
<1>3. DOMAIN Places = PlaceNames /\ "unsent" \in PlaceNames
  BY DEF Places, PlaceNames
<1>4. OnePlace
  BY <1>2, <1>3, Zenon DEF OnePlace
<1> QED BY <1>1, <1>4

\* A step that touches no command.
LEMMA NoMove ==
    ASSUME PlaceInv, UNCHANGED <<sent, logic, router, queue, job, answered, unanswered, ignored, lost>>,
           Workers \cap (waiting' \cup hung') = Workers \cap (waiting \cup hung),
           \A c \in Commands : /\ Once(wire', Command(c))
                               /\ Holds(wire', Command(c)) <=> Holds(wire, Command(c))
    PROVE  Distinct' /\ OnePlace'
<1>1. Distinct'
  BY Zenon DEF PlaceInv, Distinct
<1>2. Moves({}, "wire", "logic")
  <2>1. \A p \in PlaceNames : Places'[p] = Places[p]
    BY Kept, Zenon DEF PlaceNames
  <2> QED BY <2>1, Zenon DEF Moves, PlaceNames
<1> QED BY <1>1, <1>2, Moved, Zenon DEF PlaceInv

LEMMA WireSame ==
    ASSUME PlaceInv, wire' = wire
    PROVE  \A c \in Commands : /\ Once(wire', Command(c))
                               /\ Holds(wire', Command(c)) <=> Holds(wire, Command(c))
BY ZenonT(60) DEF PlaceInv, Distinct

\* A packet that is no command joins the wire.
LEMMA WireOther ==
    ASSUME PlaceInv, NEW e \in Packet, e.kind # "command", wire' = Append(wire, e)
    PROVE  \A c \in Commands : /\ Once(wire', Command(c))
                               /\ Holds(wire', Command(c)) <=> Holds(wire, Command(c))
<1>1. ASSUME NEW c \in Commands PROVE Command(c) # e
  BY DEF Command
<1>2. wire \in Seq(Packet)
  BY DEF PlaceInv, TypeInv, TypeOK
<1> QED BY <1>1, <1>2, OnceAppend DEF PlaceInv, Distinct

LEMMA SendPlaces ==
    ASSUME PlaceInv, sendCommand
    PROVE  Distinct' /\ OnePlace'
<1> DEFINE n == sent + 1
<1>1. /\ sent' = n /\ n \in Commands /\ sent \in Nat
      /\ UNCHANGED <<logic, router, queue, job, waiting, hung, answered, unanswered, ignored>>
  <2>1. /\ sent' = n /\ sent < MaxCommands /\ TypeInv
        /\ UNCHANGED <<logic, router, queue, job, waiting, hung, answered, unanswered, ignored>>
    BY Zenon DEF sendCommand, workVars, publishVars, PlaceInv
  <2>2. n \in Commands /\ sent \in Nat
    BY <2>1, Constants, Counters DEF Commands
  <2> QED BY <2>1, <2>2, Zenon
<1>2. {c \in Commands : c > sent'} = {c \in Commands : c > sent} \ {n}
  <2>1. \A c \in Nat : c > n <=> c > sent /\ c # n
    BY <1>1
  <2>2. \A c \in Commands : c > sent' <=> c > sent /\ c # n
    BY <1>1, <2>1, CommandsAreNumbers, Zenon
  <2> QED BY <2>2, Zenon
<1>3. n \in Places["unsent"] /\ n \notin Places["wire"]
  <2>1. n \in Places["unsent"]
    BY <1>1, PlaceValues DEF PlaceTable
  <2> QED BY <1>1, <2>1, ZenonT(60) DEF PlaceInv, OnePlace, Places
<1>4. CASE subscribed
  <2>1. wire' = Append(wire, Command(n)) /\ lost' = lost
    BY <1>1, <1>4, Zenon DEF sendCommand, deliver, Command
  <2>2. wire \in Seq(Packet) /\ Command(n) \in Packet
    BY <1>1, Zenon DEF PlaceInv, TypeInv, TypeOK, Packet, Message, Command
  <2>3. ~Holds(wire, Command(n))
    BY <1>1, <1>3, PlaceValues, Zenon DEF PlaceTable
  <2>4. ASSUME NEW c \in Commands
        PROVE  /\ Once(wire', Command(c))
               /\ Holds(wire', Command(c)) <=> Holds(wire, Command(c)) \/ c = n
    <3>1. Once(wire, Command(c)) /\ (Command(n) = Command(c) <=> c = n)
      BY Zenon DEF PlaceInv, Distinct, Command
    <3> QED BY <2>1, <2>2, <2>3, <3>1, OnceAppend, SMTT(60)
  <2>5. Distinct'
    BY <1>1, <2>4, ZenonT(60) DEF PlaceInv, Distinct
  <2>6. Moves({n}, "unsent", "wire")
    <3>1. Places'["unsent"] = Places["unsent"] \ {n}
      BY <1>2, PlaceValues, PlaceValuesNext, Zenon DEF PlaceTable
    <3>2. Places'["wire"] = Places["wire"] \cup {n}
      BY <1>1, <2>4, PlaceValues, PlaceValuesNext, Zenon DEF PlaceTable
    <3>3. \A p \in PlaceNames \ {"unsent", "wire"} : Places'[p] = Places[p]
      BY <1>1, <2>1, Kept, Zenon DEF PlaceNames
    <3> QED BY <1>3, <3>1, <3>2, <3>3, Zenon DEF Moves, PlaceNames
  <2> QED BY <2>5, <2>6, Moved, Zenon DEF PlaceInv
<1>5. CASE ~subscribed
  <2>1. wire' = wire /\ lost' = lost \cup {n}
    BY <1>1, <1>5, Zenon DEF sendCommand, deliver
  <2>2. Distinct'
    BY <1>1, <2>1, ZenonT(60) DEF PlaceInv, Distinct
  <2>3. Moves({n}, "unsent", "lost")
    <3>1. Places'["unsent"] = Places["unsent"] \ {n}
      BY <1>2, PlaceValues, PlaceValuesNext DEF PlaceTable
    <3>2. Places'["lost"] = Places["lost"] \cup {n}
      BY <2>1, PlaceValues, PlaceValuesNext, Zenon DEF PlaceTable
    <3>3. \A p \in PlaceNames \ {"unsent", "lost"} : Places'[p] = Places[p]
      BY <1>1, <2>1, Kept, Zenon DEF PlaceNames
    <3> QED BY <1>3, <3>1, <3>2, <3>3, Zenon DEF Moves, PlaceNames
  <2> QED BY <2>2, <2>3, Moved, Zenon DEF PlaceInv
<1> QED BY <1>4, <1>5, ZenonT(60)

\* alllogic takes an acknowledgement, and its publisher is done; or it takes a
\* message, and its command with it if it has one.
LEMMA LogicPlaces ==
    ASSUME PlaceInv, alllogic
    PROVE  Distinct' /\ OnePlace'
<1> DEFINE packet == Head(wire)
           S == {c \in Commands : packet = Command(c)}
<1>1. /\ wire \in Seq(Packet) /\ wire # <<>> /\ wire' = Tail(wire) /\ packet \in Packet
      /\ logic = Nothing
      /\ UNCHANGED <<sent, router, queue, hung, answered, unanswered, ignored, lost>>
  BY TailFacts, Zenon DEF alllogic, PlaceInv, TypeInv, TypeOK, cogVars, fateVars
<1>2. ASSUME NEW c \in Commands
      PROVE  /\ Once(wire', Command(c))
             /\ Holds(wire', Command(c)) <=> Holds(wire, Command(c)) /\ c \notin S
  BY <1>1, OnceTail, ZenonT(60) DEF PlaceInv, Distinct
<1>3. \A c \in Commands : logic # Command(c)
  BY <1>1, DispatchAssumption, SMTT(60) DEF Message, Command
<1>4. S \subseteq Places["wire"] /\ Places'["wire"] = Places["wire"] \ S
  <2>1. Places["wire"] = {c \in Commands : Holds(wire, Command(c))}
    BY PlaceValues, Zenon DEF PlaceTable
  <2>2. Places'["wire"] = {c \in Commands : Holds(wire', Command(c))}
    BY PlaceValuesNext, Zenon DEF PlaceTable
  <2>3. \A c \in S : Holds(wire, Command(c))
    BY <1>1, TailFacts, ZenonT(60) DEF Holds
  <2> QED BY <1>2, <2>1, <2>2, <2>3, Zenon
<1>5. Places["logic"] = {}
  BY <1>3, PlaceValues DEF PlaceTable
<1>6. CASE packet.kind = "puback"
  <2>1. /\ logic' = logic /\ waiting' = waiting \ {packet.of}
        /\ job' = [w \in Workers |-> IF w = packet.of THEN Nothing ELSE job[w]]
    BY <1>6, Zenon DEF alllogic
  <2>2. packet.of \in waiting /\ packet.of \notin hung
    <3>1. packet.of \in Publishers /\ packet = Puback(packet.of)
      BY <1>1, <1>6, Zenon DEF Packet, Message, Puback
    <3>2. Holds(wire, packet)
      BY <1>1, TailFacts, Zenon DEF Holds
    <3>3. packet.of \in waiting
      BY <3>1, <3>2 DEF PlaceInv, TypeInv, PubackInv
    <3> QED BY <3>3, Zenon DEF PlaceInv, TypeInv, TypeOK
  <2>3. S = {}
    BY <1>6, SMTT(60) DEF Command
  <2>4. Distinct'
    BY <1>1, <1>2, <2>1, <2>2, SMTT(60) DEF PlaceInv, Distinct
  <2>5. Places'["worker"] = Places["worker"]
    <3>1. Nothing \notin Commands
      BY DispatchAssumption, Zenon
    <3>2. ASSUME NEW c \in Commands
          PROVE  (\E w \in Workers \ (waiting' \cup hung') : job'[w] = c)
                    <=> (\E w \in Workers \ (waiting \cup hung) : job[w] = c)
      BY <1>1, <2>1, <2>2, <3>1, Zenon
    <3> QED BY <3>2, PlaceValues, PlaceValuesNext DEF PlaceTable
  <2>6. Moves({}, "wire", "logic")
    <3>1. Places'["wire"] = Places["wire"]
      BY <1>4, <2>3, Zenon
    <3>2. \A p \in PlaceNames : Places'[p] = Places[p]
      BY <1>1, <2>1, <2>5, <3>1, Kept, ZenonT(60) DEF PlaceNames
    <3> QED BY <3>2, Zenon DEF Moves, PlaceNames
  <2> QED BY <2>4, <2>6, Moved, Zenon DEF PlaceInv
<1>7. CASE packet.kind # "puback"
  <2>1. logic' = packet /\ UNCHANGED <<waiting, job>>
    BY <1>7, Zenon DEF alllogic
  <2>2. Distinct'
    BY <1>1, <1>2, <2>1, ZenonT(60) DEF PlaceInv, Distinct
  <2>3. Places'["logic"] = S
    BY <2>1, PlaceValuesNext, Zenon DEF PlaceTable
  <2>4. \A p \in PlaceNames \ {"wire", "logic"} : Places'[p] = Places[p]
    BY <1>1, <2>1, Kept, ZenonT(60) DEF PlaceNames
  <2>5. Moves(S, "wire", "logic")
    BY <1>4, <1>5, <2>3, <2>4 DEF Moves, PlaceNames
  <2> QED BY <2>2, <2>5, Moved, Zenon DEF PlaceInv
<1> QED BY <1>6, <1>7, Zenon

LEMMA DispatchPlaces ==
    ASSUME PlaceInv, matchAndDispatch
    PROVE  Distinct' /\ OnePlace'
<1> DEFINE S == Places["logic"]
<1>1. /\ router[link] = Nothing /\ router' = [router EXCEPT ![link] = logic]
      /\ logic' = Nothing /\ link \in Links /\ router \in [Links -> Message \cup {Nothing}]
      /\ UNCHANGED <<sent, wire, queue, job, waiting, hung, answered, unanswered, ignored, lost>>
  BY Zenon
     DEF matchAndDispatch, cogVars, workVars, publishVars, fateVars, PlaceInv, TypeInv, TypeOK
<1>2. \A c \in Commands : Nothing # Command(c)
  BY DispatchAssumption, SMTT(60) DEF Message, Command
<1>3. S = {c \in Commands : logic = Command(c)}
  BY PlaceValues, Zenon DEF PlaceTable
<1>4. ASSUME NEW c \in S, NEW l \in Links PROVE router[l] # Command(c)
  <2>1. c \notin Places["router"] /\ c \in Commands
    BY <1>3, ZenonT(60) DEF PlaceInv, OnePlace, Places
  <2> QED BY <2>1, PlaceValues, Zenon DEF PlaceTable
<1>5. Distinct'
  <2>1. ASSUME NEW l \in Links, NEW m \in Links, NEW c \in Commands,
               router'[l] = Command(c), router'[m] = Command(c)
        PROVE  l = m
    BY <1>1, <1>3, <1>4, <2>1, SMTT(60) DEF PlaceInv, Distinct
  <2> QED BY <1>1, <2>1, SMTT(60) DEF PlaceInv, Distinct
<1>6. Places'["logic"] = {}
  BY <1>1, <1>2, PlaceValuesNext, Zenon DEF PlaceTable
<1>7. Places'["router"] = Places["router"] \cup S
  <2>1. ASSUME NEW c \in Commands
        PROVE  (\E l \in Links : router'[l] = Command(c))
                  <=> (\E l \in Links : router[l] = Command(c)) \/ logic = Command(c)
    BY <1>1, <1>2, Zenon
  <2> QED BY <1>3, <2>1, PlaceValues, PlaceValuesNext, Zenon DEF PlaceTable
<1>8. \A p \in PlaceNames \ {"logic", "router"} : Places'[p] = Places[p]
  BY <1>1, Kept, ZenonT(60) DEF PlaceNames
<1>9. Moves(S, "logic", "router")
  BY <1>6, <1>7, <1>8 DEF Moves, PlaceNames
<1> QED BY <1>5, <1>9, Moved, Zenon DEF PlaceInv

\* The handler of a message that has no command returns.
LEMMA OtherHandlers ==
    ASSUME PlaceInv, NEW l \in Links, cogReceipt(l) \/ updateCatalog(l)
    PROVE  Distinct' /\ OnePlace'
<1>1. /\ router[l] # Nothing /\ router[l].kind # "command"
      /\ router' = [router EXCEPT ![l] = Nothing] /\ router \in [Links -> Message \cup {Nothing}]
      /\ UNCHANGED <<sent, wire, logic, queue, job, waiting, hung, answered, unanswered, ignored,
                     lost>>
  BY Zenon DEF cogReceipt, updateCatalog, Handles, HandlerReturns, cogVars, workVars, publishVars,
         fateVars, PlaceInv, TypeInv, TypeOK
<1>2. ASSUME NEW c \in Commands, NEW m \in Links
      PROVE  router'[m] = Command(c) <=> router[m] = Command(c)
  <2>1. Nothing # Command(c) /\ router[l] # Command(c)
    BY <1>1, DispatchAssumption, SMTT(60) DEF Message, Command
  <2> QED BY <1>1, <2>1, ZenonT(60)
<1>3. Distinct'
  <2>1. \A k, m \in Links, c \in Commands :
           router'[k] = Command(c) /\ router'[m] = Command(c) => k = m
    BY <1>2, Zenon DEF PlaceInv, Distinct
  <2>2. \A c \in Commands : Once(wire', Command(c)) /\ Once(queue', c)
    BY <1>1, Zenon DEF PlaceInv, Distinct
  <2>3. /\ \A v, w \in Workers \ (waiting' \cup hung') :
              job'[v] # Nothing /\ job'[v] = job'[w] => v = w
        /\ \A w \in Workers \cap (waiting' \cup hung') : job'[w] # Nothing
    BY <1>1, ZenonT(30) DEF PlaceInv, Distinct
  <2> QED BY <2>1, <2>2, <2>3 DEF Distinct
<1>4. Places'["router"] = Places["router"]
  <2> DEFINE With(c) == \E m \in Links : router[m] = Command(c)
             WithNext(c) == \E m \in Links : router'[m] = Command(c)
  <2>1. \A c \in Commands : With(c) <=> WithNext(c)
    BY <1>2, Zenon
  <2>2. /\ Places["router"] = {c \in Commands : With(c)}
        /\ Places'["router"] = {c \in Commands : WithNext(c)}
    BY PlaceValues, PlaceValuesNext, Zenon DEF PlaceTable
  <2> HIDE DEF With, WithNext
  <2> QED BY <2>1, <2>2, Zenon
<1>5. Moves({}, "wire", "logic")
  <2>1. \A p \in PlaceNames : Places'[p] = Places[p]
    BY <1>1, <1>4, Kept, Zenon DEF PlaceNames
  <2> QED BY <2>1, Zenon DEF Moves, PlaceNames
<1> QED BY <1>3, <1>5, Moved, Zenon DEF PlaceInv

\* handleCommand puts the command into the queue.
LEMMA QueuePlaces ==
    ASSUME PlaceInv, NEW l \in Links, handleCommand(l)
    PROVE  Distinct' /\ OnePlace'
<1> DEFINE n == router[l].of
<1>1. /\ router \in [Links -> Message \cup {Nothing}] /\ queue \in Seq(Commands)
      /\ router' = [router EXCEPT ![l] = Nothing] /\ queue' = Append(queue, n)
      /\ UNCHANGED <<sent, wire, logic, job, waiting, hung, answered, unanswered, ignored, lost>>
  BY ZenonT(60)
     DEF handleCommand, QueueHasRoom, enqueue, HandlerReturns, cogVars, publishVars, fateVars, PlaceInv,
         TypeInv, TypeOK
<1>2. n \in Commands /\ router[l] = Command(n)
  <2>1. router[l] \in Message /\ router[l].kind = "command"
    BY <1>1, Zenon DEF handleCommand, Handles
  <2> QED BY <2>1 DEF Message, Command
<1>3. n \in Places["router"] /\ n \notin Places["queue"]
  <2>1. n \in Places["router"]
    BY <1>2, PlaceValues, Zenon DEF PlaceTable
  <2> QED BY <1>2, <2>1, Zenon DEF PlaceInv, OnePlace, Places
<1>4. ~Holds(queue, n)
  BY <1>2, <1>3, PlaceValues, Zenon DEF PlaceTable
<1> HIDE DEF n
<1>5. ASSUME NEW c \in Commands
      PROVE  Once(queue', c) /\ (Holds(queue', c) <=> Holds(queue, c) \/ c = n)
  <2>1. Once(queue, c)
    BY DEF PlaceInv, Distinct
  <2> QED BY <1>1, <1>2, <1>4, <2>1, OnceAppend, ZenonT(60)
<1>6. ASSUME NEW c \in Commands, NEW m \in Links
      PROVE  router'[m] = Command(c) <=> router[m] = Command(c) /\ m # l
  <2>1. Nothing # Command(c)
    BY DispatchAssumption, SMTT(60) DEF Message, Command
  <2> QED BY <1>1, <2>1, Zenon
<1>7. Distinct'
  BY <1>1, <1>5, <1>6, SMTT(60) DEF PlaceInv, Distinct
<1>8. Places'["queue"] = Places["queue"] \cup {n}
  BY <1>2, <1>5, PlaceValues, PlaceValuesNext, Zenon DEF PlaceTable
<1>9. Places'["router"] = Places["router"] \ {n}
  <2>1. ASSUME NEW c \in Commands
        PROVE  (\E m \in Links : router'[m] = Command(c))
                  <=> (\E m \in Links : router[m] = Command(c)) /\ c # n
    <3>1. (c = n) <=> (Command(c) = Command(n))
      BY DEF Command
    <3> QED BY <1>2, <1>6, <3>1, ZenonT(60) DEF PlaceInv, Distinct
  <2> QED BY <2>1, PlaceValues, PlaceValuesNext, Zenon DEF PlaceTable
<1>10. \A p \in PlaceNames \ {"router", "queue"} : Places'[p] = Places[p]
  BY <1>1, Kept, Zenon DEF PlaceNames
<1>11. Moves({n}, "router", "queue")
  BY <1>3, <1>8, <1>9, <1>10, Zenon DEF Moves, PlaceNames
<1> QED BY <1>7, <1>11, Moved, Zenon DEF PlaceInv

\* A worker takes a command from the queue, or drops it.
LEMMA TakePlaces ==
    ASSUME PlaceInv, NEW w \in Workers, ExecutionWorker(w)
    PROVE  Distinct' /\ OnePlace'
<1> DEFINE n == Head(queue)
<1>1. /\ queue \in Seq(Commands) /\ queue # <<>> /\ queue' = Tail(queue) /\ n \in Commands
      /\ job[w] = Nothing /\ job \in [Workers -> Commands \cup {Nothing}]
      /\ UNCHANGED <<sent, wire, logic, router, waiting, acks, hung, answered, unanswered, lost>>
  BY TailFacts, Zenon
     DEF ExecutionWorker, cogVars, clientVars, publishVars, PlaceInv, TypeInv, TypeOK
<1>2. w \notin waiting \cup hung
  BY <1>1, Zenon DEF PlaceInv, Distinct
<1>3. ASSUME NEW c \in Commands
      PROVE  Once(queue', c) /\ (Holds(queue', c) <=> Holds(queue, c) /\ c # n)
  BY <1>1, OnceTail, Zenon DEF PlaceInv, Distinct
<1>4. Holds(queue, n)
  BY <1>1, TailFacts, Zenon DEF Holds
<1>5. n \in Places["queue"] /\ n \notin Places["worker"]
  <2>1. n \in Places["queue"]
    BY <1>1, <1>4, PlaceValues, Zenon DEF PlaceTable
  <2> QED BY <1>1, <2>1, ZenonT(60) DEF PlaceInv, OnePlace, Places
<1>6. \A v \in Workers \ (waiting \cup hung) : job[v] # n
  BY <1>1, <1>5, PlaceValues, ZenonT(60) DEF PlaceTable
<1>7. Places'["queue"] = Places["queue"] \ {n}
  BY <1>3, PlaceValues, PlaceValuesNext DEF PlaceTable
<1>8. \/ job' = [job EXCEPT ![w] = n] /\ ignored' = ignored
      \/ job' = job /\ ignored' = ignored \cup {n}
  BY Zenon DEF ExecutionWorker
<1>9. n # Nothing /\ Nothing \notin Commands
  BY <1>1, DispatchAssumption
<1> HIDE DEF n
<1>10. CASE job' = [job EXCEPT ![w] = n] /\ ignored' = ignored
  <2>1. Distinct'
    <3>1. ASSUME NEW u \in Workers \ (waiting \cup hung), NEW v \in Workers \ (waiting \cup hung),
                 job'[u] # Nothing, job'[u] = job'[v]
          PROVE  u = v
      BY <1>1, <1>2, <1>6, <1>10, <3>1, Zenon DEF PlaceInv, Distinct
    <3>2. \A v \in Workers \cap (waiting \cup hung) : job'[v] # Nothing
      BY <1>1, <1>2, <1>10, ZenonT(60) DEF PlaceInv, Distinct
    <3>3. \A c \in Commands : Once(wire', Command(c))
      BY <1>1, Zenon DEF PlaceInv, Distinct
    <3>4. \A l, m \in Links, c \in Commands :
             router'[l] = Command(c) /\ router'[m] = Command(c) => l = m
      BY <1>1, Zenon DEF PlaceInv, Distinct
    <3>5. waiting' \cup hung' = waiting \cup hung
      BY <1>1, Zenon
    <3> QED BY <1>3, <3>1, <3>2, <3>3, <3>4, <3>5, ZenonT(30) DEF Distinct
  <2>2. Places'["worker"] = Places["worker"] \cup {n}
    <3> DEFINE Busy(c) == \E v \in Workers \ (waiting \cup hung) : job[v] = c
               BusyNext(c) == \E v \in Workers \ (waiting' \cup hung') : job'[v] = c
    <3>1. ASSUME NEW c \in Commands
          PROVE  BusyNext(c) <=> Busy(c) \/ c = n
      BY <1>1, <1>2, <1>9, <1>10, Zenon
    <3>2. ASSUME NEW c
          PROVE  c \in Places'["worker"] <=> c \in Commands /\ BusyNext(c)
      BY PlaceValuesNext, Zenon DEF PlaceTable
    <3>3. ASSUME NEW c
          PROVE  c \in Places["worker"] <=> c \in Commands /\ Busy(c)
      BY PlaceValues, Zenon DEF PlaceTable
    <3> HIDE DEF Busy, BusyNext
    <3>4. ASSUME NEW c
          PROVE  c \in Places'["worker"] <=> c \in Places["worker"] \/ c = n
      BY <1>1, <3>1, <3>2, <3>3, Zenon
    <3> QED BY <3>4, Zenon
  <2>3. \A p \in PlaceNames \ {"queue", "worker"} : Places'[p] = Places[p]
    BY <1>1, <1>10, Kept, Zenon DEF PlaceNames
  <2>4. Moves({n}, "queue", "worker")
    BY <1>5, <1>7, <2>2, <2>3, Zenon DEF Moves, PlaceNames
  <2> QED BY <2>1, <2>4, Moved, ZenonT(60) DEF PlaceInv
<1>11. CASE job' = job /\ ignored' = ignored \cup {n}
  <2>1. Distinct'
    BY <1>1, <1>3, <1>11, ZenonT(60) DEF PlaceInv, Distinct
  <2>2. Places'["ignored"] = Places["ignored"] \cup {n}
    BY <1>11, PlaceValues, PlaceValuesNext, Zenon DEF PlaceTable
  <2>3. \A p \in PlaceNames \ {"queue", "ignored"} : Places'[p] = Places[p]
    BY <1>1, <1>11, Kept, Zenon DEF PlaceNames
  <2>4. Moves({n}, "queue", "ignored")
    BY <1>5, <1>7, <2>2, <2>3, ZenonT(60) DEF Moves, PlaceNames
  <2> QED BY <2>1, <2>4, Moved, Zenon DEF PlaceInv
<1> QED BY <1>8, <1>10, <1>11, Zenon

\* A worker publishes its response, or fails to.
LEMMA AnswerPlaces ==
    ASSUME PlaceInv, NEW w \in Workers, executeCommand(w)
    PROVE  Distinct' /\ OnePlace'
<1> DEFINE n == job[w]
<1>1. /\ n \in Commands /\ n # Nothing /\ w \notin waiting \cup hung
      /\ job \in [Workers -> Commands \cup {Nothing}]
      /\ UNCHANGED <<sent, wire, logic, router, queue, hung, ignored, lost>>
  BY Zenon DEF executeCommand, cogVars, clientVars, PlaceInv, TypeInv, TypeOK
<1>2. n \in Places["worker"]
  BY <1>1, PlaceValues, Zenon DEF PlaceTable
<1>3. \A v \in Workers \ (waiting \cup hung) : job[v] = n => v = w
  BY <1>1, Zenon DEF PlaceInv, Distinct
<1>4. Nothing \notin Commands
  BY DispatchAssumption
<1> HIDE DEF n
<1>5. CASE connected
  <2>1. waiting' = waiting \cup {w} /\ answered' = answered \cup {n} /\ UNCHANGED <<job, unanswered>>
    BY <1>5, Zenon DEF executeCommand, Publish, n
  <2>2. Distinct'
    BY <1>1, <2>1, Zenon DEF PlaceInv, Distinct, n
  <2>3. Places'["worker"] = Places["worker"] \ {n}
    <3>1. ASSUME NEW c \in Commands
          PROVE  (\E v \in Workers \ (waiting' \cup hung') : job'[v] = c)
                    <=> (\E v \in Workers \ (waiting \cup hung) : job[v] = c) /\ c # n
      BY <1>1, <1>3, <2>1, Zenon DEF n
    <3> QED BY <3>1, PlaceValues, PlaceValuesNext, ZenonT(60) DEF PlaceTable
  <2>4. Places'["answered"] = Places["answered"] \cup {n}
    BY <2>1, PlaceValues, PlaceValuesNext, Zenon DEF PlaceTable
  <2>5. \A p \in PlaceNames \ {"worker", "answered"} : Places'[p] = Places[p]
    BY <1>1, <2>1, Kept, ZenonT(60) DEF PlaceNames
  <2>6. Moves({n}, "worker", "answered")
    BY <1>2, <2>3, <2>4, <2>5 DEF Moves, PlaceNames
  <2> QED BY <2>2, <2>6, Moved, Zenon DEF PlaceInv
<1>6. CASE ~connected
  <2>1. /\ unanswered' = unanswered \cup {n} /\ job' = [job EXCEPT ![w] = Nothing]
        /\ UNCHANGED <<waiting, answered>>
    BY <1>6, ZenonT(60) DEF executeCommand, n
  <2>2. Distinct'
    BY <1>1, <2>1, SMTT(60) DEF PlaceInv, Distinct
  <2>3. Places'["worker"] = Places["worker"] \ {n}
    <3>1. ASSUME NEW c \in Commands
          PROVE  (\E v \in Workers \ (waiting' \cup hung') : job'[v] = c)
                    <=> (\E v \in Workers \ (waiting \cup hung) : job[v] = c) /\ c # n
      BY <1>1, <1>3, <1>4, <2>1, Zenon DEF n
    <3> QED BY <3>1, PlaceValues, PlaceValuesNext, Zenon DEF PlaceTable
  <2>4. Places'["unanswered"] = Places["unanswered"] \cup {n}
    BY <2>1, PlaceValues, PlaceValuesNext, Zenon DEF PlaceTable
  <2>5. \A p \in PlaceNames \ {"worker", "unanswered"} : Places'[p] = Places[p]
    BY <1>1, <2>1, Kept, Zenon DEF PlaceNames
  <2>6. Moves({n}, "worker", "unanswered")
    BY <1>2, <2>3, <2>4, <2>5, Zenon DEF Moves, PlaceNames
  <2> QED BY <2>2, <2>6, Moved, Zenon DEF PlaceInv
<1> QED BY <1>5, <1>6, Zenon

\* With the connection goes what is on the wire; the workers that wait, wait
\* for ever.
LEMMA LossPlaces ==
    ASSUME PlaceInv, loseConnection
    PROVE  Distinct' /\ OnePlace'
<1>1. /\ wire' = <<>> /\ waiting' = {} /\ hung' = hung \cup waiting /\ lost' = lost \cup OnWire
      /\ UNCHANGED <<sent, logic, router, queue, job, answered, unanswered, ignored>>
  BY Zenon DEF loseConnection, cogVars, workVars
<1>2. waiting' \cup hung' = waiting \cup hung
  BY <1>1, ZenonT(60)
<1>3. \A c \in Commands : Once(wire', Command(c)) /\ ~Holds(wire', Command(c))
  BY <1>1, SMTT(60) DEF Once, Holds
<1>4. Distinct'
  BY <1>1, <1>2, <1>3, ZenonT(60) DEF PlaceInv, Distinct
<1>5. Places["wire"] = OnWire
  BY Zenon DEF Places
<1>6. Places'["wire"] = {} /\ Places'["lost"] = Places["lost"] \cup OnWire
  BY <1>1, <1>3, PlaceValues, PlaceValuesNext, Zenon DEF PlaceTable
<1>7. \A p \in PlaceNames \ {"wire", "lost"} : Places'[p] = Places[p]
  BY <1>1, <1>2, Kept, Zenon DEF PlaceNames
<1>8. Moves(OnWire, "wire", "lost")
  BY <1>5, <1>6, <1>7, Zenon DEF Moves, PlaceNames
<1> QED BY <1>4, <1>8, Moved, Zenon DEF PlaceInv

\* What Cog, the broker, the announcer and the connection do otherwise.
LEMMA OtherPlaces ==
    ASSUME PlaceInv,
           \/ sendReceipt \/ sendDirective \/ (\E p \in Publishers : sendPuback(p))
           \/ AnnouncerStep \/ connectError \/ reconnect \/ handleBusEvents \/ UNCHANGED vars
    PROVE  Distinct' /\ OnePlace'
<1> USE DEF cogVars, clientVars, workVars, publishVars, fateVars
<1>1. UNCHANGED <<sent, logic, router, queue, job, hung, answered, unanswered, ignored, lost>>
  <2>1. CASE sendReceipt \/ sendDirective \/ \E p \in Publishers : sendPuback(p)
    BY <2>1, ZenonT(60) DEF sendReceipt, sendDirective, sendPuback
  <2>2. CASE AnnouncerStep
    BY <2>2 DEF AnnouncerStep, take, announcementPending, sendAnnouncement
  <2>3. CASE connectError \/ reconnect \/ handleBusEvents \/ UNCHANGED vars
    BY <2>3, Zenon DEF connectError, reconnect, handleBusEvents, vars
  <2> QED BY <2>1, <2>2, <2>3, Zenon
<1>2. Workers \cap (waiting' \cup hung') = Workers \cap (waiting \cup hung)
  <2>1. CASE sendAnnouncement
    BY <1>1, <2>1, DispatchAssumption, Zenon DEF sendAnnouncement, Publish
  <2>2. CASE ~sendAnnouncement
    <3>1. waiting' = waiting
      BY <2>2, Zenon DEF sendReceipt, sendDirective, sendPuback, AnnouncerStep, take,
            announcementPending, connectError, reconnect, handleBusEvents, vars
    <3> QED BY <1>1, <3>1, Zenon
  <2> QED BY <2>1, <2>2, Zenon
<1>3. \/ wire' = wire
      \/ \E e \in Packet : e.kind # "command" /\ wire' = Append(wire, e)
  <2>1. CASE sendReceipt \/ sendDirective
    <3>1. PICK kind \in {"receipt", "directive"} : deliver(kind, 0)
      BY <2>1, Zenon DEF sendReceipt, sendDirective
    <3>2. [kind |-> kind, of |-> 0] \in Packet
      BY Zenon DEF Packet, Message
    <3> QED BY <3>1, <3>2, Zenon DEF deliver
  <2>2. ASSUME NEW p \in Publishers, sendPuback(p)
        PROVE  \E e \in Packet : e.kind # "command" /\ wire' = Append(wire, e)
    <3>1. Puback(p) \in Packet /\ Puback(p).kind # "command"
      BY Zenon DEF Packet, Puback
    <3> QED BY <2>2, <3>1, Zenon DEF sendPuback, Puback
  <2>3. CASE AnnouncerStep \/ connectError \/ reconnect \/ handleBusEvents \/ UNCHANGED vars
    BY <2>3, Zenon DEF AnnouncerStep, take, announcementPending, sendAnnouncement, connectError,
          reconnect, handleBusEvents, vars
  <2> QED BY <2>1, <2>2, <2>3, Zenon
<1> QED BY <1>1, <1>2, <1>3, WireSame, WireOther, NoMove, ZenonT(60)

LEMMA PlaceInvNext ==
    ASSUME PlaceInv, [Next]_vars
    PROVE  PlaceInv'
<1>1. TypeInv'
  BY TypeInvNext DEF PlaceInv
<1>2. Distinct' /\ OnePlace'
  BY SendPlaces, LogicPlaces, DispatchPlaces, OtherHandlers, QueuePlaces, TakePlaces,
     AnswerPlaces,
     LossPlaces, OtherPlaces, ZenonT(60) DEF Next, HandlerStep, WorkerStep
<1> QED BY <1>1, <1>2, Zenon DEF PlaceInv

\* handleCommand, the queue and the workers lose no command and execute none
\* twice; only a lost connection loses commands.
THEOREM CommandsInOnePlace == Spec => []OnePlace
<1>1. Init => PlaceInv
  BY TypeInvInit, PlacesInit DEF PlaceInv
<1>2. PlaceInv => OnePlace
  BY DEF PlaceInv
<1> QED BY <1>1, <1>2, PlaceInvNext, PTL DEF Spec

(***************************************************************************)
(* What a standstill takes.                                                *)
(***************************************************************************)
\* Without a connection nothing comes in, and no acknowledgement is to come.
LinkInv == ~connected => wire = <<>> /\ logic = Nothing /\ acks = {} /\ ~subscribed

\* A worker that waits for its publish has answered its command; and no two
\* workers have the same command, whether they have answered it or not.
JobInv == /\ \A w \in Workers \cap (waiting \cup hung) : job[w] \in answered
          /\ \A v, w \in Workers : job[v] # Nothing /\ job[v] = job[w] => v = w

StallInv == PlaceInv /\ LinkInv /\ JobInv

LEMMA LinkInvNext ==
    ASSUME LinkInv, [Next]_vars
    PROVE  LinkInv'
<1> USE DEF LinkInv, linkVars
<1>1. CASE sendCommand \/ sendReceipt \/ sendDirective
  BY <1>1, Zenon DEF sendCommand, sendReceipt, sendDirective, deliver, publishVars
<1>2. CASE \E p \in Publishers : sendPuback(p)
  BY <1>2 DEF sendPuback
<1>3. CASE alllogic
  BY <1>3, Zenon DEF alllogic
<1>4. CASE matchAndDispatch
  BY <1>4, Zenon DEF matchAndDispatch, publishVars
<1>5. CASE \E l \in Links : HandlerStep(l)
  <2>1. PICK l \in Links : handleCommand(l) \/ cogReceipt(l) \/ updateCatalog(l)
    BY <1>5, Zenon DEF HandlerStep
  <2>2. UNCHANGED <<wire, logic, acks, connected, subscribed>>
    BY <2>1, Zenon DEF handleCommand, enqueue, cogReceipt, updateCatalog, publishVars
  <2> QED BY <2>2, Zenon
<1>6. CASE \E w \in Workers : WorkerStep(w)
  <2>1. PICK w \in Workers : ExecutionWorker(w) \/ executeCommand(w)
    BY <1>6, Zenon DEF WorkerStep
  <2>2. UNCHANGED <<wire, logic, connected, subscribed>> /\ (acks' = acks \/ connected)
    BY <2>1, Zenon DEF ExecutionWorker, executeCommand, clientVars, publishVars
  <2> QED BY <2>2, Zenon
<1>7. CASE AnnouncerStep
  BY <1>7, Zenon DEF AnnouncerStep, take, announcementPending, sendAnnouncement, clientVars,
                     publishVars
<1>8. CASE loseConnection
  BY <1>8, Zenon DEF loseConnection
<1>9. CASE connectError \/ reconnect \/ handleBusEvents
  <2>1. CASE connectError
    BY <2>1, Zenon DEF connectError, clientVars, publishVars
  <2>2. CASE reconnect
    BY <2>2 DEF reconnect
  <2>3. CASE handleBusEvents
    BY <2>3, Zenon DEF handleBusEvents, clientVars, publishVars
  <2> QED BY <1>9, <2>1, <2>2, <2>3, Zenon
<1>10. CASE UNCHANGED vars
  BY <1>10, Zenon DEF vars, clientVars, publishVars
<1> QED BY <1>1, <1>2, <1>3, <1>4, <1>5, <1>6, <1>7, <1>8, <1>9, <1>10, Zenon DEF Next

LEMMA JobsKept ==
    ASSUME JobInv, UNCHANGED <<job, answered>>,
           Workers \cap (waiting' \cup hung') \subseteq waiting \cup hung
    PROVE  JobInv'
BY Zenon DEF JobInv

\* The command a worker takes is no other worker's.
LEMMA JobTaken ==
    ASSUME PlaceInv, JobInv, NEW u \in Workers, ExecutionWorker(u)
    PROVE  JobInv'
<1>1. /\ job[u] = Nothing /\ queue # <<>> /\ queue \in Seq(Commands)
      /\ job \in [Workers -> Commands \cup {Nothing}]
      /\ UNCHANGED <<waiting, hung, answered>>
      /\ \A w \in Workers \cap (waiting \cup hung) : job[w] # Nothing
  BY Zenon DEF ExecutionWorker, publishVars, PlaceInv, TypeInv, TypeOK, Distinct
<1>2. CASE job' = job
  BY <1>1, <1>2, JobsKept, Zenon
<1>3. CASE job' = [job EXCEPT ![u] = Head(queue)]
  <2> DEFINE c == Head(queue)
  <2>1. c \in Commands /\ Holds(queue, c)
    BY <1>1, TailFacts, Zenon DEF Holds
  <2>2. c \in Places["queue"]
    BY <2>1, PlaceValues, Zenon DEF PlaceTable
  <2>3. c \notin Places["answered"] /\ c \notin Places["worker"]
    BY <2>1, <2>2, ZenonT(60) DEF PlaceInv, OnePlace, Places
  <2> HIDE DEF c
  <2>4. ASSUME NEW w \in Workers PROVE job[w] # c
    <3>1. CASE w \in waiting \cup hung
      <4>1. job[w] \in answered
        BY <3>1, Zenon DEF JobInv
      <4> QED BY <2>3, <4>1, PlaceValues, Zenon DEF PlaceTable
    <3>2. CASE w \notin waiting \cup hung
      BY <2>1, <2>3, <3>2, PlaceValues, Zenon DEF PlaceTable
    <3> QED BY <3>1, <3>2
  <2>5. job'[u] = c /\ \A w \in Workers \ {u} : job'[w] = job[w]
    BY <1>1, <1>3, Zenon DEF c
  <2>6. \A w \in Workers \cap (waiting' \cup hung') : job'[w] \in answered'
    BY <1>1, <2>5, Zenon DEF JobInv
  <2>7. \A v, w \in Workers : job'[v] # Nothing /\ job'[v] = job'[w] => v = w
    BY <2>4, <2>5, Zenon DEF JobInv
  <2> QED BY <2>6, <2>7, Zenon DEF JobInv
<1> QED BY <1>2, <1>3, Zenon DEF ExecutionWorker

\* A worker has its command until the publish of the response returns.
LEMMA JobDone ==
    ASSUME PlaceInv, JobInv, alllogic \/ \E w \in Workers : executeCommand(w)
    PROVE  JobInv'
<1> USE DEF JobInv
<1>1. job \in [Workers -> Commands \cup {Nothing}] /\ hung \subseteq Publishers \ waiting
  BY Zenon DEF PlaceInv, TypeInv, TypeOK
<1>2. CASE UNCHANGED <<waiting, hung, job, answered>>
  BY <1>2, JobsKept, Zenon
<1>3. CASE alllogic /\ Head(wire).kind = "puback"
  <2> DEFINE p == Head(wire).of
  <2>1. /\ waiting' = waiting \ {p} /\ hung' = hung /\ answered' = answered
        /\ job' = [w \in Workers |-> IF w = p THEN Nothing ELSE job[w]]
    BY <1>3, Zenon DEF alllogic, fateVars
  <2>2. p \notin hung
    <3>1. Head(wire) \in Packet /\ Holds(wire, Head(wire))
      BY <1>3, TailFacts, ZenonT(30) DEF alllogic, Holds, PlaceInv, TypeInv, TypeOK
    <3>2. p \in Publishers /\ Head(wire) = Puback(p)
      BY <1>3, <3>1 DEF Packet, Message, Puback
    <3>3. p \in waiting
      BY <3>1, <3>2, Zenon DEF PlaceInv, TypeInv, PubackInv
    <3> QED BY <1>1, <3>3, Zenon
  <2> HIDE DEF p
  <2>3. \A w \in Workers : job'[w] = IF w = p THEN Nothing ELSE job[w]
    BY <2>1, ZenonT(30)
  <2> QED BY <2>1, <2>2, <2>3, ZenonT(60)
<1>4. ASSUME NEW u \in Workers, executeCommand(u) PROVE JobInv'
  <2>1. CASE connected
    BY <1>4, <2>1, Zenon DEF executeCommand, Publish
  <2>2. CASE ~connected
    <3>1. /\ job' = [job EXCEPT ![u] = Nothing] /\ u \notin waiting \cup hung
          /\ UNCHANGED <<waiting, hung, answered>>
      BY <1>4, <2>2, Zenon DEF executeCommand
    <3>2. job'[u] = Nothing /\ \A w \in Workers \ {u} : job'[w] = job[w]
      BY <1>1, <3>1, Zenon
    <3>3. \A w \in Workers \cap (waiting' \cup hung') : job'[w] \in answered'
      BY <3>1, <3>2
    <3>4. \A v, w \in Workers : job'[v] # Nothing /\ job'[v] = job'[w] => v = w
      BY <3>2, Zenon
    <3> QED BY <3>3, <3>4, Zenon
  <2> QED BY <2>1, <2>2
<1>5. CASE alllogic /\ Head(wire).kind # "puback"
  <2>1. UNCHANGED <<waiting, hung, job, answered>>
    BY <1>5, Zenon DEF alllogic, fateVars
  <2> QED BY <1>2, <2>1
<1> QED BY <1>3, <1>4, <1>5, Zenon

LEMMA JobInvNext ==
    ASSUME PlaceInv, JobInv, [Next]_vars
    PROVE  JobInv'
<1> USE DEF workVars, publishVars, fateVars
<1>1. CASE \/ sendCommand \/ sendReceipt \/ sendDirective
           \/ \E p \in Publishers : sendPuback(p)
  <2>1. UNCHANGED <<waiting, hung, job, answered>>
    BY <1>1, Zenon DEF sendCommand, sendReceipt, sendDirective, sendPuback
  <2> QED BY <2>1, JobsKept, Zenon
<1>2. CASE matchAndDispatch \/ \E l \in Links : HandlerStep(l)
  <2>1. UNCHANGED <<waiting, hung, job, answered>>
    BY <1>2, Zenon DEF matchAndDispatch, HandlerStep, handleCommand, enqueue, cogReceipt,
                       updateCatalog
  <2> QED BY <2>1, JobsKept, Zenon
<1>3. CASE AnnouncerStep
  <2>1. /\ UNCHANGED <<hung, job, answered>>
        /\ waiting' = waiting \/ waiting' = waiting \cup {Announcer}
    BY <1>3, Zenon DEF AnnouncerStep, take, announcementPending, sendAnnouncement, Publish
  <2> QED BY <2>1, DispatchAssumption, JobsKept, Zenon
<1>4. CASE loseConnection
  BY <1>4, JobsKept, Zenon DEF loseConnection
<1>5. CASE connectError \/ reconnect \/ handleBusEvents \/ UNCHANGED vars
  <2>1. UNCHANGED <<waiting, hung, job, answered>>
    BY <1>5, Zenon DEF connectError, reconnect, handleBusEvents, vars
  <2> QED BY <2>1, JobsKept, Zenon
<1> QED BY <1>1, <1>2, <1>3, <1>4, <1>5, JobTaken, JobDone, Zenon DEF Next, WorkerStep

LEMMA OnlyThere ==
    ASSUME OnePlace, NEW p \in PlaceNames, NEW q \in PlaceNames, p # q,
           NEW c \in Commands, c \in Places[p]
    PROVE  c \notin Places[q]
<1>1. DOMAIN Places = PlaceNames
  BY ZenonT(30) DEF Places, PlaceNames
<1> QED BY <1>1, ZenonT(30) DEF OnePlace

\* A command in a place but the first has been sent.
LEMMA SentOrNot ==
    ASSUME PlaceInv, NEW p \in PlaceNames \ {"unsent"}, NEW c \in Commands, c \in Places[p]
    PROVE  c <= sent
<1>1. c \notin Places["unsent"]
  BY OnlyThere, Zenon DEF PlaceNames, PlaceInv
<1>2. ~(c > sent)
  BY <1>1, PlaceValues, Zenon DEF PlaceTable
<1>3. sent \in 0 .. MaxCommands /\ c \in Nat
  BY Counters, CommandsAreNumbers, Zenon DEF PlaceInv
<1> QED BY <1>2, <1>3

\* A command that is in alllogic, in a router or in the queue is not finished.
LEMMA Unfinished ==
    ASSUME PlaceInv, NEW p \in {"logic", "router", "queue"}, NEW c \in Commands, c \in Places[p]
    PROVE  c \in Outstanding
<1>1. c <= sent
  BY SentOrNot, Zenon DEF PlaceNames
<1>2. /\ c \notin Places["answered"] /\ c \notin Places["unanswered"]
      /\ c \notin Places["ignored"] /\ c \notin Places["lost"]
  BY OnlyThere, Zenon DEF PlaceNames, PlaceInv
<1>3. c \notin Finished
  BY <1>2, PlaceValues, Zenon DEF PlaceTable, Finished
<1> QED BY <1>1, <1>3, Zenon DEF Outstanding

\* The commands of workers that wait, and those in the queue.
Jobs == {job[w] : w \in Workers}
Queued == {c \in Commands : Holds(queue, c)}

LEMMA JobsOutstanding ==
    ASSUME PlaceInv, JobInv, Workers \subseteq waiting \cup hung
    PROVE  /\ Jobs \subseteq Outstanding /\ Jobs \subseteq Places["answered"]
           /\ IsFiniteSet(Jobs) /\ Cardinality(Jobs) = MaxConcurrent
<1>1. /\ job \in [Workers -> Commands \cup {Nothing}] /\ answered \subseteq Commands
      /\ \A w \in Workers : job[w] \in answered /\ job[w] # Nothing
  BY Zenon DEF PlaceInv, TypeInv, TypeOK, JobInv, Distinct
<1>2. Jobs \subseteq Places["answered"]
  <2>1. Places["answered"] = answered
    BY PlaceValues, Zenon DEF PlaceTable
  <2> QED BY <1>1, <2>1, Zenon DEF Jobs
<1>3. Jobs \subseteq Outstanding
  <2> SUFFICES ASSUME NEW w \in Workers PROVE job[w] \in Outstanding
    BY Zenon DEF Jobs
  <2>1. job[w] \in Commands /\ job[w] \in Places["answered"]
    BY <1>1, PlaceValues, Zenon DEF PlaceTable
  <2>2. job[w] <= sent
    BY <2>1, SentOrNot, Zenon DEF PlaceNames
  <2> QED BY <2>1, <2>2, Zenon DEF Outstanding
<1>4. job \in Bijection(Workers, Jobs)
  <2>1. job \in [Workers -> Jobs]
    BY <1>1 DEF Jobs
  <2>2. \A v, w \in Workers : job[v] = job[w] => v = w
    BY <1>1, Zenon DEF JobInv
  <2>3. \A c \in Jobs : \E w \in Workers : job[w] = c
    BY Zenon DEF Jobs
  <2> QED BY <2>1, <2>2, <2>3, Zenon DEF Bijection, Injection, Surjection, IsInjective
<1>5. IsFiniteSet(Jobs) /\ Cardinality(Jobs) = MaxConcurrent
  BY <1>4, FS_Bijection, DispatchAssumption, Zenon DEF ExistsBijection, MaxConcurrent
<1> QED BY <1>2, <1>3, <1>5

LEMMA QueueOutstanding ==
    ASSUME PlaceInv
    PROVE  /\ Queued \subseteq Outstanding /\ Queued = Places["queue"]
           /\ IsFiniteSet(Queued) /\ Cardinality(Queued) = Len(queue)
<1>1. queue \in Seq(Commands) /\ \A c \in Commands : Once(queue, c)
  BY Zenon DEF PlaceInv, TypeInv, TypeOK, Distinct
<1>2. Queued = Places["queue"]
  BY PlaceValues, Zenon DEF PlaceTable, Queued
<1>3. Queued \subseteq Outstanding
  <2> SUFFICES ASSUME NEW c \in Queued PROVE c \in Outstanding
    BY Zenon
  <2>1. c \in Commands /\ c \in Places["queue"]
    BY <1>2, Zenon DEF Queued
  <2> QED BY <2>1, Unfinished, Zenon
<1>4. queue \in Bijection(1 .. Len(queue), Queued)
  <2>1. DOMAIN queue = 1 .. Len(queue) /\ \A i \in 1 .. Len(queue) : queue[i] \in Commands
    BY <1>1
  <2>2. queue = [i \in 1 .. Len(queue) |-> queue[i]]
    BY <1>1
  <2>3. \A i \in 1 .. Len(queue) : queue[i] \in Queued
    BY <2>1, Zenon DEF Queued, Holds
  <2>4. queue \in [1 .. Len(queue) -> Queued]
    BY <2>2, <2>3, Zenon
  <2>5. \A i, j \in 1 .. Len(queue) : queue[i] = queue[j] => i = j
    BY <1>1, <2>1, Zenon DEF Once
  <2>6. \A c \in Queued : \E i \in 1 .. Len(queue) : queue[i] = c
    BY <2>1, Zenon DEF Queued, Holds
  <2> QED BY <2>4, <2>5, <2>6, Zenon DEF Bijection, Injection, Surjection, IsInjective
<1>5. Len(queue) \in Nat
  BY <1>1
<1>6. IsFiniteSet(1 .. Len(queue)) /\ Cardinality(1 .. Len(queue)) = Len(queue)
  <2>1. PICK n \in Nat : n = Len(queue)
    BY <1>5
  <2>2. IsFiniteSet(1 .. n) /\ Cardinality(1 .. n) = IF 1 > n THEN 0 ELSE n - 1 + 1
    BY FS_Interval
  <2> QED BY <2>1, <2>2
<1>7. IsFiniteSet(Queued) /\ Cardinality(Queued) = Len(queue)
  BY <1>4, <1>6, FS_Bijection, Zenon DEF ExistsBijection
<1> QED BY <1>2, <1>3, <1>7

\* Commands fill the workers, the queue, the router and, if the message that
\* alllogic is handing over is one, alllogic.
LEMMA CommandsStall ==
    ASSUME StallInv, Stalled, router[link].kind = "command"
    PROVE  Cardinality(Outstanding) >= 2 * MaxConcurrent
                                         + (IF logic.kind = "command" THEN 2 ELSE 1)
<1> USE DEF StallInv
<1>1. /\ link \in Links /\ router[link] \in Message /\ logic \in Message
      /\ queue \in Seq(Commands) /\ job \in [Workers -> Commands \cup {Nothing}]
  BY Zenon DEF Stalled, PlaceInv, TypeInv, TypeOK
<1>2. Len(queue) >= MaxConcurrent /\ MaxConcurrent \in Nat /\ Len(queue) \in Nat
  <2>1. ~QueueHasRoom
    BY <1>1, Zenon DEF Stalled, HandlerReady, Handles
  <2> QED BY <1>1, <2>1, Constants DEF QueueHasRoom
<1>3. Workers \subseteq waiting \cup hung
  <2>1. MaxConcurrent # 0
    BY FS_EmptySet, DispatchAssumption, Zenon DEF MaxConcurrent
  <2>2. queue # <<>>
    BY <1>1, <1>2, <2>1
  <2> QED BY <2>2, Zenon DEF Stalled, WorkerReady
<1>4. /\ Jobs \subseteq Outstanding /\ Jobs \subseteq Places["answered"]
      /\ IsFiniteSet(Jobs) /\ Cardinality(Jobs) = MaxConcurrent
      /\ Queued \subseteq Outstanding /\ Queued = Places["queue"]
      /\ IsFiniteSet(Queued) /\ Cardinality(Queued) = Len(queue)
  BY <1>3, JobsOutstanding, QueueOutstanding, Zenon
<1>5. Outstanding \subseteq Commands /\ IsFiniteSet(Outstanding) /\ Cardinality(Outstanding) \in Nat
  <2>1. IsFiniteSet(Commands)
    BY Constants, FS_Interval DEF Commands
  <2>2. Outstanding \subseteq Commands
    BY Zenon DEF Outstanding
  <2> QED BY <2>1, <2>2, FS_Subset, FS_CardinalityType, Zenon
<1>6. Jobs \cap Queued = {}
  <2> SUFFICES ASSUME NEW c \in Commands, c \in Places["answered"], c \in Places["queue"]
               PROVE  FALSE
    BY <1>4, <1>5, Zenon
  <2> QED BY OnlyThere, Zenon DEF PlaceInv, PlaceNames
<1>7. /\ IsFiniteSet(Jobs \cup Queued)
      /\ Cardinality(Jobs \cup Queued) = MaxConcurrent + Len(queue)
  <2>1. Cardinality(Jobs \cap Queued) = 0
    BY <1>6, FS_EmptySet, Zenon
  <2>2. /\ IsFiniteSet(Jobs \cup Queued)
        /\ Cardinality(Jobs \cup Queued)
             = Cardinality(Jobs) + Cardinality(Queued) - Cardinality(Jobs \cap Queued)
    BY <1>4, FS_Union, Zenon
  <2> QED BY <1>2, <1>4, <2>1, <2>2
\* The command in the router.
<1> DEFINE r == router[link].of
           WithRouter == Jobs \cup Queued \cup {r}
<1>8. r \in Commands /\ r \in Places["router"]
  <2>1. r \in Commands /\ router[link] = Command(r)
    BY <1>1, SMTT(30) DEF Message, Command
  <2> QED BY <1>1, <2>1, PlaceValues, Zenon DEF PlaceTable
<1>9. r \notin Jobs \cup Queued /\ r \in Outstanding
  <2> HIDE DEF r
  <2>1. r \notin Places["answered"] /\ r \notin Places["queue"]
    BY <1>8, OnlyThere, Zenon DEF PlaceInv, PlaceNames
  <2>2. r \in Outstanding
    BY <1>8, Unfinished, Zenon
  <2> QED BY <1>4, <2>1, <2>2, Zenon
<1>10. /\ IsFiniteSet(WithRouter) /\ WithRouter \subseteq Outstanding
       /\ Cardinality(WithRouter) = MaxConcurrent + Len(queue) + 1
  <2> HIDE DEF r
  <2>1. /\ IsFiniteSet(WithRouter)
        /\ Cardinality(WithRouter) = Cardinality(Jobs \cup Queued) + 1
    BY <1>7, <1>9, FS_AddElement, Zenon
  <2>2. WithRouter \subseteq Outstanding
    BY <1>4, <1>9, Zenon
  <2> HIDE DEF WithRouter
  <2> QED BY <1>7, <2>1, <2>2
<1> HIDE DEF WithRouter
<1>11. CASE logic.kind # "command"
  <2>1. Cardinality(WithRouter) <= Cardinality(Outstanding)
    BY <1>5, <1>10, FS_Subset, Zenon
  <2> QED BY <1>2, <1>5, <1>10, <1>11, <2>1
<1>12. CASE logic.kind = "command"
  <2> DEFINE c == logic.of
             WithLogic == WithRouter \cup {c}
  <2>1. c \in Commands /\ c \in Places["logic"]
    <3>1. c \in Commands /\ logic = Command(c)
      BY <1>1, <1>12, SMTT(30) DEF Message, Command
    <3> QED BY <3>1, PlaceValues, Zenon DEF PlaceTable
  <2> HIDE DEF c, r
  <2>2. /\ c \notin Places["answered"] /\ c \notin Places["queue"] /\ c \notin Places["router"]
    BY <2>1, OnlyThere, Zenon DEF PlaceInv, PlaceNames
  <2>3. c \notin WithRouter
    BY <1>4, <1>8, <2>2, Zenon DEF WithRouter
  <2>4. c \in Outstanding
    BY <2>1, Unfinished, Zenon
  <2>5. /\ IsFiniteSet(WithLogic)
        /\ Cardinality(WithLogic) = Cardinality(WithRouter) + 1
    BY <1>10, <2>3, FS_AddElement, Zenon
  <2>6. Cardinality(WithLogic) <= Cardinality(Outstanding)
    BY <1>5, <1>10, <2>4, FS_Subset, Zenon
  <2> HIDE DEF WithLogic
  <2> QED BY <1>2, <1>5, <1>10, <1>12, <2>5, <2>6
<1> QED BY <1>11, <1>12

\* Relay comes to a standstill (alllogic, the router, the workers and the
\* announcer all waiting for one another) only if enough commands are
\* outstanding, or if the announcer publishes while Cog's receipt, or a third
\* change of the catalog, comes in: for any number of workers, commands,
\* announcements and lost connections.
THEOREM StandstillCause == Spec => []StallCause
<1>1. Init => StallInv
  <2>1. Init => PlaceInv
    BY TypeInvInit, PlacesInit DEF PlaceInv
  <2>2. Init => LinkInv /\ JobInv
    BY Zenon DEF Init, LinkInv, JobInv
  <2> QED BY <2>1, <2>2 DEF StallInv
<1>2. StallInv /\ [Next]_vars => StallInv'
  BY PlaceInvNext, LinkInvNext, JobInvNext DEF StallInv
<1>3. ASSUME StallInv, Stalled PROVE StallCause
  <2>1. /\ link \in Links /\ router[link] \in Message /\ ~HandlerReady(link)
        /\ router[link] # Nothing
    BY <1>3, Zenon DEF StallInv, Stalled, PlaceInv, TypeInv, TypeOK
  <2>2. router[link].kind \in {"command", "receipt", "directive"}
    BY <2>1 DEF Message
  <2>3. CASE router[link].kind = "command"
    BY <1>3, <2>3, CommandsStall, Zenon DEF StallCause
  <2>4. CASE router[link].kind = "receipt"
    BY <2>1, <2>4, Zenon DEF HandlerReady, Handles, LockFree, StallCause
  <2>5. CASE router[link].kind = "directive"
    <3>1. ~ControlHasRoom
      BY <2>1, <2>5, Zenon DEF HandlerReady, Handles
    <3>2. control = ControlCap /\ control > 0
      BY <1>3, <3>1, Counters DEF ControlHasRoom, ControlCap, StallInv, PlaceInv
    <3>3. connected
      BY <1>3, Zenon DEF StallInv, LinkInv, Stalled
    <3>4. ~LockFree
      BY <1>3, <3>2, <3>3, Zenon DEF Stalled, AnnouncerReady
    <3> QED BY <2>5, <3>2, <3>4, Zenon DEF LockFree, StallCause
  <2> QED BY <2>2, <2>3, <2>4, <2>5
<1>4. StallInv => StallCause
  BY <1>3 DEF StallCause
<1> QED BY <1>1, <1>2, <1>4, PTL DEF Spec
=============================================================================
