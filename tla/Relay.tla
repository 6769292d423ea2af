------------------------------- MODULE Relay -------------------------------
(***************************************************************************)
(* The cogRelay (relay/relay.go) around the catalog and the announcer: the *)
(* handler of bus events, which runs in a goroutine of its own for each    *)
(* connection, the directives handler, which runs in the router goroutine  *)
(* of its connection, and the bundle refresh timer.  The announcer is what *)
(* Announcing says it is; here SendAnnouncement and the catalog's methods  *)
(* are called only where the code calls them.                              *)
(*                                                                         *)
(* A connection is a number.  The session is clean: with the connection go *)
(* its subscriptions, the replies on their way, and the answers to         *)
(* subscribe requests, whose callers hang.                                 *)
(***************************************************************************)
EXTENDS Announcing

CONSTANTS DockerNames,  \* bundles with a Docker stanza
          LatestNames,  \* those whose tag is "latest"
          Assigned,     \* the lists Cog assigns to this Relay, one after another
          MaxLosses     \* bound on the losses of the connection

VARIABLES link,        \* the number of the present, or of the last, connection
          subscribed,  \* the topics the broker sends on this connection
          busPc,       \* where handleBusEvents is, for each connection
          dirPc,       \* where updateCatalog is, for each connection's router
          refresh,     \* the names its refreshBundles has still to visit
          pulling,     \* the *Bundle it has asked the Docker engine about, and
                       \* whether the catalog still has that one
          timers,      \* number of armed bundle timers
          replies,     \* the lists on their way to Relay, in order
          revision,    \* which list Cog has assigned
          engines,     \* Config.EnabledEngines
          fatal        \* log.Fatalf or panic in a handler

routerVars == <<dirPc, refresh, pulling>>
cogSide == <<replies, revision, engines>>
relayVars == <<link, subscribed, busPc, routerVars, timers, cogSide, fatal>>
vars == <<promiseVars, relayVars>>

Links == 0 .. MaxLosses
EngineTypes == {"docker", "native"}

ASSUME RelayAssumption == /\ DockerNames \subseteq Names
                          /\ LatestNames \subseteq DockerNames
                          /\ MaxLosses \in Nat
                          /\ Assigned \in Seq(Updates) \ {<<>>}
                          /\ Updates = {Assigned[i] : i \in DOMAIN Assigned}

TypeOK == /\ PromiseTypeOK
          /\ link \in Links
          /\ subscribed \subseteq {"receipts", "directives"}
          /\ busPc \in [Links -> {"none", "receipts", "announce", "subs", "catalog", "done"}]
          /\ dirPc \in [Links -> {"idle", "check", "refresh", "arm"}]
          /\ refresh \in [Links -> SUBSET Names]
          /\ pulling \in [Links -> [name : Names, current : BOOLEAN] \cup {NoBundle}]
          /\ timers \in Nat
          /\ replies \in Seq(Updates)
          /\ revision \in DOMAIN Assigned
          /\ engines \subseteq EngineTypes /\ fatal \in BOOLEAN

\* The first connection is up, and the announcer runs: its Run, whose error
\* ends the process, has subscribed.
Init == /\ PromiseInit
        /\ link = 0
        /\ subscribed = {"receipts"}
        /\ busPc = [c \in Links |-> IF c = 0 THEN "subs" ELSE "none"]
        /\ dirPc = [c \in Links |-> "idle"]
        /\ refresh = [c \in Links |-> {}]
        /\ pulling = [c \in Links |-> NoBundle]
        /\ timers = 0
        /\ replies = <<>>
        /\ revision = 1
        /\ engines \in SUBSET EngineTypes \ {{}}
        /\ fatal = FALSE

BusGoto(c, label) == busPc' = [busPc EXCEPT ![c] = label]
DirGoto(c, label) == dirPc' = [dirPc EXCEPT ![c] = label]

\* What a change of the catalog leaves alone of the announcer's promise.
CatalogOnly == /\ told' = IF epoch' = epoch THEN told ELSE {}
               /\ UNCHANGED <<connected, receipts, online, owed, stuck, halted, crashed>>

(***************************************************************************)
(* handleBusEvents, for connection c.                                      *)
(***************************************************************************)
\* Mutant: the topic of the commands is subscribed to instead.
Subscribe_otherTopic(topic) == /\ fatal' = ~connected
                               /\ subscribed' = subscribed \cup {"commands"}

\* It fails at once if the client is not connected: log.Fatalf, or panic.
Subscribe(topic) == /\ fatal' = ~connected
                    /\ subscribed' = IF connected THEN subscribed \cup {topic}
                                     ELSE subscribed

SetSubscriptions(c) ==
    /\ busPc[c] = "receipts"
    /\ Subscribe("receipts")
    /\ BusGoto(c, "announce")
    /\ UNCHANGED <<promiseVars, link, routerVars, timers, cogSide>>

\* Of the two topics only that of the directives matters here.
setSubscriptions(c) ==
    /\ busPc[c] = "subs"
    /\ Subscribe("directives")
    /\ BusGoto(c, "catalog")
    /\ UNCHANGED <<promiseVars, link, routerVars, timers, cogSide>>

\* The connection was lost while a subscribe request was on its way.
subscribeHung(c) ==
    /\ busPc[c] \in {"receipts", "subs"}
    /\ c # link \/ ~connected
    /\ BusGoto(c, "done")
    /\ UNCHANGED <<promiseVars, link, subscribed, routerVars, timers, cogSide, fatal>>

\* Mutant: a new connection is not announced.
reannounce_silent(c) ==
    /\ busPc[c] = "announce"
    /\ BusGoto(c, "subs")
    /\ UNCHANGED <<promiseVars, link, subscribed, routerVars, timers, cogSide, fatal>>

reannounce(c) ==
    /\ busPc[c] = "announce"
    /\ SendAnnouncement
    /\ BusGoto(c, "subs")
    /\ UNCHANGED <<link, subscribed, routerVars, timers, cogSide, fatal>>

\* Publish of a list request; Cog answers with the list assigned now.
requestBundles == /\ replies' = IF connected THEN Append(replies, Assigned[revision])
                                ELSE replies
                  /\ UNCHANGED <<revision, engines>>

\* Mutant: the bundles are requested on each connection.
loadCatalog_always(c) ==
    /\ busPc[c] = "catalog"
    /\ \/ BundleNames # {} /\ Reconnected /\ CatalogOnly /\ requestBundles
       \/ BundleNames = {} /\ requestBundles /\ UNCHANGED promiseVars
    /\ BusGoto(c, "done")
    /\ UNCHANGED <<link, subscribed, routerVars, timers, fatal>>

loadCatalog(c) ==
    /\ busPc[c] = "catalog"
    /\ \/ BundleNames # {} /\ Reconnected /\ CatalogOnly /\ UNCHANGED cogSide
       \/ BundleNames = {} /\ requestBundles /\ UNCHANGED promiseVars
    /\ BusGoto(c, "done")
    /\ UNCHANGED <<link, subscribed, routerVars, timers, fatal>>

(***************************************************************************)
(* handleDirective and updateCatalog, in the router of connection c.       *)
(***************************************************************************)
VersionsOf(n, content) == {item \in content : item[1] = n}

\* A pull another router waits for may be of a bundle that is replaced here.
updateCatalog(c) ==
    /\ c = link /\ "directives" \in subscribed
    /\ dirPc[c] = "idle"
    /\ replies # <<>>
    /\ replies' = Tail(replies)
    /\ Replace(Head(replies))
    /\ CatalogOnly
    /\ pulling' = [d \in Links |->
                     IF pulling[d] = NoBundle THEN NoBundle
                     ELSE [pulling[d] EXCEPT !.current =
                             @ /\ VersionsOf(pulling[d].name, Content')
                                     = VersionsOf(pulling[d].name, Content)]]
    /\ DirGoto(c, "check")
    /\ UNCHANGED <<link, subscribed, busPc, refresh, timers, revision, engines,
                   fatal>>

checkChanged(c) ==
    /\ dirPc[c] = "check"
    /\ refresh' = [refresh EXCEPT ![c] = IF IsChanged THEN BundleNames ELSE {}]
    /\ DirGoto(c, IF IsChanged THEN "refresh" ELSE "arm")
    /\ UNCHANGED <<promiseVars, link, subscribed, busPc, pulling, timers, cogSide, fatal>>

NeedsRefresh(n) == bundles[n] # NoBundle /\ (n \in LatestNames \/ ~bundles[n].available)

\* One round of refreshBundles: the bundle is gone or needs no refresh; or it
\* is native, and available; or the native engine is disabled, and its nil is
\* called; or Docker is disabled; or the Docker engine is asked.
refreshBundle(c, n) ==
    /\ dirPc[c] = "refresh"
    /\ pulling[c] = NoBundle
    /\ n \in refresh[c]
    /\ refresh' = [refresh EXCEPT ![c] = @ \ {n}]
    /\ \/ /\ ~NeedsRefresh(n)
          /\ UNCHANGED <<promiseVars, pulling, fatal>>
       \/ /\ NeedsRefresh(n) /\ n \notin DockerNames /\ "native" \in engines
          /\ SetAvailable(n, TRUE) /\ CatalogOnly
          /\ UNCHANGED <<pulling, fatal>>
       \/ /\ NeedsRefresh(n) /\ n \notin DockerNames /\ "native" \notin engines
          /\ fatal' = TRUE
          /\ UNCHANGED <<promiseVars, pulling>>
       \/ /\ NeedsRefresh(n) /\ n \in DockerNames /\ "docker" \notin engines
          /\ SetAvailable(n, FALSE) /\ CatalogOnly
          /\ UNCHANGED <<pulling, fatal>>
       \/ /\ NeedsRefresh(n) /\ n \in DockerNames /\ "docker" \in engines
          /\ pulling' = [pulling EXCEPT ![c] = [name |-> n, current |-> TRUE]]
          /\ UNCHANGED <<promiseVars, fatal>>
    /\ UNCHANGED <<link, subscribed, busPc, dirPc, timers, cogSide>>

\* DockerEngine.IsAvailable returns.
refreshedImage(c, available) ==
    /\ pulling[c] # NoBundle
    /\ pulling' = [pulling EXCEPT ![c] = NoBundle]
    /\ \/ pulling[c].current /\ SetAvailable(pulling[c].name, available) /\ CatalogOnly
       \/ ~pulling[c].current /\ UNCHANGED promiseVars
    /\ UNCHANGED <<link, subscribed, busPc, dirPc, refresh, timers, cogSide, fatal>>

\* Mutant: a changed catalog is not announced.
announceCatalog_silent(c) ==
    /\ dirPc[c] = "refresh"
    /\ refresh[c] = {} /\ pulling[c] = NoBundle
    /\ DirGoto(c, "arm")
    /\ UNCHANGED <<promiseVars, link, subscribed, busPc, refresh, pulling, timers, cogSide,
                   fatal>>

announceCatalog(c) ==
    /\ dirPc[c] = "refresh"
    /\ refresh[c] = {} /\ pulling[c] = NoBundle
    /\ SendAnnouncement
    /\ DirGoto(c, "arm")
    /\ UNCHANGED <<link, subscribed, busPc, refresh, pulling, timers, cogSide, fatal>>

armBundleTimer(c) ==
    /\ dirPc[c] = "arm"
    /\ timers' = timers + 1
    /\ DirGoto(c, "idle")
    /\ UNCHANGED <<promiseVars, link, subscribed, busPc, refresh, pulling, cogSide, fatal>>

\* The timer fires.  If the request fails the timer is armed again.
scheduledBundleRefresh ==
    /\ timers > 0
    /\ requestBundles
    /\ timers' = IF connected THEN timers - 1 ELSE timers
    /\ UNCHANGED <<promiseVars, link, subscribed, busPc, routerVars, fatal>>

(***************************************************************************)
(* The bus, Cog, and the announcer.                                        *)
(***************************************************************************)
loseConnection ==
    /\ link < MaxLosses
    /\ Disconnect
    /\ replies' = <<>>
    /\ subscribed' = {}
    /\ UNCHANGED <<link, busPc, routerVars, timers, revision, engines,
                   fatal>>

\* MQTTConnection.disconnected has connected again and calls the handler.
reconnect ==
    /\ Connect
    /\ link' = link + 1
    /\ BusGoto(link + 1, "receipts")
    /\ UNCHANGED <<subscribed, routerVars, timers, cogSide, fatal>>

\* The broker has no subscription to send a reply to.
loseReply ==
    /\ "directives" \notin subscribed
    /\ replies # <<>>
    /\ replies' = Tail(replies)
    /\ UNCHANGED <<promiseVars, link, subscribed, busPc, routerVars, timers, revision, engines,
                   fatal>>

\* Cog assigns the next list.
assign == /\ revision + 1 \in DOMAIN Assigned
          /\ revision' = revision + 1
          /\ UNCHANGED <<promiseVars, link, subscribed, busPc, routerVars, timers, replies,
                         engines, fatal>>

\* The announcements go out; a router in updateCatalog delivers no receipts.
announcements == \E id \in 0 .. epoch, content \in SUBSET Content :
                    Announce(id, content) /\ UNCHANGED relayVars

cogReceipt(id) == /\ "receipts" \in subscribed
                  /\ dirPc[link] = "idle"
                  /\ Acknowledge(id) \/ Ignore(id)
                  /\ UNCHANGED relayVars

BusStep(c) == \/ SetSubscriptions(c) \/ setSubscriptions(c) \/ subscribeHung(c)
              \/ reannounce(c) \/ loadCatalog(c)

RouterStep(c) == \/ checkChanged(c)
                 \/ \E n \in Names : refreshBundle(c, n)
                 \/ \E available \in BOOLEAN : refreshedImage(c, available)
                 \/ announceCatalog(c)
                 \/ armBundleTimer(c)

Dead == crashed \/ fatal

Next == /\ ~Dead
        /\ \/ \E c \in Links : BusStep(c) \/ RouterStep(c)
           \/ updateCatalog(link) \/ loseReply
           \/ scheduledBundleRefresh
           \/ announcements
           \/ \E id \in receipts : cogReceipt(id)
           \/ loseConnection \/ reconnect \/ assign

Spec == Init /\ [][Next]_vars

\* The announcer serves a call it owes.
serveCall == /\ owed # None
             /\ \E id \in owed .. epoch, content \in SUBSET Content :
                   Announce(id, content) /\ UNCHANGED relayVars

\* The goroutines run, the timers fire, MQTTConnection.disconnected retries
\* until it is connected, and the announcer serves a call it owes (NotLost in
\* Announcer).  The bus handlers take finitely many steps for each connection,
\* so one condition is enough for all of them and for the reconnections.
\* Nothing is assumed of Cog's receipts.  Publishes are acknowledged while the
\* connection lasts: the bus client is not in the standstill of Dispatch.
Fairness == /\ WF_vars(~Dead /\ (reconnect \/ \E c \in Links : BusStep(c)))
            /\ \A c \in Links : WF_vars(~Dead /\ (updateCatalog(c) \/ RouterStep(c)))
            /\ WF_vars(~Dead /\ scheduledBundleRefresh)
            /\ WF_vars(~Dead /\ serveCall)

FairSpec == Spec /\ Fairness

(***************************************************************************)
(* Properties.                                                             *)
(***************************************************************************)
\* Cog takes a Relay to be offline from the last will on.  Once the handler
\* of the new connection is done, a catalog with bundles counts as announced
\* only if Cog was told of it on this connection: no receipt for an earlier
\* announcement that comes in late, and no handler of an earlier connection
\* that still runs, lets Relay think it is known (then nothing but another
\* change would make it announce again).
AckedOnline == /\ connected /\ busPc[link] = "done"
               /\ Content # {} /\ ~IsChanged
               => online

\* The work of the refresh cycle that is under way.
Chains == timers + Len(replies) + Cardinality({c \in Links : dirPc[c] # "idle"})

\* updateCatalog arms the timer, the timer sends a request, the reply calls
\* updateCatalog.  A second such cycle is started by no call but the request
\* of a connection that finds the catalog empty: neither a failed request, nor
\* a reconnection, nor routers of two connections multiply the requests.
NoNewChain == [][Chains' > Chains => BundleNames = {}]_vars

Refreshing == Chains > 0

Target == {<<Assigned[revision][i].name, Assigned[revision][i].version>> :
              i \in DOMAIN Assigned[revision]}

\* Cog was told of the catalog in its present epoch, and the catalog holds
\* what Cog assigned.
UpToDate == told # {} /\ Content = Target

\* If the refresh cycle survives the losses of the connection, then from some
\* moment on the catalog is what Cog has assigned and Cog has been told so
\* (unless a publish hangs, and the announcer is stuck).
Converges == <>[]Refreshing => <>[](Dead \/ stuck \/ UpToDate)

\* After a reconnection (the last will has told Cog that Relay is offline) an
\* announcement reaches Cog (unless a publish hangs).
Reannounced == []<>(Dead \/ stuck \/ online \/ Content = {})

\* "Relay will refresh its bundle and Docker images on this interval": once
\* the catalog has been loaded, the refresh cycle goes on.
KeepsRefreshing == Content # {} ~> (Dead \/ Refreshing)
=============================================================================
