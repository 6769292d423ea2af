---------------------------- MODULE DockerImages ----------------------------
(***************************************************************************)
(* How Relay keeps the images of Docker bundles up to date                 *)
(* (relay/engines/docker.go: IsAvailable and what it calls, called by      *)
(* refreshBundles of relay.go), with the Docker daemon and the registry as *)
(* they appear to it.                                                      *)
(*                                                                         *)
(* A reference is name:tag.  A pull moves the local tag; the image it      *)
(* pointed to stays in the daemon's store until it is removed.  A forced   *)
(* removal by ID takes every tag of that image along, also those of other  *)
(* references.  Two refreshers can be at work: the router of a lost        *)
(* connection and that of the new one.  Each refreshBundles makes an       *)
(* engine of its own, with its own auth.  (The image of the circuit        *)
(* driver, for which IsAvailable makes exceptions, is none of a bundle.)   *)
(***************************************************************************)
EXTENDS Integers, FiniteSets

CONSTANTS Refreshers,  \* goroutines in refreshBundles
          Refs,        \* the image references of the bundles
          Latest,      \* those whose tag is "latest"
          ImagesOf,    \* ImagesOf[f]: the images the registry may have for f
          NoImage,     \* no image; the empty ID
          Credentials, \* whether the registry's user, password and email are set
          MaxPushes,   \* bound on the changes in the registry
          MaxErrors    \* bound on the errors of daemon and registry

VARIABLES tags,      \* tags[f]: the local image of f
          store,     \* the local images
          registry,  \* registry[f]: the image of f in the registry
          available, \* Bundle.IsAvailable of the bundle of f
          pc, ref,   \* where a refresher is, and the reference it looks at
          todo,      \* the references its refreshBundles has still to visit
          auth,      \* whether DockerEngine.auth is set
          beforeID, afterID,
          devMode,   \* Config.DevMode
          pushes, errors,
          disturbed, \* history: the references somebody else meddled with: a second
                     \* refresh during a refresh, a worker, or the removal of an
                     \* image another reference had replaced
          behind     \* history: the references of which the registry may have a newer
                     \* image: one was pushed, or a refresh failed, since the last
                     \* one that began to look

daemon == <<tags, store, registry, pushes, disturbed>>
locals == <<beforeID, afterID>>
vars == <<daemon, available, pc, ref, todo, auth, locals, devMode, errors, behind>>

Images == UNION {ImagesOf[f] : f \in Refs}

ASSUME ImagesAssumption == /\ Refs # {} /\ Latest \subseteq Refs
                           /\ NoImage \notin Images
                           /\ Credentials \in BOOLEAN
                           /\ MaxPushes \in Nat /\ MaxErrors \in Nat

TypeOK == /\ tags \in [Refs -> Images \cup {NoImage}]
          /\ store \subseteq Images
          /\ registry \in [Refs -> Images]
          /\ available \in [Refs -> BOOLEAN]
          /\ pc \in [Refreshers -> {"idle", "next", "check", "before", "pull", "after",
                                    "remove"}]
          /\ ref \in [Refreshers -> Refs]
          /\ todo \in [Refreshers -> SUBSET Refs]
          /\ auth \in [Refreshers -> BOOLEAN]
          /\ beforeID \in [Refreshers -> Images \cup {NoImage}]
          /\ afterID \in [Refreshers -> Images \cup {NoImage}]
          /\ \A r \in Refreshers : pc[r] = "remove" => afterID[r] \in Images
          /\ disturbed \subseteq Refs /\ behind \subseteq Refs
          /\ devMode \in BOOLEAN
          /\ pushes \in 0 .. MaxPushes /\ errors \in 0 .. MaxErrors

Tagged == {tags[f] : f \in Refs} \ {NoImage}

AnyRef == CHOOSE f \in Refs : TRUE  \* while no bundle is looked at

\* Some of the images are there from an earlier run, and may be old by now.
Init == /\ registry \in {r \in [Refs -> Images] : \A f \in Refs : r[f] \in ImagesOf[f]}
        /\ tags \in {t \in [Refs -> Images \cup {NoImage}] :
                        \A f \in Refs : t[f] \in ImagesOf[f] \cup {NoImage}}
        /\ store = Tagged
        /\ available = [f \in Refs |-> FALSE]
        /\ pc = [r \in Refreshers |-> "idle"]
        /\ ref = [r \in Refreshers |-> AnyRef]
        /\ todo = [r \in Refreshers |-> {}]
        /\ auth = [r \in Refreshers |-> FALSE]
        /\ beforeID = [r \in Refreshers |-> NoImage]
        /\ afterID = [r \in Refreshers |-> NoImage]
        /\ devMode \in BOOLEAN
        /\ pushes = 0 /\ errors = 0
        /\ disturbed = {} /\ behind = {}

Goto(r, label) == pc' = [pc EXCEPT ![r] = label]

\* An error of the daemon or the registry.
Error(r) == /\ errors < MaxErrors /\ errors' = errors + 1
            /\ behind' = behind \cup {ref[r]}

\* IsAvailable returns, and its locals are gone; refreshBundles stores the
\* answer in the bundle.
Answer(r, answer) == /\ available' = [available EXCEPT ![ref[r]] = answer]
                     /\ beforeID' = [beforeID EXCEPT ![r] = NoImage]
                     /\ afterID' = [afterID EXCEPT ![r] = NoImage]
                     /\ ref' = [ref EXCEPT ![r] = AnyRef]
                     /\ Goto(r, "next")

(***************************************************************************)
(* refreshBundles, with an engine of its own.                              *)
(***************************************************************************)
refreshBundles(r) == /\ pc[r] = "idle"
                     /\ todo' = [todo EXCEPT ![r] = Refs]
                     /\ Goto(r, "next")
                     /\ UNCHANGED <<daemon, available, ref, auth, locals, errors, behind>>

NeedsRefresh(f) == f \in Latest \/ ~available[f]

nextBundle(r, f) == /\ pc[r] = "next" /\ f \in todo[r]
                    /\ todo' = [todo EXCEPT ![r] = @ \ {f}]
                    /\ \/ NeedsRefresh(f) /\ ref' = [ref EXCEPT ![r] = f] /\ Goto(r, "check")
                       \/ ~NeedsRefresh(f) /\ UNCHANGED <<ref, pc>>
                    /\ UNCHANGED <<daemon, available, auth, locals, errors, behind>>

return(r) == /\ pc[r] = "next" /\ todo[r] = {}
             /\ auth' = [auth EXCEPT ![r] = FALSE]
             /\ Goto(r, "idle")
             /\ UNCHANGED <<daemon, available, ref, todo, locals, errors, behind>>

(***************************************************************************)
(* IsAvailable.                                                            *)
(***************************************************************************)
\* Mutant: an image that is tagged "latest" is not looked for in the registry.
needsUpdate_local(f) == tags[f] = NoImage

\* A tag other than "latest" that is there is good, unless in developer mode.
needsUpdate(f) == f \in Latest \/ tags[f] = NoImage \/ devMode

check(r) == /\ pc[r] = "check"
            /\ \/ needsUpdate(ref[r]) /\ Goto(r, "before") /\ UNCHANGED <<available, ref, locals>>
               \/ ~needsUpdate(ref[r]) /\ Answer(r, TRUE)
            /\ behind' = behind \ {ref[r]}
            /\ UNCHANGED <<daemon, todo, auth, errors>>

\* An image that cannot be inspected is taken to need an update.
checkError(r) == /\ pc[r] = "check" /\ ref[r] \notin Latest
                 /\ Error(r)
                 /\ Goto(r, "before")
                 /\ UNCHANGED <<daemon, available, ref, todo, auth, locals>>

\* ensureConnected fails: there is no client.
ensureConnectedError(r) == /\ pc[r] = "check"
                           /\ Error(r)
                           /\ Answer(r, FALSE)
                           /\ UNCHANGED <<daemon, todo, auth>>

\* One login for each engine, if there are credentials.
attemptAuth(r) == auth' = [auth EXCEPT ![r] = Credentials]

attemptAuthError(r) == /\ pc[r] = "before"
                       /\ Credentials /\ ~auth[r]
                       /\ Error(r)
                       /\ Answer(r, FALSE)
                       /\ UNCHANGED <<daemon, todo, auth>>

\* Refresher r is between its first IDForName of f and its answer.
Refreshing(r, f) == ref[r] = f /\ pc[r] \in {"pull", "after", "remove"}

\* After the login.  The error of the first IDForName is dropped, and the ID
\* is empty then.
IDForName(r) == /\ pc[r] = "before"
                /\ attemptAuth(r)
                /\ \/ /\ beforeID' = [beforeID EXCEPT ![r] = tags[ref[r]]]
                      /\ UNCHANGED <<errors, behind>>
                   \/ /\ Error(r)
                      /\ beforeID' = [beforeID EXCEPT ![r] = NoImage]
                /\ Goto(r, "pull")
                /\ disturbed' = disturbed \cup
                      {f \in {ref[r]} : \E s \in Refreshers \ {r} : Refreshing(s, f)}
                /\ UNCHANGED <<tags, store, registry, pushes, available, ref, todo, afterID>>

\* The local tag moves to the registry's image.
Pull(f) == /\ tags' = [tags EXCEPT ![f] = registry[f]]
           /\ store' = store \cup {registry[f]}
           /\ UNCHANGED <<registry, pushes>>

pullImage(r) == /\ pc[r] = "pull"
                /\ Pull(ref[r])
                /\ Goto(r, "after")
                /\ UNCHANGED <<disturbed, available, ref, todo, auth, locals, errors, behind>>

\* The request is refused; or it is accepted and the transfer fails, which is
\* reported in the body that pullImage reads and drops.
pullImageError(r) == /\ pc[r] = "pull"
                     /\ Error(r)
                     /\ \/ Answer(r, FALSE)
                        \/ Goto(r, "after") /\ UNCHANGED <<available, ref, locals>>
                     /\ UNCHANGED <<daemon, todo, auth>>

\* Mutant: the error of the second IDForName is dropped, too.
imageAfter_unchecked(r) ==
    /\ pc[r] = "after"
    /\ afterID' = [afterID EXCEPT ![r] = tags[ref[r]]]
    /\ Goto(r, "remove")
    /\ UNCHANGED <<daemon, available, ref, todo, auth, beforeID, errors, behind>>

\* The second IDForName fails if there is no image.
imageAfter(r) ==
    /\ pc[r] = "after"
    /\ \/ /\ tags[ref[r]] # NoImage
          /\ afterID' = [afterID EXCEPT ![r] = tags[ref[r]]]
          /\ Goto(r, "remove")
          /\ UNCHANGED <<available, ref, beforeID>>
       \/ tags[ref[r]] = NoImage /\ Answer(r, FALSE)
    /\ UNCHANGED <<daemon, todo, auth, errors, behind>>

imageAfterError(r) == /\ pc[r] = "after"
                      /\ Error(r)
                      /\ Answer(r, FALSE)
                      /\ UNCHANGED <<daemon, todo, auth>>

Obsolete(r) == beforeID[r] # NoImage /\ beforeID[r] # afterID[r]

\* Mutant: the old image is kept.
removeOldImage_kept(r) == /\ pc[r] = "remove"
                          /\ Answer(r, TRUE)
                          /\ UNCHANGED <<daemon, todo, auth, errors, behind>>

\* Mutant: called with the IDs in the wrong order.
removeOldImage_swapped(r) ==
    /\ pc[r] = "remove"
    /\ IF afterID[r] # beforeID[r]
       THEN /\ store' = store \ {afterID[r]}
            /\ tags' = [f \in Refs |-> IF tags[f] = afterID[r] THEN NoImage ELSE tags[f]]
            /\ disturbed' = disturbed \cup {f \in Refs \ {ref[r]} : tags[f] = afterID[r]}
       ELSE UNCHANGED <<store, tags, disturbed>>
    /\ Answer(r, TRUE)
    /\ UNCHANGED <<registry, pushes, todo, auth, errors, behind>>

removeOldImage(r) ==
    /\ pc[r] = "remove"
    /\ IF Obsolete(r)
       THEN /\ store' = store \ {beforeID[r]}
            /\ tags' = [f \in Refs |-> IF tags[f] = beforeID[r] THEN NoImage ELSE tags[f]]
            /\ disturbed' = disturbed \cup {f \in Refs \ {ref[r]} : tags[f] = beforeID[r]}
       ELSE UNCHANGED <<store, tags, disturbed>>
    /\ Answer(r, TRUE)
    /\ UNCHANGED <<registry, pushes, todo, auth, errors, behind>>

\* The daemon refuses, for example because a container runs the old image.
removeOldImageError(r) == /\ pc[r] = "remove" /\ Obsolete(r)
                          /\ Error(r)
                          /\ Answer(r, TRUE)
                          /\ UNCHANGED <<daemon, todo, auth>>

(***************************************************************************)
(* The rest.                                                               *)
(***************************************************************************)
\* A worker pulls the image of an environment it makes, and removes nothing.
developerModeRefresh(f) == /\ devMode
                           /\ Pull(f)
                           /\ disturbed' = disturbed \cup {f}
                           /\ UNCHANGED <<available, pc, ref, todo, auth, locals, errors, behind>>

\* Somebody pushes an image to the registry.
push(f) == /\ pushes < MaxPushes
           /\ pushes' = pushes + 1
           /\ \E i \in ImagesOf[f] \ {registry[f]} : registry' = [registry EXCEPT ![f] = i]
           /\ behind' = behind \cup {f}
           /\ UNCHANGED <<tags, store, disturbed, available, pc, ref, todo, auth, locals, errors>>

RefreshStep(r) == \/ refreshBundles(r) \/ return(r)
                  \/ \E f \in Refs : nextBundle(r, f)
                  \/ check(r) \/ checkError(r) \/ ensureConnectedError(r)
                  \/ attemptAuthError(r) \/ IDForName(r)
                  \/ pullImage(r) \/ pullImageError(r)
                  \/ imageAfter(r) \/ imageAfterError(r)
                  \/ removeOldImage(r) \/ removeOldImageError(r)

Next == /\ \/ \E r \in Refreshers : RefreshStep(r)
           \/ \E f \in Refs : developerModeRefresh(f) \/ push(f)
        /\ UNCHANGED devMode

Spec == Init /\ [][Next]_vars

(***************************************************************************)
(* Properties.                                                             *)
(***************************************************************************)
Idle == \A r \in Refreshers : pc[r] \in {"idle", "next"}

\* A bundle that Relay announces as available has its image here, so that a
\* container can be made from it, whatever the daemon and the registry failed
\* at, unless somebody else meddled with it: removeOldImage removes by ID,
\* and so takes the image from every other bundle that has it, and the image
\* that a refresh next to it, or a worker in developer mode, has pulled again.
AvailableHasImage ==
    \A f \in Refs : available[f] /\ f \notin disturbed => tags[f] # NoImage

\* "Delete the old one to keep disk usage under control": as long as nothing
\* fails, every image left behind that no bundle refers to was one of a
\* reference that somebody else meddled with.  (Of two refreshes at a time
\* neither knows the image the other one has pulled; the pulls of developer
\* mode remove nothing.)
NoneLeftBehind ==
    Idle /\ errors = 0 =>
       \A i \in store \ Tagged : \E f \in disturbed : i \in ImagesOf[f]

\* A refresh brings an image tagged "latest" up to date: an available one is
\* the registry's, unless it is being looked at, or the registry may have
\* got another one since, or the refresh failed on the way (pullImage does
\* not report a transfer that fails), or somebody else meddled with it.
LatestFollows ==
    \A f \in Latest \ (behind \cup disturbed) :
       /\ available[f]
       /\ \A r \in Refreshers : ~(ref[r] = f /\ pc[r] \in {"before", "pull"})
       => tags[f] = registry[f]
=============================================================================
