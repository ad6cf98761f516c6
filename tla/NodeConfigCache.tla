--------------------------- MODULE NodeConfigCache ---------------------------
(***************************************************************************)
(* How one panel process answers GET /api/internal/node-config from memory *)
(* (internal/httpapi/nodeconfigcache.go): a poll reads the data version    *)
(* the database triggers count, and serves the profile's stored payload if *)
(* it has that version; otherwise one build per profile and version, and   *)
(* one load of the fleet snapshot per version, serve every poll waiting.   *)
(*                                                                         *)
(* The database's content is the number of changes made to each part a     *)
(* snapshot reads in a query of its own.  A change and its new version     *)
(* commit together (migration 00015's triggers).  Changes that no trigger  *)
(* reports, which nodeConfigSafetyTTL is there for, are not modelled.      *)
(***************************************************************************)
EXTENDS Naturals

CONSTANTS
    Parts,       \* what loadNodeConfigSnapshot reads: inbounds, users, core
    Profiles,    \* the node profiles that are polled for
    Polls,       \* the polls that can be under way at the same time
    MaxChanges,  \* how many changes the triggers report
    TTL,         \* nodeConfigSafetyTTL
    MaxTime      \* how long the run is

ASSUME BoundsAssumption ==
    MaxChanges \in Nat /\ TTL \in Nat \ {0} /\ MaxTime \in Nat

Versions == 0 .. MaxChanges
Times == 0 .. MaxTime
Contents == [Parts -> Nat]
None == [p \in Parts |-> 0]

VARIABLES
    content,    \* the committed content of the database
    version,    \* data_versions.version of node_config
    now,
    \* nodeConfigCache.snap
    snapVersion, snapAt, snapContent, hasSnap,
    \* nodeConfigCache.entries
    cached, entryVersion, entryAt, entryContent,
    \* snapFlight: the loads under way, the parts they have still to read
    loading, toRead, got,
    \* entryFlight: the builds under way by profile and version
    build, buildContent,
    \* the polls
    stage, profile, read, floor, answer, ownLeft

dbVars == <<content, version>>
snapVars == <<snapVersion, snapAt, snapContent, hasSnap>>
entryVars == <<cached, entryVersion, entryAt, entryContent>>
loadVars == <<loading, toRead, got>>
buildVars == <<build, buildContent>>
pollVars == <<stage, profile, read, floor, answer, ownLeft>>
vars == <<dbVars, now, snapVars, entryVars, loadVars, buildVars, pollVars>>

Init ==
    /\ content = None
    /\ version = 0
    /\ now = 0
    /\ snapVersion = 0 /\ snapAt = 0 /\ snapContent = None /\ hasSnap = FALSE
    /\ cached = {}
    /\ entryVersion = [p \in Profiles |-> 0]
    /\ entryAt = [p \in Profiles |-> 0]
    /\ entryContent = [p \in Profiles |-> None]
    /\ loading = {}
    /\ toRead = [v \in Versions |-> {}]
    /\ got = [v \in Versions |-> None]
    /\ build = [b \in Profiles \X Versions |-> "none"]
    /\ buildContent = [b \in Profiles \X Versions |-> None]
    /\ stage = [r \in Polls |-> "idle"]
    /\ profile \in [Polls -> Profiles]
    /\ read = [r \in Polls |-> 0]
    /\ floor = [r \in Polls |-> None]
    /\ answer = [r \in Polls |-> None]
    /\ ownLeft = [r \in Polls |-> {}]

-----------------------------------------------------------------------------
(***************************************************************************)
(* The database and the clock.                                             *)
(***************************************************************************)

\* A write that a trigger reports: content and version commit together.
Change(part) ==
    /\ version < MaxChanges
    /\ content' = [content EXCEPT ![part] = @ + 1]
    /\ version' = version + 1
    /\ UNCHANGED <<now, snapVars, entryVars, loadVars, buildVars, pollVars>>

ClockTicks ==
    /\ now < MaxTime
    /\ now' = now + 1
    /\ UNCHANGED <<dbVars, snapVars, entryVars, loadVars, buildVars, pollVars>>

-----------------------------------------------------------------------------
(***************************************************************************)
(* cachedNodeConfig, up to the flight.                                     *)
(***************************************************************************)

\* Fault: any newer entry is taken to be current.
HitIgnoresVersion(p, v) == p \in cached /\ now - entryAt[p] < TTL

\* lookup: the entry is filed under this very version and not expired.
Hit(p, v) == p \in cached /\ entryVersion[p] = v /\ now - entryAt[p] < TTL

\* A node of some profile polls; GetDataVersion answers.
ReadVersion(r, p) ==
    /\ stage[r] \in {"idle", "answered"}
    /\ stage' = [stage EXCEPT ![r] = "looking"]
    /\ profile' = [profile EXCEPT ![r] = p]
    /\ read' = [read EXCEPT ![r] = version]
    /\ floor' = [floor EXCEPT ![r] = content]
    /\ answer' = [answer EXCEPT ![r] = None]
    /\ UNCHANGED <<dbVars, now, snapVars, entryVars, loadVars, buildVars, ownLeft>>

\* The version is unreadable: the poll loads a snapshot of its own ...
VersionUnreadable(r, p) ==
    /\ stage[r] \in {"idle", "answered"}
    /\ stage' = [stage EXCEPT ![r] = "own"]
    /\ profile' = [profile EXCEPT ![r] = p]
    /\ floor' = [floor EXCEPT ![r] = content]
    /\ answer' = [answer EXCEPT ![r] = None]
    /\ ownLeft' = [ownLeft EXCEPT ![r] = Parts]
    /\ UNCHANGED <<dbVars, now, snapVars, entryVars, loadVars, buildVars, read>>

\* ... part by part, and is answered with it; nothing is stored.
ReadOwnPart(r, part) ==
    /\ stage[r] = "own"
    /\ part \in ownLeft[r]
    /\ ownLeft' = [ownLeft EXCEPT ![r] = @ \ {part}]
    /\ answer' = [answer EXCEPT ![r][part] = content[part]]
    /\ stage' = [stage EXCEPT ![r] = IF ownLeft[r] = {part} THEN "answered" ELSE "own"]
    /\ UNCHANGED <<dbVars, now, snapVars, entryVars, loadVars, buildVars, profile, read, floor>>

Answer(r, c) ==
    /\ stage' = [stage EXCEPT ![r] = "answered"]
    /\ answer' = [answer EXCEPT ![r] = c]

\* lookup finds the entry.
LookupHits(r) ==
    /\ stage[r] = "looking"
    /\ Hit(profile[r], read[r])
    /\ Answer(r, entryContent[profile[r]])
    /\ UNCHANGED <<dbVars, now, snapVars, entryVars, loadVars, buildVars, profile, read, floor, ownLeft>>

\* lookup finds none.
LookupMisses(r) ==
    /\ stage[r] = "looking"
    /\ ~ Hit(profile[r], read[r])
    /\ stage' = [stage EXCEPT ![r] = "missed"]
    /\ UNCHANGED <<dbVars, now, snapVars, entryVars, loadVars, buildVars, profile, read, floor,
                   answer, ownLeft>>

\* Fault: polls of a profile share a build whatever version they read.
SharedBuild(r) ==
    IF \E v \in Versions : build[<<profile[r], v>>] # "none"
      THEN <<profile[r], CHOOSE v \in Versions : build[<<profile[r], v>>] # "none">>
      ELSE <<profile[r], read[r]>>

\* entryFlight.Do's key: profile and version.
BuildOf(r) == <<profile[r], read[r]>>

\* Then the poll starts the flight of its key, or joins it.  The build looks the
\* entry up once more.
JoinBuild(r) ==
    LET b == BuildOf(r) IN
    /\ stage[r] = "missed"
    /\ stage' = [stage EXCEPT ![r] = "waiting"]
    /\ read' = [read EXCEPT ![r] = b[2]]
    /\ build' = [build EXCEPT ![b] = IF @ = "none" THEN "started" ELSE @]
    /\ UNCHANGED <<dbVars, now, snapVars, entryVars, loadVars, buildContent, profile, floor,
                   answer, ownLeft>>

-----------------------------------------------------------------------------
(***************************************************************************)
(* The build: snapshotFor, loadNodeConfigSnapshot, render and store.       *)
(***************************************************************************)
SnapHit(v) == hasSnap /\ snapVersion = v /\ now - snapAt < TTL

\* The polls that wait for build b.
Waiting(b) == {r \in Polls : stage[r] = "waiting" /\ <<profile[r], read[r]>> = b}

AnswerAll(b, c) ==
    /\ stage' = [r \in Polls |-> IF r \in Waiting(b) THEN "answered" ELSE stage[r]]
    /\ answer' = [r \in Polls |-> IF r \in Waiting(b) THEN c ELSE answer[r]]

\* The second lookup finds an entry that another flight stored meanwhile.
BuildHits(b) ==
    /\ build[b] = "started"
    /\ Hit(b[1], b[2])
    /\ build' = [build EXCEPT ![b] = "none"]
    /\ AnswerAll(b, entryContent[b[1]])
    /\ UNCHANGED <<dbVars, now, snapVars, entryVars, loadVars, buildContent, profile, read, floor, ownLeft>>

\* lookupSnapshot finds the version's snapshot.
UseSnapshot(b) ==
    /\ build[b] = "started"
    /\ ~ Hit(b[1], b[2])
    /\ SnapHit(b[2])
    /\ build' = [build EXCEPT ![b] = "loaded"]
    /\ buildContent' = [buildContent EXCEPT ![b] = snapContent]
    /\ UNCHANGED <<dbVars, now, snapVars, entryVars, loadVars, pollVars>>

\* snapFlight.Do: the version's load starts, or is joined.
JoinLoad(b) ==
    /\ build[b] = "started"
    /\ ~ Hit(b[1], b[2])
    /\ ~ SnapHit(b[2])
    /\ build' = [build EXCEPT ![b] = "loading"]
    /\ loading' = loading \cup {b[2]}
    /\ IF b[2] \in loading
         THEN UNCHANGED <<toRead, got>>
         ELSE /\ toRead' = [toRead EXCEPT ![b[2]] = Parts]
              /\ got' = [got EXCEPT ![b[2]] = None]
    /\ UNCHANGED <<dbVars, now, snapVars, entryVars, buildContent, pollVars>>

\* One query of loadNodeConfigSnapshot; no transaction spans them.
ReadPart(v, part) ==
    /\ v \in loading
    /\ part \in toRead[v]
    /\ toRead' = [toRead EXCEPT ![v] = @ \ {part}]
    /\ got' = [got EXCEPT ![v][part] = content[part]]
    /\ UNCHANGED <<dbVars, now, snapVars, entryVars, loading, buildVars, pollVars>>

\* The builds that wait for the load of version v.
Joined(v) == {b \in Profiles \X Versions : b[2] = v /\ build[b] = "loading"}

\* Fault: the snapshot is filed under the version found after it was read.
FiledLate(v) == version

\* Fault: the snapshot is filed under the version the next change will have.
FiledAhead(v) == v + 1

\* storeSnapshot files the snapshot under the version it was loaded for.
FiledUnder(v) == v

\* The load is complete: stored, and handed to every build that waits for it.
LoadDone(v) ==
    /\ v \in loading
    /\ toRead[v] = {}
    /\ snapVersion' = FiledUnder(v)
    /\ snapAt' = now
    /\ snapContent' = got[v]
    /\ hasSnap' = TRUE
    /\ loading' = loading \ {v}
    /\ build' = [b \in Profiles \X Versions |-> IF b \in Joined(v) THEN "loaded" ELSE build[b]]
    /\ buildContent' = [b \in Profiles \X Versions |->
                          IF b \in Joined(v) THEN got[v] ELSE buildContent[b]]
    /\ got' = [got EXCEPT ![v] = None]
    /\ UNCHANGED <<dbVars, now, entryVars, toRead, pollVars>>

\* A query fails or the build's budget runs out: everyone waiting hears 500.
LoadFails(v) ==
    /\ v \in loading
    /\ loading' = loading \ {v}
    /\ build' = [b \in Profiles \X Versions |-> IF b \in Joined(v) THEN "none" ELSE build[b]]
    /\ stage' = [r \in Polls |->
                   IF \E b \in Joined(v) : r \in Waiting(b) THEN "idle" ELSE stage[r]]
    /\ toRead' = [toRead EXCEPT ![v] = {}]
    /\ got' = [got EXCEPT ![v] = None]
    /\ UNCHANGED <<dbVars, now, snapVars, entryVars, buildContent,
                   profile, read, floor, answer, ownLeft>>

\* renderNodeConfigEntry, and store, which drops older and expired entries.
Render(b) ==
    LET p == b[1]
        v == b[2] IN
    /\ build[b] = "loaded"
    /\ build' = [build EXCEPT ![b] = "none"]
    /\ cached' = {q \in cached : entryVersion[q] >= v /\ now - entryAt[q] < TTL} \cup {p}
    /\ entryVersion' = [entryVersion EXCEPT ![p] = v]
    /\ entryAt' = [entryAt EXCEPT ![p] = now]
    /\ entryContent' = [entryContent EXCEPT ![p] = buildContent[b]]
    /\ AnswerAll(b, buildContent[b])
    /\ buildContent' = [buildContent EXCEPT ![b] = None]
    /\ UNCHANGED <<dbVars, now, snapVars, loadVars, profile, read, floor, ownLeft>>

-----------------------------------------------------------------------------
Next ==
    \/ \E part \in Parts : Change(part)
    \/ ClockTicks
    \/ \E r \in Polls, p \in Profiles : ReadVersion(r, p) \/ VersionUnreadable(r, p)
    \/ \E r \in Polls, part \in Parts : ReadOwnPart(r, part)
    \/ \E r \in Polls : LookupHits(r) \/ LookupMisses(r) \/ JoinBuild(r)
    \/ \E b \in Profiles \X Versions :
          BuildHits(b) \/ UseSnapshot(b) \/ JoinLoad(b) \/ Render(b)
    \/ \E v \in Versions : LoadDone(v) \/ LoadFails(v)
    \/ \E v \in Versions, part \in Parts : ReadPart(v, part)

Spec == Init /\ [][Next]_vars

-----------------------------------------------------------------------------
(***************************************************************************)
(* Properties.                                                             *)
(***************************************************************************)

\* The values of the cache, the flights and the polls; what is filed under a
\* version is never filed under one the database has not reached.
TypeOK ==
    /\ content \in Contents
    /\ version \in Versions
    /\ now \in Times
    /\ snapVersion \in 0 .. version /\ snapAt \in Times
    /\ snapContent \in Contents /\ hasSnap \in BOOLEAN
    /\ cached \subseteq Profiles
    /\ entryVersion \in [Profiles -> 0 .. version]
    /\ entryAt \in [Profiles -> Times]
    /\ entryContent \in [Profiles -> Contents]
    /\ loading \subseteq 0 .. version
    /\ toRead \in [Versions -> SUBSET Parts]
    /\ got \in [Versions -> Contents]
    /\ build \in [Profiles \X Versions -> {"none", "started", "loading", "loaded"}]
    /\ buildContent \in [Profiles \X Versions -> Contents]
    /\ stage \in [Polls -> {"idle", "looking", "missed", "own", "waiting", "answered"}]
    /\ profile \in [Polls -> Profiles]
    /\ read \in [Polls -> 0 .. version]
    /\ floor \in [Polls -> Contents]
    /\ answer \in [Polls -> Contents]
    /\ ownLeft \in [Polls -> SUBSET Parts]

\* "Never serve something older than the version claims", and exactly it while
\* it lasts: whatever the cache holds under the current version is the current
\* content, although no transaction spans the reads it was built from.
CurrentIsExact ==
    /\ hasSnap /\ snapVersion = version => snapContent = content
    /\ \A p \in cached : entryVersion[p] = version => entryContent[p] = content

\* A poll is answered with everything that was committed before it began, also
\* when it joins a build or a load that others started earlier.
AnswersAreFresh ==
    \A r \in Polls : stage[r] = "answered" =>
        \A part \in Parts : answer[r][part] >= floor[r][part]
=============================================================================
