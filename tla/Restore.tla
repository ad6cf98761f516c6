------------------------------ MODULE Restore ------------------------------
(***************************************************************************)
(* Backups, restores and imports from another panel                        *)
(* (internal/httpapi/backup.go, legacyimport.go, the maintenance flag of   *)
(* internal/cache and router.go's middleware).                             *)
(*                                                                         *)
(* A restore raises a flag in Redis that turns requests and job ticks      *)
(* away, takes a safety backup, replaces the database in one transaction   *)
(* and flushes the cache.  An import does the same but empties tables and  *)
(* inserts row by row.  Requests that passed the flag before it went up    *)
(* are still running, two restores can overlap, every call can fail, and   *)
(* the process can die, which runs none of its deferred calls.             *)
(*                                                                         *)
(* A backup is named by its number: names carry the time they were made.   *)
(***************************************************************************)
EXTENDS Integers, FiniteSets, FiniteSetsExt, Sequences

CONSTANTS
    Tellers,       \* requests and job ticks that write or read through the cache
    Operators,     \* administrators' backup, restore and import requests
    OldAdmins,     \* the source panel's admins: a sequence of their ids there
    OldUsers,      \* its users: a sequence of [src, admin]
    BackupKeep,    \* DB_BACKUP_KEEP
    MaxRows,       \* bound: users the tellers create
    MaxTogether,   \* bound: the same once two restores have overlapped
    MaxDumps,      \* bound: backups ever made
    MaxUpsets      \* bound: failed calls, unreadable flags and crashes

\* An import brings an admin and a user at least.
ASSUME RestoreAssumption ==
    /\ BackupKeep \in Nat /\ MaxRows \in Nat \ {0} /\ MaxTogether \in Nat /\ MaxDumps \in Nat /\ MaxUpsets \in Nat
    /\ OldAdmins \in Seq(Nat) /\ OldUsers \in Seq([src : Nat, admin : Nat])
    /\ OldAdmins # <<>> /\ OldUsers # <<>>

VARIABLES
    data,       \* the database: [users, admins, seq, aseq]
    upkeep,     \* the maintenance flag
    files,      \* the backups on disk: [no, of, whole]
    dumps,      \* backups ever made
    teller,     \* each teller: [at, saw]
    work,       \* each operator's request
    held,       \* the cache: nothing, data of "now", or data of a database in the "past"
    rows,       \* users the tellers created so far
    upsets,
    during,     \* history: users created while a restore was under way
    uncovered,  \* history: users a restore dropped that its safety backup lacks
    lateFill,   \* history: an old reading was cached, or a flush failed
    crossed,    \* history: a restore began while another was under way
    lame,       \* history: an operator's process died, could not lift the flag, or got
                \*   no answer when it raised it
    unsynced    \* history: the user id sequence could not be moved, or a backup that was
                \*   asked for before the flag went up caught an import before it was

restVars == <<data, upkeep, files, dumps, teller, work, held, rows, upsets,
              during, uncovered, lateFill, crossed, lame, unsynced>>
histVars == <<during, uncovered, lateFill, crossed, lame, unsynced>>

Fresh0 == [users |-> {}, admins |-> {}, seq |-> 0, aseq |-> 0]
Rest == [kind |-> "none", pc |-> 1, safety |-> Fresh0, no |-> 0, from |-> Fresh0,
         whole |-> TRUE, next |-> 1, ids |-> <<>>, keepIds |-> FALSE]
Busy(o) == work[o].kind # "none"

\* Something fails.
Upset == upsets < MaxUpsets /\ upsets' = upsets + 1
IdsOf(table) == {x.id : x \in table}
MadeHere(table) == {x.row : x \in {u \in table : u.row > 0}}

\* Fault: a restore takes its safety backup before it raises the flag.
SafetyThenFlag(kind) ==
    IF kind = "restore" THEN <<"dump", "flag", "replace", "flush", "lift">>
    ELSE IF kind = "backup" THEN <<"dump">>
    ELSE <<"flag", "dump", "truncate", "admins", "users", "sync", "flush", "lift">>

\* What handleCreateBackup, restoreFromReader and loadLegacyImport do, in order.
Course(kind) ==
    IF kind = "restore" THEN <<"flag", "dump", "replace", "flush", "lift">>
    ELSE IF kind = "backup" THEN <<"dump">>
    ELSE <<"flag", "dump", "truncate", "admins", "users", "sync", "flush", "lift">>

Doing(o, stage) == Busy(o) /\ Course(work[o].kind)[work[o].pc] = stage
\* Past its flag, and not over.
UnderWay(o) == Busy(o) /\ work[o].kind # "backup"
               /\ \E i \in 1 .. work[o].pc - 1 : Course(work[o].kind)[i] = "flag"

\* The request goes on to its next stage, or is over.
Advanced(w) ==
    IF w.pc = Len(Course(w.kind)) THEN Rest
    ELSE IF Course(w.kind)[w.pc] \in {"dump", "flag"} THEN [w EXCEPT !.pc = @ + 1]
    ELSE [Rest EXCEPT !.kind = w.kind, !.pc = w.pc + 1, !.ids = w.ids, !.keepIds = w.keepIds]
\* An error returns, which runs the deferred lift when the flag was raised.
\* Fault: an error returns and the flag stays up.
ReturnsBare(w) == Rest
Failed(w) == IF w.kind = "backup" THEN Rest ELSE [Rest EXCEPT !.kind = w.kind, !.pc = Len(Course(w.kind))]

-----------------------------------------------------------------------------
(* Requests and job ticks                                                  *)

\* maintenanceMiddleware and the jobs' own checks: an unreadable flag lets them by.
Admit(t) ==
    /\ teller[t].at = "out"
    /\ \/ ~upkeep /\ UNCHANGED upsets
       \/ upkeep /\ Upset
    /\ teller' = [teller EXCEPT ![t].at = "in"]
    /\ UNCHANGED <<data, upkeep, files, dumps, work, held, rows, histVars>>

\* A user is created: the next id of the sequence, refused when it is taken.
TellerWrites(t) ==
    /\ teller[t].at = "in"
    /\ rows < MaxRows /\ (crossed => rows < MaxTogether)
    /\ rows' = rows + 1
    /\ LET id == data.seq + 1 IN
       data' = [data EXCEPT !.seq = id,
                            !.users = IF id \in IdsOf(@) THEN @
                                      ELSE @ \cup {[id |-> id, row |-> rows + 1, src |-> 0, owner |-> 0]}]
    /\ during' = IF \E o \in Operators : UnderWay(o) THEN during \cup {rows + 1} ELSE during
    /\ teller' = [teller EXCEPT ![t].at = "out"]
    /\ UNCHANGED <<upkeep, files, dumps, work, held, upsets, uncovered, lateFill, crossed, lame, unsynced>>

\* A read through the cache that misses: first the database, then the cache.
TellerReads(t) ==
    /\ teller[t].at = "in"
    /\ teller' = [teller EXCEPT ![t] = [at |-> "read", saw |-> "now"]]
    /\ UNCHANGED <<data, upkeep, files, dumps, work, held, rows, upsets, histVars>>

TellerFills(t) ==
    /\ teller[t].at = "read"
    /\ held' = teller[t].saw
    /\ lateFill' = (lateFill \/ teller[t].saw = "past")
    /\ teller' = [teller EXCEPT ![t] = [at |-> "out", saw |-> "none"]]
    /\ UNCHANGED <<data, upkeep, files, dumps, work, rows, upsets, during, uncovered, crossed, lame, unsynced>>

-----------------------------------------------------------------------------
(* Backups                                                                 *)

\* A request passes the middleware.  A restore opens a listed backup, one still
\* being written included; an upload brings its own data or another panel's.
Ask(o) ==
    /\ ~Busy(o) /\ ~upkeep /\ dumps < MaxDumps
    /\ \/ work' = [work EXCEPT ![o] = [Rest EXCEPT !.kind = "backup"]]
       \/ \E f \in files : work' = [work EXCEPT ![o] = [Rest EXCEPT !.kind = "restore", !.from = f.of, !.whole = f.whole]]
       \/ work' = [work EXCEPT ![o] = [Rest EXCEPT !.kind = "restore"]]
       \/ \E k \in BOOLEAN : work' = [work EXCEPT ![o] = [Rest EXCEPT !.kind = "import", !.keepIds = k]]
    /\ UNCHANGED <<data, upkeep, files, dumps, teller, held, rows, upsets, histVars>>

\* SetMaintenanceMode(true).  When it fails the request ends, and lifts nothing: the
\* flag stays up when only the answer was lost.
RaiseFlag(o) ==
    /\ Doing(o, "flag")
    /\ \/ /\ upkeep' = TRUE
          /\ work' = [work EXCEPT ![o] = Advanced(@)]
          /\ crossed' = (crossed \/ \E p \in Operators \ {o} : UnderWay(p))
          /\ crossed' => rows <= MaxTogether
          /\ UNCHANGED <<upsets, lame>>
       \/ /\ Upset
          /\ work' = [work EXCEPT ![o] = Rest]
          /\ \/ UNCHANGED <<upkeep, lame>>
             \/ upkeep' = TRUE /\ lame' = TRUE
          /\ UNCHANGED crossed
    /\ UNCHANGED <<data, files, dumps, teller, held, rows, during, uncovered, lateFill, unsynced>>

\* An import that inserts users with their old ids and has not moved the sequence.
KeepsIds(o) == work[o].keepIds /\ (Doing(o, "users") \/ Doing(o, "sync"))

\* createBackupNow creates the file; pg_dump reads one snapshot.
BeginDump(o) ==
    /\ Doing(o, "dump") /\ work[o].no = 0
    /\ dumps < MaxDumps
    /\ dumps' = dumps + 1
    /\ files' = files \cup {[no |-> dumps + 1, of |-> data, whole |-> FALSE]}
    /\ work' = [work EXCEPT ![o].no = dumps + 1, ![o].safety = data]
    /\ unsynced' = (unsynced \/ \E p \in Operators : KeepsIds(p))
    /\ UNCHANGED <<data, upkeep, teller, held, rows, upsets, during, uncovered, lateFill, crossed, lame>>

\* pruneOldBackups: the newest backupKeep stay; none is pruned when it is zero.
Pruned(fs) ==
    IF BackupKeep = 0 THEN fs
    ELSE {f \in fs : Cardinality({g \in fs : g.no > f.no}) < BackupKeep}

\* The dump is complete, the directory pruned, the file read back.
EndDump(o) ==
    /\ Doing(o, "dump") /\ work[o].no > 0
    /\ files' = Pruned({IF f.no = work[o].no THEN [f EXCEPT !.whole = TRUE] ELSE f : f \in files})
    /\ work' = [work EXCEPT ![o] = IF work[o].no \in {f.no : f \in files'} THEN Advanced(@) ELSE Failed(@)]
    /\ UNCHANGED <<data, upkeep, dumps, teller, held, rows, upsets, histVars>>

\* pg_dump or the disk fails: the file is removed, the request refused.
DumpFails(o) ==
    /\ Doing(o, "dump") /\ work[o].no > 0 /\ Upset
    /\ files' = {f \in files : f.no # work[o].no}
    /\ work' = [work EXCEPT ![o] = Failed(@)]
    /\ UNCHANGED <<data, upkeep, dumps, teller, held, rows, histVars>>

\* handleDeleteBackup, by a request that passed the middleware.
DeleteBackup ==
    /\ ~upkeep
    /\ \E f \in files : f.whole /\ files' = files \ {f}
    /\ UNCHANGED <<data, upkeep, dumps, teller, work, held, rows, upsets, histVars>>

-----------------------------------------------------------------------------
(* Restores                                                                *)

\* What was read of the database before it was replaced is of the past.
Older(x) == IF x = "now" THEN "past" ELSE x
Supersede ==
    /\ held' = Older(held)
    /\ teller' = [t \in Tellers |-> [teller[t] EXCEPT !.saw = Older(@)]]

Dropped(o, new) == MadeHere(data.users) \ (MadeHere(new) \cup MadeHere(work[o].safety.users))

\* execPsqlRestore: one transaction.  A dump that ends early stops the input; what
\* psql then does with what it was sent is its own affair.
ReplaceDatabase(o) ==
    /\ Doing(o, "replace")
    /\ LET new == [work[o].from EXCEPT !.users = IF work[o].whole THEN @ ELSE {}] IN
       /\ data' = new
       /\ uncovered' = uncovered \cup Dropped(o, new.users)
    /\ Supersede
    /\ work' = [work EXCEPT ![o] = IF work[o].whole THEN Advanced(@) ELSE Failed(@)]
    /\ lateFill' = (lateFill \/ ~work[o].whole)
    /\ UNCHANGED <<upkeep, files, dumps, rows, upsets, during, crossed, lame, unsynced>>

\* psql or the truncate fails, and the database is as it was.
RestoreFails(o) ==
    /\ Doing(o, "replace") \/ Doing(o, "truncate")
    /\ Upset
    /\ work' = [work EXCEPT ![o] = Failed(@)]
    /\ UNCHANGED <<data, upkeep, files, dumps, teller, held, rows, histVars>>

-----------------------------------------------------------------------------
(* Imports                                                                 *)

\* TruncateForLegacyImport, with RESTART IDENTITY.
TruncateTables(o) ==
    /\ Doing(o, "truncate")
    /\ data' = Fresh0
    /\ uncovered' = uncovered \cup Dropped(o, {})
    /\ Supersede
    /\ work' = [work EXCEPT ![o] = [Advanced(@) EXCEPT !.ids = [i \in 1 .. Len(OldAdmins) |-> 0]]]
    /\ UNCHANGED <<upkeep, files, dumps, rows, upsets, during, lateFill, crossed, lame, unsynced>>

\* ImportAdmin, and adminIDMap: the id it got here.  A failure skips the row.
ImportAdmin(o) ==
    /\ Doing(o, "admins")
    /\ LET i == work[o].next
           id == data.aseq + 1
           last == i = Len(OldAdmins)
           w == IF last THEN Advanced(work[o]) ELSE [work[o] EXCEPT !.next = i + 1] IN
       \/ /\ data' = [data EXCEPT !.aseq = id, !.admins = @ \cup {[id |-> id, src |-> OldAdmins[i]]}]
          /\ work' = [work EXCEPT ![o] = [w EXCEPT !.ids[i] = id]]
          /\ UNCHANGED upsets
       \/ /\ Upset
          /\ work' = [work EXCEPT ![o] = w]
          /\ UNCHANGED data
    /\ UNCHANGED <<upkeep, files, dumps, teller, held, rows, histVars>>

\* Fault: the source panel's admin id is kept as it was.
OwnerThere(o, src) == src

\* adminIDMap[*u.SourceAdminID]; a user whose admin was not imported has none.
OwnerHere(o, src) ==
    LET known == {i \in 1 .. Len(OldAdmins) : OldAdmins[i] = src /\ work[o].ids[i] > 0}
    IN  IF known = {} THEN 0 ELSE work[o].ids[CHOOSE i \in known : TRUE]

\* ImportUser, or ImportUserWithID when the source panel's ids are kept.
ImportUser(o) ==
    /\ Doing(o, "users")
    /\ LET u == OldUsers[work[o].next]
           id == IF work[o].keepIds THEN u.src ELSE data.seq + 1
           w == IF work[o].next = Len(OldUsers) THEN Advanced(work[o])
                ELSE [work[o] EXCEPT !.next = @ + 1]
           taken == id \in IdsOf(data.users)
           row == [id |-> id, row |-> 0, src |-> u.src, owner |-> OwnerHere(o, u.admin)] IN
       /\ work' = [work EXCEPT ![o] = w]
       /\ \/ /\ data' = [data EXCEPT !.seq = IF work[o].keepIds THEN @ ELSE id,
                                     !.users = IF taken THEN @ ELSE @ \cup {row}]
             /\ UNCHANGED upsets
          \/ /\ Upset
             /\ UNCHANGED data
    /\ UNCHANGED <<upkeep, files, dumps, teller, held, rows, histVars>>

\* Fault: the sequence stays where the truncate left it.
LeaveSequence(d) == d

\* setval(max(id)): back to the start when no user was imported.
SyncUsersIDSequence(d) == [d EXCEPT !.seq = Max(IdsOf(d.users) \cup {0})]

SyncSequence(o) ==
    /\ Doing(o, "sync")
    /\ \/ /\ data' = IF work[o].keepIds THEN SyncUsersIDSequence(data) ELSE data
          /\ UNCHANGED <<upsets, unsynced>>
       \/ /\ work[o].keepIds /\ Upset
          /\ unsynced' = TRUE
          /\ UNCHANGED data
    /\ work' = [work EXCEPT ![o] = Advanced(@)]
    /\ UNCHANGED <<upkeep, files, dumps, teller, held, rows, during, uncovered, lateFill, crossed, lame>>

-----------------------------------------------------------------------------
(* The end of a restore or import                                          *)

\* FlushAll empties Redis, the flag with it.
FlushCache(o) ==
    /\ Doing(o, "flush")
    /\ \/ held' = "none" /\ upkeep' = FALSE /\ UNCHANGED <<upsets, lateFill>>
       \/ Upset /\ lateFill' = TRUE /\ UNCHANGED <<held, upkeep>>
    /\ work' = [work EXCEPT ![o] = Advanced(@)]
    /\ UNCHANGED <<data, files, dumps, teller, rows, during, uncovered, crossed, lame, unsynced>>

\* The deferred SetMaintenanceMode(false), whose error nobody looks at.
LiftFlag(o) ==
    /\ Doing(o, "lift")
    /\ \/ upkeep' = FALSE /\ UNCHANGED <<upsets, lame>>
       \/ Upset /\ lame' = TRUE /\ UNCHANGED upkeep
    /\ work' = [work EXCEPT ![o] = Rest]
    /\ UNCHANGED <<data, files, dumps, teller, held, rows, during, uncovered, lateFill, crossed, unsynced>>

\* The process dies: a dump stays unfinished, an import partial, the flag up.
Die(o) ==
    /\ Busy(o) /\ Upset
    /\ work' = [work EXCEPT ![o] = Rest]
    /\ lame' = TRUE
    /\ lateFill' = (lateFill \/ UnderWay(o))
    /\ unsynced' = (unsynced \/ Doing(o, "users") \/ Doing(o, "sync"))
    /\ UNCHANGED <<data, upkeep, files, dumps, teller, held, rows, during, uncovered, crossed>>

RestoreInit ==
    /\ data = [Fresh0 EXCEPT !.users = {[id |-> 1, row |-> 1, src |-> 0, owner |-> 0]}, !.seq = 1]
    /\ upkeep = FALSE /\ files = {} /\ dumps = 0
    /\ teller = [t \in Tellers |-> [at |-> "out", saw |-> "none"]]
    /\ work = [o \in Operators |-> Rest]
    /\ held = "now" /\ rows = 1 /\ upsets = 0
    /\ during = {} /\ uncovered = {}
    /\ lateFill = FALSE /\ crossed = FALSE /\ lame = FALSE /\ unsynced = FALSE

RestoreNext ==
    \/ \E t \in Tellers : Admit(t) \/ TellerWrites(t) \/ TellerReads(t) \/ TellerFills(t)
    \/ \E o \in Operators :
          \/ Ask(o) \/ RaiseFlag(o) \/ BeginDump(o) \/ EndDump(o) \/ DumpFails(o)
          \/ ReplaceDatabase(o) \/ RestoreFails(o)
          \/ TruncateTables(o) \/ ImportAdmin(o) \/ ImportUser(o) \/ SyncSequence(o)
          \/ FlushCache(o) \/ LiftFlag(o) \/ Die(o)
    \/ DeleteBackup

RestoreSpec == RestoreInit /\ [][RestoreNext]_restVars

-----------------------------------------------------------------------------
(* Properties                                                              *)

\* A restore or import that overlaps no other never drops a user its safety backup
\* lacks, other than one a request still running created after the flag went up.
SafetyCovers == ~crossed => uncovered \subseteq during

\* The flag stays up only while a restore or import is under way, whatever step of it
\* fails and whatever overlaps, so that the panel turns nobody away for nothing; but
\* for what no deferred call can mend: the process died, or Redis did not answer the
\* call that raises or lifts it.
FlagHasOwner == upkeep => lame \/ \E o \in Operators : UnderWay(o)

\* Once no restore is under way, what the cache holds was read from the database
\* in place, unless a request read the old one and stored it after the flush, the
\* flush was not reached or failed, or a file that ends early was restored.
CacheFollows == (\A o \in Operators : ~Busy(o)) => lateFill \/ held # "past"

\* While no two overlap, an imported user belongs to the admin that owned it there, or
\* to none; and no user's id lies ahead of the sequence, where the next one created
\* would meet it, unless the sequence could not be moved or a dump caught an import
\* before it was.
ImportsLandRight ==
    ~crossed =>
      /\ \A u \in data.users : u.src > 0 /\ u.owner > 0 =>
            \E a \in data.admins, o \in 1 .. Len(OldUsers) :
               a.id = u.owner /\ OldUsers[o].src = u.src /\ a.src = OldUsers[o].admin
      /\ (\A o \in Operators : ~Busy(o)) /\ ~unsynced =>
            \A u \in data.users : u.id <= data.seq

RestoreTypeOK ==
    /\ upkeep \in BOOLEAN
    /\ files \subseteq [no : 1 .. MaxDumps, of : {f.of : f \in files}, whole : BOOLEAN]
    /\ \A o \in Operators : work[o].pc \in 1 .. Len(Course(work[o].kind)) \/ ~Busy(o)
    /\ held \in {"none", "now", "past"}
    /\ rows \in 1 .. MaxRows /\ during \subseteq 1 .. MaxRows /\ uncovered \subseteq 1 .. MaxRows

\* Backups, restores and imports may overlap, fail or die at any step.  The panel serves
\* again and its cache follows the database, with the exceptions named above (lame,
\* lateFill); and what one that overlaps no other drops was saved, and what it imports
\* lands right (crossed, unsynced) (backup.go, legacyimport.go).
RestoreSafe == RestoreTypeOK /\ SafetyCovers /\ FlagHasOwner /\ CacheFollows /\ ImportsLandRight
=============================================================================
