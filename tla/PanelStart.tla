---------------------------- MODULE PanelStart ----------------------------
(***************************************************************************)
(* The panel's processes start, and one of the backend processes runs the  *)
(* background jobs (cmd/panel/main.go).                                    *)
(*                                                                         *)
(* Every process takes the signing key from the database, and makes one    *)
(* when there is none: two statements, while another process does the      *)
(* same.  A backend process then asks for a session advisory lock on a     *)
(* connection of its own until it gets it, and runs the jobs until it is   *)
(* told to stop; nothing looks at that connection again.  It gives the     *)
(* lock up when one of the seven loops has returned, and waits for none of *)
(* the other six, so that they may still be in a tick.  An import and a    *)
(* restore replace the key under the running processes.                    *)
(*                                                                         *)
(* A key is the number of the start, import or restore that brought it.    *)
(***************************************************************************)
EXTENDS Integers, FiniteSets, Sequences

CONSTANTS
    ApiProcs,      \* processes with ROLE=api
    BackendProcs,  \* processes with ROLE=backend
    MaxStarts,     \* bound: process starts, and keys an import or a restore brings
    MaxDbFaults    \* bound: database errors and lost connections

Procs == ApiProcs \cup BackendProcs
Nobody == "nobody"

ASSUME StartAssumption == IsFiniteSet(Procs) /\ Nobody \notin Procs

VARIABLES
    proc,     \* process -> [at, key]
    jwt,      \* jwt_secrets in id order: [key, hex]
    holder,   \* who holds AdvisoryLockBackendSingleton
    starts, dbFaults,
    cut,      \* history: processes that lost the connection of their lock
    twice,    \* history: two processes found no key and each made one
    swapped   \* history: an import or a restore replaced the key

startVars == <<proc, jwt, holder, starts, dbFaults, cut, twice, swapped>>

Down == [at |-> "down", key |-> 0]
Fault == dbFaults < MaxDbFaults /\ dbFaults' = dbFaults + 1
Begin == starts < MaxStarts /\ starts' = starts + 1
Up(p) == proc[p].at \in {"serve", "wait", "jobs", "stopping", "lingers"}

-----------------------------------------------------------------------------
(* Start-up                                                                *)

Start(p) ==
    /\ proc[p] = Down /\ Begin
    /\ proc' = [proc EXCEPT ![p].at = "read"]
    /\ UNCHANGED <<jwt, holder, dbFaults, cut, twice, swapped>>

\* What a process with its key does next.
Ready(p) == IF p \in BackendProcs THEN "wait" ELSE "serve"

\* ensureJWTSecret reads the first row.  One it cannot decode ends the process.
ReadSecret(p) ==
    /\ proc[p].at = "read"
    /\ \/ jwt = <<>> /\ proc' = [proc EXCEPT ![p].at = "make"]
       \/ jwt # <<>> /\ jwt[1].hex /\ proc' = [proc EXCEPT ![p] = [at |-> Ready(p), key |-> jwt[1].key]]
       \/ jwt # <<>> /\ ~jwt[1].hex /\ proc' = [proc EXCEPT ![p].at = "refused"]
    /\ UNCHANGED <<jwt, holder, starts, dbFaults, cut, twice, swapped>>

\* Only ErrNoRows leads to a new key; any other error ends the process.
AfterError(p) == "down"

ReadFails(p) ==
    /\ proc[p].at = "read" /\ Fault
    /\ proc' = [proc EXCEPT ![p].at = AfterError(p)]
    /\ UNCHANGED <<jwt, holder, starts, cut, twice, swapped>>

\* CreateJWTSecret: nothing keeps the table to one row; the process keeps its own key.
MakeSecret(p) ==
    /\ proc[p].at = "make"
    /\ jwt' = Append(jwt, [key |-> starts * 10 + Len(jwt), hex |-> TRUE])
    /\ proc' = [proc EXCEPT ![p] = [at |-> Ready(p), key |-> starts * 10 + Len(jwt)]]
    /\ twice' = (twice \/ \E q \in Procs \ {p} : proc[q].at = "make")
    /\ UNCHANGED <<holder, starts, dbFaults, cut, swapped>>

\* loadLegacyImport takes a key only in the shape a start can decode.
Adoptable(hex) == hex

\* ReplaceJWTSecret; the running processes go on with the key they have.
ImportKey ==
    /\ jwt # <<>> /\ Begin
    /\ \E p \in Procs : Up(p)
    /\ \E hex \in BOOLEAN :
          /\ jwt' = IF Adoptable(hex) THEN [jwt EXCEPT ![1] = [key |-> starts * 10 + 9, hex |-> hex]] ELSE jwt
          /\ swapped' = (swapped \/ jwt' # jwt)
    /\ UNCHANGED <<proc, holder, dbFaults, cut, twice>>

\* A restore brings the key of the panel that was backed up, which had started with it.
RestoreKey ==
    /\ \E p \in Procs : Up(p)
    /\ Begin
    /\ jwt' = <<[key |-> starts * 10 + 8, hex |-> TRUE]>>
    /\ swapped' = TRUE
    /\ UNCHANGED <<proc, holder, dbFaults, cut, twice>>

-----------------------------------------------------------------------------
(* runAsBackendSingleton                                                   *)

\* Fault: the answer of pg_try_advisory_lock is not looked at.
AnyAnswer(p) == TRUE

\* pg_try_advisory_lock.
Acquires(p) == holder = Nobody

\* One round of the loop: connect, ask, and run the jobs or close and sleep.
TryLock(p) ==
    /\ proc[p].at = "wait"
    /\ Acquires(p)
    /\ holder' = p
    /\ proc' = [proc EXCEPT ![p].at = "jobs"]
    /\ UNCHANGED <<jwt, starts, dbFaults, cut, twice, swapped>>

\* The lock's connection ends (the database restarts, a middlebox drops it).  The
\* jobs use the pool and notice nothing.
LoseConnection(p) ==
    /\ proc[p].at \in {"jobs", "stopping"} /\ holder = p /\ Fault
    /\ holder' = Nobody
    /\ cut' = cut \cup {p}
    /\ UNCHANGED <<proc, jwt, starts, twice, swapped>>

\* The signal ends the context.  A process without the jobs is soon gone; one with
\* them has seven loops to end, each where it happens to be.
Shutdown(p) ==
    /\ proc[p].at \in {"serve", "wait", "jobs"}
    /\ proc' = [proc EXCEPT ![p] = IF @.at = "jobs" THEN [@ EXCEPT !.at = "stopping"] ELSE Down]
    /\ UNCHANGED <<jwt, holder, starts, dbFaults, cut, twice, swapped>>

\* pg_advisory_unlock, and the connection is closed.
Freed(p) == IF holder = p THEN Nobody ELSE holder

\* reviewjob.Run has returned: the lock is given up.  Another loop may still be in its
\* tick, as the one that marks reported usage is for up to ten seconds.
GiveUpLock(p) ==
    /\ proc[p].at = "stopping"
    /\ holder' = Freed(p)
    /\ proc' = [proc EXCEPT ![p].at = "lingers"]
    /\ UNCHANGED <<jwt, starts, dbFaults, cut, twice, swapped>>

\* run has returned, whether or not the lock was given up before: the process is gone.
Leave(p) ==
    /\ proc[p].at \in {"stopping", "lingers"}
    /\ holder' = Freed(p)
    /\ proc' = [proc EXCEPT ![p] = Down]
    /\ cut' = cut \ {p}
    /\ UNCHANGED <<jwt, starts, dbFaults, twice, swapped>>

\* The process dies, at any point; its connections end with it.
Killed(p) ==
    /\ proc[p].at # "down" /\ Fault
    /\ holder' = IF holder = p THEN Nobody ELSE holder
    /\ proc' = [proc EXCEPT ![p] = Down]
    /\ cut' = cut \ {p}
    /\ UNCHANGED <<jwt, starts, twice, swapped>>

StartInit ==
    /\ proc = [p \in Procs |-> Down]
    /\ jwt = <<>> /\ holder = Nobody
    /\ starts = 0 /\ dbFaults = 0
    /\ cut = {} /\ twice = FALSE /\ swapped = FALSE

StartNext ==
    \/ \E p \in Procs : \/ Start(p) \/ ReadSecret(p) \/ ReadFails(p) \/ MakeSecret(p)
                        \/ TryLock(p) \/ LoseConnection(p) \/ Killed(p)
                        \/ Shutdown(p) \/ GiveUpLock(p) \/ Leave(p)
    \/ ImportKey \/ RestoreKey

StartSpec == StartInit /\ [][StartNext]_startVars

-----------------------------------------------------------------------------
(* Properties                                                              *)

\* The processes whose loops may be in a tick; those that gave up the lock nevertheless.
Running == {p \in Procs : proc[p].at \in {"jobs", "stopping", "lingers"}}
Lingering == {p \in Procs : proc[p].at = "lingers"}

\* Two processes drive the background jobs at once only after one of them lost the
\* connection that held its lock, or while one that was told to stop, and gave up
\* the lock, is in its last ticks; the lock is never left behind by a process
\* that is gone; a process never finds a key it cannot decode; and all processes
\* sign with one key, unless two made the first one at once or an import or a
\* restore replaced it under them.
PanelsAgree ==
    /\ Cardinality(Running \ (cut \cup Lingering)) <= 1
    /\ holder = Nobody \/ holder \in Running \ Lingering
    /\ \A p \in Procs : proc[p].at # "refused"
    /\ twice \/ swapped \/ \A p, q \in {x \in Procs : Up(x)} : proc[p].key = proc[q].key

\* A second backend process, as in a rolling restart, "waits rather than running
\* alongside the first one".
OneBackend == Cardinality(Running) <= 1

StartTypeOK ==
    /\ \A p \in Procs : proc[p].at \in {"down", "read", "make", "refused", "serve", "wait",
                                 "jobs", "stopping", "lingers"}
    /\ holder \in Procs \cup {Nobody} /\ cut \subseteq BackendProcs
    /\ Len(jwt) <= Cardinality(Procs)

\* Panel processes that start, stop and fail in any order agree (cmd/panel/main.go).
StartIsSound == StartTypeOK /\ PanelsAgree
=============================================================================
