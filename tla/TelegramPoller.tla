--------------------------- MODULE TelegramPoller ---------------------------
(***************************************************************************)
(* How a tap or a message reaches the Telegram console: the polling loop,  *)
(* the checks of dispatch, each account's queue, and the identity that the *)
(* handler calls the panel with (internal/telegrambot: console.go,         *)
(* dispatch.go, authz.go, firstDelivery of session.go, call of api.go).    *)
(*                                                                         *)
(* Telegram numbers updates and redelivers those that no getUpdates with a *)
(* higher offset has confirmed; a restarted process polls from offset 0    *)
(* and confirms nothing at first.  Redis remembers the updates that were   *)
(* taken.  What a handler does to the panel is TelegramConsole's.          *)
(***************************************************************************)
EXTENDS Integers, Sequences, FiniteSets, SequencesExt

CONSTANTS
  Accounts,    \* Telegram accounts
  Listed,      \* those on the integration settings' admin list
  AdminNames,  \* panel administrators, in the order ListAdmins returns them
  Bound,       \* their telegram_id at first
  MaxQueued,   \* maxQueued, 50
  Burst,       \* limitBurst, 10
  MaxSent,     \* bound: updates
  MaxChanges,  \* bound: changes of the admins table, Redis failures
  MaxStarts    \* bound: restarts of the process or of its polling

ASSUME TelegramAssumption ==
  /\ Listed \subseteq Accounts
  /\ AdminNames \in Seq(STRING) /\ Bound \in [1..Len(AdminNames) -> Accounts]
  /\ MaxQueued \in Nat \ {0} /\ Burst \in Nat \ {0}
  /\ MaxSent \in Nat /\ MaxChanges \in Nat /\ MaxStarts \in Nat

Nobody == ""      \* no panel identity
EnvSudo == "env"  \* the sudo account of the environment

VARIABLES
  sentBy,     \* Telegram: the account of each update, by its id
  confirmed,  \* Telegram: updates up to here are not delivered again
  offset,     \* Run's offset: the ids below it are done with
  batch,      \* updates of the last poll that are not dispatched yet
  admins,     \* the admins table: each row's Telegram account and privileges
  authByID,   \* adminsFor's copy of the table; <<>> before the first read
  envSudo,    \* is there a sudo account in the environment?
  taken,      \* Redis: updates that firstDelivery has marked
  tokens,     \* each account's token bucket
  queue,      \* each account's pending updates, with the identity they got
  workers,    \* goroutines that serve each account's queue
  busy,       \* each account's jobs that are being handled
  ran,        \* history: the updates that were handled, by account
  unmarked,   \* history: updates that Redis failed to mark
  overstepped, \* history: the last call was allowed more than its administrator was
  changes,    \* changes and Redis failures so far
  starts      \* restarts of the process or of its polling so far

pollVars == <<sentBy, confirmed, offset, batch, admins, authByID, envSudo, taken, tokens,
              queue, workers, busy, ran, unmarked, overstepped, changes, starts>>

Gone == [account |-> "none", sudo |-> FALSE, owner |-> FALSE]

PollInit ==
  /\ sentBy = <<>>
  /\ confirmed = 0 /\ offset = 0 /\ batch = <<>>
  /\ admins = [i \in 1..Len(AdminNames) |->
                 [account |-> Bound[i], sudo |-> i = 1, owner |-> FALSE]]
  /\ authByID = <<>>
  /\ envSudo \in BOOLEAN
  /\ taken = {} /\ unmarked = {}
  /\ tokens = [a \in Accounts |-> Burst]
  /\ queue = [a \in Accounts |-> <<>>]
  /\ workers = [a \in Accounts |-> 0]
  /\ busy = [a \in Accounts |-> {}]
  /\ ran = [a \in Accounts |-> <<>>]
  /\ overstepped = FALSE
  /\ changes = 0 /\ starts = 0

----------------------------------------------------------------------------
(* Polling *)

(* An account taps a button or writes to the bot. *)
SendUpdate(a) ==
  /\ Len(sentBy) < MaxSent
  /\ sentBy' = Append(sentBy, a)
  /\ UNCHANGED <<confirmed, offset, batch, admins, authByID, envSudo, taken, tokens, queue,
                 workers, busy, ran, unmarked, overstepped, changes, starts>>

(* getUpdates, once the last batch is dispatched: the offset confirms what   *)
(* is below it, and everything else comes, however often it came before.     *)
(* The answer is lost when the call fails; the confirmation is not.          *)
GetUpdates ==
  /\ batch = <<>>
  /\ offset # Len(sentBy) + 1
  /\ confirmed' = IF offset > confirmed + 1 THEN offset - 1 ELSE confirmed
  /\ \/ batch' = [i \in 1..(Len(sentBy) - confirmed') |-> confirmed' + i]
     \/ batch' = <<>> /\ confirmed' # confirmed
  /\ UNCHANGED <<sentBy, offset, admins, authByID, envSudo, taken, tokens, queue, workers, busy,
                 ran, unmarked, overstepped, changes, starts>>

(* The token or the proxy changes: Run starts over from offset 0. *)
NewBotClient ==
  /\ batch = <<>>
  /\ starts < MaxStarts
  /\ starts' = starts + 1
  /\ offset' = 0
  /\ UNCHANGED <<sentBy, confirmed, batch, admins, authByID, envSudo, taken, tokens, queue,
                 workers, busy, ran, unmarked, overstepped, changes>>

(* The process stops: queues and the offset are lost, Redis and what the     *)
(* handlers had done are not.                                                *)
Restart ==
  /\ starts < MaxStarts
  /\ starts' = starts + 1
  /\ offset' = 0 /\ batch' = <<>>
  /\ authByID' = <<>>
  /\ tokens' = [a \in Accounts |-> Burst]
  /\ queue' = [a \in Accounts |-> <<>>]
  /\ workers' = [a \in Accounts |-> 0]
  /\ busy' = [a \in Accounts |-> {}]
  /\ UNCHANGED <<sentBy, confirmed, admins, envSudo, taken, ran, unmarked, overstepped, changes>>

----------------------------------------------------------------------------
(* Dispatch *)

(* adminsFor re-reads the table when its copy is older than authTTL; a       *)
(* failing read keeps the copy.                                              *)
AdminsFor == {admins} \cup IF authByID = <<>> THEN {} ELSE {authByID}

First(rows, P(_)) ==
  LET ok == {i \in DOMAIN rows : P(rows[i])}
  IN IF ok = {} THEN Nobody ELSE AdminNames[CHOOSE i \in ok : \A j \in ok : i <= j]

FirstOf(names) ==
  LET known == SelectSeq(names, LAMBDA n : n # Nobody)
  IN IF known = <<>> THEN Nobody ELSE Head(known)

(* authorize: the identity that the account acts as. *)
Authorize(a, rows) ==
  LET boundSudo == First(rows, LAMBDA r : r.account = a /\ r.sudo)
      fallback  == FirstOf(<<First(rows, LAMBDA r : r.sudo /\ r.owner),
                             First(rows, LAMBDA r : r.sudo)>>)
  IN IF boundSudo # Nobody THEN boundSudo
     ELSE IF a \in Listed THEN IF envSudo THEN EnvSudo ELSE fallback
     ELSE First(rows, LAMBDA r : r.account = a)

\* Fault: updates are not remembered.
AlwaysFirst(id) == TRUE

FirstDelivery(id) == id \notin taken

\* Fault: a goroutine is started for every update.
WorkersAlways(a) == workers[a] + 1

(* enqueue starts a goroutine unless one serves the queue. *)
WorkersFor(a) == IF workers[a] = 0 THEN 1 ELSE workers[a]

Enqueue(a, job) ==
  IF Len(queue[a]) >= MaxQueued THEN UNCHANGED <<queue, workers>>
  ELSE /\ queue' = [queue EXCEPT ![a] = Append(@, job)]
       /\ workers' = [workers EXCEPT ![a] = WorkersFor(a)]

(* dispatch: refuse a stranger, throttle, drop what was taken before, queue. *)
Dispatch ==
  /\ batch # <<>>
  /\ batch' = Tail(batch)
  /\ LET id == Head(batch)
         a  == sentBy[id]
     IN /\ offset' = IF id >= offset THEN id + 1 ELSE offset
        /\ \E rows \in AdminsFor :
             LET who == Authorize(a, rows)
                 job == [id |-> id, who |-> who, start |-> starts]
             IN /\ authByID' = rows
                /\ \/ /\ who = Nobody \/ tokens[a] = 0
                      /\ UNCHANGED <<tokens, taken, queue, workers, unmarked, changes>>
                   \/ /\ who # Nobody /\ tokens[a] > 0
                      /\ tokens' = [tokens EXCEPT ![a] = @ - 1]
                      /\ \/ /\ taken' = taken \cup {id}
                            /\ IF FirstDelivery(id) THEN Enqueue(a, job)
                               ELSE UNCHANGED <<queue, workers>>
                            /\ UNCHANGED <<unmarked, changes>>
                         \/ \* Redis fails: better a rare duplicate
                            /\ changes < MaxChanges
                            /\ changes' = changes + 1
                            /\ unmarked' = unmarked \cup {id}
                            /\ Enqueue(a, job)
                            /\ UNCHANGED taken
  /\ UNCHANGED <<sentBy, confirmed, admins, envSudo, busy, ran, overstepped, starts>>

(* allow: the bucket fills up with time. *)
Refill(a) ==
  /\ tokens[a] < Burst
  /\ tokens' = [tokens EXCEPT ![a] = Burst]
  /\ UNCHANGED <<sentBy, confirmed, offset, batch, admins, authByID, envSudo, taken, queue,
                 workers, busy, ran, unmarked, overstepped, changes, starts>>

----------------------------------------------------------------------------
(* The account's goroutine *)

NextJob(a) ==
  /\ Cardinality(busy[a]) < workers[a]
  /\ queue[a] # <<>>
  /\ queue' = [queue EXCEPT ![a] = Tail(@)]
  /\ busy' = [busy EXCEPT ![a] = @ \cup {Head(queue[a])}]
  /\ ran' = [ran EXCEPT ![a] = Append(@, <<Head(queue[a]).id, Head(queue[a]).start>>)]
  /\ UNCHANGED <<sentBy, confirmed, offset, batch, admins, authByID, envSudo, taken, tokens,
                 workers, unmarked, overstepped, changes, starts>>

WorkerEnds(a) ==
  /\ Cardinality(busy[a]) < workers[a]
  /\ queue[a] = <<>>
  /\ workers' = [workers EXCEPT ![a] = @ - 1]
  /\ UNCHANGED <<sentBy, confirmed, offset, batch, admins, authByID, envSudo, taken, tokens,
                 queue, busy, ran, unmarked, overstepped, changes, starts>>

RowNamed(n) == IF \E i \in DOMAIN admins : AdminNames[i] = n
               THEN admins[CHOOSE i \in DOMAIN admins : AdminNames[i] = n] ELSE Gone

\* Fault: the identity of the dispatch is believed.
RightsOfDispatch(who, rowSudo) ==
  who = EnvSudo \/ \E i \in DOMAIN authByID : AdminNames[i] = who /\ authByID[i].sudo

(* The panel judges the call by the name in its token: the environment's     *)
(* account is sudo, any other is what its row says now.                      *)
RightsOfCall(who, rowSudo) == who = EnvSudo \/ rowSudo

(* A handler's call: a token for its identity, and the panel's own router.   *)
PanelCall(a, job) ==
  /\ job \in busy[a]
  /\ LET row == RowNamed(job.who)
     IN /\ row # Gone \/ job.who = EnvSudo
        /\ overstepped' = (RightsOfCall(job.who, row.sudo) /\ job.who # EnvSudo /\ ~row.sudo)
  /\ UNCHANGED <<sentBy, confirmed, offset, batch, admins, authByID, envSudo, taken, tokens,
                 queue, workers, busy, ran, unmarked, changes, starts>>

(* A handler returns, or panics and is recovered. *)
JobEnds(a, job) ==
  /\ job \in busy[a]
  /\ busy' = [busy EXCEPT ![a] = @ \ {job}]
  /\ UNCHANGED <<sentBy, confirmed, offset, batch, admins, authByID, envSudo, taken, tokens,
                 queue, workers, ran, unmarked, overstepped, changes, starts>>

(* Elsewhere an administrator is deleted, demoted or given another account.  *)
AdminChanges(i) ==
  /\ changes < MaxChanges
  /\ changes' = changes + 1
  /\ admins[i] # Gone
  /\ \E row \in {Gone, [admins[i] EXCEPT !.sudo = ~@], [admins[i] EXCEPT !.owner = ~@]}
       \cup {[admins[i] EXCEPT !.account = a] : a \in Accounts \ {admins[i].account}} :
       admins' = [admins EXCEPT ![i] = row]
  /\ UNCHANGED <<sentBy, confirmed, offset, batch, authByID, envSudo, taken, tokens, queue,
                 workers, busy, ran, unmarked, overstepped, starts>>

PollNext ==
  \/ \E a \in Accounts :
       \/ SendUpdate(a) \/ Refill(a)
       \/ NextJob(a) \/ WorkerEnds(a)
       \/ \E job \in busy[a] : PanelCall(a, job) \/ JobEnds(a, job)
  \/ GetUpdates \/ NewBotClient \/ Restart \/ Dispatch
  \/ \E i \in DOMAIN admins : AdminChanges(i)

PollSpec == PollInit /\ [][PollNext]_pollVars

----------------------------------------------------------------------------
PollTypeOK ==
  /\ sentBy \in Seq(Accounts)
  /\ confirmed \in 0..MaxSent /\ offset \in 0..MaxSent + 1
  /\ \A a \in Accounts : Len(queue[a]) <= MaxQueued
  /\ tokens \in [Accounts -> 0..Burst]
  /\ workers \in [Accounts -> Nat]
  /\ taken \subseteq 1..MaxSent /\ unmarked \subseteq 1..MaxSent

(* However updates are redelivered, an account's taps are handled one at a   *)
(* time and each at most once, and in the order they were made as long as    *)
(* the polling goes on; an update that Redis failed to mark may come again   *)
(* (session.go:83, console.go:213).                                          *)
TapsInOrderOnce ==
  \A a \in Accounts :
    /\ Cardinality(busy[a]) <= 1
    /\ \A i, j \in 1..Len(ran[a]) :
         LET s == ran[a][i]
             t == ran[a][j]
         IN i < j /\ {s[1], t[1]} \cap unmarked = {} =>
              /\ s[1] # t[1]
              /\ s[2] = t[2] => s[1] < t[1]

(* The identity is fixed when the tap is dispatched, from a copy of the      *)
(* table, and used later: even so no call has more rights than the named     *)
(* administrator has when it is made (authz.go:29, api.go:46).               *)
NoBorrowedRights == ~overstepped

(* A tap takes effect once, in its turn, with the rights of its sender       *)
(* (console.go, authz.go).                                                   *)
TapsAreSafe == PollTypeOK /\ TapsInOrderOnce /\ NoBorrowedRights
=============================================================================
