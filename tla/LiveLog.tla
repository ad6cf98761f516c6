------------------------------ MODULE LiveLog ------------------------------
(***************************************************************************)
(* One node's log on its way to an admin's browser.                        *)
(*                                                                         *)
(* The agent keeps its newest lines in a ring (internal/nodelog/ring.go)   *)
(* and posts a live request every few seconds (cmd/node/live.go); while an *)
(* admin watches the node, the requests carry lines.  The panel's handler  *)
(* (internal/httpapi/nodelive.go) first reads the cursor of what it has    *)
(* stored, then appends the newer lines and moves the cursor in one Redis  *)
(* transaction, and answers with the cursor.  The browser polls            *)
(* GET /api/logs (internal/httpapi/logs.go) with a cursor of its own, and  *)
(* every poll renews the key that makes the node stream.                   *)
(*                                                                         *)
(* Requests and answers get lost, the agent gives a request up after 4 s   *)
(* while its handler may still be running, the agent restarts with an      *)
(* empty ring, and Redis may lose what it holds.                           *)
(*                                                                         *)
(* A line is its id.  The ids of one agent are consecutive here: the code  *)
(* only ever compares them.  The same transaction also replaces the node's *)
(* presence keys; nothing on this path reads them.                         *)
(***************************************************************************)
EXTENDS Naturals, Sequences, SequencesExt, Functions, FiniteSets

CONSTANTS
  Slots,      \* the panel's concurrent handlers of this node's requests
  RingCap,    \* nodelog.DefaultRingSize, 5000
  LogsFirst,  \* liveLogsFirst, 200
  LogsMax,    \* liveLogsMax, 500
  RingSize,   \* logstream.RingSize, 2000: lines stored per node
  PageLimit,  \* the browser's limit, 300 by default
  MaxLines,   \* bound: lines ever logged
  MaxFaults,  \* bound: requests given up, restarts and Redis losses
  NoRequest   \* the agent is waiting for no answer

ASSUME SizesAssumption ==
  {RingCap, LogsFirst, LogsMax, RingSize, PageLimit} \subseteq Nat \ {0}

ASSUME OrderAssumption == LogsFirst <= LogsMax /\ LogsMax <= RingSize

ASSUME BoundsAssumption == MaxLines \in Nat /\ MaxFaults \in Nat

ASSUME NoRequestAssumption == NoRequest \notin Slots

VARIABLES
  ring,       \* the lines the agent holds, oldest first
  last,       \* the newest id the ring has given, 0 after a restart
  clock,      \* what the next id is at least
  logStream,  \* the agent's copy of the panel's last answer: send lines?
  logAfter,   \*   and the newest line the panel has
  waiting,    \* the request whose answer the agent waits for
  handler,    \* per slot: the stage, the lines and the cursor it has read
  stored,     \* Redis: the node's list
  seq,        \* Redis: the cursor, 0 when the key is missing
  watched,    \* Redis: the watch key exists
  viewing,    \* an admin has the node's log open
  next,       \* the browser's cursor
  page,       \* the lines of the browser's last poll
  behind,     \* history: a batch went in although the cursor was not the one
              \*   the agent chose it by or its handler read ("chosen"), or
              \*   had moved on since the handler read it ("read")
  faults      \* faults so far

vars == <<ring, last, clock, logStream, logAfter, waiting, handler, stored,
          seq, watched, viewing, next, page, behind, faults>>

agent == <<ring, last, clock, logStream, logAfter, waiting>>
redis == <<stored, seq, watched>>
browser == <<viewing, next, page>>

Idle == [stage |-> "idle", base |-> 0, logs |-> <<>>, after |-> 0, stream |-> FALSE]

Lines == 1..MaxLines

TypeOK ==
  /\ ring \in Seq(Lines) /\ Len(ring) <= RingCap
  /\ last \in 0..MaxLines
  /\ clock \in 1..MaxLines + 1
  /\ logStream \in BOOLEAN
  /\ logAfter \in 0..MaxLines
  /\ waiting \in Slots \cup {NoRequest}
  /\ \A s \in Slots :
       /\ handler[s].stage \in {"idle", "sent", "read", "answered"}
       /\ handler[s].logs \in Seq(Lines) /\ Len(handler[s].logs) <= LogsMax
       /\ {handler[s].base, handler[s].after} \subseteq 0..MaxLines
       /\ handler[s].stream \in BOOLEAN
  /\ stored \in Seq(Lines) /\ Len(stored) <= RingSize
  /\ seq \in 0..MaxLines
  /\ {watched, viewing} \subseteq BOOLEAN
  /\ behind \in {"never", "chosen", "read"}
  /\ next \in 0..MaxLines
  /\ page \subseteq Lines
  /\ faults \in 0..MaxFaults

Init ==
  /\ ring = <<>> /\ last = 0 /\ clock = 1
  /\ logStream = FALSE /\ logAfter = 0 /\ waiting = NoRequest
  /\ handler = [s \in Slots |-> Idle]
  /\ stored = <<>> /\ seq = 0 /\ watched = FALSE
  /\ viewing = FALSE /\ next = 0 /\ page = {}
  /\ behind = "never" /\ faults = 0

\* The lines with one of the ids, in the order they stand in.
Only(lines, ids) ==
  LET only[i \in 0..Len(lines)] ==
        IF i = 0 THEN <<>>
        ELSE IF lines[i] \in ids THEN Append(only[i - 1], lines[i]) ELSE only[i - 1]
  IN only[Len(lines)]

Newer(lines, after) == Only(lines, after + 1..MaxLines)

\* Each of the ids once, in order.
InOrder(ids) == Only([n \in Lines |-> n], ids)

\* The lines by id: an arrangement of them in which none comes before a smaller one.
Sorted(lines) ==
  {s \in {[i \in DOMAIN lines |-> lines[p[i]]] : p \in Bijection(DOMAIN lines, DOMAIN lines)} :
     \A i, j \in DOMAIN s : i < j => s[i] <= s[j]}

FirstOf(lines, n) == IF Len(lines) > n THEN SubSeq(lines, 1, n) ELSE lines

LastOf(lines, n) ==
  IF Len(lines) > n THEN SubSeq(lines, Len(lines) - n + 1, Len(lines)) ELSE lines

----------------------------------------------------------------------------
(* The agent *)

\* Fault: ids are counted from 1 in every run of the agent.
CountingId == last + 1

\* An id is the wall clock, or one more than the last id if that is later.
NewId == IF clock <= last THEN last + 1 ELSE clock

\* Ring.Add: a full ring drops its oldest line.
Add ==
  /\ NewId <= MaxLines
  /\ last' = NewId
  /\ ring' = LastOf(Append(ring, NewId), RingCap)
  /\ UNCHANGED <<clock, logStream, logAfter, waiting, handler, redis, browser,
                 behind, faults>>

OldestID == IF ring = <<>> THEN 0 ELSE Head(ring)

\* Fault: the newest lines are sent instead of the oldest unsent ones.
SelectNewest(after) ==
  IF after <= 0 \/ after < OldestID
  THEN LastOf(ring, LogsFirst)
  ELSE LastOf(Newer(ring, after), LogsMax)

\* Fault: a whole backlog is sent at first contact.
SelectBacklog(after) ==
  IF after < OldestID
  THEN ring
  ELSE FirstOf(Newer(ring, after), LogsMax)

\* selectLiveLogs.
SelectLiveLogs(after) ==
  IF after <= 0 \/ after < OldestID
  THEN LastOf(ring, LogsFirst)
  ELSE FirstOf(Newer(ring, after), LogsMax)

\* Handlers are alike; a request is taken by the first free one.
FreeSlot == CHOOSE s \in Slots : handler[s].stage = "idle"

\* tick, up to the request: lines only while the panel asked for them.
Tick(s) ==
  /\ waiting = NoRequest
  /\ handler[s].stage = "idle" /\ s = FreeSlot
  /\ waiting' = s
  /\ handler' =
       [handler EXCEPT ![s] =
         IF logStream
         THEN [Idle EXCEPT !.stage = "sent", !.base = logAfter,
                           !.logs = SelectLiveLogs(logAfter)]
         ELSE [Idle EXCEPT !.stage = "sent"]]
  /\ UNCHANGED <<ring, last, clock, logStream, logAfter, redis, browser, behind,
                 faults>>

\* tick, from a 200: the agent takes over the panel's answer.
TakeAnswer(s) ==
  /\ waiting = s
  /\ handler[s].stage = "answered"
  /\ logStream' = handler[s].stream
  /\ logAfter' = handler[s].after
  /\ waiting' = NoRequest
  /\ handler' = [handler EXCEPT ![s] = Idle]
  /\ UNCHANGED <<ring, last, clock, redis, browser, behind, faults>>

\* tick, from a failed request (timeout, lost, 404, 503, unreadable): failed()
\* stops the stream until the next good answer.  The request's handler either
\* never gets to the transaction, or is still running and will.
GiveUp(s) ==
  /\ waiting = s
  /\ faults < MaxFaults
  /\ faults' = faults + 1
  /\ waiting' = NoRequest
  /\ logStream' = FALSE
  /\ \/ handler' = [handler EXCEPT ![s] = Idle]
     \/ handler[s].stage # "answered" /\ UNCHANGED handler
  /\ UNCHANGED <<ring, last, clock, logAfter, redis, browser, behind>>

\* The agent starts again: an empty ring and no answer yet.  Ids are wall-clock
\* microseconds, so by then the clock is past every id already given.
AgentRestart ==
  /\ faults < MaxFaults
  /\ faults' = faults + 1
  /\ ring' = <<>> /\ last' = 0
  /\ clock' = IF clock <= last THEN last + 1 ELSE clock
  /\ logStream' = FALSE /\ logAfter' = 0 /\ waiting' = NoRequest
  /\ handler' = [s \in Slots |-> IF handler[s].stage = "answered" THEN Idle
                                                                 ELSE handler[s]]
  /\ UNCHANGED <<redis, browser, behind>>

----------------------------------------------------------------------------
(* The panel *)

\* Fault: what the panel already has is stored again.
PrepareAll(logs, after) ==
  LastOf(InOrder(ToSet(logs)), RingSize)

\* prepareNodeLogs: in id order, each once, only what is newer than the cursor.
PrepareNodeLogs(logs, after) ==
  LastOf(InOrder({id \in ToSet(logs) : id > after}), RingSize)

\* handleNodeLive, the GET of the cursor: only for a request with lines.
ReadSeq(s) ==
  /\ handler[s].stage = "sent"
  /\ handler[s].logs # <<>>
  /\ handler' = [handler EXCEPT ![s].stage = "read", ![s].after = seq,
                                ![s].logs = PrepareNodeLogs(@, seq)]
  /\ UNCHANGED <<agent, redis, browser, behind, faults>>

\* The cursor after a batch; a batch with nothing new leaves it alone.
SeqAfter(logs) == IF logs = <<>> THEN seq ELSE Last(logs)

\* handleNodeLive, the transaction: append, trim, move the cursor, read it and
\* the watch key back, and answer if the agent still waits.
Exec(s) ==
  /\ \/ handler[s].stage = "read"
     \/ handler[s].stage = "sent" /\ handler[s].logs = <<>>
  /\ stored' = LastOf(stored \o handler[s].logs, RingSize)
  /\ seq' = SeqAfter(handler[s].logs)
  /\ handler' =
       [handler EXCEPT ![s] =
         IF waiting = s
         THEN [Idle EXCEPT !.stage = "answered", !.after = seq',
                           !.stream = watched]
         ELSE Idle]
  /\ behind' = IF handler[s].logs # <<>> /\ seq > handler[s].after THEN "read"
               ELSE IF /\ handler[s].logs # <<>> /\ stored # <<>> /\ behind = "never"
                       /\ seq # handler[s].base \/ seq # handler[s].after
                    THEN "chosen" ELSE behind
  /\ UNCHANGED <<agent, watched, browser, faults>>

\* Redis comes back empty, or the keys outlive nodeLogTTL.
RedisLoses ==
  /\ faults < MaxFaults
  /\ faults' = faults + 1
  /\ stored' = <<>> /\ seq' = 0 /\ watched' = FALSE
  /\ UNCHANGED <<agent, handler, browser, behind>>

\* The watch key's TTL runs out; an open log view renews it in time.
WatchExpires ==
  /\ watched /\ ~viewing
  /\ watched' = FALSE
  /\ UNCHANGED <<agent, handler, stored, seq, browser, behind, faults>>

----------------------------------------------------------------------------
(* The browser *)

OpenView ==
  /\ ~viewing
  /\ viewing' = TRUE
  /\ UNCHANGED <<agent, handler, redis, next, page, behind, faults>>

CloseView ==
  /\ viewing
  /\ viewing' = FALSE
  /\ next' = 0 /\ page' = {}
  /\ UNCHANGED <<agent, handler, redis, behind, faults>>

\* How much of the list's tail readLogEntries reads: a page's worth, doubled
\* until the oldest entry read is at or before the cursor.
ReadSizes ==
  {n \in 1..RingSize : n = RingSize \/ \E k \in 0..RingSize : n = PageLimit * 2^k}

Covered(n) ==
  \/ Len(LastOf(stored, n)) < n \/ n >= RingSize
  \/ next = 0
  \/ \E id \in ToSet(LastOf(stored, n)) : id <= next

\* The first of them that is enough is sorted: one sequence.
ReadLogEntries ==
  UNION {Sorted(LastOf(stored, n)) :
           n \in {m \in ReadSizes : Covered(m) /\ \A k \in ReadSizes : k < m => ~Covered(k)}}

\* Fault: a reader that is behind gets the newest page.
PickNewest(entries) == LastOf(Newer(entries, next), PageLimit)

\* pickLogPage: the newest page without a cursor, else the oldest after it.
PickLogPage(entries) ==
  IF next = 0 THEN LastOf(Newer(entries, 0), PageLimit)
              ELSE FirstOf(Newer(entries, next), PageLimit)

\* handleGetLogs for the node: it also renews the watch key.
Poll ==
  /\ viewing
  /\ watched' = TRUE
  /\ \E all \in ReadLogEntries :
       LET entries == PickLogPage(all)
       IN /\ next' = IF entries = <<>> THEN next ELSE Last(entries)
          /\ page' = ToSet(entries)
  /\ UNCHANGED <<agent, handler, stored, seq, viewing, behind, faults>>

----------------------------------------------------------------------------
Next ==
  \/ Add
  \/ \E s \in Slots : \/ Tick(s) \/ TakeAnswer(s) \/ GiveUp(s)
                      \/ ReadSeq(s) \/ Exec(s)
  \/ AgentRestart
  \/ RedisLoses \/ WatchExpires
  \/ OpenView \/ CloseView \/ Poll

Spec == Init /\ [][Next]_vars

(* liveLoop re-arms its timer after every tick, a handler runs until it has *)
(* answered or failed, and an open log view polls every second.             *)
FairSpec ==
  /\ Spec
  /\ WF_vars(\E s \in Slots : Tick(s))
  /\ \A s \in Slots : WF_vars(TakeAnswer(s)) /\ WF_vars(ReadSeq(s) \/ Exec(s))
  /\ WF_vars(Poll)

----------------------------------------------------------------------------
(* Properties *)

\* Every stored line is stored once and in order, and the cursor is the newest
\* one, whatever was resent after lost requests, lost answers and restarts -
\* as long as no handler stored an old batch behind a newer one.
StoredOnce ==
  behind # "read" =>
            /\ \A i \in 1..Len(stored) - 1 : stored[i] < stored[i + 1]
            /\ stored # <<>> => seq = Last(stored)

\* The stored log has a gap only where the line before the gap had left the
\* agent's ring: a panel that is behind catches up without skipping.
NoGaps ==
  behind = "never" =>
            \A i \in 1..Len(stored) - 1 :
              stored[i + 1] # stored[i] + 1 => stored[i] < OldestID \/ ring = <<>>

\* A page never skips a stored line: the browser's cursor passes only lines it
\* has been given.
NothingSkipped ==
  [][(next # 0 /\ next' > next /\ behind # "read") =>
       \A id \in ToSet(stored) : next < id /\ id <= next' => id \in page']_vars

\* While the view stays open the browser catches up with the agent's log for
\* good, through lost requests, restarts, Redis losses and late handlers.
ViewCatchesUp ==
  <>[]viewing => <>[](ring # <<>> => next = last)

\* The stored log is the agent's, once and in order (live.go, nodelive.go).
LogIsExact == TypeOK /\ StoredOnce /\ NoGaps
=============================================================================
