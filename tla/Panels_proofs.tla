---------------------------- MODULE Panels_proofs ----------------------------
(***************************************************************************)
(* Proofs about one panel: how its processes start and take turns          *)
(* (PanelStart), how it is backed up, restored and filled by an import     *)
(* (Restore), and how it answers its nodes' polls from memory              *)
(* (NodeConfigCache).                                                      *)
(***************************************************************************)
EXTENDS PanelStart, Restore, NodeConfigCache, SetFacts, TLAPS

-----------------------------------------------------------------------------
(***************************************************************************)
(* Panel processes.                                                        *)
(***************************************************************************)

Stages == {"down", "read", "make", "refused", "serve", "wait", "jobs", "stopping", "lingers"}
Secrets == [key : Int, hex : {TRUE}]
Making == {p \in Procs : proc[p].at = "make"}

StartShape ==
  /\ proc \in [Procs -> [at : Stages, key : Int]]
  /\ jwt \in Seq(Secrets) /\ starts \in Int
  /\ holder \in Procs \cup {Nobody} /\ cut \subseteq Procs

Drives(r) == r.at \in {"jobs", "stopping", "lingers"}

\* A process with the jobs holds the lock, lost its connection or gave it up, and only one
\* with the jobs that did not give it up holds it.
LockIsHeld ==
  /\ \A p \in Procs : proc[p].at = "wait" \/ Drives(proc[p]) => p \in BackendProcs
  /\ \A p \in cut : Drives(proc[p]) /\ holder # p
  /\ \A p \in Procs : proc[p].at \in {"jobs", "stopping"} => p \in cut \/ holder = p
  /\ holder # Nobody => proc[holder].at \in {"jobs", "stopping"}

\* Whoever makes a key found the table empty, so each makes one at most.
KeysAreFew == Len(jwt) + Cardinality(Making) <= Cardinality(Procs)

\* Unless two made the first key at once, nobody makes one once there is one.
KeyIsShared ==
  /\ \A p \in Procs : proc[p].at # "refused" /\ (Up(p) => jwt # <<>>)
  /\ jwt # <<>> /\ ~twice => Making = {}
  /\ twice \/ swapped \/ \A p \in Procs : Up(p) => proc[p].key = jwt[1].key

StartInv == StartShape /\ LockIsHeld /\ KeysAreFew /\ KeyIsShared

\* How many processes there are, and how many of them are making a key.
LEMMA MakingFinite ==
  /\ Cardinality(Procs) \in Nat
  /\ IsFiniteSet(Making) /\ Cardinality(Making) \in Nat /\ Cardinality(Making) <= Cardinality(Procs)
  <1>1. Making \subseteq Procs
    BY DEF Making
  <1> QED BY <1>1, StartAssumption, FS_Subset, FS_CardinalityType

\* A process that makes no new key, and a table that keeps its length, keep it few.
LEMMA FewKept ==
  ASSUME StartInv, Making' \subseteq Making, jwt' \in Seq(Secrets), Len(jwt') <= Len(jwt)
  PROVE  KeysAreFew'
  <1>1. Cardinality(Making') \in Nat /\ Cardinality(Making') <= Cardinality(Making)
    BY MakingFinite, FS_Subset, FS_CardinalityType
  <1>2. Len(jwt) \in Nat /\ Len(jwt') \in Nat
    BY DEF StartInv, StartShape
  <1> QED BY <1>1, <1>2, MakingFinite DEF StartInv, KeysAreFew

\* One process moves to another stage and the table stays as it is.
LEMMA ProcessMoves ==
  ASSUME StartInv, NEW p \in Procs, NEW r \in [at : Stages, key : Int],
         proc' = [proc EXCEPT ![p] = r], UNCHANGED <<jwt, twice, swapped>>,
         r.at # "make", r.at # "refused",
         r.at \in {"serve", "wait"} \/ Drives(r) => /\ jwt # <<>>
                                                    /\ twice \/ swapped \/ r.key = jwt[1].key
  PROVE  /\ proc' \in [Procs -> [at : Stages, key : Int]]
         /\ proc'[p] = r /\ \A q \in Procs \ {p} : proc'[q] = proc[q]
         /\ KeysAreFew' /\ KeyIsShared'
  <1>1. /\ proc' \in [Procs -> [at : Stages, key : Int]]
        /\ proc'[p] = r /\ \A q \in Procs \ {p} : proc'[q] = proc[q]
    BY DEF StartInv, StartShape
  <1>2. Making' \subseteq Making
    BY <1>1 DEF Making
  <1>3. KeysAreFew'
    BY <1>2, FewKept DEF StartInv, StartShape
  <1>4. KeyIsShared'
    <2>1. \A q \in Procs : proc'[q].at # "refused" /\ (Up(q)' => jwt # <<>>)
      BY <1>1 DEF StartInv, KeyIsShared, Up, Drives
    <2>2. jwt' # <<>> /\ ~twice' => Making' = {}
      BY <1>2 DEF StartInv, KeyIsShared
    <2>3. ASSUME ~twice, ~swapped, NEW q \in Procs, Up(q)'
          PROVE  proc'[q].key = jwt[1].key
      BY <1>1, <2>3 DEF StartInv, KeyIsShared, Up, Drives
    <2> QED BY <2>1, <2>2, <2>3 DEF KeyIsShared
  <1> QED BY <1>1, <1>3, <1>4

\* A process that starts, reads or makes its key, or ends while it does.
LEMMA KeySteps ==
  ASSUME StartInv, NEW p \in Procs, Start(p) \/ ReadSecret(p) \/ ReadFails(p) \/ MakeSecret(p)
  PROVE  StartInv'
  <1>0. /\ proc \in [Procs -> [at : Stages, key : Int]] /\ proc[p].key \in Int
        /\ jwt \in Seq(Secrets) /\ starts \in Int /\ Len(jwt) \in Nat
        /\ UNCHANGED <<holder, cut>>
        /\ p \notin cut /\ holder # p
    <2>1. proc[p].at \notin {"jobs", "stopping"} /\ ~Drives(proc[p])
      BY DEF Drives, Start, Down, ReadSecret, ReadFails, MakeSecret
    <2>2. holder # p /\ p \notin cut
      BY <2>1, StartAssumption DEF StartInv, LockIsHeld
    <2> QED BY <2>2 DEF StartInv, StartShape, Start, ReadSecret, ReadFails, MakeSecret
  <1>1. ASSUME NEW r, proc' = [proc EXCEPT ![p] = r], ~Drives(r), r.at = "wait" => p \in BackendProcs
        PROVE  LockIsHeld'
    BY <1>0, <1>1 DEF StartInv, StartShape, LockIsHeld, Drives
  <1>2. ASSUME NEW r \in [at : Stages, key : Int], proc' = [proc EXCEPT ![p] = r], UNCHANGED <<jwt, twice, swapped>>,
               r.at \notin {"make", "refused"}, ~Drives(r), starts' \in Int, r.at = "wait" => p \in BackendProcs,
               r.at \in {"serve", "wait"} => jwt # <<>> /\ r.key = jwt[1].key
        PROVE  StartInv'
    <2>1. proc' \in [Procs -> [at : Stages, key : Int]] /\ KeysAreFew' /\ KeyIsShared'
      BY <1>2, ProcessMoves
    <2>2. LockIsHeld'
      BY <1>1, <1>2
    <2> QED BY <1>0, <1>2, <2>1, <2>2 DEF StartInv, StartShape
  <1>3. CASE Start(p)
    <2> DEFINE r == [proc[p] EXCEPT !.at = "read"]
    <2>1. proc' = [proc EXCEPT ![p] = r]
      BY <1>3, Zenon DEF Start
    <2>2. r \in [at : Stages, key : Int] /\ r.at = "read"
      BY <1>0 DEF Stages
    <2> HIDE DEF r
    <2>3. starts' \in Int /\ UNCHANGED <<jwt, twice, swapped>>
      BY <1>0, <1>3 DEF Start, Begin
    <2> QED BY <1>2, <2>1, <2>2, <2>3 DEF Drives
  <1>4. CASE ReadFails(p)
    <2> DEFINE r == [proc[p] EXCEPT !.at = "down"]
    <2>1. proc' = [proc EXCEPT ![p] = r]
      BY <1>4, Zenon DEF ReadFails, AfterError
    <2>2. r \in [at : Stages, key : Int] /\ r.at = "down"
      BY <1>0 DEF Stages
    <2> HIDE DEF r
    <2>3. starts' \in Int /\ UNCHANGED <<jwt, twice, swapped>>
      BY <1>0, <1>4 DEF ReadFails
    <2> QED BY <1>2, <2>1, <2>2, <2>3 DEF Drives
  <1>5. CASE ReadSecret(p) /\ jwt # <<>>
    <2>1. jwt[1] \in Secrets /\ jwt[1].hex /\ jwt[1].key \in Int
      <3>1. 1 \in 1..Len(jwt)
        BY <1>0, <1>5
      <3>2. jwt[1] \in Secrets
        BY <1>0, <3>1
      <3> QED BY <3>2 DEF Secrets
    <2> DEFINE r == [at |-> Ready(p), key |-> jwt[1].key]
    <2>2. proc' = [proc EXCEPT ![p] = r]
      BY <1>5, <2>1 DEF ReadSecret
    <2>3. r \in [at : Stages, key : Int] /\ r.at \in {"serve", "wait"} /\ (r.at = "wait" => p \in BackendProcs)
          /\ r.key = jwt[1].key
      BY <2>1 DEF Stages, Ready
    <2> HIDE DEF r
    <2>4. starts' \in Int /\ UNCHANGED <<jwt, twice, swapped>>
      BY <1>0, <1>5 DEF ReadSecret
    <2> QED BY <1>2, <1>5, <2>2, <2>3, <2>4 DEF Drives
  <1>6. CASE ReadSecret(p) /\ jwt = <<>>
    <2> DEFINE r == [proc[p] EXCEPT !.at = "make"]
    <2>1. proc' = [proc EXCEPT ![p] = r] /\ UNCHANGED <<jwt, starts, twice, swapped>>
      BY <1>6, Zenon DEF ReadSecret
    <2>2. r \in [at : Stages, key : Int] /\ r.at = "make"
      BY <1>0 DEF Stages
    <2> HIDE DEF r
    <2>3. LockIsHeld'
      BY <1>1, <2>1, <2>2 DEF Drives
    <2>4. KeysAreFew'
      <3>1. Making' \subseteq Procs
        BY DEF Making
      <3>2. Cardinality(Making') \in Nat /\ Cardinality(Making') <= Cardinality(Procs)
        BY <3>1, StartAssumption, FS_Subset, FS_CardinalityType
      <3>3. Len(jwt') = 0
        BY <1>6, <2>1
      <3> QED BY <3>2, <3>3, MakingFinite DEF KeysAreFew
    <2>5. proc'[p] = r /\ \A q \in Procs \ {p} : proc'[q] = proc[q]
      BY <1>0, <2>1
    <2>6. KeyIsShared'
      BY <1>6, <2>1, <2>2, <2>5 DEF StartInv, KeyIsShared, Up
    <2> QED BY <1>0, <2>1, <2>2, <2>3, <2>4, <2>6 DEF StartInv, StartShape
  <1>7. CASE MakeSecret(p)
    <2> DEFINE k == starts * 10 + Len(jwt)
               r == [at |-> Ready(p), key |-> k]
               row1 == [key |-> k, hex |-> TRUE]
    <2>1. proc' = [proc EXCEPT ![p] = r] /\ jwt' = Append(jwt, row1) /\ UNCHANGED <<starts, swapped>>
          /\ twice' = (twice \/ \E q \in Procs \ {p} : proc[q].at = "make") /\ proc[p].at = "make"
      BY <1>7 DEF MakeSecret
    <2>2. k \in Int
      BY <1>0
    <2> HIDE DEF k
    <2>3. r \in [at : Stages, key : Int] /\ r.at \in {"serve", "wait"} /\ (r.at = "wait" => p \in BackendProcs) /\ r.key = k
      BY <2>2 DEF Stages, Ready
    <2>4. row1 \in Secrets /\ row1.key = k
      BY <2>2 DEF Secrets
    <2> HIDE DEF r, row1
    <2>5. /\ proc'[p] = r /\ \A q \in Procs \ {p} : proc'[q] = proc[q]
          /\ proc' \in [Procs -> [at : Stages, key : Int]]
      BY <1>0, <2>1, <2>3
    <2>6. /\ jwt' \in Seq(Secrets) /\ Len(jwt') = Len(jwt) + 1 /\ jwt' # <<>>
          /\ jwt = <<>> => jwt'[1] = row1
      <3>1. jwt' \in Seq(Secrets) /\ Len(jwt') = Len(jwt) + 1 /\ jwt'[Len(jwt) + 1] = row1
        BY <1>0, <2>1, <2>4
      <3>2. jwt' # <<>>
        BY <1>0, <3>1
      <3>3. jwt = <<>> => Len(jwt) + 1 = 1
        OBVIOUS
      <3> QED BY <3>1, <3>2, <3>3
    <2>7. LockIsHeld'
      BY <1>1, <2>1, <2>3 DEF Drives
    <2>8. KeysAreFew'
      <3>1. p \in Making /\ Making' = Making \ {p}
        BY <2>1, <2>3, <2>5 DEF Making
      <3>2. Cardinality(Making') = Cardinality(Making) - 1
        BY <3>1, MakingFinite, FS_RemoveElement
      <3> QED BY <1>0, <2>6, <3>2, MakingFinite DEF StartInv, KeysAreFew
    <2>9. KeyIsShared'
      <3>1. \A q \in Procs : proc'[q].at # "refused" /\ (Up(q)' => jwt' # <<>>)
        BY <2>3, <2>5, <2>6 DEF StartInv, KeyIsShared
      <3>2. CASE twice \/ \E q \in Procs \ {p} : proc[q].at = "make"
        BY <2>1, <3>1, <3>2, Zenon DEF KeyIsShared
      <3>3. CASE ~(twice \/ \E q \in Procs \ {p} : proc[q].at = "make")
        <4>1. Making' = {}
          BY <2>3, <2>5, <3>3 DEF Making
        <4>2. jwt = <<>>
          BY <2>1, <3>3 DEF StartInv, KeyIsShared, Making
        <4>3. \A q \in Procs \ {p} : ~Up(q)'
          BY <2>5, <4>2 DEF StartInv, KeyIsShared, Up
        <4>4. \A q \in Procs : Up(q)' => proc'[q].key = jwt'[1].key
          BY <2>3, <2>4, <2>5, <2>6, <4>2, <4>3
        <4> QED BY <3>1, <4>1, <4>4 DEF KeyIsShared
      <3> QED BY <3>2, <3>3
    <2> QED BY <1>0, <2>1, <2>5, <2>6, <2>7, <2>8, <2>9 DEF StartInv, StartShape
  <1> QED BY <1>3, <1>4, <1>5, <1>6, <1>7

\* A process with its key goes on or ends, and the keys stay as they are.
LEMMA LockMoves ==
  ASSUME StartInv, NEW p \in Procs, NEW r \in [at : Stages, key : Int],
         proc' = [proc EXCEPT ![p] = r], UNCHANGED <<jwt, starts, twice, swapped>>,
         r.at # "make", r.at # "refused", (Up(p) /\ r.key = proc[p].key) \/ r.at = "down",
         p \in BackendProcs \/ r.at = "down",
         holder' \in {holder, Nobody, p}, cut' \in {cut, cut \cup {p}, cut \ {p}},
         holder' # p => holder' = holder \/ holder = p,
         holder' = p => holder \in {Nobody, p} /\ r.at \in {"jobs", "stopping"} /\ p \notin cut',
         p \in cut' => Drives(r),
         r.at \in {"jobs", "stopping"} => p \in cut' \/ holder' = p
  PROVE  StartInv'
  <1>1. /\ proc \in [Procs -> [at : Stages, key : Int]]
        /\ jwt \in Seq(Secrets) /\ starts \in Int
    BY DEF StartInv, StartShape
  <1>2. /\ proc' \in [Procs -> [at : Stages, key : Int]]
        /\ proc'[p] = r /\ \A q \in Procs \ {p} : proc'[q] = proc[q]
        /\ KeysAreFew' /\ KeyIsShared'
    <2>1. r.at \in {"serve", "wait"} \/ Drives(r) => jwt # <<>> /\ (twice \/ swapped \/ r.key = jwt[1].key)
      BY DEF StartInv, KeyIsShared, Drives
    <2> QED BY <2>1, ProcessMoves
  <1>3. LockIsHeld'
    <2>1. \A q \in Procs : proc'[q].at = "wait" \/ Drives(proc'[q]) => q \in BackendProcs
      BY <1>2 DEF StartInv, LockIsHeld, Drives
    <2>2. \A q \in cut' : Drives(proc'[q]) /\ holder' # q
      BY <1>2, StartAssumption DEF StartInv, StartShape, LockIsHeld
    <2>3. \A q \in Procs : proc'[q].at \in {"jobs", "stopping"} => q \in cut' \/ holder' = q
      BY <1>2, StartAssumption DEF StartInv, StartShape, LockIsHeld
    <2>4. holder' # Nobody => proc'[holder'].at \in {"jobs", "stopping"}
      BY <1>2, StartAssumption DEF StartInv, StartShape, LockIsHeld
    <2> QED BY <2>1, <2>2, <2>3, <2>4 DEF LockIsHeld
  <1>4. holder' \in Procs \cup {Nobody} /\ cut' \subseteq Procs
    BY DEF StartInv, StartShape
  <1> QED BY <1>1, <1>2, <1>3, <1>4 DEF StartInv, StartShape

\* The lock is taken, lost with its connection, given up, and freed with the process.
LEMMA LockSteps ==
  ASSUME StartInv, NEW p \in Procs,
         TryLock(p) \/ LoseConnection(p) \/ Shutdown(p) \/ GiveUpLock(p) \/ Leave(p) \/ Killed(p)
  PROVE  StartInv'
  <1>0. /\ proc \in [Procs -> [at : Stages, key : Int]] /\ proc[p] \in [at : Stages, key : Int]
        /\ holder \in Procs \cup {Nobody} /\ cut \subseteq Procs /\ p # Nobody
        /\ UNCHANGED <<jwt, starts, twice, swapped>>
    BY StartAssumption DEF StartInv, StartShape, TryLock, LoseConnection, Shutdown, GiveUpLock, Leave, Killed
  <1>1. /\ proc[p].at = "wait" \/ Drives(proc[p]) => p \in BackendProcs
        /\ p \in cut => Drives(proc[p]) /\ holder # p
        /\ proc[p].at \in {"jobs", "stopping"} => p \in cut \/ holder = p
        /\ holder = p => proc[p].at \in {"jobs", "stopping"}
    BY <1>0 DEF StartInv, LockIsHeld
  <1>2. Down \in [at : Stages, key : Int] /\ Down.at = "down" /\ ~Drives(Down)
    BY DEF Down, Stages, Drives
  <1>3. ASSUME NEW s \in {"jobs", "stopping", "lingers"}, NEW r, r = [proc[p] EXCEPT !.at = s]
        PROVE  r \in [at : Stages, key : Int] /\ r.at = s /\ r.key = proc[p].key /\ Drives(r)
    BY <1>0, <1>3 DEF Stages, Drives
  <1>4. CASE TryLock(p)
    <2>1. PICK r : r = [proc[p] EXCEPT !.at = "jobs"]
      OBVIOUS
    <2>2. r \in [at : Stages, key : Int] /\ r.at = "jobs" /\ r.key = proc[p].key /\ Drives(r)
      BY <1>3, <2>1
    <2>3. /\ proc' = [proc EXCEPT ![p] = r] /\ proc[p].at = "wait" /\ holder = Nobody /\ holder' = p
          /\ cut' = cut
      BY <1>4, <2>1, Zenon DEF TryLock, Acquires
    <2>4. p \notin cut /\ Up(p) /\ p \in BackendProcs
      BY <1>1, <2>3 DEF Up, Drives
    <2> QED BY <1>0, <2>2, <2>3, <2>4, LockMoves
  <1>5. CASE LoseConnection(p)
    <2>1. /\ proc[p].at \in {"jobs", "stopping"} /\ holder = p /\ holder' = Nobody
          /\ cut' = cut \cup {p} /\ proc' = proc
      BY <1>5 DEF LoseConnection
    <2>2. proc' = [proc EXCEPT ![p] = proc[p]]
      BY <1>0, <2>1
    <2>3. Up(p) /\ p \in BackendProcs /\ Drives(proc[p]) /\ proc[p].at # "make" /\ proc[p].at # "refused"
      BY <1>1, <2>1 DEF Up, Drives
    <2> QED BY <1>0, <2>1, <2>2, <2>3, LockMoves
  <1>6. CASE Shutdown(p) /\ proc[p].at = "jobs"
    <2>1. PICK r : r = [proc[p] EXCEPT !.at = "stopping"]
      OBVIOUS
    <2>2. r \in [at : Stages, key : Int] /\ r.at = "stopping" /\ r.key = proc[p].key /\ Drives(r)
      BY <1>3, <2>1
    <2>3. proc' = [proc EXCEPT ![p] = r] /\ holder' = holder /\ cut' = cut
      BY <1>6, <2>1 DEF Shutdown
    <2>4. Up(p) /\ p \in BackendProcs
      BY <1>1, <1>6 DEF Up, Drives
    <2> QED BY <1>0, <1>1, <1>6, <2>2, <2>3, <2>4, LockMoves
  <1>7. CASE GiveUpLock(p)
    <2>1. PICK r : r = [proc[p] EXCEPT !.at = "lingers"]
      OBVIOUS
    <2>2. r \in [at : Stages, key : Int] /\ r.at = "lingers" /\ r.key = proc[p].key /\ Drives(r)
      BY <1>3, <2>1
    <2>3. /\ proc' = [proc EXCEPT ![p] = r] /\ proc[p].at = "stopping" /\ cut' = cut
          /\ holder' = (IF holder = p THEN Nobody ELSE holder)
      BY <1>7, <2>1, Zenon DEF GiveUpLock, Freed
    <2>4. Up(p) /\ p \in BackendProcs
      BY <1>1, <2>3 DEF Up, Drives
    <2> QED BY <1>0, <1>1, <2>2, <2>3, <2>4, LockMoves
  <1>8. CASE Leave(p) \/ Killed(p) \/ (Shutdown(p) /\ proc[p].at # "jobs")
    <2>1. /\ proc' = [proc EXCEPT ![p] = Down] /\ p \notin cut'
          /\ cut' \in {cut, cut \ {p}} /\ holder' # p
          /\ holder' = holder \/ (holder = p /\ holder' = Nobody)
      <3>1. CASE Leave(p) \/ Killed(p)
        BY <1>0, <3>1 DEF Leave, Killed, Freed
      <3>2. CASE Shutdown(p) /\ proc[p].at # "jobs"
        BY <1>0, <1>1, <3>2 DEF Shutdown, Drives
      <3> QED BY <1>8, <3>1, <3>2
    <2> QED BY <1>0, <1>2, <2>1, LockMoves
  <1> QED BY <1>4, <1>5, <1>6, <1>7, <1>8

\* An import replaces the first key by one that a start can decode.
LEMMA ImportKeyStep ==
  ASSUME StartInv, ImportKey
  PROVE  StartInv'
  <1>0. /\ jwt \in Seq(Secrets) /\ starts \in Int /\ Len(jwt) \in Nat /\ jwt # <<>>
        /\ UNCHANGED <<proc, holder, cut, twice>> /\ starts' \in Int
    BY DEF StartInv, StartShape, ImportKey, Begin
  <1>1. PICK hex \in BOOLEAN :
           /\ jwt' = IF Adoptable(hex) THEN [jwt EXCEPT ![1] = [key |-> starts * 10 + 9, hex |-> hex]] ELSE jwt
           /\ swapped' = (swapped \/ jwt' # jwt)
    BY DEF ImportKey
  <1>2. jwt' \in Seq(Secrets) /\ Len(jwt') = Len(jwt) /\ jwt' # <<>>
    <2>1. CASE ~hex
      BY <1>0, <1>1, <2>1 DEF Adoptable
    <2>2. CASE hex
      <3>1. jwt' = [jwt EXCEPT ![1] = [key |-> starts * 10 + 9, hex |-> TRUE]]
        BY <1>1, <2>2, Zenon DEF Adoptable
      <3>2. [key |-> starts * 10 + 9, hex |-> TRUE] \in Secrets
        BY <1>0 DEF Secrets
      <3> QED BY <1>0, <3>1, <3>2
    <2> QED BY <2>1, <2>2
  <1>3. Making' = Making
    BY <1>0 DEF Making
  <1>4. KeysAreFew'
    BY <1>2, <1>3, FewKept
  <1>5. LockIsHeld'
    BY <1>0 DEF StartInv, LockIsHeld
  <1>6. KeyIsShared'
    <2>1. CASE jwt' = jwt
      BY <1>0, <1>1, <1>3, <2>1 DEF StartInv, KeyIsShared, Up
    <2>2. CASE jwt' # jwt
      <3>1. swapped'
        BY <1>1, <2>2, Zenon
      <3> QED BY <1>0, <1>2, <1>3, <3>1 DEF StartInv, KeyIsShared, Up
    <2> QED BY <2>1, <2>2
  <1> QED BY <1>0, <1>2, <1>4, <1>5, <1>6 DEF StartInv, StartShape

\* A restore brings another table with one key that a start can decode.
LEMMA RestoreKeyStep ==
  ASSUME StartInv, RestoreKey
  PROVE  StartInv'
  <1>1. /\ jwt \in Seq(Secrets) /\ starts \in Int /\ starts' \in Int /\ swapped'
        /\ UNCHANGED <<proc, holder, cut, twice>>
    BY DEF StartInv, StartShape, RestoreKey, Begin
  <1>2. jwt # <<>> /\ Len(jwt) \in Nat /\ Len(jwt) >= 1
    <2>1. jwt # <<>>
      BY DEF StartInv, KeyIsShared, RestoreKey
    <2> QED BY <1>1, <2>1
  <1>3. jwt' \in Seq(Secrets) /\ Len(jwt') = 1 /\ jwt' # <<>>
    <2>1. jwt' = <<[key |-> starts * 10 + 8, hex |-> TRUE]>> /\ [key |-> starts * 10 + 8, hex |-> TRUE] \in Secrets
      BY <1>1 DEF RestoreKey, Secrets
    <2> QED BY <2>1
  <1>4. Making' = Making
    BY <1>1 DEF Making
  <1>5. KeysAreFew'
    BY <1>2, <1>3, <1>4, FewKept
  <1>6. LockIsHeld'
    BY <1>1 DEF StartInv, LockIsHeld
  <1>7. KeyIsShared'
    BY <1>1, <1>2, <1>3, <1>4 DEF StartInv, KeyIsShared
  <1> QED BY <1>1, <1>3, <1>5, <1>6, <1>7 DEF StartInv, StartShape

\* Two processes run the jobs at once only after one lost the connection of its lock or while
\* one that was told to stop and gave the lock up is not yet gone; no process that is gone
\* keeps the lock; every start can decode the key; and all sign with one key, unless two made
\* the first at once or an import or a restore replaced it (cmd/panel/main.go).
THEOREM StartTheorem == StartSpec => []StartIsSound
  <1>1. StartInit => StartInv
    <2> SUFFICES ASSUME StartInit PROVE StartInv
      OBVIOUS
    <2>1. StartShape
      BY DEF StartInit, StartShape, Down, Stages
    <2>2. Making = {}
      BY DEF StartInit, Making, Down
    <2>3. KeysAreFew
      <3>1. Cardinality(Making) = 0 /\ Len(jwt) = 0
        BY <2>2, FS_EmptySet DEF StartInit
      <3> QED BY <3>1, MakingFinite DEF KeysAreFew
    <2>4. LockIsHeld /\ KeyIsShared
      BY DEF StartInit, LockIsHeld, KeyIsShared, Down, Up, Drives
    <2> QED BY <2>1, <2>3, <2>4 DEF StartInv
  <1>2. StartInv /\ [StartNext]_startVars => StartInv'
    <2>1. ASSUME StartInv, UNCHANGED startVars
          PROVE  StartInv'
      BY <2>1 DEF startVars, StartInv, StartShape, LockIsHeld, KeysAreFew, KeyIsShared, Making, Up
    <2> QED BY <2>1, KeySteps, LockSteps, ImportKeyStep, RestoreKeyStep DEF StartNext
  <1>3. StartInv => StartIsSound
    <2> SUFFICES ASSUME StartInv PROVE StartIsSound
      OBVIOUS
    <2>1. Cardinality(Running \ (cut \cup Lingering)) <= 1
      <3>1. Running \ (cut \cup Lingering) \subseteq {holder}
        BY DEF StartInv, LockIsHeld, Running, Lingering
      <3>2. IsFiniteSet({holder}) /\ Cardinality({holder}) = 1
        BY FS_Singleton
      <3> QED BY <3>1, <3>2, FS_Subset, FS_CardinalityType
    <2>2. PanelsAgree
      <3>1. holder = Nobody \/ holder \in Running \ Lingering
        BY DEF StartInv, StartShape, LockIsHeld, Running, Lingering
      <3> QED BY <2>1, <3>1 DEF StartInv, KeyIsShared, PanelsAgree
    <2>3. StartTypeOK
      <3>1. Len(jwt) <= Cardinality(Procs)
        BY MakingFinite DEF StartInv, StartShape, KeysAreFew
      <3>2. cut \subseteq BackendProcs
        BY DEF StartInv, StartShape, LockIsHeld
      <3> QED BY <3>1, <3>2 DEF StartTypeOK, StartInv, StartShape, Stages
    <2> QED BY <2>2, <2>3 DEF StartIsSound
  <1> QED BY <1>1, <1>2, <1>3, PTL DEF StartSpec

-----------------------------------------------------------------------------
(***************************************************************************)
(* Backups, restores and imports.                                          *)
(***************************************************************************)

Accounts == [id : Nat, row : 0 .. MaxRows, src : Nat, owner : Nat]
Tables == [users : SUBSET Accounts, admins : SUBSET [id : Nat, src : Nat], seq : Nat, aseq : Nat]

\* A database holds finitely many users, so that their ids have a bound.
Databases == {d \in Tables : \E b \in Nat : \A u \in d.users : u.id <= b}

AdminMaps == [1 .. Len(OldAdmins) -> Nat]

Works ==
  [kind : {"none", "backup", "restore", "import"}, pc : Nat, safety : Databases, no : Nat, from : Databases,
   whole : BOOLEAN, next : Nat, ids : AdminMaps \cup {<<>>}, keepIds : BOOLEAN]

\* A request is at a stage of its course, and has there what the stage works on.
WorkOK(w) ==
  /\ w.kind = "backup" => w.pc = 1
  /\ w.kind = "restore" => w.pc \in 1 .. 5
  /\ w.kind = "import" => w.pc \in 1 .. 8
  /\ w.kind \in {"restore", "import"} /\ w.pc = 1 => w.no = 0
  /\ w.kind = "import" /\ w.pc = 4 => w.next \in 1 .. Len(OldAdmins) /\ w.ids \in AdminMaps
  /\ w.kind = "import" /\ w.pc = 5 => w.next \in 1 .. Len(OldUsers) /\ w.ids \in AdminMaps

RestShape ==
  /\ data \in Databases /\ upkeep \in BOOLEAN
  /\ files \subseteq [no : 1 .. MaxDumps, of : Databases, whole : BOOLEAN]
  /\ dumps \in 0 .. MaxDumps
  /\ teller \in [Tellers -> [at : {"out", "in", "read"}, saw : {"none", "now", "past"}]]
  /\ work \in [Operators -> Works] /\ \A o \in Operators : WorkOK(work[o])
  /\ held \in {"none", "now", "past"}
  /\ rows \in 1 .. MaxRows /\ during \subseteq 1 .. MaxRows /\ uncovered \subseteq 1 .. MaxRows

\* Past the flag and not over; due to flush the cache.
Way(w) == w.kind \in {"restore", "import"} /\ w.pc > 1
Owes(w) == (w.kind = "restore" /\ w.pc = 4) \/ (w.kind = "import" /\ w.pc \in 4 .. 7)

\* The stages of a request, by their number.
LEMMA CourseFacts ==
  /\ Len(Course("backup")) = 1 /\ Course("backup")[1] = "dump"
  /\ Len(Course("restore")) = 5 /\ Course("restore")[1] = "flag" /\ Course("restore")[2] = "dump"
  /\ Course("restore")[3] = "replace" /\ Course("restore")[4] = "flush" /\ Course("restore")[5] = "lift"
  /\ Len(Course("import")) = 8 /\ Course("import")[1] = "flag" /\ Course("import")[2] = "dump"
  /\ Course("import")[3] = "truncate" /\ Course("import")[4] = "admins" /\ Course("import")[5] = "users"
  /\ Course("import")[6] = "sync" /\ Course("import")[7] = "flush" /\ Course("import")[8] = "lift"
  BY DEF Course

\* Where a request is, from its kind and its number.
LEMMA DoingFacts ==
  ASSUME RestShape, NEW o \in Operators
  PROVE  /\ Busy(o) <=> work[o].kind # "none"
         /\ Doing(o, "flag") <=> work[o].kind \in {"restore", "import"} /\ work[o].pc = 1
         /\ Doing(o, "dump") <=> (work[o].kind = "backup" \/ (work[o].kind \in {"restore", "import"} /\ work[o].pc = 2))
         /\ Doing(o, "replace") <=> work[o].kind = "restore" /\ work[o].pc = 3
         /\ Doing(o, "truncate") <=> work[o].kind = "import" /\ work[o].pc = 3
         /\ Doing(o, "admins") <=> work[o].kind = "import" /\ work[o].pc = 4
         /\ Doing(o, "users") <=> work[o].kind = "import" /\ work[o].pc = 5
         /\ Doing(o, "sync") <=> work[o].kind = "import" /\ work[o].pc = 6
         /\ Doing(o, "flush") <=> ((work[o].kind = "restore" /\ work[o].pc = 4) \/ (work[o].kind = "import" /\ work[o].pc = 7))
         /\ Doing(o, "lift") <=> ((work[o].kind = "restore" /\ work[o].pc = 5) \/ (work[o].kind = "import" /\ work[o].pc = 8))
         /\ UnderWay(o) <=> Way(work[o])
  <1>0. /\ work[o].kind \in {"none", "backup", "restore", "import"} /\ work[o].pc \in Nat
        /\ work[o].kind = "backup" => work[o].pc = 1
        /\ work[o].kind = "restore" => work[o].pc \in 1 .. 5
        /\ work[o].kind = "import" => work[o].pc \in 1 .. 8
    <2>1. work[o] \in Works /\ WorkOK(work[o])
      BY DEF RestShape
    <2> QED BY <2>1 DEF Works, WorkOK
  <1>1. CASE work[o].kind = "none"
    BY <1>1 DEF Doing, Busy, UnderWay, Way
  <1>2. CASE work[o].kind = "backup"
    BY <1>0, <1>2, CourseFacts DEF Doing, Busy, UnderWay, Way
  <1>3. CASE work[o].kind = "restore"
    <2>1. work[o].pc \in {1, 2, 3, 4, 5}
      BY <1>0, <1>3
    <2>2. UnderWay(o) <=> work[o].pc > 1
      BY <1>3, <2>1, CourseFacts DEF Busy, UnderWay
    <2> QED BY <1>3, <2>1, <2>2, CourseFacts DEF Doing, Busy, Way
  <1>4. CASE work[o].kind = "import"
    <2>1. work[o].pc \in {1, 2, 3, 4, 5, 6, 7, 8}
      BY <1>0, <1>4
    <2>2. UnderWay(o) <=> work[o].pc > 1
      BY <1>4, <2>1, CourseFacts DEF Busy, UnderWay
    <2> QED BY <1>4, <2>1, <2>2, CourseFacts DEF Doing, Busy, Way
  <1> QED BY <1>0, <1>1, <1>2, <1>3, <1>4

\* A request that has just begun, or is over.
LEMMA RestFacts ==
  /\ Fresh0 \in Databases /\ Fresh0.users = {} /\ Fresh0.admins = {} /\ Fresh0.seq = 0
  /\ Rest \in Works /\ WorkOK(Rest) /\ ~Way(Rest) /\ ~Owes(Rest)
  /\ Rest.kind = "none" /\ Rest.pc = 1 /\ Rest.no = 0 /\ Rest.from = Fresh0 /\ Rest.next = 1
  <1>1. Fresh0 \in Tables /\ Fresh0.users = {} /\ Fresh0.admins = {} /\ Fresh0.seq = 0
    BY DEF Fresh0, Tables
  <1>2. Fresh0 \in Databases
    BY <1>1 DEF Databases
  <1>3. Rest \in Works /\ Rest.kind = "none" /\ Rest.pc = 1 /\ Rest.no = 0 /\ Rest.from = Fresh0 /\ Rest.next = 1
    BY <1>2 DEF Rest, Works
  <1> QED BY <1>1, <1>2, <1>3 DEF WorkOK, Way, Owes

\* One request moves and the others stay where they are.
Moved(o) ==
  /\ work' \in [Operators -> Works] /\ \A p \in Operators : WorkOK(work'[p])
  /\ \A p \in Operators \ {o} : work'[p] = work[p]

\* A request that goes on leaves the others where they are.
LEMMA MoveTo ==
  ASSUME RestShape, NEW o \in Operators, NEW w \in Works, WorkOK(w), work' = [work EXCEPT ![o] = w]
  PROVE  Moved(o) /\ work'[o] = w
  <1>1. work' \in [Operators -> Works] /\ work'[o] = w /\ \A p \in Operators \ {o} : work'[p] = work[p]
    BY DEF RestShape
  <1>2. \A p \in Operators : WorkOK(work'[p])
    BY <1>1 DEF RestShape
  <1> QED BY <1>1, <1>2 DEF Moved

\* The fields of a request.
LEMMA WorkFields ==
  ASSUME NEW w \in Works
  PROVE  /\ w.kind \in {"none", "backup", "restore", "import"} /\ w.pc \in Nat /\ w.safety \in Databases
         /\ w.no \in Nat /\ w.from \in Databases /\ w.whole \in BOOLEAN /\ w.next \in Nat
         /\ w.ids \in AdminMaps \cup {<<>>} /\ w.keepIds \in BOOLEAN
  BY DEF Works

\* Past the flag or the dump, a request keeps all it has.
LEMMA AdvancedEarly ==
  ASSUME NEW w \in Works, w.kind \in {"restore", "import"}, w.pc \in {1, 2}, w.pc = 1 => w.no = 0,
         NEW r, r = Advanced(w)
  PROVE  /\ r \in Works /\ WorkOK(r) /\ r.kind = w.kind /\ r.pc = w.pc + 1 /\ r.no = w.no
         /\ r.safety = w.safety /\ r.from = w.from /\ r.whole = w.whole
  <1>1. r = [w EXCEPT !.pc = w.pc + 1]
    BY CourseFacts DEF Advanced
  <1>2. /\ r \in Works /\ r.kind = w.kind /\ r.pc = w.pc + 1 /\ r.no = w.no
        /\ r.safety = w.safety /\ r.from = w.from /\ r.whole = w.whole
    BY <1>1 DEF Works
  <1> QED BY <1>2 DEF WorkOK

\* Later on it keeps its kind, its admins and whether ids are kept.
LEMMA AdvancedLate ==
  ASSUME NEW w \in Works, \/ w.kind = "restore" /\ w.pc \in {3, 4}
                          \/ w.kind = "import" /\ w.pc \in {3, 4, 5, 6, 7},
         NEW r, r = Advanced(w)
  PROVE  /\ r \in Works /\ r.kind = w.kind /\ r.pc = w.pc + 1 /\ r.from = Fresh0 /\ r.next = 1
         /\ r.ids = w.ids /\ r.keepIds = w.keepIds
  <1>1. r = [Rest EXCEPT !.kind = w.kind, !.pc = w.pc + 1, !.ids = w.ids, !.keepIds = w.keepIds]
    <2>1. CASE w.kind = "restore"
      <3>1. CASE w.pc = 3
        BY <2>1, <3>1, CourseFacts DEF Advanced
      <3>2. CASE w.pc = 4
        BY <2>1, <3>2, CourseFacts DEF Advanced
      <3> QED BY <2>1, <3>1, <3>2
    <2>2. CASE w.kind = "import"
      <3>1. w.pc # Len(Course(w.kind)) /\ Course(w.kind)[w.pc] \notin {"dump", "flag"}
        BY <2>2, CourseFacts
      <3> QED BY <3>1, Zenon DEF Advanced
    <2> QED BY <2>1, <2>2
  <1>2. Rest \in Works /\ w.pc + 1 \in Nat /\ w.ids \in AdminMaps \cup {<<>>} /\ w.keepIds \in BOOLEAN
    BY WorkFields, RestFacts
  <1> QED BY <1>1, <1>2, RestFacts, WorkFields DEF Works

\* A request that fails is at its end: a restore or import has its flag to lift.
LEMMA FailedFacts ==
  ASSUME NEW w \in Works, w.kind \in {"backup", "restore", "import"}, NEW r, r = Failed(w)
  PROVE  /\ r \in Works /\ WorkOK(r) /\ r.from = Fresh0
         /\ w.kind = "backup" => r = Rest
         /\ w.kind = "restore" => r.kind = "restore" /\ r.pc = 5
         /\ w.kind = "import" => r.kind = "import" /\ r.pc = 8
  <1>1. CASE w.kind = "backup"
    BY <1>1, RestFacts DEF Failed
  <1>2. CASE w.kind # "backup"
    <2>1. r = [Rest EXCEPT !.kind = w.kind, !.pc = Len(Course(w.kind))]
      BY <1>2 DEF Failed
    <2>2. Len(Course(w.kind)) \in Nat
      BY <1>2, CourseFacts
    <2>3. r \in Works /\ r.from = Fresh0 /\ r.kind = w.kind /\ r.pc = Len(Course(w.kind))
      BY <2>1, <2>2, RestFacts, WorkFields DEF Works
    <2>4. (w.kind = "restore" => r.pc = 5) /\ (w.kind = "import" => r.pc = 8)
      BY <2>3, CourseFacts
    <2>5. WorkOK(r)
      <3>1. (r.kind = "restore" /\ r.pc = 5) \/ (r.kind = "import" /\ r.pc = 8)
        BY <1>2, <2>3, <2>4
      <3> QED BY <3>1 DEF WorkOK
    <2> QED BY <1>2, <2>3, <2>4, <2>5
  <1> QED BY <1>1, <1>2

\* Unless two restores crossed, one at most is under way.
OneAtATime == crossed \/ \A o, p \in Operators : Way(work[o]) /\ Way(work[p]) => o = p

\* A restore that has begun its safety backup and not yet replaced the database.
Covering(w) == w.kind \in {"restore", "import"} /\ (w.pc = 3 \/ (w.pc = 2 /\ w.no > 0))

\* All that is there was in the safety backup, or came while the restore was under way.
BackupCovers ==
  crossed \/ /\ uncovered \subseteq during
             /\ \A o \in Operators : Covering(work[o]) =>
                  MadeHere(data.users) \subseteq MadeHere(work[o].safety.users) \cup during

FlagIsOwned == upkeep => lame \/ \E o \in Operators : Way(work[o])

\* What the cache has of an earlier database, a restore that goes on will flush.
FlushIsOwed == held = "past" => lateFill \/ \E o \in Operators : Owes(work[o])

\* Every imported user of a database has its owner there.
Owned(d) ==
  \A u \in d.users : u.src > 0 /\ u.owner > 0 =>
    \E a \in d.admins, i \in 1 .. Len(OldUsers) :
      a.id = u.owner /\ OldUsers[i].src = u.src /\ a.src = OldUsers[i].admin

\* The ids that an import noted for its admins are theirs.
Mapped(ids, admins) ==
  \A i \in 1 .. Len(OldAdmins) : ids[i] > 0 => \E a \in admins : a.id = ids[i] /\ a.src = OldAdmins[i]

Mapping(w) == w.kind = "import" /\ w.pc \in {4, 5}

OwnersAreHere ==
  crossed \/ /\ Owned(data) /\ \A f \in files : Owned(f.of)
             /\ \A o \in Operators : /\ Owned(work[o].from)
                                     /\ Mapping(work[o]) => Mapped(work[o].ids, data.admins)

\* No user is ahead of the sequence, but for an import that has yet to move it.
InSeq(d) == \A u \in d.users : u.id <= d.seq
Keeping(w) == w.kind = "import" /\ w.keepIds /\ w.pc \in {5, 6}

SequencesLead ==
  crossed \/ unsynced \/ /\ InSeq(data) \/ \E o \in Operators : Keeping(work[o])
                         /\ \A f \in files : InSeq(f.of)
                         /\ \A o \in Operators : InSeq(work[o].from)

RestInv ==
  /\ RestShape /\ OneAtATime /\ BackupCovers /\ FlagIsOwned /\ FlushIsOwed /\ OwnersAreHere /\ SequencesLead
  /\ {crossed, lame, lateFill, unsynced} \subseteq BOOLEAN

\* A step of a request that leaves the database as it is.
LEMMA RequestMoves ==
  ASSUME RestInv, NEW o \in Operators, Moved(o), RestShape', UNCHANGED <<data, during, uncovered, crossed>>,
         {lame', lateFill', unsynced'} \subseteq BOOLEAN,
         lame => lame', lateFill => lateFill', unsynced => unsynced',
         Way(work'[o]) => Way(work[o]),
         upkeep' => lame' \/ (upkeep /\ (Way(work[o]) => Way(work'[o]))),
         held' = "past" => held = "past" /\ (lateFill' \/ (Owes(work[o]) => Owes(work'[o]))),
         Covering(work'[o]) => \/ work'[o].safety = data
                               \/ Covering(work[o]) /\ work'[o].safety = work[o].safety,
         work'[o].from \in {work[o].from, Fresh0} \cup {f.of : f \in files},
         Mapping(work'[o]) => Mapping(work[o]) /\ work'[o].ids = work[o].ids,
         Keeping(work[o]) => Keeping(work'[o]) \/ unsynced',
         \A f \in files' : \/ \E g \in files : f.of = g.of
                           \/ f.of = data /\ (unsynced' \/ \A p \in Operators : ~Keeping(work[p]))
  PROVE  RestInv'
  <1>0. \A p \in Operators \ {o} : work'[p] = work[p]
    BY DEF Moved
  <1>1. OneAtATime'
    BY <1>0 DEF RestInv, OneAtATime
  <1>2. BackupCovers'
    BY <1>0 DEF RestInv, BackupCovers
  <1>3. FlagIsOwned'
    BY <1>0 DEF RestInv, FlagIsOwned
  <1>4. FlushIsOwed'
    BY <1>0 DEF RestInv, FlushIsOwed
  <1>5. Owned(Fresh0) /\ InSeq(Fresh0)
    BY RestFacts DEF Owned, InSeq
  <1>6. OwnersAreHere'
    <2>1. CASE crossed
      BY <2>1 DEF OwnersAreHere
    <2>2. CASE ~crossed
      <3>1. /\ Owned(data) /\ \A f \in files : Owned(f.of)
            /\ \A p \in Operators : /\ Owned(work[p].from)
                                    /\ Mapping(work[p]) => Mapped(work[p].ids, data.admins)
        BY <2>2 DEF RestInv, OwnersAreHere
      <3>2. \A f \in files' : Owned(f.of)
        BY <3>1
      <3>3. Owned(work'[o].from) /\ (Mapping(work'[o]) => Mapped(work'[o].ids, data.admins))
        BY <1>5, <3>1
      <3> QED BY <1>0, <3>1, <3>2, <3>3 DEF OwnersAreHere
    <2> QED BY <2>1, <2>2
  <1>7. SequencesLead'
    <2>1. CASE crossed \/ unsynced'
      BY <2>1 DEF SequencesLead
    <2>2. CASE ~crossed /\ ~unsynced'
      <3>1. /\ InSeq(data) \/ \E p \in Operators : Keeping(work[p])
            /\ \A f \in files : InSeq(f.of)
            /\ \A p \in Operators : InSeq(work[p].from)
        BY <2>2 DEF RestInv, SequencesLead
      <3>2. \A f \in files' : InSeq(f.of)
        BY <2>2, <3>1
      <3>3. InSeq(work'[o].from)
        BY <1>5, <3>1
      <3>4. InSeq(data) \/ \E p \in Operators : Keeping(work'[p])
        BY <1>0, <2>2, <3>1
      <3> QED BY <1>0, <3>1, <3>2, <3>3, <3>4 DEF SequencesLead
    <2> QED BY <2>1, <2>2
  <1> QED BY <1>1, <1>2, <1>3, <1>4, <1>6, <1>7 DEF RestInv

\* A request is asked for: it has its course before it.
LEMMA AskStep ==
  ASSUME RestInv, NEW o \in Operators, Ask(o)
  PROVE  RestInv'
  <1>0. RestShape /\ work[o].kind = "none" /\ files \subseteq [no : 1 .. MaxDumps, of : Databases, whole : BOOLEAN]
        /\ UNCHANGED <<data, upkeep, files, dumps, teller, held, rows, during, uncovered, lateFill, crossed, lame, unsynced>>
    BY DEF RestInv, RestShape, Ask, Busy, histVars
  <1>1. PICK w : /\ work' = [work EXCEPT ![o] = w]
                 /\ \/ w = [Rest EXCEPT !.kind = "backup"]
                    \/ \E f \in files : w = [Rest EXCEPT !.kind = "restore", !.from = f.of, !.whole = f.whole]
                    \/ w = [Rest EXCEPT !.kind = "restore"]
                    \/ \E k \in BOOLEAN : w = [Rest EXCEPT !.kind = "import", !.keepIds = k]
    BY DEF Ask
  <1>2. /\ w \in Works /\ w.pc = 1 /\ w.no = 0 /\ w.kind # "none"
        /\ w.from \in {Fresh0} \cup {f.of : f \in files}
    <2>1. CASE w = [Rest EXCEPT !.kind = "backup"] \/ w = [Rest EXCEPT !.kind = "restore"]
      BY <2>1, RestFacts DEF Works
    <2>2. ASSUME NEW k \in BOOLEAN, w = [Rest EXCEPT !.kind = "import", !.keepIds = k]
          PROVE  w \in Works /\ w.pc = 1 /\ w.no = 0 /\ w.from = Fresh0 /\ w.kind # "none"
      BY <2>2, RestFacts DEF Works
    <2>3. ASSUME NEW f \in files, w = [Rest EXCEPT !.kind = "restore", !.from = f.of, !.whole = f.whole]
          PROVE  w \in Works /\ w.pc = 1 /\ w.no = 0 /\ w.from = f.of /\ w.kind # "none"
      <3>1. f.of \in Databases /\ f.whole \in BOOLEAN
        BY <1>0
      <3> QED BY <2>3, <3>1, RestFacts DEF Works
    <2> QED BY <1>1, <2>1, <2>2, <2>3
  <1>3. WorkOK(w) /\ ~Way(w) /\ ~Owes(w) /\ ~Covering(w) /\ ~Mapping(w)
    BY <1>2 DEF WorkOK, Way, Owes, Covering, Mapping
  <1>4. Moved(o) /\ work'[o] = w
    BY <1>0, <1>1, <1>2, <1>3, MoveTo
  <1>5. RestShape'
    BY <1>0, <1>4 DEF RestShape, Moved
  <1>6. ~Way(work[o]) /\ ~Owes(work[o]) /\ ~Keeping(work[o])
    BY <1>0 DEF Way, Owes, Keeping
  <1> QED BY <1>0, <1>2, <1>3, <1>4, <1>5, <1>6, RequestMoves DEF RestInv

\* A request that dumps or fails: it is past its flag as long as it was.
LEMMA FailMoves ==
  ASSUME RestInv, NEW o \in Operators, work[o].kind # "none",
         work[o].kind \in {"restore", "import"} => work[o].pc \in {2, 3},
         work' = [work EXCEPT ![o] = Failed(work[o])],
         files' \subseteq [no : 1 .. MaxDumps, of : Databases, whole : BOOLEAN],
         \A f \in files' : \E g \in files : f.of = g.of,
         UNCHANGED <<data, upkeep, dumps, teller, held, rows, during, uncovered, lateFill, crossed, lame, unsynced>>
  PROVE  RestInv'
  <1>0. RestShape /\ work[o] \in Works
    BY DEF RestInv, RestShape
  <1>1. PICK r : r = Failed(work[o])
    OBVIOUS
  <1>2. /\ work[o].kind \in {"backup", "restore", "import"} /\ r \in Works /\ WorkOK(r) /\ r.from = Fresh0
        /\ work[o].kind = "backup" => r = Rest
        /\ work[o].kind = "restore" => r.kind = "restore" /\ r.pc = 5
        /\ work[o].kind = "import" => r.kind = "import" /\ r.pc = 8
    BY <1>0, <1>1, FailedFacts, WorkFields
  <1>3. Moved(o) /\ work'[o] = r
    BY <1>0, <1>1, <1>2, MoveTo
  <1>4. /\ Way(r) <=> Way(work[o])
        /\ ~Owes(work[o]) /\ ~Covering(r) /\ ~Mapping(r) /\ ~Keeping(work[o])
    BY <1>2, RestFacts DEF Way, Owes, Covering, Mapping, Keeping
  <1>5. RestShape'
    BY <1>0, <1>3 DEF RestShape, Moved
  <1> QED BY <1>0, <1>2, <1>3, <1>4, <1>5, RequestMoves DEF RestInv

\* A request is over and its flag down, or its process dead.
LEMMA RestMoves ==
  ASSUME RestInv, NEW o \in Operators, work' = [work EXCEPT ![o] = Rest],
         upkeep' \in BOOLEAN, upkeep' => lame' \/ (upkeep /\ ~Way(work[o])),
         held' = held, Owes(work[o]) => lateFill', Keeping(work[o]) => unsynced',
         {lame', lateFill', unsynced'} \subseteq BOOLEAN,
         lame => lame', lateFill => lateFill', unsynced => unsynced',
         UNCHANGED <<data, files, dumps, teller, rows, during, uncovered, crossed>>
  PROVE  RestInv'
  <1>0. RestShape
    BY DEF RestInv
  <1>1. Moved(o) /\ work'[o] = Rest
    BY <1>0, RestFacts, MoveTo
  <1>2. ~Covering(Rest) /\ ~Mapping(Rest)
    BY RestFacts DEF Covering, Mapping
  <1>3. RestShape'
    BY <1>0, <1>1 DEF RestShape, Moved
  <1> QED BY <1>0, <1>1, <1>2, <1>3, RestFacts, RequestMoves DEF RestInv

\* The dump of a request is begun, and may catch an import midway.
LEMMA BeginDumpStep ==
  ASSUME RestInv, NEW o \in Operators, BeginDump(o)
  PROVE  RestInv'
  <1>0. /\ RestShape /\ work[o] \in Works /\ WorkOK(work[o]) /\ data \in Databases /\ dumps \in Nat /\ MaxDumps \in Nat
        /\ dumps + 1 \in 1 .. MaxDumps /\ dumps' = dumps + 1 /\ dumps' \in 0 .. MaxDumps
        /\ work[o].kind = "backup" \/ (work[o].kind \in {"restore", "import"} /\ work[o].pc = 2)
        /\ UNCHANGED <<data, upkeep, teller, held, rows, upsets, during, uncovered, lateFill, crossed, lame>>
    <2>1. RestShape /\ Doing(o, "dump") /\ dumps < MaxDumps /\ dumps' = dumps + 1
          /\ UNCHANGED <<data, upkeep, teller, held, rows, upsets, during, uncovered, lateFill, crossed, lame>>
      BY DEF RestInv, BeginDump
    <2>2. work[o] \in Works /\ WorkOK(work[o]) /\ data \in Databases /\ dumps \in 0 .. MaxDumps
      BY <2>1 DEF RestShape
    <2>3. work[o].kind = "backup" \/ (work[o].kind \in {"restore", "import"} /\ work[o].pc = 2)
      BY <2>1, DoingFacts
    <2> QED BY <2>1, <2>2, <2>3, RestoreAssumption
  <1>1. PICK r : r = [work[o] EXCEPT !.no = dumps + 1, !.safety = data]
    OBVIOUS
  <1>2. work' = [work EXCEPT ![o] = r]
    BY <1>0, <1>1 DEF BeginDump, RestShape
  <1>3. r \in Works /\ r.kind = work[o].kind /\ r.pc = work[o].pc /\ r.safety = data
        /\ r.from = work[o].from
    <2>1. dumps + 1 \in Nat /\ data \in Databases /\ work[o] \in Works
      BY <1>0
    <2> QED BY <1>1, <2>1 DEF Works
  <1>4. WorkOK(r) /\ ~Mapping(r) /\ ~Keeping(work[o]) /\ ~Owes(work[o]) /\ (Way(r) <=> Way(work[o]))
    BY <1>0, <1>3 DEF WorkOK, Mapping, Keeping, Owes, Way
  <1>5. Moved(o) /\ work'[o] = r
    BY <1>0, <1>2, <1>3, <1>4, MoveTo
  <1>6. \A p \in Operators : KeepsIds(p) <=> Keeping(work[p])
    <2> SUFFICES ASSUME NEW p \in Operators PROVE KeepsIds(p) <=> Keeping(work[p])
      OBVIOUS
    <2>1. work[p] \in Works
      BY <1>0 DEF RestShape
    <2> QED BY <1>0, <2>1, DoingFacts, WorkFields DEF KeepsIds, Keeping
  <1>7. /\ unsynced' \in BOOLEAN /\ (unsynced => unsynced')
        /\ unsynced' \/ \A p \in Operators : ~Keeping(work[p])
    BY <1>6, Zenon DEF BeginDump, RestInv
  <1>8. /\ files' \subseteq [no : 1 .. MaxDumps, of : Databases, whole : BOOLEAN]
        /\ \A f \in files' : f \in files \/ f.of = data
    <2>1. files' = files \cup {[no |-> dumps + 1, of |-> data, whole |-> FALSE]}
      BY DEF BeginDump
    <2>2. [no |-> dumps + 1, of |-> data, whole |-> FALSE] \in [no : 1 .. MaxDumps, of : Databases, whole : BOOLEAN]
      BY <1>0
    <2>3. files \subseteq [no : 1 .. MaxDumps, of : Databases, whole : BOOLEAN]
      BY <1>0 DEF RestShape
    <2>4. [no |-> dumps + 1, of |-> data, whole |-> FALSE].of = data
      OBVIOUS
    <2> QED BY <2>1, <2>2, <2>3, <2>4
  <1>9. RestShape'
    BY <1>0, <1>5, <1>8 DEF RestShape, Moved
  <1> QED BY <1>0, <1>3, <1>4, <1>5, <1>7, <1>8, <1>9, RequestMoves DEF RestInv

\* The dump is complete and old backups are pruned, this one perhaps among them.
LEMMA EndDumpStep ==
  ASSUME RestInv, NEW o \in Operators, EndDump(o)
  PROVE  RestInv'
  <1>0. /\ RestShape /\ work[o] \in Works /\ WorkOK(work[o]) /\ work[o].no > 0
        /\ work[o].kind = "backup" \/ (work[o].kind \in {"restore", "import"} /\ work[o].pc = 2)
        /\ UNCHANGED <<data, upkeep, dumps, teller, held, rows, during, uncovered, lateFill, crossed, lame, unsynced>>
    <2>1. RestShape /\ Doing(o, "dump") /\ work[o].no > 0
        /\ UNCHANGED <<data, upkeep, dumps, teller, held, rows, during, uncovered, lateFill, crossed, lame, unsynced>>
      BY DEF RestInv, EndDump, histVars
    <2>2. work[o] \in Works /\ WorkOK(work[o])
      BY <2>1 DEF RestShape
    <2> QED BY <2>1, <2>2, DoingFacts
  <1>1. /\ files' \subseteq [no : 1 .. MaxDumps, of : Databases, whole : BOOLEAN]
        /\ \A f \in files' : \E g \in files : f.of = g.of
    <2> DEFINE Done(f) == IF f.no = work[o].no THEN [f EXCEPT !.whole = TRUE] ELSE f
               whole == {Done(f) : f \in files}
    <2>1. files' = Pruned(whole)
      BY DEF EndDump
    <2>2. Pruned(whole) \subseteq whole
      BY DEF Pruned
    <2>3. files \subseteq [no : 1 .. MaxDumps, of : Databases, whole : BOOLEAN]
      BY <1>0 DEF RestShape
    <2>4. \A f \in files : Done(f) \in [no : 1 .. MaxDumps, of : Databases, whole : BOOLEAN] /\ Done(f).of = f.of
      BY <2>3
    <2> HIDE DEF Done
    <2> QED BY <2>1, <2>2, <2>4
  <1>2. CASE work'  = [work EXCEPT ![o] = Failed(work[o])]
    <2>1. work[o].kind # "none" /\ (work[o].kind \in {"restore", "import"} => work[o].pc \in {2, 3})
      BY <1>0
    <2> QED BY <1>0, <1>1, <1>2, <2>1, FailMoves
  <1>3. CASE work' = [work EXCEPT ![o] = Advanced(work[o])] /\ work[o].kind = "backup"
    <2>1. Advanced(work[o]) = Rest
      BY <1>0, <1>3, CourseFacts DEF Advanced, WorkOK
    <2>2. Failed(work[o]) = Rest
      BY <1>3 DEF Failed
    <2> QED BY <1>2, <1>3, <2>1, <2>2
  <1>4. CASE work' = [work EXCEPT ![o] = Advanced(work[o])] /\ work[o].kind # "backup"
    <2>1. PICK r : r = Advanced(work[o])
      OBVIOUS
    <2>2. /\ r \in Works /\ WorkOK(r) /\ r.kind = work[o].kind /\ r.pc = work[o].pc + 1 /\ r.no = work[o].no
          /\ r.safety = work[o].safety /\ r.from = work[o].from
      BY <1>0, <1>4, <2>1, AdvancedEarly
    <2>3. Moved(o) /\ work'[o] = r
      BY <1>0, <1>4, <2>1, <2>2, MoveTo
    <2>4. /\ Way(r) /\ Way(work[o]) /\ ~Owes(work[o]) /\ ~Mapping(r) /\ ~Keeping(work[o])
          /\ Covering(work[o])
      BY <1>0, <1>4, <2>2 DEF Way, Owes, Covering, Mapping, Keeping
    <2>5. RestShape'
      BY <1>0, <1>1, <2>3 DEF RestShape, Moved
    <2> QED BY <1>0, <1>1, <2>2, <2>3, <2>4, <2>5, RequestMoves DEF RestInv
  <1> QED BY <1>2, <1>3, <1>4 DEF EndDump

\* A failed dump, truncate or restore leaves the database as it was.
LEMMA FailSteps ==
  ASSUME RestInv, NEW o \in Operators, DumpFails(o) \/ RestoreFails(o)
  PROVE  RestInv'
  <1>0. RestShape /\ files \subseteq [no : 1 .. MaxDumps, of : Databases, whole : BOOLEAN]
    BY DEF RestInv, RestShape
  <1>1. /\ Doing(o, "dump") \/ Doing(o, "replace") \/ Doing(o, "truncate")
        /\ work' = [work EXCEPT ![o] = Failed(work[o])] /\ files' \subseteq files
        /\ UNCHANGED <<data, upkeep, dumps, teller, held, rows, during, uncovered, lateFill, crossed, lame, unsynced>>
    BY DEF DumpFails, RestoreFails, histVars
  <1>2. work[o].kind # "none" /\ (work[o].kind \in {"restore", "import"} => work[o].pc \in {2, 3})
    BY <1>0, <1>1, DoingFacts
  <1> QED BY <1>0, <1>1, <1>2, FailMoves

\* The flag goes up: another restore that is under way is crossed.
LEMMA RaiseFlagStep ==
  ASSUME RestInv, NEW o \in Operators, RaiseFlag(o)
  PROVE  RestInv'
  <1>0. /\ RestShape /\ work[o] \in Works /\ WorkOK(work[o])
        /\ work[o].kind \in {"restore", "import"} /\ work[o].pc = 1
        /\ UNCHANGED <<data, files, dumps, teller, held, rows, during, uncovered, lateFill, unsynced>>
        /\ upkeep \in BOOLEAN /\ lame \in BOOLEAN
    <2>1. RestShape /\ Doing(o, "flag") /\ upkeep \in BOOLEAN /\ lame \in BOOLEAN
        /\ UNCHANGED <<data, files, dumps, teller, held, rows, during, uncovered, lateFill, unsynced>>
      BY DEF RestInv, RestShape, RaiseFlag
    <2>2. work[o] \in Works /\ WorkOK(work[o])
      BY <2>1 DEF RestShape
    <2> QED BY <2>1, <2>2, DoingFacts
  <1>1. ~Way(work[o]) /\ ~Owes(work[o]) /\ ~Keeping(work[o])
    BY <1>0 DEF Way, Owes, Keeping
  <1>2. CASE /\ work' = [work EXCEPT ![o] = Rest] /\ UNCHANGED crossed
             /\ UNCHANGED <<upkeep, lame>> \/ (upkeep' = TRUE /\ lame' = TRUE)
    <2>1. upkeep' \in BOOLEAN /\ lame' \in BOOLEAN /\ (lame => lame') /\ (upkeep' => lame' \/ upkeep)
      <3>1. CASE upkeep' = upkeep /\ lame' = lame
        BY <1>0, <3>1
      <3>2. CASE upkeep' = TRUE /\ lame' = TRUE
        BY <3>2
      <3> QED BY <1>2, <3>1, <3>2
    <2> QED BY <1>0, <1>1, <1>2, <2>1, RestMoves DEF RestInv
  <1>3. CASE /\ upkeep' = TRUE /\ UNCHANGED lame /\ work' = [work EXCEPT ![o] = Advanced(work[o])]
             /\ crossed' = (crossed \/ \E p \in Operators \ {o} : UnderWay(p))
    <2>1. PICK r : r = Advanced(work[o])
      OBVIOUS
    <2>2. r \in Works /\ WorkOK(r) /\ r.kind = work[o].kind /\ r.pc = 2 /\ r.no = 0 /\ r.from = work[o].from
      <3>1. work[o].pc = 1 => work[o].no = 0
        BY <1>0 DEF WorkOK
      <3> QED BY <1>0, <2>1, <3>1, AdvancedEarly
    <2>3. Moved(o) /\ work'[o] = r
      BY <1>0, <1>3, <2>1, <2>2, MoveTo
    <2>4. \A p \in Operators \ {o} : work'[p] = work[p]
      BY <2>3 DEF Moved
    <2>5. Way(r) /\ ~Owes(r) /\ ~Covering(r) /\ ~Mapping(r) /\ ~Keeping(r)
      BY <1>0, <2>2 DEF Way, Owes, Covering, Mapping, Keeping
    <2>6. /\ crossed' \in BOOLEAN /\ (crossed => crossed')
          /\ ~crossed' => ~crossed /\ \A p \in Operators \ {o} : ~Way(work[p])
      <3>1. \A p \in Operators \ {o} : UnderWay(p) <=> Way(work[p])
        BY <1>0, DoingFacts
      <3> QED BY <1>3, <3>1, Zenon DEF RestInv
    <2>7. RestShape'
      BY <1>0, <1>3, <2>3 DEF RestShape, Moved
    <2>8. OneAtATime'
      BY <2>3, <2>4, <2>6 DEF OneAtATime
    <2>9. BackupCovers'
      BY <1>0, <2>3, <2>4, <2>5, <2>6 DEF BackupCovers, RestInv
    <2>10. FlagIsOwned'
      BY <2>3, <2>5 DEF FlagIsOwned
    <2>11. FlushIsOwed'
      BY <1>0, <1>1, <2>3, <2>4, <2>5 DEF FlushIsOwed, RestInv
    <2>12. OwnersAreHere'
      BY <1>0, <2>2, <2>3, <2>4, <2>5, <2>6 DEF OwnersAreHere, RestInv
    <2>13. SequencesLead'
      <3>1. (\E p \in Operators : Keeping(work[p])) => \E p \in Operators : Keeping(work'[p])
        BY <1>1, <2>4
      <3>2. \A p \in Operators : work'[p].from = work[p].from
        BY <2>2, <2>3, <2>4
      <3> QED BY <1>0, <2>6, <3>1, <3>2 DEF SequencesLead, RestInv
    <2>14. lame' = lame
      BY <1>3
    <2> QED BY <1>0, <2>6, <2>7, <2>8, <2>9, <2>10, <2>11, <2>12, <2>13, <2>14 DEF RestInv
  <1>4. \/ /\ upkeep' = TRUE /\ work' = [work EXCEPT ![o] = Advanced(work[o])]
           /\ crossed' = (crossed \/ \E p \in Operators \ {o} : UnderWay(p))
           /\ UNCHANGED lame
        \/ /\ work' = [work EXCEPT ![o] = Rest] /\ UNCHANGED crossed
           /\ UNCHANGED <<upkeep, lame>> \/ (upkeep' = TRUE /\ lame' = TRUE)
    <2>1. /\ upkeep' = TRUE /\ work' = [work EXCEPT ![o] = Advanced(work[o])]
          /\ crossed' = (crossed \/ \E p \in Operators \ {o} : UnderWay(p))
          /\ UNCHANGED <<upsets, lame>>
          \/ /\ work' = [work EXCEPT ![o] = Rest] /\ UNCHANGED crossed
             /\ UNCHANGED <<upkeep, lame>> \/ (upkeep' = TRUE /\ lame' = TRUE)
      BY Zenon DEF RaiseFlag
    <2> QED BY <2>1
  <1> QED BY <1>2, <1>3, <1>4

\* The flag comes down, or the process could not bring it down.
LEMMA LiftFlagStep ==
  ASSUME RestInv, NEW o \in Operators, LiftFlag(o)
  PROVE  RestInv'
  <1>0. /\ RestShape /\ upkeep \in BOOLEAN /\ work' = [work EXCEPT ![o] = Rest]
        /\ (work[o].kind = "restore" /\ work[o].pc = 5) \/ (work[o].kind = "import" /\ work[o].pc = 8)
        /\ UNCHANGED <<data, files, dumps, teller, held, rows, during, uncovered, lateFill, crossed, unsynced>>
    <2>1. RestShape /\ Doing(o, "lift") /\ work' = [work EXCEPT ![o] = Rest]
        /\ UNCHANGED <<data, files, dumps, teller, held, rows, during, uncovered, lateFill, crossed, unsynced>>
      BY DEF RestInv, LiftFlag
    <2>2. upkeep \in BOOLEAN
      BY <2>1 DEF RestShape
    <2> QED BY <2>1, <2>2, DoingFacts
  <1>1. ~Owes(work[o]) /\ ~Keeping(work[o])
    BY <1>0 DEF Owes, Keeping
  <1>2. upkeep' \in BOOLEAN /\ lame' \in BOOLEAN /\ (lame => lame') /\ (upkeep' => upkeep /\ lame')
    <2>1. \/ upkeep' = FALSE /\ lame' = lame
          \/ lame' = TRUE /\ upkeep' = upkeep
      BY DEF LiftFlag
    <2>2. lame \in BOOLEAN /\ upkeep \in BOOLEAN
      BY <1>0 DEF RestInv
    <2>3. CASE upkeep' = FALSE /\ lame' = lame
      BY <2>2, <2>3
    <2>4. CASE lame' = TRUE /\ upkeep' = upkeep
      BY <2>2, <2>4
    <2> QED BY <2>1, <2>3, <2>4
  <1> QED BY <1>0, <1>1, <1>2, RestMoves DEF RestInv

\* A process that dies leaves its flag up, and what it did as it is.
LEMMA DieStep ==
  ASSUME RestInv, NEW o \in Operators, Die(o)
  PROVE  RestInv'
  <1>0. /\ RestShape /\ upkeep \in BOOLEAN /\ work' = [work EXCEPT ![o] = Rest] /\ lame' = TRUE
        /\ lateFill' = (lateFill \/ UnderWay(o))
        /\ unsynced' = (unsynced \/ Doing(o, "users") \/ Doing(o, "sync"))
        /\ UNCHANGED <<data, upkeep, files, dumps, teller, held, rows, during, uncovered, crossed>>
    BY DEF RestInv, RestShape, Die
  <1>1. /\ UnderWay(o) <=> Way(work[o])
        /\ Doing(o, "users") <=> work[o].kind = "import" /\ work[o].pc = 5
        /\ Doing(o, "sync") <=> work[o].kind = "import" /\ work[o].pc = 6
    BY <1>0, DoingFacts
  <1>2. Owes(work[o]) => Way(work[o])
    <2>1. work[o].pc \in Nat
      BY <1>0, WorkFields DEF RestShape
    <2> QED BY <2>1 DEF Owes, Way
  <1>3. Keeping(work[o]) => Doing(o, "users") \/ Doing(o, "sync")
    BY <1>1 DEF Keeping
  <1>4. /\ {lame', lateFill', unsynced'} \subseteq BOOLEAN
        /\ (lateFill => lateFill') /\ (unsynced => unsynced') /\ (Owes(work[o]) => lateFill')
        /\ (Keeping(work[o]) => unsynced')
    BY <1>0, <1>1, <1>2, <1>3, Zenon DEF RestInv
  <1> QED BY <1>0, <1>4, RestMoves

\* The cache is flushed, the flag with it; or it is not, which is noted.
LEMMA FlushCacheStep ==
  ASSUME RestInv, NEW o \in Operators, FlushCache(o)
  PROVE  RestInv'
  <1>0. /\ RestShape /\ work[o] \in Works /\ upkeep \in BOOLEAN /\ held \in {"none", "now", "past"}
        /\ work' = [work EXCEPT ![o] = Advanced(work[o])]
        /\ (work[o].kind = "restore" /\ work[o].pc = 4) \/ (work[o].kind = "import" /\ work[o].pc = 7)
        /\ UNCHANGED <<data, files, dumps, teller, rows, during, uncovered, crossed, lame, unsynced>>
    <2>1. RestShape /\ Doing(o, "flush") /\ work' = [work EXCEPT ![o] = Advanced(work[o])]
        /\ UNCHANGED <<data, files, dumps, teller, rows, during, uncovered, crossed, lame, unsynced>>
      BY DEF RestInv, FlushCache
    <2>2. work[o] \in Works /\ upkeep \in BOOLEAN /\ held \in {"none", "now", "past"}
      BY <2>1 DEF RestShape
    <2> QED BY <2>1, <2>2, DoingFacts
  <1>1. PICK r : r = Advanced(work[o])
    OBVIOUS
  <1>2. r \in Works /\ r.kind = work[o].kind /\ r.pc = work[o].pc + 1 /\ r.from = Fresh0
    BY <1>0, <1>1, AdvancedLate
  <1>3. /\ WorkOK(r) /\ Way(r) /\ Way(work[o]) /\ ~Covering(r) /\ ~Mapping(r)
        /\ ~Keeping(work[o])
    BY <1>0, <1>2 DEF WorkOK, Way, Covering, Mapping, Keeping
  <1>4. Moved(o) /\ work'[o] = r
    BY <1>0, <1>1, <1>2, <1>3, MoveTo
  <1>5. /\ upkeep' \in BOOLEAN /\ (upkeep' => upkeep) /\ held' \in {"none", "now", "past"}
        /\ lateFill' \in BOOLEAN /\ (lateFill => lateFill') /\ (held' = "past" => held = "past" /\ lateFill')
    <2>1. \/ held' = "none" /\ upkeep' = FALSE /\ lateFill' = lateFill
          \/ lateFill' = TRUE /\ held' = held /\ upkeep' = upkeep
      BY DEF FlushCache
    <2>2. lateFill \in BOOLEAN /\ upkeep \in BOOLEAN /\ held \in {"none", "now", "past"}
      BY <1>0 DEF RestInv
    <2>3. CASE held' = "none" /\ upkeep' = FALSE /\ lateFill' = lateFill
      BY <2>2, <2>3
    <2>4. CASE lateFill' = TRUE /\ held' = held /\ upkeep' = upkeep
      BY <2>2, <2>4
    <2> QED BY <2>1, <2>3, <2>4
  <1>6. RestShape'
    BY <1>0, <1>4, <1>5 DEF RestShape, Moved
  <1> QED BY <1>0, <1>2, <1>3, <1>4, <1>5, <1>6, RequestMoves DEF RestInv

\* A step that moves no request and leaves the database, the flag and the marks as they are.
LEMMA IdleSteps ==
  ASSUME RestInv, RestShape', files' \subseteq files,
         held' = "past" => held = "past" \/ lateFill',
         lateFill' \in BOOLEAN, lateFill => lateFill',
         UNCHANGED <<data, upkeep, work, during, uncovered, crossed, lame, unsynced>>
  PROVE  RestInv'
  <1>1. OneAtATime' /\ BackupCovers' /\ FlagIsOwned'
    BY DEF RestInv, OneAtATime, BackupCovers, FlagIsOwned
  <1>2. FlushIsOwed'
    BY DEF RestInv, FlushIsOwed
  <1>3. OwnersAreHere'
    BY DEF RestInv, OwnersAreHere
  <1>4. SequencesLead'
    BY DEF RestInv, SequencesLead
  <1> QED BY <1>1, <1>2, <1>3, <1>4 DEF RestInv

\* Requests come in and read through the cache; backups are deleted.
LEMMA QuietTellers ==
  ASSUME RestInv, DeleteBackup \/ \E t \in Tellers : Admit(t) \/ TellerReads(t) \/ TellerFills(t)
  PROVE  RestInv'
  <1>0. RestShape /\ lateFill \in BOOLEAN
    BY DEF RestInv
  <1>1. CASE DeleteBackup
    <2>1. RestShape'
      BY <1>0, <1>1 DEF RestShape, DeleteBackup, histVars
    <2> QED BY <1>0, <1>1, <2>1, IdleSteps DEF DeleteBackup, histVars
  <1>2. ASSUME NEW t \in Tellers, Admit(t) \/ TellerReads(t) PROVE RestInv'
    <2>1. teller' \in [Tellers -> [at : {"out", "in", "read"}, saw : {"none", "now", "past"}]]
      BY <1>0, <1>2 DEF RestShape, Admit, TellerReads
    <2>2. RestShape'
      BY <1>0, <1>2, <2>1 DEF RestShape, Admit, TellerReads, histVars
    <2> QED BY <1>0, <1>2, <2>2, IdleSteps DEF Admit, TellerReads, histVars
  <1>3. ASSUME NEW t \in Tellers, TellerFills(t) PROVE RestInv'
    <2>1. teller' \in [Tellers -> [at : {"out", "in", "read"}, saw : {"none", "now", "past"}]]
      BY <1>0, <1>3 DEF RestShape, TellerFills
    <2>2. held' \in {"none", "now", "past"}
      BY <1>0, <1>3 DEF RestShape, TellerFills
    <2>3. RestShape'
      BY <1>0, <1>3, <2>1, <2>2 DEF RestShape, TellerFills
    <2>4. lateFill' \in BOOLEAN /\ (lateFill => lateFill') /\ (held' = "past" => lateFill')
      BY <1>0, <1>3, Zenon DEF TellerFills
    <2> QED BY <1>3, <2>3, <2>4, IdleSteps DEF TellerFills
  <1> QED BY <1>1, <1>2, <1>3

\* The fields of a database.
LEMMA DatabaseFields ==
  ASSUME NEW d \in Databases
  PROVE  /\ d.users \subseteq Accounts /\ d.admins \subseteq [id : Nat, src : Nat] /\ d.seq \in Nat /\ d.aseq \in Nat
         /\ \E b \in Nat : \A u \in d.users : u.id <= b
  BY DEF Databases, Tables

\* A database with one user more has a bound on its ids still.
LEMMA UserAdded ==
  ASSUME NEW d \in Databases, NEW u \in Accounts, NEW e \in Tables, e.users \subseteq d.users \cup {u}
  PROVE  e \in Databases
  <1>1. PICK b \in Nat : \A v \in d.users : v.id <= b
    BY DatabaseFields
  <1>2. u.id \in Nat /\ \A v \in d.users : v.id \in Nat
    BY DatabaseFields DEF Accounts
  <1>3. b + u.id \in Nat /\ \A v \in e.users : v.id <= b + u.id
    BY <1>1, <1>2
  <1> QED BY <1>3 DEF Databases

\* A running request creates a user.
LEMMA TellerWritesStep ==
  ASSUME RestInv, NEW t \in Tellers, TellerWrites(t)
  PROVE  RestInv'
  <1>0. /\ RestShape /\ data \in Databases /\ rows + 1 \in 1 .. MaxRows /\ rows' = rows + 1 /\ data.seq \in Nat
        /\ UNCHANGED <<upkeep, files, dumps, work, held, uncovered, lateFill, crossed, lame, unsynced>>
    <2>1. RestShape /\ rows < MaxRows /\ rows' = rows + 1
          /\ UNCHANGED <<upkeep, files, dumps, work, held, uncovered, lateFill, crossed, lame, unsynced>>
      BY DEF RestInv, TellerWrites
    <2>2. data \in Databases /\ rows \in 1 .. MaxRows
      BY <2>1 DEF RestShape
    <2>3. data.seq \in Nat
      BY <2>2, DatabaseFields
    <2> QED BY <2>1, <2>2, <2>3, RestoreAssumption
  <1>1. PICK u : u = [id |-> data.seq + 1, row |-> rows + 1, src |-> 0, owner |-> 0]
    OBVIOUS
  <1>2. u \in Accounts /\ u.id = data.seq + 1 /\ u.row = rows + 1 /\ u.src = 0
    <2>1. data.seq + 1 \in Nat /\ rows + 1 \in 0 .. MaxRows
      BY <1>0
    <2> QED BY <1>1, <2>1 DEF Accounts
  <1>3. PICK us : us = IF data.seq + 1 \in IdsOf(data.users) THEN data.users ELSE data.users \cup {u}
    OBVIOUS
  <1>4. us = data.users \/ us = data.users \cup {u}
    BY <1>3
  <1>5. data' = [data EXCEPT !.seq = data.seq + 1, !.users = us]
    BY <1>0, <1>1, <1>3 DEF TellerWrites
  <1>6. data' \in Databases /\ data'.users = us /\ data'.seq = data.seq + 1 /\ data'.admins = data.admins
    <2>1. data.seq + 1 \in Nat
      BY <1>0
    <2>2. data \in Databases /\ u \in Accounts
      BY <1>0, <1>2
    <2>3. data \in Tables /\ us \subseteq Accounts
      BY <1>4, <2>2, DatabaseFields DEF Databases
    <2>4. PICK e : e = [data EXCEPT !.seq = data.seq + 1, !.users = us]
      OBVIOUS
    <2>5. e \in Tables /\ e.users = us /\ e.seq = data.seq + 1 /\ e.admins = data.admins
      BY <2>1, <2>3, <2>4 DEF Tables
    <2>6. e \in Databases
      BY <1>4, <2>2, <2>5, UserAdded
    <2> QED BY <1>5, <2>4, <2>5, <2>6
  <1>7. during \subseteq during' /\ during' \subseteq 1 .. MaxRows
        /\ ((\E o \in Operators : Way(work[o])) => rows + 1 \in during')
    <2>1. during \subseteq 1 .. MaxRows
      BY <1>0 DEF RestShape
    <2>2. (\E o \in Operators : UnderWay(o)) <=> \E o \in Operators : Way(work[o])
      BY <1>0, DoingFacts
    <2>3. during' = IF \E o \in Operators : UnderWay(o) THEN during \cup {rows + 1} ELSE during
      BY DEF TellerWrites
    <2>4. rows + 1 \in 1 .. MaxRows
      BY <1>0
    <2> QED BY <2>1, <2>2, <2>3, <2>4
  <1>8. RestShape'
    <2>1. teller' \in [Tellers -> [at : {"out", "in", "read"}, saw : {"none", "now", "past"}]]
      BY <1>0 DEF RestShape, TellerWrites
    <2> QED BY <1>0, <1>6, <1>7, <2>1 DEF RestShape
  <1>9. BackupCovers'
    <2>1. CASE crossed
      BY <1>0, <2>1 DEF BackupCovers
    <2>2. CASE ~crossed
      <3>1. uncovered \subseteq during /\ \A o \in Operators : Covering(work[o]) =>
              MadeHere(data.users) \subseteq MadeHere(work[o].safety.users) \cup during
        BY <2>2 DEF RestInv, BackupCovers
      <3>2. MadeHere(us) \subseteq MadeHere(data.users) \cup {rows + 1}
        BY <1>2, <1>4 DEF MadeHere
      <3>3. \A o \in Operators : Covering(work[o]) => Way(work[o])
        BY DEF Covering, Way
      <3>4. \A o \in Operators : Covering(work[o]) =>
              MadeHere(us) \subseteq MadeHere(work[o].safety.users) \cup during'
        BY <1>7, <3>1, <3>2, <3>3
      <3> QED BY <1>0, <1>6, <1>7, <3>1, <3>4 DEF BackupCovers
    <2> QED BY <2>1, <2>2
  <1>10. OneAtATime' /\ FlagIsOwned' /\ FlushIsOwed'
    BY <1>0 DEF RestInv, OneAtATime, FlagIsOwned, FlushIsOwed
  <1>11. OwnersAreHere'
    <2>1. Owned(data) => Owned(data')
      BY <1>2, <1>4, <1>6 DEF Owned
    <2> QED BY <1>0, <1>6, <2>1 DEF RestInv, OwnersAreHere
  <1>12. SequencesLead'
    <2>1. InSeq(data) => InSeq(data')
      <3>1. \A v \in data.users : v.id \in Nat
        BY <1>0, DatabaseFields DEF Accounts
      <3> QED BY <1>0, <1>2, <1>4, <1>6, <3>1 DEF InSeq
    <2> QED BY <1>0, <2>1 DEF RestInv, SequencesLead
  <1> QED BY <1>0, <1>8, <1>9, <1>10, <1>11, <1>12 DEF RestInv

\* A step of a restore or import that is under way and changes the database.
LEMMA DataMoves ==
  ASSUME RestInv, RestShape', NEW o \in Operators, Moved(o), Way(work[o]), Way(work'[o]),
         UNCHANGED <<upkeep, files, during, crossed, lame>>,
         {lateFill', unsynced'} \subseteq BOOLEAN, lateFill => lateFill', unsynced => unsynced',
         ~crossed => uncovered' \subseteq during,
         held' = "past" => lateFill' \/ Owes(work'[o]),
         ~Covering(work'[o]), work'[o].from \in {work[o].from, Fresh0},
         ~crossed => Owned(data') /\ (Mapping(work'[o]) => Mapped(work'[o].ids, data'.admins)),
         ~crossed /\ ~unsynced' => InSeq(data') \/ Keeping(work'[o])
  PROVE  RestInv'
  <1>0. \A p \in Operators \ {o} : work'[p] = work[p]
    BY DEF Moved
  <1>1. ~crossed => \A p \in Operators \ {o} : ~Way(work[p]) /\ ~Covering(work[p]) /\ ~Mapping(work[p])
    <2>1. \A p \in Operators : (Covering(work[p]) => Way(work[p])) /\ (Mapping(work[p]) => Way(work[p]))
      BY DEF Covering, Mapping, Way
    <2> QED BY <2>1 DEF RestInv, OneAtATime
  <1>2. OneAtATime'
    BY <1>0, <1>1 DEF RestInv, OneAtATime
  <1>3. BackupCovers'
    BY <1>0, <1>1 DEF BackupCovers
  <1>4. FlagIsOwned' /\ FlushIsOwed'
    BY DEF RestInv, FlagIsOwned, FlushIsOwed
  <1>5. Owned(Fresh0) /\ InSeq(Fresh0)
    BY RestFacts DEF Owned, InSeq
  <1>6. OwnersAreHere'
    BY <1>0, <1>1, <1>5 DEF RestInv, OwnersAreHere
  <1>7. SequencesLead'
    BY <1>0, <1>5 DEF RestInv, SequencesLead
  <1> QED BY <1>2, <1>3, <1>4, <1>6, <1>7 DEF RestInv

\* A set of numbers that has a bound has a greatest one.
LEMMA Greatest ==
  ASSUME NEW S \in SUBSET Nat, S # {}, NEW b \in Nat, \A x \in S : x <= b
  PROVE  Max(S) \in S /\ \A y \in S : y <= Max(S)
  <1>1. PICK m \in S : \A y \in S : y <= m
    BY HasGreatest
  <1>2. \A y \in S : m >= y
    BY <1>1
  <1> QED BY <1>2, Zenon DEF Max

\* A database with fewer users has the bound it had.
LEMMA FewerUsers ==
  ASSUME NEW d \in Databases, NEW e \in Tables, e.users \subseteq d.users
  PROVE  e \in Databases
  BY DatabaseFields DEF Databases

\* What was read of the database before is of the past.
LEMMA SupersedeShape ==
  ASSUME RestShape, Supersede
  PROVE  /\ held' \in {"none", "now", "past"}
         /\ teller' \in [Tellers -> [at : {"out", "in", "read"}, saw : {"none", "now", "past"}]]
  <1>1. \A x \in {"none", "now", "past"} : Older(x) \in {"none", "now", "past"}
    BY DEF Older
  <1>2. held \in {"none", "now", "past"}
        /\ teller \in [Tellers -> [at : {"out", "in", "read"}, saw : {"none", "now", "past"}]]
    BY DEF RestShape
  <1>3. \A t \in Tellers : [teller[t] EXCEPT !.saw = Older(teller[t].saw)] \in
           [at : {"out", "in", "read"}, saw : {"none", "now", "past"}]
    BY <1>1, <1>2
  <1>4. held' = Older(held) /\ teller' = [t \in Tellers |-> [teller[t] EXCEPT !.saw = Older(teller[t].saw)]]
    BY DEF Supersede
  <1> QED BY <1>1, <1>2, <1>3, <1>4

\* What a restore drops was in its safety backup, or came after its flag.
LEMMA DroppedFacts ==
  ASSUME RestInv, NEW o \in Operators, work[o].kind \in {"restore", "import"}, work[o].pc = 3, NEW new,
         uncovered' = uncovered \cup Dropped(o, new)
  PROVE  uncovered' \subseteq 1 .. MaxRows /\ (~crossed => uncovered' \subseteq during)
  <1>1. data \in Databases /\ uncovered \subseteq 1 .. MaxRows
    BY DEF RestInv, RestShape
  <1>2. MadeHere(data.users) \subseteq 1 .. MaxRows
    <2>1. \A u \in data.users : u.row \in 0 .. MaxRows
      BY <1>1, DatabaseFields DEF Accounts
    <2> QED BY <2>1, RestoreAssumption DEF MadeHere
  <1>3. Dropped(o, new) \subseteq MadeHere(data.users) \ MadeHere(work[o].safety.users)
    BY DEF Dropped
  <1>4. ~crossed => uncovered \subseteq during
                    /\ MadeHere(data.users) \subseteq MadeHere(work[o].safety.users) \cup during
    BY DEF RestInv, BackupCovers, Covering
  <1> QED BY <1>1, <1>2, <1>3, <1>4

\* The import under way is the one that may have put users ahead of the sequence.
LEMMA OnlyKeeper ==
  ASSUME RestInv, NEW o \in Operators, Way(work[o]), ~Keeping(work[o]), ~crossed, ~unsynced
  PROVE  InSeq(data)
  <1>1. \A p \in Operators : Keeping(work[p]) => Way(work[p])
    BY DEF Keeping, Way
  <1> QED BY <1>1 DEF RestInv, OneAtATime, SequencesLead

\* The database becomes the one that the restore was given.
LEMMA ReplaceDatabaseStep ==
  ASSUME RestInv, NEW o \in Operators, ReplaceDatabase(o)
  PROVE  RestInv'
  <1>0. /\ RestShape /\ work[o] \in Works /\ work[o].kind = "restore" /\ work[o].pc = 3
        /\ work[o].from \in Databases /\ work[o].whole \in BOOLEAN
        /\ Supersede /\ lateFill' = (lateFill \/ ~work[o].whole)
        /\ UNCHANGED <<upkeep, files, dumps, rows, during, crossed, lame, unsynced>>
    <2>1. RestShape /\ Doing(o, "replace") /\ Supersede /\ lateFill' = (lateFill \/ ~work[o].whole)
          /\ UNCHANGED <<upkeep, files, dumps, rows, during, crossed, lame, unsynced>>
      BY DEF RestInv, ReplaceDatabase
    <2>2. work[o] \in Works
      BY <2>1 DEF RestShape
    <2> QED BY <2>1, <2>2, DoingFacts, WorkFields
  <1>1. PICK new : new = [work[o].from EXCEPT !.users = IF work[o].whole THEN work[o].from.users ELSE {}]
    OBVIOUS
  <1>2. data' = new /\ uncovered' = uncovered \cup Dropped(o, new.users)
    BY <1>1 DEF ReplaceDatabase
  <1>3. new \in Tables /\ new.users \subseteq work[o].from.users
        /\ new.admins = work[o].from.admins /\ new.seq = work[o].from.seq
    <2>1. work[o].from \in Tables
      BY <1>0 DEF Databases
    <2> QED BY <1>1, <2>1 DEF Tables
  <1>4. new \in Databases
    BY <1>0, <1>3, FewerUsers
  <1>5. (Owned(work[o].from) => Owned(new)) /\ (InSeq(work[o].from) => InSeq(new))
    BY <1>3 DEF Owned, InSeq
  <1>6. PICK r : r = IF work[o].whole THEN Advanced(work[o]) ELSE Failed(work[o])
    OBVIOUS
  <1>7. /\ r \in Works /\ r.kind = "restore" /\ r.from = Fresh0
        /\ (work[o].whole /\ r.pc = 4) \/ (~work[o].whole /\ r.pc = 5)
    <2>1. CASE work[o].whole
      BY <1>0, <1>6, <2>1, AdvancedLate
    <2>2. CASE ~work[o].whole
      BY <1>0, <1>6, <2>2, FailedFacts
    <2> QED BY <2>1, <2>2
  <1>8. WorkOK(r) /\ Way(r) /\ Way(work[o]) /\ ~Covering(r) /\ ~Mapping(r) /\ (work[o].whole => Owes(r))
    BY <1>0, <1>7 DEF WorkOK, Way, Covering, Mapping, Owes
  <1>9. Moved(o) /\ work'[o] = r
    <2>1. work' = [work EXCEPT ![o] = r]
      BY <1>6 DEF ReplaceDatabase
    <2> QED BY <1>0, <1>7, <1>8, <2>1, MoveTo
  <1>10. uncovered' \subseteq 1 .. MaxRows /\ (~crossed => uncovered' \subseteq during)
    BY <1>0, <1>2, DroppedFacts
  <1>11. RestShape'
    BY <1>0, <1>2, <1>4, <1>9, <1>10, SupersedeShape DEF RestShape, Moved
  <1>12. lateFill' \in BOOLEAN /\ (lateFill => lateFill') /\ (lateFill' \/ Owes(r)) /\ unsynced' \in BOOLEAN
    BY <1>0, <1>8 DEF RestInv
  <1>13. ~crossed => Owned(data') /\ (unsynced \/ InSeq(data'))
    BY <1>2, <1>5 DEF RestInv, OwnersAreHere, SequencesLead
  <1> QED BY <1>0, <1>7, <1>8, <1>9, <1>10, <1>11, <1>12, <1>13, DataMoves

\* The tables are emptied, and no admin of the import is here yet.
LEMMA TruncateTablesStep ==
  ASSUME RestInv, NEW o \in Operators, TruncateTables(o)
  PROVE  RestInv'
  <1>0. /\ RestShape /\ work[o] \in Works /\ work[o].kind = "import" /\ work[o].pc = 3
        /\ data' = Fresh0 /\ Supersede /\ uncovered' = uncovered \cup Dropped(o, {})
        /\ UNCHANGED <<upkeep, files, dumps, rows, during, lateFill, crossed, lame, unsynced>>
    <2>1. RestShape /\ Doing(o, "truncate") /\ data' = Fresh0 /\ Supersede /\ uncovered' = uncovered \cup Dropped(o, {})
          /\ UNCHANGED <<upkeep, files, dumps, rows, during, lateFill, crossed, lame, unsynced>>
      BY DEF RestInv, TruncateTables
    <2>2. work[o] \in Works
      BY <2>1 DEF RestShape
    <2> QED BY <2>1, <2>2, DoingFacts
  <1>1. PICK w : w = Advanced(work[o])
    OBVIOUS
  <1>2. w \in Works /\ w.kind = "import" /\ w.pc = 4 /\ w.from = Fresh0 /\ w.next = 1
    BY <1>0, <1>1, AdvancedLate
  <1>3. PICK none : none = [i \in 1 .. Len(OldAdmins) |-> 0]
    OBVIOUS
  <1>4. none \in AdminMaps /\ \A i \in 1 .. Len(OldAdmins) : none[i] = 0
    BY <1>3 DEF AdminMaps
  <1>5. PICK r : r = [w EXCEPT !.ids = none]
    OBVIOUS
  <1>6. r \in Works /\ r.kind = "import" /\ r.pc = 4 /\ r.from = Fresh0 /\ r.next = 1 /\ r.ids = none
    BY <1>2, <1>4, <1>5 DEF Works
  <1>7. WorkOK(r) /\ Way(r) /\ Way(work[o]) /\ ~Covering(r) /\ Owes(r)
    <2>1. 1 \in 1 .. Len(OldAdmins)
      BY RestoreAssumption
    <2> QED BY <1>0, <1>4, <1>6, <2>1 DEF WorkOK, Way, Covering, Owes
  <1>8. Moved(o) /\ work'[o] = r
    <2>1. work' = [work EXCEPT ![o] = r]
      BY <1>1, <1>3, <1>5 DEF TruncateTables
    <2> QED BY <1>0, <1>6, <1>7, <2>1, MoveTo
  <1>9. uncovered' \subseteq 1 .. MaxRows /\ (~crossed => uncovered' \subseteq during)
    BY <1>0, DroppedFacts
  <1>10. RestShape'
    BY <1>0, <1>8, <1>9, RestFacts, SupersedeShape DEF RestShape, Moved
  <1>11. Owned(data') /\ InSeq(data') /\ Mapped(r.ids, data'.admins)
    BY <1>0, <1>4, <1>6, RestFacts DEF Owned, InSeq, Mapped
  <1> QED BY <1>0, <1>6, <1>7, <1>8, <1>9, <1>10, <1>11, DataMoves DEF RestInv

\* An admin is imported, or skipped; what the import notes of it is so.
LEMMA ImportAdminStep ==
  ASSUME RestInv, NEW o \in Operators, ImportAdmin(o)
  PROVE  RestInv'
  <1> DEFINE i == work[o].next
             id == data.aseq + 1
             w == IF i = Len(OldAdmins) THEN Advanced(work[o]) ELSE [work[o] EXCEPT !.next = i + 1]
  <1>0. /\ RestShape /\ work[o] \in Works /\ work[o].kind = "import" /\ work[o].pc = 4 /\ data \in Databases
        /\ i \in 1 .. Len(OldAdmins) /\ work[o].ids \in AdminMaps
        /\ UNCHANGED <<upkeep, files, dumps, teller, held, rows, during, uncovered, lateFill, crossed, lame, unsynced>>
    <2>1. RestShape /\ Doing(o, "admins")
          /\ UNCHANGED <<upkeep, files, dumps, teller, held, rows, during, uncovered, lateFill, crossed, lame, unsynced>>
      BY DEF RestInv, ImportAdmin, histVars
    <2>2. work[o] \in Works /\ data \in Databases /\ WorkOK(work[o])
      BY <2>1 DEF RestShape
    <2>3. work[o].kind = "import" /\ work[o].pc = 4
      BY <2>1, DoingFacts
    <2> QED BY <2>1, <2>2, <2>3 DEF WorkOK
  <1>1. /\ w \in Works /\ w.kind = "import" /\ w.ids = work[o].ids /\ w.from \in {work[o].from, Fresh0}
        /\ (w.pc = 4 /\ w.next \in 1 .. Len(OldAdmins)) \/ (w.pc = 5 /\ w.next = 1)
    <2>0. PICK v : v = w
      OBVIOUS
    <2>1. CASE i = Len(OldAdmins)
      <3>1. v = Advanced(work[o])
        BY <2>0, <2>1
      <3>2. v \in Works /\ v.kind = "import" /\ v.ids = work[o].ids /\ v.from = Fresh0 /\ v.pc = 5 /\ v.next = 1
        BY <1>0, <3>1, AdvancedLate
      <3> QED BY <2>0, <3>2
    <2>2. CASE i # Len(OldAdmins)
      <3>1. v = [work[o] EXCEPT !.next = i + 1]
        BY <2>0, <2>2
      <3>2. i + 1 \in Nat /\ i + 1 \in 1 .. Len(OldAdmins)
        <4>1. Len(OldAdmins) \in Nat
          BY RestoreAssumption
        <4> QED BY <1>0, <2>2, <4>1
      <3>3. v \in Works /\ v.kind = "import" /\ v.ids = work[o].ids /\ v.from = work[o].from /\ v.pc = 4 /\ v.next = i + 1
        <4> HIDE DEF i
        <4> QED BY <1>0, <3>1, <3>2 DEF Works
      <3> QED BY <2>0, <3>2, <3>3
    <2> QED BY <2>1, <2>2
  <1> HIDE DEF w
  <1>2. ASSUME NEW r \in Works, work' = [work EXCEPT ![o] = r], r.kind = "import", r.ids \in AdminMaps,
               r.from = w.from, r.pc = w.pc, r.next = w.next, data' \in Databases,
               Owned(data) => Owned(data'), InSeq(data) => InSeq(data'),
               Mapped(work[o].ids, data.admins) => Mapped(r.ids, data'.admins)
        PROVE  RestInv'
    <2>1. WorkOK(r) /\ Way(r) /\ Way(work[o]) /\ ~Covering(r) /\ Owes(r) /\ ~Keeping(work[o]) /\ Mapping(work[o])
      <3>1. 1 \in 1 .. Len(OldUsers)
        BY RestoreAssumption
      <3>2. r.pc \in {4, 5} /\ (r.pc = 4 => r.next \in 1 .. Len(OldAdmins)) /\ (r.pc = 5 => r.next = 1)
        BY <1>1, <1>2
      <3>3. r.kind = "import" /\ r.ids \in AdminMaps
        BY <1>2
      <3>4. work[o].kind = "import" /\ work[o].pc = 4
        BY <1>0
      <3>5. WorkOK(r)
        BY <3>1, <3>2, <3>3 DEF WorkOK
      <3> QED BY <3>2, <3>3, <3>4, <3>5 DEF Way, Covering, Owes, Keeping, Mapping
    <2>2. Moved(o) /\ work'[o] = r
      BY <1>0, <1>2, <2>1, MoveTo
    <2>3. RestShape'
      BY <1>0, <1>2, <2>2 DEF RestShape, Moved
    <2>4. ~crossed => Owned(data') /\ Mapped(r.ids, data'.admins) /\ uncovered' \subseteq during
      BY <1>0, <1>2, <2>1 DEF RestInv, OwnersAreHere, BackupCovers
    <2>5. ~crossed /\ ~unsynced => InSeq(data')
      BY <1>2, <2>1, OnlyKeeper
    <2>6. r.from \in {work[o].from, Fresh0}
      BY <1>1, <1>2
    <2> QED BY <1>0, <2>1, <2>2, <2>3, <2>4, <2>5, <2>6, DataMoves DEF RestInv
  <1>3. CASE work' = [work EXCEPT ![o] = w] /\ data' = data
    BY <1>0, <1>1, <1>2, <1>3
  <1>4. CASE /\ data' = [data EXCEPT !.aseq = id, !.admins = data.admins \cup {[id |-> id, src |-> OldAdmins[i]]}]
             /\ work' = [work EXCEPT ![o] = [w EXCEPT !.ids[i] = id]]
    <2>1. id \in Nat /\ OldAdmins[i] \in Nat /\ data \in Tables
      <3>1. data.aseq \in Nat /\ data \in Tables
        BY <1>0, DatabaseFields DEF Databases
      <3>2. i \in 1 .. Len(OldAdmins) /\ OldAdmins \in Seq(Nat)
        BY <1>0, RestoreAssumption
      <3> QED BY <3>1, <3>2
    <2>2. PICK a : a = [id |-> id, src |-> OldAdmins[i]]
      OBVIOUS
    <2>3. a \in [id : Nat, src : Nat] /\ a.id = id /\ a.src = OldAdmins[i]
      BY <2>1, <2>2
    <2>4. data' \in Tables /\ data'.users = data.users /\ data'.seq = data.seq /\ data'.admins = data.admins \cup {a}
      <3>1. PICK e : e = [data EXCEPT !.aseq = id, !.admins = data.admins \cup {a}]
        OBVIOUS
      <3>2. e \in Tables /\ e.users = data.users /\ e.seq = data.seq /\ e.admins = data.admins \cup {a}
        <4> HIDE DEF id
        <4> QED BY <2>1, <2>3, <3>1 DEF Tables
      <3> QED BY <1>4, <2>2, <3>1, <3>2
    <2>5. data' \in Databases
      BY <1>0, <2>4, FewerUsers
    <2>6. PICK ids : ids = [work[o].ids EXCEPT ![i] = id]
      OBVIOUS
    <2>7. ids \in AdminMaps /\ ids[i] = id /\ \A j \in 1 .. Len(OldAdmins) : j # i => ids[j] = work[o].ids[j]
      <3> HIDE DEF i, id
      <3> QED BY <1>0, <2>1, <2>6 DEF AdminMaps
    <2>8. PICK r : r = [w EXCEPT !.ids = ids]
      OBVIOUS
    <2>9. /\ r \in Works /\ r.kind = "import" /\ r.ids = ids
          /\ r.from = w.from /\ r.pc = w.pc /\ r.next = w.next
      BY <1>1, <2>7, <2>8 DEF Works
    <2>10. work' = [work EXCEPT ![o] = r]
      <3>1. w.ids = work[o].ids
        BY <1>1
      <3> QED BY <1>4, <2>6, <2>8, <3>1
    <2>11. (Owned(data) => Owned(data')) /\ (InSeq(data) => InSeq(data'))
      BY <2>4 DEF Owned, InSeq
    <2>12. Mapped(work[o].ids, data.admins) => Mapped(ids, data'.admins)
      <3> HIDE DEF i, id
      <3> QED BY <2>3, <2>4, <2>7 DEF Mapped
    <2> QED BY <1>2, <2>5, <2>7, <2>9, <2>10, <2>11, <2>12
  <1> QED BY <1>3, <1>4 DEF ImportAdmin, w

\* The elements of a sequence.
LEMMA Element ==
  ASSUME NEW S, NEW s \in Seq(S), NEW k \in 1 .. Len(s)
  PROVE  s[k] \in S
  OBVIOUS

\* The owner of an imported user is the admin here that its admin there became.
LEMMA OwnerFacts ==
  ASSUME NEW o \in Operators, work[o].ids \in AdminMaps, NEW src
  PROVE  /\ OwnerHere(o, src) \in Nat
         /\ OwnerHere(o, src) > 0 => \E i \in 1 .. Len(OldAdmins) :
                                        OldAdmins[i] = src /\ work[o].ids[i] > 0 /\ work[o].ids[i] = OwnerHere(o, src)
  <1> DEFINE known == {i \in 1 .. Len(OldAdmins) : OldAdmins[i] = src /\ work[o].ids[i] > 0}
  <1>1. CASE known = {}
    <2>1. OwnerHere(o, src) = 0
      BY <1>1 DEF OwnerHere
    <2> QED BY <2>1
  <1>2. CASE known # {}
    <2>1. PICK i : i = CHOOSE j \in known : TRUE
      OBVIOUS
    <2>2. i \in known
      BY <1>2, <2>1, Zenon
    <2>3. OwnerHere(o, src) = work[o].ids[i]
      BY <1>2, <2>1 DEF OwnerHere
    <2> QED BY <2>2, <2>3 DEF AdminMaps
  <1> QED BY <1>1, <1>2

\* A user is imported with its owner, or skipped.
LEMMA ImportUserStep ==
  ASSUME RestInv, NEW o \in Operators, ImportUser(o)
  PROVE  RestInv'
  <1> DEFINE n == work[o].next
             u == OldUsers[n]
             id == IF work[o].keepIds THEN u.src ELSE data.seq + 1
             seq == IF work[o].keepIds THEN data.seq ELSE id
             w == IF n = Len(OldUsers) THEN Advanced(work[o]) ELSE [work[o] EXCEPT !.next = n + 1]
             row == [id |-> id, row |-> 0, src |-> u.src, owner |-> OwnerHere(o, u.admin)]
             us == IF id \in IdsOf(data.users) THEN data.users ELSE data.users \cup {row}
  <1>0. /\ RestShape /\ work[o] \in Works /\ work[o].kind = "import" /\ work[o].pc = 5 /\ data \in Databases
        /\ n \in 1 .. Len(OldUsers) /\ work[o].ids \in AdminMaps
        /\ UNCHANGED <<upkeep, files, dumps, teller, held, rows, during, uncovered, lateFill, crossed, lame, unsynced>>
    <2>1. RestShape /\ Doing(o, "users")
          /\ UNCHANGED <<upkeep, files, dumps, teller, held, rows, during, uncovered, lateFill, crossed, lame, unsynced>>
      BY DEF RestInv, ImportUser, histVars
    <2>2. work[o] \in Works /\ data \in Databases /\ WorkOK(work[o])
      BY <2>1 DEF RestShape
    <2>3. work[o].kind = "import" /\ work[o].pc = 5
      BY <2>1, DoingFacts
    <2> QED BY <2>1, <2>2, <2>3 DEF WorkOK
  <1>1. PICK r : r = w
    OBVIOUS
  <1>2. /\ r \in Works /\ r.kind = "import" /\ r.ids = work[o].ids /\ r.from \in {work[o].from, Fresh0}
        /\ r.keepIds = work[o].keepIds
        /\ (r.pc = 5 /\ r.next \in 1 .. Len(OldUsers)) \/ r.pc = 6
    <2>1. CASE n = Len(OldUsers)
      <3>1. r = Advanced(work[o])
        BY <1>1, <2>1
      <3> QED BY <1>0, <3>1, AdvancedLate
    <2>2. CASE n # Len(OldUsers)
      <3>1. r = [work[o] EXCEPT !.next = n + 1]
        BY <1>1, <2>2
      <3>2. n + 1 \in Nat /\ n + 1 \in 1 .. Len(OldUsers)
        <4>1. Len(OldUsers) \in Nat
          BY RestoreAssumption
        <4> QED BY <1>0, <2>2, <4>1
      <3>3. /\ r \in Works /\ r.kind = "import" /\ r.ids = work[o].ids /\ r.from = work[o].from
            /\ r.keepIds = work[o].keepIds /\ r.pc = 5 /\ r.next = n + 1
        <4> HIDE DEF n
        <4> QED BY <1>0, <3>1, <3>2 DEF Works
      <3> QED BY <3>2, <3>3
    <2> QED BY <2>1, <2>2
  <1>3. WorkOK(r) /\ Way(r) /\ Way(work[o]) /\ ~Covering(r) /\ Owes(r) /\ Mapping(work[o])
        /\ (Keeping(r) <=> work[o].keepIds) /\ (Keeping(work[o]) <=> work[o].keepIds)
    <2>1. work[o].kind = "import" /\ work[o].pc = 5 /\ work[o].ids \in AdminMaps /\ work[o].keepIds \in BOOLEAN
      BY <1>0, WorkFields
    <2>2. r.kind = "import" /\ r.pc \in {5, 6} /\ (r.pc = 5 => r.next \in 1 .. Len(OldUsers)) /\ r.ids \in AdminMaps
          /\ r.keepIds = work[o].keepIds
      BY <1>2, <2>1
    <2> QED BY <2>1, <2>2 DEF WorkOK, Way, Covering, Owes, Mapping, Keeping
  <1>4. Moved(o) /\ work'[o] = r
    <2>1. work' = [work EXCEPT ![o] = r]
      BY <1>1 DEF ImportUser
    <2> QED BY <1>0, <1>2, <1>3, <2>1, MoveTo
  <1>5. CASE /\ data' \in Databases /\ data'.admins = data.admins
             /\ Owned(data) /\ Mapped(work[o].ids, data.admins) => Owned(data')
             /\ ~work[o].keepIds => (InSeq(data) => InSeq(data'))
    <2>1. RestShape'
      BY <1>0, <1>4, <1>5 DEF RestShape, Moved
    <2>2. ~crossed => Owned(data') /\ Mapped(r.ids, data'.admins) /\ uncovered' \subseteq during
      <3>1. ~crossed => Owned(data) /\ Mapped(work[o].ids, data.admins) /\ uncovered \subseteq during
        BY <1>3 DEF RestInv, OwnersAreHere, BackupCovers
      <3> QED BY <1>0, <1>2, <1>5, <3>1
    <2>3. ~crossed /\ ~unsynced => InSeq(data') \/ Keeping(r)
      BY <1>3, <1>5, OnlyKeeper
    <2> QED BY <1>0, <1>2, <1>3, <1>4, <2>1, <2>2, <2>3, DataMoves DEF RestInv
  <1>6. CASE data' = data
    BY <1>0, <1>5, <1>6
  <1>7. CASE data' = [data EXCEPT !.seq = seq, !.users = us]
    <2>1. data.seq \in Nat /\ data \in Tables /\ data.users \subseteq Accounts
      BY <1>0, DatabaseFields DEF Databases
    <2>2. u.src \in Nat
      <3>1. n \in 1 .. Len(OldUsers) /\ OldUsers \in Seq([src : Nat, admin : Nat])
        BY <1>0, RestoreAssumption
      <3>2. OldUsers[n] \in [src : Nat, admin : Nat]
        BY <3>1, Element, Zenon
      <3> QED BY <3>2
    <2>3. id \in Nat /\ seq \in Nat /\ (~work[o].keepIds => seq = data.seq + 1 /\ id = data.seq + 1)
      BY <2>1, <2>2
    <2>4. OwnerHere(o, u.admin) \in Nat /\ (OwnerHere(o, u.admin) > 0 =>
             \E i \in 1 .. Len(OldAdmins) : OldAdmins[i] = u.admin /\ work[o].ids[i] > 0
                                            /\ work[o].ids[i] = OwnerHere(o, u.admin))
      BY <1>0, OwnerFacts
    <2>5. row \in Accounts /\ row.id = id /\ row.src = u.src /\ row.owner = OwnerHere(o, u.admin)
      <3> HIDE DEF id, u
      <3>1. 0 \in 0 .. MaxRows
        BY RestoreAssumption
      <3> QED BY <2>2, <2>3, <2>4, <3>1 DEF Accounts
    <2> HIDE DEF row, id, seq
    <2>6. us = data.users \/ us = data.users \cup {row}
      OBVIOUS
    <2> HIDE DEF us
    <2>7. data' \in Tables /\ data'.users = us /\ data'.seq = seq /\ data'.admins = data.admins
      <3>1. us \subseteq Accounts
        BY <2>1, <2>5, <2>6
      <3>2. PICK e : e = [data EXCEPT !.seq = seq, !.users = us]
        OBVIOUS
      <3>3. e \in Tables /\ e.users = us /\ e.seq = seq /\ e.admins = data.admins
        BY <2>1, <2>3, <3>1, <3>2 DEF Tables
      <3> QED BY <1>7, <3>2, <3>3
    <2>8. data' \in Databases
      BY <1>0, <2>5, <2>6, <2>7, UserAdded
    <2>9. ASSUME Owned(data), Mapped(work[o].ids, data.admins) PROVE Owned(data')
      <3>1. ASSUME row.owner > 0
            PROVE  \E a \in data.admins, i \in 1 .. Len(OldUsers) :
                      a.id = row.owner /\ OldUsers[i].src = row.src /\ a.src = OldUsers[i].admin
        <4>1. PICK i \in 1 .. Len(OldAdmins) : OldAdmins[i] = u.admin /\ work[o].ids[i] > 0 /\ work[o].ids[i] = row.owner
          BY <2>4, <2>5, <3>1
        <4>2. PICK a \in data.admins : a.id = work[o].ids[i] /\ a.src = OldAdmins[i]
          BY <2>9, <4>1 DEF Mapped
        <4>3. n \in 1 .. Len(OldUsers) /\ OldUsers[n].src = row.src /\ OldUsers[n].admin = u.admin
          BY <1>0, <2>5
        <4> QED BY <4>1, <4>2, <4>3
      <3> QED BY <2>6, <2>7, <2>9, <3>1 DEF Owned
    <2>10. ASSUME ~work[o].keepIds, InSeq(data) PROVE InSeq(data')
      <3>1. \A v \in data.users : v.id \in Nat
        BY <2>1 DEF Accounts
      <3> QED BY <2>1, <2>3, <2>5, <2>6, <2>7, <2>10, <3>1 DEF InSeq
    <2> QED BY <1>5, <2>7, <2>8, <2>9, <2>10
  <1> QED BY <1>6, <1>7 DEF ImportUser

\* The sequence is moved past the users that kept their ids.
LEMMA SyncSequenceStep ==
  ASSUME RestInv, NEW o \in Operators, SyncSequence(o)
  PROVE  RestInv'
  <1>0. /\ RestShape /\ work[o] \in Works /\ work[o].kind = "import" /\ work[o].pc = 6 /\ data \in Databases
        /\ work' = [work EXCEPT ![o] = Advanced(work[o])]
        /\ UNCHANGED <<upkeep, files, dumps, teller, held, rows, during, uncovered, lateFill, crossed, lame>>
    <2>1. RestShape /\ Doing(o, "sync") /\ work' = [work EXCEPT ![o] = Advanced(work[o])]
          /\ UNCHANGED <<upkeep, files, dumps, teller, held, rows, during, uncovered, lateFill, crossed, lame>>
      BY DEF RestInv, SyncSequence
    <2>2. work[o] \in Works /\ data \in Databases
      BY <2>1 DEF RestShape
    <2> QED BY <2>1, <2>2, DoingFacts
  <1>1. PICK r : r = Advanced(work[o])
    OBVIOUS
  <1>2. r \in Works /\ r.kind = "import" /\ r.pc = 7 /\ r.from = Fresh0
    BY <1>0, <1>1, AdvancedLate
  <1>3. WorkOK(r) /\ Way(r) /\ Way(work[o]) /\ ~Covering(r) /\ Owes(r) /\ ~Mapping(r)
        /\ (Keeping(work[o]) => work[o].keepIds)
    BY <1>0, <1>2 DEF WorkOK, Way, Covering, Owes, Mapping, Keeping
  <1>4. Moved(o) /\ work'[o] = r
    BY <1>0, <1>1, <1>2, <1>3, MoveTo
  <1>5. CASE /\ data' \in Databases /\ (Owned(data) => Owned(data')) /\ unsynced' \in BOOLEAN /\ (unsynced => unsynced')
             /\ ~crossed /\ ~unsynced' => InSeq(data')
    <2>1. RestShape'
      BY <1>0, <1>4, <1>5 DEF RestShape, Moved
    <2>2. ~crossed => Owned(data') /\ uncovered' \subseteq during
      BY <1>0, <1>5 DEF RestInv, OwnersAreHere, BackupCovers
    <2> QED BY <1>0, <1>2, <1>3, <1>4, <1>5, <2>1, <2>2, DataMoves DEF RestInv
  <1>6. CASE data' = data /\ unsynced' = TRUE
    BY <1>0, <1>5, <1>6
  <1>7. CASE data' = data /\ unsynced' = unsynced /\ ~work[o].keepIds
    BY <1>0, <1>3, <1>5, <1>7, OnlyKeeper DEF RestInv
  <1>8. CASE data' = SyncUsersIDSequence(data) /\ unsynced' = unsynced
    <2> DEFINE ids == IdsOf(data.users) \cup {0}
    <2>1. PICK b \in Nat : \A v \in data.users : v.id <= b
      BY <1>0, DatabaseFields
    <2>2. data \in Tables /\ \A v \in data.users : v.id \in Nat
      BY <1>0, DatabaseFields DEF Databases, Accounts
    <2>3. ids \in SUBSET Nat /\ ids # {} /\ \A x \in ids : x <= b
      BY <2>1, <2>2 DEF IdsOf
    <2>4. \A v \in data.users : v.id \in ids
      BY DEF IdsOf
    <2> HIDE DEF ids
    <2>5. Max(ids) \in ids /\ \A y \in ids : y <= Max(ids)
      BY <2>3, Greatest
    <2>6. PICK m : m = Max(ids)
      OBVIOUS
    <2>7. data' = [data EXCEPT !.seq = m] /\ m \in Nat
      BY <1>8, <2>3, <2>5, <2>6 DEF SyncUsersIDSequence, ids
    <2>8. data' \in Tables /\ data'.users = data.users /\ data'.admins = data.admins /\ data'.seq = m
      BY <2>2, <2>7 DEF Tables
    <2>9. data' \in Databases /\ (Owned(data) => Owned(data')) /\ InSeq(data')
      <3>1. data' \in Databases
        BY <1>0, <2>8, FewerUsers
      <3> QED BY <2>4, <2>5, <2>6, <2>8, <3>1 DEF Owned, InSeq
    <2> QED BY <1>5, <1>8, <2>9 DEF RestInv
  <1> QED BY <1>6, <1>7, <1>8 DEF SyncSequence

\* Nothing is under way at the start.
LEMMA RestInit ==
  ASSUME RestoreInit
  PROVE  RestInv
  <1>1. data \in Databases /\ data.seq = 1 /\ \A u \in data.users : u.id = 1 /\ u.row = 1 /\ u.src = 0
    <2>1. PICK u : u = [id |-> 1, row |-> 1, src |-> 0, owner |-> 0]
      OBVIOUS
    <2>2. u \in Accounts /\ u.id = 1 /\ u.row = 1 /\ u.src = 0
      <3>1. 1 \in 0 .. MaxRows
        BY RestoreAssumption
      <3> QED BY <2>1, <3>1 DEF Accounts
    <2>3. PICK d : d = [Fresh0 EXCEPT !.users = {u}, !.seq = 1]
      OBVIOUS
    <2>4. d \in Tables /\ d.users = {u} /\ d.seq = 1
      BY <2>2, <2>3 DEF Tables, Fresh0
    <2>5. d \in Databases
      BY <2>2, <2>4 DEF Databases
    <2>6. data = d
      BY <2>1, <2>3 DEF RestoreInit
    <2> QED BY <2>2, <2>4, <2>5, <2>6
  <1>2. \A o \in Operators : work[o] = Rest
    BY DEF RestoreInit
  <1>3. RestShape
    <2>1. 1 \in 1 .. MaxRows /\ 0 \in 0 .. MaxDumps
      BY RestoreAssumption
    <2>2. work \in [Operators -> Works] /\ \A o \in Operators : WorkOK(work[o])
      BY <1>2, RestFacts DEF RestoreInit
    <2> QED BY <1>1, <2>1, <2>2 DEF RestoreInit, RestShape
  <1>4. \A o \in Operators : ~Way(work[o]) /\ ~Covering(work[o]) /\ ~Mapping(work[o]) /\ work[o].from = Fresh0
    BY <1>2, RestFacts DEF Covering, Mapping
  <1>5. Owned(Fresh0) /\ InSeq(Fresh0) /\ Owned(data) /\ InSeq(data)
    BY <1>1, RestFacts DEF Owned, InSeq
  <1>6. OneAtATime /\ BackupCovers /\ FlagIsOwned /\ FlushIsOwed
    BY <1>4 DEF RestoreInit, OneAtATime, BackupCovers, FlagIsOwned, FlushIsOwed
  <1>7. OwnersAreHere /\ SequencesLead
    BY <1>4, <1>5 DEF RestoreInit, OwnersAreHere, SequencesLead
  <1> QED BY <1>3, <1>6, <1>7 DEF RestInv, RestoreInit

\* Backups, restores and imports may overlap, fail or die at any step, for any number of
\* them.  Unless two crossed, none drops a user that its safety backup lacks, but for those
\* created by requests still running, imported users have their owners and, unless a backup
\* caught an import midway, no id is ahead of the sequence.  The flag has an owner unless a
\* process died or Redis gave no answer about it, and the cache follows the database unless
\* a reader filed the old one late or the flush never came
\* (handleRestoreBackup and restoreFromReader of backup.go, loadLegacyImport).
THEOREM RestoreTheorem == RestoreSpec => []RestoreSafe
  <1>1. RestoreInit => RestInv
    BY RestInit
  <1>2. RestInv /\ [RestoreNext]_restVars => RestInv'
    <2> SUFFICES ASSUME RestInv, [RestoreNext]_restVars PROVE RestInv'
      OBVIOUS
    <2>1. CASE UNCHANGED restVars
      <3>1. RestShape'
        BY <2>1 DEF RestInv, RestShape, restVars
      <3> QED BY <2>1, <3>1, IdleSteps DEF RestInv, restVars
    <2>2. ASSUME NEW t \in Tellers, Admit(t) \/ TellerWrites(t) \/ TellerReads(t) \/ TellerFills(t)
          PROVE  RestInv'
      BY <2>2, QuietTellers, TellerWritesStep
    <2>3. CASE DeleteBackup
      BY <2>3, QuietTellers
    <2>4. ASSUME NEW o \in Operators, Ask(o) \/ RaiseFlag(o) \/ BeginDump(o) \/ EndDump(o) \/ DumpFails(o) \/ RestoreFails(o)
          PROVE  RestInv'
      BY <2>4, AskStep, RaiseFlagStep, BeginDumpStep, EndDumpStep, FailSteps
    <2>5. ASSUME NEW o \in Operators, ReplaceDatabase(o) \/ TruncateTables(o) \/ ImportAdmin(o) \/ ImportUser(o) \/ SyncSequence(o)
          PROVE  RestInv'
      BY <2>5, ReplaceDatabaseStep, TruncateTablesStep, ImportAdminStep, ImportUserStep, SyncSequenceStep
    <2>6. ASSUME NEW o \in Operators, FlushCache(o) \/ LiftFlag(o) \/ Die(o)
          PROVE  RestInv'
      BY <2>6, FlushCacheStep, LiftFlagStep, DieStep
    <2> QED BY <2>1, <2>2, <2>3, <2>4, <2>5, <2>6 DEF RestoreNext
  <1>3. RestInv => RestoreSafe
    <2> SUFFICES ASSUME RestInv PROVE RestoreSafe
      OBVIOUS
    <2>0. RestShape
      BY DEF RestInv
    <2>1. RestoreTypeOK
      <3>1. files \subseteq [no : 1 .. MaxDumps, of : {f.of : f \in files}, whole : BOOLEAN]
        BY <2>0 DEF RestShape
      <3>2. \A o \in Operators : work[o].pc \in 1 .. Len(Course(work[o].kind)) \/ ~Busy(o)
        <4> SUFFICES ASSUME NEW o \in Operators, Busy(o) PROVE work[o].pc \in 1 .. Len(Course(work[o].kind))
          OBVIOUS
        <4>1. WorkOK(work[o]) /\ work[o].kind \in {"backup", "restore", "import"}
          BY <2>0, WorkFields DEF RestShape, Busy
        <4> QED BY <4>1, CourseFacts DEF WorkOK
      <3> QED BY <2>0, <3>1, <3>2 DEF RestoreTypeOK, RestShape
    <2>2. SafetyCovers
      BY DEF RestInv, BackupCovers, SafetyCovers
    <2>3. FlagHasOwner
      BY <2>0, DoingFacts DEF RestInv, FlagIsOwned, FlagHasOwner
    <2>4. CacheFollows
      <3>1. \A o \in Operators : ~Busy(o) => ~Owes(work[o])
        BY DEF Busy, Owes
      <3> QED BY <3>1 DEF RestInv, FlushIsOwed, CacheFollows
    <2>5. ImportsLandRight
      <3>1. \A o \in Operators : ~Busy(o) => ~Keeping(work[o])
        BY DEF Busy, Keeping
      <3>2. ~crossed => Owned(data)
        BY DEF RestInv, OwnersAreHere
      <3>3. ~crossed /\ (\A o \in Operators : ~Busy(o)) /\ ~unsynced => InSeq(data)
        BY <3>1 DEF RestInv, SequencesLead
      <3> QED BY <3>2, <3>3 DEF ImportsLandRight, Owned, InSeq
    <2> QED BY <2>1, <2>2, <2>3, <2>4, <2>5 DEF RestoreSafe
  <1> QED BY <1>1, <1>2, <1>3, PTL DEF RestoreSpec

-----------------------------------------------------------------------------
(***************************************************************************)
(* The cache of node configs.  The invariant follows a version through the *)
(* flights: whatever is filed under the version the database has now - the *)
(* parts a load has read, the snapshot, the content a build was handed,    *)
(* the entries - equals what the database holds, because nothing has       *)
(* changed since that version was read; a change makes a version nothing   *)
(* is filed under yet.                                                     *)
(***************************************************************************)

\* Builds are made for versions the database has reached.
BuildsReached == \A b \in Profiles \X Versions : build[b] # "none" => b[2] <= version

\* What loads and builds hold under the current version is the content.
FlightsExact ==
    /\ version \in loading =>
          \A part \in Parts \ toRead[version] : got[version][part] = content[part]
    /\ \A b \in Profiles \X Versions :
          b[2] = version /\ build[b] = "loaded" => buildContent[b] = content

IInv == TypeOK /\ BuildsReached /\ FlightsExact /\ CurrentIsExact

\* Empty content is content.
LEMMA NoneType == None \in Contents
  BY DEF None, Contents

\* The cache starts empty.
LEMMA InitIInv == Init => IInv
  <1> SUFFICES ASSUME Init PROVE IInv
    OBVIOUS
  <1>0. 0 \in Versions /\ 0 \in Times /\ 0 \in 0 .. version
    BY BoundsAssumption DEF Init, Versions, Times
  <1>1. TypeOK
    <2> USE <1>0, NoneType DEF Init
    <2>1. /\ entryVersion \in [Profiles -> 0 .. version] /\ entryAt \in [Profiles -> Times]
          /\ entryContent \in [Profiles -> Contents]
      OBVIOUS
    <2>2. /\ toRead \in [Versions -> SUBSET Parts] /\ got \in [Versions -> Contents]
          /\ build \in [Profiles \X Versions -> {"none", "started", "loading", "loaded"}]
          /\ buildContent \in [Profiles \X Versions -> Contents]
      OBVIOUS
    <2>3. /\ stage \in [Polls -> {"idle", "looking", "missed", "own", "waiting", "answered"}]
          /\ read \in [Polls -> 0 .. version] /\ floor \in [Polls -> Contents]
          /\ answer \in [Polls -> Contents]
          /\ ownLeft \in [Polls -> SUBSET Parts]
      OBVIOUS
    <2> QED BY <2>1, <2>2, <2>3 DEF TypeOK
  <1>2. BuildsReached /\ FlightsExact /\ CurrentIsExact
    BY DEF Init, BuildsReached, FlightsExact, CurrentIsExact
  <1> QED BY <1>1, <1>2 DEF IInv

\* A reported change: nothing is filed under its version.
LEMMA ChangeIInv ==
  ASSUME IInv, NEW part \in Parts, Change(part)
  PROVE  IInv'
  <1> USE DEF IInv
  <1>1. /\ version \in Nat /\ version' = version + 1 /\ version' \in Versions
        /\ UNCHANGED <<now, snapVars, entryVars, loadVars, buildVars, pollVars>>
    BY BoundsAssumption DEF Change, TypeOK, Versions
  <1>2. content' \in Contents
    BY DEF Change, TypeOK, Contents
  <1>3. 0 .. version \subseteq 0 .. version'
    BY <1>1
  <1>4. TypeOK'
    BY <1>1, <1>2, <1>3
       DEF TypeOK, snapVars, entryVars, loadVars, buildVars, pollVars
  <1>5. BuildsReached'
    BY <1>1 DEF BuildsReached, buildVars, Versions
  <1>6. FlightsExact' /\ CurrentIsExact'
    <2>1. version' \notin loading /\ snapVersion # version'
          /\ \A p \in Profiles : entryVersion[p] # version'
      BY <1>1 DEF TypeOK
    <2>2. \A b \in Profiles \X Versions : b[2] = version' => build[b] = "none"
      BY <1>1 DEF BuildsReached
    <2>3. cached \subseteq Profiles
      BY DEF TypeOK
    <2> QED BY <1>1, <2>1, <2>2, <2>3
            DEF FlightsExact, CurrentIsExact, snapVars, entryVars, loadVars, buildVars
  <1> QED BY <1>4, <1>5, <1>6

\* Steps of the clock and of the polls that leave cache and flights alone.
LEMMA PollIInv ==
  ASSUME IInv,
         \/ ClockTicks
         \/ \E r \in Polls, p \in Profiles : ReadVersion(r, p) \/ VersionUnreadable(r, p)
         \/ \E r \in Polls, part \in Parts : ReadOwnPart(r, part)
         \/ \E r \in Polls : LookupHits(r) \/ LookupMisses(r)
  PROVE  IInv'
  <1>1. UNCHANGED <<dbVars, snapVars, entryVars, loadVars, buildVars>>
    BY DEF ClockTicks, ReadVersion, VersionUnreadable, ReadOwnPart, LookupHits, LookupMisses
  <1>2. BuildsReached' /\ FlightsExact' /\ CurrentIsExact'
    BY <1>1 DEF IInv, BuildsReached, FlightsExact, CurrentIsExact,
       dbVars, snapVars, entryVars, loadVars, buildVars
  <1> USE DEF IInv, TypeOK, dbVars, snapVars, entryVars, loadVars, buildVars
  <1>3. CASE ClockTicks
    <2>1. now' \in Times
      BY <1>3, BoundsAssumption DEF ClockTicks, Times
    <2>2. TypeOK'
      BY <1>1, <1>3, <2>1 DEF ClockTicks, pollVars
    <2> QED BY <1>2, <2>2
  <1>4. ASSUME NEW r \in Polls, NEW p \in Profiles, ReadVersion(r, p) PROVE TypeOK'
    <2>1. version \in 0 .. version
      BY BoundsAssumption DEF Versions
    <2> QED BY <1>1, <1>4, <2>1, NoneType DEF ReadVersion
  <1>5. ASSUME NEW r \in Polls, NEW p \in Profiles, VersionUnreadable(r, p) PROVE TypeOK'
    BY <1>1, <1>5, NoneType DEF VersionUnreadable
  <1>6. ASSUME NEW r \in Polls, NEW part \in Parts, ReadOwnPart(r, part) PROVE TypeOK'
    <2>1. answer' \in [Polls -> Contents]
      BY <1>6 DEF ReadOwnPart, Contents
    <2> QED BY <1>1, <1>6, <2>1 DEF ReadOwnPart
  <1>7. ASSUME NEW r \in Polls, LookupHits(r) PROVE TypeOK'
    <2>1. profile[r] \in Profiles /\ entryContent[profile[r]] \in Contents
      OBVIOUS
    <2>2. /\ stage' \in [Polls -> {"idle", "looking", "missed", "own", "waiting", "answered"}]
          /\ answer' \in [Polls -> Contents]
      BY <1>7, <2>1 DEF LookupHits, Answer
    <2>3. now' = now /\ UNCHANGED <<profile, read, floor, ownLeft>>
      BY <1>7 DEF LookupHits
    <2> QED BY <1>1, <2>2, <2>3
  <1>8. ASSUME NEW r \in Polls, LookupMisses(r) PROVE TypeOK'
    BY <1>1, <1>8 DEF LookupMisses
  <1> QED BY <1>2, <1>3, <1>4, <1>5, <1>6, <1>7, <1>8

\* A poll starts or joins the build of the version it read.
LEMMA JoinBuildIInv ==
  ASSUME IInv, NEW r \in Polls, JoinBuild(r)
  PROVE  IInv'
  <1>1. /\ BuildOf(r) = <<profile[r], read[r]>> /\ read[r] \in 0 .. version
        /\ BuildOf(r) \in Profiles \X Versions /\ BuildOf(r)[2] = read[r]
    BY BoundsAssumption DEF IInv, TypeOK, BuildOf, Versions
  <1>2. /\ build' \in [Profiles \X Versions -> {"none", "started", "loading", "loaded"}]
        /\ \A b \in Profiles \X Versions : build'[b] = build[b] \/ (b = BuildOf(r) /\ build'[b] = "started")
    BY <1>1 DEF IInv, TypeOK, JoinBuild
  <1>3. TypeOK'
    BY <1>1, <1>2 DEF IInv, TypeOK, JoinBuild, dbVars, snapVars, entryVars, loadVars
  <1>4. BuildsReached'
    BY <1>1, <1>2 DEF IInv, TypeOK, BuildsReached, JoinBuild, dbVars, Versions
  <1>5. FlightsExact' /\ CurrentIsExact'
    BY <1>2 DEF IInv, FlightsExact, CurrentIsExact, JoinBuild, dbVars, snapVars, entryVars, loadVars
  <1> QED BY <1>3, <1>4, <1>5 DEF IInv

\* Answering the polls of a build leaves them well formed.
LEMMA AnswerAllType ==
  ASSUME TypeOK, NEW b, NEW c \in Contents, AnswerAll(b, c)
  PROVE  /\ stage' \in [Polls -> {"idle", "looking", "missed", "own", "waiting", "answered"}]
         /\ answer' \in [Polls -> Contents]
  BY DEF TypeOK, AnswerAll

\* The build finds the entry, takes the snapshot or joins a load.
LEMMA BuildIInv ==
  ASSUME IInv, NEW b \in Profiles \X Versions,
         BuildHits(b) \/ UseSnapshot(b) \/ JoinLoad(b)
  PROVE  IInv'
  <1> USE DEF IInv
  <1>0. b[1] \in Profiles /\ b[2] \in Versions /\ build[b] = "started" /\ b[2] <= version
    BY DEF BuildHits, UseSnapshot, JoinLoad, BuildsReached
  <1>1. CASE BuildHits(b)
    <2>1. entryContent[b[1]] \in Contents
      BY <1>0 DEF TypeOK
    <2>2. TypeOK'
      BY <1>1, <2>1, AnswerAllType
         DEF TypeOK, BuildHits, dbVars, snapVars, entryVars, loadVars
    <2>3. \A x \in Profiles \X Versions : build'[x] = build[x] \/ build'[x] = "none"
      BY <1>1 DEF TypeOK, BuildHits
    <2>4. BuildsReached' /\ FlightsExact' /\ CurrentIsExact'
      BY <1>1, <2>3 DEF BuildHits, BuildsReached, FlightsExact, CurrentIsExact,
         dbVars, snapVars, entryVars, loadVars
    <2> QED BY <2>2, <2>4
  <1>2. CASE UseSnapshot(b)
    <2>1. TypeOK'
      BY <1>2 DEF TypeOK, UseSnapshot, dbVars, snapVars, entryVars, loadVars, pollVars
    <2>2. \A x \in Profiles \X Versions :
             \/ x # b /\ build'[x] = build[x] /\ buildContent'[x] = buildContent[x]
             \/ x = b /\ build'[x] = "loaded" /\ buildContent'[x] = snapContent
      BY <1>2 DEF TypeOK, UseSnapshot
    <2>3. hasSnap /\ snapVersion = b[2]
      BY <1>2 DEF UseSnapshot, SnapHit
    <2>4. BuildsReached'
      BY <1>0, <1>2, <2>2 DEF BuildsReached, UseSnapshot, dbVars
    <2>5. FlightsExact'
      BY <1>2, <2>2, <2>3 DEF FlightsExact, CurrentIsExact, UseSnapshot, dbVars, loadVars
    <2>6. CurrentIsExact'
      BY <1>2 DEF CurrentIsExact, UseSnapshot, dbVars, snapVars, entryVars
    <2> QED BY <2>1, <2>4, <2>5, <2>6
  <1>3. CASE JoinLoad(b)
    <2>1. b[2] \in 0 .. version
      BY <1>0, BoundsAssumption DEF TypeOK, Versions
    <2>2. toRead' \in [Versions -> SUBSET Parts] /\ got' \in [Versions -> Contents]
      BY <1>0, <1>3, NoneType DEF TypeOK, JoinLoad
    <2>3. TypeOK'
      BY <1>3, <2>1, <2>2 DEF TypeOK, JoinLoad, dbVars, snapVars, entryVars, pollVars
    <2>4. \A x \in Profiles \X Versions : build'[x] = build[x] \/ (x = b /\ build'[x] = "loading")
      BY <1>3 DEF TypeOK, JoinLoad
    <2>5. BuildsReached'
      BY <1>0, <1>3, <2>4 DEF BuildsReached, JoinLoad, dbVars
    <2>6. \A v \in Versions :
             \/ toRead'[v] = toRead[v] /\ got'[v] = got[v] /\ (v \in loading' => v \in loading)
             \/ toRead'[v] = Parts
      BY <1>0, <1>3 DEF TypeOK, JoinLoad
    <2>7. FlightsExact'
      BY <1>3, <2>4, <2>6 DEF FlightsExact, TypeOK, JoinLoad, dbVars
    <2>8. CurrentIsExact'
      BY <1>3 DEF CurrentIsExact, JoinLoad, dbVars, snapVars, entryVars
    <2> QED BY <2>3, <2>5, <2>7, <2>8
  <1> QED BY <1>1, <1>2, <1>3

\* A query of a load.
LEMMA ReadPartIInv ==
  ASSUME IInv, NEW v \in Versions, NEW part \in Parts, ReadPart(v, part)
  PROVE  IInv'
  <1> USE DEF IInv
  <1>1. got' \in [Versions -> Contents]
        /\ \A w \in Versions, q \in Parts :
              got'[w][q] = IF w = v /\ q = part THEN content[part] ELSE got[w][q]
    BY DEF TypeOK, ReadPart, Contents
  <1>2. toRead' \in [Versions -> SUBSET Parts]
        /\ \A w \in Versions : toRead'[w] = IF w = v THEN toRead[v] \ {part} ELSE toRead[w]
    BY DEF TypeOK, ReadPart
  <1>3. TypeOK'
    BY <1>1, <1>2 DEF TypeOK, ReadPart, dbVars, snapVars, entryVars, buildVars, pollVars
  <1>4. FlightsExact'
    <2> SUFFICES /\ version \in loading =>
                      \A q \in Parts \ toRead'[version] : got'[version][q] = content[q]
                 /\ \A b \in Profiles \X Versions :
                      b[2] = version /\ build[b] = "loaded" => buildContent[b] = content
      BY DEF FlightsExact, ReadPart, dbVars, buildVars
    <2>1. version \in Versions
      BY DEF TypeOK
    <2> QED BY <1>1, <1>2, <2>1 DEF FlightsExact
  <1>5. BuildsReached' /\ CurrentIsExact'
    BY DEF BuildsReached, CurrentIsExact, ReadPart, dbVars, snapVars, entryVars, buildVars
  <1> QED BY <1>3, <1>4, <1>5

\* A load ends: the snapshot it made is exact if its version is still current.
LEMMA LoadIInv ==
  ASSUME IInv, NEW v \in Versions, LoadDone(v) \/ LoadFails(v)
  PROVE  IInv'
  <1> USE DEF IInv
  <1>1. CASE LoadDone(v)
    <2>1. v \in 0 .. version /\ got[v] \in Contents
      BY <1>1 DEF TypeOK, LoadDone
    <2>2. v = version => got[v] = content
      <3> SUFFICES ASSUME v = version PROVE got[v] = content
        OBVIOUS
      <3>1. \A part \in Parts : got[v][part] = content[part]
        BY <1>1 DEF LoadDone, FlightsExact
      <3> QED BY <2>1, <3>1 DEF Contents, TypeOK
    <2>3. TypeOK'
      BY <1>1, <2>1, NoneType
         DEF TypeOK, LoadDone, FiledUnder, dbVars, entryVars, pollVars
    <2>4. \A b \in Profiles \X Versions :
             \/ build'[b] = build[b] /\ buildContent'[b] = buildContent[b]
             \/ b[2] = v /\ build[b] = "loading" /\ build'[b] = "loaded" /\ buildContent'[b] = got[v]
      BY <1>1 DEF LoadDone, Joined
    <2>5. BuildsReached'
      BY <1>1, <2>4 DEF BuildsReached, LoadDone, dbVars
    <2>6. \A w \in loading' : w \in loading /\ got'[w] = got[w] /\ toRead'[w] = toRead[w]
      BY <1>1 DEF TypeOK, LoadDone
    <2>7. FlightsExact'
      BY <1>1, <2>2, <2>4, <2>6 DEF FlightsExact, LoadDone, dbVars
    <2>8. CurrentIsExact'
      BY <1>1, <2>2 DEF CurrentIsExact, LoadDone, FiledUnder, dbVars, entryVars
    <2> QED BY <2>3, <2>5, <2>7, <2>8
  <1>2. CASE LoadFails(v)
    <2>1. TypeOK'
      BY <1>2, NoneType DEF TypeOK, LoadFails, dbVars, snapVars, entryVars
    <2>2. \A b \in Profiles \X Versions : build'[b] = build[b] \/ build'[b] = "none"
      BY <1>2 DEF LoadFails
    <2>3. BuildsReached' /\ FlightsExact' /\ CurrentIsExact'
      BY <1>2, <2>2 DEF BuildsReached, FlightsExact, CurrentIsExact, LoadFails,
         dbVars, snapVars, entryVars
    <2> QED BY <2>1, <2>3
  <1> QED BY <1>1, <1>2

\* A build ends: its entry is exact if its version is still current.
LEMMA RenderIInv ==
  ASSUME IInv, NEW b \in Profiles \X Versions, Render(b)
  PROVE  IInv'
  <1> USE DEF IInv
  <1>0. /\ b[1] \in Profiles /\ b[2] \in 0 .. version /\ b[2] \in Versions
        /\ build[b] = "loaded" /\ buildContent[b] \in Contents
    <2>1. b[1] \in Profiles /\ b[2] \in Versions /\ buildContent[b] \in Contents
      BY DEF TypeOK
    <2>2. build[b] = "loaded" /\ b[2] <= version
      BY DEF Render, BuildsReached
    <2> QED BY <2>1, <2>2, BoundsAssumption DEF TypeOK, Versions
  <1>1. buildContent' \in [Profiles \X Versions -> Contents]
        /\ \A x \in Profiles \X Versions :
             \/ x # b /\ build'[x] = build[x] /\ buildContent'[x] = buildContent[x]
             \/ x = b /\ build'[x] = "none"
    BY NoneType DEF TypeOK, Render
  <1>2. TypeOK'
    <2>1. cached' \subseteq Profiles
      BY <1>0 DEF Render, TypeOK
    <2>2. /\ entryVersion' \in [Profiles -> 0 .. version] /\ entryAt' \in [Profiles -> Times]
          /\ entryContent' \in [Profiles -> Contents]
      BY <1>0 DEF Render, TypeOK
    <2> QED BY <1>0, <1>1, <2>1, <2>2, AnswerAllType
            DEF TypeOK, Render, dbVars, snapVars, loadVars
  <1>3. BuildsReached' /\ FlightsExact'
    BY <1>1 DEF BuildsReached, FlightsExact, Render, dbVars, loadVars
  <1>4. CurrentIsExact'
    <2>1. \A p \in cached' : \/ p \in cached /\ entryVersion'[p] = entryVersion[p]
                                /\ entryContent'[p] = entryContent[p]
                             \/ entryVersion'[p] = b[2] /\ entryContent'[p] = buildContent[b]
      BY <1>0 DEF Render, TypeOK
    <2> QED BY <1>0, <2>1 DEF CurrentIsExact, FlightsExact, Render, dbVars, snapVars
  <1> QED BY <1>2, <1>3, <1>4

\* Every step keeps the invariant.
LEMMA NextIInv == IInv /\ [Next]_vars => IInv'
  <1> SUFFICES ASSUME IInv, [Next]_vars PROVE IInv'
    OBVIOUS
  <1>1. CASE UNCHANGED vars
    BY <1>1 DEF IInv, TypeOK, BuildsReached, FlightsExact, CurrentIsExact, vars,
       dbVars, snapVars, entryVars, loadVars, buildVars, pollVars
  <1>2. CASE Next
    <2>1. ASSUME NEW part \in Parts, Change(part) PROVE IInv'
      BY <2>1, ChangeIInv
    <2>2. CASE \/ ClockTicks
               \/ \E r \in Polls, p \in Profiles : ReadVersion(r, p) \/ VersionUnreadable(r, p)
               \/ \E r \in Polls, part \in Parts : ReadOwnPart(r, part)
               \/ \E r \in Polls : LookupHits(r) \/ LookupMisses(r)
      BY <2>2, PollIInv
    <2>3. ASSUME NEW r \in Polls, JoinBuild(r) PROVE IInv'
      BY <2>3, JoinBuildIInv
    <2>4. ASSUME NEW b \in Profiles \X Versions,
                 BuildHits(b) \/ UseSnapshot(b) \/ JoinLoad(b) \/ Render(b)
          PROVE  IInv'
      BY <2>4, BuildIInv, RenderIInv
    <2>5. ASSUME NEW v \in Versions, LoadDone(v) \/ LoadFails(v) PROVE IInv'
      BY <2>5, LoadIInv
    <2>6. ASSUME NEW v \in Versions, NEW part \in Parts, ReadPart(v, part) PROVE IInv'
      BY <2>6, ReadPartIInv
    <2> QED BY <1>2, <2>1, <2>2, <2>3, <2>4, <2>5, <2>6 DEF Next
  <1> QED BY <1>1, <1>2

\* The invariant holds throughout.
LEMMA Inductive == Spec => []IInv
  BY InitIInv, NextIInv, PTL DEF Spec

\* Cache, flights and polls are always well formed, and nothing is ever filed
\* under a version the database has not reached.
THEOREM TypeCorrect == Spec => []TypeOK
  <1>1. IInv => TypeOK
    BY DEF IInv
  <1> QED BY <1>1, Inductive, PTL

\* What the cache holds under the current data version is the database's
\* content, although a snapshot is read in several queries and changes may
\* commit between them.
THEOREM CurrentIsExactTheorem == Spec => []CurrentIsExact
  <1>1. IInv => CurrentIsExact
    BY DEF IInv
  <1> QED BY <1>1, Inductive, PTL

-----------------------------------------------------------------------------
(***************************************************************************)
(* Answers: a poll that read version v has as its floor the content the    *)
(* database had under v, so everything filed under v is at or above it,    *)
(* also what other polls had filed before this one began.                  *)
(***************************************************************************)

\* c has at least everything that was committed when poll r began.
Covers(c, r) == \A part \in Parts : c[part] >= floor[r][part]

\* The polls that rely on what is filed under the version they read.
Relying == {r \in Polls : stage[r] \in {"looking", "missed", "waiting"}}

\* Nothing that was committed goes away.
FloorsReached == \A r \in Polls : Covers(content, r)

\* Whatever is filed under the version a poll read covers the poll.
FiledCovers ==
    \A r \in Relying :
        /\ read[r] \in loading =>
              \A part \in Parts \ toRead[read[r]] : got[read[r]][part] >= floor[r][part]
        /\ \A p \in Profiles : build[<<p, read[r]>>] = "loaded" => Covers(buildContent[<<p, read[r]>>], r)
        /\ hasSnap /\ snapVersion = read[r] => Covers(snapContent, r)
        /\ \A p \in cached : entryVersion[p] = read[r] => Covers(entryContent[p], r)

\* A poll without a version covers itself, part by part.
OwnCovers ==
    \A r \in Polls : stage[r] = "own" =>
        \A part \in Parts \ ownLeft[r] : answer[r][part] >= floor[r][part]

FreshInv == FloorsReached /\ FiledCovers /\ OwnCovers /\ AnswersAreFresh

\* Amounts of changes compare as numbers.
LEMMA FreshTypes ==
  ASSUME IInv
  PROVE  /\ \A part \in Parts : content[part] \in Nat
         /\ \A r \in Polls, part \in Parts : floor[r][part] \in Nat /\ answer[r][part] \in Nat
         /\ \A r \in Polls : read[r] \in Versions /\ read[r] \in 0 .. version
         /\ version \in Nat
  BY BoundsAssumption DEF IInv, TypeOK, Contents, Versions

\* A change or a tick leaves floors, flights and cache alone, and content only grows.
LEMMA DataFresh ==
  ASSUME IInv, FreshInv, (\E part \in Parts : Change(part)) \/ ClockTicks
  PROVE  FreshInv'
  <1>1. UNCHANGED <<snapVars, entryVars, loadVars, buildVars, pollVars>>
    BY DEF Change, ClockTicks
  <1>2. \A part \in Parts : content'[part] >= content[part] /\ content'[part] \in Nat
    BY FreshTypes DEF Change, ClockTicks, dbVars, IInv, TypeOK, Contents
  <1>3. FloorsReached'
    BY <1>1, <1>2, FreshTypes DEF FreshInv, FloorsReached, Covers, pollVars
  <1>4. FiledCovers' /\ OwnCovers' /\ AnswersAreFresh'
    BY <1>1 DEF FreshInv, FiledCovers, OwnCovers, AnswersAreFresh, Relying, Covers,
       snapVars, entryVars, loadVars, buildVars, pollVars
  <1> QED BY <1>3, <1>4 DEF FreshInv

\* A poll that reads the current version: what is filed under it is the content.
LEMMA ReadVersionFresh ==
  ASSUME IInv, FreshInv, NEW r \in Polls, NEW p \in Profiles, ReadVersion(r, p)
  PROVE  FreshInv'
  <1>1. UNCHANGED <<dbVars, snapVars, entryVars, loadVars, buildVars, ownLeft>>
    BY DEF ReadVersion
  <1>2. /\ stage' = [stage EXCEPT ![r] = "looking"] /\ read' = [read EXCEPT ![r] = version]
        /\ floor' = [floor EXCEPT ![r] = content] /\ answer' = [answer EXCEPT ![r] = None]
    BY DEF ReadVersion
  <1>3. /\ stage'[r] = "looking" /\ read'[r] = version /\ floor'[r] = content
        /\ \A q \in Polls \ {r} : /\ stage'[q] = stage[q] /\ read'[q] = read[q]
                                  /\ floor'[q] = floor[q] /\ answer'[q] = answer[q]
    BY <1>2 DEF IInv, TypeOK
  <1>4. FloorsReached' /\ OwnCovers' /\ AnswersAreFresh'
    BY <1>1, <1>3, FreshTypes
       DEF FreshInv, FloorsReached, OwnCovers, AnswersAreFresh, Covers, dbVars
  <1>5. ASSUME NEW q \in Relying'
        PROVE  /\ read'[q] \in loading' =>
                     \A part \in Parts \ toRead'[read'[q]] : got'[read'[q]][part] >= floor'[q][part]
               /\ \A x \in Profiles : build'[<<x, read'[q]>>] = "loaded" => Covers(buildContent[<<x, read[q]>>], q)'
               /\ hasSnap' /\ snapVersion' = read'[q] => Covers(snapContent, q)'
               /\ \A x \in cached' : entryVersion'[x] = read'[q] => Covers(entryContent[x], q)'
    <2>1. CASE q = r
      <3>1. version \in Versions
        BY DEF IInv, TypeOK
      <3>2. \A x \in Profiles : /\ <<x, version>> \in Profiles \X Versions
                                /\ <<x, version>>[2] = version
        BY <3>1
      <3>3. \A x \in Profiles : build[<<x, version>>] = "loaded" => buildContent[<<x, version>>] = content
        BY <3>2 DEF IInv, FlightsExact
      <3> QED BY <1>1, <1>3, <2>1, <3>3, FreshTypes
              DEF IInv, FlightsExact, CurrentIsExact, Covers,
                  dbVars, snapVars, entryVars, loadVars, buildVars
    <2>2. CASE q # r
      <3>1. q \in Relying /\ q \in Polls
        BY <1>3, <2>2 DEF Relying
      <3> QED BY <1>1, <1>3, <2>2, <3>1
              DEF FreshInv, FiledCovers, Covers, dbVars, snapVars, entryVars, loadVars, buildVars
    <2> QED BY <2>1, <2>2
  <1> QED BY <1>4, <1>5 DEF FreshInv, FiledCovers

\* A poll that loads a snapshot of its own.
LEMMA OwnFresh ==
  ASSUME IInv, FreshInv, NEW r \in Polls,
         \/ \E p \in Profiles : VersionUnreadable(r, p)
         \/ \E part \in Parts : ReadOwnPart(r, part)
  PROVE  FreshInv'
  <1>1. UNCHANGED <<dbVars, snapVars, entryVars, loadVars, buildVars, read>>
    BY DEF VersionUnreadable, ReadOwnPart
  <1>2. /\ r \notin Relying' /\ floor'[r] \in {content, floor[r]}
        /\ \A q \in Polls \ {r} : /\ stage'[q] = stage[q] /\ floor'[q] = floor[q]
                                  /\ answer'[q] = answer[q] /\ ownLeft'[q] = ownLeft[q]
    BY DEF IInv, TypeOK, VersionUnreadable, ReadOwnPart, Relying
  <1>3. FiledCovers'
    <2>1. Relying' \subseteq Relying /\ Relying' \subseteq Polls \ {r}
      BY <1>2 DEF Relying
    <2> QED BY <1>1, <1>2, <2>1 DEF FreshInv, FiledCovers, Covers, snapVars, entryVars, loadVars, buildVars
  <1>4. FloorsReached'
    BY <1>1, <1>2, FreshTypes DEF FreshInv, FloorsReached, Covers, dbVars
  <1>5. OwnCovers' /\ AnswersAreFresh'
    <2>1. CASE \E p \in Profiles : VersionUnreadable(r, p)
      <3>1. ownLeft'[r] = Parts /\ stage'[r] = "own"
        BY <2>1 DEF VersionUnreadable, IInv, TypeOK
      <3> QED BY <1>2, <3>1 DEF FreshInv, OwnCovers, AnswersAreFresh
    <2>2. ASSUME NEW part \in Parts, ReadOwnPart(r, part)
          PROVE  OwnCovers' /\ AnswersAreFresh'
      <3>1. /\ stage[r] = "own" /\ floor' = floor
            /\ ownLeft'[r] = ownLeft[r] \ {part}
            /\ answer'[r][part] = content[part]
            /\ \A x \in Parts \ {part} : answer'[r][x] = answer[r][x]
            /\ stage'[r] = (IF ownLeft[r] = {part} THEN "answered" ELSE "own")
        BY <2>2 DEF ReadOwnPart, IInv, TypeOK, Contents
      <3>2. \A x \in Parts \ ownLeft'[r] : answer'[r][x] >= floor'[r][x]
        BY <3>1 DEF FreshInv, FloorsReached, Covers, OwnCovers
      <3>3. stage'[r] = "answered" => ownLeft'[r] = {}
        BY <3>1
      <3> QED BY <1>2, <3>1, <3>2, <3>3 DEF FreshInv, OwnCovers, AnswersAreFresh
    <2> QED BY <2>1, <2>2
  <1> QED BY <1>3, <1>4, <1>5 DEF FreshInv

\* A poll that is answered from the entry, misses it, or joins a build: the entry
\* it hits is filed under the version it read.
LEMMA LookupFresh ==
  ASSUME IInv, FreshInv, NEW r \in Polls, LookupHits(r) \/ LookupMisses(r) \/ JoinBuild(r)
  PROVE  FreshInv'
  <1>1. /\ UNCHANGED <<dbVars, snapVars, entryVars, loadVars, buildContent, floor, ownLeft>>
        /\ stage[r] \in {"looking", "missed"}
    BY DEF LookupHits, LookupMisses, JoinBuild, buildVars
  <1>2. read' = read
    BY DEF LookupHits, LookupMisses, JoinBuild, BuildOf, IInv, TypeOK
  <1>3. \A q \in Polls \ {r} : stage'[q] = stage[q] /\ answer'[q] = answer[q]
    BY DEF LookupHits, LookupMisses, JoinBuild, Answer, IInv, TypeOK
  <1>4. \A b \in Profiles \X Versions : build'[b] = "loaded" => build[b] = "loaded"
    BY DEF LookupHits, LookupMisses, JoinBuild, buildVars, BuildOf, IInv, TypeOK
  <1>5. r \in Relying /\ Relying' \subseteq Relying
    BY <1>1, <1>3 DEF Relying
  <1>6. FiledCovers'
    <2>1. \A q \in Relying, p \in Profiles : build'[<<p, read[q]>>] = "loaded" => build[<<p, read[q]>>] = "loaded"
      BY <1>4, FreshTypes DEF Relying
    <2> QED BY <1>1, <1>2, <1>5, <2>1
            DEF FreshInv, FiledCovers, Covers, snapVars, entryVars, loadVars
  <1>7. FloorsReached'
    BY <1>1 DEF FreshInv, FloorsReached, Covers, dbVars
  <1>8. stage'[r] # "own" /\ (stage'[r] = "answered" => Covers(answer[r], r)')
    <2>1. CASE LookupHits(r)
      <3>1. profile[r] \in cached /\ entryVersion[profile[r]] = read[r]
        BY <2>1 DEF LookupHits, Hit
      <3>2. answer'[r] = entryContent[profile[r]] /\ stage'[r] = "answered"
        BY <2>1 DEF LookupHits, Answer, IInv, TypeOK
      <3>3. Covers(entryContent[profile[r]], r)
        BY <1>5, <3>1 DEF FreshInv, FiledCovers
      <3> QED BY <1>1, <3>2, <3>3 DEF Covers
    <2>2. CASE LookupMisses(r) \/ JoinBuild(r)
      BY <2>2 DEF LookupMisses, JoinBuild, IInv, TypeOK
    <2> QED BY <2>1, <2>2
  <1>9. OwnCovers' /\ AnswersAreFresh'
    BY <1>1, <1>3, <1>8 DEF FreshInv, OwnCovers, AnswersAreFresh, Covers
  <1> QED BY <1>6, <1>7, <1>9 DEF FreshInv

\* The polls of a build are answered with something that covers each of them.
LEMMA AnswerAllFresh ==
  ASSUME IInv, FreshInv, NEW b \in Profiles \X Versions, NEW c, AnswerAll(b, c),
         floor' = floor, read' = read, ownLeft' = ownLeft,
         \A r \in Waiting(b) : Covers(c, r)
  PROVE  OwnCovers' /\ AnswersAreFresh' /\ Relying' \subseteq Relying
  <1>1. \A r \in Polls : /\ stage'[r] = IF r \in Waiting(b) THEN "answered" ELSE stage[r]
                         /\ answer'[r] = IF r \in Waiting(b) THEN c ELSE answer[r]
    BY DEF AnswerAll
  <1>2. \A r \in Waiting(b) : r \in Relying
    BY DEF Waiting, Relying
  <1> QED BY <1>1, <1>2 DEF FreshInv, OwnCovers, AnswersAreFresh, Covers, Relying

\* A build: it is answered from the entry of its version, takes the snapshot of
\* its version, or joins the load of its version, of which nothing is read yet.
LEMMA BuildFresh ==
  ASSUME IInv, FreshInv, NEW b \in Profiles \X Versions, BuildHits(b) \/ UseSnapshot(b) \/ JoinLoad(b)
  PROVE  FreshInv'
  <1>1. UNCHANGED <<dbVars, snapVars, entryVars, floor, read, ownLeft>>
    BY DEF BuildHits, UseSnapshot, JoinLoad, pollVars
  <1>2. FloorsReached'
    BY <1>1 DEF FreshInv, FloorsReached, Covers, dbVars
  <1>3. \A q \in Relying, p \in Profiles : /\ <<p, read[q]>> \in Profiles \X Versions
                                         /\ <<p, read[q]>>[2] = read[q]
    BY FreshTypes DEF Relying
  <1>4. CASE BuildHits(b)
    <2>1. UNCHANGED <<loadVars, buildContent>> /\ build' = [build EXCEPT ![b] = "none"]
      BY <1>4 DEF BuildHits
    <2>2. \A r \in Waiting(b) : r \in Relying /\ read[r] = b[2]
      BY DEF Waiting, Relying
    <2>3. b[1] \in cached /\ entryVersion[b[1]] = b[2] /\ AnswerAll(b, entryContent[b[1]])
      BY <1>4 DEF BuildHits, Hit
    <2>4. \A r \in Waiting(b) : Covers(entryContent[b[1]], r)
      BY <2>2, <2>3 DEF FreshInv, FiledCovers
    <2>5. OwnCovers' /\ AnswersAreFresh' /\ Relying' \subseteq Relying
      BY <1>1, <2>3, <2>4, AnswerAllFresh
    <2>6. \A q \in Relying, p \in Profiles : build'[<<p, read[q]>>] = "loaded" => build[<<p, read[q]>>] = "loaded"
      BY <1>3, <2>1 DEF IInv, TypeOK
    <2>7. FiledCovers'
      BY <1>1, <2>1, <2>5, <2>6 DEF FreshInv, FiledCovers, Covers, snapVars, entryVars, loadVars
    <2> QED BY <1>2, <2>5, <2>7 DEF FreshInv
  <1>5. CASE UseSnapshot(b)
    <2>1. /\ UNCHANGED <<loadVars, pollVars>> /\ hasSnap /\ snapVersion = b[2]
          /\ build' = [build EXCEPT ![b] = "loaded"]
          /\ buildContent' = [buildContent EXCEPT ![b] = snapContent]
      BY <1>5 DEF UseSnapshot, SnapHit
    <2>2. Relying' = Relying /\ OwnCovers' /\ AnswersAreFresh'
      BY <2>1 DEF FreshInv, OwnCovers, AnswersAreFresh, Relying, pollVars
    <2>3. ASSUME NEW q \in Relying, NEW p \in Profiles, build'[<<p, read[q]>>] = "loaded"
          PROVE  Covers(buildContent'[<<p, read[q]>>], q)
      <3>1. CASE <<p, read[q]>> = b
        <4>1. buildContent'[<<p, read[q]>>] = snapContent /\ snapVersion = read[q]
          BY <1>3, <2>1, <3>1 DEF IInv, TypeOK
        <4> QED BY <2>1, <4>1 DEF FreshInv, FiledCovers
      <3>2. CASE <<p, read[q]>> # b
        <4>1. /\ buildContent'[<<p, read[q]>>] = buildContent[<<p, read[q]>>]
              /\ build[<<p, read[q]>>] = "loaded"
          BY <1>3, <2>1, <2>3, <3>2 DEF IInv, TypeOK
        <4> QED BY <4>1 DEF FreshInv, FiledCovers
      <3> QED BY <3>1, <3>2
    <2>4. FiledCovers'
      BY <1>1, <2>1, <2>2, <2>3 DEF FreshInv, FiledCovers, Covers, snapVars, entryVars, loadVars
    <2> QED BY <1>2, <2>2, <2>4 DEF FreshInv
  <1>6. CASE JoinLoad(b)
    <2>1. /\ UNCHANGED <<buildContent, pollVars>>
          /\ build' = [build EXCEPT ![b] = "loading"]
          /\ loading' = loading \cup {b[2]}
      BY <1>6 DEF JoinLoad
    <2>2. Relying' = Relying /\ OwnCovers' /\ AnswersAreFresh'
      BY <2>1 DEF FreshInv, OwnCovers, AnswersAreFresh, Relying, pollVars
    <2>3. \A q \in Relying, p \in Profiles : build'[<<p, read[q]>>] = "loaded" => build[<<p, read[q]>>] = "loaded"
      BY <1>3, <2>1 DEF IInv, TypeOK
    <2>4. b[2] \in Versions /\ \A q \in Relying : read[q] \in Versions
      BY FreshTypes DEF Relying
    <2>5. ASSUME NEW q \in Relying, read[q] \in loading'
          PROVE  \A part \in Parts \ toRead'[read[q]] : got'[read[q]][part] >= floor[q][part]
      <3>1. CASE read[q] \in loading
        <4>1. toRead'[read[q]] = toRead[read[q]] /\ got'[read[q]] = got[read[q]]
          BY <1>6, <2>4, <3>1 DEF JoinLoad, IInv, TypeOK
        <4> QED BY <3>1, <4>1 DEF FreshInv, FiledCovers
      <3>2. CASE read[q] \notin loading
        <4>1. toRead'[read[q]] = Parts
          BY <1>6, <2>1, <2>4, <2>5, <3>2 DEF JoinLoad, IInv, TypeOK
        <4> QED BY <4>1
      <3> QED BY <3>1, <3>2
    <2>6. FiledCovers'
      BY <1>1, <2>1, <2>2, <2>3, <2>5 DEF FreshInv, FiledCovers, Covers, snapVars, entryVars
    <2> QED BY <1>2, <2>2, <2>6 DEF FreshInv
  <1> QED BY <1>4, <1>5, <1>6

\* A query of a load reads what is committed now, which covers every poll.
LEMMA ReadPartFresh ==
  ASSUME IInv, FreshInv, NEW v \in Versions, NEW part \in Parts, ReadPart(v, part)
  PROVE  FreshInv'
  <1>1. UNCHANGED <<dbVars, snapVars, entryVars, loading, buildVars, pollVars>>
    BY DEF ReadPart
  <1>2. FloorsReached' /\ OwnCovers' /\ AnswersAreFresh' /\ Relying' = Relying
    BY <1>1 DEF FreshInv, FloorsReached, OwnCovers, AnswersAreFresh, Relying, Covers, dbVars, pollVars
  <1>3. ASSUME NEW q \in Relying, read[q] \in loading, NEW x \in Parts \ toRead'[read[q]]
        PROVE  got'[read[q]][x] >= floor[q][x]
    <2>1. read[q] \in Versions /\ q \in Polls
      BY FreshTypes DEF Relying
    <2>2. CASE read[q] = v /\ x = part
      <3>1. got'[read[q]][x] = content[x]
        BY <2>1, <2>2 DEF ReadPart, IInv, TypeOK, Contents
      <3> QED BY <2>1, <3>1 DEF FreshInv, FloorsReached, Covers
    <2>3. CASE ~ (read[q] = v /\ x = part)
      <3>1. got'[read[q]][x] = got[read[q]][x] /\ x \notin toRead[read[q]]
        BY <1>3, <2>1, <2>3 DEF ReadPart, IInv, TypeOK, Contents
      <3> QED BY <1>3, <3>1 DEF FreshInv, FiledCovers
    <2> QED BY <2>2, <2>3
  <1>4. FiledCovers'
    BY <1>1, <1>2, <1>3 DEF FreshInv, FiledCovers, Covers, snapVars, entryVars, buildVars, pollVars
  <1> QED BY <1>2, <1>4 DEF FreshInv

\* A complete load covers every poll of its version; it becomes the snapshot and
\* the content of the builds that joined it.
LEMMA LoadDoneFresh ==
  ASSUME IInv, FreshInv, NEW v \in Versions, LoadDone(v)
  PROVE  FreshInv'
  <1>1. /\ UNCHANGED <<dbVars, entryVars, toRead, pollVars>>
        /\ v \in loading /\ toRead[v] = {}
        /\ snapVersion' = v /\ snapContent' = got[v] /\ loading' = loading \ {v}
    BY DEF LoadDone, FiledUnder
  <1>2. FloorsReached' /\ OwnCovers' /\ AnswersAreFresh' /\ Relying' = Relying
    BY <1>1 DEF FreshInv, FloorsReached, OwnCovers, AnswersAreFresh, Relying, Covers, dbVars, pollVars
  <1>3. \A q \in Relying : read[q] = v => Covers(got[v], q)
    BY <1>1 DEF FreshInv, FiledCovers, Covers
  <1>4. ASSUME NEW q \in Relying, NEW p \in Profiles, build'[<<p, read[q]>>] = "loaded"
        PROVE  Covers(buildContent'[<<p, read[q]>>], q)
    <2>1. <<p, read[q]>> \in Profiles \X Versions /\ <<p, read[q]>>[2] = read[q]
      BY FreshTypes DEF Relying
    <2>2. CASE <<p, read[q]>> \in Joined(v)
      <3>1. buildContent'[<<p, read[q]>>] = got[v] /\ read[q] = v
        BY <2>1, <2>2 DEF LoadDone, Joined
      <3> QED BY <1>3, <3>1
    <2>3. CASE <<p, read[q]>> \notin Joined(v)
      <3>1. buildContent'[<<p, read[q]>>] = buildContent[<<p, read[q]>>] /\ build[<<p, read[q]>>] = "loaded"
        BY <1>4, <2>1, <2>3 DEF LoadDone
      <3> QED BY <3>1 DEF FreshInv, FiledCovers
    <2> QED BY <2>2, <2>3
  <1>5. ASSUME NEW q \in Relying, read[q] \in loading'
        PROVE  \A part \in Parts \ toRead[read[q]] : got'[read[q]][part] >= floor[q][part]
    <2>1. read[q] \in loading /\ got'[read[q]] = got[read[q]]
      BY <1>1, <1>5, FreshTypes DEF LoadDone, IInv, TypeOK, Relying
    <2> QED BY <2>1 DEF FreshInv, FiledCovers
  <1>6. FiledCovers'
    BY <1>1, <1>2, <1>3, <1>4, <1>5 DEF FreshInv, FiledCovers, Covers, entryVars, pollVars
  <1> QED BY <1>2, <1>6 DEF FreshInv

\* A load that fails leaves nothing behind, and its polls rely on nothing more.
LEMMA LoadFailsFresh ==
  ASSUME IInv, FreshInv, NEW v \in Versions, LoadFails(v)
  PROVE  FreshInv'
  <1>1. /\ UNCHANGED <<dbVars, snapVars, entryVars, buildContent, read, floor, answer, ownLeft>>
        /\ loading' = loading \ {v}
    BY DEF LoadFails
  <1>2. \A r \in Polls : stage'[r] \in {"idle", stage[r]}
    BY DEF LoadFails
  <1>3. FloorsReached' /\ OwnCovers' /\ AnswersAreFresh' /\ Relying' \subseteq Relying
    BY <1>1, <1>2 DEF FreshInv, FloorsReached, OwnCovers, AnswersAreFresh, Relying, Covers, dbVars
  <1>4. \A q \in Relying, p \in Profiles : build'[<<p, read[q]>>] = "loaded" => build[<<p, read[q]>>] = "loaded"
    <2>1. \A b \in Profiles \X Versions : build'[b] = "loaded" => build[b] = "loaded"
      BY DEF LoadFails
    <2> QED BY <2>1, FreshTypes DEF Relying
  <1>5. \A q \in Relying : read[q] \in loading' =>
           /\ read[q] \in loading
           /\ got'[read[q]] = got[read[q]] /\ toRead'[read[q]] = toRead[read[q]]
    BY <1>1, FreshTypes DEF LoadFails, IInv, TypeOK, Relying
  <1>6. FiledCovers'
    BY <1>1, <1>3, <1>4, <1>5 DEF FreshInv, FiledCovers, Covers, snapVars, entryVars
  <1> QED BY <1>3, <1>6 DEF FreshInv

\* The rendered entry holds what its build holds, which covers every poll of the
\* version it is filed under.
LEMMA RenderFresh ==
  ASSUME IInv, FreshInv, NEW b \in Profiles \X Versions, Render(b)
  PROVE  FreshInv'
  <1>1. /\ UNCHANGED <<dbVars, snapVars, loadVars, read, floor, ownLeft>>
        /\ build[b] = "loaded" /\ AnswerAll(b, buildContent[b])
    BY DEF Render
  <1>2. \A q \in Relying : read[q] = b[2] => Covers(buildContent[b], q)
    <2>1. b = <<b[1], b[2]>> /\ b[1] \in Profiles
      OBVIOUS
    <2> QED BY <1>1, <2>1 DEF FreshInv, FiledCovers
  <1>3. \A r \in Waiting(b) : r \in Relying /\ read[r] = b[2]
    BY DEF Waiting, Relying
  <1>4. OwnCovers' /\ AnswersAreFresh' /\ Relying' \subseteq Relying
    BY <1>1, <1>2, <1>3, AnswerAllFresh
  <1>5. FloorsReached'
    BY <1>1 DEF FreshInv, FloorsReached, Covers, dbVars
  <1>6. ASSUME NEW q \in Relying, NEW p \in Profiles, build'[<<p, read[q]>>] = "loaded"
        PROVE  Covers(buildContent'[<<p, read[q]>>], q)
    <2>1. <<p, read[q]>> \in Profiles \X Versions
      BY FreshTypes DEF Relying
    <2>2. build[<<p, read[q]>>] = "loaded" /\ buildContent'[<<p, read[q]>>] = buildContent[<<p, read[q]>>]
      BY <1>6, <2>1 DEF Render, IInv, TypeOK
    <2> QED BY <2>2 DEF FreshInv, FiledCovers
  <1>7. ASSUME NEW q \in Relying, NEW p \in cached', entryVersion'[p] = read[q]
        PROVE  Covers(entryContent'[p], q)
    <2>1. CASE p = b[1]
      <3>1. entryVersion'[p] = b[2] /\ entryContent'[p] = buildContent[b]
        BY <2>1 DEF Render, IInv, TypeOK
      <3> QED BY <1>2, <1>7, <3>1
    <2>2. CASE p # b[1]
      <3>1. p \in cached /\ entryVersion'[p] = entryVersion[p] /\ entryContent'[p] = entryContent[p]
        BY <2>2 DEF Render, IInv, TypeOK
      <3> QED BY <1>7, <3>1 DEF FreshInv, FiledCovers
    <2> QED BY <2>1, <2>2
  <1>8. FiledCovers'
    BY <1>1, <1>4, <1>6, <1>7 DEF FreshInv, FiledCovers, Covers, snapVars, loadVars
  <1> QED BY <1>4, <1>5, <1>8 DEF FreshInv

\* Every step preserves it.
LEMMA NextFresh ==
  ASSUME IInv, FreshInv, [Next]_vars
  PROVE  FreshInv'
  <1>1. CASE Next
    BY <1>1, DataFresh, ReadVersionFresh, OwnFresh, LookupFresh, BuildFresh, ReadPartFresh,
       LoadDoneFresh, LoadFailsFresh, RenderFresh DEF Next
  <1>2. CASE UNCHANGED vars
    BY <1>2 DEF vars, dbVars, snapVars, entryVars, loadVars, buildVars, pollVars, FreshInv,
       FloorsReached, FiledCovers, OwnCovers, AnswersAreFresh, Relying, Covers
  <1> QED BY <1>1, <1>2

\* cachedNodeConfig answers a poll with everything that was committed before the
\* poll read its version, whoever started the build or the load it joined, for
\* any number of profiles, polls, changes and parts of a snapshot.
THEOREM AnswersFreshTheorem == Spec => []AnswersAreFresh
  <1>1. Init => FreshInv
    BY DEF Init, FreshInv, FloorsReached, FiledCovers, OwnCovers, AnswersAreFresh, Relying, Covers, None
  <1>2. FreshInv => AnswersAreFresh
    BY DEF FreshInv
  <1> QED BY <1>1, <1>2, NextFresh, Inductive, PTL DEF Spec
=============================================================================
