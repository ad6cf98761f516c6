---------------------------- MODULE Fleet_proofs ----------------------------
(***************************************************************************)
(* Proofs about what the admins configure for the fleet: that every node   *)
(* is given a valid config and an import only adds (CoreConfig), and that  *)
(* the inbounds, their hosts and the cached tag lists fit together         *)
(* (InboundCatalog).                                                       *)
(***************************************************************************)
EXTENDS CoreConfig, InboundCatalog, SetFacts, SequenceTheorems, TLAPS

(***************************************************************************)
(* CoreConfig: the fleet's config and the overrides of its nodes.          *)
(***************************************************************************)

\* Rules are a list.
IsRules(r) == \E S : r \in Seq(S)

\* What the call of a saver carries was checked before it was taken on.
Checked(call) ==
  /\ call.kind \in {"idle", "import", "fleet", "flush", "create", "update"}
  /\ call.kind = "import" => IsRules(call.base.rules) /\ call.parsed \in Documents
  /\ call.kind = "fleet" => ValidateCoreConfig(call.dto) /\ IsRules(call.dto.rules)
  /\ call.kind \in {"create", "update"} => call.node \in FleetNodes /\ KnownTags(call.profile.tags)

CoreShape ==
  /\ ValidateCoreConfig(fleet) /\ IsRules(fleet.rules) /\ IsRules(copy.rules) /\ (\A d \in rowsRead : IsRules(d.rules))
  /\ saves \in 0 .. MaxSaves
  /\ DOMAIN node = FleetNodes /\ node = [n \in FleetNodes |-> node[n]] /\ \A n \in FleetNodes : KnownTags(node[n].tags)
  /\ DOMAIN saving = Savers /\ saving = [s \in Savers |-> saving[s]] /\ \A s \in Savers : Checked(saving[s])

\* One call at a time ...
Alone == \A s, r \in Savers : saving[s] # IdleSaver /\ saving[r] # IdleSaver => s = r

\* ... so that what it was checked against is still there when it writes.
StillValid ==
  /\ NodesStayValid(fleet)
  /\ \A s \in Savers :
       /\ saving[s].kind = "fleet" => NodesStayValid(saving[s].dto)
       /\ saving[s].kind \in {"create", "update"} => ValidateCoreConfig(Apply(saving[s].profile.over, fleet))

\* The cached copy is the row unless a save is about to drop it, and an import
\* starts from it.
StartsFromRow ==
  /\ ~Flushing => copy = NoCopy \/ copy = fleet
  /\ \A s \in Savers : saving[s].kind = "import" => saving[s].base = fleet
  /\ \A s \in Savers : saving[s].kind = "fleet" =>
       \/ saving[s].base = saving[s].dto
       \/ /\ saving[s].base = fleet
          /\ \E p \in Documents : saving[s].dto = MergeCoreConfigForImport(fleet, p)

CoreInv ==
  /\ CoreShape
  /\ crossed \/ (Alone /\ StillValid)
  /\ crossed \/ unflushed \/ StartsFromRow

\* An overriding document without content changes nothing.
LEMMA EmptyOverrides ==
  ASSUME NEW d, IsRules(d.rules), ValidateCoreConfig(d)
  PROVE  ValidateCoreConfig(Apply(Empty, d))
  <1>1. PICK S : d.rules \in Seq(S)
    BY DEF IsRules
  <1>2. <<>> \o d.rules = d.rules
    BY <1>1, ConcatEmptySeq
  <1>3. Empty.rules = <<>> /\ DOMAIN Empty.outs = {}
    BY DEF Empty
  <1>4. PICK e : e = Apply(Empty, d)
    OBVIOUS
  <1>5. DOMAIN e.outs = DOMAIN d.outs /\ (\A o \in DOMAIN d.outs : e.outs[o] = d.outs[o]) /\ e.rules = d.rules
    BY <1>2, <1>3, <1>4 DEF Apply
  <1>6. ValidateCoreConfig(e)
    BY <1>5 DEF ValidateCoreConfig
  <1> QED BY <1>4, <1>6

\* A function on the first numbers is a list.
LEMMA FunctionIsSeq ==
  ASSUME NEW V, NEW n \in Nat, NEW f \in [1 .. n -> V]
  PROVE  f \in Seq(V)
  BY SMT

\* An import keeps the outbounds that are there, and its rules come after theirs.
LEMMA MergeFacts ==
  ASSUME NEW base, NEW p \in Documents, IsRules(base.rules)
  PROVE  /\ IsRules(MergeCoreConfigForImport(base, p).rules)
         /\ DOMAIN base.outs \subseteq DOMAIN MergeCoreConfigForImport(base, p).outs
         /\ \A o \in DOMAIN base.outs : MergeCoreConfigForImport(base, p).outs[o] = base.outs[o]
         /\ IsPrefix(base.rules, MergeCoreConfigForImport(base, p).rules)
  <1> DEFINE new == {i \in DOMAIN p.rules :
                       ~Contains(base.rules, p.rules[i]) /\ \A j \in 1 .. i - 1 : p.rules[j] # p.rules[i]}
             Place(i) == Cardinality({j \in new : j <= i})
             value(k) == p.rules[CHOOSE i \in new : Place(i) = k]
  <1>1. Cardinality(new) \in Nat
    <2>1. DOMAIN p.rules = 1 .. Len(p.rules) /\ Len(p.rules) \in Nat
      BY CoreAssumption
    <2>2. IsFiniteSet(1 .. Len(p.rules))
      BY <2>1, FS_Interval
    <2>3. IsFiniteSet(new)
      BY <2>1, <2>2, FS_Subset
    <2> QED BY <2>3, FS_CardinalityType
  <1>2. PICK c \in Nat : c = Cardinality(new)
    BY <1>1
  <1>3. PICK X : X = [k \in 1 .. c |-> value(k)]
    OBVIOUS
  <1>4. \E V : X \in Seq(V)
    <2>1. PICK V : V = {X[k] : k \in 1 .. c}
      OBVIOUS
    <2> HIDE DEF value
    <2>2. X \in [1 .. c -> V]
      BY <1>3, <2>1
    <2>3. X \in Seq(V)
      BY <1>2, <2>2, FunctionIsSeq
    <2> QED BY <2>3
  <1>5. AppendNewRoutingRules(base.rules, p.rules) = base.rules \o X
    BY <1>2, <1>3 DEF AppendNewRoutingRules
  <1>6. PICK S : base.rules \in Seq(S)
    BY DEF IsRules
  <1>7. PICK T : base.rules \in Seq(T) /\ X \in Seq(T)
    <2>1. PICK V : X \in Seq(V)
      BY <1>4
    <2>2. base.rules \in Seq(S \cup V) /\ X \in Seq(S \cup V)
      BY <1>6, <2>1, SeqMonotonic
    <2> QED BY <2>2
  <1>8. base.rules \o X \in Seq(T)
    BY <1>7
  <1>9. IsPrefix(base.rules, base.rules \o X)
    <2>1. Len(base.rules) <= Len(base.rules \o X)
      BY <1>7
    <2>2. SubSeq(base.rules \o X, 1, Len(base.rules)) = base.rules /\ SubSeq(base.rules, 1, Len(base.rules)) = base.rules
      BY <1>7, SubSeqOfConcat1, SubSeqFull
    <2> QED BY <2>1, <2>2 DEF IsPrefix
  <1>10. PICK m : m = MergeCoreConfigForImport(base, p)
    OBVIOUS
  <1>11. m.rules = base.rules \o X
    BY <1>5, <1>10 DEF MergeCoreConfigForImport
  <1>12. DOMAIN base.outs \subseteq DOMAIN m.outs /\ \A o \in DOMAIN base.outs : m.outs[o] = base.outs[o]
    BY <1>10 DEF MergeCoreConfigForImport
  <1>13. IsRules(m.rules)
    BY <1>8, <1>11 DEF IsRules
  <1> QED BY <1>9, <1>10, <1>11, <1>12, <1>13

\* Whatever a profile keeps of an inbound has its primary port among its ports.
LEMMA FilterFacts ==
  ASSUME NEW profile, NEW t \in DOMAIN FilterInbounds(profile)
  PROVE  /\ FilterInbounds(profile)[t].primary \in FilterInbounds(profile)[t].ports
         /\ FilterInbounds(profile)[t].ports \subseteq FleetSpecs[t].ports
  <1> DEFINE kept == IF profile.ports = {} THEN FleetSpecs[t].ports ELSE FleetSpecs[t].ports \cap profile.ports
  <1>1. t \in DOMAIN FleetSpecs /\ kept # {} /\ FilterInbounds(profile)[t] = [ports |-> kept, primary |-> PrimaryPort(FleetSpecs[t], kept)]
    BY DEF FilterInbounds
  <1>2. kept \subseteq FleetSpecs[t].ports /\ kept \in SUBSET Nat
    BY <1>1, CoreAssumption
  <1> HIDE DEF kept
  <1>3. \E p \in kept : \A r \in kept : p <= r
    BY <1>1, <1>2, HasLeast
  <1>4. PrimaryPort(FleetSpecs[t], kept) \in kept
    BY <1>3 DEF PrimaryPort
  <1> QED BY <1>1, <1>2, <1>4

\* A call that is taken on is checked, and alone unless calls cross.
LEMMA ServeStep ==
  ASSUME CoreInv, NEW s \in Savers, NEW call, Serve(s, call), Checked(call), call.kind # "flush",
         UNCHANGED <<fleet, copy, rowsRead, node, unflushed>>,
         ~crossed => /\ call.kind = "fleet" => NodesStayValid(call.dto)
                     /\ call.kind \in {"create", "update"} => ValidateCoreConfig(Apply(call.profile.over, fleet)),
         call.kind = "fleet" => call.base = call.dto,
         ~crossed /\ ~unflushed /\ ~Flushing /\ call.kind = "import" => call.base = fleet
  PROVE  CoreInv'
  <1>0. CoreShape /\ saving[s] = IdleSaver /\ saves < MaxSaves /\ saves' = saves + 1
    BY DEF CoreInv, Serve
  <1>1. /\ saving' = [saving EXCEPT ![s] = call] /\ DOMAIN saving = Savers
        /\ saving'[s] = call /\ \A r \in Savers \ {s} : saving'[r] = saving[r]
    BY <1>0 DEF Serve, CoreShape
  <1>2. CoreShape'
    <2>1. saves' \in 0 .. MaxSaves
      BY <1>0, CoreAssumption DEF CoreShape
    <2>2. \A r \in Savers : Checked(saving'[r])
      BY <1>0, <1>1 DEF CoreShape
    <2>3. DOMAIN saving' = Savers /\ saving' = [r \in Savers |-> saving'[r]]
      BY <1>1
    <2>4. (\A r \in Savers : Checked(saving[r]))'
      BY <2>2 DEF Checked, KnownTags, ValidateCoreConfig, IsRules
    <2> QED BY <1>0, <2>1, <2>3, <2>4 DEF CoreShape, ValidateCoreConfig, IsRules, KnownTags
  <1>3. ASSUME ~crossed'
        PROVE  Alone' /\ StillValid' /\ \A r \in Savers : saving[r] = IdleSaver
    <2>1. ~crossed /\ \A r \in Savers \ {s} : saving[r] = IdleSaver
      BY <1>3 DEF Serve
    <2>2. \A r \in Savers : saving[r] = IdleSaver
      BY <1>0, <2>1
    <2>3. \A r \in Savers : saving'[r] # IdleSaver => r = s
      BY <1>1, <2>2
    <2>4. IdleSaver.kind = "idle"
      BY DEF IdleSaver
    <2>5. \A r \in Savers \ {s} : saving'[r].kind = "idle"
      BY <1>1, <2>2, <2>4
    <2>6. NodesStayValid(fleet)
      BY <2>1 DEF CoreInv, StillValid
    <2>7. StillValid'
      BY <1>1, <2>1, <2>5, <2>6 DEF StillValid, NodesStayValid
    <2> QED BY <2>2, <2>3, <2>7 DEF Alone
  <1>4. ASSUME ~crossed', ~unflushed' PROVE StartsFromRow'
    <2>1. ~crossed /\ ~unflushed /\ (\A r \in Savers : saving[r] = IdleSaver)
      BY <1>3, <1>4 DEF Serve
    <2>2. IdleSaver.kind = "idle"
      BY DEF IdleSaver
    <2>3. \A r \in Savers : saving[r].kind # "flush"
      BY <2>1, <2>2
    <2>4. \A r \in Savers \ {s} : saving'[r].kind = "idle"
      BY <1>1, <2>1, <2>2
    <2>5. copy' = NoCopy \/ copy' = fleet'
      BY <2>1, <2>3 DEF CoreInv, StartsFromRow, Flushing
    <2>6. /\ saving'[s].kind = "fleet" => saving'[s].base = saving'[s].dto
          /\ saving'[s].kind = "import" => saving'[s].base = fleet'
      BY <1>1, <2>1, <2>3 DEF Flushing
    <2> QED BY <2>4, <2>5, <2>6 DEF StartsFromRow
  <1> QED BY <1>2, <1>3, <1>4 DEF CoreInv

\* The calls that a clerk's request begins.
LEMMA BeginSteps ==
  ASSUME CoreInv, NEW s \in Savers,
         \/ \E dto \in Documents : HandleUpdateCoreConfig(s, dto) \/ HandleImportXrayConfig(s, dto)
         \/ \E n \in FleetNodes, tags \in TagChoices, ports \in PortChoices, over \in Overrides \cup {Absent} :
              HandleCreateNode(s, n, tags, ports, over) \/ HandleUpdateNode(s, n, tags, ports, over)
  PROVE  CoreInv'
  <1>0. /\ ValidateCoreConfig(fleet) /\ IsRules(fleet.rules) /\ IsRules(copy.rules)
        /\ (crossed \/ StillValid) /\ (crossed \/ unflushed \/ StartsFromRow)
    BY DEF CoreInv, CoreShape
  <1>1. ~crossed /\ ~unflushed /\ ~Flushing => copy = NoCopy \/ copy = fleet
    BY <1>0 DEF StartsFromRow
  <1>2. ASSUME NEW dto \in Documents, HandleUpdateCoreConfig(s, dto) PROVE CoreInv'
    <2>1. PICK call : call = [kind |-> "fleet", dto |-> dto, base |-> dto]
      OBVIOUS
    <2>2. call.kind = "fleet" /\ call.dto = dto /\ call.base = dto
      BY <2>1
    <2>3. IsRules(dto.rules)
      BY CoreAssumption DEF IsRules
    <2>4. ValidateCoreConfig(dto) /\ NodesStayValid(dto) /\ Serve(s, call) /\ UNCHANGED <<fleet, copy, rowsRead, node, unflushed>>
      BY <1>2, <2>1 DEF HandleUpdateCoreConfig
    <2>5. Checked(call)
      BY <2>2, <2>3, <2>4 DEF Checked
    <2> QED BY <1>0, <1>1, <2>2, <2>4, <2>5, ServeStep
  <1>3. ASSUME NEW parsed \in Documents, HandleImportXrayConfig(s, parsed) PROVE CoreInv'
    <2>1. PICK base : base = (IF copy = NoCopy THEN fleet ELSE copy)
      OBVIOUS
    <2>2. PICK call : call = [kind |-> "import", parsed |-> parsed, missed |-> copy = NoCopy, base |-> base]
      OBVIOUS
    <2>3. call.kind = "import" /\ call.parsed = parsed /\ call.base = base
      BY <2>2
    <2>4. Serve(s, call) /\ UNCHANGED <<fleet, copy, rowsRead, node, unflushed>>
      BY <1>3, <2>1, <2>2 DEF HandleImportXrayConfig
    <2>5. Checked(call)
      BY <1>0, <2>1, <2>3 DEF Checked
    <2>6. ~crossed /\ ~unflushed /\ ~Flushing => base = fleet
      BY <1>1, <2>1
    <2> QED BY <2>3, <2>4, <2>5, <2>6, ServeStep
  <1>4. ASSUME NEW n \in FleetNodes, NEW tags, NEW ports, NEW over, NEW kind \in {"create", "update"}, NEW base,
               KnownTags(tags), ~crossed => ValidateCoreConfig(Apply(ResolveNodeProfile(base, tags, ports, over).over, fleet)),
               Serve(s, [kind |-> kind, node |-> n, profile |-> ResolveNodeProfile(base, tags, ports, over)]),
               UNCHANGED <<fleet, copy, rowsRead, node, unflushed>>
        PROVE  CoreInv'
    <2>1. PICK profile : profile = ResolveNodeProfile(base, tags, ports, over)
      OBVIOUS
    <2>2. profile.tags = tags
      BY <2>1 DEF ResolveNodeProfile
    <2>3. PICK call : call = [kind |-> kind, node |-> n, profile |-> profile]
      OBVIOUS
    <2>4. call.kind = kind /\ call.node = n /\ call.profile = profile /\ Serve(s, call)
      BY <1>4, <2>1, <2>3
    <2>5. Checked(call)
      BY <1>4, <2>2, <2>4 DEF Checked
    <2>6. call.kind \notin {"import", "fleet", "flush"}
      BY <2>4
    <2> QED BY <1>0, <1>1, <1>4, <2>1, <2>4, <2>5, <2>6, ServeStep
  <1>5. ASSUME NEW n \in FleetNodes, NEW tags, NEW ports, NEW over, HandleCreateNode(s, n, tags, ports, over) PROVE CoreInv'
    <2>1. PICK base : base = [NoNode EXCEPT !.over = Empty]
      OBVIOUS
    <2>2. base.over = Empty
      BY <2>1 DEF NoNode
    <2>3. /\ KnownTags(tags) /\ (over # Absent => ValidateCoreConfig(Apply(over, fleet)))
          /\ Serve(s, [kind |-> "create", node |-> n, profile |-> ResolveNodeProfile(base, tags, ports, over)])
          /\ UNCHANGED <<fleet, copy, rowsRead, node, unflushed>>
      BY <1>5, <2>1 DEF HandleCreateNode, Resolvable
    <2>4. ResolveNodeProfile(base, tags, ports, over).over = IF over = Absent THEN Empty ELSE over
      BY <2>2 DEF ResolveNodeProfile
    <2>5. ValidateCoreConfig(Apply(ResolveNodeProfile(base, tags, ports, over).over, fleet))
      BY <1>0, <2>3, <2>4, EmptyOverrides
    <2> QED BY <1>4, <2>3, <2>5
  <1>6. ASSUME NEW n \in FleetNodes, NEW tags, NEW ports, NEW over, HandleUpdateNode(s, n, tags, ports, over) PROVE CoreInv'
    <2>1. /\ KnownTags(tags) /\ (over # Absent => ValidateCoreConfig(Apply(over, fleet))) /\ node[n] # NoNode
          /\ Serve(s, [kind |-> "update", node |-> n, profile |-> ResolveNodeProfile(node[n], tags, ports, over)])
          /\ UNCHANGED <<fleet, copy, rowsRead, node, unflushed>>
      BY <1>6 DEF HandleUpdateNode, Resolvable
    <2>2. ResolveNodeProfile(node[n], tags, ports, over).over = IF over = Absent THEN node[n].over ELSE over
      BY DEF ResolveNodeProfile
    <2>3. ~crossed => ValidateCoreConfig(Apply(node[n].over, fleet))
      BY <1>0, <2>1 DEF StillValid, NodesStayValid
    <2>4. ~crossed => ValidateCoreConfig(Apply(ResolveNodeProfile(node[n], tags, ports, over).over, fleet))
      BY <2>1, <2>2, <2>3
    <2> QED BY <1>4, <2>1, <2>4
  <1> QED BY <1>2, <1>3, <1>5, <1>6

\* The end of a call: the saver is free again.
LEMMA DoneFacts ==
  ASSUME CoreShape, NEW s \in Savers, NEW call, saving' = [saving EXCEPT ![s] = call], Checked(call)
  PROVE  /\ DOMAIN saving' = Savers /\ saving' = [r \in Savers |-> saving'[r]]
         /\ saving'[s] = call /\ \A r \in Savers \ {s} : saving'[r] = saving[r]
         /\ (\A r \in Savers : Checked(saving[r]))'
  <1>1. /\ DOMAIN saving' = Savers /\ saving' = [r \in Savers |-> saving'[r]]
        /\ saving'[s] = call /\ \A r \in Savers \ {s} : saving'[r] = saving[r]
    BY DEF CoreShape
  <1>2. \A r \in Savers : Checked(saving'[r])
    BY <1>1 DEF CoreShape
  <1>3. (\A r \in Savers : Checked(saving[r]))'
    BY <1>2 DEF Checked, KnownTags, ValidateCoreConfig, IsRules
  <1> QED BY <1>1, <1>3

\* The mark of a cache without a copy has rules like any document.
LEMMA NoCopyRules == IsRules(NoCopy.rules)
  <1>1. ASSUME NEW x PROVE <<x>> \in Seq({x})
    OBVIOUS
  <1>2. NoCopy.rules = <<"not cached">>
    BY DEF NoCopy
  <1>3. NoCopy.rules \in Seq({"not cached"})
    BY <1>1, <1>2
  <1> QED BY <1>3 DEF IsRules

\* An import files what it read, merges and is checked.
LEMMA MergeStep ==
  ASSUME CoreInv, NEW s \in Savers, MergeImport(s)
  PROVE  CoreInv'
  <1>0. CoreShape /\ (crossed \/ (Alone /\ StillValid)) /\ (crossed \/ unflushed \/ StartsFromRow) /\ Checked(saving[s])
        /\ UNCHANGED <<fleet, rowsRead, node, saves, crossed, unflushed>> /\ saving[s].kind = "import"
    BY DEF CoreInv, CoreShape, MergeImport
  <1>1. PICK base, parsed, merged : /\ base = saving[s].base /\ parsed = saving[s].parsed
                                    /\ merged = MergeCoreConfigForImport(base, parsed)
    OBVIOUS
  <1>2. PICK applied : applied = [kind |-> "fleet", dto |-> merged, base |-> base]
    OBVIOUS
  <1>3. applied.kind = "fleet" /\ applied.dto = merged /\ applied.base = base /\ IdleSaver.kind = "idle"
    BY <1>2 DEF IdleSaver
  <1>4. PICK call : call = IF ValidateCoreConfig(merged) /\ NodesStayValid(merged) THEN applied ELSE IdleSaver
    OBVIOUS
  <1>5. saving' = [saving EXCEPT ![s] = call] /\ copy' \in {copy, base}
    BY <1>1, <1>2, <1>4 DEF MergeImport
  <1>6. IsRules(base.rules) /\ IsRules(merged.rules) /\ parsed \in Documents
    BY <1>0, <1>1, MergeFacts DEF Checked
  <1>7. Checked(call) /\ call.kind \in {"idle", "fleet"}
    BY <1>3, <1>4, <1>6 DEF Checked
  <1>8. /\ DOMAIN saving' = Savers /\ saving' = [r \in Savers |-> saving'[r]]
        /\ saving'[s] = call /\ (\A r \in Savers \ {s} : saving'[r] = saving[r])
        /\ (\A r \in Savers : Checked(saving[r]))'
    BY <1>0, <1>5, <1>7, DoneFacts
  <1>9. IsRules(copy'.rules)
    BY <1>0, <1>5, <1>6 DEF CoreShape
  <1>10. CoreShape'
    BY <1>0, <1>8, <1>9 DEF CoreShape, ValidateCoreConfig, IsRules, KnownTags
  <1>11. saving[s] # IdleSaver
    BY <1>0, <1>3
  <1>12. ~crossed => \A r \in Savers \ {s} : saving[r] = IdleSaver /\ saving'[r] = IdleSaver
    BY <1>0, <1>8, <1>11 DEF Alone
  <1>13. ASSUME ~crossed PROVE Alone' /\ StillValid'
    <2>1. Alone'
      BY <1>12, <1>13 DEF Alone
    <2>2. NodesStayValid(fleet)'
      BY <1>0, <1>13 DEF StillValid, NodesStayValid
    <2>3. \A r \in Savers : saving'[r].kind \in {"idle", "fleet"} /\ (saving'[r].kind = "fleet" => r = s /\ call = applied)
      BY <1>3, <1>4, <1>7, <1>8, <1>12, <1>13
    <2>4. ASSUME NEW r \in Savers, saving'[r].kind = "fleet" PROVE NodesStayValid(saving[r].dto)'
      <3>1. NodesStayValid(merged) /\ saving'[r].dto = merged
        BY <1>3, <1>4, <1>8, <2>3, <2>4
      <3> QED BY <1>0, <3>1 DEF NodesStayValid
    <2> QED BY <2>1, <2>2, <2>3, <2>4 DEF StillValid
  <1>14. ASSUME ~crossed, ~unflushed PROVE StartsFromRow'
    <2>1. StartsFromRow /\ base = fleet
      BY <1>0, <1>1, <1>14 DEF StartsFromRow
    <2>2. ~Flushing
      BY <1>0, <1>3, <1>12, <1>14 DEF Flushing
    <2>3. copy' = NoCopy \/ copy' = fleet'
      BY <1>0, <1>5, <2>1, <2>2 DEF StartsFromRow
    <2>4. \A r \in Savers : saving'[r].kind # "import"
      BY <1>3, <1>7, <1>8, <1>12, <1>14
    <2>5. ASSUME NEW r \in Savers, saving'[r].kind = "fleet"
          PROVE  saving'[r].base = fleet' /\ saving'[r].dto = MergeCoreConfigForImport(fleet', parsed)
      BY <1>0, <1>1, <1>3, <1>4, <1>8, <1>12, <1>14, <2>1, <2>5
    <2> QED BY <1>6, <2>3, <2>4, <2>5 DEF StartsFromRow
  <1> QED BY <1>0, <1>10, <1>13, <1>14 DEF CoreInv

\* The statements that write.
LEMMA WriteSteps ==
  ASSUME CoreInv, NEW s \in Savers, UpdateCoreConfig(s) \/ InvalidateCoreConfig(s) \/ WriteNode(s)
  PROVE  CoreInv'
  <1>0. CoreShape /\ (crossed \/ (Alone /\ StillValid)) /\ (crossed \/ unflushed \/ StartsFromRow) /\ Checked(saving[s])
        /\ ValidateCoreConfig(fleet) /\ IsRules(fleet.rules) /\ IsRules(copy.rules) /\ saves' = saves /\ crossed' = crossed
        /\ rowsRead' = rowsRead
    BY DEF CoreInv, CoreShape, UpdateCoreConfig, InvalidateCoreConfig, WriteNode
  <1>1. IdleSaver.kind = "idle" /\ Checked(IdleSaver)
    BY DEF IdleSaver, Checked
  <1>2. saving[s] # IdleSaver
    BY <1>1 DEF UpdateCoreConfig, InvalidateCoreConfig, WriteNode
  <1>3. ~crossed => \A r \in Savers \ {s} : saving[r].kind = "idle" /\ saving[r] = IdleSaver
    BY <1>0, <1>1, <1>2 DEF Alone
  <1>4. CASE UpdateCoreConfig(s)
    <2>1. PICK call : call = [kind |-> "flush"]
      OBVIOUS
    <2>2. /\ saving' = [saving EXCEPT ![s] = call] /\ call.kind = "flush" /\ fleet' = saving[s].dto /\ saving[s].kind = "fleet"
          /\ UNCHANGED <<copy, node, saves, crossed, unflushed>>
      BY <1>4, <2>1 DEF UpdateCoreConfig
    <2>3. Checked(call)
      BY <2>2 DEF Checked
    <2>4. /\ DOMAIN saving' = Savers /\ saving' = [r \in Savers |-> saving'[r]]
          /\ saving'[s] = call /\ (\A r \in Savers \ {s} : saving'[r] = saving[r])
          /\ (\A r \in Savers : Checked(saving[r]))'
      BY <1>0, <2>2, <2>3, DoneFacts
    <2>5. ValidateCoreConfig(fleet') /\ IsRules(fleet'.rules)
      BY <1>0, <2>2 DEF Checked
    <2>6. CoreShape'
      BY <1>0, <2>2, <2>4, <2>5 DEF CoreShape, ValidateCoreConfig, IsRules, KnownTags
    <2>7. ASSUME ~crossed PROVE Alone' /\ StillValid'
      <3>1. \A r \in Savers \ {s} : saving'[r] = IdleSaver /\ saving'[r].kind = "idle"
        BY <1>3, <2>4, <2>7
      <3>2. NodesStayValid(fleet')
        BY <1>0, <2>2, <2>7 DEF StillValid
      <3>3. Alone'
        BY <3>1 DEF Alone
      <3>4. NodesStayValid(fleet)'
        BY <2>2, <3>2 DEF NodesStayValid
      <3>5. \A r \in Savers : saving'[r].kind \notin {"fleet", "create", "update"}
        BY <2>2, <2>4, <3>1
      <3>6. StillValid'
        BY <3>4, <3>5 DEF StillValid
      <3> QED BY <3>3, <3>6
    <2>8. ASSUME ~crossed, ~unflushed PROVE StartsFromRow'
      <3>1. \A r \in Savers : saving'[r].kind \notin {"import", "fleet"}
        BY <1>3, <2>2, <2>4, <2>8
      <3> QED BY <2>2, <2>4, <3>1 DEF StartsFromRow, Flushing
    <2> QED BY <2>2, <2>6, <2>7, <2>8 DEF CoreInv
  <1>5. ASSUME Done(s), fleet' = fleet, IsRules(copy'.rules), DOMAIN node' = FleetNodes, node' = [n \in FleetNodes |-> node'[n]],
               \A n \in FleetNodes : KnownTags(node'[n].tags), ~crossed => NodesStayValid(fleet)',
               ~crossed /\ ~unflushed' => ~unflushed /\ (copy' = NoCopy \/ (copy' = copy /\ saving[s].kind # "flush"))
        PROVE  CoreInv'
    <2>1. /\ DOMAIN saving' = Savers /\ saving' = [r \in Savers |-> saving'[r]]
          /\ saving'[s] = IdleSaver /\ (\A r \in Savers \ {s} : saving'[r] = saving[r])
          /\ (\A r \in Savers : Checked(saving[r]))'
      BY <1>0, <1>1, <1>5, DoneFacts DEF Done
    <2>2. CoreShape'
      BY <1>0, <1>5, <2>1 DEF CoreShape, ValidateCoreConfig, IsRules, KnownTags
    <2>3. ~crossed => \A r \in Savers : saving'[r] = IdleSaver /\ saving'[r].kind = "idle"
      BY <1>1, <1>3, <2>1
    <2>4. ASSUME ~crossed PROVE Alone' /\ StillValid'
      BY <1>5, <2>3, <2>4 DEF Alone, StillValid
    <2>5. ASSUME ~crossed, ~unflushed' PROVE StartsFromRow'
      <3>1. copy' = NoCopy \/ copy' = fleet'
        <4>1. CASE copy' = copy /\ saving[s].kind # "flush"
          <5>1. \A r \in Savers : saving[r].kind # "flush"
            BY <1>3, <2>5, <4>1
          <5> QED BY <1>0, <1>5, <2>5, <4>1, <5>1 DEF StartsFromRow, Flushing
        <4> QED BY <1>5, <2>5, <4>1
      <3> QED BY <2>3, <2>5, <3>1 DEF StartsFromRow
    <2> QED BY <1>0, <2>2, <2>4, <2>5 DEF CoreInv
  <1>6. CASE InvalidateCoreConfig(s)
    <2>1. Done(s) /\ fleet' = fleet /\ node' = node /\ (unflushed' \/ (copy' = NoCopy /\ ~unflushed' => ~unflushed))
          /\ (copy' = NoCopy \/ copy' = copy) /\ (~unflushed' => copy' = NoCopy /\ ~unflushed)
      BY <1>6 DEF InvalidateCoreConfig, CopyAfterSave
    <2>2. IsRules(NoCopy.rules)
      BY NoCopyRules
    <2>3. ~crossed => NodesStayValid(fleet)'
      BY <1>0, <2>1 DEF StillValid, NodesStayValid
    <2>4. DOMAIN node' = FleetNodes /\ node' = [n \in FleetNodes |-> node'[n]] /\ \A n \in FleetNodes : KnownTags(node'[n].tags)
      BY <1>0, <2>1 DEF CoreShape
    <2> QED BY <1>0, <1>5, <2>1, <2>2, <2>3, <2>4
  <1>7. CASE WriteNode(s)
    <2>1. /\ Done(s) /\ UNCHANGED <<fleet, copy, unflushed>> /\ saving[s].kind \in {"create", "update"}
          /\ (node' = node \/ node' = [node EXCEPT ![saving[s].node] = saving[s].profile])
      BY <1>7 DEF WriteNode
    <2>2. PICK m, profile : m = saving[s].node /\ profile = saving[s].profile
      OBVIOUS
    <2>3. m \in FleetNodes /\ KnownTags(profile.tags) /\ (~crossed => ValidateCoreConfig(Apply(profile.over, fleet)))
      BY <1>0, <2>1, <2>2 DEF Checked, StillValid
    <2>4. /\ DOMAIN node' = FleetNodes /\ node' = [n \in FleetNodes |-> node'[n]]
          /\ \A n \in FleetNodes : node'[n] = node[n] \/ node'[n] = profile
      BY <1>0, <2>1, <2>2 DEF CoreShape
    <2>5. \A n \in FleetNodes : KnownTags(node'[n].tags)
      BY <1>0, <2>3, <2>4 DEF CoreShape
    <2>6. ~crossed => NodesStayValid(fleet)'
      BY <1>0, <2>1, <2>3, <2>4 DEF StillValid, NodesStayValid
    <2>7. saving[s].kind # "flush"
      BY <2>1
    <2> QED BY <1>0, <1>5, <2>1, <2>4, <2>5, <2>6, <2>7
  <1> QED BY <1>4, <1>6, <1>7

\* A node is deleted, the row is read, the cached copy is filed or expires, or
\* nothing happens.
LEMMA QuietSteps ==
  ASSUME CoreInv, \/ \E n \in FleetNodes : HandleDeleteNode(n)
                  \/ FetchCoreConfig \/ CopyExpires \/ (\E row \in rowsRead : FileCoreConfig(row)) \/ UNCHANGED coreVars
  PROVE  CoreInv'
  <1>0. CoreShape /\ (crossed \/ (Alone /\ StillValid)) /\ (crossed \/ unflushed \/ StartsFromRow)
    BY DEF CoreInv
  <1>1. ASSUME UNCHANGED <<fleet, saving, saves, crossed>>, IsRules(copy'.rules), \A d \in rowsRead' : IsRules(d.rules),
               DOMAIN node' = FleetNodes, node' = [n \in FleetNodes |-> node'[n]],
               \A n \in FleetNodes : node'[n] = node[n] \/ node'[n] = NoNode,
               unflushed => unflushed', copy' \in {copy, fleet, NoCopy} \/ unflushed' \/ Flushing
        PROVE  CoreInv'
    <2>1. NoNode.tags = {}
      BY DEF NoNode
    <2>2. \A n \in FleetNodes : KnownTags(node'[n].tags)
      BY <1>0, <1>1, <2>1 DEF CoreShape, KnownTags
    <2>3. (\A s \in Savers : Checked(saving[s]))'
      BY <1>0, <1>1 DEF CoreShape, Checked, KnownTags, ValidateCoreConfig, IsRules
    <2>4. CoreShape'
      BY <1>0, <1>1, <2>2, <2>3 DEF CoreShape, ValidateCoreConfig, IsRules, KnownTags
    <2>5. ASSUME NEW dto, NodesStayValid(dto)
          PROVE  \A n \in FleetNodes : node'[n] # NoNode => ValidateCoreConfig(Apply(node'[n].over, dto))
      BY <1>1, <2>5 DEF NodesStayValid
    <2>6. ASSUME ~crossed PROVE Alone' /\ StillValid'
      <3>1. Alone'
        BY <1>0, <1>1, <2>6 DEF Alone
      <3>2. NodesStayValid(fleet)'
        BY <1>0, <1>1, <2>5, <2>6 DEF StillValid, NodesStayValid
      <3>3. ASSUME NEW s \in Savers
            PROVE  /\ saving'[s].kind = "fleet" => NodesStayValid(saving[s].dto)'
                   /\ saving'[s].kind \in {"create", "update"} => ValidateCoreConfig(Apply(saving[s].profile.over, fleet))'
        <4>1. saving'[s].kind = "fleet" => NodesStayValid(saving[s].dto)'
          BY <1>0, <1>1, <2>5, <2>6 DEF StillValid, NodesStayValid
        <4>2. saving'[s].kind \in {"create", "update"} => ValidateCoreConfig(Apply(saving[s].profile.over, fleet))'
          BY <1>0, <1>1, <2>6 DEF StillValid
        <4> QED BY <4>1, <4>2
      <3> QED BY <3>1, <3>2, <3>3 DEF StillValid
    <2>7. ~crossed /\ ~unflushed' => StartsFromRow'
      BY <1>0, <1>1 DEF StartsFromRow, Flushing
    <2> QED BY <1>1, <2>4, <2>6, <2>7 DEF CoreInv
  <1>2. DOMAIN node = FleetNodes /\ node = [n \in FleetNodes |-> node[n]] /\ IsRules(fleet.rules) /\ IsRules(copy.rules)
        /\ \A d \in rowsRead : IsRules(d.rules)
    BY <1>0 DEF CoreShape
  <1>3. ASSUME NEW n \in FleetNodes, HandleDeleteNode(n) PROVE CoreInv'
    <2>1. node' = [node EXCEPT ![n] = NoNode] /\ UNCHANGED <<fleet, copy, rowsRead, saving, saves, crossed, unflushed>>
      BY <1>3 DEF HandleDeleteNode
    <2>2. /\ DOMAIN node' = FleetNodes /\ node' = [m \in FleetNodes |-> node'[m]]
          /\ \A m \in FleetNodes : node'[m] = node[m] \/ node'[m] = NoNode
      BY <1>2, <2>1
    <2> QED BY <1>1, <1>2, <2>1, <2>2
  <1>4. CASE FetchCoreConfig
    BY <1>1, <1>2, <1>4 DEF FetchCoreConfig
  <1>7. ASSUME NEW row \in rowsRead, FileCoreConfig(row) PROVE CoreInv'
    BY <1>1, <1>2, <1>7 DEF FileCoreConfig
  <1>5. CASE CopyExpires
    BY <1>1, <1>2, <1>5, NoCopyRules DEF CopyExpires
  <1>6. CASE UNCHANGED coreVars
    BY <1>1, <1>2, <1>6 DEF coreVars
  <1> QED BY <1>3, <1>4, <1>5, <1>6, <1>7

\* The invariant of the core config holds always.
LEMMA CoreInvariant == CoreSpec => []CoreInv
  <1>1. CoreInit => CoreInv
    <2> SUFFICES ASSUME CoreInit PROVE CoreInv
      OBVIOUS
    <2>1. Empty.rules = <<>> /\ DOMAIN Empty.outs = {} /\ NoNode.tags = {} /\ IdleSaver.kind = "idle"
      BY DEF Empty, NoNode, IdleSaver
    <2>2. <<>> \in Seq({})
      OBVIOUS
    <2>3. ValidateCoreConfig(fleet) /\ IsRules(fleet.rules)
      BY <2>1, <2>2 DEF CoreInit, ValidateCoreConfig, IsRules
    <2>4. 0 \in 0 .. MaxSaves
      BY CoreAssumption
    <2>5. IsRules(copy.rules)
      BY NoCopyRules DEF CoreInit
    <2>6. CoreShape
      BY <2>1, <2>3, <2>4, <2>5 DEF CoreInit, CoreShape, KnownTags, Checked
    <2>7. Alone /\ StillValid /\ StartsFromRow
      BY <2>1 DEF CoreInit, Alone, StillValid, StartsFromRow, NodesStayValid
    <2> QED BY <2>6, <2>7 DEF CoreInv
  <1>2. CoreInv /\ [CoreNext]_coreVars => CoreInv'
    BY BeginSteps, MergeStep, WriteSteps, QuietSteps DEF CoreNext
  <1> QED BY <1>1, <1>2, PTL DEF CoreSpec

\* Every node is given a valid config, whatever is saved or imported, unless
\* calls overlapped (coreconfig.go, nodeprofile.go).
THEOREM CoreTheorem == CoreSpec => []CoreConfigIsSound
  <1>1. CoreInv => CoreConfigIsSound
    <2> SUFFICES ASSUME CoreInv PROVE CoreConfigIsSound
      OBVIOUS
    <2>1. CoreTypeOK
      BY DEF CoreInv, CoreShape, CoreTypeOK, Checked
    <2>2. ASSUME NEW n \in FleetNodes, node[n] # NoNode, ~crossed
          PROVE  ValidateCoreConfig(Apply(node[n].over, fleet))
      BY <2>2 DEF CoreInv, StillValid, NodesStayValid
    <2>3. \A n \in FleetNodes : LET given == FilterInbounds(node[n])
            IN \A t \in DOMAIN given :
                 given[t].primary \in given[t].ports /\ given[t].ports \subseteq FleetSpecs[t].ports
      BY FilterFacts
    <2> QED BY <2>1, <2>2, <2>3 DEF CoreConfigIsSound, NodesGetValidConfigs
  <1> QED BY <1>1, CoreInvariant, PTL

\* An import takes nothing away that the fleet's config has when it is written,
\* unless calls overlapped, dropping the cached copy failed or a reader filed an
\* older row after it was dropped (xrayimport.go).
THEOREM ImportsTheorem == CoreSpec => ImportsOnlyAdd
  <1> DEFINE A == \A s \in Savers :
                    UpdateCoreConfig(s) /\ ~crossed /\ ~unflushed /\ saving[s].base # saving[s].dto =>
                      /\ DOMAIN fleet.outs \subseteq DOMAIN fleet'.outs
                      /\ \A o \in DOMAIN fleet.outs : fleet'.outs[o] = fleet.outs[o]
                      /\ IsPrefix(fleet.rules, fleet'.rules)
  <1>1. CoreInv => A
    <2> SUFFICES ASSUME CoreInv, NEW s \in Savers, UpdateCoreConfig(s), ~crossed, ~unflushed,
                        saving[s].base # saving[s].dto
                 PROVE  /\ DOMAIN fleet.outs \subseteq DOMAIN fleet'.outs
                        /\ \A o \in DOMAIN fleet.outs : fleet'.outs[o] = fleet.outs[o]
                        /\ IsPrefix(fleet.rules, fleet'.rules)
      OBVIOUS
    <2>1. fleet' = saving[s].dto /\ saving[s].kind = "fleet"
      BY DEF UpdateCoreConfig
    <2>2. StartsFromRow /\ IsRules(fleet.rules)
      BY DEF CoreInv, CoreShape
    <2>3. PICK p \in Documents : saving[s].dto = MergeCoreConfigForImport(fleet, p)
      BY <2>1, <2>2 DEF StartsFromRow
    <2>4. PICK merged : merged = MergeCoreConfigForImport(fleet, p)
      OBVIOUS
    <2>5. /\ DOMAIN fleet.outs \subseteq DOMAIN merged.outs
          /\ \A o \in DOMAIN fleet.outs : merged.outs[o] = fleet.outs[o]
          /\ IsPrefix(fleet.rules, merged.rules)
      BY <2>2, <2>4, MergeFacts
    <2> QED BY <2>1, <2>3, <2>4, <2>5
  <1> HIDE DEF A
  <1>2. CoreSpec => [][A]_coreVars
    BY <1>1, CoreInvariant, PTL DEF CoreSpec
  <1> USE DEF A
  <1> QED BY <1>2 DEF ImportsOnlyAdd

-----------------------------------------------------------------------------
(***************************************************************************)
(* InboundCatalog: inbounds, their hosts, the cached tag lists.            *)
(***************************************************************************)

CallTags == InTags \cup {0}

Statements ==
  [op : {"lookup", "top", "default", "find", "drop", "list", "prune", "clear", "above"}, tag : CallTags]
  \cup [op : {"upsert"}, tag : CallTags, row : Rows]
  \cup [op : {"invalidate"}, tag : CallTags, proto : Protos \cup {"found"}]
  \cup [op : {"host"}, tag : CallTags, rank : Nat]

\* A write is preceded by the read that it relies on and followed by the
\* invalidation that it owes.
MayFollow(x, y) ==
  /\ x.op = "upsert" => y.op = "invalidate" /\ y.tag = x.tag /\ y.proto = x.row.proto
  /\ x.op = "drop" => y.op = "invalidate" /\ y.tag = x.tag
  /\ y.op = "upsert" => x.op = "lookup" /\ y.tag = x.tag
  /\ y.op = "drop" => x.op = "find" /\ y.tag = x.tag
  /\ y.op = "prune" => x.op = "list"
  /\ y.op = "default" => x.op = "top"
  /\ y.op = "above" => x.op = "clear"

Statement(x) ==
  /\ x.op \notin {"list", "prune"} => x.tag \in InTags
  /\ x.op = "upsert" => x.row \in Rows
  /\ x.op = "host" => x.rank \in Nat

Runnable(s) ==
  /\ s \in Seq(Statements)
  /\ \A i \in 1 .. Len(s) :
       /\ Statement(s[i])
       /\ i < Len(s) => MayFollow(s[i], s[i + 1])
       /\ s[i].op \in {"upsert", "drop"} => i < Len(s)
       /\ i + 1 < Len(s) /\ s[i + 2].op = "above" => s[i].op = "top"

\* A call, or a part of one, begins with a read or with the clearing of hosts.
Begins(s) ==
  s # <<>> => /\ s[1].op \in {"lookup", "find", "list", "top", "clear"}
              /\ 1 < Len(s) => s[2].op # "above"

Programs == {s \in Seq(Statements) : Runnable(s) /\ Begins(s)}

Locals ==
  [old : Protos \cup {"none"}, inserted : BOOLEAN, top : -1 .. MaxRank, listed : SUBSET InTags]

CatTypes ==
  /\ CatalogTypeOK
  /\ hosts \in [InTags -> Seq(0 .. MaxRank)]
  /\ tagLists \in [Protos -> (SUBSET InTags) \cup {NotCached}]
  /\ todo \in [Clerks -> Seq(Statements)]
  /\ local \in [Clerks -> Locals]
  /\ overlapped \in BOOLEAN /\ clashed \in BOOLEAN /\ ended \in BOOLEAN
  /\ partial \in BOOLEAN /\ wiped \in BOOLEAN
  /\ \A c \in Clerks : Runnable(todo[c])

\* Without an overlap one call runs; without a clash no two of one tag do.
Apart ==
  /\ ~overlapped => \A c, d \in Clerks : c # d => todo[c] = <<>> \/ todo[d] = <<>>
  /\ ~clashed => \A c, d \in Clerks : c # d =>
       \A i \in 1 .. Len(todo[c]), j \in 1 .. Len(todo[d]) : todo[c][i].tag # todo[d][j].tag

WillUseTop(s) ==
  s # <<>> /\ (s[1].op \in {"default", "above"} \/ (1 < Len(s) /\ s[2].op = "above"))

\* What a call has read still holds when it uses it.
ReadHolds(c) ==
  /\ ~clashed /\ (Does(c, "upsert") \/ Does(c, "drop")) => local[c].old = inbounds[This(c).tag].proto
  /\ ~overlapped /\ Does(c, "prune") => local[c].listed = Known
  /\ ~overlapped /\ WillUseTop(todo[c]) => \A t \in InTags : \A i \in DOMAIN hosts[t] : hosts[t][i] <= local[c].top

ReadsHold == \A c \in Clerks : ReadHolds(c)

\* A cached list that is not what the table says was old when it was filed, or is
\* about to be dropped.
Owed(t, p) ==
  \E c \in Clerks : Does(c, "invalidate") /\ This(c).tag = t /\ p \in StaleLists(c)

ListsAreOwed ==
  ~clashed /\ ~ended =>
    \A p \in Protos, t \in InTags :
      p \notin raced /\ tagLists[p] # NotCached /\ ~(t \in tagLists[p] <=> inbounds[t].proto = p) => Owed(t, p)

HostsHaveInbounds == \A t \in InTags : hosts[t] # <<>> => inbounds[t] # NoInbound

Different(ranks) ==
  \A t, u \in DOMAIN ranks : \A i \in 1 .. Len(ranks[t]), j \in 1 .. Len(ranks[u]) :
    ranks[t][i] = ranks[u][j] => t = u /\ i = j

\* f replaces the hosts of t by those of the priorities r, from k on; and those of
\* every tag t by ranks[t], from start[t] on, which is all it does.
Replaces(f, t, r, k) ==
  /\ f[k].op = "clear" /\ f[k].tag = t
  /\ \A i \in 1 .. Len(r) : f[k + i].op = "host" /\ f[k + i].tag = t /\ f[k + i].rank = r[i]

Writes(f, ranks, start) ==
  /\ start \in [DOMAIN ranks -> Nat \ {0}]
  /\ \A t \in DOMAIN ranks :
       /\ ranks[t] \in Seq(Nat) /\ start[t] + Len(ranks[t]) <= Len(f)
       /\ Replaces(f, t, ranks[t], start[t])
  /\ \A n \in 1 .. Len(f) : \E t \in DOMAIN ranks : n - start[t] \in 0 .. Len(ranks[t])

\* The hosts of h after all of f before k.
Written(h, k, ranks, start) ==
  /\ \A t \in InTags \ DOMAIN ranks : h[t] = <<>>
  /\ \A t \in DOMAIN ranks : start[t] < k =>
       /\ Len(h[t]) <= Len(ranks[t]) /\ \A i \in 1 .. Len(h[t]) : h[t][i] = ranks[t][i]
       /\ k - 1 <= start[t] + Len(ranks[t]) => Len(h[t]) = k - 1 - start[t]

Puts(s, h) ==
  \E f \in Seq(Statements), T \in SUBSET InTags :
    \E k \in 1 .. Len(f) + 1, ranks \in [T -> Seq(Nat)], start \in [T -> Nat] :
      /\ s = SubSeq(f, k, Len(f))
      /\ Different(ranks) /\ Writes(f, ranks, start) /\ Written(h, k, ranks, start)

NoHostWrites == \A c \in Clerks : \A i \in 1 .. Len(todo[c]) : todo[c][i].op # "host"

RanksHold ==
  ~overlapped /\ ~ended /\ ~partial =>
    \/ PrioritiesDistinct /\ NoHostWrites
    \/ \E c \in Clerks : todo[c] # <<>> /\ Puts(todo[c], hosts)

Unwiped == ~overlapped => ~wiped

CatInv == CatTypes /\ Apart /\ ReadsHold /\ ListsAreOwed /\ HostsHaveInbounds /\ RanksHold /\ Unwiped

-----------------------------------------------------------------------------
\* The programs of the calls.

\* What is built piece by piece has what every piece and every join keeps: G is
\* what has it, with the number of pieces.
LEMMA FlattenFacts ==
  ASSUME NEW ss, NEW S, ss \in Seq(S), ss # <<>>, NEW G,
         <<1, ss[1]>> \in G,
         \A m \in 1 .. Len(ss) - 1 : \A s : <<m, s>> \in G => <<m + 1, s \o ss[m + 1]>> \in G
  PROVE  <<Len(ss), FlattenSeq(ss)>> \in G
  <1> DEFINE n == Len(ss)
             At(f, i) == IF i = 1 THEN ss[i] ELSE f[i - 1] \o ss[i]
             Good(m) == \E f : f = [i \in 1 .. m |-> At(f, i)]
             N == {m \in Nat : Good(m)}
  <1>1. n \in Nat /\ n > 0
    BY EmptySeq
  <1>2. 0 \in N
    <2>1. [i \in 1 .. 0 |-> 0] = [i \in 1 .. 0 |-> At([j \in 1 .. 0 |-> 0], i)]
      OBVIOUS
    <2> HIDE DEF At
    <2> QED BY <2>1
  <1>3. ASSUME NEW m \in Nat, m \in N PROVE m + 1 \in N
    <2>1. PICK f : f = [i \in 1 .. m |-> At(f, i)]
      BY <1>3
    <2> DEFINE g == [i \in 1 .. m + 1 |-> IF i <= m THEN f[i] ELSE At(f, i)]
    <2>2. ASSUME NEW i \in 1 .. m + 1 PROVE g[i] = At(g, i)
      <3>1. CASE i = 1
        <4>1. i <= m => f[i] = ss[i]
          BY <2>1, <3>1
        <4> QED BY <3>1, <4>1
      <3>2. CASE i # 1
        <4>1. i - 1 \in 1 .. m /\ i - 1 \in 1 .. m + 1 /\ i - 1 <= m
          BY <3>2
        <4>2. g[i - 1] = f[i - 1]
          BY <4>1
        <4>3. At(g, i) = f[i - 1] \o ss[i] /\ At(f, i) = f[i - 1] \o ss[i]
          BY <3>2, <4>2
        <4>4. i <= m => f[i] = At(f, i)
          <5> SUFFICES ASSUME i \in 1 .. m PROVE f[i] = At(f, i)
            OBVIOUS
          <5> HIDE DEF At
          <5> QED BY <2>1
        <4> HIDE DEF At
        <4> QED BY <4>3, <4>4
      <3> QED BY <3>1, <3>2
    <2>3. g = [i \in 1 .. m + 1 |-> At(g, i)]
      BY <2>2
    <2> HIDE DEF g, At
    <2>4. Good(m + 1)
      BY <2>3, Zenon
    <2> QED BY <2>4
  <1>4. n \in N
    <2> HIDE DEF N
    <2> QED BY <1>1, <1>2, <1>3, SetInduction
  <1> DEFINE flat[i \in 1 .. n] == At(flat, i)
  <1>5. flat = [i \in 1 .. n |-> At(flat, i)]
    <2>1. \E f : f = [i \in 1 .. n |-> At(f, i)]
      BY <1>4
    <2> HIDE DEF At, n
    <2> QED BY <2>1, Zenon
  <1>6. FlattenSeq(ss) = flat[n]
    BY <1>1 DEF FlattenSeq
  <1> HIDE DEF flat
  <1> DEFINE K == {m \in Nat : m + 1 <= n => <<m + 1, flat[m + 1]>> \in G}
  <1>7. 0 \in K
    <2>1. flat[1] = ss[1]
      BY <1>1, <1>5
    <2> QED BY <2>1
  <1>8. ASSUME NEW m \in Nat, m \in K PROVE m + 1 \in K
    <2> SUFFICES ASSUME m + 2 <= n PROVE <<m + 2, flat[m + 2]>> \in G
      OBVIOUS
    <2>1. flat[m + 2] = flat[m + 1] \o ss[m + 2]
      <3>1. m + 2 \in 1 .. n /\ m + 2 # 1 /\ (m + 2) - 1 = m + 1
        BY <1>1
      <3>2. flat[m + 2] = At(flat, m + 2)
        BY <1>5, <3>1
      <3> QED BY <3>1, <3>2
    <2>2. <<m + 1, flat[m + 1]>> \in G /\ m + 1 \in 1 .. n - 1 /\ (m + 1) + 1 = m + 2
      BY <1>1, <1>8
    <2> QED BY <2>1, <2>2
  <1>9. n - 1 \in K
    <2> HIDE DEF K
    <2> QED BY <1>1, <1>7, <1>8, SetInduction
  <1> QED BY <1>1, <1>6, <1>9

Plain == {s \in Programs : \A i \in 1 .. Len(s) : s[i].op # "host"}

\* Programs can be put one behind the other.
LEMMA JoinFacts ==
  ASSUME NEW a \in Programs, NEW b \in Programs
  PROVE  /\ a \o b \in Programs
         /\ a \in Plain /\ b \in Plain => a \o b \in Plain
  <1> DEFINE s == a \o b
             m == Len(a)
             n == Len(b)
  <1>1. a \in Seq(Statements) /\ b \in Seq(Statements) /\ Runnable(a) /\ Runnable(b) /\ Begins(a) /\ Begins(b)
    BY DEF Programs
  <1>2. /\ s \in Seq(Statements) /\ Len(s) = m + n /\ m \in Nat /\ n \in Nat
        /\ \A i \in 1 .. m + n : s[i] = IF i <= m THEN a[i] ELSE b[i - m]
    BY <1>1, ConcatProperties
  <1> HIDE DEF s
  <1>3. \A i \in 1 .. m : s[i] = a[i]
    BY <1>2
  <1>4. \A i \in 1 .. n : s[m + i] = b[i]
    BY <1>2
  <1>5. \A i \in 1 .. m + n : i \in 1 .. m \/ (i - m \in 1 .. n /\ i = m + (i - m))
    BY <1>2
  <1>6. n > 0 => /\ b[1].op \in {"lookup", "find", "list", "top", "clear"}
                 /\ n > 1 => b[2].op # "above"
    BY <1>1, <1>2 DEF Begins
  <1>7. ASSUME NEW i \in 1 .. m + n
        PROVE  /\ Statement(s[i])
               /\ i < m + n => MayFollow(s[i], s[i + 1])
               /\ s[i].op \in {"upsert", "drop"} => i < m + n
               /\ i + 1 < m + n /\ s[i + 2].op = "above" => s[i].op = "top"
    <2>1. CASE i \in 1 .. m
      <3>1. s[i] = a[i] /\ Statement(a[i]) /\ (a[i].op \in {"upsert", "drop"} => i < m)
        BY <1>1, <1>3, <2>1 DEF Runnable
      <3>2. i < m => s[i + 1] = a[i + 1] /\ MayFollow(a[i], a[i + 1])
        BY <1>1, <1>2, <1>3, <2>1 DEF Runnable
      <3>3. i = m /\ n > 0 => s[i + 1] = b[1] /\ MayFollow(a[i], b[1])
        <4> SUFFICES ASSUME i = m, n > 0 PROVE s[i + 1] = b[1] /\ MayFollow(a[i], b[1])
          OBVIOUS
        <4>1. s[i + 1] = b[1]
          BY <1>4
        <4>2. b[1].op \notin {"upsert", "drop", "prune", "default", "above"}
          BY <1>6
        <4>3. a[i].op \notin {"upsert", "drop"}
          BY <3>1
        <4> QED BY <4>1, <4>2, <4>3 DEF MayFollow
      <3>4. i + 1 < m => s[i + 2] = a[i + 2] /\ (a[i + 2].op = "above" => a[i].op = "top")
        BY <1>1, <1>2, <1>3, <2>1 DEF Runnable
      <3>5. i + 1 = m /\ n > 0 => s[i + 2] = b[1]
        BY <1>2, <1>4
      <3>6. i = m /\ n > 1 => s[i + 2] = b[2]
        BY <1>2, <1>4
      <3>7. i + 1 < m + n /\ s[i + 2].op = "above" => i + 1 < m
        BY <1>2, <1>6, <2>1, <3>5, <3>6
      <3> QED BY <1>2, <2>1, <3>1, <3>2, <3>3, <3>4, <3>7
    <2>2. CASE i - m \in 1 .. n /\ i = m + (i - m)
      <3> DEFINE j == i - m
      <3>1. j \in 1 .. n /\ s[i] = b[j] /\ (j < n => s[i + 1] = b[j + 1]) /\ (j + 1 < n => s[i + 2] = b[j + 2])
        <4>1. j \in 1 .. n /\ s[m + j] = b[j] /\ m + j = i
          BY <1>2, <1>4, <2>2
        <4>2. j < n => j + 1 \in 1 .. n /\ m + (j + 1) = i + 1
          BY <1>2, <2>2
        <4>3. j + 1 < n => j + 2 \in 1 .. n /\ m + (j + 2) = i + 2
          BY <1>2, <2>2
        <4>4. j < n => s[i + 1] = b[j + 1]
          BY <1>4, <4>2
        <4>5. j + 1 < n => s[i + 2] = b[j + 2]
          BY <1>4, <4>3
        <4> QED BY <4>1, <4>4, <4>5
      <3>2. (i < m + n <=> j < n) /\ (i + 1 < m + n <=> j + 1 < n)
        BY <1>2, <2>2
      <3>3. /\ Statement(b[j])
            /\ j < n => MayFollow(b[j], b[j + 1])
            /\ b[j].op \in {"upsert", "drop"} => j < n
            /\ j + 1 < n /\ b[j + 2].op = "above" => b[j].op = "top"
        BY <1>1, <3>1 DEF Runnable
      <3> HIDE DEF j
      <3> QED BY <3>1, <3>2, <3>3
    <2> QED BY <1>5, <2>1, <2>2
  <1>8. Runnable(s)
    BY <1>2, <1>7 DEF Runnable
  <1>9. Begins(s)
    <2>1. CASE m = 0
      <3>1. (n > 0 => s[1] = b[1]) /\ (n > 1 => s[2] = b[2])
        BY <1>2, <1>4, <2>1
      <3> QED BY <1>2, <1>6, <2>1, <3>1, EmptySeq DEF Begins
    <2>2. CASE m = 1
      <3>1. s[1] = a[1] /\ (n > 0 => s[2] = b[1])
        BY <1>2, <1>3, <1>4, <2>2
      <3>2. a # <<>>
        BY <2>2, EmptySeq
      <3> QED BY <1>1, <1>2, <1>6, <2>2, <3>1, <3>2 DEF Begins
    <2>3. CASE m > 1
      <3>1. s[1] = a[1] /\ s[2] = a[2]
        BY <1>2, <1>3, <2>3
      <3>2. a # <<>>
        BY <2>3, EmptySeq
      <3>3. a[1].op \in {"lookup", "find", "list", "top", "clear"} /\ a[2].op # "above"
        BY <1>1, <2>3, <3>2 DEF Begins
      <3>4. s[1].op = a[1].op /\ s[2].op = a[2].op
        BY <3>1
      <3> HIDE DEF m
      <3> QED BY <3>3, <3>4 DEF Begins
    <2>4. m \in Nat
      BY <1>2
    <2> HIDE DEF m
    <2> QED BY <2>1, <2>2, <2>3, <2>4
  <1>10. a \in Plain /\ b \in Plain => \A i \in 1 .. m + n : s[i].op # "host"
    <2> SUFFICES ASSUME a \in Plain, b \in Plain, NEW i \in 1 .. m + n PROVE s[i].op # "host"
      OBVIOUS
    <2>1. CASE i \in 1 .. m
      BY <1>3, <2>1 DEF Plain
    <2>2. CASE i - m \in 1 .. n /\ i = m + (i - m)
      <3>1. s[i] = b[i - m]
        BY <1>4, <2>2
      <3> QED BY <2>2, <3>1 DEF Plain
    <2> QED BY <1>5, <2>1, <2>2
  <1> QED BY <1>2, <1>8, <1>9, <1>10 DEF Plain, Programs, s

\* So can any number of them.
LEMMA FlattenPlain ==
  ASSUME NEW ss, ss \in Seq(Plain)
  PROVE  FlattenSeq(ss) \in Plain
  <1> <<>> \in Plain
    BY EmptySeq DEF Plain, Programs, Runnable, Begins
  <1>1. CASE ss = <<>>
    <2>1. FlattenSeq(ss) = ss
      BY <1>1 DEF FlattenSeq
    <2> QED BY <1>1, <2>1
  <1>2. CASE ss # <<>>
    <2> DEFINE G == Nat \X Plain
    <2>1. Len(ss) \in Nat \ {0} /\ \A m \in 1 .. Len(ss) : ss[m] \in Plain
      BY <1>2, EmptySeq, ElementOfSeq
    <2>2. <<1, ss[1]>> \in G
      BY <2>1
    <2>3. ASSUME NEW m \in 1 .. Len(ss) - 1, NEW s, <<m, s>> \in G
          PROVE  <<m + 1, s \o ss[m + 1]>> \in G
      <3>1. s \in Plain /\ s \in Programs
        BY <2>3 DEF Plain
      <3>2. ss[m + 1] \in Plain /\ ss[m + 1] \in Programs
        <4>1. m + 1 \in 1 .. Len(ss)
          BY <2>1
        <4> QED BY <2>1, <4>1 DEF Plain
      <3>3. s \o ss[m + 1] \in Plain
        BY <3>1, <3>2, JoinFacts
      <3>4. m + 1 \in Nat
        BY <2>1
      <3> QED BY <3>3, <3>4
    <2> HIDE DEF G
    <2>4. <<Len(ss), FlattenSeq(ss)>> \in G
      BY <1>2, <2>2, <2>3, FlattenFacts
    <2> QED BY <2>4 DEF G
  <1> QED BY <1>1, <1>2

\* The statements of the calls.
LEMMA SyncEntryPlain ==
  ASSUME NEW t \in InTags, NEW row \in Rows
  PROVE  SyncEntry(t, row) \in Plain
  <1> DEFINE s == SyncEntry(t, row)
  <1>1. /\ [op |-> "lookup", tag |-> t] \in Statements /\ [op |-> "upsert", tag |-> t, row |-> row] \in Statements
        /\ [op |-> "invalidate", tag |-> t, proto |-> row.proto] \in Statements
        /\ [op |-> "top", tag |-> t] \in Statements /\ [op |-> "default", tag |-> t] \in Statements
    <2>1. row.proto \in Protos
      BY DEF Rows
    <2> QED BY <2>1 DEF Statements, CallTags
  <1>2. s \in Seq(Statements) /\ Len(s) = 5
    BY <1>1 DEF SyncEntry
  <1>3. /\ s[1] = [op |-> "lookup", tag |-> t] /\ s[2] = [op |-> "upsert", tag |-> t, row |-> row]
        /\ s[3] = [op |-> "invalidate", tag |-> t, proto |-> row.proto]
        /\ s[4] = [op |-> "top", tag |-> t] /\ s[5] = [op |-> "default", tag |-> t]
    BY DEF SyncEntry
  <1> HIDE DEF s
  <1>4. \A i \in 1 .. 5 : Statement(s[i]) /\ s[i].op # "host" /\ s[i].op # "above"
    <2> SUFFICES ASSUME NEW i \in 1 .. 5 PROVE Statement(s[i]) /\ s[i].op # "host" /\ s[i].op # "above"
      OBVIOUS
    <2> i = 1 \/ i = 2 \/ i = 3 \/ i = 4 \/ i = 5
      OBVIOUS
    <2> QED BY <1>3 DEF Statement
  <1>5. \A i \in 1 .. 4 : MayFollow(s[i], s[i + 1])
    <2> SUFFICES ASSUME NEW i \in 1 .. 4 PROVE MayFollow(s[i], s[i + 1])
      OBVIOUS
    <2> i = 1 \/ i = 2 \/ i = 3 \/ i = 4
      OBVIOUS
    <2> QED BY <1>3 DEF MayFollow
  <1>6. s[5].op \notin {"upsert", "drop"}
    BY <1>3
  <1>7. Runnable(s)
    <2>1. \A i \in 1 .. 5 : i < 5 => i \in 1 .. 4
      OBVIOUS
    <2>2. \A i \in 1 .. 5 : i + 1 < 5 => i + 2 \in 1 .. 5
      OBVIOUS
    <2>3. \A i \in 1 .. 5 : ~(i < 5) => i = 5
      OBVIOUS
    <2> QED BY <1>2, <1>4, <1>5, <1>6, <2>1, <2>2, <2>3 DEF Runnable
  <1>8. Begins(s)
    BY <1>3 DEF Begins
  <1> QED BY <1>2, <1>4, <1>7, <1>8 DEF Plain, Programs, s

LEMMA DropPlain ==
  ASSUME NEW t \in InTags
  PROVE  DropInbound(t) \in Plain
  <1> DEFINE s == DropInbound(t)
  <1>1. /\ [op |-> "find", tag |-> t] \in Statements /\ [op |-> "drop", tag |-> t] \in Statements
        /\ [op |-> "invalidate", tag |-> t, proto |-> "found"] \in Statements
    BY DEF Statements, CallTags
  <1>2. s \in Seq(Statements) /\ Len(s) = 3
    BY <1>1 DEF DropInbound
  <1>3. /\ s[1] = [op |-> "find", tag |-> t] /\ s[2] = [op |-> "drop", tag |-> t]
        /\ s[3] = [op |-> "invalidate", tag |-> t, proto |-> "found"]
    BY DEF DropInbound
  <1> HIDE DEF s
  <1>4. \A i \in 1 .. 3 : i = 1 \/ i = 2 \/ i = 3
    OBVIOUS
  <1>5. \A i \in 1 .. 3 : /\ Statement(s[i]) /\ s[i].op # "host" /\ s[i].op # "above"
                          /\ i < 3 => MayFollow(s[i], s[i + 1])
                          /\ s[i].op \in {"upsert", "drop"} => i < 3
    BY <1>3, <1>4 DEF Statement, MayFollow
  <1>6. Runnable(s)
    <2>1. \A i \in 1 .. 3 : i + 1 < 3 => i + 2 \in 1 .. 3
      OBVIOUS
    <2> QED BY <1>2, <1>5, <2>1 DEF Runnable
  <1>7. Begins(s)
    BY <1>3 DEF Begins
  <1> QED BY <1>2, <1>5, <1>6, <1>7 DEF Plain, Programs, s

LEMMA PrunePlain == PruneOrphaned \in Plain
  <1> DEFINE s == PruneOrphaned
  <1>1. [op |-> "list", tag |-> 0] \in Statements /\ [op |-> "prune", tag |-> 0] \in Statements
    BY DEF Statements, CallTags
  <1>2. s \in Seq(Statements) /\ Len(s) = 2
    BY <1>1 DEF PruneOrphaned
  <1>3. s[1] = [op |-> "list", tag |-> 0] /\ s[2] = [op |-> "prune", tag |-> 0]
    BY DEF PruneOrphaned
  <1> HIDE DEF s
  <1>4. \A i \in 1 .. 2 : i = 1 \/ i = 2
    OBVIOUS
  <1>5. \A i \in 1 .. 2 : /\ Statement(s[i]) /\ s[i].op # "host" /\ s[i].op # "above"
                          /\ i < 2 => MayFollow(s[i], s[i + 1])
                          /\ s[i].op \notin {"upsert", "drop"}
    BY <1>3, <1>4 DEF Statement, MayFollow
  <1>6. Runnable(s)
    BY <1>2, <1>5 DEF Runnable
  <1>7. Begins(s)
    BY <1>3 DEF Begins
  <1> QED BY <1>2, <1>5, <1>6, <1>7 DEF Plain, Programs, s

LEMMA AbovePlain ==
  ASSUME NEW t \in InTags
  PROVE  << [op |-> "top", tag |-> t], [op |-> "clear", tag |-> t], [op |-> "above", tag |-> t] >> \in Plain
  <1> DEFINE s == << [op |-> "top", tag |-> t], [op |-> "clear", tag |-> t], [op |-> "above", tag |-> t] >>
  <1>1. /\ [op |-> "top", tag |-> t] \in Statements /\ [op |-> "clear", tag |-> t] \in Statements
        /\ [op |-> "above", tag |-> t] \in Statements
    BY DEF Statements, CallTags
  <1>2. s \in Seq(Statements) /\ Len(s) = 3
    BY <1>1
  <1>3. /\ s[1] = [op |-> "top", tag |-> t] /\ s[2] = [op |-> "clear", tag |-> t]
        /\ s[3] = [op |-> "above", tag |-> t]
    OBVIOUS
  <1> HIDE DEF s
  <1>4. \A i \in 1 .. 3 : i = 1 \/ i = 2 \/ i = 3
    OBVIOUS
  <1>5. \A i \in 1 .. 3 : /\ Statement(s[i]) /\ s[i].op # "host" /\ s[i].op \notin {"upsert", "drop"}
                          /\ i < 3 => MayFollow(s[i], s[i + 1])
                          /\ i + 1 < 3 => s[i].op = "top"
    BY <1>3, <1>4 DEF Statement, MayFollow
  <1>6. Runnable(s)
    BY <1>2, <1>5 DEF Runnable
  <1>7. Begins(s)
    BY <1>3 DEF Begins
  <1>8. s \in Plain
    BY <1>2, <1>5, <1>6, <1>7 DEF Plain, Programs
  <1> QED BY <1>8 DEF s

-----------------------------------------------------------------------------
\* Priorities.

\* What is sent is given priorities of its own.
LEMMA NormalizeFacts ==
  ASSUME NEW body \in Bodies
  PROVE  /\ DOMAIN body \in SUBSET InTags
         /\ NormalizeHostPriorities(body) \in [DOMAIN body -> Seq(Nat)]
         /\ Different(NormalizeHostPriorities(body))
  <1> DEFINE T == DOMAIN body
             refs == UNION {{t} \X DOMAIN body[t] : t \in DOMAIN body}
             Sent(r) == body[r[1]][r[2]]
             Before(r, s) ==
               \/ Sent(r) < Sent(s)
               \/ Sent(r) = Sent(s) /\ (r[1] < s[1] \/ (r[1] = s[1] /\ r[2] < s[2]))
             below == [s \in refs |-> {r \in refs : Before(r, s)}]
             ranked == NormalizeHostPriorities(body)
  <1>1. T \in SUBSET InTags /\ T \in SUBSET Nat /\ IsFiniteSet(T)
    BY CatalogAssumption, FS_Subset DEF Bodies
  <1>2. \A t \in T : /\ body[t] \in Seq(Nat) /\ Len(body[t]) \in 1 .. 2 /\ DOMAIN body[t] = 1 .. Len(body[t])
                     /\ \A i \in DOMAIN body[t] : body[t][i] \in Nat
    <2>1. \A b \in {<<0>>, <<0, 0>>, <<1, 0>>} : b \in Seq(Nat) /\ Len(b) \in 1 .. 2
      <3>1. <<0>> \in Seq(Nat) /\ Len(<<0>>) = 1
        OBVIOUS
      <3>2. <<0, 0>> \in Seq(Nat) /\ Len(<<0, 0>>) = 2
        OBVIOUS
      <3>3. <<1, 0>> \in Seq(Nat) /\ Len(<<1, 0>>) = 2
        OBVIOUS
      <3>4. 1 \in 1 .. 2 /\ 2 \in 1 .. 2
        OBVIOUS
      <3> QED BY <3>1, <3>2, <3>3, <3>4
    <2>2. \A t \in T : body[t] \in {<<0>>, <<0, 0>>, <<1, 0>>}
      BY DEF Bodies
    <2>3. \A b \in Seq(Nat) : DOMAIN b = 1 .. Len(b) /\ \A i \in DOMAIN b : b[i] \in Nat
      OBVIOUS
    <2> QED BY <2>1, <2>2, <2>3
  <1>3. IsFiniteSet(refs)
    <2>1. IsFiniteSet(T \X (1 .. 2))
      <3>1. IsFiniteSet(1 .. 2)
        <4>1. \A n \in Nat : IsFiniteSet(1 .. n)
          BY FS_Interval
        <4> QED BY <4>1
      <3> HIDE DEF T
      <3> QED BY <1>1, <3>1, FS_Product
    <2>2. refs \subseteq T \X (1 .. 2)
      <3> SUFFICES ASSUME NEW t \in T PROVE DOMAIN body[t] \subseteq 1 .. 2
        OBVIOUS
      <3>1. Len(body[t]) \in 1 .. 2 /\ DOMAIN body[t] = 1 .. Len(body[t])
        BY <1>2
      <3> QED BY <3>1
    <2> QED BY <2>1, <2>2, FS_Subset
  <1>4. \A t \in T : \A i \in DOMAIN body[t] : <<t, i>> \in refs
    OBVIOUS
  <1>5. \A r \in refs : /\ r = <<r[1], r[2]>> /\ r[1] \in T /\ r[1] \in Nat
                        /\ r[2] \in DOMAIN body[r[1]] /\ r[2] \in Nat /\ Sent(r) \in Nat
    BY <1>1, <1>2
  <1>6. below \in [refs -> SUBSET refs]
    OBVIOUS
  <1>7. ASSUME NEW r \in refs, NEW s \in refs, NEW u \in refs
        PROVE  /\ ~Before(r, r)
               /\ r # s => Before(r, s) \/ Before(s, r)
               /\ Before(r, s) /\ Before(s, u) => Before(r, u)
    <2>1. /\ r = <<r[1], r[2]>> /\ s = <<s[1], s[2]>>
          /\ r[1] \in Nat /\ r[2] \in Nat /\ s[1] \in Nat /\ s[2] \in Nat /\ u[1] \in Nat /\ u[2] \in Nat
          /\ Sent(r) \in Nat /\ Sent(s) \in Nat /\ Sent(u) \in Nat
      BY <1>5
    <2> HIDE DEF refs, Sent
    <2>2. r # s => r[1] # s[1] \/ r[2] # s[2]
      BY <2>1
    <2> QED BY <2>1, <2>2
  <1>8. \A r, s \in refs : r \in below[s] <=> Before(r, s)
    OBVIOUS
  <1> HIDE DEF refs, Before
  <1>9. /\ \A s \in refs : s \notin below[s]
        /\ \A r, s \in refs : r # s => r \in below[s] \/ s \in below[r]
        /\ \A r, s \in refs : r \in below[s] => below[r] \subseteq below[s]
    BY <1>7, <1>8
  <1>10. \A t \in T : ranked[t] = [i \in DOMAIN body[t] |-> Cardinality(below[<<t, i>>])]
    BY <1>4 DEF NormalizeHostPriorities, Before, refs
  <1>11. DOMAIN ranked = T /\ ranked = [t \in T |-> ranked[t]]
    BY DEF NormalizeHostPriorities
  <1> HIDE DEF below, ranked
  <1>12. /\ \A r \in refs : Cardinality(below[r]) \in Nat
         /\ \A r, s \in refs : Cardinality(below[r]) = Cardinality(below[s]) => r = s
    BY <1>3, <1>6, <1>9, PlacesDiffer
  <1>13. \A t \in T : ranked[t] \in Seq(Nat) /\ Len(ranked[t]) = Len(body[t])
    <2> SUFFICES ASSUME NEW t \in T PROVE ranked[t] \in Seq(Nat) /\ Len(ranked[t]) = Len(body[t])
      OBVIOUS
    <2>1. Len(body[t]) \in Nat /\ DOMAIN body[t] = 1 .. Len(body[t])
      BY <1>2
    <2>2. \A i \in 1 .. Len(body[t]) : Cardinality(below[<<t, i>>]) \in Nat
      BY <1>4, <1>12, <2>1
    <2>3. ranked[t] = [i \in 1 .. Len(body[t]) |-> Cardinality(below[<<t, i>>])]
      BY <1>10, <2>1
    <2> QED BY <2>1, <2>2, <2>3
  <1>14. Different(ranked)
    <2> SUFFICES ASSUME NEW t \in T, NEW u \in T, NEW i \in 1 .. Len(body[t]), NEW j \in 1 .. Len(body[u]),
                        ranked[t][i] = ranked[u][j]
                 PROVE  t = u /\ i = j
      BY <1>11, <1>13 DEF Different
    <2>1. <<t, i>> \in refs /\ <<u, j>> \in refs
      BY <1>2, <1>4
    <2>2. ranked[t][i] = Cardinality(below[<<t, i>>]) /\ ranked[u][j] = Cardinality(below[<<u, j>>])
      BY <1>2, <1>10
    <2>3. <<t, i>> = <<u, j>>
      BY <1>12, <2>1, <2>2
    <2> QED BY <2>3
  <1> QED BY <1>1, <1>11, <1>13, <1>14 DEF ranked

\* An order of a set of tags names each of them once.
NamesOnce(order, T) ==
  /\ order \in Seq(T) /\ DOMAIN order = 1 .. Len(order) /\ Len(order) \in Nat
  /\ \A i, j \in 1 .. Len(order) : order[i] = order[j] => i = j
  /\ \A t \in T : \E i \in 1 .. Len(order) : order[i] = t

LEMMA OrderFacts ==
  ASSUME NEW T \in SUBSET InTags, NEW order \in Orders[T]
  PROVE  NamesOnce(order, T)
  <1> DEFINE n == Cardinality(T)
  <1>1. IsFiniteSet(T) /\ n \in Nat
    BY CatalogAssumption, FS_Subset, FS_CardinalityType
  <1>2. order \in [1 .. n -> T] /\ \A i, j \in 1 .. n : i # j => order[i] # order[j]
    BY DEF Orders, SetToSeqs
  <1>3. IsFiniteSet(1 .. n) /\ Cardinality(1 .. n) = n
    <2>1. \A k \in Nat : IsFiniteSet(1 .. k) /\ Cardinality(1 .. k) = k
      BY FS_Interval
    <2> QED BY <1>1, <2>1
  <1>4. order \in Injection(1 .. n, T)
    BY <1>2 DEF Injection, IsInjective
  <1>5. order \in Surjection(1 .. n, T)
    BY <1>1, <1>3, <1>4, FS_Injection
  <1>6. \A t \in T : \E i \in 1 .. n : order[i] = t
    BY <1>5 DEF Surjection
  <1>7. order \in Seq(T) /\ Len(order) = n
    BY <1>1, <1>2
  <1> QED BY <1>1, <1>2, <1>6, <1>7 DEF NamesOnce

\* What replaces the hosts of a tag.
LEMMA ReplaceFacts ==
  ASSUME NEW t \in InTags, NEW r \in Seq(Nat)
  PROVE  /\ ReplaceHosts(t, r) \in Programs /\ Len(ReplaceHosts(t, r)) = Len(r) + 1
         /\ ReplaceHosts(t, r)[1] = [op |-> "clear", tag |-> t]
         /\ \A i \in 1 .. Len(r) : ReplaceHosts(t, r)[i + 1] = [op |-> "host", tag |-> t, rank |-> r[i]]
  <1> DEFINE n == Len(r)
             a == <<[op |-> "clear", tag |-> t]>>
             b == [i \in 1 .. n |-> [op |-> "host", tag |-> t, rank |-> r[i]]]
             s == ReplaceHosts(t, r)
  <1>1. n \in Nat /\ \A i \in 1 .. n : r[i] \in Nat
    OBVIOUS
  <1>2. [op |-> "clear", tag |-> t] \in Statements
        /\ \A k \in Nat : [op |-> "host", tag |-> t, rank |-> k] \in Statements
    BY DEF Statements, CallTags
  <1>3. a \in Seq(Statements) /\ Len(a) = 1 /\ a[1] = [op |-> "clear", tag |-> t]
    BY <1>2
  <1>4. b \in Seq(Statements) /\ Len(b) = n
    <2>1. b \in [1 .. n -> Statements]
      BY <1>1, <1>2
    <2> HIDE DEF b
    <2> QED BY <1>1, <2>1
  <1>5. s = a \o b
    BY DEF ReplaceHosts
  <1>6. \A i \in 1 .. n : b[i] = [op |-> "host", tag |-> t, rank |-> r[i]]
    OBVIOUS
  <1> HIDE DEF a, b, s
  <1>7. /\ s \in Seq(Statements) /\ Len(s) = n + 1
        /\ \A i \in 1 .. 1 + n : s[i] = IF i <= 1 THEN a[i] ELSE b[i - 1]
    <2>1. /\ s \in Seq(Statements) /\ Len(s) = Len(a) + Len(b)
          /\ \A i \in 1 .. Len(a) + Len(b) : s[i] = IF i <= Len(a) THEN a[i] ELSE b[i - Len(a)]
      <3>1. a \in Seq(Statements) /\ b \in Seq(Statements)
        BY <1>3, <1>4
      <3> QED BY <1>5, <3>1, ConcatProperties
    <2>2. Len(a) = 1 /\ Len(b) = n /\ 1 + n = n + 1
      BY <1>1, <1>3, <1>4
    <2> QED BY <2>1, <2>2
  <1>8. s[1] = [op |-> "clear", tag |-> t]
    BY <1>1, <1>3, <1>7
  <1>9. \A i \in 1 .. n : s[i + 1] = [op |-> "host", tag |-> t, rank |-> r[i]]
    <2> SUFFICES ASSUME NEW i \in 1 .. n PROVE s[i + 1] = [op |-> "host", tag |-> t, rank |-> r[i]]
      OBVIOUS
    <2>1. i + 1 \in 1 .. 1 + n /\ ~(i + 1 <= 1) /\ (i + 1) - 1 = i
      BY <1>1
    <2>2. s[i + 1] = b[i]
      BY <1>7, <2>1
    <2> QED BY <1>6, <2>2
  <1>10. \A i \in 1 .. n + 1 : /\ s[i].op \in {"clear", "host"} /\ Statement(s[i])
                               /\ i > 1 => s[i].op = "host"
    <2> SUFFICES ASSUME NEW i \in 1 .. n + 1
                 PROVE  /\ s[i].op \in {"clear", "host"} /\ Statement(s[i])
                        /\ i > 1 => s[i].op = "host"
      OBVIOUS
    <2>1. CASE i = 1
      BY <1>8, <2>1 DEF Statement
    <2>2. CASE i > 1
      <3>1. i - 1 \in 1 .. n /\ (i - 1) + 1 = i
        BY <1>1, <2>2
      <3>2. s[i] = [op |-> "host", tag |-> t, rank |-> r[i - 1]] /\ r[i - 1] \in Nat
        BY <1>1, <1>9, <3>1
      <3> QED BY <3>2 DEF Statement
    <2> QED BY <1>1, <2>1, <2>2
  <1>11. Runnable(s)
    <2>1. ASSUME NEW i \in 1 .. n + 1, i < n + 1 PROVE MayFollow(s[i], s[i + 1])
      <3>1. i + 1 \in 1 .. n + 1
        BY <1>1, <2>1
      <3> QED BY <1>10, <3>1 DEF MayFollow
    <2>2. \A i \in 1 .. n + 1 : i + 1 < n + 1 => i + 2 \in 1 .. n + 1
      BY <1>1
    <2>3. \A i \in 1 .. n + 1 : s[i].op \notin {"upsert", "drop", "above"}
      BY <1>10
    <2> QED BY <1>7, <1>10, <2>1, <2>2, <2>3 DEF Runnable
  <1>12. Begins(s)
    <2>1. 1 < n + 1 => s[2].op = "host"
      <3> SUFFICES ASSUME 1 < n + 1 PROVE s[2].op = "host"
        OBVIOUS
      <3>1. 2 \in 1 .. n + 1 /\ 2 > 1
        BY <1>1
      <3> QED BY <1>10, <3>1
    <2> QED BY <1>7, <1>8, <2>1 DEF Begins
  <1> QED BY <1>1, <1>7, <1>8, <1>9, <1>11, <1>12 DEF Programs, s

\* One more tag.
LEMMA WritesOneMore ==
  ASSUME NEW s \in Programs, NEW T \in SUBSET InTags, NEW ranks \in [T -> Seq(Nat)], NEW start, Writes(s, ranks, start),
         NEW t \in InTags \ T, NEW r \in Seq(Nat), NEW more \in [T \cup {t} -> Seq(Nat)],
         more[t] = r, \A u \in T : more[u] = ranks[u]
  PROVE  \E next : Writes(s \o ReplaceHosts(t, r), more, next)
  <1> DEFINE m == Len(s)
             b == ReplaceHosts(t, r)
             f == s \o b
             next == [u \in T \cup {t} |-> IF u = t THEN m + 1 ELSE start[u]]
  <1>1. s \in Seq(Statements) /\ m \in Nat /\ Len(r) \in Nat
    BY DEF Programs
  <1>2. /\ b \in Seq(Statements) /\ Len(b) = Len(r) + 1 /\ b[1] = [op |-> "clear", tag |-> t]
        /\ \A i \in 1 .. Len(r) : b[i + 1] = [op |-> "host", tag |-> t, rank |-> r[i]]
    BY ReplaceFacts DEF Programs
  <1> HIDE DEF b
  <1>3. /\ f \in Seq(Statements) /\ Len(f) = m + Len(r) + 1
        /\ \A i \in 1 .. m + Len(b) : f[i] = IF i <= m THEN s[i] ELSE b[i - m]
    <2>1. /\ f \in Seq(Statements) /\ Len(f) = m + Len(b)
          /\ \A i \in 1 .. m + Len(b) : f[i] = IF i <= m THEN s[i] ELSE b[i - m]
      <3>1. b \in Seq(Statements)
        BY <1>2
      <3> QED BY <1>1, <3>1, ConcatProperties DEF f
    <2>2. m + Len(b) = m + Len(r) + 1
      BY <1>1, <1>2
    <2> QED BY <2>1, <2>2
  <1> HIDE DEF f
  <1>4. \A i \in 1 .. m : f[i] = s[i]
    BY <1>1, <1>2, <1>3
  <1>5. \A i \in 0 .. Len(r) : f[m + 1 + i] = b[i + 1]
    <2> SUFFICES ASSUME NEW i \in 0 .. Len(r) PROVE f[m + 1 + i] = b[i + 1]
      OBVIOUS
    <2>1. m + 1 + i \in 1 .. m + Len(b) /\ ~(m + 1 + i <= m) /\ (m + 1 + i) - m = i + 1
      BY <1>1, <1>2
    <2> QED BY <1>3, <2>1
  <1>6. DOMAIN ranks = T /\ DOMAIN more = T \cup {t} /\ more[t] = r /\ \A u \in T : more[u] = ranks[u]
    OBVIOUS
  <1>7. /\ start \in [T -> Nat \ {0}]
        /\ \A u \in T :
            /\ start[u] \in Nat \ {0} /\ Len(ranks[u]) \in Nat /\ start[u] + Len(ranks[u]) <= m
            /\ Replaces(s, u, ranks[u], start[u])
        /\ \A n \in 1 .. m : \E u \in T : n - start[u] \in 0 .. Len(ranks[u])
    BY <1>6 DEF Writes
  <1>8. next \in [T \cup {t} -> Nat \ {0}] /\ next[t] = m + 1 /\ \A u \in T : next[u] = start[u]
    BY <1>1, <1>7
  <1> HIDE DEF next
  <1>9. ASSUME NEW u \in T \cup {t}
        PROVE  more[u] \in Seq(Nat) /\ next[u] + Len(more[u]) <= Len(f) /\ Replaces(f, u, more[u], next[u])
    <2>1. CASE u = t
      <3>1. 0 \in 0 .. Len(r) /\ m + 1 + 0 = m + 1 /\ 0 + 1 = 1
        BY <1>1
      <3>2. f[m + 1] = [op |-> "clear", tag |-> t]
        BY <1>2, <1>5, <3>1
      <3>3. ASSUME NEW i \in 1 .. Len(r)
            PROVE  f[m + 1 + i].op = "host" /\ f[m + 1 + i].tag = t /\ f[m + 1 + i].rank = r[i]
        <4>1. i \in 0 .. Len(r)
          OBVIOUS
        <4>2. f[m + 1 + i] = b[i + 1] /\ b[i + 1] = [op |-> "host", tag |-> t, rank |-> r[i]]
          BY <1>2, <1>5, <4>1
        <4> QED BY <4>2
      <3>4. Replaces(f, t, r, m + 1)
        BY <3>2, <3>3 DEF Replaces
      <3>5. next[u] = m + 1 /\ more[u] = r
        BY <1>6, <1>8, <2>1
      <3>6. m + 1 + Len(r) <= Len(f)
        BY <1>1, <1>3
      <3> QED BY <1>1, <2>1, <3>4, <3>5, <3>6
    <2>2. CASE u \in T
      <3>1. start[u] \in 1 .. m /\ \A i \in 1 .. Len(ranks[u]) : start[u] + i \in 1 .. m
        <4> DEFINE first == start[u]
                   size == Len(ranks[u])
        <4>1. first \in Nat \ {0} /\ size \in Nat /\ first + size <= m
          BY <1>7, <2>2
        <4> HIDE DEF first, size
        <4>2. first \in 1 .. m /\ \A i \in 1 .. size : first + i \in 1 .. m
          BY <1>1, <4>1
        <4> QED BY <4>2 DEF first, size
      <3>2. f[start[u]] = s[start[u]] /\ \A i \in 1 .. Len(ranks[u]) : f[start[u] + i] = s[start[u] + i]
        BY <1>4, <3>1
      <3>3. start[u] + Len(ranks[u]) <= Len(f)
        BY <1>1, <1>3, <1>7, <2>2
      <3>4. next[u] = start[u] /\ more[u] = ranks[u] /\ ranks[u] \in Seq(Nat)
        BY <1>6, <1>8, <2>2
      <3>5. Replaces(s, u, ranks[u], start[u])
        BY <1>7, <2>2
      <3>6. Replaces(f, u, ranks[u], start[u])
        BY <3>2, <3>5 DEF Replaces
      <3> QED BY <3>3, <3>4, <3>6
    <2> QED BY <2>1, <2>2
  <1>10. ASSUME NEW n \in 1 .. m + Len(r) + 1
         PROVE  \E u \in T \cup {t} : n - next[u] \in 0 .. Len(more[u])
    <2>1. CASE n <= m
      <3>1. n \in 1 .. m
        BY <1>1, <2>1
      <3>2. PICK u \in T : n - start[u] \in 0 .. Len(ranks[u])
        BY <1>7, <3>1
      <3> QED BY <1>6, <1>8, <3>2
    <2>2. CASE ~(n <= m)
      <3>1. n - (m + 1) \in 0 .. Len(r)
        BY <1>1, <2>2
      <3> QED BY <1>6, <1>8, <3>1
    <2> QED BY <2>1, <2>2
  <1>11. Writes(f, more, next)
    <2>1. \A n \in 1 .. Len(f) : \E u \in T \cup {t} : n - next[u] \in 0 .. Len(more[u])
      BY <1>3, <1>10
    <2> QED BY <1>6, <1>8, <1>9, <2>1 DEF Writes
  <1> QED BY <1>11 DEF f, b

\* The program of a PUT writes what it is given.
LEMMA PutFacts ==
  ASSUME NEW T \in SUBSET InTags, NEW order \in Orders[T], NEW ranks \in [T -> Seq(Nat)],
         NEW f, f = FlattenSeq([i \in DOMAIN order |-> ReplaceHosts(order[i], ranks[order[i]])])
  PROVE  f \in Programs /\ \E start : Writes(f, ranks, start)
  <1> DEFINE n == Len(order)
             ss == [i \in 1 .. n |-> ReplaceHosts(order[i], ranks[order[i]])]
             Tags(m) == {order[i] : i \in 1 .. m}
             Of(m) == [t \in Tags(m) |-> ranks[t]]
             G == {g \in Nat \X Programs : \E start : Writes(g[2], Of(g[1]), start)}
  <1>1. /\ order \in Seq(T) /\ DOMAIN order = 1 .. n /\ n \in Nat
        /\ \A i, j \in 1 .. n : order[i] = order[j] => i = j
        /\ \A t \in T : \E i \in 1 .. n : order[i] = t
        /\ \A i \in 1 .. n : order[i] \in T /\ order[i] \in InTags
    <2>1. /\ order \in Seq(T) /\ DOMAIN order = 1 .. Len(order) /\ Len(order) \in Nat
          /\ \A i, j \in 1 .. Len(order) : order[i] = order[j] => i = j
          /\ \A t \in T : \E i \in 1 .. Len(order) : order[i] = t
      <3>1. NamesOnce(order, T)
        BY OrderFacts, Zenon
      <3> QED BY <3>1 DEF NamesOnce
    <2>2. \A i \in 1 .. n : order[i] \in T
      BY <2>1, ElementOfSeq
    <2> QED BY <2>1, <2>2
  <1>2. \A i \in 1 .. n : ss[i] = ReplaceHosts(order[i], ranks[order[i]]) /\ ss[i] \in Programs
    BY <1>1, ReplaceFacts
  <1>3. ss \in Seq(Programs) /\ Len(ss) = n
    BY <1>1, <1>2
  <1>4. f = FlattenSeq(ss)
    <2>1. [i \in DOMAIN order |-> ReplaceHosts(order[i], ranks[order[i]])] = ss
      BY <1>1
    <2> HIDE DEF ss
    <2> QED BY <2>1
  <1>5. Tags(n) = T /\ Of(n) = ranks
    BY <1>1
  <1>6. \A m \in 0 .. n : Tags(m) \in SUBSET InTags /\ Tags(m) \in SUBSET T /\ Of(m) \in [Tags(m) -> Seq(Nat)]
    BY <1>1
  <1>7. <<>> \in Programs
    BY EmptySeq DEF Programs, Runnable, Begins
  <1>8. Writes(<<>>, Of(0), Of(0))
    <2>1. Tags(0) = {}
      OBVIOUS
    <2>2. DOMAIN Of(0) = {} /\ Of(0) \in [{} -> Nat \ {0}]
      BY <2>1
    <2>3. Len(<<>>) = 0
      BY EmptySeq
    <2> HIDE DEF Of
    <2> QED BY <2>2, <2>3 DEF Writes
  <1> HIDE DEF ss
  <1>9. ASSUME NEW m \in Nat, m < n, NEW s \in Programs, NEW start, Writes(s, Of(m), start)
        PROVE  s \o ss[m + 1] \in Programs /\ \E next : Writes(s \o ss[m + 1], Of(m + 1), next)
    <2>1. m + 1 \in 1 .. n /\ m \in 0 .. n
      BY <1>1, <1>9
    <2>2. /\ order[m + 1] \in InTags \ Tags(m) /\ Tags(m + 1) = Tags(m) \cup {order[m + 1]}
          /\ ranks[order[m + 1]] \in Seq(Nat)
      <3>1. \A i \in 1 .. m : i \in 1 .. n /\ i # m + 1
        BY <2>1
      <3>2. \A i : i \in 1 .. m + 1 <=> i \in 1 .. m \/ i = m + 1
        BY <1>9
      <3> QED BY <1>1, <2>1, <3>1, <3>2
    <2>3. /\ Of(m + 1) \in [Tags(m) \cup {order[m + 1]} -> Seq(Nat)]
          /\ Of(m + 1)[order[m + 1]] = ranks[order[m + 1]] /\ \A u \in Tags(m) : Of(m + 1)[u] = Of(m)[u]
      <3>1. Of(m + 1) \in [Tags(m + 1) -> Seq(Nat)]
        BY <1>6, <2>1
      <3>2. \A u \in Tags(m + 1) : Of(m + 1)[u] = ranks[u]
        OBVIOUS
      <3>3. \A u \in Tags(m) : Of(m)[u] = ranks[u]
        OBVIOUS
      <3> HIDE DEF Of, Tags
      <3> QED BY <2>2, <3>1, <3>2, <3>3
    <2>4. Tags(m) \in SUBSET InTags /\ Of(m) \in [Tags(m) -> Seq(Nat)]
      BY <1>6, <2>1
    <2>5. ss[m + 1] = ReplaceHosts(order[m + 1], ranks[order[m + 1]]) /\ ss[m + 1] \in Programs
      BY <1>2, <2>1 DEF ss
    <2> HIDE DEF Of, Tags
    <2>6. \E next : Writes(s \o ReplaceHosts(order[m + 1], ranks[order[m + 1]]), Of(m + 1), next)
      BY <1>9, <2>2, <2>3, <2>4, WritesOneMore
    <2>7. s \o ss[m + 1] \in Programs
      BY <1>9, <2>5, JoinFacts
    <2> QED BY <2>5, <2>6, <2>7
  <1>10. CASE n = 0
    <2>1. ss = <<>> /\ FlattenSeq(ss) = ss
      BY <1>3, <1>10, EmptySeq DEF FlattenSeq
    <2> QED BY <1>4, <1>5, <1>7, <1>8, <1>10, <2>1
  <1>11. CASE n > 0
    <2> HIDE DEF Of
    <2>1. ss # <<>>
      BY <1>3, <1>11, EmptySeq
    <2>2. <<1, ss[1]>> \in G
      <3>1. <<>> \o ss[1] \in Programs /\ \E next : Writes(<<>> \o ss[1], Of(0 + 1), next)
        <4>1. 0 \in Nat /\ 0 + 1 = 1
          OBVIOUS
        <4> QED BY <1>7, <1>8, <1>9, <1>11, <4>1
      <3>2. <<>> \o ss[1] = ss[1]
        <4>1. 1 \in 1 .. n
          BY <1>1, <1>11
        <4>2. ss[1] \in Seq(Statements)
          BY <1>3, <4>1, ElementOfSeq DEF Programs
        <4> QED BY <4>2, ConcatEmptySeq
      <3> QED BY <3>1, <3>2
    <2>3. ASSUME NEW m \in 1 .. Len(ss) - 1, NEW s, <<m, s>> \in G
          PROVE  <<m + 1, s \o ss[m + 1]>> \in G
      <3>1. m \in Nat /\ m < n /\ m + 1 \in Nat /\ s \in Programs
        BY <1>1, <1>3, <2>3
      <3>2. PICK start : Writes(s, Of(m), start)
        BY <2>3
      <3>3. s \o ss[m + 1] \in Programs /\ \E next : Writes(s \o ss[m + 1], Of(m + 1), next)
        BY <1>9, <3>1, <3>2
      <3> QED BY <3>1, <3>3
    <2> HIDE DEF G
    <2>4. <<n, FlattenSeq(ss)>> \in G
      BY <1>3, <2>1, <2>2, <2>3, FlattenFacts
    <2>5. FlattenSeq(ss) \in Programs /\ \E start : Writes(FlattenSeq(ss), Of(n), start)
      BY <2>4 DEF G
    <2>6. PICK start : Writes(FlattenSeq(ss), Of(n), start)
      BY <2>5
    <2>7. Writes(f, ranks, start)
      BY <1>4, <1>5, <2>6
    <2> QED BY <1>4, <2>5, <2>7
  <1>12. n = 0 \/ n > 0
    BY <1>1
  <1> QED BY <1>10, <1>11, <1>12, Zenon

\* Every host of h has a priority of its own.
AllDiffer(h) ==
  \A t, u \in InTags : \A i \in DOMAIN h[t], j \in DOMAIN h[u] : h[t][i] = h[u][j] => t = u /\ i = j

HostTables == [InTags -> Seq(Nat)]

\* A PUT that is through has given every host a priority of its own.
LEMMA PutIsDone ==
  ASSUME NEW h \in HostTables, Puts(<<>>, h)
  PROVE  AllDiffer(h)
  <1>1. PICK f \in Seq(Statements), T \in SUBSET InTags :
          \E k \in 1 .. Len(f) + 1, ranks \in [T -> Seq(Nat)], start \in [T -> Nat] :
            /\ <<>> = SubSeq(f, k, Len(f))
            /\ Different(ranks) /\ Writes(f, ranks, start) /\ Written(h, k, ranks, start)
    BY DEF Puts
  <1>2. PICK k \in 1 .. Len(f) + 1, ranks \in [T -> Seq(Nat)], start \in [T -> Nat] :
            /\ <<>> = SubSeq(f, k, Len(f))
            /\ Different(ranks) /\ Writes(f, ranks, start) /\ Written(h, k, ranks, start)
    BY <1>1
  <1>3. Len(f) \in Nat /\ \A i \in 1 .. Len(f) : f[i] \in Statements
    BY ElementOfSeq
  <1>4. k = Len(f) + 1
    <2> SUFFICES ASSUME k # Len(f) + 1 PROVE FALSE
      OBVIOUS
    <2>1. k \in Nat /\ k <= Len(f) /\ k \in Int /\ Len(f) \in Int /\ \A i \in k .. Len(f) : i \in 1 .. Len(f)
      BY <1>3
    <2>2. \A i \in k .. Len(f) : f[i] \in Statements
      BY <1>3, <2>1
    <2>3. Len(SubSeq(f, k, Len(f))) = Len(f) - k + 1
      BY <2>1, <2>2, SubSeqProperties
    <2>4. Len(f) - k + 1 = 0
      BY <1>2, <2>3, EmptySeq
    <2> QED BY <2>1, <2>4
  <1>5. ASSUME NEW t \in InTags, NEW i \in DOMAIN h[t]
        PROVE  t \in T /\ i \in 1 .. Len(ranks[t]) /\ h[t][i] = ranks[t][i]
    <2>1. h[t] \in Seq(Nat) /\ DOMAIN h[t] = 1 .. Len(h[t]) /\ Len(h[t]) \in Nat
      BY DEF HostTables
    <2>2. h[t] # <<>>
      BY <2>1
    <2>3. t \in T
      BY <1>2, <2>2 DEF Written
    <2>4. start[t] + Len(ranks[t]) <= Len(f) /\ start[t] \in Nat /\ ranks[t] \in Seq(Nat)
      BY <1>2, <2>3 DEF Writes
    <2>5. start[t] < k /\ Len(ranks[t]) \in Nat
      BY <1>3, <1>4, <2>4
    <2>6. Len(h[t]) <= Len(ranks[t]) /\ \A n \in 1 .. Len(h[t]) : h[t][n] = ranks[t][n]
      BY <1>2, <2>3, <2>5 DEF Written
    <2>7. i \in 1 .. Len(h[t]) /\ i \in 1 .. Len(ranks[t])
      BY <2>1, <2>5, <2>6
    <2> QED BY <2>3, <2>6, <2>7, Zenon
  <1>6. \A t, u \in T : \A i \in 1 .. Len(ranks[t]), j \in 1 .. Len(ranks[u]) :
          ranks[t][i] = ranks[u][j] => t = u /\ i = j
    BY <1>2 DEF Different
  <1> SUFFICES ASSUME NEW t \in InTags, NEW u \in InTags, NEW i \in DOMAIN h[t], NEW j \in DOMAIN h[u], h[t][i] = h[u][j]
               PROVE  t = u /\ i = j
    BY DEF AllDiffer
  <1>7. t \in T /\ i \in 1 .. Len(ranks[t]) /\ h[t][i] = ranks[t][i]
    BY <1>5
  <1>8. u \in T /\ j \in 1 .. Len(ranks[u]) /\ h[u][j] = ranks[u][j]
    BY <1>5
  <1>9. ranks[t][i] = ranks[u][j]
    BY <1>7, <1>8
  <1>10. t \in T /\ u \in T
    BY <1>7, <1>8
  <1>11. i \in 1 .. Len(ranks[t]) /\ j \in 1 .. Len(ranks[u])
    BY <1>7, <1>8
  <1> QED BY <1>6, <1>9, <1>10, <1>11, Zenon

\* A statement of a PUT clears a tag's hosts or adds the next one.
LEMMA PutStep ==
  ASSUME NEW h \in HostTables, NEW s \in Seq(Statements), s # <<>>, Puts(s, h)
  PROVE  /\ Head(s).op \in {"clear", "host"} /\ Head(s).tag \in InTags
         /\ Head(s).op = "clear" => Puts(Tail(s), [h EXCEPT ![Head(s).tag] = <<>>])
         /\ Head(s).op = "host" => Puts(Tail(s), [h EXCEPT ![Head(s).tag] = Append(@, Head(s).rank)])
  <1>1. PICK f \in Seq(Statements), T \in SUBSET InTags :
          \E k \in 1 .. Len(f) + 1, ranks \in [T -> Seq(Nat)], start \in [T -> Nat] :
            /\ s = SubSeq(f, k, Len(f))
            /\ Different(ranks) /\ Writes(f, ranks, start) /\ Written(h, k, ranks, start)
    BY DEF Puts
  <1>2. PICK k \in 1 .. Len(f) + 1, ranks \in [T -> Seq(Nat)], start \in [T -> Nat] :
            /\ s = SubSeq(f, k, Len(f))
            /\ Different(ranks) /\ Writes(f, ranks, start) /\ Written(h, k, ranks, start)
    BY <1>1
  <1>3. Len(f) \in Nat /\ k \in Nat /\ k >= 1
    OBVIOUS
  <1>4. k \in 1 .. Len(f)
    <2> SUFFICES ASSUME k = Len(f) + 1 PROVE FALSE
      BY <1>3
    <2>1. Len(f) < k /\ k \in Int /\ Len(f) \in Int
      BY <1>3
    <2>2. SubSeq(f, k, Len(f)) = <<>>
      BY <2>1, SubSeqEmpty
    <2> QED BY <1>2, <2>2
  <1>5. Head(s) = f[k] /\ Tail(s) = SubSeq(f, k + 1, Len(f))
    <2>1. Len(f) \in k .. Len(f)
      BY <1>3, <1>4
    <2> QED BY <1>2, <1>4, <2>1, HeadTailOfSubSeq
  <1>6. PICK t \in T : k - start[t] \in 0 .. Len(ranks[t])
    BY <1>2, <1>4 DEF Writes
  <1> DEFINE i == k - start[t]
  <1>7. ASSUME NEW u \in T
        PROVE  /\ start[u] \in Nat /\ Len(ranks[u]) \in Nat /\ h[u] \in Seq(Nat) /\ Len(h[u]) \in Nat
               /\ Replaces(f, u, ranks[u], start[u])
               /\ start[u] < k =>
                    /\ Len(h[u]) <= Len(ranks[u]) /\ \A n \in 1 .. Len(h[u]) : h[u][n] = ranks[u][n]
                    /\ k - 1 <= start[u] + Len(ranks[u]) => Len(h[u]) = k - 1 - start[u]
    <2>1. h[u] \in Seq(Nat) /\ ranks[u] \in Seq(Nat) /\ start[u] \in Nat
      BY DEF HostTables
    <2>2. Replaces(f, u, ranks[u], start[u])
      BY <1>2 DEF Writes
    <2>3. start[u] < k =>
            /\ Len(h[u]) <= Len(ranks[u]) /\ \A n \in 1 .. Len(h[u]) : h[u][n] = ranks[u][n]
            /\ k - 1 <= start[u] + Len(ranks[u]) => Len(h[u]) = k - 1 - start[u]
      BY <1>2 DEF Written
    <2> QED BY <2>1, <2>2, <2>3
  <1>8. /\ f[k].tag = t
        /\ i = 0 => f[k].op = "clear"
        /\ i # 0 => f[k].op = "host" /\ f[k].rank = ranks[t][i]
    <2>1. start[t] \in Nat /\ Len(ranks[t]) \in Nat /\ Replaces(f, t, ranks[t], start[t])
      BY <1>7
    <2>2. CASE i = 0
      <3>1. start[t] = k
        BY <1>3, <2>1, <2>2
      <3> QED BY <2>1, <2>2, <3>1 DEF Replaces
    <2>3. CASE i # 0
      <3>1. i \in 1 .. Len(ranks[t]) /\ start[t] + i = k
        BY <1>3, <1>6, <2>1, <2>3
      <3> HIDE DEF i
      <3> QED BY <2>1, <2>3, <3>1 DEF Replaces
    <2> QED BY <2>2, <2>3
  <1>9. \A u \in T : u # t => ~(k - start[u] \in 0 .. Len(ranks[u]))
    <2> SUFFICES ASSUME NEW u \in T, u # t, k - start[u] \in 0 .. Len(ranks[u]) PROVE FALSE
      OBVIOUS
    <2> DEFINE j == k - start[u]
    <2>1. start[u] \in Nat /\ Len(ranks[u]) \in Nat /\ Replaces(f, u, ranks[u], start[u])
      BY <1>7
    <2>2. j = 0 \/ j \in 1 .. Len(ranks[u])
      BY <2>1
    <2>3. start[u] + j = k /\ (j = 0 => start[u] = k)
      BY <1>3, <2>1
    <2> HIDE DEF j
    <2>4. f[k].tag = u
      BY <2>1, <2>2, <2>3 DEF Replaces
    <2> QED BY <1>8, <2>4
  <1>10. ASSUME NEW g \in HostTables, \A u \in InTags \ {t} : g[u] = h[u],
                Len(g[t]) <= Len(ranks[t]), \A n \in 1 .. Len(g[t]) : g[t][n] = ranks[t][n], Len(g[t]) = i
         PROVE  Puts(Tail(s), g)
    <2>1. ASSUME NEW u \in T, start[u] < k + 1
          PROVE  /\ Len(g[u]) <= Len(ranks[u]) /\ \A n \in 1 .. Len(g[u]) : g[u][n] = ranks[u][n]
                 /\ (k + 1) - 1 <= start[u] + Len(ranks[u]) => Len(g[u]) = (k + 1) - 1 - start[u]
      <3>1. CASE u = t
        <4>1. (k + 1) - 1 - start[t] = i
          BY <1>3, <1>7
        <4> HIDE DEF i
        <4> QED BY <1>10, <3>1, <4>1
      <3>2. CASE u # t
        <4>1. start[u] \in Nat /\ Len(ranks[u]) \in Nat /\ ~(k - start[u] \in 0 .. Len(ranks[u]))
          BY <1>7, <1>9, <3>2
        <4>2. start[u] < k /\ ~(k <= start[u] + Len(ranks[u]))
          BY <1>3, <2>1, <4>1
        <4>3. (k + 1) - 1 = k
          BY <1>3
        <4>4. g[u] = h[u]
          BY <1>10, <3>2
        <4>5. Len(h[u]) <= Len(ranks[u]) /\ \A n \in 1 .. Len(h[u]) : h[u][n] = ranks[u][n]
          BY <1>7, <4>2
        <4> QED BY <4>2, <4>3, <4>4, <4>5
      <3> QED BY <3>1, <3>2
    <2>2. \A u \in InTags \ T : g[u] = <<>>
      BY <1>2, <1>10 DEF Written
    <2>3. DOMAIN ranks = T
      OBVIOUS
    <2>4. Written(g, k + 1, ranks, start)
      BY <2>1, <2>2, <2>3 DEF Written
    <2>5. k + 1 \in 1 .. Len(f) + 1
      BY <1>3, <1>4
    <2> HIDE DEF i
    <2> QED BY <1>2, <1>5, <2>4, <2>5 DEF Puts
  <1>11. CASE i = 0
    <2> DEFINE g == [h EXCEPT ![t] = <<>>]
    <2>1. g \in HostTables /\ g[t] = <<>> /\ \A u \in InTags \ {t} : g[u] = h[u]
      BY EmptySeq DEF HostTables
    <2>2. Len(<<>>) = 0
      BY EmptySeq
    <2>3. Len(ranks[t]) \in Nat
      BY <1>7
    <2> HIDE DEF g
    <2>4. Len(g[t]) <= Len(ranks[t]) /\ (\A n \in 1 .. Len(g[t]) : g[t][n] = ranks[t][n]) /\ Len(g[t]) = 0
      BY <2>1, <2>2, <2>3
    <2>5. Puts(Tail(s), g)
      BY <1>10, <1>11, <2>1, <2>4
    <2>6. f[k].op = "clear" /\ f[k].tag = t
      BY <1>8, <1>11
    <2> QED BY <1>5, <2>5, <2>6 DEF g
  <1>12. CASE i # 0
    <2> DEFINE g == [h EXCEPT ![t] = Append(@, ranks[t][i])]
    <2>1. start[t] < k /\ k - 1 <= start[t] + Len(ranks[t]) /\ Len(ranks[t]) \in Nat /\ i \in 1 .. Len(ranks[t]) /\ k - 1 - start[t] = i - 1
      BY <1>3, <1>6, <1>7, <1>12
    <2>2. h[t] \in Seq(Nat) /\ Len(h[t]) = k - 1 - start[t] /\ \A n \in 1 .. Len(h[t]) : h[t][n] = ranks[t][n]
      BY <1>7, <2>1
    <2>3. ranks[t] \in Seq(Nat) /\ ranks[t][i] \in Nat
      <3>1. ranks[t] \in Seq(Nat)
        OBVIOUS
      <3> QED BY <2>1, <3>1, ElementOfSeq
    <2>4. g[t] = Append(h[t], ranks[t][i]) /\ \A u \in InTags \ {t} : g[u] = h[u]
      BY DEF HostTables
    <2>5. g \in HostTables
      <3>1. Append(h[t], ranks[t][i]) \in Seq(Nat)
        BY <2>2, <2>3
      <3> QED BY <3>1 DEF HostTables
    <2> HIDE DEF g
    <2>6. Len(g[t]) = i /\ \A n \in 1 .. Len(g[t]) : g[t][n] = ranks[t][n]
      <3> DEFINE a == h[t]
                 x == ranks[t][i]
      <3>1. a \in Seq(Nat) /\ Len(a) = i - 1 /\ x \in Nat /\ i \in Nat
        BY <2>1, <2>2, <2>3
      <3> HIDE DEF a, x, i
      <3>2. Len(Append(a, x)) = i /\ Append(a, x)[i] = x /\ \A n \in 1 .. Len(a) : Append(a, x)[n] = a[n]
        BY <3>1
      <3>3. g[t] = Append(a, x)
        BY <2>4 DEF a, x
      <3>4. \A n \in 1 .. i : n \in 1 .. Len(a) \/ n = i
        BY <3>1
      <3>5. \A n \in 1 .. Len(a) : a[n] = ranks[t][n]
        BY <2>2 DEF a
      <3>6. x = ranks[t][i]
        BY DEF x
      <3> QED BY <3>2, <3>3, <3>4, <3>5, <3>6
    <2>7. Len(g[t]) <= Len(ranks[t])
      BY <2>1, <2>6
    <2>8. Puts(Tail(s), g)
      BY <1>10, <2>4, <2>5, <2>6, <2>7
    <2>9. f[k].op = "host" /\ f[k].tag = t /\ f[k].rank = ranks[t][i]
      BY <1>8, <1>12
    <2> QED BY <1>5, <2>8, <2>9 DEF g
  <1> QED BY <1>11, <1>12

-----------------------------------------------------------------------------
\* What every statement of a call keeps.

\* A statement runs: what remains is still a program, and other calls rest when
\* none overlaps and are about other tags when none clashes.
LEMMA ProceedFacts ==
  ASSUME CatTypes, Apart, NEW c \in Clerks, todo[c] # <<>>, Proceed(c), UNCHANGED <<overlapped, clashed>>
  PROVE  /\ todo' \in [Clerks -> Seq(Statements)] /\ \A d \in Clerks : Runnable(todo[d])'
         /\ Apart'
         /\ todo'[c] = Tail(todo[c]) /\ \A d \in Clerks : d # c => todo'[d] = todo[d]
         /\ Statement(This(c)) /\ This(c) \in Statements
         /\ todo'[c] # <<>> => MayFollow(This(c), Head(todo'[c]))
         /\ This(c).op \in {"upsert", "drop"} => todo'[c] # <<>>
         /\ WillUseTop(todo'[c]) => This(c).op = "top" \/ (This(c).op = "clear" /\ WillUseTop(todo[c]))
         /\ NoHostWrites => NoHostWrites' /\ This(c).op # "host"
  <1> DEFINE s == todo[c]
             n == Len(todo[c])
             r == Tail(todo[c])
  <1>1. /\ todo \in [Clerks -> Seq(Statements)] /\ s \in Seq(Statements) /\ n \in Nat \ {0}
        /\ \A d \in Clerks : Runnable(todo[d])
    <2>1. todo \in [Clerks -> Seq(Statements)] /\ \A d \in Clerks : Runnable(todo[d])
      BY DEF CatTypes
    <2>2. s \in Seq(Statements)
      BY <2>1
    <2> QED BY <2>1, <2>2, EmptySeq
  <1>2. /\ r \in Seq(Statements) /\ Len(r) = n - 1 /\ \A i \in 1 .. n - 1 : r[i] = s[i + 1]
        /\ Head(s) = s[1] /\ Head(s) \in Statements
    BY <1>1, HeadTailProperties
  <1>3. todo'[c] = r /\ (\A d \in Clerks : d # c => todo'[d] = todo[d]) /\ todo' \in [Clerks -> Seq(Statements)]
    BY <1>1, <1>2 DEF Proceed
  <1>4. \A i \in 1 .. n :
          /\ Statement(s[i])
          /\ i < n => MayFollow(s[i], s[i + 1])
          /\ s[i].op \in {"upsert", "drop"} => i < n
          /\ i + 1 < n /\ s[i + 2].op = "above" => s[i].op = "top"
    BY <1>1 DEF Runnable
  <1> HIDE DEF s, r
  <1>5. Runnable(r)
    <2> SUFFICES ASSUME NEW i \in 1 .. n - 1
                 PROVE  /\ Statement(r[i])
                        /\ i < n - 1 => MayFollow(r[i], r[i + 1])
                        /\ r[i].op \in {"upsert", "drop"} => i < n - 1
                        /\ i + 1 < n - 1 /\ r[i + 2].op = "above" => r[i].op = "top"
      BY <1>2 DEF Runnable
    <2> DEFINE j == i + 1
    <2>1. /\ j \in 1 .. n /\ r[i] = s[j]
          /\ i < n - 1 => r[i + 1] = s[j + 1] /\ j < n
          /\ i + 1 < n - 1 => r[i + 2] = s[j + 2] /\ j + 1 < n
      <3>1. j \in 1 .. n /\ (i < n - 1 => i + 1 \in 1 .. n - 1 /\ j < n)
            /\ (i + 1 < n - 1 => i + 2 \in 1 .. n - 1 /\ j + 1 < n /\ (i + 2) + 1 = j + 2)
        BY <1>1
      <3> QED BY <1>2, <3>1
    <2>2. j < n => i < n - 1
      BY <1>1
    <2>3. /\ Statement(s[j])
          /\ j < n => MayFollow(s[j], s[j + 1])
          /\ s[j].op \in {"upsert", "drop"} => j < n
          /\ j + 1 < n /\ s[j + 2].op = "above" => s[j].op = "top"
      BY <1>4, <2>1
    <2> HIDE DEF j, n
    <2> QED BY <2>1, <2>2, <2>3
  <1>6. \A d \in Clerks : Runnable(todo'[d])
    <2> SUFFICES ASSUME NEW d \in Clerks PROVE Runnable(todo'[d])
      OBVIOUS
    <2>1. CASE d = c
      BY <1>3, <1>5, <2>1
    <2>2. CASE d # c
      BY <1>1, <1>3, <2>2
    <2> QED BY <2>1, <2>2
  <1>7. \A d \in Clerks : Runnable(todo[d])'
    BY <1>6 DEF Runnable
  <1>8. ASSUME NEW d \in Clerks, NEW i \in 1 .. Len(todo'[d])
        PROVE  /\ \E j \in 1 .. Len(todo[d]) : todo'[d][i] = todo[d][j]
    <2>1. CASE d = c
      <3>1. i + 1 \in 1 .. n /\ r[i] = s[i + 1]
        BY <1>1, <1>2, <1>3, <1>8, <2>1
      <3> QED BY <1>3, <2>1, <3>1 DEF s
    <2>2. CASE d # c
      BY <1>3, <2>2
    <2> QED BY <2>1, <2>2
  <1>9. Apart'
    <2>1. ASSUME ~overlapped, NEW d \in Clerks, NEW e \in Clerks, d # e PROVE todo'[d] = <<>> \/ todo'[e] = <<>>
      <3>1. todo[d] = <<>> \/ todo[e] = <<>>
        BY <2>1 DEF Apart
      <3> QED BY <1>3, <2>1, <3>1
    <2>2. ASSUME ~clashed, NEW d \in Clerks, NEW e \in Clerks, d # e,
                 NEW i \in 1 .. Len(todo'[d]), NEW j \in 1 .. Len(todo'[e])
          PROVE  todo'[d][i].tag # todo'[e][j].tag
      <3>1. PICK k \in 1 .. Len(todo[d]) : todo'[d][i] = todo[d][k]
        BY <1>8
      <3>2. PICK m \in 1 .. Len(todo[e]) : todo'[e][j] = todo[e][m]
        BY <1>8
      <3>3. todo[d][k].tag # todo[e][m].tag
        BY <2>2 DEF Apart
      <3> QED BY <3>1, <3>2, <3>3
    <2> QED BY <2>1, <2>2 DEF Apart
  <1>10. n > 1 => Head(r) = s[2] /\ r[1] = s[2]
    <2> SUFFICES ASSUME n > 1 PROVE Head(r) = s[2] /\ r[1] = s[2]
      OBVIOUS
    <2>1. r # <<>> /\ 1 \in 1 .. n - 1
      BY <1>1, <1>2, EmptySeq
    <2> QED BY <1>2, <2>1
  <1>11. n > 2 => r[2] = s[3]
    BY <1>1, <1>2
  <1>12. r # <<>> => n > 1
    BY <1>1, <1>2, EmptySeq
  <1>13. /\ Statement(s[1]) /\ (n > 1 => MayFollow(s[1], s[2]))
         /\ s[1].op \in {"upsert", "drop"} => n > 1
         /\ n > 2 /\ s[3].op = "above" => s[1].op = "top"
    <2>1. 1 \in 1 .. n /\ (1 < n <=> n > 1) /\ (1 + 1 < n <=> n > 2)
      BY <1>1
    <2> QED BY <1>4, <2>1
  <1>14. n > 1 => r # <<>>
    BY <1>1, <1>2, EmptySeq
  <1>15. WillUseTop(r) => s[1].op = "top" \/ (s[1].op = "clear" /\ WillUseTop(s))
    <2> SUFFICES ASSUME WillUseTop(r) PROVE s[1].op = "top" \/ (s[1].op = "clear" /\ WillUseTop(s))
      OBVIOUS
    <2>1. n > 1 /\ MayFollow(s[1], s[2]) /\ r[1] = s[2]
      BY <1>10, <1>12, <1>13 DEF WillUseTop
    <2>2. CASE r[1].op = "default"
      BY <2>1, <2>2 DEF MayFollow
    <2>3. CASE r[1].op = "above"
      <3>1. s[1].op = "clear"
        BY <2>1, <2>3 DEF MayFollow
      <3>2. s # <<>> /\ 1 < Len(s) /\ s[2].op = "above"
        BY <2>1, <2>3 DEF s
      <3> QED BY <3>1, <3>2 DEF WillUseTop
    <2>4. CASE 1 < Len(r) /\ r[2].op = "above"
      <3>1. n > 2
        BY <1>1, <1>2, <2>4
      <3> QED BY <1>11, <1>13, <2>4, <3>1
    <2> QED BY <2>2, <2>3, <2>4 DEF WillUseTop
  <1>16. NoHostWrites => NoHostWrites' /\ s[1].op # "host"
    <2> SUFFICES ASSUME NoHostWrites PROVE NoHostWrites' /\ s[1].op # "host"
      OBVIOUS
    <2>1. 1 \in 1 .. n
      BY <1>1
    <2>2. s[1].op # "host"
      BY <2>1 DEF NoHostWrites, s
    <2>3. ASSUME NEW d \in Clerks, NEW i \in 1 .. Len(todo'[d]) PROVE todo'[d][i].op # "host"
      <3>1. PICK j \in 1 .. Len(todo[d]) : todo'[d][i] = todo[d][j]
        BY <1>8
      <3> QED BY <3>1 DEF NoHostWrites
    <2> QED BY <2>2, <2>3 DEF NoHostWrites
  <1>17. This(c) = s[1]
    BY <1>2 DEF This, s
  <1>18. /\ r # <<>> => MayFollow(s[1], Head(r))
         /\ s[1].op \in {"upsert", "drop"} => r # <<>>
    BY <1>10, <1>12, <1>13, <1>14
  <1>19. Statement(This(c)) /\ This(c) \in Statements
    BY <1>2, <1>13, <1>17
  <1> QED BY <1>3, <1>7, <1>9, <1>15, <1>16, <1>17, <1>18, <1>19 DEF s, r

\* Who runs a statement, while no call overlaps, runs alone.
LEMMA AloneFacts ==
  ASSUME CatTypes, Apart, NEW c \in Clerks, todo[c] # <<>>, NEW d \in Clerks, d # c
  PROVE  /\ ~overlapped => todo[d] = <<>>
         /\ ~clashed /\ todo[d] # <<>> => This(c).tag # This(d).tag
  <1>1. ~overlapped => todo[d] = <<>>
    BY DEF Apart
  <1>2. ASSUME ~clashed, todo[d] # <<>> PROVE This(c).tag # This(d).tag
    <2>1. todo[c] \in Seq(Statements) /\ todo[d] \in Seq(Statements)
      BY DEF CatTypes
    <2>2. 1 \in 1 .. Len(todo[c]) /\ 1 \in 1 .. Len(todo[d]) /\ Head(todo[c]) = todo[c][1] /\ Head(todo[d]) = todo[d][1]
      BY <1>2, <2>1, EmptySeq
    <2> QED BY <1>2, <2>2 DEF Apart, This
  <1> QED BY <1>1, <1>2

\* While calls take turns the hosts are in order, or the one that runs is a PUT.
LEMMA RanksCases ==
  ASSUME CatInv, NEW c \in Clerks, todo[c] # <<>>, ~overlapped, ~ended, ~partial
  PROVE  (PrioritiesDistinct /\ NoHostWrites) \/ Puts(todo[c], hosts)
  <1>1. CASE PrioritiesDistinct /\ NoHostWrites
    BY <1>1
  <1>2. CASE \E d \in Clerks : todo[d] # <<>> /\ Puts(todo[d], hosts)
    <2>1. PICK d \in Clerks : todo[d] # <<>> /\ Puts(todo[d], hosts)
      BY <1>2
    <2>2. d = c
      BY <2>1, AloneFacts DEF CatInv
    <2> QED BY <2>1, <2>2
  <1> QED BY <1>1, <1>2 DEF CatInv, RanksHold

\* What a statement may do to what calls have read.
LEMMA ReadsKept ==
  ASSUME CatTypes, Apart, ReadsHold, NEW c \in Clerks, todo[c] # <<>>, Proceed(c), UNCHANGED <<overlapped, clashed>>,
         \A d \in Clerks : d # c => local'[d] = local[d],
         \A t \in InTags : t # This(c).tag => inbounds'[t] = inbounds[t],
         This(c).op \in {"lookup", "find"} => local'[c].old = inbounds'[This(c).tag].proto,
         This(c).op = "list" => local'[c].listed = Known',
         This(c).op = "top" => \A t \in InTags : \A i \in DOMAIN hosts'[t] : hosts'[t][i] <= local'[c].top,
         This(c).op = "clear" => local'[c] = local[c] /\ \A t \in InTags : hosts'[t] = hosts[t] \/ DOMAIN hosts'[t] = {}
  PROVE  ReadsHold'
  <1>1. /\ todo' \in [Clerks -> Seq(Statements)] /\ \A d \in Clerks : Runnable(todo[d])'
        /\ \A d \in Clerks : d # c => todo'[d] = todo[d]
        /\ todo'[c] # <<>> => MayFollow(This(c), Head(todo'[c]))
        /\ WillUseTop(todo'[c]) => This(c).op = "top" \/ (This(c).op = "clear" /\ WillUseTop(todo[c]))
    BY ProceedFacts
  <1>2. ASSUME NEW d \in Clerks, d # c PROVE ReadHolds(d)'
    <2>1. todo'[d] = todo[d] /\ local'[d] = local[d]
      BY <1>1, <1>2
    <2>2. /\ ~overlapped => todo[d] = <<>>
          /\ ~clashed /\ todo[d] # <<>> => This(c).tag # This(d).tag
      BY <1>2, AloneFacts
    <2>3. ASSUME ~clashed', (Does(d, "upsert") \/ Does(d, "drop"))' PROVE local'[d].old = inbounds'[This(d)'.tag].proto
      <3>1. Does(d, "upsert") \/ Does(d, "drop")
        BY <2>1, <2>3 DEF Does
      <3>2. todo[d] # <<>> /\ This(d)' = This(d)
        BY <2>1, <3>1 DEF Does, This
      <3>3. This(d).tag \in InTags
        <4>1. Runnable(todo[d]) /\ todo[d] \in Seq(Statements)
          BY DEF CatTypes
        <4>2. 1 \in 1 .. Len(todo[d]) /\ Head(todo[d]) = todo[d][1]
          BY <3>2, <4>1, EmptySeq
        <4>3. Statement(Head(todo[d]))
          BY <4>1, <4>2 DEF Runnable
        <4> QED BY <3>1, <4>3 DEF Statement, Does, This
      <3>4. This(d).tag # This(c).tag
        BY <2>2, <2>3, <3>2
      <3>5. local[d].old = inbounds[This(d).tag].proto
        BY <2>3, <3>1 DEF ReadsHold, ReadHolds
      <3> QED BY <2>1, <3>2, <3>3, <3>4, <3>5
    <2>4. ~overlapped' => todo'[d] = <<>>
      BY <2>1, <2>2
    <2> QED BY <2>3, <2>4 DEF ReadHolds, Does, WillUseTop
  <1>3. ReadHolds(c)'
    <2>1. ASSUME (Does(c, "upsert") \/ Does(c, "drop"))' PROVE local'[c].old = inbounds'[This(c)'.tag].proto
      <3>1. todo'[c] # <<>> /\ This(c)' = Head(todo'[c]) /\ This(c)'.op \in {"upsert", "drop"}
        BY <2>1 DEF Does, This
      <3>2. MayFollow(This(c), This(c)')
        BY <1>1, <3>1
      <3>3. This(c).op \in {"lookup", "find"} /\ This(c)'.tag = This(c).tag
        BY <3>1, <3>2 DEF MayFollow
      <3> QED BY <3>3
    <2>2. ASSUME Does(c, "prune")' PROVE local'[c].listed = Known'
      <3>1. todo'[c] # <<>> /\ This(c)' = Head(todo'[c]) /\ This(c)'.op = "prune"
        BY <2>2 DEF Does, This
      <3>2. MayFollow(This(c), This(c)')
        BY <1>1, <3>1
      <3>3. This(c).op = "list"
        BY <3>1, <3>2 DEF MayFollow
      <3> QED BY <3>3
    <2>3. ASSUME ~overlapped, WillUseTop(todo'[c]), NEW t \in InTags, NEW i \in DOMAIN hosts'[t]
          PROVE  hosts'[t][i] <= local'[c].top
      <3>1. CASE This(c).op = "top"
        BY <2>3, <3>1
      <3>2. CASE This(c).op = "clear" /\ WillUseTop(todo[c])
        <4>1. hosts'[t] = hosts[t]
          BY <2>3, <3>2
        <4>2. \A j \in DOMAIN hosts[t] : hosts[t][j] <= local[c].top
          BY <2>3, <3>2 DEF ReadsHold, ReadHolds
        <4> QED BY <2>3, <3>2, <4>1, <4>2
      <3> QED BY <1>1, <2>3, <3>1, <3>2
    <2> QED BY <2>1, <2>2, <2>3 DEF ReadHolds
  <1> QED BY <1>2, <1>3 DEF ReadsHold

\* A statement that neither writes nor invalidates leaves what is owed.
LEMMA OwedKept ==
  ASSUME CatTypes, ListsAreOwed, NEW c \in Clerks, todo[c] # <<>>, This(c).op # "invalidate", Proceed(c),
         UNCHANGED <<inbounds, tagLists, fetched, raced, clashed, ended>>, \A d \in Clerks : d # c => local'[d] = local[d]
  PROVE  ListsAreOwed'
  <1>1. \A d \in Clerks : d # c => todo'[d] = todo[d]
    BY DEF Proceed, CatTypes
  <1>2. \A t \in InTags, p \in Protos : Owed(t, p) => Owed(t, p)'
    BY <1>1 DEF Owed, Does, This, StaleLists
  <1> QED BY <1>2 DEF ListsAreOwed

\* The hosts are lists of numbers.
LEMMA HostsAreTables ==
  ASSUME CatTypes
  PROVE  hosts \in HostTables
  <1>1. \A q \in Seq(0 .. MaxRank) : q \in Seq(Nat)
    BY CatalogAssumption
  <1> QED BY <1>1 DEF CatTypes, HostTables

\* While no host is touched the hosts stay in order.
LEMMA RanksKept ==
  ASSUME CatInv, NEW c \in Clerks, todo[c] # <<>>, Proceed(c), UNCHANGED <<hosts, overlapped, clashed, ended, partial>>,
         This(c).op \notin {"clear", "host"}
  PROVE  RanksHold'
  <1> SUFFICES ASSUME ~overlapped, ~ended, ~partial PROVE (PrioritiesDistinct /\ NoHostWrites)'
    BY DEF RanksHold
  <1>1. hosts \in HostTables /\ todo[c] \in Seq(Statements)
    BY HostsAreTables DEF CatInv, CatTypes
  <1>2. ~Puts(todo[c], hosts)
    BY <1>1, PutStep DEF This
  <1>3. PrioritiesDistinct /\ NoHostWrites
    BY <1>2, RanksCases
  <1>4. NoHostWrites'
    BY <1>3, ProceedFacts DEF CatInv
  <1> QED BY <1>3, <1>4 DEF PrioritiesDistinct

\* The last statement of a PUT.
LEMMA PutEnds ==
  ASSUME CatInv, NEW c \in Clerks, todo[c] # <<>>, Proceed(c), UNCHANGED <<overlapped, clashed>>,
         ~overlapped, todo'[c] = <<>>, hosts' \in HostTables, Puts(<<>>, hosts')
  PROVE  (PrioritiesDistinct /\ NoHostWrites)'
  <1>1. AllDiffer(hosts')
    BY PutIsDone
  <1>2. PrioritiesDistinct'
    BY <1>1 DEF PrioritiesDistinct, AllDiffer
  <1>3. \A d \in Clerks : todo'[d] = <<>>
    <2> SUFFICES ASSUME NEW d \in Clerks, d # c PROVE todo'[d] = <<>>
      OBVIOUS
    <2>1. todo'[d] = todo[d]
      BY ProceedFacts DEF CatInv
    <2>2. todo[d] = <<>>
      BY AloneFacts DEF CatInv
    <2> QED BY <2>1, <2>2
  <1>4. NoHostWrites'
    <2>1. \A i \in 1 .. Len(<<>>) : FALSE
      BY EmptySeq
    <2> QED BY <1>3, <2>1 DEF NoHostWrites
  <1> QED BY <1>2, <1>4

-----------------------------------------------------------------------------
\* The statements.

\* What of the types a statement has to show.
LEMMA TypesKept ==
  ASSUME CatInv, NEW c \in Clerks, todo[c] # <<>>, Proceed(c), UNCHANGED <<served, overlapped, clashed, ended, partial>>,
         inbounds' \in [InTags -> Rows \cup {NoInbound}],
         hosts' \in [InTags -> Seq(0 .. MaxRank)],
         proxies' \subseteq Protos,
         tagLists' \in [Protos -> (SUBSET InTags) \cup {NotCached}],
         fetched' = fetched, raced' \subseteq raced,
         local' \in [Clerks -> Locals],
         wiped' \in BOOLEAN
  PROVE  CatTypes' /\ Apart'
  <1>1. todo' \in [Clerks -> Seq(Statements)] /\ (\A d \in Clerks : Runnable(todo[d])') /\ Apart'
    BY ProceedFacts DEF CatInv
  <1>2. CatalogTypeOK'
    <2>1. \A t \in InTags : hosts'[t] \in Seq(0 .. MaxRank)
      OBVIOUS
    <2>2. \A p \in Protos : tagLists'[p] = NotCached \/ tagLists'[p] \subseteq InTags
      <3> SUFFICES ASSUME NEW p \in Protos PROVE tagLists'[p] = NotCached \/ tagLists'[p] \subseteq InTags
        OBVIOUS
      <3>1. tagLists'[p] \in (SUBSET InTags) \cup {NotCached}
        OBVIOUS
      <3> QED BY <3>1
    <2>3. served' \in 0 .. MaxCatalogCalls
      BY DEF CatInv, CatTypes, CatalogTypeOK
    <2>4. fetched' \subseteq [proto : Protos, tags : SUBSET InTags] /\ raced' \subseteq Protos
      BY DEF CatInv, CatTypes, CatalogTypeOK
    <2> QED BY <2>1, <2>2, <2>3, <2>4 DEF CatalogTypeOK
  <1>3. /\ overlapped' \in BOOLEAN /\ clashed' \in BOOLEAN /\ ended' \in BOOLEAN
        /\ partial' \in BOOLEAN
    BY DEF CatInv, CatTypes
  <1> QED BY <1>1, <1>2, <1>3 DEF CatTypes

\* The types, one by one.
LEMMA TypesHold ==
  ASSUME CatInv
  PROVE  /\ inbounds \in [InTags -> Rows \cup {NoInbound}]
         /\ hosts \in [InTags -> Seq(0 .. MaxRank)]
         /\ proxies \subseteq Protos
         /\ tagLists \in [Protos -> (SUBSET InTags) \cup {NotCached}]
         /\ fetched \subseteq [proto : Protos, tags : SUBSET InTags] /\ raced \subseteq Protos
         /\ local \in [Clerks -> Locals] /\ wiped \in BOOLEAN
         /\ CatTypes /\ Apart /\ ReadsHold /\ ListsAreOwed /\ HostsHaveInbounds /\ RanksHold /\ Unwiped
  BY DEF CatInv, CatTypes, CatalogTypeOK

\* The highest priority of all hosts.
LEMMA HighestFacts ==
  ASSUME CatTypes
  PROVE  Highest \in -1 .. MaxRank /\ \A t \in InTags : \A i \in DOMAIN hosts[t] : hosts[t][i] <= Highest
  <1>1. MaxRank \in Nat
    BY CatalogAssumption
  <1>2. \A t \in InTags : \A i \in DOMAIN hosts[t] : hosts[t][i] \in 0 .. MaxRank
    <2> SUFFICES ASSUME NEW t \in InTags, NEW i \in DOMAIN hosts[t] PROVE hosts[t][i] \in 0 .. MaxRank
      OBVIOUS
    <2>1. hosts[t] \in Seq(0 .. MaxRank)
      BY DEF CatTypes
    <2>2. i \in 1 .. Len(hosts[t])
      BY <2>1
    <2> QED BY <2>1, <2>2, ElementOfSeq
  <1>3. Ranks \subseteq 0 .. MaxRank
    BY <1>2 DEF Ranks
  <1>4. \A t \in InTags : \A i \in DOMAIN hosts[t] : hosts[t][i] \in Ranks
    BY DEF Ranks
  <1>5. CASE Ranks = {}
    BY <1>1, <1>4, <1>5 DEF Highest
  <1>6. CASE Ranks # {}
    <2>1. PICK x \in Ranks : \A y \in Ranks : y <= x
      <3>1. Ranks \in SUBSET Nat /\ \A y \in Ranks : y <= MaxRank
        BY <1>1, <1>3
      <3> HIDE DEF Ranks
      <3> QED BY <1>1, <1>6, <3>1, HasGreatest
    <2>2. Highest \in Ranks /\ \A s \in Ranks : s <= Highest
      BY <1>6, <2>1 DEF Highest
    <2>3. \A r \in 0 .. MaxRank : r \in -1 .. MaxRank
      BY <1>1
    <2> QED BY <1>3, <1>4, <2>2, <2>3
  <1> QED BY <1>5, <1>6

\* What a statement is about.
LEMMA ThisFacts ==
  ASSUME CatInv, NEW c \in Clerks, todo[c] # <<>>, Proceed(c), UNCHANGED <<overlapped, clashed>>
  PROVE  /\ This(c).op \notin {"list", "prune"} => This(c).tag \in InTags
         /\ This(c).op = "upsert" => This(c).row \in Rows
         /\ This(c).op = "host" => This(c).rank \in Nat
  BY ProceedFacts DEF CatInv, Statement

LEMMA ReadStatementKeeps ==
  ASSUME CatInv, NEW c \in Clerks, ReadStatement(c)
  PROVE  CatInv'
  <1> DEFINE here == local[c]
  <1>1. /\ todo[c] # <<>> /\ Proceed(c) /\ This(c).op \in {"lookup", "find", "top", "list"}
        /\ UNCHANGED <<inbounds, hosts, proxies, tagLists, fetched, raced, served, overlapped, clashed, ended, partial, wiped>>
    BY DEF ReadStatement, Does, This
  <1>2. here \in Locals /\ local \in [Clerks -> Locals]
    BY TypesHold
  <1>3. \E what \in Locals :
          /\ Learn(c, what)
          /\ This(c).op \in {"lookup", "find"} => what.old = inbounds[This(c).tag].proto
          /\ This(c).op = "list" => what.listed = Known
          /\ This(c).op = "top" => what.top = Highest
    <2>1. CASE Does(c, "lookup") /\ Learn(c, [here EXCEPT !.old = inbounds[This(c).tag].proto])
      <3>1. This(c).tag \in InTags /\ This(c).op = "lookup"
        BY <1>1, <2>1, ThisFacts DEF Does, This
      <3>2. inbounds[This(c).tag].proto \in Protos \cup {"none"}
        BY <3>1, TypesHold DEF Rows, NoInbound
      <3> QED BY <1>2, <2>1, <3>1, <3>2 DEF Locals
    <2>2. CASE Does(c, "find") /\ Learn(c, [here EXCEPT !.old = inbounds[This(c).tag].proto])
      <3>1. This(c).tag \in InTags /\ This(c).op = "find"
        BY <1>1, <2>2, ThisFacts DEF Does, This
      <3>2. inbounds[This(c).tag].proto \in Protos \cup {"none"}
        BY <3>1, TypesHold DEF Rows, NoInbound
      <3> QED BY <1>2, <2>2, <3>1, <3>2 DEF Locals
    <2>3. CASE Does(c, "top") /\ Learn(c, [here EXCEPT !.top = Highest])
      <3>1. Highest \in -1 .. MaxRank /\ This(c).op = "top"
        BY <2>3, TypesHold, HighestFacts DEF Does, This
      <3> QED BY <1>2, <2>3, <3>1 DEF Locals
    <2>4. CASE Does(c, "list") /\ Learn(c, [here EXCEPT !.listed = Known])
      <3>1. Known \in SUBSET InTags /\ This(c).op = "list"
        BY <2>4 DEF Does, This, Known
      <3> QED BY <1>2, <2>4, <3>1 DEF Locals
    <2> QED BY <2>1, <2>2, <2>3, <2>4 DEF ReadStatement
  <1>4. PICK what \in Locals :
          /\ Learn(c, what)
          /\ This(c).op \in {"lookup", "find"} => what.old = inbounds[This(c).tag].proto
          /\ This(c).op = "list" => what.listed = Known
          /\ This(c).op = "top" => what.top = Highest
    BY <1>3
  <1>5. local' \in [Clerks -> Locals] /\ local'[c] = what /\ \A d \in Clerks : d # c => local'[d] = local[d]
    BY <1>2, <1>4 DEF Learn
  <1>6. CatTypes' /\ Apart'
    BY <1>1, <1>5, TypesHold, TypesKept
  <1>7. ReadsHold'
    <2>1. \A t \in InTags : \A i \in DOMAIN hosts[t] : hosts[t][i] <= Highest
      BY TypesHold, HighestFacts
    <2>2. This(c).op = "top" => \A t \in InTags : \A i \in DOMAIN hosts'[t] : hosts'[t][i] <= local'[c].top
      BY <1>1, <1>4, <1>5, <2>1
    <2>3. Known' = Known
      BY <1>1 DEF Known
    <2> QED BY <1>1, <1>4, <1>5, <2>2, <2>3, TypesHold, ReadsKept
  <1>8. ListsAreOwed'
    BY <1>1, <1>5, TypesHold, OwedKept
  <1>9. RanksHold'
    BY <1>1, RanksKept
  <1>10. HostsHaveInbounds' /\ Unwiped'
    BY <1>1, TypesHold DEF HostsHaveInbounds, Unwiped
  <1> QED BY <1>6, <1>7, <1>8, <1>9, <1>10 DEF CatInv

\* A write whose invalidation comes next keeps the cached lists owed.
LEMMA WriteOwes ==
  ASSUME CatInv, NEW c \in Clerks, todo[c] # <<>>, Proceed(c), UNCHANGED <<tagLists, fetched, raced, overlapped, clashed, ended>>,
         This(c).op \in {"upsert", "drop"},
         \A t \in InTags : t # This(c).tag => inbounds'[t] = inbounds[t],
         inbounds'[This(c).tag].proto \in {(Head(todo'[c])).proto, "none"},
         \A d \in Clerks : local'[d].old = local[d].old
  PROVE  ListsAreOwed'
  <1>1. /\ \A d \in Clerks : d # c => todo'[d] = todo[d]
        /\ todo'[c] # <<>> /\ MayFollow(This(c), Head(todo'[c]))
    BY TypesHold, ProceedFacts
  <1>2. (Head(todo'[c])).op = "invalidate" /\ (Head(todo'[c])).tag = This(c).tag
    BY <1>1 DEF MayFollow
  <1>3. ~clashed => local[c].old = inbounds[This(c).tag].proto
    BY TypesHold DEF ReadsHold, ReadHolds, Does, This
  <1>4. ASSUME NEW d \in Clerks, d # c, NEW t, NEW p, Does(d, "invalidate"), This(d).tag = t, p \in StaleLists(d)
        PROVE  Owed(t, p)'
    <2>1. todo'[d] = todo[d] /\ local'[d].old = local[d].old
      BY <1>1, <1>4
    <2>2. Does(d, "invalidate")' /\ This(d)' = This(d) /\ StaleLists(d)' = StaleLists(d)
      BY <1>4, <2>1 DEF Does, This, StaleLists
    <2>3. Does(d, "invalidate")' /\ This(d)'.tag = t /\ p \in StaleLists(d)'
      BY <1>4, <2>2
    <2> QED BY <2>3 DEF Owed
  <1> SUFFICES ASSUME ~clashed, ~ended, NEW p \in Protos \ raced, NEW t \in InTags,
                      tagLists[p] # NotCached, ~(t \in tagLists[p] <=> inbounds'[t].proto = p)
               PROVE  Owed(t, p)'
    BY DEF ListsAreOwed
  <1>5. CASE t # This(c).tag
    <2>1. ~(t \in tagLists[p] <=> inbounds[t].proto = p)
      BY <1>5
    <2>2. Owed(t, p)
      BY <2>1, TypesHold DEF ListsAreOwed
    <2>3. PICK d \in Clerks : Does(d, "invalidate") /\ This(d).tag = t /\ p \in StaleLists(d)
      BY <2>2 DEF Owed
    <2>4. d # c
      BY <1>5, <2>3
    <2> QED BY <1>4, <2>3, <2>4
  <1>6. CASE t = This(c).tag
    <2>1. p # "none"
      BY CatalogAssumption
    <2>2. CASE p \in {(Head(todo'[c])).proto, local[c].old}
      <3>1. Does(c, "invalidate")' /\ This(c)'.tag = t /\ p \in StaleLists(c)'
        BY <1>1, <1>2, <1>6, <2>2 DEF Does, This, StaleLists
      <3> QED BY <3>1 DEF Owed
    <2>3. CASE p \notin {(Head(todo'[c])).proto, local[c].old}
      <3>1. inbounds'[t].proto # p /\ inbounds[t].proto # p
        BY <1>3, <1>6, <2>1, <2>3
      <3>2. Owed(t, p)
        BY <3>1, TypesHold DEF ListsAreOwed
      <3>3. PICK d \in Clerks : Does(d, "invalidate") /\ This(d).tag = t /\ p \in StaleLists(d)
        BY <3>2 DEF Owed
      <3>4. d # c
        BY <3>3 DEF Does, This
      <3>5. This(c).tag # This(d).tag
        BY <3>3, <3>4, TypesHold, AloneFacts DEF Does
      <3> QED BY <1>6, <3>3, <3>5
    <2> QED BY <2>2, <2>3
  <1> QED BY <1>5, <1>6

LEMMA UpsertInboundKeeps ==
  ASSUME CatInv, NEW c \in Clerks, UpsertInbound(c)
  PROVE  CatInv'
  <1>1. /\ todo[c] # <<>> /\ Proceed(c) /\ This(c).op = "upsert"
        /\ inbounds' = [inbounds EXCEPT ![This(c).tag] = This(c).row]
        /\ Learn(c, [local[c] EXCEPT !.inserted = inbounds[This(c).tag] = NoInbound])
        /\ UNCHANGED <<hosts, proxies, tagLists, fetched, raced, served, overlapped, clashed, ended, partial, wiped>>
    BY DEF UpsertInbound, Does, This
  <1>2. This(c).tag \in InTags /\ This(c).row \in Rows
    BY <1>1, ThisFacts
  <1>3. inbounds' \in [InTags -> Rows \cup {NoInbound}] /\ inbounds'[This(c).tag] = This(c).row
        /\ \A t \in InTags : t # This(c).tag => inbounds'[t] = inbounds[t]
    BY <1>1, <1>2, TypesHold
  <1>4. local' \in [Clerks -> Locals] /\ (\A d \in Clerks : d # c => local'[d] = local[d])
        /\ \A d \in Clerks : local'[d].old = local[d].old
    <2>1. local \in [Clerks -> Locals] /\ local[c] \in Locals
      BY TypesHold
    <2>2. PICK what : what = [local[c] EXCEPT !.inserted = inbounds[This(c).tag] = NoInbound]
      OBVIOUS
    <2>3. what \in Locals /\ what.old = local[c].old
      BY <2>1, <2>2 DEF Locals
    <2>4. local' = [local EXCEPT ![c] = what]
      BY <1>1, <2>2 DEF Learn
    <2> QED BY <2>1, <2>3, <2>4
  <1>5. CatTypes' /\ Apart'
    BY <1>1, <1>3, <1>4, TypesHold, TypesKept
  <1>6. ReadsHold'
    BY <1>1, <1>3, <1>4, TypesHold, ReadsKept
  <1>7. ListsAreOwed'
    <2>1. todo'[c] # <<>> /\ MayFollow(This(c), Head(todo'[c]))
      BY <1>1, TypesHold, ProceedFacts
    <2>2. (Head(todo'[c])).proto = This(c).row.proto
      BY <1>1, <2>1 DEF MayFollow
    <2>3. inbounds'[This(c).tag].proto \in {(Head(todo'[c])).proto, "none"}
      BY <1>3, <2>2
    <2> QED BY <1>1, <1>3, <1>4, <2>3, WriteOwes
  <1>8. RanksHold'
    BY <1>1, RanksKept
  <1>9. HostsHaveInbounds' /\ Unwiped'
    <2>1. This(c).row # NoInbound
      BY <1>2, CatalogAssumption DEF Rows, NoInbound
    <2>2. \A t \in InTags : hosts'[t] # <<>> => inbounds'[t] # NoInbound
      BY <1>1, <1>3, <2>1, TypesHold DEF HostsHaveInbounds
    <2> QED BY <1>1, <2>2, TypesHold DEF HostsHaveInbounds, Unwiped
  <1> QED BY <1>5, <1>6, <1>7, <1>8, <1>9 DEF CatInv

LEMMA InvalidateInboundKeeps ==
  ASSUME CatInv, NEW c \in Clerks, InvalidateInbound(c)
  PROVE  CatInv'
  <1>1. /\ todo[c] # <<>> /\ Proceed(c) /\ This(c).op = "invalidate"
        /\ tagLists' = [p \in Protos |-> IF p \in StaleLists(c) THEN NotCached ELSE tagLists[p]]
        /\ raced' = raced \ StaleLists(c)
        /\ UNCHANGED <<inbounds, hosts, proxies, fetched, local, served, overlapped, clashed, ended, partial, wiped>>
    BY DEF InvalidateInbound, Does, This
  <1>2. tagLists' \in [Protos -> (SUBSET InTags) \cup {NotCached}]
    BY <1>1, TypesHold
  <1>3. CatTypes' /\ Apart'
    BY <1>1, <1>2, TypesHold, TypesKept
  <1>4. ReadsHold'
    BY <1>1, TypesHold, ReadsKept
  <1>5. ListsAreOwed'
    <2> SUFFICES ASSUME ~clashed, ~ended, NEW p \in Protos, p \notin raced', NEW t \in InTags,
                        tagLists'[p] # NotCached, ~(t \in tagLists'[p] <=> inbounds[t].proto = p)
                 PROVE  Owed(t, p)'
      BY <1>1 DEF ListsAreOwed
    <2>1. p \notin StaleLists(c) /\ p \notin raced /\ tagLists'[p] = tagLists[p]
      BY <1>1
    <2>2. Owed(t, p)
      BY <2>1, TypesHold DEF ListsAreOwed
    <2>3. PICK d \in Clerks : Does(d, "invalidate") /\ This(d).tag = t /\ p \in StaleLists(d)
      BY <2>2 DEF Owed
    <2>4. d # c
      BY <2>1, <2>3
    <2>5. todo'[d] = todo[d] /\ local'[d] = local[d]
      BY <1>1, <2>4, TypesHold, ProceedFacts
    <2>6. Does(d, "invalidate")' /\ This(d)'.tag = t /\ p \in StaleLists(d)'
      BY <2>3, <2>5 DEF Does, This, StaleLists
    <2> QED BY <2>6 DEF Owed
  <1>6. RanksHold'
    BY <1>1, RanksKept
  <1>7. HostsHaveInbounds' /\ Unwiped'
    BY <1>1, TypesHold DEF HostsHaveInbounds, Unwiped
  <1> QED BY <1>3, <1>4, <1>5, <1>6, <1>7 DEF CatInv

\* A tag's hosts go: what remains is in order, or the PUT has done its part.
LEMMA ClearKeepsRanks ==
  ASSUME CatInv, NEW c \in Clerks, todo[c] # <<>>, Proceed(c), UNCHANGED <<overlapped, clashed, ended, partial>>,
         This(c).op # "host", This(c).tag \in InTags, hosts' = [hosts EXCEPT ![This(c).tag] = <<>>]
  PROVE  RanksHold'
  <1> SUFFICES ASSUME ~overlapped, ~ended, ~partial
               PROVE  (PrioritiesDistinct /\ NoHostWrites)' \/ \E d \in Clerks : todo'[d] # <<>> /\ Puts(todo'[d], hosts')
    BY DEF RanksHold, Puts
  <1>1. hosts \in HostTables /\ todo[c] \in Seq(Statements)
    BY HostsAreTables, TypesHold DEF CatTypes
  <1>2. CASE PrioritiesDistinct /\ NoHostWrites
    <2>1. NoHostWrites'
      BY <1>2, TypesHold, ProceedFacts
    <2>2. \A t \in InTags : hosts'[t] = hosts[t] \/ DOMAIN hosts'[t] = {}
      BY <1>1 DEF HostTables
    <2>3. PrioritiesDistinct'
      BY <1>2, <2>2 DEF PrioritiesDistinct
    <2> QED BY <2>1, <2>3
  <1>3. CASE Puts(todo[c], hosts)
    <2>1. Head(todo[c]).op = "clear" /\ Puts(Tail(todo[c]), [hosts EXCEPT ![Head(todo[c]).tag] = <<>>])
      BY <1>1, <1>3, PutStep DEF This
    <2>5. Puts(Tail(todo[c]), hosts') /\ hosts' \in HostTables
      BY <1>1, <2>1, EmptySeq DEF This, HostTables
    <2>2. todo'[c] = Tail(todo[c])
      BY TypesHold, ProceedFacts
    <2>3. CASE todo'[c] # <<>>
      BY <2>2, <2>3, <2>5
    <2>4. CASE todo'[c] = <<>>
      BY <2>2, <2>4, <2>5, PutEnds
    <2> QED BY <2>3, <2>4
  <1> QED BY <1>2, <1>3, RanksCases

LEMMA DeleteInboundByTagKeeps ==
  ASSUME CatInv, NEW c \in Clerks, DeleteInboundByTag(c)
  PROVE  CatInv'
  <1>1. /\ todo[c] # <<>> /\ Proceed(c) /\ This(c).op = "drop"
        /\ inbounds' = [inbounds EXCEPT ![This(c).tag] = NoInbound]
        /\ hosts' = [hosts EXCEPT ![This(c).tag] = <<>>]
        /\ UNCHANGED <<proxies, tagLists, fetched, raced, local, served, overlapped, clashed, ended, partial, wiped>>
    BY DEF DeleteInboundByTag, Does, This
  <1>2. This(c).tag \in InTags
    BY <1>1, ThisFacts
  <1>3. inbounds' \in [InTags -> Rows \cup {NoInbound}] /\ inbounds'[This(c).tag] = NoInbound
        /\ \A t \in InTags : t # This(c).tag => inbounds'[t] = inbounds[t]
    BY <1>1, <1>2, TypesHold
  <1>4. hosts' \in [InTags -> Seq(0 .. MaxRank)] /\ hosts'[This(c).tag] = <<>>
        /\ \A t \in InTags : t # This(c).tag => hosts'[t] = hosts[t]
    BY <1>1, <1>2, TypesHold, EmptySeq
  <1>5. CatTypes' /\ Apart'
    BY <1>1, <1>3, <1>4, TypesHold, TypesKept
  <1>6. ReadsHold'
    BY <1>1, <1>3, TypesHold, ReadsKept
  <1>7. ListsAreOwed'
    <2>1. inbounds'[This(c).tag].proto = "none"
      BY <1>3 DEF NoInbound
    <2> QED BY <1>1, <1>3, <2>1, WriteOwes
  <1>8. RanksHold'
    BY <1>1, <1>2, ClearKeepsRanks
  <1>9. HostsHaveInbounds' /\ Unwiped'
    BY <1>1, <1>3, <1>4, TypesHold DEF HostsHaveInbounds, Unwiped
  <1> QED BY <1>5, <1>6, <1>7, <1>8, <1>9 DEF CatInv

LEMMA DeleteHostsByInboundTagKeeps ==
  ASSUME CatInv, NEW c \in Clerks, DeleteHostsByInboundTag(c)
  PROVE  CatInv'
  <1>1. /\ todo[c] # <<>> /\ Proceed(c) /\ This(c).op = "clear"
        /\ hosts' = [hosts EXCEPT ![This(c).tag] = <<>>]
        /\ UNCHANGED <<inbounds, proxies, tagLists, fetched, raced, local, served, overlapped, clashed, ended, partial, wiped>>
    BY DEF DeleteHostsByInboundTag, Does, This
  <1>2. This(c).tag \in InTags
    BY <1>1, ThisFacts
  <1>3. hosts' \in [InTags -> Seq(0 .. MaxRank)] /\ hosts'[This(c).tag] = <<>>
        /\ \A t \in InTags : t # This(c).tag => hosts'[t] = hosts[t]
    BY <1>1, <1>2, TypesHold, EmptySeq
  <1>4. CatTypes' /\ Apart'
    BY <1>1, <1>3, TypesHold, TypesKept
  <1>5. ReadsHold'
    <2>1. \A t \in InTags : hosts'[t] = hosts[t] \/ DOMAIN hosts'[t] = {}
      BY <1>3
    <2> QED BY <1>1, <2>1, TypesHold, ReadsKept
  <1>6. ListsAreOwed'
    BY <1>1, TypesHold, OwedKept
  <1>7. RanksHold'
    BY <1>1, <1>2, ClearKeepsRanks
  <1>8. HostsHaveInbounds' /\ Unwiped'
    BY <1>1, <1>3, TypesHold DEF HostsHaveInbounds, Unwiped
  <1> QED BY <1>4, <1>5, <1>6, <1>7, <1>8 DEF CatInv

\* One host more, with a priority that is no other's.
LEMMA OneMoreHost ==
  ASSUME CatTypes, PrioritiesDistinct, NEW t \in InTags, NEW r \in Nat, \A u \in InTags : \A i \in DOMAIN hosts[u] : hosts[u][i] < r,
         hosts' = [hosts EXCEPT ![t] = Append(@, r)]
  PROVE  PrioritiesDistinct'
  <1>1. hosts \in HostTables
    BY HostsAreTables
  <1> DEFINE a == hosts[t]
             b == Append(a, r)
  <1>2. a \in Seq(Nat) /\ hosts'[t] = b /\ \A u \in InTags : u # t => hosts'[u] = hosts[u]
    BY <1>1 DEF HostTables
  <1> HIDE DEF a
  <1>3. /\ DOMAIN b = 1 .. Len(a) + 1 /\ DOMAIN a = 1 .. Len(a) /\ Len(a) \in Nat
        /\ b[Len(a) + 1] = r /\ \A i \in 1 .. Len(a) : b[i] = a[i]
    BY <1>2
  <1> HIDE DEF b
  \* Of every host now: it was there, or it is the new one.
  <1>4. ASSUME NEW u \in InTags, NEW i \in DOMAIN hosts'[u]
        PROVE  \/ i \in DOMAIN hosts[u] /\ hosts'[u][i] = hosts[u][i] /\ hosts'[u][i] < r
               \/ u = t /\ i = Len(a) + 1 /\ hosts'[u][i] = r
    <2>1. CASE u # t
      <3>1. hosts'[u] = hosts[u]
        BY <1>2, <2>1
      <3>2. i \in DOMAIN hosts[u]
        BY <3>1
      <3> QED BY <3>1, <3>2
    <2>2. CASE u = t
      <3>1. i \in 1 .. Len(a) + 1 /\ hosts'[u][i] = b[i]
        BY <1>2, <1>3, <2>2
      <3>2. CASE i \in 1 .. Len(a)
        <4>1. i \in DOMAIN hosts[u] /\ hosts[u][i] = a[i]
          BY <1>3, <2>2, <3>2 DEF a
        <4> QED BY <1>3, <3>1, <3>2, <4>1
      <3>3. CASE i = Len(a) + 1
        BY <1>3, <2>2, <3>1, <3>3
      <3> QED BY <1>3, <3>1, <3>2, <3>3
    <2> QED BY <2>1, <2>2
  <1> SUFFICES ASSUME NEW u \in InTags, NEW v \in InTags, NEW i \in DOMAIN hosts'[u], NEW j \in DOMAIN hosts'[v],
                      hosts'[u][i] = hosts'[v][j]
               PROVE  u = v /\ i = j
    BY DEF PrioritiesDistinct
  <1>5. \/ i \in DOMAIN hosts[u] /\ hosts'[u][i] = hosts[u][i] /\ hosts'[u][i] < r
        \/ u = t /\ i = Len(a) + 1 /\ hosts'[u][i] = r
    BY <1>4
  <1>6. \/ j \in DOMAIN hosts[v] /\ hosts'[v][j] = hosts[v][j] /\ hosts'[v][j] < r
        \/ v = t /\ j = Len(a) + 1 /\ hosts'[v][j] = r
    BY <1>4
  <1>7. ~(r < r)
    OBVIOUS
  <1> QED BY <1>5, <1>6, <1>7 DEF PrioritiesDistinct

LEMMA RanksSame ==
  ASSUME RanksHold, UNCHANGED <<hosts, todo, overlapped, ended, partial>>
  PROVE  RanksHold'
  <1> SUFFICES ASSUME ~overlapped, ~ended, ~partial
               PROVE  (PrioritiesDistinct /\ NoHostWrites)' \/ \E d \in Clerks : todo'[d] # <<>> /\ Puts(todo'[d], hosts')
    BY DEF RanksHold, Puts
  <1>1. CASE PrioritiesDistinct /\ NoHostWrites
    BY <1>1 DEF PrioritiesDistinct, NoHostWrites
  <1>2. CASE \E d \in Clerks : todo[d] # <<>> /\ Puts(todo[d], hosts)
    BY <1>2
  <1> QED BY <1>1, <1>2 DEF RanksHold

\* A host is added: the default one and the one above all have a priority of
\* their own; one of a PUT is the next of its list.
LEMMA AddHostKeepsRanks ==
  ASSUME CatInv, NEW c \in Clerks, todo[c] # <<>>, Proceed(c), UNCHANGED <<overlapped, clashed, ended, partial>>,
         This(c).tag \in InTags, NEW r \in Nat, hosts' = [hosts EXCEPT ![This(c).tag] = Append(@, r)],
         \/ This(c).op \in {"default", "above"} /\ r = local[c].top + 1
         \/ This(c).op = "host" /\ r = This(c).rank
  PROVE  RanksHold'
  <1> SUFFICES ASSUME ~overlapped, ~ended, ~partial
               PROVE  (PrioritiesDistinct /\ NoHostWrites)' \/ \E d \in Clerks : todo'[d] # <<>> /\ Puts(todo'[d], hosts')
    BY DEF RanksHold, Puts
  <1>1. hosts \in HostTables /\ todo[c] \in Seq(Statements)
    BY HostsAreTables, TypesHold DEF CatTypes
  <1>2. CASE PrioritiesDistinct /\ NoHostWrites
    <2>1. NoHostWrites' /\ This(c).op # "host"
      BY <1>2, TypesHold, ProceedFacts
    <2>2. WillUseTop(todo[c]) /\ r = local[c].top + 1
      <3>1. todo[c] # <<>> /\ Head(todo[c]) = todo[c][1]
        BY <1>1
      <3> QED BY <2>1, <3>1 DEF WillUseTop, This
    <2>3. \A u \in InTags : \A i \in DOMAIN hosts[u] : hosts[u][i] < r
      <3> SUFFICES ASSUME NEW u \in InTags, NEW i \in DOMAIN hosts[u] PROVE hosts[u][i] < r
        OBVIOUS
      <3>1. hosts[u][i] <= local[c].top
        BY <2>2, TypesHold DEF ReadsHold, ReadHolds
      <3>2. hosts[u] \in Seq(Nat)
        BY <1>1 DEF HostTables
      <3>3. hosts[u][i] \in Nat
        <4>1. i \in 1 .. Len(hosts[u])
          BY <3>2
        <4> QED BY <3>2, <4>1, ElementOfSeq
      <3>4. local[c].top \in Int
        BY TypesHold, CatalogAssumption DEF Locals
      <3> QED BY <2>2, <3>1, <3>3, <3>4
    <2>4. PrioritiesDistinct'
      BY <1>2, <2>3, TypesHold, OneMoreHost
    <2> QED BY <2>1, <2>4
  <1>3. CASE Puts(todo[c], hosts)
    <2>1. This(c).op \in {"clear", "host"}
      BY <1>1, <1>3, PutStep DEF This
    <2>2. This(c).op = "host" /\ r = This(c).rank
      BY <2>1
    <2>3. Puts(Tail(todo[c]), [hosts EXCEPT ![Head(todo[c]).tag] = Append(@, Head(todo[c]).rank)])
      BY <1>1, <1>3, <2>2, PutStep DEF This
    <2>4. Puts(Tail(todo[c]), hosts')
      BY <2>2, <2>3 DEF This
    <2>5. hosts' \in HostTables
      BY <1>1 DEF HostTables
    <2>6. todo'[c] = Tail(todo[c])
      BY TypesHold, ProceedFacts
    <2>7. CASE todo'[c] # <<>>
      BY <2>4, <2>6, <2>7
    <2>8. CASE todo'[c] = <<>>
      BY <2>4, <2>5, <2>6, <2>8, PutEnds
    <2> QED BY <2>7, <2>8
  <1> QED BY <1>2, <1>3, RanksCases

LEMMA CreateHostKeeps ==
  ASSUME CatInv, NEW c \in Clerks, CreateHost(c)
  PROVE  CatInv'
  <1>1. /\ todo[c] # <<>> /\ Proceed(c) /\ This(c).op \in {"default", "above", "host"}
        /\ UNCHANGED <<inbounds, proxies, tagLists, fetched, raced, local, served, overlapped, clashed, ended, partial, wiped>>
    BY DEF CreateHost, Does, This
  <1>2. /\ This(c).tag \in InTags /\ (This(c).op = "host" => This(c).rank \in Nat)
        /\ local[c].top \in -1 .. MaxRank /\ MaxRank \in Nat
    BY <1>1, ThisFacts, TypesHold, CatalogAssumption DEF Locals
  <1>3. /\ hosts' \in [InTags -> Seq(0 .. MaxRank)]
        /\ HostsHaveInbounds'
        /\ RanksHold'
    <2>1. CASE UNCHANGED hosts /\ This(c).op # "host"
      BY <1>1, <2>1, TypesHold, RanksKept DEF HostsHaveInbounds
    <2>2. ASSUME NEW r \in Nat, AddHost(c, r),
                 \/ This(c).op \in {"default", "above"} /\ r = local[c].top + 1
                 \/ This(c).op = "host" /\ r = This(c).rank
          PROVE  /\ hosts' \in [InTags -> Seq(0 .. MaxRank)]
                 /\ HostsHaveInbounds'
                 /\ RanksHold'
      <3>1. /\ inbounds[This(c).tag] # NoInbound /\ r \in 0 .. MaxRank
            /\ hosts' = [hosts EXCEPT ![This(c).tag] = Append(@, r)]
        BY <1>2, <2>2 DEF AddHost
      <3>2. RanksHold'
        BY <1>1, <1>2, <2>2, <3>1, AddHostKeepsRanks
      <3>3. hosts' \in [InTags -> Seq(0 .. MaxRank)]
        <4>1. hosts[This(c).tag] \in Seq(0 .. MaxRank)
          BY <1>2, TypesHold
        <4>2. Append(hosts[This(c).tag], r) \in Seq(0 .. MaxRank)
          BY <3>1, <4>1, AppendProperties
        <4> QED BY <3>1, <4>2, TypesHold
      <3>4. \A t \in InTags : t # This(c).tag => hosts'[t] = hosts[t]
        BY <3>1, TypesHold
      <3>5. HostsHaveInbounds'
        BY <1>1, <3>1, <3>4, TypesHold DEF HostsHaveInbounds
      <3> QED BY <3>2, <3>3, <3>5
    <2>3. CASE This(c).op \in {"default", "above"} /\ AddHost(c, NextPriority(c))
      <3>1. NextPriority(c) \in Nat /\ NextPriority(c) = local[c].top + 1
        BY <1>2 DEF NextPriority
      <3> QED BY <2>2, <2>3, <3>1
    <2>4. CASE This(c).op = "host" /\ AddHost(c, This(c).rank)
      BY <1>2, <2>2, <2>4
    <2> QED BY <2>1, <2>3, <2>4 DEF CreateHost, Does, This
  <1>4. CatTypes' /\ Apart'
    BY <1>1, <1>3, TypesHold, TypesKept
  <1>5. ReadsHold'
    BY <1>1, TypesHold, ReadsKept
  <1>6. ListsAreOwed'
    BY <1>1, TypesHold, OwedKept
  <1>7. Unwiped'
    BY <1>1, TypesHold DEF Unwiped
  <1> QED BY <1>3, <1>4, <1>5, <1>6, <1>7 DEF CatInv

LEMMA PruneOrphanedProxiesKeeps ==
  ASSUME CatInv, NEW c \in Clerks, PruneOrphanedProxies(c)
  PROVE  CatInv'
  <1>1. /\ todo[c] # <<>> /\ Proceed(c) /\ This(c).op = "prune" /\ Does(c, "prune")
        /\ UNCHANGED <<inbounds, hosts, tagLists, fetched, raced, local, served, overlapped, clashed, ended, partial>>
    BY DEF PruneOrphanedProxies, Does, This
  <1>2. proxies' \subseteq proxies /\ wiped' \in BOOLEAN
    BY DEF PruneOrphanedProxies
  <1>3. proxies' \subseteq Protos /\ wiped' \in BOOLEAN
    BY <1>2, TypesHold
  <1>10. wiped' => wiped \/ (local[c].listed # {} /\ Known = {})
    BY DEF PruneOrphanedProxies, SomeInbound
  <1>4. CatTypes' /\ Apart'
    BY <1>1, <1>3, TypesHold, TypesKept
  <1>5. ReadsHold'
    BY <1>1, TypesHold, ReadsKept
  <1>6. ListsAreOwed'
    BY <1>1, TypesHold, OwedKept
  <1>7. RanksHold'
    BY <1>1, RanksKept
  <1>8. HostsHaveInbounds'
    BY <1>1, TypesHold DEF HostsHaveInbounds
  <1>9. Unwiped'
    <2>1. ~overlapped => local[c].listed = Known
      BY <1>1, TypesHold DEF ReadsHold, ReadHolds
    <2> QED BY <1>1, <1>10, <2>1, TypesHold DEF Unwiped
  <1> QED BY <1>4, <1>5, <1>6, <1>7, <1>8, <1>9 DEF CatInv

LEMMA StatementFailsKeeps ==
  ASSUME CatInv, NEW c \in Clerks, StatementFails(c)
  PROVE  CatInv'
  <1>1. /\ todo' = [todo EXCEPT ![c] = <<>>] /\ local' = [local EXCEPT ![c] = NoLocal] /\ ended' = TRUE
        /\ UNCHANGED <<inbounds, hosts, proxies, tagLists, fetched, raced, served, overlapped, clashed, partial, wiped>>
    BY DEF StatementFails
  <1>2. todo \in [Clerks -> Seq(Statements)] /\ local \in [Clerks -> Locals] /\ \A d \in Clerks : Runnable(todo[d])
    BY TypesHold DEF CatTypes
  <1>3. /\ todo' \in [Clerks -> Seq(Statements)] /\ todo'[c] = <<>>
        /\ \A d \in Clerks : d # c => todo'[d] = todo[d] /\ local'[d] = local[d]
    BY <1>1, <1>2, EmptySeq
  <1>4. local' \in [Clerks -> Locals]
    <2>1. NoLocal \in Locals
      BY CatalogAssumption DEF NoLocal, Locals
    <2> QED BY <1>1, <1>2, <2>1
  <1>5. \A d \in Clerks : Runnable(todo'[d])
    <2>1. Runnable(<<>>)
      BY EmptySeq DEF Runnable
    <2> QED BY <1>2, <1>3, <2>1
  <1>6. CatTypes'
    <2>1. \A d \in Clerks : Runnable(todo[d])'
      BY <1>5 DEF Runnable
    <2>2. CatalogTypeOK'
      BY <1>1, TypesHold DEF CatTypes, CatalogTypeOK
    <2> QED BY <1>1, <1>3, <1>4, <2>1, <2>2, TypesHold DEF CatTypes
  <1>7. Apart'
    <2>1. \A i \in 1 .. Len(<<>>) : FALSE
      BY EmptySeq
    <2>2. \A d, e \in Clerks : d # e => todo'[d] = <<>> \/ todo'[e] = <<>> \/ (todo'[d] = todo[d] /\ todo'[e] = todo[e])
      BY <1>3
    <2> QED BY <1>1, <1>3, <2>1, <2>2, TypesHold DEF Apart
  <1>8. ReadsHold'
    <2>1. ReadHolds(c)'
      BY <1>3 DEF ReadHolds, Does, WillUseTop
    <2>2. ASSUME NEW d \in Clerks, d # c PROVE ReadHolds(d)'
      <3>1. todo'[d] = todo[d] /\ local'[d] = local[d]
        BY <1>3, <2>2
      <3>2. ReadHolds(d)
        BY TypesHold DEF ReadsHold
      <3> QED BY <1>1, <3>1, <3>2 DEF ReadHolds, Does, This, WillUseTop, Known
    <2> QED BY <2>1, <2>2 DEF ReadsHold
  <1>9. ListsAreOwed' /\ RanksHold' /\ HostsHaveInbounds' /\ Unwiped'
    BY <1>1, TypesHold DEF ListsAreOwed, RanksHold, HostsHaveInbounds, Unwiped
  <1> QED BY <1>6, <1>7, <1>8, <1>9 DEF CatInv

LEMMA FetchTagsKeeps ==
  ASSUME CatInv, NEW q \in Protos, FetchTags(q)
  PROVE  CatInv'
  <1>1. /\ fetched' = fetched \cup {[proto |-> q, tags |-> TagsOf(q)]}
        /\ UNCHANGED <<inbounds, hosts, proxies, tagLists, raced, todo, local, served, overlapped, clashed, ended, partial, wiped>>
    BY DEF FetchTags
  <1>2. CatTypes'
    <2>1. TagsOf(q) \in SUBSET InTags
      BY DEF TagsOf
    <2>2. fetched' \subseteq [proto : Protos, tags : SUBSET InTags]
      BY <1>1, <2>1, TypesHold
    <2>3. CatalogTypeOK'
      BY <1>1, <2>2, TypesHold DEF CatTypes, CatalogTypeOK
    <2>4. \A d \in Clerks : Runnable(todo[d])'
      BY <1>1, TypesHold DEF CatTypes, Runnable
    <2> QED BY <1>1, <2>3, <2>4, TypesHold DEF CatTypes
  <1>3. Apart' /\ HostsHaveInbounds' /\ Unwiped'
    BY <1>1, TypesHold DEF Apart, HostsHaveInbounds, Unwiped
  <1>4. ReadsHold'
    BY <1>1, TypesHold DEF ReadsHold, ReadHolds, Does, This, WillUseTop, Known
  <1>5. RanksHold'
    BY <1>1, TypesHold, RanksSame
  <1>6. ListsAreOwed'
    BY <1>1, TypesHold DEF ListsAreOwed, Owed, Does, This, StaleLists
  <1> QED BY <1>2, <1>3, <1>4, <1>5, <1>6 DEF CatInv

LEMMA FileTagsKeeps ==
  ASSUME CatInv, NEW list \in fetched, FileTags(list)
  PROVE  CatInv'
  <1> DEFINE q == list.proto
  <1>1. /\ tagLists' = [tagLists EXCEPT ![q] = list.tags]
        /\ raced' = IF list.tags = TagsOf(q) THEN raced \ {q} ELSE raced \cup {q}
        /\ UNCHANGED <<inbounds, hosts, proxies, fetched, todo, local, served, overlapped, clashed, ended, partial, wiped>>
    BY DEF FileTags
  <1>2. /\ q \in Protos /\ raced' \subseteq Protos
        /\ tagLists' \in [Protos -> (SUBSET InTags) \cup {NotCached}] /\ tagLists'[q] = list.tags
        /\ \A p \in Protos : p # q => tagLists'[p] = tagLists[p] /\ (p \in raced' <=> p \in raced)
    <2>1. q \in Protos /\ list.tags \in SUBSET InTags
      BY TypesHold
    <2> QED BY <1>1, <2>1, TypesHold
  <1>3. CatTypes'
    <2>1. \A p \in Protos : tagLists'[p] = NotCached \/ tagLists'[p] \subseteq InTags
      <3> SUFFICES ASSUME NEW p \in Protos PROVE tagLists'[p] = NotCached \/ tagLists'[p] \subseteq InTags
        OBVIOUS
      <3>1. tagLists'[p] \in (SUBSET InTags) \cup {NotCached}
        BY <1>2
      <3> QED BY <3>1
    <2>2. CatalogTypeOK'
      BY <1>1, <2>1, TypesHold DEF CatTypes, CatalogTypeOK
    <2>3. \A d \in Clerks : Runnable(todo[d])'
      BY <1>1, TypesHold DEF CatTypes, Runnable
    <2> QED BY <1>1, <1>2, <2>2, <2>3, TypesHold DEF CatTypes
  <1>4. Apart' /\ HostsHaveInbounds' /\ Unwiped'
    BY <1>1, TypesHold DEF Apart, HostsHaveInbounds, Unwiped
  <1>5. ReadsHold'
    BY <1>1, TypesHold DEF ReadsHold, ReadHolds, Does, This, WillUseTop, Known
  <1>6. RanksHold'
    BY <1>1, TypesHold, RanksSame
  <1>7. ListsAreOwed'
    <2> SUFFICES ASSUME ~clashed, ~ended, NEW p \in Protos, p \notin raced', NEW t \in InTags,
                        tagLists'[p] # NotCached, ~(t \in tagLists'[p] <=> inbounds[t].proto = p)
                 PROVE  Owed(t, p)'
      BY <1>1 DEF ListsAreOwed
    <2>1. p # q
      <3> SUFFICES ASSUME p = q PROVE FALSE
        OBVIOUS
      <3>1. list.tags = TagsOf(q)
        BY <1>1
      <3> QED BY <1>2, <3>1 DEF TagsOf
    <2>2. Owed(t, p)
      BY <1>2, <2>1, TypesHold DEF ListsAreOwed
    <2> QED BY <1>1, <2>2 DEF Owed, Does, This, StaleLists
  <1> QED BY <1>3, <1>4, <1>5, <1>6, <1>7 DEF CatInv

LEMMA CreateProxyKeeps ==
  ASSUME CatInv, NEW q \in Protos, CreateProxy(q)
  PROVE  CatInv'
  <1>1. /\ proxies' = proxies \cup {q}
        /\ UNCHANGED <<inbounds, hosts, tagLists, fetched, raced, todo, local, served, overlapped, clashed, ended, partial, wiped>>
    BY DEF CreateProxy
  <1>2. CatTypes'
    <2>1. CatalogTypeOK'
      BY <1>1, TypesHold DEF CatTypes, CatalogTypeOK
    <2>2. \A d \in Clerks : Runnable(todo[d])'
      BY <1>1, TypesHold DEF CatTypes, Runnable
    <2> QED BY <1>1, <2>1, <2>2, TypesHold DEF CatTypes
  <1>3. Apart' /\ HostsHaveInbounds' /\ Unwiped'
    BY <1>1, TypesHold DEF Apart, HostsHaveInbounds, Unwiped
  <1>4. ReadsHold'
    BY <1>1, TypesHold DEF ReadsHold, ReadHolds, Does, This, WillUseTop, Known
  <1>5. RanksHold'
    BY <1>1, TypesHold, RanksSame
  <1>6. ListsAreOwed'
    BY <1>1, TypesHold DEF ListsAreOwed, Owed, Does, This, StaleLists
  <1> QED BY <1>2, <1>3, <1>4, <1>5, <1>6 DEF CatInv

-----------------------------------------------------------------------------
\* The calls begin.

LEMMA BeginKeeps ==
  ASSUME CatInv, NEW c \in Clerks, Free(c), NEW s \in Programs, Take(c, s),
         UNCHANGED <<inbounds, hosts, proxies, tagLists, fetched, raced, ended, wiped>>,
         partial' \in BOOLEAN, partial => partial',
         s \in Plain \/ (~partial' => Puts(s, hosts))
  PROVE  CatInv'
  <1>1. /\ todo[c] = <<>> /\ served < MaxCatalogCalls /\ served' = served + 1
        /\ todo' = [todo EXCEPT ![c] = s] /\ local' = [local EXCEPT ![c] = NoLocal]
    BY DEF Free, Take
  <1>2. /\ todo \in [Clerks -> Seq(Statements)] /\ local \in [Clerks -> Locals] /\ \A d \in Clerks : Runnable(todo[d])
        /\ s \in Seq(Statements) /\ Runnable(s) /\ Begins(s)
    BY TypesHold DEF CatTypes, Programs
  <1>3. /\ todo' \in [Clerks -> Seq(Statements)] /\ todo'[c] = s
        /\ \A d \in Clerks : d # c => todo'[d] = todo[d] /\ local'[d] = local[d]
    BY <1>1, <1>2
  <1> DEFINE others == UNION {ToSet(todo[d]) : d \in Clerks \ {c}}
  <1>4. overlapped' = (overlapped \/ others # {})
        /\ clashed' = (clashed \/ \E x \in others, y \in ToSet(s) : x.tag = y.tag)
    BY DEF Take
  <1>5. \A d \in Clerks : d # c => \A i \in 1 .. Len(todo[d]) : todo[d][i] \in others
    <2> SUFFICES ASSUME NEW d \in Clerks \ {c}, NEW i \in 1 .. Len(todo[d]) PROVE todo[d][i] \in others
      OBVIOUS
    <2>1. todo[d][i] \in ToSet(todo[d])
      BY <1>2 DEF ToSet
    <2> QED BY <2>1
  <1>6. \A j \in 1 .. Len(s) : s[j] \in ToSet(s)
    BY <1>2 DEF ToSet
  <1> HIDE DEF others
  <1>7. ASSUME ~overlapped' PROVE ~overlapped /\ \A d \in Clerks : d # c => todo[d] = <<>>
    <2>1. ~overlapped /\ others = {}
      BY <1>4, <1>7
    <2> SUFFICES ASSUME NEW d \in Clerks, d # c, todo[d] # <<>> PROVE FALSE
      BY <2>1
    <2>2. 1 \in 1 .. Len(todo[d])
      BY <1>2, EmptySeq
    <2> QED BY <1>5, <2>1, <2>2
  <1>8. ASSUME ~clashed'
        PROVE  ~clashed /\ \A d \in Clerks : d # c =>
                 \A i \in 1 .. Len(todo[d]), j \in 1 .. Len(s) : todo[d][i].tag # s[j].tag
    BY <1>4, <1>5, <1>6, <1>8
  <1>9. CatTypes'
    <2>1. overlapped' \in BOOLEAN /\ clashed' \in BOOLEAN
      BY <1>4
    <2>2. local' \in [Clerks -> Locals]
      <3>1. NoLocal \in Locals
        BY CatalogAssumption DEF NoLocal, Locals
      <3> QED BY <1>1, <1>2, <3>1
    <2>3. \A d \in Clerks : Runnable(todo'[d])
      BY <1>2, <1>3
    <2>4. \A d \in Clerks : Runnable(todo[d])'
      BY <2>3 DEF Runnable
    <2>5. served' \in 0 .. MaxCatalogCalls
      BY <1>1, TypesHold, CatalogAssumption DEF CatTypes, CatalogTypeOK
    <2>6. CatalogTypeOK'
      BY <2>5, TypesHold DEF CatTypes, CatalogTypeOK
    <2> QED BY <1>3, <2>1, <2>2, <2>4, <2>6, TypesHold DEF CatTypes
  <1>10. Apart'
    <2>1. ASSUME ~overlapped', NEW d \in Clerks, NEW e \in Clerks, d # e PROVE todo'[d] = <<>> \/ todo'[e] = <<>>
      BY <1>3, <1>7, <2>1
    <2>2. ASSUME ~clashed', NEW d \in Clerks, NEW e \in Clerks, d # e,
                 NEW i \in 1 .. Len(todo'[d]), NEW j \in 1 .. Len(todo'[e])
          PROVE  todo'[d][i].tag # todo'[e][j].tag
      <3>1. CASE d = c
        BY <1>3, <1>8, <2>2, <3>1
      <3>2. CASE e = c
        BY <1>3, <1>8, <2>2, <3>2
      <3>3. CASE d # c /\ e # c
        <4>1. todo'[d] = todo[d] /\ todo'[e] = todo[e] /\ ~clashed
          BY <1>3, <1>8, <2>2, <3>3
        <4>2. i \in 1 .. Len(todo[d]) /\ j \in 1 .. Len(todo[e])
          BY <4>1
        <4>3. todo[d][i].tag # todo[e][j].tag
          BY <2>2, <4>1, <4>2, TypesHold DEF Apart
        <4> QED BY <4>1, <4>3
      <3> QED BY <3>1, <3>2, <3>3
    <2> QED BY <2>1, <2>2 DEF Apart
  <1>11. ReadsHold'
    <2>1. ReadHolds(c)'
      <3>1. s # <<>> => Head(s) = s[1]
        BY <1>2
      <3> QED BY <1>2, <1>3, <3>1 DEF ReadHolds, Does, This, WillUseTop, Begins
    <2>2. ASSUME NEW d \in Clerks, d # c PROVE ReadHolds(d)'
      <3>1. todo'[d] = todo[d] /\ local'[d] = local[d]
        BY <1>3, <2>2
      <3>2. ReadHolds(d)
        BY TypesHold DEF ReadsHold
      <3>3. (~overlapped' => ~overlapped) /\ (~clashed' => ~clashed)
        BY <1>7, <1>8
      <3> QED BY <3>1, <3>2, <3>3 DEF ReadHolds, Does, This, WillUseTop, Known
    <2> QED BY <2>1, <2>2 DEF ReadsHold
  <1>12. ListsAreOwed'
    <2>1. \A t \in InTags, p \in Protos : Owed(t, p) => Owed(t, p)'
      <3> SUFFICES ASSUME NEW t \in InTags, NEW p \in Protos, Owed(t, p) PROVE Owed(t, p)'
        OBVIOUS
      <3>1. PICK d \in Clerks : Does(d, "invalidate") /\ This(d).tag = t /\ p \in StaleLists(d)
        BY DEF Owed
      <3>2. d # c
        BY <1>1, <3>1 DEF Does
      <3>3. todo'[d] = todo[d] /\ local'[d] = local[d]
        BY <1>3, <3>2
      <3>4. Does(d, "invalidate")' /\ This(d)'.tag = t /\ p \in StaleLists(d)'
        BY <3>1, <3>3 DEF Does, This, StaleLists
      <3> QED BY <3>4 DEF Owed
    <2> QED BY <1>8, <2>1, TypesHold DEF ListsAreOwed
  <1>13. RanksHold'
    <2> SUFFICES ASSUME ~overlapped', ~ended, ~partial'
                 PROVE  (PrioritiesDistinct /\ NoHostWrites)' \/ \E d \in Clerks : todo'[d] # <<>> /\ Puts(todo'[d], hosts')
      BY DEF RanksHold, Puts
    <2>1. ~overlapped /\ \A d \in Clerks : todo[d] = <<>>
      BY <1>1, <1>7
    <2>2. PrioritiesDistinct
      BY <2>1, TypesHold DEF RanksHold
    <2>3. PrioritiesDistinct'
      BY <2>2 DEF PrioritiesDistinct
    <2>4. CASE s \in Plain \/ s = <<>>
      <3>1. \A i \in 1 .. Len(s) : s[i].op # "host"
        <4>1. \A i \in 1 .. Len(<<>>) : FALSE
          BY EmptySeq
        <4> QED BY <2>4, <4>1 DEF Plain
      <3>2. \A d \in Clerks : \A i \in 1 .. Len(todo'[d]) : todo'[d][i].op # "host"
        <4>1. \A i \in 1 .. Len(<<>>) : FALSE
          BY EmptySeq
        <4>2. \A d \in Clerks : todo'[d] = s \/ todo'[d] = <<>>
          BY <1>3, <2>1
        <4> QED BY <3>1, <4>1, <4>2
      <3>3. NoHostWrites'
        BY <3>2 DEF NoHostWrites
      <3> QED BY <2>3, <3>3
    <2>5. CASE Puts(s, hosts) /\ s # <<>>
      BY <1>3, <2>5
    <2> QED BY <2>4, <2>5
  <1>14. HostsHaveInbounds'
    BY TypesHold DEF HostsHaveInbounds
  <1>15. Unwiped'
    BY <1>7, TypesHold DEF Unwiped
  <1> QED BY <1>9, <1>10, <1>11, <1>12, <1>13, <1>14, <1>15 DEF CatInv

LEMMA HandlePutHostsKeeps ==
  ASSUME CatInv, NEW c \in Clerks, Free(c), NEW body \in Bodies, HandlePutHosts(c, body)
  PROVE  CatInv'
  <1> DEFINE T == DOMAIN body
             ranked == NormalizeHostPriorities(body)
             Program(order) == FlattenSeq([i \in DOMAIN order |-> ReplaceHosts(order[i], ranked[order[i]])])
  <1>1. /\ T \subseteq Known
        /\ partial' = (partial \/ T # Known)
        /\ UNCHANGED <<inbounds, hosts, proxies, tagLists, fetched, raced, ended, wiped>>
    BY DEF HandlePutHosts
  <1>2. PICK order \in Orders[T] : Take(c, Program(order))
    BY DEF HandlePutHosts
  <1>3. T \in SUBSET InTags /\ ranked \in [T -> Seq(Nat)] /\ Different(ranked)
    BY NormalizeFacts
  <1> DEFINE f == Program(order)
  <1>4. f = FlattenSeq([i \in DOMAIN order |-> ReplaceHosts(order[i], ranked[order[i]])])
    OBVIOUS
  <1> HIDE DEF T, ranked, f
  <1>5. f \in Programs /\ \E start : Writes(f, ranked, start)
    BY <1>2, <1>3, <1>4, PutFacts
  <1>6. partial' \in BOOLEAN /\ (partial => partial') /\ (~partial' => T = Known)
    BY <1>1
  <1>7. ASSUME ~partial' PROVE Puts(f, hosts)
    <2>1. T = Known
      BY <1>6, <1>7
    <2>2. PICK start : Writes(f, ranked, start)
      BY <1>5
    <2>3. start \in [T -> Nat \ {0}] /\ start \in [T -> Nat] /\ DOMAIN ranked = T
      BY <1>3, <2>2 DEF Writes
    <2>4. f \in Seq(Statements) /\ Len(f) \in Nat /\ 1 \in 1 .. Len(f) + 1
      BY <1>5 DEF Programs
    <2>5. f = SubSeq(f, 1, Len(f))
      BY <2>4, SubSeqFull
    <2>6. \A t \in InTags \ T : hosts[t] = <<>>
      BY <2>1, TypesHold DEF HostsHaveInbounds, Known
    <2>7. \A t \in T : ~(start[t] < 1)
      BY <2>3
    <2>8. Written(hosts, 1, ranked, start)
      BY <2>3, <2>6, <2>7 DEF Written
    <2> QED BY <1>3, <2>2, <2>3, <2>4, <2>5, <2>8 DEF Puts
  <1> QED BY <1>1, <1>2, <1>5, <1>6, <1>7, BeginKeeps DEF f

LEMMA HandleUpdateXrayConfigKeeps ==
  ASSUME CatInv, NEW c \in Clerks, Free(c), NEW doc \in Docs, HandleUpdateXrayConfig(c, doc)
  PROVE  CatInv'
  <1> DEFINE T == DOMAIN doc
             entries == [t \in DOMAIN doc |-> EntryOf(doc[t])]
             Syncs(order) == [i \in DOMAIN order |-> SyncEntry(order[i], entries[order[i]])]
             Drops(gone) == [i \in DOMAIN gone |-> DropInbound(gone[i])]
             Prunes(gone) == IF gone = <<>> THEN <<>> ELSE PruneOrphaned
  <1>1. PICK order \in Orders[T], gone \in Orders[Known \ T] :
          Take(c, FlattenSeq(Syncs(order)) \o FlattenSeq(Drops(gone)) \o Prunes(gone))
    BY DEF HandleUpdateXrayConfig
  <1>2. UNCHANGED <<inbounds, hosts, proxies, tagLists, fetched, raced, ended, partial, wiped>>
    BY DEF HandleUpdateXrayConfig
  <1>3. T \in SUBSET InTags /\ (Known \ T) \in SUBSET InTags /\ \A t \in T : entries[t] \in Rows
    <2>1. PICK S \in SUBSET InTags : doc \in [S -> Rows]
      BY DEF Docs
    <2>2. T = S /\ \A t \in T : doc[t] \in Rows
      BY <2>1
    <2>3. \A r \in Rows : EntryOf(r) \in Rows
      BY DEF Rows, EntryOf
    <2> QED BY <2>2, <2>3 DEF Known
  <1>4. Syncs(order) \in Seq(Plain)
    <2>1. order \in Seq(T) /\ DOMAIN order = 1 .. Len(order) /\ Len(order) \in Nat
      BY <1>3, OrderFacts DEF NamesOnce
    <2>2. \A i \in 1 .. Len(order) : order[i] \in T
      BY <2>1, ElementOfSeq
    <2>3. \A i \in 1 .. Len(order) : SyncEntry(order[i], entries[order[i]]) \in Plain
      BY <1>3, <2>2, SyncEntryPlain
    <2>4. Syncs(order) = [i \in 1 .. Len(order) |-> SyncEntry(order[i], entries[order[i]])]
      BY <2>1
    <2> HIDE DEF Syncs, entries
    <2> QED BY <2>1, <2>3, <2>4
  <1>5. Drops(gone) \in Seq(Plain)
    <2>1. gone \in Seq(Known \ T) /\ DOMAIN gone = 1 .. Len(gone) /\ Len(gone) \in Nat
      BY <1>3, OrderFacts DEF NamesOnce
    <2>2. \A i \in 1 .. Len(gone) : gone[i] \in InTags
      BY <1>3, <2>1, ElementOfSeq
    <2>3. \A i \in 1 .. Len(gone) : DropInbound(gone[i]) \in Plain
      BY <2>2, DropPlain
    <2> QED BY <2>1, <2>3
  <1>6. Prunes(gone) \in Plain
    <2>1. <<>> \in Plain
      BY EmptySeq DEF Plain, Programs, Runnable, Begins
    <2> QED BY <2>1, PrunePlain
  <1> DEFINE a == FlattenSeq(Syncs(order))
             b == FlattenSeq(Drops(gone))
             d == Prunes(gone)
  <1>7. a \in Plain /\ b \in Plain /\ d \in Plain
    <2> HIDE DEF Syncs, Drops, Prunes
    <2> QED BY <1>4, <1>5, <1>6, FlattenPlain
  <1>8. Take(c, a \o b \o d)
    BY <1>1
  <1> HIDE DEF a, b, d
  <1>9. a \o b \in Plain
    BY <1>7, JoinFacts DEF Plain
  <1>10. a \o b \o d \in Plain
    BY <1>7, <1>9, JoinFacts DEF Plain
  <1>11. a \o b \o d \in Programs /\ partial' \in BOOLEAN /\ (partial => partial')
    BY <1>2, <1>10, TypesHold DEF Plain, CatTypes
  <1> QED BY <1>2, <1>8, <1>10, <1>11, BeginKeeps

\* The calls whose statements are all of one kind.
LEMMA PlainCallKeeps ==
  ASSUME CatInv, NEW c \in Clerks, Free(c), NEW s \in Plain, Take(c, s),
         UNCHANGED <<inbounds, hosts, proxies, tagLists, fetched, raced, ended, partial, wiped>>
  PROVE  CatInv'
  <1>1. s \in Programs /\ partial' \in BOOLEAN /\ (partial => partial')
    BY TypesHold DEF Plain, CatTypes
  <1> QED BY <1>1, BeginKeeps

LEMMA CallsKeep ==
  ASSUME CatInv, NEW c \in Clerks, Free(c),
         \/ \E t \in InTags :
              \/ \E row \in Rows : HandleSyncInbounds(c, t, row)
              \/ HandleDeleteInbound(c, t)
              \/ \E p \in Protos \ Special : ApplyParsedXrayConfig(c, t, p)
         \/ \E body \in Bodies : HandlePutHosts(c, body)
         \/ \E doc \in Docs : HandleUpdateXrayConfig(c, doc)
  PROVE  CatInv'
  <1>1. ASSUME NEW t \in InTags, NEW row \in Rows, HandleSyncInbounds(c, t, row) PROVE CatInv'
    <2>1. SyncEntry(t, row) \in Plain
      BY SyncEntryPlain
    <2> QED BY <1>1, <2>1, PlainCallKeeps DEF HandleSyncInbounds
  <1>2. ASSUME NEW t \in InTags, HandleDeleteInbound(c, t) PROVE CatInv'
    <2>1. DropInbound(t) \in Plain /\ PruneOrphaned \in Plain
      BY DropPlain, PrunePlain
    <2>2. DropInbound(t) \o PruneOrphaned \in Plain
      BY <2>1, JoinFacts DEF Plain
    <2> QED BY <1>2, <2>2, PlainCallKeeps DEF HandleDeleteInbound
  <1>3. ASSUME NEW t \in InTags, NEW p \in Protos \ Special, ApplyParsedXrayConfig(c, t, p) PROVE CatInv'
    <2> DEFINE a == SyncEntry(t, [proto |-> p, special |-> FALSE])
               b == << [op |-> "top", tag |-> t], [op |-> "clear", tag |-> t], [op |-> "above", tag |-> t] >>
    <2>1. [proto |-> p, special |-> FALSE] \in Rows
      BY DEF Rows
    <2>2. a \in Plain /\ b \in Plain
      BY <2>1, SyncEntryPlain, AbovePlain
    <2>3. Take(c, a \o b) /\ UNCHANGED <<inbounds, hosts, proxies, tagLists, fetched, raced, ended, partial, wiped>>
      BY <1>3 DEF ApplyParsedXrayConfig
    <2> HIDE DEF a, b
    <2>4. a \o b \in Plain
      BY <2>2, JoinFacts DEF Plain
    <2> QED BY <2>3, <2>4, PlainCallKeeps
  <1> QED BY <1>1, <1>2, <1>3, HandlePutHostsKeeps, HandleUpdateXrayConfigKeeps

\* The default hosts of a panel that has been in use.
LEMMA SeedRanks ==
  ASSUME hosts = [t \in InTags |-> <<Cardinality({u \in InTags : u < t})>>]
  PROVE  hosts \in [InTags -> Seq(0 .. MaxRank)] /\ PrioritiesDistinct
  <1> DEFINE below == [t \in InTags |-> {u \in InTags : u < t}]
  <1>1. \A t \in InTags : t \in Nat
    BY CatalogAssumption
  <1>2. below \in [InTags -> SUBSET InTags] /\ \A t \in InTags : below[t] = {u \in InTags : u < t}
    OBVIOUS
  <1> HIDE DEF below
  <1>3. /\ \A t \in InTags : t \notin below[t]
        /\ \A t, u \in InTags : t # u => t \in below[u] \/ u \in below[t]
        /\ \A t, u \in InTags : t \in below[u] => below[t] \subseteq below[u]
    BY <1>1, <1>2
  <1>4. /\ \A t \in InTags : Cardinality(below[t]) \in Nat /\ Cardinality(below[t]) < Cardinality(InTags)
        /\ \A t, u \in InTags : Cardinality(below[t]) = Cardinality(below[u]) => t = u
    BY <1>2, <1>3, CatalogAssumption, PlacesDiffer
  <1>5. \A t \in InTags : hosts[t] = <<Cardinality(below[t])>>
    BY <1>2
  <1>6. \A t \in InTags : Cardinality(below[t]) \in 0 .. MaxRank
    <2>1. Cardinality(InTags) \in Nat /\ Cardinality(InTags) <= MaxRank + 1 /\ MaxRank \in Nat
      BY CatalogAssumption, FS_CardinalityType
    <2> QED BY <1>4, <2>1
  <1>7. \A t \in InTags : hosts[t] \in Seq(0 .. MaxRank) /\ DOMAIN hosts[t] = {1} /\ hosts[t][1] = Cardinality(below[t])
    <2>1. \A x \in 0 .. MaxRank : <<x>> \in Seq(0 .. MaxRank) /\ DOMAIN <<x>> = {1} /\ <<x>>[1] = x
      OBVIOUS
    <2> QED BY <1>5, <1>6, <2>1
  <1>8. hosts \in [InTags -> Seq(0 .. MaxRank)]
    BY <1>7
  <1>9. PrioritiesDistinct
    BY <1>4, <1>7 DEF PrioritiesDistinct
  <1> QED BY <1>8, <1>9

LEMMA CatInvInitially ==
  ASSUME CatalogInit
  PROVE  CatInv
  <1>1. /\ proxies = Protos /\ tagLists = [p \in Protos |-> NotCached] /\ fetched = {} /\ raced = {}
        /\ todo = [c \in Clerks |-> <<>>] /\ local = [c \in Clerks |-> NoLocal] /\ served = 0
        /\ overlapped = FALSE /\ clashed = FALSE /\ ended = FALSE /\ partial = FALSE /\ wiped = FALSE
    BY DEF CatalogInit
  <1>2. /\ inbounds \in [InTags -> Rows \cup {NoInbound}]
        /\ hosts \in [InTags -> Seq(0 .. MaxRank)]
        /\ PrioritiesDistinct /\ HostsHaveInbounds
    <2>1. CASE inbounds = [t \in InTags |-> NoInbound] /\ hosts = [t \in InTags |-> <<>>]
      <3>1. \A t \in InTags : hosts[t] = <<>> /\ DOMAIN hosts[t] = {}
        BY <2>1, EmptySeq
      <3>2. hosts \in [InTags -> Seq(0 .. MaxRank)]
        BY <2>1, EmptySeq
      <3> QED BY <2>1, <3>1, <3>2 DEF PrioritiesDistinct, HostsHaveInbounds
    <2>2. CASE inbounds = Seed /\ hosts = [t \in InTags |-> <<Cardinality({u \in InTags : u < t})>>]
      <3>1. \A r \in Rows : r # NoInbound
        BY CatalogAssumption DEF Rows, NoInbound
      <3>2. \A t \in InTags : inbounds[t] \in Rows
        BY <2>2, CatalogAssumption
      <3>3. HostsHaveInbounds
        BY <3>1, <3>2 DEF HostsHaveInbounds
      <3> QED BY <2>2, <3>3, CatalogAssumption, SeedRanks
    <2> QED BY <2>1, <2>2 DEF CatalogInit
  <1>3. \A i \in 1 .. Len(<<>>) : FALSE
    BY EmptySeq
  <1>4. \A c \in Clerks : todo[c] = <<>> /\ local[c] = NoLocal
    BY <1>1
  <1>5. CatTypes
    <2>1. NoLocal \in Locals
      BY CatalogAssumption DEF NoLocal, Locals
    <2>2. Runnable(<<>>)
      BY EmptySeq DEF Runnable
    <2>3. todo \in [Clerks -> Seq(Statements)] /\ local \in [Clerks -> Locals]
      BY <1>1, <2>1, EmptySeq
    <2>4. tagLists \in [Protos -> (SUBSET InTags) \cup {NotCached}] /\ \A p \in Protos : tagLists[p] = NotCached
      BY <1>1
    <2>5. served \in 0 .. MaxCatalogCalls
      BY <1>1, CatalogAssumption
    <2>6. CatalogTypeOK
      BY <1>1, <1>2, <2>4, <2>5 DEF CatalogTypeOK
    <2> QED BY <1>1, <1>2, <1>4, <2>2, <2>3, <2>4, <2>6 DEF CatTypes
  <1>6. Apart
    BY <1>3, <1>4 DEF Apart
  <1>7. ReadsHold
    BY <1>4 DEF ReadsHold, ReadHolds, Does, WillUseTop
  <1>8. ListsAreOwed
    BY <1>1 DEF ListsAreOwed
  <1>9. RanksHold
    BY <1>2, <1>3, <1>4 DEF RanksHold, NoHostWrites
  <1>10. Unwiped
    BY <1>1 DEF Unwiped
  <1> QED BY <1>2, <1>5, <1>6, <1>7, <1>8, <1>9, <1>10 DEF CatInv

LEMMA CatInvKept ==
  ASSUME CatInv, [CatalogNext]_catVars
  PROVE  CatInv'
  <1>1. CASE UNCHANGED catVars
    <2>1. UNCHANGED <<inbounds, hosts, proxies, tagLists, fetched, raced, todo, local, served, overlapped, clashed, ended, partial, wiped>>
      BY <1>1 DEF catVars
    <2>2. CatTypes'
      <3>1. CatalogTypeOK'
        BY <2>1, TypesHold DEF CatTypes, CatalogTypeOK
      <3>2. \A d \in Clerks : Runnable(todo[d])'
        BY <2>1, TypesHold DEF CatTypes, Runnable
      <3> QED BY <2>1, <3>1, <3>2, TypesHold DEF CatTypes
    <2>3. Apart' /\ HostsHaveInbounds' /\ Unwiped'
      BY <2>1, TypesHold DEF Apart, HostsHaveInbounds, Unwiped
    <2>4. ReadsHold'
      BY <2>1, TypesHold DEF ReadsHold, ReadHolds, Does, This, WillUseTop, Known
    <2>5. RanksHold'
      BY <2>1, TypesHold, RanksSame
    <2>6. ListsAreOwed'
      BY <2>1, TypesHold DEF ListsAreOwed, Owed, Does, This, StaleLists
    <2> QED BY <2>2, <2>3, <2>4, <2>5, <2>6 DEF CatInv
  <1>2. ASSUME NEW c \in Clerks,
               \/ ReadStatement(c) \/ UpsertInbound(c) \/ InvalidateInbound(c)
               \/ DeleteInboundByTag(c) \/ DeleteHostsByInboundTag(c) \/ CreateHost(c)
               \/ PruneOrphanedProxies(c) \/ StatementFails(c)
        PROVE  CatInv'
    BY <1>2, ReadStatementKeeps, UpsertInboundKeeps, InvalidateInboundKeeps, DeleteInboundByTagKeeps,
       DeleteHostsByInboundTagKeeps, CreateHostKeeps, PruneOrphanedProxiesKeeps, StatementFailsKeeps
  <1>3. ASSUME NEW p \in Protos, FetchTags(p) \/ CreateProxy(p) PROVE CatInv'
    BY <1>3, FetchTagsKeeps, CreateProxyKeeps
  <1>4. ASSUME NEW list \in fetched, FileTags(list) PROVE CatInv'
    BY <1>4, FileTagsKeeps
  <1> QED BY <1>1, <1>2, <1>3, <1>4, CallsKeep DEF CatalogNext

LEMMA CatInvSays ==
  ASSUME CatInv
  PROVE  CatalogInv
  <1>1. ASSUME Quiet, ~clashed, ~ended, NEW p \in Protos \ raced PROVE tagLists[p] \in {NotCached, TagsOf(p)}
    <2> SUFFICES ASSUME tagLists[p] # NotCached PROVE tagLists[p] = TagsOf(p)
      OBVIOUS
    <2>1. tagLists[p] \subseteq InTags
      BY TypesHold DEF CatTypes, CatalogTypeOK
    <2>2. \A t \in InTags : ~Owed(t, p)
      BY <1>1 DEF Quiet, Owed, Does
    <2>3. \A t \in InTags : t \in tagLists[p] <=> inbounds[t].proto = p
      BY <1>1, <2>2, TypesHold DEF ListsAreOwed
    <2> QED BY <2>1, <2>3 DEF TagsOf
  <1>2. ASSUME Quiet, ~overlapped, ~ended, ~partial PROVE PrioritiesDistinct
    BY <1>2, TypesHold DEF RanksHold, Quiet
  <1>3. CatalogTypeOK /\ (~overlapped => ~wiped)
    BY TypesHold DEF CatTypes, Unwiped
  <1> QED BY <1>1, <1>2, <1>3 DEF CatalogInv, CatalogIsSound

(* A panel's inbounds, hosts and cached tag lists fit together: no prune     *)
(* runs on an empty table while calls take turns; calls about different tags *)
(* that run to their end leave no stale list but one a reader filed late;    *)
(* and of calls that neither overlap nor end early every host has a priority *)
(* of its own, unless a PUT named only some tags (inbounds.go, hosts.go,     *)
(* xrayconfig.go).                                                           *)
THEOREM CatalogTheorem == CatalogSpec => []CatalogInv
  <1>1. CatalogInit => CatInv
    BY CatInvInitially
  <1>2. CatInv /\ [CatalogNext]_catVars => CatInv'
    BY CatInvKept
  <1>3. CatInv => CatalogInv
    BY CatInvSays
  <1> QED BY <1>1, <1>2, <1>3, PTL DEF CatalogSpec
=============================================================================
