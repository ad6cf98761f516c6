----------------------------- MODULE CoreConfig -----------------------------
(***************************************************************************)
(* The fleet's core config and the profiles of its nodes:                  *)
(* internal/httpapi/coreconfig.go, nodeprofile.go, node.go, the merging    *)
(* import of xrayimport.go and the core config cache of store.go.          *)
(*                                                                         *)
(* A node runs the fleet's config with its own overrides on top, so each   *)
(* of the two is checked against the other when it is saved: a call reads, *)
(* checks, and writes in a later statement, and calls overlap.  A reader   *)
(* that misses the cached copy reads the row and files what it read later. *)
(*                                                                         *)
(* An outbound is the tag of the one it groups, or a leaf; a rule is its   *)
(* target.  All other fields are checked by themselves and left out.       *)
(***************************************************************************)
EXTENDS Integers, Sequences, FiniteSets, SequencesExt

CONSTANTS
  Documents,     \* core configs that are saved or imported
  Overrides,     \* what requests send as a node's overrides
  FleetNodes,    \* nodes
  FleetSpecs,    \* by inbound tag, its ports and the primary one
  TagChoices,    \* what requests send as a node's inbounds ...
  PortChoices,   \* ... and ports
  Savers,        \* calls that can be served at once
  MaxSaves,      \* bound: calls
  MaxRowsRead    \* bound: different rows that readers have read

ASSUME CoreAssumption ==
  /\ \A d \in Documents \cup Overrides : d.rules \in Seq(STRING)
  /\ \A t \in DOMAIN FleetSpecs :
       FleetSpecs[t].primary \in FleetSpecs[t].ports /\ FleetSpecs[t].ports \subseteq Nat
  /\ MaxSaves \in Nat /\ MaxRowsRead \in Nat

VARIABLES
  fleet,     \* the core_config row
  copy,      \* its copy in the cache
  rowsRead,  \* the rows that readers have read and may still file as the copy
  node,      \* by node, its profile, if it exists
  saving,    \* by saver, the call it serves
  saves,     \* calls so far
  crossed,   \* history: two calls overlapped
  unflushed  \* history: dropping the copy failed, or a reader filed one that was outdated

coreVars == <<fleet, copy, rowsRead, node, saving, saves, crossed, unflushed>>

Implicit == {"direct", "block"}
Empty == [outs |-> [o \in {} |-> "leaf"], rules |-> <<>>]
NoCopy == [outs |-> [o \in {} |-> "leaf"], rules |-> <<"not cached">>]
NoNode == [tags |-> {}, ports |-> {}, over |-> NoCopy]
IdleSaver == [kind |-> "idle"]

CoreInit ==
  /\ fleet = Empty
  /\ copy = NoCopy /\ rowsRead = {}
  /\ node = [n \in FleetNodes |-> NoNode]
  /\ saving = [s \in Savers |-> IdleSaver]
  /\ saves = 0
  /\ crossed = FALSE /\ unflushed = FALSE

(* validateCoreConfig: members and targets are the document's own tags or    *)
(* the built-in ones.                                                        *)
ValidateCoreConfig(dto) ==
  LET targets == DOMAIN dto.outs \cup Implicit
  IN /\ \A o \in DOMAIN dto.outs : dto.outs[o] = "leaf" \/ dto.outs[o] \in targets
     /\ \A i \in DOMAIN dto.rules : dto.rules[i] \in targets

(* coreOverridesDTO.apply: an outbound replaces the fleet's of its tag or is *)
(* added, rules go first.                                                    *)
Apply(over, dto) ==
  [outs |-> [o \in DOMAIN over.outs \cup DOMAIN dto.outs |->
               IF o \in DOMAIN over.outs THEN over.outs[o] ELSE dto.outs[o]],
   rules |-> over.rules \o dto.rules]

Serve(s, call) ==
  /\ saves < MaxSaves
  /\ saving[s] = IdleSaver
  /\ saves' = saves + 1
  /\ saving' = [saving EXCEPT ![s] = call]
  /\ crossed' = (crossed \/ \E r \in Savers \ {s} : saving[r] # IdleSaver)

Done(s) == saving' = [saving EXCEPT ![s] = IdleSaver]

----------------------------------------------------------------------------
(* The fleet's config *)

\* Fault: saving the fleet's config does not look at the nodes.
FleetAlone(dto) == TRUE

(* validateNodeOverridesAgainstFleet *)
NodesStayValid(dto) ==
  \A n \in FleetNodes : node[n] # NoNode => ValidateCoreConfig(Apply(node[n].over, dto))

(* applyCoreConfig up to its write. *)
HandleUpdateCoreConfig(s, dto) ==
  /\ ValidateCoreConfig(dto)
  /\ NodesStayValid(dto)
  /\ Serve(s, [kind |-> "fleet", dto |-> dto, base |-> dto])
  /\ UNCHANGED <<fleet, copy, rowsRead, node, unflushed>>

(* appendNewRoutingRules: rules that are new go last, in their order and     *)
(* each of them once.                                                        *)
AppendNewRoutingRules(existing, imported) ==
  LET new == {i \in DOMAIN imported :
                ~Contains(existing, imported[i]) /\ \A j \in 1 .. i - 1 : imported[j] # imported[i]}
      Place(i) == Cardinality({j \in new : j <= i})
  IN existing \o [k \in 1 .. Cardinality(new) |-> imported[CHOOSE i \in new : Place(i) = k]]

(* mergeCoreConfigForImport starts from the cached copy: tags that are there *)
(* stay as they are.                                                         *)
MergeCoreConfigForImport(base, parsed) ==
  [outs |-> [o \in DOMAIN base.outs \cup DOMAIN parsed.outs |->
               IF o \in DOMAIN base.outs THEN base.outs[o] ELSE parsed.outs[o]],
   rules |-> AppendNewRoutingRules(base.rules, parsed.rules)]

HandleImportXrayConfig(s, parsed) ==
  /\ Serve(s, [kind |-> "import", parsed |-> parsed, missed |-> copy = NoCopy,
               base |-> IF copy = NoCopy THEN fleet ELSE copy])
  /\ UNCHANGED <<fleet, copy, rowsRead, node, unflushed>>

(* It files what it read, unless that fails, merges, and applies the result. *)
MergeImport(s) ==
  /\ saving[s].kind = "import"
  /\ copy' \in {copy, IF saving[s].missed THEN saving[s].base ELSE copy}
  /\ LET base == saving[s].base
         merged == MergeCoreConfigForImport(base, saving[s].parsed)
     IN saving' = [saving EXCEPT ![s] =
          IF ValidateCoreConfig(merged) /\ NodesStayValid(merged)
            THEN [kind |-> "fleet", dto |-> merged, base |-> base] ELSE IdleSaver]
  /\ UNCHANGED <<fleet, rowsRead, node, saves, crossed, unflushed>>

UpdateCoreConfig(s) ==
  /\ saving[s].kind = "fleet"
  /\ fleet' = saving[s].dto
  /\ saving' = [saving EXCEPT ![s] = [kind |-> "flush"]]
  /\ UNCHANGED <<copy, rowsRead, node, saves, crossed, unflushed>>

\* Fault: the copy is left to its hour.
KeepCopy(s) == copy

CopyAfterSave(s) == NoCopy

(* InvalidateCoreConfig; its failure is only logged. *)
InvalidateCoreConfig(s) ==
  /\ saving[s].kind = "flush"
  /\ \/ copy' = CopyAfterSave(s) /\ UNCHANGED unflushed
     \/ UNCHANGED copy /\ unflushed' = TRUE
  /\ Done(s)
  /\ UNCHANGED <<fleet, rowsRead, node, saves, crossed>>

Flushing == \E s \in Savers : saving[s].kind = "flush"

(* CachedGetCoreConfig, of the settings page and the raw config document: a  *)
(* reader that missed, maybe before others filed a copy, reads the row ...   *)
FetchCoreConfig ==
  /\ Cardinality(rowsRead) < MaxRowsRead
  /\ rowsRead' = rowsRead \cup {fleet}
  /\ UNCHANGED <<fleet, copy, node, saving, saves, crossed, unflushed>>

(* ... and files it, which may be after a save has dropped the copy.  Many   *)
(* may have read the same, so the row stays to be filed.                     *)
FileCoreConfig(row) ==
  /\ copy' = row
  /\ unflushed' = (unflushed \/ (row # fleet /\ ~Flushing))
  /\ UNCHANGED <<fleet, rowsRead, node, saving, saves, crossed>>

(* The copy's hour is over. *)
CopyExpires ==
  /\ copy # NoCopy
  /\ copy' = NoCopy
  /\ UNCHANGED <<fleet, rowsRead, node, saving, saves, crossed, unflushed>>

----------------------------------------------------------------------------
(* The nodes *)

KnownTags(tags) == tags \subseteq DOMAIN FleetSpecs

Absent == [rules |-> <<"absent">>]

(* resolveNodeProfile: only what the request sent is checked, on top of the  *)
(* profile that was read.                                                    *)
ResolveNodeProfile(base, tags, ports, over) ==
  [tags |-> tags, ports |-> ports, over |-> IF over = Absent THEN base.over ELSE over]

Resolvable(tags, over) ==
  /\ KnownTags(tags)
  /\ over # Absent => ValidateCoreConfig(Apply(over, fleet))

HandleCreateNode(s, n, tags, ports, over) ==
  /\ node[n] = NoNode
  /\ Resolvable(tags, over)
  /\ Serve(s, [kind |-> "create", node |-> n,
               profile |-> ResolveNodeProfile([NoNode EXCEPT !.over = Empty], tags, ports, over)])
  /\ UNCHANGED <<fleet, copy, rowsRead, node, unflushed>>

HandleUpdateNode(s, n, tags, ports, over) ==
  /\ node[n] # NoNode
  /\ Resolvable(tags, over)
  /\ Serve(s, [kind |-> "update", node |-> n,
               profile |-> ResolveNodeProfile(node[n], tags, ports, over)])
  /\ UNCHANGED <<fleet, copy, rowsRead, node, unflushed>>

(* CreateNode fails when the name is taken, UpdateNode when the row is gone. *)
WriteNode(s) ==
  /\ saving[s].kind \in {"create", "update"}
  /\ LET n == saving[s].node
         fits == (node[n] = NoNode) <=> (saving[s].kind = "create")
     IN node' = IF fits THEN [node EXCEPT ![n] = saving[s].profile] ELSE node
  /\ Done(s)
  /\ UNCHANGED <<fleet, copy, rowsRead, saves, crossed, unflushed>>

HandleDeleteNode(n) ==
  /\ node[n] # NoNode
  /\ node' = [node EXCEPT ![n] = NoNode]
  /\ UNCHANGED <<fleet, copy, rowsRead, saving, saves, crossed, unflushed>>

\* Fault: the primary port stays what the fleet's spec says.
PrimaryOfFleet(spec, kept) == spec.primary

PrimaryPort(spec, kept) ==
  IF spec.primary \in kept THEN spec.primary ELSE CHOOSE p \in kept : \A r \in kept : p <= r

(* nodeProfile.filterInbounds: what a node is given of the fleet's inbounds. *)
FilterInbounds(profile) ==
  LET mine == {t \in DOMAIN FleetSpecs : profile.tags = {} \/ t \in profile.tags}
      Kept(t) == IF profile.ports = {} THEN FleetSpecs[t].ports
                 ELSE FleetSpecs[t].ports \cap profile.ports
  IN [t \in {u \in mine : Kept(u) # {}} |->
       [ports |-> Kept(t), primary |-> PrimaryPort(FleetSpecs[t], Kept(t))]]

CoreNext ==
  \/ \E s \in Savers :
       \/ \E dto \in Documents : HandleUpdateCoreConfig(s, dto) \/ HandleImportXrayConfig(s, dto)
       \/ \E n \in FleetNodes, tags \in TagChoices, ports \in PortChoices,
             over \in Overrides \cup {Absent} :
            HandleCreateNode(s, n, tags, ports, over) \/ HandleUpdateNode(s, n, tags, ports, over)
       \/ MergeImport(s) \/ UpdateCoreConfig(s) \/ InvalidateCoreConfig(s) \/ WriteNode(s)
  \/ \E n \in FleetNodes : HandleDeleteNode(n)
  \/ FetchCoreConfig \/ CopyExpires
  \/ \E row \in rowsRead : FileCoreConfig(row)

CoreSpec == CoreInit /\ [][CoreNext]_coreVars

----------------------------------------------------------------------------
CoreTypeOK ==
  /\ ValidateCoreConfig(fleet)
  /\ saves \in 0..MaxSaves
  /\ \A n \in FleetNodes : KnownTags(node[n].tags)
  /\ \A s \in Savers : saving[s].kind \in {"idle", "import", "fleet", "flush", "create", "update"}

(* What every node is given is valid: its merged core config names only      *)
(* outbounds that are there, whichever of the two was saved last, unless     *)
(* saves overlapped (nodeprofile.go:399); and the one port that an older     *)
(* node reads of an inbound is among those it is to serve                    *)
(* (nodeprofile.go:218).                                                     *)
NodesGetValidConfigs ==
  \A n \in FleetNodes : node[n] # NoNode =>
    /\ ~crossed => ValidateCoreConfig(Apply(node[n].over, fleet))
    /\ LET given == FilterInbounds(node[n])
       IN \A t \in DOMAIN given :
            given[t].primary \in given[t].ports /\ given[t].ports \subseteq FleetSpecs[t].ports

(* An import takes nothing away that the fleet's config has when it is       *)
(* written, unless saves overlapped, dropping the cached copy failed, or a   *)
(* reader filed an older row after the copy was dropped (xrayimport.go:193). *)
ImportsOnlyAdd ==
  [][\A s \in Savers :
       UpdateCoreConfig(s) /\ ~crossed /\ ~unflushed /\ saving[s].base # saving[s].dto =>
         /\ DOMAIN fleet.outs \subseteq DOMAIN fleet'.outs
         /\ \A o \in DOMAIN fleet.outs : fleet'.outs[o] = fleet.outs[o]
         /\ IsPrefix(fleet.rules, fleet'.rules)]_coreVars

(* Whatever is saved or imported, nodes are given valid configs              *)
(* (coreconfig.go, nodeprofile.go).                                          *)
CoreConfigIsSound == CoreTypeOK /\ NodesGetValidConfigs
=============================================================================
