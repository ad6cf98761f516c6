--------------------------- MODULE InboundCatalog ---------------------------
(***************************************************************************)
(* The inbounds of the fleet with their hosts, and the calls that change   *)
(* them: internal/httpapi/inbounds.go, hosts.go, xrayconfig.go,            *)
(* xrayimport.go and the inbound caches of store.go.                       *)
(*                                                                         *)
(* No call is a transaction.  A call is the list of statements it has      *)
(* still to run; calls interleave statement by statement, and the first    *)
(* statement that fails ends its call where it stands.                     *)
(*                                                                         *)
(* An inbound is its protocol and whether the settings that only its       *)
(* protocol has (hysteria2's obfuscation, snell's key, ...) are there; a   *)
(* host is its priority.  A reader that misses the cache of a tag list     *)
(* reads the table and files what it read, and a write may come between.   *)
(***************************************************************************)
EXTENDS Integers, Sequences, FiniteSets, SequencesExt

CONSTANTS
  InTags,      \* the tags, numbers: they are compared
  Protos,      \* the protocols
  Special,     \* those with settings of their own
  Strict,      \* those of them that are refused without (snell)
  Seed,        \* the inbounds of a panel that has been in use, by tag
  Clerks,      \* calls that can be served at once
  MaxCatalogCalls, \* bound: calls
  MaxFetched,  \* bound: different tag lists that readers have read
  MaxRank      \* bound: priorities

Rows == {r \in [proto : Protos, special : BOOLEAN] : r.special => r.proto \in Special}

ASSUME CatalogAssumption ==
  /\ InTags \subseteq Nat /\ IsFiniteSet(InTags)
  /\ Strict \subseteq Special /\ Special \subseteq Protos /\ "none" \notin Protos
  /\ Seed \in [InTags -> Rows]
  /\ MaxCatalogCalls \in Nat /\ MaxFetched \in Nat /\ MaxRank \in Nat /\ Cardinality(InTags) <= MaxRank + 1

VARIABLES
  inbounds,   \* the table: by tag
  hosts,      \* by tag, the priorities of its hosts in their order
  proxies,    \* the protocols the users have credentials for
  tagLists,   \* the cache: the tags of a protocol
  fetched,    \* the tag lists that readers have read and may still file
  raced,      \* history: the protocols whose cached list was old when filed
  todo,       \* by clerk, the statements its call has still to run
  local,      \* by clerk, what its call has read
  served,     \* calls so far
  overlapped, \* history: two calls overlapped
  clashed,    \* history: and were about the same tag
  ended,      \* history: a call ended early
  partial,    \* history: a PUT of hosts named only some of the tags
  wiped       \* history: a prune found no inbound at all

catVars == <<inbounds, hosts, proxies, tagLists, fetched, raced, todo, local, served, overlapped, clashed, ended,
             partial, wiped>>

NoInbound == [proto |-> "none", special |-> FALSE]
NotCached == {-1}
NoLocal == [old |-> "none", inserted |-> FALSE, top |-> 0, listed |-> {}]

Known == {t \in InTags : inbounds[t] # NoInbound}
TagsOf(p) == {t \in InTags : inbounds[t].proto = p}
Ranks == UNION {{hosts[t][i] : i \in DOMAIN hosts[t]} : t \in InTags}

(* A fresh panel, or one with an inbound under every tag, each with its      *)
(* default host.                                                             *)
CatalogInit ==
  /\ \/ inbounds = [t \in InTags |-> NoInbound] /\ hosts = [t \in InTags |-> <<>>]
     \/ /\ inbounds = Seed
        /\ hosts = [t \in InTags |-> <<Cardinality({u \in InTags : u < t})>>]
  /\ proxies = Protos
  /\ tagLists = [p \in Protos |-> NotCached]
  /\ fetched = {} /\ raced = {}
  /\ todo = [c \in Clerks |-> <<>>]
  /\ local = [c \in Clerks |-> NoLocal]
  /\ served = 0
  /\ overlapped = FALSE /\ clashed = FALSE /\ ended = FALSE
  /\ partial = FALSE /\ wiped = FALSE

----------------------------------------------------------------------------
(* The statements of each call *)

(* syncInboundEntries for one entry; the default host only when inserted. *)
SyncEntry(t, row) ==
  << [op |-> "lookup", tag |-> t], [op |-> "upsert", tag |-> t, row |-> row],
     [op |-> "invalidate", tag |-> t, proto |-> row.proto],
     [op |-> "top", tag |-> t], [op |-> "default", tag |-> t] >>

(* deleteInboundByTag *)
DropInbound(t) ==
  << [op |-> "find", tag |-> t], [op |-> "drop", tag |-> t],
     [op |-> "invalidate", tag |-> t, proto |-> "found"] >>

(* pruneOrphanedProxies *)
PruneOrphaned == << [op |-> "list", tag |-> 0], [op |-> "prune", tag |-> 0] >>

(* DeleteHostsByInboundTag, then CreateHost for each of the new ones. *)
ReplaceHosts(t, ranks) ==
  <<[op |-> "clear", tag |-> t]>> \o
  [i \in 1..Len(ranks) |-> [op |-> "host", tag |-> t, rank |-> ranks[i]]]

\* The orders in which a call may take a set of tags.
Orders == [T \in SUBSET InTags |-> SetToSeqs(T)]

\* syncInboundEntries refuses an entry before it writes any.
Acceptable(doc) == \A t \in DOMAIN doc : doc[t].proto \in Strict => doc[t].special

Free(c) == todo[c] = <<>> /\ served < MaxCatalogCalls

Take(c, statements) ==
  /\ served' = served + 1
  /\ todo' = [todo EXCEPT ![c] = statements]
  /\ local' = [local EXCEPT ![c] = NoLocal]
  /\ LET others == UNION {ToSet(todo[d]) : d \in Clerks \ {c}}
     IN /\ overlapped' = (overlapped \/ others # {})
        /\ clashed' = (clashed \/ \E x \in others, y \in ToSet(statements) : x.tag = y.tag)

HandleSyncInbounds(c, t, row) ==
  /\ Acceptable([u \in {t} |-> row])
  /\ Take(c, SyncEntry(t, row))
  /\ UNCHANGED <<inbounds, hosts, proxies, tagLists, fetched, raced, ended, partial, wiped>>

HandleDeleteInbound(c, t) ==
  /\ Take(c, DropInbound(t) \o PruneOrphaned)
  /\ UNCHANGED <<inbounds, hosts, proxies, tagLists, fetched, raced, ended, partial, wiped>>

\* Fault: the priorities are taken as they come.
RanksAsSent(body) == body

(* normalizeHostPriorities: 0, 1, ... in the order of the priorities that    *)
(* were sent, ties by tag and place.                                         *)
NormalizeHostPriorities(body) ==
  LET refs == UNION {{t} \X DOMAIN body[t] : t \in DOMAIN body}
      Sent(r) == body[r[1]][r[2]]
      Before(r, s) ==
        \/ Sent(r) < Sent(s)
        \/ Sent(r) = Sent(s) /\ (r[1] < s[1] \/ (r[1] = s[1] /\ r[2] < s[2]))
  IN [t \in DOMAIN body |-> [i \in DOMAIN body[t] |->
       Cardinality({r \in refs : Before(r, <<t, i>>)})]]

(* handlePutHosts: every tag of the body must be known, through a cache; the *)
(* tags are written in the order of a Go map, which is any.                  *)
HandlePutHosts(c, body) ==
  /\ DOMAIN body \subseteq Known
  /\ \E order \in Orders[DOMAIN body] :
       LET ranked == NormalizeHostPriorities(body)
       IN Take(c, FlattenSeq([i \in DOMAIN order |-> ReplaceHosts(order[i], ranked[order[i]])]))
  /\ partial' = (partial \/ DOMAIN body # Known)
  /\ UNCHANGED <<inbounds, hosts, proxies, tagLists, fetched, raced, ended, wiped>>

(* handleUpdateXrayConfig builds its entries without the settings that only  *)
(* one protocol has.                                                         *)
EntryOf(row) == [row EXCEPT !.special = FALSE]

(* The tags that are there before the sync and not in the document go; then  *)
(* the core config is applied (CoreConfig).                                  *)
HandleUpdateXrayConfig(c, doc) ==
  /\ \E order \in Orders[DOMAIN doc], gone \in Orders[Known \ DOMAIN doc] :
       LET entries == [t \in DOMAIN doc |-> EntryOf(doc[t])]
       IN /\ Acceptable(entries)
          /\ Take(c, FlattenSeq([i \in DOMAIN order |-> SyncEntry(order[i], entries[order[i]])])
                     \o FlattenSeq([i \in DOMAIN gone |-> DropInbound(gone[i])])
                     \o IF gone = <<>> THEN <<>> ELSE PruneOrphaned)
  /\ UNCHANGED <<inbounds, hosts, proxies, tagLists, fetched, raced, ended, partial, wiped>>

(* applyParsedXrayConfig: the sync, then one host with a port, above the     *)
(* highest priority of all hosts.  Xray has no protocol of the special ones. *)
ApplyParsedXrayConfig(c, t, proto) ==
  /\ Acceptable([u \in {t} |-> [proto |-> proto, special |-> FALSE]])
  /\ Take(c, SyncEntry(t, [proto |-> proto, special |-> FALSE]) \o
             << [op |-> "top", tag |-> t], [op |-> "clear", tag |-> t],
                [op |-> "above", tag |-> t] >>)
  /\ UNCHANGED <<inbounds, hosts, proxies, tagLists, fetched, raced, ended, partial, wiped>>

----------------------------------------------------------------------------
(* Running a statement *)

Does(c, op) == todo[c] # <<>> /\ Head(todo[c]).op = op
This(c) == Head(todo[c])
Proceed(c) == todo' = [todo EXCEPT ![c] = Tail(@)]
Learn(c, what) == local' = [local EXCEPT ![c] = what]

Highest == IF Ranks = {} THEN -1 ELSE CHOOSE r \in Ranks : \A s \in Ranks : s <= r

(* GetInboundByTag, GetMaxHostPriority, ListInbounds *)
ReadStatement(c) ==
  LET here == local[c] IN
  /\ \/ Does(c, "lookup") /\ Learn(c, [here EXCEPT !.old = inbounds[This(c).tag].proto])
     \/ /\ Does(c, "find") /\ inbounds[This(c).tag] # NoInbound
        /\ Learn(c, [here EXCEPT !.old = inbounds[This(c).tag].proto])
     \/ Does(c, "top") /\ Learn(c, [here EXCEPT !.top = Highest])
     \/ Does(c, "list") /\ Learn(c, [here EXCEPT !.listed = Known])
  /\ Proceed(c)
  /\ UNCHANGED <<inbounds, hosts, proxies, tagLists, fetched, raced, served, overlapped, clashed, ended, partial, wiped>>

UpsertInbound(c) ==
  /\ Does(c, "upsert")
  /\ LET s == This(c) IN
     /\ inbounds' = [inbounds EXCEPT ![s.tag] = s.row]
     /\ Learn(c, [local[c] EXCEPT !.inserted = inbounds[s.tag] = NoInbound])
  /\ Proceed(c)
  /\ UNCHANGED <<hosts, proxies, tagLists, fetched, raced, served, overlapped, clashed, ended, partial, wiped>>

\* Fault: the protocol that the tag had before is forgotten.
StaleOfNow(c) == {IF This(c).proto = "found" THEN local[c].old ELSE This(c).proto}

(* The protocol of the entry and the one that was looked up or found. *)
StaleLists(c) == {This(c).proto, local[c].old}

InvalidateInbound(c) ==
  /\ Does(c, "invalidate")
  /\ LET stale == StaleLists(c)
     IN /\ tagLists' = [p \in Protos |-> IF p \in stale THEN NotCached ELSE tagLists[p]]
        /\ raced' = raced \ stale
  /\ Proceed(c)
  /\ UNCHANGED <<inbounds, hosts, proxies, fetched, local, served, overlapped, clashed, ended, partial, wiped>>

(* Cascades to the tag's hosts. *)
DeleteInboundByTag(c) ==
  /\ Does(c, "drop")
  /\ inbounds' = [inbounds EXCEPT ![This(c).tag] = NoInbound]
  /\ hosts' = [hosts EXCEPT ![This(c).tag] = <<>>]
  /\ Proceed(c)
  /\ UNCHANGED <<proxies, tagLists, fetched, raced, local, served, overlapped, clashed, ended, partial, wiped>>

DeleteHostsByInboundTag(c) ==
  /\ Does(c, "clear")
  /\ hosts' = [hosts EXCEPT ![This(c).tag] = <<>>]
  /\ Proceed(c)
  /\ UNCHANGED <<inbounds, proxies, tagLists, fetched, raced, local, served, overlapped, clashed, ended, partial, wiped>>

\* Fault: a default host keeps the column's default priority.
AtTheBottom(c) == 0

NextPriority(c) == local[c].top + 1

(* The host's inbound must exist. *)
AddHost(c, priority) ==
  /\ inbounds[This(c).tag] # NoInbound /\ priority <= MaxRank
  /\ hosts' = [hosts EXCEPT ![This(c).tag] = Append(@, priority)]

CreateHost(c) ==
  /\ \/ Does(c, "default") /\ local[c].inserted /\ AddHost(c, NextPriority(c))
     \/ Does(c, "default") /\ ~local[c].inserted /\ UNCHANGED hosts
     \/ Does(c, "above") /\ AddHost(c, NextPriority(c))
     \/ Does(c, "host") /\ AddHost(c, This(c).rank)
  /\ Proceed(c)
  /\ UNCHANGED <<inbounds, proxies, tagLists, fetched, raced, local, served, overlapped, clashed, ended, partial, wiped>>

\* Fault: the prune does not ask whether there are inbounds.
AnyInbounds(c) == TRUE

SomeInbound(c) == local[c].listed # {}

PruneOrphanedProxies(c) ==
  /\ Does(c, "prune")
  /\ LET prune == SomeInbound(c) IN
     /\ proxies' = IF prune THEN {p \in proxies : TagsOf(p) # {}} ELSE proxies
     /\ wiped' = (wiped \/ (prune /\ Known = {}))
  /\ Proceed(c)
  /\ UNCHANGED <<inbounds, hosts, tagLists, fetched, raced, local, served, overlapped, clashed, ended, partial>>

(* A statement fails, also for a row or an inbound that is gone: the call    *)
(* answers with the error, and what it did stays.                            *)
StatementFails(c) ==
  /\ todo[c] # <<>>
  /\ todo' = [todo EXCEPT ![c] = <<>>]
  /\ local' = [local EXCEPT ![c] = NoLocal]
  /\ ended' = TRUE
  /\ UNCHANGED <<inbounds, hosts, proxies, tagLists, fetched, raced, served, overlapped, clashed, partial, wiped>>

----------------------------------------------------------------------------
(* Readers, and the users that come and go *)

(* CachedListInboundTagsByProtocol, of user creation and edits: a reader     *)
(* that missed, maybe before others filled the cache, reads the table ...    *)
FetchTags(p) ==
  /\ Cardinality(fetched) < MaxFetched
  /\ fetched' = fetched \cup {[proto |-> p, tags |-> TagsOf(p)]}
  /\ UNCHANGED <<inbounds, hosts, proxies, tagLists, raced, todo, local, served, overlapped, clashed, ended, partial, wiped>>

(* ... and files what it read, which may be old by now.  Many may have read  *)
(* the same, so the list stays to be filed.                                  *)
FileTags(list) ==
  /\ tagLists' = [tagLists EXCEPT ![list.proto] = list.tags]
  /\ raced' = IF list.tags = TagsOf(list.proto) THEN raced \ {list.proto} ELSE raced \cup {list.proto}
  /\ UNCHANGED <<inbounds, hosts, proxies, fetched, todo, local, served, overlapped, clashed, ended, partial, wiped>>

(* createProxyForUser *)
CreateProxy(p) ==
  /\ p \notin proxies
  /\ proxies' = proxies \cup {p}
  /\ UNCHANGED <<inbounds, hosts, tagLists, fetched, raced, todo, local, served, overlapped, clashed, ended, partial, wiped>>

Docs == UNION {[T -> Rows] : T \in SUBSET InTags}
Bodies == UNION {[T -> {<<0>>, <<0, 0>>, <<1, 0>>}] : T \in SUBSET InTags}

CatalogNext ==
  \/ \E c \in Clerks :
       /\ Free(c)
       /\ \/ \E t \in InTags :
               \/ \E row \in Rows : HandleSyncInbounds(c, t, row)
               \/ HandleDeleteInbound(c, t)
               \/ \E p \in Protos \ Special : ApplyParsedXrayConfig(c, t, p)
          \/ \E body \in Bodies : HandlePutHosts(c, body)
          \/ \E doc \in Docs : HandleUpdateXrayConfig(c, doc)
  \/ \E c \in Clerks :
       \/ ReadStatement(c) \/ UpsertInbound(c) \/ InvalidateInbound(c)
       \/ DeleteInboundByTag(c) \/ DeleteHostsByInboundTag(c) \/ CreateHost(c)
       \/ PruneOrphanedProxies(c) \/ StatementFails(c)
  \/ \E p \in Protos : FetchTags(p) \/ CreateProxy(p)
  \/ \E list \in fetched : FileTags(list)

CatalogSpec == CatalogInit /\ [][CatalogNext]_catVars

----------------------------------------------------------------------------
CatalogTypeOK ==
  /\ inbounds \in [InTags -> Rows \cup {NoInbound}]
  /\ \A t \in InTags : hosts[t] \in Seq(0..MaxRank)
  /\ proxies \subseteq Protos
  /\ \A p \in Protos : tagLists[p] = NotCached \/ tagLists[p] \subseteq InTags
  /\ fetched \subseteq [proto : Protos, tags : SUBSET InTags] /\ raced \subseteq Protos
  /\ served \in 0..MaxCatalogCalls

Quiet == \A c \in Clerks : todo[c] = <<>>

\* Every host of the fleet has a priority of its own.
PrioritiesDistinct ==
  \A t, u \in InTags : \A i \in DOMAIN hosts[t], j \in DOMAIN hosts[u] :
    hosts[t][i] = hosts[u][j] => t = u /\ i = j

(* Unless calls overlap, no prune runs on an empty table, which would take   *)
(* every user's credentials (inbounds.go:430).  Calls about different tags   *)
(* may overlap and leave no stale tag list, also of the protocol that a tag  *)
(* had before (store.go:95), but one that a reader had read before the write *)
(* and filed after the invalidation.  And calls that neither overlap nor end *)
(* early give every host a priority of its own, unless a PUT named only some *)
(* of the tags (hosts.go:112).                                               *)
CatalogIsSound ==
  /\ ~overlapped => ~wiped
  /\ Quiet /\ ~clashed /\ ~ended =>
       \A p \in Protos \ raced : tagLists[p] \in {NotCached, TagsOf(p)}
  /\ Quiet /\ ~overlapped /\ ~ended /\ ~partial => PrioritiesDistinct

(* Inbounds, hosts, credentials and the cached tag lists fit together        *)
(* (inbounds.go, hosts.go, xrayconfig.go).                                   *)
CatalogInv == CatalogTypeOK /\ CatalogIsSound
=============================================================================
