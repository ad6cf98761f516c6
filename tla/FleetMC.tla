------------------------------- MODULE FleetMC -------------------------------
(***************************************************************************)
(* Instances of the parts that decide what nodes run and what is said of   *)
(* them: inbounds and hosts, core configs and node profiles, the         *)
(* inbounds a node builds from them, and the load of what they serve.  The *)
(* parts share no state here, so each behaviour is one of one part, chosen *)
(* at the start, while the others rest.                                    *)
(***************************************************************************)
EXTENDS InboundCatalog, CoreConfig, ConfigLoad, Inbounds, TLC

CONSTANTS m1, m2

VARIABLE part

\* InboundCatalog: one plain inbound and one that Xray does not know.
SeedDef == [t \in InTags |-> IF t = 1 THEN [proto |-> "vless", special |-> FALSE]
                                      ELSE [proto |-> "hysteria2", special |-> TRUE]]

\* CoreConfig: configs and overrides of two outbounds, one of which may be a
\* group of the other, and rules to either; an inbound with extra ports.
A == [o \in {"a"} |-> "leaf"]
B == [o \in {"b"} |-> "leaf"]
Group == [o \in {"a", "b"} |-> IF o = "b" THEN "a" ELSE "leaf"]
DocumentsDef ==
    {[outs |-> A, rules |-> <<>>], [outs |-> B, rules |-> <<"b">>],
     [outs |-> Group, rules |-> <<"b">>], [outs |-> Group, rules |-> <<"direct">>]}
OverridesDef ==
    {Empty, [outs |-> B, rules |-> <<>>], [outs |-> Empty.outs, rules |-> <<"a">>],
     [outs |-> [o \in {"b"} |-> "a"], rules |-> <<"b">>]}
SpecsDef == <<[primary |-> 1, ports |-> {1, 2, 3}], [primary |-> 2, ports |-> {2}]>>

\* ConfigLoad: a node that serves everything behind an address, and one with a
\* tag and a port behind a name that may resolve to the first.
ProfileDef ==
    [n \in LoadNodes |->
       IF n = 1 THEN [cap |-> 4, tags |-> {}, ports |-> {}, addr |-> "ip1"]
                ELSE [cap |-> 0, tags |-> {"a"}, ports |-> {1}, addr |-> "name"]]
HostsDef ==
    <<[id |-> 1, remark |-> "info", addr |-> "ip1", port |-> 0, tag |-> "a"],
      [id |-> 2, remark |-> "plain", addr |-> "ip1", port |-> 2, tag |-> "b"],
      [id |-> 3, remark |-> "load", addr |-> "name", port |-> 1, tag |-> "a"]>>
ReadingsDef == {[ports |-> 1 :> 1, total |-> 3], [ports |-> 1 :> 5 @@ 2 :> 1, total |-> 6]}
CrowdedDef == {[ports |-> 1 :> 10, total |-> 10]}
AnswersDef == {{}, {"ip1"}}

\* Inbounds: an empty list, sound ones, and lists with a secret shared or missing
\* and a user without a name.
User(name, secret) == [name |-> name, secret |-> secret]
ListsDef ==
    {<<>>, <<User("ann", 1), User("bob", 2)>>, <<User("bob", 1)>>,
     <<User("ann", 1), User("bob", 1)>>, <<User("ann", NoSecret)>>, <<User(Unnamed, 2)>>}

\* Overlapping requests are interchangeable.
Perms == Permutations({m1, m2})

FleetInit ==
    /\ part \in {"catalog", "core", "load", "inbound"}
    /\ CatalogInit /\ CoreInit /\ LoadInit /\ InbInit
    /\ part # "catalog" => inbounds = Seed
    /\ part # "inbound" => protocol = "vless" /\ options = "sound"

FleetNext ==
    /\ UNCHANGED part
    /\ \/ part = "catalog" /\ CatalogNext /\ UNCHANGED <<coreVars, mapVars, inbVars>>
       \/ part = "core" /\ CoreNext /\ UNCHANGED <<catVars, mapVars, inbVars>>
       \/ part = "load" /\ LoadNext /\ UNCHANGED <<catVars, coreVars, inbVars>>
       \/ part = "inbound" /\ InbNext /\ UNCHANGED <<catVars, coreVars, mapVars>>

FleetSpec == FleetInit /\ [][FleetNext]_<<part, catVars, coreVars, mapVars, inbVars>>
=============================================================================
