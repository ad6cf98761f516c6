----------------------------- MODULE NodeSyncMC -----------------------------
(***************************************************************************)
(* Instances of NodeSync: one vless, one trojan and one two-port           *)
(* shadowsocks inbound, and the user lists that tell them apart.  "dup"    *)
(* has two users with one password, which only trojan refuses; "chacha"    *)
(* names the default cipher by having no method, "aes" another one.        *)
(***************************************************************************)
EXTENDS NodeSync, TLC

MCMethod(users) == IF users = "aes" THEN "aes" ELSE "default"

MCHotProtocols == {"vless", "trojan", "shadowsocks"}

MCRejected == {<<"trojan", "dup">>}

Inbound(protocol, shape, users) ==
    [users |-> users, protocol |-> protocol, shape |-> shape,
     ports |-> IF protocol = "shadowsocks" THEN {1, 2} ELSE {1}]

Config(core, inbounds) == [core |-> core, inbounds |-> inbounds]

\* Every protocol serves the same accounts, as the panel renders them.
Pair(users) ==
    "v" :> Inbound("vless", "tcp", users) @@ "t" :> Inbound("trojan", "tcp", users)

Single(users, shape) == "s" :> Inbound("shadowsocks", shape, users)

\* An inbound of a protocol this node does not know, beside one it does.
Unknown(users) ==
    "v" :> Inbound("vless", "tcp", users) @@ "x" :> Inbound("wireguard", "tcp", users)

Nothing == << >>

\* Lists grow, shrink, become unacceptable, become empty; the core section,
\* an inbound's shape, its cipher and the set of inbounds change.
MCConfigs ==
    {Config("direct", Nothing),
     Config("direct", Pair("none")), Config("direct", Pair("chacha")),
     Config("direct", Pair("dup")), Config("warp", Pair("chacha")),
     Config("direct", Single("chacha", "tcp")), Config("direct", Single("none", "tcp")),
     Config("direct", Single("aes", "tcp")), Config("direct", Single("chacha", "ws")),
     Config("direct", Unknown("chacha")), Config("direct", Unknown("none"))}

\* Enough for a hot update to fail half way and be taken back.
RevertConfigs ==
    {Config("direct", Pair("none")), Config("direct", Pair("chacha")),
     Config("direct", Pair("dup")), Config("direct", Nothing)}

NoConfigs == {}

ManualLists == {"none", "chacha", "aes"}

NoCalls == {}
AllCalls == {"start", "stop", "users"}

\* Manual starts with one of the panel's own configs and with a cipher that the
\* panel may not have rendered last.
ByHandConfigs == {Config("direct", Pair("chacha")), Config("direct", Single("aes", "tcp"))}
=============================================================================
