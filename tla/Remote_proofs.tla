---------------------------- MODULE Remote_proofs ----------------------------
(***************************************************************************)
(* Proofs about what one machine knows of another: a node runs what it     *)
(* pulled from the panel (NodeSync) and its inbounds admit the list they   *)
(* took and bill whom they admitted (Inbounds), an exit's tunnel gets the  *)
(* verdict its probes earned (TunnelFallback), a panel's replica of a      *)
(* peer's users is a state the peer had (Gateway), and its pages show      *)
(* hosts of its peers that are still offered (PeerHosts), for every set of *)
(* configs, lists, ciphers, clients, tunnels, thresholds, panels, users    *)
(* and hosts.                                                              *)
(***************************************************************************)
EXTENDS NodeSync, TunnelFallback, Gateway, PeerHosts, Inbounds, SetFacts, SequenceTheorems, TLAPS

\* A listener of an inbound carries that inbound's tag, and only an inbound of
\* a protocol the node serves has any.
LEMMA ListenerOfInbound ==
    ASSUME NEW cfg, NEW tag, NEW l \in InboundListeners(cfg, tag)
    PROVE  Tag(l) = tag /\ cfg.inbounds[tag].protocol \in HotProtocols
BY DEF InboundListeners, Tag

\* The listeners of a config are those of its inbounds.
LEMMA ListenersByTag ==
    ASSUME NEW cfg, NEW l
    PROVE  l \in Listeners(cfg) <=>
             /\ Tag(l) \in DOMAIN cfg.inbounds
             /\ l \in InboundListeners(cfg, Tag(l))
<1>1. ASSUME l \in Listeners(cfg)
      PROVE  Tag(l) \in DOMAIN cfg.inbounds /\ l \in InboundListeners(cfg, Tag(l))
  <2>1. PICK tag \in DOMAIN cfg.inbounds : l \in InboundListeners(cfg, tag)
    BY <1>1 DEF Listeners
  <2> QED BY <2>1, ListenerOfInbound
<1>2. ASSUME Tag(l) \in DOMAIN cfg.inbounds, l \in InboundListeners(cfg, Tag(l))
      PROVE  l \in Listeners(cfg)
  BY <1>2 DEF Listeners
<1> QED BY <1>1, <1>2

\* A core that has just been built is well formed.
LEMMA CoreOfType ==
    ASSUME NEW cfg \in AllConfigs
    PROVE  /\ CoreOf(cfg) # None => CoreOf(cfg) = [cfg |-> CoreOf(cfg).cfg, users |-> CoreOf(cfg).users]
           /\ CoreOf(cfg).cfg = cfg
           /\ CoreOf(cfg).users = [l \in Listeners(cfg) |-> cfg.inbounds[Tag(l)].users]
BY DEF CoreOf

\* server's fields and the pull in flight always hold what they may hold; a
\* running core has exactly the listeners of the config it was built from.
THEOREM TypeCorrect == Spec => []TypeOK
<1>1. Init => TypeOK
  BY DEF Init, TypeOK, PullStates
<1>2. TypeOK /\ [Next]_vars => TypeOK'
  <2> SUFFICES ASSUME TypeOK, [Next]_vars PROVE TypeOK'
    OBVIOUS
  <2> USE NoneAssumption DEF TypeOK, PullStates, Alterations
  <2>1. ASSUME NEW cfg \in Configs, Publish(cfg) PROVE TypeOK'
    BY <2>1 DEF Publish
  <2>2. CASE PullSend
    BY <2>2 DEF PullSend
  <2>3. CASE PullAnswer
    BY <2>3 DEF PullAnswer
  <2>4. CASE PullFail
    BY <2>4 DEF PullFail
  <2>5. ASSUME NEW started \in BOOLEAN, PullApply(started) PROVE TypeOK'
    <3>1. pull.body \in Configs /\ pull.body \in AllConfigs
      BY <2>5 DEF PullApply, AllConfigs
    <3>2. desired' = desired /\ pull' = [phase |-> "idle"]
      BY <2>5 DEF PullApply
    <3>3. CASE UNCHANGED <<lastPulled, node, altered>>
      BY <3>2, <3>3
    <3>4. CASE lastPulled' = pull.body /\ UNCHANGED <<node, altered>>
      BY <3>1, <3>2, <3>4
    <3>5. CASE ApplyFull(pull.body, started)
      <4>1. lastPulled' \in Configs \cup {None} /\ altered' \subseteq Alterations
        BY <3>1, <3>5 DEF ApplyFull
      <4>2. CASE started
        BY <3>1, <3>2, <3>5, <4>1, <4>2, CoreOfType DEF ApplyFull
      <4>3. CASE ~ started
        BY <3>1, <3>2, <3>5, <4>1, <4>3 DEF ApplyFull
      <4> QED BY <4>2, <4>3
    <3>6. CASE node # None /\ ApplyHot(pull.body)
      <4>1. lastPulled' \in Configs \cup {None} /\ altered' \subseteq Alterations
        BY <3>1, <3>6 DEF ApplyHot
      <4> DEFINE users == HotUsers(UsersChanged(lastPulled, pull.body), pull.body)
      <4>2. /\ node' = [node EXCEPT !.users = users]
            /\ users = [l \in DOMAIN node.users |-> users[l]]
        BY <3>6 DEF ApplyHot, HotUsers
      <4> HIDE DEF users
      <4>3. node' = [cfg |-> node.cfg, users |-> users]
        BY <3>6, <4>2
      <4>4. node'.cfg = node.cfg /\ node'.users = users
        BY <4>3
      <4>5. users = [l \in Listeners(node.cfg) |-> users[l]]
        BY <3>6, <4>2
      <4> QED BY <3>2, <3>6, <4>1, <4>3, <4>4, <4>5
    <3> QED BY <2>5, <3>3, <3>4, <3>5, <3>6 DEF PullApply
  <2>6. ASSUME NEW cfg \in ManualConfigs, HandleStart(cfg) PROVE TypeOK'
    <3>1. cfg \in AllConfigs
      BY DEF AllConfigs
    <3> QED BY <2>6, <3>1, CoreOfType DEF HandleStart
  <2>7. CASE HandleStop
    BY <2>7 DEF HandleStop
  <2>8. ASSUME NEW tag \in ManualTags, NEW proto \in HotProtocols, NEW list \in ManualUsers,
               HandleUpdateUsers(tag, proto, list)
        PROVE  TypeOK'
    <3> DEFINE users == UsersOfInbound(tag, list)
    <3>1. /\ node' = [node EXCEPT !.users = users]
          /\ users = [l \in DOMAIN node.users |-> users[l]]
      BY <2>8 DEF HandleUpdateUsers, UsersOfInbound
    <3> HIDE DEF users
    <3>2. node # None
      BY <2>8 DEF HandleUpdateUsers
    <3>3. node' = [cfg |-> node.cfg, users |-> users]
      BY <3>1, <3>2
    <3>4. node'.cfg = node.cfg /\ node'.users = users
      BY <3>3
    <3>5. users = [l \in Listeners(node.cfg) |-> users[l]]
      BY <3>1, <3>2
    <3> QED BY <2>8, <3>2, <3>3, <3>4, <3>5 DEF HandleUpdateUsers
  <2>9. CASE AgentRestart
    BY <2>9 DEF AgentRestart
  <2>10. CASE UNCHANGED vars
    BY <2>10 DEF vars
  <2> QED BY <2>1, <2>2, <2>3, <2>4, <2>5, <2>6, <2>7, <2>8, <2>9, <2>10 DEF Next
<1> QED BY <1>1, <1>2, PTL DEF Spec

-----------------------------------------------------------------------------
(***************************************************************************)
(* The shape of the running core.  The strengthening of the two            *)
(* invariants is their conjunction with TypeOK: a hot update is only       *)
(* allowed when the new config has lastPulled's shape and ciphers, and a   *)
(* core that was not started by hand has them too.                         *)
(***************************************************************************)
ShapeInv == TypeOK /\ RunningShapeIsLastPulled /\ CipherIsTheListeners

\* A hot update keeps the shape and the cipher of what it updates.
LEMMA HotKeepsShape ==
    ASSUME ShapeInv, node # None, "start" \notin altered, NEW cfg \in Configs,
           ~ NeedsRestart(lastPulled, cfg), ApplyHot(cfg)
    PROVE  (RunningShapeIsLastPulled /\ CipherIsTheListeners)'
<1> DEFINE changed == UsersChanged(lastPulled, cfg)
           users == HotUsers(changed, cfg)
<1>1. node' = [cfg |-> node.cfg, users |-> users]
  BY DEF ApplyHot, ShapeInv, TypeOK
<1>2. node'.cfg = node.cfg /\ node'.users = users
  BY <1>1
<1>3. DOMAIN users = DOMAIN node.users
  BY DEF HotUsers
<1>4. lastPulled # None /\ (lastPulled' = lastPulled \/ lastPulled' = cfg)
  BY DEF ShapeInv, RunningShapeIsLastPulled, ApplyHot
<1>5. /\ cfg.core = lastPulled.core
      /\ DOMAIN cfg.inbounds = DOMAIN lastPulled.inbounds
      /\ \A tag \in DOMAIN cfg.inbounds : SameShape(lastPulled.inbounds[tag], cfg.inbounds[tag])
  BY DEF NeedsRestart
<1>6. \A tag \in DOMAIN cfg.inbounds :
         cfg.inbounds[tag].protocol = Shadowsocks =>
           Method(lastPulled.inbounds[tag].users) = Method(cfg.inbounds[tag].users)
  BY DEF NeedsRestart, NeedsNewListener, UsersChanged
<1>7. \A tag \in DOMAIN cfg.inbounds :
         /\ SameShape(node.cfg.inbounds[tag], cfg.inbounds[tag])
         /\ cfg.inbounds[tag].protocol = Shadowsocks =>
              Method(node.cfg.inbounds[tag].users) = Method(cfg.inbounds[tag].users)
  BY <1>4, <1>5, <1>6 DEF ShapeInv, RunningShapeIsLastPulled, SameShape
<1>8. RunningShapeIsLastPulled'
  <2>1. CASE lastPulled' = lastPulled
    BY <1>2, <1>4, <2>1 DEF ShapeInv, RunningShapeIsLastPulled
  <2>2. CASE lastPulled' = cfg
    <3>1. cfg # None
      BY NoneAssumption
    <3>2. node.cfg.core = cfg.core /\ DOMAIN node.cfg.inbounds = DOMAIN cfg.inbounds
      BY <1>5 DEF ShapeInv, RunningShapeIsLastPulled
    <3> QED BY <1>2, <1>7, <2>2, <3>1, <3>2 DEF RunningShapeIsLastPulled
  <2> QED BY <1>4, <2>1, <2>2
<1>9. CipherIsTheListeners'
  <2> SUFFICES ASSUME NEW l \in DOMAIN node.users,
                      node.cfg.inbounds[Tag(l)].protocol = Shadowsocks, users[l] # NoUsers
               PROVE  Method(users[l]) = Method(node.cfg.inbounds[Tag(l)].users)
    BY <1>2, <1>3 DEF CipherIsTheListeners
  <2>1. CASE Takes(l, changed, cfg)
    <3>1. Tag(l) \in DOMAIN cfg.inbounds /\ users[l] = cfg.inbounds[Tag(l)].users
      BY <2>1 DEF Takes, UsersChanged, HotUsers
    <3>2. cfg.inbounds[Tag(l)].protocol = Shadowsocks
      BY <1>7, <3>1 DEF SameShape
    <3> QED BY <1>7, <3>1, <3>2
  <2>2. CASE ~ Takes(l, changed, cfg)
    <3>1. users[l] = node.users[l]
      BY <2>2 DEF HotUsers
    <3> QED BY <3>1 DEF ShapeInv, CipherIsTheListeners
  <2> QED BY <2>1, <2>2
<1> QED BY <1>8, <1>9

\* A core that has just been built has the shape and the ciphers of its config.
LEMMA BuiltHasShape ==
    ASSUME NEW cfg \in Configs, node' = CoreOf(cfg), lastPulled' = cfg
    PROVE  (RunningShapeIsLastPulled /\ CipherIsTheListeners)'
<1>1. cfg \in AllConfigs /\ cfg # None
  BY NoneAssumption DEF AllConfigs
<1>2. /\ node'.cfg = cfg
      /\ node'.users = [l \in Listeners(cfg) |-> cfg.inbounds[Tag(l)].users]
  BY <1>1, CoreOfType
<1> QED BY <1>1, <1>2 DEF RunningShapeIsLastPulled, CipherIsTheListeners, SameShape

\* A listener that runs is one of those the plan has for its tag.
LEMMA RunningListener ==
    ASSUME TypeOK, node # None, NEW l \in DOMAIN node.users
    PROVE  /\ Tag(l) \in DOMAIN node.cfg.inbounds
           /\ l \in ListenerTags(node, Tag(l))
<1>1. l \in Listeners(node.cfg)
  BY DEF TypeOK
<1>2. Tag(l) \in DOMAIN node.cfg.inbounds /\ l \in InboundListeners(node.cfg, Tag(l))
  BY <1>1, ListenersByTag
<1> QED BY <1>2 DEF ListenerTags

\* A list set by hand names the cipher of the listeners it goes to.
LEMMA ByHandKeepsShape ==
    ASSUME ShapeInv, NEW tag, NEW proto, NEW list, HandleUpdateUsers(tag, proto, list)
    PROVE  (RunningShapeIsLastPulled /\ CipherIsTheListeners)'
<1> DEFINE users == UsersOfInbound(tag, list)
<1>1. node # None /\ lastPulled' = lastPulled
  BY DEF HandleUpdateUsers
<1>2. node' = [cfg |-> node.cfg, users |-> users]
  BY <1>1 DEF HandleUpdateUsers, ShapeInv, TypeOK
<1>3. node'.cfg = node.cfg /\ node'.users = users
  BY <1>2
<1>4. "start" \in altered' <=> "start" \in altered
  BY DEF HandleUpdateUsers
<1>5. RunningShapeIsLastPulled'
  BY <1>1, <1>3, <1>4 DEF ShapeInv, RunningShapeIsLastPulled
<1>6. CipherIsTheListeners'
  <2> SUFFICES ASSUME "start" \notin altered, NEW l \in DOMAIN node.users,
                      node.cfg.inbounds[Tag(l)].protocol = Shadowsocks, users[l] # NoUsers
               PROVE  Method(users[l]) = Method(node.cfg.inbounds[Tag(l)].users)
    BY <1>3, <1>4 DEF CipherIsTheListeners, UsersOfInbound
  <2>1. CASE Tag(l) = tag
    <3>1. tag \in DOMAIN node.cfg.inbounds /\ l \in ListenerTags(node, tag)
      BY <1>1, <2>1, RunningListener DEF ShapeInv
    <3>2. proto = Shadowsocks
      BY <2>1, <3>1 DEF HandleUpdateUsers, Accepts
    <3>3. users[l] = list
      BY <2>1 DEF UsersOfInbound
    <3> QED BY <2>1, <3>1, <3>2, <3>3 DEF HandleUpdateUsers
  <2>2. CASE Tag(l) # tag
    <3>1. users[l] = node.users[l]
      BY <2>2 DEF UsersOfInbound
    <3> QED BY <1>1, <3>1 DEF ShapeInv, CipherIsTheListeners
  <2> QED BY <2>1, <2>2
<1> QED BY <1>5, <1>6

\* Every step of the agent keeps a core that was not started by hand in the
\* shape of lastPulled, and every listener of it on its cipher.
LEMMA ShapeStep ==
    ASSUME ShapeInv, TypeOK', [Next]_vars
    PROVE  ShapeInv'
<1> SUFFICES (RunningShapeIsLastPulled /\ CipherIsTheListeners)'
  BY DEF ShapeInv
<1>1. CASE UNCHANGED <<lastPulled, node, altered>>
  BY <1>1 DEF ShapeInv, RunningShapeIsLastPulled, CipherIsTheListeners
<1>2. CASE node' = None \/ "start" \in altered'
  BY <1>2 DEF RunningShapeIsLastPulled, CipherIsTheListeners
<1>3. ASSUME NEW started \in BOOLEAN, PullApply(started)
      PROVE  (RunningShapeIsLastPulled /\ CipherIsTheListeners)'
  <2>1. pull.body \in Configs
    BY <1>3 DEF PullApply, ShapeInv, TypeOK, PullStates
  <2>2. CASE node = None /\ UNCHANGED node
    BY <1>2, <2>2
  <2>3. CASE ApplyFull(pull.body, started) /\ started
    BY <2>1, <2>3, BuiltHasShape DEF ApplyFull
  <2>4. CASE ApplyFull(pull.body, started) /\ ~ started
    BY <1>2, <2>4 DEF ApplyFull
  <2>5. CASE node # None /\ ~ NeedsRestart(lastPulled, pull.body) /\ ApplyHot(pull.body)
    <3>1. CASE "start" \in altered
      BY <1>2, <2>5, <3>1 DEF ApplyHot
    <3>2. CASE "start" \notin altered
      BY <2>1, <2>5, <3>2, HotKeepsShape
    <3> QED BY <3>1, <3>2
  <2> QED BY <1>1, <1>3, <2>2, <2>3, <2>4, <2>5 DEF PullApply
<1>4. CASE \E cfg \in Configs : Publish(cfg)
  BY <1>1, <1>4 DEF Publish
<1>5. CASE PullSend \/ PullAnswer \/ PullFail
  BY <1>1, <1>5 DEF PullSend, PullAnswer, PullFail
<1>6. CASE \E cfg \in ManualConfigs : HandleStart(cfg)
  BY <1>2, <1>6 DEF HandleStart
<1>7. CASE HandleStop \/ AgentRestart
  BY <1>2, <1>7 DEF HandleStop, AgentRestart
<1>8. ASSUME NEW tag \in ManualTags, NEW proto \in HotProtocols, NEW list \in ManualUsers,
             HandleUpdateUsers(tag, proto, list)
      PROVE  (RunningShapeIsLastPulled /\ CipherIsTheListeners)'
  BY <1>8, ByHandKeepsShape
<1>9. CASE UNCHANGED vars
  BY <1>1, <1>9 DEF vars
<1> QED BY <1>3, <1>4, <1>5, <1>6, <1>7, <1>8, <1>9 DEF Next

\* Whatever lists are refused, whatever restarts fail and whatever is done by
\* hand, a core the pull loop started has the core section, inbounds, shapes,
\* ports and ciphers of lastPulled, so comparing the next config with lastPulled
\* never misses a restart that diffPulledConfig's rules call for; and neither the
\* pull loop nor PUT users ever leaves one of its shadowsocks listeners with
\* users of another cipher than its own.
THEOREM ComparisonTheorem == Spec => []ComparisonIsSound
<1>1. Init => ShapeInv
  BY DEF Init, ShapeInv, RunningShapeIsLastPulled, CipherIsTheListeners, TypeOK, PullStates
<1>2. ShapeInv /\ TypeOK' /\ [Next]_vars => ShapeInv'
  BY ShapeStep
<1>3. ShapeInv => ComparisonIsSound
  BY DEF ShapeInv, ComparisonIsSound
<1> QED BY <1>1, <1>2, <1>3, TypeCorrect, PTL DEF Spec

-----------------------------------------------------------------------------
(***************************************************************************)
(* A hot update that does not fail is recorded and reaches every listener  *)
(* it has to: a core that nothing altered serves lastPulled user list by   *)
(* user list.                                                              *)
(***************************************************************************)
ServesLastPulled ==
    node # None /\ altered = {} =>
        \A l \in DOMAIN node.users : node.users[l] = lastPulled.inbounds[Tag(l)].users

ExactInv == ShapeInv /\ ServesLastPulled

\* A hot update that does not fail reaches every listener of every inbound
\* whose list changed, and is recorded.
LEMMA HotIsExact ==
    ASSUME ExactInv, node # None, NEW cfg \in Configs,
           ~ NeedsRestart(lastPulled, cfg), ApplyHot(cfg), altered' = {}
    PROVE  ServesLastPulled'
<1> DEFINE changed == UsersChanged(lastPulled, cfg)
           users == HotUsers(changed, cfg)
<1> USE DEF ExactInv, ShapeInv
<1>1. node' = [cfg |-> node.cfg, users |-> users]
  BY DEF ApplyHot, TypeOK
<1>2. node'.cfg = node.cfg /\ node'.users = users
  BY <1>1
<1>3. DOMAIN users = DOMAIN node.users
  BY DEF HotUsers
<1>4. altered = {} /\ ~ HotFailed(changed, cfg) /\ lastPulled' = cfg
  BY DEF ApplyHot
<1>5. ASSUME NEW l \in DOMAIN node.users PROVE users[l] = cfg.inbounds[Tag(l)].users
  <2>1. Tag(l) \in DOMAIN node.cfg.inbounds /\ l \in ListenerTags(node, Tag(l))
    BY <1>5, RunningListener
  <2>2. CASE Tag(l) \in changed
    <3>1. Takes(l, changed, cfg)
      BY <1>4, <2>1, <2>2 DEF HotFailed
    <3> QED BY <1>5, <3>1 DEF HotUsers
  <2>3. CASE Tag(l) \notin changed
    <3>1. Tag(l) \in DOMAIN cfg.inbounds
      BY <1>4, <2>1 DEF RunningShapeIsLastPulled, NeedsRestart
    <3>2. cfg.inbounds[Tag(l)].users = lastPulled.inbounds[Tag(l)].users
      BY <2>3, <3>1 DEF UsersChanged
    <3>3. users[l] = node.users[l]
      BY <1>5, <2>3 DEF HotUsers, Takes
    <3> QED BY <1>4, <1>5, <3>2, <3>3 DEF ServesLastPulled
  <2> QED BY <2>2, <2>3
<1> QED BY <1>2, <1>3, <1>4, <1>5 DEF ServesLastPulled

\* The exact invariant is kept by every step.
LEMMA ExactStep ==
    ASSUME ExactInv, TypeOK', [Next]_vars
    PROVE  ExactInv'
<1>0. ShapeInv'
  BY ShapeStep DEF ExactInv
<1> SUFFICES ServesLastPulled'
  BY <1>0 DEF ExactInv
<1>1. CASE UNCHANGED <<lastPulled, node, altered>>
  BY <1>1 DEF ExactInv, ServesLastPulled
<1>2. CASE node' = None \/ altered' # {}
  BY <1>2 DEF ServesLastPulled
<1>3. ASSUME NEW started \in BOOLEAN, PullApply(started)
      PROVE  ServesLastPulled'
  <2>1. pull.body \in Configs /\ pull.body \in AllConfigs
    BY <1>3 DEF PullApply, ExactInv, ShapeInv, TypeOK, PullStates, AllConfigs
  <2>2. CASE node = None /\ UNCHANGED node
    BY <1>2, <2>2
  <2>3. CASE ApplyFull(pull.body, started) /\ started
    <3>1. node' = CoreOf(pull.body) /\ lastPulled' = pull.body
      BY <2>3 DEF ApplyFull
    <3>2. node'.users = [l \in Listeners(pull.body) |-> pull.body.inbounds[Tag(l)].users]
      BY <2>1, <3>1, CoreOfType
    <3> QED BY <3>1, <3>2 DEF ServesLastPulled
  <2>4. CASE ApplyFull(pull.body, started) /\ ~ started
    BY <1>2, <2>4 DEF ApplyFull
  <2>5. CASE node # None /\ ~ NeedsRestart(lastPulled, pull.body) /\ ApplyHot(pull.body)
    <3>1. CASE altered' = {}
      BY <2>1, <2>5, <3>1, HotIsExact
    <3> QED BY <1>2, <3>1
  <2> QED BY <1>1, <1>3, <2>2, <2>3, <2>4, <2>5 DEF PullApply
<1>4. CASE \E cfg \in Configs : Publish(cfg)
  BY <1>1, <1>4 DEF Publish
<1>5. CASE PullSend \/ PullAnswer \/ PullFail
  BY <1>1, <1>5 DEF PullSend, PullAnswer, PullFail
<1>6. CASE \E cfg \in ManualConfigs : HandleStart(cfg)
  BY <1>2, <1>6 DEF HandleStart
<1>7. CASE HandleStop \/ AgentRestart
  BY <1>2, <1>7 DEF HandleStop, AgentRestart
<1>8. ASSUME NEW tag \in ManualTags, NEW proto \in HotProtocols, NEW list \in ManualUsers,
             HandleUpdateUsers(tag, proto, list)
      PROVE  ServesLastPulled'
  BY <1>2, <1>8 DEF HandleUpdateUsers
<1>9. CASE UNCHANGED vars
  BY <1>1, <1>9 DEF vars
<1> QED BY <1>3, <1>4, <1>5, <1>6, <1>7, <1>8, <1>9 DEF Next

\* From the exact invariant: the core has every listener of lastPulled, and
\* each serves lastPulled's list.
LEMMA ExactServes ==
    ASSUME ExactInv PROVE RunningIsLastPulled
<1> SUFFICES ASSUME lastPulled # None, node # None, altered = {} PROVE Serves(lastPulled)
  BY DEF RunningIsLastPulled, RunningLastPulled
<1> SUFFICES ASSUME NEW tag \in DOMAIN lastPulled.inbounds,
                    NEW l \in InboundListeners(lastPulled, tag)
             PROVE  l \in DOMAIN node.users /\ node.users[l] = lastPulled.inbounds[tag].users
  BY DEF Serves
<1>1. Tag(l) = tag
  BY ListenerOfInbound
<1>2. tag \in DOMAIN node.cfg.inbounds /\ SameShape(node.cfg.inbounds[tag], lastPulled.inbounds[tag])
  BY DEF ExactInv, ShapeInv, RunningShapeIsLastPulled
<1>3. l \in InboundListeners(node.cfg, tag)
  BY <1>2 DEF InboundListeners, SameShape
<1>4. l \in DOMAIN node.users
  BY <1>1, <1>2, <1>3, ListenersByTag DEF ExactInv, ShapeInv, TypeOK
<1> QED BY <1>1, <1>4 DEF ExactInv, ServesLastPulled

\* As long as nothing altered the running core, runningLastPulledLocked is
\* right: what it answers yes for is exactly what the listeners serve, for any
\* panel history, failed restart, agent crash or refused list before.
THEOREM RunningIsLastPulledTheorem == Spec => []RunningIsLastPulled
<1>1. Init => ExactInv
  BY DEF Init, ExactInv, ShapeInv, RunningShapeIsLastPulled, CipherIsTheListeners,
         ServesLastPulled, TypeOK, PullStates
<1>2. ExactInv /\ TypeOK' /\ [Next]_vars => ExactInv'
  BY ExactStep
<1>3. ExactInv => RunningIsLastPulled
  BY ExactServes
<1> QED BY <1>1, <1>2, <1>3, TypeCorrect, PTL DEF Spec

-----------------------------------------------------------------------------
(***************************************************************************)
(* The refinement of ConfigDelivery: each step delivers, or nobody who     *)
(* only sees what is published, fetched and running can tell.              *)
(***************************************************************************)

\* What the loop has in its hands and what runs, as ConfigDelivery sees them.
Fetched == IF pull.phase = "answered" THEN {Offered(pull.body)} ELSE {}
Delivered == IF node = None \/ "start" \in altered THEN {} ELSE {AsOffer(node)}

\* The steps of ConfigDelivery in those terms.
LEMMA DeliverySteps ==
    /\ Delivery!Announce <=> /\ Offered(desired)' \in {Offered(cfg) : cfg \in Configs}
                             /\ Fetched' = Fetched /\ Delivered' = Delivered
    /\ Delivery!Fetch <=> /\ Fetched = {} /\ Fetched' = {Offered(desired)}
                          /\ Offered(desired)' = Offered(desired) /\ Delivered' = Delivered
    /\ Delivery!Discard <=> /\ Fetched' = {}
                            /\ Offered(desired)' = Offered(desired) /\ Delivered' = Delivered
    /\ Delivery!Restart <=> /\ Fetched # {} /\ Fetched' = {} /\ Delivered' \in {Fetched, {}}
                            /\ Offered(desired)' = Offered(desired)
    /\ Delivery!Refresh <=> /\ Fetched' = {}
                            /\ \E o \in Fetched, c \in Delivered :
                                  /\ o.fixed = c.fixed
                                  /\ \E S \in SUBSET (DOMAIN c.lists \cap DOMAIN o.lists) :
                                        Delivered' = {Delivery!WithLists(c, S, o.lists)}
                            /\ Offered(desired)' = Offered(desired)
    /\ Delivery!SetLists <=> /\ \E c \in Delivered, list \in ManualUsers :
                                  \E S \in SUBSET DOMAIN c.lists :
                                     Delivered' = {Delivery!WithLists(c, S, [l \in S |-> list])}
                             /\ Offered(desired)' = Offered(desired) /\ Fetched' = Fetched
    /\ Delivery!Stop <=> /\ Delivered' = {} /\ Fetched' \in {Fetched, {}}
                         /\ Offered(desired)' = Offered(desired)
    /\ UNCHANGED Delivery!delivery <=> /\ Offered(desired)' = Offered(desired)
                                       /\ Fetched' = Fetched /\ Delivered' = Delivered
BY DEF Fetched, Delivered, Delivery!Announce, Delivery!Fetch, Delivery!Discard, Delivery!Restart,
       Delivery!Refresh, Delivery!SetLists, Delivery!Stop, Delivery!delivery

LEMMA DeliveredStays ==
    ASSUME UNCHANGED node, "start" \in altered' <=> "start" \in altered
    PROVE  Delivered' = Delivered
BY DEF Delivered, AsOffer, Fixed

LEMMA FetchedStays ==
    ASSUME UNCHANGED pull
    PROVE  Fetched' = Fetched
BY DEF Fetched, Offered, AsOffer, CoreOf, Fixed, Listeners, InboundListeners

LEMMA FetchedIdle ==
    ASSUME pull' = [phase |-> "idle"]
    PROVE  Fetched' = {}
BY DEF Fetched

\* What a core differs in from a config that needs no restart is its lists.
LEMMA HotIsFixed ==
    ASSUME ShapeInv, node # None, "start" \notin altered, NEW cfg \in Configs,
           ~ NeedsRestart(lastPulled, cfg)
    PROVE  Fixed(node.cfg) = Fixed(cfg) /\ Listeners(node.cfg) = Listeners(cfg)
<1>1. /\ cfg.core = lastPulled.core
      /\ DOMAIN cfg.inbounds = DOMAIN lastPulled.inbounds
      /\ \A tag \in DOMAIN cfg.inbounds : SameShape(lastPulled.inbounds[tag], cfg.inbounds[tag])
  BY DEF NeedsRestart
<1>2. \A tag \in DOMAIN cfg.inbounds :
         cfg.inbounds[tag].protocol = Shadowsocks =>
           Method(lastPulled.inbounds[tag].users) = Method(cfg.inbounds[tag].users)
  BY DEF NeedsRestart, NeedsNewListener, UsersChanged
<1>3. node.cfg.core = cfg.core /\ DOMAIN node.cfg.inbounds = DOMAIN cfg.inbounds
  BY <1>1 DEF ShapeInv, RunningShapeIsLastPulled
<1>4. \A tag \in DOMAIN cfg.inbounds :
         /\ SameShape(node.cfg.inbounds[tag], cfg.inbounds[tag])
         /\ cfg.inbounds[tag].protocol = Shadowsocks =>
              Method(node.cfg.inbounds[tag].users) = Method(cfg.inbounds[tag].users)
  BY <1>1, <1>2 DEF ShapeInv, RunningShapeIsLastPulled, SameShape
<1>5. Fixed(node.cfg) = Fixed(cfg)
  BY <1>3, <1>4 DEF Fixed, SameShape
<1>6. \A tag \in DOMAIN cfg.inbounds : InboundListeners(node.cfg, tag) = InboundListeners(cfg, tag)
  BY <1>4 DEF InboundListeners, SameShape
<1> QED BY <1>3, <1>5, <1>6 DEF Listeners

\* A hot update puts lists of the config it applies on some of the listeners.
LEMMA HotRefreshes ==
    ASSUME ShapeInv, node # None, "start" \notin altered, NEW cfg \in Configs,
           ~ NeedsRestart(lastPulled, cfg), ApplyHot(cfg), node' # None
    PROVE  LET S == {l \in DOMAIN node.users : Takes(l, UsersChanged(lastPulled, cfg), cfg)}
               o == Offered(cfg)
               c == AsOffer(node)
           IN  /\ o.fixed = c.fixed
               /\ S \in SUBSET (DOMAIN c.lists \cap DOMAIN o.lists)
               /\ Delivered' = {Delivery!WithLists(c, S, o.lists)}
<1> DEFINE changed == UsersChanged(lastPulled, cfg)
           users == HotUsers(changed, cfg)
           S == {l \in DOMAIN node.users : Takes(l, changed, cfg)}
<1>1. node' = [cfg |-> node.cfg, users |-> users] /\ "start" \notin altered'
  BY DEF ApplyHot, ShapeInv, TypeOK
<1>2. Delivered' = {[fixed |-> Fixed(node.cfg), lists |-> users]}
  BY <1>1 DEF Delivered, AsOffer, Fixed
<1>3. /\ Offered(cfg).fixed = Fixed(cfg)
      /\ Offered(cfg).lists = [l \in Listeners(cfg) |-> cfg.inbounds[Tag(l)].users]
      /\ AsOffer(node).fixed = Fixed(node.cfg) /\ AsOffer(node).lists = node.users
  BY DEF Offered, AsOffer, CoreOf
<1>4. Fixed(node.cfg) = Fixed(cfg) /\ DOMAIN node.users = Listeners(cfg)
  BY HotIsFixed DEF ShapeInv, TypeOK
<1>5. users = [l \in DOMAIN node.users |-> IF l \in S THEN Offered(cfg).lists[l] ELSE node.users[l]]
  BY <1>3, <1>4 DEF HotUsers
<1> HIDE DEF S, users
<1>6. Delivery!WithLists(AsOffer(node), S, Offered(cfg).lists) = [fixed |-> Fixed(node.cfg), lists |-> users]
  BY <1>3, <1>5 DEF Delivery!WithLists
<1>7. S \in SUBSET (DOMAIN AsOffer(node).lists \cap DOMAIN Offered(cfg).lists)
  BY <1>3, <1>4 DEF S
<1> QED BY <1>2, <1>3, <1>4, <1>6, <1>7 DEF S

\* Each way to apply an answer delivers it, refreshes from it or discards it.
LEMMA ApplyDelivers ==
    ASSUME ShapeInv, NEW started \in BOOLEAN, PullApply(started)
    PROVE  Delivery!Restart \/ Delivery!Refresh \/ Delivery!Discard
<1>1. pull.body \in Configs /\ Fetched = {Offered(pull.body)} /\ Fetched' = {}
  BY FetchedIdle DEF PullApply, ShapeInv, TypeOK, PullStates, Fetched
<1>2. Offered(desired)' = Offered(desired)
  BY DEF PullApply, Offered, AsOffer, CoreOf, Fixed, Listeners, InboundListeners
<1>3. CASE Delivered' = Delivered
  BY <1>1, <1>2, <1>3, DeliverySteps
<1>4. CASE Delivered' = {}
  BY <1>1, <1>2, <1>4, DeliverySteps
<1>5. CASE UNCHANGED <<node, altered>>
  BY <1>3, <1>5, DeliveredStays
<1>6. CASE ApplyFull(pull.body, started)
  <2>1. CASE node' = None
    BY <1>4, <2>1 DEF Delivered
  <2>2. CASE node' # None
    <3>1. node' = CoreOf(pull.body) /\ altered' = {}
      BY <1>6, <2>2 DEF ApplyFull
    <3>2. Delivered' = {Offered(pull.body)}
      BY <2>2, <3>1 DEF Delivered, Offered, AsOffer, CoreOf, Fixed, Listeners, InboundListeners
    <3> QED BY <1>1, <1>2, <3>2, DeliverySteps
  <2> QED BY <2>1, <2>2
<1>7. CASE node # None /\ ~ NeedsRestart(lastPulled, pull.body) /\ ApplyHot(pull.body)
  <2>1. CASE "start" \in altered
    <3>1. "start" \in altered'
      BY <1>7, <2>1 DEF ApplyHot
    <3> QED BY <1>4, <3>1 DEF Delivered
  <2>2. CASE node' = None
    BY <1>4, <2>2 DEF Delivered
  <2>3. CASE "start" \notin altered /\ node' # None
    <3>1. Delivered = {AsOffer(node)}
      BY <1>7, <2>3 DEF Delivered
    <3> QED BY <1>1, <1>2, <1>7, <2>3, <3>1, HotRefreshes, DeliverySteps
  <2> QED BY <2>1, <2>2, <2>3
<1> QED BY <1>5, <1>6, <1>7 DEF PullApply

\* PUT users sets a list on the listeners of an inbound, or on a core that is not
\* the panel's.
LEMMA ByHandDelivers ==
    ASSUME ShapeInv, NEW tag, NEW proto, NEW list \in ManualUsers, HandleUpdateUsers(tag, proto, list)
    PROVE  Delivery!SetLists \/ Delivery!Stop \/ UNCHANGED Delivery!delivery
<1> DEFINE users == UsersOfInbound(tag, list)
           S == {l \in DOMAIN node.users : Tag(l) = tag}
<1>1. Fetched' = Fetched /\ Offered(desired)' = Offered(desired)
  BY FetchedStays DEF HandleUpdateUsers, Offered, AsOffer, CoreOf, Fixed, Listeners, InboundListeners
<1>2. node # None /\ node' = [cfg |-> node.cfg, users |-> users]
  BY DEF HandleUpdateUsers, ShapeInv, TypeOK
<1>3. "start" \in altered' <=> "start" \in altered
  BY DEF HandleUpdateUsers
<1>4. CASE node' = None
  BY <1>1, <1>4, DeliverySteps DEF Delivered
<1>5. CASE "start" \in altered
  BY <1>1, <1>3, <1>5, DeliverySteps DEF Delivered
<1>6. CASE "start" \notin altered /\ node' # None
  <2>1. Delivered = {AsOffer(node)} /\ AsOffer(node) = [fixed |-> Fixed(node.cfg), lists |-> node.users]
    BY <1>2, <1>6 DEF Delivered, AsOffer
  <2>2. Delivered' = {[fixed |-> Fixed(node.cfg), lists |-> users]}
    BY <1>2, <1>3, <1>6 DEF Delivered, AsOffer, Fixed
  <2>3. users = [l \in DOMAIN node.users |-> IF l \in S THEN [k \in S |-> list][l] ELSE node.users[l]]
    BY DEF UsersOfInbound
  <2> HIDE DEF S, users
  <2>4. Delivery!WithLists(AsOffer(node), S, [l \in S |-> list]) = [fixed |-> Fixed(node.cfg), lists |-> users]
    BY <2>1, <2>3 DEF Delivery!WithLists
  <2>5. S \in SUBSET DOMAIN AsOffer(node).lists
    BY <2>1 DEF S
  <2> QED BY <1>1, <2>1, <2>2, <2>4, <2>5, DeliverySteps
<1> QED BY <1>4, <1>5, <1>6

LEMMA NextDelivers == ShapeInv /\ [Next]_vars => [Delivery!DeliveryNext]_(Delivery!delivery)
<1> SUFFICES ASSUME ShapeInv, [Next]_vars PROVE [Delivery!DeliveryNext]_(Delivery!delivery)
  OBVIOUS
<1> USE DEF Delivery!DeliveryNext
<1>1. ASSUME UNCHANGED desired PROVE Offered(desired)' = Offered(desired)
  BY <1>1 DEF Offered, AsOffer, CoreOf, Fixed, Listeners, InboundListeners
<1>2. ASSUME NEW cfg \in Configs, Publish(cfg) PROVE Delivery!Announce
  <2>1. Offered(desired)' = Offered(cfg)
    BY <1>2 DEF Publish, Offered, AsOffer, CoreOf, Fixed, Listeners, InboundListeners
  <2>2. Fetched' = Fetched /\ Delivered' = Delivered
    BY <1>2, FetchedStays, DeliveredStays DEF Publish
  <2> QED BY <2>1, <2>2, DeliverySteps
<1>3. CASE PullSend
  <2>1. Fetched' = Fetched /\ Delivered' = Delivered
    BY <1>3, DeliveredStays DEF PullSend, Fetched
  <2> QED BY <1>1, <1>3, <2>1, DeliverySteps DEF PullSend
<1>4. CASE PullAnswer
  <2>1. Fetched = {} /\ Delivered' = Delivered
    BY <1>4, DeliveredStays DEF PullAnswer, Fetched
  <2>2. Fetched' = {} \/ Fetched' = {Offered(desired)}
    <3>1. CASE pull.etag = desired
      BY <1>4, <3>1, FetchedIdle DEF PullAnswer
    <3>2. CASE pull.etag # desired
      <4>1. pull' = [phase |-> "answered", body |-> desired]
        BY <1>4, <3>2 DEF PullAnswer
      <4> QED BY <4>1 DEF Fetched, Offered, AsOffer, CoreOf, Fixed, Listeners, InboundListeners
    <3> QED BY <3>1, <3>2
  <2> QED BY <1>1, <1>4, <2>1, <2>2, DeliverySteps DEF PullAnswer
<1>5. CASE PullFail
  <2>1. Fetched' = {} /\ Delivered' = Delivered
    BY <1>5, FetchedIdle, DeliveredStays DEF PullFail
  <2> QED BY <1>1, <1>5, <2>1, DeliverySteps DEF PullFail
<1>6. ASSUME NEW started \in BOOLEAN, PullApply(started) PROVE Delivery!DeliveryNext
  BY <1>6, ApplyDelivers
<1>7. ASSUME NEW cfg \in ManualConfigs, HandleStart(cfg) PROVE UNCHANGED Delivery!delivery
  <2>1. Delivered = {} /\ Delivered' = {} /\ Fetched' = Fetched
    BY <1>7, FetchedStays DEF HandleStart, Delivered
  <2> QED BY <1>1, <1>7, <2>1, DeliverySteps DEF HandleStart
<1>8. CASE HandleStop \/ AgentRestart
  <2>1. Delivered' = {} /\ Fetched' \in {Fetched, {}}
    BY <1>8, FetchedStays, FetchedIdle DEF HandleStop, AgentRestart, Delivered
  <2> QED BY <1>1, <1>8, <2>1, DeliverySteps DEF HandleStop, AgentRestart
<1>9. ASSUME NEW tag \in ManualTags, NEW proto \in HotProtocols, NEW list \in ManualUsers,
             HandleUpdateUsers(tag, proto, list)
      PROVE  [Delivery!DeliveryNext]_(Delivery!delivery)
  BY <1>9, ByHandDelivers
<1>10. CASE UNCHANGED vars
  <2>1. Fetched' = Fetched /\ Delivered' = Delivered
    BY <1>10, FetchedStays, DeliveredStays DEF vars
  <2> QED BY <1>1, <1>10, <2>1, DeliverySteps DEF vars
<1> QED BY <1>2, <1>3, <1>4, <1>5, <1>6, <1>7, <1>8, <1>9, <1>10 DEF Next

\* The pull loop, the answers and 304s, the hot updates and restarts that fail
\* and the management endpoints implement ConfigDelivery, for any configs,
\* lists and ciphers: comparing an answer with lastPulled instead of with what
\* runs loses nothing of what the panel may expect of the core it configured.
THEOREM DeliveryTheorem == Spec => ImplementsDelivery
<1>1. Init => Delivery!DeliveryInit
  BY DEF Init, Delivery!DeliveryInit
<1>2. Init => ShapeInv
  BY DEF Init, ShapeInv, RunningShapeIsLastPulled, CipherIsTheListeners, TypeOK, PullStates
<1>3. ShapeInv /\ TypeOK' /\ [Next]_vars => ShapeInv'
  BY ShapeStep
<1> QED BY <1>1, <1>2, <1>3, NextDelivers, TypeCorrect, PTL DEF Spec, ImplementsDelivery, Delivery!DeliverySpec

-----------------------------------------------------------------------------
(***************************************************************************)
(* TunnelFallback: the history of a tunnel's results ends in its streaks,  *)
(* and no round forgets a tunnel the host is configured for.               *)
(***************************************************************************)

\* The last n members of h are all in S.
EndsIn(h, n, S) ==
    Len(h) >= n /\ \A i \in Len(h) - n + 1 .. Len(h) : h[i] \in S

\* The rounds' bookkeeping: no tunnel is probed twice in a round, which covers
\* every tunnel the host is configured for.
RoundInv ==
    /\ \A p, q \in probed : p[1] = q[1] => p = q
    /\ busy => configured \subseteq names
    /\ want # "none" => pos # 0

\* What each entry of the monitor owes to the results recorded for its tunnel.
EntriesInv ==
    /\ history \in [Tunnels -> Seq(Results)]
    /\ \A t \in Tunnels :
         /\ EndsIn(history[t], okStreak[t], {"ok"})
         /\ EndsIn(history[t], failStreak[t], {"fail", "missing"})
    /\ \A t \in configured :
         /\ t \notin known => history[t] = << >>
         /\ EndsIn(history[t], 1, {"missing"}) => t \in known /\ ~ up[t]

TunnelInv == TunnelTypeOK /\ RoundInv /\ EntriesInv

LEMMA TunnelInvInit == TunnelInit => TunnelInv
  <1> SUFFICES ASSUME TunnelInit PROVE TunnelInv
    OBVIOUS
  <1>1. TunnelTypeOK
    <2> USE StreaksAssumption, RestartsAssumption, GroupsAssumption DEF TunnelInit, TunnelTypeOK
    <2>1. configured \subseteq Tunnels /\ world \in [Tunnels -> Results] /\ up \in [Tunnels -> BOOLEAN]
      OBVIOUS
    <2>2. okStreak \in [Tunnels -> 0 .. UpAfter] /\ failStreak \in [Tunnels -> 0 .. DownAfter]
      OBVIOUS
    <2>3. /\ restarts \in 0 .. MaxRestarts /\ pos \in 0 .. (IF running THEN NGroups ELSE 0)
          /\ selected \in [Groups -> {"primary", "fallback"}] /\ active \in [Groups -> BOOLEAN]
      OBVIOUS
    <2>4. /\ watched \subseteq Tunnels /\ known \subseteq Tunnels /\ busy \in BOOLEAN /\ running \in BOOLEAN
          /\ names \subseteq (IF busy THEN Tunnels ELSE {}) /\ left \subseteq names
          /\ probed \subseteq left \X Results /\ want \in {"none", "primary", "fallback"}
      OBVIOUS
    <2> QED BY <2>1, <2>2, <2>3, <2>4
  <1>2. RoundInv
    BY DEF TunnelInit, RoundInv
  <1>3. EntriesInv
    BY DEF TunnelInit, EntriesInv, EndsIn
  <1> QED BY <1>1, <1>2, <1>3 DEF TunnelInv

\* Recording a result leaves the verdicts and the streaks in their types.
LEMMA RecordTypes ==
  ASSUME TunnelTypeOK, NEW t \in Tunnels, NEW result \in Results, Record(t, result)
  PROVE  /\ up' \in [Tunnels -> BOOLEAN]
         /\ okStreak' \in [Tunnels -> 0 .. UpAfter]
         /\ failStreak' \in [Tunnels -> 0 .. DownAfter]
  <1>1. /\ up \in [Tunnels -> BOOLEAN]
        /\ okStreak \in [Tunnels -> 0 .. UpAfter]
        /\ failStreak \in [Tunnels -> 0 .. DownAfter]
    BY DEF TunnelTypeOK
  <1>2. /\ up' = [up EXCEPT ![t] = VerdictAfter(t, result)]
        /\ okStreak' = [okStreak EXCEPT ![t] = OkStreakAfter(t, result)]
        /\ failStreak' = [failStreak EXCEPT ![t] = FailStreakAfter(t, result)]
    BY DEF Record
  <1>3. VerdictAfter(t, result) \in BOOLEAN
    BY DEF VerdictAfter
  <1>4. OkStreakAfter(t, result) \in 0 .. UpAfter
    BY <1>1, StreaksAssumption DEF OkStreakAfter, AtMost
  <1>5. FailStreakAfter(t, result) \in 0 .. DownAfter
    BY <1>1, StreaksAssumption DEF FailStreakAfter, AtMost
  <1> HIDE DEF TunnelTypeOK
  <1> QED BY <1>1, <1>2, <1>3, <1>4, <1>5

LEMMA TunnelTypeNext == TunnelInv /\ [TunnelNext]_tunnelVars => TunnelTypeOK'
  <1> SUFFICES ASSUME TunnelInv, [TunnelNext]_tunnelVars
               PROVE  TunnelTypeOK'
    OBVIOUS
  <1> USE StreaksAssumption, RestartsAssumption, GroupsAssumption
      DEF TunnelInv, TunnelTypeOK, RoundInv, monitorVars, roundVars, coreVars, Groups
  <1>1. ASSUME NEW t \in Tunnels, WorldChanges(t) PROVE TunnelTypeOK'
    <2>1. world' \in [Tunnels -> Results]
      BY <1>1 DEF WorldChanges
    <2>2. UNCHANGED <<configured, monitorVars, roundVars, coreVars>>
      BY <1>1 DEF WorldChanges
    <2> QED BY <2>1, <2>2
  <1>2. ASSUME NEW t \in Tunnels, Probe(t) PROVE TunnelTypeOK'
    <2>1. world[t] \in Results
      OBVIOUS
    <2>2. /\ probed' = probed \cup {<<t, world[t]>>} /\ t \in left
          /\ UNCHANGED <<configured, world, watched, known, up, okStreak, failStreak, busy, names, left,
                         running, restarts, pos, want, selected, active>>
      BY <1>2 DEF Probe
    <2>3. probed' \subseteq left' \X Results
      BY <2>1, <2>2
    <2> QED BY <2>2, <2>3
  <1>3. ASSUME NEW t \in Tunnels, NEW result \in Results, Record(t, result)
        PROVE  TunnelTypeOK'
    <2>1. /\ up' \in [Tunnels -> BOOLEAN] /\ okStreak' \in [Tunnels -> 0 .. UpAfter]
          /\ failStreak' \in [Tunnels -> 0 .. DownAfter]
      BY <1>3, RecordTypes
    <2>3. probed' \subseteq left' \X Results
      BY <1>3 DEF Record
    <2> QED BY <1>3, <2>1, <2>3 DEF Record
  <1>4. CASE TickBegins
    BY <1>4 DEF TickBegins, Discover
  <1>5. CASE TickEnds
    BY <1>5 DEF TickEnds
  <1>6. CASE StartCore
    <2>1. /\ running' = TRUE /\ watched' \subseteq Tunnels
          /\ selected' \in [Groups -> {"primary", "fallback"}] /\ active' \in [Groups -> BOOLEAN]
      BY <1>6 DEF StartCore
    <2>2. UNCHANGED <<configured, world, known, up, okStreak, failStreak, busy, names, left, probed,
                      restarts, pos, want>>
      BY <1>6 DEF StartCore
    <2>3. running' \in BOOLEAN /\ pos' \in 0 .. (IF running' THEN NGroups ELSE 0)
      BY <1>6 DEF StartCore
    <2>4. /\ configured' \subseteq Tunnels /\ world' \in [Tunnels -> Results]
          /\ known' \subseteq Tunnels /\ up' \in [Tunnels -> BOOLEAN]
          /\ okStreak' \in [Tunnels -> 0 .. UpAfter] /\ failStreak' \in [Tunnels -> 0 .. DownAfter]
      BY <2>2
    <2>5. /\ busy' \in BOOLEAN /\ names' \subseteq (IF busy' THEN Tunnels ELSE {})
          /\ left' \subseteq names' /\ probed' \subseteq left' \X Results /\ restarts' \in 0 .. MaxRestarts
          /\ want' \in {"none", "primary", "fallback"}
      BY <2>2
    <2> QED BY <2>1, <2>3, <2>4, <2>5
  <1>7. CASE StopCore
    <2>1. /\ watched' \subseteq Tunnels /\ running' = FALSE /\ pos' = 0 /\ want' = "none"
          /\ restarts' \in 0 .. MaxRestarts
      BY <1>7 DEF StopCore, StopPass
    <2>2. UNCHANGED <<configured, world, known, up, okStreak, failStreak, busy, names, left, probed,
                      selected, active>>
      BY <1>7 DEF StopCore
    <2>3. /\ configured' \subseteq Tunnels /\ world' \in [Tunnels -> Results]
          /\ known' \subseteq Tunnels /\ up' \in [Tunnels -> BOOLEAN]
          /\ okStreak' \in [Tunnels -> 0 .. UpAfter] /\ failStreak' \in [Tunnels -> 0 .. DownAfter]
      BY <2>2
    <2>4. /\ busy' \in BOOLEAN /\ names' \subseteq (IF busy' THEN Tunnels ELSE {})
          /\ left' \subseteq names' /\ probed' \subseteq left' \X Results
          /\ selected' \in [Groups -> {"primary", "fallback"}] /\ active' \in [Groups -> BOOLEAN]
      BY <2>2
    <2>5. running' \in BOOLEAN /\ pos' \in 0 .. (IF running' THEN NGroups ELSE 0)
      <3>1. running' = FALSE /\ (IF running' THEN NGroups ELSE 0) = 0
        BY <2>1
      <3>2. 0 \in 0 .. 0
        OBVIOUS
      <3> QED BY <2>1, <3>1, <3>2
    <2> QED BY <2>1, <2>3, <2>4, <2>5
  <1>8. CASE ReconcileBegins
    BY <1>8 DEF ReconcileBegins
  <1>9. CASE Decide
    BY <1>9 DEF Decide, Wanted
  <1>10. CASE Switch
    BY <1>10 DEF Switch
  <1>11. CASE UNCHANGED tunnelVars
    BY <1>11 DEF tunnelVars
  <1> QED BY <1>1, <1>2, <1>3, <1>4, <1>5, <1>6, <1>7, <1>8, <1>9, <1>10, <1>11 DEF TunnelNext

LEMMA RoundNext == TunnelInv /\ [TunnelNext]_tunnelVars => RoundInv'
  <1> SUFFICES ASSUME TunnelInv, [TunnelNext]_tunnelVars PROVE RoundInv'
    OBVIOUS
  <1> USE DEF RoundInv
  <1>1. /\ RoundInv /\ configured \subseteq Tunnels /\ names \subseteq (IF busy THEN Tunnels ELSE {})
        /\ pos \in 0 .. (IF running THEN NGroups ELSE 0) /\ NGroups \in Nat
    BY GroupsAssumption DEF TunnelInv, TunnelTypeOK
  <1>2. ASSUME NEW t \in Tunnels, WorldChanges(t) PROVE RoundInv'
    BY <1>1, <1>2 DEF WorldChanges, roundVars, coreVars
  <1>3. ASSUME NEW t \in Tunnels, Probe(t) PROVE RoundInv'
    BY <1>1, <1>3 DEF Probe, coreVars
  <1>4. ASSUME NEW t \in Tunnels, NEW result \in Results, Record(t, result) PROVE RoundInv'
    BY <1>1, <1>4 DEF Record, coreVars
  <1>5. CASE TickBegins
    BY <1>1, <1>5 DEF TickBegins, Discover, coreVars
  <1>6. CASE TickEnds
    BY <1>1, <1>6 DEF TickEnds, coreVars
  <1>7. CASE StartCore
    BY <1>1, <1>7 DEF StartCore, roundVars
  <1>8. CASE StopCore
    BY <1>1, <1>8 DEF StopCore, StopPass, roundVars
  <1>9. CASE ReconcileBegins
    BY <1>1, <1>9 DEF ReconcileBegins, roundVars
  <1>10. CASE Decide
    BY <1>1, <1>10 DEF Decide, roundVars
  <1>11. CASE Switch
    BY <1>1, <1>11 DEF Switch, roundVars
  <1>12. CASE UNCHANGED tunnelVars
    BY <1>1, <1>12 DEF tunnelVars, roundVars, coreVars
  <1> QED BY <1>2, <1>3, <1>4, <1>5, <1>6, <1>7, <1>8, <1>9, <1>10, <1>11, <1>12 DEF TunnelNext

LEMMA Window ==
  ASSUME NEW i \in Int, NEW len \in Nat, NEW m \in Nat, NEW n \in Nat, NEW cap \in Nat,
         m <= n + 1, m <= cap, len > cap, i >= len - m + 1, i < len
  PROVE  i \in 1 .. len - 1 /\ i + 1 \in len - n + 1 .. len
  OBVIOUS

\* A result more, with the oldest dropped when there are enough, ends in one more
\* result of the set.
LEMMA EndsInOneMore ==
  ASSUME NEW h \in Seq(Results), NEW r \in Results, NEW S, r \in S,
         NEW n \in Nat, EndsIn(h, n, S), NEW cap \in Nat,
         NEW m \in Nat, m <= n + 1, m <= cap, NEW long \in BOOLEAN, long => Len(h) > cap,
         NEW g, g = IF long THEN Append(Tail(h), r) ELSE Append(h, r)
  PROVE  EndsIn(g, m, S)
  <1>1. CASE ~ long
    <2>1. /\ Len(h) \in Nat /\ Len(g) = Len(h) + 1 /\ g[Len(g)] = r
          /\ \A i \in 1 .. Len(h) : g[i] = h[i]
      BY <1>1
    <2>2. ASSUME NEW i \in Len(g) - m + 1 .. Len(g) PROVE g[i] \in S
      <3>1. i \in Int /\ (i = Len(g) \/ (i \in 1 .. Len(h) /\ i \in Len(h) - n + 1 .. Len(h)))
        BY <2>1 DEF EndsIn
      <3> QED BY <2>1, <3>1 DEF EndsIn
    <2> QED BY <2>1, <2>2 DEF EndsIn
  <1>2. CASE long
    <2>1. Len(h) \in Nat /\ Len(h) > cap /\ h # << >>
      BY <1>2
    <2>2. /\ Tail(h) \in Seq(Results) /\ Len(Tail(h)) = Len(h) - 1
          /\ \A i \in 1 .. Len(h) - 1 : Tail(h)[i] = h[i + 1]
      BY <2>1
    <2>3. /\ Len(g) = Len(h) /\ g[Len(g)] = r
          /\ \A i \in 1 .. Len(h) - 1 : g[i] = h[i + 1]
      BY <1>2, <2>1, <2>2
    <2>4. ASSUME NEW i \in Len(g) - m + 1 .. Len(g) PROVE g[i] \in S
      <3>1. i \in Int /\ i >= Len(h) - m + 1 /\ i <= Len(h)
        BY <2>1, <2>3
      <3>2. CASE i = Len(g)
        BY <3>2, <2>3
      <3>3. CASE i # Len(g)
        <4>0. i < Len(h)
          BY <3>1, <3>3, <2>1, <2>3
        <4>1. i \in 1 .. Len(h) - 1 /\ i + 1 \in Len(h) - n + 1 .. Len(h)
          BY <4>0, <3>1, <2>1, Window
        <4>2. h[i + 1] \in S
          BY <4>1 DEF EndsIn
        <4> QED BY <4>1, <4>2, <2>3
      <3> QED BY <3>2, <3>3
    <2>5. Len(g) >= m
      BY <2>1, <2>3
    <2> QED BY <2>4, <2>5 DEF EndsIn
  <1> QED BY <1>1, <1>2

\* Recording a result leaves the history of its tunnel ending in its streaks.
LEMMA RecordKeepsEntries ==
  ASSUME TunnelInv, NEW t \in Tunnels, NEW result \in Results, Record(t, result)
  PROVE  EntriesInv' /\ EndsIn(history'[t], 1, {result}) /\ (t \in configured /\ t \notin known => Len(history'[t]) = 1)
  <1> USE StreaksAssumption
  <1> DEFINE h == history[t]
             long == ~ (Len(h) <= UpAfter \/ Len(h) <= DownAfter)
             g == IF long THEN Append(Tail(h), result) ELSE Append(h, result)
  <1>1. /\ up' = [up EXCEPT ![t] = VerdictAfter(t, result)]
        /\ okStreak' = [okStreak EXCEPT ![t] = OkStreakAfter(t, result)]
        /\ failStreak' = [failStreak EXCEPT ![t] = FailStreakAfter(t, result)]
        /\ history' = [history EXCEPT ![t] = g]
        /\ known' = known \cup {t} /\ configured' = configured
    BY DEF Record
  <1>2. /\ history \in [Tunnels -> Seq(Results)] /\ h \in Seq(Results) /\ Len(h) \in Nat
        /\ up \in [Tunnels -> BOOLEAN] /\ okStreak \in [Tunnels -> 0 .. UpAfter]
        /\ failStreak \in [Tunnels -> 0 .. DownAfter] /\ configured \subseteq Tunnels
    BY DEF TunnelInv, EntriesInv, TunnelTypeOK
  <1>3. long \in BOOLEAN /\ (long => Len(h) > UpAfter /\ Len(h) > DownAfter /\ h # << >>)
    BY <1>2
  <1> HIDE DEF long
  <1>4. g \in Seq(Results)
    BY <1>2, <1>3
  <1>5. /\ history' \in [Tunnels -> Seq(Results)] /\ history'[t] = g
        /\ \A u \in Tunnels \ {t} : history'[u] = history[u]
    BY <1>1, <1>2, <1>4
  <1>6. /\ okStreak'[t] = OkStreakAfter(t, result) /\ failStreak'[t] = FailStreakAfter(t, result)
        /\ \A u \in Tunnels \ {t} : okStreak'[u] = okStreak[u] /\ failStreak'[u] = failStreak[u]
        /\ up'[t] = VerdictAfter(t, result) /\ \A u \in Tunnels \ {t} : up'[u] = up[u]
    BY <1>1, <1>2
  <1>7. EndsIn(h, okStreak[t], {"ok"}) /\ EndsIn(h, failStreak[t], {"fail", "missing"})
    BY DEF TunnelInv, EntriesInv
  <1>8. EndsIn(h, 0, {result})
    BY <1>2 DEF EndsIn
  <1>9. EndsIn(g, 1, {result})
    <2>1. UpAfter \in Nat /\ 1 \in Nat /\ 0 \in Nat /\ 1 <= 0 + 1 /\ 1 <= UpAfter /\ result \in {result}
      OBVIOUS
    <2> HIDE DEF h
    <2> QED BY <1>2, <1>3, <1>8, <2>1, EndsInOneMore
  <1>10. EndsIn(g, OkStreakAfter(t, result), {"ok"})
    <2>1. CASE result # "ok"
      BY <2>1, <1>4 DEF OkStreakAfter, EndsIn
    <2>2. CASE result = "ok"
      <3>1. okStreak[t] \in Nat /\ okStreak[t] <= UpAfter
        BY <1>2
      <3>2. /\ OkStreakAfter(t, result) \in Nat /\ OkStreakAfter(t, result) <= okStreak[t] + 1
            /\ OkStreakAfter(t, result) <= UpAfter
        BY <2>2, <3>1 DEF OkStreakAfter, AtMost
      <3>3. UpAfter \in Nat /\ (long => Len(h) > UpAfter) /\ result \in {"ok"}
        BY <1>3, <2>2
      <3> HIDE DEF h
      <3> QED BY <1>2, <1>3, <1>7, <3>1, <3>2, <3>3, EndsInOneMore
    <2> QED BY <2>1, <2>2
  <1>11. EndsIn(g, FailStreakAfter(t, result), {"fail", "missing"})
    <2>1. CASE result = "ok"
      BY <2>1, <1>4 DEF FailStreakAfter, EndsIn
    <2>2. CASE result # "ok"
      <3>1. failStreak[t] \in Nat /\ failStreak[t] <= DownAfter
        BY <1>2
      <3>2. /\ FailStreakAfter(t, result) \in Nat /\ FailStreakAfter(t, result) <= failStreak[t] + 1
            /\ FailStreakAfter(t, result) <= DownAfter
        BY <2>2, <3>1 DEF FailStreakAfter, AtMost
      <3>3. DownAfter \in Nat /\ (long => Len(h) > DownAfter) /\ result \in {"fail", "missing"}
        BY <1>3, <2>2 DEF Results
      <3> HIDE DEF h
      <3> QED BY <1>2, <1>3, <1>7, <3>1, <3>2, <3>3, EndsInOneMore
    <2> QED BY <2>1, <2>2
  <1>12. \A u \in Tunnels : EndsIn(history'[u], okStreak'[u], {"ok"})
                              /\ EndsIn(history'[u], failStreak'[u], {"fail", "missing"})
    BY <1>5, <1>6, <1>10, <1>11 DEF TunnelInv, EntriesInv
  <1>13. EndsIn(g, 1, {"missing"}) => result = "missing"
    <2>1. Len(g) \in Nat
      BY <1>4
    <2> QED BY <1>9, <2>1 DEF EndsIn
  <1>14. ASSUME NEW u \in configured
         PROVE  /\ u \notin known' => history'[u] = << >>
                /\ EndsIn(history'[u], 1, {"missing"}) => u \in known' /\ ~ up'[u]
    <2>1. u \in Tunnels
      BY <1>2
    <2>2. CASE u = t
      BY <2>2, <1>1, <1>5, <1>6, <1>13 DEF VerdictAfter
    <2>3. CASE u # t
      BY <2>1, <2>3, <1>1, <1>5, <1>6 DEF TunnelInv, EntriesInv
    <2> QED BY <2>2, <2>3
  <1>15. (t \in configured /\ t \notin known) => Len(g) = 1
    <2> SUFFICES ASSUME t \in configured, t \notin known PROVE Len(g) = 1
      OBVIOUS
    <2>1. h = << >>
      BY DEF TunnelInv, EntriesInv
    <2> QED BY <2>1, <1>3
  <1> QED BY <1>1, <1>5, <1>9, <1>12, <1>14, <1>15 DEF EntriesInv

LEMMA TunnelInvNext == TunnelInv /\ [TunnelNext]_tunnelVars => TunnelInv'
  <1> SUFFICES ASSUME TunnelInv, [TunnelNext]_tunnelVars PROVE EntriesInv'
    BY TunnelTypeNext, RoundNext DEF TunnelInv
  <1>1. ASSUME NEW t \in Tunnels, NEW result \in Results, Record(t, result) PROVE EntriesInv'
    BY <1>1, RecordKeepsEntries
  <1>2. CASE TickEnds
    <2>1. /\ configured \cap known \subseteq known' /\ known' \subseteq known
          /\ UNCHANGED <<configured, up, okStreak, failStreak, history>>
      BY <1>2 DEF TickEnds, TunnelInv, RoundInv
    <2> QED BY <2>1 DEF TunnelInv, EntriesInv
  <1>3. CASE UNCHANGED <<configured, known, up, okStreak, failStreak, history>>
    BY <1>3 DEF TunnelInv, EntriesInv
  <1>4. CASE TickBegins \/ StartCore \/ StopCore \/ ReconcileBegins \/ Decide \/ Switch
    BY <1>3, <1>4 DEF TickBegins, StartCore, StopCore, ReconcileBegins, Decide, Switch, monitorVars
  <1>5. ASSUME NEW t \in Tunnels, WorldChanges(t) \/ Probe(t) PROVE EntriesInv'
    BY <1>3, <1>5 DEF WorldChanges, Probe, monitorVars
  <1> QED BY <1>1, <1>2, <1>3, <1>4, <1>5 DEF TunnelNext, tunnelVars, monitorVars

\* A configured tunnel's verdict turns up after UpAfter good results, and down
\* after DownAfter bad ones, a missing interface or the first result.
LEMMA VerdictStep ==
  ASSUME TunnelInv, [TunnelNext]_tunnelVars, NEW t \in configured
  PROVE  /\ ~ Up(t) /\ Up(t)' => LastAre(t, UpAfter, {"ok"})'
         /\ Up(t) /\ ~ Up(t)' =>
               \/ LastAre(t, DownAfter, {"fail", "missing"})'
               \/ LastAre(t, 1, {"missing"})'
               \/ Len(history'[t]) = 1
  <1> USE StreaksAssumption
  <1>1. t \in Tunnels
    BY DEF TunnelInv, TunnelTypeOK
  <1>2. CASE (t \in known' <=> t \in known) /\ up'[t] = up[t]
    BY <1>2 DEF Up
  <1>3. ASSUME NEW u \in Tunnels, NEW result \in Results, Record(u, result), t = u
        PROVE  /\ ~ Up(t) /\ Up(t)' => LastAre(t, UpAfter, {"ok"})'
               /\ Up(t) /\ ~ Up(t)' =>
                     \/ LastAre(t, DownAfter, {"fail", "missing"})'
                     \/ LastAre(t, 1, {"missing"})'
                     \/ Len(history'[t]) = 1
    <2>1. EntriesInv' /\ EndsIn(history'[t], 1, {result}) /\ (t \notin known => Len(history'[t]) = 1)
      BY <1>3, RecordKeepsEntries
    <2>2. /\ up'[t] = VerdictAfter(t, result) /\ t \in known'
          /\ okStreak'[t] = OkStreakAfter(t, result) /\ failStreak'[t] = FailStreakAfter(t, result)
      BY <1>1, <1>3 DEF Record, TunnelInv, TunnelTypeOK
    <2>3. ASSUME ~ Up(t), Up(t)' PROVE LastAre(t, UpAfter, {"ok"})'
      <3>1. OkStreakAfter(t, result) >= UpAfter /\ OkStreakAfter(t, result) \in 0 .. UpAfter
        <4>1. t \in known /\ ~ up[t] /\ up'[t]
          BY <2>2, <2>3 DEF Up
        <4>2. OkStreakAfter(t, result) >= UpAfter
          BY <4>1, <2>2 DEF VerdictAfter
        <4>3. okStreak[t] \in 0 .. UpAfter
          BY <1>1 DEF TunnelInv, TunnelTypeOK
        <4> QED BY <4>2, <4>3 DEF OkStreakAfter, AtMost
      <3>2. okStreak'[t] = UpAfter
        BY <2>2, <3>1
      <3> QED BY <1>1, <2>1, <3>2 DEF EntriesInv, EndsIn, LastAre
    <2>4. ASSUME Up(t), ~ Up(t)'
          PROVE  \/ LastAre(t, DownAfter, {"fail", "missing"})'
                 \/ LastAre(t, 1, {"missing"})'
                 \/ Len(history'[t]) = 1
      <3>1. CASE t \notin known
        BY <2>1, <3>1
      <3>2. CASE result = "missing"
        BY <2>1, <3>2 DEF EndsIn, LastAre
      <3>3. CASE t \in known /\ result # "missing"
        <4>1. up[t] /\ ~ up'[t]
          BY <2>2, <2>4, <3>3 DEF Up
        <4>2. ~ (FailStreakAfter(t, result) < DownAfter)
          BY <4>1, <2>2, <3>3 DEF VerdictAfter
        <4>3. failStreak[t] \in 0 .. DownAfter
          BY <1>1 DEF TunnelInv, TunnelTypeOK
        <4>4. failStreak'[t] = DownAfter
          BY <2>2, <4>2, <4>3 DEF FailStreakAfter, AtMost
        <4> QED BY <1>1, <2>1, <4>4 DEF EntriesInv, EndsIn, LastAre
      <3> QED BY <3>1, <3>2, <3>3
    <2> QED BY <2>3, <2>4
  <1>4. ASSUME NEW u \in Tunnels, NEW result \in Results, Record(u, result), t # u
        PROVE  (t \in known' <=> t \in known) /\ up'[t] = up[t]
    BY <1>1, <1>4 DEF Record, TunnelInv, TunnelTypeOK
  <1>5. ASSUME TickEnds PROVE (t \in known' <=> t \in known) /\ up'[t] = up[t]
    BY <1>5 DEF TickEnds, TunnelInv, RoundInv
  <1>6. ASSUME TickBegins \/ StartCore \/ StopCore \/ ReconcileBegins \/ Decide \/ Switch
        PROVE  known' = known /\ up' = up
    BY <1>6 DEF TickBegins, StartCore, StopCore, ReconcileBegins, Decide, Switch, monitorVars
  <1>7. ASSUME NEW u \in Tunnels, WorldChanges(u) \/ Probe(u) PROVE known' = known /\ up' = up
    BY <1>7 DEF WorldChanges, Probe, monitorVars
  <1>8. ASSUME UNCHANGED tunnelVars PROVE known' = known /\ up' = up
    BY <1>8 DEF tunnelVars, monitorVars
  <1> QED BY <1>2, <1>3, <1>4, <1>5, <1>6, <1>7, <1>8 DEF TunnelNext

\* A pass never chooses a tunnel whose interface the last probe missed.
LEMMA MissingStep ==
  ASSUME TunnelInv, [TunnelNext]_tunnelVars,
         want = "none", want' = "primary", IfaceOf[pos] \in configured
  PROVE  ~ LastAre(IfaceOf[pos], 1, {"missing"})
  <1>1. Decide
    BY DEF TunnelNext, tunnelVars, WorldChanges, Probe, Record, TickBegins, TickEnds, StartCore,
           StopCore, StopPass, ReconcileBegins, Switch, coreVars
  <1>2. Up(IfaceOf[pos])
    BY <1>1 DEF Decide, Wanted
  <1>3. ~ EndsIn(history[IfaceOf[pos]], 1, {"missing"})
    BY <1>2 DEF TunnelInv, EntriesInv, Up
  <1> QED BY <1>3 DEF EndsIn, LastAre

\* For any tunnels, groups and thresholds the verdicts of the tunnels that the host is
\* configured for are earned across core restarts, and one whose interface was missing when
\* it was last probed is never chosen (tunnelhealth/monitor.go, fallback.go).
THEOREM VerdictsSound == TunnelSpec => VerdictsAreSound
  <1>1. TunnelInit => TunnelInv
    BY TunnelInvInit
  <1>2. TunnelInv /\ [TunnelNext]_tunnelVars => TunnelInv'
    BY TunnelInvNext
  <1>3. TunnelInv => TunnelTypeOK
    BY DEF TunnelInv
  <1>4. TunnelInv /\ [TunnelNext]_tunnelVars =>
          [\A t \in configured :
             /\ ~ Up(t) /\ Up(t)' => LastAre(t, UpAfter, {"ok"})'
             /\ Up(t) /\ ~ Up(t)' =>
                   \/ LastAre(t, DownAfter, {"fail", "missing"})'
                   \/ LastAre(t, 1, {"missing"})'
                   \/ Len(history'[t]) = 1]_tunnelVars
    BY VerdictStep
  <1>5. TunnelInv /\ [TunnelNext]_tunnelVars =>
          [want = "none" /\ want' = "primary" /\ IfaceOf[pos] \in configured =>
             ~ LastAre(IfaceOf[pos], 1, {"missing"})]_tunnelVars
    BY MissingStep
  <1> QED BY <1>1, <1>2, <1>3, <1>4, <1>5, PTL
          DEF TunnelSpec, VerdictsAreSound, VerdictIsEarned, MissingIsDown

-----------------------------------------------------------------------------
(***************************************************************************)
(* Users pushed from panel to panel.                                       *)
(***************************************************************************)

People == [id : Nat, origin : Panels \cup {"none"}, policy : Nat, creds : SUBSET [key : Nat, no : Nat]]
Snapshots == [from : Panels, to : Panels, row : Nat, policy : Nat, creds : SUBSET Nat, deleted : BOOLEAN,
              stage : {"due", "sent", "read", "row", "listed"}, secret : Nat, seen : Nat, listed : SUBSET Nat]

GwShape ==
  /\ person \in [Panels -> People]
  /\ pushes \subseteq Snapshots /\ IsFiniteSet(pushes) /\ Cardinality(pushes) <= MaxPushes
  /\ writes \in Nat /\ writes <= MaxWrites /\ secret \in [Panels -> Nat]
  /\ DOMAIN peer = Panels
  /\ \A p \in Panels : peer[p] \in [Panels \ {p} -> [secret : Nat, enabled : BOOLEAN]]
  /\ drifted \subseteq Panels /\ alone \subseteq Panels /\ trespassed = FALSE /\ echoed = FALSE

\* A row's id is the number of a change that was made, and an owner has one row of
\* credentials.
RowsWereMade ==
  \A p \in Panels : /\ person[p].id <= writes
                    /\ person[p] # NoPerson => person[p].id > 0
                    /\ Local(p) => \A c, d \in person[p].creds : c = d

\* The row a push read or created was no local user, and the row of that id still is none.
ReadingHolds(x) ==
  /\ x.stage \in {"read", "row", "listed"} =>
       x.seen <= writes /\ (person[x.to].id = x.seen => ~Local(x.to))
  /\ x.stage \in {"row", "listed"} => ~x.deleted /\ x.seen > 0
  /\ x.stage # "listed" => x.listed = {}

ReadingsHold == \A x \in pushes : x.from # x.to /\ ReadingHolds(x)

\* What a push that is alone carries is its owner's user as it is now, and what it has
\* read, or written so far, is what the receiver has.
CarriesItsOwner(x) ==
  ~x.deleted => /\ Local(x.from) /\ person[x.from].id = x.row /\ person[x.from].policy = x.policy
                /\ x.stage # "due" => Numbers(person[x.from].creds) = x.creds

FoundWhatIsThere(x) ==
  /\ x.stage = "read" /\ Replica(x.to) => person[x.to].id = x.seen
  /\ x.stage \in {"row", "listed"} /\ person[x.to].id = x.seen => person[x.to].policy = x.policy
  /\ x.stage = "listed" /\ person[x.to].id = x.seen => Keys(person[x.to].creds) = x.listed

Lone(x) ==
  /\ \A y \in pushes : y.to = x.to => y = x
  /\ CarriesItsOwner(x) /\ FoundWhatIsThere(x)

LonePushes == \A x \in pushes : IF x.to \in alone THEN Lone(x) ELSE x.to \in drifted

\* ReplicasFollow, and the owner's row is the owner's own.
Follows(q) ==
  /\ person[q].origin \in Panels /\ Local(person[q].origin)
  /\ person[person[q].origin].policy = person[q].policy
  /\ Numbers(person[person[q].origin].creds) = Numbers(person[q].creds)

ReplicasAreOwned ==
  \A q \in Panels : Replica(q) /\ q \notin drifted /\ (\A x \in pushes : x.to # q) => Follows(q)

GwInv == GwShape /\ RowsWereMade /\ ReadingsHold /\ LonePushes /\ ReplicasAreOwned

\* What is not there belongs to nobody.
LEMMA NobodysOwn ==
  ASSUME NEW p \in Panels, person[p] = NoPerson
  PROVE  ~Local(p) /\ ~Replica(p)
  BY GatewayAssumption DEF Local, Replica, NoPerson

\* One push takes the place of another, or is gone.
LEMMA PushReplaced ==
  ASSUME GwShape, NEW x \in pushes, NEW S, pushes' = (pushes \ {x}) \cup S, S = {} \/ \E y \in Snapshots : S = {y}
  PROVE  pushes' \subseteq Snapshots /\ IsFiniteSet(pushes') /\ Cardinality(pushes') <= MaxPushes
  <1>1. /\ IsFiniteSet(pushes) /\ Cardinality(pushes) \in Nat /\ MaxPushes \in Nat /\ Cardinality(pushes) <= MaxPushes
        /\ pushes \subseteq Snapshots
    BY GatewayAssumption, FS_CardinalityType DEF GwShape
  <1>2. IsFiniteSet(pushes \ {x}) /\ Cardinality(pushes \ {x}) = Cardinality(pushes) - 1
    BY <1>1, FS_RemoveElement
  <1>3. CASE S = {}
    <2>1. pushes' = pushes \ {x}
      BY <1>3
    <2> QED BY <1>1, <1>2, <2>1
  <1>4. ASSUME NEW y \in Snapshots, S = {y}
        PROVE  pushes' \subseteq Snapshots /\ IsFiniteSet(pushes') /\ Cardinality(pushes') <= MaxPushes
    <2> DEFINE T == pushes \ {x}
    <2>1. pushes' = T \cup {y} /\ IsFiniteSet(T) /\ Cardinality(T) = Cardinality(pushes) - 1
      BY <1>2, <1>4
    <2>2. IsFiniteSet(T \cup {y}) /\ Cardinality(T \cup {y}) = IF y \in T THEN Cardinality(T) ELSE Cardinality(T) + 1
      BY <2>1, FS_AddElement, Zenon
    <2>3. Cardinality(T \cup {y}) <= Cardinality(pushes) /\ Cardinality(T \cup {y}) \in Nat
      BY <1>1, <2>1, <2>2, FS_CardinalityType
    <2>4. Cardinality(T \cup {y}) <= MaxPushes
      BY <1>1, <2>3
    <2>5. T \cup {y} \subseteq Snapshots
      BY <1>1
    <2> HIDE DEF T
    <2> QED BY <2>1, <2>2, <2>4, <2>5
  <1> QED BY <1>3, <1>4

\* A change that is pushed: one push to every other panel joins the ones on their way.
LEMMA QueueTypes ==
  ASSUME GwShape, NEW p \in Panels, NEW row \in Nat, NEW deleted \in BOOLEAN, Queue(p, Due(p, row, deleted))
  PROVE  /\ pushes' \subseteq Snapshots /\ IsFiniteSet(pushes') /\ Cardinality(pushes') <= MaxPushes
         /\ pushes \subseteq pushes'
         /\ \A x \in pushes' \ pushes : /\ x.from = p /\ x.to # p /\ x.row = row /\ x.policy = writes + 1
                                        /\ x.deleted = deleted /\ x.stage = "due" /\ x.listed = {}
         /\ \A q \in Panels \ {p} : \E x \in pushes' : x.to = q
         /\ \A x, y \in pushes' \ pushes : x.to = y.to => x = y
  <1> DEFINE D == Due(p, row, deleted)
             rec(q) == [from |-> p, to |-> q, row |-> row, policy |-> writes + 1, creds |-> {},
                        deleted |-> deleted, stage |-> "due", secret |-> 0, seen |-> 0, listed |-> {}]
  <1>0. D = {rec(q) : q \in Panels \ {p}}
    BY DEF Due, Others
  <1>2. \A q \in Panels : rec(q) \in Snapshots
    <2>1. writes + 1 \in Nat
      BY DEF GwShape
    <2> QED BY <2>1 DEF Snapshots
  <1>3. IsFiniteSet(D)
    <2> DEFINE f == [q \in Panels \ {p} |-> rec(q)]
    <2>1. IsFiniteSet(Panels \ {p})
      BY GatewayAssumption, FS_Subset
    <2>2. f \in Surjection(Panels \ {p}, D)
      BY <1>0, Zenon DEF Surjection
    <2> QED BY <2>1, <2>2, FS_Surjection
  <1>4. pushes' = pushes \cup D /\ Cardinality(pushes) + Cardinality(D) <= MaxPushes
    BY DEF Queue
  <1>5. \A x \in D : \E q \in Panels \ {p} : x = rec(q) /\ x.to = q
    BY <1>0
  <1>6. \A q \in Panels \ {p} : rec(q) \in D /\ rec(q).to = q
    BY <1>0
  <1>7. \A x \in D : /\ x \in Snapshots /\ x.from = p /\ x.to # p /\ x.row = row /\ x.policy = writes + 1
                      /\ x.deleted = deleted /\ x.stage = "due" /\ x.listed = {}
    BY <1>2, <1>5
  <1>8. \A x, y \in D : x.to = y.to => x = y
    BY <1>5
  <1> HIDE DEF D, rec
  <1>9. IsFiniteSet(pushes') /\ Cardinality(pushes') <= MaxPushes
    <2>1. /\ IsFiniteSet(pushes) /\ Cardinality(pushes) \in Nat /\ Cardinality(D) \in Nat
          /\ IsFiniteSet(pushes \cap D)
      BY <1>3, FS_CardinalityType, FS_Subset DEF GwShape
    <2>2. Cardinality(pushes \cap D) \in Nat
      BY <2>1, FS_CardinalityType
    <2>3. IsFiniteSet(pushes \cup D)
          /\ Cardinality(pushes \cup D) = Cardinality(pushes) + Cardinality(D) - Cardinality(pushes \cap D)
      BY <1>3, <2>1, FS_Union
    <2> QED BY <1>4, <2>1, <2>2, <2>3, GatewayAssumption
  <1>10. pushes' \subseteq Snapshots /\ pushes \subseteq pushes'
    BY <1>4, <1>7 DEF GwShape
  <1>13. \A q \in Panels \ {p} : \E x \in pushes' : x.to = q
    BY <1>4, <1>6
  <1> QED BY <1>4, <1>7, <1>8, <1>9, <1>10, <1>13

\* The facts about rows and pushes that the steps start from.
LEMMA GwFacts ==
  ASSUME GwInv
  PROVE  /\ writes \in Nat /\ MaxWrites \in Nat /\ writes <= MaxWrites /\ "none" \notin Panels
         /\ person \in [Panels -> People] /\ NoPerson \in People /\ NoPerson.id = 0
         /\ \A p \in Panels : /\ person[p] \in People /\ person[p].id \in Nat /\ person[p].policy \in Nat
                              /\ person[p].creds \subseteq [key : Nat, no : Nat]
                              /\ person[p].id <= writes
                              /\ person[p] # NoPerson => person[p].id > 0
         /\ \A x \in pushes : /\ x \in Snapshots /\ x.from \in Panels /\ x.to \in Panels /\ x.policy \in Nat
                              /\ x.seen \in Nat /\ x.deleted \in BOOLEAN /\ x.row \in Nat
                              /\ x.creds \subseteq Nat /\ x.listed \subseteq Nat /\ x.from # x.to
                              /\ x.stage \in {"due", "sent", "read", "row", "listed"}
  <1>1. \A p \in Panels : person[p] \in People
    BY DEF GwInv, GwShape
  <1>2. \A p \in Panels : /\ person[p].id \in Nat /\ person[p].policy \in Nat
                          /\ person[p].creds \subseteq [key : Nat, no : Nat]
    BY <1>1 DEF People
  <1>3. \A x \in pushes : x \in Snapshots
    BY DEF GwInv, GwShape
  <1>4. \A x \in pushes : /\ x.from \in Panels /\ x.to \in Panels /\ x.policy \in Nat /\ x.seen \in Nat
                          /\ x.deleted \in BOOLEAN /\ x.row \in Nat /\ x.creds \subseteq Nat /\ x.listed \subseteq Nat
                          /\ x.stage \in {"due", "sent", "read", "row", "listed"}
    BY <1>3 DEF Snapshots
  <1>5. NoPerson \in People /\ NoPerson.id = 0
    BY DEF NoPerson, People
  <1> QED BY <1>1, <1>2, <1>3, <1>4, <1>5, GatewayAssumption DEF GwInv, GwShape, RowsWereMade, ReadingsHold

\* A change of a local user that is pushed to every other panel.
LEMMA PushedChange ==
  ASSUME GwInv, NEW p \in Panels, NEW r \in People, NEW row \in Nat, NEW deleted \in BOOLEAN,
         WriteRow(p, r), Queue(p, Due(p, row, deleted)), UNCHANGED <<secret, peer, trespassed, echoed>>,
         Local(p) \/ person[p] = NoPerson,
         \/ deleted /\ r = NoPerson
         \/ /\ ~deleted /\ r.policy = writes + 1 /\ r.origin = p /\ r.id > 0 /\ r.id = row
            /\ \A c, d \in r.creds : c = d
            /\ r.id = writes + 1 \/ (r.id = person[p].id /\ Local(p))
  PROVE  GwInv'
  <1> DEFINE taken == {q \in Panels \ {p} : \E x \in pushes : x.to = q}
  <1>0. /\ pushes' \subseteq Snapshots /\ IsFiniteSet(pushes') /\ Cardinality(pushes') <= MaxPushes
        /\ pushes \subseteq pushes'
        /\ \A x \in pushes' \ pushes : /\ x.from = p /\ x.to # p /\ x.row = row /\ x.policy = writes + 1
                                       /\ x.deleted = deleted /\ x.stage = "due" /\ x.listed = {}
        /\ \A q \in Panels \ {p} : \E x \in pushes' : x.to = q
        /\ \A x, y \in pushes' \ pushes : x.to = y.to => x = y
    BY QueueTypes DEF GwInv
  <1>1. /\ writes' = writes + 1 /\ writes' <= MaxWrites /\ person' = [person EXCEPT ![p] = r]
        /\ writes' \in Nat /\ writes \in Nat
    BY GwFacts DEF WriteRow
  <1>2. /\ person' \in [Panels -> People] /\ person'[p] = r /\ \A q \in Panels \ {p} : person'[q] = person[q]
    BY <1>1, GwFacts
  <1>3. drifted' = drifted \cup taken /\ alone' = (alone \cup (Panels \ {p})) \ taken
    BY DEF Queue, Others
  <1>4. GwShape'
    BY <1>0, <1>1, <1>2, <1>3 DEF GwInv, GwShape
  <1>5. r = NoPerson => r.id = 0 /\ r.origin # p
    BY GatewayAssumption DEF NoPerson
  <1>6. RowsWereMade'
    <2>1. r.id <= writes' /\ (r # NoPerson => r.id > 0) /\ (r.origin = p => \A c, d \in r.creds : c = d)
      BY <1>1, <1>5, GwFacts
    <2>2. ASSUME NEW q \in Panels
          PROVE  /\ person'[q].id <= writes' /\ (person'[q] # NoPerson => person'[q].id > 0)
                 /\ (Local(q)' => \A c, d \in person'[q].creds : c = d)
      <3>1. CASE q = p
        BY <1>2, <2>1, <3>1 DEF Local
      <3>2. CASE q # p
        BY <1>1, <1>2, <3>2, GwFacts DEF GwInv, RowsWereMade, Local
      <3> QED BY <3>1, <3>2
    <2> QED BY <2>2 DEF RowsWereMade
  <1>7. \A x \in pushes : x.to = p /\ x.stage \in {"read", "row", "listed"} /\ person'[p].id = x.seen =>
                             r = NoPerson /\ x.stage = "read"
    BY <1>1, <1>2, <1>5, GwFacts DEF GwInv, ReadingsHold, ReadingHolds
  <1>8. ReadingsHold'
    <2>1. ASSUME NEW x \in pushes
          PROVE  x.from # x.to /\ ReadingHolds(x)'
      <3>1. x.from # x.to /\ ReadingHolds(x) /\ x.to \in Panels /\ x.seen \in Nat
        BY GwFacts DEF GwInv, ReadingsHold
      <3>2. CASE x.to = p
        BY <1>1, <1>2, <1>5, <1>7, <3>1, <3>2 DEF ReadingHolds, Local
      <3>3. CASE x.to # p
        BY <1>1, <1>2, <3>1, <3>3 DEF ReadingHolds, Local
      <3> QED BY <3>1, <3>2, <3>3
    <2>2. ASSUME NEW x \in pushes' \ pushes
          PROVE  x.from # x.to /\ ReadingHolds(x)'
      <3>1. x \notin pushes /\ x \in pushes' /\ x.stage = "due" /\ x.from # x.to /\ x.listed = {}
        BY <1>0
      <3> QED BY <3>1 DEF ReadingHolds
    <2> QED BY <2>1, <2>2 DEF ReadingsHold
  <1>9. LonePushes'
    <2>1. ASSUME NEW x \in pushes
          PROVE  IF x.to \in alone' THEN Lone(x)' ELSE x.to \in drifted'
      <3>1. x.to \in Panels /\ x.from \in Panels /\ x.from # x.to
        BY GwFacts
      <3>2. x.to # p => x.to \notin alone' /\ x.to \in drifted'
        BY <1>3, <3>1
      <3>3. ASSUME x.to = p, x.to \notin alone'
            PROVE  x.to \in drifted'
        BY <1>3, <3>3 DEF GwInv, LonePushes
      <3>4. ASSUME x.to = p, x.to \in alone'
            PROVE  Lone(x)'
        <4>1. Lone(x)
          BY <1>3, <3>4 DEF GwInv, LonePushes
        <4>2. \A y \in pushes' : y.to = x.to => y = x
          BY <1>0, <3>4, <4>1 DEF Lone
        <4>3. CarriesItsOwner(x)'
          BY <1>2, <3>1, <3>4, <4>1 DEF Lone, CarriesItsOwner, Local
        <4>4. FoundWhatIsThere(x)'
          <5>1. ~Replica(p)'
            BY <1>2 DEF Replica, Local
          <5> QED BY <1>7, <3>4, <5>1 DEF FoundWhatIsThere
        <4> QED BY <4>2, <4>3, <4>4 DEF Lone
      <3> QED BY <3>2, <3>3, <3>4
    <2>2. ASSUME NEW x \in pushes' \ pushes
          PROVE  IF x.to \in alone' THEN Lone(x)' ELSE x.to \in drifted'
      <3>1. x.to \in Panels \ {p}
        BY <1>0 DEF Snapshots
      <3>2. x.to \notin alone' => x.to \in drifted'
        BY <1>3, <3>1
      <3>3. x.to \in alone' => \A y \in pushes' : y.to = x.to => y = x
        BY <1>0, <1>3, <3>1
      <3>4. CarriesItsOwner(x)' /\ FoundWhatIsThere(x)'
        BY <1>0, <1>2 DEF CarriesItsOwner, FoundWhatIsThere, Local
      <3> QED BY <3>2, <3>3, <3>4 DEF Lone
    <2> QED BY <2>1, <2>2 DEF LonePushes
  <1>10. ReplicasAreOwned'
    <2>1. ~Replica(p)'
      BY <1>2 DEF Replica, Local
    <2> QED BY <1>0, <2>1 DEF ReplicasAreOwned
  <1> QED BY <1>4, <1>6, <1>8, <1>9, <1>10 DEF GwInv

\* An administrator creates, changes or deletes a local user.
LEMMA OwnerSteps ==
  ASSUME GwInv, NEW p \in Panels, CreateUserRow(p) \/ ModifyUserRow(p) \/ (DeleteUserRow(p) /\ Local(p))
  PROVE  GwInv'
  <1>0. writes \in Nat /\ writes + 1 \in Nat /\ writes' = writes + 1 /\ UNCHANGED <<secret, peer, trespassed>>
    <2>1. writes \in Nat /\ writes + 1 \in Nat
      BY GwFacts
    <2>2. writes' = writes + 1 /\ UNCHANGED <<secret, peer, trespassed>>
      BY Zenon DEF CreateUserRow, ModifyUserRow, DeleteUserRow, WriteRow
    <2> QED BY <2>1, <2>2
  <1>1. CASE CreateUserRow(p)
    <2> DEFINE r == [id |-> writes + 1, origin |-> p, policy |-> writes + 1,
                     creds |-> {[key |-> writes + 1, no |-> writes + 1]}]
    <2>1. WriteRow(p, r) /\ Queue(p, Due(p, writes + 1, FALSE)) /\ UNCHANGED echoed /\ person[p] = NoPerson
      BY <1>0, <1>1 DEF CreateUserRow
    <2>2. /\ r \in People /\ r.id = writes + 1 /\ r.origin = p /\ r.policy = writes + 1 /\ r.id > 0
          /\ \A c, d \in r.creds : c = d
      BY <1>0 DEF People
    <2> HIDE DEF r
    <2> QED BY <1>0, <2>1, <2>2, PushedChange
  <1>2. CASE ModifyUserRow(p)
    <2>0. /\ person[p] \in People /\ person[p].origin = p /\ Local(p) /\ person[p].id \in Nat
          /\ person[p].creds \subseteq [key : Nat, no : Nat]
      BY <1>2, GwFacts DEF ModifyUserRow, Local
    <2> DEFINE fresh == Renewed(person[p].creds, writes + 1)
    <2>1. PICK v : v = [person[p] EXCEPT !.policy = writes + 1, !.creds = fresh]
      OBVIOUS
    <2>2. WriteRow(p, v) /\ Queue(p, Due(p, person[p].id, FALSE)) /\ UNCHANGED echoed
      BY <1>0, <1>2, <2>1 DEF ModifyUserRow
    <2>3. fresh \subseteq [key : Nat, no : Nat] /\ \A c, d \in fresh : c = d
      BY <1>0, <2>0 DEF Renewed, GwInv, RowsWereMade
    <2> HIDE DEF fresh
    <2>4. v \in People /\ v.id = person[p].id /\ v.origin = p /\ v.policy = writes + 1 /\ v.creds = fresh
      BY <1>0, <2>0, <2>1, <2>3 DEF People
    <2>5. person[p] # NoPerson
      BY <1>2, NobodysOwn DEF ModifyUserRow
    <2>6. v.id > 0
      BY <2>4, <2>5, GwFacts
    <2> QED BY <1>0, <2>0, <2>2, <2>3, <2>4, <2>6, PushedChange
  <1>3. CASE DeleteUserRow(p) /\ Local(p)
    <2>1. WriteRow(p, NoPerson) /\ Queue(p, Due(p, person[p].id, TRUE)) /\ echoed' = (echoed \/ ~Local(p))
      BY <1>3, Zenon DEF DeleteUserRow, PushesOn
    <2>2. echoed = FALSE
      BY DEF GwInv, GwShape
    <2>3. UNCHANGED echoed
      BY <1>3, <2>1, <2>2
    <2>4. NoPerson \in People /\ person[p].id \in Nat
      BY GwFacts
    <2> QED BY <1>0, <1>3, <2>1, <2>3, <2>4, PushedChange
  <1> QED BY <1>1, <1>2, <1>3

\* A change that pushes nothing marks every panel whose copy it leaves behind.
LEMMA QuietChange ==
  ASSUME GwInv, NEW p \in Panels, NEW r \in People, WriteRow(p, r),
         UNCHANGED <<pushes, secret, peer, trespassed, echoed>>,
         NEW missed, missed = (IF Local(p) THEN Panels \ {p} ELSE {p}), Behind(missed),
         \/ r = NoPerson /\ ~Local(p)
         \/ /\ r.id = person[p].id /\ r.origin = person[p].origin /\ r.id > 0
            /\ Local(p) => \A c, d \in r.creds : c = d
  PROVE  GwInv'
  <1>1. /\ writes' = writes + 1 /\ writes' <= MaxWrites /\ person' = [person EXCEPT ![p] = r]
        /\ writes' \in Nat /\ writes \in Nat
    BY GwFacts DEF WriteRow
  <1>2. /\ person' \in [Panels -> People] /\ person'[p] = r /\ \A q \in Panels \ {p} : person'[q] = person[q]
    BY <1>1, GwFacts
  <1>3. drifted' = drifted \cup missed /\ alone' = alone \ missed
    BY DEF Behind
  <1>4. GwShape'
    BY <1>1, <1>2, <1>3 DEF GwInv, GwShape
  <1>5. r = NoPerson => r.id = 0 /\ r.origin # p
    BY GatewayAssumption DEF NoPerson
  <1>6. Local(p)' <=> Local(p)
    BY <1>2, <1>5 DEF Local
  <1>7. RowsWereMade'
    <2>1. ASSUME NEW q \in Panels
          PROVE  /\ person'[q].id <= writes' /\ (person'[q] # NoPerson => person'[q].id > 0)
                 /\ (Local(q)' => \A c, d \in person'[q].creds : c = d)
      <3>1. CASE q = p
        BY <1>1, <1>2, <1>5, <1>6, <3>1, GwFacts
      <3>2. CASE q # p
        BY <1>1, <1>2, <3>2, GwFacts DEF GwInv, RowsWereMade, Local
      <3> QED BY <3>1, <3>2
    <2> QED BY <2>1 DEF RowsWereMade
  <1>8. ReadingsHold'
    <2>1. ASSUME NEW x \in pushes
          PROVE  x.from # x.to /\ ReadingHolds(x)'
      <3>1. x.from # x.to /\ ReadingHolds(x) /\ x.to \in Panels /\ x.seen \in Nat
        BY GwFacts DEF GwInv, ReadingsHold
      <3>2. CASE x.to = p
        BY <1>1, <1>2, <1>5, <1>6, <3>1, <3>2 DEF ReadingHolds
      <3>3. CASE x.to # p
        BY <1>1, <1>2, <3>1, <3>3 DEF ReadingHolds, Local
      <3> QED BY <3>1, <3>2, <3>3
    <2> QED BY <2>1 DEF ReadingsHold
  <1>9. LonePushes'
    <2> SUFFICES ASSUME NEW x \in pushes
                 PROVE  IF x.to \in alone' THEN Lone(x)' ELSE x.to \in drifted'
      BY DEF LonePushes
    <2>1. x.to \in Panels /\ x.from \in Panels /\ x.from # x.to
      BY GwFacts
    <2>2. x.to \notin alone' => x.to \in drifted'
      BY <1>3 DEF GwInv, LonePushes
    <2>3. ASSUME x.to \in alone'
          PROVE  Lone(x)'
      <3>1. Lone(x)
        BY <1>3, <2>3 DEF GwInv, LonePushes
      <3>2. CASE Local(p)
        <4>1. x.to = p /\ x.from # p
          BY <1>3, <2>1, <2>3, <3>2
        <4>2. CarriesItsOwner(x)'
          BY <1>2, <2>1, <3>1, <4>1 DEF Lone, CarriesItsOwner, Local
        <4>3. ~Replica(p)'
          BY <1>6, <3>2 DEF Replica
        <4>4. x.stage \in {"row", "listed"} => person'[p].id # x.seen
          BY <1>2, <1>5, <3>2, <4>1 DEF GwInv, ReadingsHold, ReadingHolds
        <4>5. FoundWhatIsThere(x)'
          BY <4>1, <4>3, <4>4 DEF FoundWhatIsThere
        <4> QED BY <3>1, <4>2, <4>5 DEF Lone
      <3>3. CASE ~Local(p)
        <4>1. x.to # p /\ (~x.deleted => x.from # p)
          BY <1>3, <2>3, <3>1, <3>3 DEF Lone, CarriesItsOwner
        <4>2. CarriesItsOwner(x)'
          BY <1>2, <2>1, <3>1, <4>1 DEF Lone, CarriesItsOwner, Local
        <4>3. FoundWhatIsThere(x)'
          BY <1>2, <2>1, <3>1, <4>1 DEF Lone, FoundWhatIsThere, Replica, Local
        <4> QED BY <3>1, <4>2, <4>3 DEF Lone
      <3> QED BY <3>2, <3>3
    <2> QED BY <2>2, <2>3
  <1>10. ReplicasAreOwned'
    <2> SUFFICES ASSUME NEW q \in Panels, Replica(q)', q \notin drifted', \A x \in pushes : x.to # q
                 PROVE  Follows(q)'
      BY DEF ReplicasAreOwned
    <2>1. q # p /\ ~Local(p)
      BY <1>3, <1>6 DEF Replica
    <2>2. person'[q] = person[q] /\ Replica(q) /\ q \notin drifted
      BY <1>2, <1>3, <2>1 DEF Replica, Local
    <2>3. Follows(q)
      BY <2>2 DEF GwInv, ReplicasAreOwned
    <2>4. person[q].origin # p
      BY <2>1, <2>3 DEF Follows
    <2>5. person'[person[q].origin] = person[person[q].origin]
      BY <1>2, <2>3, <2>4 DEF Follows
    <2> QED BY <2>2, <2>3, <2>5 DEF Follows, Local
  <1> QED BY <1>4, <1>7, <1>8, <1>9, <1>10 DEF GwInv

\* Revoking a subscription, the review job, and deleting a replica push nothing.
LEMMA QuietSteps ==
  ASSUME GwInv, NEW p \in Panels, (\E revoke \in BOOLEAN : SilentChange(p, revoke)) \/ (DeleteUserRow(p) /\ ~Local(p))
  PROVE  GwInv'
  <1>0. /\ person[p] \in People /\ person[p].creds \subseteq [key : Nat, no : Nat]
        /\ writes \in Nat /\ writes + 1 \in Nat /\ writes' = writes + 1
    <2>1. writes' = writes + 1
      BY Zenon DEF SilentChange, DeleteUserRow, WriteRow
    <2> QED BY <2>1, GwFacts
  <1>1. CASE DeleteUserRow(p) /\ ~Local(p)
    <2>1. WriteRow(p, NoPerson) /\ UNCHANGED <<pushes, secret, peer, trespassed, echoed>> /\ Behind({p})
      BY <1>1, Zenon DEF DeleteUserRow, PushesOn
    <2> QED BY <1>1, <2>1, GwFacts, QuietChange
  <1>2. ASSUME NEW revoke \in BOOLEAN, SilentChange(p, revoke)
        PROVE  GwInv'
    <2> DEFINE fresh == Renewed(person[p].creds, writes + 1)
               r == IF revoke THEN [person[p] EXCEPT !.creds = fresh] ELSE [person[p] EXCEPT !.policy = writes + 1]
    <2>1. /\ WriteRow(p, r) /\ UNCHANGED <<pushes, secret, peer, trespassed, echoed>> /\ person[p] # NoPerson
          /\ Behind(IF Local(p) THEN Panels \ {p} ELSE {p})
      BY <1>0, <1>2 DEF SilentChange, Others
    <2>2. fresh \subseteq [key : Nat, no : Nat] /\ (Local(p) => \A c, d \in fresh : c = d)
      BY <1>0 DEF Renewed, GwInv, RowsWereMade
    <2> HIDE DEF fresh
    <2>3. r \in People /\ r.id = person[p].id /\ r.origin = person[p].origin /\ r.creds \in {person[p].creds, fresh}
      BY <1>0, <2>2 DEF People
    <2>4. Local(p) => \A c, d \in r.creds : c = d
      BY <2>2, <2>3 DEF GwInv, RowsWereMade
    <2>5. r.id > 0
      BY <2>1, <2>3, GwFacts
    <2> HIDE DEF r
    <2> QED BY <2>1, <2>3, <2>4, <2>5, QuietChange
  <1> QED BY <1>1, <1>2

\* A push moves on a stage or is over, and may write its receiver's row.
LEMMA PushStep ==
  ASSUME GwInv, NEW x \in pushes, UNCHANGED <<secret, peer, trespassed, echoed>>,
         writes' \in Nat, writes' >= writes, writes' <= MaxWrites,
         NEW r \in People, person' = [person EXCEPT ![x.to] = r],
         \/ r = person[x.to]
         \/ ~Local(x.to) /\ (r = NoPerson \/ (r.id > 0 /\ r.id <= writes' /\ r.origin # x.to)),
         \/ /\ pushes' = pushes \ {x} /\ alone' = alone \ {x.to}
            /\ \/ drifted' = drifted \cup {x.to}
               \/ x.to \in alone /\ drifted' = drifted \ {x.to} /\ (Replica(x.to)' => Follows(x.to)')
         \/ /\ UNCHANGED <<drifted, alone>>
            /\ \E y \in Snapshots :
                 /\ pushes' = (pushes \ {x}) \cup {y}
                 /\ y.from = x.from /\ y.to = x.to
                 /\ ReadingHolds(y)'
                 /\ x.to \in alone => CarriesItsOwner(y)' /\ FoundWhatIsThere(y)'
  PROVE  GwInv'
  <1> DEFINE q == x.to
  <1>1. q \in Panels /\ x.from \in Panels /\ x.from # q /\ writes \in Nat
    BY GwFacts
  <1>2. /\ person' \in [Panels -> People] /\ person'[q] = r /\ \A p \in Panels \ {q} : person'[p] = person[p]
    BY <1>1, GwFacts
  <1>3. \A p \in Panels : Local(p) => person'[p] = person[p]
    BY <1>1, <1>2
  <1>4. \A p \in Panels : Local(p)' => Local(p) /\ person'[p] = person[p]
    BY <1>1, <1>2, NobodysOwn, GatewayAssumption DEF Local, NoPerson
  <1>5. \A z \in pushes' : (z \in pushes /\ z # x) \/ (/\ z.from = x.from /\ z.to = q /\ ReadingHolds(z)'
                                                      /\ q \in alone => CarriesItsOwner(z)' /\ FoundWhatIsThere(z)')
    OBVIOUS
  <1>6. GwShape'
    <2>1. PICK S : pushes' = (pushes \ {x}) \cup S /\ (S = {} \/ \E y \in Snapshots : S = {y})
      <3>1. CASE pushes' = pushes \ {x}
        <4>1. pushes' = (pushes \ {x}) \cup {}
          BY <3>1
        <4> QED BY <4>1
      <3> QED BY <3>1
    <2>2. pushes' \subseteq Snapshots /\ IsFiniteSet(pushes') /\ Cardinality(pushes') <= MaxPushes
      BY <2>1, PushReplaced DEF GwInv
    <2>3. drifted' \subseteq Panels /\ alone' \subseteq Panels
      BY <1>1 DEF GwInv, GwShape
    <2> QED BY <1>2, <2>2, <2>3 DEF GwInv, GwShape
  <1>7. RowsWereMade'
    <2>1. ASSUME NEW p \in Panels
          PROVE  /\ person'[p].id <= writes' /\ (person'[p] # NoPerson => person'[p].id > 0)
                 /\ (Local(p)' => \A c, d \in person'[p].creds : c = d)
      <3>1. Local(p)' => \A c, d \in person'[p].creds : c = d
        BY <1>4 DEF GwInv, RowsWereMade
      <3>2. person[p].id <= writes' /\ (person[p] # NoPerson => person[p].id > 0) /\ NoPerson.id <= writes'
        BY <1>1, GwFacts
      <3>3. person'[p].id <= writes' /\ (person'[p] # NoPerson => person'[p].id > 0)
        BY <1>1, <1>2, <3>2
      <3> QED BY <3>1, <3>3
    <2> QED BY <2>1 DEF RowsWereMade
  <1>8. ReadingsHold'
    <2>1. ASSUME NEW z \in pushes
          PROVE  z.from # z.to /\ ReadingHolds(z)'
      <3>1. /\ z.from # z.to /\ ReadingHolds(z) /\ z.to \in Panels /\ z.seen \in Nat
        BY GwFacts DEF GwInv, ReadingsHold
      <3>2. z.to # q => person'[z.to] = person[z.to]
        BY <1>2, <3>1
      <3>3. z.stage \in {"read", "row", "listed"} /\ person'[z.to].id = z.seen => ~Local(z.to)'
        BY <1>4, <3>1 DEF ReadingHolds
      <3> QED BY <1>1, <3>1, <3>3 DEF ReadingHolds
    <2> QED BY <1>1, <1>5, <2>1 DEF ReadingsHold
  <1>9. LonePushes'
    <2>1. ASSUME NEW z \in pushes, z # x
          PROVE  IF z.to \in alone' THEN Lone(z)' ELSE z.to \in drifted'
      <3>0. z.to \in Panels /\ z.from \in Panels
        BY GwFacts
      <3>1. z.to \notin alone' => z.to \in drifted'
        <4>1. z.to = q => q \notin alone
          BY <2>1 DEF GwInv, LonePushes, Lone
        <4> QED BY <4>1 DEF GwInv, LonePushes
      <3>2. ASSUME z.to \in alone'
            PROVE  Lone(z)'
        <4>1. Lone(z)
          BY <3>2 DEF GwInv, LonePushes
        <4>2. z.to # q
          BY <2>1, <4>1 DEF Lone
        <4>3. \A y \in pushes' : y.to = z.to => y = z
          BY <1>5, <4>1, <4>2 DEF Lone
        <4>4. CarriesItsOwner(z)'
          BY <1>3, <3>0, <4>1 DEF Lone, CarriesItsOwner, Local
        <4>5. FoundWhatIsThere(z)'
          BY <1>2, <3>0, <4>1, <4>2 DEF Lone, FoundWhatIsThere, Replica, Local
        <4> QED BY <4>3, <4>4, <4>5 DEF Lone
      <3> QED BY <3>1, <3>2
    <2>2. ASSUME NEW y \in Snapshots, pushes' = (pushes \ {x}) \cup {y}, UNCHANGED <<drifted, alone>>, y.to = q,
                 q \in alone => CarriesItsOwner(y)' /\ FoundWhatIsThere(y)'
          PROVE  IF y.to \in alone' THEN Lone(y)' ELSE y.to \in drifted'
      <3>1. q \in alone => \A z \in pushes : z.to = q => z = x
        BY DEF GwInv, LonePushes, Lone
      <3>2. q \notin alone => q \in drifted
        BY DEF GwInv, LonePushes
      <3>3. q \in alone => \A z \in pushes' : z.to = y.to => z = y
        BY <2>2, <3>1
      <3> QED BY <2>2, <3>2, <3>3 DEF Lone
    <2> QED BY <2>1, <2>2 DEF LonePushes
  <1>10. ReplicasAreOwned'
    <2> SUFFICES ASSUME NEW p \in Panels, Replica(p)', p \notin drifted', \A z \in pushes' : z.to # p
                 PROVE  Follows(p)'
      BY DEF ReplicasAreOwned
    <2>1. CASE p = q
      BY <2>1
    <2>2. CASE p # q
      <3>1. person'[p] = person[p] /\ Replica(p) /\ p \notin drifted
        BY <1>2, <2>2 DEF Replica, Local
      <3>2. \A z \in pushes : z.to # p
        BY <2>2
      <3>3. Follows(p)
        BY <3>1, <3>2 DEF GwInv, ReplicasAreOwned
      <3>4. person'[person[p].origin] = person[person[p].origin]
        BY <1>3, <3>3 DEF Follows
      <3> QED BY <3>1, <3>3, <3>4 DEF Follows, Local
    <2> QED BY <2>1, <2>2
  <1> QED BY <1>6, <1>7, <1>8, <1>9, <1>10 DEF GwInv

\* A push that is over, with nothing written.
LEMMA PushFails ==
  ASSUME GwInv, NEW x \in pushes, Ends(x, FALSE), UNCHANGED <<person, secret, peer, writes, trespassed, echoed>>
  PROVE  GwInv'
  <1>1. pushes' = pushes \ {x} /\ alone' = alone \ {x.to} /\ drifted' = drifted \cup {x.to}
    BY DEF Ends
  <1>2. person' = [person EXCEPT ![x.to] = person[x.to]] /\ person[x.to] \in People
    BY GwFacts
  <1>3. writes' \in Nat /\ writes' >= writes /\ writes' <= MaxWrites
    BY GwFacts
  <1> QED BY <1>1, <1>2, <1>3, PushStep

\* dispatchGatewayPush reads the credentials and the peer only when it sends.
LEMMA SendStep ==
  ASSUME GwInv, NEW x \in pushes, SendPush(x)
  PROVE  GwInv'
  <1> DEFINE owner == person[x.from]
             there == peer[x.from][x.to]
             creds == IF ~x.deleted /\ owner.id = x.row THEN Numbers(owner.creds) ELSE {}
  <1>0. /\ x.stage = "due" /\ UNCHANGED <<person, secret, peer, writes, rotations, trespassed, echoed>>
        /\ \/ there.enabled /\ Goes(x, [x EXCEPT !.stage = "sent", !.secret = there.secret, !.creds = creds])
           \/ ~there.enabled /\ Ends(x, FALSE)
    BY Zenon DEF SendPush
  <1>1. CASE Ends(x, FALSE)
    BY <1>0, <1>1, PushFails
  <1>2. CASE Goes(x, [x EXCEPT !.stage = "sent", !.secret = there.secret, !.creds = creds])
    <2>1. PICK y : y = [x EXCEPT !.stage = "sent", !.secret = there.secret, !.creds = creds]
      OBVIOUS
    <2>2. pushes' = (pushes \ {x}) \cup {y} /\ UNCHANGED <<drifted, alone>>
      BY <1>2, <2>1, Zenon DEF Goes
    <2>3. creds \subseteq Nat
      BY GwFacts DEF Numbers
    <2>4. there.secret \in Nat
      <3>1. peer[x.from] \in [Panels \ {x.from} -> [secret : Nat, enabled : BOOLEAN]]
        BY GwFacts DEF GwInv, GwShape
      <3> QED BY <3>1, GwFacts
    <2>5. /\ y \in Snapshots /\ y.from = x.from /\ y.to = x.to /\ y.policy = x.policy /\ y.deleted = x.deleted
          /\ y.row = x.row /\ y.stage = "sent" /\ y.creds = creds /\ y.listed = x.listed
      <3> HIDE DEF creds, there
      <3>1. x \in Snapshots
        BY GwFacts
      <3> QED BY <2>1, <2>3, <2>4, <3>1 DEF Snapshots
    <2>6. ReadingHolds(y)'
      BY <1>0, <2>5 DEF ReadingHolds, GwInv, ReadingsHold
    <2>7. x.to \in alone => CarriesItsOwner(x)
      BY DEF GwInv, LonePushes, Lone
    <2>8. x.to \in alone => CarriesItsOwner(y)' /\ FoundWhatIsThere(y)'
      BY <1>0, <2>5, <2>7 DEF CarriesItsOwner, FoundWhatIsThere, Local
    <2>9. person' = [person EXCEPT ![x.to] = person[x.to]] /\ person[x.to] \in People
      BY <1>0, GwFacts
    <2>10. writes' \in Nat /\ writes' >= writes /\ writes' <= MaxWrites
      BY <1>0, GwFacts
    <2> HIDE DEF creds, there, owner
    <2> QED BY <1>0, <2>2, <2>5, <2>6, <2>8, <2>9, <2>10, PushStep
  <1> QED BY <1>0, <1>1, <1>2

\* The row by its name; a local user is refused.
LEMMA ReceiveStep ==
  ASSUME GwInv, NEW x \in pushes, ReceivePush(x)
  PROVE  GwInv'
  <1>0. x.stage = "sent" /\ UNCHANGED <<person, secret, peer, writes, rotations, trespassed, echoed>>
    BY DEF ReceivePush
  <1>1. CASE ~(x.secret = secret[x.to] /\ ~Local(x.to))
    <2>1. Ends(x, FALSE)
      BY <1>1, Zenon DEF ReceivePush
    <2> QED BY <1>0, <2>1, PushFails
  <1>2. CASE x.secret = secret[x.to] /\ ~Local(x.to)
    <2>1. PICK y : y = [x EXCEPT !.stage = "read", !.seen = person[x.to].id]
      OBVIOUS
    <2>2. pushes' = (pushes \ {x}) \cup {y} /\ UNCHANGED <<drifted, alone>>
      BY <1>2, <2>1, Zenon DEF ReceivePush, Goes
    <2>3. /\ y \in Snapshots /\ y.from = x.from /\ y.to = x.to /\ y.policy = x.policy /\ y.deleted = x.deleted
          /\ y.row = x.row /\ y.stage = "read" /\ y.creds = x.creds /\ y.seen = person[x.to].id /\ y.listed = x.listed
      <3>1. x \in Snapshots /\ person[x.to].id \in Nat
        BY GwFacts
      <3> QED BY <2>1, <3>1 DEF Snapshots
    <2>4. ReadingHolds(y)'
      BY <1>0, <1>2, <2>3, GwFacts DEF GwInv, ReadingsHold, ReadingHolds, Local
    <2>5. x.to \in alone => CarriesItsOwner(x)
      BY DEF GwInv, LonePushes, Lone
    <2>6. x.to \in alone => CarriesItsOwner(y)' /\ FoundWhatIsThere(y)'
      BY <1>0, <2>3, <2>5 DEF CarriesItsOwner, FoundWhatIsThere, Local
    <2>7. person' = [person EXCEPT ![x.to] = person[x.to]] /\ person[x.to] \in People
      BY <1>0, GwFacts
    <2>8. writes' \in Nat /\ writes' >= writes /\ writes' <= MaxWrites
      BY <1>0, GwFacts
    <2> QED BY <1>0, <2>2, <2>3, <2>4, <2>6, <2>7, <2>8, PushStep
  <1> QED BY <1>1, <1>2

\* handleGatewaySyncUser's first write, by the id that was read.
LEMMA ServeStep ==
  ASSUME GwInv, NEW x \in pushes, ServePush(x)
  PROVE  GwInv'
  <1> DEFINE q == x.to
             found == x.seen # 0 /\ StillThere(x)
             free == x.seen = 0 /\ person[q] = NoPerson
  <1>0. /\ x.stage = "read" /\ UNCHANGED <<secret, peer, echoed>>
        /\ q \in Panels /\ x.from \in Panels \ {q} /\ person[q] \in People /\ person[q].id \in Nat
        /\ writes \in Nat /\ writes <= MaxWrites /\ person[q].id <= writes
        /\ x \in Snapshots /\ x.policy \in Nat /\ trespassed = FALSE /\ NoPerson \in People /\ MaxWrites \in Nat
        /\ person \in [Panels -> People]
    BY GwFacts DEF ServePush, GwInv, GwShape
  <1>1. StillThere(x) => ~Local(q)
    BY <1>0 DEF GwInv, ReadingsHold, ReadingHolds, StillThere
  <1>2. q \in alone => CarriesItsOwner(x) /\ FoundWhatIsThere(x)
    BY DEF GwInv, LonePushes, Lone
  <1>3. \/ /\ x.deleted
           /\ IF found THEN Writes(x, NoPerson) ELSE UNCHANGED <<person, trespassed>>
           /\ Ends(x, TRUE) /\ UNCHANGED writes
        \/ /\ ~x.deleted /\ found /\ Writes(x, [person[q] EXCEPT !.policy = x.policy])
           /\ Goes(x, [x EXCEPT !.stage = "row"]) /\ UNCHANGED writes
        \/ /\ ~x.deleted /\ free /\ writes < MaxWrites /\ writes' = writes + 1
           /\ Writes(x, [id |-> writes', origin |-> x.from, policy |-> x.policy, creds |-> {}])
           /\ Goes(x, [x EXCEPT !.stage = "listed", !.seen = writes'])
        \/ ~x.deleted /\ ~found /\ ~free /\ Ends(x, FALSE) /\ UNCHANGED <<person, trespassed, writes>>
    BY Zenon DEF ServePush
  <1>4. ASSUME NEW r, Writes(x, r), StillThere(x) \/ free
        PROVE  person' = [person EXCEPT ![q] = r] /\ trespassed' = trespassed /\ ~Local(q)
    BY <1>0, <1>1, <1>4, NobodysOwn DEF Writes
  <1>5. ASSUME x.deleted, IF found THEN Writes(x, NoPerson) ELSE UNCHANGED <<person, trespassed>>,
               Ends(x, TRUE), UNCHANGED writes
        PROVE  GwInv'
    <2>1. /\ pushes' = pushes \ {x} /\ alone' = alone \ {q}
          /\ drifted' = IF q \in alone THEN drifted \ {q} ELSE drifted \cup {q}
      BY <1>5 DEF Ends
    <2>2. writes' \in Nat /\ writes' >= writes /\ writes' <= MaxWrites
      BY <1>0, <1>5
    <2>3. CASE found
      <3>1. person' = [person EXCEPT ![q] = NoPerson] /\ trespassed' = trespassed /\ ~Local(q)
        BY <1>4, <1>5, <2>3
      <3>2. person'[q] = NoPerson
        BY <1>0, <3>1
      <3>3. ~Replica(q)'
        BY <3>2 DEF Replica
      <3> QED BY <1>0, <2>1, <2>2, <3>1, <3>3, PushStep
    <2>4. CASE ~found
      <3>1. person' = [person EXCEPT ![q] = person[q]] /\ trespassed' = trespassed
        BY <1>0, <1>5, <2>4
      <3>2. q \in alone => ~Replica(q)
        <4>1. ASSUME q \in alone, Replica(q)
              PROVE  FALSE
          <5>1. person[q].id = x.seen /\ person[q].id > 0
            BY <1>0, <1>2, <4>1, GwFacts DEF FoundWhatIsThere, Replica
          <5> QED BY <1>0, <2>4, <5>1 DEF StillThere
        <4> QED BY <4>1
      <3>3. q \in alone => ~Replica(q)'
        BY <1>5, <2>4, <3>2 DEF Replica, Local
      <3> QED BY <1>0, <2>1, <2>2, <3>1, <3>3, PushStep
    <2> QED BY <2>3, <2>4
  <1>6. ASSUME ~x.deleted, found, Writes(x, [person[q] EXCEPT !.policy = x.policy]),
               Goes(x, [x EXCEPT !.stage = "row"]), UNCHANGED writes
        PROVE  GwInv'
    <2>1. PICK y : y = [x EXCEPT !.stage = "row"]
      OBVIOUS
    <2>2. pushes' = (pushes \ {x}) \cup {y} /\ UNCHANGED <<drifted, alone>>
      BY <1>6, <2>1, Zenon DEF Goes
    <2>3. /\ y \in Snapshots /\ y.from = x.from /\ y.to = x.to /\ y.policy = x.policy /\ y.deleted = x.deleted
          /\ y.row = x.row /\ y.stage = "row" /\ y.creds = x.creds /\ y.seen = x.seen /\ y.listed = x.listed
      BY <1>0, <2>1 DEF Snapshots
    <2>4. PICK r : r = [person[q] EXCEPT !.policy = x.policy]
      OBVIOUS
    <2>5. r \in People /\ r.id = person[q].id /\ r.origin = person[q].origin /\ r.policy = x.policy
      BY <1>0, <2>4 DEF People
    <2>6. person' = [person EXCEPT ![q] = r] /\ trespassed' = trespassed /\ ~Local(q)
      BY <1>4, <1>6, <2>4
    <2>7. person'[q] = r /\ \A p \in Panels \ {q} : person'[p] = person[p]
      BY <1>0, <2>6
    <2>8. x.seen \in Nat /\ r.id = x.seen /\ r.id > 0 /\ r.id <= writes' /\ r.origin # q
      BY <1>0, <1>6, <2>5, <2>6 DEF StillThere, Local, Snapshots
    <2>9. ReadingHolds(y)'
      BY <1>0, <1>6, <2>3, <2>7, <2>8 DEF GwInv, ReadingsHold, ReadingHolds, Local
    <2>10. q \in alone => CarriesItsOwner(y)' /\ FoundWhatIsThere(y)'
      BY <1>0, <1>2, <2>3, <2>5, <2>7 DEF CarriesItsOwner, FoundWhatIsThere, Local
    <2>11. writes' \in Nat /\ writes' >= writes /\ writes' <= MaxWrites
      BY <1>0, <1>6
    <2> QED BY <1>0, <2>2, <2>3, <2>5, <2>6, <2>8, <2>9, <2>10, <2>11, PushStep
  <1>7. ASSUME ~x.deleted, free, writes < MaxWrites, writes' = writes + 1,
               Writes(x, [id |-> writes', origin |-> x.from, policy |-> x.policy, creds |-> {}]),
               Goes(x, [x EXCEPT !.stage = "listed", !.seen = writes'])
        PROVE  GwInv'
    <2>1. PICK y : y = [x EXCEPT !.stage = "listed", !.seen = writes']
      OBVIOUS
    <2>2. pushes' = (pushes \ {x}) \cup {y} /\ UNCHANGED <<drifted, alone>>
      BY <1>7, <2>1, Zenon DEF Goes
    <2>3. writes' \in Nat /\ writes' >= writes /\ writes' <= MaxWrites /\ writes' > 0
      BY <1>0, <1>7
    <2>5. PICK r : r = [id |-> writes', origin |-> x.from, policy |-> x.policy, creds |-> {}]
      OBVIOUS
    <2>6. r \in People /\ r.id = writes' /\ r.origin = x.from /\ r.policy = x.policy /\ r.creds = {}
      BY <1>0, <2>3, <2>5 DEF People
    <2>7. person' = [person EXCEPT ![q] = r] /\ trespassed' = trespassed /\ ~Local(q)
      BY <1>4, <1>7, <2>5
    <2>8. person'[q] = r /\ \A p \in Panels \ {q} : person'[p] = person[p]
      BY <1>0, <2>7
    <2>9. /\ y \in Snapshots /\ y.from = x.from /\ y.to = x.to /\ y.policy = x.policy /\ y.deleted = x.deleted
          /\ y.row = x.row /\ y.stage = "listed" /\ y.creds = x.creds /\ y.seen = writes' /\ y.listed = x.listed
      BY <1>0, <2>1, <2>3 DEF Snapshots
    <2>10. ReadingHolds(y)'
      BY <1>0, <1>7, <2>3, <2>6, <2>8, <2>9 DEF ReadingHolds, Local
    <2>11. x.listed = {}
      BY <1>0 DEF GwInv, ReadingsHold, ReadingHolds
    <2>12. q \in alone => CarriesItsOwner(y)'
      BY <1>0, <1>2, <2>8, <2>9 DEF CarriesItsOwner, Local
    <2>13. FoundWhatIsThere(y)'
      <3>1. Keys(r.creds) = {}
        BY <2>6 DEF Keys
      <3> QED BY <2>6, <2>8, <2>9, <2>11, <3>1 DEF FoundWhatIsThere
    <2>14. r.id > 0 /\ r.id <= writes' /\ r.origin # x.to
      BY <1>0, <2>3, <2>6
    <2>15. \E z \in Snapshots :
             /\ pushes' = (pushes \ {x}) \cup {z}
             /\ z.from = x.from /\ z.to = x.to
             /\ ReadingHolds(z)'
             /\ x.to \in alone => CarriesItsOwner(z)' /\ FoundWhatIsThere(z)'
      BY <2>2, <2>9, <2>10, <2>12, <2>13
    <2> QED BY <1>0, <2>2, <2>3, <2>6, <2>7, <2>14, <2>15, PushStep
  <1>8. ASSUME Ends(x, FALSE), UNCHANGED <<person, trespassed, writes>>
        PROVE  GwInv'
    BY <1>0, <1>8, PushFails
  <1> HIDE DEF found, free
  <1> QED BY <1>3, <1>5, <1>6, <1>7, <1>8

\* reconcileProxies reads the proxies.
LEMMA ListStep ==
  ASSUME GwInv, NEW x \in pushes, ListProxies(x)
  PROVE  GwInv'
  <1> DEFINE keys == IF StillThere(x) THEN Keys(person[x.to].creds) ELSE {}
  <1>0. /\ x.stage = "row" /\ UNCHANGED <<person, secret, peer, writes, rotations, trespassed, echoed>>
        /\ x \in Snapshots /\ person[x.to].creds \subseteq [key : Nat, no : Nat]
    BY GwFacts DEF ListProxies
  <1>1. PICK y : y = [x EXCEPT !.stage = "listed", !.listed = keys]
    OBVIOUS
  <1>2. pushes' = (pushes \ {x}) \cup {y} /\ UNCHANGED <<drifted, alone>>
    BY <1>1, Zenon DEF ListProxies, Goes
  <1>3. keys \subseteq Nat
    BY <1>0 DEF Keys
  <1>4. /\ y \in Snapshots /\ y.from = x.from /\ y.to = x.to /\ y.policy = x.policy /\ y.deleted = x.deleted
        /\ y.row = x.row /\ y.stage = "listed" /\ y.creds = x.creds /\ y.seen = x.seen /\ y.listed = keys
    <2> HIDE DEF keys
    <2> QED BY <1>0, <1>1, <1>3 DEF Snapshots
  <1>5. ReadingHolds(x)
    BY DEF GwInv, ReadingsHold
  <1>6. ReadingHolds(y)'
    BY <1>0, <1>4, <1>5 DEF ReadingHolds, Local
  <1>7. x.to \in alone => CarriesItsOwner(x) /\ FoundWhatIsThere(x)
    BY DEF GwInv, LonePushes, Lone
  <1>8. x.to \in alone => CarriesItsOwner(y)' /\ FoundWhatIsThere(y)'
    BY <1>0, <1>4, <1>7 DEF CarriesItsOwner, FoundWhatIsThere, Local, StillThere
  <1>9. person' = [person EXCEPT ![x.to] = person[x.to]] /\ person[x.to] \in People
    BY <1>0, GwFacts
  <1>10. writes' \in Nat /\ writes' >= writes /\ writes' <= MaxWrites
    BY <1>0, GwFacts
  <1> QED BY <1>0, <1>2, <1>4, <1>6, <1>8, <1>9, <1>10, PushStep

\* What a push that found the one row of credentials, or none, makes of them.
LEMMA ReconciledNumbers ==
  ASSUME NEW x \in Snapshots, NEW creds \in SUBSET [key : Nat, no : Nat], Keys(creds) = x.listed,
         \A j, k \in x.listed : j = k, \A m, n \in x.creds : m = n, NEW made \in Reconciled(x, creds)
  PROVE  Numbers(made) = x.creds
  <1>1. CASE x.creds = {}
    <2>1. made = {}
      BY <1>1 DEF Reconciled, Keys
    <2> QED BY <1>1, <2>1 DEF Numbers
  <1>2. CASE x.creds # {}
    <2>1. PICK no \in x.creds : made \in WithRow(x, creds, no)
      BY <1>2 DEF Reconciled
    <2>2. x.creds = {no}
      BY <2>1
    <2>3. CASE x.listed = {}
      <3>1. creds = {}
        BY <2>3 DEF Keys
      <3>2. made = {[key |-> x.policy, no |-> no]}
        BY <2>1, <2>3, <3>1 DEF WithRow
      <3>3. Numbers(made) = {no}
        BY <3>2 DEF Numbers
      <3> QED BY <2>2, <3>3
    <2>4. CASE x.listed # {}
      <3>1. PICK k \in x.listed : made = {IF c.key = k THEN [c EXCEPT !.no = no] ELSE c : c \in creds}
        BY <2>1, <2>4 DEF WithRow
      <3>2. \A c \in creds : c.key = k
        BY DEF Keys
      <3>3. PICK d \in creds : d.key = k
        BY DEF Keys
      <3>4. \A c \in creds : [c EXCEPT !.no = no].no = no
        OBVIOUS
      <3>5. \A e \in made : e.no = no
        BY <3>1, <3>2, <3>4
      <3>6. [d EXCEPT !.no = no] \in made
        BY <3>1, <3>3
      <3>7. Numbers(made) = {no}
        BY <3>5, <3>6 DEF Numbers
      <3> QED BY <2>2, <3>7
    <2> QED BY <2>3, <2>4
  <1> QED BY <1>1, <1>2

\* What a push makes of the credentials is a set of rows again.
LEMMA ReconciledTypes ==
  ASSUME NEW x \in Snapshots, NEW creds \in SUBSET [key : Nat, no : Nat], NEW made \in Reconciled(x, creds)
  PROVE  made \subseteq [key : Nat, no : Nat]
  <1>1. CASE x.creds = {}
    BY <1>1 DEF Reconciled
  <1>2. CASE x.creds # {}
    <2>1. PICK no \in x.creds : made \in WithRow(x, creds, no)
      BY <1>2 DEF Reconciled
    <2>2. no \in Nat /\ x.policy \in Nat
      BY DEF Snapshots
    <2>3. CASE x.listed = {}
      BY <2>1, <2>2, <2>3 DEF WithRow
    <2>4. CASE x.listed # {}
      <3>1. PICK k : made = {IF c.key = k THEN [c EXCEPT !.no = no] ELSE c : c \in creds}
        BY <2>1, <2>4 DEF WithRow
      <3> QED BY <2>2, <3>1
    <2> QED BY <2>3, <2>4
  <1> QED BY <1>1, <1>2

\* reconcileProxies and createProxyForUser write the proxies.
LEMMA WriteStep ==
  ASSUME GwInv, NEW x \in pushes, WriteProxies(x)
  PROVE  GwInv'
  <1> DEFINE q == x.to
             row == person[q]
             made == IF StillThere(x) THEN Reconciled(x, row.creds) ELSE {}
             right == row.origin = x.from /\ \A j, k \in x.listed : j = k
  <1>0. /\ x.stage = "listed" /\ UNCHANGED <<secret, peer, writes, echoed>>
        /\ q \in Panels /\ x.from \in Panels \ {q} /\ row \in People /\ row.id \in Nat
        /\ row.creds \subseteq [key : Nat, no : Nat]
        /\ writes \in Nat /\ writes <= MaxWrites /\ row.id <= writes
        /\ x \in Snapshots /\ trespassed = FALSE /\ person \in [Panels -> People]
    BY GwFacts DEF WriteProxies, GwInv, GwShape
  <1>1. \/ made = {} /\ Ends(x, FALSE) /\ UNCHANGED <<person, trespassed>>
        \/ \E creds \in made : Writes(x, [row EXCEPT !.creds = creds]) /\ Ends(x, right)
    BY Zenon DEF WriteProxies
  <1>2. CASE Ends(x, FALSE) /\ UNCHANGED <<person, trespassed>>
    BY <1>0, <1>2, PushFails
  <1>3. ASSUME NEW creds \in made, Writes(x, [row EXCEPT !.creds = creds]), Ends(x, right)
        PROVE  GwInv'
    <2>1. StillThere(x) /\ creds \in Reconciled(x, row.creds) /\ row.id = x.seen
      BY <1>3 DEF StillThere
    <2>2. ReadingHolds(x)
      BY DEF GwInv, ReadingsHold
    <2>3. ~Local(q) /\ ~x.deleted /\ row.id > 0
      BY <1>0, <2>1, <2>2 DEF ReadingHolds
    <2>4. creds \subseteq [key : Nat, no : Nat]
      BY <1>0, <2>1, ReconciledTypes
    <2>5. PICK r : r = [row EXCEPT !.creds = creds]
      OBVIOUS
    <2>6. r \in People /\ r.id = row.id /\ r.origin = row.origin /\ r.policy = row.policy /\ r.creds = creds
      BY <1>0, <2>4, <2>5 DEF People
    <2>7. person' = [person EXCEPT ![q] = r] /\ trespassed' = trespassed
      BY <1>0, <1>3, <2>3, <2>5 DEF Writes
    <2>8. person'[q] = r /\ \A p \in Panels \ {q} : person'[p] = person[p]
      BY <1>0, <2>7
    <2>9. r.origin # q
      BY <2>3, <2>6 DEF Local
    <2>10. /\ pushes' = pushes \ {x} /\ alone' = alone \ {q}
           /\ drifted' = IF right /\ q \in alone THEN drifted \ {q} ELSE drifted \cup {q}
      BY <1>3 DEF Ends
    <2>11. ASSUME right, q \in alone
           PROVE  Follows(q)'
      <3>1. CarriesItsOwner(x) /\ FoundWhatIsThere(x)
        BY <2>11 DEF GwInv, LonePushes, Lone
      <3>2. /\ Local(x.from) /\ person[x.from].policy = x.policy /\ Numbers(person[x.from].creds) = x.creds
            /\ row.policy = x.policy /\ Keys(row.creds) = x.listed
        BY <1>0, <2>1, <2>3, <3>1 DEF CarriesItsOwner, FoundWhatIsThere
      <3>3. \A m, n \in x.creds : m = n
        BY <1>0, <3>2 DEF GwInv, RowsWereMade, Numbers
      <3>4. Numbers(creds) = x.creds
        <4>1. \A j, k \in x.listed : j = k
          BY <2>11
        <4> QED BY <1>0, <2>1, <3>2, <3>3, <4>1, ReconciledNumbers
      <3>5. person'[x.from] = person[x.from]
        BY <1>0, <2>8
      <3>6. r.origin = x.from
        BY <2>6, <2>11
      <3> QED BY <1>0, <2>6, <2>8, <3>2, <3>4, <3>5, <3>6 DEF Follows, Local
    <2> HIDE DEF right, made, row
    <2>12. writes' \in Nat /\ writes' >= writes /\ writes' <= MaxWrites
      BY <1>0
    <2>13. r.id > 0 /\ r.id <= writes'
      BY <1>0, <2>3, <2>6
    <2> QED BY <1>0, <2>3, <2>6, <2>7, <2>9, <2>10, <2>11, <2>12, <2>13, PushStep
  <1> HIDE DEF made, right, row
  <1> QED BY <1>1, <1>2, <1>3

\* Secrets and peers change under the pushes.
LEMMA SettingsSteps ==
  ASSUME GwInv, NEW p \in Panels, RotateSecret(p) \/ \E q \in Others(p) : UpdatePeer(p, q)
  PROVE  GwInv'
  <1>1. UNCHANGED <<person, pushes, writes, drifted, alone, trespassed, echoed>>
    BY DEF RotateSecret, UpdatePeer
  <1>2. secret' \in [Panels -> Nat]
    BY DEF GwInv, GwShape, RotateSecret, UpdatePeer
  <1>3. DOMAIN peer' = Panels /\ \A r \in Panels : peer'[r] \in [Panels \ {r} -> [secret : Nat, enabled : BOOLEAN]]
    <2>1. CASE UNCHANGED peer
      BY <2>1 DEF GwInv, GwShape
    <2>2. ASSUME NEW q \in Others(p), NEW enabled \in BOOLEAN,
                 peer' = [peer EXCEPT ![p][q] = [secret |-> secret[q], enabled |-> enabled]]
          PROVE  DOMAIN peer' = Panels /\ \A r \in Panels : peer'[r] \in [Panels \ {r} -> [secret : Nat, enabled : BOOLEAN]]
      <3>1. [secret |-> secret[q], enabled |-> enabled] \in [secret : Nat, enabled : BOOLEAN]
        BY DEF GwInv, GwShape, Others
      <3>2. peer[p] \in [Panels \ {p} -> [secret : Nat, enabled : BOOLEAN]] /\ DOMAIN peer = Panels
        BY DEF GwInv, GwShape
      <3> DEFINE e == [peer[p] EXCEPT ![q] = [secret |-> secret[q], enabled |-> enabled]]
      <3>3. e \in [Panels \ {p} -> [secret : Nat, enabled : BOOLEAN]]
        BY <3>1, <3>2
      <3>4. peer' = [peer EXCEPT ![p] = e]
        BY <2>2, Zenon
      <3> HIDE DEF e
      <3>5. DOMAIN peer' = Panels /\ peer'[p] = e /\ \A r \in Panels \ {p} : peer'[r] = peer[r]
        BY <3>2, <3>4
      <3> QED BY <3>3, <3>5 DEF GwInv, GwShape
    <2> QED BY <2>1, <2>2 DEF RotateSecret, UpdatePeer
  <1>4. GwShape'
    BY <1>1, <1>2, <1>3 DEF GwInv, GwShape
  <1>5. RowsWereMade' /\ ReadingsHold' /\ LonePushes' /\ ReplicasAreOwned'
    BY <1>1 DEF GwInv, RowsWereMade, ReadingsHold, ReadingHolds, LonePushes, Lone, CarriesItsOwner, FoundWhatIsThere,
         ReplicasAreOwned, Replica, Follows, Local
  <1> QED BY <1>4, <1>5 DEF GwInv

\* A push never changes a user of the panel that receives it, and no replica is pushed on;
\* a panel that no push left behind, by being lost, failed half-way, refused or overlapped,
\* has its owners' users as they are now (gateway_sync.go).
THEOREM GatewayTheorem == GatewaySpec => []GatewayIsSound
  <1>1. GatewayInit => GwInv
    <2> SUFFICES ASSUME GatewayInit PROVE GwInv
      OBVIOUS
    <2>1. GwShape
      <3>1. IsFiniteSet(pushes) /\ Cardinality(pushes) <= MaxPushes
        BY FS_EmptySet, GatewayAssumption DEF GatewayInit
      <3>2. person \in [Panels -> People]
        BY DEF GatewayInit, NoPerson, People
      <3>3. DOMAIN peer = Panels /\ \A r \in Panels : peer[r] \in [Panels \ {r} -> [secret : Nat, enabled : BOOLEAN]]
        BY DEF GatewayInit
      <3> QED BY <3>1, <3>2, <3>3, GatewayAssumption DEF GatewayInit, GwShape
    <2>2. RowsWereMade /\ ReadingsHold /\ LonePushes
      BY DEF GatewayInit, RowsWereMade, ReadingsHold, LonePushes, NoPerson
    <2>3. ReplicasAreOwned
      BY DEF GatewayInit, ReplicasAreOwned, Replica
    <2> QED BY <2>1, <2>2, <2>3 DEF GwInv
  <1>2. GwInv /\ [GatewayNext]_gwVars => GwInv'
    <2> SUFFICES ASSUME GwInv, [GatewayNext]_gwVars PROVE GwInv'
      OBVIOUS
    <2>1. CASE UNCHANGED gwVars
      <3>1. GwShape' /\ RowsWereMade' /\ ReadingsHold'
        BY <2>1 DEF gwVars, GwInv, GwShape, RowsWereMade, ReadingsHold, ReadingHolds, Local
      <3>2. LonePushes'
        BY <2>1 DEF gwVars, GwInv, LonePushes, Lone, CarriesItsOwner, FoundWhatIsThere, Replica, Local
      <3>3. ReplicasAreOwned'
        BY <2>1 DEF gwVars, GwInv, ReplicasAreOwned, Replica, Follows, Local
      <3> QED BY <3>1, <3>2, <3>3 DEF GwInv
    <2>2. ASSUME NEW p \in Panels, DeleteUserRow(p)
          PROVE  GwInv'
      BY <2>2, OwnerSteps, QuietSteps
    <2>3. ASSUME NEW x \in pushes, PushLost(x)
          PROVE  GwInv'
      BY <2>3, PushFails DEF PushLost
    <2> QED BY <2>1, <2>2, <2>3, OwnerSteps, QuietSteps, SendStep, ReceiveStep, ServeStep, ListStep, WriteStep,
            SettingsSteps DEF GatewayNext
  <1>3. GwInv => GatewayIsSound
    <2> SUFFICES ASSUME GwInv PROVE GatewayIsSound
      OBVIOUS
    <2>1. GatewayTypeOK
      <3>1. \A p \in Panels : person[p].id \in 0..MaxWrites
        BY GwFacts
      <3>2. \A p \in Panels : person[p].origin \in Panels \cup {"none"}
        BY GwFacts DEF People
      <3> QED BY <3>1, <3>2, GwFacts DEF GatewayTypeOK, GwInv, GwShape
    <2>2. LocalUsersAreSovereign
      BY DEF GwInv, GwShape, LocalUsersAreSovereign
    <2>3. ReplicasFollow
      <3> SUFFICES ASSUME NEW q \in Panels, Replica(q), q \notin drifted, \A x \in pushes : x.to # q
                   PROVE  LET owner == person[person[q].origin]
                          IN /\ owner # NoPerson
                             /\ owner.policy = person[q].policy /\ Numbers(owner.creds) = Numbers(person[q].creds)
        BY DEF ReplicasFollow
      <3>1. Follows(q)
        BY DEF GwInv, ReplicasAreOwned
      <3> QED BY <3>1, NobodysOwn DEF Follows
    <2> QED BY <2>1, <2>2, <2>3 DEF GatewayIsSound
  <1> QED BY <1>1, <1>2, <1>3, PTL DEF GatewaySpec

-----------------------------------------------------------------------------
(***************************************************************************)
(* A subscription's hosts of other panels.  What a panel answered is about *)
(* one site, the one the call was made to, from the start of the call to   *)
(* the end of the cached copy; a copy that is still there was made at most *)
(* StatusTTL and one call ago, since its age and what is left of it always *)
(* add up to that.                                                         *)
(***************************************************************************)

Offers == {Resolved(h) : h \in UNION {SiteHosts[s] : s \in Sites}}
Loads == UNION {[S -> Nat] : S \in SUBSET SiteNodes}
Replies == [hosts : SUBSET Offers, crowd : Nat, live : Loads]
Calls == [site : Sites \cup {"none"}, answer : Replies, old : 0 .. 1]
Copies == [site : Sites \cup {"none"}, answer : Replies, old : 0 .. TooOld, left : 0 .. StatusTTL]

\* The answer is one that the site gives.
FromSite(site, a) ==
  /\ a.hosts # {} => site \in Sites /\ a.hosts = {Resolved(h) : h \in SiteHosts[site]}
  /\ a.crowd = Figure(a.live)

PeerTypes ==
  /\ entry \in [Entries -> [site : Sites \cup {"none"}, enabled : BOOLEAN]]
  /\ \A e \in Entries : entry[e].enabled => entry[e].site \in Sites
  /\ sample \in [Sites -> [SiteNodes -> [conns : Nat, age : 0 .. StaleAfter + 1]]]
  /\ asked \in [Entries -> Calls] /\ kept \in [Entries -> Copies]
  /\ listing = NoList \/ listing \subseteq Entries

CopiesAreTrue ==
  /\ \A e \in Entries : FromSite(asked[e].site, asked[e].answer)
  /\ \A e \in Entries : FromSite(kept[e].site, kept[e].answer)
  /\ \A e \in Entries : /\ kept[e].old + kept[e].left <= StatusTTL + 1
                        /\ kept[e].left = 0 => kept[e].answer.hosts = {}

PeerInv == PeerTypes /\ CopiesAreTrue /\ PeersServedRightly

\* The connections of no node are none, and those of any nodes a number.
LEMMA FigureFacts ==
  ASSUME NEW S, IsFiniteSet(S), NEW f \in [S -> Nat]
  PROVE  Figure(f) \in Nat /\ (S = {} => Figure(f) = 0)
  <1> DEFINE F(h) == [t \in SUBSET DOMAIN f |-> IF t = {} THEN 0 ELSE f[Some(t)] + h[t \ {Some(t)}]]
             sum == CHOOSE h : h = F(h)
  <1>1. DOMAIN f = S
    OBVIOUS
  <1>2. PICK g : AddsUpSets(g, f, S)
    BY SumsExist
  <1>3. g = F(g)
    BY <1>1, <1>2 DEF AddsUpSets
  <1>4. sum = F(sum)
    BY <1>3
  <1>5. Figure(f) = sum[S]
    BY <1>1 DEF Figure, MapThenSumSet, MapThenFoldSet, Some
  <1> HIDE DEF sum
  <1>6. AddsUpSets(sum, f, S)
    BY <1>1, <1>4 DEF AddsUpSets
  <1> HIDE DEF F
  <1> QED BY <1>5, <1>6, SumsBounded

LEMMA StatusFacts ==
  ASSUME PeerTypes, NEW s \in Sites
  PROVE  Status(s) \in Replies /\ FromSite(s, Status(s))
  <1>1. \A h \in SiteHosts[s] : Resolved(h) \in Offers
    BY DEF Offers
  <1>2. PICK live : live = [n \in Counted(s) |-> sample[s][n].conns]
    OBVIOUS
  <1>3. Counted(s) \subseteq SiteNodes /\ IsFiniteSet(Counted(s)) /\ live \in [Counted(s) -> Nat]
    BY <1>2, PeerHostsAssumption, FS_Subset DEF Counted, PeerTypes
  <1>4. live \in Loads /\ Figure(live) \in Nat /\ Crowdedness(s) = Figure(live)
    BY <1>2, <1>3, FigureFacts DEF Loads, Crowdedness
  <1>5. Status(s) = [hosts |-> {Resolved(h) : h \in SiteHosts[s]}, crowd |-> Crowdedness(s), live |-> live]
    BY <1>2 DEF Status, Counted
  <1> QED BY <1>1, <1>4, <1>5 DEF Replies, FromSite

LEMMA NoneFacts ==
  /\ NoAnswer \in Replies /\ NoCall \in Calls /\ NoStatus \in Copies
  /\ \A s : FromSite(s, NoAnswer)
  /\ NoStatus.answer.hosts = {} /\ NoStatus.old + NoStatus.left = 0
  <1>1. <<>> \in [{} -> Nat] /\ <<>> \in Loads
    BY DEF Loads
  <1>2. Figure(<<>>) = 0
    BY <1>1, FigureFacts, FS_EmptySet
  <1>3. NoAnswer \in Replies /\ NoAnswer.hosts = {} /\ NoAnswer.crowd = Figure(NoAnswer.live)
    BY <1>1, <1>2 DEF NoAnswer, Replies
  <1> QED BY <1>3, PeerHostsAssumption DEF NoCall, NoStatus, Calls, Copies, TooOld, FromSite

\* An emptied page shows nothing wrong.
LEMMA EmptyPage ==
  ASSUME merged' = <<>>
  PROVE  PeersServedRightly'
  BY DEF PeersServedRightly

LEMMA SampledStep ==
  ASSUME PeerInv, NEW s \in Sites, NEW n \in SiteNodes, Sampled(s, n)
  PROVE  PeerInv'
  <1>1. PICK c \in Crowds : sample' = [sample EXCEPT ![s][n] = [conns |-> c, age |-> 0]]
    BY DEF Sampled
  <1>2. [conns |-> c, age |-> 0] \in [conns : Nat, age : 0 .. StaleAfter + 1]
    BY PeerHostsAssumption
  <1>3. PeerTypes'
    BY <1>1, <1>2 DEF Sampled, PeerInv, PeerTypes
  <1>4. CopiesAreTrue'
    BY DEF Sampled, PeerInv, CopiesAreTrue
  <1> QED BY <1>3, <1>4, EmptyPage DEF Sampled, PeerInv

LEMMA StartRefreshStep ==
  ASSUME PeerInv, StartRefresh
  PROVE  PeerInv'
  <1> DEFINE called(e) == entry[e].enabled /\ asked[e] = NoCall
  <1>1. asked' = [e \in Entries |-> IF called(e) THEN [NoCall EXCEPT !.site = entry[e].site] ELSE asked[e]]
    BY DEF StartRefresh
  <1>2. ASSUME NEW e \in Entries, called(e)
        PROVE  LET call == [NoCall EXCEPT !.site = entry[e].site]
               IN call \in Calls /\ FromSite(call.site, call.answer)
    <2>1. [NoCall EXCEPT !.site = entry[e].site] = [site |-> entry[e].site, answer |-> NoAnswer, old |-> 0]
      BY DEF NoCall
    <2> QED BY <1>2, <2>1, NoneFacts DEF PeerInv, PeerTypes, Calls
  <1>3. PeerTypes'
    BY <1>1, <1>2 DEF StartRefresh, PeerInv, PeerTypes
  <1>4. CopiesAreTrue'
    BY <1>1, <1>2 DEF StartRefresh, PeerInv, CopiesAreTrue
  <1> QED BY <1>3, <1>4, EmptyPage DEF StartRefresh, PeerInv

LEMMA PeerAnswersStep ==
  ASSUME PeerInv, NEW e \in Entries, PeerAnswers(e)
  PROVE  PeerInv'
  <1> DEFINE site == asked[e].site
             call == [site |-> site, answer |-> Status(site), old |-> asked[e].old]
  <1>1. site \in Sites /\ asked[e] \in Calls
    BY DEF PeerAnswers, PeerInv, PeerTypes, Calls
  <1>2. Status(site) \in Replies /\ FromSite(site, Status(site))
    BY <1>1, StatusFacts DEF PeerInv
  <1>3. asked' = [asked EXCEPT ![e] = call]
    <2>1. asked' = [asked EXCEPT ![e].answer = Status(site)]
      BY DEF PeerAnswers
    <2>2. [asked[e] EXCEPT !.answer = Status(site)] = call
      BY <1>1 DEF Calls
    <2> QED BY <2>1, <2>2
  <1>4. call \in Calls /\ call.site = site /\ call.answer = Status(site)
    BY <1>1, <1>2 DEF Calls
  <1> HIDE DEF call, site
  <1>5. PeerTypes'
    BY <1>3, <1>4 DEF PeerAnswers, PeerInv, PeerTypes
  <1>6. CopiesAreTrue'
    BY <1>2, <1>3, <1>4 DEF PeerAnswers, PeerInv, PeerTypes, CopiesAreTrue
  <1> QED BY <1>5, <1>6, EmptyPage DEF PeerAnswers, PeerInv

LEMMA StoreStatusStep ==
  ASSUME PeerInv, NEW e \in Entries, StoreStatus(e)
  PROVE  PeerInv'
  <1>1. /\ asked' = [asked EXCEPT ![e] = NoCall] /\ kept' = [kept EXCEPT ![e] = KeepsFor(e)]
        /\ UNCHANGED <<entry, sample, listing>>
    BY DEF StoreStatus
  <1>2. asked[e] \in Calls /\ FromSite(asked[e].site, asked[e].answer)
    BY DEF PeerInv, PeerTypes, CopiesAreTrue
  <1>3. /\ KeepsFor(e) \in Copies /\ FromSite(KeepsFor(e).site, KeepsFor(e).answer)
        /\ KeepsFor(e).left # 0 /\ KeepsFor(e).old + KeepsFor(e).left <= StatusTTL + 1
    BY <1>2, PeerHostsAssumption DEF KeepsFor, Calls, Copies, TooOld
  <1>4. PeerTypes'
    BY <1>1, <1>3, NoneFacts DEF PeerInv, PeerTypes
  <1>5. FromSite(NoCall.site, NoCall.answer)
    BY NoneFacts DEF NoCall
  <1>6. CopiesAreTrue'
    BY <1>1, <1>3, <1>5 DEF PeerInv, PeerTypes, CopiesAreTrue
  <1> QED BY <1>4, <1>6, EmptyPage DEF StoreStatus, PeerInv

LEMMA RefreshFailsStep ==
  ASSUME PeerInv, NEW e \in Entries, RefreshFails(e)
  PROVE  PeerInv'
  <1>1. asked' = [asked EXCEPT ![e] = NoCall] /\ UNCHANGED <<entry, sample, kept, listing>>
    BY DEF RefreshFails
  <1>2. FromSite(NoCall.site, NoCall.answer)
    BY NoneFacts DEF NoCall
  <1>3. PeerTypes'
    BY <1>1, NoneFacts DEF PeerInv, PeerTypes
  <1>4. CopiesAreTrue'
    BY <1>1, <1>2 DEF PeerInv, PeerTypes, CopiesAreTrue
  <1> QED BY <1>3, <1>4, EmptyPage DEF RefreshFails, PeerInv

\* Every copy grows older by as much as it has less left, and the ones that have
\* nothing left are gone.
LEMMA RefreshIntervalStep ==
  ASSUME PeerInv, RefreshInterval
  PROVE  PeerInv'
  <1> USE PeerHostsAssumption
  <1> DEFINE ages(e) == [kept[e] EXCEPT !.old = Aged(@, TooOld), !.left = IF @ > TooOld THEN @ ELSE @ - 1]
  <1>1. ASSUME NEW s \in Sites, NEW n \in SiteNodes
        PROVE  [sample[s][n] EXCEPT !.age = Aged(@, StaleAfter + 1)] \in [conns : Nat, age : 0 .. StaleAfter + 1]
    <2>1. sample[s][n] \in [conns : Nat, age : 0 .. StaleAfter + 1]
      BY DEF PeerInv, PeerTypes
    <2>2. Aged(sample[s][n].age, StaleAfter + 1) \in 0 .. StaleAfter + 1
      BY <2>1 DEF Aged
    <2> QED BY <2>1, <2>2
  <1>2. ASSUME NEW e \in Entries
        PROVE  LET call == IF asked[e] = NoCall THEN NoCall ELSE [asked[e] EXCEPT !.old = 1]
               IN call \in Calls /\ FromSite(call.site, call.answer)
    <2>1. asked[e] \in Calls /\ FromSite(asked[e].site, asked[e].answer)
      BY DEF PeerInv, PeerTypes, CopiesAreTrue
    <2>2. [asked[e] EXCEPT !.old = 1] = [site |-> asked[e].site, answer |-> asked[e].answer, old |-> 1]
      BY <2>1 DEF Calls
    <2>3. NoCall \in Calls /\ FromSite(NoCall.site, NoCall.answer)
      BY NoneFacts DEF NoCall
    <2> QED BY <2>1, <2>2, <2>3 DEF Calls
  <1>3. ASSUME NEW e \in Entries
        PROVE  LET copy == IF kept[e].left <= 1 THEN NoStatus ELSE ages(e)
               IN /\ copy \in Copies /\ FromSite(copy.site, copy.answer)
                  /\ copy.old + copy.left <= StatusTTL + 1
                  /\ copy.left = 0 => copy.answer.hosts = {}
    <2>1. /\ kept[e] \in Copies /\ FromSite(kept[e].site, kept[e].answer)
          /\ kept[e].old + kept[e].left <= StatusTTL + 1
      BY DEF PeerInv, PeerTypes, CopiesAreTrue
    <2>2. CASE kept[e].left <= 1
      BY <2>2, NoneFacts DEF NoStatus
    <2>3. CASE ~ (kept[e].left <= 1)
      <3>1. kept[e].left \in 0 .. StatusTTL /\ kept[e].old \in 0 .. TooOld /\ ~ (kept[e].left > TooOld)
        BY <2>1 DEF Copies, TooOld
      <3>2. Aged(kept[e].old, TooOld) \in 0 .. TooOld /\ Aged(kept[e].old, TooOld) <= kept[e].old + 1
        BY <3>1 DEF Aged, TooOld
      <3>3. ages(e) = [site |-> kept[e].site, answer |-> kept[e].answer,
                       old |-> Aged(kept[e].old, TooOld), left |-> kept[e].left - 1]
        <4> DEFINE k == kept[e]
                   older == [k EXCEPT !.old = Aged(k.old, TooOld)]
        <4>1. older = [site |-> k.site, answer |-> k.answer, old |-> Aged(k.old, TooOld), left |-> k.left]
          BY <2>1 DEF Copies
        <4>2. ages(e) = [older EXCEPT !.left = IF @ > TooOld THEN @ ELSE @ - 1]
          OBVIOUS
        <4>3. older.left = k.left
          BY <4>1
        <4> HIDE DEF older, ages, k
        <4>4. ages(e) = [older EXCEPT !.left = k.left - 1]
          BY <3>1, <4>2, <4>3 DEF k
        <4> QED BY <4>1, <4>4 DEF k
      <3>4. kept[e].left - 1 \in 1 .. StatusTTL /\ kept[e].left - 1 \in 0 .. StatusTTL
            /\ Aged(kept[e].old, TooOld) + (kept[e].left - 1) <= StatusTTL + 1
        BY <2>1, <2>3, <3>1, <3>2 DEF TooOld
      <3> HIDE DEF ages
      <3> QED BY <2>1, <2>3, <3>2, <3>3, <3>4 DEF Copies
    <2> QED BY <2>2, <2>3
  <1> HIDE DEF ages
  <1>4. /\ asked' = [e \in Entries |-> IF asked[e] = NoCall THEN NoCall ELSE [asked[e] EXCEPT !.old = 1]]
        /\ kept' = [e \in Entries |-> IF kept[e].left <= 1 THEN NoStatus ELSE ages(e)]
        /\ sample' = [s \in Sites |-> [n \in SiteNodes |->
                                         [sample[s][n] EXCEPT !.age = Aged(@, StaleAfter + 1)]]]
        /\ listing' = NoList /\ entry' = entry
    BY DEF RefreshInterval, ages
  <1>5. PeerTypes'
    BY <1>1, <1>2, <1>3, <1>4 DEF PeerInv, PeerTypes
  <1>6. CopiesAreTrue'
    BY <1>2, <1>3, <1>4 DEF CopiesAreTrue
  <1> QED BY <1>5, <1>6, EmptyPage DEF RefreshInterval, PeerInv

LEMMA EditStep ==
  ASSUME PeerInv, NEW e \in Entries, PutPeer(e) \/ DeletePeer(e)
  PROVE  PeerInv'
  <1>1. PICK row \in [site : Sites \cup {"none"}, enabled : BOOLEAN] :
          entry' = [entry EXCEPT ![e] = row] /\ (row.enabled => row.site \in Sites)
    <2>1. CASE PutPeer(e)
      <3>1. PICK s \in Sites, on \in BOOLEAN : entry' = [entry EXCEPT ![e] = [site |-> s, enabled |-> on]]
        BY <2>1 DEF PutPeer
      <3> DEFINE row == [site |-> s, enabled |-> on]
      <3>2. row \in [site : Sites \cup {"none"}, enabled : BOOLEAN] /\ row.site \in Sites
        OBVIOUS
      <3> HIDE DEF row
      <3>3. entry' = [entry EXCEPT ![e] = row]
        BY <3>1 DEF row
      <3> QED BY <3>2, <3>3
    <2>2. CASE DeletePeer(e)
      <3>1. FALSE \in BOOLEAN
        BY Zenon
      <3>2. Gone \in [site : Sites \cup {"none"}, enabled : BOOLEAN] /\ ~ Gone.enabled
        BY <3>1 DEF Gone
      <3> QED BY <2>2, <3>2 DEF DeletePeer
    <2> QED BY <2>1, <2>2
  <1>2. merged' = <<>> /\ UNCHANGED <<sample, asked, kept, listing>>
    BY DEF PutPeer, DeletePeer
  <1>3. PeerTypes'
    BY <1>1, <1>2 DEF PeerInv, PeerTypes
  <1>4. CopiesAreTrue'
    BY <1>2 DEF PeerInv, CopiesAreTrue
  <1> QED BY <1>2, <1>3, <1>4, EmptyPage DEF PeerInv

LEMMA ListPeersStep ==
  ASSUME PeerInv, ListPeers
  PROVE  PeerInv'
  <1>1. merged' = <<>> /\ UNCHANGED <<entry, sample, asked, kept>> /\ listing' \subseteq Entries
    BY DEF ListPeers
  <1>2. PeerTypes'
    BY <1>1 DEF PeerInv, PeerTypes
  <1>3. CopiesAreTrue'
    BY <1>1 DEF PeerInv, CopiesAreTrue
  <1> QED BY <1>1, <1>2, <1>3, EmptyPage DEF PeerInv

\* Every host that is eligible is served rightly.
LEMMA EligibleFacts ==
  ASSUME PeerInv, listing \subseteq Entries, NEW o \in EligiblePeers
  PROVE  /\ o.old <= StatusTTL /\ o.crowd \in Nat
         /\ o.host.proto \in UserProtos /\ o.host.security # "inbound_default"
         /\ \E h \in SiteHosts[o.site] : h.tag = o.host.tag /\ h.proto = o.host.proto
         /\ o.crowd = Figure(o.live)
  <1> DEFINE offer(e, h) == [id |-> e, host |-> h, crowd |-> kept[e].answer.crowd, site |-> kept[e].site,
                             live |-> kept[e].answer.live, old |-> kept[e].old]
  <1>0. PICK e \in listing : o \in {offer(e, h) : h \in {x \in kept[e].answer.hosts : x.proto \in UserProtos}}
    BY DEF EligiblePeers
  <1>1. PICK h \in kept[e].answer.hosts : h.proto \in UserProtos /\ o = offer(e, h)
    BY <1>0
  <1>2. /\ kept[e] \in Copies /\ FromSite(kept[e].site, kept[e].answer)
        /\ kept[e].old + kept[e].left <= StatusTTL + 1 /\ kept[e].left # 0
    BY <1>1 DEF PeerInv, PeerTypes, CopiesAreTrue
  <1>3. kept[e].old <= StatusTTL /\ kept[e].answer.crowd \in Nat
    BY <1>2, PeerHostsAssumption DEF Copies, Replies
  <1>4. PICK x \in SiteHosts[kept[e].site] : h = Resolved(x) /\ kept[e].site \in Sites
    BY <1>1, <1>2 DEF FromSite
  <1>5. h.tag = x.tag /\ h.proto = x.proto /\ h.security # "inbound_default"
    BY <1>4, PeerHostsAssumption DEF Resolved
  <1> QED BY <1>1, <1>2, <1>3, <1>4, <1>5 DEF FromSite

LEMMA MergePeersStep ==
  ASSUME PeerInv, MergePeers
  PROVE  PeerInv'
  <1>1. /\ listing \subseteq Entries /\ listing' = NoList
        /\ UNCHANGED <<entry, sample, asked, kept>>
    BY DEF MergePeers, PeerInv, PeerTypes
  <1>2. PICK s \in SetToSeqs(EligiblePeers) :
          merged' = s /\ \A i, j \in DOMAIN s : i < j => Before(s[i], s[j])
    BY DEF MergePeers
  <1>3. DOMAIN s \subseteq Int /\ \A i \in DOMAIN s : s[i] \in EligiblePeers
    BY <1>2 DEF SetToSeqs
  <1>4. ASSUME NEW i \in DOMAIN s, NEW j \in DOMAIN s, s[j].crowd < s[i].crowd PROVE j < i
    <2>1. s[i].crowd \in Nat /\ s[j].crowd \in Nat /\ i \in Int /\ j \in Int
      BY <1>1, <1>3, EligibleFacts
    <2>2. i # j
      BY <1>4, <2>1
    <2>3. ~ Before(s[i], s[j])
      BY <1>4, <2>1 DEF Before
    <2> QED BY <1>2, <2>1, <2>2, <2>3
  <1>5. PeersServedRightly'
    BY <1>1, <1>2, <1>3, <1>4, EligibleFacts DEF PeersServedRightly
  <1>6. PeerTypes'
    BY <1>1 DEF PeerInv, PeerTypes
  <1>7. CopiesAreTrue'
    BY <1>1 DEF PeerInv, CopiesAreTrue
  <1> QED BY <1>5, <1>6, <1>7 DEF PeerInv

\* Whatever the other panels, their hosts and their nodes are, and however their
\* answers are delayed, lost or outlived by a change of the peers, a page shows only
\* hosts that their panel offered a short while ago, under its own name and with a
\* security a client can use, first the panel whose nodes alive then carried fewer
\* connections, those of all of them added up (gateway_subscription.go).
THEOREM PeersTheorem == PeerSpec => []PeerHostsAreSound
  <1>1. PeerInit => PeerInv
    <2> SUFFICES ASSUME PeerInit PROVE PeerInv
      OBVIOUS
    <2>1. PeerTypes
      <3>1. FALSE \in BOOLEAN
        BY Zenon
      <3>2. Gone \in [site : Sites \cup {"none"}, enabled : BOOLEAN] /\ ~ Gone.enabled
        BY <3>1 DEF Gone
      <3>3. [conns |-> 0, age |-> StaleAfter + 1] \in [conns : Nat, age : 0 .. StaleAfter + 1]
        BY PeerHostsAssumption
      <3> QED BY <3>2, <3>3, NoneFacts DEF PeerInit, PeerTypes
    <2>2. CopiesAreTrue
      <3>1. FromSite(NoCall.site, NoCall.answer) /\ FromSite(NoStatus.site, NoStatus.answer)
        BY NoneFacts DEF NoCall, NoStatus
      <3> QED BY <3>1, NoneFacts, PeerHostsAssumption DEF PeerInit, CopiesAreTrue
    <2>3. PeersServedRightly
      BY DEF PeerInit, PeersServedRightly
    <2> QED BY <2>1, <2>2, <2>3 DEF PeerInv
  <1>2. PeerInv /\ [PeerNext]_peerVars => PeerInv'
    <2> SUFFICES ASSUME PeerInv, [PeerNext]_peerVars PROVE PeerInv'
      OBVIOUS
    <2>1. CASE UNCHANGED peerVars
      BY <2>1 DEF peerVars, PeerInv, PeerTypes, CopiesAreTrue, PeersServedRightly
    <2>2. CASE PeerNext
      BY <2>2, SampledStep, StartRefreshStep, RefreshIntervalStep, ListPeersStep, MergePeersStep,
         PeerAnswersStep, StoreStatusStep, RefreshFailsStep, EditStep DEF PeerNext
    <2> QED BY <2>1, <2>2
  <1>3. PeerInv => PeerHostsAreSound
    <2> SUFFICES ASSUME PeerInv PROVE PeerTypeOK
      BY DEF PeerInv, PeerHostsAreSound
    <2>1. \A e \in Entries : asked[e] \in Calls /\ kept[e] \in Copies
      BY DEF PeerInv, PeerTypes
    <2>2. StatusTTL <= TooOld + 1
      BY PeerHostsAssumption DEF TooOld
    <2>3. \A e \in Entries : kept[e].left \in 0 .. TooOld + 1 /\ kept[e].old \in 0 .. TooOld
      BY <2>1, <2>2, PeerHostsAssumption DEF Copies, TooOld
    <2>4. \A e \in Entries : asked[e].old \in 0 .. 1
      BY <2>1 DEF Calls
    <2> QED BY <2>3, <2>4 DEF PeerTypeOK, PeerInv, PeerTypes
  <1> QED BY <1>1, <1>2, <1>3, PTL DEF PeerSpec

-----------------------------------------------------------------------------
(***************************************************************************)
(* Inbounds: a listener's users.                                           *)
(***************************************************************************)

Labels == UserNames \X Nat
UserTables == [UserSecrets -> UserKeys \cup {Nobody}]
UserEntries == [name : UserNames, secret : UserSecrets \cup {NoSecret}]

ClientRecs ==
  [stage : {"none", "handshake", "authenticated", "fallback"}, secret : UserSecrets \cup {NoSecret},
   table : UserTables \cup {Nobody}, key : UserKeys \cup {Nobody}, billed : Labels \cup {Nobody},
   counted : BOOLEAN, streams : 0 .. 1]

InbShape ==
  /\ protocol \in Protocols /\ options \in Refuses(protocol) \cup {"sound"}
  /\ inbound \in {"none", "built", "started", "closed"}
  /\ service \in UserTables /\ updates \in 0 .. MaxUpdates
  /\ client \in [Clients -> ClientRecs] /\ owners \in [Clients -> SUBSET (Labels \cup {Nobody})]

\* Whom a client's secret belongs to, in the list of now and in the one it came
\* with, has been one of its owners; so has the user it was found to be.
OwnedBy(k, mine) ==
  /\ k.stage # "none" => k.secret \in UserSecrets /\ LabelOf(service[k.secret]) \in mine
  /\ k.stage = "handshake" /\ protocol = "shadowsocks" =>
       k.table \in UserTables /\ LabelOf(k.table[k.secret]) \in mine
  /\ k.stage = "authenticated" => k.key \in UserKeys /\ k.key.label \in mine
  /\ k.streams = 1 => k.stage = "authenticated" /\ k.billed \in {k.key.label, Nobody}

AdmitsExactly(table, users) ==
  \A s \in UserSecrets : table[s] # Nobody <=> \E i \in DOMAIN users : users[i].secret = s

TookTheLast ==
  inbound # "none" =>
    /\ AdmitsExactly(service, accepted)
    /\ ~SharedSecret(sent) /\ ~MissingSecret(sent) => accepted = sent

InboundInv == InbShape /\ TookTheLast /\ \A c \in Clients : OwnedBy(client[c], owners[c])

\* The table of a list admits exactly the secrets of the list.
LEMMA TableFacts ==
  ASSUME NEW users \in Seq(UserEntries), NEW keys \in [DOMAIN users -> UserKeys]
  PROVE  TableOf(users, keys) \in UserTables /\ AdmitsExactly(TableOf(users, keys), users)
  <1> DEFINE holders(s) == {i \in DOMAIN users : users[i].secret = s}
             found(s) == CHOOSE i \in holders(s) : \A j \in holders(s) : j <= i
  <1>1. DOMAIN users = 1 .. Len(users) /\ Len(users) \in Nat
    OBVIOUS
  <1>2. ASSUME NEW s \in UserSecrets, holders(s) # {} PROVE found(s) \in holders(s)
    <2>1. holders(s) \in SUBSET Nat /\ \A x \in holders(s) : x <= Len(users)
      BY <1>1
    <2>2. \E m \in holders(s) : \A y \in holders(s) : y <= m
      <3> HIDE DEF holders
      <3> QED BY <1>1, <1>2, <2>1, HasGreatest
    <2> HIDE DEF holders
    <2> QED BY <2>2
  <1>3. TableOf(users, keys) = [s \in UserSecrets |-> IF holders(s) = {} THEN Nobody ELSE keys[found(s)]]
    BY DEF TableOf
  <1>4. ASSUME NEW s \in UserSecrets
        PROVE  /\ TableOf(users, keys)[s] \in UserKeys \cup {Nobody}
               /\ TableOf(users, keys)[s] # Nobody <=> holders(s) # {}
    <2>1. CASE holders(s) = {}
      <3>1. TableOf(users, keys)[s] = Nobody
        BY <1>3, <2>1
      <3> QED BY <2>1, <3>1
    <2>2. CASE holders(s) # {}
      <3>1. found(s) \in DOMAIN users
        BY <1>2, <2>2
      <3>2. keys[found(s)] \in UserKeys
        BY <3>1
      <3>3. TableOf(users, keys)[s] = keys[found(s)]
        BY <1>3, <2>2
      <3> HIDE DEF found, holders
      <3> QED BY <2>2, <3>2, <3>3, UserListsAssumption
    <2> QED BY <2>1, <2>2
  <1>5. TableOf(users, keys) \in UserTables
    <2>1. \A s \in UserSecrets : TableOf(users, keys)[s] \in UserKeys \cup {Nobody}
      BY <1>4
    <2>2. PICK f : f = [s \in UserSecrets |-> TableOf(users, keys)[s]]
      OBVIOUS
    <2>3. TableOf(users, keys) = f
      BY <1>3, <2>2
    <2>4. f \in UserTables
      BY <2>1, <2>2 DEF UserTables
    <2> QED BY <2>3, <2>4
  <1> QED BY <1>4, <1>5 DEF AdmitsExactly

\* A list is taken whole, into a table that admits exactly its secrets, or it is
\* refused, which only a shared or a missing secret is a reason for.
LEMMA UpdateFacts ==
  ASSUME NEW users \in UserLists, NEW p \in Protocols
  PROVE  /\ UpdateUsersOf(p, users) = Nobody => SharedSecret(users) \/ MissingSecret(users)
         /\ UpdateUsersOf(p, users) # Nobody =>
              UpdateUsersOf(p, users) \in UserTables /\ AdmitsExactly(UpdateUsersOf(p, users), users)
  <1>1. users \in Seq(UserEntries)
    BY UserListsAssumption DEF UserEntries
  <1>2. DOMAIN users \subseteq Nat \ {0} /\ \A i \in DOMAIN users : users[i].name \in UserNames
    <2>1. DOMAIN users = 1 .. Len(users) /\ Len(users) \in Nat
      BY <1>1
    <2>2. \A i \in DOMAIN users : users[i] \in UserEntries
      BY <1>1, ElementOfSeq
    <2>3. \A i \in DOMAIN users : users[i].name \in UserNames
      BY <2>2 DEF UserEntries
    <2> QED BY <2>1, <2>3
  <1>3. Build(users) \in [DOMAIN users -> UserKeys]
    <2>1. ASSUME NEW i \in DOMAIN users
          PROVE  [name |-> users[i].name,
                  label |-> <<users[i].name, IF users[i].name = Unnamed THEN i - 1 ELSE 0>>] \in UserKeys
      <3>1. PICK k : k = IF users[i].name = Unnamed THEN i - 1 ELSE 0
        OBVIOUS
      <3>2. k \in Nat
        BY <1>2, <3>1
      <3> QED BY <1>2, <3>1, <3>2 DEF UserKeys
    <2> QED BY <2>1 DEF Build
  <1>4. Keyed(users) \in UserTables /\ AdmitsExactly(Keyed(users), users)
    BY <1>1, <1>3, TableFacts DEF Keyed
  <1>5. UpdateAnyTLSUsers(users) \in UserTables /\ AdmitsExactly(UpdateAnyTLSUsers(users), users)
    <2>1. [i \in DOMAIN users |-> [name |-> users[i].name, label |-> <<users[i].name, 0>>]] \in [DOMAIN users -> UserKeys]
      BY <1>2 DEF UserKeys
    <2> QED BY <1>1, <2>1, TableFacts DEF UpdateAnyTLSUsers
  <1>6. Keyed(users) # Nobody /\ UpdateAnyTLSUsers(users) # Nobody
    BY <1>4, <1>5, UserListsAssumption DEF UserTables
  <1>7. \/ UpdateUsersOf(p, users) = Keyed(users) \/ UpdateUsersOf(p, users) = UpdateAnyTLSUsers(users)
        \/ UpdateUsersOf(p, users) = Nobody /\ (SharedSecret(users) \/ MissingSecret(users))
    <2>1. CASE p \in {"vless", "vmess", "shadowsocks", "hysteria2"}
      BY <2>1 DEF UpdateUsersOf, UpdateVLESSUsers, UpdateVMessUsers, UpdateShadowsocksUsers, UpdateHysteria2Users
    <2>2. CASE p = "anytls"
      BY <2>2 DEF UpdateUsersOf
    <2>3. CASE p = "trojan"
      BY <2>3 DEF UpdateUsersOf, UpdateTrojanUsers
    <2>4. CASE p = "tuic"
      BY <2>4 DEF UpdateUsersOf, UpdateTUICUsers
    <2>5. CASE p = "snell"
      BY <2>5 DEF UpdateUsersOf, UpdateSnellUsers
    <2> QED BY <2>1, <2>2, <2>3, <2>4, <2>5 DEF Protocols
  <1> QED BY <1>4, <1>5, <1>6, <1>7, Zenon

\* A connection has no stream or one.
LEMMA Bits == 0 \in 0 .. 1 /\ 1 \in 0 .. 1
  OBVIOUS

\* A client's step concerns its own connection.
LEMMA ClientStep ==
  ASSUME InboundInv, NEW c \in Clients, NEW k \in ClientRecs, NEW mine \in SUBSET (Labels \cup {Nobody}),
         client' = [client EXCEPT ![c] = k], owners' = [owners EXCEPT ![c] = mine], OwnedBy(k, mine),
         UNCHANGED <<protocol, options, inbound, service, accepted, sent, updates>>
  PROVE  InboundInv'
  <1>1. InbShape'
    BY DEF InboundInv, InbShape
  <1>2. TookTheLast'
    BY DEF InboundInv, TookTheLast, AdmitsExactly
  <1>3. ASSUME NEW d \in Clients PROVE OwnedBy(client[d], owners[d])'
    <2>1. OwnedBy(client[d], owners[d]) /\ DOMAIN client = Clients /\ DOMAIN owners = Clients
      BY DEF InboundInv, InbShape
    <2>2. CASE d = c
      <3>1. client'[d] = k /\ owners'[d] = mine
        BY <2>1, <2>2
      <3> QED BY <3>1 DEF OwnedBy
    <2>3. CASE d # c
      <3>1. client'[d] = client[d] /\ owners'[d] = owners[d]
        BY <2>1, <2>3
      <3> QED BY <2>1, <3>1 DEF OwnedBy
    <2> QED BY <2>2, <2>3
  <1> QED BY <1>1, <1>2, <1>3 DEF InboundInv

\* What the invariant says of one client.
LEMMA ClientFacts ==
  ASSUME InboundInv, NEW c \in Clients
  PROVE  /\ client[c] \in ClientRecs /\ owners[c] \in SUBSET (Labels \cup {Nobody}) /\ OwnedBy(client[c], owners[c])
         /\ owners = [owners EXCEPT ![c] = owners[c]] /\ service \in UserTables
  BY DEF InboundInv, InbShape

\* A new table gives every client of now one more owner of its secret.
LEMMA InstallOwns ==
  ASSUME InboundInv, NEW table \in UserTables, Install(table), UNCHANGED <<protocol, client>>
  PROVE  /\ service' \in UserTables /\ owners' \in [Clients -> SUBSET (Labels \cup {Nobody})]
         /\ \A c \in Clients : OwnedBy(client[c], owners[c])'
  <1>0. service' = table
    BY DEF Install
  <1>1. ASSUME NEW c \in Clients
        PROVE  /\ owners'[c] \in SUBSET (Labels \cup {Nobody}) /\ OwnedBy(client[c], owners[c])'
    <2>0. owners'[c] = IF client[c].stage = "none" THEN owners[c] ELSE owners[c] \cup {LabelOf(table[client[c].secret])}
      BY DEF Install
    <2>1. OwnedBy(client[c], owners[c]) /\ owners[c] \subseteq Labels \cup {Nobody}
      BY ClientFacts
    <2>2. CASE client[c].stage = "none"
      <3>1. owners'[c] = owners[c] /\ client'[c] = client[c]
        BY <2>0, <2>2
      <3> QED BY <2>1, <2>2, <3>1 DEF OwnedBy
    <2>3. CASE client[c].stage # "none"
      <3>1. PICK l : l = LabelOf(table[client[c].secret])
        OBVIOUS
      <3>2. owners'[c] = owners[c] \cup {l} /\ client'[c] = client[c] /\ protocol' = protocol
        BY <2>0, <2>3, <3>1
      <3>3. client[c].secret \in UserSecrets
        BY <2>1, <2>3 DEF OwnedBy
      <3>4. table[client[c].secret] \in UserKeys \cup {Nobody}
        BY <3>3 DEF UserTables
      <3>5. l \in Labels \cup {Nobody}
        BY <3>1, <3>4 DEF LabelOf, UserKeys, Labels
      <3>6. l = LabelOf(service'[client'[c].secret])
        BY <1>0, <3>1, <3>2
      <3> QED BY <2>1, <3>2, <3>3, <3>5, <3>6 DEF OwnedBy
    <2> QED BY <2>2, <2>3
  <1>2. owners' = [c \in Clients |-> owners'[c]]
    BY DEF Install
  <1> QED BY <1>0, <1>1, <1>2

\* The constructor and the replacement of the user list.
LEMMA ListSteps ==
  ASSUME InboundInv, NEW users \in UserLists, NewInbound(users) \/ UpdateUsers(users)
  PROVE  InboundInv'
  <1>0. InbShape /\ TookTheLast /\ protocol \in Protocols
    BY DEF InboundInv, InbShape
  <1>1. PICK table : table = UpdateUsersOf(protocol, users)
    OBVIOUS
  <1>2. /\ table = Nobody => SharedSecret(users) \/ MissingSecret(users)
        /\ table # Nobody => table \in UserTables /\ AdmitsExactly(table, users)
    BY <1>0, <1>1, UpdateFacts
  <1>3. /\ UNCHANGED <<protocol, options, client>> /\ sent' = users
        /\ inbound' \in {"built", "started"} /\ (inbound' = "started" => inbound # "none")
    BY DEF NewInbound, UpdateUsers
  <1>4. updates' \in 0 .. MaxUpdates
    <2>1. updates \in 0 .. MaxUpdates /\ MaxUpdates \in Nat
      BY <1>0, UserListsAssumption DEF InbShape
    <2>2. updates' = updates \/ (updates' = updates + 1 /\ updates < MaxUpdates)
      BY DEF NewInbound, UpdateUsers
    <2> QED BY <2>1, <2>2
  <1>5. CASE table # Nobody
    <2>1. Install(table) /\ accepted' = users
      BY <1>1, <1>5 DEF NewInbound, UpdateUsers
    <2>2. service' = table
      BY <2>1 DEF Install
    <2>3. /\ service' \in UserTables /\ owners' \in [Clients -> SUBSET (Labels \cup {Nobody})]
          /\ \A c \in Clients : OwnedBy(client[c], owners[c])'
      BY <1>2, <1>3, <1>5, <2>1, InstallOwns
    <2>4. TookTheLast'
      BY <1>2, <1>3, <1>5, <2>1, <2>2 DEF TookTheLast, AdmitsExactly
    <2>5. InbShape'
      BY <1>0, <1>3, <1>4, <2>3 DEF InbShape
    <2> QED BY <2>3, <2>4, <2>5 DEF InboundInv
  <1>6. CASE table = Nobody
    <2>1. UNCHANGED <<service, accepted, owners, inbound>> /\ inbound = "started"
      BY <1>1, <1>6 DEF NewInbound, UpdateUsers
    <2>2. TookTheLast'
      BY <1>0, <1>2, <1>3, <1>6, <2>1 DEF TookTheLast, AdmitsExactly
    <2>3. InbShape'
      BY <1>0, <1>3, <1>4, <2>1 DEF InbShape
    <2>4. ASSUME NEW c \in Clients PROVE OwnedBy(client[c], owners[c])'
      BY <1>3, <2>1 DEF InboundInv, OwnedBy
    <2> QED BY <2>2, <2>3, <2>4 DEF InboundInv
  <1> QED BY <1>5, <1>6

\* Accepting, resolving, refusing and relaying a client, and its streams.
LEMMA HandshakeSteps ==
  ASSUME InboundInv, NEW c \in Clients,
         \/ \E s \in UserSecrets : AcceptClient(c, s) \/ AcceptShadowsocks(c, s)
         \/ Authenticate(c) \/ RefuseClient(c) \/ FallbackConnection(c) \/ EndStream(c)
  PROVE  InboundInv'
  <1>0. /\ client[c] \in ClientRecs /\ owners[c] \in SUBSET (Labels \cup {Nobody}) /\ OwnedBy(client[c], owners[c])
        /\ owners = [owners EXCEPT ![c] = owners[c]] /\ service \in UserTables
    BY ClientFacts
  <1>1. NoClient \in ClientRecs /\ OwnedBy(NoClient, {})
    BY DEF NoClient, ClientRecs, OwnedBy
  <1>2. ASSUME client' = [client EXCEPT ![c] = NoClient], owners' = [owners EXCEPT ![c] = {}],
               UNCHANGED <<protocol, options, inbound, service, accepted, sent, updates>>
        PROVE  InboundInv'
    BY <1>1, <1>2, ClientStep
  <1>3. ASSUME NEW s \in UserSecrets, NEW table \in UserTables \cup {Nobody}, Accept(c, s, table),
               protocol = "shadowsocks" => table = service
        PROVE  InboundInv'
    <2>1. PICK k : k = [NoClient EXCEPT !.stage = "handshake", !.secret = s, !.table = table]
      OBVIOUS
    <2>2. k \in ClientRecs /\ k.stage = "handshake" /\ k.secret = s /\ k.table = table /\ k.streams = 0
      <3>1. k = [stage |-> "handshake", secret |-> s, table |-> table, key |-> Nobody, billed |-> Nobody,
                 counted |-> FALSE, streams |-> 0]
        BY <2>1 DEF NoClient
      <3>2. k \in ClientRecs
        BY <3>1, Bits DEF ClientRecs
      <3> QED BY <3>1, <3>2
    <2>3. PICK l : l = LabelOf(service[s])
      OBVIOUS
    <2>4. l \in Labels \cup {Nobody}
      <3>1. service[s] \in UserKeys \cup {Nobody}
        BY <1>0 DEF UserTables
      <3> QED BY <2>3, <3>1 DEF LabelOf, UserKeys, Labels
    <2>5. OwnedBy(k, {l})
      BY <1>0, <1>3, <2>2, <2>3 DEF OwnedBy
    <2>6. /\ client' = [client EXCEPT ![c] = k] /\ owners' = [owners EXCEPT ![c] = {l}]
          /\ UNCHANGED <<protocol, options, inbound, service, accepted, sent, updates>>
      BY <1>3, <2>1, <2>3 DEF Accept
    <2>7. {l} \in SUBSET (Labels \cup {Nobody})
      BY <2>4
    <2> QED BY <2>2, <2>5, <2>6, <2>7, ClientStep
  <1>4. ASSUME NEW s \in UserSecrets, AcceptClient(c, s) \/ AcceptShadowsocks(c, s) PROVE InboundInv'
    <2>1. CASE AcceptClient(c, s)
      BY <1>3, <2>1 DEF AcceptClient
    <2>2. CASE AcceptShadowsocks(c, s)
      BY <1>0, <1>3, <2>2 DEF AcceptShadowsocks
    <2> QED BY <1>4, <2>1, <2>2
  <1>5. CASE Authenticate(c)
    <2>1. PICK key : key = Resolve(c)
      OBVIOUS
    <2>2. client[c].stage = "handshake" /\ key # Nobody
      BY <1>5, <2>1 DEF Authenticate
    <2>3. key \in UserKeys /\ key.label \in owners[c]
      <3>1. client[c].secret \in UserSecrets /\ LabelOf(service[client[c].secret]) \in owners[c]
            /\ (protocol = "shadowsocks" => client[c].table \in UserTables /\ LabelOf(client[c].table[client[c].secret]) \in owners[c])
        BY <1>0, <2>2 DEF OwnedBy
      <3>2. key = IF protocol = "shadowsocks" THEN client[c].table[client[c].secret] ELSE service[client[c].secret]
        BY <2>1 DEF Resolve
      <3>3. key \in UserKeys \cup {Nobody} /\ LabelOf(key) \in owners[c]
        BY <1>0, <3>1, <3>2 DEF UserTables
      <3> QED BY <2>2, <3>3 DEF LabelOf
    <2>4. PICK k : k = [client[c] EXCEPT !.stage = "authenticated", !.key = key, !.table = Nobody]
      OBVIOUS
    <2>5. /\ k \in ClientRecs /\ k.stage = "authenticated" /\ k.key = key /\ k.secret = client[c].secret
          /\ k.streams = client[c].streams
      BY <1>0, <2>3, <2>4 DEF ClientRecs
    <2>6. client[c].streams # 1
      BY <1>0, <2>2 DEF OwnedBy
    <2>7. OwnedBy(k, owners[c])
      BY <1>0, <2>2, <2>3, <2>5, <2>6 DEF OwnedBy
    <2>8. client' = [client EXCEPT ![c] = k]
      BY <1>5, <2>1, <2>4 DEF Authenticate
    <2> QED BY <1>0, <1>5, <2>5, <2>7, <2>8, ClientStep DEF Authenticate
  <1>6. CASE RefuseClient(c)
    BY <1>2, <1>6 DEF RefuseClient
  <1>7. CASE FallbackConnection(c)
    <2>1. PICK k : k = [client[c] EXCEPT !.stage = "fallback"]
      OBVIOUS
    <2>2. k \in ClientRecs /\ k.stage = "fallback" /\ k.secret = client[c].secret /\ k.streams = client[c].streams
      BY <1>0, <2>1 DEF ClientRecs
    <2>3. client[c].stage = "handshake" /\ client' = [client EXCEPT ![c] = k]
          /\ UNCHANGED <<protocol, options, inbound, service, accepted, sent, updates, owners>>
      BY <1>7, <2>1 DEF FallbackConnection
    <2>4. OwnedBy(k, owners[c])
      BY <1>0, <2>2, <2>3 DEF OwnedBy
    <2> QED BY <1>0, <2>2, <2>3, <2>4, ClientStep
  <1>8. CASE EndStream(c)
    <2>1. CASE protocol \notin Multiplexed
      BY <1>2, <1>8, <2>1 DEF EndStream
    <2>2. CASE protocol \in Multiplexed
      <3>1. PICK k : k = [client[c] EXCEPT !.streams = 0, !.counted = FALSE, !.billed = Nobody]
        OBVIOUS
      <3>2. /\ k \in ClientRecs /\ k.stage = client[c].stage /\ k.secret = client[c].secret /\ k.streams = 0
            /\ k.key = client[c].key /\ k.table = client[c].table
        BY <1>0, <3>1, Bits DEF ClientRecs
      <3>3. client' = [client EXCEPT ![c] = k]
            /\ UNCHANGED <<protocol, options, inbound, service, accepted, sent, updates, owners>>
        BY <1>8, <2>2, <3>1 DEF EndStream
      <3>4. OwnedBy(k, owners[c])
        BY <1>0, <3>2 DEF OwnedBy
      <3> QED BY <1>0, <3>2, <3>3, <3>4, ClientStep
    <2> QED BY <2>1, <2>2
  <1> QED BY <1>4, <1>5, <1>6, <1>7, <1>8

\* A stream is routed under the label of the key that its client was given.
LEMMA RouteStep ==
  ASSUME InboundInv, NEW c \in Clients, RouteAny(c)
  PROVE  InboundInv'
  <1>0. /\ client[c] \in ClientRecs /\ owners[c] \in SUBSET (Labels \cup {Nobody}) /\ OwnedBy(client[c], owners[c])
        /\ owners = [owners EXCEPT ![c] = owners[c]]
    BY ClientFacts
  <1>1. PICK label \in {client[c].key.label, Nobody}, counted \in BOOLEAN : Route(c, label, counted)
    BY DEF RouteAny, BilledTo, RouteVLESS, RouteVMess, RouteTrojan, RouteShadowsocks, RouteHysteria2, RouteTUIC, RouteSnell,
           RouteAnyTLS, RoutePacketVLESS, RoutePacketVMess, RoutePacketTrojan, RoutePacketShadowsocks,
           RoutePacketHysteria2, RoutePacketTUIC, RoutePacketSnell
  <1>2. client[c].stage = "authenticated" /\ UNCHANGED <<protocol, options, inbound, service, accepted, sent, updates, owners>>
    BY <1>1 DEF Route
  <1>3. client[c].key \in UserKeys /\ client[c].key.label \in owners[c]
    BY <1>0, <1>2 DEF OwnedBy
  <1>4. label \in Labels \cup {Nobody}
    BY <1>1, <1>3 DEF UserKeys, Labels
  <1>5. PICK k : k = [client[c] EXCEPT !.streams = 1, !.billed = label, !.counted = counted]
    OBVIOUS
  <1>6. /\ k \in ClientRecs /\ k.stage = client[c].stage /\ k.secret = client[c].secret /\ k.streams = 1
        /\ k.key = client[c].key /\ k.table = client[c].table /\ k.billed = label
    BY <1>0, <1>1, <1>4, <1>5, Bits DEF ClientRecs
  <1>7. client' = [client EXCEPT ![c] = k]
    BY <1>1, <1>5 DEF Route
  <1>8. OwnedBy(k, owners[c])
    BY <1>0, <1>1, <1>2, <1>3, <1>6 DEF OwnedBy
  <1> QED BY <1>0, <1>2, <1>6, <1>7, <1>8, ClientStep

\* A listener admits exactly the list it took last, takes every list whose users
\* have secrets of their own, and bills a stream to an owner of its secret,
\* however lists are replaced during handshakes and under living sessions
\* (nodecore's inbound packages).
THEOREM InboundsTheorem == InbSpec => []InboundsAreExact
  <1>1. InbInit => InboundInv
    <2> SUFFICES ASSUME InbInit PROVE InboundInv
      OBVIOUS
    <2>1. NoClient \in ClientRecs /\ NoTable \in UserTables /\ NoClient.stage = "none" /\ NoClient.streams = 0
      BY DEF NoClient, ClientRecs, NoTable, UserTables
    <2>2. InbShape
      BY <2>1, UserListsAssumption DEF InbInit, InbShape
    <2>3. \A c \in Clients : OwnedBy(client[c], owners[c])
      BY <2>1 DEF InbInit, OwnedBy
    <2> QED BY <2>2, <2>3 DEF InbInit, InboundInv, TookTheLast
  <1>2. InboundInv /\ [InbNext]_inbVars => InboundInv'
    <2> SUFFICES ASSUME InboundInv, [InbNext]_inbVars PROVE InboundInv'
      OBVIOUS
    <2>1. ASSUME UNCHANGED <<protocol, options, service, accepted, sent, updates, client, owners>>,
                 inbound' \in {"none", "built", "started", "closed"}, inbound = "none" => inbound' = "none"
          PROVE  InboundInv'
      <3>1. InbShape' /\ TookTheLast'
        BY <2>1 DEF InboundInv, InbShape, TookTheLast, AdmitsExactly
      <3>2. \A c \in Clients : OwnedBy(client[c], owners[c])'
        BY <2>1 DEF InboundInv, OwnedBy
      <3> QED BY <3>1, <3>2 DEF InboundInv
    <2>2. CASE StartTCP \/ StartQUIC \/ CloseInbound
      BY <2>1, <2>2 DEF StartTCP, StartQUIC, CloseInbound
    <2>3. CASE UNCHANGED inbVars
      BY <2>1, <2>3 DEF inbVars, InboundInv, InbShape
    <2> QED BY <2>2, <2>3, ListSteps, HandshakeSteps, RouteStep DEF InbNext
  <1>3. InboundInv => InboundsAreExact
    <2> SUFFICES ASSUME InboundInv PROVE InboundsAreExact
      OBVIOUS
    <2>1. ASSUME NEW c \in Clients
          PROVE  /\ client[c].stage \in {"none", "handshake", "authenticated", "fallback"} /\ client[c].streams \in 0 .. 1
                 /\ client[c].streams = 1 /\ client[c].billed # Nobody => client[c].billed \in owners[c]
      <3>1. client[c] \in ClientRecs /\ OwnedBy(client[c], owners[c])
        BY ClientFacts
      <3> QED BY <3>1 DEF ClientRecs, OwnedBy
    <2>2. AdmitsTheAcceptedList
      BY DEF InboundInv, TookTheLast, AdmitsExactly, AdmitsTheAcceptedList
    <2>3. DOMAIN service = UserSecrets
      BY DEF InboundInv, InbShape, UserTables
    <2> QED BY <2>1, <2>2, <2>3 DEF InboundInv, InbShape, InboundsAreExact, InbTypeOK, BilledToOwner
  <1> QED BY <1>1, <1>2, <1>3, PTL DEF InbSpec
=============================================================================
