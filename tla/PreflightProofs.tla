---------------------------- MODULE PreflightProofs ----------------------------
(***************************************************************************)
(* Theorems about Preflight: what Config.prepare accepts, for every        *)
(* template and environment, which region a build goes on with, for every  *)
(* listing of the server's, and what its image is called, for every name.  *)
(***************************************************************************)
EXTENDS Preflight, SequenceTheorems, WellFoundedInduction, TLAPS

\* The settings prepare() resolves, and those it leaves alone.
LEMMA ResolvedFields ==
  ASSUME NEW t \in Prep!Template, NEW e \in Prep!Environment, NEW c,
         c = Prep!Resolved(t, e)
  PROVE  /\ c.apiEndpoint = (t.apiEndpoint \/ e.apiEndpoint)
         /\ c.apiToken = (t.apiToken \/ e.apiToken)
         /\ c.commType = Prep!CommType(t)
         /\ c.useElasticIP = IF Prep!ElasticIP(t) THEN "true" ELSE "false"
         /\ c.sshUsername = Prep!SSHUsername(t)
         /\ c.pollInterval = Prep!OrDefault(t.pollInterval)
         /\ c.stateTimeout = Prep!OrDefault(t.stateTimeout)
         /\ c.region = t.region /\ c.regionId = t.regionId
         /\ c.image = t.image /\ c.pullImage = t.pullImage
         /\ c.useAgent = t.useAgent /\ c.sshKeyIds = t.sshKeyIds
         /\ c.adminUser = t.adminUser /\ c.authKey = t.authKey /\ c.keyFile = t.keyFile
         /\ c.pushImage = t.pushImage /\ c.keepVM = t.keepVM
BY DEF Prep!Template, Prep!Resolved

\* The objections are the rules, read backwards: none of them to what prepare()
\* has made of a template, exactly if the template keeps every rule.
LEMMA RulesDecide ==
  ASSUME NEW t \in Prep!Written, NEW e \in Prep!Environment, NEW c,
         c = Prep!Resolved(t, e)
  PROVE  Prep!Objections(c) = {} <=> Prep!KeepsRules(t, e)
<1>0. t \in Prep!Template
  BY DEF Prep!Written
<1>1. /\ t.apiEndpoint \in BOOLEAN /\ t.apiToken \in BOOLEAN
      /\ e.apiEndpoint \in BOOLEAN /\ e.apiToken \in BOOLEAN
      /\ t.region \in BOOLEAN /\ t.image \in BOOLEAN /\ t.pullImage \in BOOLEAN
      /\ t.regionId \in {"unset", "uuid", "junk"}
      /\ t.commType \in {"unset", "ssh", "none", "winrm"}
      /\ t.useAgent \in {"unset", "true", "false"}
  BY <1>0 DEF Prep!Template, Prep!Environment, Prep!Choice
<1>2. Prep!Objections(c) = {} <=>
        /\ Prep!Parses(c.pollInterval) /\ Prep!Parses(c.stateTimeout)
        /\ c.apiToken /\ c.apiEndpoint
        /\ Prep!RegionError(c) = {}
        /\ c.image # c.pullImage
        /\ c.commType \in {"ssh", "none"}
        /\ c.authKey # "junk"
        /\ ~Prep!CommPrepareError(c)
  BY DEF Prep!Objections
<1>3. /\ Prep!Parses(c.pollInterval) <=> t.pollInterval # "junk"
      /\ Prep!Parses(c.stateTimeout) <=> t.stateTimeout # "junk"
  BY <1>0, ResolvedFields DEF Prep!Parses, Prep!OrDefault
<1>4. /\ c.apiToken <=> t.apiToken \/ e.apiToken
      /\ c.apiEndpoint <=> t.apiEndpoint \/ e.apiEndpoint
  BY <1>0, ResolvedFields
<1>5. Prep!RegionError(c) = {} <=> \/ t.region /\ t.regionId = "unset"
                                   \/ ~t.region /\ t.regionId = "uuid"
  <2>1. c.region = t.region /\ c.regionId = t.regionId
    BY <1>0, ResolvedFields
  <2> QED
    BY <1>1, <2>1 DEF Prep!RegionError
<1>6. c.image # c.pullImage <=> \/ t.image /\ ~t.pullImage
                                \/ ~t.image /\ t.pullImage
  <2>1. c.image = t.image /\ c.pullImage = t.pullImage
    BY <1>0, ResolvedFields
  <2> QED
    BY <1>1, <2>1
<1>7. /\ c.commType \in {"ssh", "none"} <=> (t.useAgent = "false" => t.commType # "winrm")
      /\ c.commType = "ssh" <=> t.useAgent = "false" /\ t.commType \in {"unset", "ssh"}
  <2>1. c.commType = IF t.useAgent # "false" THEN "none"
                     ELSE IF t.commType = "unset" THEN "ssh" ELSE t.commType
    BY <1>0, ResolvedFields DEF Prep!CommType, Prep!Agent
  <2> QED
    BY <1>1, <2>1
<1>8. /\ c.authKey = t.authKey
      /\ Prep!CommPrepareError(c) <=>
           t.useAgent = "false" /\ t.commType \in {"unset", "ssh"} /\ t.keyFile = "junk"
  BY <1>0, <1>7, ResolvedFields DEF Prep!CommPrepareError
<1> QED
  BY <1>2, <1>3, <1>4, <1>5, <1>6, <1>7, <1>8 DEF Prep!KeepsRules

\* A template that keeps the rules becomes a configuration BuildRun assumes.
LEMMA RulesPrepare ==
  ASSUME NEW t \in Prep!Written, NEW e \in Prep!Environment, NEW c,
         c = Prep!Resolved(t, e), Prep!KeepsRules(t, e)
  PROVE  /\ Prep!AsBuildConfig(t, c) \in Prep!PreparedConfig
         /\ c.region # (c.regionId \in {"uuid", "junk"}) /\ c.regionId # "junk"
         /\ c.image # c.pullImage
         /\ c.apiEndpoint /\ c.apiToken
<1>0. t \in Prep!Template /\ t.sshUsername \in {"unset", "explicit"}
  BY DEF Prep!Written
<1>1. /\ t.sshKeyIds \in BOOLEAN /\ t.adminUser \in BOOLEAN
      /\ t.region \in BOOLEAN /\ t.image \in BOOLEAN /\ t.pullImage \in BOOLEAN
      /\ t.pushImage \in BOOLEAN /\ t.keepVM \in BOOLEAN
  BY <1>0 DEF Prep!Template
<1>2. /\ c.region = t.region /\ c.regionId = t.regionId
      /\ c.image = t.image /\ c.pullImage = t.pullImage
      /\ c.sshKeyIds = t.sshKeyIds /\ c.adminUser = t.adminUser
      /\ c.pushImage = t.pushImage /\ c.keepVM = t.keepVM
  BY <1>0, ResolvedFields
<1>3. c.region # (c.regionId \in {"uuid", "junk"}) /\ c.regionId # "junk"
  BY <1>1, <1>2 DEF Prep!KeepsRules
<1>4. c.image # c.pullImage
  BY <1>1, <1>2 DEF Prep!KeepsRules
<1>5. c.apiEndpoint /\ c.apiToken
  BY <1>0, ResolvedFields DEF Prep!KeepsRules
<1>6. Prep!AsBuildConfig(t, c) \in Prep!PreparedConfig
  <2> DEFINE d == Prep!AsBuildConfig(t, c)
  <2>1. c.commType \in {"ssh", "none"}
    BY RulesDecide DEF Prep!Objections
  <2>2. c.sshUsername = IF t.sshUsername # "unset" THEN t.sshUsername
                        ELSE IF t.adminUser THEN "admin_username" ELSE "admin"
    BY <1>0, ResolvedFields DEF Prep!SSHUsername
  <2>3. d \in Prep!Config
    BY <1>0, <1>1, <1>2, <2>1, <2>2 DEF Prep!AsBuildConfig, Prep!Config
  <2>4. d.user = c.sshUsername /\ d.adminUser = t.adminUser
        /\ d.sshUser = (t.sshUsername # "unset")
    BY <1>2 DEF Prep!AsBuildConfig
  <2>5. d.user = Prep!PreparedUser(d)
    BY <1>0, <2>2, <2>4 DEF Prep!PreparedUser
  <2> QED
    BY <2>3, <2>5 DEF Prep!PreparedConfig
<1> QED
  BY <1>3, <1>4, <1>5, <1>6

\* Without a network the agent is all there is, with one it is the template's.
LEMMA RulesConnect ==
  ASSUME NEW t \in Prep!Written, NEW e \in Prep!Environment, NEW c,
         c = Prep!Resolved(t, e), Prep!KeepsRules(t, e), NEW d,
         d = Prep!AsBuildConfig(t, c)
  PROVE  /\ t.useAgent # "false" =>
              /\ d.comm = "agent" /\ ~Prep!NeedsKeyRegistration(d)
              /\ d.eip <=> t.useElasticIP = "true"
         /\ t.useAgent = "false" =>
              /\ d.comm \in {"ssh", "none"}
              /\ d.eip <=> t.useElasticIP # "false"
<1>0. t \in Prep!Template /\ t.useElasticIP \in {"unset", "true", "false"}
  BY DEF Prep!Written, Prep!Template, Prep!Choice
<1>1. d.comm = (IF t.useAgent # "false" THEN "agent" ELSE c.commType)
      /\ d.eip = (c.useElasticIP = "true")
  <2>1. c.useAgent = t.useAgent
    BY <1>0, ResolvedFields
  <2> QED
    BY <2>1 DEF Prep!AsBuildConfig, Prep!Agent
<1>2. c.commType \in {"ssh", "none"}
  BY RulesDecide DEF Prep!Objections
<1>3. c.useElasticIP = "true" <=> Prep!ElasticIP(t)
  BY <1>0, ResolvedFields
<1>4. Prep!ElasticIP(t) <=> IF t.useAgent # "false" THEN t.useElasticIP = "true"
                            ELSE t.useElasticIP # "false"
  BY <1>0 DEF Prep!ElasticIP, Prep!Agent
<1> QED
  BY <1>1, <1>2, <1>3, <1>4 DEF Prep!NeedsKeyRegistration

-----------------------------------------------------------------------------
(***************************************************************************)
(* The inductive invariant.                                                *)
(***************************************************************************)
\* What prepare() has done, and decided.
Prepared ==
  /\ template \in Prep!Written /\ env \in Prep!Environment
  /\ phase \in {"raw", "accepted", "rejected", "polling", "panicked"}
  /\ phase = "raw" => conf = template
  /\ phase # "raw" => /\ conf = Prep!Resolved(template, env)
                      /\ phase = "rejected" <=> Prep!Objections(conf) # {}
  /\ phase = "panicked" => conf.pollInterval # "positive"

\* The region the template gives, and one of the two ways only.
Asked ==
  /\ region # Lookup!Empty <=> template.region
  /\ lookup = "step" => (regionId # Lookup!Empty <=> template.regionId # "unset")
  /\ lookup # "step" => Prep!KeepsRules(template, env)
  /\ lookup \in {"list", "scan"} => region # Lookup!Empty

\* How far the scan of the listing has come, and what it has met.
UsableUpTo(n) == {m \in 1..n : Lookup!Usable(images[m])}

Scanned ==
  /\ lookup \in {"step", "list", "scan", "done"}
  /\ images \in Seq(Lookup!Pair) /\ i \in 0..Len(images)
  /\ lookup \in {"step", "list"} => i = 0 /\ seen = {}
  /\ lookup # "done" => outcome = "none"
  /\ lookup = "scan" => /\ \A n \in 1..i : ~Lookup!Matches(n)
                        /\ seen = {lower[images[n].slug] : n \in UsableUpTo(i)}

IInv == Prepared /\ Asked /\ Scanned /\ RegionIsRight

\* A build starts in the invariant.
LEMMA InitInvariant == Init => IInv
<1> SUFFICES ASSUME Init PROVE IInv
  OBVIOUS
<1>1. PICK f \in Families : \E in \in f :
         template = in.template /\ region = in.region
  BY DEF Init
<1>2. region # Lookup!Empty <=> template.region
  BY <1>1, PreflightAssumption
<1>3. GivenId # Lookup!Empty
  BY PreflightAssumption DEF GivenId, Lookup!SlugAssumption
<1>4. regionId = IF template.regionId = "unset" THEN Lookup!Empty ELSE GivenId
  BY DEF Init
<1>5. Prepared
  BY DEF Init, Prep!Init, Prepared
<1>6. lookup = "step" /\ i = 0 /\ seen = {} /\ outcome = "none" /\ images \in Seq(Lookup!Pair)
  BY DEF Init, Lookup!Init
<1>7. Asked
  BY <1>2, <1>3, <1>4, <1>6 DEF Asked
<1>8. Scanned
  BY <1>6 DEF Scanned
<1>9. RegionIsRight
  BY <1>6 DEF RegionIsRight, Lookup!GoesOnWithRegion, Lookup!TurnedDownRightly
<1> QED
  BY <1>5, <1>7, <1>8, <1>9 DEF IInv

\* Taking one more image of the listing into account.
LEMMA OneMore ==
  ASSUME Scanned, i < Len(images)
  PROVE  /\ i + 1 \in 1..Len(images)
         /\ Lookup!Usable(images[i + 1]) => UsableUpTo(i + 1) = UsableUpTo(i) \cup {i + 1}
         /\ ~Lookup!Usable(images[i + 1]) => UsableUpTo(i + 1) = UsableUpTo(i)
<1>1. i \in Nat /\ Len(images) \in Nat
  BY DEF Scanned
<1>2. 1..(i + 1) = (1..i) \cup {i + 1}
  BY <1>1
<1> QED
  BY <1>1, <1>2 DEF UsableUpTo

\* The step and its scan: no region is passed over, none is taken too early.
LEMMA LookupStep ==
  ASSUME Asked, Scanned, RegionIsRight, Prep!KeepsRules(template, env),
         Lookup!Next, UNCHANGED prepVars
  PROVE  (Asked /\ Scanned /\ RegionIsRight)'
<1>0. UNCHANGED <<template, env, region, images>>
  BY DEF Lookup!Next, Lookup!NothingToDo, Lookup!BlankSlug, Lookup!ListImages,
         Lookup!ListFails, Lookup!Listed, Lookup!Skip, Lookup!LookOn, Lookup!Found,
         Lookup!NotFound, Lookup!Halts, prepVars
<1>1. ASSUME lookup' = "done", outcome' \in {"slug is empty", "no listing"},
             UNCHANGED <<regionId, i, seen>>
      PROVE  (Asked /\ Scanned /\ RegionIsRight)'
  <2>1. Asked'
    BY <1>0, <1>1 DEF Asked
  <2>2. Scanned'
    BY <1>0, <1>1 DEF Scanned
  <2>3. RegionIsRight'
    BY <1>1 DEF RegionIsRight, Lookup!GoesOnWithRegion, Lookup!TurnedDownRightly
  <2> QED
    BY <2>1, <2>2, <2>3
<1>2. CASE Lookup!NothingToDo
  <2>1. /\ lookup = "step" /\ lookup' = "done" /\ outcome' = "continue"
        /\ regionId # Lookup!Empty \/ region = Lookup!Empty
        /\ UNCHANGED <<regionId, i, seen>>
    BY <1>2 DEF Lookup!NothingToDo
  <2>2. region = Lookup!Empty /\ regionId # Lookup!Empty
    BY <2>1 DEF Asked, Prep!KeepsRules
  <2>3. Asked'
    BY <1>0, <2>1 DEF Asked
  <2>4. Scanned'
    BY <1>0, <2>1 DEF Scanned
  <2>5. RegionIsRight'
    BY <1>0, <2>1, <2>2 DEF RegionIsRight, Lookup!GoesOnWithRegion, Lookup!TurnedDownRightly
  <2> QED
    BY <2>3, <2>4, <2>5
<1>3. CASE Lookup!BlankSlug
  BY <1>1, <1>3 DEF Lookup!BlankSlug, Lookup!Halts
<1>4. CASE Lookup!ListFails
  BY <1>1, <1>4 DEF Lookup!ListFails, Lookup!Halts
<1>5. CASE Lookup!ListImages \/ Lookup!Listed
  <2>1. /\ lookup' \in {"list", "scan"} /\ lookup \in {"step", "list"}
        /\ region # Lookup!Empty
        /\ UNCHANGED <<regionId, i, seen, outcome>>
    BY <1>5 DEF Lookup!ListImages, Lookup!Listed, Asked
  <2>2. i = 0 /\ seen = {} /\ outcome = "none"
    BY <2>1 DEF Scanned
  <2>3. Asked'
    BY <1>0, <2>1 DEF Asked
  <2>4. Scanned'
    <3>1. UsableUpTo(0) = {} /\ \A n \in 1..0 : ~Lookup!Matches(n)'
      BY DEF UsableUpTo
    <3> QED
      BY <1>0, <2>1, <2>2, <3>1 DEF Scanned, UsableUpTo
  <2>5. RegionIsRight'
    BY <2>1, <2>2 DEF RegionIsRight, Lookup!GoesOnWithRegion, Lookup!TurnedDownRightly
  <2> QED
    BY <2>3, <2>4, <2>5
<1>6. CASE Lookup!Skip \/ Lookup!LookOn
  <2>1. /\ lookup = "scan" /\ i < Len(images) /\ i' = i + 1
        /\ UNCHANGED <<lookup, regionId, outcome>>
    BY <1>6 DEF Lookup!Skip, Lookup!LookOn
  <2>2. outcome = "none" /\ i \in Nat /\ Len(images) \in Nat
    BY <2>1 DEF Scanned
  <2>3. Asked'
    BY <1>0, <2>1 DEF Asked
  <2>4. ~Lookup!Matches(i + 1)
    BY <1>6 DEF Lookup!Skip, Lookup!LookOn, Lookup!Matches, Lookup!Wanted
  <2>5. \A n \in 1..(i + 1) : ~Lookup!Matches(n)
    BY <2>1, <2>2, <2>4 DEF Scanned
  <2>6. seen' = {lower[images[n].slug] : n \in UsableUpTo(i + 1)}
    <3>1. CASE Lookup!Skip
      BY <2>1, <3>1, OneMore DEF Lookup!Skip, Scanned
    <3>2. CASE Lookup!LookOn
      <4>1. seen' = seen \cup {lower[images[i + 1].slug]}
            /\ UsableUpTo(i + 1) = UsableUpTo(i) \cup {i + 1}
        BY <2>1, <3>2, OneMore DEF Lookup!LookOn
      <4>2. seen = {lower[images[n].slug] : n \in UsableUpTo(i)}
        BY <2>1 DEF Scanned
      <4> QED
        BY <4>1, <4>2
    <3> QED
      BY <1>6, <3>1, <3>2
  <2>7. Scanned'
    BY <1>0, <2>1, <2>2, <2>5, <2>6 DEF Scanned, Lookup!Matches, UsableUpTo
  <2>8. RegionIsRight'
    BY <2>1, <2>2 DEF RegionIsRight, Lookup!GoesOnWithRegion, Lookup!TurnedDownRightly
  <2> QED
    BY <2>3, <2>7, <2>8
<1>7. CASE Lookup!Found
  <2>1. /\ lookup = "scan" /\ i < Len(images) /\ lookup' = "done" /\ outcome' = "continue"
        /\ regionId' = images[i + 1].id /\ i' = i + 1 /\ UNCHANGED seen
        /\ Lookup!Matches(i + 1) /\ regionId' # Lookup!Empty
    BY <1>7 DEF Lookup!Found, Lookup!Matches, Lookup!Wanted, Lookup!Usable
  <2>2. i \in Nat /\ Len(images) \in Nat
    BY DEF Scanned
  <2>3. Asked'
    BY <1>0, <2>1 DEF Asked
  <2>4. Scanned'
    BY <1>0, <2>1, <2>2 DEF Scanned
  <2>5. \E n \in 1..Len(images) :
          /\ Lookup!Matches(n) /\ images[n].id = regionId'
          /\ \A m \in 1..(n - 1) : ~Lookup!Matches(m)
    <3> DEFINE n == i + 1
    <3>1. n \in 1..Len(images) /\ n - 1 = i
      BY <2>1, <2>2
    <3>2. Lookup!Matches(n) /\ images[n].id = regionId'
      BY <2>1
    <3>3. \A m \in 1..(n - 1) : ~Lookup!Matches(m)
      BY <2>1, <3>1 DEF Scanned
    <3> HIDE DEF n
    <3> QED
      BY <3>1, <3>2, <3>3
  <2>6. RegionIsRight'
    BY <1>0, <2>1, <2>5
    DEF RegionIsRight, Lookup!GoesOnWithRegion, Lookup!TurnedDownRightly, Lookup!Matches
  <2> QED
    BY <2>3, <2>4, <2>6
<1>8. CASE Lookup!NotFound
  <2>1. /\ lookup = "scan" /\ i = Len(images) /\ lookup' = "done"
        /\ outcome' = IF seen = {} THEN "no region visible" ELSE "not among available"
        /\ UNCHANGED <<regionId, i, seen>>
    BY <1>8 DEF Lookup!NotFound, Lookup!Halts
  <2>2. Asked'
    BY <1>0, <2>1 DEF Asked
  <2>3. Scanned'
    BY <1>0, <2>1 DEF Scanned
  <2>4. /\ \A n \in 1..Len(images) : ~Lookup!Matches(n)
        /\ seen = {lower[images[n].slug] : n \in {m \in 1..Len(images) : Lookup!Usable(images[m])}}
    BY <2>1 DEF Scanned, UsableUpTo
  <2>5. RegionIsRight'
    BY <1>0, <2>1, <2>4
    DEF RegionIsRight, Lookup!GoesOnWithRegion, Lookup!TurnedDownRightly, Lookup!Matches
  <2> QED
    BY <2>2, <2>3, <2>5
<1> QED
  BY <1>2, <1>3, <1>4, <1>5, <1>6, <1>7, <1>8 DEF Lookup!Next

\* No step leaves the invariant.
LEMMA NextInvariant == IInv /\ [Next]_vars => IInv'
<1> SUFFICES ASSUME IInv, [Next]_vars PROVE IInv'
  OBVIOUS
<1>1. ASSUME UNCHANGED lookupVars, UNCHANGED <<template, env>>
      PROVE  (Asked /\ Scanned /\ RegionIsRight)'
  BY <1>1
  DEF IInv, Asked, Scanned, RegionIsRight, Lookup!GoesOnWithRegion,
      Lookup!TurnedDownRightly, Lookup!Matches, UsableUpTo, lookupVars
<1>2. CASE Prepare
  <2>1. /\ phase = "raw" /\ conf' = Prep!Resolved(conf, env)
        /\ phase' = IF Prep!Objections(conf') = {} THEN "accepted" ELSE "rejected"
        /\ UNCHANGED <<template, env>>
    BY <1>2 DEF Prepare, Prep!Prepare
  <2>2. Prepared'
    BY <2>1 DEF IInv, Prepared
  <2> QED
    BY <1>1, <1>2, <2>1, <2>2 DEF Prepare, IInv
<1>3. CASE ResolveRegion
  <2>1. Prepared' /\ UNCHANGED prepVars
    BY <1>3 DEF ResolveRegion, prepVars, IInv, Prepared
  <2>2. Prep!KeepsRules(template, env)
    BY <1>3, RulesDecide DEF ResolveRegion, IInv, Prepared
  <2> QED
    BY <1>3, <2>1, <2>2, LookupStep DEF ResolveRegion, IInv
<1>4. CASE NameImage \/ UNCHANGED vars
  <2>1. UNCHANGED prepVars /\ UNCHANGED lookupVars
    BY <1>4 DEF NameImage, vars
  <2>2. Prepared'
    BY <2>1 DEF IInv, Prepared, prepVars
  <2> QED
    BY <1>1, <2>1, <2>2 DEF IInv, prepVars
<1>5. CASE PollVM
  <2>1. /\ phase = "accepted"
        /\ phase' = IF conf.pollInterval = "positive" THEN "polling" ELSE "panicked"
        /\ UNCHANGED <<template, env, conf>> /\ UNCHANGED lookupVars
    BY <1>5 DEF PollVM, Prep!StartPolling
  <2>2. Prepared'
    BY <2>1 DEF IInv, Prepared
  <2> QED
    BY <1>1, <2>1, <2>2 DEF IInv
<1> QED
  BY <1>2, <1>3, <1>4, <1>5 DEF Next

(* The invariant holds of every reachable state.                           *)
THEOREM PreflightInvariant == Spec => []IInv
BY InitInvariant, NextInvariant, PTL DEF Spec

(* A template is accepted exactly if it keeps the documented rules, and an *)
(* accepted one is a configuration BuildRun assumes: AcceptedIffRulesKept, *)
(* for every template and environment there is.                            *)
THEOREM TemplatesAreJudgedRightly == Spec => []AcceptedIffRulesKept
<1>1. IInv => AcceptedIffRulesKept
  <2> SUFFICES ASSUME IInv PROVE AcceptedIffRulesKept
    OBVIOUS
  <2>1. template \in Prep!Written /\ env \in Prep!Environment
    BY DEF IInv, Prepared
  <2>2. phase # "raw" => (Prep!Accepted <=> Prep!KeepsRules(template, env))
    BY <2>1, RulesDecide DEF IInv, Prepared, Prep!Accepted
  <2>3. Prep!AcceptedIsPrepared
    <3> SUFFICES ASSUME Prep!Accepted PROVE Prep!AcceptedIsPrepared
      BY DEF Prep!AcceptedIsPrepared
    <3>1. conf = Prep!Resolved(template, env) /\ Prep!KeepsRules(template, env)
      BY <2>2 DEF IInv, Prepared, Prep!Accepted
    <3>2. phase = "panicked" => template.pollInterval \in {"zero", "negative"}
      <4>1. ASSUME phase = "panicked"
            PROVE  Prep!OrDefault(template.pollInterval) # "positive"
        <5>1. template \in Prep!Template
          BY <2>1 DEF Prep!Written
        <5> QED
          BY <2>1, <3>1, <4>1, <5>1, ResolvedFields DEF IInv, Prepared
      <4>2. /\ template.pollInterval \in {"unset", "junk", "negative", "zero", "positive"}
            /\ template.pollInterval # "junk"
        BY <2>1, <3>1 DEF Prep!Written, Prep!Template, Prep!Duration, Prep!KeepsRules
      <4> QED
        BY <4>1, <4>2 DEF Prep!OrDefault
    <3> QED
      BY <2>1, <3>1, <3>2, RulesPrepare DEF Prep!AcceptedIsPrepared
  <2>4. Prep!AgentNeedsNoNetwork
    <3> SUFFICES ASSUME Prep!Accepted PROVE Prep!AgentNeedsNoNetwork
      BY DEF Prep!AgentNeedsNoNetwork
    <3>1. conf = Prep!Resolved(template, env) /\ Prep!KeepsRules(template, env)
      BY <2>2 DEF IInv, Prepared, Prep!Accepted
    <3> QED
      BY <2>1, <3>1, RulesConnect DEF Prep!AgentNeedsNoNetwork
  <2> QED
    BY <2>2, <2>3, <2>4 DEF AcceptedIffRulesKept
<1> QED
  BY <1>1, PreflightInvariant, PTL

(* Builder.Run goes on with the right region, or with none for a reason    *)
(* (RegionIsRight), whatever the server lists and however long the listing.*)
THEOREM RegionsAreRight == Spec => []RegionIsRight
<1>1. IInv => RegionIsRight
  BY DEF IInv
<1> QED
  BY <1>1, PreflightInvariant, PTL

-----------------------------------------------------------------------------
(***************************************************************************)
(* The names of images.  What holds of every element of a sequence is      *)
(* shown by looking at the least index at which it would fail.             *)
(***************************************************************************)
Rune        == Naming!Rune
CatalogRune == Naming!CatalogRune
Dash        == {"-"}
White       == {" ", "tab"}
Lower(c)    == IF c = "A" THEN "a" ELSE c

\* Every set of natural numbers that is not empty has a least element.
LEMMA Least ==
  ASSUME NEW S \in SUBSET Nat, S # {}
  PROVE  \E x \in S : \A y \in S : x <= y
<1> DEFINE R == OpToRel(<, Nat)
<1>1. IsWellFoundedOn(R, Nat)
  BY NatLessThanWellFounded
<1>2. PICK x \in S : \A y \in S : <<y, x>> \notin R
  <2> HIDE DEF R
  <2> QED
    BY <1>1, WFMin
<1>3. \A y \in S : <<y, x>> \in R <=> y < x
  BY DEF OpToRel
<1> HIDE DEF R
<1>4. \A y \in S : ~(y < x)
  BY <1>2, <1>3, Zenon
<1> QED
  BY <1>4

\* Every set of indices that is not empty has a greatest element.
LEMMA Greatest ==
  ASSUME NEW N \in Nat, NEW S \in SUBSET (1..N), S # {}
  PROVE  \E x \in S : \A y \in S : y <= x
<1> DEFINE T == {N - x : x \in S}
<1>1. T \in SUBSET Nat /\ T # {}
  <2>1. PICK x \in S : TRUE
    OBVIOUS
  <2>2. N - x \in T
    OBVIOUS
  <2>3. \A y \in S : N - y \in Nat
    OBVIOUS
  <2> QED
    BY <2>2, <2>3
<1>2. PICK t \in T : \A u \in T : t <= u
  BY <1>1, Least
<1>3. PICK x \in S : t = N - x
  BY <1>2
<1>4. \A y \in S : N - x <= N - y
  BY <1>2, <1>3
<1> QED
  BY <1>4

\* f and l are the first and the last of the runes of s that are not in drop.
Frames(s, drop, f, l) ==
  /\ f \in 1..Len(s) /\ l \in f..Len(s)
  /\ s[f] \notin drop /\ \A n \in 1..(f - 1) : s[n] \in drop
  /\ s[l] \notin drop /\ \A n \in (l + 1)..Len(s) : s[n] \in drop

\* Trim: nothing is left of a sequence of runes to drop,
LEMMA TrimNone ==
  ASSUME NEW s, NEW drop, \A n \in 1..Len(s) : s[n] \in drop
  PROVE  Naming!Trim(s, drop) = << >>
<1>1. {n \in 1..Len(s) : s[n] \notin drop} = {}
  OBVIOUS
<1> QED
  BY <1>1, Zenon DEF Naming!Trim

\* and of any other what is between the first and the last rune to keep,
LEMMA TrimFramed ==
  ASSUME NEW s, Len(s) \in Nat, NEW drop, NEW f, NEW l, Frames(s, drop, f, l)
  PROVE  Naming!Trim(s, drop) = SubSeq(s, f, l)
<1> DEFINE kept  == {n \in 1..Len(s) : s[n] \notin drop}
           first == CHOOSE n \in kept : \A m \in kept : n <= m
           last  == CHOOSE n \in kept : \A m \in kept : m <= n
<1>0. kept \subseteq Int /\ f \in kept /\ l \in kept /\ f <= l /\ f \in Int /\ l \in Int
  BY DEF Frames
<1>1. \A m \in kept : f <= m
  BY DEF Frames
<1>2. \A m \in kept : m <= l
  BY DEF Frames
<1>5. Naming!Trim(s, drop) = IF kept = {} THEN << >> ELSE SubSeq(s, first, last)
  BY Zenon DEF Naming!Trim
<1> HIDE DEF kept
<1>3. first \in kept /\ \A m \in kept : first <= m
  BY <1>0, <1>1, Zenon
<1>4. last \in kept /\ \A m \in kept : m <= last
  BY <1>0, <1>2, Zenon
<1> HIDE DEF first, last
<1>6. first = f
  BY <1>0, <1>1, <1>3
<1>7. last = l
  BY <1>0, <1>2, <1>4
<1> QED
  BY <1>0, <1>5, <1>6, <1>7

\* which there are if there is a rune to keep at all.
LEMMA TrimSome ==
  ASSUME NEW s, Len(s) \in Nat, NEW drop, NEW m \in 1..Len(s), s[m] \notin drop
  PROVE  \E f, l \in 1..Len(s) : Frames(s, drop, f, l)
<1> DEFINE kept == {n \in 1..Len(s) : s[n] \notin drop}
<1>1. kept \subseteq 1..Len(s) /\ kept \subseteq Nat /\ m \in kept
  OBVIOUS
<1>2. PICK f \in kept : \A n \in kept : f <= n
  BY <1>1, Least
<1>3. PICK l \in kept : \A n \in kept : n <= l
  BY <1>1, Greatest
<1>4. \A n \in 1..(f - 1) : s[n] \in drop
  BY <1>2
<1>5. \A n \in (l + 1)..Len(s) : s[n] \in drop
  BY <1>3
<1>6. f <= l
  BY <1>2, <1>3
<1> QED
  BY <1>1, <1>2, <1>3, <1>4, <1>5, <1>6 DEF Frames

\* Dashes at either end make no difference to a Trim of dashes.
LEMMA TrimBetweenDashes ==
  ASSUME NEW p \in Seq(Dash), NEW s \in Seq(CatalogRune), NEW q \in Seq(Dash)
  PROVE  Naming!Trim((p \o s) \o q, Dash) = Naming!Trim(s, Dash)
<1> DEFINE u == (p \o s) \o q
<1>0. Dash \subseteq CatalogRune
  BY DEF Dash, CatalogRune, Naming!CatalogRune, Naming!Plain
<1>1. p \in Seq(CatalogRune) /\ q \in Seq(CatalogRune)
  BY <1>0, SeqMonotonic
<1>2. /\ Len(p) \in Nat /\ Len(s) \in Nat /\ Len(q) \in Nat
      /\ \A n \in 1..Len(p) : p[n] \in Dash
      /\ \A n \in 1..Len(q) : q[n] \in Dash
  BY LenProperties, ElementOfSeq
<1>3. /\ p \o s \in Seq(CatalogRune) /\ Len(p \o s) = Len(p) + Len(s)
      /\ \A n \in 1..Len(p) + Len(s) :
           (p \o s)[n] = IF n <= Len(p) THEN p[n] ELSE s[n - Len(p)]
  BY <1>1, ConcatProperties
<1>4. /\ u \in Seq(CatalogRune) /\ Len(u) = Len(p \o s) + Len(q)
      /\ \A n \in 1..Len(p \o s) + Len(q) :
           u[n] = IF n <= Len(p \o s) THEN (p \o s)[n] ELSE q[n - Len(p \o s)]
  BY <1>1, <1>3, ConcatProperties
<1>5. /\ Len(u) = Len(p) + Len(s) + Len(q)
      /\ \A n \in 1..Len(p) : u[n] \in Dash
      /\ \A n \in 1..Len(s) : u[Len(p) + n] = s[n]
      /\ \A n \in (Len(p) + Len(s) + 1)..Len(u) : u[n] \in Dash
  <2> HIDE DEF u
  <2>1. Len(u) = Len(p) + Len(s) + Len(q)
    BY <1>2, <1>3, <1>4
  <2>2. ASSUME NEW n \in 1..Len(p) PROVE u[n] \in Dash
    <3>1. u[n] = (p \o s)[n]
      BY <1>2, <1>3, <1>4
    <3>2. (p \o s)[n] = p[n]
      BY <1>2, <1>3
    <3> QED
      BY <1>2, <3>1, <3>2
  <2>3. ASSUME NEW n \in 1..Len(s) PROVE u[Len(p) + n] = s[n]
    <3>1. u[Len(p) + n] = (p \o s)[Len(p) + n]
      BY <1>2, <1>3, <1>4
    <3>2. (p \o s)[Len(p) + n] = s[n]
      <4>1. Len(p) + n - Len(p) = n
        BY <1>2
      <4> QED
        BY <1>2, <1>3, <4>1
    <3> QED
      BY <3>1, <3>2
  <2>4. ASSUME NEW n \in (Len(p) + Len(s) + 1)..Len(u) PROVE u[n] \in Dash
    <3>1. u[n] = q[n - Len(p \o s)] /\ n - Len(p \o s) \in 1..Len(q)
      BY <1>2, <1>3, <1>4
    <3> QED
      BY <1>2, <3>1
  <2> QED
    BY <2>1, <2>2, <2>3, <2>4
<1> HIDE DEF u
<1>6. CASE \A n \in 1..Len(s) : s[n] \in Dash
  <2>1. ASSUME NEW n \in 1..Len(u) PROVE u[n] \in Dash
    <3>1. CASE n \in (Len(p) + 1)..(Len(p) + Len(s))
      <4>1. n - Len(p) \in 1..Len(s) /\ n = Len(p) + (n - Len(p))
        BY <1>2, <3>1
      <4> QED
        BY <1>5, <1>6, <4>1
    <3> QED
      BY <1>2, <1>5, <3>1
  <2>2. Naming!Trim(u, Dash) = << >>
    BY <2>1, TrimNone
  <2>3. Naming!Trim(s, Dash) = << >>
    BY <1>6, TrimNone
  <2> QED
    BY <2>2, <2>3 DEF u
<1>7. CASE \E n \in 1..Len(s) : s[n] \notin Dash
  <2>1. PICK f, l \in 1..Len(s) : Frames(s, Dash, f, l)
    BY <1>2, <1>7, TrimSome
  <2>2. Frames(u, Dash, Len(p) + f, Len(p) + l)
    <3>1. Len(p) + f \in 1..Len(u) /\ Len(p) + l \in (Len(p) + f)..Len(u)
      BY <1>2, <1>5, <2>1 DEF Frames
    <3>2. u[Len(p) + f] \notin Dash /\ u[Len(p) + l] \notin Dash
      BY <1>5, <2>1 DEF Frames
    <3>3. ASSUME NEW n \in 1..(Len(p) + f - 1) PROVE u[n] \in Dash
      <4>1. CASE n > Len(p)
        <5>1. /\ n - Len(p) \in 1..(f - 1) /\ n - Len(p) \in 1..Len(s)
              /\ n = Len(p) + (n - Len(p))
          BY <1>2, <2>1, <4>1 DEF Frames
        <5> QED
          BY <1>5, <2>1, <5>1 DEF Frames
      <4> QED
        BY <1>2, <1>5, <4>1
    <3>4. ASSUME NEW n \in (Len(p) + l + 1)..Len(u) PROVE u[n] \in Dash
      <4>1. CASE n <= Len(p) + Len(s)
        <5>1. /\ n - Len(p) \in (l + 1)..Len(s) /\ n - Len(p) \in 1..Len(s)
              /\ n = Len(p) + (n - Len(p))
          BY <1>2, <2>1, <4>1 DEF Frames
        <5> QED
          BY <1>5, <2>1, <5>1 DEF Frames
      <4> QED
        BY <1>2, <1>5, <4>1
    <3> QED
      BY <3>1, <3>2, <3>3, <3>4 DEF Frames
  <2>3. Len(u) \in Nat /\ Len(p) + f \in Int /\ Len(p) + l \in Int
    BY <1>2, <1>5
  <2>4. Naming!Trim(u, Dash) = SubSeq(u, Len(p) + f, Len(p) + l)
    BY <2>2, <2>3, TrimFramed
  <2>5. Naming!Trim(s, Dash) = SubSeq(s, f, l)
    BY <1>2, <2>1, TrimFramed
  <2>6. /\ SubSeq(u, Len(p) + f, Len(p) + l) \in Seq(CatalogRune)
        /\ Len(SubSeq(u, Len(p) + f, Len(p) + l)) = l - f + 1
        /\ \A n \in 1..(l - f + 1) : SubSeq(u, Len(p) + f, Len(p) + l)[n] = u[Len(p) + f + n - 1]
    <3>1. \A n \in (Len(p) + f)..(Len(p) + l) : u[n] \in CatalogRune
      BY <1>2, <1>4, <1>5, <2>1, ElementOfSeq
    <3>2. f <= l
      BY <2>1 DEF Frames
    <3> QED
      BY <1>2, <2>3, <3>1, <3>2, SubSeqProperties
  <2>7. /\ SubSeq(s, f, l) \in Seq(CatalogRune)
        /\ Len(SubSeq(s, f, l)) = l - f + 1
        /\ \A n \in 1..(l - f + 1) : SubSeq(s, f, l)[n] = s[f + n - 1]
    <3>1. \A n \in f..l : s[n] \in CatalogRune
      BY <1>2, <2>1, ElementOfSeq
    <3>2. f <= l
      BY <2>1 DEF Frames
    <3> QED
      BY <1>2, <3>1, <3>2, SubSeqProperties
  <2>8. ASSUME NEW n \in 1..(l - f + 1)
        PROVE  SubSeq(u, Len(p) + f, Len(p) + l)[n] = SubSeq(s, f, l)[n]
    <3>1. Len(p) + f + n - 1 = Len(p) + (f + n - 1) /\ f + n - 1 \in 1..Len(s)
      BY <1>2
    <3> QED
      BY <1>5, <2>6, <2>7, <3>1
  <2>9. SubSeq(u, Len(p) + f, Len(p) + l) = SubSeq(s, f, l)
    <3> DEFINE x == SubSeq(u, Len(p) + f, Len(p) + l)
               y == SubSeq(s, f, l)
    <3>1. /\ x \in Seq(CatalogRune) /\ y \in Seq(CatalogRune) /\ Len(x) = Len(y)
          /\ \A n \in 1..Len(x) : x[n] = y[n]
      BY <2>6, <2>7, <2>8
    <3> HIDE DEF x, y
    <3>2. x = y
      BY <3>1, SeqEqual
    <3> QED
      BY <3>2 DEF x, y
  <2> QED
    BY <2>4, <2>5, <2>9 DEF u
<1> QED
  BY <1>6, <1>7

-----------------------------------------------------------------------------
(***************************************************************************)
(* What a name says.                                                       *)
(***************************************************************************)

\* A sequence of one element.
LEMMA OneRune ==
  ASSUME NEW S, NEW c \in S
  PROVE  <<c>> \in Seq(S)
OBVIOUS

\* Copying a folded rune into the builder gives what the rune says; white space
\* says nothing but dashes.
LEMMA WhatARuneSays ==
  ASSUME NEW c \in Rune
  PROVE  /\ Naming!Said(c) \in Seq(CatalogRune)
         /\ Naming!Copied(Lower(c)) = Naming!Said(c)
         /\ c \in CatalogRune => Naming!Said(c) = <<c>>
         /\ c \in {" ", "tab"} => Naming!Said(c) \in Seq(Dash)
<1>1. CASE c \in {"a", "0", "-"}
  <2>1. Naming!Said(c) = <<c>>
    BY <1>1, Zenon DEF Naming!Said, Naming!CatalogRune, Naming!Plain
  <2>2. Naming!Copied(c) = <<c>>
    <3>1. CASE c \in Naming!Plain
      BY <3>1, Zenon DEF Naming!Copied, Naming!Plain
    <3>2. CASE c = "-"
      BY <3>2, Zenon DEF Naming!Copied, Naming!Plain
    <3> QED
      BY <1>1, <3>1, <3>2 DEF Naming!Plain
  <2>3. Lower(c) = c /\ c \in CatalogRune /\ c \notin {" ", "tab"}
    BY <1>1 DEF Lower, CatalogRune, Naming!CatalogRune, Naming!Plain
  <2>4. Naming!Said(c) \in Seq(CatalogRune)
    BY <2>1, <2>3, OneRune, Zenon
  <2> QED
    BY <2>1, <2>2, <2>3, <2>4, Zenon
<1>2. CASE c = "A"
  <2>1. Naming!Said(c) = <<"a">>
    BY <1>2, Zenon DEF Naming!Said, Naming!CatalogRune, Naming!Plain
  <2>2. Naming!Copied("a") = <<"a">>
    BY Zenon DEF Naming!Copied, Naming!Plain
  <2>3. Lower(c) = "a" /\ c \notin CatalogRune /\ c \notin {" ", "tab"} /\ "a" \in CatalogRune
    BY <1>2 DEF Lower, CatalogRune, Naming!CatalogRune, Naming!Plain
  <2>4. Naming!Said(c) \in Seq(CatalogRune)
    BY <2>1, <2>3, OneRune, Zenon
  <2> QED
    BY <2>1, <2>2, <2>3, <2>4, Zenon
<1>3. CASE c \in {" ", "_"}
  <2>1. Naming!Said(c) = <<"-">>
    BY <1>3, Zenon DEF Naming!Said, Naming!CatalogRune, Naming!Plain
  <2>2. Naming!Copied(c) = <<"-">>
    BY <1>3, Zenon DEF Naming!Copied, Naming!Plain
  <2>3. Lower(c) = c /\ c \notin CatalogRune /\ "-" \in CatalogRune /\ "-" \in Dash
    BY <1>3 DEF Lower, CatalogRune, Dash, Naming!CatalogRune, Naming!Plain
  <2>4. Naming!Said(c) \in Seq(CatalogRune) /\ Naming!Said(c) \in Seq(Dash)
    BY <2>1, <2>3, OneRune, Zenon
  <2> QED
    BY <2>1, <2>2, <2>3, <2>4, Zenon
<1>4. CASE c \in {"tab", "other"}
  <2>1. Naming!Said(c) = << >>
    BY <1>4, Zenon DEF Naming!Said, Naming!CatalogRune, Naming!Plain
  <2>2. Naming!Copied(c) = << >>
    BY <1>4, Zenon DEF Naming!Copied, Naming!Plain
  <2>3. Lower(c) = c /\ c \notin CatalogRune
    BY <1>4 DEF Lower, CatalogRune, Naming!CatalogRune, Naming!Plain
  <2> QED
    BY <2>1, <2>2, <2>3, EmptySeq
<1> QED
  BY <1>1, <1>2, <1>3, <1>4 DEF Rune, Naming!Rune, Naming!Plain

\* g says what the first n runes of s say together.
SaysUpTo(g, s, n) ==
  /\ g \in [0..n -> Seq(CatalogRune)]
  /\ g[0] = << >>
  /\ \A m \in 1..n : g[m] = g[m - 1] \o Naming!Said(s[m])

\* There is such a function, for every n: the least n without one would be the
\* successor of an n that has one.
LEMMA SaysExists ==
  ASSUME NEW s \in Seq(Rune), NEW N \in 0..Len(s)
  PROVE  \E g : SaysUpTo(g, s, N)
<1> DEFINE S == {n \in 0..Len(s) : ~ \E g : SaysUpTo(g, s, n)}
<1>0. Len(s) \in Nat /\ \A n \in 1..Len(s) : s[n] \in Rune
  BY LenProperties, ElementOfSeq
<1>1. S = {}
  <2> SUFFICES ASSUME S # {} PROVE FALSE
    OBVIOUS
  <2>1. S \in SUBSET Nat
    BY <1>0
  <2>2. PICK n \in S : \A m \in S : n <= m
    BY <2>1, Least
  <2>3. n \in 0..Len(s) /\ ~ \E g : SaysUpTo(g, s, n)
    OBVIOUS
  <2>4. n # 0
    <3> DEFINE g == [x \in 0..0 |-> << >>]
    <3>1. << >> \in Seq(CatalogRune)
      BY EmptySeq
    <3>2. SaysUpTo(g, s, 0)
      BY <3>1 DEF SaysUpTo
    <3> QED
      BY <2>3, <3>2
  <2>5. n \in 1..Len(s) /\ n - 1 \in 0..Len(s) /\ n - 1 \notin S
    BY <1>0, <2>2, <2>3, <2>4
  <2>6. PICK g : SaysUpTo(g, s, n - 1)
    BY <2>5
  <2> DEFINE next == g[n - 1] \o Naming!Said(s[n])
             h == [x \in 0..n |-> IF x = n THEN next ELSE g[x]]
  <2>7. next \in Seq(CatalogRune)
    <3>1. g[n - 1] \in Seq(CatalogRune)
      BY <1>0, <2>5, <2>6 DEF SaysUpTo
    <3>2. Naming!Said(s[n]) \in Seq(CatalogRune)
      BY <1>0, <2>5, WhatARuneSays
    <3> QED
      BY <3>1, <3>2, ConcatProperties
  <2>8. SaysUpTo(h, s, n)
    <3> HIDE DEF next
    <3>1. h \in [0..n -> Seq(CatalogRune)]
      BY <1>0, <2>5, <2>6, <2>7 DEF SaysUpTo
    <3>2. h[0] = << >>
      BY <1>0, <2>5, <2>6 DEF SaysUpTo
    <3>3. ASSUME NEW m \in 1..n PROVE h[m] = h[m - 1] \o Naming!Said(s[m])
      <4>1. h[m - 1] = g[m - 1]
        BY <1>0, <2>5, <3>3
      <4>2. CASE m = n
        BY <1>0, <2>5, <4>1, <4>2 DEF next
      <4>3. CASE m # n
        <5>1. m \in 1..(n - 1) /\ h[m] = g[m]
          BY <1>0, <2>5, <3>3, <4>3
        <5> QED
          BY <2>6, <4>1, <5>1 DEF SaysUpTo
      <4> QED
        BY <4>2, <4>3
    <3> QED
      BY <3>1, <3>2, <3>3 DEF SaysUpTo
  <2> QED
    BY <2>3, <2>8
<1> QED
  BY <1>1

\* SaidBy is such a function: its recursive definition has a solution, and the
\* solution is unique.
LEMMA SaidByUnfold ==
  ASSUME NEW s \in Seq(Rune)
  PROVE  SaysUpTo(Naming!SaidBy(s), s, Len(s))
<1> DEFINE Step(f) ==
             [n \in 0..Len(s) |-> IF n = 0 THEN << >> ELSE f[n - 1] \o Naming!Said(s[n])]
           said == CHOOSE f : f = Step(f)
<1>1. Naming!SaidBy(s) = said
  BY Zenon DEF Naming!SaidBy
<1>2. Len(s) \in Nat
  BY LenProperties
<1>3. PICK g : SaysUpTo(g, s, Len(s))
  BY <1>2, SaysExists
<1>4. g = Step(g)
  <2>1. g = [n \in 0..Len(s) |-> g[n]]
    BY <1>3 DEF SaysUpTo
  <2>2. \A n \in 0..Len(s) : g[n] = IF n = 0 THEN << >> ELSE g[n - 1] \o Naming!Said(s[n])
    BY <1>2, <1>3 DEF SaysUpTo
  <2> QED
    BY <2>1, <2>2
<1>5. said = Step(said)
  <2> HIDE DEF Step
  <2> QED
    BY <1>4, Zenon
<1>6. \A n \in 0..Len(s) : said[n] = IF n = 0 THEN << >> ELSE said[n - 1] \o Naming!Said(s[n])
  <2> HIDE DEF said
  <2> QED
    BY <1>5
<1> HIDE DEF said
<1>7. DOMAIN said = 0..Len(s)
  BY <1>5
<1> DEFINE D == {n \in 0..Len(s) : said[n] # g[n]}
<1>8. D = {}
  <2> SUFFICES ASSUME D # {} PROVE FALSE
    OBVIOUS
  <2>1. D \in SUBSET Nat
    BY <1>2
  <2>2. PICK n \in D : \A m \in D : n <= m
    BY <2>1, Least
  <2>3. n \in 0..Len(s) /\ said[n] # g[n] /\ (n # 0 => n - 1 \in 0..Len(s) /\ n - 1 \notin D)
    BY <1>2, <2>2
  <2>4. n # 0 => said[n - 1] = g[n - 1]
    BY <2>3
  <2>5. CASE n = 0
    BY <1>3, <1>6, <2>3, <2>5 DEF SaysUpTo
  <2>6. CASE n # 0
    <3>1. n \in 1..Len(s)
      BY <1>2, <2>3, <2>6
    <3>2. said[n] = said[n - 1] \o Naming!Said(s[n])
      BY <1>6, <2>3, <2>6
    <3>3. g[n] = g[n - 1] \o Naming!Said(s[n])
      BY <1>3, <3>1 DEF SaysUpTo
    <3> QED
      BY <2>3, <2>4, <2>6, <3>2, <3>3
  <2> QED
    BY <2>5, <2>6
<1>9. said = g
  <2>1. DOMAIN g = 0..Len(s)
    BY <1>3 DEF SaysUpTo
  <2>2. g = [n \in 0..Len(s) |-> g[n]] 
    BY <1>3 DEF SaysUpTo
  <2>3. said = [n \in 0..Len(s) |-> said[n]]
    BY <1>5
  <2> QED
    BY <1>8, <2>2, <2>3
<1> QED
  BY <1>1, <1>3, <1>9

-----------------------------------------------------------------------------
(***************************************************************************)
(* What Trim and the cut make of it.                                       *)
(***************************************************************************)

\* Where in s a Trim of it has come from.
Window(t, s, drop, m) ==
  /\ m \in 0..Len(s) /\ m + Len(t) <= Len(s)
  /\ \A n \in 1..Len(t) : t[n] = s[m + n]
  /\ \A n \in 1..m : s[n] \in drop
  /\ \A n \in (m + Len(t) + 1)..Len(s) : s[n] \in drop

\* What a Trim leaves has one place in s, with nothing but runes to drop around
\* it, and neither begins nor ends with one of those.
LEMMA TrimWindow ==
  ASSUME NEW S, NEW s \in Seq(S), NEW drop
  PROVE  /\ Naming!Trim(s, drop) \in Seq(S)
         /\ \E m \in 0..Len(s) : Window(Naming!Trim(s, drop), s, drop, m)
         /\ Naming!Trim(s, drop) # << >> =>
              /\ Naming!Trim(s, drop)[1] \notin drop
              /\ Naming!Trim(s, drop)[Len(Naming!Trim(s, drop))] \notin drop
<1> DEFINE t == Naming!Trim(s, drop)
<1>0. Len(s) \in Nat /\ \A n \in 1..Len(s) : s[n] \in S
  BY LenProperties, ElementOfSeq
<1>1. CASE \A n \in 1..Len(s) : s[n] \in drop
  <2>1. t = << >>
    BY <1>1, TrimNone
  <2>2. t \in Seq(S) /\ Len(t) = 0
    BY <2>1, EmptySeq
  <2> HIDE DEF t
  <2>3. Window(t, s, drop, 0)
    BY <1>0, <1>1, <2>2 DEF Window
  <2> QED
    BY <1>0, <2>1, <2>2, <2>3 DEF t
<1>2. CASE \E n \in 1..Len(s) : s[n] \notin drop
  <2>1. PICK f, l \in 1..Len(s) : Frames(s, drop, f, l)
    BY <1>0, <1>2, TrimSome
  <2>2. t = SubSeq(s, f, l)
    BY <1>0, <2>1, TrimFramed
  <2>3. f <= l /\ s[f] \notin drop /\ s[l] \notin drop
    BY <2>1 DEF Frames
  <2>4. /\ t \in Seq(S) /\ Len(t) = l - f + 1
        /\ \A n \in 1..(l - f + 1) : t[n] = s[f + n - 1]
    <3>1. \A n \in f..l : s[n] \in S
      BY <1>0
    <3> HIDE DEF t
    <3> QED
      BY <2>2, <2>3, <3>1, SubSeqProperties
  <2> HIDE DEF t
  <2>5. Window(t, s, drop, f - 1)
    <3>1. \A n \in 1..Len(t) : t[n] = s[(f - 1) + n]
      <4>1. \A n \in 1..Len(t) : f + n - 1 = (f - 1) + n
        BY <2>4
      <4> QED
        BY <2>4, <4>1
    <3>2. (f - 1) + Len(t) = l
      BY <2>4
    <3> QED
      BY <1>0, <2>1, <3>1, <3>2 DEF Window, Frames
  <2>6. t[1] = s[f] /\ t[Len(t)] = s[l]
    <3>1. /\ f + 1 - 1 = f /\ f + (l - f + 1) - 1 = l
          /\ 1 \in 1..(l - f + 1) /\ l - f + 1 \in 1..(l - f + 1)
      BY <2>3
    <3> QED
      BY <2>4, <3>1
  <2> QED
    BY <1>0, <2>3, <2>4, <2>5, <2>6 DEF t
<1> QED
  BY <1>1, <1>2

\* A sequence that neither begins nor ends with a rune to drop is left alone.
LEMMA TrimNothing ==
  ASSUME NEW S, NEW s \in Seq(S), s # << >>, NEW drop,
         s[1] \notin drop, s[Len(s)] \notin drop
  PROVE  Naming!Trim(s, drop) = s
<1>1. Len(s) \in Nat \ {0} /\ \A n \in 1..Len(s) : s[n] \in S
  BY EmptySeq, ElementOfSeq
<1>2. Frames(s, drop, 1, Len(s))
  BY <1>1 DEF Frames
<1> DEFINE t == SubSeq(s, 1, Len(s))
<1>3. Naming!Trim(s, drop) = t
  BY <1>1, <1>2, TrimFramed
<1>4. t \in Seq(S) /\ Len(t) = Len(s) /\ \A n \in 1..Len(s) : t[n] = s[n]
  <2>1. /\ t \in Seq(S) /\ Len(t) = IF 1 <= Len(s) THEN Len(s) - 1 + 1 ELSE 0
        /\ \A n \in 1..(Len(s) - 1 + 1) : t[n] = s[1 + n - 1]
    BY <1>1, SubSeqProperties
  <2>2. \A n \in 1..Len(s) : 1 + n - 1 = n
    BY <1>1
  <2> HIDE DEF t
  <2> QED
    BY <1>1, <2>1, <2>2
<1> HIDE DEF t
<1> QED
  BY <1>3, <1>4, SeqEqual

\* Copies append in any order.
LEMMA CopiesAppend ==
  \A x, y, z \in Seq(CatalogRune) :
    y \o z \in Seq(CatalogRune) /\ (x \o y) \o z = x \o (y \o z)
<1> SUFFICES ASSUME NEW x \in Seq(CatalogRune), NEW y \in Seq(CatalogRune),
                    NEW z \in Seq(CatalogRune)
             PROVE  y \o z \in Seq(CatalogRune) /\ (x \o y) \o z = x \o (y \o z)
  OBVIOUS
<1>1. y \o z \in Seq(CatalogRune)
  BY ConcatProperties
<1>2. (x \o y) \o z = x \o (y \o z)
  BY ConcatAssociative
<1> QED
  BY <1>1, <1>2

\* A stretch of white space adds dashes to what a name says, and nothing else.
LEMMA WhiteAddsDashes ==
  ASSUME NEW s \in Seq(Rune), NEW lo \in 0..Len(s), NEW hi \in lo..Len(s),
         \A n \in (lo + 1)..hi : s[n] \in White
  PROVE  \E d \in Seq(Dash) : Naming!SaidBy(s)[hi] = Naming!SaidBy(s)[lo] \o d
<1> DEFINE said == Naming!SaidBy(s)
           Dashed(h) == \E d \in Seq(Dash) : said[h] = said[lo] \o d
           S == {h \in lo..hi : ~Dashed(h)}
<1>0. Len(s) \in Nat /\ lo \in Nat /\ hi \in Nat /\ lo <= hi /\ hi <= Len(s)
  BY LenProperties
<1>1. SaysUpTo(said, s, Len(s))
  BY SaidByUnfold
<1> HIDE DEF said
<1>2. \A h \in 0..Len(s) : said[h] \in Seq(CatalogRune)
  BY <1>0, <1>1 DEF SaysUpTo
<1>3. Dash \subseteq CatalogRune
  BY DEF Dash, CatalogRune, Naming!CatalogRune, Naming!Plain
<1>4. S = {}
  <2> SUFFICES ASSUME S # {} PROVE FALSE
    OBVIOUS
  <2>1. S \in SUBSET Nat
    BY <1>0
  <2>2. PICK h \in S : \A x \in S : h <= x
    BY <2>1, Least
  <2>3. h \in lo..hi /\ ~Dashed(h)
    BY <2>2
  <2>4. Dashed(lo)
    <3>1. << >> \in Seq(Dash) /\ said[lo] = said[lo] \o << >>
      BY <1>0, <1>2, EmptySeq, ConcatEmptySeq
    <3> QED
      BY <3>1
  <2>5. h \in (lo + 1)..hi /\ h - 1 \in lo..hi /\ h - 1 \notin S
    <3>1. h # lo
      BY <2>3, <2>4
    <3> HIDE DEF Dashed
    <3> QED
      BY <1>0, <2>2, <2>3, <3>1
  <2>6. PICK d \in Seq(Dash) : said[h - 1] = said[lo] \o d
    BY <2>5
  <2>7. said[h] = said[h - 1] \o Naming!Said(s[h])
    <3>1. h \in 1..Len(s)
      BY <1>0, <2>5
    <3> QED
      BY <1>1, <3>1, Zenon DEF SaysUpTo
  <2>8. Naming!Said(s[h]) \in Seq(Dash)
    <3>1. s[h] \in White /\ s[h] \in Rune
      BY <1>0, <2>5, ElementOfSeq
    <3> QED
      BY <3>1, WhatARuneSays DEF White
  <2>9. said[h] = said[lo] \o (d \o Naming!Said(s[h]))
    <3> DEFINE e == Naming!Said(s[h])
    <3>1. d \in Seq(CatalogRune) /\ e \in Seq(CatalogRune) /\ said[lo] \in Seq(CatalogRune)
      BY <1>0, <1>2, <1>3, <2>8, SeqMonotonic
    <3>2. said[h] = (said[lo] \o d) \o e
      BY <2>6, <2>7
    <3> HIDE DEF e
    <3>3. (said[lo] \o d) \o e = said[lo] \o (d \o e)
      BY <3>1, CopiesAppend, Zenon
    <3> QED
      BY <3>2, <3>3, Zenon DEF e
  <2>10. d \o Naming!Said(s[h]) \in Seq(Dash)
    BY <2>8, ConcatProperties
  <2> QED
    BY <2>3, <2>9, <2>10
<1>5. hi \in lo..hi
  BY <1>0
<1>6. Dashed(hi)
  BY <1>4, <1>5
<1> QED
  BY <1>6 DEF said

\* x begins and ends like a name of the catalog.
Ends(x) ==
  /\ x \in Seq(CatalogRune) /\ x # << >>
  /\ x[1] \in Naming!Plain /\ x[Len(x)] \in Naming!Plain

\* A rune of the catalog is a letter or a digit, or else a dash.
LEMMA PlainIsNoDash ==
  ASSUME NEW c \in CatalogRune
  PROVE  c \in Naming!Plain <=> c \notin Dash
BY DEF Dash, CatalogRune, Naming!CatalogRune, Naming!Plain

\* The cut: its result has the shape of a name and is the beginning of x, of
\* which nothing but dashes is lost before the permitted length.
LEMMA CappedIsBeginning ==
  ASSUME NEW x, Ends(x), NEW c, c = Naming!Capped(x)
  PROVE  /\ Naming!CatalogName(c)
         /\ Len(c) <= Len(x)
         /\ c = SubSeq(x, 1, Len(c))
         /\ \A n \in (Len(c) + 1)..Len(x) : n <= Cap => x[n] = "-"
         /\ Len(x) <= Cap => c = x
<1>0. /\ x \in Seq(CatalogRune) /\ Len(x) \in Nat /\ Len(x) > 0 /\ Cap \in Nat /\ Cap > 0
      /\ \A n \in 1..Len(x) : x[n] \in CatalogRune
  BY EmptySeq, ElementOfSeq, PreflightAssumption DEF Ends, Naming!LengthAssumption
<1>1. ASSUME c \in Seq(CatalogRune), Len(c) \in 1..Cap, Len(c) <= Len(x),
             \A n \in 1..Len(c) : c[n] = x[n],
             c[Len(c)] \notin Dash
      PROVE  Naming!CatalogName(c) /\ c = SubSeq(x, 1, Len(c))
  <2>1. Len(c) \in 1..Len(c) /\ 1 \in 1..Len(c) /\ Len(c) \in Nat
    BY <1>0, <1>1
  <2>2. c[1] \in Naming!Plain
    BY <1>1, <2>1 DEF Ends
  <2>3. c[Len(c)] \in Naming!Plain
    BY <1>1, <2>1, ElementOfSeq, PlainIsNoDash
  <2> DEFINE p == SubSeq(x, 1, Len(c))
  <2>4. p \in Seq(CatalogRune) /\ Len(p) = Len(c) /\ \A n \in 1..Len(c) : p[n] = c[n]
    <3>1. \A n \in 1..Len(c) : x[n] \in CatalogRune
      BY <1>0, <1>1
    <3>2. /\ p \in Seq(CatalogRune) /\ Len(p) = IF 1 <= Len(c) THEN Len(c) - 1 + 1 ELSE 0
          /\ \A n \in 1..(Len(c) - 1 + 1) : p[n] = x[1 + n - 1]
      BY <2>1, <3>1, SubSeqProperties
    <3>3. \A n \in 1..Len(c) : 1 + n - 1 = n
      BY <2>1
    <3> HIDE DEF p
    <3> QED
      BY <1>1, <2>1, <3>2, <3>3
  <2> HIDE DEF p
  <2>5. c = p
    BY <1>1, <2>4, SeqEqual
  <2> QED
    BY <1>1, <2>2, <2>3, <2>5 DEF p, CatalogRune, Naming!CatalogName
<1>2. CASE Len(x) <= Cap
  <2>1. c = x
    BY <1>0, <1>2 DEF Naming!Capped
  <2>2. Len(c) \in 1..Cap /\ c[Len(c)] \notin Dash
    <3>1. Len(x) \in 1..Len(x)
      BY <1>0
    <3> QED
      BY <1>0, <1>2, <2>1, <3>1, PlainIsNoDash DEF Ends
  <2>3. Naming!CatalogName(c) /\ c = SubSeq(x, 1, Len(c))
    BY <1>0, <1>1, <2>1, <2>2
  <2> QED
    BY <1>0, <2>1, <2>3
<1>3. CASE Len(x) > Cap
  <2> DEFINE y == SubSeq(x, 1, Cap)
  <2>1. c = Naming!Trim(y, Dash)
    BY <1>0, <1>3 DEF Naming!Capped, Dash
  <2>2. y \in Seq(CatalogRune) /\ Len(y) = Cap /\ \A n \in 1..Cap : y[n] = x[n]
    <3>1. \A n \in 1..Cap : x[n] \in CatalogRune
      BY <1>0, <1>3
    <3>2. /\ y \in Seq(CatalogRune) /\ Len(y) = IF 1 <= Cap THEN Cap - 1 + 1 ELSE 0
          /\ \A n \in 1..(Cap - 1 + 1) : y[n] = x[1 + n - 1]
      BY <1>0, <3>1, SubSeqProperties
    <3>3. \A n \in 1..Cap : 1 + n - 1 = n
      BY <1>0
    <3> HIDE DEF y
    <3> QED
      BY <1>0, <3>2, <3>3
  <2> HIDE DEF y
  <2>3. /\ c \in Seq(CatalogRune)
        /\ \E m \in 0..Len(y) : Window(c, y, Dash, m)
        /\ c # << >> => c[Len(c)] \notin Dash
    BY <2>1, <2>2, TrimWindow
  <2>4. PICK m \in 0..Cap : Window(c, y, Dash, m)
    BY <2>2, <2>3
  <2>5. y[1] \notin Dash
    <3>1. 1 \in 1..Cap /\ 1 \in 1..Len(x)
      BY <1>0
    <3> QED
      BY <1>0, <2>2, <3>1, PlainIsNoDash DEF Ends
  <2>6. m = 0
    <3>1. ASSUME m # 0 PROVE FALSE
      <4>1. 1 \in 1..m
        BY <3>1, <2>4
      <4> QED
        BY <2>4, <2>5, <4>1 DEF Window
    <3> QED
      BY <3>1
  <2>7. /\ Len(c) \in Nat /\ Len(c) <= Cap
        /\ \A n \in 1..Len(c) : c[n] = y[n]
        /\ \A n \in (Len(c) + 1)..Cap : y[n] \in Dash
    <3>1. Len(c) \in Nat
      BY <2>3, LenProperties
    <3>2. 0 + Len(c) = Len(c) /\ \A n \in 1..Len(c) : 0 + n = n
      BY <3>1
    <3> QED
      BY <2>2, <2>4, <2>6, <3>1, <3>2 DEF Window
  <2>8. Len(c) # 0 /\ c # << >>
    <3>1. ASSUME Len(c) = 0 PROVE FALSE
      <4>1. 1 \in (Len(c) + 1)..Cap
        BY <1>0, <3>1
      <4> QED
        BY <2>5, <2>7, <4>1
    <3> QED
      BY <3>1, EmptySeq
  <2>9. \A n \in 1..Len(c) : c[n] = x[n]
    BY <1>0, <2>2, <2>7
  <2>10. Naming!CatalogName(c) /\ c = SubSeq(x, 1, Len(c))
    BY <1>0, <1>1, <1>3, <2>3, <2>7, <2>8, <2>9
  <2>11. \A n \in (Len(c) + 1)..Len(x) : n <= Cap => x[n] = "-"
    BY <1>0, <2>2, <2>7 DEF Dash
  <2> QED
    BY <1>0, <1>3, <2>7, <2>10, <2>11
<1> QED
  BY <1>0, <1>2, <1>3

-----------------------------------------------------------------------------
(***************************************************************************)
(* The invariant of the copy.                                              *)
(***************************************************************************)

\* The copy is m runes into the name as given, and says what they say; but for
\* case, and for white space at either end, it is the name as given.
CopyAt(m) ==
  /\ m + Len(name) <= Len(given)
  /\ \A n \in 1..Len(name) : name[n] = Lower(given[m + n])
  /\ \A n \in 1..m : given[n] \in White
  /\ \A n \in (m + Len(name) + 1)..Len(given) : given[n] \in White
  /\ Naming!SaidBy(given)[m + k] = Naming!SaidBy(given)[m] \o b

CopiedSoFar ==
  /\ Naming!Types
  /\ \E m \in 0..Len(given) : CopyAt(m)
  /\ Naming!CatalogName(given) => name = given /\ b = SubSeq(given, 1, k)
  /\ out # << >> => k = Len(name)
                    /\ out = Naming!Capped(Naming!OrFallback(Naming!Trim(b, Dash)))

\* Folding to lower case leads from runes to runes,
LEMMA RuneTyped ==
  ASSUME NEW c \in Rune
  PROVE  Lower(c) \in Rune
BY DEF Lower, Rune, Naming!Rune, Naming!Plain

\* and leaves those of the catalog alone.
LEMMA CatalogRuneTyped ==
  ASSUME NEW c \in CatalogRune
  PROVE  c \in Rune /\ Lower(c) = c /\ c \notin White
BY DEF Lower, CatalogRune, Rune, White, Naming!CatalogRune, Naming!Rune, Naming!Plain

\* strings.ToLower, rune by rune.
LEMMA LowerSeq ==
  ASSUME NEW t \in Seq(Rune)
  PROVE  /\ Naming!ToLower(t) \in Seq(Rune) /\ Len(Naming!ToLower(t)) = Len(t)
         /\ \A n \in 1..Len(t) : Naming!ToLower(t)[n] = Lower(t[n])
<1>1. Len(t) \in Nat /\ \A n \in 1..Len(t) : t[n] \in Rune
  BY LenProperties, ElementOfSeq
<1>2. Naming!ToLower(t) = [n \in 1..Len(t) |-> Lower(t[n])]
  BY DEF Naming!ToLower, Lower
<1>3. \A n \in 1..Len(t) : Lower(t[n]) \in Rune
  BY <1>1, RuneTyped
<1>4. [n \in 1..Len(t) |-> Lower(t[n])] \in Seq(Rune)
  BY <1>1, <1>3
<1>5. Len([n \in 1..Len(t) |-> Lower(t[n])]) = Len(t)
  BY <1>1
<1> QED
  BY <1>2, <1>4, <1>5

\* A name of the catalog as it is: nothing to trim, nothing to fold.
LEMMA CatalogNameUntouched ==
  ASSUME NEW s, Naming!CatalogName(s)
  PROVE  /\ s \in Seq(CatalogRune) /\ s \in Seq(Rune) /\ Ends(s) /\ Len(s) <= Cap
         /\ Naming!ToLower(Naming!Trim(s, White)) = s
         /\ Naming!Trim(s, Dash) = s
<1>1. s \in Seq(CatalogRune) /\ Len(s) \in Nat \ {0} /\ s # << >> /\ Len(s) <= Cap
  BY EmptySeq, LenProperties, PreflightAssumption
  DEF Naming!CatalogName, CatalogRune, Naming!LengthAssumption
<1>2. 1 \in 1..Len(s) /\ Len(s) \in 1..Len(s)
  BY <1>1
<1>3. Ends(s)
  BY <1>1 DEF Naming!CatalogName, Ends
<1>4. \A n \in 1..Len(s) : s[n] \in CatalogRune
  BY <1>1, ElementOfSeq
<1>5. s[1] \notin White /\ s[Len(s)] \notin White /\ s[1] \notin Dash /\ s[Len(s)] \notin Dash
  BY <1>2, <1>3, <1>4, CatalogRuneTyped, PlainIsNoDash DEF Ends
<1>6. Naming!Trim(s, White) = s /\ Naming!Trim(s, Dash) = s
  BY <1>1, <1>5, TrimNothing
<1>7. s \in Seq(Rune)
  <2>1. CatalogRune \subseteq Rune
    BY CatalogRuneTyped
  <2> QED
    BY <1>1, <2>1, SeqMonotonic
<1>8. Naming!ToLower(s) = s
  <2> DEFINE l == Naming!ToLower(s)
  <2>1. l \in Seq(Rune) /\ Len(l) = Len(s) /\ \A n \in 1..Len(s) : l[n] = Lower(s[n])
    BY <1>7, LowerSeq
  <2>2. \A n \in 1..Len(s) : l[n] = s[n]
    BY <1>4, <2>1, CatalogRuneTyped
  <2> HIDE DEF l
  <2>3. l = s
    BY <1>7, <2>1, <2>2, SeqEqual
  <2> QED
    BY <2>3 DEF l
<1> QED
  BY <1>1, <1>3, <1>6, <1>7, <1>8

\* Before the first rune is copied.
LEMMA InitCopied == Init => CopiedSoFar
<1> SUFFICES ASSUME Init PROVE CopiedSoFar
  OBVIOUS
<1> DEFINE t == Naming!Trim(given, White)
<1>1. /\ given \in Seq(Rune) /\ name = Naming!ToLower(t)
      /\ k = 0 /\ b = << >> /\ out = << >>
  BY DEF Init, Naming!Init, Rune, White
<1>2. t \in Seq(Rune) /\ \E m \in 0..Len(given) : Window(t, given, White, m)
  BY <1>1, TrimWindow
<1> HIDE DEF t
<1>3. /\ name \in Seq(Rune) /\ Len(name) = Len(t)
      /\ \A n \in 1..Len(t) : name[n] = Lower(t[n])
  BY <1>1, <1>2, LowerSeq
<1>4. Len(given) \in Nat /\ Len(name) \in Nat
  BY <1>1, <1>3, LenProperties
<1>5. PICK m \in 0..Len(given) : Window(t, given, White, m)
  BY <1>2
<1>6. CopyAt(m)
  <2>1. Naming!SaidBy(given)[m + k] = Naming!SaidBy(given)[m] \o b
    <3> DEFINE said == Naming!SaidBy(given)
    <3>1. said \in [0..Len(given) -> Seq(CatalogRune)]
      BY <1>1, SaidByUnfold DEF SaysUpTo
    <3> HIDE DEF said
    <3>2. said[m] \in Seq(CatalogRune)
      BY <3>1
    <3>3. said[m] \o << >> = said[m]
      BY <3>2, ConcatEmptySeq
    <3> QED
      BY <1>1, <3>3 DEF said
  <2> QED
    BY <1>3, <1>4, <1>5, <2>1 DEF CopyAt, Window
<1>7. ASSUME Naming!CatalogName(given) PROVE name = given /\ b = SubSeq(given, 1, k)
  <2>1. name = given
    BY <1>1, <1>7, CatalogNameUntouched DEF t
  <2>2. SubSeq(given, 1, 0) = << >>
    BY SubSeqEmpty
  <2> QED
    BY <1>1, <2>1, <2>2
<1>8. Naming!Types
  <2>1. << >> \in Seq(CatalogRune)
    BY EmptySeq
  <2>2. k \in 0..Len(name)
    BY <1>1, <1>4
  <2> QED
    BY <1>1, <1>3, <2>1, <2>2 DEF Naming!Types, Rune, CatalogRune
<1> QED
  BY <1>1, <1>5, <1>6, <1>7, <1>8 DEF CopiedSoFar

\* One more rune is copied.
LEMMA CopyKeepsCopied ==
  ASSUME CopiedSoFar, Naming!Copy
  PROVE  CopiedSoFar'
<1>1. /\ k < Len(name) /\ k' = k + 1 /\ b' = b \o Naming!Copied(name[k + 1])
      /\ UNCHANGED <<name, out, given>>
  BY DEF Naming!Copy
<1>2. /\ given \in Seq(Rune) /\ name \in Seq(Rune)
      /\ b \in Seq(CatalogRune) /\ out \in Seq(CatalogRune)
      /\ k \in Nat /\ Len(name) \in Nat /\ Len(given) \in Nat
      /\ k' \in 0..Len(name)
  BY <1>1, LenProperties DEF CopiedSoFar, Naming!Types, Rune, CatalogRune
<1>3. k + 1 \in 1..Len(name)
  BY <1>1, <1>2
<1>4. PICK m \in 0..Len(given) : CopyAt(m)
  BY DEF CopiedSoFar
<1> DEFINE said == Naming!SaidBy(given)
           s == Naming!Said(given[m + (k + 1)])
<1>5. /\ m + (k + 1) \in 1..Len(given)
      /\ given[m + (k + 1)] \in Rune
      /\ name[k + 1] = Lower(given[m + (k + 1)])
  <2>1. m + (k + 1) \in 1..Len(given)
    BY <1>2, <1>3, <1>4 DEF CopyAt
  <2> QED
    BY <1>2, <1>3, <1>4, <2>1, ElementOfSeq DEF CopyAt
<1>6. s \in Seq(CatalogRune) /\ b' = b \o s
  BY <1>1, <1>5, WhatARuneSays
<1>7. SaysUpTo(said, given, Len(given))
  BY <1>2, SaidByUnfold
<1> HIDE DEF said
<1>8. said[m + (k + 1)] = said[m + k] \o s
  <2>1. (m + (k + 1)) - 1 = m + k
    BY <1>2
  <2>2. \A n \in 1..Len(given) : said[n] = said[n - 1] \o Naming!Said(given[n])
    BY <1>7, Zenon DEF SaysUpTo
  <2> DEFINE n == m + (k + 1)
  <2>3. n \in 1..Len(given) /\ n - 1 = m + k
    BY <1>5, <2>1
  <2> HIDE DEF n
  <2>4. said[n] = said[m + k] \o Naming!Said(given[n])
    BY <2>2, <2>3
  <2> QED
    BY <2>4 DEF n
<1>9. said[m] \in Seq(CatalogRune) /\ said[m + k] = said[m] \o b
  BY <1>4, <1>7 DEF SaysUpTo, CopyAt, said
<1>10. b' \in Seq(CatalogRune) /\ said[m + k'] = said[m] \o b'
  <2> HIDE DEF s
  <2>1. said[m + k'] = said[m + (k + 1)]
    BY <1>1
  <2>2. b \o s \in Seq(CatalogRune) /\ (said[m] \o b) \o s = said[m] \o (b \o s)
    BY <1>2, <1>6, <1>9, CopiesAppend, Zenon
  <2> QED
    BY <1>6, <1>8, <1>9, <2>1, <2>2, Zenon
<1>11. \E n \in 0..Len(given') : CopyAt(n)'
  <2>1. CopyAt(m)'
    BY <1>1, <1>4, <1>10 DEF CopyAt, said
  <2> QED
    BY <1>1, <2>1
<1>12. ASSUME Naming!CatalogName(given) PROVE b' = SubSeq(given, 1, k + 1)
  <2>1. name = given /\ b = SubSeq(given, 1, k) /\ given \in Seq(CatalogRune)
    BY <1>12, CatalogNameUntouched DEF CopiedSoFar
  <2>2. given[k + 1] \in CatalogRune
    BY <1>3, <2>1, ElementOfSeq
  <2>3. Naming!Copied(given[k + 1]) = <<given[k + 1]>>
    BY <2>2, CatalogRuneTyped, WhatARuneSays
  <2>4. SubSeq(given, 1, k + 1) = SubSeq(given, 1, k) \o <<given[k + 1]>>
    BY <1>2, <1>3, <2>1
  <2> QED
    BY <1>1, <2>1, <2>3, <2>4
<1>13. out = << >>
  BY <1>1, <1>2 DEF CopiedSoFar
<1>14. Naming!CatalogName(given)' <=> Naming!CatalogName(given)
  BY <1>1 DEF Naming!CatalogName
<1>15. Naming!Types'
  BY <1>1, <1>2, <1>10 DEF Naming!Types, CatalogRune, Rune
<1>16. (Naming!CatalogName(given) => name = given /\ b = SubSeq(given, 1, k))'
  BY <1>1, <1>12, <1>14 DEF CopiedSoFar
<1>17. out' = << >>
  BY <1>1, <1>13
<1> QED
  BY <1>11, <1>15, <1>16, <1>17 DEF CopiedSoFar

\* What is left of the copy, or the fallback, begins and ends like a name.
LEMMA RestHasEnds ==
  ASSUME NEW s \in Seq(CatalogRune)
  PROVE  Ends(Naming!OrFallback(Naming!Trim(s, Dash)))
<1> DEFINE t == Naming!Trim(s, Dash)
<1>1. CASE t = << >>
  <2>1. Ends(Fallback)
    BY PreflightAssumption, CatalogNameUntouched DEF Naming!LengthAssumption
  <2> QED
    BY <1>1, <2>1 DEF Naming!OrFallback
<1>2. CASE t # << >>
  <2>1. t \in Seq(CatalogRune) /\ t[1] \notin Dash /\ t[Len(t)] \notin Dash
    BY <1>2, TrimWindow
  <2> HIDE DEF t
  <2>2. 1 \in 1..Len(t) /\ Len(t) \in 1..Len(t)
    <3>1. Len(t) \in Nat \ {0}
      BY <1>2, <2>1, EmptySeq
    <3> QED
      BY <3>1
  <2>3. t[1] \in CatalogRune /\ t[Len(t)] \in CatalogRune
    BY <2>1, <2>2, ElementOfSeq
  <2>4. Ends(t)
    BY <1>2, <2>1, <2>3, PlainIsNoDash DEF Ends
  <2> QED
    BY <1>2, <2>4 DEF Naming!OrFallback, t
<1> QED
  BY <1>1, <1>2

\* The result is made of the whole copy.
LEMMA FinishKeepsCopied ==
  ASSUME CopiedSoFar, Naming!Finish
  PROVE  CopiedSoFar'
<1>1. /\ k = Len(name) /\ UNCHANGED <<name, k, b, given>>
      /\ out' = Naming!Capped(Naming!OrFallback(Naming!Trim(b, Dash)))
  BY DEF Naming!Finish, Dash
<1>2. b \in Seq(CatalogRune)
  BY DEF CopiedSoFar, Naming!Types, CatalogRune
<1>3. out' \in Seq(CatalogRune)
  BY <1>1, <1>2, RestHasEnds, CappedIsBeginning DEF Naming!CatalogName, CatalogRune
<1>4. Naming!Types'
  BY <1>1, <1>3 DEF CopiedSoFar, Naming!Types, CatalogRune
<1>5. \E m \in 0..Len(given') : CopyAt(m)'
  BY <1>1 DEF CopiedSoFar, CopyAt
<1>6. (Naming!CatalogName(given) => name = given /\ b = SubSeq(given, 1, k))'
  BY <1>1 DEF CopiedSoFar, Naming!CatalogName
<1>7. (out # << >> => k = Len(name)
                      /\ out = Naming!Capped(Naming!OrFallback(Naming!Trim(b, Dash))))'
  BY <1>1
<1> QED
  BY <1>4, <1>5, <1>6, <1>7 DEF CopiedSoFar

\* No other step touches the name.
LEMMA NextCopied == CopiedSoFar /\ [Next]_vars => CopiedSoFar'
<1> SUFFICES ASSUME CopiedSoFar, [Next]_vars PROVE CopiedSoFar'
  OBVIOUS
<1>1. CASE NameImage
  BY <1>1, CopyKeepsCopied, FinishKeepsCopied DEF NameImage, Naming!Next
<1>2. CASE UNCHANGED nameVars
  BY <1>2 DEF nameVars, CopiedSoFar, CopyAt, Naming!Types, Naming!CatalogName
<1> QED
  BY <1>1, <1>2 DEF Next, Prepare, ResolveRegion, PollVM, vars

\* What has been copied says what the name as given says, but for dashes at
\* either end; Trim takes those off, and the cut keeps the beginning.
LEMMA CopiedIsRight == CopiedSoFar => ImageNameIsRight
<1> SUFFICES ASSUME CopiedSoFar, out # << >> PROVE ImageNameIsRight
  BY DEF ImageNameIsRight, Naming!ResultInShape, Naming!GoodNameKept,
         Naming!ResultIsBeginning
<1> DEFINE t == Naming!Trim(b, Dash)
           x == Naming!OrFallback(t)
<1>1. b \in Seq(CatalogRune) /\ given \in Seq(Rune) /\ k = Len(name) /\ out = Naming!Capped(x)
  BY DEF CopiedSoFar, Naming!Types, CatalogRune, Rune
<1>2. Ends(x)
  BY <1>1, RestHasEnds
<1>3. Naming!Significant(given) = t
  <2> DEFINE said == Naming!SaidBy(given)
  <2>1. PICK m \in 0..Len(given) : CopyAt(m)
    BY DEF CopiedSoFar
  <2>2. /\ Len(given) \in Nat /\ Len(name) \in Nat /\ m + Len(name) <= Len(given)
        /\ \A n \in 1..m : given[n] \in White
        /\ \A n \in (m + Len(name) + 1)..Len(given) : given[n] \in White
    BY <1>1, <2>1, LenProperties DEF CopyAt, CopiedSoFar, Naming!Types
  <2>3. SaysUpTo(said, given, Len(given))
    BY <1>1, SaidByUnfold
  <2>4. \E p \in Seq(Dash) : said[m] = said[0] \o p
    <3>1. 0 \in 0..Len(given) /\ m \in 0..Len(given)
      BY <2>2
    <3>2. \A n \in (0 + 1)..m : given[n] \in White
      BY <2>2
    <3> QED
      BY <1>1, <3>1, <3>2, WhiteAddsDashes
  <2>5. \E q \in Seq(Dash) : said[Len(given)] = said[m + Len(name)] \o q
    <3>1. m + Len(name) \in 0..Len(given) /\ Len(given) \in (m + Len(name))..Len(given)
      BY <2>1, <2>2
    <3> QED
      BY <1>1, <2>2, <3>1, WhiteAddsDashes
  <2>6. said[m + Len(name)] = said[m] \o b
    BY <1>1, <2>1 DEF CopyAt
  <2>7. Naming!Significant(given) = Naming!Trim(said[Len(given)], Dash)
    BY DEF Naming!Significant, Dash
  <2> HIDE DEF said
  <2>8. PICK p \in Seq(Dash) : said[m] = p
    <3>1. PICK p \in Seq(Dash) : said[m] = said[0] \o p
      BY <2>4
    <3>2. said[0] = << >>
      BY <2>3 DEF SaysUpTo
    <3> QED
      BY <3>1, <3>2, ConcatEmptySeq
  <2>9. PICK q \in Seq(Dash) : said[Len(given)] = (p \o b) \o q
    BY <2>5, <2>6, <2>8
  <2> QED
    BY <1>1, <2>7, <2>9, TrimBetweenDashes
<1> HIDE DEF t
<1>4. Naming!ResultInShape
  BY <1>1, <1>2, CappedIsBeginning DEF Naming!ResultInShape
<1>5. Naming!GoodNameKept
  <2> SUFFICES ASSUME Naming!CatalogName(given) PROVE out = given
    BY DEF Naming!GoodNameKept
  <2>1. /\ given \in Seq(CatalogRune) /\ given # << >> /\ Len(given) <= Cap
        /\ Naming!Trim(given, Dash) = given
    BY CatalogNameUntouched DEF Ends
  <2>2. b = given
    <3>1. b = SubSeq(given, 1, Len(given))
      BY <1>1 DEF CopiedSoFar
    <3> QED
      BY <2>1, <3>1
  <2>3. t = given /\ x = given
    BY <2>1, <2>2 DEF t, Naming!OrFallback
  <2> QED
    BY <1>1, <1>2, <2>1, <2>3, CappedIsBeginning
<1>6. Naming!ResultIsBeginning
  <2> SUFFICES ASSUME t # << >>
               PROVE  /\ Len(out) <= Len(t) /\ out = SubSeq(t, 1, Len(out))
                      /\ \A n \in (Len(out) + 1)..Len(t) : n <= Cap => t[n] = "-"
    BY <1>3 DEF Naming!ResultIsBeginning
  <2>1. x = t
    BY DEF Naming!OrFallback
  <2> HIDE DEF x
  <2> QED
    BY <1>1, <1>2, <2>1, CappedIsBeginning
<1> QED
  BY <1>4, <1>5, <1>6 DEF ImageNameIsRight

(* Whatever a template calls the build, its image gets a name the catalog  *)
(* takes, the name itself if it was one, and otherwise the beginning of    *)
(* what the name says (ImageNameIsRight): for every name and every         *)
(* permitted length.                                                       *)
THEOREM ImageNames == Spec => []ImageNameIsRight
BY InitCopied, NextCopied, CopiedIsRight, PTL DEF Spec

-----------------------------------------------------------------------------
(***************************************************************************)
(* The types of the variables.                                             *)
(***************************************************************************)

\* prepare() leaves every setting of a kind a template has, and those that
\* have a default no longer unset.
LEMMA ResolvedTyped ==
  ASSUME NEW t \in Prep!Written, NEW e \in Prep!Environment, NEW c,
         c = Prep!Resolved(t, e)
  PROVE  /\ c \in Prep!Template
         /\ c.sshUsername # "unset" /\ c.commType # "unset" /\ c.useElasticIP # "unset"
         /\ c.pollInterval # "unset" /\ c.stateTimeout # "unset"
<1>0. t \in Prep!Template /\ t.sshUsername \in {"unset", "explicit"}
  BY DEF Prep!Written
<1>1. Prep!CommType(t) \in {"ssh", "none", "winrm"}
  BY <1>0 DEF Prep!CommType, Prep!Template
<1>2. Prep!SSHUsername(t) \in {"explicit", "admin_username", "admin"}
  BY <1>0 DEF Prep!SSHUsername
<1>3. /\ Prep!OrDefault(t.pollInterval) \in Prep!Duration \ {"unset"}
      /\ Prep!OrDefault(t.stateTimeout) \in Prep!Duration \ {"unset"}
  <2>1. t.pollInterval \in Prep!Duration /\ t.stateTimeout \in Prep!Duration
    BY <1>0 DEF Prep!Template
  <2> QED
    BY <2>1 DEF Prep!OrDefault, Prep!Duration
<1>4. /\ t.apiEndpoint \/ e.apiEndpoint \in BOOLEAN
      /\ t.apiToken \/ e.apiToken \in BOOLEAN
  BY <1>0 DEF Prep!Template, Prep!Environment
<1>5. (IF Prep!ElasticIP(t) THEN "true" ELSE "false") \in Prep!Choice \ {"unset"}
  BY DEF Prep!Choice
<1>6. c \in Prep!Template
  <2> DEFINE ip   == IF Prep!ElasticIP(t) THEN "true" ELSE "false"
             comm == Prep!CommType(t)
             user == Prep!SSHUsername(t)
             poll == Prep!OrDefault(t.pollInterval)
             time == Prep!OrDefault(t.stateTimeout)
             ep   == t.apiEndpoint \/ e.apiEndpoint
             tok  == t.apiToken \/ e.apiToken
  <2>1. c = [t EXCEPT !.apiEndpoint = ep, !.apiToken = tok, !.commType = comm,
                      !.useElasticIP = ip, !.sshUsername = user,
                      !.pollInterval = poll, !.stateTimeout = time]
    BY <1>0 DEF Prep!Resolved, Prep!Template
  <2>2. /\ ep \in BOOLEAN /\ tok \in BOOLEAN /\ comm \in {"unset", "ssh", "none", "winrm"}
        /\ ip \in Prep!Choice /\ user \in {"unset", "explicit", "admin_username", "admin"}
        /\ poll \in Prep!Duration /\ time \in Prep!Duration
    BY <1>1, <1>2, <1>3, <1>4, <1>5
  <2> HIDE DEF ip, comm, user, poll, time, ep, tok
  <2> DEFINE c1 == [t EXCEPT !.apiEndpoint = ep]
             c2 == [c1 EXCEPT !.apiToken = tok]
             c3 == [c2 EXCEPT !.commType = comm]
             c4 == [c3 EXCEPT !.useElasticIP = ip]
             c5 == [c4 EXCEPT !.sshUsername = user]
             c6 == [c5 EXCEPT !.pollInterval = poll]
             c7 == [c6 EXCEPT !.stateTimeout = time]
  <2>3. c = c7
    BY <2>1
  <2>4. c1 \in Prep!Template
    BY <1>0, <2>2 DEF Prep!Template
  <2> HIDE DEF c1
  <2>5. c2 \in Prep!Template
    BY <2>2, <2>4 DEF Prep!Template
  <2> HIDE DEF c2
  <2>6. c3 \in Prep!Template
    BY <2>2, <2>5 DEF Prep!Template
  <2> HIDE DEF c3
  <2>7. c4 \in Prep!Template
    BY <2>2, <2>6 DEF Prep!Template
  <2> HIDE DEF c4
  <2>8. c5 \in Prep!Template
    BY <2>2, <2>7 DEF Prep!Template
  <2> HIDE DEF c5
  <2>9. c6 \in Prep!Template
    BY <2>2, <2>8 DEF Prep!Template
  <2> HIDE DEF c6
  <2>10. c7 \in Prep!Template
    BY <2>2, <2>9 DEF Prep!Template
  <2> QED
    BY <2>3, <2>10
<1> QED
  BY <1>0, <1>1, <1>2, <1>3, <1>5, <1>6, ResolvedFields

\* The listing is scanned from its beginning, and holds pairs.
LEMMA LookupTyped ==
  ASSUME Lookup!Types, Lookup!Next
  PROVE  Lookup!Types'
<1>0. /\ Lookup!Empty \in Slug /\ lower \in [Slug -> Slug]
      /\ i \in Nat /\ Len(images) \in Nat
  <2>1. Lookup!Empty \in Slug /\ lower \in [Slug -> Slug]
    BY PreflightAssumption, Zenon DEF Lookup!SlugAssumption
  <2>2. i \in Nat /\ Len(images) \in Nat
    <3>1. images \in Seq(Lookup!Pair) /\ i \in 0..Len(images)
      BY Zenon DEF Lookup!Types
    <3>2. Len(images) \in Nat
      BY <3>1, LenProperties
    <3> QED
      BY <3>1, <3>2
  <2> QED
    BY <2>1, <2>2
<1>1. ASSUME i < Len(images)
      PROVE  /\ i + 1 \in 0..Len(images)
             /\ images[i + 1].id \in Id /\ lower[images[i + 1].slug] \in Slug
  <2>1. i + 1 \in 1..Len(images)
    BY <1>0, <1>1
  <2>2. images[i + 1] \in Lookup!Pair
    BY <2>1, ElementOfSeq DEF Lookup!Types
  <2> QED
    BY <1>0, <2>1, <2>2 DEF Lookup!Pair
<1>2. CASE Lookup!NothingToDo
  BY <1>2 DEF Lookup!NothingToDo, Lookup!Types
<1>3. CASE Lookup!BlankSlug \/ Lookup!ListFails \/ Lookup!NotFound
  BY <1>3 DEF Lookup!BlankSlug, Lookup!ListFails, Lookup!NotFound, Lookup!Halts, Lookup!Types
<1>4. CASE Lookup!ListImages \/ Lookup!Listed
  BY <1>4 DEF Lookup!ListImages, Lookup!Listed, Lookup!Types
<1>5. CASE Lookup!Skip \/ Lookup!LookOn
  BY <1>1, <1>5 DEF Lookup!Skip, Lookup!LookOn, Lookup!Types
<1>6. CASE Lookup!Found
  BY <1>1, <1>6 DEF Lookup!Found, Lookup!Types
<1> QED
  BY <1>2, <1>3, <1>4, <1>5, <1>6 DEF Lookup!Next

\* Nothing of a rejected template is acted upon.
Untouched == phase \in {"raw", "rejected"} => lookup = "step" /\ k = 0

\* A build starts with values of the right types.
LEMMA InitTyped == Init => Prep!Types /\ Lookup!Types /\ Untouched
<1> SUFFICES ASSUME Init PROVE Prep!Types /\ Lookup!Types /\ Untouched
  OBVIOUS
<1>1. Prep!Types
  BY DEF Init, Prep!Init, Prep!Types, Prep!Written
<1>2. Lookup!Types
  <2>1. /\ region \in Slug /\ regionId \in Id /\ images \in Seq(Lookup!Pair)
        /\ lookup = "step" /\ i = 0 /\ seen = {} /\ outcome = "none"
    BY DEF Init, Lookup!Init
  <2>2. i \in 0..Len(images)
    BY <2>1, LenProperties
  <2> QED
    BY <2>1, <2>2 DEF Lookup!Types
<1>3. Untouched
  BY DEF Init, Lookup!Init, Naming!Init, Untouched
<1> QED
  BY <1>1, <1>2, <1>3

\* No step of prepare(), of the lookup or of the start of the polling leaves them.
LEMMA NextTyped ==
  ASSUME IInv, Prep!Types, Lookup!Types, Untouched, [Next]_vars
  PROVE  (Prep!Types /\ Lookup!Types /\ Untouched)'
<1>1. CASE Prepare
  <2>1. /\ phase = "raw" /\ conf = template /\ conf' = Prep!Resolved(template, env)
        /\ errs' = Prep!Objections(conf') /\ phase' \in {"accepted", "rejected"}
        /\ UNCHANGED <<template, env>> /\ UNCHANGED lookupVars /\ UNCHANGED nameVars
    BY <1>1 DEF Prepare, Prep!Prepare, IInv, Prepared
  <2>2. Prep!Types'
    <3>1. /\ conf' \in Prep!Template
          /\ conf'.sshUsername # "unset" /\ conf'.commType # "unset"
          /\ conf'.useElasticIP # "unset"
          /\ conf'.pollInterval # "unset" /\ conf'.stateTimeout # "unset"
      BY <2>1, ResolvedTyped DEF Prep!Types
    <3>2. errs' \subseteq Prep!Defect
      BY <2>1 DEF Prep!Objections, Prep!RegionError, Prep!Defect
    <3> QED
      BY <2>1, <3>1, <3>2 DEF Prep!Types
  <2>3. Lookup!Types' /\ Untouched'
    BY <2>1 DEF lookupVars, nameVars, Lookup!Types, Untouched
  <2> QED
    BY <2>2, <2>3
<1>2. CASE ResolveRegion
  <2>1. phase = "accepted" /\ Lookup!Next /\ UNCHANGED prepVars
    BY <1>2 DEF ResolveRegion
  <2> QED
    BY <2>1, LookupTyped DEF prepVars, Prep!Types, Untouched
<1>3. CASE NameImage
  BY <1>3 DEF NameImage, RegionKnown, prepVars, lookupVars, Prep!Types, Lookup!Types, Untouched
<1>4. CASE PollVM
  <2>1. /\ phase = "accepted" /\ phase' \in {"polling", "panicked"}
        /\ UNCHANGED <<template, env, conf, errs>> /\ UNCHANGED lookupVars
    BY <1>4 DEF PollVM, Prep!StartPolling
  <2> QED
    BY <2>1 DEF lookupVars, Prep!Types, Lookup!Types, Untouched
<1>5. CASE UNCHANGED vars
  BY <1>5 DEF vars, prepVars, lookupVars, nameVars, Prep!Types, Lookup!Types, Untouched
<1> QED
  BY <1>1, <1>2, <1>3, <1>4, <1>5 DEF Next

(* Every variable keeps to its type, and a rejected template is not acted  *)
(* upon (TypeOK).                                                          *)
THEOREM PreflightTypes == Spec => []TypeOK
<1>1. CopiedSoFar /\ Prep!Types /\ Lookup!Types /\ Untouched => TypeOK
  BY DEF CopiedSoFar, Untouched, TypeOK
<1>2. Init => Prep!Types /\ Lookup!Types /\ Untouched
  BY InitTyped
<1>3. IInv /\ Prep!Types /\ Lookup!Types /\ Untouched /\ [Next]_vars
        => (Prep!Types /\ Lookup!Types /\ Untouched)'
  BY NextTyped
<1> QED
  BY <1>1, <1>2, <1>3, InitInvariant, NextInvariant, InitCopied, NextCopied, PTL DEF Spec

=============================================================================
