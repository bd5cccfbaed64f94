----------------------------- MODULE PrepareConfig -----------------------------
(***************************************************************************)
(* From a template to a build: Builder.Prepare decodes the template into   *)
(* builder.Config, Config.prepare fills in what is missing from the        *)
(* environment and from defaults and collects every objection, and         *)
(* Builder.Run works with the result.  Decoding, and the preparation of    *)
(* the SDK's communicator.Config, are outside the repository.              *)
(***************************************************************************)
EXTENDS Integers, BuildConfig

Choice   == {"unset", "true", "false"}                 \* a *bool
Duration == {"unset", "junk", "negative", "zero", "positive"}

(* A template: which fields it sets, and to values of which kind ("unset"  *)
(* is the zero value of a field, the empty string for most).               *)
Template ==
  [ apiEndpoint : BOOLEAN, apiToken : BOOLEAN,
    region : BOOLEAN, regionId : {"unset", "uuid", "junk"},
    image : BOOLEAN, pullImage : BOOLEAN,
    commType : {"unset", "ssh", "none", "winrm"},
    useAgent : Choice, useElasticIP : Choice,
    sshKeyIds : BOOLEAN, adminUser : BOOLEAN,
    sshUsername : {"unset", "explicit", "admin_username", "admin"},
    authKey : {"unset", "public", "junk"},
    keyFile : {"unset", "readable", "junk"},
    pushImage : BOOLEAN, keepVM : BOOLEAN,
    pollInterval : Duration, stateTimeout : Duration ]

(* The environment: CLOUD_CONSOLE_API_ENDPOINT and CLOUD_CONSOLE_API_TOKEN.*)
Environment == [apiEndpoint : BOOLEAN, apiToken : BOOLEAN]

Defect ==
  {"poll_interval", "state_timeout", "api_token", "api_endpoint", "region",
   "region_id", "image", "communicator", "ssh_authorized_key", "comm"}

\* What a user can write.
Written == {t \in Template : t.sshUsername \in {"unset", "explicit"}}

VARIABLES
  template, env,
  conf,      \* b.config: the template's fields, then the prepared ones
  errs,      \* what prepare() objects to
  phase      \* "raw", "accepted", "rejected", "polling" or "panicked"

vars == <<template, env, conf, errs, phase>>

-----------------------------------------------------------------------------
(***************************************************************************)
(* Config.prepare: defaults and environment.                               *)
(***************************************************************************)
Agent(t) == t.useAgent # "false"

\* Mutant: the communicator of the template is kept beside the agent.
CommTypeKept(t) ==
  IF t.commType # "unset" THEN t.commType ELSE IF Agent(t) THEN "none" ELSE "ssh"

CommType(t) ==
  IF Agent(t) THEN "none" ELSE IF t.commType = "unset" THEN "ssh" ELSE t.commType

\* Mutant: the default does not depend on the communicator.
ElasticIPByDefault(t) == t.useElasticIP # "false"

ElasticIP(t) == IF t.useElasticIP = "unset" THEN ~Agent(t) ELSE t.useElasticIP = "true"

\* Mutant: an unset duration is parsed as it is.
OrDefaultNot(d) == d

OrDefault(d) == IF d = "unset" THEN "positive" ELSE d

SSHUsername(t) ==
  IF t.sshUsername # "unset" THEN t.sshUsername
  ELSE IF t.adminUser THEN "admin_username" ELSE "admin"

Resolved(t, e) ==
  [ t EXCEPT !.apiEndpoint = @ \/ e.apiEndpoint, !.apiToken = @ \/ e.apiToken,
             !.commType = CommType(t),
             !.useElasticIP = IF ElasticIP(t) THEN "true" ELSE "false",
             !.sshUsername = SSHUsername(t),
             !.pollInterval = OrDefault(@), !.stateTimeout = OrDefault(@) ]

-----------------------------------------------------------------------------
(***************************************************************************)
(* Config.prepare: validation.  Every check is made, in this order, and    *)
(* the objections are joined.                                              *)
(***************************************************************************)
\* time.ParseDuration
Parses(d) == d # "junk"

\* Mutant: a region beside a good region_id goes unnoticed.
RegionErrorLenient(c) ==
  IF ~c.region /\ c.regionId = "unset" THEN {"region"}
  ELSE IF c.regionId = "junk" THEN {"region_id"} ELSE {}

\* One switch: a bad region_id goes unmentioned beside a region.
RegionError(c) ==
  IF c.region = (c.regionId # "unset") THEN {"region"}
  ELSE IF c.regionId = "junk" THEN {"region_id"} ELSE {}

\* communicator.Config.Prepare of the SDK looks at the ssh settings of an
\* ssh communicator only.
CommPrepareError(c) == c.commType = "ssh" /\ c.keyFile = "junk"

Objections(c) ==
  UNION { IF Parses(c.pollInterval) THEN {} ELSE {"poll_interval"},
          IF Parses(c.stateTimeout) THEN {} ELSE {"state_timeout"},
          IF c.apiToken THEN {} ELSE {"api_token"},
          IF c.apiEndpoint THEN {} ELSE {"api_endpoint"},
          RegionError(c),
          IF c.image = c.pullImage THEN {"image"} ELSE {},
          IF c.commType \in {"ssh", "none"} THEN {} ELSE {"communicator"},
          IF c.authKey = "junk" THEN {"ssh_authorized_key"} ELSE {},
          IF CommPrepareError(c) THEN {"comm"} ELSE {} }

-----------------------------------------------------------------------------
Init ==
  /\ template \in Written /\ env \in Environment
  /\ conf = template
  /\ errs = {}
  /\ phase = "raw"

Prepare ==
  /\ phase = "raw"
  /\ conf' = Resolved(conf, env)
  /\ errs' = Objections(conf')
  /\ phase' = IF errs' = {} THEN "accepted" ELSE "rejected"
  /\ UNCHANGED <<template, env>>

\* Builder.Run has reached StepWaitRunning, the first step to poll, with the
\* VM created; time.NewTicker panics unless its argument is positive.
StartPolling ==
  /\ phase = "accepted"
  /\ phase' = IF conf.pollInterval = "positive" THEN "polling" ELSE "panicked"
  /\ UNCHANGED <<template, env, conf, errs>>

(* What BuildRun starts from, when prepare() has made c of t.              *)
AsBuildConfig(t, c) ==
  [ region |-> IF c.regionId # "unset" THEN "id" ELSE "slug", pull |-> c.pullImage,
    comm |-> IF Agent(c) THEN "agent" ELSE c.commType,
    keyIds |-> c.sshKeyIds, authKey |-> c.authKey # "unset", keyFile |-> c.keyFile # "unset",
    adminUser |-> c.adminUser, sshUser |-> t.sshUsername # "unset", user |-> c.sshUsername,
    eip |-> c.useElasticIP = "true", push |-> c.pushImage, keep |-> c.keepVM ]

Accepted == phase \in {"accepted", "polling", "panicked"}

\* The types of the variables; once prepared, no setting with a default is
\* unset.
Types ==
  /\ template \in Written /\ env \in Environment
  /\ conf \in Template
  /\ errs \subseteq Defect
  /\ phase \in {"raw", "accepted", "rejected", "polling", "panicked"}
  /\ phase # "raw" =>
       /\ conf.sshUsername # "unset" /\ conf.commType # "unset" /\ conf.useElasticIP # "unset"
       /\ "unset" \notin {conf.pollInterval, conf.stateTimeout}

\* An accepted configuration is one the build is written for (BuildRun's
\* assumption on its configurations), with one region, one image source, an
\* endpoint and a token, none of which Run checks again; it panics over the
\* polling interval, and over nothing else.
AcceptedIsPrepared ==
  Accepted =>
    /\ AsBuildConfig(template, conf) \in PreparedConfig
    /\ conf.region # (conf.regionId \in {"uuid", "junk"}) /\ conf.regionId # "junk"
    /\ conf.image # conf.pullImage
    /\ conf.apiEndpoint /\ conf.apiToken
    /\ phase = "panicked" => template.pollInterval \in {"zero", "negative"}

\* The checks run on the resolved settings, in sequence; the user sees them as
\* a set of rules on what they wrote (README.md, Configuration).
KeepsRules(t, e) ==
  /\ t.apiEndpoint \/ e.apiEndpoint
  /\ t.apiToken \/ e.apiToken
  /\ \/ t.region /\ t.regionId = "unset"
     \/ ~t.region /\ t.regionId = "uuid"
  /\ \/ t.image /\ ~t.pullImage
     \/ ~t.image /\ t.pullImage
  /\ t.useAgent = "false" => t.commType # "winrm"
  /\ t.useAgent = "false" /\ t.commType \in {"unset", "ssh"} => t.keyFile # "junk"
  /\ t.authKey # "junk"
  /\ t.pollInterval # "junk" /\ t.stateTimeout # "junk"

\* README.md:242-249: with the agent, the default, no SSH key is registered
\* and no SSH connection made whatever else the template says, and a public
\* address is asked for only explicitly; without it, a public address unless
\* declined.
AgentNeedsNoNetwork ==
  Accepted =>
    LET c == AsBuildConfig(template, conf) IN
      /\ template.useAgent # "false" =>
           /\ c.comm = "agent" /\ ~NeedsKeyRegistration(c)
           /\ c.eip <=> template.useElasticIP = "true"
      /\ template.useAgent = "false" =>
           /\ c.comm \in {"ssh", "none"}
           /\ c.eip <=> template.useElasticIP # "false"

=============================================================================
