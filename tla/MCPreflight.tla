------------------------------ MODULE MCPreflight ------------------------------
(***************************************************************************)
(* Configurations of Preflight for TLC.  Families of inputs: all kinds     *)
(* of templates, all kinds of listings, all kinds of names, each with      *)
(* something plain for the rest.                                           *)
(***************************************************************************)
EXTENDS Preflight

Minimal ==
  [ apiEndpoint |-> TRUE, apiToken |-> TRUE, region |-> TRUE, regionId |-> "unset",
    image |-> TRUE, pullImage |-> FALSE, commType |-> "unset", useAgent |-> "unset",
    useElasticIP |-> "unset", sshKeyIds |-> FALSE, adminUser |-> FALSE,
    sshUsername |-> "unset", authKey |-> "unset", keyFile |-> "unset", pushImage |-> FALSE,
    keepVM |-> FALSE, pollInterval |-> "unset", stateTimeout |-> "unset" ]

(* All of what has to do with reaching the VM ...                          *)
Access ==
  {[Minimal EXCEPT !.commType = c, !.useAgent = a, !.useElasticIP = e,
                   !.sshKeyIds = y, !.sshUsername = u, !.adminUser = v,
                   !.authKey = h, !.keyFile = f] :
     c \in {"unset", "ssh", "none", "winrm"}, a \in Prep!Choice, e \in Prep!Choice,
     y \in BOOLEAN, u \in {"unset", "explicit"}, v \in BOOLEAN,
     h \in {"unset", "public", "junk"}, f \in {"unset", "readable", "junk"}}

(* ... and all of what has to do with the API and the images.              *)
Targets ==
  {[Minimal EXCEPT !.apiEndpoint = h, !.apiToken = t, !.region = r, !.regionId = d,
                   !.image = m, !.pullImage = p,
                   !.pollInterval = l, !.stateTimeout = o] :
     h \in BOOLEAN, t \in BOOLEAN, r \in BOOLEAN, d \in {"unset", "uuid", "junk"},
     m \in BOOLEAN, p \in BOOLEAN, l \in Prep!Duration, o \in {"unset", "junk", "zero"}}

(* Two regions, one of them in two spellings, a blank, and a slug with     *)
(* blanks around it.                                                       *)
MCSlug  == {"", " ", "ZRH1", "zrh1", " ZRH1 ", " zrh1 ", "ALP2", "alp2"}

MClower == [s \in MCSlug |-> CASE s = "ZRH1" -> "zrh1" [] s = " ZRH1 " -> " zrh1 "
                             [] s = "ALP2" -> "alp2" [] OTHER -> s]

MCtrim  == [s \in MCSlug |-> CASE s = " " -> "" [] s = " ZRH1 " -> "ZRH1"
                             [] s = " zrh1 " -> "zrh1" [] OTHER -> s]

MCId == {"", "uuid1", "uuid2"}

(* Listings of up to three images of any of these shapes. *)
Shown == [slug : {"", "ZRH1", "zrh1", "ALP2"}, id : MCId]

MCListings == UNION {[1..n -> Shown] : n \in 0..3}

(* Names of up to four runes, cut after four with the suffix. *)
MCNames == UNION {[1..n -> Naming!Rune] : n \in 0..4}

MCSuffix   == <<"-", "a">>
MCFallback == <<"a", "a">>

Family(templates, envs, regions, listings, names) ==
  [ template : templates, env : envs, region : regions, images : listings, name : names ]

NoEnv == [apiEndpoint |-> FALSE, apiToken |-> FALSE]
Short == {<<[slug |-> "zrh1", id |-> "uuid1"]>>}
OneName == {<<"a">>}

MCFamilies ==
  { Family(Access, {NoEnv}, {"ZRH1"}, Short, OneName),
    Family({t \in Targets : t.region}, Prep!Environment, {"ZRH1"}, Short, OneName),
    Family({t \in Targets : ~t.region}, Prep!Environment, {""}, Short, OneName),
    Family({Minimal}, {NoEnv}, MCSlug \ {""}, MCListings, OneName),
    Family({[Minimal EXCEPT !.image = FALSE, !.pullImage = TRUE]}, {NoEnv}, {"ZRH1"}, Short,
           MCNames) }

=============================================================================
