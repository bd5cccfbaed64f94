------------------------------ MODULE MCBuildRun ------------------------------
(***************************************************************************)
(* Configurations of BuildRun for TLC.                                     *)
(***************************************************************************)
EXTENDS BuildRun

Prepared(c) == [c EXCEPT !.user = PreparedUser(c)]

Base ==
  [ region |-> "slug", pull |-> TRUE, comm |-> "ssh", keyIds |-> FALSE,
    authKey |-> FALSE, keyFile |-> FALSE, adminUser |-> FALSE, sshUser |-> FALSE,
    user |-> "admin", eip |-> TRUE, push |-> TRUE, keep |-> FALSE ]

(* Every combination of the fields that change which steps run and what    *)
(* they create ...                                                         *)
Shapes ==
  {[Base EXCEPT !.region = r, !.pull = p, !.comm = c, !.keyIds = k, !.eip = e,
                !.push = u, !.keep = v] :
     r \in {"slug", "id"}, p \in BOOLEAN, c \in {"agent", "ssh", "none"},
     k \in BOOLEAN, e \in BOOLEAN, u \in BOOLEAN, v \in BOOLEAN}

(* ... and every source of the key material and of the login user.         *)
Users ==
  {Prepared([Base EXCEPT !.authKey = a, !.keyFile = f, !.adminUser = u,
                         !.sshUser = s, !.pull = FALSE, !.push = FALSE]) :
     a \in BOOLEAN, f \in BOOLEAN, u \in BOOLEAN, s \in BOOLEAN}

MCConfigs == Shapes \cup Users

(* One configuration for each disagreement shown.                          *)
MCUser    == Users
MCPush    == {[Base EXCEPT !.pull = FALSE]}
MCAgent   == {[Base EXCEPT !.comm = "agent", !.eip = FALSE]}
MCAgentIP == {[Base EXCEPT !.comm = "agent"]}

=============================================================================
