------------------------------ MODULE BuildConfig ------------------------------
(***************************************************************************)
(* The prepared configuration of a build, as far as it steers control      *)
(* flow: what Config.prepare (PrepareConfig) hands to Builder.Run          *)
(* (BuildRun).                                                             *)
(***************************************************************************)

(* The fields of builder.Config.  "comm" joins useAgentCommunicator with   *)
(* Comm.Type ("agent" forces Comm.Type "none"); "user" is                  *)
(* Comm.SSHUsername, "sshUser" says the template set it.                   *)
Config ==
  [ region    : {"slug", "id"},            \* region, or region_id / resolved
    pull      : BOOLEAN,                   \* PullImage # ""
    comm      : {"agent", "ssh", "none"},
    keyIds    : BOOLEAN,                   \* len(SSHKeyIDs) > 0
    authKey   : BOOLEAN,                   \* SSHAuthorizedKey # ""
    keyFile   : BOOLEAN,                   \* Comm.SSHPrivateKeyFile # ""
    adminUser : BOOLEAN,                   \* AdminUsername # ""
    sshUser   : BOOLEAN,
    user      : {"explicit", "admin_username", "admin", "server"},
    eip       : BOOLEAN,                   \* useElasticIP
    push      : BOOLEAN,                   \* PushImage # ""
    keep      : BOOLEAN ]                  \* KeepVM

(* What prepare() leaves in Comm.SSHUsername. *)
PreparedUser(c) ==
  IF c.sshUser THEN "explicit" ELSE IF c.adminUser THEN "admin_username" ELSE "admin"

PreparedConfig == {c \in Config : c.user = PreparedUser(c)}

\* StepSSHKey is to run before StepCreateInstance.
NeedsKeyRegistration(c) ==
  c.comm = "ssh" /\ ~c.keyIds /\ (c.authKey \/ ~c.keyFile)

=============================================================================
