----------------------------- MODULE SharedCatalog -----------------------------
(***************************************************************************)
(* Several builds with pull_image in one tenant and one region: each       *)
(* registers a temporary image, creates its VM from it and deletes both    *)
(* again.  An image has no id: its name is its only handle, and the names  *)
(* of two builds may come to the same thing (ImageName).  A call the       *)
(* client has given up may be performed at any later time.                 *)
(*                                                                         *)
(* What the server does about a name that is taken is outside the          *)
(* repository.  The two rules under which a name can serve as a handle are *)
(* "reject" and "rename", where the answer carries the name it chose.      *)
(***************************************************************************)
CONSTANTS
  Builds,
  Names,      \* image names
  asked,      \* sanitizeImageName(cfg.Name + "-image") of each build
  Keeping,    \* the sets of builds with keep_vm a run explores
  Nobody, None

ASSUME NamesAssumption ==
  /\ asked \in [Builds -> Names]
  /\ Nobody \notin Builds /\ None \notin Names
  /\ Keeping \subseteq SUBSET Builds

VARIABLES
  rule,       \* "reject" or "rename"
  keep,       \* builds with keep_vm
  catalog,    \* server: whose image each name stands for
  step,       \* where each build is
  created,    \* bag: created_image (and vm_image)
  booted,     \* server: whose image the VM of a build was created from
  late,       \* server: calls given up by the client and not yet performed
  failed      \* history: builds with a call that did not go well

server == <<catalog, booted>>
vars   == <<rule, keep, server, step, created, late, failed>>

Steps == {"register", "create", "provision", "deleteVM", "deleteImage", "returned"}
Call  == [build : Builds, kind : {"register", "delete"}]

Init ==
  /\ rule \in {"reject", "rename"}
  /\ keep \in Keeping
  /\ catalog = [n \in Names |-> Nobody]
  /\ step = [b \in Builds |-> "register"]
  /\ created = [b \in Builds |-> None]
  /\ booted = [b \in Builds |-> Nobody]
  /\ late = {} /\ failed = {}

Goes(b, to) == step' = [step EXCEPT ![b] = to]

Given(b) == IF rule = "reject" THEN {asked[b]} ELSE Names

\* The server registers an image under n.
Registers(b, n) ==
  /\ n \in Given(b) /\ catalog[n] = Nobody
  /\ catalog' = [catalog EXCEPT ![n] = b]

-----------------------------------------------------------------------------
Register(b) ==
  /\ step[b] = "register"
  /\ \E n \in Names :
       /\ Registers(b, n)
       /\ created' = [created EXCEPT ![b] = n]
  /\ Goes(b, "create")
  /\ UNCHANGED <<rule, keep, booted, late, failed>>

\* Mutant: the error does not halt the build.
RegisterFailsGoesOn(b) ==
  /\ step[b] = "register"
  /\ Goes(b, "create") /\ failed' = failed \cup {b}
  /\ UNCHANGED <<rule, keep, server, created, late>>

\* Refused - the name is taken, the registry said no - or never sent: the
\* build halts, with nothing to delete.
RegisterFails(b) ==
  /\ step[b] = "register"
  /\ Goes(b, "deleteVM") /\ failed' = failed \cup {b}
  /\ UNCHANGED <<rule, keep, server, created, late>>

\* Mutant: a call that was not answered is made again.
RegisterSentAgain(b) ==
  /\ step[b] = "register"
  /\ late' = late \cup {[build |-> b, kind |-> "register"]}
  /\ failed' = failed \cup {b}
  /\ UNCHANGED <<rule, keep, server, created, step>>

RegisterGivenUp(b) ==
  /\ step[b] = "register"
  /\ late' = late \cup {[build |-> b, kind |-> "register"]}
  /\ Goes(b, "deleteVM") /\ failed' = failed \cup {b}
  /\ UNCHANGED <<rule, keep, server, created>>

RegisteredLate(b) ==
  /\ [build |-> b, kind |-> "register"] \in late
  /\ late' = late \ {[build |-> b, kind |-> "register"]}
  /\ \/ \E n \in Names : Registers(b, n)
     \/ UNCHANGED catalog
  /\ UNCHANGED <<rule, keep, booted, step, created, failed>>

\* Mutant: the VM is created from the name that was asked for.
ImageRefAsked(b) == asked[b]

ImageRef(b) == created[b]

CreateInstance(b) ==
  /\ step[b] = "create"
  /\ catalog[ImageRef(b)] # Nobody
  /\ booted' = [booted EXCEPT ![b] = catalog[ImageRef(b)]]
  /\ Goes(b, "provision")
  /\ UNCHANGED <<rule, keep, catalog, created, late, failed>>

\* A VM that the client does not know of is left out: see BuildRun.
CreateInstanceFails(b) ==
  /\ step[b] = "create"
  /\ Goes(b, "deleteVM") /\ failed' = failed \cup {b}
  /\ UNCHANGED <<rule, keep, server, created, late>>

\* Done, failed or cancelled.
EndOfSteps(b) ==
  /\ step[b] = "provision"
  /\ Goes(b, "deleteVM")
  /\ UNCHANGED <<rule, keep, server, created, late, failed>>

CleanupInstance(b) ==
  /\ step[b] = "deleteVM"
  /\ \/ booted' = IF b \in keep THEN booted ELSE [booted EXCEPT ![b] = Nobody]
     \/ UNCHANGED booted
  /\ Goes(b, "deleteImage")
  /\ UNCHANGED <<rule, keep, catalog, created, late, failed>>

\* Mutant: keep_vm is not looked at.
NothingToDeleteEvenIfKept(b) == created[b] = None

NothingToDelete(b) == created[b] = None \/ b \in keep

CleanupNothing(b) ==
  /\ step[b] = "deleteImage" /\ NothingToDelete(b)
  /\ Goes(b, "returned")
  /\ UNCHANGED <<rule, keep, server, created, late, failed>>

\* Mutant: the image is deleted by the name that was asked for.
DeletedAsked(b) == asked[b]

Deleted(b) == created[b]

CleanupImage(b) ==
  /\ step[b] = "deleteImage" /\ ~NothingToDelete(b)
  /\ catalog' = [catalog EXCEPT ![Deleted(b)] = Nobody]
  /\ Goes(b, "returned")
  /\ UNCHANGED <<rule, keep, booted, created, late, failed>>

\* Mutant: a DELETE that was not answered is sent again and again.
CleanupImageFailsOften(b) ==
  /\ step[b] = "deleteImage" /\ ~NothingToDelete(b)
  /\ late' \in {late, late \cup {[build |-> b, kind |-> "delete"]}}
  /\ failed' = failed \cup {b}
  /\ UNCHANGED <<rule, keep, server, created, step>>

\* Refused, or given up with the DELETE on its way.
CleanupImageFails(b) ==
  /\ step[b] = "deleteImage" /\ ~NothingToDelete(b)
  /\ late' \in {late, late \cup {[build |-> b, kind |-> "delete"]}}
  /\ Goes(b, "returned") /\ failed' = failed \cup {b}
  /\ UNCHANGED <<rule, keep, server, created>>

DeletedLate(b) ==
  /\ [build |-> b, kind |-> "delete"] \in late
  /\ late' = late \ {[build |-> b, kind |-> "delete"]}
  /\ catalog' \in {catalog, [catalog EXCEPT ![Deleted(b)] = Nobody]}
  /\ UNCHANGED <<rule, keep, booted, step, created, failed>>

-----------------------------------------------------------------------------
Next == \E b \in Builds :
  \/ Register(b) \/ RegisterFails(b) \/ RegisterGivenUp(b) \/ RegisteredLate(b)
  \/ CreateInstance(b) \/ CreateInstanceFails(b) \/ EndOfSteps(b)
  \/ CleanupInstance(b)
  \/ CleanupNothing(b) \/ CleanupImage(b) \/ CleanupImageFails(b) \/ DeletedLate(b)

Spec == Init /\ [][Next]_vars

-----------------------------------------------------------------------------
(***************************************************************************)
(* Properties.                                                             *)
(***************************************************************************)
(* The type invariant; the steps after the first have a name to work with. *)
TypeOK ==
  /\ rule \in {"reject", "rename"} /\ keep \subseteq Builds
  /\ catalog \in [Names -> Builds \cup {Nobody}]
  /\ step \in [Builds -> Steps]
  /\ created \in [Builds -> Names \cup {None}]
  /\ \A b \in Builds : step[b] \in {"create", "provision"} => created[b] # None
  /\ booted \in [Builds -> Builds \cup {Nobody}]
  /\ late \subseteq Call /\ failed \subseteq Builds

(* step_register_image.go:13-15: what a build deletes is the image it has  *)
(* registered.  From its registration to its own Cleanup the image of a    *)
(* build stays where it is, whatever builds of the same name do, fail to   *)
(* do, or have on its way still; with keep_vm, which skips the teardown    *)
(* (README.md:159), it outlives the build.                                 *)
ImageStays ==
  \A b \in Builds :
    created[b] # None /\ (step[b] # "returned" \/ b \in keep) => catalog[created[b]] = b

(* README.md:186-188: a build that has returned has left an image behind   *)
(* only under keep_vm or where a call of its own went wrong; a name is     *)
(* free again otherwise.                                                   *)
OrphanExplained ==
  \A b \in Builds : step[b] = "returned" /\ b \notin keep \cup failed =>
    \A n \in Names : catalog[n] # b

(* What BuildRun assumes, one build at a time: whatever builds of the same *)
(* name register, delete or have on its way, each deals with its image as  *)
(* if it were alone (PrivateImage).  The image comes once, goes by its own *)
(* Cleanup only, and what is registered late is not taken for it.          *)
Stage(b) ==
  CASE step[b] \in {"register", "create", "provision"} -> "building"
    [] step[b] \in {"deleteVM", "deleteImage"} -> "teardown"
    [] OTHER -> "returned"

Image(b) ==
  LET own == {n \in Names : catalog[n] = b} IN
    IF own = {} THEN IF created[b] = None THEN "absent" ELSE "gone"
    ELSE IF \E n \in Names : own = {n} /\ created[b] \in {n, None} THEN "live"
    ELSE "several"

VM(b) == IF booted[b] = Nobody THEN "none" ELSE IF booted[b] = b THEN "own" ELSE "foreign"

Own(b) ==
  INSTANCE PrivateImage
    WITH keep <- b \in keep, stage <- Stage(b), image <- Image(b),
         known <- created[b] # None, vm <- VM(b)

ImagesArePrivate ==
  /\ \A b \in Builds : Own(b)!Init
  /\ [][\A b \in Builds : [Own(b)!Next]_(Own(b)!vars)]_vars

=============================================================================
