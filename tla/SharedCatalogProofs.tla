-------------------------- MODULE SharedCatalogProofs --------------------------
(***************************************************************************)
(* For any number of builds and any names: no build touches the image of   *)
(* another, and each may take the catalog for its own.                     *)
(***************************************************************************)
EXTENDS SharedCatalog, TLAPS

AtWork(b) == step[b] \in {"register", "create", "provision"}

(* What a build may still have on its way: a registration only after it    *)
(* has failed to register, a deletion only of an image that is there.      *)
OnTheWay ==
  \A b \in Builds :
    /\ [build |-> b, kind |-> "register"] \in late =>
         /\ b \in failed /\ created[b] = None /\ ~AtWork(b)
         /\ \A n \in Names : catalog[n] # b
    /\ [build |-> b, kind |-> "delete"] \in late =>
         /\ step[b] = "returned" /\ b \notin keep /\ b \in failed
         /\ created[b] # None /\ catalog[created[b]] = b

(* Where an image can come from, and that it is the only one. *)
Provenance ==
  \A b \in Builds :
    /\ step[b] = "register" => created[b] = None /\ \A n \in Names : catalog[n] # b
    /\ \A n \in Names : catalog[n] = b =>
         /\ created[b] # n => created[b] = None /\ b \in failed /\ ~AtWork(b)
         /\ \A m \in Names : catalog[m] = b => m = n

(* No build ever starts, or keeps, a VM from the image of another.         *)
BootedFromOwn == \A b \in Builds : booted[b] \in {b, Nobody}

IInv ==
  /\ TypeOK
  /\ ImageStays /\ BootedFromOwn /\ OrphanExplained
  /\ OnTheWay /\ Provenance

(* A tenant without images satisfies the invariant. *)
LEMMA InitInvariant == Init => IInv
  BY NamesAssumption
     DEF Init, IInv, TypeOK, Steps, Call, ImageStays, BootedFromOwn, OrphanExplained,
         OnTheWay, Provenance, AtWork

(* Every step of a build, and every late call, keeps it. *)
LEMMA NextInvariant == IInv /\ [Next]_vars => IInv'
<1> USE NamesAssumption
<1> SUFFICES ASSUME IInv, [Next]_vars PROVE IInv'
  OBVIOUS
<1> USE DEF IInv, TypeOK, Steps, Call, ImageStays, BootedFromOwn, OrphanExplained,
            OnTheWay, Provenance, Goes, server, AtWork
<1>types. /\ catalog \in [Names -> Builds \cup {Nobody}] /\ step \in [Builds -> Steps]
          /\ created \in [Builds -> Names \cup {None}]
  OBVIOUS
<1>coming. \A c \in Builds : [build |-> c, kind |-> "register"] \in late =>
             /\ c \in failed /\ created[c] = None /\ ~AtWork(c)
             /\ \A n \in Names : catalog[n] # c
  OBVIOUS
<1>going. \A c \in Builds : [build |-> c, kind |-> "delete"] \in late =>
            /\ step[c] = "returned" /\ c \notin keep /\ c \in failed
            /\ created[c] \in Names /\ catalog[created[c]] = c
  OBVIOUS
<1>from. \A c \in Builds :
           /\ step[c] = "register" => created[c] = None /\ \A n \in Names : catalog[n] # c
           /\ \A n \in Names : catalog[n] = c =>
                /\ created[c] # n => created[c] = None /\ c \in failed /\ ~AtWork(c)
                /\ \A m \in Names : catalog[m] = c => m = n
  OBVIOUS
<1>1. ASSUME NEW b \in Builds, Register(b) PROVE IInv'
  <2>1. PICK n \in Names : Registers(b, n) /\ created' = [created EXCEPT ![b] = n]
    BY <1>1 DEF Register
  <2>2. /\ step[b] = "register" /\ step' = [step EXCEPT ![b] = "create"]
        /\ UNCHANGED <<rule, keep, booted, late, failed>>
        /\ catalog[n] = Nobody /\ catalog' = [catalog EXCEPT ![n] = b]
    BY <1>1, <2>1 DEF Register, Registers
  <2>3. TypeOK' /\ BootedFromOwn' /\ OrphanExplained'
    BY <2>1, <2>2
  <2>4. ImageStays'
    BY <2>1, <2>2
  <2>5. OnTheWay'
    <3> HIDE DEF IInv, TypeOK, ImageStays, BootedFromOwn, OrphanExplained, Provenance
    <3>1. ASSUME NEW c \in Builds, [build |-> c, kind |-> "register"] \in late
          PROVE  /\ c \in failed /\ created'[c] = None /\ step'[c] = step[c]
                 /\ ~AtWork(c) /\ \A m \in Names : catalog'[m] # c
      BY <1>types, <1>coming, <2>1, <2>2, <3>1
    <3>2. ASSUME NEW c \in Builds, [build |-> c, kind |-> "delete"] \in late
          PROVE  /\ step'[c] = "returned" /\ c \notin keep /\ c \in failed
                 /\ created'[c] # None /\ catalog'[created'[c]] = c
      BY <1>types, <1>going, <2>1, <2>2, <3>2
    <3> QED
      BY <2>2, <3>1, <3>2
  <2>6. Provenance'
    <3> HIDE DEF IInv, TypeOK, ImageStays, BootedFromOwn, OrphanExplained, OnTheWay
    <3>1. \A m \in Names : catalog[m] # b
      BY <1>from, <2>2
    <3>2. ASSUME NEW c \in Builds, step'[c] = "register"
          PROVE  created'[c] = None /\ \A m \in Names : catalog'[m] # c
      BY <1>types, <1>from, <2>1, <2>2, <3>2
    <3>3. ASSUME NEW c \in Builds, NEW m \in Names, catalog'[m] = c
          PROVE  /\ created'[c] # m => created'[c] = None /\ c \in failed /\ ~AtWork(c)'
                 /\ \A l \in Names : catalog'[l] = c => l = m
      <4>1. CASE c = b
        <5>1. \A l \in Names : catalog'[l] = b => l = n
          BY <1>types, <2>2, <3>1
        <5>2. created'[b] = n
          BY <1>types, <2>1
        <5>3. m = n
          BY <3>3, <4>1, <5>1
        <5> QED
          BY <4>1, <5>1, <5>2, <5>3, Zenon
      <4>2. CASE c # b
        <5>1. \A l \in Names : catalog'[l] = c <=> catalog[l] = c
          BY <1>types, <2>2, <4>2
        <5>2. created'[c] = created[c] /\ step'[c] = step[c]
          BY <1>types, <2>1, <2>2, <4>2
        <5> QED
          BY <1>from, <3>3, <5>1, <5>2
      <4> QED
        BY <4>1, <4>2
    <3> QED
      BY <2>2, <3>2, <3>3
  <2> QED
    BY <2>3, <2>4, <2>5, <2>6
<1>2. ASSUME NEW b \in Builds, RegisterFails(b) PROVE IInv'
  BY <1>2 DEF RegisterFails
<1>3. ASSUME NEW b \in Builds, RegisterGivenUp(b) PROVE IInv'
  BY <1>3 DEF RegisterGivenUp
<1>4. ASSUME NEW b \in Builds, RegisteredLate(b) PROVE IInv'
  <2>1. late' \subseteq late /\ UNCHANGED <<rule, keep, booted, step, created, failed>>
    BY <1>4 DEF RegisteredLate
  <2>2. /\ b \in failed /\ created[b] = None /\ ~AtWork(b)
        /\ \A n \in Names : catalog[n] # b
        /\ [build |-> b, kind |-> "register"] \notin late'
    BY <1>4 DEF RegisteredLate
  <2>3. CASE UNCHANGED catalog
    BY <2>1, <2>3
  <2>4. ASSUME NEW n \in Names, Registers(b, n) PROVE IInv'
    <3>1. catalog[n] = Nobody /\ catalog' = [catalog EXCEPT ![n] = b]
      BY <2>4 DEF Registers
    <3>2. TypeOK' /\ ImageStays' /\ BootedFromOwn' /\ OrphanExplained'
      BY <2>1, <2>2, <3>1
    <3>3. OnTheWay'
      <4> HIDE DEF IInv, TypeOK, ImageStays, BootedFromOwn, OrphanExplained, Provenance
      <4>1. ASSUME NEW c \in Builds, [build |-> c, kind |-> "register"] \in late'
            PROVE  /\ c \in failed' /\ created'[c] = None /\ ~AtWork(c)'
                   /\ \A m \in Names : catalog'[m] # c
        <5>1. [build |-> c, kind |-> "register"] \in late /\ c # b
          BY <2>1, <2>2, <4>1
        <5> QED
          BY <1>types, <1>coming, <2>1, <3>1, <5>1
      <4>2. ASSUME NEW c \in Builds, [build |-> c, kind |-> "delete"] \in late'
            PROVE  /\ step'[c] = "returned" /\ c \notin keep' /\ c \in failed'
                   /\ created'[c] # None /\ catalog'[created'[c]] = c
        <5>1. [build |-> c, kind |-> "delete"] \in late
          BY <2>1, <4>2
        <5>2. created[c] # n /\ created[c] # None
          BY <1>going, <3>1, <5>1, NamesAssumption
        <5> QED
          BY <1>types, <1>going, <2>1, <3>1, <5>1, <5>2
      <4> QED
        BY <4>1, <4>2
    <3>4. Provenance'
      BY <2>1, <2>2, <3>1
    <3> QED
      BY <3>2, <3>3, <3>4
  <2> QED
    BY <1>4, <2>3, <2>4 DEF RegisteredLate
<1>5. ASSUME NEW b \in Builds, CreateInstance(b) PROVE IInv'
  BY <1>5 DEF CreateInstance, ImageRef
<1>6. ASSUME NEW b \in Builds, CreateInstanceFails(b) PROVE IInv'
  BY <1>6 DEF CreateInstanceFails
<1>7. ASSUME NEW b \in Builds, EndOfSteps(b) PROVE IInv'
  BY <1>7 DEF EndOfSteps
<1>8. ASSUME NEW b \in Builds, CleanupInstance(b) PROVE IInv'
  BY <1>8 DEF CleanupInstance
<1>9. ASSUME NEW b \in Builds, CleanupNothing(b) PROVE IInv'
  BY <1>9 DEF CleanupNothing, NothingToDelete
<1>10. ASSUME NEW b \in Builds, CleanupImage(b) PROVE IInv'
  BY <1>10 DEF CleanupImage, NothingToDelete, Deleted
<1>11. ASSUME NEW b \in Builds, CleanupImageFails(b) PROVE IInv'
  BY <1>11 DEF CleanupImageFails, NothingToDelete
<1>12. ASSUME NEW b \in Builds, DeletedLate(b) PROVE IInv'
  <2>1. late' \subseteq late /\ UNCHANGED <<rule, keep, booted, step, created, failed>>
    BY <1>12 DEF DeletedLate
  <2>2. /\ step[b] = "returned" /\ b \notin keep /\ b \in failed
        /\ created[b] \in Names /\ catalog[created[b]] = b
    BY <1>12 DEF DeletedLate
  <2>3. CASE UNCHANGED catalog
    BY <2>1, <2>3
  <2>4. CASE catalog' = [catalog EXCEPT ![created[b]] = Nobody]
    <3>1. \A c \in Builds : [build |-> c, kind |-> "delete"] \in late' => c # b
      BY <1>12 DEF DeletedLate
    <3>2. TypeOK' /\ BootedFromOwn' /\ OrphanExplained' /\ Provenance'
      BY <2>1, <2>2, <2>4
    <3>3. ImageStays'
      BY <2>1, <2>2, <2>4
    <3>4. OnTheWay'
      <4> HIDE DEF IInv, TypeOK, ImageStays, BootedFromOwn, OrphanExplained, Provenance
      <4>1. ASSUME NEW c \in Builds, [build |-> c, kind |-> "register"] \in late'
            PROVE  /\ c \in failed' /\ created'[c] = None /\ ~AtWork(c)'
                   /\ \A m \in Names : catalog'[m] # c
        <5>1. [build |-> c, kind |-> "register"] \in late
          BY <2>1, <4>1
        <5> QED
          BY <1>types, <1>coming, <2>1, <2>2, <2>4, <5>1
      <4>2. ASSUME NEW c \in Builds, [build |-> c, kind |-> "delete"] \in late'
            PROVE  /\ step'[c] = "returned" /\ c \notin keep' /\ c \in failed'
                   /\ created'[c] # None /\ catalog'[created'[c]] = c
        <5>1. [build |-> c, kind |-> "delete"] \in late /\ c # b
          BY <2>1, <3>1, <4>2
        <5>2. created[c] # created[b] /\ created[c] # None
          BY <1>going, <2>2, <5>1, NamesAssumption
        <5> QED
          BY <1>types, <1>going, <2>1, <2>2, <2>4, <5>1, <5>2
      <4> QED
        BY <4>1, <4>2
    <3> QED
      BY <3>2, <3>3, <3>4
  <2> QED
    BY <1>12, <2>3, <2>4 DEF DeletedLate, Deleted
<1>13. CASE UNCHANGED vars
  BY <1>13 DEF vars
<1> QED
  BY <1>1, <1>2, <1>3, <1>4, <1>5, <1>6, <1>7, <1>8, <1>9, <1>10, <1>11, <1>12, <1>13 DEF Next

(* IInv holds in every reachable state, whatever the builds and the names. *)
THEOREM CatalogInvariant == Spec => []IInv
  BY InitInvariant, NextInvariant, PTL DEF Spec

(* Type correctness of the builds and the catalog. *)
THEOREM CatalogTypes == Spec => []TypeOK
<1>1. IInv => TypeOK BY DEF IInv
<1> QED BY <1>1, CatalogInvariant, PTL

(* From registration to Cleanup, and beyond under keep_vm, the image of a  *)
(* build stays its own.                                                    *)
THEOREM ImageIsOwn == Spec => []ImageStays
<1>1. IInv => ImageStays BY DEF IInv
<1> QED BY <1>1, CatalogInvariant, PTL

(* No VM comes from the image of another build. *)
THEOREM BootIsOwn == Spec => []BootedFromOwn
<1>1. IInv => BootedFromOwn BY DEF IInv
<1> QED BY <1>1, CatalogInvariant, PTL

(* An image that stays behind is kept, or a call of its build went wrong.  *)
THEOREM OrphansAreExplained == Spec => []OrphanExplained
<1>1. IInv => OrphanExplained BY DEF IInv
<1> QED BY <1>1, CatalogInvariant, PTL

-----------------------------------------------------------------------------
(***************************************************************************)
(* The refinement: each build sees the catalog as if it were alone.        *)
(***************************************************************************)
\* What a build's stage is, by its step.
LEMMA StageByStep ==
  ASSUME NEW b \in Builds, step[b] \in Steps
  PROVE  /\ AtWork(b) <=> Stage(b) = "building"
         /\ step[b] \in {"deleteVM", "deleteImage"} <=> Stage(b) = "teardown"
         /\ step[b] = "returned" <=> Stage(b) = "returned"
<1>1. CASE step[b] \in {"register", "create", "provision"}
  <2>1. Stage(b) = "building"
    BY <1>1, Zenon DEF Stage
  <2> QED
    BY <1>1, <2>1 DEF AtWork
<1>2. CASE step[b] \in {"deleteVM", "deleteImage"}
  <2>1. Stage(b) = "teardown"
    BY <1>2, Zenon DEF Stage
  <2> QED
    BY <1>2, <2>1 DEF AtWork
<1>3. CASE step[b] = "returned"
  <2>1. Stage(b) = "returned"
    BY <1>3, Zenon DEF Stage
  <2> QED
    BY <1>3, <2>1 DEF AtWork
<1> QED
  BY <1>1, <1>2, <1>3 DEF Steps

\* Its image, by the catalog: never more than one.
LEMMA ImageByCatalog ==
  ASSUME IInv, NEW b \in Builds
  PROVE  /\ Image(b) = "live" <=> \E n \in Names : catalog[n] = b
         /\ Image(b) = "absent" <=> (\A n \in Names : catalog[n] # b) /\ created[b] = None
         /\ Image(b) = "gone" <=> (\A n \in Names : catalog[n] # b) /\ created[b] # None
<1> DEFINE own == {n \in Names : catalog[n] = b}
<1>1. CASE own = {}
  BY <1>1 DEF Image
<1>2. CASE own # {}
  <2>1. PICK n \in Names : catalog[n] = b
    BY <1>2
  <2>2. own = {n}
    BY <2>1 DEF IInv, Provenance
  <2>3. created[b] \in {n, None}
    BY <2>1 DEF IInv, Provenance
  <2>4. Image(b) = "live"
    BY <1>2, <2>1, <2>2, <2>3, Zenon DEF Image
  <2> QED
    BY <2>1, <2>4
<1> QED
  BY <1>1, <1>2

\* What Own(b) has in the place of its stage and its image.
Seen(b) ==
  /\ AtWork(b) <=> Stage(b) = "building"
  /\ step[b] \in {"deleteVM", "deleteImage"} <=> Stage(b) = "teardown"
  /\ step[b] = "returned" <=> Stage(b) = "returned"
  /\ Image(b) = "live" <=> \E n \in Names : catalog[n] = b
  /\ Image(b) = "absent" <=> (\A n \in Names : catalog[n] # b) /\ created[b] = None
  /\ Image(b) = "gone" <=> (\A n \in Names : catalog[n] # b) /\ created[b] # None

\* The invariant implies it for every build.
LEMMA SeenAlways == IInv => \A b \in Builds : Seen(b)
<1> SUFFICES ASSUME IInv, NEW b \in Builds PROVE Seen(b)
  OBVIOUS
<1>1. step[b] \in Steps
  BY DEF IInv, TypeOK
<1> QED
  BY <1>1, StageByStep, ImageByCatalog DEF Seen

(* A build starts without an image. *)
LEMMA InitPrivate == Init => \A b \in Builds : Own(b)!Init
<1> SUFFICES ASSUME Init, NEW b \in Builds PROVE Own(b)!Init
  OBVIOUS
<1>1. /\ step[b] = "register" /\ created[b] = None /\ booted[b] = Nobody
      /\ \A n \in Names : catalog[n] # b
  BY NamesAssumption DEF Init
<1>2. IInv
  BY InitInvariant
<1>3. Stage(b) = "building" /\ Image(b) = "absent" /\ VM(b) = "none"
  BY <1>1, <1>2, StageByStep, ImageByCatalog DEF VM, Steps, AtWork
<1> QED
  BY <1>1, <1>3 DEF Own!Init

\* A step of the build c.
StepOf(c) ==
  \/ Register(c) \/ RegisterFails(c) \/ RegisterGivenUp(c) \/ RegisteredLate(c)
  \/ CreateInstance(c) \/ CreateInstanceFails(c) \/ EndOfSteps(c)
  \/ CleanupInstance(c)
  \/ CleanupNothing(c) \/ CleanupImage(c) \/ CleanupImageFails(c) \/ DeletedLate(c)

\* What a step of c changes of the server: its own entry, its own VM.
LEMMA OwnEntryOnly ==
  ASSUME IInv, NEW c \in Builds, StepOf(c), NEW b \in Builds, b # c
  PROVE  /\ \A n \in Names : catalog'[n] = b <=> catalog[n] = b
         /\ step'[b] = step[b] /\ created'[b] = created[b] /\ booted'[b] = booted[b]
         /\ keep' = keep
<1>0. /\ catalog \in [Names -> Builds \cup {Nobody}] /\ step \in [Builds -> Steps]
      /\ created \in [Builds -> Names \cup {None}] /\ booted \in [Builds -> Builds \cup {Nobody}]
      /\ Nobody \notin Builds
  BY NamesAssumption DEF IInv, TypeOK
<1>1. ASSUME NEW n \in Names, Registers(c, n)
      PROVE  \A m \in Names : catalog'[m] = b <=> catalog[m] = b
  BY <1>0, <1>1 DEF Registers
<1>2. ASSUME created[c] \in Names, catalog[created[c]] = c,
             catalog' = [catalog EXCEPT ![created[c]] = Nobody]
      PROVE  \A m \in Names : catalog'[m] = b <=> catalog[m] = b
  BY <1>0, <1>2
<1>3. CASE Register(c)
  BY <1>0, <1>1, <1>3 DEF Register, Goes
<1>4. CASE RegisteredLate(c)
  BY <1>0, <1>1, <1>4 DEF RegisteredLate
<1>5. CASE CleanupImage(c)
  <2>1. created[c] \in Names /\ catalog[created[c]] = c
    BY <1>0, <1>5 DEF CleanupImage, NothingToDelete, IInv, ImageStays
  <2> QED
    BY <1>0, <1>2, <1>5, <2>1 DEF CleanupImage, Deleted, Goes
<1>6. CASE DeletedLate(c)
  <2>1. created[c] \in Names /\ catalog[created[c]] = c
    BY <1>0, <1>6 DEF DeletedLate, IInv, OnTheWay
  <2> QED
    BY <1>0, <1>2, <1>6, <2>1 DEF DeletedLate, Deleted
<1>7. CASE \/ RegisterFails(c) \/ RegisterGivenUp(c) \/ CreateInstanceFails(c)
           \/ EndOfSteps(c) \/ CleanupNothing(c) \/ CleanupImageFails(c)
  BY <1>0, <1>7 DEF RegisterFails, RegisterGivenUp, CreateInstanceFails, EndOfSteps,
     CleanupNothing, CleanupImageFails, Goes, server
<1>8. CASE CreateInstance(c) \/ CleanupInstance(c)
  BY <1>0, <1>8 DEF CreateInstance, CleanupInstance, Goes
<1> QED
  BY <1>3, <1>4, <1>5, <1>6, <1>7, <1>8 DEF StepOf

\* Nothing has changed as far as b can see.
LEMMA NothingSeen ==
  ASSUME NEW b \in Builds, Seen(b), Seen(b)', step[b] \in Steps,
         \A n \in Names : catalog'[n] = b <=> catalog[n] = b,
         step'[b] = step[b], created'[b] = created[b], booted'[b] = booted[b], keep' = keep
  PROVE  UNCHANGED Own(b)!vars
<1>1. Stage(b)' = Stage(b)
  BY DEF Seen, AtWork, Steps
<1>2. Image(b)' = Image(b)
  BY DEF Seen
<1>3. VM(b)' = VM(b)
  BY DEF VM
<1> QED
  BY <1>1, <1>2, <1>3 DEF Own!vars

\* A step of b itself is a step it could make alone.
LEMMA OwnStep ==
  ASSUME IInv, IInv', NEW b \in Builds, StepOf(b), Seen(b), Seen(b)'
  PROVE  Own(b)!Next \/ UNCHANGED Own(b)!vars
<1>0. /\ catalog \in [Names -> Builds \cup {Nobody}] /\ step \in [Builds -> Steps]
      /\ created \in [Builds -> Names \cup {None}] /\ booted \in [Builds -> Builds \cup {Nobody}]
      /\ Nobody \notin Builds /\ None \notin Names
  BY NamesAssumption DEF IInv, TypeOK
<1>1. ASSUME UNCHANGED <<catalog, created>>
      PROVE  Image(b)' = Image(b)
  BY <1>1 DEF Seen
<1>2. ASSUME UNCHANGED booted
      PROVE  VM(b)' = VM(b)
  BY <1>2 DEF VM
<1>3. CASE Register(b)
  <2>1. PICK n \in Names : Registers(b, n) /\ created' = [created EXCEPT ![b] = n]
    BY <1>3 DEF Register
  <2>2. /\ step[b] = "register" /\ step'[b] = "create" /\ UNCHANGED <<keep, booted>>
        /\ catalog'[n] = b /\ created'[b] # None
    BY <1>0, <1>3, <2>1 DEF Register, Registers, Goes
  <2>3. (\A m \in Names : catalog[m] # b) /\ created[b] = None
    BY <2>2 DEF IInv, Provenance
  <2>4. Image(b) = "absent" /\ Image(b)' = "live"
    BY <2>2, <2>3 DEF Seen
  <2>5. Stage(b) = "building" /\ Stage(b)' = "building"
    BY <2>2 DEF Seen, AtWork
  <2>6. Own(b)!Register
    BY <1>2, <2>2, <2>3, <2>4, <2>5 DEF Own!Register
  <2> QED
    BY <2>6 DEF Own!Next
<1>4. CASE RegisterFails(b) \/ RegisterGivenUp(b) \/ CreateInstanceFails(b) \/ EndOfSteps(b)
  <2>1. /\ step[b] \in {"register", "create", "provision"} /\ step'[b] = "deleteVM"
        /\ UNCHANGED <<keep, booted, catalog, created>>
    BY <1>0, <1>4 DEF RegisterFails, RegisterGivenUp, CreateInstanceFails, EndOfSteps, Goes, server
  <2>2. Stage(b) = "building" /\ Stage(b)' = "teardown"
    BY <2>1 DEF Seen, AtWork
  <2>3. Own(b)!BeginTeardown
    BY <1>1, <1>2, <2>1, <2>2 DEF Own!BeginTeardown
  <2> QED
    BY <2>3 DEF Own!Next
<1>5. CASE RegisteredLate(b)
  <2>1. /\ UNCHANGED <<keep, booted, step, created>> /\ created[b] = None /\ ~AtWork(b)
        /\ \A n \in Names : catalog[n] # b
    BY <1>5 DEF RegisteredLate, IInv, OnTheWay
  <2>2. Stage(b)' = Stage(b) /\ Stage(b) # "building"
    BY <1>0, <2>1 DEF Seen, AtWork, Steps
  <2>3. CASE UNCHANGED catalog
    BY <1>1, <1>2, <2>1, <2>2, <2>3 DEF Own!vars
  <2>4. ASSUME NEW n \in Names, Registers(b, n) PROVE Own(b)!AppearLate
    <3>1. catalog'[n] = b
      BY <1>0, <2>4 DEF Registers
    <3>2. Image(b) = "absent" /\ Image(b)' = "live"
      BY <2>1, <3>1 DEF Seen
    <3> QED
      BY <1>2, <2>1, <2>2, <3>2 DEF Own!AppearLate
  <2> QED
    BY <1>5, <2>3, <2>4 DEF RegisteredLate, Own!Next
<1>6. CASE CreateInstance(b)
  <2>1. /\ step[b] = "create" /\ step'[b] = "provision" /\ UNCHANGED <<keep, catalog, created>>
        /\ booted'[b] = catalog[created[b]]
    BY <1>0, <1>6 DEF CreateInstance, ImageRef, Goes
  <2>2. created[b] \in Names /\ catalog[created[b]] = b
    BY <1>0, <2>1 DEF IInv, TypeOK, ImageStays
  <2>3. Image(b) = "live" /\ Image(b)' = "live"
    BY <2>1, <2>2 DEF Seen
  <2>4. Stage(b) = "building" /\ Stage(b)' = "building"
    BY <2>1 DEF Seen, AtWork
  <2>5. VM(b)' = "own"
    BY <1>0, <2>1, <2>2 DEF VM
  <2>6. Own(b)!Boot
    BY <1>0, <2>1, <2>2, <2>3, <2>4, <2>5 DEF Own!Boot
  <2> QED
    BY <2>6 DEF Own!Next
<1>7. CASE CleanupInstance(b)
  <2>1. /\ step[b] = "deleteVM" /\ step'[b] = "deleteImage" /\ UNCHANGED <<keep, catalog, created>>
    BY <1>0, <1>7 DEF CleanupInstance, Goes
  <2>2. Stage(b) = "teardown" /\ Stage(b)' = "teardown"
    BY <2>1 DEF Seen, AtWork
  <2>3. CASE UNCHANGED booted
    BY <1>1, <1>2, <2>1, <2>2, <2>3 DEF Own!vars
  <2>4. CASE booted' # booted
    <3>1. b \notin keep /\ booted'[b] = Nobody
      BY <1>0, <1>7, <2>4 DEF CleanupInstance
    <3>2. VM(b)' = "none"
      BY <3>1 DEF VM
    <3>3. Own(b)!DropVM
      BY <1>1, <2>1, <2>2, <3>1, <3>2 DEF Own!DropVM
    <3> QED
      BY <3>3 DEF Own!Next
  <2> QED
    BY <2>3, <2>4
<1>8. CASE CleanupNothing(b) \/ CleanupImageFails(b)
  <2>1. /\ step[b] = "deleteImage" /\ step'[b] = "returned"
        /\ UNCHANGED <<keep, booted, catalog, created>>
    BY <1>0, <1>8 DEF CleanupNothing, CleanupImageFails, Goes, server
  <2>2. Stage(b) = "teardown" /\ Stage(b)' = "returned"
    BY <2>1 DEF Seen, AtWork
  <2>3. Own(b)!Return
    BY <1>1, <1>2, <2>1, <2>2 DEF Own!Return
  <2> QED
    BY <2>3 DEF Own!Next
<1>9. ASSUME b \notin keep, created[b] \in Names, catalog[created[b]] = b,
             Stage(b) \in {"teardown", "returned"}, Stage(b)' = "returned",
             catalog' = [catalog EXCEPT ![created[b]] = Nobody],
             UNCHANGED <<keep, booted, created>>
      PROVE  Own(b)!Next
  <2>1. Image(b) = "live"
    BY <1>9 DEF Seen
  <2>2. \A n \in Names : catalog'[n] # b
    BY <1>0, <1>9 DEF IInv, Provenance
  <2>3. Image(b)' = "gone"
    BY <1>0, <1>9, <2>2 DEF Seen
  <2>4. Own(b)!Delete
    BY <1>0, <1>2, <1>9, <2>1, <2>3 DEF Own!Delete
  <2> QED
    BY <2>4 DEF Own!Next
<1>10. CASE CleanupImage(b)
  <2>1. /\ step[b] = "deleteImage" /\ step'[b] = "returned" /\ UNCHANGED <<keep, booted, created>>
        /\ b \notin keep /\ created[b] \in Names
        /\ catalog' = [catalog EXCEPT ![created[b]] = Nobody]
    BY <1>0, <1>10 DEF CleanupImage, NothingToDelete, Deleted, Goes
  <2>2. catalog[created[b]] = b
    BY <1>0, <2>1 DEF IInv, ImageStays
  <2>3. Stage(b) = "teardown" /\ Stage(b)' = "returned"
    BY <2>1 DEF Seen, AtWork
  <2> QED
    BY <1>9, <2>1, <2>2, <2>3
<1>11. CASE DeletedLate(b)
  <2>1. /\ step[b] = "returned" /\ UNCHANGED <<step, keep, booted, created>>
        /\ b \notin keep /\ created[b] \in Names /\ catalog[created[b]] = b
    <3>1. [build |-> b, kind |-> "delete"] \in late /\ UNCHANGED <<step, keep, booted, created>>
      BY <1>11 DEF DeletedLate
    <3>2. /\ step[b] = "returned" /\ b \notin keep
          /\ created[b] # None /\ catalog[created[b]] = b
      BY <3>1 DEF IInv, OnTheWay
    <3> QED
      BY <1>0, <3>1, <3>2
  <2>2. Stage(b) = "returned" /\ Stage(b)' = "returned"
    BY <2>1 DEF Seen, AtWork
  <2>3. CASE UNCHANGED catalog
    BY <1>1, <1>2, <2>1, <2>2, <2>3 DEF Own!vars
  <2>4. CASE catalog' = [catalog EXCEPT ![created[b]] = Nobody]
    BY <1>9, <2>1, <2>2, <2>4
  <2> QED
    BY <1>11, <2>3, <2>4 DEF DeletedLate, Deleted
<1> QED
  BY <1>3, <1>4, <1>5, <1>6, <1>7, <1>8, <1>10, <1>11 DEF StepOf

\* Whoever takes a step, for each build it is one of its own or none.
LEMMA NextPrivate ==
  ASSUME IInv, IInv', \A b \in Builds : Seen(b), (\A b \in Builds : Seen(b))', [Next]_vars
  PROVE  [\A b \in Builds : [Own(b)!Next]_(Own(b)!vars)]_vars
<1>1. CASE UNCHANGED vars
  BY <1>1
<1>2. ASSUME NEW c \in Builds, StepOf(c), NEW b \in Builds
      PROVE  [Own(b)!Next]_(Own(b)!vars)
  <2>1. step[b] \in Steps
    BY DEF IInv, TypeOK
  <2>2. CASE b = c
    BY <1>2, <2>2, OwnStep
  <2>3. CASE b # c
    BY <1>2, <2>1, <2>3, OwnEntryOnly, NothingSeen
  <2> QED
    BY <2>2, <2>3
<1>3. CASE Next
  BY <1>2, <1>3 DEF Next, StepOf
<1> QED
  BY <1>1, <1>3

(* Each build deals with its image as if it were alone (ImagesArePrivate), *)
(* however many builds there are and however their names collide: the      *)
(* catalog implements PrivateImage for every one of them.                  *)
THEOREM CatalogIsPrivate == Spec => ImagesArePrivate
<1>1. Init => \A b \in Builds : Own(b)!Init
  BY InitPrivate
<1>2. IInv => \A b \in Builds : Seen(b)
  BY SeenAlways
<1>3. IInv /\ IInv' /\ (\A b \in Builds : Seen(b)) /\ (\A b \in Builds : Seen(b))' /\ [Next]_vars
        => [\A b \in Builds : [Own(b)!Next]_(Own(b)!vars)]_vars
  BY NextPrivate
<1> QED
  BY <1>1, <1>2, <1>3, CatalogInvariant, PTL DEF Spec, ImagesArePrivate

=============================================================================
