---------------------------- MODULE UploadDirProofs ----------------------------
(***************************************************************************)
(* For every tree, and whatever other processes do to it: what a directory *)
(* upload has put on the VM when it ends, well or not.                     *)
(***************************************************************************)
EXTENDS UploadDir, TLAPS

Up(n) == tree.up[n]

(* What the source's being a tree means to the walk. *)
Shape ==
  /\ tree.size \in Nat \ {0} /\ Nodes(tree) = 1..tree.size
  /\ \A n \in Nodes(tree) :
       /\ Up(n) \subseteq Nodes(tree)
       /\ tree.kind[n] \in Kinds
       /\ n # 1 => 1 \in Up(n)
       /\ \A a \in Up(n) :
            /\ a < n /\ tree.kind[a] = "dir" /\ Up(a) \subseteq Up(n)
            /\ \E c \in Children(tree, a) : c \in Up(n) \cup {n}

(* What exists has existing directories above it. *)
Closed ==
  /\ \A n \in present : Up(n) \subseteq present
  /\ \A n \in steady : Up(n) \subseteq steady

(* The walk is in order: all that is stored comes before the file under    *)
(* way, and that before all that is left to do.                            *)
Ordered ==
  /\ \A t \in todo : (at # 0 => at < t) /\ \A s \in stored : s < t
  /\ at # 0 => \A s \in stored : s <= at

(* Nothing below an excluded directory is ever met.                        *)
Scoped ==
  /\ \A t \in todo : Up(t) \cap tree.excluded = {}
  /\ at # 0 => at \in Nodes(tree) /\ InScope(at)
  /\ \A s \in stored : InScope(s)

(* Control, and a source that is a symlink. *)
Control ==
  /\ phase \in {"stat", "walk"} => at = 0
  /\ phase \in {"open", "send"} => at # 0
  /\ phase = "stat" => todo = {} /\ stored = {}
  /\ err => phase = "done"
  /\ phase = "done" /\ ~err => todo = {} /\ at = 0
  /\ tree.linked => todo \subseteq {1} /\ at = 0 /\ stored = {}

(* No file is forgotten: what has been there all the time is stored, under *)
(* way, left to do, or below a directory that is.                          *)
Under(n) == \E t \in todo : t = n \/ t \in Up(n)

Walked == phase \in {"walk", "open", "send"} \/ (phase = "done" /\ (~err \/ stored # {}))

Covered ==
  Walked /\ ~tree.linked =>
    \A n \in steady : InScope(n) => n \in stored \/ n = at \/ Under(n)

IInv ==
  /\ TypeOK /\ Shape /\ Closed /\ Ordered /\ Scoped /\ Control /\ Covered
  /\ FailureHasACause

-----------------------------------------------------------------------------
(* A source that is a tree has the shape the walk relies on. *)
LEMMA TreeShape == tree \in Sources => Shape
<1> SUFFICES ASSUME tree \in Sources PROVE Shape
  OBVIOUS
<1>1. IsTree(tree)
  BY SourcesAssumption
<1>2. tree.size \in Nat \ {0} /\ tree \in Source(tree.size)
  BY <1>1 DEF IsTree
<1>3. /\ tree.up \in [1..tree.size -> SUBSET (1..tree.size)]
      /\ tree.kind \in [1..tree.size -> Kinds]
  BY <1>2 DEF Source
<1> QED
  BY <1>1, <1>2, <1>3 DEF IsTree, Shape, Nodes, Up

(* The upload starts in the invariant. *)
LEMMA InitInvariant == Init => IInv
<1> SUFFICES ASSUME Init PROVE IInv
  OBVIOUS
<1>1. Shape
  BY TreeShape DEF Init
<1>2. IsTree(tree) /\ tree \in Source(tree.size)
  BY SourcesAssumption DEF Init, IsTree
<1>3. tree.there \subseteq Nodes(tree) /\ \A n \in tree.there : Up(n) \subseteq tree.there
  BY <1>2 DEF IsTree, Source, Nodes, Up
<1>4. 0 \notin Nodes(tree)
  BY <1>1 DEF Shape
<1> QED
  BY <1>1, <1>3, <1>4
     DEF Init, IInv, TypeOK, Closed, Ordered, Scoped, Control, Covered, Walked,
         FailureHasACause

(* What other processes do keeps the invariant. *)
LEMMA OthersKeepInvariant ==
  ASSUME IInv, NEW n \in Nodes(tree), Vanish(n) \/ Appear(n)
  PROVE  IInv'
<1> USE DEF IInv, Up, Nodes, Children, InScope
<1>1. /\ UNCHANGED <<tree, cancelled, phase, todo, at, stored, err, blame>>
      /\ steady' \subseteq steady
  BY DEF Vanish, Appear, TypeOK
<1>2. Shape' /\ Ordered' /\ Scoped' /\ Control'
  BY <1>1 DEF Shape, Ordered, Scoped, Control
<1>3. Covered'
  BY <1>1 DEF Covered, Walked, Under
<1>4. FailureHasACause'
  BY <1>1 DEF FailureHasACause
<1>5. CASE Vanish(n)
  <2> DEFINE below == {m \in Nodes(tree) : n \in tree.up[m]} \cup {n}
  <2>1. present' = present \ below /\ steady' = steady \ below
    BY <1>5 DEF Vanish
  <2>2. \A m \in Nodes(tree) \ below : Up(m) \cap below = {}
    BY DEF Shape
  <2>3. Closed' /\ TypeOK'
    BY <1>1, <2>1, <2>2 DEF Closed, TypeOK
  <2> QED
    BY <1>2, <1>3, <1>4, <2>3
<1>6. CASE Appear(n)
  <2>1. Closed' /\ TypeOK'
    BY <1>1, <1>6 DEF Appear, Closed, TypeOK
  <2> QED
    BY <1>2, <1>3, <1>4, <2>1
<1> QED
  BY <1>5, <1>6

(* A failure keeps the invariant, if it has a cause and came to what was   *)
(* under way.                                                              *)
LEMMA FailureKeepsInvariant ==
  ASSUME IInv, NEW n \in Nodes(tree), FailsOn(n),
         ~err, phase # "done", phase = "stat" => stored' = {},
         \/ stored' = stored
         \/ at # 0 /\ stored' = stored \cup {at},
         \/ n \notin steady \/ n \in tree.sealed
         \/ n = 1 /\ tree.kind[1] # "dir"
         \/ n = at /\ at # 0
  PROVE  IInv'
<1> USE DEF IInv, FailsOn, disk
<1>1. UNCHANGED <<tree, present, steady, cancelled, todo, at>> /\ err' /\ phase' = "done"
  OBVIOUS
<1>2. TypeOK'
  BY <1>1 DEF TypeOK, Nodes
<1>3. Shape' /\ Closed'
  BY <1>1 DEF Shape, Closed, Up, Nodes, Children
<1>4. Ordered'
  BY <1>1 DEF Ordered, TypeOK, Shape
<1>5. Scoped' /\ Control'
  BY <1>1 DEF Scoped, Control, Up, Nodes, InScope
<1>6. Covered'
  BY <1>1 DEF Covered, Walked, Under, Up, InScope, TypeOK, Control
<1>7. FailureHasACause'
  BY <1>1 DEF FailureHasACause, Scoped, InScope
<1> QED
  BY <1>2, <1>3, <1>4, <1>5, <1>6, <1>7

(* A visit of the walk keeps it: nothing is dropped from what is left to   *)
(* do but what is out of scope, or has its entries put in its place.       *)
LEMMA VisitKeepsInvariant ==
  ASSUME IInv, NEW n \in todo, WalkError(n) \/ PassOver(n) \/ EnterDir(n) \/ PickFile(n)
  PROVE  IInv'
<1>1. /\ phase = "walk" /\ at = 0 /\ ~err /\ n \in Nodes(tree) /\ n \in Nat /\ n # 0
      /\ \A m \in todo : n <= m
  BY DEF WalkError, PassOver, EnterDir, PickFile, Walkable, Visiting, IInv, TypeOK, Control, Shape
<1>2. CASE WalkError(n)
  BY <1>1, <1>2, FailureKeepsInvariant DEF WalkError, Unwalkable, IInv, TypeOK
<1>3. CASE PassOver(n)
  <2>1. /\ UNCHANGED <<tree, present, steady, cancelled, phase, at, stored, err, blame>>
        /\ todo' = todo \ {n}
    BY <1>3 DEF PassOver, Left, disk
  <2>2. TypeOK' /\ Shape' /\ Closed' /\ Ordered' /\ Scoped' /\ Control' /\ FailureHasACause'
    BY <1>1, <2>1
       DEF IInv, TypeOK, Shape, Closed, Ordered, Scoped, Control, FailureHasACause, Up, Nodes,
           Children, InScope
  <2>3. ASSUME ~tree.linked, NEW m \in steady, InScope(m), n = m \/ n \in Up(m) PROVE FALSE
    BY <1>1, <1>3, <2>3 DEF PassOver, Skipped, Lkind, InScope, IInv, Shape, TypeOK, Up
  <2>4. Covered'
    BY <1>1, <2>1, <2>3 DEF IInv, Covered, Walked, Under, Up, InScope
  <2> QED
    BY <2>2, <2>4 DEF IInv
<1>4. CASE EnterDir(n)
  <2>1. /\ UNCHANGED <<tree, present, steady, cancelled, phase, at, stored, err, blame>>
        /\ todo' = (todo \ {n}) \cup Entries(n)
        /\ ~tree.linked \/ n # 1
        /\ tree.kind[n] = "dir" /\ n \notin tree.excluded
    BY <1>4 DEF EnterDir, Left, disk, Walkable, Skipped, Lkind
  <2>2. \A c \in Entries(n) : c \in Nodes(tree) /\ n < c /\ Up(c) = Up(n) \cup {n}
    BY <1>1 DEF Entries, Children, IInv, Shape, Up
  <2>3. ~tree.linked
    BY <2>1 DEF IInv, Control
  <2>4. TypeOK' /\ Shape' /\ Closed' /\ Scoped' /\ Control' /\ FailureHasACause'
    <3>0. 0 \notin Nodes(tree) /\ Nodes(tree)' = Nodes(tree)
      BY <2>1 DEF IInv, Shape, Nodes
    <3>1. TypeOK'
      BY <1>1, <2>1, <2>2, <3>0 DEF IInv, TypeOK
    <3>2. Shape' /\ Closed'
      BY <2>1 DEF IInv, Shape, Closed, Up, Nodes, Children
    <3>3. Up(n) \cap tree.excluded = {}
      BY DEF IInv, Scoped
    <3>4. Scoped'
      BY <1>1, <2>1, <2>2, <3>3 DEF IInv, Scoped, Up, Nodes, InScope
    <3>5. Control' /\ FailureHasACause'
      BY <1>1, <2>1, <2>3 DEF IInv, Control, FailureHasACause
    <3> QED
      BY <3>1, <3>2, <3>4, <3>5
  <2>5. Ordered'
    <3>1. \A c \in Entries(n), s \in stored : s < c
      BY <1>1, <2>2 DEF IInv, Ordered, TypeOK, Shape
    <3> QED
      BY <1>1, <2>1, <3>1 DEF IInv, Ordered
  <2>6. ASSUME NEW m \in steady, InScope(m), n = m \/ n \in Up(m)
        PROVE  \E c \in Entries(n) : c = m \/ c \in Up(m)
    <3>1. n \in Up(m) /\ m \in Nodes(tree)
      BY <2>1, <2>6 DEF InScope, IInv, TypeOK
    <3>2. PICK c \in Children(tree, n) : c \in Up(m) \cup {m}
      BY <3>1 DEF IInv, Shape
    <3>3. c \in present
      BY <3>2 DEF IInv, Closed, TypeOK
    <3> QED
      BY <3>2, <3>3 DEF Entries
  <2>7. Covered'
    BY <1>1, <2>1, <2>6 DEF IInv, Covered, Walked, Under, Up, InScope
  <2> QED
    BY <2>4, <2>5, <2>7 DEF IInv
<1>5. CASE PickFile(n)
  <2>1. /\ UNCHANGED <<tree, present, steady, cancelled, stored, err, blame>>
        /\ todo' = todo \ {n} /\ at' = n /\ phase' = "open"
        /\ tree.kind[n] = "file" /\ n \notin tree.excluded /\ ~(tree.linked /\ n = 1)
    BY <1>5 DEF PickFile, Left, disk, Walkable, Skipped, Lkind
  <2>2. InScope(n) /\ ~tree.linked
    BY <2>1 DEF InScope, IInv, Scoped, Control, Up
  <2>3. TypeOK' /\ Shape' /\ Closed' /\ Scoped' /\ Control' /\ FailureHasACause'
    BY <1>1, <2>1, <2>2
       DEF IInv, TypeOK, Shape, Closed, Scoped, Control, FailureHasACause, Up, Nodes,
           Children, InScope
  <2>4. Ordered'
    <3>1. \A t \in todo : t \in Nat
      BY DEF IInv, TypeOK, Shape
    <3>2. \A s \in stored : s \in Nat
      BY DEF IInv, TypeOK, Shape
    <3> QED
      BY <1>1, <2>1, <3>1, <3>2 DEF IInv, Ordered
  <2>5. Covered'
    <3>1. \A m : n \in Up(m) => ~(m \in Nodes(tree) /\ InScope(m))
      BY <1>1, <2>1 DEF IInv, Shape
    <3> QED
      BY <1>1, <2>1, <3>1 DEF IInv, Covered, Walked, Under, Up, InScope, TypeOK, Nodes
  <2> QED
    BY <2>3, <2>4, <2>5 DEF IInv
<1> QED
  BY <1>2, <1>3, <1>4, <1>5

(* Every step keeps the invariant. *)
LEMMA NextInvariant == IInv /\ [Next]_vars => IInv'
<1> SUFFICES ASSUME IInv, [Next]_vars PROVE IInv'
  OBVIOUS
<1>1. ASSUME NEW n \in Nodes(tree), Vanish(n) \/ Appear(n) PROVE IInv'
  BY <1>1, OthersKeepInvariant
<1>2. CASE Cancel \/ UNCHANGED vars
  <2>1. /\ UNCHANGED <<tree, present, steady, phase, todo, at, stored, err, blame>>
        /\ cancelled' \in BOOLEAN
    BY <1>2 DEF Cancel, vars, disk, IInv, TypeOK
  <2>2. TypeOK' /\ Shape' /\ Closed'
    BY <2>1 DEF IInv, TypeOK, Shape, Closed, Up, Nodes, Children
  <2>3. Ordered' /\ Scoped' /\ Control'
    BY <2>1 DEF IInv, Ordered, Scoped, Control, Up, Nodes, InScope
  <2>4. Covered' /\ FailureHasACause'
    BY <2>1 DEF IInv, Covered, Walked, Under, FailureHasACause, Up, InScope
  <2> QED
    BY <2>2, <2>3, <2>4 DEF IInv
<1>3. CASE StatSource
  <2>1. phase = "stat" /\ stored = {} /\ todo = {} /\ at = 0 /\ ~err /\ 1 \in Nodes(tree)
    BY <1>3 DEF StatSource, IInv, Control, Shape
  <2>2. CASE 1 \in present /\ tree.kind[1] = "dir"
    <3>1. /\ UNCHANGED <<tree, present, steady, cancelled, at, stored, err, blame>>
          /\ phase' = "walk" /\ todo' = {1}
      BY <1>3, <2>2 DEF StatSource, disk
    <3>2. Up(1) = {}
      BY <2>1 DEF IInv, Shape
    <3>3. TypeOK'
      BY <2>1, <3>1 DEF IInv, TypeOK, Nodes
    <3>5. Shape' /\ Closed'
      BY <3>1 DEF IInv, Shape, Closed, Up, Nodes, Children
    <3>6. Ordered' /\ Scoped'
      BY <2>1, <3>1, <3>2 DEF Ordered, Scoped, Up
    <3>7. Control' /\ FailureHasACause'
      BY <2>1, <3>1 DEF IInv, Control, FailureHasACause, InScope
    <3>4. Covered'
      BY <2>1, <3>1 DEF IInv, Covered, Under, Up, TypeOK, Shape
    <3> QED
      BY <3>3, <3>4, <3>5, <3>6, <3>7 DEF IInv
  <2>3. CASE ~(1 \in present /\ tree.kind[1] = "dir")
    BY <1>3, <2>1, <2>3, FailureKeepsInvariant DEF StatSource, IInv, TypeOK
  <2> QED
    BY <2>2, <2>3
<1>4. CASE Visit
  BY <1>4, VisitKeepsInvariant DEF Visit
<1>5. CASE OpenFile
  <2>1. phase = "open" /\ ~err /\ at # 0 /\ at \in Nodes(tree)
    BY <1>5 DEF OpenFile, IInv, Control, Scoped
  <2>2. CASE at \in present \ tree.sealed
    <3>1. UNCHANGED <<tree, present, steady, cancelled, todo, at, stored, err, blame>>
          /\ phase' = "send"
      BY <1>5, <2>2 DEF OpenFile, disk
    <3> QED
      BY <2>1, <3>1
         DEF IInv, TypeOK, Shape, Closed, Ordered, Scoped, Control, Covered, Walked, Under,
             FailureHasACause, Up, Nodes, Children, InScope
  <2>3. CASE ~(at \in present \ tree.sealed)
    BY <1>5, <2>1, <2>3, FailureKeepsInvariant DEF OpenFile, IInv, TypeOK
  <2> QED
    BY <2>2, <2>3
<1>6. CASE WalkEnds
  BY <1>6
     DEF WalkEnds, disk, IInv, TypeOK, Shape, Closed, Ordered, Scoped, Control, Covered,
         Walked, Under, FailureHasACause, Up, Nodes, Children, InScope
<1>7. CASE Sent
  <2>1. /\ UNCHANGED <<tree, present, steady, cancelled, todo, err, blame>>
        /\ phase = "send" /\ phase' = "walk" /\ at' = 0 /\ stored' = stored \cup {at}
        /\ at # 0 /\ at \in Nodes(tree) /\ InScope(at) /\ ~tree.linked
    BY <1>7 DEF Sent, disk, IInv, Control, Scoped
  <2>2. TypeOK' /\ Shape' /\ Closed' /\ Ordered' /\ Scoped' /\ Control' /\ FailureHasACause'
    BY <2>1
       DEF IInv, TypeOK, Shape, Closed, Ordered, Scoped, Control, FailureHasACause, Up, Nodes,
           Children, InScope
  <2>3. Covered'
    BY <2>1 DEF IInv, Covered, Walked, Under, Up, InScope
  <2> QED
    BY <2>2, <2>3 DEF IInv
<1>8. CASE SendFails \/ SendCancelled
  <2>1. phase = "send" /\ at # 0 /\ at \in Nodes(tree) /\ ~err
    BY <1>8 DEF SendFails, SendCancelled, IInv, Control, Scoped
  <2> QED
    BY <1>8, <2>1, FailureKeepsInvariant DEF SendFails, SendCancelled
<1> QED
  BY <1>1, <1>2, <1>3, <1>4, <1>5, <1>6, <1>7, <1>8 DEF Next

(* IInv holds in every reachable state, for every source.                  *)
THEOREM WalkInvariant == Spec => []IInv
  BY InitInvariant, NextInvariant, PTL DEF Spec

-----------------------------------------------------------------------------
(* Type correctness of an upload. *)
THEOREM UploadTypes == Spec => []TypeOK
<1>1. IInv => TypeOK BY DEF IInv
<1> QED BY <1>1, WalkInvariant, PTL

(* An upload that reports success has put every file in scope on the VM.   *)
THEOREM UploadIsComplete == Spec => []UploadComplete
<1>1. IInv => UploadComplete
  BY DEF IInv, UploadComplete, Covered, Walked, Under, Control, TypeOK, Shape
<1> QED BY <1>1, WalkInvariant, PTL

(* What is on the VM is an initial part of the walk. *)
THEOREM PartialUploadIsPrefix == Spec => []PartialIsPrefix
<1>1. IInv => PartialIsPrefix
  <2> SUFFICES ASSUME IInv, NEW n \in stored,
                      NEW m \in steady, m < n, InScope(m), m \notin stored
               PROVE  FALSE
    BY DEF IInv, Scoped, PartialIsPrefix
  <2>1. Walked /\ ~tree.linked
    BY DEF IInv, Control, Walked, TypeOK
  <2>2. m \in Nat /\ n \in Nat /\ m \in Nodes(tree) /\ \A t \in todo : t \in Nat
    BY DEF IInv, TypeOK, Shape
  <2>3. m # at
    BY <2>2 DEF IInv, Ordered, Scoped, Shape
  <2>4. PICK t \in todo : t = m \/ t \in Up(m)
    BY <2>1, <2>3 DEF IInv, Covered, Under
  <2>5. t <= m
    BY <2>2, <2>4 DEF IInv, Shape
  <2> QED
    BY <2>2, <2>5 DEF IInv, Ordered
<1> QED BY <1>1, WalkInvariant, PTL

(* A failure has a cause the caller can see. *)
THEOREM FailuresHaveCauses == Spec => []FailureHasACause
<1>1. IInv => FailureHasACause BY DEF IInv
<1> QED BY <1>1, WalkInvariant, PTL

=============================================================================
