------------------------------- MODULE UploadDir -------------------------------
(***************************************************************************)
(* agentCommunicator.UploadDir: a walk over a local directory that sends   *)
(* every plain file it meets to the VM, one agent call at a time, while    *)
(* other processes may add and remove files, the server may refuse, lose   *)
(* or sit on a call, and the build may be cancelled.                       *)
(*                                                                         *)
(* The nodes of a tree are numbered in the order filepath.Walk visits them *)
(* (a directory, then its entries by name), 1 is the source itself.  What  *)
(* the walk still has before it is the set "todo" of entries it has listed *)
(* and not yet visited; it always goes on with the least of them.          *)
(***************************************************************************)
EXTENDS Integers

Kinds == {"dir", "file", "other"}      \* "other": a symlink, device or socket

(* up[n]: the proper ancestors of n; there: what exists when the upload    *)
(* starts; excluded: the nodes whose base name is in the exclude list;     *)
(* sealed: what cannot be read for want of permission; linked: the source  *)
(* is a symlink to the directory.                                          *)
Source(size) ==
  [ size : {size}, up : [1..size -> SUBSET (1..size)], kind : [1..size -> Kinds],
    there : SUBSET (1..size), excluded : SUBSET (1..size), sealed : SUBSET (1..size),
    linked : BOOLEAN ]

Nodes(t) == 1..t.size

(* A tree: ancestors come first, only directories have entries, and below  *)
(* an ancestor every node has one branch to go down.                       *)
Children(t, n) == {c \in Nodes(t) : n \in t.up[c] /\ t.up[c] = t.up[n] \cup {n}}

IsTree(t) ==
  /\ t.size \in Nat \ {0} /\ t \in Source(t.size)
  /\ \A n \in Nodes(t) :
       /\ n # 1 => 1 \in t.up[n]
       /\ \A a \in t.up[n] :
            /\ a < n /\ t.kind[a] = "dir" /\ t.up[a] \subseteq t.up[n]
            /\ \E c \in Children(t, a) : c \in t.up[n] \cup {n}
       /\ n \in t.there => t.up[n] \subseteq t.there

CONSTANTS
  Sources,      \* the local sources a run of the model explores
  Unsettled     \* bound: the nodes other processes may add and remove

ASSUME SourcesAssumption == \A t \in Sources : IsTree(t)

VARIABLES
  tree,       \* the local source of the call
  present,    \* nodes that exist now
  steady,     \* history: nodes that have existed since the upload began
  cancelled,  \* the build context, which is the communicator's, is done
  phase,      \* "stat", "walk", "open" and "send" (one file), "done"
  todo,       \* entries listed and not yet visited
  at,         \* the file under way, or 0
  stored,     \* files the VM holds in full
  err,        \* UploadDir returned an error
  blame       \* the node that made the walk fail, or 0

disk == <<tree, present, steady>>
vars == <<disk, cancelled, phase, todo, at, stored, err, blame>>

\* What Lstat tells of a node: unlike Stat, it does not follow the source.
Lkind(n) == IF n = 1 /\ tree.linked THEN "other" ELSE tree.kind[n]

Entries(n) == Children(tree, n) \cap present

\* The node the walk visits next.
Visiting(n) == phase = "walk" /\ n \in todo /\ \A m \in todo : n <= m

Init ==
  /\ tree \in Sources
  /\ present = tree.there /\ steady = tree.there
  /\ cancelled = FALSE
  /\ phase = "stat" /\ todo = {} /\ at = 0
  /\ stored = {}
  /\ err = FALSE /\ blame = 0

-----------------------------------------------------------------------------
(***************************************************************************)
(* Other processes, and the user.                                          *)
(***************************************************************************)
Vanish(n) ==
  /\ n \in present \cap Unsettled /\ phase # "done"
  /\ LET below == {m \in Nodes(tree) : n \in tree.up[m]} \cup {n} IN
       present' = present \ below /\ steady' = steady \ below
  /\ UNCHANGED <<tree, cancelled, phase, todo, at, stored, err, blame>>

Appear(n) ==
  /\ n \in (Nodes(tree) \cap Unsettled) \ present /\ tree.up[n] \subseteq present
  /\ phase # "done"
  /\ present' = present \cup {n}
  /\ UNCHANGED <<tree, steady, cancelled, phase, todo, at, stored, err, blame>>

Cancel ==
  /\ ~cancelled /\ phase # "done"
  /\ cancelled' = TRUE
  /\ UNCHANGED <<disk, phase, todo, at, stored, err, blame>>

-----------------------------------------------------------------------------
(***************************************************************************)
(* UploadDir and the function it gives to filepath.Walk.                   *)
(***************************************************************************)
FailsOn(n) ==
  /\ phase' = "done" /\ err' = TRUE /\ blame' = n
  /\ UNCHANGED <<disk, cancelled, todo, at>>

\* os.Stat follows a symlink; anything but a directory is refused.
StatSource ==
  /\ phase = "stat"
  /\ IF 1 \in present /\ tree.kind[1] = "dir"
     THEN /\ phase' = "walk" /\ todo' = {1}
          /\ UNCHANGED <<disk, cancelled, at, stored, err, blame>>
     ELSE FailsOn(1) /\ UNCHANGED stored

\* Lstat of an entry fails once it is gone, and so does listing a directory
\* that cannot be read; either comes before the exclude list is looked at.
Unwalkable(n) == n \notin present \/ (Lkind(n) = "dir" /\ n \in tree.sealed)

WalkError(n) ==
  /\ Visiting(n) /\ Unwalkable(n)
  /\ FailsOn(n) /\ UNCHANGED stored

\* Mutant: only files are matched against the exclude list.
SkippedFilesOnly(n) == n \in tree.excluded /\ Lkind(n) = "file"

Skipped(n) == n \in tree.excluded

\* Mutant: SkipDir is returned for an excluded file too, and takes its
\* remaining siblings with it.
LeftWithoutSiblings(n) ==
  {m \in todo \ {n} : n \in tree.excluded => tree.up[m] # tree.up[n]}

Left(n) == todo \ {n}

Walkable(n) == Visiting(n) /\ ~Unwalkable(n)

\* Nothing is sent for an excluded node, a symlink, a device or a socket.
PassOver(n) ==
  /\ Walkable(n)
  /\ Skipped(n) \/ Lkind(n) = "other"
  /\ todo' = Left(n)
  /\ UNCHANGED <<disk, cancelled, phase, at, stored, err, blame>>

\* Mutant: the directories in a directory are not entered.
EnterDirFlat(n) ==
  /\ Walkable(n) /\ ~Skipped(n) /\ Lkind(n) = "dir"
  /\ todo' = Left(n) \cup {c \in Entries(n) : tree.kind[c] # "dir"}
  /\ UNCHANGED <<disk, cancelled, phase, at, stored, err, blame>>

EnterDir(n) ==
  /\ Walkable(n) /\ ~Skipped(n) /\ Lkind(n) = "dir"
  /\ todo' = Left(n) \cup Entries(n)
  /\ UNCHANGED <<disk, cancelled, phase, at, stored, err, blame>>

\* Mutant: the entry stays in what is left to do.
PickFileAgain(n) ==
  /\ Walkable(n) /\ ~Skipped(n) /\ Lkind(n) = "file"
  /\ phase' = "open" /\ at' = n
  /\ UNCHANGED <<disk, cancelled, todo, stored, err, blame>>

PickFile(n) ==
  /\ Walkable(n) /\ ~Skipped(n) /\ Lkind(n) = "file"
  /\ phase' = "open" /\ at' = n
  /\ todo' = Left(n)
  /\ UNCHANGED <<disk, cancelled, stored, err, blame>>

OpenFile ==
  /\ phase = "open"
  /\ IF at \in present \ tree.sealed
     THEN /\ phase' = "send"
          /\ UNCHANGED <<disk, cancelled, todo, at, stored, err, blame>>
     ELSE FailsOn(at) /\ UNCHANGED stored

-----------------------------------------------------------------------------
(***************************************************************************)
(* The call of UploadFile for the file under way: stored and answered,     *)
(* stored with the answer lost, refused or broken, or cut off by the       *)
(* context.  A done context lets no call succeed that has not already.     *)
(***************************************************************************)
Sent ==
  /\ phase = "send"
  /\ stored' = stored \cup {at}
  /\ phase' = "walk" /\ at' = 0
  /\ UNCHANGED <<disk, cancelled, todo, err, blame>>

\* Mutant: a failed call is made again.
SendFailsRetries ==
  /\ phase = "send"
  /\ phase' = "open"
  /\ UNCHANGED <<disk, cancelled, todo, at, stored, err, blame>>

SendFails ==
  /\ phase = "send"
  /\ FailsOn(at)
  /\ stored' \in {stored, stored \cup {at}}

\* Mutant: the request is built without the communicator's context.
SendCancelledWithoutCtx == FALSE

\* The server may complete a call the client has given up; it is counted here.
SendCancelled ==
  /\ phase = "send" /\ cancelled
  /\ FailsOn(at)
  /\ stored' \in {stored, stored \cup {at}}

WalkEnds ==
  /\ phase = "walk" /\ todo = {}
  /\ phase' = "done"
  /\ UNCHANGED <<disk, cancelled, todo, at, stored, err, blame>>

-----------------------------------------------------------------------------
Visit == \E n \in todo : WalkError(n) \/ PassOver(n) \/ EnterDir(n) \/ PickFile(n)

Next ==
  \/ \E n \in Nodes(tree) : Vanish(n) \/ Appear(n)
  \/ Cancel
  \/ StatSource \/ Visit \/ OpenFile \/ WalkEnds
  \/ Sent \/ SendFails \/ SendCancelled

Spec == Init /\ [][Next]_vars

(* The goroutine runs on; the HTTP client gives up a call when the context *)
(* is done.                                                                *)
ClientFairness ==
  /\ WF_vars(StatSource \/ Visit \/ OpenFile \/ WalkEnds)
  /\ WF_vars(SendCancelled)

FairSpec == Spec /\ ClientFairness

(* The server comes to some answer to each file, or drops the connection.  *)
ServerFairness == WF_vars(Sent \/ SendFails)

-----------------------------------------------------------------------------
(***************************************************************************)
(* Properties.                                                             *)
(***************************************************************************)
(* What the caller asked for: the plain files that neither themselves nor  *)
(* by a directory above them are excluded.                                 *)
InScope(n) == tree.kind[n] = "file" /\ (tree.up[n] \cup {n}) \cap tree.excluded = {}

(* The type invariant: one file under way at a time, and none of it in     *)
(* what is left to do.                                                     *)
TypeOK ==
  /\ tree \in Sources
  /\ present \subseteq Nodes(tree) /\ steady \subseteq present
  /\ cancelled \in BOOLEAN /\ err \in BOOLEAN
  /\ phase \in {"stat", "walk", "open", "send", "done"}
  /\ todo \subseteq Nodes(tree)
  /\ at \in (Nodes(tree) \cup {0}) \ todo
  /\ blame \in Nodes(tree) \cup {0}
  /\ stored \subseteq Nodes(tree)

(* An upload that reports success has put every file in scope on the VM    *)
(* that was there from its beginning to its end - whatever came and went   *)
(* around it.  If the source is itself a symlink, which os.Stat follows    *)
(* and filepath.Walk does not, success means that nothing was sent.        *)
UploadComplete ==
  phase = "done" /\ ~err =>
    IF tree.linked THEN stored = {} ELSE {n \in steady : InScope(n)} \subseteq stored

(* Where it stops early it leaves an initial part of the walk, with no     *)
(* hole: every file on the VM was in scope, and every file in scope that   *)
(* comes before it, and did not go away meanwhile, is on the VM as well.   *)
PartialIsPrefix ==
  \A n \in stored :
    /\ InScope(n)
    /\ \A m \in steady : m < n /\ InScope(m) => m \in stored

(* A failure has a cause the caller can see: a node that was not there any *)
(* more, could not be read or is no directory - the walk looks at that     *)
(* before it looks at the exclude list - or the call for the very file     *)
(* that was under way, which is not excluded.                              *)
FailureHasACause ==
  err => \/ blame \notin steady \/ blame \in tree.sealed
         \/ blame = 1 /\ tree.kind[1] # "dir"
         \/ blame = at /\ InScope(at)

(* Every upload returns, if the server ends each call in some way.  A      *)
(* cancelled one returns even if the server is mute: streamHC has no       *)
(* timeout, and nothing between two files looks at the context.            *)
UploadReturns ==
  /\ ServerFairness => <>(phase = "done")
  /\ cancelled ~> phase = "done"

(* communicator_agent.go:90-93: UploadDir "recursively uploads the         *)
(* contents of src to dst" and "mirrors rsync(1) semantics", for any       *)
(* source that passes the check before the walk.                           *)
ContentsUploaded ==
  phase = "done" /\ ~err => {n \in steady : InScope(n)} \subseteq stored

=============================================================================
