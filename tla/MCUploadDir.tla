------------------------------ MODULE MCUploadDir ------------------------------
(***************************************************************************)
(* Configurations of UploadDir for TLC: a directory with two files, a      *)
(* directory of two files and a symlink in it,                             *)
(*                                                                         *)
(*      1 / { 2, 3 / { 4, 5 }, 6 -> , 7 }                                  *)
(*                                                                         *)
(* and what may be the matter with it.                                     *)
(***************************************************************************)
EXTENDS UploadDir

Tree(there, excluded, sealed, linked) ==
  [ size |-> 7,
    up |-> [n \in 1..7 |->
              IF n = 1 THEN {} ELSE IF n \in {4, 5} THEN {1, 3} ELSE {1}],
    kind |-> [n \in 1..7 |->
              IF n \in {1, 3} THEN "dir" ELSE IF n = 6 THEN "other" ELSE "file"],
    there |-> there, excluded |-> excluded, sealed |-> sealed,
    linked |-> linked ]

NoDirectory(there) ==
  [ size |-> 1, up |-> <<{}>>, kind |-> <<"file">>, there |-> there,
    excluded |-> {}, sealed |-> {}, linked |-> FALSE ]

All == 1..7

MCSources ==
  { NoDirectory({}), NoDirectory({1}) } \cup
  { Tree(there, excluded, sealed, linked) :
      there \in {All, All \ {3, 4, 5}, All \ {2}},
      excluded \in {{}, {1}, {2}, {3}, {4}}, sealed \in {{}, {3}, {5}},
      linked \in BOOLEAN }

=============================================================================
