---------------------------- MODULE MCSharedCatalog ----------------------------
(***************************************************************************)
(* Configurations of SharedCatalog for TLC: three builds, two of them with *)
(* one name, and a name more than they ask for.                            *)
(***************************************************************************)
EXTENDS SharedCatalog, TLC

CONSTANTS b1, b2, b3, n1, n2, n3

MCAsked == b1 :> n1 @@ b2 :> n1 @@ b3 :> n2

MCKeeping == {{}, {b1}}

=============================================================================
