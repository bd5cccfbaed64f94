----------------------------- MODULE MCFileTransfer -----------------------------
(***************************************************************************)
(* Configurations of FileTransfer for TLC: files of up to three chunks, an *)
(* empty one among them.                                                   *)
(***************************************************************************)
EXTENDS FileTransfer

MCTransfers ==
  [ kind : {"upload", "download"}, chunks : 0..3, info : BOOLEAN,
    mode : {"0000", "0644"}, tooLarge : BOOLEAN ]

=============================================================================
