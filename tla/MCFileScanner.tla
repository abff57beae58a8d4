---------------------------- MODULE MCFileScanner ----------------------------
(***************************************************************************)
(* FileScanner on a small disk.                                            *)
(*                                                                         *)
(*   0/                                                                    *)
(*   |- 1/                                                                 *)
(*   |  |- 2/                                                              *)
(*   |  |  '- 3       5 bytes                                              *)
(*   |  '- 4/ -> 0/   a link to the scanned folder                         *)
(*   |- 5             6 bytes; 7 is all that a counter can hold            *)
(*   '- 6             1 byte, with a name longer than what is left for it  *)
(*                    when all other names are in the tree                 *)
(***************************************************************************)
EXTENDS FileScanner

MCItems == 0 .. 6
MCFolders == {0, 1, 2, 4}
MCContents == [i \in MCItems |-> CASE i \in {0, 4} -> {1, 5, 6}
                                   [] i = 1 -> {2, 4}
                                   [] i = 2 -> {3}
                                   [] OTHER -> {}]
MCFileSize == [i \in MCItems |-> CASE i = 3 -> 5 [] i = 5 -> 6 [] i = 6 -> 1 [] OTHER -> 0]
MCNameLength == [i \in MCItems |-> IF i = 6 THEN 3 ELSE 1]
=============================================================================
