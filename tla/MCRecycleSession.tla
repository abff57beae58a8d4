--------------------------- MODULE MCRecycleSession ---------------------------
(***************************************************************************)
(* RecycleSession on a small scan, with another program that removes the   *)
(* file 2.                                                                 *)
(*                                                                         *)
(*   0/             3 bytes                                                *)
(*   |- 1/          2                                                      *)
(*   |  |- 2        1                                                      *)
(*   |  '- 3        1                                                      *)
(*   '- 4           1                                                      *)
(***************************************************************************)
EXTENDS RecycleSession, Sequences

MCTrees == {scan}

FromZero(s) == [n \in 0 .. Len(s) - 1 |-> s[n + 1]]

MCParent == [t \in MCTrees |-> FromZero(<<-1, 0, 1, 1, 0>>)]
MCDirectory == [t \in MCTrees |-> {0, 1}]
MCBytes == [t \in MCTrees |-> FromZero(<<3, 2, 1, 1, 1>>)]
=============================================================================
