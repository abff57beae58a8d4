-------------------------- MODULE MCAnalyzerSession --------------------------
(***************************************************************************)
(* AnalyzerSession on two small scans.                                     *)
(*                                                                         *)
(*   deep: 0/             7 bytes, all that a counter of MaxBytes = 7 holds*)
(*         |- 1/          3                                                *)
(*         |  |- 2/       2                                                *)
(*         |  |  '- 3     2                                                *)
(*         |  '- 4        1                                                *)
(*         '- 5           4                                                *)
(*                                                                         *)
(*   flat: 0/             3 bytes                                          *)
(*         |- 1/          0, an empty directory                            *)
(*         '- 2           3                                                *)
(***************************************************************************)
EXTENDS AnalyzerSession

CONSTANTS deep, flat

MCTrees == {deep, flat}

FromZero(s) == [n \in 0 .. Len(s) - 1 |-> s[n + 1]]

MCParent ==
  [t \in MCTrees |-> FromZero(IF t = deep THEN <<-1, 0, 1, 2, 1, 0>>
                                          ELSE <<-1, 0, 0>>)]

MCDirectory == [t \in MCTrees |-> IF t = deep THEN {0, 1, 2} ELSE {0, 1}]

MCBytes ==
  [t \in MCTrees |-> FromZero(IF t = deep THEN <<7, 3, 2, 2, 1, 4>>
                                          ELSE <<3, 0, 3>>)]
=============================================================================
