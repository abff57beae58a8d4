--------------------------- MODULE MCAnalyzerInput ---------------------------
(***************************************************************************)
(* AnalyzerInput on one small scan, in windows that show no row or two     *)
(* rows of the collector panel:                                            *)
(*                                                                         *)
(*   0/             4 bytes                                                *)
(*   |- 1/          1                                                      *)
(*   |  '- 2        1                                                      *)
(*   |- 3           2                                                      *)
(*   '- 4           1                                                      *)
(***************************************************************************)
EXTENDS AnalyzerInput

CONSTANT scan

MCTrees == {scan}
MCParent == [t \in MCTrees |-> [n \in 0 .. 4 |-> <<-1, 0, 1, 0, 0>>[n + 1]]]
MCDirectory == [t \in MCTrees |-> {0, 1}]
MCBytes == [t \in MCTrees |-> [n \in 0 .. 4 |-> <<4, 1, 1, 2, 1>>[n + 1]]]
=============================================================================
