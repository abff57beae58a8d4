---------------------------- MODULE MCAnalyzerChart ----------------------------
(***************************************************************************)
(* AnalyzerChart on a small scan.  A chart may have eight arcs, which is   *)
(* less than that of folder 0 would take; 5 and 8 are too small for one.   *)
(* Without 8 the shares of 1 and 7 lie half way between whole angles, and  *)
(* both are rounded up.                                                    *)
(*                                                                         *)
(*   0/               50 bytes                                             *)
(*   |- 1/            27                                                   *)
(*   |  |- 2/         10                                                   *)
(*   |  |  '- 6       10                                                   *)
(*   |  |- 3          9                                                    *)
(*   |  |- 4          6                                                    *)
(*   |  '- 5          2                                                    *)
(*   |- 7/            21                                                   *)
(*   |  '- 9/         21                                                   *)
(*   |     '- 10      21                                                   *)
(*   '- 8             2                                                    *)
(***************************************************************************)
EXTENDS AnalyzerChart

MCTrees == {scan}

FromZero(s) == [n \in 0 .. Len(s) - 1 |-> s[n + 1]]

MCParent == [t \in MCTrees |-> FromZero(<<-1, 0, 1, 1, 1, 1, 2, 0, 0, 7, 9>>)]
MCDirectory == [t \in MCTrees |-> {0, 1, 2, 7, 9}]
MCBytes == [t \in MCTrees |-> FromZero(<<50, 27, 10, 9, 6, 2, 10, 21, 2, 21, 21>>)]

\* rank_children keeps a queue of the best so far; what comes out are the first
\* of all children in order, whatever is collected.
ASSUME RankingIsSorted ==
  \A x \in SUBSET Collectable, n \in Directory[scan], limit \in 1 .. 5 :
    LET inOrder == InOrder(ToSet(CountedChildren(scan, x, n)),
                           LAMBDA a, b : Better(scan, x, a, b))
    IN  RankedChildren(scan, x, n, limit) =
          SubSeq(inOrder, 1, Min({limit, Len(inOrder)}))

MCNodeWidth == FromZero(<<60, 90, 200, 0, 0, 0, 0, 40, 0, 150, 0>>)
=============================================================================
