-------------------------- MODULE AnalyzerNavigation --------------------------
(***************************************************************************)
(* AnalyzerNavigationState (app/analyzer_navigation.cpp) and the bounded   *)
(* AnalyzerHistory it holds (app/analyzer_history.cpp), as operators on    *)
(* the record                                                              *)
(*                                                                         *)
(*   [view, root, selected, history |-> [entries, cursor]].                *)
(*                                                                         *)
(* cursor counts from 1 and is 0 while the history is empty; the code      *)
(* counts from 0.                                                          *)
(***************************************************************************)
EXTENDS ReviewSet, Sequences

CONSTANT HistoryCapacity  \* AnalyzerHistory::capacity, 128 in the code

ASSUME HistoryCapacityAssumption == HistoryCapacity \in Nat \ {0, 1}

Views == {"Overview", "Analyzer"}

\* What AnalyzerHistory can hold.
Histories == [entries : Seq([view : Views, node : Int]), cursor : Nat]

OverviewEntry == [view |-> "Overview", node |-> invalid_node]
AnalyzerEntry(n) == [view |-> "Analyzer", node |-> n]

EmptyHistory == [entries |-> <<>>, cursor |-> 0]

\* AnalyzerHistory::reset
HistoryOf(entry) == [entries |-> <<entry>>, cursor |-> 1]

\* A seeded fault: a place is recorded although it is the current one.
RecordedAgain(history, entry) ==
  [entries |-> Append(SubSeq(history.entries, 1, history.cursor), entry),
   cursor |-> history.cursor + 1]

\* AnalyzerHistory::record: repeats nothing, forgets the entries after the
\* cursor, and drops the oldest entry when the history is full.
Recorded(history, entry) ==
  IF history.entries = <<>> THEN HistoryOf(entry)
  ELSE IF history.entries[history.cursor] = entry THEN history
  ELSE LET past == SubSeq(history.entries, 1, history.cursor)
           kept == IF Len(past) = HistoryCapacity THEN Tail(past) ELSE past
       IN  [entries |-> Append(kept, entry), cursor |-> Len(kept) + 1]

-----------------------------------------------------------------------------
NoNavigation == [view |-> "Overview", root |-> invalid_node,
                 selected |-> invalid_node, history |-> EmptyHistory]

\* open_analyzer on node 0 of a scan.
Opened ==
  [view |-> "Analyzer", root |-> Root, selected |-> Root,
   history |-> Recorded(HistoryOf(OverviewEntry), AnalyzerEntry(Root))]

VisibleDirectory(t, excluded, n) ==
  n \in Directory[t] /\ IsVisible(t, excluded, n)

VisibleEntry(t, excluded, entry) ==
  entry.view = "Overview" \/ VisibleDirectory(t, excluded, entry.node)

\* The history positions before and after the cursor that are not hidden.
EarlierEntries(nav, t, excluded) ==
  {i \in 1 .. nav.history.cursor - 1 :
     VisibleEntry(t, excluded, nav.history.entries[i])}

LaterEntries(nav, t, excluded) ==
  {i \in nav.history.cursor + 1 .. Len(nav.history.entries) :
     VisibleEntry(t, excluded, nav.history.entries[i])}

NavigationCanBack(nav, t, excluded) == EarlierEntries(nav, t, excluded) # {}
NavigationCanForward(nav, t, excluded) == LaterEntries(nav, t, excluded) # {}

\* apply_history_entry for the visible entry at position i.
MovedTo(nav, i) ==
  LET entry == nav.history.entries[i]
  IN  [view |-> entry.view, root |-> entry.node, selected |-> entry.node,
       history |-> [nav.history EXCEPT !.cursor = i]]

\* move_through_history: the cursor steps over hidden entries; when there is
\* none to show it is left at the end of the history.
MovedBack(nav, t, excluded) ==
  LET earlier == EarlierEntries(nav, t, excluded)
  IN  IF earlier # {}
      THEN MovedTo(nav, CHOOSE i \in earlier : \A j \in earlier : j <= i)
      ELSE [nav EXCEPT !.history.cursor = IF @ = 0 THEN 0 ELSE 1]

MovedForward(nav, t, excluded) ==
  LET later == LaterEntries(nav, t, excluded)
  IN  IF later # {}
      THEN MovedTo(nav, CHOOSE i \in later : \A j \in later : i <= j)
      ELSE [nav EXCEPT !.history.cursor = Len(nav.history.entries)]

\* ReturnToOverview
ReturnedToOverview(nav) ==
  [view |-> "Overview", root |-> invalid_node, selected |-> invalid_node,
   history |-> Recorded(nav.history, OverviewEntry)]

\* NavigateBreadcrumb, NavigateToNode and NavigateToParent
NavigatedTo(nav, n) ==
  [nav EXCEPT !.root = n, !.selected = n,
              !.history = Recorded(@, AnalyzerEntry(n))]

-----------------------------------------------------------------------------
\* A seeded fault: the way up always ends at the scanned folder.
TopDirectory(t, excluded, n) == Root

\* nearest_visible_directory: the first visible directory on the way up.
NearestVisibleDirectory(t, excluded, n) ==
  LET found == {a \in Nodes(t) : /\ n \in Nodes(t)
                                 /\ a \in Above[t][n]
                                 /\ VisibleDirectory(t, excluded, a)}
  IN  IF found = {} THEN invalid_node
      ELSE CHOOSE a \in found : \A b \in found : b <= a

\* The selection that reconcile_analyzer_visibility leaves under a root that
\* is still visible.
ReconciledSelection(t, excluded, root, selected) ==
  LET nearest == NearestVisibleDirectory(t, excluded, selected)
  IN  IF IsVisible(t, excluded, selected) /\ root \in Above[t][selected]
      THEN selected
      ELSE IF nearest # invalid_node /\ root \in Above[t][nearest]
      THEN nearest
      ELSE root

\* A seeded fault: a hidden place stays on display.
Unreconciled(nav, t, excluded) == nav

\* reconcile_analyzer_visibility, called while the analyzer is shown.
Reconciled(nav, t, excluded) ==
  LET root == NearestVisibleDirectory(t, excluded, nav.root)
  IN  IF root = invalid_node THEN nav
      ELSE IF root # nav.root THEN [nav EXCEPT !.root = root, !.selected = root]
      ELSE [nav EXCEPT !.selected =
              ReconciledSelection(t, excluded, nav.root, nav.selected)]
=============================================================================
